-------------------------- MODULE ForwardingProofs ---------------------------
(***************************************************************************)
(* Forwarding for any number of generations, killed processes and releases *)
(* that fail: its types, that an exporter gives its device back, and that  *)
(* the goroutines of a serial session leave nothing open and never cross.  *)
(***************************************************************************)
EXTENDS Forwarding, TLAPS

Places == Ended \cup
  {"turn", "bind", "look", "attach", "port", "wait", "loop", "accept", "open", "bridge"}

\* What is bound has been claimed before.
BindClaims == \A g \in Generations : at[Server][g] = "bind" => claim[Server][g]

\* While nothing is lost, a device that is exported is claimed by a goroutine
\* that has not ended and so will give it back.
ExportClaimed ==
  kind = "usb" /\ losses = 0 /\ exported =>
    \E g \in Generations : Live(Server, g) /\ claim[Server][g]

Inv == TypeOK /\ BindClaims /\ ExportClaimed

-----------------------------------------------------------------------------
(* What the helpers do *)

\* The two nodes of a session are different nodes.
LEMMA NodesDiffer == Server \in Nodes /\ Client \in Nodes /\ Server # Client
BY NodesAssumption DEF Nodes

\* Generations are numbers above 0, which stands for no one.
LEMMA GenerationsTyped == Generations \subseteq Nat /\ NoOne \notin Generations /\ 1 \in Generations
BY BoundsAssumption DEF Generations, NoOne

\* Every goroutine of a session is at a place.
LEMMA PlacesTyped == TypeOK => at \in [Nodes -> [Generations -> Places]]
BY DEF TypeOK, Places

\* Goes moves one goroutine, and Records notes something for one.
LEMMA GoesMoves ==
  ASSUME TypeOK, NEW n \in Nodes, NEW g \in Generations, NEW to \in Places, Goes(n, g, to)
  PROVE  /\ at' \in [Nodes -> [Generations -> Places]]
         /\ at'[n][g] = to
         /\ \A m \in Nodes, h \in Generations : m # n \/ h # g => at'[m][h] = at[m][h]
BY PlacesTyped DEF Goes

\* A claim that is recorded is made, and the earlier ones stay.
LEMMA RecordsNotes ==
  ASSUME TypeOK, NEW n \in Nodes, NEW g \in Generations, Records(n, g, TRUE)
  PROVE  /\ claim' \in [Nodes -> [Generations -> BOOLEAN]]
         /\ claim'[n][g]
         /\ \A m \in Nodes, h \in Generations : claim[m][h] => claim'[m][h]
BY DEF Records, TypeOK

\* A step that keeps goroutines alive and claims made leaves a device claimed.
LEMMA ClaimsStay ==
  ASSUME Inv, UNCHANGED kind, losses' = 0 => losses = 0, exported' => exported,
         \A g \in Generations : claim[Server][g] => claim'[Server][g],
         \A g \in Generations : Live(Server, g) => at'[Server][g] \notin Ended
  PROVE  ExportClaimed'
BY DEF Inv, ExportClaimed, Live

-----------------------------------------------------------------------------
(* The invariant *)

\* Before anything is started the invariant holds.
THEOREM InitInv == Init => Inv
<1> SUFFICES ASSUME Init PROVE Inv
  OBVIOUS
<1>1. TypeOK
  <2>1. manager \in [Nodes -> {"running", "reloading", "stopping", "down"}]
        /\ generation \in [Nodes -> Generations]
        /\ claim \in [Nodes -> [Generations -> BOOLEAN]]
        /\ serialPort \in [Nodes -> Generations \cup {NoOne}]
    BY GenerationsTyped DEF Init
  <2>2. at \in [Nodes -> [Generations -> Ended \cup
          {"turn", "bind", "look", "attach", "port", "wait", "loop", "accept", "open", "bridge"}]]
    BY DEF Init, Ended
  <2>3. losses \in 0..MaxLosses
    BY BoundsAssumption DEF Init
  <2> QED BY <2>1, <2>2, <2>3 DEF Init, TypeOK
<1>2. BindClaims /\ ExportClaimed
  BY NodesDiffer DEF Init, BindClaims, ExportClaimed
<1> QED BY <1>1, <1>2 DEF Inv

\* Starting the next generation of a session keeps the invariant.
LEMMA BeginKeeps ==
  ASSUME Inv, NEW n \in Nodes, Begin(n), UNCHANGED <<claim, usb, serial, world>>
  PROVE  Inv'
<1>1. generation[n] + 1 \in Generations /\ generation' \in [Nodes -> Generations]
  <2>1. generation[n] \in Generations /\ generation[n] < MaxGenerations
    BY DEF Begin, Inv, TypeOK
  <2>2. generation[n] + 1 \in Generations
    BY <2>1, BoundsAssumption DEF Generations
  <2> QED BY <2>2 DEF Begin, Inv, TypeOK
<1>2. Goes(n, generation[n] + 1, "turn") /\ "turn" \in Places
  BY DEF Begin, Goes, Places
<1>3. at' \in [Nodes -> [Generations -> Places]]
  BY <1>1, <1>2, GoesMoves DEF Inv
<1>4. \A m \in Nodes, h \in Generations : at'[m][h] \in {at[m][h], "turn"}
  BY <1>1, <1>2, GoesMoves DEF Inv
<1>5. manager' \in [Nodes -> {"running", "reloading", "stopping", "down"}]
  BY DEF Begin, Inv, TypeOK
<1>6. TypeOK'
  BY <1>1, <1>3, <1>5 DEF Inv, TypeOK, Places, usb, serial, world
<1>7. BindClaims'
  BY <1>4, NodesDiffer DEF Inv, BindClaims
<1>8. ExportClaimed'
  BY <1>4, NodesDiffer, ClaimsStay DEF Live, Ended, usb, world
<1> QED BY <1>6, <1>7, <1>8 DEF Inv

\* The end of an agent keeps the invariant, when its goroutines are over or as a loss.
LEMMA GoneKeeps ==
  ASSUME Inv, NEW n \in Nodes, Gone(n), UNCHANGED <<kind, calm>>, losses' \in 0..MaxLosses,
         losses' # 0 \/ (losses = 0 /\ \A g \in Generations : ~Live(n, g))
  PROVE  Inv'
<1>1. /\ at' \in [Nodes -> [Generations -> Places]]
      /\ \A m \in Nodes, h \in Generations : at'[m][h] = at[m][h] \/ at'[m][h] = "done"
      /\ \A m \in Nodes \ {n}, h \in Generations : at'[m][h] = at[m][h]
  BY PlacesTyped DEF Gone, Inv, Places, Ended
<1>2. TypeOK'
  BY <1>1 DEF Gone, Inv, TypeOK, Places, usb
<1>3. BindClaims'
  BY <1>1, NodesDiffer DEF Gone, Inv, BindClaims
<1>4. CASE losses' # 0
  BY <1>2, <1>3, <1>4 DEF Inv, ExportClaimed
<1>5. CASE losses = 0 /\ n = Server /\ \A g \in Generations : ~Live(n, g)
  <2>1. kind = "usb" => ~exported
    BY <1>5 DEF Inv, ExportClaimed
  <2> QED BY <1>2, <1>3, <2>1 DEF Inv, ExportClaimed, Gone, usb
<1>6. CASE losses = 0 /\ n # Server
  <2>1. ExportClaimed'
    BY <1>1, <1>6, NodesDiffer, ClaimsStay DEF Gone, usb, Live
  <2> QED BY <1>2, <1>3, <2>1 DEF Inv
<1> QED BY <1>4, <1>5, <1>6

\* Starting and restarting the session, and the end of a stopped agent, keep the invariant.
LEMMA ManageKeeps ==
  ASSUME Inv, NEW n \in Nodes, Manage(n)
  PROVE  Inv'
<1>1. CASE Start(n) \/ Reloaded(n)
  BY <1>1, BeginKeeps DEF Start, Reloaded
<1>2. CASE Stopped(n)
  <2>1. \A g \in Generations : ~Live(n, g)
    BY <1>2 DEF Stopped
  <2>2. losses' = losses /\ losses \in 0..MaxLosses /\ UNCHANGED <<kind, calm>> /\ Gone(n)
    BY <1>2 DEF Stopped, world, Inv, TypeOK
  <2> QED BY <2>1, <2>2, GoneKeeps
<1> QED BY <1>1, <1>2 DEF Manage

\* A loss is one of at most MaxLosses.
LEMMA LosesCounts == ASSUME TypeOK, Loses PROVE losses' \in 0..MaxLosses /\ losses' # 0
BY BoundsAssumption DEF TypeOK, Loses

\* An agent that is killed keeps the invariant: it counts as a loss.
LEMMA CrashKeeps ==
  ASSUME Inv, NEW n \in Nodes, Crash(n)
  PROVE  Inv'
BY LosesCounts, GoneKeeps DEF Crash, Inv

\* Cancelling the session's context keeps the invariant.
LEMMA AskedKeeps ==
  ASSUME Inv, NEW n \in Nodes, Reload(n) \/ Stop(n)
  PROVE  Inv'
<1>1. TypeOK'
  BY DEF Reload, Stop, Inv, TypeOK, threads, usb, serial, world
<1>2. BindClaims'
  BY DEF Reload, Stop, Inv, BindClaims, threads
<1>3. ExportClaimed'
  BY DEF Reload, Stop, Inv, ExportClaimed, Live, threads, usb, world
<1> QED BY <1>1, <1>2, <1>3 DEF Inv

-----------------------------------------------------------------------------
(* A step of a session's goroutine *)

UsbTyped ==
  /\ plugged \in BOOLEAN
  /\ exported \in BOOLEAN /\ exported => plugged
  /\ imported \in BOOLEAN /\ imported => exported

SerialTyped ==
  /\ listening \in Generations \cup {NoOne}
  /\ conns \in SUBSET [from : Generations, to : Generations, accepted : BOOLEAN]
  /\ serialPort \in [Nodes -> Generations \cup {NoOne}]

\* The parts of the type invariant, for the steps of one session.
LEMMA PartsTyped ==
  ASSUME Inv
  PROVE  UsbTyped /\ SerialTyped /\ losses \in 0..MaxLosses
BY DEF Inv, TypeOK, UsbTyped, SerialTyped

\* A step may end a claim only with the export, and export only what is claimed.
LEMMA StepKeeps ==
  ASSUME Inv, NEW n \in Nodes, NEW g \in Generations, NEW to \in Places, Goes(n, g, to),
         UNCHANGED <<life, kind, calm>>, claim' = claim \/ Records(n, g, TRUE),
         losses' \in 0..MaxLosses, losses' = 0 => losses = 0, UsbTyped', SerialTyped',
         n = Server /\ to = "bind" => claim'[Server][g],
         kind = "usb" /\ n = Server /\ losses' = 0 /\ exported' =>
           to \notin Ended \/ ~claim[Server][g],
         exported' => exported \/ (n = Server /\ claim[Server][g] /\ to \notin Ended)
  PROVE  Inv'
<1> USE NodesDiffer
<1>1. /\ at' \in [Nodes -> [Generations -> Places]] /\ at'[n][g] = to
      /\ \A m \in Nodes, h \in Generations : m # n \/ h # g => at'[m][h] = at[m][h]
  BY GoesMoves DEF Inv
<1>2. /\ claim' \in [Nodes -> [Generations -> BOOLEAN]]
      /\ \A m \in Nodes, h \in Generations : claim[m][h] => claim'[m][h]
  BY RecordsNotes DEF Inv, TypeOK
<1>3. TypeOK'
  <2>1. (manager \in [Nodes -> {"running", "reloading", "stopping", "down"}]
         /\ generation \in [Nodes -> Generations]
         /\ kind \in {"serial", "usb"} /\ calm \in BOOLEAN)'
    BY DEF life, Inv, TypeOK
  <2> QED BY <1>1, <1>2, <2>1 DEF TypeOK, Places, UsbTyped, SerialTyped
<1>4. BindClaims'
  BY <1>1, <1>2 DEF Inv, BindClaims
<1>5. ExportClaimed'
  <2> SUFFICES ASSUME kind = "usb", losses' = 0, exported'
               PROVE  \E h \in Generations : at'[Server][h] \notin Ended /\ claim'[Server][h]
    BY DEF ExportClaimed, Live
  <2>1. CASE n = Server /\ claim[Server][g] /\ to \notin Ended
    BY <1>1, <1>2, <2>1
  <2>2. CASE exported /\ (n # Server \/ ~claim[Server][g] \/ to \notin Ended)
    <3>1. PICK h \in Generations : at[Server][h] \notin Ended /\ claim[Server][h]
      BY <2>2 DEF Inv, ExportClaimed, Live
    <3> QED BY <1>1, <1>2, <2>2, <3>1
  <2> QED BY <2>1, <2>2
<1> QED BY <1>3, <1>4, <1>5 DEF Inv

-----------------------------------------------------------------------------
(* The steps of a USB session *)

\* Binding a device keeps the invariant.
LEMMA BindKeeps ==
  ASSUME Inv, NEW g \in Generations, at[Server][g] = "bind", Bind(g),
         UNCHANGED <<life, serial, world>>
  PROVE  Inv'
<1>1. Goes(Server, g, "wait") /\ "wait" \in Places /\ "wait" \notin Ended /\ claim[Server][g]
  BY DEF Bind, Places, Ended, Inv, BindClaims
<1>2. UsbTyped' /\ SerialTyped' /\ losses' = losses /\ UNCHANGED <<life, kind, calm, claim>>
  BY PartsTyped DEF Bind, UsbTyped, SerialTyped, serial, world
<1>3. losses' \in 0..MaxLosses
  BY <1>2, PartsTyped
<1> QED BY <1>1, <1>2, <1>3, StepKeeps, NodesDiffer

\* Looking for the device to export, and claiming it, keeps the invariant.
LEMMA ResolveKeeps ==
  ASSUME Inv, NEW g \in Generations, Resolve(g), UNCHANGED <<life, serial, world>>
  PROVE  Inv'
<1>1. UsbTyped' /\ SerialTyped' /\ losses' = losses /\ losses' \in 0..MaxLosses
      /\ UNCHANGED <<life, kind, calm, exported>>
  BY PartsTyped DEF Resolve, UsbTyped, SerialTyped, usb, serial, world
<1>2. CASE plugged
  <2>1. Goes(Server, g, "bind") /\ "bind" \in Places /\ "bind" \notin Ended
        /\ Records(Server, g, TRUE)
    BY <1>2 DEF Resolve, Places, Ended
  <2>2. claim'[Server][g]
    BY <2>1, RecordsNotes, NodesDiffer DEF Inv
  <2> QED BY <1>1, <2>1, <2>2, StepKeeps, NodesDiffer
<1>3. CASE ~plugged
  <2>1. Goes(Server, g, "wait") /\ "wait" \in Places /\ "wait" \notin Ended /\ claim' = claim
    BY <1>3 DEF Resolve, Places, Ended
  <2> QED BY <1>1, <2>1, StepKeeps, NodesDiffer
<1> QED BY <1>2, <1>3

\* An unbind that fails is a loss; one that works ends the export.
LEMMA UnbindKeeps ==
  ASSUME Inv, NEW g \in Generations, Unbind(g), UNCHANGED <<life, serial, kind, calm>>
  PROVE  Inv'
<1>1. Goes(Server, g, "done") /\ "done" \in Places /\ claim' = claim /\ SerialTyped'
  BY PartsTyped DEF Unbind, Places, Ended, SerialTyped, serial
<1>2. losses' \in 0..MaxLosses /\ (losses' = 0 => losses = 0)
  BY LosesCounts, PartsTyped DEF Unbind, Inv
<1>3. UsbTyped' /\ (exported' => exported)
  BY PartsTyped DEF Unbind, UsbTyped
<1>4. losses' = 0 /\ exported' => ~claim[Server][g]
  BY LosesCounts DEF Unbind, Inv
<1> QED BY <1>1, <1>2, <1>3, <1>4, StepKeeps, NodesDiffer

\* A step of the exporter keeps the invariant.
LEMMA ExporterKeeps ==
  ASSUME Inv, NEW g \in Generations, Exporter(g)
  PROVE  Inv'
BY BindKeeps, ResolveKeeps, UnbindKeeps DEF Exporter, world

\* No step of an attacher touches the export.
LEMMA AttacherKeeps ==
  ASSUME Inv, NEW g \in Generations, Attacher(g)
  PROVE  Inv'
<1>1. UNCHANGED <<life, kind, calm, plugged, exported>> /\ SerialTyped'
  BY PartsTyped DEF Attacher, ResolveRemote, Look, Attach, LookAgain, Detach, usb, serial, SerialTyped
<1>2. losses' \in 0..MaxLosses /\ (losses' = 0 => losses = 0)
  BY LosesCounts, PartsTyped DEF Attacher, Detach, Inv
<1>3. UsbTyped'
  <2>1. imported' = TRUE \/ imported' = FALSE \/ imported' = imported
    BY PartsTyped, ZenonT(30) DEF Attacher, ResolveRemote, Look, Attach, LookAgain, Detach, usb
  <2>2. imported' => imported \/ exported
    BY DEF Attacher, ResolveRemote, Look, Attach, LookAgain, Detach, usb
  <2> QED BY <1>1, <2>1, <2>2, PartsTyped DEF UsbTyped
<1>4. \E to \in Places : Goes(Client, g, to)
  BY DEF Attacher, ResolveRemote, Look, Attach, LookAgain, Detach, Places, Ended
<1>5. claim' = claim \/ Records(Client, g, TRUE)
  BY DEF Attacher, ResolveRemote, Look, Attach, LookAgain, Detach
<1> QED BY <1>1, <1>2, <1>3, <1>4, <1>5, StepKeeps, NodesDiffer

\* A goroutine that has waited and looks again keeps the invariant.
LEMMA TurnKeeps ==
  ASSUME Inv, NEW n \in Nodes, NEW g \in Generations, Turn(n, g)
  PROVE  Inv'
<1>1. Goes(n, g, "turn") /\ "turn" \in Places /\ "turn" \notin Ended
      /\ UNCHANGED <<life, kind, calm, claim, losses, exported>>
  BY DEF Turn, Places, Ended, usb, world
<1>2. UsbTyped' /\ SerialTyped' /\ losses' \in 0..MaxLosses
  BY PartsTyped DEF Turn, UsbTyped, SerialTyped, usb, serial, world
<1> QED BY <1>1, <1>2, StepKeeps

-----------------------------------------------------------------------------
(* The steps of a serial session *)

\* A step of a bridge leaves every variable of its type.
LEMMA BridgeTyped ==
  ASSUME Inv, NEW n \in Nodes, NEW g \in Generations, Bridge(n, g)
  PROVE  SerialTyped' /\ \E to \in Places \ {"bind"} : Goes(n, g, to)
<1>1. CASE Open(n, g)
  BY <1>1, PartsTyped DEF Open, SerialTyped, Places, Ended
<1>2. CASE OpenFails(n, g)
  BY <1>2, PartsTyped DEF OpenFails, SerialTyped, Places, Ended
<1>3. CASE Unbridge(n, g)
  BY <1>3, PartsTyped DEF Unbridge, Frees, SerialTyped, Places, Ended
<1> QED BY <1>1, <1>2, <1>3 DEF Bridge

\* A step of a listening serial session leaves every variable of its type.
LEMMA ListenerTyped ==
  ASSUME Inv, NEW g \in Generations, Listener(g)
  PROVE  SerialTyped' /\ \E to \in Places \ {"bind"} : Goes(Server, g, to)
<1>1. CASE Bridge(Server, g)
  BY <1>1, BridgeTyped, NodesDiffer
<1>2. CASE Listen(g) \/ KeepListening(g) \/ Deadline(g) \/ Unlisten(g)
  BY <1>2, PartsTyped DEF Listen, KeepListening, Deadline, Unlisten, SerialTyped, serial, Places, Ended
<1>3. CASE Accept(g)
  <2>1. PICK c \in Of(Server, g) : conns' = (conns \ {c}) \cup {[c EXCEPT !.accepted = TRUE]}
    BY <1>3 DEF Accept
  <2>2. c \in [from : Generations, to : Generations, accepted : BOOLEAN]
    BY PartsTyped DEF SerialTyped, Of
  <2>3. [c EXCEPT !.accepted = TRUE] \in [from : Generations, to : Generations, accepted : BOOLEAN]
    BY <2>2
  <2> QED BY <1>3, <2>1, <2>3, PartsTyped DEF Accept, SerialTyped, Places
<1> QED BY <1>1, <1>2, <1>3 DEF Listener

\* A step of a dialling serial session leaves every variable of its type.
LEMMA DialerTyped ==
  ASSUME Inv, NEW g \in Generations, Dialer(g)
  PROVE  SerialTyped' /\ \E to \in Places \ {"bind"} : Goes(Client, g, to)
<1>1. CASE Bridge(Client, g)
  BY <1>1, BridgeTyped, NodesDiffer
<1>2. CASE StopDialing(g)
  BY <1>2, PartsTyped DEF StopDialing, SerialTyped, serial, Places, Ended
<1>3. CASE Dial(g)
  <2>1. \E to \in Places \ {"bind"} : Goes(Client, g, to)
    BY <1>3 DEF Dial, Places
  <2>2. listening # NoOne =>
          [from |-> g, to |-> listening, accepted |-> FALSE]
            \in [from : Generations, to : Generations, accepted : BOOLEAN]
    BY PartsTyped DEF SerialTyped
  <2>3. SerialTyped'
    BY <1>3, <2>2, PartsTyped DEF Dial, SerialTyped
  <2> QED BY <2>1, <2>3
<1> QED BY <1>1, <1>2, <1>3 DEF Dialer

\* A step of a serial session keeps the invariant.
LEMMA SerialKeeps ==
  ASSUME Inv, NEW n \in Nodes, NEW g \in Generations, kind = "serial",
         (n = Server /\ Listener(g)) \/ (n = Client /\ Dialer(g))
  PROVE  Inv'
<1>1. UNCHANGED <<life, claim, usb, world>>
  BY DEF Listener, Dialer
<1>2. SerialTyped' /\ \E to \in Places \ {"bind"} : Goes(n, g, to)
  BY ListenerTyped, DialerTyped
<1>3. UsbTyped' /\ losses' \in 0..MaxLosses
  BY <1>1, PartsTyped DEF UsbTyped, usb, world
<1> QED BY <1>1, <1>2, <1>3, StepKeeps DEF usb, world

-----------------------------------------------------------------------------
(* The world, and all steps *)

\* Devices and connections that come and go keep the invariant.
LEMMA WorldKeeps ==
  ASSUME Inv, Unplug \/ Plug \/ Break \/ CalmDown
  PROVE  Inv'
<1>1. TypeOK'
  <2>1. UNCHANGED <<life, threads, kind, losses>> /\ (calm' = calm \/ calm' = TRUE)
    BY DEF Unplug, Plug, Break, CalmDown, world
  <2>2. UsbTyped'
    <3>1. CASE Unplug
      BY <3>1 DEF Unplug, UsbTyped
    <3>2. CASE Plug
      BY <3>2, PartsTyped DEF Plug, UsbTyped
    <3>3. CASE Break \/ CalmDown
      BY <3>3, PartsTyped DEF Break, CalmDown, UsbTyped, usb
    <3> QED BY <3>1, <3>2, <3>3
  <2>3. SerialTyped'
    BY PartsTyped DEF Unplug, Plug, Break, CalmDown, SerialTyped, serial
  <2> QED BY <2>1, <2>2, <2>3 DEF Inv, TypeOK, UsbTyped, SerialTyped, life, threads
<1>2. BindClaims'
  BY DEF Unplug, Plug, Break, CalmDown, Inv, BindClaims, threads
<1>3. ExportClaimed'
  BY DEF Unplug, Plug, Break, CalmDown, Inv, ExportClaimed, Live, threads, usb, world
<1> QED BY <1>1, <1>2, <1>3 DEF Inv

\* Every step of the agents, the sessions and the devices keeps the invariant.
THEOREM NextInv == Inv /\ [Next]_vars => Inv'
<1> SUFFICES ASSUME Inv, [Next]_vars PROVE Inv'
  OBVIOUS
<1>1. ASSUME NEW n \in Nodes, Manage(n) \/ Reload(n) \/ Stop(n) \/ Crash(n)
      PROVE  Inv'
  BY <1>1, ManageKeeps, AskedKeeps, CrashKeeps
<1>2. ASSUME NEW n \in Nodes, NEW g \in Generations, Step(n, g)
      PROVE  Inv'
  <2>1. CASE kind = "usb" /\ (IF n = Server THEN Exporter(g) ELSE Attacher(g))
    BY <2>1, ExporterKeeps, AttacherKeeps
  <2>2. CASE kind = "serial" /\ (IF n = Server THEN Listener(g) ELSE Dialer(g))
    BY <2>2, SerialKeeps DEF Nodes
  <2>3. CASE Turn(n, g)
    BY <2>3, TurnKeeps
  <2> QED BY <1>2, <2>1, <2>2, <2>3 DEF Step
<1>3. CASE Unplug \/ Plug \/ Break \/ CalmDown
  BY <1>3, WorldKeeps
<1>4. CASE UNCHANGED vars
  <2>1. TypeOK'
    BY <1>4 DEF Inv, TypeOK, vars, life, threads, usb, serial, world
  <2>2. BindClaims' /\ ExportClaimed'
    BY <1>4 DEF Inv, BindClaims, ExportClaimed, Live, vars, life, threads, usb, serial, world
  <2> QED BY <2>1, <2>2 DEF Inv
<1> QED BY <1>1, <1>2, <1>3, <1>4 DEF Next

\* The invariant holds in every behaviour.
THEOREM InvHolds == Spec => []Inv
BY InitInv, NextInv, PTL DEF Spec

\* Connections, ports, claims and devices are well formed: what is attached is
\* exported, and what is exported is plugged in.
THEOREM TypeCorrect == Spec => []TypeOK
<1>1. Inv => TypeOK
  BY DEF Inv
<1> QED BY <1>1, InvHolds, PTL

\* When the exporter's goroutines have all ended the device is back with its
\* own driver, for any number of generations that overlap.
THEOREM GivenBack == Spec => []ReleasedWhenEnded
<1>1. Inv => ReleasedWhenEnded
  BY DEF Inv, ExportClaimed, ReleasedWhenEnded
<1> QED BY <1>1, InvHolds, PTL

-----------------------------------------------------------------------------
(* What the goroutines of a serial session hold *)

\* Where the listener's goroutine has the TCP port.
Holding == {"loop", "accept", "open", "bridge"}

\* A generation that has not been started has no goroutine.
Unborn == \A n \in Nodes, g \in Generations : g > generation[n] => at[n][g] = "none"

\* A USB session opens no port and no connection.
Idle == listening = NoOne /\ conns = {} /\ \A n \in Nodes : serialPort[n] = NoOne

\* Who has a port is where it says so, and the other way round.
Owned ==
  /\ \A n \in Nodes, g \in Generations : serialPort[n] = g <=> at[n][g] = "bridge"
  /\ \A g \in Generations : listening = g <=> at[Server][g] \in Holding

\* A connection has a dialer that waits for it or carries it, and leads to the
\* listener there is; a dialer has one, and a listener accepts one at a time.
Connected ==
  /\ \A c \in conns :
       /\ at[Client][c.from] \in {"open", "bridge"}
       /\ c.to = listening
       /\ c.accepted => at[Server][c.to] \in {"open", "bridge"}
  /\ \A c, d \in conns : c.from = d.from \/ (c.accepted /\ d.accepted) => c = d

\* The second invariant: what the goroutines of a session hold.
Held ==
  /\ Unborn
  /\ kind = "usb" => Idle
  /\ kind = "serial" => Owned /\ Connected

\* A connection is a record of two generations.
LEMMA ConnsTyped ==
  ASSUME TypeOK, NEW c \in conns
  PROVE  c \in [from : Generations, to : Generations, accepted : BOOLEAN]
BY DEF TypeOK

\* At first no goroutine holds anything.
LEMMA InitHeld == Init => Held
<1> SUFFICES ASSUME Init PROVE Held
  OBVIOUS
<1> USE NodesDiffer, GenerationsTyped
<1>1. Unborn
  <2> SUFFICES ASSUME NEW n \in Nodes, NEW g \in Generations, g > generation[n]
               PROVE  at[n][g] = "none"
    BY DEF Unborn
  <2>1. generation[n] = 1 /\ at[n][g] = IF g = 1 THEN "turn" ELSE "none"
    BY DEF Init
  <2> QED BY <2>1
<1>2. Idle /\ Owned /\ Connected
  <2>1. \A n \in Nodes, g \in Generations : at[n][g] \in {"turn", "none"} /\ serialPort[n] = NoOne
    BY DEF Init
  <2> QED BY <2>1 DEF Init, Idle, Owned, Connected, Holding
<1> QED BY <1>1, <1>2 DEF Held

\* A goroutine of a generation that was started moves on.
LEMMA UnbornStays ==
  ASSUME Inv, Unborn, NEW n \in Nodes, NEW g \in Generations, NEW to \in Places, Goes(n, g, to),
         at[n][g] # "none", UNCHANGED generation
  PROVE  Unborn'
BY GoesMoves DEF Inv, Unborn

\* A step that touches no port, and moves goroutines only where none is held.
LEMMA NothingTaken ==
  ASSUME Inv, Held, UNCHANGED <<kind, serial>>, Unborn',
         kind = "serial" => \A m \in Nodes, h \in Generations :
           at'[m][h] = at[m][h] \/ (at[m][h] \notin Holding /\ at'[m][h] \notin Holding)
  PROVE  Held'
<1> USE NodesDiffer
<1>1. kind = "usb" => Idle'
  BY DEF Held, Idle, serial
<1>2. CASE kind = "serial"
  <2>1. Owned'
    BY <1>2 DEF Held, Owned, Holding, serial
  <2>2. Connected'
    <3>1. ASSUME NEW c \in conns'
          PROVE  /\ at'[Client][c.from] \in {"open", "bridge"}
                 /\ c.to = listening'
                 /\ c.accepted => at'[Server][c.to] \in {"open", "bridge"}
      <4>1. c \in conns /\ c.from \in Generations /\ c.to \in Generations
        BY <3>1, ConnsTyped DEF serial, Inv
      <4>2. /\ at[Client][c.from] \in {"open", "bridge"}
            /\ c.to = listening
            /\ c.accepted => at[Server][c.to] \in {"open", "bridge"}
        BY <4>1, <1>2 DEF Held, Connected
      <4> QED BY <4>1, <4>2, <1>2 DEF Holding, serial
    <3> QED BY <3>1, <1>2 DEF Held, Connected, serial
  <2> QED BY <2>1, <2>2, <1>2, <1>1 DEF Held
<1> QED BY <1>1, <1>2 DEF Held

\* The next generation begins with nothing.
LEMMA BeginHeld ==
  ASSUME Inv, Held, NEW n \in Nodes, Begin(n), UNCHANGED <<kind, serial>>
  PROVE  Held'
<1>1. generation[n] \in Generations /\ generation[n] + 1 \in Generations
  BY BoundsAssumption DEF Begin, Inv, TypeOK, Generations
<1>2. Goes(n, generation[n] + 1, "turn") /\ "turn" \in Places
  BY DEF Begin, Goes, Places
<1>3. /\ at'[n][generation[n] + 1] = "turn"
      /\ \A m \in Nodes, h \in Generations :
           m # n \/ h # generation[n] + 1 => at'[m][h] = at[m][h]
  BY <1>1, <1>2, GoesMoves DEF Inv
<1>4. at[n][generation[n] + 1] = "none"
  <2>1. generation[n] \in Nat
    BY <1>1, GenerationsTyped
  <2>2. generation[n] + 1 > generation[n]
    BY <2>1
  <2> QED BY <1>1, <2>2 DEF Held, Unborn
<1>5. Unborn'
  <2> SUFFICES ASSUME NEW m \in Nodes, NEW h \in Generations, h > generation'[m]
               PROVE  at'[m][h] = "none"
    BY DEF Unborn
  <2>1. generation'[m] = IF m = n THEN generation[n] + 1 ELSE generation[m]
    BY DEF Begin, Inv, TypeOK
  <2>2. generation[m] \in Nat /\ h \in Nat
    BY GenerationsTyped DEF Inv, TypeOK
  <2>3. h > generation[m] /\ (m # n \/ h # generation[n] + 1)
    BY <2>1, <2>2
  <2> QED BY <2>3, <1>3 DEF Held, Unborn
<1> QED BY <1>3, <1>4, <1>5, NothingTaken DEF Holding

\* The end of a process leaves it nothing.
LEMMA GoneHeld ==
  ASSUME Inv, Held, NEW n \in Nodes, Gone(n), UNCHANGED kind
  PROVE  Held'
<1> USE NodesDiffer, GenerationsTyped
<1>1. /\ \A h \in Generations : at'[n][h] \in Ended /\ (at[n][h] = "none" => at'[n][h] = "none")
      /\ \A m \in Nodes \ {n}, h \in Generations : at'[m][h] = at[m][h]
  BY DEF Gone, Inv, TypeOK, Live, Ended
<1>2. /\ conns' = {} /\ UNCHANGED generation
      /\ listening' = IF n = Server THEN NoOne ELSE listening
      /\ \A m \in Nodes : serialPort'[m] = IF m = n THEN NoOne ELSE serialPort[m]
  BY DEF Gone, Inv, TypeOK
<1>3. Unborn'
  BY <1>1, <1>2 DEF Held, Unborn
<1>4. kind = "usb" => Idle'
  BY <1>2 DEF Held, Idle
<1>5. kind = "serial" => Owned'
  <2> SUFFICES ASSUME kind = "serial" PROVE Owned'
    OBVIOUS
  <2>1. \A m \in Nodes, g \in Generations : serialPort'[m] = g <=> at'[m][g] = "bridge"
    BY <1>1, <1>2 DEF Held, Owned, Ended
  <2>2. \A g \in Generations : listening' = g <=> at'[Server][g] \in Holding
    BY <1>1, <1>2 DEF Held, Owned, Ended, Holding
  <2> QED BY <2>1, <2>2 DEF Owned
<1>6. Connected'
  BY <1>2 DEF Connected
<1> QED BY <1>3, <1>4, <1>5, <1>6 DEF Held

\* Nothing is taken when agents are started, reloaded and stopped.
LEMMA ManageHeld ==
  ASSUME Inv, Held, NEW n \in Nodes, Manage(n) \/ Reload(n) \/ Stop(n) \/ Crash(n)
  PROVE  Held'
<1>1. CASE Start(n) \/ Reloaded(n)
  BY <1>1, BeginHeld DEF Start, Reloaded, world
<1>2. CASE Stopped(n) \/ Crash(n)
  BY <1>2, GoneHeld DEF Stopped, Crash, world
<1>3. CASE Reload(n) \/ Stop(n)
  <2>1. UNCHANGED <<kind, serial, at, generation>>
    BY <1>3 DEF Reload, Stop, threads, world
  <2>2. Unborn'
    BY <2>1 DEF Held, Unborn
  <2> QED BY <2>1, <2>2, NothingTaken
<1> QED BY <1>1, <1>2, <1>3 DEF Manage

-----------------------------------------------------------------------------
(* What a serial session's steps take and leave *)

\* The dialer has stopped waiting for its connection, or its bridge has ended.
LEMMA LetGo ==
  ASSUME Inv, Held, kind = "serial", UNCHANGED <<kind, listening, generation>>,
         NEW n \in Nodes, NEW g \in Generations, at[n][g] \in {"open", "bridge"},
         conns' = conns \ (IF n = Server THEN Accepted(g) ELSE Of(Client, g)),
         Goes(n, g, IF n = Server THEN "loop" ELSE "wait"),
         \/ at[n][g] = "bridge" /\ Frees(n, g)
         \/ at[n][g] = "open" /\ UNCHANGED serialPort
  PROVE  Held'
<1> USE NodesDiffer, GenerationsTyped
<1> TypeOK
  BY DEF Inv
<1> DEFINE to == IF n = Server THEN "loop" ELSE "wait"
<1>1. /\ Goes(n, g, to) /\ to \in Places /\ at'[n][g] = to
      /\ \A m \in Nodes, h \in Generations : m # n \/ h # g => at'[m][h] = at[m][h]
  BY GoesMoves DEF Places
<1>2. Unborn'
  BY <1>1, UnbornStays DEF Held
<1>3. \A m \in Nodes, h \in Generations : serialPort'[m] = h <=> at'[m][h] = "bridge"
  <2>1. \A m \in Nodes, h \in Generations : serialPort[m] = h <=> at[m][h] = "bridge"
    BY DEF Held, Owned
  <2>2. CASE at[n][g] = "bridge" /\ Frees(n, g)
    <3>1. \A m \in Nodes : serialPort'[m] = IF m = n THEN NoOne ELSE serialPort[m]
      BY <2>1, <2>2 DEF Frees, Inv, TypeOK
    <3> QED BY <1>1, <2>1, <2>2, <3>1
  <2>3. CASE at[n][g] = "open" /\ UNCHANGED serialPort
    BY <1>1, <2>1, <2>3
  <2> QED BY <2>2, <2>3
<1>4. \A h \in Generations : listening' = h <=> at'[Server][h] \in Holding
  BY <1>1 DEF Held, Owned, Holding
<1>5. ASSUME NEW c \in conns'
      PROVE  /\ at'[Client][c.from] \in {"open", "bridge"}
             /\ c.to = listening'
             /\ c.accepted => at'[Server][c.to] \in {"open", "bridge"}
  <2>1. c \in conns /\ c.from \in Generations /\ c.to \in Generations
    BY <1>5, ConnsTyped DEF Inv
  <2>2. /\ at[Client][c.from] \in {"open", "bridge"}
        /\ c.to = listening
        /\ c.accepted => at[Server][c.to] \in {"open", "bridge"}
    BY <2>1 DEF Held, Connected
  <2>3. CASE n = Server
    <3>1. c.to = g => ~c.accepted
      BY <1>5, <2>1, <2>3 DEF Accepted, Of
    <3> QED BY <1>1, <2>1, <2>2, <2>3, <3>1
  <2>4. CASE n = Client
    <3>1. c.from # g
      BY <1>5, <2>1, <2>4 DEF Of
    <3> QED BY <1>1, <2>1, <2>2, <2>4, <3>1
  <2> QED BY <2>3, <2>4 DEF Nodes
<1>6. Connected'
  BY <1>5 DEF Held, Connected
<1>7. kind = "usb" => Idle'
  OBVIOUS
<1> QED BY <1>2, <1>3, <1>4, <1>6 DEF Held, Owned

\* Opening, carrying and ending a connection.
LEMMA BridgeHeld ==
  ASSUME Inv, Held, kind = "serial", UNCHANGED <<kind, generation>>,
         NEW n \in Nodes, NEW g \in Generations, Bridge(n, g)
  PROVE  Held'
<1> USE NodesDiffer, GenerationsTyped
<1> TypeOK
  BY DEF Inv
<1>1. CASE at[n][g] = "bridge" /\ Unbridge(n, g)
  BY <1>1, LetGo DEF Unbridge
<1>2. CASE at[n][g] = "open" /\ OpenFails(n, g)
  BY <1>2, LetGo DEF OpenFails
<1>3. CASE at[n][g] = "open" /\ Open(n, g)
  <2>1. /\ Goes(n, g, "bridge") /\ "bridge" \in Places /\ at'[n][g] = "bridge"
        /\ \A m \in Nodes, h \in Generations : m # n \/ h # g => at'[m][h] = at[m][h]
    BY <1>3, GoesMoves DEF Open, Places
  <2>2. Unborn'
    BY <1>3, <2>1, UnbornStays DEF Held
  <2>3. /\ serialPort[n] = NoOne /\ UNCHANGED <<listening, conns>>
        /\ \A m \in Nodes : serialPort'[m] = IF m = n THEN g ELSE serialPort[m]
    BY <1>3 DEF Open, Inv, TypeOK
  <2>4. \A m \in Nodes, h \in Generations : serialPort'[m] = h <=> at'[m][h] = "bridge"
    BY <2>1, <2>3 DEF Held, Owned
  <2>5. \A h \in Generations : listening' = h <=> at'[Server][h] \in Holding
    BY <1>3, <2>1, <2>3 DEF Held, Owned, Holding
  <2>6. ASSUME NEW c \in conns'
        PROVE  /\ at'[Client][c.from] \in {"open", "bridge"}
               /\ c.to = listening'
               /\ c.accepted => at'[Server][c.to] \in {"open", "bridge"}
    <3>1. c \in conns /\ c.from \in Generations /\ c.to \in Generations
      BY <2>3, <2>6, ConnsTyped DEF Inv
    <3> QED BY <2>1, <2>3, <3>1 DEF Held, Connected
  <2>7. Connected'
    BY <2>3, <2>6 DEF Held, Connected
  <2> QED BY <2>2, <2>4, <2>5, <2>7 DEF Held, Owned
<1> QED BY <1>1, <1>2, <1>3 DEF Bridge

\* A listener takes the port when no one has it, and gives it back at its end.
LEMMA ListenerHeld ==
  ASSUME Inv, Held, kind = "serial", NEW g \in Generations, Listener(g)
  PROVE  Held'
<1> USE NodesDiffer, GenerationsTyped
<1> TypeOK
  BY DEF Inv
<1>1. UNCHANGED <<kind, generation>>
  BY DEF Listener, life, world
<1>2. CASE Bridge(Server, g)
  BY <1>1, <1>2, BridgeHeld
<1>3. CASE at[Server][g] = "turn" /\ Listen(g)
  <2>1. CASE listening = NoOne /\ listening' = g /\ Goes(Server, g, "loop")
    <3>1. /\ at'[Server][g] = "loop" /\ "loop" \in Places
          /\ \A m \in Nodes, h \in Generations : m # Server \/ h # g => at'[m][h] = at[m][h]
      BY <2>1, GoesMoves DEF Places
    <3>2. Unborn'
      BY <1>1, <1>3, <2>1, <3>1, UnbornStays DEF Held
    <3>3. UNCHANGED <<conns, serialPort>>
      BY <1>3 DEF Listen
    <3>4. Owned'
      BY <1>3, <2>1, <3>1, <3>3 DEF Held, Owned, Holding
    <3>5. conns = {}
      <4>1. \A c \in conns : c.to \in Generations /\ c.to = listening
        BY ConnsTyped DEF Held, Connected, Inv
      <4> QED BY <2>1, <4>1
    <3>6. Connected'
      BY <3>3, <3>5 DEF Connected
    <3> QED BY <1>1, <3>2, <3>4, <3>6 DEF Held
  <2>2. CASE UNCHANGED listening /\ Goes(Server, g, "failed")
    <3> "failed" \in Places
      BY DEF Places, Ended
    <3>1. /\ at'[Server][g] = "failed"
          /\ \A m \in Nodes, h \in Generations : m # Server \/ h # g => at'[m][h] = at[m][h]
      BY <2>2, GoesMoves
    <3>2. Unborn'
      BY <1>1, <1>3, <2>2, <3>1, UnbornStays DEF Held
    <3> QED BY <1>1, <1>3, <2>2, <3>1, <3>2, NothingTaken DEF Holding, Listen, serial
  <2> QED BY <1>3, <2>1, <2>2 DEF Listen
<1>4. CASE \/ at[Server][g] = "loop" /\ KeepListening(g)
           \/ at[Server][g] = "accept" /\ Deadline(g)
  <2>1. PICK to \in {"loop", "accept"} : Goes(Server, g, to) /\ UNCHANGED serial
    BY <1>4 DEF KeepListening, Deadline
  <2>2. /\ at'[Server][g] = to /\ to \in Places
        /\ \A m \in Nodes, h \in Generations : m # Server \/ h # g => at'[m][h] = at[m][h]
    BY <2>1, GoesMoves DEF Places
  <2>3. Unborn'
    BY <1>1, <1>4, <2>1, <2>2, UnbornStays DEF Held
  <2>4. Owned'
    BY <1>4, <2>1, <2>2 DEF Held, Owned, Holding, serial
  <2>5. ASSUME NEW c \in conns'
        PROVE  /\ at'[Client][c.from] \in {"open", "bridge"}
               /\ c.to = listening'
               /\ c.accepted => at'[Server][c.to] \in {"open", "bridge"}
    <3>1. c \in conns /\ c.from \in Generations /\ c.to \in Generations
      BY <2>1, <2>5, ConnsTyped DEF Inv, serial
    <3> QED BY <1>4, <2>1, <2>2, <3>1 DEF Held, Connected, serial
  <2>6. Connected'
    BY <2>1, <2>5 DEF Held, Connected, serial
  <2> QED BY <1>1, <2>3, <2>4, <2>6 DEF Held
<1>5. CASE at[Server][g] = "accept" /\ Accept(g)
  <2>1. PICK c \in Of(Server, g) : conns' = (conns \ {c}) \cup {[c EXCEPT !.accepted = TRUE]}
    BY <1>5 DEF Accept
  <2> DEFINE d == [c EXCEPT !.accepted = TRUE]
  <2>2. /\ c \in conns /\ c.from \in Generations /\ c.to = g
        /\ d.from = c.from /\ d.to = g /\ d.accepted
    <3>1. c \in conns /\ c.to = g
      BY <2>1 DEF Of
    <3> QED BY <3>1, ConnsTyped DEF Inv
  <2>3. conns' = (conns \ {c}) \cup {d}
    BY <2>1
  <2> HIDE DEF d
  <2>4. /\ at'[Server][g] = "open" /\ "open" \in Places /\ Goes(Server, g, "open")
        /\ UNCHANGED <<listening, serialPort>>
        /\ \A m \in Nodes, h \in Generations : m # Server \/ h # g => at'[m][h] = at[m][h]
    BY <1>5, GoesMoves DEF Accept, Places
  <2>5. Unborn'
    BY <1>1, <1>5, <2>4, UnbornStays DEF Held
  <2>6. Owned'
    BY <1>5, <2>4 DEF Held, Owned, Holding
  <2>7. \A e \in conns : ~e.accepted
    <3>1. listening = g
      BY <1>5 DEF Held, Owned, Holding
    <3> QED BY <1>5, <3>1 DEF Held, Connected
  <2>8. ASSUME NEW e \in conns'
        PROVE  /\ at'[Client][e.from] \in {"open", "bridge"}
               /\ e.to = listening'
               /\ e.accepted => at'[Server][e.to] \in {"open", "bridge"}
    <3>1. CASE e = d
      <4>1. at[Client][c.from] \in {"open", "bridge"} /\ c.to = listening
        BY <2>2 DEF Held, Connected
      <4>2. e.from = c.from /\ e.to = g /\ g = listening'
        BY <2>2, <2>4, <3>1, <4>1
      <4> QED BY <2>2, <2>4, <4>1, <4>2
    <3>2. CASE e # d
      <4>1. e \in conns /\ e.from \in Generations /\ ~e.accepted
        BY <2>3, <2>7, <2>8, <3>2, ConnsTyped DEF Inv
      <4> QED BY <2>4, <4>1 DEF Held, Connected
    <3> QED BY <3>1, <3>2
  <2>9. \A e, f \in conns' : e.from = f.from \/ (e.accepted /\ f.accepted) => e = f
    BY <2>2, <2>3, <2>7 DEF Held, Connected
  <2> QED BY <1>1, <2>5, <2>6, <2>8, <2>9 DEF Held, Connected
<1>6. CASE at[Server][g] = "loop" /\ Unlisten(g)
  <2> "done" \in Places
    BY DEF Places, Ended
  <2>1. /\ at'[Server][g] = "done" /\ Goes(Server, g, "done")
        /\ listening' = NoOne /\ conns' = conns \ Of(Server, g) /\ UNCHANGED serialPort
        /\ \A m \in Nodes, h \in Generations : m # Server \/ h # g => at'[m][h] = at[m][h]
    BY <1>6, GoesMoves DEF Unlisten
  <2>2. Unborn'
    BY <1>1, <1>6, <2>1, UnbornStays DEF Held
  <2>3. Owned'
    BY <1>6, <2>1 DEF Held, Owned, Holding
  <2>4. conns' = {}
    <3>1. \A c \in conns : c.to = g
      BY <1>6 DEF Held, Owned, Connected, Holding
    <3> QED BY <2>1, <3>1 DEF Of
  <2> QED BY <1>1, <2>2, <2>3, <2>4 DEF Held, Connected
<1> QED BY <1>2, <1>3, <1>4, <1>5, <1>6 DEF Listener

\* A dialer gets a connection to the listener there is, and gives it back.
LEMMA DialerHeld ==
  ASSUME Inv, Held, kind = "serial", NEW g \in Generations, Dialer(g)
  PROVE  Held'
<1> USE NodesDiffer, GenerationsTyped
<1> TypeOK
  BY DEF Inv
<1>1. UNCHANGED <<kind, generation>>
  BY DEF Dialer, life, world
<1>2. CASE Bridge(Client, g)
  BY <1>1, <1>2, BridgeHeld
<1>3. CASE /\ at[Client][g] = "turn" /\ UNCHANGED serial
           /\ Goes(Client, g, "done") \/ Goes(Client, g, "wait")
  <2>1. PICK to \in {"done", "wait"} : Goes(Client, g, to)
    BY <1>3
  <2> to \in Places
    BY DEF Places, Ended
  <2>2. /\ at'[Client][g] = to
        /\ \A m \in Nodes, h \in Generations : m # Client \/ h # g => at'[m][h] = at[m][h]
    BY <2>1, GoesMoves
  <2>3. Unborn'
    BY <1>1, <1>3, <2>1, <2>2, UnbornStays DEF Held
  <2> QED BY <1>1, <1>3, <2>2, <2>3, NothingTaken DEF Holding
<1>4. CASE /\ at[Client][g] = "turn" /\ listening # NoOne
           /\ conns' = conns \cup {[from |-> g, to |-> listening, accepted |-> FALSE]}
           /\ Goes(Client, g, "open") /\ UNCHANGED <<listening, serialPort>>
  <2> DEFINE d == [from |-> g, to |-> listening, accepted |-> FALSE]
  <2>1. conns' = conns \cup {d} /\ d.from = g /\ d.to = listening /\ ~d.accepted
    BY <1>4
  <2> HIDE DEF d
  <2>2. /\ at'[Client][g] = "open" /\ "open" \in Places
        /\ \A m \in Nodes, h \in Generations : m # Client \/ h # g => at'[m][h] = at[m][h]
    BY <1>4, GoesMoves DEF Places
  <2>3. Unborn'
    BY <1>1, <1>4, <2>2, UnbornStays DEF Held
  <2>4. Owned'
    BY <1>4, <2>2 DEF Held, Owned, Holding
  <2>5. ASSUME NEW e \in conns
        PROVE  /\ at'[Client][e.from] \in {"open", "bridge"} /\ e.from # g
               /\ e.to = listening'
               /\ e.accepted => at'[Server][e.to] \in {"open", "bridge"}
    <3>1. e.from \in Generations /\ e.to \in Generations
      BY ConnsTyped DEF Inv
    <3> QED BY <1>4, <2>2, <3>1 DEF Held, Connected
  <2>6. Connected'
    BY <1>4, <2>1, <2>2, <2>5 DEF Held, Connected
  <2> QED BY <1>1, <2>3, <2>4, <2>6 DEF Held
<1> QED BY <1>2, <1>3, <1>4 DEF Dialer, Dial, StopDialing, serial

-----------------------------------------------------------------------------
(* All steps, and what follows *)

\* A goroutine of a USB session, or one that has waited, takes nothing.
LEMMA ElseHeld ==
  ASSUME Inv, Held, NEW n \in Nodes, NEW g \in Generations,
         \/ kind = "usb" /\ (IF n = Server THEN Exporter(g) ELSE Attacher(g))
         \/ Turn(n, g)
  PROVE  Held'
<1> USE NodesDiffer
<1> TypeOK
  BY DEF Inv
<1>1. UNCHANGED <<kind, serial, generation>> /\ at[n][g] # "none"
  BY DEF Nodes, Exporter, Attacher, Turn, life, world
<1>2. \E to \in Places : Goes(n, g, to)
  BY DEF Nodes, Turn, Exporter, Resolve, Bind, Unbind, Attacher, ResolveRemote, Look, Attach,
         LookAgain, Detach, Places, Ended
<1>3. Unborn'
  BY <1>1, <1>2, UnbornStays DEF Held
<1>4. kind = "serial" => \A m \in Nodes, h \in Generations :
        at'[m][h] = at[m][h] \/ (at[m][h] \notin Holding /\ at'[m][h] \notin Holding)
  <2> SUFFICES ASSUME kind = "serial"
               PROVE  \A m \in Nodes, h \in Generations :
                 at'[m][h] = at[m][h] \/ (at[m][h] \notin Holding /\ at'[m][h] \notin Holding)
    OBVIOUS
  <2>1. at[n][g] = "wait" /\ Goes(n, g, "turn") /\ "turn" \in Places
    BY DEF Turn, Places
  <2> QED BY <2>1, GoesMoves DEF Holding
<1> QED BY <1>1, <1>3, <1>4, NothingTaken

\* Devices, connections and the world take nothing.
LEMMA WorldHeld ==
  ASSUME Inv, Held, Unplug \/ Plug \/ Break \/ CalmDown
  PROVE  Held'
<1>1. UNCHANGED <<kind, at, generation, listening, serialPort>> /\ conns' \subseteq conns
  BY DEF Unplug, Plug, Break, CalmDown, life, threads, serial, world
<1>2. Unborn'
  BY <1>1 DEF Held, Unborn
<1>3. kind = "usb" => Idle'
  BY <1>1 DEF Held, Idle
<1>4. kind = "serial" => Owned' /\ Connected'
  BY <1>1 DEF Held, Owned, Connected
<1> QED BY <1>1, <1>2, <1>3, <1>4 DEF Held

\* Every step leaves the ports and connections with those who hold them.
LEMMA NextHeld == Inv /\ Held /\ [Next]_vars => Held'
<1> SUFFICES ASSUME Inv, Held, [Next]_vars PROVE Held'
  OBVIOUS
<1>1. ASSUME NEW n \in Nodes, NEW g \in Generations, Step(n, g)
      PROVE  Held'
  <2>1. CASE kind = "serial" /\ (IF n = Server THEN Listener(g) ELSE Dialer(g))
    BY <2>1, ListenerHeld, DialerHeld
  <2>2. CASE \/ kind = "usb" /\ (IF n = Server THEN Exporter(g) ELSE Attacher(g))
             \/ Turn(n, g)
    BY <2>2, ElseHeld
  <2> QED BY <1>1, <2>1, <2>2 DEF Step
<1>2. CASE Unplug \/ Plug \/ Break \/ CalmDown
  BY <1>2, WorldHeld
<1>3. CASE UNCHANGED vars
  BY <1>3 DEF vars, life, threads, serial, world, Held, Unborn, Idle, Owned, Connected
<1> QED BY <1>1, <1>2, <1>3, ManageHeld DEF Next

\* Whoever holds a port or a connection is where it says so, in every behaviour.
THEOREM HeldHolds == Spec => []Held
BY InitInv, InitHeld, NextInv, NextHeld, PTL DEF Spec

\* A goroutine that has come to its end, in any generation and in whatever way,
\* has left no serial port, connection or listener open.
THEOREM NothingLeftOpen == Spec => []HeldByTheLiving
<1>1. Inv /\ Held => HeldByTheLiving
  <2> SUFFICES ASSUME Inv, Held, NEW n \in Nodes, NEW g \in Generations, at[n][g] \in Ended
               PROVE  serialPort[n] # g /\ Of(n, g) = {} /\ (n = Server => listening # g)
    BY DEF HeldByTheLiving, Live
  <2>1. CASE kind = "usb"
    BY <2>1, GenerationsTyped DEF Held, Idle, Of
  <2>2. CASE kind = "serial"
    <3>1. serialPort[n] # g /\ (n = Server => listening # g)
      BY <2>2 DEF Held, Owned, Holding, Ended
    <3>2. \A c \in conns : IF n = Server THEN c.to # g ELSE c.from # g
      BY <2>2, <3>1, ConnsTyped DEF Nodes, Held, Connected, Ended
    <3> QED BY <3>1, <3>2 DEF Of
  <2> QED BY <2>1, <2>2 DEF Inv, TypeOK
<1> QED BY <1>1, InvHolds, HeldHolds, PTL

\* Whatever generations overlap, a serial port, which has one owner, is joined with
\* one connection.
THEOREM OneStream == Spec => []NeverCrossed
<1>1. Inv /\ Held => NeverCrossed
  <2> SUFFICES ASSUME Inv, Held, NEW n \in Nodes, NEW c \in conns, NEW d \in conns,
                      Bridges(n, c), Bridges(n, d)
               PROVE  c = d
    BY DEF NeverCrossed
  <2>1. kind = "serial"
    BY DEF Inv, TypeOK, Held, Idle
  <2>2. CASE n = Server
    BY <2>1, <2>2 DEF Bridges, Held, Connected
  <2>3. CASE n # Server
    <3>1. at[n][c.from] = "bridge" /\ at[n][d.from] = "bridge"
      BY <2>3 DEF Bridges, Nodes
    <3>2. serialPort[n] = c.from /\ serialPort[n] = d.from
      BY <2>1, <3>1, ConnsTyped DEF Held, Owned, Inv
    <3> QED BY <2>1, <3>2 DEF Held, Connected
  <2> QED BY <2>2, <2>3
<1> QED BY <1>1, InvHolds, HeldHolds, PTL

\* Only an older generation that has not come to its end makes the newest
\* listener give its session up, once nothing fails.
THEOREM OnlyTheOld == Spec => GivesUpToTheOld
<1> DEFINE newest == generation[Server]
           Refused == calm /\ at[Server][newest] = "turn" /\ at'[Server][newest] = "failed" =>
                        \E g \in 1..(newest - 1) : listening = g /\ Live(Server, g)
<1> USE NodesDiffer
<1>1. Inv /\ Held /\ [Next]_vars => Refused
  <2> SUFFICES ASSUME Inv, Held, [Next]_vars, calm, at[Server][newest] = "turn",
                      at'[Server][newest] = "failed"
               PROVE  \E g \in 1..(newest - 1) : listening = g /\ Live(Server, g)
    OBVIOUS
  <2> TypeOK
    BY DEF Inv
  <2>1. newest \in Generations /\ newest \in Nat
    BY GenerationsTyped DEF Inv, TypeOK
  <2>2. ASSUME NEW n \in Nodes, Manage(n) \/ Reload(n) \/ Stop(n) \/ Crash(n)
        PROVE  FALSE
    <3>1. CASE Start(n) \/ Reloaded(n)
      <4>1. generation[n] + 1 \in Generations /\ Goes(n, generation[n] + 1, "turn")
        BY <3>1, BoundsAssumption, GenerationsTyped
        DEF Start, Reloaded, Begin, Goes, Inv, TypeOK, Generations
      <4>2. at'[n][generation[n] + 1] = "turn"
            /\ \A m \in Nodes, h \in Generations :
                 m # n \/ h # generation[n] + 1 => at'[m][h] = at[m][h]
        BY <4>1, GoesMoves DEF Places
      <4> QED BY <2>1, <4>2
    <3>2. CASE Stopped(n) \/ Crash(n)
      <4>1. at'[Server][newest] \in {at[Server][newest], "done"}
        <5>1. at' = [at EXCEPT ![n] =
                       [h \in Generations |-> IF Live(n, h) THEN "done" ELSE at[n][h]]]
          BY <3>2 DEF Stopped, Crash, Gone
        <5>2. at \in [Nodes -> [Generations -> Places]]
          BY PlacesTyped DEF Inv
        <5>3. CASE n = Server
          BY <2>1, <5>1, <5>2, <5>3
        <5>4. CASE n # Server
          BY <2>1, <5>1, <5>2, <5>4
        <5> QED BY <5>3, <5>4
      <4> QED BY <4>1
    <3>3. CASE Reload(n) \/ Stop(n)
      BY <3>3 DEF Reload, Stop, threads
    <3> QED BY <2>2, <3>1, <3>2, <3>3 DEF Manage
  <2>3. ASSUME NEW n \in Nodes, NEW g \in Generations, Step(n, g)
        PROVE  kind = "serial" /\ listening # NoOne
    <3>1. \E to \in Places : Goes(n, g, to)
      BY <2>3 DEF Nodes, Step, Turn, Exporter, Resolve, Bind, Unbind, Attacher, ResolveRemote,
           Look, Attach, LookAgain, Detach, Listener, Listen, KeepListening, Accept, Deadline,
           Unlisten, Dialer, Dial, StopDialing, Bridge, Open, OpenFails, Unbridge, Places, Ended
    <3>2. n = Server /\ g = newest
      BY <2>1, <3>1, GoesMoves
    <3>3. at[Server][g] = "turn" /\ ~Goes(Server, g, "bind") /\ ~Goes(Server, g, "wait")
          /\ ~Goes(Server, g, "done") /\ ~Goes(Server, g, "loop")
      BY <2>1, <3>2, GoesMoves DEF Places, Ended
    <3>4. kind = "serial" /\ Listen(g)
      BY <2>3, <3>2, <3>3 DEF Step, Turn, Exporter, Resolve, Bind, Unbind, Listener, Bridge
    <3> QED BY <3>3, <3>4 DEF Listen
  <2>4. CASE \E n \in Nodes, g \in Generations : Step(n, g)
    <3>1. kind = "serial" /\ listening # NoOne
      BY <2>3, <2>4
    <3>2. listening \in Generations /\ at[Server][listening] \in Holding
      BY <3>1 DEF Inv, TypeOK, Held, Owned
    <3>3. Live(Server, listening) /\ listening # newest
      BY <3>2 DEF Live, Holding, Ended
    <3>4. ~(listening > newest)
      BY <3>2 DEF Held, Unborn, Holding
    <3>5. listening \in 1..(newest - 1)
      BY <2>1, <3>2, <3>3, <3>4 DEF Generations
    <3> QED BY <3>3, <3>5
  <2>5. CASE Unplug \/ Plug \/ Break \/ CalmDown \/ UNCHANGED vars
    BY <2>5 DEF Unplug, Plug, Break, CalmDown, threads, vars
  <2> QED BY <2>2, <2>4, <2>5 DEF Next
<1>2. Inv /\ Held /\ [Next]_vars => [Refused]_vars
  BY <1>1
<1> QED BY <1>2, InvHolds, HeldHolds, PTL DEF Spec, GivesUpToTheOld

=============================================================================
