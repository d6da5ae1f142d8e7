----------------------------- MODULE Forwarding -----------------------------
(***************************************************************************)
(* Serial and USB forwarding between two nodes                             *)
(* (packages/runtime/go/forwarding, and the managers' generations in       *)
(* clients/linux-agent/internal/agent/forwarding_runtime.go).              *)
(*                                                                         *)
(* One session is configured, of either kind: sessions share nothing.      *)
(* Server listens or exports its device, Client dials or attaches it.      *)
(* Every reload of an agent closes the manager it has and starts a new     *)
(* generation of it, after five seconds even if a goroutine of the old one *)
(* is not done: generations overlap.  Commands fail, cables and processes  *)
(* come and go until the world calms down.                                 *)
(***************************************************************************)
EXTENDS Naturals

CONSTANTS
  Server, Client,   \* the two nodes
  MaxGenerations,   \* bound: managers started on a node
  MaxLosses         \* bound: processes killed and releases that fail

ASSUME NodesAssumption  == Server # Client
ASSUME BoundsAssumption == MaxGenerations \in Nat \ {0} /\ MaxLosses \in Nat

Nodes       == {Server, Client}
Generations == 1..MaxGenerations
NoOne       == 0

VARIABLES
  kind,        \* of the session: "serial" or "usb"
  manager,     \* "running", "reloading", "stopping" or "down"
  generation,  \* the newest generation of a node's manager
  at,          \* where the session's goroutine of a generation is
  claim,       \* exportedBusID and attachedPort
  plugged,     \* the USB device is there
  exported,    \* it is bound to usbip-host
  imported,    \* it is attached at Client
  listening,   \* the generation of Server that holds the TCP port
  conns,       \* TCP connections, accepted or waiting to be
  serialPort,  \* the generation that holds a node's serial port
  losses, calm

threads == <<at, claim>>
life    == <<manager, generation>>
usb     == <<plugged, exported, imported>>
serial  == <<listening, conns, serialPort>>
world   == <<kind, losses, calm>>
vars    == <<life, threads, usb, serial, world>>

Ended == {"none", "done", "failed"}

Live(n, g) == at[n][g] \notin Ended

Init ==
  /\ kind \in {"serial", "usb"}
  /\ manager = [n \in Nodes |-> "running"] /\ generation = [n \in Nodes |-> 1]
  /\ at = [n \in Nodes |-> [g \in Generations |-> IF g = 1 THEN "turn" ELSE "none"]]
  /\ claim = [n \in Nodes |-> [g \in Generations |-> FALSE]]
  /\ plugged = TRUE /\ exported = FALSE /\ imported = FALSE
  /\ listening = NoOne /\ conns = {} /\ serialPort = [n \in Nodes |-> NoOne]
  /\ losses = 0 /\ calm = FALSE

Goes(n, g, to) == at' = [at EXCEPT ![n][g] = to]

Records(n, g, what) == claim' = [claim EXCEPT ![n][g] = what]

\* The manager's context is cancelled for good once its Close is called.
Cancelled(n, g) == g < generation[n] \/ manager[n] # "running"

-----------------------------------------------------------------------------
(* The managers: reloadForwardingRuntimes, stopForwardingRuntimes *)

Begin(n) ==
  /\ generation[n] < MaxGenerations
  /\ manager' = [manager EXCEPT ![n] = "running"]
  /\ generation' = [generation EXCEPT ![n] = @ + 1]
  /\ at' = [at EXCEPT ![n][generation[n] + 1] = "turn"]

\* The first reload of a process that was started again.
Start(n) ==
  /\ manager[n] = "down"
  /\ Begin(n)
  /\ UNCHANGED <<claim, usb, serial, world>>

\* The peers of the snapshot or their endpoints have changed.
Reload(n) ==
  /\ manager[n] = "running" /\ generation[n] < MaxGenerations /\ ~calm
  /\ manager' = [manager EXCEPT ![n] = "reloading"]
  /\ UNCHANGED <<generation, threads, usb, serial, world>>

\* Close comes back when the goroutine is done or five seconds have passed.
Closed(n) == ~Live(n, generation[n]) \/ ~calm

Reloaded(n) ==
  /\ manager[n] = "reloading" /\ Closed(n)
  /\ Begin(n)
  /\ UNCHANGED <<claim, usb, serial, world>>

Stop(n) ==
  /\ manager[n] = "running" /\ generation[n] < MaxGenerations /\ ~calm
  /\ manager' = [manager EXCEPT ![n] = "stopping"]
  /\ UNCHANGED <<generation, threads, usb, serial, world>>

\* The process is gone: its goroutines, sockets and open ports with it.  What
\* usbip did in the kernel stays.
Gone(n) ==
  /\ manager' = [manager EXCEPT ![n] = "down"]
  /\ at' = [at EXCEPT ![n] =
       [g \in Generations |-> IF Live(n, g) THEN "done" ELSE at[n][g]]]
  /\ listening' = IF n = Server THEN NoOne ELSE listening
  /\ conns' = {}
  /\ serialPort' = [serialPort EXCEPT ![n] = NoOne]
  /\ UNCHANGED <<generation, claim, usb>>

Stopped(n) ==
  /\ manager[n] = "stopping" /\ \A g \in Generations : ~Live(n, g)
  /\ Gone(n)
  /\ UNCHANGED world

Loses == losses < MaxLosses /\ ~calm /\ losses' = losses + 1

\* The process is killed, or main returns while a goroutine still runs: after
\* five seconds, or at once when Run ends before its loop.
Crash(n) ==
  /\ manager[n] # "down" /\ generation[n] < MaxGenerations
  /\ Loses
  /\ Gone(n)
  /\ UNCHANGED <<kind, calm>>

-----------------------------------------------------------------------------
(* The exporter's runSession.  A command fails, or it is killed when the    *)
(* session is cancelled and may have done its work all the same.            *)

Fails(n, g) == ~calm \/ Cancelled(n, g)

\* Mutant of Resolve: the bus id is recorded when the device is found bound.
M_Resolve(g) ==
  /\ IF plugged THEN Goes(Server, g, "bind") /\ Records(Server, g, exported)
                ELSE Goes(Server, g, "wait") /\ UNCHANGED claim
  /\ UNCHANGED usb

\* ResolveLocalBusID: the bus id is recorded before anything is bound.
Resolve(g) ==
  /\ IF plugged THEN Goes(Server, g, "bind") /\ Records(Server, g, TRUE)
                ELSE Goes(Server, g, "wait") /\ UNCHANGED claim
  /\ UNCHANGED usb

\* Mutant of Bind: whatever usbip says is taken for "already bound".
M_Bind(g) ==
  /\ exported' = TRUE
  /\ Goes(Server, g, "wait")
  /\ UNCHANGED <<plugged, imported, claim>>

\* ensureUSBIPDaemon and bindExport: a device that is bound already counts.
Bind(g) ==
  /\ \/ plugged /\ exported' = TRUE
     \/ (~plugged \/ Fails(Server, g)) /\ UNCHANGED exported
  /\ Goes(Server, g, "wait")
  /\ UNCHANGED <<plugged, imported, claim>>

\* Unbound or not, the goroutine ends: unbindExport ignores an error.
Unbind(g) ==
  /\ \/ claim[Server][g] /\ exported' = FALSE /\ imported' = FALSE /\ UNCHANGED losses
     \/ claim[Server][g] /\ Loses /\ UNCHANGED <<exported, imported>>
     \/ ~claim[Server][g] /\ UNCHANGED <<exported, imported, losses>>
  /\ Goes(Server, g, "done")
  /\ UNCHANGED <<plugged, claim>>

Exporter(g) ==
  /\ \/ at[Server][g] = "turn" /\ ~Cancelled(Server, g) /\ Resolve(g) /\ UNCHANGED losses
     \/ at[Server][g] = "bind" /\ Bind(g) /\ UNCHANGED losses
     \/ at[Server][g] = "turn" /\ Cancelled(Server, g) /\ Unbind(g)
  /\ UNCHANGED <<life, serial, kind, calm>>

-----------------------------------------------------------------------------
(* The attacher's runSession *)

\* ResolveRemoteBusID asks the exporter's daemon.
ResolveRemote(g) ==
  /\ \/ exported /\ Goes(Client, g, "look")
     \/ (~exported \/ Fails(Client, g)) /\ Goes(Client, g, "wait")
  /\ UNCHANGED <<usb, claim>>

\* Mutant of Look: attaches without looking for an attachment there already is.
M_Look(g) == Goes(Client, g, "attach") /\ UNCHANGED <<usb, claim>>

\* ResolveAttachedPort: the attachment may be that of another generation.
Look(g) ==
  /\ \/ imported /\ Goes(Client, g, "wait") /\ Records(Client, g, TRUE)
     \/ (~imported \/ Fails(Client, g)) /\ Goes(Client, g, "attach") /\ UNCHANGED claim
  /\ UNCHANGED usb

\* attachRemote: a device that is attached already is refused.
Attach(g) ==
  /\ \/ exported /\ ~imported /\ imported' = TRUE /\ Goes(Client, g, "port")
     \/ exported /\ ~imported /\ imported' = TRUE /\ Fails(Client, g) /\ Goes(Client, g, "wait")
     \/ (~exported \/ imported \/ Fails(Client, g)) /\ UNCHANGED imported /\ Goes(Client, g, "wait")
  /\ UNCHANGED <<plugged, exported, claim>>

LookAgain(g) ==
  /\ \/ imported /\ Records(Client, g, TRUE)
     \/ (~imported \/ Fails(Client, g)) /\ UNCHANGED claim
  /\ Goes(Client, g, "wait")
  /\ UNCHANGED usb

Detach(g) ==
  /\ \/ imported' = (imported /\ ~claim[Client][g]) /\ UNCHANGED losses
     \/ claim[Client][g] /\ Loses /\ UNCHANGED imported
  /\ Goes(Client, g, "done")
  /\ UNCHANGED <<plugged, exported, claim>>

Attacher(g) ==
  /\ \/ /\ \/ at[Client][g] = "turn" /\ ~Cancelled(Client, g) /\ ResolveRemote(g)
           \/ at[Client][g] = "look" /\ Look(g)
           \/ at[Client][g] = "attach" /\ Attach(g)
           \/ at[Client][g] = "port" /\ LookAgain(g)
        /\ UNCHANGED losses
     \/ at[Client][g] = "turn" /\ Cancelled(Client, g) /\ Detach(g)
  /\ UNCHANGED <<life, serial, kind, calm>>

\* The reconcile ticker, the end of the context, or the pause of the dialer.
Turn(n, g) ==
  /\ at[n][g] = "wait"
  /\ Goes(n, g, "turn")
  /\ UNCHANGED <<life, claim, usb, serial, world>>

-----------------------------------------------------------------------------
(* The listener and the dialer *)

Of(n, g) == { c \in conns : IF n = Server THEN c.to = g ELSE c.from = g }

Accepted(g) == { c \in Of(Server, g) : c.accepted }

Frees(n, g) ==
  serialPort' = [serialPort EXCEPT ![n] = IF @ = g THEN NoOne ELSE @]

\* A listener that cannot listen gives up for good.
Listen(g) ==
  /\ \/ listening = NoOne /\ listening' = g /\ Goes(Server, g, "loop")
     \/ (listening # NoOne \/ ~calm) /\ UNCHANGED listening /\ Goes(Server, g, "failed")
  /\ UNCHANGED <<conns, serialPort>>

\* Only the head of the loop looks at the context; Accept has a deadline.
KeepListening(g) ==
  /\ ~Cancelled(Server, g)
  /\ Goes(Server, g, "accept")
  /\ UNCHANGED serial

Deadline(g) ==
  /\ Cancelled(Server, g)
  /\ Goes(Server, g, "loop")
  /\ UNCHANGED serial

Accept(g) ==
  /\ \E c \in Of(Server, g) : conns' = (conns \ {c}) \cup {[c EXCEPT !.accepted = TRUE]}
  /\ Goes(Server, g, "open")
  /\ UNCHANGED <<listening, serialPort>>

\* Mutant of Unlisten: the goroutine ends and leaves the listener open.
M_Unlisten(g) ==
  /\ Cancelled(Server, g)
  /\ Goes(Server, g, "done")
  /\ UNCHANGED serial

\* The listener is closed, and with it what waits to be accepted.
Unlisten(g) ==
  /\ Cancelled(Server, g)
  /\ listening' = NoOne
  /\ conns' = conns \ Of(Server, g)
  /\ Goes(Server, g, "done")
  /\ UNCHANGED serialPort

\* Opener.Open: a serial port has one owner, by the exclusive mode the serial
\* library opens it in, which a privileged process is not held to.
Open(n, g) ==
  /\ serialPort[n] = NoOne
  /\ serialPort' = [serialPort EXCEPT ![n] = g]
  /\ Goes(n, g, "bridge")
  /\ UNCHANGED <<listening, conns>>

\* Mutant of OpenFails: the connection is closed only by a bridge that ends.
M_OpenFails(n, g) ==
  /\ serialPort[n] # NoOne \/ ~calm
  /\ Goes(n, g, IF n = Server THEN "loop" ELSE "wait")
  /\ UNCHANGED <<listening, conns, serialPort>>

OpenFails(n, g) ==
  /\ serialPort[n] # NoOne \/ ~calm
  /\ conns' = conns \ (IF n = Server THEN Accepted(g) ELSE Of(Client, g))
  /\ Goes(n, g, IF n = Server THEN "loop" ELSE "wait")
  /\ UNCHANGED <<listening, serialPort>>

\* Mutant of Unbridge: the connection of a bridge that ends stays open.
M_Unbridge(n, g) ==
  /\ Cancelled(n, g) \/ Of(n, g) = {} \/ ~calm
  /\ Frees(n, g)
  /\ Goes(n, g, IF n = Server THEN "loop" ELSE "wait")
  /\ UNCHANGED <<listening, conns>>

\* NewSession(...).Run: the first copy loop that ends closes both streams.
Unbridge(n, g) ==
  LET mine == IF n = Server THEN Accepted(g) ELSE Of(Client, g) IN
  /\ Cancelled(n, g) \/ mine = {} \/ ~calm
  /\ conns' = conns \ mine
  /\ Frees(n, g)
  /\ Goes(n, g, IF n = Server THEN "loop" ELSE "wait")
  /\ UNCHANGED listening

Dial(g) ==
  /\ ~Cancelled(Client, g)
  /\ \/ /\ listening # NoOne
        /\ conns' = conns \cup {[from |-> g, to |-> listening, accepted |-> FALSE]}
        /\ Goes(Client, g, "open")
     \/ (listening = NoOne \/ ~calm) /\ UNCHANGED conns /\ Goes(Client, g, "wait")
  /\ UNCHANGED <<listening, serialPort>>

StopDialing(g) ==
  /\ Cancelled(Client, g)
  /\ Goes(Client, g, "done")
  /\ UNCHANGED serial

Bridge(n, g) ==
  \/ at[n][g] = "open" /\ (Open(n, g) \/ OpenFails(n, g))
  \/ at[n][g] = "bridge" /\ Unbridge(n, g)

Listener(g) ==
  /\ \/ at[Server][g] = "turn" /\ Listen(g)
     \/ at[Server][g] = "loop" /\ (KeepListening(g) \/ Unlisten(g))
     \/ at[Server][g] = "accept" /\ (Accept(g) \/ Deadline(g))
     \/ Bridge(Server, g)
  /\ UNCHANGED <<life, claim, usb, world>>

Dialer(g) ==
  /\ \/ at[Client][g] = "turn" /\ (Dial(g) \/ StopDialing(g))
     \/ Bridge(Client, g)
  /\ UNCHANGED <<life, claim, usb, world>>

-----------------------------------------------------------------------------
(* The world *)

Unplug ==
  /\ kind = "usb" /\ plugged /\ ~calm
  /\ plugged' = FALSE /\ exported' = FALSE /\ imported' = FALSE
  /\ UNCHANGED <<life, threads, serial, world>>

Plug ==
  /\ ~plugged /\ plugged' = TRUE
  /\ UNCHANGED <<life, threads, exported, imported, serial, world>>

\* The network between the nodes fails long enough for a connection to end.
Break ==
  /\ ~calm
  /\ \E c \in conns : conns' = conns \ {c}
  /\ UNCHANGED <<life, threads, usb, listening, serialPort, world>>

CalmDown ==
  /\ ~calm /\ calm' = TRUE
  /\ UNCHANGED <<life, threads, usb, serial, kind, losses>>

Step(n, g) ==
  \/ kind = "usb" /\ (IF n = Server THEN Exporter(g) ELSE Attacher(g))
  \/ kind = "serial" /\ (IF n = Server THEN Listener(g) ELSE Dialer(g))
  \/ Turn(n, g)

Manage(n) == Start(n) \/ Reloaded(n) \/ Stopped(n)

Next ==
  \/ \E n \in Nodes : Manage(n) \/ Reload(n) \/ Stop(n) \/ Crash(n)
  \/ \E n \in Nodes, g \in Generations : Step(n, g)
  \/ Unplug \/ Plug \/ Break \/ CalmDown

Spec == Init /\ [][Next]_vars

\* The scheduler runs every goroutine, and systemd starts the agent again.
FairSpec ==
  /\ Spec
  /\ \A n \in Nodes : WF_vars(Manage(n))
  /\ \A n \in Nodes, g \in Generations : WF_vars(Step(n, g))

-----------------------------------------------------------------------------
(* Properties *)

TypeOK ==
  /\ kind \in {"serial", "usb"}
  /\ manager \in [Nodes -> {"running", "reloading", "stopping", "down"}]
  /\ generation \in [Nodes -> Generations]
  /\ at \in [Nodes -> [Generations -> Ended \cup
       {"turn", "bind", "look", "attach", "port", "wait", "loop", "accept", "open", "bridge"}]]
  /\ claim \in [Nodes -> [Generations -> BOOLEAN]]
  /\ plugged \in BOOLEAN
  /\ exported \in BOOLEAN /\ exported => plugged
  /\ imported \in BOOLEAN /\ imported => exported
  /\ listening \in Generations \cup {NoOne}
  /\ conns \in SUBSET [from : Generations, to : Generations, accepted : BOOLEAN]
  /\ serialPort \in [Nodes -> Generations \cup {NoOne}]
  /\ losses \in 0..MaxLosses /\ calm \in BOOLEAN

\* When the exporter's goroutines have all come to their end, however their
\* reloads, cancellations and commands interleaved, the device is back with its
\* own driver; only a process that was killed, or an unbind that failed, may
\* leave it bound.
ReleasedWhenEnded ==
  kind = "usb" /\ losses = 0 /\ (\A g \in Generations : ~Live(Server, g))
    => ~exported

\* Once nothing fails any more the device is attached again and stays so, in
\* the hands of the newest generations, whatever a process that was killed left
\* behind and whenever an old generation releases what a new one holds.
DeviceComesBack ==
  kind = "usb" /\ <>[](calm /\ plugged) =>
    <>[]( exported /\ imported /\ \A n \in Nodes : claim[n][generation[n]] )

\* However a session's goroutine comes to its end, by its own error, a reload or
\* the end of the process, it leaves no serial port, connection or listener open:
\* nothing but a generation that still runs keeps the next one from its ports.
HeldByTheLiving ==
  \A n \in Nodes, g \in Generations : ~Live(n, g) =>
    serialPort[n] # g /\ Of(n, g) = {} /\ (n = Server => listening # g)

Bridges(n, c) ==
  IF n = Server THEN c.accepted /\ at[Server][c.to] = "bridge"
                ELSE at[Client][c.from] = "bridge"

\* Whatever generations of a node overlap, its serial port is joined with one
\* connection at most: the bytes of two streams never mix in a device.
NeverCrossed ==
  \A n \in Nodes, c, d \in conns : Bridges(n, c) /\ Bridges(n, d) => c = d

\* Once nothing fails any more the newest listener gives its session up only
\* where an older generation, cancelled but not yet at its end, has the port.
GivesUpToTheOld ==
  [][ LET newest == generation[Server] IN
      calm /\ at[Server][newest] = "turn" /\ at'[Server][newest] = "failed" =>
        \E g \in 1..(newest - 1) : listening = g /\ Live(Server, g) ]_vars

Bridged ==
  \E c \in conns :
    /\ c.from = generation[Client] /\ c.to = generation[Server] /\ c.accepted
    /\ \A n \in Nodes : at[n][generation[n]] = "bridge"

\* Once nothing fails any more the two serial ports are joined again and stay
\* so, unless the newest listener could not listen, which it tries only once.
BridgeComesBack ==
  kind = "serial" /\ <>[](calm /\ at[Server][generation[Server]] # "failed") =>
    <>[]Bridged
=============================================================================
