--------------------------- MODULE SecureTransport ---------------------------
(***************************************************************************)
(* Two nodes with the secure UDP transport (packages/runtime/go/secureudp) *)
(* and the relay between them (services/relay): the handshakes that        *)
(* establish paths, the choice of the active path, the order in which Send *)
(* tries the candidates, and the relay's bindings.                         *)
(*                                                                         *)
(* A path stands for the pair of addresses that two sockets use for each   *)
(* other: what one node sends over a path reaches the other from that      *)
(* path, and is answered over it.  The network delays, reorders and loses  *)
(* packets; copies are discarded (ReplayProtection).  Every critical       *)
(* section of stateMu is part of one action; a call of Send, WarmupPeer or *)
(* ExecuteDirectAttempt is a thread that takes several.                    *)
(***************************************************************************)
EXTENDS Naturals, Sequences, FiniteSets, Functions

CONSTANTS
  Nodes,      \* the two nodes
  Candidates, \* the direct candidates a node knows of the other, in order
  Threads,    \* the goroutines that call the transport
  NodeOf,     \* the node each of them runs on
  Capacity,   \* bound: packets in the network when more are sent
  Failing,    \* bound: nodes whose transport, Serve loop or binding may be lost
  Unwritable, \* bound: nodes that may fail to write a frame
  Kinds       \* bound: the kinds of calls that are made

Relay  == "relay"
NoPath == "no path"
Stale  == "stale"

Direct == Range(Candidates)
Paths  == Direct \cup {Relay}

ASSUME NodesAssumption      == \E a, b \in Nodes : a # b /\ Nodes = {a, b}
ASSUME CandidatesAssumption ==
  /\ Candidates \in Seq(Direct) /\ {Relay, NoPath} \cap Direct = {}
  /\ \A i, j \in DOMAIN Candidates : Candidates[i] = Candidates[j] => i = j
ASSUME ThreadsAssumption    == NodeOf \in [Threads -> Nodes] /\ Stale \notin Threads
ASSUME BoundsAssumption     ==
  /\ Capacity \in Nat /\ Failing \cup Unwritable \subseteq Nodes
  /\ Kinds \subseteq {"send", "warmup", "attempt"}

VARIABLES
  active,       \* activePeer
  established,  \* established
  retryDue,     \* directRetryAfter has elapsed since lastDirectTry
  call,         \* what each thread does
  wire,         \* packets on their way
  serving,      \* the node's Serve loop runs
  bound,        \* the nodes the relay has a binding for
  open          \* the direct paths that let packets through

paths == <<active, established>>
vars  == <<paths, retryDue, call, wire, serving, bound, open>>

Other(n) == CHOOSE m \in Nodes : m # n

-----------------------------------------------------------------------------
(* Packets.  Announcements are folded into the relay's bindings.  Handshake *)
(* packets bear the challenge of a call; Stale is one nobody waits for.     *)

Packet(kind, from, path, challenge) ==
  [kind |-> kind, from |-> from, path |-> path, challenge |-> challenge]

HelloPackets(n, over, challenge) == { Packet("hello", n, p, challenge) : p \in over }
Ack(n, p, challenge)             == Packet("ack", n, p, challenge)
Data(n, p)                       == Packet("data", n, p, Stale)

\* Bound: more packets are sent only while the network has room for them.
Put(packets) ==
  /\ Cardinality(wire \cup packets) <= Capacity
  /\ wire' = wire \cup packets

\* The waiters of the threads' calls are deleted.
Forsaken(packets, threads) ==
  { IF packet.challenge \in threads THEN [packet EXCEPT !.challenge = Stale] ELSE packet :
      packet \in packets }

\* A packet over the relay gets through if the target is bound.
GetsThrough(packet) ==
  IF packet.path = Relay THEN Other(packet.from) \in bound ELSE packet.path \in open

-----------------------------------------------------------------------------
(* Paths *)

M_ActiveWith(current, p) == p

\* The active path after p was heard: a direct path is not given up for a relay.
ActiveWith(current, p) ==
  IF current \notin {NoPath, Relay} /\ p = Relay THEN current ELSE p

MarkEstablished(n, p) ==
  /\ established' = [established EXCEPT ![n] = @ \cup {p}]
  /\ active' = [active EXCEPT ![n] = ActiveWith(@, p)]

-----------------------------------------------------------------------------
(* The order of candidates *)

\* Mutant of First: an address that was put in front is appended once more.
M_First(p, s) == IF p \in Range(s) THEN <<p>> \o s ELSE s

\* s with p, if it is in s, moved to the front.
First(p, s) ==
  LET k == CHOOSE i \in DOMAIN s : s[i] = p IN
  IF p \in Range(s)
    THEN [i \in DOMAIN s |-> IF i = 1 THEN p ELSE IF i <= k THEN s[i - 1] ELSE s[i]]
    ELSE s

\* directRecoveryState
RetriesDirect(n) == active[n] = Relay /\ Candidates # <<>> /\ retryDue[n]

InOrder == Candidates \o <<Relay>>

\* sendAddresses
SendAddresses(n, requested) ==
  IF ~RetriesDirect(n) THEN First(active[n], First(requested, InOrder))
  ELSE IF requested = Relay THEN InOrder ELSE First(requested, InOrder)

\* Send handshakes over several leading direct addresses at once, and over the
\* others one after another.
Stages(addresses) ==
  LET leading == CHOOSE k \in 0..Len(addresses)-1 : addresses[k + 1] = Relay IN
  IF leading > 1
    THEN [i \in 1..(Len(addresses) - leading + 1) |->
            IF i = 1 THEN SubSeq(addresses, 1, leading) ELSE <<addresses[leading + i - 1]>>]
    ELSE [i \in DOMAIN addresses |-> <<addresses[i]>>]

-----------------------------------------------------------------------------
Idle == [of |-> "none", stages |-> <<>>, waits |-> FALSE, answer |-> NoPath]

Call(of, stages) == [Idle EXCEPT !.of = of, !.stages = stages]

Init ==
  /\ active = [n \in Nodes |-> NoPath]
  /\ established = [n \in Nodes |-> {}]
  /\ retryDue = [n \in Nodes |-> TRUE]
  /\ call = [t \in Threads |-> Idle]
  /\ wire = {}
  /\ serving = [n \in Nodes |-> TRUE]
  /\ bound = {}
  /\ open \in SUBSET Direct

-----------------------------------------------------------------------------
(* Calls *)

\* Send up to sendAddresses; the frame's route asks for some candidate.
Send(t, requested) ==
  LET n == NodeOf[t] IN
  /\ "send" \in Kinds /\ call[t] = Idle
  /\ call' = [call EXCEPT ![t] = Call("send", Stages(SendAddresses(n, requested)))]
  /\ retryDue' = [retryDue EXCEPT ![n] = @ /\ ~RetriesDirect(n)]
  /\ UNCHANGED <<paths, wire, serving, bound, open>>

\* startDirectWarmup finds the peer in need of a direct path; warmupBlockedUntil,
\* which only puts it off, is left out.
Warmup(t) ==
  LET n == NodeOf[t] IN
  /\ "warmup" \in Kinds /\ call[t] = Idle
  /\ Candidates # <<>> /\ active[n] \notin Direct /\ retryDue[n]
  /\ call' = [call EXCEPT ![t] = Call("warmup", <<Candidates>>)]
  /\ UNCHANGED <<paths, retryDue, wire, serving, bound, open>>

\* ExecuteDirectAttempt after beginDirectAttempt: the candidates of one phase, or
\* the first k in a primary phase and the others in a secondary one.
Attempt(t, k) ==
  LET n == NodeOf[t]
      primary   == SubSeq(Candidates, 1, k)
      secondary == SubSeq(Candidates, k + 1, Len(Candidates))
  IN
  /\ "attempt" \in Kinds /\ call[t] = Idle
  /\ call' = [call EXCEPT ![t] =
       Call("attempt", IF secondary = <<>> THEN <<primary>> ELSE <<primary, secondary>>)]
  /\ retryDue' = [retryDue EXCEPT ![n] = FALSE]
  /\ UNCHANGED <<paths, wire, serving, bound, open>>

Stage(t) == Head(call[t].stages)

\* The call with its first stage done with.
Further(t) ==
  LET rest == Tail(call[t].stages) IN IF rest = <<>> THEN Idle ELSE Call(call[t].of, rest)

\* A frame that cannot be written: the call goes on with its next stage.
Unwritten(t) ==
  /\ call[t].of = "send" /\ NodeOf[t] \in Unwritable
  /\ wire' = Forsaken(wire, {t})
  /\ call' = [call EXCEPT ![t] = Further(t)]

\* The call has a path: Send writes its frame to it, the others are done.
Reach(t, p) ==
  \/ /\ call[t].of = "send" /\ Cardinality(wire) < Capacity
     /\ wire' = Forsaken(wire, {t}) \cup {Data(NodeOf[t], p)}
     /\ call' = [call EXCEPT ![t] = Idle]
  \/ Unwritten(t)
  \/ /\ call[t].of # "send"
     /\ wire' = Forsaken(wire, {t})
     /\ call' = [call EXCEPT ![t] = Idle]

\* ensureAnySession up to its first burst; sendToAddress announces the node to
\* the relay first.
Begin(t) ==
  LET n == NodeOf[t]
      known == { i \in DOMAIN Stage(t) : Stage(t)[i] \in established[n] }
  IN
  /\ call[t] # Idle /\ ~call[t].waits
  /\ IF known # {}
       THEN \E i \in known : (\A j \in known : i <= j) /\ Reach(t, Stage(t)[i])
       ELSE /\ Put(HelloPackets(n, Range(Stage(t)), t))
            /\ call' = [call EXCEPT ![t].waits = TRUE]
  /\ retryDue' = [retryDue EXCEPT ![n] = @ /\ call[t].of # "warmup"]
  /\ bound' \in IF Stage(t) = <<Relay>> THEN {bound, bound \cup {n}} ELSE {bound}
  /\ UNCHANGED <<paths, serving, open>>

\* The retry ticker.
Resend(t) ==
  /\ call[t].waits
  /\ Put(HelloPackets(NodeOf[t], Range(Stage(t)), t))
  /\ UNCHANGED <<paths, retryDue, call, serving, bound, open>>

\* The waiter's channel has an answer.
Answered(t) ==
  /\ call[t].waits /\ call[t].answer # NoPath
  /\ MarkEstablished(NodeOf[t], call[t].answer)
  /\ Reach(t, call[t].answer)
  /\ UNCHANGED <<retryDue, serving, bound, open>>

M_GiveUp(t) ==
  /\ call[t].waits
  /\ call' = [call EXCEPT ![t] = Call(@.of, Tail(@.stages))]
  /\ wire' = Forsaken(wire, {t})
  /\ UNCHANGED <<paths, retryDue, serving, bound, open>>

M_GiveUpAtOnce(t) ==
  /\ call[t].waits
  /\ call' = [call EXCEPT ![t] = Idle]
  /\ wire' = Forsaken(wire, {t})
  /\ UNCHANGED <<paths, retryDue, serving, bound, open>>

\* Mutant of GiveUp: a handshake that times out is taken for one that succeeded.
M_GiveUpSends(t) ==
  /\ call[t].waits /\ Reach(t, Stage(t)[1])
  /\ UNCHANGED <<paths, retryDue, serving, bound, open>>

\* The handshake times out, its context ends, or no hello can be written: Send
\* and an attempt go on with the next stage, but not a cancelled attempt.
GiveUp(t) ==
  /\ call[t].waits
  /\ \/ call' = [call EXCEPT ![t] = Further(t)]
     \/ call[t].of = "attempt" /\ call' = [call EXCEPT ![t] = Idle]
  /\ wire' = Forsaken(wire, {t})
  /\ UNCHANGED <<paths, retryDue, serving, bound, open>>

-----------------------------------------------------------------------------
(* The Serve loop *)

Binds(packet) == bound' = IF packet.path = Relay THEN bound \cup {packet.from} ELSE bound

Arrives(packet, kind) ==
  /\ packet \in wire /\ packet.kind = kind
  /\ GetsThrough(packet) /\ serving[Other(packet.from)]
  /\ Binds(packet)

\* handleHello; Serve ends when the answer cannot be written.
ReceiveHello(packet) ==
  LET m == Other(packet.from) IN
  /\ Arrives(packet, "hello")
  /\ MarkEstablished(m, packet.path)
  /\ \/ /\ wire' = (wire \ {packet}) \cup {Ack(m, packet.path, packet.challenge)}
        /\ UNCHANGED serving
     \/ /\ m \in Failing
        /\ wire' = wire \ {packet}
        /\ serving' = [serving EXCEPT ![m] = FALSE]
  /\ UNCHANGED <<retryDue, call, open>>

M_ReceiveAck(packet) ==
  LET t == packet.challenge IN
  /\ Arrives(packet, "ack")
  /\ IF t = Stale THEN UNCHANGED paths ELSE MarkEstablished(Other(packet.from), packet.path)
  /\ call' = IF t # Stale /\ call[t].answer = NoPath
               THEN [call EXCEPT ![t].answer = packet.path] ELSE call
  /\ wire' = wire \ {packet}
  /\ UNCHANGED <<retryDue, serving, open>>

\* handleHelloAck: an answer that comes too late establishes the path as well.
ReceiveAck(packet) ==
  LET t == packet.challenge IN
  /\ Arrives(packet, "ack")
  /\ MarkEstablished(Other(packet.from), packet.path)
  /\ call' = IF t # Stale /\ call[t].answer = NoPath
               THEN [call EXCEPT ![t].answer = packet.path] ELSE call
  /\ wire' = wire \ {packet}
  /\ UNCHANGED <<retryDue, serving, open>>

\* Serve ends when its handler cannot write the frame to the TUN device.
ReceiveData(packet) ==
  LET m == Other(packet.from) IN
  /\ Arrives(packet, "data")
  /\ MarkEstablished(m, packet.path)
  /\ wire' = wire \ {packet}
  /\ \/ UNCHANGED serving
     \/ m \in Failing /\ serving' = [serving EXCEPT ![m] = FALSE]
  /\ UNCHANGED <<retryDue, call, open>>

-----------------------------------------------------------------------------
(* The network, the relay, time and reloads *)

\* A packet is lost, maybe behind the relay.
Lose(packet) ==
  /\ packet \in wire
  /\ wire' = wire \ {packet}
  /\ bound' = bound \/ Binds(packet)
  /\ UNCHANGED <<paths, retryDue, call, serving, open>>

\* announceRelays
Announce(n) ==
  /\ bound' = bound \cup {n}
  /\ UNCHANGED <<paths, retryDue, call, wire, serving, open>>

\* The binding of a node expires, or the relay starts anew.
Unbind(n) ==
  /\ bound' = bound \ {n}
  /\ UNCHANGED <<paths, retryDue, call, wire, serving, open>>

Open(p) ==
  /\ open' = open \cup {p}
  /\ UNCHANGED <<paths, retryDue, call, wire, serving, bound>>

Close(p) ==
  /\ open' = open \ {p}
  /\ UNCHANGED <<paths, retryDue, call, wire, serving, bound>>

RetryElapses(n) ==
  /\ retryDue' = [retryDue EXCEPT ![n] = TRUE]
  /\ UNCHANGED <<paths, call, wire, serving, bound, open>>

Own(n) == { t \in Threads : NodeOf[t] = n }

\* A new transport takes the place of the node's old one, on the same address.
Reload(n) ==
  /\ active' = [active EXCEPT ![n] = NoPath]
  /\ established' = [established EXCEPT ![n] = {}]
  /\ retryDue' = [retryDue EXCEPT ![n] = TRUE]
  /\ call' = [t \in Threads |-> IF t \in Own(n) THEN Idle ELSE call[t]]
  /\ wire' = Forsaken(wire, Own(n))
  /\ serving' = [serving EXCEPT ![n] = TRUE]
  /\ UNCHANGED <<bound, open>>

-----------------------------------------------------------------------------
Caller(t) ==
  \/ \E requested \in Paths : Send(t, requested)
  \/ Warmup(t)
  \/ \E k \in 1..Len(Candidates) : Attempt(t, k)
  \/ Begin(t) \/ Resend(t) \/ Answered(t) \/ GiveUp(t)

Network(packet) ==
  ReceiveHello(packet) \/ ReceiveAck(packet) \/ ReceiveData(packet) \/ Lose(packet)

Surroundings ==
  \/ \E n \in Nodes : Announce(n) \/ RetryElapses(n)
  \/ \E n \in Failing : Unbind(n) \/ Reload(n)
  \/ \E p \in Direct : Open(p) \/ Close(p)

Next ==
  \/ \E t \in Threads : Caller(t)
  \/ \E packet \in wire : Network(packet)
  \/ Surroundings

Spec == Init /\ [][Next]_vars

Callers == { NodeOf[t] : t \in Threads }

\* Traffic goes on; calls end by their timers; retries become due and the node
\* announces itself by tickers; no packet stays under way for ever, and of
\* infinitely many packets of a kind on a path that lets them through one
\* arrives.
Arriving(kind, n, p) ==
  \E packet \in wire :
    /\ packet.from = n /\ packet.path = p /\ packet.kind = kind
    /\ ReceiveHello(packet) \/ ReceiveAck(packet) \/ ReceiveData(packet)

FairSpec ==
  /\ Spec
  /\ \A t \in Threads :
       /\ SF_vars(\E requested \in Paths : Send(t, requested))
       /\ WF_vars(Begin(t))
       /\ WF_vars(Answered(t) \/ GiveUp(t))
  /\ \A n \in Nodes : WF_vars(RetryElapses(n)) /\ WF_vars(Announce(n))
  /\ WF_vars(\E packet \in wire : Network(packet))
  /\ \A n \in Callers, p \in Paths :
       /\ SF_vars(Arriving("hello", n, p))
       /\ SF_vars(Arriving("ack", Other(n), p))
       /\ SF_vars(Arriving("data", n, p))
-----------------------------------------------------------------------------
Challenges == Threads \cup {Stale}

TypeOK ==
  /\ active \in [Nodes -> Paths \cup {NoPath}]
  /\ established \in [Nodes -> SUBSET Paths]
  /\ retryDue \in [Nodes -> BOOLEAN]
  /\ \A t \in Threads :
       /\ call[t].of \in {"none", "send", "warmup", "attempt"}
       /\ \A i \in DOMAIN call[t].stages : Range(call[t].stages[i]) \subseteq Paths
       /\ (call[t] # Idle) <=> (call[t].stages # <<>>)
       /\ call[t].waits \in BOOLEAN
       /\ call[t].answer \in Paths \cup {NoPath}
  /\ wire \subseteq [ kind : {"hello", "ack", "data"}, from : Nodes, path : Paths,
                      challenge : Challenges ]
  /\ serving \in [Nodes -> BOOLEAN]
  /\ bound \subseteq Nodes
  /\ open \subseteq Direct

\* A node that has heard its peer over a direct path does not use the relay,
\* in whatever order late answers and packets of other paths come in
\* (markEstablished).
DirectIsPreferred ==
  \A n \in Nodes : established[n] \ {Relay} # {} => active[n] \notin {Relay, NoPath}

\* A frame is written only to a path over which the node has heard its peer.
FrameNeedsSession ==
  [][\A n \in Nodes, p \in Paths :
       Data(n, p) \in wire' \ wire => p \in established[n]]_vars

TriedOnce(p, stages) ==
  \E i \in DOMAIN stages : \E j \in DOMAIN stages[i] :
    /\ stages[i][j] = p
    /\ \A k \in DOMAIN stages : \A l \in DOMAIN stages[k] :
         stages[k][l] = p => k = i /\ l = j

\* Send tries every address of the peer, and waits for none of them twice,
\* whatever address is active or asked for, whether direct paths are due to be
\* tried again, and however the leading direct ones are put into one burst.
EveryPathOnce ==
  [][\A t \in Threads : call[t] = Idle /\ call'[t].of = "send" =>
       \A p \in Paths : TriedOnce(p, call'[t].stages)]_vars

\* What no transport can survive: a Serve loop that has ended, a transport that
\* is replaced, a session whose frames cannot be written, or a relay that
\* forgets a node, again and again.
Undisturbed ==
  /\ <>[](\A n \in Nodes : serving[n])
  /\ <>[][\A t \in Threads : ~(~call[t].waits /\ Unwritten(t))]_vars
  /\ <>[][\A n \in Failing : ~Reload(n)]_vars

RelayStays == <>[][\A n \in Failing : ~Unbind(n)]_vars

FrameArrives(n) == \E packet \in wire : packet.from = n /\ ReceiveData(packet)

\* Once a direct path stays open, both nodes come to use a direct path, however
\* often handshakes time out before their answers arrive (README.md: traffic
\* switches back to direct).
DirectRecovers ==
  Undisturbed /\ (\E p \in Direct : <>[](p \in open)) =>
    <>[](\A n \in Nodes : active[n] \in Direct)

\* While no direct path was heard of, frames get through over the relay.
RelayCarries ==
  Undisturbed /\ RelayStays /\ <>[](\A n \in Nodes : established[n] \subseteq {Relay}) =>
    \A n \in Callers : []<><<FrameArrives(n)>>_vars

\* README.md: when direct fails traffic falls back to the relay.
RelayTakesOver ==
  Undisturbed /\ RelayStays /\ <>[](open = {}) =>
    \A n \in Callers : []<><<FrameArrives(n)>>_vars
=============================================================================
