------------------------ MODULE SecureTransportProofs ------------------------
(***************************************************************************)
(* SecureTransport for any list of candidates, any threads on either node  *)
(* and any room in the network: its types, that a direct path is preferred *)
(* once heard, and that no frame is written without a session.             *)
(***************************************************************************)
EXTENDS SecureTransport, TLAPS

-----------------------------------------------------------------------------
(* The order of candidates *)

\* A function on 1..n is a sequence of length n.
LEMMA FunctionIsSeq ==
  ASSUME NEW S, NEW n \in Nat, NEW f \in [1..n -> S]
  PROVE  f \in Seq(S) /\ Len(f) = n
OBVIOUS

\* The relay is no direct path, and no path stands for none.
LEMMA PathsDiffer ==
  /\ Relay \in Paths /\ NoPath \notin Paths /\ Direct = Paths \ {Relay}
  /\ Candidates \in Seq(Paths)
<1>1. Relay \in Paths /\ NoPath \notin Paths /\ Direct = Paths \ {Relay}
  BY CandidatesAssumption DEF Paths, Relay, NoPath
<1>2. Candidates \in [1..Len(Candidates) -> Paths] /\ Len(Candidates) \in Nat
  BY <1>1, CandidatesAssumption
<1> QED BY <1>1, <1>2, FunctionIsSeq

HasRelay(s) == \E i \in DOMAIN s : s[i] = Relay

\* The candidates and then the relay are an order of paths.
LEMMA InOrderTyped == InOrder \in Seq(Paths) /\ HasRelay(InOrder)
<1>1. InOrder \in Seq(Paths) /\ Len(InOrder) = Len(Candidates) + 1
  BY PathsDiffer DEF InOrder
<1>2. InOrder[Len(Candidates) + 1] = Relay
  BY PathsDiffer DEF InOrder
<1>3. Len(Candidates) + 1 \in DOMAIN InOrder
  BY <1>1, PathsDiffer
<1> QED BY <1>1, <1>2, <1>3 DEF HasRelay

\* Moving a path to the front keeps the order's paths and the relay among them.
LEMMA FirstTyped ==
  ASSUME NEW s \in Seq(Paths), HasRelay(s), NEW p
  PROVE  First(p, s) \in Seq(Paths) /\ HasRelay(First(p, s))
<1>1. CASE p \notin Range(s)
  BY <1>1 DEF First
<1>2. CASE p \in Range(s)
  <2> DEFINE k == CHOOSE i \in DOMAIN s : s[i] = p
             f == [i \in DOMAIN s |-> IF i = 1 THEN p ELSE IF i <= k THEN s[i - 1] ELSE s[i]]
  <2>1. k \in 1..Len(s) /\ s[k] = p
    BY <1>2 DEF Range
  <2>2. First(p, s) = f
    BY <1>2 DEF First
  <2>3. \A i \in 1..Len(s) : f[i] \in Paths
    BY <2>1
  <2>4. f \in Seq(Paths) /\ DOMAIN f = 1..Len(s)
    <3>1. f = [i \in 1..Len(s) |-> f[i]] /\ DOMAIN f = 1..Len(s) /\ Len(s) \in Nat
      OBVIOUS
    <3> HIDE DEF f
    <3>2. f \in [1..Len(s) -> Paths]
      BY <2>3, <3>1
    <3> QED BY <3>1, <3>2, FunctionIsSeq
  <2>5. PICK r \in 1..Len(s) : s[r] = Relay
    BY DEF HasRelay
  <2>6. CASE r = k
    <3>1. f[1] = Relay /\ 1 \in 1..Len(s)
      BY <2>1, <2>5, <2>6
    <3> HIDE DEF f
    <3> QED BY <2>2, <2>4, <3>1 DEF HasRelay
  <2>7. CASE r < k
    <3>1. r + 1 \in 1..Len(s) /\ r + 1 # 1 /\ r + 1 <= k /\ (r + 1) - 1 = r
      BY <2>1, <2>7
    <3>2. f[r + 1] = Relay
      BY <2>5, <3>1
    <3> HIDE DEF f
    <3> QED BY <2>2, <2>4, <3>1, <3>2 DEF HasRelay
  <2>8. CASE r > k
    <3>1. f[r] = Relay
      BY <2>1, <2>5, <2>8
    <3> HIDE DEF f
    <3> QED BY <2>2, <2>4, <2>5, <3>1 DEF HasRelay
  <2> QED BY <2>1, <2>6, <2>7, <2>8
<1> QED BY <1>1, <1>2

\* What sendAddresses returns is an order of paths with the relay.
LEMMA SendAddressesTyped ==
  ASSUME NEW n, NEW requested
  PROVE  SendAddresses(n, requested) \in Seq(Paths) /\ HasRelay(SendAddresses(n, requested))
<1>1. \A p : First(p, InOrder) \in Seq(Paths) /\ HasRelay(First(p, InOrder))
  BY InOrderTyped, FirstTyped
<1>2. /\ First(active[n], First(requested, InOrder)) \in Seq(Paths)
      /\ HasRelay(First(active[n], First(requested, InOrder)))
  BY <1>1, FirstTyped
<1> QED BY <1>1, <1>2, InOrderTyped DEF SendAddresses

\* Send has at least one stage, and tries only candidates.
LEMMA StagesTyped ==
  ASSUME NEW s \in Seq(Paths), HasRelay(s)
  PROVE  Stages(s) \in Seq(Seq(Paths)) /\ Stages(s) # <<>>
<1> DEFINE leading == CHOOSE k \in 0..Len(s)-1 : s[k + 1] = Relay
           burst == [i \in 1..(Len(s) - leading + 1) |->
                       IF i = 1 THEN SubSeq(s, 1, leading) ELSE <<s[leading + i - 1]>>]
           single == [i \in DOMAIN s |-> <<s[i]>>]
<1>1. leading \in 0..Len(s)-1 /\ Len(s) \in Nat /\ Len(s) > 0
  <2>1. PICK i \in 1..Len(s) : s[i] = Relay
    BY DEF HasRelay
  <2>2. i - 1 \in 0..Len(s)-1 /\ s[(i - 1) + 1] = Relay
    BY <2>1
  <2>3. \E k \in 0..Len(s)-1 : s[k + 1] = Relay
    BY <2>2
  <2>4. leading \in 0..Len(s)-1
    BY <2>3
  <2> HIDE DEF leading
  <2> QED BY <2>1, <2>4
<1> HIDE DEF leading
<1>2. CASE leading > 1
  <2>1. Stages(s) = burst
    BY <1>2 DEF Stages, leading
  <2>2. SubSeq(s, 1, leading) \in Seq(Paths)
    BY <1>1
  <2>3. \A i \in 1..(Len(s) - leading + 1) : i # 1 => <<s[leading + i - 1]>> \in Seq(Paths)
    BY <1>1
  <2>4. \A i \in 1..(Len(s) - leading + 1) : burst[i] \in Seq(Paths)
    BY <2>2, <2>3
  <2>5. Len(s) - leading + 1 \in Nat \ {0}
    BY <1>1
  <2>6. burst \in Seq(Seq(Paths)) /\ Len(burst) = Len(s) - leading + 1
    <3>1. burst = [i \in 1..(Len(s) - leading + 1) |-> burst[i]]
      OBVIOUS
    <3> HIDE DEF burst
    <3>2. burst \in [1..(Len(s) - leading + 1) -> Seq(Paths)]
      BY <2>4, <3>1
    <3> QED BY <2>5, <3>2, FunctionIsSeq
  <2> QED BY <2>1, <2>5, <2>6
<1>3. CASE ~(leading > 1)
  <2>1. Stages(s) = single
    BY <1>3 DEF Stages, leading
  <2>2. single \in [1..Len(s) -> Seq(Paths)]
    <3>1. \A i \in 1..Len(s) : <<s[i]>> \in Seq(Paths)
      OBVIOUS
    <3> QED BY <3>1
  <2>3. single \in Seq(Seq(Paths)) /\ Len(single) = Len(s)
    BY <1>1, <2>2, FunctionIsSeq
  <2> QED BY <1>1, <2>1, <2>3
<1> QED BY <1>2, <1>3

-----------------------------------------------------------------------------
(* Every address is tried once *)

\* The order s holds every path once.
EachOnce(s) ==
  /\ \A p \in Paths : \E i \in DOMAIN s : s[i] = p
  /\ \A i, j \in DOMAIN s : s[i] = s[j] => i = j

\* The candidates in their order and then the relay: every path once.
LEMMA InOrderEachOnce == EachOnce(InOrder)
<1>1. /\ Len(Candidates) \in Nat /\ DOMAIN InOrder = 1..Len(Candidates) + 1
      /\ \A i \in 1..Len(Candidates) : InOrder[i] = Candidates[i] /\ Candidates[i] \in Paths
      /\ InOrder[Len(Candidates) + 1] = Relay
  BY PathsDiffer DEF InOrder
<1>2. \A i \in 1..Len(Candidates) : Candidates[i] # Relay
  <2>1. \A i \in 1..Len(Candidates) : Candidates[i] \in Direct
    BY CandidatesAssumption
  <2> QED BY <2>1, PathsDiffer
<1>3. ASSUME NEW p \in Paths PROVE \E i \in DOMAIN InOrder : InOrder[i] = p
  <2>1. CASE p = Relay
    BY <1>1, <2>1
  <2>2. CASE p # Relay
    <3>1. p \in Range(Candidates)
      BY <2>2, PathsDiffer DEF Direct
    <3>2. PICK i \in DOMAIN Candidates : Candidates[i] = p
      BY <3>1 DEF Range
    <3>3. i \in 1..Len(Candidates)
      BY <3>2, PathsDiffer
    <3> QED BY <1>1, <3>2, <3>3
  <2> QED BY <2>1, <2>2
<1>4. \A i, j \in 1..Len(Candidates) : Candidates[i] = Candidates[j] => i = j
  BY CandidatesAssumption, PathsDiffer
<1>5. \A i, j \in DOMAIN InOrder : InOrder[i] = InOrder[j] => i = j
  BY <1>1, <1>2, <1>4
<1> QED BY <1>3, <1>5 DEF EachOnce

\* Moving a path to the front only changes the order.
LEMMA FirstEachOnce ==
  ASSUME NEW s \in Seq(Paths), EachOnce(s), NEW p
  PROVE  EachOnce(First(p, s))
<1>1. CASE p \notin Range(s)
  BY <1>1 DEF First
<1>2. CASE p \in Range(s)
  <2> DEFINE k == CHOOSE i \in DOMAIN s : s[i] = p
             f == [i \in DOMAIN s |-> IF i = 1 THEN p ELSE IF i <= k THEN s[i - 1] ELSE s[i]]
             Was(i) == IF i = 1 THEN k ELSE IF i <= k THEN i - 1 ELSE i
  <2>1. k \in 1..Len(s) /\ s[k] = p /\ Len(s) \in Nat
    BY <1>2 DEF Range
  <2>2. First(p, s) = f
    BY <1>2 DEF First
  <2>3. \A i \in 1..Len(s) : Was(i) \in 1..Len(s) /\ f[i] = s[Was(i)]
    BY <2>1
  <2>4. \A i, j \in 1..Len(s) : Was(i) = Was(j) => i = j
    BY <2>1
  <2>5. \A r \in 1..Len(s) : \E i \in 1..Len(s) : Was(i) = r
    <3> SUFFICES ASSUME NEW r \in 1..Len(s) PROVE \E i \in 1..Len(s) : Was(i) = r
      OBVIOUS
    <3>1. CASE r = k
      BY <2>1, <3>1
    <3>2. CASE r < k
      <4>1. r + 1 \in 1..Len(s) /\ Was(r + 1) = r
        BY <2>1, <3>2
      <4> QED BY <4>1
    <3>3. CASE r > k
      <4>1. Was(r) = r
        BY <2>1, <3>3
      <4> QED BY <4>1
    <3> HIDE DEF k, Was
    <3>4. r = k \/ r < k \/ r > k
      BY <2>1
    <3> QED BY <3>1, <3>2, <3>3, <3>4
  <2>6. DOMAIN f = 1..Len(s) /\ DOMAIN s = 1..Len(s)
    OBVIOUS
  <2> HIDE DEF k, f, Was
  <2>7. \A q \in Paths : \E i \in 1..Len(s) : f[i] = q
    BY <2>3, <2>5, <2>6 DEF EachOnce
  <2>8. \A i, j \in 1..Len(s) : f[i] = f[j] => i = j
    BY <2>3, <2>4, <2>6 DEF EachOnce
  <2> QED BY <2>2, <2>6, <2>7, <2>8 DEF EachOnce
<1> QED BY <1>1, <1>2

\* Whatever is active, asked for and due, every path is in the order once.
LEMMA SendAddressesEachOnce ==
  ASSUME NEW n, NEW requested
  PROVE  EachOnce(SendAddresses(n, requested))
<1>1. \A p : First(p, InOrder) \in Seq(Paths) /\ EachOnce(First(p, InOrder))
  BY InOrderTyped, InOrderEachOnce, FirstTyped, FirstEachOnce
<1>2. EachOnce(First(active[n], First(requested, InOrder)))
  BY <1>1, FirstEachOnce
<1> QED BY <1>1, <1>2, InOrderEachOnce DEF SendAddresses

\* The stages of a call hold every path of its addresses at one place.
LEMMA StagesTryOnce ==
  ASSUME NEW s \in Seq(Paths), EachOnce(s), NEW p \in Paths
  PROVE  TriedOnce(p, Stages(s))
<1> DEFINE leading == CHOOSE k \in 0..Len(s)-1 : s[k + 1] = Relay
           size == Len(s) - leading + 1
           burst == [i \in 1..size |->
                       IF i = 1 THEN SubSeq(s, 1, leading) ELSE <<s[leading + i - 1]>>]
           single == [i \in DOMAIN s |-> <<s[i]>>]
<1>1. leading \in 0..Len(s)-1 /\ Len(s) \in Nat /\ DOMAIN s = 1..Len(s)
  <2>1. PICK i \in 1..Len(s) : s[i] = Relay
    BY PathsDiffer DEF EachOnce
  <2>2. i - 1 \in 0..Len(s)-1 /\ s[(i - 1) + 1] = Relay
    BY <2>1
  <2>3. \E k \in 0..Len(s)-1 : s[k + 1] = Relay
    BY <2>2
  <2>4. leading \in 0..Len(s)-1
    BY <2>3
  <2> HIDE DEF leading
  <2> QED BY <2>1, <2>4
<1>2. PICK r \in 1..Len(s) : s[r] = p /\ \A i \in 1..Len(s) : s[i] = p => i = r
  BY <1>1 DEF EachOnce
<1>3. CASE leading > 1
  <2>1. Stages(s) = burst
    BY <1>3 DEF Stages
  <2> HIDE DEF leading
  <2>2. size \in Nat /\ DOMAIN burst = 1..size
    BY <1>1
  <2>3. /\ burst[1] = SubSeq(s, 1, leading)
        /\ \A i \in 1..size : i # 1 => burst[i] = <<s[leading + i - 1]>>
    BY <1>1
  <2>4. DOMAIN burst[1] = 1..leading /\ \A j \in 1..leading : burst[1][j] = s[j]
    BY <1>1, <2>3
  <2>5. \A i \in 1..size : i # 1 =>
          DOMAIN burst[i] = {1} /\ burst[i][1] = s[leading + i - 1]
    BY <2>3
  <2>6. \A i \in 1..size : i # 1 => leading + i - 1 \in 1..Len(s) /\ leading + i - 1 > leading
    BY <1>1
  <2> DEFINE a == IF r <= leading THEN 1 ELSE r - leading + 1
             b == IF r <= leading THEN r ELSE 1
  <2>7. a \in 1..size /\ b \in DOMAIN burst[a] /\ burst[a][b] = p
    <3>1. CASE r <= leading
      BY <1>1, <1>2, <2>2, <2>4, <3>1
    <3>2. CASE r > leading
      <4>1. a \in 1..size /\ a # 1 /\ leading + a - 1 = r /\ b = 1
        BY <1>1, <3>2
      <4> QED BY <1>2, <2>5, <4>1
    <3> QED BY <1>1, <3>1, <3>2
  <2>8. ASSUME NEW i \in 1..size, NEW j \in DOMAIN burst[i], burst[i][j] = p
        PROVE  i = a /\ j = b
    <3>1. CASE i = 1
      <4>1. j \in 1..leading /\ s[j] = p /\ j \in 1..Len(s)
        BY <1>1, <2>4, <2>8, <3>1
      <4>2. j = r
        BY <1>2, <4>1
      <4> QED BY <3>1, <4>1, <4>2, <1>1
    <3>2. CASE i # 1
      <4>1. j = 1 /\ s[leading + i - 1] = p
        BY <2>5, <2>8, <3>2
      <4>2. leading + i - 1 = r /\ r > leading
        BY <1>2, <2>6, <3>2, <4>1
      <4> QED BY <1>1, <3>2, <4>1, <4>2
    <3> QED BY <3>1, <3>2
  <2> HIDE DEF burst, size, a, b
  <2> QED BY <2>1, <2>2, <2>7, <2>8 DEF TriedOnce
<1>4. CASE ~(leading > 1)
  <2>1. Stages(s) = single
    BY <1>4 DEF Stages
  <2>2. DOMAIN single = 1..Len(s)
    OBVIOUS
  <2>3. \A i \in 1..Len(s) : DOMAIN single[i] = {1} /\ single[i][1] = s[i]
    OBVIOUS
  <2> HIDE DEF single
  <2>4. r \in DOMAIN single /\ 1 \in DOMAIN single[r] /\ single[r][1] = p
    BY <1>2, <2>2, <2>3
  <2>5. \A i \in DOMAIN single : \A j \in DOMAIN single[i] : single[i][j] = p => i = r /\ j = 1
    BY <1>2, <2>2, <2>3
  <2> QED BY <2>1, <2>4, <2>5 DEF TriedOnce
<1> QED BY <1>3, <1>4

-----------------------------------------------------------------------------
(* The inductive invariant: the types; that a direct path heard is in use;   *)
(* that packets bear the challenges of the calls they belong to, which still *)
(* wait; and that a waiter's answer is an established path of its node.      *)

Heard ==
  /\ active \in [Nodes -> Paths \cup {NoPath}]
  /\ established \in [Nodes -> SUBSET Paths]
  /\ DirectIsPreferred

Calls ==
  [ of : {"none", "send", "warmup", "attempt"}, stages : Seq(Seq(Paths)),
    waits : BOOLEAN, answer : Paths \cup {NoPath} ]

CallOK(c) == c \in Calls /\ (IF c.stages = <<>> THEN c = Idle ELSE c.of # "none")

CallsOK == call \in [Threads -> Calls] /\ \A t \in Threads : CallOK(call[t])

AnswersOK ==
  \A t \in Threads : call[t].answer # NoPath => call[t].answer \in established[NodeOf[t]]

PacketSet ==
  [ kind : {"hello", "ack", "data"}, from : Nodes, path : Paths, challenge : Challenges ]

Addressed(packet) ==
  /\ packet.kind = "data" => packet.challenge = Stale
  /\ packet.kind = "hello" /\ packet.challenge # Stale =>
       packet.from = NodeOf[packet.challenge]
  /\ packet.kind = "ack" /\ packet.challenge # Stale =>
       Other(packet.from) = NodeOf[packet.challenge]

PacketsOK(packets) ==
  packets \subseteq PacketSet /\ \A packet \in packets : Addressed(packet)

RestOK ==
  /\ retryDue \in [Nodes -> BOOLEAN]
  /\ serving \in [Nodes -> BOOLEAN]
  /\ bound \subseteq Nodes
  /\ open \subseteq Direct

WaitedFor == \A packet \in wire : packet.challenge # Stale => call[packet.challenge].waits

Inv == Heard /\ CallsOK /\ AnswersOK /\ PacketsOK(wire) /\ WaitedFor /\ RestOK

\* The invariant has every variable of its type.
LEMMA InvTypes == Inv => TypeOK
<1> SUFFICES ASSUME Inv PROVE TypeOK
  OBVIOUS
<1>1. ASSUME NEW t \in Threads
      PROVE  /\ call[t].of \in {"none", "send", "warmup", "attempt"}
             /\ \A i \in DOMAIN call[t].stages : Range(call[t].stages[i]) \subseteq Paths
             /\ (call[t] # Idle) <=> (call[t].stages # <<>>)
             /\ call[t].waits \in BOOLEAN
             /\ call[t].answer \in Paths \cup {NoPath}
  <2>1. call[t] \in Calls /\ CallOK(call[t])
    BY DEF Inv, CallsOK
  <2>2. Idle.stages = <<>>
    BY DEF Idle
  <2>3. ASSUME NEW i \in DOMAIN call[t].stages
        PROVE  Range(call[t].stages[i]) \subseteq Paths
    <3>1. call[t].stages \in Seq(Seq(Paths))
      BY <2>1 DEF Calls
    <3>2. call[t].stages[i] \in Seq(Paths)
      BY <3>1
    <3> QED BY <3>2 DEF Range
  <2> QED BY <2>1, <2>2, <2>3 DEF Calls, CallOK
<1> QED BY <1>1 DEF Inv, Heard, PacketsOK, PacketSet, RestOK, TypeOK

-----------------------------------------------------------------------------
(* What the helpers preserve *)

\* Each node is the other one of the other.
LEMMA OtherNode ==
  ASSUME NEW n \in Nodes
  PROVE  Other(n) \in Nodes /\ Other(n) # n /\ Other(Other(n)) = n
<1>1. \A k \in Nodes : Other(k) \in Nodes /\ Other(k) # k
  BY NodesAssumption DEF Other
<1> QED BY <1>1, NodesAssumption

\* A call that is idle is well formed and has no answer.
LEMMA IdleOK == Idle \in Calls /\ CallOK(Idle) /\ Idle.answer = NoPath
<1>1. <<>> \in Seq(Seq(Paths))
  OBVIOUS
<1> QED BY <1>1 DEF Idle, Calls, CallOK

\* A call that begins is well formed and has no answer.
LEMMA CallTyped ==
  ASSUME NEW of \in {"send", "warmup", "attempt"},
         NEW stages \in Seq(Seq(Paths)), stages # <<>>
  PROVE  CallOK(Call(of, stages)) /\ Call(of, stages).answer = NoPath
BY DEF Call, CallOK, Calls, Idle

\* Marking a path keeps every path, and gives up no direct one for a relay.
LEMMA Marking ==
  ASSUME Heard, NEW n \in Nodes, NEW p \in Paths, MarkEstablished(n, p)
  PROVE  /\ Heard'
         /\ \A m \in Nodes : established[m] \subseteq established'[m]
         /\ p \in established'[n]
<1> USE DEF Heard, MarkEstablished
<1>1. active' \in [Nodes -> Paths \cup {NoPath}]
  BY DEF ActiveWith
<1>2. established' \in [Nodes -> SUBSET Paths]
  OBVIOUS
<1>3. \A m \in Nodes : established[m] \subseteq established'[m]
  OBVIOUS
<1>4. p \in established'[n]
  OBVIOUS
<1>5. DirectIsPreferred'
  BY PathsDiffer DEF DirectIsPreferred, ActiveWith
<1> QED BY <1>1, <1>2, <1>3, <1>4, <1>5

\* Deleting waiters neither misaddresses a packet nor makes a frame.
LEMMA Forsaking ==
  ASSUME NEW packets, PacketsOK(packets), NEW threads \in SUBSET Threads
  PROVE  /\ PacketsOK(Forsaken(packets, threads))
         /\ \A packet \in Forsaken(packets, threads) :
              /\ packet.kind = "data" => packet \in packets
              /\ packet.challenge # Stale =>
                   packet.challenge \notin threads /\ packet \in packets
<1> SUFFICES ASSUME NEW packet \in Forsaken(packets, threads)
             PROVE  /\ packet \in PacketSet /\ Addressed(packet)
                    /\ packet.kind = "data" => packet \in packets
                    /\ packet.challenge # Stale =>
                         packet.challenge \notin threads /\ packet \in packets
  BY DEF PacketsOK
<1>1. PICK old \in packets :
        packet = IF old.challenge \in threads THEN [old EXCEPT !.challenge = Stale] ELSE old
  BY DEF Forsaken
<1>2. old \in PacketSet /\ Addressed(old)
  BY DEF PacketsOK
<1>3. CASE old.challenge \in threads
  <2>1. /\ packet \in PacketSet /\ packet.challenge = Stale
        /\ packet.kind = old.kind /\ packet.from = old.from
    BY <1>1, <1>2, <1>3 DEF PacketSet, Challenges
  <2>2. old.kind # "data"
    BY <1>2, <1>3, ThreadsAssumption DEF Addressed
  <2> QED BY <2>1, <2>2 DEF Addressed
<1>4. CASE old.challenge \notin threads
  BY <1>1, <1>2, <1>4
<1> QED BY <1>3, <1>4

\* A path heard of stays established, and calls change by losing their answer.
LEMMA AnswersKept ==
  ASSUME Inv, \A m \in Nodes : established[m] \subseteq established'[m],
         \A t \in Threads : call'[t].answer \in {call[t].answer, NoPath}
  PROVE  AnswersOK'
BY ThreadsAssumption DEF Inv, AnswersOK

\* No packet of the threads in gone is left, and the other waiters remain.
LEMMA WaitersKept ==
  ASSUME Inv, NEW gone \in SUBSET Threads, PacketsOK(wire)',
         \A packet \in wire' : packet.challenge # Stale =>
           /\ packet.challenge \notin gone
           /\ call'[packet.challenge].waits \/ \E old \in wire : old.challenge = packet.challenge,
         \A u \in Threads \ gone : call[u].waits => call'[u].waits
  PROVE  WaitedFor'
<1> SUFFICES ASSUME NEW packet \in wire', packet.challenge # Stale
             PROVE  call'[packet.challenge].waits
  BY DEF WaitedFor
<1>1. packet.challenge \in Threads \ gone
  BY DEF PacketsOK, PacketSet, Challenges
<1> QED BY <1>1 DEF Inv, WaitedFor

\* Packets bear the challenges of calls that wait while no call gives up.
LEMMA WaitersStay ==
  ASSUME Inv, PacketsOK(wire)',
         \A packet \in wire' : packet.challenge # Stale =>
           call'[packet.challenge].waits \/ \E old \in wire : old.challenge = packet.challenge,
         \A u \in Threads : call[u].waits => call'[u].waits
  PROVE  WaitedFor'
<1> SUFFICES ASSUME NEW packet \in wire', packet.challenge # Stale
             PROVE  call'[packet.challenge].waits
  BY DEF WaitedFor
<1>1. packet.challenge \in Threads
  BY DEF PacketsOK, PacketSet, Challenges
<1> QED BY <1>1 DEF Inv, WaitedFor

NewFrames ==
  \A n \in Nodes, p \in Paths : Data(n, p) \in wire' \ wire => p \in established[n]

\* Who puts no data on the wire needs no session.
LEMMA NoNewFrames ==
  ASSUME \A packet \in wire' : packet.kind = "data" => packet \in wire
  PROVE  NewFrames
BY DEF NewFrames, Data, Packet

\* A call with its first stage done with is well formed.
LEMMA FurtherTyped ==
  ASSUME Inv, NEW t \in Threads, call[t] # Idle
  PROVE  CallOK(Further(t)) /\ Further(t).answer = NoPath
<1>1. call[t] \in Calls /\ call[t].stages # <<>> /\ call[t].of # "none"
  BY DEF Inv, CallsOK, CallOK
<1>2. call[t].stages \in Seq(Seq(Paths)) /\ call[t].of \in {"send", "warmup", "attempt"}
  BY <1>1 DEF Calls
<1>3. Tail(call[t].stages) \in Seq(Seq(Paths))
  BY <1>1, <1>2
<1> QED BY <1>2, <1>3, CallTyped, IdleOK DEF Further

\* The call of t becomes some other: the calls of the others stay.
LEMMA CallChanges ==
  ASSUME Inv, NEW t \in Threads, NEW c, CallOK(c), call' = [call EXCEPT ![t] = c]
  PROVE  CallsOK' /\ call'[t] = c /\ \A u \in Threads : u # t => call'[u] = call[u]
BY DEF Inv, CallsOK, CallOK

\* A call that has a path writes only to it, and forsakes its waiter.
LEMMA Reaching ==
  ASSUME Inv, NEW t \in Threads, call[t] # Idle,
         NEW p \in established[NodeOf[t]], Reach(t, p)
  PROVE  /\ CallsOK' /\ PacketsOK(wire)' /\ WaitedFor' /\ NewFrames
         /\ \A u \in Threads : call'[u].answer \in {call[u].answer, NoPath}
<1>1. /\ CallsOK'
      /\ \A u \in Threads : call'[u].answer \in {call[u].answer, NoPath}
  BY CallChanges, IdleOK, FurtherTyped DEF Reach, Unwritten
<1>2. /\ PacketsOK(Forsaken(wire, {t}))
      /\ \A packet \in Forsaken(wire, {t}) :
           /\ packet.kind = "data" => packet \in wire
           /\ packet.challenge # Stale => packet.challenge \notin {t} /\ packet \in wire
  BY Forsaking DEF Inv
<1>3. NodeOf[t] \in Nodes /\ p \in Paths
  BY ThreadsAssumption DEF Inv, Heard
<1>4. PacketsOK({Data(NodeOf[t], p)})
  BY <1>3 DEF PacketsOK, PacketSet, Addressed, Data, Packet, Challenges
<1>5. wire' \subseteq Forsaken(wire, {t}) \cup {Data(NodeOf[t], p)}
  BY DEF Reach, Unwritten
<1>6. PacketsOK(wire)'
  BY <1>2, <1>4, <1>5 DEF PacketsOK
<1>7. NewFrames
  BY <1>2, <1>5 DEF NewFrames, Data, Packet
<1>8. \A packet \in wire' : packet.challenge # Stale =>
        packet.challenge \notin {t} /\ packet \in wire
  BY <1>2, <1>5 DEF Data, Packet
<1>9. \A u \in Threads \ {t} : call'[u] = call[u]
  BY CallChanges, IdleOK, FurtherTyped DEF Reach, Unwritten
<1>10. WaitedFor'
  BY <1>6, <1>8, <1>9, WaitersKept
<1> QED BY <1>1, <1>6, <1>7, <1>10

\* Hellos bear the challenge of the call that sends them, which waits.
LEMMA Bursting ==
  ASSUME Inv, NEW t \in Threads, NEW over \in SUBSET Paths,
         Put(HelloPackets(NodeOf[t], over, t)), call'[t].waits,
         \A u \in Threads : u # t => call'[u] = call[u]
  PROVE  PacketsOK(wire)' /\ WaitedFor' /\ NewFrames
<1>1. NodeOf[t] \in Nodes /\ t # Stale
  BY ThreadsAssumption
<1>2. PacketsOK(HelloPackets(NodeOf[t], over, t))
  BY <1>1 DEF PacketsOK, PacketSet, Addressed, HelloPackets, Packet, Challenges
<1>3. \A packet \in HelloPackets(NodeOf[t], over, t) :
        packet.kind = "hello" /\ packet.challenge = t
  BY DEF HelloPackets, Packet
<1>4. wire' = wire \cup HelloPackets(NodeOf[t], over, t)
  BY DEF Put
<1>5. PacketsOK(wire)'
  BY <1>2, <1>4 DEF Inv, PacketsOK
<1>6. NewFrames
  BY <1>3, <1>4, NoNewFrames
<1>7. WaitedFor'
  <2>1. \A packet \in wire' : packet.challenge # Stale =>
          call'[packet.challenge].waits \/ \E old \in wire : old.challenge = packet.challenge
    BY <1>3, <1>4
  <2>2. \A u \in Threads : call[u].waits => call'[u].waits
    OBVIOUS
  <2> QED BY <1>5, <2>1, <2>2, WaitersStay
<1> QED BY <1>5, <1>6, <1>7

\* The stage a call is in consists of paths.
LEMMA StageTyped ==
  ASSUME Inv, NEW t \in Threads, call[t] # Idle
  PROVE  Stage(t) \in Seq(Paths) /\ Range(Stage(t)) \subseteq Paths
<1>1. call[t].stages \in Seq(Seq(Paths)) /\ call[t].stages # <<>>
  BY DEF Inv, CallsOK, CallOK, Calls
<1>2. Stage(t) \in Seq(Paths)
  BY <1>1 DEF Stage
<1> QED BY <1>2 DEF Range

\* What arrives is a packet of its kind, for the other node.
LEMMA Delivered ==
  ASSUME Inv, NEW packet, NEW kind, Arrives(packet, kind)
  PROVE  /\ packet \in PacketSet /\ Addressed(packet) /\ packet.kind = kind
         /\ packet.from \in Nodes /\ Other(packet.from) \in Nodes
         /\ Other(Other(packet.from)) = packet.from
         /\ packet.path \in Paths /\ packet.challenge \in Challenges
         /\ bound' \subseteq Nodes
<1>1. packet \in PacketSet /\ Addressed(packet) /\ packet.kind = kind
  BY DEF Inv, PacketsOK, Arrives
<1>2. packet.from \in Nodes
  BY <1>1 DEF PacketSet
<1>3. bound' \subseteq Nodes
  BY <1>2 DEF Inv, RestOK, Arrives, Binds
<1> QED BY <1>1, <1>2, <1>3, OtherNode DEF PacketSet

-----------------------------------------------------------------------------
(* The invariant holds at first and is kept *)

\* At first nothing is established, called or sent.
LEMMA InvInit == Init => Inv
<1> SUFFICES ASSUME Init PROVE Inv
  OBVIOUS
<1>1. Heard
  BY DEF Init, Heard, DirectIsPreferred
<1>2. CallsOK /\ AnswersOK
  BY IdleOK DEF Init, CallsOK, AnswersOK
<1>3. PacketsOK(wire) /\ RestOK
  BY DEF Init, PacketsOK, RestOK
<1>4. WaitedFor
  BY DEF Init, WaitedFor
<1> QED BY <1>1, <1>2, <1>3, <1>4 DEF Inv

\* A thread starts a call.
LEMMA Starting ==
  ASSUME Inv, NEW t \in Threads, call[t] = Idle,
         NEW of \in {"send", "warmup", "attempt"},
         NEW stages \in Seq(Seq(Paths)), stages # <<>>,
         call' = [call EXCEPT ![t] = Call(of, stages)],
         retryDue' \in [Nodes -> BOOLEAN], UNCHANGED <<paths, wire, serving, bound, open>>
  PROVE  Inv' /\ NewFrames
<1>1. CallsOK' /\ \A u \in Threads : call'[u].answer \in {call[u].answer, NoPath}
  <2>1. CallOK(Call(of, stages)) /\ Call(of, stages).answer = NoPath
    BY CallTyped
  <2>2. CallsOK' /\ call'[t] = Call(of, stages) /\ \A u \in Threads : u # t => call'[u] = call[u]
    BY <2>1, CallChanges
  <2> QED BY <2>1, <2>2
<1>2. Heard'
  BY DEF Inv, Heard, DirectIsPreferred, paths
<1>3. AnswersOK'
  BY <1>1, AnswersKept DEF paths
<1>4. PacketsOK(wire)' /\ RestOK'
  BY DEF Inv, PacketsOK, RestOK
<1>5. NewFrames
  BY DEF NewFrames
<1>6. WaitedFor'
  <2>1. CallOK(Call(of, stages))
    BY CallTyped
  <2>2. ~call[t].waits /\ \A u \in Threads : u # t => call'[u] = call[u]
    BY <2>1, CallChanges DEF Idle
  <2>3. \A u \in Threads : call[u].waits => call'[u].waits
    BY <2>2
  <2> QED BY <1>4, <2>3, WaitersStay
<1> QED BY <1>1, <1>2, <1>3, <1>4, <1>5, <1>6 DEF Inv

\* A step of a call keeps the invariant and writes frames to sessions only.
LEMMA CallerStep ==
  ASSUME Inv, NEW t \in Threads, Caller(t)
  PROVE  Inv' /\ NewFrames
<1>n. NodeOf[t] \in Nodes /\ t # Stale
  BY ThreadsAssumption
<1>r. retryDue \in [Nodes -> BOOLEAN] /\ bound \subseteq Nodes
  BY DEF Inv, RestOK
<1>s. ASSUME call[t].waits
      PROVE  call[t] # Idle
  BY <1>s DEF Idle
<1>1. ASSUME NEW requested \in Paths, Send(t, requested)
      PROVE  Inv' /\ NewFrames
  <2>1. /\ Stages(SendAddresses(NodeOf[t], requested)) \in Seq(Seq(Paths))
        /\ Stages(SendAddresses(NodeOf[t], requested)) # <<>>
    BY SendAddressesTyped, StagesTyped
  <2>2. retryDue' \in [Nodes -> BOOLEAN]
    BY <1>1, <1>r, <1>n DEF Send, RetriesDirect
  <2> QED BY <1>1, <2>1, <2>2, Starting DEF Send
<1>2. CASE Warmup(t)
  <2>1. <<Candidates>> \in Seq(Seq(Paths)) /\ <<Candidates>> # <<>>
    BY PathsDiffer
  <2> QED BY <1>2, <1>r, <2>1, Starting DEF Warmup
<1>3. ASSUME NEW k \in 1..Len(Candidates), Attempt(t, k)
      PROVE  Inv' /\ NewFrames
  <2> DEFINE primary   == SubSeq(Candidates, 1, k)
             secondary == SubSeq(Candidates, k + 1, Len(Candidates))
             stages    == IF secondary = <<>> THEN <<primary>> ELSE <<primary, secondary>>
  <2>1. primary \in Seq(Paths) /\ secondary \in Seq(Paths)
    BY PathsDiffer
  <2>2. call' = [call EXCEPT ![t] = Call("attempt", stages)]
    BY <1>3 DEF Attempt
  <2>3. retryDue' \in [Nodes -> BOOLEAN] /\ UNCHANGED <<paths, wire, serving, bound, open>>
    BY <1>3, <1>r DEF Attempt
  <2> HIDE DEF primary, secondary
  <2>4. stages \in Seq(Seq(Paths)) /\ stages # <<>>
    BY <2>1
  <2>5. call[t] = Idle
    BY <1>3 DEF Attempt
  <2> HIDE DEF stages
  <2> QED BY <2>2, <2>3, <2>4, <2>5, Starting
<1>4. CASE Begin(t)
  <2> DEFINE known == { i \in DOMAIN Stage(t) : Stage(t)[i] \in established[NodeOf[t]] }
  <2>1. call[t] # Idle
    BY <1>4 DEF Begin
  <2>2. retryDue' \in [Nodes -> BOOLEAN]
    BY <1>4, <1>r DEF Begin
  <2>3. bound' \subseteq Nodes
    BY <1>4, <1>r, <1>n DEF Begin
  <2>4. Heard' /\ RestOK' /\ \A m \in Nodes : established[m] \subseteq established'[m]
    BY <1>4, <2>2, <2>3 DEF Begin, Inv, Heard, DirectIsPreferred, RestOK, paths
  <2>5. CASE known # {}
    <3>1. PICK i \in known : Reach(t, Stage(t)[i])
      BY <1>4, <2>5 DEF Begin
    <3>2. /\ CallsOK' /\ PacketsOK(wire)' /\ WaitedFor' /\ NewFrames
          /\ \A u \in Threads : call'[u].answer \in {call[u].answer, NoPath}
      BY <2>1, <3>1, Reaching
    <3> QED BY <2>4, <3>2, AnswersKept DEF Inv
  <2>6. CASE known = {}
    <3>1. /\ Put(HelloPackets(NodeOf[t], Range(Stage(t)), t))
          /\ call' = [call EXCEPT ![t].waits = TRUE]
      BY <1>4, <2>6 DEF Begin
    <3>2. /\ CallsOK' /\ \A u \in Threads : call'[u].answer = call[u].answer
          /\ call'[t].waits /\ \A u \in Threads : u # t => call'[u] = call[u]
      BY <2>1, <3>1 DEF Inv, CallsOK, CallOK, Calls
    <3>3. PacketsOK(wire)' /\ WaitedFor' /\ NewFrames
      BY <2>1, <3>1, <3>2, StageTyped, Bursting
    <3> QED BY <2>4, <3>2, <3>3, AnswersKept DEF Inv
  <2> QED BY <2>5, <2>6
<1>5. CASE Resend(t)
  <2>1. PacketsOK(wire)' /\ WaitedFor' /\ NewFrames
    BY <1>5, <1>s, StageTyped, Bursting DEF Resend
  <2> QED BY <1>5, <2>1 DEF Resend, Inv, Heard, DirectIsPreferred, CallsOK, AnswersOK, RestOK, paths
<1>6. CASE Answered(t)
  <2>1. call[t] # Idle /\ call[t].answer \in established[NodeOf[t]]
    BY <1>6, <1>s DEF Answered, Inv, AnswersOK
  <2>2. call[t].answer \in Paths
    BY <1>n, <2>1 DEF Inv, Heard
  <2>3. Heard' /\ \A m \in Nodes : established[m] \subseteq established'[m]
    BY <1>6, <1>n, <2>2, Marking DEF Answered, Inv
  <2>4. /\ CallsOK' /\ PacketsOK(wire)' /\ WaitedFor' /\ NewFrames
        /\ \A u \in Threads : call'[u].answer \in {call[u].answer, NoPath}
    BY <1>6, <2>1, Reaching DEF Answered
  <2>5. RestOK'
    BY <1>6 DEF Answered, Inv, RestOK
  <2> QED BY <2>3, <2>4, <2>5, AnswersKept DEF Inv
<1>7. CASE GiveUp(t)
  <2>1. /\ CallsOK'
        /\ \A u \in Threads : call'[u].answer \in {call[u].answer, NoPath}
    BY <1>7, <1>s, CallChanges, FurtherTyped, IdleOK DEF GiveUp
  <2>2. PacketsOK(wire)' /\ WaitedFor' /\ NewFrames
    <3>1. /\ PacketsOK(wire)'
          /\ \A packet \in wire' :
               /\ packet.kind = "data" => packet \in wire
               /\ packet.challenge # Stale => packet.challenge \notin {t} /\ packet \in wire
      BY <1>7, Forsaking DEF GiveUp, Inv
    <3>2. \A u \in Threads \ {t} : call'[u] = call[u]
      BY <1>7, <1>s, CallChanges, FurtherTyped, IdleOK DEF GiveUp
    <3> QED BY <3>1, <3>2, WaitersKept, NoNewFrames
  <2>3. Heard' /\ RestOK' /\ \A m \in Nodes : established[m] \subseteq established'[m]
    BY <1>7 DEF GiveUp, Inv, Heard, DirectIsPreferred, RestOK, paths
  <2> QED BY <2>1, <2>2, <2>3, AnswersKept DEF Inv
<1> QED BY <1>1, <1>2, <1>3, <1>4, <1>5, <1>6, <1>7 DEF Caller

\* What is common to the packets that Serve accepts: a path is marked.
LEMMA Receiving ==
  ASSUME Inv, NEW packet, NEW kind, Arrives(packet, kind),
         MarkEstablished(Other(packet.from), packet.path),
         serving' \in [Nodes -> BOOLEAN], UNCHANGED <<retryDue, open>>
  PROVE  /\ Heard' /\ RestOK'
         /\ \A m \in Nodes : established[m] \subseteq established'[m]
         /\ packet.path \in established'[Other(packet.from)]
<1>1. /\ Heard'
      /\ \A m \in Nodes : established[m] \subseteq established'[m]
      /\ packet.path \in established'[Other(packet.from)]
  BY Delivered, Marking DEF Inv
<1>2. RestOK'
  BY Delivered DEF Inv, RestOK
<1> QED BY <1>1, <1>2

\* A packet that arrives or is lost keeps the invariant.
LEMMA NetworkStep ==
  ASSUME Inv, NEW packet \in wire, Network(packet)
  PROVE  Inv' /\ NewFrames
<1>r. serving \in [Nodes -> BOOLEAN]
  BY DEF Inv, RestOK
<1>w. PacketsOK(wire \ {packet})
  BY DEF Inv, PacketsOK
<1>k. ASSUME PacketsOK(wire)', \A u \in Threads : call'[u].waits = call[u].waits,
             \A q \in wire' : q.challenge # Stale =>
               \E old \in wire : old.challenge = q.challenge
      PROVE  WaitedFor'
  BY <1>k, WaitersStay
<1>1. CASE ReceiveHello(packet)
  <2>1. Arrives(packet, "hello") /\ serving' \in [Nodes -> BOOLEAN]
    BY <1>1, <1>r DEF ReceiveHello
  <2>2. Heard' /\ RestOK' /\ \A m \in Nodes : established[m] \subseteq established'[m]
    BY <1>1, <2>1, Receiving DEF ReceiveHello
  <2>3. CallsOK' /\ AnswersOK'
    BY <1>1, <2>2, AnswersKept DEF ReceiveHello, Inv, CallsOK
  <2> DEFINE ack == Ack(Other(packet.from), packet.path, packet.challenge)
  <2>4. /\ ack \in PacketSet /\ Addressed(ack) /\ ack.kind = "ack"
        /\ ack.challenge = packet.challenge
    BY <2>1, Delivered DEF Ack, Packet, PacketSet, Addressed
  <2>5. wire' \subseteq (wire \ {packet}) \cup {ack}
    BY <1>1 DEF ReceiveHello
  <2> HIDE DEF ack
  <2>6. PacketsOK(wire)' /\ NewFrames
    BY <1>w, <2>4, <2>5, NoNewFrames DEF PacketsOK
  <2>7. WaitedFor'
    BY <1>1, <1>k, <2>4, <2>5, <2>6 DEF ReceiveHello
  <2> QED BY <2>2, <2>3, <2>6, <2>7 DEF Inv
<1>2. CASE ReceiveAck(packet)
  <2> DEFINE t == packet.challenge
  <2>1. Arrives(packet, "ack")
    BY <1>2 DEF ReceiveAck
  <2>2. /\ Heard' /\ RestOK' /\ \A m \in Nodes : established[m] \subseteq established'[m]
        /\ packet.path \in established'[Other(packet.from)]
    BY <1>2, <1>r, <2>1, Receiving DEF ReceiveAck
  <2>3. PacketsOK(wire)' /\ NewFrames
    BY <1>2, <1>w, NoNewFrames DEF ReceiveAck
  <2>4. CallsOK' /\ AnswersOK' /\ WaitedFor'
    <3>1. CASE t # Stale /\ call[t].answer = NoPath
      <4>1. t \in Threads /\ NodeOf[t] = Other(packet.from) /\ packet.path \in Paths
        BY <2>1, <3>1, Delivered DEF Challenges, Addressed
      <4>2. call' = [call EXCEPT ![t].answer = packet.path]
        BY <1>2, <3>1 DEF ReceiveAck
      <4>3. call[t].waits /\ call[t] # Idle
        BY <3>1 DEF Inv, WaitedFor, Idle
      <4>4. CallsOK' /\ \A u \in Threads : call'[u].waits = call[u].waits
        BY <4>1, <4>2, <4>3 DEF Inv, CallsOK, CallOK, Calls
      <4>5. AnswersOK'
        <5>1. \A u \in Threads : call'[u].answer = IF u = t THEN packet.path ELSE call[u].answer
          BY <4>1, <4>2 DEF Inv, CallsOK, Calls
        <5> QED BY <2>2, <4>1, <5>1, ThreadsAssumption DEF Inv, AnswersOK
      <4>6. WaitedFor'
        BY <1>2, <1>k, <2>3, <4>4 DEF ReceiveAck
      <4> QED BY <4>4, <4>5, <4>6
    <3>2. CASE ~(t # Stale /\ call[t].answer = NoPath)
      <4>1. call' = call
        BY <1>2, <3>2 DEF ReceiveAck
      <4>2. WaitedFor'
        BY <1>2, <1>k, <2>3, <4>1 DEF ReceiveAck
      <4> QED BY <2>2, <4>1, <4>2, AnswersKept DEF Inv, CallsOK
    <3> QED BY <3>1, <3>2
  <2> QED BY <2>2, <2>3, <2>4 DEF Inv
<1>3. CASE ReceiveData(packet)
  <2>1. Arrives(packet, "data") /\ serving' \in [Nodes -> BOOLEAN]
    BY <1>3, <1>r DEF ReceiveData
  <2>2. Heard' /\ RestOK' /\ \A m \in Nodes : established[m] \subseteq established'[m]
    BY <1>3, <2>1, Receiving DEF ReceiveData
  <2>3. CallsOK' /\ AnswersOK'
    BY <1>3, <2>2, AnswersKept DEF ReceiveData, Inv, CallsOK
  <2>4. PacketsOK(wire)' /\ NewFrames
    BY <1>3, <1>w, NoNewFrames DEF ReceiveData
  <2>5. WaitedFor'
    BY <1>3, <1>k, <2>4 DEF ReceiveData
  <2> QED BY <2>2, <2>3, <2>4, <2>5 DEF Inv
<1>4. CASE Lose(packet)
  <2>1. packet.from \in Nodes
    BY DEF Inv, PacketsOK, PacketSet
  <2>2. bound' \subseteq Nodes
    BY <1>4, <2>1 DEF Lose, Binds, Inv, RestOK
  <2>3. Heard' /\ CallsOK' /\ AnswersOK' /\ RestOK'
    BY <1>4, <2>2 DEF Lose, Inv, Heard, DirectIsPreferred, CallsOK, AnswersOK, RestOK, paths
  <2>4. PacketsOK(wire)' /\ NewFrames
    BY <1>4, <1>w, NoNewFrames DEF Lose
  <2>5. WaitedFor'
    BY <1>4, <1>k, <2>4 DEF Lose
  <2> QED BY <2>3, <2>4, <2>5 DEF Inv
<1> QED BY <1>1, <1>2, <1>3, <1>4 DEF Network

\* Relays, paths, time and reloads keep the invariant.
LEMMA SurroundingsStep ==
  ASSUME Inv, Surroundings
  PROVE  Inv' /\ NewFrames
<1> DEFINE Fixed == UNCHANGED <<paths, call, wire, serving>>
<1>f. ASSUME Fixed, RestOK'
      PROVE  Inv' /\ NewFrames
  BY <1>f DEF Inv, Heard, DirectIsPreferred, CallsOK, AnswersOK, PacketsOK, WaitedFor,
             NewFrames, paths
<1>1. ASSUME NEW n \in Nodes, Announce(n) \/ RetryElapses(n) \/ Unbind(n)
      PROVE  Inv' /\ NewFrames
  <2>1. RestOK' /\ Fixed
    BY <1>1 DEF Announce, RetryElapses, Unbind, Inv, RestOK
  <2> QED BY <1>f, <2>1
<1>2. ASSUME NEW p \in Direct, Open(p) \/ Close(p)
      PROVE  Inv' /\ NewFrames
  <2>1. RestOK' /\ Fixed
    BY <1>2 DEF Open, Close, Inv, RestOK
  <2> QED BY <1>f, <2>1
<1>3. ASSUME NEW n \in Nodes, Reload(n)
      PROVE  Inv' /\ NewFrames
  <2>1. Heard'
    <3>1. active' \in [Nodes -> Paths \cup {NoPath}] /\ established' \in [Nodes -> SUBSET Paths]
      BY <1>3 DEF Reload, Inv, Heard
    <3>2. DirectIsPreferred'
      BY <1>3 DEF Reload, Inv, Heard, DirectIsPreferred
    <3> QED BY <3>1, <3>2 DEF Heard
  <2>2. \A t \in Threads : IF NodeOf[t] = n THEN call'[t] = Idle ELSE call'[t] = call[t]
    BY <1>3 DEF Reload, Own
  <2>3. CallsOK'
    <3>1. call' = [t \in Threads |-> IF t \in Own(n) THEN Idle ELSE call[t]]
      BY <1>3 DEF Reload
    <3> QED BY <3>1, IdleOK DEF Inv, CallsOK
  <2>4. AnswersOK'
    <3>1. \A m \in Nodes : m # n => established'[m] = established[m]
      BY <1>3 DEF Reload, Inv, Heard
    <3> QED BY <2>2, <3>1, IdleOK, ThreadsAssumption DEF Inv, AnswersOK
  <2>5. /\ PacketsOK(wire)'
        /\ \A packet \in wire' :
             /\ packet.kind = "data" => packet \in wire
             /\ packet.challenge # Stale => packet.challenge \notin Own(n) /\ packet \in wire
    <3>1. Own(n) \in SUBSET Threads /\ wire' = Forsaken(wire, Own(n))
      BY <1>3 DEF Reload, Own
    <3> QED BY <3>1, Forsaking DEF Inv
  <2>6. WaitedFor'
    <3>1. Own(n) \in SUBSET Threads /\ \A u \in Threads \ Own(n) : call'[u] = call[u]
      BY <2>2 DEF Own
    <3> QED BY <2>5, <3>1, WaitersKept
  <2>7. RestOK'
    BY <1>3 DEF Reload, Inv, RestOK
  <2> QED BY <2>1, <2>3, <2>4, <2>5, <2>6, <2>7, NoNewFrames DEF Inv
<1> QED BY <1>1, <1>2, <1>3, BoundsAssumption DEF Surroundings

\* Every step keeps the invariant and writes frames to sessions only.
LEMMA InvStep == Inv /\ [Next]_vars => Inv' /\ (NewFrames \/ UNCHANGED vars)
<1> SUFFICES ASSUME Inv, [Next]_vars PROVE Inv' /\ (NewFrames \/ UNCHANGED vars)
  OBVIOUS
<1>1. CASE Next
  BY <1>1, CallerStep, NetworkStep, SurroundingsStep DEF Next
<1>2. CASE UNCHANGED vars
  BY <1>2 DEF vars, paths, Inv, Heard, DirectIsPreferred, CallsOK, AnswersOK, PacketsOK,
              WaitedFor, RestOK
<1> QED BY <1>1, <1>2

-----------------------------------------------------------------------------
\* A node that has heard its peer over a direct path uses a direct path, until
\* its transport is replaced (markEstablished).
THEOREM DirectPreferred == Spec => []DirectIsPreferred
<1>1. Inv => DirectIsPreferred
  BY DEF Inv, Heard
<1> QED BY <1>1, InvInit, InvStep, PTL DEF Spec

\* Every call, packet and path has its type, and no answer is left behind in a
\* call that has ended (handleHelloAck, ensureAnySessionUntil).
THEOREM TransportTyped == Spec => []TypeOK
<1> QED BY InvTypes, InvInit, InvStep, PTL DEF Spec

\* A frame is written only over an established path: an answer that a call
\* takes from its waiter always belongs to the session of its own node.
THEOREM SessionFirst == Spec => FrameNeedsSession
<1>1. NewFrames \/ UNCHANGED vars =>
        [\A n \in Nodes, p \in Paths :
           Data(n, p) \in wire' \ wire => p \in established[n]]_vars
  BY DEF NewFrames
<1> QED BY <1>1, InvInit, InvStep, PTL DEF Spec, FrameNeedsSession

\* Only Send starts a call that sends: no step but that of a thread which begins
\* one turns an idle call into another.
LEMMA OnlySendSends ==
  ASSUME Inv, [Next]_vars, NEW t \in Threads, call[t] = Idle, call'[t].of = "send"
  PROVE  \E requested \in Paths : Send(t, requested)
<1>1. Idle.of = "none" /\ ~Idle.waits /\ call \in [Threads -> Calls]
  BY DEF Idle, Inv, CallsOK
<1>2. ASSUME NEW u \in Threads, Caller(u)
      PROVE  \E requested \in Paths : Send(t, requested)
  <2>1. CASE u # t
    <3>1. call'[t] = call[t]
      <4>1. (\E requested \in Paths : Send(u, requested)) \/ Warmup(u)
              \/ (\E k \in 1..Len(Candidates) : Attempt(u, k)) => call'[t] = call[t]
        BY <1>1, <2>1 DEF Send, Warmup, Attempt
      <4>2. ASSUME NEW p, Reach(u, p) PROVE call'[t] = call[t]
        BY <1>1, <2>1, <4>2 DEF Reach, Unwritten
      <4>3. Begin(u) \/ Answered(u) => call'[t] = call[t]
        BY <1>1, <2>1, <4>2 DEF Begin, Answered
      <4>4. Resend(u) \/ GiveUp(u) => call'[t] = call[t]
        BY <1>1, <2>1 DEF Resend, GiveUp
      <4> QED BY <1>2, <4>1, <4>3, <4>4 DEF Caller
    <3> QED BY <1>1, <3>1
  <2>2. CASE u = t
    <3>1. Warmup(t) => call'[t].of = "warmup"
      BY <1>1 DEF Warmup, Call, Idle
    <3>2. ASSUME NEW k \in 1..Len(Candidates), Attempt(t, k) PROVE call'[t].of = "attempt"
      <4>1. \E stages : call' = [call EXCEPT ![t] = Call("attempt", stages)]
        BY <3>2 DEF Attempt
      <4> QED BY <1>1, <4>1 DEF Call, Idle
    <3>3. ~Begin(t) /\ ~Resend(t) /\ ~Answered(t) /\ ~GiveUp(t)
      BY <1>1 DEF Begin, Resend, Answered, GiveUp
    <3> QED BY <1>2, <2>2, <3>1, <3>2, <3>3 DEF Caller
  <2> QED BY <2>1, <2>2
<1>3. ASSUME NEW packet \in wire, Network(packet)
      PROVE  FALSE
  <2>1. call'[t].of = call[t].of
    <3>1. ReceiveHello(packet) \/ ReceiveData(packet) \/ Lose(packet) => call' = call
      BY DEF ReceiveHello, ReceiveData, Lose
    <3>2. CASE ReceiveAck(packet)
      <4>1. \/ call' = call
            \/ \E u, p : call' = [call EXCEPT ![u].answer = p]
        BY <3>2 DEF ReceiveAck
      <4>2. call[t] \in Calls
        BY <1>1
      <4> QED BY <1>1, <4>1, <4>2 DEF Calls
    <3> QED BY <1>3, <3>1, <3>2 DEF Network
  <2> QED BY <1>1, <2>1
<1>4. CASE Surroundings
  <2>1. call'[t] \in {call[t], Idle}
    BY <1>4 DEF Surroundings, Announce, RetryElapses, Unbind, Reload, Open, Close
  <2> QED BY <1>1, <2>1
<1>5. CASE UNCHANGED vars
  BY <1>1, <1>5 DEF vars
<1> QED BY <1>2, <1>3, <1>4, <1>5 DEF Next

\* Send tries every address once, for any candidates: the relay and each direct
\* address stand at one place of its stages (sendAddresses, leadingDirectAddresses).
THEOREM AllTriedOnce == Spec => EveryPathOnce
<1> DEFINE Covers == \A t \in Threads : call[t] = Idle /\ call'[t].of = "send" =>
                       \A p \in Paths : TriedOnce(p, call'[t].stages)
<1>1. Inv /\ [Next]_vars => [Covers]_vars
  <2> SUFFICES ASSUME Inv, [Next]_vars, NEW t \in Threads, call[t] = Idle, call'[t].of = "send",
                      NEW p \in Paths
               PROVE  TriedOnce(p, call'[t].stages)
    OBVIOUS
  <2>1. PICK requested \in Paths : Send(t, requested)
    BY OnlySendSends
  <2>2. call'[t] = Call("send", Stages(SendAddresses(NodeOf[t], requested)))
    <3>1. call \in [Threads -> Calls]
      BY DEF Inv, CallsOK
    <3> QED BY <2>1, <3>1 DEF Send
  <2>3. call'[t].stages = Stages(SendAddresses(NodeOf[t], requested))
    BY <2>2 DEF Call, Idle
  <2>4. SendAddresses(NodeOf[t], requested) \in Seq(Paths)
        /\ EachOnce(SendAddresses(NodeOf[t], requested))
    BY SendAddressesTyped, SendAddressesEachOnce
  <2> QED BY <2>3, <2>4, StagesTryOnce
<1> QED BY <1>1, InvInit, InvStep, PTL DEF Spec, EveryPathOnce

=============================================================================
