----------------------- MODULE ReplayProtectionProofs -----------------------
(***************************************************************************)
(* ReplayProtection for every set of packets, every TTL and every lead of  *)
(* the receiver's clock.  AcceptedOnce is not inductive: that a nonce      *)
(* missing from the memory belongs to a new packet has to be known.  The   *)
(* invariant says so: a packet once let through is either still remembered *)
(* with an instant not before its SentAt, or too old by the receiver's     *)
(* clock.                                                                  *)
(***************************************************************************)
EXTENDS ReplayProtection, TLAPS

Remembered(p) == seen[p] # Never /\ sentAt[p] <= seen[p] /\ seen[p] <= Clock

TooOld(p) == Clock - sentAt[p] > TTL

Inv ==
  /\ TypeOK
  /\ AcceptedOnce
  /\ \A p \in Packets : sentAt[p] <= now
  /\ \A p \in Packets : seen[p] <= Clock
  /\ \A p \in Packets :
       accepted[p] = 1 => sentAt[p] # Never /\ (Remembered(p) \/ TooOld(p))

\* At first no packet is sent and no nonce is kept.
LEMMA InvInit == Init => Inv
BY TTLAssumption, LeadAssumption, TimeAssumption
   DEF Init, Inv, TypeOK, AcceptedOnce, Clock, Never, Remembered, TooOld

\* Every step keeps the nonces that may still be needed.
LEMMA InvStep == Inv /\ [Next]_vars => Inv'
<1> SUFFICES ASSUME Inv, [Next]_vars PROVE Inv'
  OBVIOUS
<1> USE TTLAssumption, LeadAssumption, TimeAssumption
    DEF Inv, TypeOK, AcceptedOnce, Clock, Never, Remembered, TooOld
<1>1. CASE Tick
  BY <1>1 DEF Tick
<1>2. ASSUME NEW p \in Packets, Send(p)
      PROVE  Inv'
  BY <1>2 DEF Send
<1>3. ASSUME NEW p \in Packets, Arrive(p)
      PROVE  Inv'
  <2>1. Purged \in [Packets -> 0..(MaxTime + Lead) \cup {Never}]
    BY DEF Purged
  <2>2. \A q \in Packets : Purged[q] \in {seen[q], Never}
    BY DEF Purged
  <2>3. \A q \in Packets : accepted[q] = 1 /\ Purged[q] = Never => TooOld(q)
    BY DEF Purged
  <2>4. CASE Replayed(p)
    BY <1>3, <2>1, <2>2, <2>3, <2>4 DEF Arrive
  <2>5. CASE ~Replayed(p)
    <3>1. accepted[p] = 0
      BY <2>3, <2>5 DEF Replayed
    <3>2. /\ seen' = [Purged EXCEPT ![p] = Clock]
          /\ accepted' = [accepted EXCEPT ![p] = 1]
          /\ UNCHANGED <<now, sentAt>>
      BY <1>3, <2>5, <3>1 DEF Arrive
    <3>3. TypeOK' /\ AcceptedOnce'
      BY <2>1, <3>2
    <3>4. \A q \in Packets : (q = p \/ seen'[q] = Purged[q]) /\ seen'[p] = Clock
      BY <2>1, <3>2
    <3> QED BY <1>3, <2>2, <2>3, <3>2, <3>3, <3>4 DEF Arrive
  <2> QED BY <2>4, <2>5
<1>4. CASE UNCHANGED vars
  BY <1>4 DEF vars
<1> QED BY <1>1, <1>2, <1>3, <1>4 DEF Next

\* No packet is let through twice by isReplay, whatever the delays, as long as
\* the receiver's clock is not behind the sender's.
THEOREM NoReplay == Spec => []AcceptedOnce
<1>1. Inv => AcceptedOnce
  BY DEF Inv
<1> QED BY <1>1, InvInit, InvStep, PTL DEF Spec
=============================================================================
