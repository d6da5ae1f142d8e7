-------------------------- MODULE ReplayProtection --------------------------
(***************************************************************************)
(* The replay protection of the secure UDP transport (isReplay in          *)
(* packages/runtime/go/secureudp/secureudp.go): a receiver remembers the   *)
(* nonce of each packet for a time and refuses packets sent longer ago.    *)
(*                                                                         *)
(* The network may delay, reorder, lose and duplicate packets without      *)
(* bound: a packet once sent can arrive at any time, any number of times.  *)
(* Instants are read from the sender's clock; the receiver's runs ahead of *)
(* it by Lead.  The receiver's clock never moves backwards.                *)
(***************************************************************************)
EXTENDS Integers

CONSTANTS
  Packets,   \* the packets of one sender, each with a nonce of its own
  TTL,       \* replayTTL
  Lead,      \* how far the receiver's clock is ahead of the sender's
  MaxTime    \* bound: the last instant considered

ASSUME TTLAssumption  == TTL \in Nat
ASSUME LeadAssumption == Lead \in Nat
ASSUME TimeAssumption == MaxTime \in Nat

VARIABLES
  now,      \* the sender's clock
  sentAt,   \* SentAt of each packet
  seen,     \* seenEnvelope
  accepted  \* bound: how often a packet was let through, up to twice

vars == <<now, sentAt, seen, accepted>>

Never == -1

-----------------------------------------------------------------------------
Init ==
  /\ now = 0
  /\ sentAt = [p \in Packets |-> Never]
  /\ seen = [p \in Packets |-> Never]
  /\ accepted = [p \in Packets |-> 0]

Tick ==
  /\ now < MaxTime
  /\ now' = now + 1
  /\ UNCHANGED <<sentAt, seen, accepted>>

\* encryptEnvelope
Send(p) ==
  /\ sentAt[p] = Never
  /\ sentAt' = [sentAt EXCEPT ![p] = now]
  /\ UNCHANGED <<now, seen, accepted>>

Clock == now + Lead

M_Purged == [q \in Packets |-> IF Clock - seen[q] >= TTL THEN Never ELSE seen[q]]

\* What is left of seenEnvelope after its purge.
Purged == [q \in Packets |-> IF Clock - seen[q] > TTL THEN Never ELSE seen[q]]

Replayed(p) == Purged[p] # Never \/ Clock - sentAt[p] > TTL

\* A copy of the packet reaches Serve.
Arrive(p) ==
  /\ sentAt[p] # Never
  /\ IF Replayed(p)
       THEN seen' = Purged /\ UNCHANGED accepted
       ELSE /\ seen' = [Purged EXCEPT ![p] = Clock]
            /\ accepted' = [accepted EXCEPT ![p] = IF @ = 0 THEN 1 ELSE 2]
  /\ UNCHANGED <<now, sentAt>>

Next == Tick \/ \E p \in Packets : Send(p) \/ Arrive(p)

Spec == Init /\ [][Next]_vars

-----------------------------------------------------------------------------
TypeOK ==
  /\ now \in 0..MaxTime
  /\ sentAt \in [Packets -> 0..MaxTime \cup {Never}]
  /\ seen \in [Packets -> 0..(MaxTime + Lead) \cup {Never}]
  /\ accepted \in [Packets -> 0..2]

\* No packet is let through twice, however late a copy of it arrives: a nonce
\* is forgotten only when its packet has become too old (README.md: replay
\* protection by nonce).  It takes a receiver whose clock is not behind.
AcceptedOnce == \A p \in Packets : accepted[p] <= 1
=============================================================================
