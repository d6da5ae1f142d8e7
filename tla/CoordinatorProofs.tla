-------------------------- MODULE CoordinatorProofs -------------------------
(***************************************************************************)
(* Coordinator for every time profile, policy and history of the two       *)
(* agents: its types, that its open attempts meet, and what an answer to a *)
(* heartbeat tells.                                                        *)
(***************************************************************************)
EXTENDS Coordinator, AttemptPolicyProofs, WellFoundedInduction

\* What an attempt becomes as time passes: it expires a window and a retention
\* after its execution, as long as both instants are told from earlier ones.
Aging(x) ==
  /\ x.execute \in -Horizon..Lead
  /\ x.expires \in -Horizon..(Lead + Window + Retention)
  /\ \/ x.expires = x.execute + Window + Retention
     \/ x.execute = -Horizon /\ x.expires <= x.execute + Window + Retention

\* Two attempts the store has not dropped were issued in the same instant, or the
\* one just ends as the other is issued.
Meet(x, y) ==
  x.expires >= 0 /\ y.expires >= 0 =>
    \/ x.expires = y.expires
    \/ x.expires = 0 /\ y.expires = Lead + Window + Retention
    \/ y.expires = 0 /\ x.expires = Lead + Window + Retention

\* The inductive invariant: what the store keeps of attempts that age together,
\* and that the agents' attempts are among them.
Inv ==
  /\ TypeOK
  /\ \A x \in Rows : Aging(x)
  /\ \A x, y \in Rows : Meet(x, y)
  /\ HeldIsKnown

-----------------------------------------------------------------------------
(* Nodes and instants *)

\* A node of the pair has one other node.
LEMMA OtherNode ==
  ASSUME NEW n \in Nodes
  PROVE  /\ Other(n) \in Nodes /\ Other(n) # n /\ Other(Other(n)) = n
         /\ \A m \in Nodes : m = n \/ m = Other(n)
<1>1. PICK a \in Nodes, b \in Nodes : a # b /\ Nodes = {a, b}
  BY NodesAssumption
<1>2. \A k \in Nodes : Other(k) \in Nodes /\ Other(k) # k
  BY <1>1 DEF Other
<1> QED BY <1>1, <1>2

\* The time profile and the instants are numbers, the whole profile within the
\* horizon.
LEMMA TimesTyped ==
  /\ Lead \in Nat /\ Window \in Nat /\ Retention \in Nat /\ Horizon \in Nat
  /\ Lead > 0 /\ Window > 0 /\ Retention > 0 /\ Lead + Window + Retention < Horizon
  /\ Never = -Horizon - 1 /\ MaxFailures \in Nat /\ ReportMatch \in Nat
BY ProfileAssumption, HorizonAssumption DEF Never

\* No attempt is an attempt whose window has passed.
LEMMA NoAttemptTyped == NoAttempt \in Attempt /\ Late(NoAttempt)
BY TimesTyped DEF NoAttempt, Attempt, Late, Instants, NoReason, Profiles

-----------------------------------------------------------------------------
(* Recursion over a sequence: what a set of positions that holds 0 and the  *)
(* successor of each of its members holds, and that a function defined from *)
(* each position to the next exists.                                        *)

\* The order of the numbers, as a relation.
Less == { p \in Nat \X Nat : p[1] < p[2] }

\* Numbers are well-founded.
LEMMA LessWellFounded == IsWellFoundedOn(Less, Nat)
BY NatLessThanWellFounded, Zenon DEF OpToRel, Less

\* Induction up to n, for a set of positions.
LEMMA SegmentInduction ==
  ASSUME NEW n \in Nat, NEW T, 0 \in T,
         \A i \in 1..n : i - 1 \in T => i \in T
  PROVE  \A i \in 0..n : i \in T
<1> SUFFICES ASSUME (0..n) \ T # {} PROVE FALSE
  OBVIOUS
<1>1. (0..n) \ T \subseteq Nat
  OBVIOUS
<1>2. PICK m \in (0..n) \ T : \A k \in (0..n) \ T : ~(<<k, m>> \in Less)
  BY <1>1, LessWellFounded, WFMin
<1>3. m \in 1..n /\ m - 1 \in (0..n) \ T
  <2>1. m # 0 /\ m \in 0..n /\ m \notin T
    BY <1>2
  <2>2. m \in 1..n /\ m - 1 \in 0..n
    BY <2>1
  <2>3. m - 1 \notin T
    BY <2>1, <2>2
  <2> QED BY <2>2, <2>3
<1>4. <<m - 1, m>> \in Less
  BY <1>3 DEF Less
<1> QED BY <1>2, <1>3, <1>4

\* What gives, at each position, the next value from the one before it.
Steps(n, V) == [(1..n) \X V -> V]

\* The functions that step says, from a first value on.
Iterations(n, V, first, step) ==
  { f \in [0..n -> V] : f[0] = first /\ \A i \in 1..n : f[i] = step[<<i, f[i-1]>>] }

\* A function given by its value at 0 and by a step from each value to the next
\* exists.
LEMMA SegmentRecursion ==
  ASSUME NEW n \in Nat, NEW V, NEW first \in V, NEW step \in Steps(n, V)
  PROVE  Iterations(n, V, first, step) # {}
<1> USE DEF Steps, Iterations
<1> DEFINE Good(m) == \E f \in [0..m -> V] :
             f[0] = first /\ \A i \in 1..m : f[i] = step[<<i, f[i-1]>>]
           T == { m \in 0..n : Good(m) }
<1>1. 0 \in T
  <2> DEFINE f == [i \in 0..0 |-> first]
  <2>1. f \in [0..0 -> V] /\ f[0] = first /\ \A i \in 1..0 : f[i] = step[<<i, f[i-1]>>]
    OBVIOUS
  <2> HIDE DEF f
  <2>2. Good(0)
    BY <2>1
  <2> QED BY <2>2
<1>2. ASSUME NEW m \in 1..n, m - 1 \in T
      PROVE  m \in T
  <2>1. PICK f \in [0..(m-1) -> V] :
          f[0] = first /\ \A i \in 1..(m-1) : f[i] = step[<<i, f[i-1]>>]
    BY <1>2
  <2> DEFINE g == [i \in 0..m |-> IF i = m THEN step[<<m, f[m-1]>>] ELSE f[i]]
  <2>2. <<m, f[m-1]>> \in (1..n) \X V
    BY <2>1
  <2>3. g \in [0..m -> V]
    BY <2>1, <2>2
  <2>4. g[0] = first
    BY <2>1
  <2>5. ASSUME NEW i \in 1..m PROVE g[i] = step[<<i, g[i-1]>>]
    <3>1. i - 1 \in 0..m /\ i - 1 # m /\ g[i-1] = f[i-1]
      OBVIOUS
    <3>2. CASE i = m
      BY <3>1, <3>2
    <3>3. CASE i # m
      <4>1. i \in 1..(m-1) /\ i \in 0..m
        BY <3>3
      <4>2. g[i] = f[i]
        BY <3>3, <4>1
      <4> QED BY <2>1, <3>1, <4>1, <4>2
    <3> QED BY <3>2, <3>3
  <2>6. Good(m)
    BY <2>3, <2>4, <2>5
  <2> QED BY <2>6
<1>3. \A i \in 0..n : i \in T
  <2> HIDE DEF T
  <2> QED BY <1>1, <1>2, SegmentInduction
<1> QED BY <1>3

-----------------------------------------------------------------------------
(* Pruning *)

\* What is kept of the first i rows: those that have not expired.
KeptUpTo(rows, i, q) ==
  /\ Len(q) <= i
  /\ \A k \in 1..Len(q) : \E j \in 1..i : ~Expired(rows[j]) /\ q[k] = rows[j]
  /\ \A j \in 1..i : ~Expired(rows[j]) => \E k \in 1..Len(q) : q[k] = rows[j]

\* One more row.
LEMMA KeptOneMore ==
  ASSUME NEW S, NEW rows \in Seq(S), NEW i \in 1..Len(rows),
         NEW q \in Seq(S), KeptUpTo(rows, i-1, q),
         NEW r, r = IF Expired(rows[i]) THEN q ELSE Append(q, rows[i])
  PROVE  r \in Seq(S) /\ KeptUpTo(rows, i, r)
<1>1. i \in Nat /\ i - 1 \in Nat /\ rows[i] \in S /\ Len(q) \in Nat
  OBVIOUS
<1>2. \A j \in 1..i : j = i \/ j \in 1..(i-1)
  BY <1>1
<1>3. CASE Expired(rows[i])
  BY <1>1, <1>2, <1>3 DEF KeptUpTo
<1>4. CASE ~Expired(rows[i])
  <2>1. r = Append(q, rows[i])
    BY <1>4
  <2>2. /\ r \in Seq(S) /\ Len(r) = Len(q) + 1 /\ r[Len(r)] = rows[i]
        /\ \A k \in 1..Len(q) : r[k] = q[k]
    BY <1>1, <2>1
  <2>3. ASSUME NEW k \in 1..Len(r)
        PROVE  \E j \in 1..i : ~Expired(rows[j]) /\ r[k] = rows[j]
    <3>1. CASE k = Len(r)
      BY <1>1, <1>4, <2>2, <3>1
    <3>2. CASE k \in 1..Len(q)
      BY <1>1, <2>2, <3>2 DEF KeptUpTo
    <3> QED BY <1>1, <2>2, <3>1, <3>2
  <2>4. ASSUME NEW j \in 1..i, ~Expired(rows[j])
        PROVE  \E k \in 1..Len(r) : r[k] = rows[j]
    <3>1. CASE j = i
      BY <1>1, <2>2, <3>1
    <3>2. CASE j \in 1..(i-1)
      <4>1. PICK k \in 1..Len(q) : q[k] = rows[j]
        BY <2>4, <3>2 DEF KeptUpTo
      <4> QED BY <1>1, <2>2, <4>1
    <3> QED BY <1>2, <3>1, <3>2
  <2>5. Len(r) <= i
    BY <1>1, <2>2 DEF KeptUpTo
  <2> QED BY <2>2, <2>3, <2>4, <2>5 DEF KeptUpTo
<1> QED BY <1>3, <1>4

\* Pruning keeps the rows that have not expired, and nothing else.
LEMMA UnexpiredKeeps ==
  ASSUME NEW S, NEW rows \in Seq(S)
  PROVE  Unexpired(rows) \in Seq(S) /\ KeptUpTo(rows, Len(rows), Unexpired(rows))
<1> DEFINE n == Len(rows)
           W == Seq(S)
           Step(i, q) == IF Expired(rows[i]) THEN q ELSE Append(q, rows[i])
           Kept(f) == [i \in 0..n |-> IF i = 0 THEN <<>> ELSE Step(i, f[i-1])]
           kept == CHOOSE f : f = Kept(f)
           step == [p \in (1..n) \X W |-> Step(p[1], p[2])]
<1>1. n \in Nat /\ <<>> \in W /\ \A i \in 1..n : rows[i] \in S
  OBVIOUS
<1>2. \A i \in 1..n, q \in W : Step(i, q) \in W
  BY <1>1
<1>3. Unexpired(rows) = kept[n]
  BY DEF Unexpired
<1> HIDE DEF n, W, Step
<1>4. step \in Steps(n, W)
  BY <1>2 DEF Steps
<1>5. ASSUME NEW i \in 1..n, NEW q \in W PROVE step[<<i, q>>] = Step(i, q)
  <2>1. <<i, q>> \in (1..n) \X W /\ <<i, q>>[1] = i /\ <<i, q>>[2] = q
    OBVIOUS
  <2> QED BY <2>1
<1> HIDE DEF step
<1>6. PICK f \in [0..n -> W] : f[0] = <<>> /\ \A i \in 1..n : f[i] = step[<<i, f[i-1]>>]
  <2>1. Iterations(n, W, <<>>, step) # {}
    BY <1>1, <1>4, SegmentRecursion
  <2> QED BY <2>1 DEF Iterations
<1>7. f = Kept(f)
  <2>1. \A i \in 1..n : f[i-1] \in W
    BY <1>1, <1>6
  <2>2. \A i \in 1..n : f[i] = Step(i, f[i-1])
    BY <1>5, <1>6, <2>1
  <2> QED BY <1>1, <1>6, <2>2
<1>8. kept = Kept(kept)
  <2> HIDE DEF Kept
  <2> QED BY <1>7
<1> HIDE DEF kept
<1>9. /\ DOMAIN kept = 0..n /\ kept[0] = <<>>
      /\ \A i \in 1..n : kept[i] = Step(i, kept[i-1])
  BY <1>1, <1>8
<1> DEFINE T == { i \in 0..n : kept[i] \in Seq(S) /\ KeptUpTo(rows, i, kept[i]) }
<1>10. 0 \in T
  <2>1. KeptUpTo(rows, 0, <<>>)
    BY DEF KeptUpTo
  <2> QED BY <1>1, <1>9, <2>1
<1>11. ASSUME NEW i \in 1..n, i - 1 \in T
       PROVE  i \in T
  <2>1. kept[i-1] \in Seq(S) /\ KeptUpTo(rows, i-1, kept[i-1])
    BY <1>11
  <2>2. kept[i] = Step(i, kept[i-1]) /\ i \in 1..Len(rows)
    BY <1>9 DEF n
  <2>3. kept[i] \in Seq(S) /\ KeptUpTo(rows, i, kept[i])
    BY <2>1, <2>2, KeptOneMore DEF Step
  <2> QED BY <1>1, <2>3
<1>12. n \in T
  <2> HIDE DEF T
  <2>1. \A i \in 0..n : i \in T
    BY <1>1, <1>10, <1>11, SegmentInduction
  <2> QED BY <1>1, <2>1
<1> QED BY <1>3, <1>12 DEF n

-----------------------------------------------------------------------------
(* The store within a heartbeat *)

\* What TypeOK says of the store.
GoodStore(s) ==
  /\ s \in [ seen      : [Nodes -> Never..0],
             endpoints : [Nodes -> [primary : Never..0, secondary : BOOLEAN]],
             reported  : [Nodes -> Report],
             attempts  : Seq(Attempt) ]
  /\ \A n \in Nodes : s.reported[n] \in PastReport
  /\ Store = "memory" => Len(s.attempts) <= 1

\* The attempts of a store's rows.
RowsOf(s) == { s.attempts[i] : i \in DOMAIN s.attempts }

\* The store is good by its types.
LEMMA StoreTyped == TypeOK => GoodStore(db) /\ Rows = RowsOf(db)
BY DEF TypeOK, GoodStore, PastReport, RowsOf, Rows

\* What the heartbeat of a node stores before it schedules.
Told(n, observed) ==
  Pruned([db EXCEPT !.seen[n] = 0, !.endpoints[n] = Observed(observed),
                    !.reported[n] = ReportOf(n)])

\* An agent reports what has happened.
LEMMA ReportTyped ==
  ASSUME TypeOK, NEW n \in Nodes
  PROVE  ReportOf(n) \in PastReport
<1>1. path[n] \in PathState /\ held[n] \in Attempt
  BY DEF TypeOK
<1>2. ReportedProfile(n) \in Profiles
  BY <1>1 DEF ReportedProfile, PathState, Attempt, Profiles
<1> DEFINE at == IF path[n].attemptAt = Never THEN 0 ELSE path[n].attemptAt
<1>3. at \in Instants /\ at <= 0 /\ 0 \in Instants
  BY <1>1, TimesTyped DEF PathState, Instants
<1>4. /\ path[n].kind \in {"none", "relay", "direct"} /\ path[n].result \in Results
      /\ path[n].secondary \in BOOLEAN /\ path[n].failures \in Nat
  BY <1>1, TimesTyped DEF PathState
<1> DEFINE r == ReportOf(n)
<1>5. r = [ kind |-> path[n].kind, result |-> path[n].result, profile |-> ReportedProfile(n),
            secondary |-> path[n].secondary, failures |-> path[n].failures,
            attemptAt |-> at, reportedAt |-> 0 ]
  BY DEF ReportOf
<1>6. r \in Report
  BY <1>2, <1>3, <1>4, <1>5 DEF Report
<1>7. r.attemptAt = at /\ r.reportedAt = 0
  BY <1>5
<1> QED BY <1>3, <1>6, <1>7 DEF PastReport

\* What is stored is good, and the attempts are those that have not expired.
LEMMA ToldGood ==
  ASSUME TypeOK, NEW n \in Nodes, NEW observed
  PROVE  LET s == Told(n, observed) IN
         /\ GoodStore(s)
         /\ s.attempts = Unexpired(db.attempts)
         /\ KeptUpTo(db.attempts, Len(db.attempts), s.attempts)
         /\ s.seen[n] = 0 /\ s.seen[Other(n)] = db.seen[Other(n)]
         /\ s.reported[n] = ReportOf(n)
<1> DEFINE seen == [db.seen EXCEPT ![n] = 0]
           endpoints == [db.endpoints EXCEPT ![n] = Observed(observed)]
           reported == [db.reported EXCEPT ![n] = ReportOf(n)]
           attempts == Unexpired(db.attempts)
           s == Told(n, observed)
<1>1. GoodStore(db)
  BY StoreTyped
<1>2. /\ s.seen = seen /\ s.endpoints = endpoints /\ s.reported = reported
      /\ s.attempts = attempts
  BY <1>1 DEF Told, Pruned, GoodStore
<1>3. seen \in [Nodes -> Never..0] /\ seen[n] = 0 /\ seen[Other(n)] = db.seen[Other(n)]
  BY <1>1, OtherNode, TimesTyped DEF GoodStore
<1>4. Observed(observed) \in [primary : Never..0, secondary : BOOLEAN]
  BY TimesTyped DEF Observed
<1>5. endpoints \in [Nodes -> [primary : Never..0, secondary : BOOLEAN]]
  BY <1>1, <1>4 DEF GoodStore
<1>6. /\ reported \in [Nodes -> Report] /\ reported[n] = ReportOf(n)
      /\ \A m \in Nodes : reported[m] \in PastReport
  BY <1>1, ReportTyped DEF GoodStore, PastReport
<1>7. /\ attempts \in Seq(Attempt) /\ KeptUpTo(db.attempts, Len(db.attempts), attempts)
      /\ Store = "memory" => Len(attempts) <= 1
  <2>1. db.attempts \in Seq(Attempt) /\ Store = "memory" => Len(db.attempts) <= 1
    BY <1>1 DEF GoodStore
  <2>2. attempts \in Seq(Attempt) /\ KeptUpTo(db.attempts, Len(db.attempts), attempts)
    BY <2>1, <1>1, UnexpiredKeeps DEF GoodStore
  <2>3. Len(attempts) <= Len(db.attempts) /\ Len(attempts) \in Nat /\ Len(db.attempts) \in Nat
    BY <1>1, <2>2 DEF KeptUpTo, GoodStore
  <2> QED BY <1>1, <2>2, <2>3 DEF GoodStore
<1>8. s \in [ seen      : [Nodes -> Never..0],
              endpoints : [Nodes -> [primary : Never..0, secondary : BOOLEAN]],
              reported  : [Nodes -> Report],
              attempts  : Seq(Attempt) ]
  BY <1>1, <1>3, <1>5, <1>6, <1>7 DEF Told, Pruned, GoodStore
<1> HIDE DEF seen, endpoints, reported, attempts, s
<1>9. GoodStore(s)
  BY <1>2, <1>6, <1>7, <1>8 DEF GoodStore
<1> QED BY <1>2, <1>3, <1>6, <1>7, <1>9 DEF attempts, s

\* An attempt that is issued is for a lead from now.
LEMMA NewAttemptTyped ==
  ASSUME NEW n \in Nodes, NEW s
  PROVE  /\ NewAttempt(n, s) \in Attempt /\ Aging(NewAttempt(n, s))
         /\ NewAttempt(n, s).execute = Lead
         /\ NewAttempt(n, s).expires = Lead + Window + Retention
         /\ NewAttempt(n, s).reason = ReasonFor(n, s)
<1> DEFINE p == NewAttempt(n, s).profile
<1>1. ReasonFor(n, s) \in {NoReason, "manual_recover", "relay_active", "fresh_endpoints"}
  BY ReasonTyped DEF ReasonFor
<1>2. p \in Profiles
  BY ProfileTyped DEF NewAttempt
<1>3. ASSUME NEW m \in Nodes PROVE Addresses(m, s) \in SUBSET (Nodes \X Phases)
  BY DEF Addresses, Phases
<1>4. Lead \in Instants /\ Lead + Window + Retention \in Instants
  BY TimesTyped DEF Instants
<1>5. NewAttempt(n, s) =
        [execute |-> Lead, expires |-> Lead + Window + Retention, reason |-> ReasonFor(n, s),
         profile |-> p, candidates |-> [m \in Nodes |-> Addresses(m, s)]]
  BY DEF NewAttempt
<1> HIDE DEF p
<1>6. NewAttempt(n, s) \in Attempt
  BY <1>1, <1>2, <1>3, <1>4, <1>5 DEF Attempt
<1> QED BY <1>5, <1>6, TimesTyped DEF Aging

\* What scheduling does to a good store: nothing, or one attempt is issued.
LEMMA ScheduledGood ==
  ASSUME NEW n \in Nodes, NEW s, GoodStore(s)
  PROVE  LET t == Scheduled(n, s) IN
         /\ GoodStore(t)
         /\ t.seen = s.seen /\ t.endpoints = s.endpoints /\ t.reported = s.reported
         /\ ~Schedulable(n, s) => t = s
         /\ Schedulable(n, s) =>
              t.attempts = IF Store = "memory" THEN <<NewAttempt(n, s)>>
                                               ELSE Append(s.attempts, NewAttempt(n, s))
<1> DEFINE t == Scheduled(n, s)
           rows == IF Store = "memory" THEN <<NewAttempt(n, s)>>
                                       ELSE Append(s.attempts, NewAttempt(n, s))
<1>1. CASE ~Schedulable(n, s)
  BY <1>1 DEF Scheduled
<1>2. CASE Schedulable(n, s)
  <2>1. t = [s EXCEPT !.attempts = rows]
    BY <1>2 DEF Scheduled
  <2>2. rows \in Seq(Attempt) /\ (Store = "memory" => Len(rows) <= 1)
    BY NewAttemptTyped DEF GoodStore
  <2> HIDE DEF rows
  <2>3. /\ t.seen = s.seen /\ t.endpoints = s.endpoints /\ t.reported = s.reported
        /\ t.attempts = rows
        /\ t \in [ seen      : [Nodes -> Never..0],
                   endpoints : [Nodes -> [primary : Never..0, secondary : BOOLEAN]],
                   reported  : [Nodes -> Report],
                   attempts  : Seq(Attempt) ]
    BY <2>1, <2>2 DEF GoodStore
  <2> QED BY <1>2, <2>2, <2>3 DEF GoodStore, rows
<1> QED BY <1>1, <1>2

-----------------------------------------------------------------------------
(* Attempts and time *)

\* An attempt that may still be executed has not expired, and one that ends now
\* may not be executed any more.
LEMMA OpenIsAhead ==
  ASSUME NEW x, Aging(x)
  PROVE  /\ x.execute \in Int /\ x.expires \in Int
         /\ ~Late(x) => x.expires > 0 /\ x.expires = x.execute + Window + Retention
BY TimesTyped DEF Aging, Late

\* Attempts that meet and may both still be executed are for the same instant.
LEMMA OpenMeet ==
  ASSUME NEW x, NEW y, Aging(x), Aging(y), Meet(x, y), ~Late(x), ~Late(y)
  PROVE  x.execute = y.execute
BY OpenIsAhead, TimesTyped DEF Meet

\* The rows of a good store are attempts.
LEMMA RowsTyped ==
  ASSUME NEW s, GoodStore(s)
  PROVE  /\ RowsOf(s) \subseteq Attempt
         /\ s.attempts # <<>> => s.attempts[1] \in RowsOf(s)
         /\ Store = "memory" => \A x, y \in RowsOf(s) : x = y
<1>1. s.attempts \in Seq(Attempt) /\ (Store = "memory" => Len(s.attempts) <= 1)
  BY DEF GoodStore
<1>2. DOMAIN s.attempts = 1..Len(s.attempts) /\ Len(s.attempts) \in Nat
  BY <1>1
<1> QED BY <1>1, <1>2 DEF RowsOf

\* After pruning, the rows are those that had not expired.
LEMMA ToldRows ==
  ASSUME TypeOK, NEW n \in Nodes, NEW observed
  PROVE  RowsOf(Told(n, observed)) = { x \in Rows : ~Expired(x) }
<1> DEFINE s == Told(n, observed)
<1>1. KeptUpTo(db.attempts, Len(db.attempts), s.attempts) /\ GoodStore(s) /\ GoodStore(db)
  BY ToldGood, StoreTyped
<1> HIDE DEF s
<1>2. /\ DOMAIN s.attempts = 1..Len(s.attempts)
      /\ DOMAIN db.attempts = 1..Len(db.attempts)
  BY <1>1 DEF GoodStore
<1>3. ASSUME NEW x \in RowsOf(s) PROVE x \in Rows /\ ~Expired(x)
  BY <1>1, <1>2, <1>3 DEF RowsOf, Rows, KeptUpTo
<1>4. ASSUME NEW x \in Rows, ~Expired(x) PROVE x \in RowsOf(s)
  <2>1. PICK j \in 1..Len(db.attempts) : x = db.attempts[j]
    BY <1>2 DEF Rows
  <2>2. PICK k \in 1..Len(s.attempts) : s.attempts[k] = db.attempts[j]
    BY <1>1, <1>4, <2>1 DEF KeptUpTo
  <2> QED BY <1>2, <2>1, <2>2 DEF RowsOf
<1> QED BY <1>3, <1>4 DEF s

\* An attempt is issued only when each one before it has ended or was issued in
\* the same instant; the memory store has none left then that may be executed.
LEMMA IssuedLast ==
  ASSUME Inv, NEW n \in Nodes, NEW observed, Schedulable(n, Told(n, observed)),
         NEW x \in RowsOf(Told(n, observed))
  PROVE  /\ x.expires = 0 \/ x.expires = Lead + Window + Retention
         /\ Store = "memory" => Late(x)
<1> DEFINE s == Told(n, observed)
           first == s.attempts[1]
<1>1. GoodStore(s) /\ RowsOf(s) = { y \in Rows : ~Expired(y) }
  BY ToldGood, ToldRows DEF Inv
<1>2. s.attempts # <<>>
  BY <1>1 DEF RowsOf
<1>3. first \in RowsOf(s) /\ first.expires <= 0
  <2>1. ~(first.expires > 0)
    BY <1>2 DEF Schedulable, PairBusy
  <2>2. first \in RowsOf(s) /\ first \in Attempt
    BY <1>1, <1>2, RowsTyped
  <2> QED BY <2>1, <2>2, TimesTyped DEF Attempt, Instants
<1> HIDE DEF first, s
<1>4. Aging(first) /\ Aging(x) /\ Meet(first, x) /\ ~Expired(first) /\ ~Expired(x)
  BY <1>1, <1>3 DEF Inv, s
<1>5. first.expires = 0 /\ x.expires >= 0
  BY <1>3, <1>4, OpenIsAhead DEF Expired
<1>6. x.expires = 0 \/ x.expires = Lead + Window + Retention
  BY <1>4, <1>5 DEF Meet
<1>7. ASSUME Store = "memory" PROVE Late(x)
  <2>1. x = first
    BY <1>1, <1>3, <1>7, RowsTyped DEF s
  <2> QED BY <1>4, <1>5, <2>1, OpenIsAhead
<1> QED BY <1>6, <1>7

-----------------------------------------------------------------------------
(* The invariant *)

\* The rows after the heartbeat of a node.
LEMMA HeartbeatRows ==
  ASSUME Inv, NEW n \in Nodes, NEW observed,
         NEW t, t = Scheduled(n, Told(n, observed))
  PROVE  /\ GoodStore(t)
         /\ \A x \in RowsOf(t) : Aging(x) /\ ~Expired(x)
         /\ \A x, y \in RowsOf(t) : Meet(x, y)
         /\ \A x \in Rows : ~Late(x) => x \in RowsOf(t)
<1> DEFINE s == Told(n, observed)
           new == NewAttempt(n, s)
<1>1. /\ GoodStore(s) /\ RowsOf(s) = { y \in Rows : ~Expired(y) }
      /\ \A x \in Rows : Aging(x)
      /\ \A x, y \in Rows : Meet(x, y)
  BY ToldGood, ToldRows DEF Inv
<1>2. /\ GoodStore(t)
      /\ ~Schedulable(n, s) => t = s
      /\ Schedulable(n, s) =>
           t.attempts = IF Store = "memory" THEN <<new>> ELSE Append(s.attempts, new)
  BY <1>1, ScheduledGood
<1>3. ASSUME NEW x \in Rows, ~Late(x) PROVE x \in RowsOf(s)
  BY <1>1, <1>3, OpenIsAhead DEF Expired
<1>4. /\ Aging(new) /\ new.expires = Lead + Window + Retention /\ ~Expired(new)
  BY NewAttemptTyped, TimesTyped DEF Expired
<1>5. CASE ~Schedulable(n, s)
  <2>1. t = s
    BY <1>2, <1>5
  <2> HIDE DEF s
  <2> QED BY <1>1, <1>2, <1>3, <2>1
<1>6. CASE Schedulable(n, s)
  <2>1. RowsOf(t) \subseteq RowsOf(s) \cup {new}
    <3>1. CASE Store = "memory"
      BY <1>2, <1>6, <3>1 DEF RowsOf
    <3>2. CASE Store # "memory"
      <4>1. t.attempts = Append(s.attempts, new) /\ s.attempts \in Seq(Attempt)
        BY <1>1, <1>2, <1>6, <3>2 DEF GoodStore
      <4> HIDE DEF s, new
      <4> QED BY <4>1 DEF RowsOf
    <3> QED BY <3>1, <3>2
  <2>2. \A x \in RowsOf(s) : /\ x.expires = 0 \/ x.expires = Lead + Window + Retention
                             /\ Store = "memory" => Late(x)
    BY <1>6, IssuedLast
  <2>3. ASSUME NEW x \in Rows, ~Late(x) PROVE x \in RowsOf(t)
    <3>1. x \in RowsOf(s) /\ Store # "memory"
      BY <1>3, <2>2, <2>3
    <3>2. t.attempts = Append(s.attempts, new) /\ s.attempts \in Seq(Attempt)
      BY <1>1, <1>2, <1>6, <3>1 DEF GoodStore
    <3> HIDE DEF s, new
    <3>3. PICK i \in 1..Len(s.attempts) : x = s.attempts[i]
      BY <3>1, <3>2 DEF RowsOf
    <3>4. i \in DOMAIN t.attempts /\ t.attempts[i] = x
      BY <3>2, <3>3
    <3> QED BY <3>4 DEF RowsOf
  <2> HIDE DEF s, new
  <2>4. \A x \in RowsOf(t) : Aging(x) /\ ~Expired(x)
    BY <1>1, <1>4, <2>1
  <2>5. ASSUME NEW x \in RowsOf(t), NEW y \in RowsOf(t) PROVE Meet(x, y)
    <3>1. \A z \in {x, y} : z.expires = 0 \/ z.expires = Lead + Window + Retention
      BY <1>4, <2>1, <2>2
    <3> QED BY <3>1 DEF Meet
  <2> QED BY <1>2, <2>3, <2>4, <2>5
<1> QED BY <1>5, <1>6

\* An answer leaves an agent with its attempt, or with one of the store's.
LEMMA AnswerTaken ==
  ASSUME Inv, NEW n \in Nodes, NEW observed, Heartbeat(n, observed)
  PROVE  /\ held' \in [Nodes -> Attempt]
         /\ \A m \in Nodes : held'[m] = held[m] \/ held'[m] \in RowsOf(db')
<1> DEFINE offered == { offer.attempt : offer \in Offers(n, db') }
           open == { x \in offered : ~Late(x) }
<1>1. db' = Scheduled(n, Told(n, observed))
  BY DEF Heartbeat, Told
<1>2. /\ GoodStore(db') /\ RowsOf(db') \subseteq Attempt
      /\ \A x \in RowsOf(db') : Aging(x)
      /\ \A x, y \in RowsOf(db') : Meet(x, y)
  BY <1>1, HeartbeatRows, RowsTyped
<1>3. open \subseteq RowsOf(db')
  BY DEF Offers, RowsOf
<1>4. held \in [Nodes -> Attempt]
  BY DEF Inv, TypeOK
<1>5. held' = [held EXCEPT ![n] =
        IF open = {} THEN @ ELSE CHOOSE x \in open : \A y \in open : y.execute <= x.execute]
  BY DEF Heartbeat, Receive
<1>6. CASE open = {}
  BY <1>4, <1>5, <1>6
<1>7. CASE open # {}
  <2>1. \A x, y \in open : x.execute = y.execute /\ x.execute \in Int
    BY <1>2, <1>3, OpenMeet, OpenIsAhead
  <2> HIDE DEF open
  <2>2. \E x \in open : \A y \in open : y.execute <= x.execute
    BY <1>7, <2>1
  <2>3. held'[n] \in open
    BY <1>4, <1>5, <1>7, <2>2
  <2> QED BY <1>2, <1>3, <1>4, <1>5, <2>3
<1> QED BY <1>6, <1>7

\* A heartbeat keeps the invariant.
LEMMA HeartbeatKeeps ==
  ASSUME Inv, NEW n \in Nodes, NEW observed, Heartbeat(n, observed)
  PROVE  Inv'
<1>1. db' = Scheduled(n, Told(n, observed)) /\ UNCHANGED <<up, path>>
  BY DEF Heartbeat, Told
<1>2. /\ GoodStore(db')
      /\ \A x \in RowsOf(db') : Aging(x)
      /\ \A x, y \in RowsOf(db') : Meet(x, y)
      /\ \A x \in Rows : ~Late(x) => x \in RowsOf(db')
  BY <1>1, HeartbeatRows
<1>3. /\ held' \in [Nodes -> Attempt]
      /\ \A m \in Nodes : held'[m] = held[m] \/ held'[m] \in RowsOf(db')
  BY AnswerTaken
<1>4. TypeOK'
  BY <1>1, <1>2, <1>3 DEF Inv, TypeOK, GoodStore, PastReport
<1>5. Rows' = RowsOf(db')
  BY DEF Rows, RowsOf
<1>6. HeldIsKnown'
  BY <1>2, <1>3, <1>5 DEF Inv, HeldIsKnown, Late
<1> QED BY <1>2, <1>4, <1>5, <1>6 DEF Inv

\* A step that leaves the store alone, and each agent with its attempt or with
\* none that may still be executed, keeps the invariant.
LEMMA AgentKeeps ==
  ASSUME Inv, UNCHANGED db, up' \in [Nodes -> BOOLEAN], path' \in [Nodes -> PathState],
         held' \in [Nodes -> Attempt],
         \A m \in Nodes : held'[m] = held[m] \/ Late(held'[m])
  PROVE  Inv'
<1>1. TypeOK'
  BY DEF Inv, TypeOK
<1>2. Rows' = Rows
  BY DEF Rows
<1>3. HeldIsKnown'
  BY <1>2 DEF Inv, HeldIsKnown, Late
<1> QED BY <1>1, <1>2, <1>3 DEF Inv

\* An attempt that is over is out of its agent's queue.
LEMMA HeldDropped ==
  ASSUME TypeOK, NEW n \in Nodes, held' = [held EXCEPT ![n] = NoAttempt]
  PROVE  /\ held' \in [Nodes -> Attempt]
         /\ \A m \in Nodes : held'[m] = held[m] \/ Late(held'[m])
BY NoAttemptTyped DEF TypeOK

\* An executed attempt.
LEMMA ExecuteKeeps ==
  ASSUME Inv, NEW n \in Nodes, NEW success \in BOOLEAN, Execute(n, success)
  PROVE  Inv'
<1>1. path \in [Nodes -> PathState] /\ held[n] \in Attempt /\ up \in [Nodes -> BOOLEAN]
  BY DEF Inv, TypeOK
<1> DEFINE p == path[n]
           kind == IF success THEN "direct" ELSE p.kind
           result == IF success THEN "success"
                     ELSE IF p.kind = "relay" THEN "relay_kept" ELSE "timeout"
           secondary == ~success /\ \E c \in held[n].candidates[n] : c[2] = "secondary"
           failures == IF success THEN 0 ELSE Smaller(p.failures + 1, MaxFailures)
           q == [ kind |-> kind, result |-> result, profile |-> held[n].profile,
                  secondary |-> secondary, attemptAt |-> 0, failures |-> failures ]
<1>2. path' = [path EXCEPT ![n] = q]
  BY DEF Execute
<1>3. /\ kind \in {"none", "relay", "direct"} /\ result \in Results
      /\ held[n].profile \in Profiles /\ secondary \in BOOLEAN
  BY <1>1 DEF PathState, Results, Failures, Attempt
<1>4. failures \in 0..MaxFailures /\ 0 \in Never..0
  BY <1>1, TimesTyped DEF PathState, Smaller
<1> HIDE DEF p, kind, result, secondary, failures
<1>5. q \in PathState
  BY <1>3, <1>4 DEF PathState
<1>6. path' \in [Nodes -> PathState]
  BY <1>1, <1>2, <1>5
<1>7. UNCHANGED <<db, up>> /\ held' = [held EXCEPT ![n] = NoAttempt]
  BY DEF Execute
<1> QED BY <1>1, <1>6, <1>7, HeldDropped, AgentKeeps DEF Inv

\* An attempt that was missed.
LEMMA MissKeeps ==
  ASSUME Inv, NEW n \in Nodes, Miss(n)
  PROVE  Inv'
<1>1. path \in [Nodes -> PathState] /\ held[n] \in Attempt /\ up \in [Nodes -> BOOLEAN]
  BY DEF Inv, TypeOK
<1> DEFINE q == [path[n] EXCEPT !.result = "cancelled", !.profile = held[n].profile,
                                !.secondary = FALSE, !.attemptAt = 0]
<1>2. path' = [path EXCEPT ![n] = q]
  BY DEF Miss
<1>3. held[n].profile \in Profiles /\ "cancelled" \in Results /\ 0 \in Never..0
  BY <1>1, TimesTyped DEF Attempt, Results
<1>4. q \in PathState
  BY <1>1, <1>3 DEF PathState
<1>5. path' \in [Nodes -> PathState]
  BY <1>1, <1>2, <1>4
<1>6. UNCHANGED <<db, up>> /\ held' = [held EXCEPT ![n] = NoAttempt]
  BY DEF Miss
<1> QED BY <1>1, <1>5, <1>6, HeldDropped, AgentKeeps DEF Inv

\* A path that changes without an attempt, an agent that sleeps, wakes up or
\* starts anew.
LEMMA DisturbanceKeeps ==
  ASSUME Inv, NEW n \in Nodes, Disturbance(n)
  PROVE  Inv'
<1>1. /\ path \in [Nodes -> PathState] /\ held \in [Nodes -> Attempt]
      /\ up \in [Nodes -> BOOLEAN]
  BY DEF Inv, TypeOK
<1>2. ASSUME NEW kind \in {"relay", "direct"}, ChangePath(n, kind) PROVE Inv'
  <2>1. path' \in [Nodes -> PathState]
    BY <1>1, <1>2 DEF ChangePath, PathState
  <2>2. UNCHANGED <<db, up, held>>
    BY <1>2 DEF ChangePath
  <2> QED BY <1>1, <2>1, <2>2, AgentKeeps
<1>3. CASE Sleep(n)
  BY <1>1, <1>3, AgentKeeps DEF Sleep
<1>4. CASE Wake(n)
  BY <1>1, <1>4, AgentKeeps DEF Wake
<1>5. CASE Restart(n)
  <2> DEFINE p == [IdlePath EXCEPT !.profile = held[n].profile, !.attemptAt = 0]
             q == [path[n] EXCEPT !.kind = "none", !.failures = 0]
             h == IF Late(held[n]) THEN NoAttempt ELSE held[n]
  <2>1. /\ path' = [path EXCEPT ![n] = IF Holds(n) THEN p ELSE q]
        /\ held' = [held EXCEPT ![n] = h]
        /\ up' = [up EXCEPT ![n] = TRUE] /\ UNCHANGED db
    BY <1>5 DEF Restart
  <2>2. /\ 0 \in Never..0 /\ 0 \in 0..MaxFailures
        /\ held[n].profile \in Profiles /\ "none" \in Results
    BY <1>1, TimesTyped DEF Attempt, Results
  <2>3. p \in PathState
    BY <2>2 DEF IdlePath, PathState
  <2>4. q \in PathState
    BY <1>1, <2>2 DEF PathState
  <2>5. path' \in [Nodes -> PathState]
    BY <1>1, <2>1, <2>3, <2>4
  <2>6. /\ held' \in [Nodes -> Attempt]
        /\ \A m \in Nodes : held'[m] = held[m] \/ Late(held'[m])
    BY <1>1, <2>1, NoAttemptTyped
  <2> QED BY <1>1, <2>1, <2>5, <2>6, AgentKeeps
<1> QED BY <1>2, <1>3, <1>4, <1>5 DEF Disturbance

-----------------------------------------------------------------------------
(* Time passes *)

\* A unit of time makes an attempt older, and takes neither its age nor that it
\* is over from it.
LEMMA OlderAttemptTyped ==
  ASSUME NEW x \in Attempt
  PROVE  /\ OlderAttempt(x) \in Attempt
         /\ Aging(x) => Aging(OlderAttempt(x))
         /\ Late(x) => Late(OlderAttempt(x))
         /\ OlderAttempt(x).execute = Older(x.execute)
         /\ OlderAttempt(x).expires = Older(x.expires)
<1>1. x.execute \in Instants /\ x.expires \in Instants
  BY DEF Attempt
<1>2. Older(x.execute) \in Instants /\ Older(x.expires) \in Instants
  BY <1>1, TimesTyped DEF Instants, Older
<1>3. /\ OlderAttempt(x) \in Attempt
      /\ OlderAttempt(x).execute = Older(x.execute)
      /\ OlderAttempt(x).expires = Older(x.expires)
  BY <1>2 DEF OlderAttempt, Attempt
<1>4. Aging(x) => Aging(OlderAttempt(x))
  BY <1>1, <1>3, TimesTyped DEF Aging, Older, Instants
<1>5. Late(x) => Late(OlderAttempt(x))
  BY <1>1, <1>3, TimesTyped DEF Late, Older, Instants
<1> QED BY <1>3, <1>4, <1>5

\* Attempts that meet go on to do so.
LEMMA OlderMeet ==
  ASSUME NEW x \in Attempt, NEW y \in Attempt, Meet(x, y)
  PROVE  Meet(OlderAttempt(x), OlderAttempt(y))
<1>1. /\ x.expires \in Int /\ y.expires \in Int
  BY DEF Attempt, Instants
<1>2. /\ OlderAttempt(x).expires = Older(x.expires)
      /\ OlderAttempt(y).expires = Older(y.expires)
  BY OlderAttemptTyped
<1> QED BY <1>1, <1>2, TimesTyped DEF Meet, Older

\* The passing of time.
LEMMA TickKeeps ==
  ASSUME Inv, Tick
  PROVE  Inv'
<1>1. GoodStore(db)
  BY StoreTyped DEF Inv
<1> DEFINE seen == [n \in Nodes |-> OlderSeen(db.seen[n])]
           endpoints == [n \in Nodes |->
              [db.endpoints[n] EXCEPT !.primary = OlderObservation(@)]]
           reported == [n \in Nodes |-> OlderReport(db.reported[n])]
           attempts == [i \in DOMAIN db.attempts |-> OlderAttempt(db.attempts[i])]
<1>2. /\ db'.seen = seen /\ db'.endpoints = endpoints /\ db'.reported = reported
      /\ db'.attempts = attempts
      /\ db' = [seen |-> seen, endpoints |-> endpoints, reported |-> reported,
                attempts |-> attempts]
  BY DEF Tick
<1>3. ASSUME NEW t \in Never..0 PROVE /\ OlderSeen(t) \in Never..0
                                      /\ OlderObservation(t) \in Never..0
                                      /\ Older(t) \in Never..0
  BY ConfigTyped, HorizonAssumption, TimesTyped
  DEF OlderSeen, OlderObservation, Older, Online, Within
<1>4. seen \in [Nodes -> Never..0]
  BY <1>1, <1>3 DEF GoodStore
<1>5. endpoints \in [Nodes -> [primary : Never..0, secondary : BOOLEAN]]
  BY <1>1, <1>3 DEF GoodStore
<1>6. ASSUME NEW r \in PastReport PROVE OlderReport(r) \in PastReport
  <2>1. CASE ~Fresh(r)
    BY <2>1, TimesTyped DEF OlderReport, NoReport, PastReport, Report, Results, Profiles, Instants
  <2>2. CASE Fresh(r)
    <3>1. /\ r.attemptAt \in Int /\ r.reportedAt \in Int
          /\ Never <= r.attemptAt /\ r.attemptAt <= 0 /\ r.reportedAt <= 0
          /\ r \in Report
      BY DEF PastReport, Report, Instants
    <3>2. Never <= r.reportedAt - 1
      BY <2>2, <3>1, ConfigTyped, HorizonAssumption, TimesTyped DEF Fresh, Within
    <3>3. Older(r.attemptAt) \in Never..0 /\ Older(r.attemptAt) \in Instants
          /\ r.reportedAt - 1 \in Never..0 /\ r.reportedAt - 1 \in Instants
      BY <3>1, <3>2, TimesTyped DEF Older, Instants
    <3> DEFINE s == [r EXCEPT !.attemptAt = Older(@), !.reportedAt = @ - 1]
    <3>4. s \in Report /\ s.attemptAt = Older(r.attemptAt) /\ s.reportedAt = r.reportedAt - 1
      BY <3>1, <3>3 DEF Report
    <3>5. OlderReport(r) = s
      BY <2>2 DEF OlderReport
    <3> HIDE DEF s
    <3> QED BY <3>3, <3>4, <3>5 DEF PastReport
  <2> QED BY <2>1, <2>2
<1>7. /\ reported \in [Nodes -> Report]
      /\ \A n \in Nodes : reported[n].attemptAt <= 0 /\ reported[n].reportedAt <= 0
  BY <1>1, <1>6 DEF GoodStore, PastReport
<1>8. db.attempts \in Seq(Attempt) /\ DOMAIN db.attempts = 1..Len(db.attempts)
      /\ Len(db.attempts) \in Nat
  BY <1>1 DEF GoodStore
<1>9. attempts \in Seq(Attempt) /\ Len(attempts) = Len(db.attempts)
  <2>1. \A i \in 1..Len(db.attempts) : OlderAttempt(db.attempts[i]) \in Attempt
    BY <1>8, OlderAttemptTyped
  <2> QED BY <1>8, <2>1
<1>10. path' \in [Nodes -> PathState]
  <2>1. ASSUME NEW n \in Nodes
        PROVE  [path[n] EXCEPT !.attemptAt = Older(@)] \in PathState
    BY <1>3 DEF Inv, TypeOK, PathState
  <2> QED BY <2>1 DEF Tick
<1>11. held' \in [Nodes -> Attempt]
  BY OlderAttemptTyped DEF Tick, Inv, TypeOK
<1> HIDE DEF seen, endpoints, reported, attempts
<1>12. TypeOK'
  <2>1. up' \in [Nodes -> BOOLEAN]
    BY DEF Tick, Inv, TypeOK
  <2>2. Store = "memory" => Len(db'.attempts) <= 1
    BY <1>1, <1>2, <1>9 DEF GoodStore
  <2> QED BY <1>2, <1>4, <1>5, <1>7, <1>9, <1>10, <1>11, <2>1, <2>2 DEF TypeOK
<1>13. Rows \subseteq Attempt
  BY <1>1, RowsTyped, StoreTyped DEF Inv
<1>14. ASSUME NEW x \in Rows' PROVE \E y \in Rows : x = OlderAttempt(y)
  BY <1>2 DEF Rows, attempts
<1>15. ASSUME NEW y \in Rows PROVE OlderAttempt(y) \in Rows'
  BY <1>2 DEF Rows, attempts
<1>16. \A x \in Rows' : Aging(x)
  BY <1>13, <1>14, OlderAttemptTyped DEF Inv
<1>17. \A x, y \in Rows' : Meet(x, y)
  BY <1>13, <1>14, OlderMeet DEF Inv
<1>18. HeldIsKnown'
  <2>1. SUFFICES ASSUME NEW n \in Nodes, ~Late(held'[n]) PROVE held'[n] \in Rows'
    BY DEF HeldIsKnown, Late
  <2>2. held[n] \in Attempt /\ held'[n] = OlderAttempt(held[n])
    BY DEF Tick, Inv, TypeOK
  <2>3. held[n] \in Rows
    BY <2>1, <2>2, OlderAttemptTyped DEF Inv, HeldIsKnown
  <2> QED BY <1>15, <2>2, <2>3
<1> QED BY <1>12, <1>16, <1>17, <1>18 DEF Inv

-----------------------------------------------------------------------------
(* The invariant holds *)

\* Initially.
LEMMA InitInv == Init => Inv
<1> SUFFICES ASSUME Init PROVE Inv
  OBVIOUS
<1>1. TypeOK
  <2>1. NoReport \in Report /\ NoReport.attemptAt <= 0 /\ NoReport.reportedAt <= 0
    BY TimesTyped DEF NoReport, Report, Results, Profiles, Instants
  <2>2. IdlePath \in PathState
    BY TimesTyped DEF IdlePath, PathState, Results, Profiles
  <2>3. Never \in Never..0 /\ <<>> \in Seq(Attempt) /\ Len(<<>>) = 0
    BY TimesTyped
  <2> QED BY <2>1, <2>2, <2>3, NoAttemptTyped DEF Init, TypeOK
<1>2. Rows = {}
  BY DEF Init, Rows
<1>3. HeldIsKnown
  BY NoAttemptTyped DEF Init, HeldIsKnown
<1> QED BY <1>1, <1>2, <1>3 DEF Inv

\* And after each step.
LEMMA InvStep == Inv /\ [Next]_vars => Inv'
<1> SUFFICES ASSUME Inv, [Next]_vars PROVE Inv'
  OBVIOUS
<1>1. CASE Tick
  BY <1>1, TickKeeps
<1>2. ASSUME NEW n \in Nodes, AgentStep(n) PROVE Inv'
  BY <1>2, HeartbeatKeeps, ExecuteKeeps, MissKeeps DEF AgentStep
<1>3. ASSUME NEW n \in Nodes, Disturbance(n) PROVE Inv'
  BY <1>3, DisturbanceKeeps
<1>4. CASE UNCHANGED vars
  BY <1>4, AgentKeeps DEF vars, Inv, TypeOK
<1> QED BY <1>1, <1>2, <1>3, <1>4 DEF Next

\* In every state of every behaviour.
LEMMA InvAlways == Spec => []Inv
BY InitInv, InvStep, PTL DEF Spec

-----------------------------------------------------------------------------
(* What it comes to *)

\* Every state is well typed: nothing is ever observed, seen, reported or tried
\* ahead of now, and the memory store keeps one attempt of the pair.
THEOREM TypeCorrect == Spec => []TypeOK
<1>1. Inv => TypeOK
  BY DEF Inv
<1> QED BY <1>1, InvAlways, PTL

\* No agent holds an attempt that may still be executed and that the store has
\* dropped: pruning at its end outlasts the window by the retention.
THEOREM HeldAreKnown == Spec => []HeldIsKnown
<1>1. Inv => HeldIsKnown
  BY DEF Inv
<1> QED BY <1>1, InvAlways, PTL

\* An attempt that may still be executed is a row of the store.
LEMMA OpenAreRows == Inv => OpenAttempts \subseteq Rows
BY DEF Inv, HeldIsKnown, OpenAttempts

\* With either store, the attempts that may still be executed are for the same
\* instant.
THEOREM AttemptsMeet == Spec => []OpenTogether
<1>1. Inv => OpenTogether
  BY OpenAreRows, OpenMeet DEF Inv, OpenTogether, OpenAttempts
<1> QED BY <1>1, InvAlways, PTL

\* With the memory store there is one of them.  The SQLite store may hold two: it
\* looks the first row up, which may just be ending while a second is there.
THEOREM OneOpenInMemory ==
  ASSUME Store = "memory"
  PROVE  Spec => []OneOpenAttempt
<1>1. Inv => OneOpenAttempt
  BY OpenAreRows, StoreTyped, RowsTyped DEF Inv, OneOpenAttempt
<1> QED BY <1>1, InvAlways, PTL

\* Both sides of the pair are told the same of its block.
THEOREM ToldAlike == Spec => []SidesToldAlike
<1>1. ASSUME Inv PROVE SidesToldAlike
  <2> SUFFICES ASSUME NEW n \in Nodes
               PROVE  LET mine == BlockFor(n, db)  theirs == BlockFor(Other(n), db) IN
                      /\ mine.blocked = theirs.blocked /\ mine.until = theirs.until
                      /\ (\A m \in Nodes : BlockOf(db.reported[m]).kind # "unnamed")
                           => mine.nextProbe = theirs.nextProbe
    BY DEF SidesToldAlike
  <2> DEFINE l == BlockOf(db.reported[n])
             r == BlockOf(db.reported[Other(n)])
  <2>1. Other(n) \in Nodes /\ Other(Other(n)) = n
    BY OtherNode
  <2>2. Sound(l) /\ Sound(r)
    BY <1>1, <2>1, StoreTyped, BlockSound DEF Inv, GoodStore
  <2>3. BlockFor(n, db) = LaterBlock(l, r) /\ BlockFor(Other(n), db) = LaterBlock(r, l)
    BY <2>1 DEF BlockFor, PairBlock
  <2> QED BY <2>1, <2>2, <2>3, LaterBlockCommutes
<1> QED BY <1>1, InvAlways, PTL

-----------------------------------------------------------------------------
(* What an answer tells *)

\* Candidates, blocks and reasons do not depend on the attempts.
LEMMA ReasonUnscheduled ==
  ASSUME NEW n \in Nodes, NEW s, NEW t,
         s.endpoints = t.endpoints, s.reported = t.reported
  PROVE  /\ \A m \in Nodes : CandidatesOf(m, s) = CandidatesOf(m, t)
         /\ ReasonFor(n, s) = ReasonFor(n, t)
BY OtherNode DEF CandidatesOf, ReasonFor

\* The store a heartbeat leaves behind: the attempt its recovery state names is
\* its first row, which has not expired.
LEMMA AnswerNames ==
  ASSUME Inv, NEW n \in Nodes, NEW observed, Heartbeat(n, observed), db'.attempts # <<>>
  PROVE  Latest(db') = db'.attempts[1] /\ Latest(db') # NoAttempt
<1>1. db' = Scheduled(n, Told(n, observed))
  BY DEF Heartbeat, Told
<1>2. GoodStore(db') /\ \A x \in RowsOf(db') : ~Expired(x)
  BY <1>1, HeartbeatRows
<1>3. db'.attempts[1] \in RowsOf(db')
  BY <1>2, RowsTyped
<1>4. Latest(db') = db'.attempts[1] /\ ~Expired(Latest(db'))
  BY <1>2, <1>3 DEF Latest
<1>5. Expired(NoAttempt)
  BY TimesTyped DEF Expired, NoAttempt
<1> QED BY <1>4, <1>5

\* An answer that finds a pair eligible has issued an attempt.
LEMMA AnswerServes ==
  ASSUME Inv, NEW n \in Nodes, NEW observed, Heartbeat(n, observed)
  PROVE  Status(n, db') # "eligible"
<1> SUFFICES ASSUME Status(n, db') = "eligible" PROVE FALSE
  OBVIOUS
<1> DEFINE s == Told(n, observed)
<1>1. db' = Scheduled(n, s)
  BY DEF Heartbeat, Told
<1>2. /\ Latest(db') = NoAttempt
      /\ Online(db'.seen[n]) /\ Online(db'.seen[Other(n)])
      /\ HasAny(CandidatesOf(n, db')) /\ HasAny(CandidatesOf(Other(n), db'))
      /\ ReasonFor(n, db') # NoReason
  BY DEF Status
<1>3. db'.attempts = <<>>
  BY <1>2, AnswerNames
<1>4. GoodStore(s)
  BY ToldGood DEF Inv
<1> HIDE DEF s
<1>5. /\ db'.seen = s.seen /\ db'.endpoints = s.endpoints /\ db'.reported = s.reported
      /\ ~Schedulable(n, s) => db' = s
      /\ Schedulable(n, s) =>
           db'.attempts = IF Store = "memory" THEN <<NewAttempt(n, s)>>
                                              ELSE Append(s.attempts, NewAttempt(n, s))
  BY <1>1, <1>4, ScheduledGood
<1>6. ~Schedulable(n, s)
  <2>1. s.attempts \in Seq(Attempt)
    BY <1>4 DEF GoodStore
  <2> QED BY <1>3, <1>5, <2>1
<1>7. ~PairBusy(s)
  BY <1>3, <1>5, <1>6 DEF PairBusy
<1>8. /\ \A m \in Nodes : CandidatesOf(m, db') = CandidatesOf(m, s)
      /\ ReasonFor(n, db') = ReasonFor(n, s)
  BY <1>5, ReasonUnscheduled
<1>9. \A m \in Nodes : Online(s.seen[m]) /\ HasAny(CandidatesOf(m, s))
  BY <1>2, <1>5, <1>8, OtherNode
<1> QED BY <1>2, <1>6, <1>7, <1>8, <1>9 DEF Schedulable

\* No answer calls a pair eligible without having issued the attempt.
THEOREM EligibleServed == Spec => EligibleIsServed
<1>1. Inv /\ [Next]_vars =>
        [\A n \in Nodes : Answered(n) => Status(n, db') # "eligible"]_vars
  BY AnswerServes DEF Answered
<1> QED BY <1>1, InvAlways, PTL DEF Spec, EligibleIsServed

\* Every attempt the memory store offers is the one its answer names.
THEOREM OffersNamedInMemory ==
  ASSUME Store = "memory"
  PROVE  Spec => OffersExplained
<1>1. ASSUME Inv, NEW n \in Nodes, NEW observed, Heartbeat(n, observed),
             NEW offer \in Offers(n, db')
      PROVE  offer.attempt = Latest(db')
  <2>1. db' = Scheduled(n, Told(n, observed))
    BY <1>1 DEF Heartbeat, Told
  <2>2. GoodStore(db')
    BY <1>1, <2>1, HeartbeatRows
  <2>3. offer.attempt \in RowsOf(db')
    BY DEF Offers, RowsOf
  <2>4. db'.attempts # <<>>
    BY <2>3 DEF RowsOf
  <2> QED BY <1>1, <2>2, <2>3, <2>4, AnswerNames, RowsTyped
<1>2. Inv /\ [Next]_vars =>
        [\A n \in Nodes : Answered(n) =>
           \A offer \in Offers(n, db') : offer.attempt = Latest(db')]_vars
  BY <1>1 DEF Answered
<1> QED BY <1>2, InvAlways, PTL DEF Spec, OffersExplained

\* What an answer issues is for the scheduler's reason.
LEMMA AnswerIssues ==
  ASSUME Inv, NEW n \in Nodes, NEW observed, Heartbeat(n, observed), NEW x \in Issued
  PROVE  /\ Schedulable(n, Told(n, observed))
         /\ x = NewAttempt(n, Told(n, observed))
         /\ GoodStore(Told(n, observed))
         /\ db'.reported = Told(n, observed).reported
<1> DEFINE s == Told(n, observed)
<1>1. db' = Scheduled(n, s)
  BY DEF Heartbeat, Told
<1>2. GoodStore(s) /\ RowsOf(s) \subseteq Rows /\ s.attempts \in Seq(Attempt)
  BY ToldGood, ToldRows DEF Inv, GoodStore
<1> HIDE DEF s
<1>3. /\ db'.reported = s.reported
      /\ ~Schedulable(n, s) => db' = s
      /\ Schedulable(n, s) =>
           db'.attempts = IF Store = "memory" THEN <<NewAttempt(n, s)>>
                                              ELSE Append(s.attempts, NewAttempt(n, s))
  BY <1>1, <1>2, ScheduledGood
<1>4. x \in RowsOf(db') /\ x \notin Rows
  BY DEF Issued, RowsOf
<1>5. Schedulable(n, s)
  BY <1>2, <1>3, <1>4
<1>6. RowsOf(db') \subseteq RowsOf(s) \cup {NewAttempt(n, s)}
  <2>1. CASE Store = "memory"
    BY <1>3, <1>5, <2>1 DEF RowsOf
  <2>2. CASE Store # "memory"
    BY <1>2, <1>3, <1>5, <2>2 DEF RowsOf
  <2> QED BY <2>1, <2>2
<1> QED BY <1>2, <1>3, <1>4, <1>5, <1>6 DEF s

\* No attempt is issued against a side's suppression, but for a probe that its
\* own budget allows, whatever the other side's budget and settings are.
THEOREM BudgetHolds == Spec => ExhaustedBudgetHolds
<1>1. ASSUME Inv, NEW n \in Nodes, NEW observed, Heartbeat(n, observed),
             NEW m \in Nodes, NEW x \in Issued, Suppresses(db'.reported[m])
      PROVE  /\ x.reason = "manual_recover"
             /\ Setting(Config.probeLimit, db'.reported[m]) > 0
                  => Remaining(db'.reported[m]) > 0
  <2> DEFINE s == Told(n, observed)
             k == Other(n)
  <2>1. /\ Schedulable(n, s) /\ x = NewAttempt(n, s) /\ GoodStore(s)
        /\ db'.reported = s.reported
    BY <1>1, AnswerIssues
  <2> HIDE DEF s
  <2>2. /\ s.reported[n] \in PastReport /\ s.reported[k] \in PastReport
        /\ db'.reported[m] \in {s.reported[n], s.reported[k]}
    BY <2>1, OtherNode DEF GoodStore
  <2>3. ReasonFor(n, s) # NoReason /\ x.reason = ReasonFor(n, s)
    BY <2>1, NewAttemptTyped DEF Schedulable
  <2>4. ReasonFor(n, s) = Reason(CandidatesOf(n, s), CandidatesOf(k, s),
                                 s.reported[n], s.reported[k])
    BY DEF ReasonFor
  <2> QED BY <1>1, <2>2, <2>3, <2>4, ProbesAreBudgeted
<1>2. Inv /\ [Next]_vars =>
        [\A n, m \in Nodes :
           Answered(n) /\ Issued # {} /\ Suppresses(db'.reported[m]) =>
             /\ \A x \in Issued : x.reason = "manual_recover"
             /\ Setting(Config.probeLimit, db'.reported[m]) > 0
                  => Remaining(db'.reported[m]) > 0]_vars
  BY <1>1 DEF Answered
<1> QED BY <1>2, InvAlways, PTL DEF Spec, ExhaustedBudgetHolds

-----------------------------------------------------------------------------
(* The rendezvous.  The open attempts are rows, all for one instant; what a *)
(* step does to the open rows is what it does to the rendezvous.            *)

\* The rows that may still be executed.
Open(rows) == { x \in rows : ~Late(x) }

\* All for one instant, whose window has not passed.
Alike(open) ==
  \A x, y \in open : x.execute = y.execute /\ x.execute \in Int /\ x.execute >= -Window

\* The instant of attempts that are all for the same one.
InstantOf(open) ==
  IF open = {} THEN -(Window + 1) ELSE (CHOOSE x \in open : TRUE).execute

\* It is that of each of them, and is told from none.
LEMMA InstantOfAlike ==
  ASSUME NEW open, Alike(open)
  PROVE  /\ \A x \in open : InstantOf(open) = x.execute
         /\ InstantOf(open) = -(Window + 1) <=> open = {}
         /\ InstantOf(open) \in Int
<1>1. CASE open = {}
  BY <1>1, TimesTyped DEF InstantOf
<1>2. CASE open # {}
  <2>1. (CHOOSE x \in open : TRUE) \in open
    BY <1>2
  <2>2. \A x \in open : InstantOf(open) = x.execute
    BY <1>2, <2>1 DEF InstantOf, Alike
  <2> QED BY <1>2, <2>1, <2>2, TimesTyped DEF Alike
<1> QED BY <1>1, <1>2

\* The mapping in a state of the invariant.
LEMMA Mapped == Inv => Meeting = InstantOf(Open(Rows)) /\ Alike(Open(Rows))
<1> SUFFICES ASSUME Inv PROVE Meeting = InstantOf(Open(Rows)) /\ Alike(Open(Rows))
  OBVIOUS
<1>1. OpenAttempts = Open(Rows)
  BY OpenAreRows DEF OpenAttempts, Open
<1>2. \A x \in Open(Rows) : x.execute \in Int /\ x.execute >= -Window
  BY TimesTyped DEF Inv, Open, Late, Aging
<1>3. \A x, y \in Open(Rows) : x.execute = y.execute
  BY OpenMeet DEF Inv, Open
<1> QED BY <1>1, <1>2, <1>3 DEF Meeting, InstantOf, Alike

\* And in the next one.
LEMMA MappedNext == Inv' => Meeting' = InstantOf(Open(Rows')) /\ Alike(Open(Rows'))
<1>1. (Inv => Meeting = InstantOf(Open(Rows)) /\ Alike(Open(Rows)))'
  BY Mapped, PTL
<1> QED BY <1>1 DEF InstantOf, Open, Alike, Late

\* An answer leaves a node with an open attempt, if there is one, and lets the
\* other node be.
LEMMA AnswerJoins ==
  ASSUME Inv, NEW n \in Nodes, NEW observed, Heartbeat(n, observed)
  PROVE  /\ Open(Rows') = {} => held' = held
         /\ Open(Rows') # {} => held'[n] \in Open(Rows')
         /\ \A m \in Nodes : m # n => held'[m] = held[m]
<1> DEFINE offered == { offer.attempt : offer \in Offers(n, db') }
           open == { x \in offered : ~Late(x) }
<1>1. db' = Scheduled(n, Told(n, observed))
  BY DEF Heartbeat, Told
<1>2. /\ \A x \in RowsOf(db') : Aging(x) /\ ~Expired(x)
      /\ \A x, y \in RowsOf(db') : Meet(x, y)
  BY <1>1, HeartbeatRows
<1>3. Rows' = RowsOf(db')
  BY DEF Rows, RowsOf
<1>4. open = Open(Rows')
  <2>1. ASSUME NEW x \in RowsOf(db') PROVE x \in offered
    <3>1. x \in { y \in { db'.attempts[i] : i \in DOMAIN db'.attempts } : ~Expired(y) }
      BY <1>2 DEF RowsOf
    <3>2. [attempt |-> x, candidates |-> x.candidates[n]] \in Offers(n, db')
      BY <3>1 DEF Offers
    <3>3. [attempt |-> x, candidates |-> x.candidates[n]].attempt = x
      OBVIOUS
    <3> QED BY <3>2, <3>3
  <2>2. \A x \in offered : x \in RowsOf(db')
    BY DEF Offers, RowsOf
  <2> QED BY <1>3, <2>1, <2>2 DEF Open
<1>5. held \in [Nodes -> Attempt]
  BY DEF Inv, TypeOK
<1>6. held' = [held EXCEPT ![n] =
        IF open = {} THEN @ ELSE CHOOSE x \in open : \A y \in open : y.execute <= x.execute]
  BY DEF Heartbeat, Receive
<1>7. \A x, y \in open : x.execute = y.execute /\ x.execute \in Int
  BY <1>2, <1>3, <1>4, OpenMeet, OpenIsAhead DEF Open
<1> HIDE DEF open
<1>8. open # {} => \E x \in open : \A y \in open : y.execute <= x.execute
  BY <1>7
<1>9. open # {} => held'[n] \in open
  BY <1>5, <1>6, <1>8
<1> QED BY <1>4, <1>5, <1>6, <1>9

\* The open rows after an answer: those before, and maybe one for a lead from now,
\* if none was open for another instant.
LEMMA AnswerAgrees ==
  ASSUME Inv, NEW n \in Nodes, NEW observed, Heartbeat(n, observed)
  PROVE  \/ Open(Rows') = Open(Rows)
         \/ /\ \E x \in Open(Rows') : x.execute = Lead
            /\ \A x \in Open(Rows) : x.execute = Lead
<1> DEFINE s == Told(n, observed)
           new == NewAttempt(n, s)
<1>1. db' = Scheduled(n, s)
  BY DEF Heartbeat, Told
<1>2. /\ GoodStore(s) /\ RowsOf(s) = { y \in Rows : ~Expired(y) }
      /\ \A x \in Rows : Aging(x)
  BY ToldGood, ToldRows DEF Inv
<1>3. Rows' = RowsOf(db')
  BY DEF Rows, RowsOf
<1>4. Open(RowsOf(s)) = Open(Rows)
  BY <1>2, OpenIsAhead DEF Open, Expired
<1>5. CASE ~Schedulable(n, s)
  <2>1. db' = s
    BY <1>1, <1>5 DEF Scheduled
  <2> HIDE DEF s
  <2> QED BY <1>3, <1>4, <2>1
<1>6. CASE Schedulable(n, s)
  <2>1. ASSUME NEW x \in Open(Rows) PROVE x.execute = Lead
    <3>1. x \in RowsOf(s) /\ Aging(x) /\ ~Late(x)
      BY <1>2, <1>4 DEF Open
    <3>2. x.expires = 0 \/ x.expires = Lead + Window + Retention
      BY <1>6, <3>1, IssuedLast
    <3> QED BY <3>1, <3>2, OpenIsAhead, TimesTyped
  <2>2. new.execute = Lead /\ ~Late(new)
    BY NewAttemptTyped, TimesTyped DEF Late
  <2>3. db'.attempts = IF Store = "memory" THEN <<new>> ELSE Append(s.attempts, new)
    BY <1>1, <1>2, <1>6, ScheduledGood
  <2>4. s.attempts \in Seq(Attempt)
    BY <1>2 DEF GoodStore
  <2> HIDE DEF s, new
  <2>5. new \in RowsOf(db')
    <3>1. CASE Store = "memory"
      BY <2>3, <3>1 DEF RowsOf
    <3>2. CASE Store # "memory"
      <4>1. db'.attempts = Append(s.attempts, new)
        BY <2>3, <3>2
      <4>2. Len(s.attempts) + 1 \in DOMAIN db'.attempts
            /\ db'.attempts[Len(s.attempts) + 1] = new
        BY <2>4, <4>1
      <4> QED BY <4>2 DEF RowsOf
    <3> QED BY <3>1, <3>2
  <2> QED BY <1>3, <2>1, <2>2, <2>5 DEF Open
<1> QED BY <1>5, <1>6

\* A heartbeat is heard.
LEMMA HeartbeatIsHeard ==
  ASSUME Inv, Inv', NEW n \in Nodes, NEW observed, Heartbeat(n, observed)
  PROVE  RV!Hear(n)
<1>1. /\ Meeting = InstantOf(Open(Rows)) /\ Alike(Open(Rows))
      /\ Meeting' = InstantOf(Open(Rows')) /\ Alike(Open(Rows'))
  BY Mapped, MappedNext
<1>2. Meeting' = Meeting \/ (Meeting \in {RV!Passed, Lead} /\ Meeting' = Lead)
  BY <1>1, AnswerAgrees, InstantOfAlike DEF RV!Passed
<1>3. Present' = IF Meeting' = RV!Passed THEN Present ELSE Present \cup {n}
  <2>1. Present' = { m \in Nodes : ~Late(held'[m]) }
    BY DEF Present, Late
  <2>2. CASE Open(Rows') = {}
    BY <1>1, <2>1, <2>2, AnswerJoins, InstantOfAlike DEF Present, RV!Passed
  <2>3. CASE Open(Rows') # {}
    <3>1. Meeting' # RV!Passed
      BY <1>1, <2>3, InstantOfAlike DEF RV!Passed
    <3>2. /\ ~Late(held'[n])
          /\ \A m \in Nodes : m # n => held'[m] = held[m]
      BY <2>3, AnswerJoins DEF Open
    <3> QED BY <2>1, <3>1, <3>2 DEF Present
  <2> QED BY <2>2, <2>3
<1>4. n \notin Heard /\ Heard' = Heard \cup {n}
  <2>1. db.seen[n] # 0 /\ db' = Scheduled(n, Told(n, observed)) /\ TypeOK
    BY DEF Heartbeat, Told, Inv
  <2>2. GoodStore(Told(n, observed)) /\ Told(n, observed).seen[n] = 0
        /\ Told(n, observed).seen[Other(n)] = db.seen[Other(n)]
    BY <2>1, ToldGood
  <2>3. db'.seen = Told(n, observed).seen
    BY <2>1, <2>2, ScheduledGood
  <2> QED BY <2>1, <2>2, <2>3, OtherNode DEF Heard
<1> QED BY <1>2, <1>3, <1>4 DEF RV!Hear

\* A step that leaves the store alone leaves what is agreed on and who has heard.
LEMMA StoreAlone ==
  ASSUME Inv, Inv', UNCHANGED db
  PROVE  Meeting' = Meeting /\ Heard' = Heard
<1>1. Rows' = Rows
  BY DEF Rows
<1> QED BY <1>1, Mapped, MappedNext DEF Heard

\* An attempt is executed by a node that is present, within the window.
LEMMA ExecutePunches ==
  ASSUME Inv, Inv', NEW n \in Nodes, NEW success, Execute(n, success)
  PROVE  RV!Punch(n)
<1>1. Meeting' = Meeting /\ Heard' = Heard
  BY StoreAlone DEF Execute
<1>2. held[n] \in Open(Rows) /\ held[n].execute <= 0
  BY DEF Inv, HeldIsKnown, Execute, Open
<1>3. Meeting = held[n].execute /\ Meeting \in Int /\ Meeting >= -Window
  BY <1>2, Mapped, InstantOfAlike DEF Alike
<1>4. Meeting \in -Window..0
  BY <1>2, <1>3, TimesTyped
<1>5. Present' = { m \in Nodes : ~Late(held'[m]) } /\ held' = [held EXCEPT ![n] = NoAttempt]
  BY DEF Present, Late, Execute
<1>6. n \in Present /\ Present' = Present \ {n}
  BY <1>5, NoAttemptTyped DEF Present, Execute, Inv, TypeOK
<1> QED BY <1>1, <1>4, <1>6 DEF RV!Punch

\* What no agent holds or tells is no part of the rendezvous.
LEMMA OthersStutter ==
  ASSUME Inv, Inv', UNCHANGED db, held' \in [Nodes -> Attempt],
         \A m \in Nodes : held'[m] = held[m] \/ (Late(held'[m]) /\ Late(held[m]))
  PROVE  Meeting' = Meeting /\ Present' = Present /\ Heard' = Heard
<1>1. Present' = { m \in Nodes : ~Late(held'[m]) }
  BY DEF Present, Late
<1>2. Present' = Present
  BY <1>1 DEF Present
<1> QED BY <1>2, StoreAlone

\* The clock moves for both.
LEMMA TickPasses ==
  ASSUME Inv, Inv', Tick
  PROVE  RV!Pass
<1>1. /\ Meeting = InstantOf(Open(Rows)) /\ Alike(Open(Rows))
      /\ Meeting' = InstantOf(Open(Rows')) /\ Alike(Open(Rows'))
  BY Mapped, MappedNext
<1>2. GoodStore(db) /\ Rows = RowsOf(db)
  BY StoreTyped DEF Inv
<1>3. Rows \subseteq Attempt /\ \A x \in Rows : Aging(x)
  BY <1>2, RowsTyped DEF Inv
<1>4. db'.attempts = [i \in DOMAIN db.attempts |-> OlderAttempt(db.attempts[i])]
  BY DEF Tick
<1>5. ASSUME NEW y \in Rows PROVE OlderAttempt(y) \in Rows'
  BY <1>4 DEF Rows
<1>6. ASSUME NEW x \in Rows' PROVE \E y \in Rows : x = OlderAttempt(y)
  BY <1>4 DEF Rows
<1>7. ASSUME NEW y \in Attempt
      PROVE  /\ Late(OlderAttempt(y)) <=> y.execute <= -Window
             /\ ~Late(y) => OlderAttempt(y).execute = y.execute - 1
  BY OlderAttemptTyped, TimesTyped DEF Late, Older, Attempt, Instants
<1>8. ASSUME NEW x \in Open(Rows')
      PROVE  \E y \in Open(Rows) : x = OlderAttempt(y) /\ x.execute = y.execute - 1
  <2>1. PICK y \in Rows : x = OlderAttempt(y)
    BY <1>6 DEF Open
  <2>2. ~Late(y)
    BY <1>3, <2>1, OlderAttemptTyped DEF Open
  <2> QED BY <1>3, <1>7, <2>1, <2>2 DEF Open
<1>9. Meeting' = IF Meeting = RV!Passed THEN RV!Passed ELSE Meeting - 1
  <2>1. CASE Open(Rows) = {}
    <3>1. Open(Rows') = {}
      BY <1>8, <2>1
    <3> QED BY <1>1, <2>1, <3>1, InstantOfAlike DEF RV!Passed
  <2>2. CASE Open(Rows) # {}
    <3>1. PICK y \in Open(Rows) : TRUE
      BY <2>2
    <3>2. /\ y \in Rows /\ y \in Attempt /\ ~Late(y) /\ y.execute \in Int
          /\ Meeting = y.execute /\ Meeting # RV!Passed /\ Meeting >= -Window
      BY <1>1, <1>3, <3>1, InstantOfAlike DEF RV!Passed, Open, Alike
    <3>3. CASE Meeting = -Window
      <4>1. Open(Rows') = {}
        <5>1. ASSUME NEW x \in Open(Rows') PROVE FALSE
          <6>1. PICK z \in Open(Rows) : x = OlderAttempt(z) /\ x.execute = z.execute - 1
            BY <1>8
          <6>2. z.execute = Meeting /\ z \in Attempt
            BY <1>1, <1>3, <6>1, InstantOfAlike DEF Open
          <6>3. Late(x)
            BY <1>7, <3>3, <6>1, <6>2, TimesTyped
          <6> QED BY <6>3 DEF Open
        <5> QED BY <5>1
      <4> QED BY <1>1, <3>2, <3>3, <4>1, InstantOfAlike, TimesTyped DEF RV!Passed
    <3>4. CASE Meeting # -Window
      <4>1. ~Late(OlderAttempt(y)) /\ OlderAttempt(y).execute = y.execute - 1
        BY <1>7, <3>2, <3>4, TimesTyped
      <4>2. OlderAttempt(y) \in Open(Rows')
        BY <1>5, <3>2, <4>1 DEF Open
      <4> QED BY <1>1, <3>2, <4>1, <4>2, InstantOfAlike
    <3> QED BY <3>3, <3>4
  <2> QED BY <2>1, <2>2
<1>10. Present' = IF Meeting' = RV!Passed THEN {} ELSE Present
  <2>1. Present' = { m \in Nodes : ~Late(OlderAttempt(held[m])) }
    BY DEF Present, Late, Tick
  <2>2. \A m \in Nodes : held[m] \in Attempt
    BY DEF Inv, TypeOK
  <2>3. ASSUME NEW m \in Nodes, ~Late(held[m])
        PROVE  Meeting = held[m].execute /\ Meeting \in Int /\ Meeting >= -Window
               /\ Meeting # RV!Passed
    <3>1. held[m] \in Open(Rows)
      BY <2>3 DEF Inv, HeldIsKnown, Open
    <3> QED BY <1>1, <3>1, InstantOfAlike DEF Alike, RV!Passed
  <2>4. ASSUME NEW m \in Nodes
        PROVE  ~Late(OlderAttempt(held[m])) <=> ~Late(held[m]) /\ Meeting' # RV!Passed
    <3>1. CASE Late(held[m])
      BY <2>2, <3>1, OlderAttemptTyped
    <3>2. CASE ~Late(held[m])
      <4>1. Meeting' = held[m].execute - 1 /\ held[m].execute \in Int
        BY <1>9, <2>3, <3>2
      <4>2. Late(OlderAttempt(held[m])) <=> held[m].execute <= -Window
        BY <1>7, <2>2
      <4> QED BY <2>3, <3>2, <4>1, <4>2, TimesTyped DEF RV!Passed
    <3> QED BY <3>1, <3>2
  <2> QED BY <2>1, <2>4 DEF Present
<1>11. Heard' = {}
  <2>1. ASSUME NEW t \in Never..0 PROVE OlderSeen(t) # 0
    BY TimesTyped DEF OlderSeen
  <2>2. db'.seen = [m \in Nodes |-> OlderSeen(db.seen[m])] /\ \A m \in Nodes : db.seen[m] \in Never..0
    BY <1>2 DEF Tick, GoodStore
  <2> QED BY <2>1, <2>2 DEF Heard
<1> QED BY <1>9, <1>10, <1>11 DEF RV!Pass

\* Store, reports, queues, sleep and restarts, for either store and every policy
\* and time profile, implement the rendezvous of the two nodes.
THEOREM Refinement == Spec => ImplementsRendezvous
<1>1. Init => RV!Init
  <2> SUFFICES ASSUME Init PROVE RV!Init
    OBVIOUS
  <2>1. Rows = {} /\ \A n \in Nodes : held[n] = NoAttempt /\ db.seen[n] = Never
    BY DEF Init, Rows
  <2>2. OpenAttempts = {} /\ Present = {}
    BY <2>1, NoAttemptTyped DEF OpenAttempts, Present
  <2>3. Heard = {}
    BY <2>1, TimesTyped DEF Heard
  <2> QED BY <2>2, <2>3 DEF RV!Init, RV!Passed, Meeting
<1>2. Inv /\ Inv' /\ [Next]_vars => [RV!Next]_<<Meeting, Present, Heard>>
  <2> SUFFICES ASSUME Inv, Inv', [Next]_vars
               PROVE  RV!Next \/ (Meeting' = Meeting /\ Present' = Present /\ Heard' = Heard)
    OBVIOUS
  <2> USE DEF RV!Next
  <2>1. CASE Tick
    BY <2>1, TickPasses
  <2>2. ASSUME NEW n \in Nodes, NEW observed, Heartbeat(n, observed)
        PROVE  RV!Next
    BY <2>2, HeartbeatIsHeard
  <2>3. ASSUME NEW n \in Nodes, NEW success, Execute(n, success)
        PROVE  RV!Next
    BY <2>3, ExecutePunches
  <2>4. held' \in [Nodes -> Attempt] /\ held \in [Nodes -> Attempt]
    BY DEF Inv, TypeOK
  <2>5. ASSUME NEW n \in Nodes, Miss(n)
        PROVE  Meeting' = Meeting /\ Present' = Present /\ Heard' = Heard
    BY <2>4, <2>5, NoAttemptTyped, OthersStutter DEF Miss
  <2>6. ASSUME NEW n \in Nodes, Disturbance(n)
        PROVE  Meeting' = Meeting /\ Present' = Present /\ Heard' = Heard
    <3>1. UNCHANGED db
      BY <2>6 DEF Disturbance, ChangePath, Sleep, Wake, Restart
    <3>2. UNCHANGED held \/ held' = [held EXCEPT ![n] = IF Late(@) THEN NoAttempt ELSE @]
      BY <2>6 DEF Disturbance, ChangePath, Sleep, Wake, Restart
    <3> QED BY <2>4, <3>1, <3>2, NoAttemptTyped, OthersStutter
  <2>7. CASE UNCHANGED vars
    BY <2>4, <2>7, OthersStutter DEF vars
  <2> QED BY <2>1, <2>2, <2>3, <2>5, <2>6, <2>7 DEF Next, AgentStep
<1> QED
  BY <1>1, <1>2, InvAlways, InitInv, InvStep, PTL DEF Spec, ImplementsRendezvous, RV!Spec

=============================================================================
