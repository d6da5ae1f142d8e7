------------------------ MODULE AttemptPolicyProofs ------------------------
(***************************************************************************)
(* What the policy of direct attempts guarantees for every configuration   *)
(* and every two reports: how two blocks are merged does not depend on who *)
(* asks, and a spent probe budget lets no attempt through.                 *)
(***************************************************************************)
EXTENDS AttemptPolicy, TLAPS

\* Reports of what has happened.
PastReport == { r \in Report : r.attemptAt <= 0 /\ r.reportedAt <= 0 }

\* The kinds of a block.
Kinds == {"none", "cooldown", "suppressed", "unnamed"}

\* A block without the bounds of Instants, as sums of instants may leave them.
AnyBlock ==
  [ blocked : BOOLEAN, kind : Kinds, until : Int, nextProbe : Int,
    limited : BOOLEAN, remaining : Nat, refillAt : Int ]

\* What holds of the blocks of a report and of all that is merged from them.
Sound(b) ==
  /\ b \in AnyBlock
  /\ ~b.blocked => b = NotBlocked
  /\ b.blocked => b.kind # "none"
  /\ b.kind = "cooldown" => b.nextProbe = Never /\ ~b.limited /\ b.refillAt = Never
  /\ b.kind = "suppressed" /\ b.limited /\ b.remaining = 0 => b.nextProbe = b.refillAt

\* A block with the given kind, end, next probe, and budget.
BlockWith(k, u, p, l, m, f) ==
  [ blocked |-> TRUE, kind |-> k, until |-> u, nextProbe |-> p,
    limited |-> l, remaining |-> m, refillAt |-> f ]

-----------------------------------------------------------------------------
(* Settings and numbers *)

\* Never lies before now, and the settings of the configuration are tables.
LEMMA ConfigTyped ==
  /\ Never \in Int /\ Never < 0 /\ Horizon \in Nat
  /\ {Config.cooldown, Config.manualAfter, Config.suppressAfter, Config.suppressWindow,
      Config.probeInterval, Config.probeLimit, Config.probeRefill} \subseteq Table
  /\ {Config.onlineWindow, Config.endpointWindow, Config.transportWindow} \subseteq Nat
BY ConfigAssumption, HorizonAssumption DEF Never

\* A setting looked up for a report is a number, whichever of the general and
\* the particular values are configured.
LEMMA SettingTyped ==
  ASSUME NEW table \in Table, NEW r \in Report
  PROVE  Setting(table, r) \in Nat
<1>1. /\ table["any"] \in Nat /\ table["primary_upgrade"] \in Nat
      /\ \A f \in Failures : table[f] \in Nat
  BY DEF Table
<1> QED BY <1>1 DEF Setting, OrElse

\* The first multiple of d after a.
LEMMA NextMultiple ==
  ASSUME NEW a \in Nat, NEW d \in Nat, d > 0
  PROVE  a \div d \in Nat /\ (a \div d + 1) * d > a
<1>1. a \div d \in Int /\ a % d \in 0..(d-1)
  OBVIOUS
<1>2. a = (a \div d) * d + (a % d)
  BY Z3
<1>3. (a \div d + 1) * d = (a \div d) * d + d
  BY <1>1, Z3
<1>4. a \div d >= 0
  BY Z3
<1> QED BY <1>1, <1>2, <1>3, <1>4

-----------------------------------------------------------------------------
(* The blocks of one report *)

\* No block is a sound one.
LEMMA NotBlockedSound == Sound(NotBlocked) /\ ~NotBlocked.blocked /\ NotBlocked.kind = "none"
BY ConfigTyped DEF Sound, NotBlocked, AnyBlock, Kinds

\* A block for a time without probes is sound.
LEMMA WithoutProbesSound ==
  ASSUME NEW k \in {"cooldown", "unnamed"}, NEW u \in Int
  PROVE  LET b == BlockWith(k, u, Never, FALSE, 0, Never) IN Sound(b) /\ b.blocked /\ b.kind = k
<1> DEFINE b == BlockWith(k, u, Never, FALSE, 0, Never)
<1>1. k \in Kinds /\ Never \in Int /\ 0 \in Nat /\ FALSE \in BOOLEAN
  BY ConfigTyped DEF Kinds
<1>2. /\ b \in AnyBlock /\ b.blocked /\ b.limited = FALSE
      /\ b.kind = k /\ b.nextProbe = Never /\ b.refillAt = Never
  BY <1>1 DEF BlockWith, AnyBlock
<1> QED BY <1>2 DEF Sound

\* A block stripped of its probes is sound.
LEMMA StrippedSound ==
  ASSUME NEW b \in AnyBlock, b.kind \in {"cooldown", "unnamed"}
  PROVE  /\ Sound(WithoutProbes(b))
         /\ WithoutProbes(b).blocked
         /\ WithoutProbes(b).kind = b.kind /\ WithoutProbes(b).until = b.until
         /\ WithoutProbes(b).nextProbe = Never
<1>1. WithoutProbes(b) \in AnyBlock
  BY ConfigTyped DEF WithoutProbes, NotBlocked, AnyBlock, Kinds
<1>2. /\ WithoutProbes(b).blocked
      /\ WithoutProbes(b).kind = b.kind /\ WithoutProbes(b).until = b.until
  BY DEF WithoutProbes, NotBlocked
<1>3. /\ WithoutProbes(b).nextProbe = Never /\ WithoutProbes(b).refillAt = Never
      /\ ~WithoutProbes(b).limited
  BY DEF WithoutProbes, NotBlocked
<1> QED BY <1>1, <1>2, <1>3 DEF Sound

\* The refill of a budget always lies ahead.
LEMMA RefillAhead ==
  ASSUME NEW r \in PastReport
  PROVE  /\ RefillAt(r) \in Int
         /\ RefillAt(r) # Never => RefillAt(r) > 0
<1> DEFINE refill == Setting(Config.probeRefill, r)
           age    == -r.attemptAt
           next   == (age \div refill + 1) * refill
<1>1. r \in Report /\ r.attemptAt \in Int /\ age \in Nat
  BY ConfigTyped DEF PastReport, Report, Instants
<1>2. refill \in Nat
  BY <1>1, SettingTyped, ConfigTyped
<1>3. CASE RefillAt(r) = Never
  BY <1>3, ConfigTyped
<1>4. CASE RefillAt(r) # Never
  <2>1. refill > 0 /\ RefillAt(r) = r.attemptAt + next
    BY <1>4 DEF RefillAt
  <2>2. age \div refill \in Nat /\ next > age
    BY <1>1, <1>2, <2>1, NextMultiple
  <2>3. next \in Int
    BY <1>2, <2>2
  <2> QED BY <1>1, <2>1, <2>2, <2>3
<1> QED BY <1>3, <1>4

\* Of a probe limit something remains or nothing, never less.
LEMMA RemainingTyped ==
  ASSUME NEW r \in PastReport
  PROVE  Remaining(r) \in Nat
<1> DEFINE refill == Setting(Config.probeRefill, r)
<1>1. r \in Report /\ r.attemptAt \in Int /\ r.failures \in Nat /\ -r.attemptAt \in Nat
  BY ConfigTyped DEF PastReport, Report, Instants
<1>2. /\ refill \in Nat /\ Setting(Config.suppressAfter, r) \in Nat
      /\ Setting(Config.probeLimit, r) \in Nat
  BY <1>1, SettingTyped, ConfigTyped
<1>3. Spent(r) \in Int
  <2>1. CASE refill = 0
    BY <1>1, <1>2, <2>1 DEF Spent
  <2>2. CASE refill > 0
    <3>1. (-r.attemptAt) \div refill \in Nat
      BY <1>1, <1>2, <2>2, NextMultiple
    <3> QED BY <1>1, <1>2, <2>2, <3>1 DEF Spent, Larger
  <2> QED BY <1>2, <2>1, <2>2
<1> QED BY <1>2, <1>3 DEF Remaining, Larger

\* The cooldown of a report is sound.
LEMMA CooldownSound ==
  ASSUME NEW r \in PastReport
  PROVE  Sound(Cooldown(r))
<1>1. r \in Report /\ r.attemptAt \in Int
  BY ConfigTyped DEF PastReport, Report, Instants
<1>2. Setting(Config.cooldown, r) \in Nat
  BY <1>1, SettingTyped, ConfigTyped
<1> DEFINE until == r.attemptAt + Setting(Config.cooldown, r)
<1>3. CASE Fresh(r) /\ until > 0
  <2>1. Cooldown(r) = BlockWith(Named("cooldown", r), until, Never, FALSE, 0, Never)
    BY <1>3 DEF Cooldown, NotBlocked, BlockWith
  <2>2. Named("cooldown", r) \in {"cooldown", "unnamed"} /\ until \in Int
    BY <1>1, <1>2 DEF Named
  <2> QED BY <2>1, <2>2, WithoutProbesSound
<1>4. CASE ~(Fresh(r) /\ until > 0)
  BY <1>4, NotBlockedSound DEF Cooldown
<1> QED BY <1>3, <1>4

\* The suppression of a report is sound: a spent budget is due at its refill.
LEMMA SuppressionSound ==
  ASSUME NEW r \in PastReport
  PROVE  /\ Sound(Suppression(r))
         /\ Suppression(r).blocked <=> Suppresses(r)
         /\ Suppression(r).kind # "cooldown"
<1>1. r \in Report /\ r.attemptAt \in Int
  BY ConfigTyped DEF PastReport, Report, Instants
<1>2. /\ Setting(Config.suppressWindow, r) \in Nat /\ Setting(Config.probeInterval, r) \in Nat
      /\ Setting(Config.probeLimit, r) \in Nat
  BY <1>1, SettingTyped, ConfigTyped
<1>3. RefillAt(r) \in Int /\ Remaining(r) \in Nat
  BY RefillAhead, RemainingTyped
<1>4. NextProbe(r) \in Int
  BY <1>1, <1>2, <1>3, ConfigTyped DEF NextProbe
<1>5. Setting(Config.probeLimit, r) > 0 /\ Remaining(r) = 0 => NextProbe(r) = RefillAt(r)
  BY DEF NextProbe
<1>6. CASE Suppresses(r)
  <2> DEFINE k == Named("suppressed", r)
             u == r.attemptAt + Setting(Config.suppressWindow, r)
             l == Setting(Config.probeLimit, r) > 0
             b == BlockWith(k, u, NextProbe(r), l, Remaining(r), RefillAt(r))
  <2>1. Suppression(r) = b
    BY <1>6 DEF Suppression, BlockWith
  <2>2. k \in {"suppressed", "unnamed"} /\ k \in Kinds /\ u \in Int /\ l \in BOOLEAN
    BY <1>1, <1>2 DEF Named, Kinds
  <2>3. /\ b \in AnyBlock /\ b.blocked /\ b.limited = l /\ b.kind = k
        /\ b.nextProbe = NextProbe(r) /\ b.remaining = Remaining(r) /\ b.refillAt = RefillAt(r)
    BY <1>3, <1>4, <2>2 DEF BlockWith, AnyBlock
  <2> QED BY <1>5, <1>6, <2>1, <2>2, <2>3 DEF Sound
<1>7. CASE ~Suppresses(r)
  BY <1>7, NotBlockedSound DEF Suppression
<1> QED BY <1>6, <1>7

-----------------------------------------------------------------------------
(* Merging blocks *)

\* What is merged from the probes of two blocks.
LEMMA MergedTyped ==
  ASSUME NEW l, NEW r, Sound(l), Sound(r), NEW k \in Nat
  PROVE  /\ MergedRemaining(l, r) \in Nat
         /\ MergedRefillAt(l, r, k) \in Int
         /\ Later(l.nextProbe, r.nextProbe) \in Int
<1>1. /\ l.limited \in BOOLEAN /\ r.limited \in BOOLEAN
      /\ l.remaining \in Nat /\ r.remaining \in Nat
      /\ l.refillAt \in Int /\ r.refillAt \in Int /\ l.nextProbe \in Int /\ r.nextProbe \in Int
  BY DEF Sound, AnyBlock
<1> QED BY <1>1 DEF MergedRemaining, MergedRefillAt, Later, Smaller

\* The later of two sound blocks is one.
LEMMA LaterSound ==
  ASSUME NEW l, NEW r, Sound(l), Sound(r)
  PROVE  Sound(LaterBlock(l, r))
<1> DEFINE selected ==
      IF \/ r.until > l.until
         \/ r.until = l.until /\ r.nextProbe > l.nextProbe THEN r ELSE l
<1>1. l \in AnyBlock /\ r \in AnyBlock
  BY DEF Sound
<1>2. CASE ~(l.blocked /\ r.blocked)
  BY <1>2 DEF LaterBlock
<1>3. CASE l.blocked /\ r.blocked
  <2>1. Sound(selected) /\ selected \in AnyBlock /\ selected.blocked
    BY <1>1, <1>3
  <2>2. CASE selected.kind = "suppressed"
    <3> DEFINE b == MergedProbes(selected, l, r)
    <3>1. MergedRemaining(l, r) \in Nat
      BY MergedTyped
    <3>2. MergedRefillAt(l, r, MergedRemaining(l, r)) \in Int /\ Later(l.nextProbe, r.nextProbe) \in Int
      BY <3>1, MergedTyped
    <3>3. (l.limited \/ r.limited) \in BOOLEAN
      OBVIOUS
    <3>4. b \in AnyBlock /\ b.blocked /\ b.kind = "suppressed"
      BY <2>1, <2>2, <3>1, <3>2, <3>3 DEF MergedProbes, AnyBlock
    <3>5. b.limited /\ b.remaining = 0 => b.nextProbe = b.refillAt
      BY <2>1 DEF MergedProbes, AnyBlock
    <3>6. LaterBlock(l, r) = b
      BY <1>3, <2>2 DEF LaterBlock
    <3> QED BY <3>4, <3>5, <3>6 DEF Sound
  <2>3. CASE selected.kind # "suppressed"
    <3>1. LaterBlock(l, r) = WithoutProbes(selected)
      BY <1>3, <2>3 DEF LaterBlock
    <3>2. selected.kind \in {"cooldown", "unnamed"} /\ selected.until \in Int
      BY <2>1, <2>3 DEF Sound, AnyBlock, Kinds
    <3> QED BY <2>1, <3>1, <3>2, StrippedSound
  <2> QED BY <2>2, <2>3
<1> QED BY <1>2, <1>3

\* The block of a report, whose parts are its cooldown and its suppression.
LEMMA BlockSound ==
  ASSUME NEW r \in PastReport
  PROVE  Sound(BlockOf(r))
BY CooldownSound, SuppressionSound, LaterSound DEF BlockOf

\* The refill and what remains do not depend on the order of two blocks.
LEMMA ProbesCommute ==
  ASSUME NEW l, NEW r, Sound(l), Sound(r)
  PROVE  /\ Later(l.nextProbe, r.nextProbe) = Later(r.nextProbe, l.nextProbe)
         /\ (l.limited \/ r.limited) => MergedRemaining(l, r) = MergedRemaining(r, l)
         /\ \A k \in Nat : MergedRefillAt(l, r, k) = MergedRefillAt(r, l, k)
<1>1. /\ l.limited \in BOOLEAN /\ r.limited \in BOOLEAN
      /\ l.remaining \in Nat /\ r.remaining \in Nat
      /\ l.refillAt \in Int /\ r.refillAt \in Int /\ l.nextProbe \in Int /\ r.nextProbe \in Int
  BY DEF Sound, AnyBlock
<1>2. (l.limited \/ r.limited) => MergedRemaining(l, r) = MergedRemaining(r, l)
  BY <1>1 DEF MergedRemaining, Smaller
<1>3. \A k \in Nat : MergedRefillAt(l, r, k) = MergedRefillAt(r, l, k)
  BY <1>1 DEF MergedRefillAt, Later, Smaller
<1> QED BY <1>1, <1>2, <1>3 DEF Later

\* The probe instant that is merged when the selected block is a suppression.
MergedNextProbe(l, r) ==
  IF (l.limited \/ r.limited) /\ MergedRemaining(l, r) = 0
    THEN MergedRefillAt(l, r, 0) ELSE Later(l.nextProbe, r.nextProbe)

\* What LaterBlock makes of two blocks.
LEMMA LaterFields ==
  ASSUME NEW l, NEW r, Sound(l), Sound(r), l.blocked, r.blocked,
         NEW s, s = IF \/ r.until > l.until
                       \/ r.until = l.until /\ r.nextProbe > l.nextProbe THEN r ELSE l
  PROVE  LET b == LaterBlock(l, r) IN
         /\ b.blocked /\ b.until = s.until /\ b.kind = s.kind
         /\ s.kind = "suppressed" => b.nextProbe = MergedNextProbe(l, r)
         /\ s.kind # "suppressed" => b.nextProbe = Never
<1>1. Sound(s) /\ s \in AnyBlock /\ s.blocked
  BY DEF Sound
<1>2. CASE s.kind = "suppressed"
  <2>1. LaterBlock(l, r) = MergedProbes(s, l, r)
    BY <1>2 DEF LaterBlock
  <2>2. LET b == MergedProbes(s, l, r) IN
        b.blocked /\ b.until = s.until /\ b.kind = s.kind /\ b.nextProbe = MergedNextProbe(l, r)
    BY <1>1 DEF MergedProbes, AnyBlock, MergedNextProbe
  <2> QED BY <1>2, <2>1, <2>2
<1>3. CASE s.kind # "suppressed"
  <2>1. LaterBlock(l, r) = WithoutProbes(s)
    BY <1>3 DEF LaterBlock
  <2>2. s.kind \in {"cooldown", "unnamed"}
    BY <1>1, <1>3 DEF Sound, AnyBlock, Kinds
  <2> QED BY <1>1, <1>3, <2>1, <2>2, StrippedSound
<1> QED BY <1>2, <1>3

\* Two blocks whose ends and probe instants are the same can be told apart by
\* which one is a suppression only; then neither has a probe to come.
LEMMA TiesAgree ==
  ASSUME NEW l, NEW r, Sound(l), Sound(r),
         l.nextProbe = r.nextProbe, l.kind = "suppressed", r.kind = "cooldown"
  PROVE  MergedNextProbe(l, r) = Never
<1>1. /\ l.limited \in BOOLEAN /\ ~r.limited /\ l.remaining \in Nat /\ r.remaining \in Nat
      /\ l.nextProbe = Never /\ r.nextProbe = Never /\ r.refillAt = Never
      /\ l.refillAt \in Int /\ Never \in Int
  BY ConfigTyped DEF Sound, AnyBlock
<1>2. Later(l.nextProbe, r.nextProbe) = Never
  BY <1>1 DEF Later
<1>3. CASE l.limited /\ MergedRemaining(l, r) = 0
  <2>1. l.remaining = 0
    BY <1>1, <1>3 DEF MergedRemaining
  <2>2. l.refillAt = Never
    BY <1>1, <1>3, <2>1 DEF Sound
  <2> QED BY <1>1, <1>2, <2>2 DEF MergedNextProbe, MergedRefillAt, Later
<1>4. CASE ~(l.limited /\ MergedRemaining(l, r) = 0)
  BY <1>1, <1>2, <1>4 DEF MergedNextProbe
<1> QED BY <1>3, <1>4

\* Which of two blocks is put first decides nothing about how long a pair is
\* blocked, and nothing about its next probe if both name their failure.
THEOREM LaterBlockCommutes ==
  ASSUME NEW l, NEW r, Sound(l), Sound(r)
  PROVE  LET b == LaterBlock(l, r)  c == LaterBlock(r, l) IN
         /\ b.blocked = c.blocked /\ b.until = c.until
         /\ l.kind # "unnamed" /\ r.kind # "unnamed" => b.nextProbe = c.nextProbe
<1>1. /\ l.until \in Int /\ r.until \in Int /\ l.nextProbe \in Int /\ r.nextProbe \in Int
      /\ l.kind \in Kinds /\ r.kind \in Kinds
  BY DEF Sound, AnyBlock
<1>2. CASE ~(l.blocked /\ r.blocked)
  <2>1. CASE l.blocked
    BY <1>2, <2>1 DEF LaterBlock
  <2>2. CASE r.blocked
    BY <1>2, <2>2 DEF LaterBlock
  <2>3. CASE ~l.blocked /\ ~r.blocked
    BY <2>3 DEF LaterBlock, Sound
  <2> QED BY <2>1, <2>2, <2>3
<1>3. CASE l.blocked /\ r.blocked
  <2> DEFINE s == IF \/ r.until > l.until
                     \/ r.until = l.until /\ r.nextProbe > l.nextProbe THEN r ELSE l
             t == IF \/ l.until > r.until
                     \/ l.until = r.until /\ l.nextProbe > r.nextProbe THEN l ELSE r
             b == LaterBlock(l, r)
             c == LaterBlock(r, l)
  <2>1. /\ b.blocked /\ b.until = s.until
        /\ s.kind = "suppressed" => b.nextProbe = MergedNextProbe(l, r)
        /\ s.kind # "suppressed" => b.nextProbe = Never
    BY <1>3, LaterFields
  <2>2. /\ c.blocked /\ c.until = t.until
        /\ t.kind = "suppressed" => c.nextProbe = MergedNextProbe(r, l)
        /\ t.kind # "suppressed" => c.nextProbe = Never
    BY <1>3, LaterFields
  <2>3. s.until = t.until
    BY <1>1
  <2>4. MergedNextProbe(l, r) = MergedNextProbe(r, l)
    BY ProbesCommute DEF MergedNextProbe
  <2>5. CASE s = t
    BY <2>1, <2>2, <2>3, <2>4, <2>5
  <2>6. CASE s # t
    <3>1. s = l /\ t = r /\ l.nextProbe = r.nextProbe
      BY <1>1, <2>6
    <3>2. ASSUME l.kind # "unnamed", r.kind # "unnamed"
          PROVE  b.nextProbe = c.nextProbe
      <4>1. l.kind \in {"cooldown", "suppressed"} /\ r.kind \in {"cooldown", "suppressed"}
        BY <1>1, <1>3, <3>2 DEF Sound, Kinds
      <4>2. CASE l.kind = r.kind
        BY <2>1, <2>2, <2>4, <3>1, <4>2
      <4>3. CASE l.kind = "suppressed" /\ r.kind = "cooldown"
        BY <2>1, <2>2, <3>1, <4>3, TiesAgree
      <4>4. CASE l.kind = "cooldown" /\ r.kind = "suppressed"
        BY <2>1, <2>2, <3>1, <4>4, TiesAgree
      <4> QED BY <4>1, <4>2, <4>3, <4>4
    <3> QED BY <2>1, <2>2, <2>3, <3>2
  <2> QED BY <2>5, <2>6
<1> QED BY <1>2, <1>3

-----------------------------------------------------------------------------
(* What lets an attempt through *)

\* An instant that is not a probe to be made now.
NotDue(t) == t = Never \/ t > 0

\* A suppression by its report, and its parts.
LEMMA SuppressionFields ==
  ASSUME NEW r \in PastReport, Suppresses(r)
  PROVE  LET b == Suppression(r) IN
         /\ b.blocked /\ b.nextProbe = NextProbe(r)
         /\ b.limited = (Setting(Config.probeLimit, r) > 0)
         /\ b.remaining = Remaining(r) /\ b.refillAt = RefillAt(r)
BY DEF Suppression

\* The refills of whatever suppression are not due.
LEMMA RefillNotDue ==
  ASSUME NEW r \in PastReport
  PROVE  NotDue(Suppression(r).refillAt)
<1>1. CASE Suppresses(r)
  BY <1>1, RefillAhead, SuppressionFields DEF NotDue
<1>2. CASE ~Suppresses(r)
  BY <1>2 DEF Suppression, NotBlocked, NotDue
<1> QED BY <1>1, <1>2

\* A suppression whose probes are used up.
IsSpent(b) == b.blocked /\ b.limited /\ b.remaining = 0

\* Two suppressions, one of which has spent its budget, are not due together.
LEMMA SpentMerged ==
  ASSUME NEW l, NEW r, Sound(l), Sound(r), l.blocked, r.blocked,
         NotDue(l.refillAt), NotDue(r.refillAt), IsSpent(l) \/ IsSpent(r)
  PROVE  NotDue(LaterBlock(l, r).nextProbe)
<1> DEFINE s == IF \/ r.until > l.until
                   \/ r.until = l.until /\ r.nextProbe > l.nextProbe THEN r ELSE l
<1>1. /\ l.limited \in BOOLEAN /\ r.limited \in BOOLEAN
      /\ l.remaining \in Nat /\ r.remaining \in Nat
      /\ l.refillAt \in Int /\ r.refillAt \in Int
  BY DEF Sound, AnyBlock
<1>2. MergedRemaining(l, r) = 0 /\ (l.limited \/ r.limited)
  <2>1. CASE l.limited /\ r.limited
    BY <1>1, <2>1 DEF MergedRemaining, Smaller, IsSpent
  <2>2. CASE ~l.limited /\ r.limited
    BY <1>1, <2>2 DEF MergedRemaining, IsSpent
  <2>3. CASE l.limited /\ ~r.limited
    BY <1>1, <2>3 DEF MergedRemaining, IsSpent
  <2> QED BY <1>1, <2>1, <2>2, <2>3 DEF IsSpent
<1>3. NotDue(MergedNextProbe(l, r))
  BY <1>1, <1>2 DEF MergedNextProbe, MergedRefillAt, Later, NotDue
<1>4. LaterBlock(l, r).nextProbe \in {Never, MergedNextProbe(l, r)}
  BY LaterFields
<1> QED BY <1>3, <1>4 DEF NotDue

\* A side whose budget is spent keeps the pair from being probed, whatever the
\* other side's budget is.
LEMMA SpentIsNotDue ==
  ASSUME NEW x \in PastReport, NEW y \in PastReport, NEW m \in {x, y},
         Suppresses(m), Setting(Config.probeLimit, m) > 0, Remaining(m) = 0
  PROVE  NotDue(LaterBlock(Suppression(x), Suppression(y)).nextProbe)
<1> DEFINE l == Suppression(x)
           r == Suppression(y)
<1>1. /\ Sound(l) /\ Sound(r) /\ NotDue(l.refillAt) /\ NotDue(r.refillAt)
      /\ l.blocked <=> Suppresses(x)
      /\ r.blocked <=> Suppresses(y)
  BY SuppressionSound, RefillNotDue
<1>2. IsSpent(Suppression(m)) /\ NotDue(Suppression(m).nextProbe)
  <2>1. NextProbe(m) = RefillAt(m)
    BY DEF NextProbe
  <2> QED BY <2>1, SuppressionFields, RefillAhead DEF IsSpent, NotDue
<1>3. CASE l.blocked /\ r.blocked
  BY <1>1, <1>2, <1>3, SpentMerged
<1>4. CASE ~(l.blocked /\ r.blocked)
  <2>1. LaterBlock(l, r) = Suppression(m)
    BY <1>1, <1>4 DEF LaterBlock
  <2> QED BY <1>2, <2>1
<1> QED BY <1>3, <1>4

\* The reason of an attempt is one of the code's three or none.
LEMMA ReasonTyped ==
  ASSUME NEW c, NEW d, NEW x, NEW y
  PROVE  Reason(c, d, x, y) \in {NoReason, "manual_recover", "relay_active", "fresh_endpoints"}
BY DEF Reason

\* So is the profile.
LEMMA ProfileTyped ==
  ASSUME NEW reason, NEW c, NEW d, NEW x, NEW y
  PROVE  ProfileFor(reason, c, d, x, y) \in Profiles
BY DEF ProfileFor, Profiles

\* What lets an attempt through while a side's failures suppress the pair is a
\* probe, never a fresh endpoint or a relay path, and that side's own budget has
\* a probe left: two budgets are merged without lending one to the other.
THEOREM ProbesAreBudgeted ==
  ASSUME NEW c, NEW d, NEW x \in PastReport, NEW y \in PastReport,
         NEW m \in {x, y}, Suppresses(m), Reason(c, d, x, y) # NoReason
  PROVE  /\ Reason(c, d, x, y) = "manual_recover"
         /\ Setting(Config.probeLimit, m) > 0 => Remaining(m) > 0
<1> DEFINE suppressed == LaterBlock(Suppression(x), Suppression(y))
<1>1. suppressed.blocked
  <2>1. Suppression(m).blocked /\ Sound(Suppression(x)) /\ Sound(Suppression(y))
    BY SuppressionSound
  <2>2. CASE Suppression(x).blocked /\ Suppression(y).blocked
    BY <2>1, <2>2, LaterFields
  <2>3. CASE ~(Suppression(x).blocked /\ Suppression(y).blocked)
    BY <2>1, <2>3 DEF LaterBlock
  <2> QED BY <2>2, <2>3
<1>2. suppressed.nextProbe # Never /\ suppressed.nextProbe <= 0
  BY <1>1 DEF Reason
<1>3. Reason(c, d, x, y) = "manual_recover"
  BY <1>1, <1>2 DEF Reason
<1>4. Remaining(m) \in Nat
  BY RemainingTyped
<1>5. Sound(suppressed) /\ suppressed.nextProbe \in Int
  BY SuppressionSound, LaterSound DEF Sound, AnyBlock
<1>6. ASSUME Setting(Config.probeLimit, m) > 0, Remaining(m) = 0
      PROVE  FALSE
  BY <1>2, <1>5, <1>6, SpentIsNotDue DEF NotDue
<1> QED BY <1>3, <1>4, <1>6

=============================================================================
