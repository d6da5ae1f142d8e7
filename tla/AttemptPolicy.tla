--------------------------- MODULE AttemptPolicy ---------------------------
(***************************************************************************)
(* When the control plane lets a pair of nodes try a direct path           *)
(* (services/controlplane/internal/store/direct_attempts.go).              *)
(*                                                                         *)
(* Everything here is a function of two transport reports, the fresh       *)
(* direct candidates of the two nodes, and the present time.  An instant   *)
(* is its distance from now: 0 is now, -3 lies three units back, 2 lies    *)
(* two units ahead; Never is Go's zero time, before every other instant.   *)
(* Agents and control plane are taken to share one clock.                  *)
(***************************************************************************)
EXTENDS Integers

CONSTANTS
  Config,    \* the windows, thresholds and limits of directAttemptPolicy
  Horizon    \* bound: an instant further back is not told from this one

Never == -(Horizon + 1)

Instants == Never..Horizon

Failures == {"timeout", "relay_kept"}
Results  == Failures \cup {"none", "success", "cancelled"}
Profiles == {"none", "normal", "secondary_only", "primary_upgrade"}

\* A setting has a general value and may have one of its own for each failure
\* and for the attempts of the primary_upgrade profile; 0 means not configured.
Table == [{"any", "primary_upgrade"} \cup Failures -> Nat]

ASSUME ConfigAssumption ==
  Config \in [ cooldown : Table, manualAfter : Table,
               suppressAfter : Table, suppressWindow : Table,
               probeInterval : Table, probeLimit : Table, probeRefill : Table,
               onlineWindow : Nat, endpointWindow : Nat, transportWindow : Nat ]

ASSUME HorizonAssumption ==
  /\ Horizon \in Nat
  /\ \A t \in {Config.cooldown, Config.manualAfter, Config.suppressWindow} :
       \A class \in DOMAIN t : t[class] < Horizon
  /\ \A w \in {Config.onlineWindow, Config.endpointWindow, Config.transportWindow} :
       w < Horizon

Later(s, t)   == IF s > t THEN s ELSE t
Smaller(i, j) == IF i < j THEN i ELSE j
Larger(i, j)  == IF i > j THEN i ELSE j

Within(t, window) == t # Never /\ -t <= window

-----------------------------------------------------------------------------
(* Reports and candidates *)

\* What a node last told of its transport to the other node of the pair.
Report ==
  [ kind : {"none", "relay", "direct"}, result : Results, profile : Profiles,
    secondary : BOOLEAN, attemptAt : Instants, failures : Nat,
    reportedAt : Instants ]

NoReport ==
  [ kind |-> "none", result |-> "none", profile |-> "none", secondary |-> FALSE,
    attemptAt |-> Never, failures |-> 0, reportedAt |-> Never ]

Fresh(report) == Within(report.reportedAt, Config.transportWindow)

\* The fresh direct candidates of a node: when the newest primary one (listener
\* or stun) was observed, and whether there is a secondary one (static, or any
\* address whose record is no longer fresh).
Candidates == [primary : Instants, secondary : BOOLEAN]

HasPrimary(c) == c.primary # Never
HasAny(c)     == HasPrimary(c) \/ c.secondary

-----------------------------------------------------------------------------
(* Settings *)

OrElse(value, fallback) == IF value > 0 THEN value ELSE fallback

\* xxxForAttempt, xxxForResult and the defaults of directAttemptPolicyFromConfig.
Setting(table, report) ==
  OrElse(IF report.profile = "primary_upgrade" THEN table.primary_upgrade ELSE 0,
         IF report.result \in Failures THEN OrElse(table[report.result], table.any)
                                       ELSE 0)

-----------------------------------------------------------------------------
(* Blocks *)

Block ==
  [ blocked : BOOLEAN, kind : {"none", "cooldown", "suppressed", "unnamed"},
    until : Instants, nextProbe : Instants,
    limited : BOOLEAN, remaining : Nat, refillAt : Instants ]

NotBlocked ==
  [ blocked |-> FALSE, kind |-> "none", until |-> Never, nextProbe |-> Never,
    limited |-> FALSE, remaining |-> 0, refillAt |-> Never ]

\* The reasons are worded for the two failures only.
Named(kind, report) == IF report.result \in Failures THEN kind ELSE "unnamed"

Cooldown(report) ==
  LET until == report.attemptAt + Setting(Config.cooldown, report) IN
  IF Fresh(report) /\ until > 0
    THEN [NotBlocked EXCEPT !.blocked = TRUE, !.until = until,
                            !.kind = Named("cooldown", report)]
    ELSE NotBlocked

\* Failures beyond the threshold use up probes; quiet time gives them back.
Spent(report) ==
  LET refill == Setting(Config.probeRefill, report)
      extra  == report.failures - Setting(Config.suppressAfter, report)
  IN  IF refill = 0 THEN extra
                    ELSE Larger(0, extra - (-report.attemptAt) \div refill)

Remaining(report) == Larger(0, Setting(Config.probeLimit, report) - Spent(report))

RefillAt(report) ==
  LET limited == Setting(Config.probeLimit, report) > 0
      refill  == Setting(Config.probeRefill, report)
      next    == ((-report.attemptAt) \div refill + 1) * refill
  IN  IF limited /\ refill > 0 /\ Spent(report) > 0
           /\ next <= Setting(Config.suppressWindow, report)
        THEN report.attemptAt + next
        ELSE Never

M_NextProbe(report) ==
  LET interval == Setting(Config.probeInterval, report) IN
  IF 0 < interval /\ interval < Setting(Config.suppressWindow, report)
    THEN report.attemptAt + interval ELSE Never

NextProbe(report) ==
  LET limited  == Setting(Config.probeLimit, report) > 0
      interval == Setting(Config.probeInterval, report)
  IN  IF limited /\ Remaining(report) = 0 THEN RefillAt(report)
      ELSE IF 0 < interval /\ interval < Setting(Config.suppressWindow, report)
             THEN report.attemptAt + interval
             ELSE Never

M_Suppresses(report) ==
  LET threshold == Setting(Config.suppressAfter, report) IN
  Fresh(report) /\ 0 < threshold /\ threshold <= report.failures

Suppresses(report) ==
  LET threshold == Setting(Config.suppressAfter, report) IN
  /\ Fresh(report)
  /\ 0 < threshold /\ threshold <= report.failures
  /\ report.attemptAt + Setting(Config.suppressWindow, report) > 0

Suppression(report) ==
  IF Suppresses(report)
    THEN [ blocked   |-> TRUE,
           kind      |-> Named("suppressed", report),
           until     |-> report.attemptAt + Setting(Config.suppressWindow, report),
           nextProbe |-> NextProbe(report),
           limited   |-> Setting(Config.probeLimit, report) > 0,
           remaining |-> Remaining(report),
           refillAt  |-> RefillAt(report) ]
    ELSE NotBlocked

\* mergeProbeRemaining
MergedRemaining(left, right) ==
  CASE left.limited /\ right.limited  -> Smaller(left.remaining, right.remaining)
    [] left.limited /\ ~right.limited -> left.remaining
    [] ~left.limited                  -> right.remaining

\* mergeProbeRefillAt: the later refill of an exhausted budget, or else the
\* sooner of those that come.
MergedRefillAt(left, right, remaining) ==
  IF remaining = 0 \/ Never \in {left.refillAt, right.refillAt}
    THEN Later(left.refillAt, right.refillAt)
    ELSE Smaller(left.refillAt, right.refillAt)

\* What the probes of two blocks come to when the selected one is a suppression.
MergedProbes(selected, left, right) ==
  LET limited   == left.limited \/ right.limited
      remaining == MergedRemaining(left, right)
      refillAt  == MergedRefillAt(left, right, remaining)
  IN  [selected EXCEPT
        !.limited   = limited,
        !.remaining = remaining,
        !.refillAt  = refillAt,
        !.nextProbe = IF limited /\ remaining = 0
                        THEN refillAt
                        ELSE Later(left.nextProbe, right.nextProbe)]

WithoutProbes(block) ==
  [NotBlocked EXCEPT !.blocked = TRUE, !.until = block.until, !.kind = block.kind]

M_LaterBlock(left, right) ==
  IF right.until > left.until THEN right ELSE left

\* laterBlockState
LaterBlock(left, right) ==
  LET selected ==
        IF \/ right.until > left.until
           \/ right.until = left.until /\ right.nextProbe > left.nextProbe
          THEN right ELSE left
  IN  IF ~(left.blocked /\ right.blocked)
        THEN IF left.blocked THEN left ELSE right
        ELSE IF selected.kind = "suppressed"
               THEN MergedProbes(selected, left, right)
               ELSE WithoutProbes(selected)

\* directAttemptBlockStateWithPolicy
BlockOf(report) == LaterBlock(Cooldown(report), Suppression(report))

PairBlock(self, peer) == LaterBlock(BlockOf(self), BlockOf(peer))

-----------------------------------------------------------------------------
(* Whether, why and how to try *)

\* stateHasPrimaryUpgrade: the last attempt failed on secondary candidates, and
\* a primary one was observed since.
HasUpgrade(c, report) ==
  /\ Fresh(report)
  /\ report.result \in Failures
  /\ report.secondary \/ report.profile = "secondary_only"
  /\ HasPrimary(c) /\ c.primary > report.attemptAt

Upgrades(selfC, peerC, self, peer) == HasUpgrade(selfC, self) \/ HasUpgrade(peerC, peer)

BothDirect(self, peer) ==
  \A report \in {self, peer} : Fresh(report) /\ report.kind = "direct"

OnRelay(report) == Fresh(report) /\ report.kind = "relay"

ManualRecoverDue(report) ==
  /\ OnRelay(report)
  /\ report.result \in Failures
  /\ -report.attemptAt >= Setting(Config.manualAfter, report)

NoReason == "none"

\* directAttemptReasonWithPolicyCandidates
Reason(selfC, peerC, self, peer) ==
  LET cooling    == LaterBlock(Cooldown(self), Cooldown(peer)).blocked
      suppressed == LaterBlock(Suppression(self), Suppression(peer))
      probeDue   == suppressed.nextProbe # Never /\ suppressed.nextProbe <= 0
      onRelay    == OnRelay(self) \/ OnRelay(peer)
  IN  IF \/ BothDirect(self, peer)
         \/ cooling /\ ~Upgrades(selfC, peerC, self, peer)
         \/ suppressed.blocked /\ ~probeDue
         \/ ~suppressed.blocked /\ ~onRelay /\ ~HasPrimary(selfC) /\ ~HasPrimary(peerC)
        THEN NoReason
      ELSE IF suppressed.blocked \/ ManualRecoverDue(self) \/ ManualRecoverDue(peer)
        THEN "manual_recover"
      ELSE IF onRelay THEN "relay_active" ELSE "fresh_endpoints"

\* profileForAttempt; the profiles named after the reason are one here.
ProfileFor(reason, selfC, peerC, self, peer) ==
  CASE Upgrades(selfC, peerC, self, peer) -> "primary_upgrade"
    [] /\ ~Upgrades(selfC, peerC, self, peer)
       /\ reason \in {"relay_active", "manual_recover"}
       /\ ~HasPrimary(selfC) /\ ~HasPrimary(peerC)
       /\ selfC.secondary \/ peerC.secondary -> "secondary_only"
    [] OTHER -> "normal"

Online(seenAt) == Within(seenAt, Config.onlineWindow)
=============================================================================
