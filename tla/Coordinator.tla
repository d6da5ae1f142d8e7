---------------------------- MODULE Coordinator ----------------------------
(***************************************************************************)
(* The control plane's coordination of direct attempts for one pair of     *)
(* nodes (services/controlplane/internal/store), closed with the two       *)
(* agents that execute them and report back.                               *)
(*                                                                         *)
(* A heartbeat is one transaction of the store: it records the node's      *)
(* endpoints and transport report, drops expired attempts, schedules a new *)
(* one if AttemptPolicy lets it, and answers with the offers and the       *)
(* recovery state.  The memory store keeps one attempt per pair in a map,  *)
(* the SQLite store keeps rows and looks the first one up.  Pairs share    *)
(* nothing but the endpoints and the last-seen time of their nodes.        *)
(*                                                                         *)
(* Time passes in Tick.  Instants are distances from now (AttemptPolicy).  *)
(***************************************************************************)
EXTENDS AttemptPolicy, Sequences

CONSTANTS
  Nodes,           \* the two nodes
  Store,           \* "memory" or "sqlite"
  Lead, Window, Retention,   \* the time profile of an attempt
  HeartbeatEvery,  \* the agents' heartbeat interval
  ReportMatch,     \* how far a report entry and a result may lie apart
  Observations,    \* what an agent may find of its own addresses
  Movers,          \* bound: nodes whose path may change without an attempt
  Sleepers,        \* bound: nodes that may sleep or restart
  MaxFailures      \* bound: consecutive failures are not counted further

Phases == {"primary", "secondary"}

ASSUME NodesAssumption   == \E a, b \in Nodes : a # b /\ Nodes = {a, b}
ASSUME StoreAssumption   == Store \in {"memory", "sqlite"}
ASSUME ProfileAssumption ==
  /\ {Lead, Window, Retention, HeartbeatEvery} \subseteq Nat \ {0}
  /\ Lead + Window + Retention < Horizon
  /\ ReportMatch \in Nat /\ MaxFailures \in Nat
ASSUME SetsAssumption ==
  Movers \subseteq Nodes /\ Sleepers \subseteq Nodes /\ Observations \subseteq SUBSET Phases

VARIABLES
  db,    \* the store: last_seen_at, endpoint_records, transports, attempts
  up,    \* the agent runs (it does not while its machine sleeps)
  path,  \* the agent's transport metrics of the other node
  held   \* the attempt in the agent's queue

vars == <<db, up, path, held>>

Other(n) == CHOOSE m \in Nodes : m # n

NoAttempt == [execute |-> Never, expires |-> Never, reason |-> NoReason,
              profile |-> "none", candidates |-> [n \in Nodes |-> {}]]

-----------------------------------------------------------------------------
(* The store.  s is the content of the store within a transaction. *)

\* freshDirectAttemptCandidatesWithPolicy: an address whose record is stale
\* stays a candidate, as one known from the heartbeat alone.
CandidatesOf(n, s) ==
  LET seenAt == s.endpoints[n].primary
      fresh  == Within(seenAt, Config.endpointWindow)
  IN  [ primary   |-> IF fresh THEN seenAt ELSE Never,
        secondary |-> s.endpoints[n].secondary \/ (seenAt # Never /\ ~fresh) ]

Addresses(n, s) ==
  {n} \X ( (IF HasPrimary(CandidatesOf(n, s)) THEN {"primary"} ELSE {})
             \cup (IF CandidatesOf(n, s).secondary THEN {"secondary"} ELSE {}) )

M_Expired(attempt) == attempt.execute < 0

Expired(attempt) == attempt.expires < 0

\* The rows that have not expired, in their order.
Unexpired(rows) ==
  LET kept[i \in 0..Len(rows)] ==
        IF i = 0 THEN <<>>
        ELSE IF Expired(rows[i]) THEN kept[i-1] ELSE Append(kept[i-1], rows[i])
  IN kept[Len(rows)]

\* pruneDirectAttemptsLocked, deleteExpiredDirectAttemptsTx
Pruned(s) == [s EXCEPT !.attempts = Unexpired(@)]

ReasonFor(n, s) ==
  Reason(CandidatesOf(n, s), CandidatesOf(Other(n), s),
         s.reported[n], s.reported[Other(n)])

\* newDirectAttemptPair
NewAttempt(n, s) ==
  [ execute |-> Lead, expires |-> Lead + Window + Retention,
    reason  |-> ReasonFor(n, s),
    profile |-> ProfileFor(ReasonFor(n, s), CandidatesOf(n, s),
                           CandidatesOf(Other(n), s),
                           s.reported[n], s.reported[Other(n)]),
    candidates |-> [m \in Nodes |-> Addresses(m, s)] ]

M_PairBusy(s) == FALSE

\* A pair whose first attempt has not reached its end is left alone.
PairBusy(s) == s.attempts # <<>> /\ s.attempts[1].expires > 0

M_Schedulable(n, s) ==
  /\ \A m \in Nodes : Online(s.seen[m]) /\ HasPrimary(CandidatesOf(m, s))
  /\ ~PairBusy(s)
  /\ ReasonFor(n, s) # NoReason

Schedulable(n, s) ==
  /\ \A m \in Nodes : Online(s.seen[m]) /\ HasAny(CandidatesOf(m, s))
  /\ ~PairBusy(s)
  /\ ReasonFor(n, s) # NoReason

M_Scheduled(n, s) ==
  IF Schedulable(n, s) THEN [s EXCEPT !.attempts = Append(@, NewAttempt(n, s))] ELSE s

\* scheduleDirectAttemptsLocked, scheduleDirectAttemptsTx
Scheduled(n, s) ==
  IF Schedulable(n, s)
    THEN [s EXCEPT !.attempts = IF Store = "memory" THEN <<NewAttempt(n, s)>>
                                                    ELSE Append(@, NewAttempt(n, s))]
    ELSE s

\* directAttemptsForNodeLocked, instructionFor: a node is sent the candidates
\* recorded in its own column.
Offers(n, s) ==
  { [attempt |-> attempt, candidates |-> attempt.candidates[n]] :
      attempt \in { x \in { s.attempts[i] : i \in DOMAIN s.attempts } : ~Expired(x) } }

\* latestDirectAttemptForPairLocked, directAttemptPairByKeyTx
Latest(s) ==
  IF s.attempts # <<>> /\ ~Expired(s.attempts[1]) THEN s.attempts[1] ELSE NoAttempt

BlockFor(n, s) == PairBlock(s.reported[n], s.reported[Other(n)])

\* directAttemptDecisionForPeerCandidates
Status(n, s) ==
  IF Latest(s) # NoAttempt THEN "attempt_issued"
  ELSE IF BlockFor(n, s).blocked THEN "blocked"
  ELSE IF ~Online(s.seen[n]) THEN "local_offline"
  ELSE IF ~Online(s.seen[Other(n)]) THEN "peer_offline"
  ELSE IF ~HasAny(CandidatesOf(n, s)) THEN "local_no_direct_candidate"
  ELSE IF ~HasAny(CandidatesOf(Other(n), s)) THEN "peer_no_direct_candidate"
  ELSE IF BothDirect(s.reported[n], s.reported[Other(n)]) THEN "direct_active"
  ELSE IF ReasonFor(n, s) # NoReason THEN "eligible" ELSE "idle"

-----------------------------------------------------------------------------
(* The agents *)

IdlePath == [kind |-> "none", result |-> "none", profile |-> "none",
             secondary |-> FALSE, attemptAt |-> Never, failures |-> 0]

Holds(n) == held[n] # NoAttempt

\* directAttemptExpired
Late(attempt) == attempt.execute + Window < 0

\* applyDirectAttemptReportToTransportState: the profile is that of the node's
\* newest attempt, executed or not, unless it is too far from the last result.
ReportedProfile(n) ==
  CASE ~Holds(n) -> path[n].profile
    [] Holds(n) /\ path[n].attemptAt \in Never+1 .. -(ReportMatch+1) -> "none"
    [] OTHER -> held[n].profile

\* peerTransportStatesFromReport, sanitizePeerTransportStates
ReportOf(n) ==
  [ kind       |-> path[n].kind,
    result     |-> path[n].result,
    profile    |-> ReportedProfile(n),
    secondary  |-> path[n].secondary,
    failures   |-> path[n].failures,
    attemptAt  |-> IF path[n].attemptAt = Never THEN 0 ELSE path[n].attemptAt,
    reportedAt |-> 0 ]

M_Receive(n, offered) ==
  LET ahead == { x \in offered : x.execute > 0 } IN
  held' = [held EXCEPT ![n] =
    IF ahead = {} THEN @ ELSE CHOOSE x \in ahead : \A y \in ahead : y.execute <= x.execute]

\* The newest offer that is not late takes the place of the queued one.
Receive(n, offered) ==
  LET open == { x \in offered : ~Late(x) } IN
  held' = [held EXCEPT ![n] =
    IF open = {} THEN @ ELSE CHOOSE x \in open : \A y \in open : y.execute <= x.execute]

-----------------------------------------------------------------------------
Init ==
  /\ db = [ seen      |-> [n \in Nodes |-> Never],
            endpoints |-> [n \in Nodes |-> [primary |-> Never, secondary |-> FALSE]],
            reported  |-> [n \in Nodes |-> NoReport],
            attempts  |-> <<>> ]
  /\ up = [n \in Nodes |-> TRUE]
  /\ path = [n \in Nodes |-> IdlePath]
  /\ held = [n \in Nodes |-> NoAttempt]

Observed(observed) ==
  [primary   |-> IF "primary" \in observed THEN 0 ELSE Never,
   secondary |-> "secondary" \in observed]

\* UpdateHeartbeat, and the agent's handling of the answer.  The goroutine of an
\* attempt whose window has passed has ended before; heartbeats are at least one
\* unit of time apart.
Heartbeat(n, observed) ==
  /\ up[n] /\ db.seen[n] # 0
  /\ ~(Holds(n) /\ Late(held[n]))
  /\ db' = Scheduled(n, Pruned([db EXCEPT !.seen[n] = 0,
                                          !.endpoints[n] = Observed(observed),
                                          !.reported[n] = ReportOf(n)]))
  /\ Receive(n, { offer.attempt : offer \in Offers(n, db') })
  /\ UNCHANGED <<up, path>>

\* ExecuteDirectAttempt runs to its end within the window.
Execute(n, success) ==
  LET h == held[n] IN
  /\ up[n] /\ Holds(n)
  /\ h.execute <= 0 /\ ~Late(h)
  /\ path' = [path EXCEPT ![n] =
       [ kind      |-> IF success THEN "direct" ELSE @.kind,
         result    |-> IF success THEN "success"
                       ELSE IF @.kind = "relay" THEN "relay_kept" ELSE "timeout",
         profile   |-> h.profile,
         secondary |-> ~success /\ \E c \in h.candidates[n] : c[2] = "secondary",
         attemptAt |-> 0,
         failures  |-> IF success THEN 0 ELSE Smaller(@.failures + 1, MaxFailures) ]]
  /\ held' = [held EXCEPT ![n] = NoAttempt]
  /\ UNCHANGED <<db, up>>

\* The goroutine wakes up after the window.
Miss(n) ==
  /\ up[n] /\ Holds(n) /\ Late(held[n])
  /\ path' = [path EXCEPT ![n] =
       [@ EXCEPT !.result = "cancelled", !.profile = held[n].profile,
                 !.secondary = FALSE, !.attemptAt = 0]]
  /\ held' = [held EXCEPT ![n] = NoAttempt]
  /\ UNCHANGED <<db, up>>

\* Traffic or a warmup establishes a path; a direct path is kept.
ChangePath(n, kind) ==
  /\ n \in Movers /\ up[n]
  /\ path[n].kind # "direct" /\ path[n].kind # kind
  /\ path' = [path EXCEPT ![n].kind = kind]
  /\ UNCHANGED <<db, up, held>>

Sleep(n) ==
  /\ n \in Sleepers /\ up[n]
  /\ up' = [up EXCEPT ![n] = FALSE]
  /\ UNCHANGED <<db, path, held>>

Wake(n) ==
  /\ ~up[n]
  /\ up' = [up EXCEPT ![n] = TRUE]
  /\ UNCHANGED <<db, path, held>>

\* The agent or its transport starts anew: the metrics are empty, but for what
\* the newest entry of the attempt report gives back.
Restart(n) ==
  /\ n \in Sleepers
  /\ up' = [up EXCEPT ![n] = TRUE]
  /\ path' = [path EXCEPT ![n] =
       IF Holds(n) THEN [IdlePath EXCEPT !.profile = held[n].profile, !.attemptAt = 0]
                   ELSE [@ EXCEPT !.kind = "none", !.failures = 0]]
  /\ held' = [held EXCEPT ![n] = IF Late(@) THEN NoAttempt ELSE @]
  /\ UNCHANGED db

-----------------------------------------------------------------------------
(* Time *)

Older(t) == IF t <= -Horizon THEN t ELSE t - 1

OlderAttempt(attempt) ==
  [attempt EXCEPT !.execute = Older(@), !.expires = Older(@)]

\* Beyond its window a last-seen time or a report is not told from none; an
\* observation is, but its age no longer matters.
OlderSeen(t) == IF Online(t) THEN t - 1 ELSE Never

OlderReport(report) ==
  IF Fresh(report) THEN [report EXCEPT !.attemptAt = Older(@), !.reportedAt = @ - 1]
                   ELSE NoReport

OlderObservation(t) == IF Within(t, Config.endpointWindow) THEN t - 1 ELSE t

\* An agent that runs sends its heartbeat when it is due, and ends an attempt
\* when its window does.
Punctual(n) ==
  up[n] => /\ db.seen[n] > -HeartbeatEvery
           /\ Holds(n) => held[n].execute + Window > 0

Tick ==
  /\ \A n \in Nodes : Punctual(n)
  /\ db' = [ seen      |-> [n \in Nodes |-> OlderSeen(db.seen[n])],
             endpoints |-> [n \in Nodes |->
                [db.endpoints[n] EXCEPT !.primary = OlderObservation(@)]],
             reported  |-> [n \in Nodes |-> OlderReport(db.reported[n])],
             attempts  |-> [i \in DOMAIN db.attempts |-> OlderAttempt(db.attempts[i])] ]
  /\ path' = [n \in Nodes |-> [path[n] EXCEPT !.attemptAt = Older(@)]]
  /\ held' = [n \in Nodes |-> OlderAttempt(held[n])]
  /\ UNCHANGED up

-----------------------------------------------------------------------------
AgentStep(n) ==
  \/ \E observed \in Observations : Heartbeat(n, observed)
  \/ \E success \in BOOLEAN : Execute(n, success)
  \/ Miss(n)

Disturbance(n) ==
  \/ \E kind \in {"relay", "direct"} : ChangePath(n, kind)
  \/ Sleep(n) \/ Wake(n) \/ Restart(n)

Next == Tick \/ \E n \in Nodes : AgentStep(n) \/ Disturbance(n)

Spec == Init /\ [][Next]_vars

\* The clock moves on; an agent that runs sends its heartbeats and ends its
\* attempts (a ticker of the Go runtime, a deadline).  Nothing is assumed of
\* what it finds, of the outcome of an attempt, or of sleep and restarts.
FairSpec ==
  /\ Spec
  /\ WF_vars(Tick)
  /\ \A n \in Nodes :
       /\ WF_vars(\E observed \in Observations : Heartbeat(n, observed))
       /\ WF_vars(Miss(n) \/ \E success \in BOOLEAN : Execute(n, success))
-----------------------------------------------------------------------------
Attempt ==
  [ execute : Instants, expires : Instants,
    reason : {NoReason, "manual_recover", "relay_active", "fresh_endpoints"},
    profile : Profiles, candidates : [Nodes -> SUBSET (Nodes \X Phases)] ]

PathState ==
  [ kind : {"none", "relay", "direct"}, result : Results, profile : Profiles,
    secondary : BOOLEAN, attemptAt : Never..0, failures : 0..MaxFailures ]

\* What was seen, observed, reported or tried lies in the past; the memory store
\* keeps one attempt.
TypeOK ==
  /\ db \in [ seen      : [Nodes -> Never..0],
              endpoints : [Nodes -> [primary : Never..0, secondary : BOOLEAN]],
              reported  : [Nodes -> Report],
              attempts  : Seq(Attempt) ]
  /\ \A n \in Nodes : db.reported[n].attemptAt <= 0 /\ db.reported[n].reportedAt <= 0
  /\ Store = "memory" => Len(db.attempts) <= 1
  /\ up \in [Nodes -> BOOLEAN]
  /\ path \in [Nodes -> PathState]
  /\ held \in [Nodes -> Attempt]

Rows == { db.attempts[i] : i \in DOMAIN db.attempts }

\* The attempts the store or an agent knows whose window has not passed.
OpenAttempts == { x \in Rows \cup { held[n] : n \in Nodes } : ~Late(x) }

\* Of the memory store's attempts and those the agents hold, at most one still
\* has its window open: the two nodes never execute different attempts of the
\* pair, although either heartbeat may issue one (ExpiresAt outlasts the window).
OneOpenAttempt == \A x, y \in OpenAttempts : x = y

\* With either store the open attempts are for the same instant: SQLite may issue
\* two in the instant in which an older one ends, since it looks that one up, but
\* the nodes still punch at the same time.
OpenTogether == \A x, y \in OpenAttempts : x.execute = y.execute

\* An agent holds no open attempt the store does not know, so none that a later
\* decision of the control plane could overlook.
HeldIsKnown == \A n \in Nodes : ~Late(held[n]) => held[n] \in Rows

\* What the pair has agreed on: the instant of the open attempts, the nodes that
\* hold one, and those whose heartbeat was just answered.
Meeting ==
  IF OpenAttempts = {} THEN -(Window + 1) ELSE (CHOOSE x \in OpenAttempts : TRUE).execute

Present == { n \in Nodes : ~Late(held[n]) }

Heard == { n \in Nodes : db.seen[n] = 0 }

RV == INSTANCE Rendezvous WITH meeting <- Meeting, present <- Present, heard <- Heard

\* Store, reports and queues together implement the rendezvous: no answer moves an
\* instant that is agreed on, or leaves the node that hears it out.
ImplementsRendezvous == RV!Spec

\* Whichever of the two nodes asks, the pair is blocked until the same instant,
\* and may be probed at the same instant unless the last attempt of a blocked
\* side ended in no failure the code has a word for (cancelled, say), whatever
\* blocks have been merged.
SidesToldAlike ==
  \A n \in Nodes :
    LET mine == BlockFor(n, db)  theirs == BlockFor(Other(n), db) IN
    /\ mine.blocked = theirs.blocked /\ mine.until = theirs.until
    /\ (\A m \in Nodes : BlockOf(db.reported[m]).kind # "unnamed")
         => mine.nextProbe = theirs.nextProbe

Answered(n) == \E observed \in Observations : Heartbeat(n, observed)

Issued == { db'.attempts[i] : i \in DOMAIN db'.attempts } \ Rows

\* Every attempt offered in an answer is the one its recovery state names as
\* last issued; the agent drops any other (README.md: the recovery states expose
\* the last attempt that was let through).
OffersExplained ==
  [][\A n \in Nodes : Answered(n) =>
       \A offer \in Offers(n, db') : offer.attempt = Latest(db')]_vars

\* No answer calls a pair eligible without having issued the attempt: the
\* decision and the scheduler read the same facts.
EligibleIsServed ==
  [][\A n \in Nodes : Answered(n) => Status(n, db') # "eligible"]_vars

\* No attempt is issued while a side's failures suppress it, but for a probe
\* that its own budget still allows (services/controlplane/README.md: once the
\* limit is reached no further probe is let through).
ExhaustedBudgetHolds ==
  [][\A n, m \in Nodes :
       Answered(n) /\ Issued # {} /\ Suppresses(db'.reported[m]) =>
         /\ \A x \in Issued : x.reason = "manual_recover"
         /\ Setting(Config.probeLimit, db'.reported[m]) > 0
              => Remaining(db'.reported[m]) > 0]_vars

\* While both agents run and have direct candidates, not both paths are direct,
\* and a relay path or a primary candidate calls for an attempt, attempts are
\* issued again and again: no block and no spent budget is for good.
Recoverable ==
  /\ \A n \in Nodes : up[n] /\ HasAny(CandidatesOf(n, db))
  /\ \E n \in Nodes : ~(Fresh(db.reported[n]) /\ db.reported[n].kind = "direct")
  /\ \E n \in Nodes : OnRelay(db.reported[n]) \/ HasPrimary(CandidatesOf(n, db))

RecoveryGoesOn ==
  <>[]Recoverable => []<><<Issued # {}>>_vars

\* clients/linux-agent tests: the candidates an agent is sent for a peer are
\* addresses of that peer.
OffersNameThePeer ==
  \A n \in Nodes : \A offer \in Offers(n, db) :
    \A address \in offer.candidates : address[1] = Other(n)
=============================================================================
