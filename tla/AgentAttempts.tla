---------------------------- MODULE AgentAttempts ----------------------------
(***************************************************************************)
(* The coordinated direct attempts of one linux-agent                      *)
(* (clients/linux-agent/internal/agent/agent.go).                          *)
(*                                                                         *)
(* The control plane offers an agent at most one direct attempt per peer.  *)
(* The agent's Run goroutine queues the offers (pendingAttempts), drops    *)
(* what the newest recovery states contradict, and starts one goroutine    *)
(* per queued attempt (scheduledAttempts holds their cancel functions); a  *)
(* reload of the dataplane cancels them all and starts them again on the   *)
(* new transport.  Every critical section of attemptMu is one action here, *)
(* so the steps of the goroutines interleave as the mutex lets them.  The  *)
(* queue, the report and the recovery states are on disk as well, and a    *)
(* crash may come between any two steps.                                   *)
(*                                                                         *)
(* Time is abstracted to the one fact the code asks of it here: whether    *)
(* the window of an attempt has passed (late).                             *)
(***************************************************************************)
EXTENDS Naturals, FiniteSets

CONSTANTS
  Peers,        \* node ids of the peers
  Attempts,     \* attempt ids the control plane can issue
  PeerOf,       \* the peer each attempt is for
  MaxWorkers,   \* bound: goroutines that are alive for one attempt at a time
  Transports    \* bound: secure-udp transports that exist at a time

NoAttempt   == "no attempt"
NoVerdict   == "no verdict"
Rejected    == "rejected"
NoTransport == "no transport"

ASSUME PeerOfAssumption     == PeerOf \in [Attempts -> Peers]
ASSUME AttemptsAssumption   == {NoAttempt, NoVerdict, Rejected} \cap Attempts = {}
ASSUME TransportsAssumption == NoTransport \notin Transports
ASSUME WorkersAssumption    == MaxWorkers \in Nat \ {0}

VARIABLES
  offer,        \* the attempt the control plane holds for each peer
  issued,       \* every attempt it ever offered
  late,         \* attempts whose window has passed
  pc,           \* what the Run goroutine does next
  inbox,        \* the offers of the heartbeat response being handled
  todo,         \* the snapshot of the queue scheduleDirectAttempts walks over
  transport,    \* dataplaneRuntime.secureUDP
  recovery,     \* recoveryStates, reduced to the verdict on a queued attempt
  pending,      \* pendingAttempts
  scheduled,    \* scheduledAttempts: the goroutine whose cancel is stored
  report,       \* attemptReports
  worker,       \* the goroutines
  slot,         \* directAttemptInFlight of each transport
  recoveryFile, pendingFile, reportFile   \* recovery_state_path, ...

agent == <<inbox, todo, transport, recovery, pending, scheduled, report>>
files == <<recoveryFile, pendingFile, reportFile>>
vars  == <<offer, issued, late, pc, agent, worker, slot, files>>

-----------------------------------------------------------------------------
(* Reports: every mark first touches the entry; only the touch alone keeps  *)
(* the status of an entry that is still open.                               *)

Terminal == {"completed", "expired", "cancelled"}
Statuses == Terminal \cup {"none", "queued", "waiting", "scheduled", "executing"}
Reasons  == {"", "transport_unavailable", "transport_reloading", "superseded", "rejected"}

Entry(status, why) == [status |-> status, why |-> why]

Touched(entry) ==
  IF entry.status \in Terminal \cup {"none"} THEN Entry("queued", "") ELSE entry

Waiting     == Entry("waiting", "transport_unavailable")
Reloading   == Entry("waiting", "transport_reloading")
Scheduled   == Entry("scheduled", "")
Executing   == Entry("executing", "")
Completed   == Entry("completed", "")
Expired     == Entry("expired", "")
M_Removed(why) == Entry("canceled", why)

Removed(why) == Entry("cancelled", why)

-----------------------------------------------------------------------------
(* Goroutines *)

Runs    == 1..MaxWorkers
Workers == Attempts \X Runs

WorkerStates ==
  {"free", "spawned", "waiting", "in_flight", "completed", "retire",
   "canceled", "recheck", "exiting"}

FreeWorker == [at |-> "free", cancelled |-> FALSE, on |-> NoTransport]

At(w, state)   == worker[w].at = state
Goto(w, state) == worker' = [worker EXCEPT ![w].at = state]

\* The goroutines reached by calling the cancel functions stored for S.
CancelledFor(S) == { <<a, scheduled[a]>> : a \in { b \in S : scheduled[b] # 0 } }

WithCancelled(W) ==
  [w \in Workers |-> IF w \in W THEN [worker[w] EXCEPT !.cancelled = TRUE]
                                ELSE worker[w]]

-----------------------------------------------------------------------------
(* The queue *)

SamePeer(a, b) == PeerOf[a] = PeerOf[b]

\* queueDirectAttemptsLocked: a new attempt displaces an older one for its peer.
Displaced(queue, fresh) ==
  { b \in queue : \E a \in fresh : a # b /\ SamePeer(a, b) }

QueueWith(queue, fresh) == (queue \ Displaced(queue, fresh)) \cup fresh

M_Contradicted(queue, verdicts) ==
  { a \in queue : verdicts[PeerOf[a]] # a }

\* shouldRetainDirectAttempt
Contradicted(queue, verdicts) ==
  { a \in queue : verdicts[PeerOf[a]] \notin {NoVerdict, a} }

M_ExpiredIn(queue) == {}

\* pruneExpiredPendingDirectAttemptsLocked
ExpiredIn(queue) == queue \cap late

RemovedBy(verdict) ==
  Removed(IF verdict = Rejected THEN "rejected" ELSE "superseded")

PersistPending(changed) ==
  pendingFile' = IF changed THEN pending' ELSE pendingFile

M_PersistReport == reportFile' = report

PersistReport == reportFile' = report'

Offered == { offer[p] : p \in Peers } \ {NoAttempt}

-----------------------------------------------------------------------------
Init ==
  /\ offer = [p \in Peers |-> NoAttempt]
  /\ issued = {}
  /\ late = {}
  /\ pc = "reload"
  /\ inbox = {} /\ todo = {}
  /\ transport = NoTransport
  /\ recovery = [p \in Peers |-> NoVerdict]
  /\ pending = {}
  /\ scheduled = [a \in Attempts |-> 0]
  /\ report = [a \in Attempts |-> Entry("none", "")]
  /\ worker = [w \in Workers |-> FreeWorker]
  /\ slot = [t \in Transports |-> [p \in Peers |-> NoAttempt]]
  /\ recoveryFile = recovery
  /\ pendingFile = {}
  /\ reportFile = report

-----------------------------------------------------------------------------
(* The control plane and time, as the agent sees them *)

\* The control plane issues a new attempt for the pair; ids are never reused.
CPIssue(a) ==
  /\ a \notin issued
  /\ issued' = issued \cup {a}
  /\ offer' = [offer EXCEPT ![PeerOf[a]] = a]
  /\ UNCHANGED <<late, pc, agent, worker, slot, files>>

\* The control plane's record of the attempt expires.
CPForget(p) ==
  /\ offer[p] # NoAttempt
  /\ offer' = [offer EXCEPT ![p] = NoAttempt]
  /\ UNCHANGED <<issued, late, pc, agent, worker, slot, files>>

WindowCloses(a) ==
  /\ a \in issued \ late
  /\ late' = late \cup {a}
  /\ UNCHANGED <<offer, issued, pc, agent, worker, slot, files>>

-----------------------------------------------------------------------------
(* The Run goroutine *)

\* sendHeartbeat up to SaveRecoveryStates: the response carries every offer and
\* a recovery state per peer that names it; for a peer without an offer the
\* recovery state is missing or speaks against any attempt.
Heartbeat ==
  /\ pc = "idle"
  /\ recoveryFile' \in [Peers -> Attempts \cup {NoVerdict, Rejected}]
  /\ \A p \in Peers :
       recoveryFile'[p] \in IF offer[p] = NoAttempt THEN {NoVerdict, Rejected}
                                                    ELSE {offer[p]}
  /\ inbox' = Offered
  /\ pc' = "reconcile"
  /\ UNCHANGED <<offer, issued, late, todo, transport, recovery, pending,
                 scheduled, report, worker, slot, pendingFile, reportFile>>

\* setRecoveryStates
Reconcile ==
  LET gone == Contradicted(pending, recoveryFile) IN
  /\ pc = "reconcile"
  /\ recovery' = recoveryFile
  /\ pending' = pending \ gone
  /\ PersistPending(gone # {})
  /\ report' = [a \in Attempts |->
       IF a \in gone THEN RemovedBy(recoveryFile[PeerOf[a]]) ELSE report[a]]
  /\ IF gone # {} THEN PersistReport ELSE UNCHANGED reportFile
  /\ worker' = WithCancelled(CancelledFor(gone))
  /\ pc' = "queue"
  /\ UNCHANGED <<offer, issued, late, inbox, todo, transport, scheduled, slot,
                 recoveryFile>>

M_Due(queue) == IF transport = NoTransport THEN {} ELSE queue \cap inbox

\* What is handed to goroutines: all of the queue, not only the new offers.
Due(queue) == IF transport = NoTransport THEN {} ELSE queue

\* The first critical section of scheduleDirectAttempts.
Queue ==
  LET fresh     == inbox \ late
      displaced == Displaced(pending, fresh)
      queued    == QueueWith(pending, fresh)
      gone      == Contradicted(queued, recovery)
      kept      == queued \ gone
      expired   == ExpiredIn(kept)
      changed   == inbox \cup displaced \cup gone \cup expired # {}
  IN
  /\ pc = "queue"
  /\ pending' = kept \ expired
  /\ PersistPending(changed)
  /\ report' = [a \in Attempts |->
       CASE a \in displaced -> Removed("superseded")
         [] a \in gone      -> RemovedBy(recovery[PeerOf[a]])
         [] a \in (inbox \cap late) \cup expired -> Expired
         [] a \in pending' /\ transport = NoTransport -> Waiting
         [] a \in pending' /\ transport # NoTransport -> Touched(report[a])
         [] OTHER -> report[a]]
  /\ PersistReport
  /\ worker' = WithCancelled(CancelledFor(displaced \cup gone))
  /\ todo' = Due(pending')
  /\ inbox' = {}
  /\ pc' = IF todo' = {} THEN "idle" ELSE "spawn"
  /\ UNCHANGED <<offer, issued, late, transport, recovery, scheduled, slot,
                 recoveryFile>>

\* One round of the loop of scheduleDirectAttempts, over the snapshot of the
\* queue that the first critical section took.
Spawn(a) ==
  /\ pc = "spawn" /\ a \in todo
  /\ \/ /\ scheduled[a] # 0
        /\ UNCHANGED <<scheduled, report, reportFile, worker>>
     \/ /\ scheduled[a] = 0
        /\ \E r \in Runs :
             /\ At(<<a, r>>, "free")
             /\ \A q \in Runs : At(<<a, q>>, "free") => r <= q
             /\ scheduled' = [scheduled EXCEPT ![a] = r]
             /\ worker' = [worker EXCEPT ![<<a, r>>] =
                  [at |-> "spawned", cancelled |-> FALSE, on |-> transport]]
        /\ report' = [report EXCEPT ![a] = Scheduled]
        /\ PersistReport
  /\ todo' = todo \ {a}
  /\ pc' = IF todo' = {} THEN "idle" ELSE "spawn"
  /\ UNCHANGED <<offer, issued, late, inbox, transport, recovery, pending,
                 slot, recoveryFile, pendingFile>>

\* reloadDataplane with a new signature: stopDataplaneLocked.
StopDataplane ==
  /\ pc = "idle"
  /\ worker' = WithCancelled(CancelledFor(Attempts))
  /\ scheduled' = [a \in Attempts |-> 0]
  /\ transport' = NoTransport
  /\ pc' = "reload"
  /\ UNCHANGED <<offer, issued, late, inbox, todo, recovery, pending, report,
                 slot, files>>

\* startDataplaneWithConfig, then scheduleDirectAttempts(nil).
StartDataplane(t) ==
  /\ pc = "reload"
  /\ \A w \in Workers : worker[w].on # t
  /\ transport' = t
  /\ slot' = [slot EXCEPT ![t] = [p \in Peers |-> NoAttempt]]
  /\ inbox' = {}
  /\ pc' = "queue"
  /\ UNCHANGED <<offer, issued, late, todo, recovery, pending, scheduled,
                 report, worker, files>>

\* No dataplane is configured, or it does not start.
NoDataplane ==
  /\ pc = "reload"
  /\ pc' = "idle"
  /\ UNCHANGED <<offer, issued, late, agent, worker, slot, files>>

-----------------------------------------------------------------------------
(* The goroutine of an attempt *)

BeginWorker(w) ==
  /\ At(w, "spawned")
  /\ Goto(w, "waiting")
  /\ report' = [report EXCEPT ![w[1]] = Executing]
  /\ PersistReport
  /\ UNCHANGED <<offer, issued, late, pc, inbox, todo, transport, recovery,
                 pending, scheduled, slot, recoveryFile, pendingFile>>

Slot(w) == slot[worker[w].on][PeerOf[w[1]]]

\* ExecuteDirectAttempt up to beginDirectAttempt: it ends at once after the
\* window, or when another attempt is in flight for the peer.
GiveUp(w) ==
  /\ At(w, "waiting")
  /\ w[1] \in late \/ Slot(w) \notin {NoAttempt, w[1]}
  /\ Goto(w, "completed")
  /\ UNCHANGED <<offer, issued, late, pc, agent, slot, files>>

ClaimSlot(w) ==
  /\ At(w, "waiting")
  /\ Slot(w) \in {NoAttempt, w[1]}
  /\ slot' = [slot EXCEPT ![worker[w].on][PeerOf[w[1]]] = w[1]]
  /\ Goto(w, "in_flight")
  /\ UNCHANGED <<offer, issued, late, pc, agent, files>>

M_ReleaseSlot(w) == slot' = slot

ReleaseSlot(w) ==
  slot' = IF At(w, "in_flight") /\ Slot(w) = w[1]
            THEN [slot EXCEPT ![worker[w].on][PeerOf[w[1]]] = NoAttempt]
            ELSE slot

\* The handshake succeeds, times out or fails on the socket.
FinishHandshake(w) ==
  /\ At(w, "in_flight")
  /\ ReleaseSlot(w)
  /\ Goto(w, "completed")
  /\ UNCHANGED <<offer, issued, late, pc, agent, files>>

\* The cancelled context is noticed, before or during the handshake.
NoticeCancel(w) ==
  /\ worker[w].at \in {"waiting", "in_flight"}
  /\ worker[w].cancelled
  /\ ReleaseSlot(w)
  /\ Goto(w, "canceled")
  /\ UNCHANGED <<offer, issued, late, pc, agent, files>>

MarkCompleted(w) ==
  /\ At(w, "completed")
  /\ report' = [report EXCEPT ![w[1]] = Completed]
  /\ PersistReport
  /\ Goto(w, "retire")
  /\ UNCHANGED <<offer, issued, late, pc, inbox, todo, transport, recovery,
                 pending, scheduled, slot, recoveryFile, pendingFile>>

\* finalizePendingDirectAttempt(id, true, now)
Retire(w) ==
  /\ At(w, "retire")
  /\ pending' = pending \ {w[1]}
  /\ PersistPending(w[1] \in pending)
  /\ UNCHANGED report
  /\ PersistReport
  /\ Goto(w, "exiting")
  /\ UNCHANGED <<offer, issued, late, pc, inbox, todo, transport, recovery,
                 scheduled, slot, recoveryFile>>

MarkCanceled(w) ==
  /\ At(w, "canceled")
  /\ report' = IF w[1] \in pending \ late
                 THEN [report EXCEPT ![w[1]] = Reloading] ELSE report
  /\ PersistReport
  /\ Goto(w, "recheck")
  /\ UNCHANGED <<offer, issued, late, pc, inbox, todo, transport, recovery,
                 pending, scheduled, slot, recoveryFile, pendingFile>>

\* finalizePendingDirectAttempt(id, false, now): prunes the whole queue.
Recheck(w) ==
  LET expired == ExpiredIn(pending) IN
  /\ At(w, "recheck")
  /\ pending' = pending \ expired
  /\ report' = [a \in Attempts |-> IF a \in expired THEN Expired ELSE report[a]]
  /\ PersistPending(expired # {})
  /\ PersistReport
  /\ Goto(w, "exiting")
  /\ UNCHANGED <<offer, issued, late, pc, inbox, todo, transport, recovery,
                 scheduled, slot, recoveryFile>>

M_ExitWorker(w) ==
  /\ At(w, "exiting")
  /\ worker' = [worker EXCEPT ![w] = FreeWorker]
  /\ UNCHANGED <<offer, issued, late, pc, agent, slot, files>>

\* The deferred delete(scheduledAttempts, id).
ExitWorker(w) ==
  /\ At(w, "exiting")
  /\ scheduled' = [scheduled EXCEPT ![w[1]] = 0]
  /\ worker' = [worker EXCEPT ![w] = FreeWorker]
  /\ UNCHANGED <<offer, issued, late, pc, inbox, todo, transport, recovery,
                 pending, report, slot, files>>

-----------------------------------------------------------------------------
(* The process dies and New loads what is on disk *)

Crash ==
  LET expired == pendingFile \cap late IN
  /\ recovery' = recoveryFile
  /\ pending' = pendingFile \ late
  /\ pendingFile' = pending'
  /\ report' = [a \in Attempts |->
       CASE a \in expired  -> Expired
         [] a \in pending' -> Waiting
         [] OTHER          -> reportFile[a]]
  /\ PersistReport
  /\ pc' = "reload"
  /\ inbox' = {} /\ todo' = {}
  /\ transport' = NoTransport
  /\ scheduled' = [a \in Attempts |-> 0]
  /\ worker' = [w \in Workers |-> FreeWorker]
  /\ slot' = [t \in Transports |-> [p \in Peers |-> NoAttempt]]
  /\ UNCHANGED <<offer, issued, late, recoveryFile>>

-----------------------------------------------------------------------------
Environment ==
  \/ \E a \in Attempts : CPIssue(a) \/ WindowCloses(a)
  \/ \E p \in Peers : CPForget(p)

RunStep ==
  \/ Heartbeat \/ Reconcile \/ Queue \/ StopDataplane \/ NoDataplane
  \/ \E a \in Attempts : Spawn(a)
  \/ \E t \in Transports : StartDataplane(t)

WorkerStep(w) ==
  \/ BeginWorker(w) \/ GiveUp(w) \/ ClaimSlot(w) \/ FinishHandshake(w)
  \/ NoticeCancel(w) \/ MarkCompleted(w) \/ Retire(w) \/ MarkCanceled(w)
  \/ Recheck(w) \/ ExitWorker(w)

Next ==
  \/ Environment
  \/ RunStep
  \/ \E w \in Workers : WorkerStep(w)
  \/ Crash

Spec == Init /\ [][Next]_vars

-----------------------------------------------------------------------------
(* Fairness.  The heartbeat ticker fires again and again and the control     *)
(* plane answers infinitely often; the Go scheduler runs the Run goroutine   *)
(* and every attempt goroutine; a handshake ends by its own timer.  Nothing  *)
(* is assumed of the control plane's offers, of reloads or of crashes.       *)

FairSpec ==
  /\ Spec
  /\ SF_vars(Heartbeat)
  /\ WF_vars(Reconcile)
  /\ WF_vars(Queue)
  /\ WF_vars(\E a \in Attempts : Spawn(a))
  /\ WF_vars(NoDataplane \/ \E t \in Transports : StartDataplane(t))
  /\ \A w \in Workers : WF_vars(WorkerStep(w))

-----------------------------------------------------------------------------
Worker ==
  [at : WorkerStates, cancelled : BOOLEAN, on : Transports \cup {NoTransport}]

TypeOK ==
  /\ offer \in [Peers -> Attempts \cup {NoAttempt}]
  /\ issued \subseteq Attempts
  /\ late \subseteq issued
  /\ pc \in {"idle", "reconcile", "queue", "spawn", "reload"}
  /\ inbox \subseteq issued
  /\ todo \subseteq Attempts
  /\ transport \in Transports \cup {NoTransport}
  /\ recovery \in [Peers -> Attempts \cup {NoVerdict, Rejected}]
  /\ pending \subseteq issued
  /\ scheduled \in [Attempts -> 0..MaxWorkers]
  /\ report \in [Attempts -> [status : Statuses, why : Reasons]]
  /\ worker \in [Workers -> Worker]
  /\ slot \in [Transports -> [Peers -> Attempts \cup {NoAttempt}]]
  /\ recoveryFile \in [Peers -> Attempts \cup {NoVerdict, Rejected}]
  /\ pendingFile \subseteq issued
  /\ reportFile \in [Attempts -> [status : Statuses, why : Reasons]]

\* At most one attempt per peer waits in the queue, whatever the order in which
\* offers, restarts and goroutines touch it (queueDirectAttemptsLocked).
OnePerPeer ==
  \A a, b \in pending : SamePeer(a, b) => a = b

\* Whenever attemptMu is free, the files hold what a restart must find: the
\* queue and the report as they are in memory (agent.go: every critical section
\* persists what it changed).
DurableQueue == pendingFile = pending /\ reportFile = report

\* A cancel function is stored only for a goroutine that has not ended, so an
\* entry of scheduledAttempts never blocks an attempt for good.
ScheduledIsAlive ==
  \A a \in Attempts : scheduled[a] # 0 => ~At(<<a, scheduled[a]>>, "free")

\* The queue obeys its abstract specification: an attempt enters it only while
\* the newest recovery state names it, and leaves it only for a cause.  Neither
\* a reload nor a crash takes an open attempt out of it.
Finishing == { a \in Attempts : \E r \in Runs : At(<<a, r>>, "retire") }

AQ == INSTANCE AttemptQueue WITH
        queue <- pending, verdict <- recovery, closed <- late, done <- Finishing

ImplementsQueue == AQ!Spec

\* The in-flight slot a transport keeps for a peer names an attempt that some
\* goroutine is executing on that transport (finishDirectAttempt is deferred):
\* a slot is never left behind to refuse later attempts.
SlotIsHeld ==
  \A t \in Transports, p \in Peers :
    slot[t][p] # NoAttempt =>
      \E r \in Runs : /\ At(<<slot[t][p], r>>, "in_flight")
                      /\ worker[<<slot[t][p], r>>].on = t

\* An attempt that is due in the queue is retried whenever the transport comes
\* back: while it stays queued and a transport is up, a goroutine takes it up
\* (README: "继续调度" once the transport recovers).
Executes(a) ==
  \E r \in Runs : worker[<<a, r>>].at \notin {"free", "exiting"}

RetriedWhileQueued ==
  \A a \in Attempts :
    (a \in pending /\ transport # NoTransport)
      ~> (a \notin pending \/ transport = NoTransport \/ Executes(a))

\* No attempt stays queued for ever: it is executed, replaced, rejected or, as
\* the clock moves on past its window, pruned, also when crashes and reloads keep
\* coming.
QueueDrains ==
  (\A a \in Attempts : (a \in issued) ~> (a \in late)) =>
    \A a \in Attempts : (a \in pending) ~> (a \notin pending)

\* README.md: a superseded or rejected attempt is cancelled: once the report
\* says "cancelled", no goroutine goes on executing it uncancelled.
StaleAttemptCancelled ==
  \A w \in Workers :
    (report[w[1]].status = "cancelled" /\ worker[w].at \in {"waiting", "in_flight"})
      => worker[w].cancelled
=============================================================================
