------------------------ MODULE AgentAttemptsProofs ------------------------
(***************************************************************************)
(* What AgentAttempts.tla promises for every set of peers, attempts and    *)
(* transports and every number of goroutines.                              *)
(***************************************************************************)
EXTENDS AgentAttempts, TLAPS

ReportType == [Attempts -> [status : Statuses, why : Reasons]]

(* What the control plane offers it has issued, and for the right peer.      *)
OfferIsIssued ==
  \A p \in Peers :
    offer[p] # NoAttempt => offer[p] \in issued /\ PeerOf[offer[p]] = p

(* The loop over the snapshot of the queue runs only with a transport, and   *)
(* every live goroutine was given one.                                       *)
SpawnsOnTransport == pc = "spawn" => transport # NoTransport

WorkerHasTransport ==
  \A w \in Workers : ~At(w, "free") => worker[w].on \in Transports

Typing ==
  TypeOK /\ OfferIsIssued /\ SpawnsOnTransport /\ WorkerHasTransport

(* The typing of every value a step builds.                                  *)
LEMMA EntryType ==
  /\ Waiting \in [status : Statuses, why : Reasons]
  /\ Reloading \in [status : Statuses, why : Reasons]
  /\ Scheduled \in [status : Statuses, why : Reasons]
  /\ Executing \in [status : Statuses, why : Reasons]
  /\ Completed \in [status : Statuses, why : Reasons]
  /\ Expired \in [status : Statuses, why : Reasons]
  /\ Entry("none", "") \in [status : Statuses, why : Reasons]
  /\ Removed("superseded") \in [status : Statuses, why : Reasons]
  /\ \A v : RemovedBy(v) \in [status : Statuses, why : Reasons]
  /\ \A e \in [status : Statuses, why : Reasons] :
       Touched(e) \in [status : Statuses, why : Reasons]
BY DEF Waiting, Reloading, Scheduled, Executing, Completed, Expired, Removed,
       RemovedBy, Touched, Entry, Statuses, Terminal, Reasons

(* Calling cancel functions changes nothing but the cancelled flags.         *)
LEMMA CancellingKeeps ==
  ASSUME NEW W, worker \in [Workers -> Worker]
  PROVE  /\ WithCancelled(W) \in [Workers -> Worker]
         /\ \A w \in Workers : /\ WithCancelled(W)[w].at = worker[w].at
                               /\ WithCancelled(W)[w].on = worker[w].on
BY DEF WithCancelled, Worker

\* Goto moves one goroutine, which keeps its transport.
LEMMA GotoType ==
  ASSUME NEW w \in Workers, NEW s \in WorkerStates, Goto(w, s),
         worker \in [Workers -> Worker]
  PROVE  /\ worker' \in [Workers -> Worker]
         /\ worker'[w].at = s
         /\ \A v \in Workers \ {w} : worker'[v] = worker[v]
         /\ \A v \in Workers : worker'[v].on = worker[v].on
BY DEF Goto, Worker

\* At first everything has its type.
LEMMA TypingInit == Init => Typing
<1> SUFFICES ASSUME Init PROVE Typing
  OBVIOUS
<1>1. report \in ReportType
  BY EntryType DEF Init, ReportType
<1>2. worker \in [Workers -> Worker]
  BY DEF Init, FreeWorker, Worker, WorkerStates
<1>3. scheduled \in [Attempts -> 0..MaxWorkers]
  <2>1. 0 \in 0..MaxWorkers
    BY WorkersAssumption
  <2> QED BY <2>1 DEF Init
<1>4. TypeOK
  BY <1>1, <1>2, <1>3 DEF Init, TypeOK, ReportType
<1>5. OfferIsIssued /\ SpawnsOnTransport /\ WorkerHasTransport
  BY DEF Init, OfferIsIssued, SpawnsOnTransport, WorkerHasTransport, At, FreeWorker
<1> QED BY <1>4, <1>5 DEF Typing

\* What happens around the agent keeps the types.
LEMMA EnvironmentTyping ==
  ASSUME Typing, Environment
  PROVE  Typing'
<1> USE DEF Typing, TypeOK, OfferIsIssued, SpawnsOnTransport,
            WorkerHasTransport, At, agent, files
<1>1. ASSUME NEW a \in Attempts, CPIssue(a) PROVE Typing'
  BY <1>1, PeerOfAssumption DEF CPIssue
<1>2. ASSUME NEW a \in Attempts, WindowCloses(a) PROVE Typing'
  BY <1>2 DEF WindowCloses
<1>3. ASSUME NEW p \in Peers, CPForget(p) PROVE Typing'
  BY <1>3 DEF CPForget
<1> QED BY <1>1, <1>2, <1>3 DEF Environment

\* A step of the Run goroutine keeps the types.
LEMMA RunStepTyping ==
  ASSUME Typing, RunStep
  PROVE  Typing'
<1> USE DEF Typing, TypeOK, OfferIsIssued, SpawnsOnTransport,
            WorkerHasTransport, At, agent, files
<1>1. CASE Heartbeat
  <2>1. Offered \subseteq issued
    BY DEF Offered
  <2> QED BY <1>1, <2>1 DEF Heartbeat
<1>2. CASE Reconcile
  <2>1. report' \in [Attempts -> [status : Statuses, why : Reasons]]
    BY <1>2, EntryType DEF Reconcile
  <2> QED
    BY <1>2, <2>1, CancellingKeeps DEF Reconcile, PersistPending, PersistReport
<1>3. CASE Queue
  <2>1. pending' \subseteq issued
    BY <1>3 DEF Queue, QueueWith, Displaced, Contradicted
  <2>2. report' \in [Attempts -> [status : Statuses, why : Reasons]]
    BY <1>3, EntryType DEF Queue
  <2>3. todo' \subseteq Attempts /\ (pc' = "spawn" => transport # NoTransport)
    BY <1>3, <2>1 DEF Queue, Due
  <2>4. worker' \in [Workers -> Worker] /\ WorkerHasTransport'
    BY <1>3, CancellingKeeps DEF Queue
  <2> QED
    BY <1>3, <2>1, <2>2, <2>3, <2>4 DEF Queue, PersistPending, PersistReport
<1>4. CASE StopDataplane
  <2>1. 0 \in 0..MaxWorkers
    BY WorkersAssumption
  <2> QED BY <1>4, <2>1, CancellingKeeps DEF StopDataplane
<1>5. CASE NoDataplane
  BY <1>5 DEF NoDataplane
<1>6. ASSUME NEW a \in Attempts, Spawn(a) PROVE Typing'
  <2>1. /\ scheduled' \in [Attempts -> 0..MaxWorkers]
        /\ report' \in [Attempts -> [status : Statuses, why : Reasons]]
        /\ reportFile' \in [Attempts -> [status : Statuses, why : Reasons]]
        /\ worker' \in [Workers -> Worker]
        /\ WorkerHasTransport'
    <3>1. CASE scheduled[a] # 0
      BY <1>6, <3>1 DEF Spawn
    <3>2. CASE scheduled[a] = 0
      <4>1. transport \in Transports
        BY <1>6 DEF Spawn
      <4>2. PICK r \in Runs :
              /\ scheduled' = [scheduled EXCEPT ![a] = r]
              /\ worker' = [worker EXCEPT ![<<a, r>>] =
                   [at |-> "spawned", cancelled |-> FALSE, on |-> transport]]
        BY <1>6, <3>2 DEF Spawn
      <4>3. r \in 0..MaxWorkers /\ <<a, r>> \in Workers
        BY WorkersAssumption DEF Runs, Workers
      <4>4. [at |-> "spawned", cancelled |-> FALSE, on |-> transport] \in Worker
        BY <4>1 DEF Worker, WorkerStates
      <4>5. report' \in [Attempts -> [status : Statuses, why : Reasons]]
        <5>1. report' = [report EXCEPT ![a] = Scheduled]
          BY <1>6, <3>2 DEF Spawn
        <5> QED BY <5>1, EntryType
      <4> QED
        BY <1>6, <3>2, <4>1, <4>2, <4>3, <4>4, <4>5 DEF Spawn, PersistReport
    <3> QED BY <3>1, <3>2
  <2> QED BY <1>6, <2>1 DEF Spawn
<1>7. ASSUME NEW t \in Transports, StartDataplane(t) PROVE Typing'
  BY <1>7 DEF StartDataplane
<1> QED BY <1>1, <1>2, <1>3, <1>4, <1>5, <1>6, <1>7 DEF RunStep

\* Releasing a slot leaves the slots of their type.
LEMMA SlotType ==
  ASSUME NEW w \in Workers, Typing, ReleaseSlot(w)
  PROVE  slot' \in [Transports -> [Peers -> Attempts \cup {NoAttempt}]]
BY DEF ReleaseSlot, Typing, TypeOK

\* A step of an attempt's goroutine keeps the types.
LEMMA WorkerStepTyping ==
  ASSUME Typing, NEW w \in Workers, WorkerStep(w)
  PROVE  Typing'
<1> USE DEF Typing, TypeOK, OfferIsIssued, SpawnsOnTransport,
            WorkerHasTransport, At, agent, files
<1>0. w[1] \in Attempts /\ PeerOf[w[1]] \in Peers
  BY PeerOfAssumption DEF Workers
<1>a. ASSUME NEW s \in WorkerStates, Goto(w, s), ~At(w, "free")
      PROVE  worker' \in [Workers -> Worker] /\ WorkerHasTransport'
  BY <1>a, GotoType
<1>1. CASE BeginWorker(w)
  BY <1>0, <1>1, <1>a, EntryType DEF BeginWorker, PersistReport, WorkerStates
<1>2. CASE GiveUp(w)
  BY <1>2, <1>a DEF GiveUp, WorkerStates
<1>3. CASE ClaimSlot(w)
  <2>1. slot' \in [Transports -> [Peers -> Attempts \cup {NoAttempt}]]
    BY <1>0, <1>3 DEF ClaimSlot
  <2> QED BY <1>3, <2>1, <1>a DEF ClaimSlot, WorkerStates
<1>4. CASE FinishHandshake(w)
  BY <1>4, <1>a, SlotType DEF FinishHandshake, WorkerStates
<1>5. CASE NoticeCancel(w)
  BY <1>5, <1>a, SlotType DEF NoticeCancel, WorkerStates
<1>6. CASE MarkCompleted(w)
  BY <1>0, <1>6, <1>a, EntryType DEF MarkCompleted, PersistReport, WorkerStates
<1>7. CASE Retire(w)
  BY <1>7, <1>a DEF Retire, PersistPending, PersistReport, WorkerStates
<1>8. CASE MarkCanceled(w)
  BY <1>0, <1>8, <1>a, EntryType DEF MarkCanceled, PersistReport, WorkerStates
<1>9. CASE Recheck(w)
  <2>1. report' \in [Attempts -> [status : Statuses, why : Reasons]]
    BY <1>9, EntryType DEF Recheck
  <2> QED
    BY <1>9, <2>1, <1>a DEF Recheck, PersistPending, PersistReport, WorkerStates
<1>10. CASE ExitWorker(w)
  <2>1. FreeWorker \in Worker /\ 0 \in 0..MaxWorkers
    BY WorkersAssumption DEF FreeWorker, Worker, WorkerStates
  <2> QED BY <1>0, <1>10, <2>1 DEF ExitWorker, FreeWorker
<1> QED
  BY <1>1, <1>2, <1>3, <1>4, <1>5, <1>6, <1>7, <1>8, <1>9, <1>10 DEF WorkerStep

\* A crash, which loses all but the files, keeps the types.
LEMMA CrashTyping ==
  ASSUME Typing, Crash
  PROVE  Typing'
<1> USE DEF Typing, TypeOK, OfferIsIssued, SpawnsOnTransport,
            WorkerHasTransport, At
<1>1. FreeWorker \in Worker /\ 0 \in 0..MaxWorkers
  BY WorkersAssumption DEF FreeWorker, Worker, WorkerStates
<1>2. report' \in [Attempts -> [status : Statuses, why : Reasons]]
  BY EntryType DEF Crash
<1> QED BY <1>1, <1>2 DEF Crash, FreeWorker, PersistReport

\* Every step keeps the types.
LEMMA TypingStep == Typing /\ [Next]_vars => Typing'
<1> SUFFICES ASSUME Typing, [Next]_vars PROVE Typing'
  OBVIOUS
<1>1. CASE Next
  BY <1>1, EnvironmentTyping, RunStepTyping, WorkerStepTyping, CrashTyping DEF Next
<1>2. CASE UNCHANGED vars
  BY <1>2 DEF vars, agent, files, Typing, TypeOK, OfferIsIssued,
              SpawnsOnTransport, WorkerHasTransport, At
<1> QED BY <1>1, <1>2

\* Every variable of the agent keeps its type, with the facts about offers and
\* transports the later proofs rest on.
THEOREM TypeCorrect == Spec => [](TypeOK /\ Typing)
<1>1. Typing => TypeOK
  BY DEF Typing
<1> QED BY <1>1, TypingInit, TypingStep, PTL DEF Spec
-----------------------------------------------------------------------------
(* The queue.  OnePerPeer is not inductive: a restart reads the queue from   *)
(* the file, so the file must hold the queue (DurableQueue), and the offers  *)
(* of one response must be for different peers.                              *)

OneOfferPerPeer == \A a, b \in inbox : SamePeer(a, b) => a = b

QueueInv == Typing /\ OneOfferPerPeer /\ OnePerPeer /\ DurableQueue

\* At first the queue, its file and the offers are empty.
LEMMA QueueInvInit == Init => QueueInv
BY TypingInit DEF Init, QueueInv, OneOfferPerPeer, OnePerPeer, DurableQueue

\* Whatever joins the queue displaces what it had for the same peer.
LEMMA QueueWithOnePerPeer ==
  ASSUME NEW queue, NEW fresh,
         \A a, b \in queue : SamePeer(a, b) => a = b,
         \A a, b \in fresh : SamePeer(a, b) => a = b
  PROVE  \A a, b \in QueueWith(queue, fresh) : SamePeer(a, b) => a = b
BY DEF QueueWith, Displaced, SamePeer

\* The control plane offers at most one attempt for a peer.
LEMMA OfferedOnePerPeer ==
  ASSUME OfferIsIssued
  PROVE  \A a, b \in Offered : SamePeer(a, b) => a = b
BY DEF OfferIsIssued, Offered, SamePeer

\* Every step keeps one attempt for a peer, in the queue and in its file.
LEMMA QueueInvStep == QueueInv /\ [Next]_vars => QueueInv'
<1> SUFFICES ASSUME QueueInv, [Next]_vars PROVE QueueInv'
  OBVIOUS
<1>0. Typing'
  BY TypingStep DEF QueueInv
<1> SUFFICES (OneOfferPerPeer /\ OnePerPeer /\ DurableQueue)'
  BY <1>0 DEF QueueInv
<1> USE DEF QueueInv, OneOfferPerPeer, OnePerPeer, DurableQueue, SamePeer
<1>1. CASE Environment
  BY <1>1 DEF Environment, CPIssue, CPForget, WindowCloses, agent, files
<1>2. CASE Heartbeat
  BY <1>2, OfferedOnePerPeer DEF Heartbeat, Typing
<1>3. CASE Reconcile
  <2>1. pending' \subseteq pending
    BY <1>3 DEF Reconcile
  <2>2. pendingFile' = pending'
    BY <1>3 DEF Reconcile, PersistPending
  <2>3. reportFile' = report'
    BY <1>3 DEF Reconcile, PersistReport, Typing, TypeOK
  <2> QED BY <1>3, <2>1, <2>2, <2>3 DEF Reconcile
<1>4. CASE Queue
  <2> DEFINE fresh  == inbox \ late
             queued == QueueWith(pending, fresh)
             gone   == Contradicted(queued, recovery)
  <2>1. \A a, b \in queued : SamePeer(a, b) => a = b
    BY QueueWithOnePerPeer
  <2>2. pending' \subseteq queued
    BY <1>4 DEF Queue
  <2>3. OnePerPeer'
    BY <2>1, <2>2
  <2>4. pendingFile' = pending'
    <3>1. CASE inbox \cup Displaced(pending, fresh) \cup gone
                 \cup ExpiredIn(queued \ gone) = {}
      <4>1. queued = pending
        BY <3>1 DEF QueueWith, Displaced
      <4>2. pending' = pending /\ pendingFile' = pendingFile
        BY <1>4, <3>1, <4>1 DEF Queue, PersistPending
      <4> QED BY <4>2
    <3>2. CASE inbox \cup Displaced(pending, fresh) \cup gone
                 \cup ExpiredIn(queued \ gone) # {}
      BY <1>4, <3>2 DEF Queue, PersistPending
    <3> QED BY <3>1, <3>2
  <2>5. reportFile' = report' /\ inbox' = {}
    BY <1>4 DEF Queue, PersistReport
  <2> QED BY <2>3, <2>4, <2>5
<1>5. CASE StopDataplane
  BY <1>5 DEF StopDataplane, files
<1>6. CASE NoDataplane
  BY <1>6 DEF NoDataplane, agent, files
<1>7. ASSUME NEW a \in Attempts, Spawn(a)
      PROVE  (OneOfferPerPeer /\ OnePerPeer /\ DurableQueue)'
  BY <1>7 DEF Spawn, PersistReport
<1>8. ASSUME NEW t \in Transports, StartDataplane(t)
      PROVE  (OneOfferPerPeer /\ OnePerPeer /\ DurableQueue)'
  BY <1>8 DEF StartDataplane, files
<1>9. ASSUME NEW w \in Workers, WorkerStep(w)
      PROVE  (OneOfferPerPeer /\ OnePerPeer /\ DurableQueue)'
  <2>1. CASE BeginWorker(w) \/ GiveUp(w) \/ ClaimSlot(w) \/ FinishHandshake(w)
               \/ NoticeCancel(w) \/ ExitWorker(w)
    BY <2>1 DEF BeginWorker, GiveUp, ClaimSlot, FinishHandshake, NoticeCancel,
                ExitWorker, PersistReport, agent, files
  <2>2. CASE MarkCompleted(w) \/ MarkCanceled(w)
    BY <2>2 DEF MarkCompleted, MarkCanceled, PersistReport
  <2>3. CASE Retire(w)
    BY <2>3 DEF Retire, PersistPending, PersistReport
  <2>4. CASE Recheck(w)
    BY <2>4 DEF Recheck, PersistPending, PersistReport
  <2> QED BY <1>9, <2>1, <2>2, <2>3, <2>4 DEF WorkerStep
<1>10. CASE Crash
  BY <1>10 DEF Crash, PersistReport
<1>11. CASE UNCHANGED vars
  BY <1>11 DEF vars, agent, files
<1> QED
  BY <1>1, <1>2, <1>3, <1>4, <1>5, <1>6, <1>7, <1>8, <1>9, <1>10, <1>11
     DEF Next, RunStep

\* At most one attempt per peer waits in the queue, and the files always hold
\* the queue and the report a restart has to find, for any number of peers,
\* attempts, reloads, goroutines and crashes.
THEOREM QueueCorrect == Spec => [](OnePerPeer /\ DurableQueue)
<1>1. QueueInv => OnePerPeer /\ DurableQueue
  BY DEF QueueInv
<1> QED BY <1>1, QueueInvInit, QueueInvStep, PTL DEF Spec
-----------------------------------------------------------------------------
(* The refinement.  An offer may join the queue because the recovery states  *)
(* of the same response name it, and those are the ones in force by the time *)
(* the offers are queued.                                                    *)

InboxConfirmed ==
  /\ pc # "reconcile" => recovery = recoveryFile
  /\ pc \in {"reconcile", "queue"} =>
       \A a \in inbox : recoveryFile[PeerOf[a]] = a

RefinementInv == QueueInv /\ InboxConfirmed

\* At first nothing is received that the recovery state does not know.
LEMMA RefinementInvInit == Init => RefinementInv
BY QueueInvInit DEF Init, RefinementInv, InboxConfirmed

\* What the agent has received stays confirmed until it is queued.
LEMMA InboxConfirmedStep ==
  ASSUME QueueInv, InboxConfirmed, [Next]_vars
  PROVE  InboxConfirmed'
<1> USE DEF InboxConfirmed
<1>1. CASE Environment
  BY <1>1 DEF Environment, CPIssue, CPForget, WindowCloses, agent, files
<1>2. CASE Heartbeat
  <2>1. \A a \in inbox' : \E p \in Peers : offer[p] = a /\ a # NoAttempt
    BY <1>2 DEF Heartbeat, Offered
  <2>2. \A p \in Peers : offer[p] # NoAttempt => PeerOf[offer[p]] = p
    BY DEF QueueInv, Typing, OfferIsIssued
  <2>3. \A p \in Peers : offer[p] # NoAttempt => recoveryFile'[p] = offer[p]
    BY <1>2 DEF Heartbeat
  <2> QED BY <1>2, <2>1, <2>2, <2>3 DEF Heartbeat
<1>3. CASE Reconcile
  BY <1>3 DEF Reconcile
<1>4. CASE Queue
  <2>1. pc = "queue" /\ pc' \in {"idle", "spawn"} /\ UNCHANGED <<recovery, recoveryFile>>
    BY <1>4 DEF Queue
  <2> QED BY <2>1
<1>5. CASE StopDataplane \/ NoDataplane
  BY <1>5 DEF StopDataplane, NoDataplane, agent, files
<1>6. ASSUME NEW a \in Attempts, Spawn(a) PROVE InboxConfirmed'
  <2>1. pc = "spawn" /\ pc' \in {"idle", "spawn"} /\ UNCHANGED <<recovery, recoveryFile>>
    BY <1>6 DEF Spawn
  <2> QED BY <2>1
<1>7. ASSUME NEW t \in Transports, StartDataplane(t) PROVE InboxConfirmed'
  BY <1>7 DEF StartDataplane, files
<1>8. ASSUME NEW w \in Workers, WorkerStep(w) PROVE InboxConfirmed'
  BY <1>8 DEF WorkerStep, BeginWorker, GiveUp, ClaimSlot, FinishHandshake,
    NoticeCancel, MarkCompleted, Retire, MarkCanceled, Recheck, ExitWorker,
    agent, files
<1>9. CASE Crash
  BY <1>9 DEF Crash
<1>10. CASE UNCHANGED vars
  BY <1>10 DEF vars, agent, files
<1> QED
  BY <1>1, <1>2, <1>3, <1>4, <1>5, <1>6, <1>7, <1>8, <1>9, <1>10
     DEF Next, RunStep

\* Every step keeps what the refinement needs.
LEMMA RefinementInvStep == RefinementInv /\ [Next]_vars => RefinementInv'
BY QueueInvStep, InboxConfirmedStep DEF RefinementInv

\* Queueing, with its pruning and its displacing, is a step of AttemptQueue.
LEMMA QueueRefines ==
  ASSUME RefinementInv, Queue, OnePerPeer'
  PROVE  AQ!Next
<1> DEFINE fresh  == inbox \ late
           queued == QueueWith(pending, fresh)
           gone   == Contradicted(queued, recovery)
<1>1. /\ pending' = (queued \ gone) \ ExpiredIn(queued \ gone)
      /\ recovery' = recovery /\ late' = late
      /\ recovery = recoveryFile /\ pc = "queue"
  BY DEF Queue, RefinementInv, InboxConfirmed
<1>2. \A a \in inbox : recovery[PeerOf[a]] = a
  BY <1>1 DEF RefinementInv, InboxConfirmed
<1>3. \A a \in fresh : a \in pending'
  BY <1>1, <1>2 DEF QueueWith, Contradicted, ExpiredIn
<1>4. \A a \in pending' \ pending : a \in fresh
  BY <1>1 DEF QueueWith
<1>5. ASSUME NEW a \in pending \ pending'
      PROVE  a \in late \/ AQ!Contradicted(a) \/ AQ!Replaced(a)
  <2>1. CASE a \in Displaced(pending, fresh)
    <3>1. PICK b \in fresh : b # a /\ SamePeer(b, a)
      BY <2>1 DEF Displaced
    <3>2. b \in pending' \ pending
      BY <1>3, <1>5, <3>1 DEF RefinementInv, QueueInv, OnePerPeer
    <3> QED BY <3>1, <3>2 DEF AQ!Replaced, SamePeer
  <2>2. CASE a \in gone
    BY <1>1, <2>2 DEF Contradicted, AQ!Contradicted
  <2>3. CASE a \in ExpiredIn(queued \ gone)
    BY <2>3 DEF ExpiredIn
  <2> QED BY <1>1, <1>5, <2>1, <2>2, <2>3 DEF QueueWith
<1> QED
  BY <1>1, <1>2, <1>4, <1>5 DEF AQ!Next, OnePerPeer, SamePeer

\* Every step is one of AttemptQueue, or leaves its variables alone.
LEMMA RefinementStep ==
  ASSUME RefinementInv, OnePerPeer', [Next]_vars
  PROVE  [AQ!Next]_<<pending, recovery, late>>
<1> USE DEF AQ!Next, SamePeer, OnePerPeer
<1>1. CASE Environment
  BY <1>1 DEF Environment, CPIssue, CPForget, WindowCloses, agent
<1>2. CASE Heartbeat \/ StopDataplane \/ NoDataplane
  BY <1>2 DEF Heartbeat, StopDataplane, NoDataplane, agent
<1>3. CASE Reconcile
  <2>1. /\ pending' = pending \ Contradicted(pending, recovery')
        /\ late' = late
    BY <1>3 DEF Reconcile
  <2> QED BY <2>1 DEF Contradicted, AQ!Contradicted
<1>4. CASE Queue
  BY <1>4, QueueRefines
<1>5. ASSUME NEW a \in Attempts, Spawn(a)
      PROVE  UNCHANGED <<pending, recovery, late>>
  BY <1>5 DEF Spawn
<1>6. ASSUME NEW t \in Transports, StartDataplane(t)
      PROVE  UNCHANGED <<pending, recovery, late>>
  BY <1>6 DEF StartDataplane
<1>7. ASSUME NEW w \in Workers, WorkerStep(w)
      PROVE  [AQ!Next]_<<pending, recovery, late>>
  <2>1. CASE Retire(w)
    <3>1. w[1] \in Finishing
      BY <2>1 DEF Retire, At, Finishing, Workers
    <3> QED BY <2>1, <3>1 DEF Retire
  <2>2. CASE Recheck(w)
    BY <2>2 DEF Recheck, ExpiredIn
  <2>3. CASE ~Retire(w) /\ ~Recheck(w)
    BY <1>7, <2>3 DEF WorkerStep, BeginWorker, GiveUp, ClaimSlot,
      FinishHandshake, NoticeCancel, MarkCompleted, MarkCanceled, ExitWorker, agent
  <2> QED BY <2>1, <2>2, <2>3
<1>8. CASE Crash
  <2>1. pending' = pending \ late /\ late' = late
    BY <1>8 DEF Crash, RefinementInv, QueueInv, DurableQueue
  <2> QED BY <2>1
<1>9. CASE UNCHANGED vars
  BY <1>9 DEF vars, agent
<1> QED
  BY <1>1, <1>2, <1>3, <1>4, <1>5, <1>6, <1>7, <1>8, <1>9 DEF Next, RunStep

\* The agent's queue implements AttemptQueue: an attempt joins it only while
\* open and named by the newest recovery state, and it leaves for a cause
\* only; neither a reload nor a crash drops an open attempt.
THEOREM Refinement == Spec => ImplementsQueue
<1>1. Init => AQ!Init
  BY DEF Init, AQ!Init
<1>2. RefinementInv => OnePerPeer
  BY DEF RefinementInv, QueueInv
<1>3. RefinementInv /\ OnePerPeer' /\ [Next]_vars
        => [AQ!Next]_<<pending, recovery, late>>
  BY RefinementStep
<1> QED
  BY <1>1, <1>2, <1>3, RefinementInvInit, RefinementInvStep, PTL
     DEF Spec, ImplementsQueue, AQ!Spec
-----------------------------------------------------------------------------
(* The goroutines.  SlotIsHeld needs that a slot is only ever taken for an   *)
(* attempt of its peer: then the goroutine that leaves the slot's attempt    *)
(* is the one that releases it.                                              *)

SlotIsForPeer ==
  \A t \in Transports, p \in Peers :
    slot[t][p] # NoAttempt => slot[t][p] \in Attempts /\ PeerOf[slot[t][p]] = p

WorkerInv == Typing /\ ScheduledIsAlive /\ SlotIsForPeer /\ SlotIsHeld

\* At first no goroutine runs.
LEMMA WorkerInvInit == Init => WorkerInv
<1> SUFFICES ASSUME Init PROVE WorkerInv
  OBVIOUS
<1>1. Typing
  BY TypingInit
<1>2. ScheduledIsAlive
  BY DEF Init, ScheduledIsAlive
<1>3. \A t \in Transports, p \in Peers : slot[t][p] = NoAttempt
  BY DEF Init
<1>4. SlotIsForPeer /\ SlotIsHeld
  BY <1>3 DEF SlotIsForPeer, SlotIsHeld
<1> QED BY <1>1, <1>2, <1>4 DEF WorkerInv

\* The goroutine behind a taken slot.
LEMMA SlotHolder ==
  ASSUME WorkerInv, NEW t \in Transports, NEW p \in Peers,
         slot[t][p] # NoAttempt
  PROVE  \E r \in Runs : /\ <<slot[t][p], r>> \in Workers
                         /\ worker[<<slot[t][p], r>>].at = "in_flight"
                         /\ worker[<<slot[t][p], r>>].on = t
<1>1. slot[t][p] \in Attempts
  BY DEF WorkerInv, SlotIsForPeer
<1>2. PICK r \in Runs : /\ At(<<slot[t][p], r>>, "in_flight")
                        /\ worker[<<slot[t][p], r>>].on = t
  BY DEF WorkerInv, SlotIsHeld
<1> QED BY <1>1, <1>2 DEF At, Workers

\* SlotIsHeld after a step: it is enough to name the goroutine of each slot.
LEMMA SlotHeldIntro ==
  ASSUME \A t \in Transports, p \in Peers :
           slot'[t][p] # NoAttempt =>
             \E r \in Runs : /\ worker'[<<slot'[t][p], r>>].at = "in_flight"
                            /\ worker'[<<slot'[t][p], r>>].on = t
  PROVE  SlotIsHeld'
BY DEF SlotIsHeld, At

\* A step that moves no goroutine and takes no slot keeps all three.
LEMMA WorkersStayPut ==
  ASSUME WorkerInv,
         UNCHANGED slot,
         \A w \in Workers : worker'[w].at = worker[w].at /\ worker'[w].on = worker[w].on,
         \A a \in Attempts : scheduled'[a] # 0 => scheduled'[a] = scheduled[a]
  PROVE  (ScheduledIsAlive /\ SlotIsForPeer /\ SlotIsHeld)'
<1>1. ScheduledIsAlive'
  <2>1. \A a \in Attempts, n \in 0..MaxWorkers : n # 0 => <<a, n>> \in Workers
    BY WorkersAssumption DEF Workers, Runs
  <2> QED BY <2>1 DEF ScheduledIsAlive, At, WorkerInv, Typing, TypeOK
<1>2. SlotIsForPeer'
  BY DEF SlotIsForPeer, WorkerInv
<1>3. SlotIsHeld'
  <2> SUFFICES ASSUME NEW t \in Transports, NEW p \in Peers,
                      slot[t][p] # NoAttempt
               PROVE  \E r \in Runs : /\ worker'[<<slot[t][p], r>>].at = "in_flight"
                                      /\ worker'[<<slot[t][p], r>>].on = t
    BY SlotHeldIntro
  <2> QED BY SlotHolder
<1> QED BY <1>1, <1>2, <1>3

\* A goroutine that goes from one live state to another without holding the
\* slot in either keeps them, too.
LEMMA MoveKeeps ==
  ASSUME WorkerInv, NEW w \in Workers, NEW s \in WorkerStates \ {"free"},
         Goto(w, s), UNCHANGED <<scheduled, slot>>, ~At(w, "in_flight")
  PROVE  (ScheduledIsAlive /\ SlotIsForPeer /\ SlotIsHeld)'
<1>0. /\ worker'[w].at = s
      /\ \A v \in Workers \ {w} : worker'[v] = worker[v]
  BY GotoType DEF WorkerInv, Typing, TypeOK
<1>1. ScheduledIsAlive'
  <2>1. \A a \in Attempts, n \in 0..MaxWorkers : n # 0 => <<a, n>> \in Workers
    BY WorkersAssumption DEF Workers, Runs
  <2> QED BY <1>0, <2>1 DEF ScheduledIsAlive, At, WorkerInv, Typing, TypeOK
<1>2. SlotIsForPeer'
  BY DEF SlotIsForPeer, WorkerInv
<1>3. SlotIsHeld'
  <2> SUFFICES ASSUME NEW t \in Transports, NEW p \in Peers,
                      slot[t][p] # NoAttempt
               PROVE  \E r \in Runs : /\ worker'[<<slot[t][p], r>>].at = "in_flight"
                                      /\ worker'[<<slot[t][p], r>>].on = t
    BY SlotHeldIntro
  <2>1. PICK r \in Runs : /\ <<slot[t][p], r>> \in Workers
                          /\ worker[<<slot[t][p], r>>].at = "in_flight"
                          /\ worker[<<slot[t][p], r>>].on = t
    BY SlotHolder
  <2>2. <<slot[t][p], r>> # w
    BY <2>1 DEF At
  <2> QED BY <1>0, <2>1, <2>2
<1> QED BY <1>1, <1>2, <1>3

\* A goroutine that leaves the handshake releases the slot it holds.
LEMMA ReleaseKeeps ==
  ASSUME WorkerInv, NEW w \in Workers, NEW s \in {"completed", "canceled"},
         Goto(w, s), ReleaseSlot(w), UNCHANGED scheduled, ~At(w, "free")
  PROVE  (ScheduledIsAlive /\ SlotIsForPeer /\ SlotIsHeld)'
<1>0. /\ worker'[w].at = s /\ s # "free"
      /\ \A v \in Workers \ {w} : worker'[v] = worker[v]
  BY GotoType DEF WorkerInv, Typing, TypeOK, WorkerStates
<1>1. ScheduledIsAlive'
  <2>1. \A a \in Attempts, n \in 0..MaxWorkers : n # 0 => <<a, n>> \in Workers
    BY WorkersAssumption DEF Workers, Runs
  <2> QED BY <1>0, <2>1 DEF ScheduledIsAlive, At, WorkerInv, Typing, TypeOK
<1>a. w[1] \in Attempts /\ PeerOf[w[1]] \in Peers /\ worker[w].on \in Transports
  BY PeerOfAssumption DEF Workers, WorkerInv, Typing, WorkerHasTransport
<1>b. \A t \in Transports, p \in Peers :
        \/ slot'[t][p] = NoAttempt
        \/ slot'[t][p] = slot[t][p] /\ ~(/\ At(w, "in_flight") /\ worker[w].on = t
                                         /\ slot[t][p] = w[1])
  BY <1>a DEF ReleaseSlot, Slot, SlotIsForPeer, WorkerInv, Typing, TypeOK
<1>2. SlotIsForPeer'
  BY <1>b DEF SlotIsForPeer, WorkerInv
<1>3. SlotIsHeld'
  <2> SUFFICES ASSUME NEW t \in Transports, NEW p \in Peers,
                      slot'[t][p] # NoAttempt
               PROVE  \E r \in Runs : /\ worker'[<<slot'[t][p], r>>].at = "in_flight"
                                      /\ worker'[<<slot'[t][p], r>>].on = t
    BY SlotHeldIntro
  <2>1. /\ slot'[t][p] = slot[t][p]
        /\ ~(At(w, "in_flight") /\ worker[w].on = t /\ slot[t][p] = w[1])
    BY <1>b
  <2>2. PICK r \in Runs : /\ <<slot[t][p], r>> \in Workers
                          /\ worker[<<slot[t][p], r>>].at = "in_flight"
                          /\ worker[<<slot[t][p], r>>].on = t
    BY <2>1, SlotHolder
  <2>3. <<slot[t][p], r>>[1] = slot[t][p]
    OBVIOUS
  <2>4. <<slot[t][p], r>> # w
    BY <2>1, <2>2, <2>3 DEF At
  <2> QED BY <1>0, <2>1, <2>2, <2>4
<1> QED BY <1>1, <1>2, <1>3

\* Every step keeps the goroutines, the slots and the schedule together.
LEMMA WorkerInvStep == WorkerInv /\ [Next]_vars => WorkerInv'
<1> SUFFICES ASSUME WorkerInv, [Next]_vars PROVE WorkerInv'
  OBVIOUS
<1>0. Typing'
  BY TypingStep DEF WorkerInv
<1> SUFFICES (ScheduledIsAlive /\ SlotIsForPeer /\ SlotIsHeld)'
  BY <1>0 DEF WorkerInv
<1>a. worker \in [Workers -> Worker]
  BY DEF WorkerInv, Typing, TypeOK
<1>1. CASE Environment
  BY <1>1, WorkersStayPut
     DEF Environment, CPIssue, CPForget, WindowCloses, agent
<1>2. CASE Heartbeat \/ NoDataplane
  BY <1>2, WorkersStayPut DEF Heartbeat, NoDataplane, agent
<1>3. CASE Reconcile
  BY <1>3, <1>a, WorkersStayPut, CancellingKeeps DEF Reconcile
<1>4. CASE Queue
  <2>1. /\ UNCHANGED <<scheduled, slot>>
        /\ \E W : worker' = WithCancelled(W)
    BY <1>4 DEF Queue
  <2> QED BY <2>1, <1>a, WorkersStayPut, CancellingKeeps
<1>5. CASE StopDataplane
  BY <1>5, <1>a, WorkersStayPut, CancellingKeeps DEF StopDataplane
<1>6. ASSUME NEW a \in Attempts, Spawn(a)
      PROVE  (ScheduledIsAlive /\ SlotIsForPeer /\ SlotIsHeld)'
  <2>1. CASE scheduled[a] # 0
    BY <1>6, <2>1, WorkersStayPut DEF Spawn
  <2>2. CASE scheduled[a] = 0
    <3> DEFINE new == [at |-> "spawned", cancelled |-> FALSE, on |-> transport]
    <3>1. PICK r \in Runs : /\ At(<<a, r>>, "free")
                            /\ scheduled' = [scheduled EXCEPT ![a] = r]
                            /\ worker' = [worker EXCEPT ![<<a, r>>] = new]
      BY <1>6, <2>2 DEF Spawn
    <3>2. /\ <<a, r>> \in Workers /\ worker'[<<a, r>>] = new
          /\ \A v \in Workers \ {<<a, r>>} : worker'[v] = worker[v]
      BY <1>a, <3>1 DEF Workers
    <3>3. ScheduledIsAlive'
      <4>1. \A b \in Attempts, n \in 0..MaxWorkers : n # 0 => <<b, n>> \in Workers
        BY WorkersAssumption DEF Workers, Runs
      <4>2. scheduled \in [Attempts -> 0..MaxWorkers]
        BY DEF WorkerInv, Typing, TypeOK
      <4>3. ASSUME NEW b \in Attempts, scheduled'[b] # 0
            PROVE  worker'[<<b, scheduled'[b]>>].at # "free"
        <5>1. CASE b = a
          BY <3>1, <3>2, <4>2, <5>1
        <5>2. CASE b # a
          BY <3>1, <3>2, <4>1, <4>2, <4>3, <5>2
             DEF WorkerInv, ScheduledIsAlive, At
        <5> QED BY <5>1, <5>2
      <4> QED BY <4>3 DEF ScheduledIsAlive, At
    <3>4. UNCHANGED slot
      BY <1>6 DEF Spawn
    <3>5. SlotIsHeld'
      <4> SUFFICES ASSUME NEW t \in Transports, NEW p \in Peers,
                          slot[t][p] # NoAttempt
          PROVE  \E q \in Runs : /\ worker'[<<slot[t][p], q>>].at = "in_flight"
                                 /\ worker'[<<slot[t][p], q>>].on = t
        BY <3>4, SlotHeldIntro
      <4>1. PICK q \in Runs : /\ <<slot[t][p], q>> \in Workers
                              /\ worker[<<slot[t][p], q>>].at = "in_flight"
                              /\ worker[<<slot[t][p], q>>].on = t
        BY SlotHolder
      <4>2. <<slot[t][p], q>> # <<a, r>>
        BY <3>1, <4>1 DEF At
      <4> QED BY <3>2, <4>1, <4>2
    <3> QED BY <3>3, <3>4, <3>5 DEF WorkerInv, SlotIsForPeer
  <2> QED BY <2>1, <2>2
<1>7. ASSUME NEW t \in Transports, StartDataplane(t)
      PROVE  (ScheduledIsAlive /\ SlotIsForPeer /\ SlotIsHeld)'
  <2>1. /\ UNCHANGED <<worker, scheduled>>
        /\ \A u \in Transports, p \in Peers :
             slot'[u][p] = NoAttempt \/ slot'[u][p] = slot[u][p]
    BY <1>7 DEF StartDataplane, WorkerInv, Typing, TypeOK
  <2>2. SlotIsHeld'
    <3> SUFFICES ASSUME NEW u \in Transports, NEW p \in Peers,
                        slot'[u][p] # NoAttempt
        PROVE  \E r \in Runs : /\ worker'[<<slot'[u][p], r>>].at = "in_flight"
                               /\ worker'[<<slot'[u][p], r>>].on = u
      BY SlotHeldIntro
    <3>1. slot'[u][p] = slot[u][p]
      BY <2>1
    <3> QED BY <2>1, <3>1, SlotHolder
  <2> QED
    BY <2>1, <2>2 DEF WorkerInv, ScheduledIsAlive, SlotIsForPeer, At
<1>8. ASSUME NEW w \in Workers, WorkerStep(w)
      PROVE  (ScheduledIsAlive /\ SlotIsForPeer /\ SlotIsHeld)'
  <2>1. CASE BeginWorker(w)
    BY <2>1, MoveKeeps DEF BeginWorker, At, WorkerStates
  <2>2. CASE GiveUp(w)
    BY <2>2, MoveKeeps DEF GiveUp, At, WorkerStates, agent
  <2>3. CASE ClaimSlot(w)
    <3>1. /\ w[1] \in Attempts /\ w[2] \in Runs /\ w = <<w[1], w[2]>>
          /\ PeerOf[w[1]] \in Peers /\ worker[w].on \in Transports
      BY <2>3, PeerOfAssumption
         DEF ClaimSlot, At, Workers, WorkerInv, Typing, WorkerHasTransport
    <3>2. /\ worker'[w].at = "in_flight" /\ worker'[w].on = worker[w].on
          /\ \A v \in Workers \ {w} : worker'[v] = worker[v]
          /\ UNCHANGED scheduled
      BY <2>3, <1>a, GotoType DEF ClaimSlot, WorkerStates, agent
    <3>3. \A t \in Transports, p \in Peers :
            slot'[t][p] = IF t = worker[w].on /\ p = PeerOf[w[1]]
                            THEN w[1] ELSE slot[t][p]
      BY <2>3, <3>1 DEF ClaimSlot, WorkerInv, Typing, TypeOK
    <3>4. ScheduledIsAlive'
      <4>1. \A a \in Attempts, n \in 0..MaxWorkers : n # 0 => <<a, n>> \in Workers
        BY WorkersAssumption DEF Workers, Runs
      <4> QED
        BY <3>2, <4>1 DEF ScheduledIsAlive, At, WorkerInv, Typing, TypeOK
    <3>5. SlotIsForPeer'
      BY <3>1, <3>3 DEF SlotIsForPeer, WorkerInv
    <3>6. SlotIsHeld'
      <4> SUFFICES ASSUME NEW t \in Transports, NEW p \in Peers,
                          slot'[t][p] # NoAttempt
          PROVE  \E q \in Runs : /\ worker'[<<slot'[t][p], q>>].at = "in_flight"
                                 /\ worker'[<<slot'[t][p], q>>].on = t
        BY SlotHeldIntro
      <4>1. CASE t = worker[w].on /\ p = PeerOf[w[1]]
        BY <3>1, <3>2, <3>3, <4>1
      <4>2. CASE ~(t = worker[w].on /\ p = PeerOf[w[1]])
        <5>1. slot'[t][p] = slot[t][p]
          BY <3>3, <4>2
        <5>2. PICK q \in Runs : /\ <<slot[t][p], q>> \in Workers
                                /\ worker[<<slot[t][p], q>>].at = "in_flight"
                                /\ worker[<<slot[t][p], q>>].on = t
          BY <5>1, SlotHolder
        <5>3. <<slot[t][p], q>> # w
          BY <2>3, <5>2 DEF ClaimSlot, At
        <5> QED BY <3>2, <5>1, <5>2, <5>3
      <4> QED BY <4>1, <4>2
    <3> QED BY <3>4, <3>5, <3>6
  <2>4. CASE FinishHandshake(w)
    BY <2>4, ReleaseKeeps DEF FinishHandshake, At, agent
  <2>5. CASE NoticeCancel(w)
    BY <2>5, ReleaseKeeps DEF NoticeCancel, At, agent
  <2>6. CASE MarkCompleted(w) \/ Retire(w) \/ MarkCanceled(w) \/ Recheck(w)
    BY <2>6, MoveKeeps
       DEF MarkCompleted, Retire, MarkCanceled, Recheck, At, WorkerStates
  <2>7. CASE ExitWorker(w)
    <3>1. /\ w[1] \in Attempts /\ w[2] \in Runs /\ w = <<w[1], w[2]>>
      BY DEF Workers
    <3>2. /\ \A v \in Workers \ {w} : worker'[v] = worker[v]
          /\ \A a \in Attempts :
               scheduled'[a] = IF a = w[1] THEN 0 ELSE scheduled[a]
          /\ UNCHANGED slot
      BY <2>7, <1>a, <3>1 DEF ExitWorker, WorkerInv, Typing, TypeOK
    <3>3. ScheduledIsAlive'
      <4>1. \A a \in Attempts, n \in 0..MaxWorkers : n # 0 => <<a, n>> \in Workers
        BY WorkersAssumption DEF Workers, Runs
      <4>2. ASSUME NEW a \in Attempts, scheduled'[a] # 0
            PROVE  worker'[<<a, scheduled'[a]>>].at # "free"
        <5>1. a # w[1] /\ scheduled'[a] = scheduled[a]
          BY <3>2, <4>2
        <5>2. <<a, scheduled[a]>> \in Workers \ {w}
          BY <3>1, <4>1, <4>2, <5>1 DEF WorkerInv, Typing, TypeOK
        <5> QED
          BY <3>2, <4>2, <5>1, <5>2 DEF WorkerInv, ScheduledIsAlive, At
      <4> QED BY <4>2 DEF ScheduledIsAlive, At
    <3>4. SlotIsHeld'
      <4> SUFFICES ASSUME NEW t \in Transports, NEW p \in Peers,
                          slot[t][p] # NoAttempt
          PROVE  \E q \in Runs : /\ worker'[<<slot[t][p], q>>].at = "in_flight"
                                 /\ worker'[<<slot[t][p], q>>].on = t
        BY <3>2, SlotHeldIntro
      <4>1. PICK q \in Runs : /\ <<slot[t][p], q>> \in Workers
                              /\ worker[<<slot[t][p], q>>].at = "in_flight"
                              /\ worker[<<slot[t][p], q>>].on = t
        BY SlotHolder
      <4>2. <<slot[t][p], q>> # w
        BY <2>7, <4>1 DEF ExitWorker, At
      <4> QED BY <3>2, <4>1, <4>2
    <3> QED BY <3>2, <3>3, <3>4 DEF WorkerInv, SlotIsForPeer
  <2> QED BY <1>8, <2>1, <2>2, <2>3, <2>4, <2>5, <2>6, <2>7 DEF WorkerStep
<1>9. CASE Crash
  <2>1. /\ \A a \in Attempts : scheduled'[a] = 0
        /\ \A t \in Transports, p \in Peers : slot'[t][p] = NoAttempt
    BY <1>9 DEF Crash
  <2> QED BY <2>1 DEF ScheduledIsAlive, SlotIsForPeer, SlotIsHeld
<1>10. CASE UNCHANGED vars
  BY <1>10, WorkersStayPut DEF vars, agent
<1> QED
  BY <1>1, <1>2, <1>3, <1>4, <1>5, <1>6, <1>7, <1>8, <1>9, <1>10
     DEF Next, RunStep

\* No entry of scheduledAttempts and no in-flight slot of a transport outlives
\* the goroutine it stands for, so neither can block later attempts for good.
THEOREM NothingLeftBehind == Spec => [](ScheduledIsAlive /\ SlotIsHeld)
<1>1. WorkerInv => ScheduledIsAlive /\ SlotIsHeld
  BY DEF WorkerInv
<1> QED BY <1>1, WorkerInvInit, WorkerInvStep, PTL DEF Spec

\* A transport's directAttemptInFlight is held by a goroutine that runs the
\* attempt with that transport, whatever reloads and crashes did to it.
THEOREM SlotsHeld == Spec => []SlotIsHeld
BY NothingLeftBehind, PTL
=============================================================================
