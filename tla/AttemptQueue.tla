---------------------------- MODULE AttemptQueue ----------------------------
(***************************************************************************)
(* What an agent's queue of coordinated direct attempts promises, without  *)
(* goroutines, reloads, files or crashes: it is a set with at most one     *)
(* attempt per peer; an attempt enters it only while it is open and the    *)
(* newest verdict of the control plane names it; and it leaves only when   *)
(* it was executed, its window closed, the verdict turned against it, or a *)
(* newer attempt for the peer took its place.                              *)
(***************************************************************************)
CONSTANTS Attempts, Peers, PeerOf, NoVerdict

VARIABLES
  queue,    \* the attempts waiting or being executed
  verdict,  \* per peer, the attempt the control plane stands by
  closed,   \* attempts whose window has passed
  done      \* attempts whose execution has just ended

Contradicted(a) == verdict'[PeerOf[a]] \notin {NoVerdict, a}

Replaced(a) == \E b \in queue' \ queue : PeerOf[b] = PeerOf[a]

Init == queue = {} /\ closed = {}

Next ==
  /\ \A a \in queue' \ queue : a \notin closed /\ verdict[PeerOf[a]] = a
  /\ \A a \in queue \ queue' :
       a \in closed \/ a \in done \/ Contradicted(a) \/ Replaced(a)
  /\ \A a, b \in queue' : PeerOf[a] = PeerOf[b] => a = b
  /\ closed \subseteq closed'

Spec == Init /\ [][Next]_<<queue, verdict, closed>>
=============================================================================
