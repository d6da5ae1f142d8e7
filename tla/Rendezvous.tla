----------------------------- MODULE Rendezvous -----------------------------
(***************************************************************************)
(* What the coordination of direct attempts promises a pair of nodes,      *)
(* without stores, rows, reports, queues or failures: the two agree on one *)
(* instant at a time, and meet at it.  An instant agreed on moves with the *)
(* clock only, until its window has passed; whoever hears from the control *)
(* plane before then takes part; and a node punches within the window, of  *)
(* the instant it takes part in.                                           *)
(***************************************************************************)
EXTENDS Integers

CONSTANTS Nodes, Lead, Window

VARIABLES
  meeting,  \* the instant agreed on, as its distance from now
  present,  \* the nodes that wait for it
  heard     \* the nodes that have heard from the control plane since the clock moved

\* An instant whose window has passed is not told from none.
Passed == -(Window + 1)

Init == meeting = Passed /\ present = {} /\ heard = {}

\* A node hears from the control plane, which may agree on an instant when there
\* is none, or on the same one once more.
Hear(n) ==
  /\ n \notin heard /\ heard' = heard \cup {n}
  /\ \/ UNCHANGED meeting
     \/ meeting \in {Passed, Lead} /\ meeting' = Lead
  /\ present' = IF meeting' = Passed THEN present ELSE present \cup {n}

Punch(n) ==
  /\ n \in present /\ meeting \in -Window..0
  /\ present' = present \ {n}
  /\ UNCHANGED <<meeting, heard>>

Pass ==
  /\ meeting' = IF meeting = Passed THEN Passed ELSE meeting - 1
  /\ present' = IF meeting' = Passed THEN {} ELSE present
  /\ heard' = {}

Next == Pass \/ \E n \in Nodes : Hear(n) \/ Punch(n)

Spec == Init /\ [][Next]_<<meeting, present, heard>>
=============================================================================
