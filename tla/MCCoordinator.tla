--------------------------- MODULE MCCoordinator ---------------------------
(* Model-checking instances of Coordinator: two nodes and small windows.     *)
EXTENDS Coordinator

CONSTANTS A, B

MCNodes == {A, B}

\* A table with a general value and one for the primary_upgrade profile.
All(general, upgrade) ==
  [class \in DOMAIN [any |-> 0, timeout |-> 0, relay_kept |-> 0, primary_upgrade |-> 0]
     |-> CASE class = "any" -> general
           [] class = "primary_upgrade" -> upgrade
           [] OTHER -> 0]

\* A failure cools the pair down, two failures suppress it, one probe is let
\* through in the suppression window and given back after quiet time.
MCBudget ==
  [ cooldown |-> All(1, 0), manualAfter |-> All(2, 0),
    suppressAfter |-> All(1, 0), suppressWindow |-> All(3, 0),
    probeInterval |-> All(1, 0), probeLimit |-> All(1, 0), probeRefill |-> All(2, 0),
    onlineWindow |-> 1, endpointWindow |-> 1, transportWindow |-> 1 ]

\* Probes are not given back before the suppression ends.
MCNoRefill == [ MCBudget EXCEPT !.probeRefill = All(0, 0) ]

\* The cooldown alone, and addresses that are primary candidates only at the
\* instant they are observed.
MCBriefEndpoints ==
  [ MCBudget EXCEPT !.suppressAfter = All(0, 0), !.endpointWindow = 0 ]

MCPrimary == {{"primary"}}

MCOne  == {A}
MCNone == {}
=============================================================================
