---------------------------- MODULE BoundaryContract ----------------------------
(***************************************************************************)
(* What the service needs of the boundary around one worker                 *)
(* (ProcessBoundary in web/process_boundary.py): the worker does not run    *)
(* before its boundary stands, and a process tree confirmed dead is dead    *)
(* for good.                                                                *)
(***************************************************************************)
VARIABLES
  phase,      \* of the boundary: starting, failed, supervising, closed
  tree,       \* the worker and what it started: none, alive, dead
  confirmed   \* the tree was confirmed dead

contractVars == <<phase, tree, confirmed>>

Init ==
  /\ phase = "starting"
  /\ tree = "none"
  /\ confirmed = FALSE

(* The boundary stands, and only then does the worker run.                  *)
Start ==
  /\ phase = "starting"
  /\ phase' = "supervising"
  /\ tree' = "alive"
  /\ UNCHANGED confirmed

Fail ==
  /\ phase = "starting"
  /\ phase' = "failed"
  /\ UNCHANGED <<tree, confirmed>>

TreeDies ==
  /\ tree = "alive"
  /\ tree' = "dead"
  /\ UNCHANGED <<phase, confirmed>>

Confirm ==
  /\ phase = "supervising"
  /\ tree = "dead"
  /\ confirmed' = TRUE
  /\ UNCHANGED <<phase, tree>>

Close ==
  /\ phase = "supervising"
  /\ phase' = "closed"
  /\ UNCHANGED <<tree, confirmed>>

Next == Start \/ Fail \/ TreeDies \/ Confirm \/ Close

Spec == Init /\ [][Next]_contractVars
=================================================================================
