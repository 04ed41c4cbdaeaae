----------------------------- MODULE TaskLifecycle ------------------------------
(***************************************************************************)
(* What the decision loop promises about one task (SPEC.md 7.1): it spends  *)
(* at most a fixed number of decisions, writes to its worktree only while   *)
(* it is deciding, and succeeds only by certifying the content the worktree *)
(* then has.  A paused task goes on when a human says so; every other       *)
(* status that is not "deciding" is the end of it.                          *)
(***************************************************************************)
EXTENDS Naturals

CONSTANTS Contents, Uncertified

VARIABLES
  budget,      \* decisions the task may spend
  status,      \* the task's status
  spent,       \* decisions accounted for
  tree,        \* content of the worktree
  certified    \* content the latest full pass certified

lifecycleVars == <<budget, status, spent, tree, certified>>

Init ==
  /\ budget \in Nat
  /\ status = "deciding"
  /\ spent = 0
  /\ tree \in Contents
  /\ certified = Uncertified

(* Work that no saved decision accounts for yet.                            *)
Work ==
  /\ status = "deciding"
  /\ tree' \in Contents
  /\ UNCHANGED <<budget, status, spent, certified>>

(* A decision is accounted for, with its effects.                           *)
Decide ==
  /\ status = "deciding"
  /\ spent < budget
  /\ spent' = spent + 1
  /\ tree' \in Contents
  /\ certified' \in {certified, tree'}
  /\ status' \in {"deciding", "awaiting_approval", "paused_for_human", "stopped"}
  /\ UNCHANGED budget

Succeed ==
  /\ status = "deciding"
  /\ spent < budget
  /\ spent' = spent + 1
  /\ tree' \in Contents
  /\ certified' = tree'
  /\ status' = "succeeded"
  /\ UNCHANGED budget

Exhaust ==
  /\ status = "deciding"
  /\ status' = "stopped"
  /\ UNCHANGED <<budget, spent, tree, certified>>

GoOn ==
  /\ status = "paused_for_human"
  /\ status' = "deciding"
  /\ UNCHANGED <<budget, spent, tree, certified>>

Next == Work \/ Decide \/ Succeed \/ Exhaust \/ GoOn

Spec == Init /\ [][Next]_lifecycleVars
=================================================================================
