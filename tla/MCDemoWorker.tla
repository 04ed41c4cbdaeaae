------------------------------ MODULE MCDemoWorker ------------------------------
(***************************************************************************)
(* DemoWorker for TLC: the outputs of the one test of a demo repository,    *)
(* one per branch of parse_pytest.                                          *)
(***************************************************************************)
EXTENDS DemoWorker

CONSTANTS n1, d1

(* The budgets of the scenarios, and the rounds every task has.             *)
MCLimits == [actions : 1 .. 2, feedback : {8}]

MCPatches == {SourcePatch, TestPatch}

Text(failed, collecting, passed, blank) ==
  [failed |-> failed, collecting |-> collecting, passed |-> passed,
   blank |-> blank, detail |-> d1]

MCTexts ==
  { Text({n1}, FALSE, FALSE, FALSE), Text({}, TRUE, FALSE, FALSE),
    Text({}, FALSE, TRUE, FALSE), Text({}, FALSE, FALSE, TRUE) }
=================================================================================
