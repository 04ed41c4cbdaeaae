------------------------------ MODULE MCHarnessCore -----------------------------
(***************************************************************************)
(* HarnessCore for TLC: the budgets, texts and patches of its run.          *)
(***************************************************************************)
EXTENDS HarnessCore

CONSTANTS n1, n2, d1, cut, ctl

(* More rounds than actions, and fewer: either budget may run out first.    *)
MCLimits == {[actions |-> 3, feedback |-> 4], [actions |-> 3, feedback |-> 2]}

(* One text per branch of parse_pytest, with nested and equal failure sets, *)
(* and two failures whose summary some model of the domain does not take.   *)
Text(failed, collecting, passed, blank) ==
  [failed |-> failed, collecting |-> collecting, passed |-> passed,
   blank |-> blank, detail |-> d1]

MCTexts ==
  { Text({n1}, FALSE, TRUE, FALSE), Text({n1, n2}, FALSE, FALSE, FALSE),
    Text({}, TRUE, FALSE, FALSE), Text({}, FALSE, TRUE, FALSE),
    Text({}, FALSE, FALSE, TRUE) }
  \cup { [Text({n1}, FALSE, FALSE, FALSE) EXCEPT !.detail = d] : d \in {cut, ctl} }

(* Prepared patches: a source file, six of them, and for every rule of the  *)
(* policy one that only it, or first it, matches.                           *)
Plan(kinds, operation, unsafe) ==
  [kinds |-> kinds, operation |-> operation, unsafe |-> unsafe]

Prepared(files) == [files |-> files, lines |-> 2, bytes |-> 80]

Source == Plan({"python"}, "modify", {})

MCPrepared ==
  { Prepared(<<Source>>), Prepared([i \in 1..6 |-> Source]),
    Prepared([i \in 1..21 |-> Source]),
    [Prepared(<<Source>>) EXCEPT !.lines = 301] }
  \cup { Prepared(<<Source, p>>) : p \in
    { Plan({"python", "in_tests"}, "delete", {}), Plan({"python", "test_asset"}, "create", {}),
      Plan({"protected", "dependency"}, "modify", {}), Plan({"dependency"}, "modify", {}),
      Plan({"python"}, "delete", {}), Plan({"sensitive"}, "create", {"binary"}),
      Plan({"sensitive"}, "create", {}), Plan({"python"}, "modify", {"symlink", "path_escape"}) } }

MCPatches == {PolicyFactsFromPrepared(p, "real") : p \in MCPrepared}
=================================================================================
