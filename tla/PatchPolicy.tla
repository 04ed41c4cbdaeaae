------------------------------ MODULE PatchPolicy -------------------------------
(***************************************************************************)
(* The policy decision of security/policy.py: an ordered table of deny      *)
(* rules, then an ordered table of approval rules, then allow.              *)
(*                                                                          *)
(* PolicyFacts is a record of three sizes and a set of flags: the Boolean   *)
(* fields of the code's model that are true.  They are read off a prepared  *)
(* patch (core/patch_policy.py, patching/parser.py), which is a record      *)
(*   [files, lines, bytes]                                                  *)
(* where "files" is a sequence of plans and "lines" the added and deleted   *)
(* ones together.  Of a plan's path only the kinds it is of matter, of its  *)
(* place and content whether they escape the root, are a link or binary.    *)
(***************************************************************************)
EXTENDS Naturals, Sequences

Flags ==
  {"touches_test_assets", "protected_config", "path_escape", "symlink",
   "binary", "shell", "capability_missing", "demo_escape",
   "source_delete", "sensitive_path", "dependency_config"}

PolicyFacts == [files : Nat, lines : Nat, bytes : Nat, flags : SUBSET Flags]

(* What is looked for in a path: the prefix tests/, the other names of a    *)
(* test asset, the sensitive names, the names in _PROTECTED_CONFIG and in   *)
(* _DEPENDENCY_CONFIG (pyproject.toml and setup.cfg are in both), .py.      *)
PathKinds ==
  {"in_tests", "test_asset", "sensitive", "protected", "dependency", "python"}

FilePlans ==
  [kinds : SUBSET PathKinds, operation : {"create", "modify", "delete"},
   unsafe : SUBSET {"path_escape", "symlink", "binary"}]

SomeFile(prepared, kinds) ==
  \E i \in DOMAIN prepared.files : prepared.files[i].kinds \cap kinds # {}

SomeUnsafe(prepared, what) ==
  \E i \in DOMAIN prepared.files : what \in prepared.files[i].unsafe

(* policy_facts_from_prepared, with the facts of prepare and of             *)
(* WorkspacePatchSafetyResolver in a runtime of the given mode.             *)
PolicyFactsFromPrepared(prepared, mode) ==
  LET holds ==
    [touches_test_assets |-> SomeFile(prepared, {"in_tests", "test_asset"}),
     protected_config    |-> SomeFile(prepared, {"protected"}),
     path_escape         |-> SomeUnsafe(prepared, "path_escape"),
     symlink             |-> SomeUnsafe(prepared, "symlink"),
     binary              |-> SomeUnsafe(prepared, "binary"),
     shell               |-> FALSE,
     capability_missing  |-> mode # "real",
     demo_escape         |-> mode = "demo",
     source_delete       |-> \E i \in DOMAIN prepared.files :
                               /\ prepared.files[i].operation = "delete"
                               /\ "python" \in prepared.files[i].kinds
                               /\ "in_tests" \notin prepared.files[i].kinds,
     sensitive_path      |-> SomeFile(prepared, {"sensitive"}),
     dependency_config   |-> SomeFile(prepared, {"dependency"})]
  IN [files |-> Len(prepared.files), lines |-> prepared.lines,
      bytes |-> prepared.bytes, flags |-> {f \in Flags : holds[f]}]

(* PolicyFacts() : the facts of every action that is not a patch.           *)
NoFacts == [files |-> 0, lines |-> 0, bytes |-> 0, flags |-> {}]

(* The deny table, in the order of the code; a rule is its reason and       *)
(* whether it matches.                                                      *)
DenyRules(f) ==
  << [reason |-> "test_asset_protection", matches |-> "touches_test_assets" \in f.flags],
     [reason |-> "protected_config",      matches |-> "protected_config" \in f.flags],
     [reason |-> "path_safety",           matches |-> f.flags \cap {"path_escape", "symlink"} # {}],
     [reason |-> "binary_unsupported",    matches |-> "binary" \in f.flags],
     [reason |-> "shell_forbidden",       matches |-> "shell" \in f.flags],
     [reason |-> "capability_missing",    matches |-> "capability_missing" \in f.flags],
     [reason |-> "demo_escape",           matches |-> "demo_escape" \in f.flags],
     [reason |-> "patch_hard_limit",
      matches |-> f.files > 20 \/ f.lines > 2000 \/ f.bytes > 1048576] >>

ApprovalRules(f) ==
  << [reason |-> "patch_requires_approval", matches |-> f.files > 5 \/ f.lines > 300],
     [reason |-> "source_delete",           matches |-> "source_delete" \in f.flags],
     [reason |-> "sensitive_path",          matches |-> "sensitive_path" \in f.flags],
     [reason |-> "dependency_config",       matches |-> "dependency_config" \in f.flags] >>

(* PolicyReasonCode.                                                        *)
Reasons ==
  {"allowed", "test_asset_protection", "protected_config", "path_safety",
   "binary_unsupported", "shell_forbidden", "capability_missing", "demo_escape",
   "patch_hard_limit", "patch_requires_approval", "source_delete", "sensitive_path",
   "dependency_config"}

Matches(rules) == {i \in DOMAIN rules : rules[i].matches}

FirstMatch(rules) ==
  rules[CHOOSE i \in Matches(rules) : \A j \in Matches(rules) : i <= j].reason

(* PolicyEngine.evaluate.                                                   *)
Evaluate(f) ==
  IF Matches(DenyRules(f)) # {}
    THEN [outcome |-> "deny", reason |-> FirstMatch(DenyRules(f))]
  ELSE IF Matches(ApprovalRules(f)) # {}
    THEN [outcome |-> "require_approval", reason |-> FirstMatch(ApprovalRules(f))]
  ELSE [outcome |-> "allow", reason |-> "allowed"]
=================================================================================
