------------------------------- MODULE PytestRun --------------------------------
(***************************************************************************)
(* What becomes of one pytest process: PytestTestRunner.run classifies it   *)
(* (adapters/process/pytest_runner.py) and parse_pytest reads its output    *)
(* (feedback/pytest_parser.py).                                             *)
(*                                                                          *)
(* A raw run is a record                                                    *)
(*   [launch, clean, truncated, text, before, after]                        *)
(* "clean" says that the process exited with code 0, "truncated" that a     *)
(* stream went over its capture limit, "before" and "after" are the two     *)
(* hashes of the workspace.  The text is abstracted to what the parser      *)
(* looks for: the test ids on FAILED lines, a collection-error marker, an   *)
(* "N passed" line, whether it is blank, and the failure detail.            *)
(***************************************************************************)
EXTENDS FeedbackEngine

(* LaunchStatus, the statuses a Launcher may answer with.  (Of these,       *)
(* SubprocessLauncher gives completed, timed_out and environment_error.)    *)
LaunchStatuses ==
  {"completed", "timed_out", "resource_limit", "environment_error",
   "cancelled", "unknown"}

(* TestRunOutcome.                                                          *)
RunOutcomes ==
  {"passed", "failed", "timed_out", "resource_limit", "environment_error",
   "unparseable", "cancelled", "unknown_outcome", "workspace_drift"}

(* The outcomes parse_pytest turns into an environment error.               *)
NoEvidence ==
  {"environment_error", "timed_out", "resource_limit", "cancelled",
   "unknown_outcome"}

(* PytestTestRunner._classify.                                              *)
LaunchOutcome(launch) ==
  IF launch = "unknown" THEN "unknown_outcome"
  ELSE IF launch = "completed" THEN "unparseable"
  ELSE launch

(* PytestTestRunner.run: drift overrides every other verdict, and output    *)
(* with no text at all has no verdict.                                      *)
Classify(raw) ==
  IF raw.before # raw.after THEN "workspace_drift"
  ELSE IF raw.launch # "completed" THEN LaunchOutcome(raw.launch)
  ELSE IF raw.text.blank THEN "unparseable"
  ELSE IF raw.clean THEN "passed"
  ELSE "failed"

(* A process that was cut short has no exit code.                           *)
NoCode(raw) == raw.launch \in {"timed_out", "cancelled", "unknown"}

(* TestRun.validate_contract: what the domain model asks of a run with this *)
(* outcome.  The runner's parser has a result for every completed run with  *)
(* text.                                                                    *)
ValidRun(raw) ==
  LET outcome == Classify(raw)
      parsed  == raw.before = raw.after /\ raw.launch = "completed" /\ ~raw.text.blank
  IN  /\ outcome = "workspace_drift" <=> raw.before # raw.after
      /\ parsed <=> outcome \in {"passed", "failed"}
      /\ outcome = "passed" => raw.clean
      /\ outcome = "failed" => ~NoCode(raw) /\ ~raw.clean
      /\ outcome \in {"timed_out", "cancelled", "unknown_outcome"} => NoCode(raw)
      /\ outcome = "unparseable" => ~NoCode(raw)

(* The outcome parse_pytest reads off the text, for a given run outcome.    *)
ParsedOutcome(raw, outcome) ==
  IF outcome \in NoEvidence THEN "environment_error"
  ELSE IF raw.truncated \/ outcome = "unparseable" THEN "unparseable"
  ELSE IF raw.text.failed # {} THEN "failed"
  ELSE IF raw.text.collecting THEN "collection_error"
  ELSE IF outcome = "passed" /\ raw.text.passed THEN "passed"
  ELSE "unparseable"

(* parse_pytest, with the workspace revision HarnessCore.step adds.  Only a *)
(* failing result carries failing ids and a detail of its own.              *)
ParsePytest(raw, testPhase, noDetail) ==
  LET parsed == ParsedOutcome(raw, Classify(raw)) IN
    [phase   |-> testPhase,
     outcome |-> parsed,
     nodes   |-> IF parsed = "failed" THEN raw.text.failed ELSE {},
     detail  |-> IF parsed \in {"failed", "collection_error"}
                   THEN raw.text.detail ELSE noDetail,
     rev     |-> raw.after]
=================================================================================
