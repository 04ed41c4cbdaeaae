-------------------------------- MODULE DemoTrace -------------------------------
(***************************************************************************)
(* The scenarios of demo/scenarios.py and the trace web/worker.py makes of  *)
(* a session's history for the page: what _build_trace_events has for an    *)
(* entry, and the contract of web/trace.py by which the worker and the      *)
(* service both judge the whole.                                            *)
(*                                                                          *)
(* An event is its type and the one code it carries; its sequence number is *)
(* its place.                                                               *)
(***************************************************************************)
EXTENDS Naturals, SequencesExt, PatchPolicy

ActionKinds ==
  {"list_files", "read_file", "search_code", "apply_patch", "run_tests", "git_diff",
   "git_status", "run_diagnostic", "request_human"}

FeedbackCodes ==
  {"initial_failure", "passed", "changed", "progress", "no_progress", "regression",
   "loop", "environment_error", "unparseable"}

Event(type, code) == [type |-> type, code |-> code]

(* What _test_outcome makes of the safe summary of a run: it has no answer  *)
(* for the runs that prove nothing.                                         *)
ShownOutcome(parsed) == IF parsed = "passed" THEN "passed" ELSE "failed"

(* Mutant of Mappable: a run that proves nothing is a failed one.           *)
MappableInconclusive(entry) ==
  \/ entry.action \in {"apply_patch", "request_human", "full_test"}
  \/ entry.action = "policy_deny" /\ entry.result = "test_asset_protection"

(* Entries the worker has events for; any other fails the worker.           *)
Mappable(entry) ==
  \/ entry.action \in {"apply_patch", "request_human"}
  \/ entry.action = "full_test" /\ entry.result \notin {"environment_error", "unparseable"}
  \/ entry.action = "policy_deny" /\ entry.result = "test_asset_protection"

(* Mutant of FeedbackCode: the first failure is like any other.             *)
FeedbackCodePlain(outcome, built) ==
  IF outcome = "passed" THEN "passed" ELSE "changed"

(* The feedback shown for a run is made up from the outcomes, not taken     *)
(* from the engine: previous_test_outcome is None until the trace has a run.*)
FeedbackCode(outcome, built) ==
  IF outcome = "passed" THEN "passed"
  ELSE IF \A j \in DOMAIN built : built[j].type # "test_completed" THEN "initial_failure"
  ELSE "changed"

(* The events of one entry, behind those already built.                     *)
EntryEvents(entry, built) ==
  CASE entry.action = "full_test" ->
         LET outcome == ShownOutcome(entry.result) IN
           << Event("test_completed", outcome),
              Event("feedback_produced", FeedbackCode(outcome, built)) >>
    [] entry.action = "policy_deny" ->
         << Event("action_selected", "apply_patch"),
            Event("policy_decision", entry.result) >>
    [] OTHER -> << Event("action_selected", entry.action) >>

-----------------------------------------------------------------------------
(* ScenarioTraceContract.  "counts" has the exact number of each type that  *)
(* has a rule.                                                              *)
SuccessContract ==
  [counts |-> [action_selected |-> 2, test_completed |-> 2, feedback_produced |-> 2,
               terminal_status |-> 1],
   transitions |-> {<<"action_selected", "test_completed">>,
                    <<"test_completed", "feedback_produced">>,
                    <<"feedback_produced", "action_selected">>,
                    <<"feedback_produced", "terminal_status">>},
   terminal |-> "succeeded", maxEvents |-> 7]

DeniedContract ==
  [counts |-> [action_selected |-> 1, policy_decision |-> 1, terminal_status |-> 1],
   transitions |-> {<<"action_selected", "policy_decision">>,
                    <<"policy_decision", "terminal_status">>},
   terminal |-> "stopped", maxEvents |-> 3]

PauseContract ==
  [counts |-> [action_selected |-> 1, terminal_status |-> 1],
   transitions |-> {<<"action_selected", "terminal_status">>},
   terminal |-> "paused_for_human", maxEvents |-> 2]

OfType(events, type) == {i \in DOMAIN events : events[i].type = type}

(* ScenarioTraceContract.validate: shapes and the terminal status; what the *)
(* other events say is not looked at.                                       *)
Validate(contract, events) ==
  /\ Len(events) <= contract.maxEvents
  /\ \A t \in DOMAIN contract.counts : Cardinality(OfType(events, t)) = contract.counts[t]
  /\ \A i \in 1 .. (Len(events) - 1) :
       <<events[i].type, events[i + 1].type>> \in contract.transitions
  /\ OfType(events, "terminal_status") = {Len(events)}
  /\ Last(events).code = contract.terminal

-----------------------------------------------------------------------------
(* The fixed scenarios.  A scripted action is a request for a human or a    *)
(* patch, of which only what the policy sees matters.                       *)
OneFile(kinds) ==
  [files |-> <<[kinds |-> kinds, operation |-> "modify", unsafe |-> {}]>>,
   lines |-> 2, bytes |-> 110]

SourcePatch == PolicyFactsFromPrepared(OneFile({"python"}), "real")
TestPatch   == PolicyFactsFromPrepared(OneFile({"python", "in_tests"}), "real")

Patch(facts) == [type |-> "apply_patch", facts |-> facts]
AskHuman     == [type |-> "request_human", facts |-> NoFacts]

Scenarios ==
  [feedback_success   |-> [script |-> <<Patch(SourcePatch), Patch(SourcePatch)>>,
                           maxActions |-> 2, expected |-> "succeeded",
                           contract |-> SuccessContract],
   governance_denied  |-> [script |-> <<Patch(TestPatch)>>,
                           maxActions |-> 1, expected |-> "stopped",
                           contract |-> DeniedContract],
   human_review_pause |-> [script |-> <<AskHuman>>,
                           maxActions |-> 1, expected |-> "paused_for_human",
                           contract |-> PauseContract]]
=================================================================================
