------------------------------- MODULE HarnessCore ------------------------------
(***************************************************************************)
(* One task of the decision loop, HarnessCore.step and HarnessCore.run of   *)
(* core/harness.py, with ApplicationService.resume_task and the effects of  *)
(* the executors on the task's worktree.                                    *)
(*                                                                          *)
(* A step is not atomic: the model is asked, a patch is written and pytest  *)
(* runs between the load and the save of the session, and an exception or   *)
(* a crash in between loses everything that was not saved.  The model       *)
(* therefore keeps the saved session (stored) apart from the copy a step    *)
(* works on (session).                                                      *)
(***************************************************************************)
EXTENDS PytestRun, PatchPolicy

CONSTANTS
  Limits,         \* budgets a loop may be built with (40 and 8 by default)
  Revisions,      \* contents the worktree can have
  TestIds,        \* pytest node ids
  Details,        \* failure details (exception, summary, frames)
  CutDetails,     \* those whose summary is cut behind a blank
  ControlDetails, \* those whose summary has a control character
  Texts,          \* outputs a pytest process may leave
  Patches,        \* policy facts of the patches the model may propose
  NoResult,       \* previous_result is None
  NoDetail,       \* the detail of a result that names no failure
  NoRevision      \* no full run has passed yet

ASSUME LimitsAssumption ==
  Limits \subseteq [actions : Nat \ {0}, feedback : Nat \ {0}]

ASSUME TextsAssumption ==
  Texts \subseteq [failed : SUBSET TestIds, collecting : BOOLEAN,
                   passed : BOOLEAN, blank : BOOLEAN, detail : Details]

ASSUME PatchesAssumption == Patches \subseteq PolicyFacts

ASSUME NoRevisionAssumption == NoRevision \notin Revisions

VARIABLES
  limits,      \* max_actions and max_feedback of this loop
  stored,      \* the session the store holds
  session,     \* the copy the running step works on
  pc,          \* where the loop is
  phase,       \* phase of the test run under way, or "none"
  revision,    \* content of the worktree
  llmCalls,    \* answers asked of the model since the task was created
  unreviewed,  \* a patch wrote to the worktree and neither a full run nor a human followed
  green        \* worktree content of the latest genuine full pass

vars ==
  <<limits, stored, session, pc, phase, revision, llmCalls, unreviewed, green>>

MaxActions  == limits.actions
MaxFeedback == limits.feedback

Statuses ==
  {"deciding", "awaiting_approval", "paused_for_human", "succeeded", "stopped"}

HistoryTags ==
  {"protocol_error", "request_human", "patch_prepare_failed", "policy_deny",
   "inspect", "run_diagnostic", "run_tests", "apply_patch", "full_test"}

Results ==
  [phase : Phases, outcome : ParsedOutcomes, nodes : SUBSET TestIds,
   detail : Details \cup {NoDetail}, rev : Revisions]

ASSUME NoResultAssumption == NoResult \notin Results

Sessions ==
  [status : Statuses, actions : Nat, feedback : Nat,
   previous : Results \cup {NoResult}, results : Seq(Results),
   history : Seq(HistoryTags)]

-----------------------------------------------------------------------------
(* Helpers of the step.                                                     *)

Log(s, tag) == [s EXCEPT !.history = Append(@, tag)]

WithStatus(s, status) == [s EXCEPT !.status = status]

(* model_copy(action_count + 1), right after llm.generate.                  *)
Answered == [session EXCEPT !.actions = @ + 1]

(* session_store.save, and what run does with the outcome of the step: it   *)
(* loops while the task is deciding.                                        *)
Commit(s) ==
  /\ stored' = s
  /\ session' = s
  /\ pc' = IF s.status = "deciding" THEN "load" ELSE "idle"
  /\ phase' = "none"

(* The history gets the refusal; the last action of the budget stops the    *)
(* task in the same step.                                                   *)
Refuse(tag) ==
  LET s == Log(Answered, tag) IN
    Commit(IF s.actions >= MaxActions THEN WithStatus(s, "stopped") ELSE s)

(* A test result becomes the previous one and enters the result history,    *)
(* whatever its outcome.                                                    *)
Record(s, r) ==
  [s EXCEPT !.previous = r, !.results = Append(@, r), !.feedback = @ + 1]

(* Mutant of GateStatus: a focused pass is a success too.                   *)
GateStatusAnyPhase(s, kind) ==
  IF kind = "passed" THEN "succeeded"
  ELSE IF kind \in {"loop", "no_progress"} THEN "stopped"
  ELSE IF kind \in {"environment_error", "unparseable"} THEN "paused_for_human"
  ELSE IF s.feedback >= MaxFeedback THEN "stopped"
  ELSE "deciding"

(* _feedback_gate; kind is "first" when there was nothing to compare with.  *)
GateStatus(s, kind) ==
  IF kind = "passed" /\ phase # "focused" THEN "succeeded"
  ELSE IF kind \in {"loop", "no_progress"} THEN "stopped"
  ELSE IF kind \in {"environment_error", "unparseable"} THEN "paused_for_human"
  ELSE IF s.feedback >= MaxFeedback THEN "stopped"
  ELSE "deciding"

FirstComparison(r) == session.previous = NoResult /\ r.outcome # "passed"

KindOf(r) ==
  IF FirstComparison(r) THEN "first"
  ELSE Analyze(session.previous, r, session.results)

-----------------------------------------------------------------------------
(* A new task: run_session saves a fresh deciding session and starts the    *)
(* loop.                                                                    *)
Init ==
  /\ limits \in Limits
  /\ stored = [status |-> "deciding", actions |-> 0, feedback |-> 0,
               previous |-> NoResult, results |-> << >>, history |-> << >>]
  /\ session = stored
  /\ pc = "load"
  /\ phase = "none"
  /\ revision \in Revisions
  /\ llmCalls = 0
  /\ unreviewed = FALSE
  /\ green = NoRevision

(* Mutant of WithinBudget: one action and one round too many.               *)
WithinBudgetInclusive ==
  stored.actions <= MaxActions /\ stored.feedback <= MaxFeedback

(* The step loads the session; both budgets are checked before the model is *)
(* asked.  (The not_deciding return needs a second executor: with one, the  *)
(* loop only comes here while the task is deciding.)                        *)
WithinBudget ==
  stored.actions < MaxActions /\ stored.feedback < MaxFeedback

Load ==
  /\ pc = "load"
  /\ WithinBudget
  /\ session' = stored
  /\ pc' = "generate"
  /\ UNCHANGED <<limits, stored, phase, revision, llmCalls, unreviewed, green>>

(* Mutant of BudgetExhausted: the status is not changed.                    *)
BudgetExhaustedStays ==
  /\ pc = "load"
  /\ ~WithinBudget
  /\ Commit(stored)
  /\ UNCHANGED <<limits, revision, llmCalls, unreviewed, green>>

BudgetExhausted ==
  /\ pc = "load"
  /\ ~WithinBudget
  /\ Commit(WithStatus(stored, "stopped"))
  /\ UNCHANGED <<limits, revision, llmCalls, unreviewed, green>>

-----------------------------------------------------------------------------
(* The model answers; one action per way the answer is handled.             *)
Asked ==
  /\ pc = "generate"
  /\ llmCalls' = llmCalls + 1
  /\ UNCHANGED <<limits, revision, unreviewed, green>>

ProtocolError == Asked /\ Refuse("protocol_error")

RequestHuman ==
  Asked /\ Commit(WithStatus(Log(Answered, "request_human"), "paused_for_human"))

(* The diff does not parse against the worktree, or a safety fact cannot be *)
(* established.                                                             *)
PatchPrepareFailed == Asked /\ Commit(Log(Answered, "patch_prepare_failed"))

PolicyDeny(f) ==
  /\ Asked
  /\ Evaluate(f).outcome = "deny"
  /\ Refuse("policy_deny")

RequireApproval(f) ==
  /\ Asked
  /\ Evaluate(f).outcome = "require_approval"
  /\ Commit(WithStatus(Answered, "awaiting_approval"))

(* An allowed action goes on to its executor with nothing saved.            *)
Dispatch(f, executor, testPhase) ==
  /\ Asked
  /\ Evaluate(f).outcome = "allow"
  /\ session' = Answered
  /\ pc' = executor
  /\ phase' = testPhase
  /\ UNCHANGED stored

DispatchPatch(f) == Dispatch(f, "apply", "none")

DispatchTool == Dispatch(NoFacts, "tool", "none")

DispatchTests(testPhase) == Dispatch(NoFacts, "test", testPhase)

-----------------------------------------------------------------------------
(* execute for the reading tools and for diagnostics, whose linters may     *)
(* leave caches behind.                                                     *)
UseTool(tag) ==
  /\ pc = "tool"
  /\ tag \in {"inspect", "run_diagnostic"}
  /\ revision' \in IF tag = "run_diagnostic" THEN Revisions ELSE {revision}
  /\ Commit(Log(session, tag))
  /\ UNCHANGED <<limits, llmCalls, unreviewed, green>>

(* A tool result longer than the 8192 characters a SafeHistoryEntry may     *)
(* hold: building the entry raises, and the step ends without a save.       *)
ToolResultTooLong ==
  /\ pc = "tool"
  /\ pc' = "idle"
  /\ session' = stored
  /\ UNCHANGED <<limits, stored, phase, revision, llmCalls, unreviewed, green>>

(* Mutant of ApplyPatch: saved like any tool result, the tests forgotten.   *)
ApplyPatchUntested(outcome) ==
  /\ pc = "apply"
  /\ outcome \in {"applied", "conflict", "apply_failed"}
  /\ revision' \in IF outcome = "conflict" THEN {revision} ELSE Revisions
  /\ unreviewed' = TRUE
  /\ Commit(Log(session, "apply_patch"))
  /\ UNCHANGED <<limits, llmCalls, green>>

(* execute_patch with a decided outcome (written, refused for a conflict,   *)
(* or failed and rolled back, possibly leaving temporary files): the full   *)
(* test run follows whichever it was.                                       *)
ApplyPatch(outcome) ==
  /\ pc = "apply"
  /\ outcome \in {"applied", "conflict", "apply_failed"}
  /\ revision' \in IF outcome = "conflict" THEN {revision} ELSE Revisions
  /\ unreviewed' = TRUE
  /\ session' = Log(session, "apply_patch")
  /\ pc' = "test"
  /\ phase' = "post_patch"
  /\ UNCHANGED <<limits, stored, llmCalls, green>>

(* The compensation could not put every file back.                          *)
ApplyPatchUnknown ==
  /\ pc = "apply"
  /\ revision' \in Revisions
  /\ unreviewed' = TRUE
  /\ Commit(WithStatus(session, "paused_for_human"))
  /\ UNCHANGED <<limits, llmCalls, green>>

-----------------------------------------------------------------------------
(* The test run of a run_tests action, or the mandatory one after a patch.  *)
RawRuns ==
  [launch : LaunchStatuses, clean : BOOLEAN, truncated : BOOLEAN,
   text : Texts, before : {revision}, after : Revisions]

WellFormed(raw) == NoCode(raw) => ~raw.clean

(* What a full pass is, read off the process itself.                        *)
GenuinePass(raw) ==
  /\ raw.launch = "completed" /\ raw.clean /\ ~raw.truncated
  /\ raw.text.passed /\ raw.text.failed = {} /\ ~raw.text.collecting
  /\ raw.before = raw.after

Tested(raw) ==
  /\ pc = "test"
  /\ WellFormed(raw)
  /\ revision' = raw.after
  /\ green' = IF phase # "focused" /\ GenuinePass(raw) THEN raw.after ELSE green
  /\ unreviewed' = IF phase = "focused" THEN unreviewed ELSE FALSE
  /\ UNCHANGED <<limits, llmCalls>>

(* Mutant of WithRunLogged: every run is logged as a requested one.         *)
WithRunLoggedAlike == Log(session, "run_tests")

WithRunLogged ==
  Log(session, IF phase = "post_patch" THEN "full_test" ELSE "run_tests")

(* unknown_outcome is looked at for run_tests only, before anything is      *)
(* logged.                                                                  *)
UndecidedRun(raw) == phase # "post_patch" /\ Classify(raw) = "unknown_outcome"

(* ParsedTestResult does not take a summary with a blank at its end, which  *)
(* is where normalize_summary may cut it.                                   *)
ParsedRefused(raw) ==
  raw.text.detail \in CutDetails /\ ParsedOutcome(raw, Classify(raw)) = "failed"

(* FeedbackDecision does not take a control character, which                *)
(* ParsedTestResult does: nothing is refused before there is something to   *)
(* compare with.                                                            *)
DecisionRefused(raw) ==
  /\ raw.text.detail \in ControlDetails
  /\ Classify(raw) # "workspace_drift"
  /\ LET r == ParsePytest(raw, phase, NoDetail) IN
       r.outcome = "failed" /\ ~FirstComparison(r)

Refused(raw) == ParsedRefused(raw) \/ DecisionRefused(raw)

TestsUnknown(raw) ==
  /\ Tested(raw)
  /\ UndecidedRun(raw)
  /\ Commit(WithStatus(session, "paused_for_human"))

TestsDrifted(raw) ==
  /\ Tested(raw)
  /\ Classify(raw) = "workspace_drift"
  /\ ~Refused(raw)
  /\ Commit(WithStatus(WithRunLogged, "paused_for_human"))

TestsParsed(raw) ==
  /\ Tested(raw)
  /\ ~UndecidedRun(raw)
  /\ Classify(raw) # "workspace_drift"
  /\ ~Refused(raw)
  /\ LET r == ParsePytest(raw, phase, NoDetail)
         s == Record(WithRunLogged, r)
     IN  Commit(WithStatus(s, GateStatus(s, KindOf(r))))

(* An exception after the run: of the patch and the run nothing is saved.   *)
Unsaved ==
  /\ pc' = "idle"
  /\ session' = stored
  /\ phase' = "none"
  /\ UNCHANGED <<limits, stored, llmCalls, unreviewed, green>>

TestsRefused(raw) ==
  /\ pc = "test"
  /\ WellFormed(raw)
  /\ Refused(raw)
  /\ revision' = raw.after
  /\ Unsaved

(* TestRun does not take a run that ended before it began, by a wall clock  *)
(* set back meanwhile; the rest of its contract every run keeps (theorem    *)
(* RunsAreValid).                                                           *)
TestsMisdated ==
  /\ pc = "test"
  /\ revision' \in Revisions
  /\ Unsaved

-----------------------------------------------------------------------------
(* A crash, or an exception no one handles: what the executor was writing   *)
(* may be half done, a request to the model may have been spent, and        *)
(* nothing is saved.                                                        *)
Crash ==
  /\ pc # "idle"
  /\ pc' = "idle"
  /\ session' = stored
  /\ phase' = "none"
  /\ revision' \in IF pc \in {"apply", "tool", "test"} THEN Revisions ELSE {revision}
  /\ llmCalls' \in IF pc = "generate" THEN {llmCalls, llmCalls + 1} ELSE {llmCalls}
  /\ unreviewed' = (unreviewed \/ pc = "apply")
  /\ UNCHANGED <<limits, stored, green>>

(* Mutant of Resume: any task that is not deciding may be resumed.          *)
ResumeAny ==
  /\ pc = "idle"
  /\ stored.status # "deciding"
  /\ Commit(WithStatus(stored, "deciding"))
  /\ unreviewed' = FALSE
  /\ UNCHANGED <<limits, revision, llmCalls, green>>

(* ApplicationService.resume_task, on a human's request.                    *)
Resume ==
  /\ pc = "idle"
  /\ stored.status = "paused_for_human"
  /\ Commit(WithStatus(stored, "deciding"))
  /\ unreviewed' = FALSE
  /\ UNCHANGED <<limits, revision, llmCalls, green>>

-----------------------------------------------------------------------------
Answer ==
  \/ ProtocolError
  \/ RequestHuman
  \/ PatchPrepareFailed
  \/ \E f \in Patches : PolicyDeny(f) \/ RequireApproval(f) \/ DispatchPatch(f)
  \/ DispatchTool
  \/ \E testPhase \in {"focused", "requested_full"} : DispatchTests(testPhase)

Execute ==
  \/ \E tag \in HistoryTags : UseTool(tag)
  \/ ToolResultTooLong
  \/ \E outcome \in {"applied", "conflict", "apply_failed"} : ApplyPatch(outcome)
  \/ ApplyPatchUnknown
  \/ pc = "test" /\ \E raw \in RawRuns :
       TestsUnknown(raw) \/ TestsDrifted(raw) \/ TestsParsed(raw) \/ TestsRefused(raw)
  \/ TestsMisdated

Step == Load \/ BudgetExhausted \/ Answer \/ Execute

Next == Step \/ Crash \/ Resume

Spec == Init /\ [][Next]_vars

(* Every call a step makes is bounded: the provider request has a timeout,  *)
(* the launcher kills what overruns, the rest is local work.  A running     *)
(* loop therefore keeps taking steps; nobody has to crash or to resume.     *)
FairSpec == Spec /\ WF_vars(Step)

-----------------------------------------------------------------------------
(* Type invariant.                                                          *)
TypeOK ==
  /\ limits \in Limits
  /\ stored \in Sessions
  /\ session \in Sessions
  /\ pc \in {"idle", "load", "generate", "apply", "tool", "test"}
  /\ phase \in Phases \cup {"none"}
  /\ pc = "test" => phase \in Phases
  /\ revision \in Revisions
  /\ llmCalls \in Nat
  /\ unreviewed \in BOOLEAN
  /\ green \in Revisions \cup {NoRevision}

(* A task only succeeds on a genuine full pass (process completed with code *)
(* 0, complete output that names no failure, no drift) of exactly the       *)
(* content the worktree has now: whatever was patched, crashed or resumed   *)
(* on the way (harness.py:166, pytest_runner.py:104-115, pytest_parser.py). *)
SuccessIsEarned ==
  stored.status = "succeeded" => green = revision /\ ~unreviewed

(* Neither budget is ever overdrawn, counted in requests really made to the *)
(* model and results really recorded, across crashes and resumes            *)
(* (harness.py:89, 104, 131, 174).                                          *)
BudgetsHold ==
  /\ llmCalls <= MaxActions
  /\ Len(stored.results) <= MaxFeedback

(* The model never decides on a worktree a patch wrote to, unless a full    *)
(* test run or a human came in between (harness.py:140-146).                *)
NoBlindDecision == pc = "generate" => ~unreviewed

(* In the saved history the full test run follows every patch at once: no   *)
(* save separates the two (harness.py:143-146).                             *)
PatchesAreTested ==
  \A i \in DOMAIN stored.history :
    stored.history[i] = "apply_patch" =>
      i < Len(stored.history) /\ stored.history[i + 1] = "full_test"

(* While a task can go on, its failing results never repeat a state: a      *)
(* fingerprint comes back only in the next result, after the worktree has   *)
(* changed (engine.py:23-36, harness.py:168-171).                           *)
RepeatsStop ==
  stored.status \in {"deciding", "paused_for_human"} =>
    \A i, j \in DOMAIN stored.results :
      LET r == stored.results[i]
          q == stored.results[j]
      IN  i < j /\ Failing(q) /\ Fingerprint(r) = Fingerprint(q) =>
            j = i + 1 /\ r.rev # q.rev

(* Every run of the loop ends: the task leaves "deciding", or the run was   *)
(* cut short (harness.py:79-83).                                            *)
RunsEnd == pc # "idle" ~> pc = "idle"

(* The abstract lifecycle the specification document promises.               *)
Lifecycle == INSTANCE TaskLifecycle WITH
  Contents <- Revisions, Uncertified <- NoRevision,
  budget <- MaxActions, status <- stored.status, spent <- stored.actions,
  tree <- revision, certified <- green

(* Every saved step of the loop is a step of the abstract lifecycle         *)
(* (TaskLifecycle), and no unsaved one shows outside it.                    *)
ImplementsLifecycle == Lifecycle!Spec
=================================================================================
