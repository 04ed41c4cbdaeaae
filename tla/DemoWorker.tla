------------------------------- MODULE DemoWorker -------------------------------
(***************************************************************************)
(* One run of the demo worker, run of web/worker.py: it prepares a          *)
(* repository, lets the decision loop of HarnessCore work on it with a      *)
(* scripted model, turns the saved session into a trace, checks it and      *)
(* writes it to worker-result.json, which _read_worker_result of            *)
(* web/run_service.py checks again before the page shows it.                *)
(***************************************************************************)
EXTENDS HarnessCore, DemoTrace

CONSTANTS
  NoFile,    \* there is no worker-result.json
  Torn       \* its writing was cut short

ASSUME ScriptedPatchesAssumption == {SourcePatch, TestPatch} \subseteq Patches

VARIABLES
  scenario,  \* the scenario of worker-config.json
  at,        \* where run is
  exit,      \* how the worker ended
  read,      \* entries of the history the trace has events for
  built,     \* those events
  file,      \* worker-result.json
  shown,     \* the trace the service answers with
  base       \* content of the worktree at its creation

workerVars == <<scenario, at, exit, read, built, file, shown, base, vars>>

Plan == Scenarios[scenario]

(* What the models of web/trace.py take: an event by its type, with a code  *)
(* of that type, and a result.                                              *)
Events ==
  [type : {"action_selected"}, code : ActionKinds]
    \cup [type : {"policy_decision"}, code : Reasons]
    \cup [type : {"test_completed"}, code : RunOutcomes]
    \cup [type : {"feedback_produced"}, code : FeedbackCodes]
    \cup [type : {"terminal_status"}, code : Statuses]

WorkerResults ==
  [scenario : DOMAIN Scenarios, events : Seq(Events), terminal : Statuses]

ASSUME NoFileAssumption == NoFile \notin WorkerResults /\ Torn \notin WorkerResults

(* The task has the budget of its scenario.                                 *)
WorkerInit ==
  /\ scenario \in DOMAIN Scenarios
  /\ at = "prepare"
  /\ exit = "none"
  /\ read = 0
  /\ built = << >>
  /\ file = NoFile
  /\ shown = NoFile
  /\ Init
  /\ MaxActions = Plan.maxActions
  /\ base = revision

-----------------------------------------------------------------------------
(* The request's paths and config, the repository, the runtime, and its     *)
(* worktree.                                                                *)
PrepareRepository ==
  /\ at = "prepare"
  /\ at' = "loop"
  /\ UNCHANGED <<scenario, exit, read, built, file, shown, base, vars>>

(* ScriptedMockLLM.generate: the next action, as long as there is one.      *)
ScriptLeft == llmCalls < Len(Plan.script)

Scripted(action) ==
  \/ action.type = "request_human" /\ RequestHuman
  \/ action.type = "apply_patch" /\
       \/ PatchPrepareFailed
       \/ PolicyDeny(action.facts)
       \/ RequireApproval(action.facts)
       \/ DispatchPatch(action.facts)

(* What of the loop such a script can reach.  An exception is a Raise.      *)
LoopStep ==
  \/ Load
  \/ BudgetExhausted
  \/ ScriptLeft /\ Scripted(Plan.script[llmCalls + 1])
  \/ \E outcome \in {"applied", "conflict", "apply_failed"} : ApplyPatch(outcome)
  \/ ApplyPatchUnknown
  \/ pc = "test" /\ \E raw \in RawRuns : TestsDrifted(raw) \/ TestsParsed(raw)

RunLoop ==
  /\ at = "loop"
  /\ LoopStep
  /\ UNCHANGED <<scenario, at, exit, read, built, file, shown, base>>

-----------------------------------------------------------------------------
(* What the saved history says of an entry.  The runs it has are those that *)
(* became results, in order; one more, the last, may have ended the loop    *)
(* by a drift, and its output was then read without a verdict.              *)
FullRuns(i) == Cardinality({j \in 1 .. i : stored.history[j] = "full_test"})

ActionOf(i) == Plan.script[Cardinality({j \in 1 .. i : stored.history[j] # "full_test"})]

SafeResult(i, drifted) ==
  IF stored.history[i] = "full_test"
    THEN IF FullRuns(i) \in DOMAIN stored.results
           THEN stored.results[FullRuns(i)].outcome ELSE drifted
  ELSE IF stored.history[i] = "policy_deny" THEN Evaluate(ActionOf(i).facts).reason
  ELSE "done"

Drifted == {"failed", "collection_error", "unparseable"}

Entry(i, drifted) == [action |-> stored.history[i], result |-> SafeResult(i, drifted)]

(* The loop is over, and the worker has the session it saved.               *)
Tracing == at = "loop" /\ pc = "idle"

Fail ==
  /\ at' = "exited"
  /\ exit' = "failed"
  /\ UNCHANGED <<scenario, read, built, shown, base>>

(* One turn of the loop of _build_trace_events.                             *)
ReadEntry(drifted) ==
  /\ Tracing
  /\ read < Len(stored.history)
  /\ Mappable(Entry(read + 1, drifted))
  /\ built' = built \o EntryEvents(Entry(read + 1, drifted), built)
  /\ read' = read + 1
  /\ UNCHANGED <<scenario, at, exit, file, shown, base, vars>>

EntryRefused(drifted) ==
  /\ Tracing
  /\ read < Len(stored.history)
  /\ ~Mappable(Entry(read + 1, drifted))
  /\ Fail
  /\ UNCHANGED <<file, vars>>

(* Mutant of Faithful: the worker leaves the contract to the service.       *)
FaithfulUnchecked(events) == stored.status = Plan.expected

Faithful(events) ==
  /\ Validate(Plan.contract, events)
  /\ stored.status = Plan.expected
  /\ Last(events).code = stored.status

Trace == Append(built, Event("terminal_status", stored.status))

(* The worker writes the result of a session that is as its scenario wants. *)
WriteResult ==
  /\ Tracing
  /\ read = Len(stored.history)
  /\ Faithful(Trace)
  /\ file' = [scenario |-> scenario, events |-> Trace, terminal |-> stored.status]
  /\ at' = "written"
  /\ UNCHANGED <<scenario, exit, read, built, shown, base, vars>>

TraceRefused ==
  /\ Tracing
  /\ read = Len(stored.history)
  /\ ~Faithful(Trace)
  /\ Fail
  /\ UNCHANGED <<file, vars>>

Exit ==
  /\ at = "written"
  /\ at' = "exited"
  /\ exit' = "ok"
  /\ UNCHANGED <<scenario, read, built, file, shown, base, vars>>

(* What a worker that is cut short leaves: the file, created exclusively,   *)
(* may be there in part while it is written, and stays once it is.          *)
LeftBehind ==
  IF Tracing /\ read = Len(stored.history) THEN {NoFile, Torn} ELSE {file}

(* Any exception, a script that has run out among them, ends the worker     *)
(* with code 1; a kill ends it as well.                                     *)
Raise(left) ==
  /\ at # "exited"
  /\ left \in LeftBehind
  /\ IF at = "loop" /\ pc # "idle" THEN Crash ELSE UNCHANGED vars
  /\ file' = left
  /\ Fail

-----------------------------------------------------------------------------
(* _read_worker_result: the file must decode, be of the scenario, short,    *)
(* and keep the contract.  The worker's exit code is not looked at.         *)
Readable ==
  /\ file \in WorkerResults
  /\ file.scenario = scenario
  /\ Len(file.events) <= 64
  /\ file.terminal = Plan.expected
  /\ file.terminal = Plan.contract.terminal
  /\ Validate(Plan.contract, file.events)
  /\ Last(file.events).code = file.terminal

ReadWorkerResult ==
  /\ at = "exited"
  /\ Readable
  /\ shown' = file.events
  /\ UNCHANGED <<scenario, at, exit, read, built, file, base, vars>>

-----------------------------------------------------------------------------
Work ==
  \/ PrepareRepository
  \/ RunLoop
  \/ \E drifted \in Drifted : ReadEntry(drifted) \/ EntryRefused(drifted)
  \/ WriteResult
  \/ TraceRefused
  \/ Exit

WorkerNext == Work \/ (\E left \in LeftBehind : Raise(left)) \/ ReadWorkerResult

WorkerSpec == WorkerInit /\ [][WorkerNext]_workerVars

-----------------------------------------------------------------------------
(* Type invariant.                                                          *)
WorkerTypeOK ==
  /\ scenario \in DOMAIN Scenarios
  /\ at \in {"prepare", "loop", "written", "exited"}
  /\ exit \in {"none", "ok", "failed"}
  /\ exit # "none" <=> at = "exited"
  /\ read \in 0 .. Len(stored.history)
  /\ base \in Revisions
  /\ built \in Seq(Events)
  /\ file \in WorkerResults \cup {NoFile, Torn}
  /\ shown \in Seq(Events) \cup {NoFile}

(* The sequences the design document has for the three scenarios.           *)
Designed ==
  [feedback_success |->
     << Event("action_selected", "apply_patch"), Event("test_completed", "failed"),
        Event("feedback_produced", "initial_failure"),
        Event("action_selected", "apply_patch"), Event("test_completed", "passed"),
        Event("feedback_produced", "passed"), Event("terminal_status", "succeeded") >>,
   governance_denied |->
     << Event("action_selected", "apply_patch"),
        Event("policy_decision", "test_asset_protection"),
        Event("terminal_status", "stopped") >>,
   human_review_pause |->
     << Event("action_selected", "request_human"),
        Event("terminal_status", "paused_for_human") >>]

(* The page shows the designed sequence, code by code, or no trace at all.  *)
(* The contract only counts types and compares neighbours: that a shown run *)
(* failed first and passed last, and which codes it shows, follows from the *)
(* order in which the loop ends a task (trace.py:109-145, harness.py:157).  *)
ShownAsDesigned == shown # NoFile => shown = Designed[scenario]

(* What the page shows happened: a shown failure is a result that names     *)
(* one, a shown success is a genuine pass of the content the worktree has,  *)
(* and a denied or paused scenario left the worktree as it was and ran      *)
(* nothing (worker.py:240-306).                                             *)
ShownIsTrue ==
  shown # NoFile =>
    IF scenario = "feedback_success"
      THEN /\ stored.results[1].outcome \in {"failed", "collection_error"}
           /\ green = revision /\ ~unreviewed
      ELSE revision = base /\ stored.results = << >>

(* The worker's verdict is the service's: a result written by a worker that *)
(* exits with 0 is never refused (worker.py:472-490, run_service.py:557).   *)
VerdictStands == exit = "ok" => Readable

(* The scripted model is never asked for an action it does not have: the    *)
(* budget of each scenario stops the loop first (scenarios.py:206-256,      *)
(* scripted_mock.py:14-19).                                                 *)
ScriptSuffices == pc = "generate" => ScriptLeft
=================================================================================
