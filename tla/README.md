# A TLA+ model of coding-agent-harness

This directory models the program in `src/src/coding_agent_harness`: a harness
that lets a language model repair a Python project under a budget, a policy and
mandatory test runs, and a small web server that runs fixed demonstrations of
it. Paths below are relative to `src/src/coding_agent_harness` unless they begin
with `SPEC.md`, `PLAN.md`, `docs/` or `tests/`, which are relative to `src/`.

Contents: [the system](#the-system) · [what is hard](#what-is-hard) ·
[modules](#modules) · [correspondence](#correspondence-with-the-code) ·
[runs](#runs) · [fairness](#fairness) · [proofs](#proofs) ·
[disagreements](#where-the-code-and-the-documents-disagree) ·
[not modelled](#what-is-not-modelled) · [plan](#plan) ·
[running it](#running-the-checks)

## The system

| Component | Code | State it keeps | Operations | Talks to |
|---|---|---|---|---|
| Decision loop | `core/harness.py`, `application/service.py` | the `CoreSession`: status, action and feedback counts, previous result, result history, action history | `run_session`, `resume_task`, `run`, `step` | session store (load, save), model client, policy, executor, test runner, feedback engine |
| Feedback engine | `feedback/engine.py`, `fingerprint.py`, `normalize.py` | none | `analyze` | called by the loop |
| Pytest runner and parser | `adapters/process/pytest_runner.py`, `feedback/pytest_parser.py`, `output.py` | none; artifacts on disk | `run`, `parse_pytest` | launcher, worktree |
| Subprocess launcher | `adapters/process/runner.py` | a process, two reader threads, two bounded buffers | `launch` | operating system |
| Policy engine | `security/policy.py`, `core/patch_policy.py` | none | `evaluate` | called by the loop |
| Patch applier | `patching/*.py` | the files of the worktree | `prepare`, `apply`, `rollback` | action executor |
| Action executor and tools | `adapters/runtime/action_executor.py`, `adapters/filesystem`, `adapters/git/readonly.py`, `adapters/process/diagnostic.py` | the worktree | `execute`, `execute_patch`, `run_action` | tools, applier, pytest runner |
| Session store and commands | `application/session_store.py`, `composition.py`, `cli/app.py` | tables `tasks` and `feedback_states` | `load`, `save`, `bind_workspace`; `run`, `status`, `resume` | SQLite, shared by processes |
| State store | `adapters/sqlite/*.py` | tables `tasks` (leases), `actions`, `approvals`, `execution_intents` | `acquire_lease`, `create_*`, `record_approval_decision`, `consume_approval`, `log_intent`, compare-and-set, `recover_inflight` | SQLite |
| Workspace | `adapters/git/worktree.py`, `application/preflight.py` | worktrees and branches | create, verify | git |
| Run service | `web/run_service.py`, `web/app.py` | the global run lock, request roots, the pending result | `start_scenario`, `run_scenario` | process boundary, file system |
| Process boundary | `web/process_boundary.py` | the worker's process group (POSIX) or Job Object (Windows) | `wait`, `terminate_tree`, `wait_for_root`, `confirm_termination`, `close` | operating system |
| Demo worker | `web/worker.py`, `web/trace.py`, `demo/*.py` | a workspace under the request root, `worker-result.json` | `run_worker` | runs the decision loop |
| Configuration | `config/*.py`, `adapters/config` | none | three layers merged by narrowing | commands |
| Context, memory, redaction | `core/context.py`, `core/memory.py`, `security/redaction.py`, `security/trust.py` | none | what the model is shown | model client |
| Model client, credentials, artifacts, approvals' hashes, HTTP hardening | `adapters/llm`, `adapters/credentials`, `adapters/artifacts`, `security/approvals.py`, `canonical.py`, `paths.py`, `web/security.py` | key ring, files | I/O and hashing | |

How they interact. A command (`run`, `resume`) opens the SQLite database, loads
or creates a session and hands the task to the loop. Each iteration of the loop
loads the session, asks the model for one action, lets the policy judge it,
executes it, and saves the session **once**, at its end. An executed patch is
followed by a mandatory full test run before anything is saved. The feedback
engine compares the parsed result with the previous one and the history; the
gate turns the comparison into a status. Several commands may run at once in
separate processes; all they share is the database and the worktree. The web
server runs the same loop in a worker process which it supervises with a
deadline, kills as a group, and whose directory it deletes.

What makes each correct: the loop never reports a success its worktree did not
earn, never overspends, never decides on unreviewed content, and ends; the
applier's answer tells the state of the files; the stores agree with themselves
under any interleaving; the service never deletes a directory under a living
group and never leaves something behind in silence.

## What is hard

* **One save per step.** Everything between the model's answer and the save is
  lost in a crash or an exception, while the worktree keeps it.
* **Statement-level interleaving.** A load is two autocommit statements, a save
  is one statement and a transaction; sessions are written back long after they
  were read, and `acquire_lease` judges by a clock it read before it waited.
* **Compensation.** A patch of several files fails half way; its compensation
  reads and writes files too, may fail itself, and shares the files with others.
* **Processes.** The worker's leader may be reaped while its children live; a
  pytest run leaves the process group; signals, exits and deadlines race.
* **Two threads and a pipe.** A launch returns while its drain threads may still
  read, because a descendant keeps a pipe open; what it then takes is a race.
* **A repository that moves.** A command reads HEAD, the status and the user's
  configuration in separate calls of git and of the file system.
* **Verdict order.** A result can be a pass, a repetition, the last round of the
  budget and an unreliable run at once; which rule wins is a matter of order.

`PROJECT.json` lists every hazard at its line, with the properties that would
catch it, or the reason why none does.

## Modules

| Module | Models | Kind |
|---|---|---|
| `FeedbackEngine` | comparison and fingerprint of test results | pure operators |
| `PytestRun` | classification of a finished process, parsing of its output | pure operators |
| `PatchPolicy` | the facts of a prepared patch and the ordered rule tables of the policy | pure operators |
| `TaskLifecycle` | what the loop promises about one task | abstract specification |
| `HarnessCore` | the decision loop, step by step, with crashes and resumes; uses the three operator modules; refines `TaskLifecycle` | state machine |
| `MCHarnessCore` | test outputs and prepared patches for TLC | model checking |
| `Launcher` | one `launch` with its main thread, two drain threads, their captures and the processes | state machine |
| `MCLauncher` | limits for TLC | model checking |
| `ConfigLayers` | the merge of the built-in, the user's and the repository's configuration | pure operators |
| `Workspace` | `run` and `resume` on a repository that moves: inspection, configuration, worktree, binding, validation | state machine |
| `MCWorkspace` | commits and layers for TLC | model checking |
| `SessionStore` | concurrent commands on one task, statement by statement | state machine |
| `StateStore` | leases, approvals, intents and recovery for several processes | state machine |
| `PatchApplier` | `apply` and `rollback` on the files of one patch, with failures, crashes and other writers | state machine |
| `RunService` | requests of the web server, its lock and roots, the POSIX boundary and the processes; refines `BoundaryContract` for the group of each worker | state machine |
| `DemoTrace` | the scenarios, the trace made of a history, the contract of a trace | pure operators |
| `DemoWorker` | one run of the demo worker: extends `HarnessCore` with a script, a trace and a result, and the reading of that result | state machine |
| `MCDemoWorker` | test outputs for TLC | model checking |
| `BoundaryContract` | what the service needs of the boundary around a worker | abstract specification |
| `WindowsBoundary` | the Job Object boundary, system call by system call, with its cleanups; refines `BoundaryContract` | state machine |
| `HarnessCore_proofs`, `Launcher_proofs`, `Workspace_proofs`, `SessionStore_proofs`, `StateStore_proofs`, `PatchApplier_proofs`, `RunService_proofs`, `WindowsBoundary_proofs` | theorems | proofs |

The modules meet at recorded outcomes rather than by one large product:
`HarnessCore` takes the outcomes of `PatchApplier` (`applied`, `conflict`,
`apply_failed`, `unknown_outcome`, and an exception as `Crash`); `SessionStore`
takes a whole step of `HarnessCore` as one action with any status; `RunService`
takes a worker, which runs the loop, as a process, and `DemoWorker` shows what the
worker does inside. `HarnessCore` takes any status and any text of a launcher,
`Launcher` shows what the one launcher does; `Workspace` has the statements of
`SessionStore` as single steps, since its commands come one after the other.
Each of these is an over-approximation of the component it stands for.

## Correspondence with the code

`PROJECT.json` `map` names the lines of every definition. The main points:

**HarnessCore.** `stored` is what `session_store` holds, `session` the object a
running `step` works on, `pc` where it is. `Load` is lines 85-98 of `step`,
with both budgets read from the loaded session; `Asked` is the request. There is
one action per way the answer is handled (protocol error, request for a human,
patch that cannot be prepared, denied, needing an approval, dispatched), and
`Commit` is the save together with what `run` does next. `ApplyPatch`
logs and goes on to the mandatory run *without* a commit, because the code saves
only once. `TestsUnknown`, `TestsDrifted` and `TestsParsed` are the three ends of
a run that is saved. A run whose verdict the domain models refuse is not
(`TestsRefused`, `TestsMisdated`): a summary cut behind a blank, a control
character in a failure that is compared with an earlier one, or a wall clock set
back. `Crash` stands for a crash and for every exception nobody handles: the
worktree may have any content, and `llmCalls` may have been spent.
`limits` are `max_actions` and `max_feedback` of the task, chosen at its start from the
constant `Limits` and never changed.
The ghost variables are `llmCalls` (requests really made), `green` (content of
the last genuine full pass, judged by the process's own facts and not by the
parser) and `unreviewed` (a patch wrote and neither a full run nor a human
followed). Contents of the worktree are model values; a test output is the few
facts `parse_pytest` looks for; a patch is the facts the policy looks at, which
`PolicyFactsFromPrepared` reads off a prepared patch. Of a path only the kinds
the code looks for are kept (`PathKinds`): under `tests/`, another test asset,
sensitive, protected, dependency, Python. What text `prepare` refuses is
`PatchPrepareFailed`, which may always happen.

**Launcher.** `pc` follows `launch` and `_terminate_tree`; `at` is the stream of
the three last stages (join, read `_value`, read `truncated`), each of which runs
for stdout and then for stderr. A stream is the number of units written to it, a
capture the sequence of positions it kept, so that "head and tail of what was
written" can be said. `Read` returns `ReadSize` units or blocks until every writer
of the pipe is gone, as a read of a buffered pipe does. `Feed` and `Mark` are two
steps because `feed` assigns `_value` before `truncated` and nobody locks. A
process is in the child's group (`Members`) or left it by a session of its own
(`Strays`), and may have inherited the pipes. `joined` and `groupKilled` are
ghosts: the thread had ended at its join, the group's signal was sent.

**Workspace, ConfigLayers.** `pc` follows `run` and `resume` of the real runtime,
one action per git command or statement; between any two of them others move
HEAD, leave or clean changes and edit the user's configuration. The worktree is
only removed while no command works. There is one task and its commands come one
after the other; any of them may fail at every step. `tree` is the commit of the
worktree, `bound` the stored workspace. The hash of a frozen configuration is
compared in the code; the model compares what is hashed. `Frozen` follows
`resolve_config`: values and where they come from, `Conflict` the values it
refuses. A layer's fields are functions on the names it sets; timeout, paths,
commands and memory types are sets, empty when unset.

**SessionStore.** `pc` is the statement a process is at: `row` and `status` are
the two statements of `load`, `peek` the read of the workspace before
`BEGIN IMMEDIATE`, `write` the transaction, `bind` the statement of
`bind_workspace`. `goal` is what the load or save is for. A session is its status
and its action count: the two fields whose loss shows.

**StateStore.** `call` holds the `now` that `acquire_lease` reads before its
transaction; `AcquireLease` and `LeaseRefused` overlap where the query may
return any of several active leases, since it has no order. `lease_until` is
text in the schema; it is compared as text, which orders timestamps of ten
digits as numbers. A transaction that rolls back is no step. `job` is what the
caller does with a consumed approval or a logged intent; the runtime has no such
caller yet, so the sequence of calls is that of `tests/integration/sqlite`.
Clocks never go back in the model; the code reads the wall clock.

**PatchApplier.** `at` is the index of whichever loop runs, `changed` the length
of the list of files begun (a file is appended *before* it is written, so the
failed one is in it), `todo` the compensable files left. A file's content is told
relative to its plan: `old`, `new`, `absent`, `other`. Every call of the
operating system may fail; a failure outside the `try` block, or in the
compensation, is an exception (`Raise`). `Interfere` is anybody else writing in
the worktree; the code expects it (it compares hashes, and
`tests/integration/patching/test_compensation.py` checks it). A symbolic link at
the path counts as other content. The call without authorization does not occur:
`execute_patch` passes `True`.

**RunService.** `pc` follows `run_scenario`; `created`, `confirmed` and
`outcome` are its local variables; `attempt` is which of the termination attempts
runs. `worker` and `child` are operating-system processes: a child is `grouped`
until `setsid`, then `detached`. `killed` stops the members of the group from
forking. `Preferred` is the precedence table. `parent` and `root` are the
directories of the request. The actions of `Environment` are the processes' own.
`BoundaryPhase` and `Group` show `BoundaryContract` the boundary of a request: the
tree of the contract is what `killpg` reaches. A child that moves to a session of
its own leaves that tree, so the contract holds on POSIX of the group only, on
Windows of every process; the run `RunDescendants` shows the difference.

**DemoTrace, DemoWorker.** `DemoWorker` extends `HarnessCore`: a worker's task has
the budget of its scenario, and takes those steps of the loop the scripted model
allows; resumes do not occur, since a worker runs a task once. `at` is where
`run` of the worker is. `ReadEntry` is one turn of the loop of
`_build_trace_events`: `read` counts the entries of the saved history it has taken,
`built` is the events it has made of them (`EntryEvents`), and what it refuses
(`Mappable`) ends the worker (`EntryRefused`). `WriteResult` checks the contract
(`Faithful`) and writes. `file` is what `worker-result.json` holds (nothing, a part,
or a result), `shown` what `_read_worker_result` accepted. `Raise` is any
exception and any kill. The history of `HarnessCore` only has tags; the safe
results the worker reads are the outcomes of the recorded results, in order, and
for a last run that drifted, any its output may have (`Drifted`). A scripted patch
may also fail to apply or to parse, which over-approximates the fixed templates.
The sequence number of an event is its place.

**WindowsBoundary.** `pc` follows `create_boundary` through its three functions;
an action is a system call, or a cleanup as a whole, with the set of closes that
fail (`stuck`) and whether `TerminateProcess` works (`kills`) as parameters.
`handle` says what became of each handle, `"twice"` being a close of one that is
closed already; `held` is the attributes that are not `None`. A process started
inside a job is a member and cannot leave it (the flags that would allow that are
not set), so on Windows, unlike on POSIX, pytest and its children are seen;
`strays` would be the children of a worker that ran before it was in the job.
The cancelled-start path of `RunService` is modelled there.

## Runs

All runs but the liveness parts need no fairness. `CHECK_DEADLOCK FALSE` is said
everywhere because every one of these systems really stops: a task ends, a
command is over, `apply` and `launch` return, all requests are answered, time is
bounded.

| Run | Question | Bounds | Size |
|---|---|---|---|
| `CoreSafety` | Is a success earned, a budget kept, a patch tested, a repeated state stopped, a decision informed, does every run of the loop end, and does the loop implement `TaskLifecycle`? | 3 actions, 4 or 2 feedback rounds, 2 worktree contents, 7 outputs, 13 prepared patches | 272 thousand states, about 2.5 min |
| `LauncherSafety` | Does a capture keep the two ends, is a joined stream exact, is a result something that was written, does a timeout kill the group, do launches and threads end? | the child, a member of its group, a stray; limits 3 and 1, reads of 2, up to 5 and 2 units | 322 thousand states |
| `WorkspaceSafety` | Does the loop work as bound, under the layer of its own commit; is a crashed task left alone; does a repository only narrow? | 3 commits, 3 user files | 8424 states |
| `StoreSafety` | Do the tables agree, is work bound to a workspace, does every command end? | a creator and two more processes, 2 actions | 15 thousand states |
| `StateStoreSafety` | Are leases kept, effects started at most once, approvals consumed together with their intents? | 2 processes, 2 tasks, 1 action, lease of 1, time to 3 | 369 thousand states |
| `ApplierSafety` | Does an answer tell the state of all files? Is an unknown outcome always somebody else's doing? | 3 files, all 125 mixes of operations, any interference | 2.3 million states |
| `RunSafety` | Are deleted roots quiet, survivors and leaks reported, traces clean, requests answered, and does each POSIX boundary implement `BoundaryContract`? | 2 requests | 617 thousand states, about 2 min |
| `DemoSafety` | Does the page show the designed sequence, did it happen, do worker and service agree, does the script last? | the 3 scenarios with their own budgets, 4 outputs, 2 contents | 2244 states |
| `WindowsSafety` | Is every handle closed once, a failed start swept, a closed job doomed, and does the boundary implement `BoundaryContract`? | 2 children at once | 335 states |

The type invariant of every state machine is proved for all constants. A run
checks it where it says more than types, the lock of `RunService`.

Runs that end in a counterexample, each for one statement of a document or a
test that the code does not keep: `StoreStaleOverwrite`, `RunDescendants`,
`StateStoreTwoLeases` (see below).

Why the bounds are enough.

* *Loop.* Three actions are a failing run, a repair and a run more: enough for a
  comparison, a repetition right after and one with another state in between, a
  patch and its forced run, a crash inside and a resume after each. The feedback
  budget is above the action budget, where histories get long, or below it, where
  it is the one that stops the task. Two contents tell "changed" from
  "unchanged"; two tests give nested, equal and disjoint failure sets; the
  outputs take every branch of the parser and every refusal of a summary, and
  there is a patch for every rule of the policy that a real runtime can meet, those
  on sizes just beyond 5 files, 20 files and 300 lines.
* *Launcher.* An odd limit of 3 overflows more than once with 5 units in reads of
  2, so head, tail and mark all move; a limit of 1 has an empty head and overflows
  in its first read. One process inside the group and one outside tell what a
  signal reaches; both may hold the pipes.
* *Workspace.* HEAD at the first inspection, at the second and at the resume can
  be three commits. The layers of the commits conflict with, narrow, or leave
  alone those of the user; two user layers differ only in where values come from.
* *Store.* Lost updates need two writers and a creator that has not yet bound the
  workspace; the third process makes a command overtake one that overtook
  another. Two actions let one be taken back and spent again.
* *State store.* A second lease needs two tasks, two owners, and time to pass
  the end of a lease while a third reading is pending: with a lease of 1 that is
  time 2 or 3. The actions are independent of each other, so one is enough.
* *Applier.* With three files one is before, one at and one behind the failure,
  and a rollback of two can be cut between them.
* *Service.* Requests only share the lock; two show exclusion and a second run
  after any end of the first.
* *Worker.* The scenarios and their budgets are the program's own; the one test
  of a demo repository needs one test id, and the outputs take every branch of
  the parser.
* *Windows.* A tree differs from an empty one by its first child; the second
  shows that one may end while another lives. All failures of calls are taken.

The pass runs also check the deep part of each property on mutated code:
`PROJECT.json` `mutants` names, for each property of each run, a changed
definition (a dropped comparison, an off-by-one, a lost condition) under which
TLC finds the property violated. The mutants stand in the modules, each before
the definition it changes.

## Fairness

* `HarnessCore!FairSpec`: weak fairness of `Step`, not of `Crash` or `Resume`.
  A provider request has a timeout, a process is killed when it overruns, and
  the rest is local work, so a running loop keeps taking steps. `RunsEnd` then
  says it ends, by a status or by a crash.
* `SessionStore!FairSpec`: weak fairness of `Advance(p)` for every process. SQLite's
  busy timeout makes a waiting statement go on or fail (`Fail` is always possible).
  Nobody has to start a command.
* `Launcher!FairSpec`: weak fairness of the main thread and of each drain thread.
  Every call the main thread waits in has a timeout. Nothing is assumed of the
  processes: they may hang and hold the pipes for ever.
* `RunService!FairSpec`: weak fairness of `Service(r)` and of the clock
  (`Deadline(r)`). Every call of the service has a timeout of its own. Nothing is
  assumed of the processes, which may hang for ever, nor of clients; and
  `WaitFails`, an error raised by `wait`, is outside `Service(r)`, so a hang
  is never resolved by an error that need not happen.

## Proofs

TLAPS checks the following for every value of the constants (any number of
processes, requests, files, actions, any budget), under the named assumptions of
the modules, which TLC evaluates in every run: budgets are positive, texts and
patches are well-formed records, the patches of the demo scripts are among the
patches, nulls are not values.

**HarnessCore_proofs.** Inductive invariant `IInv == TypeOK /\ BudgetInv /\
ReviewInv /\ SuccessIsEarned`. `BudgetsHold` alone is not inductive: nothing in
it relates the running step's unsaved session to the saved one. `BudgetInv` says
where the request under way is accounted for (`llmCalls` is the saved count, plus
one while an executor runs) and that the copy differs from the saved session in
the count and history only. `ReviewInv` says that content is only unreviewed
while the loop is idle or inside the mandatory run. Two lemmas carry
`SuccessIsEarned`: the parser calls a run passed only if the process proves it
(`PassedIsGenuine`), and the gate succeeds only on a passed full phase
(`GateTyped`). Results: `TypeCorrectness`, `SuccessIsSound`, `BudgetsAreHard`,
`DecisionsAreInformed`, and `LifecycleIsImplemented`: every step maps to a step
of `TaskLifecycle` or to a stutter. Of the policy, `OnlyPlainPatchesPass` says which
prepared patches it allows, of any number of files; it rests on `Verdicts`, by
which a rule that denies wins over every rule that asks. `RunsAreValid` says that the contract of
`TestRun` refuses none of the runs the runner makes but for their dates, which is
why `TestsMisdated` is its only trace in the loop. Histories of any length have
an invariant each: `HistoryInv` for `PatchesAreAlwaysTested`
(the unsaved history is the saved one, plus the patch inside the mandatory run)
and `RepeatInv` for `RepeatsAlwaysStop` (while the task can go on, the previous result is the
last of the history, so the two rules of the engine, one that skips the last
entry and one that looks at nothing else, meet without a gap).

The same module proves the demo worker, whose loop is a task of `HarnessCore`:
`WorkerRunsTheLoop` (`WorkerSpec => Spec`) says that a script and a kill add no
behaviour, so whatever is proved of the loop holds inside the worker. The
inductive invariant is `WorkerInv == LoopInv /\ ScriptInv /\ StoryInv /\ TraceInv
/\ FileInv`. The contract of a trace cannot carry the proof: it counts event
types and compares neighbours, and does not see which patch was denied or which
run failed. `LoopInv` (`IInv`, `HistoryInv`, the scenario's budget) gives the order in
which a loop can end; `ScriptInv` what a script brings about, for which
`PolicyOnScripts` has the policy's verdict on the two scripted patches and
`ScriptedAnswers` the answers; `StoryInv` what a history can be if its task ended as the
scenario expects; `TraceInv` that the events built from such a history, entry by
entry, are the designed ones up to there; `FileInv` that the file is torn, missing
or the one designed result, and true of the task. `ContractCounts` is what the
contract does say: it refuses the histories that end too early. Results:
`WorkerTypeCorrectness`, `ScriptsSuffice`, `PageShowsTheDesign`, `PageTellsTheTruth`,
`VerdictsStand`.

**Launcher_proofs.** `CaptureInv` (types, how far each thread is, and
`CaptureKeepsEnds`) is inductive: a capture that holds the two ends of the first
`n` positions holds, fed with the next ones, those of the first `n + k`.
`ResultInv` adds that a thread that had ended left a capture of everything ever
written, and that a value once taken stays the two ends of a beginning; `KillInv`
what a signal left running. Results: `TypeCorrect`, `EndsAreKept`,
`ExactWhenJoined`, `OutputWasWritten`, `TimedOutDies`.

**Workspace_proofs.** `WorkspaceInv == TypeOK /\ RunInv /\ ResumeInv /\ DiskInv
/\ LoopIsAsBound /\ ResumedIsOfItsCommit`: what a running and a resuming command
have in hand at each place, and that a task with a status has the worktree it was
bound to, or none. `RepositoryNarrows` follows from lemmas on the merge, one per
kind of field (`TimeoutNarrows`, `LimitsNarrow`, `FrozenNarrows`), for any layers.
Results: `TypeCorrect`, `LoopWorksAsBound`, `ResumedWithItsCommit`,
`CrashedStaysAlone`, `RepositoryNarrows`.

**SessionStore_proofs.** `IInv == TypeOK /\ StageInv /\ TablesAgree /\ PhaseInv`.
The binding write-back of a session loaded earlier looks unsafe; `PhaseInv` shows
why it is not: before the workspace is bound only the creator writes and whatever
others have read is the fresh session; afterwards nobody creates or binds, and
every save keeps the workspace. Results: `StoreTypeCorrectness`,
`StoreTablesAgree`, `StoreWorkIsBound`.
Two further theorems say what the failure found by `StoreStaleOverwrite` takes.
Under the hypothesis `[]OneAtATime`, that commands on the task do not overlap,
`CopiesAreFresh` is inductive (whoever writes is the only process with a copy),
so every save replaces the session it came from (`SerialSavesAreNotStale`) and no
load finds the tables disagreeing (`SerialLoadsSucceed`). The hypothesis is what a
user with one terminal does; nothing in the code enforces it.

**StateStore_proofs.** `LeasesAreKept` rests on the type invariant's clause that
no process judges by a time to come. `EffectsAreAtMostOnce` and
`ConsumptionIsAtomic` rest on `JobInv`, `OneJob` and `FreshInv`: an action not
started belongs to one process at most and has its intent, and an action without
an intent was never begun. The invariant does not mention the status: the
key of `execution_intents` alone makes an effect unique. `PromptLeasesAreSingle`
bounds the failure found by `StateStoreTwoLeases`: under `[]NobodyWaits`, that
every transaction of `acquire_lease` still sees the time its caller read, the
database has one active lease, although one row of several is looked at.

**PatchApplier_proofs.** One clause per phase of `apply` says what the files
nobody else wrote hold (`CheckInv`, `WriteInv`, `ScanInv`, `RollbackInv`): behind
the loop the post-image, before it the pre-image; in a compensation, restored or
in `todo`. Results: `ApplierTypeCorrectness`, `ApplyIsAllOrNothing`,
`UnknownIsNeverOwn`.

**RunService_proofs.** `IInv == TypeOK /\ \A r : RequestInv(r)`, with one part
per stretch of the thread (starting, running, settled) and for what is on disk.
`ConfirmedInv` is the heart: what was confirmed dead stays dead, since only a
living member of the group can fork. Lemma `OthersKept` frees the other requests
from each step; `PreferredFacts` says the precedence never forgets an unconfirmed
termination. Results: `RunTypeCorrectness`, `DeletedRootsAreQuiet`,
`SurvivorsAreAlwaysReported`, `SuccessIsAlwaysClean`, `LeaksAreAlwaysReported`, and
`BoundariesKeepTheContract`: a step of one request (`OneRequest`) is one of its
boundary's contract or a stutter, and does not move the boundary of another.

**WindowsBoundary_proofs.** `IInv == TypeOK /\ HandleInv /\ HeldInv /\
SuspendedInv /\ JobInv`. The handles alone are not inductive: that a cleanup
closes none twice needs `HeldInv`, which says that an attribute refers to open
handles only and which ones at each label; `SuspendedInv` says that the worker
has not run, and that nothing was started, before the boundary is up; `JobInv`
that whatever runs afterwards is in a job with its limit set. Results:
`BoundaryTypeCorrectness`, `HandlesAlwaysSettle`, `FailedStartsAreSwept`,
`ClosedIsAlwaysDoomed` and `ContractIsImplemented`, a refinement.

Only model-checked: the liveness properties `RunsEnd`, `CommandsEnd`,
`RequestsAreAnswered`, `LaunchReturns` and `ReadersEnd` (the prover has no
liveness under fairness, and no `ENABLED`), and every counterexample. Each safety
property, action property and refinement of a passing run is stated by a theorem.
No module with a theorem uses a recursive operator; what a recursive definition
computes for every input would be out of the prover's reach.

## Where the code and the documents disagree

With a run and a trace:

| Run | The document | The code |
|---|---|---|
| `StoreStaleOverwrite` | a stale writer never replaces newer state (docs/ARCHITECTURE.md:60) | `save` compares with a status read in its own transaction (`application/session_store.py:46`) |
| `RunDescendants` | descendants such as pytest are checked before cleanup (`docs/superpowers/specs/2026-08-09-webui-v0.2.0-design.md:163`) | pytest runs in a session of its own (`adapters/process/runner.py:132`) and is not seen |
| `StateStoreTwoLeases` | one active lease (PLAN.md:375, `tests/integration/sqlite/test_state_store.py:32`) | the time is read before the transaction and one row of several is looked at (`adapters/sqlite/state_store.py:67-85`) |

Seen while modelling, without a run of their own; the models have these steps:

* An environment error or unparseable run becomes the previous result, which
  SPEC.md:851-854 excludes (`core/harness.py:158`).
* The first result is never analysed, so an unreliable first run does not pause
  the task (`core/harness.py:157-160`; SPEC.md:310).
* The first result without progress stops the task for good instead of pausing
  it after two in a row (`core/harness.py:170`; SPEC.md:309, 333). The changed
  threshold and the regression rollback (SPEC.md:308) are not implemented.
* A tool result over 8192 characters ends the loop by an exception
  (`core/harness.py:143`, `core/context.py:20`; SPEC.md:303).
* A failure whose summary is cut behind a blank at 2000 characters, or the second
  of two with a control character, ends the loop by an exception too: the
  parser and `ParsedTestResult` pass on what `FeedbackDecision` and
  `ParsedTestResult` refuse (`feedback/normalize.py:17`,
  `feedback/pytest_parser.py:39-43`, `domain/models.py:46-54`).
* A launch that is not joined in time, because a descendant keeps the pipe, or
  whose thread is between its two assignments, returns a part of the output
  without the mark (`adapters/process/runner.py:67-68, 157-159`; SPEC.md:1227
  asks for a mark on whatever is cut).
* A timeout kills the process group; a descendant with a session of its own lives,
  and after a launch that completed nothing is killed
  (`adapters/process/runner.py:161-170`; SPEC.md:1226).
* The effective limit is to be the minimum of the layers (SPEC.md:1113); the user's
  layer may raise a limit, and the repository may raise the two thresholds of an
  approval (`config/resolver.py:45-87`).
* A timeout only the user set is said to come from the repository.
* `run` reads the configuration at HEAD of one inspection and makes the worktree at
  HEAD of another (`composition.py:125-138`); a task begun in between cannot be
  resumed unless both layers come to the same.
* The policy does not read the frozen configuration: thresholds and paths are its
  own (`security/policy.py:54-89`).
* The mandatory tests also run after a patch that failed to apply
  (`core/harness.py:143-146`; SPEC.md:646).
* An action interrupted by a crash is not marked: the task stays `deciding`,
  which `resume_task` refuses (`application/service.py:29`; SPEC.md:709).
* The service does not look at the worker's exit code: a result that was written
  in full is shown (`web/run_service.py:413`).
* Nothing grants an approval: `awaiting_approval` is the end of a task.
* Two processes may resume one task at once; no lease is taken
  (`application/service.py:29`; SPEC.md:708). A concurrent stale save can also
  turn a stopped task back into a deciding one (SPEC.md:338).
* A load between whose two statements a save falls reports a healthy task as
  invalid.
* When the boundary's factory fails after the process started, the root is
  deleted although the process may live (`web/run_service.py:469`;
  `web/process_boundary.py:761`).
* An exception in the compensation is not turned into `unknown_outcome`, so the
  task does not pause (`patching/applier.py:49-65`; SPEC.md:302).
* The rollback writes in place, not by a temporary file and an atomic
  replacement, so a crash in it leaves a torn file (`patching/rollback.py:24`;
  SPEC.md:634).
* A failed replacement leaves its temporary file in the worktree.
* A first unconfirmed termination stays the outcome even if the second attempt
  confirms it.

## What is not modelled

* **Text**: prompts, summaries, redaction, diffs and their parsing, JSON, HTML,
  HTTP headers. No decision depends on them but through the facts modelled.
* **Pure I/O**: the provider's protocol, the key ring, artifacts.
* **Windows**: the launcher's `taskkill`.
* **Computation of facts**: which kinds a path is of, whether it is inside the
  root, how a workspace is hashed (a content is its own hash).
* **Configuration**: reading TOML, the two fields of `llm`, the default test
  command, the modes other than `real`.
* **Schema**: migrations; that two processes open a new database at once.
* **Recovery that does not exist**: nothing looks for the worker or the root of a
  server that died, nor for a file torn by a crash in the rollback.
* **Crash granularity**: a crash loses what is not saved; a committed SQLite
  transaction is durable.

## Plan

Done, in the order of importance: the loop with its operators and abstract
lifecycle; the session store; the run service; the patch applier; the state
store; the Windows boundary and its contract; the demo worker; the launcher; the
workspace and the configuration; the facts of the policy and the refusals of the
domain models; the proofs of their safety properties.

What remains worth doing:

1. An abstract store of one session that `SessionStore` refines when one command
   runs at a time, and where it stops to with two.
2. The executor of the real runtime with the applier inside: `PatchApplier` and
   `HarnessCore` meet at recorded outcomes only.
3. The commands of the credential store on a shared key ring.

## Running the checks

    tlc -workers 2 -config CoreSafety.cfg MCHarnessCore     # likewise the others
    tlapm HarnessCore_proofs.tla                            # likewise *_proofs

`PROJECT.json` lists, for each configuration, the module it belongs to.
