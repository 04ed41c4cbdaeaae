------------------------------- MODULE RunService -------------------------------
(***************************************************************************)
(* The demo server: start_scenario of web/app.py, DemoRunService of         *)
(* web/run_service.py and the POSIX boundary of web/process_boundary.py,    *)
(* for requests served by concurrent threads, with the operating system     *)
(* processes they supervise.                                                *)
(*                                                                          *)
(* A request owns a parent directory and, below it, a request root in which *)
(* a worker process runs.  The worker leads a process group of its own and  *)
(* has at most one child at a time: git stays in the group, a pytest run    *)
(* starts in it and moves to a session of its own (start_new_session in     *)
(* adapters/process/runner.py).  Processes run, die and are killed at their *)
(* own pace while the service waits, checks and cleans up.                  *)
(***************************************************************************)
EXTENDS Naturals

CONSTANTS
  Requests,  \* runs requested of the server, each served by a thread
  Free       \* the global run lock is not held

ASSUME FreeAssumption == Free \notin Requests

VARIABLES
  lock,       \* _RUN_LOCK: the request that holds it, or Free
  pc,         \* where the request's thread is
  attempt,    \* what the current termination attempt is for
  outcome,    \* outcome of pending_result
  created,    \* process_created
  confirmed,  \* termination_confirmed
  late,       \* the execution deadline has passed
  parent,     \* the parent directory exists
  root,       \* the request root
  worker,     \* the worker process
  child,      \* the worker's child, while there is one
  killed,     \* SIGKILL was sent to the worker's group
  result      \* worker-result.json

control == <<pc, attempt, outcome, created, confirmed, late>>
dirs    == <<parent, root>>
procs   == <<worker, child, killed, result>>
vars    == <<lock, control, dirs, procs>>

Outcomes ==
  {"success", "busy", "timeout", "trace_incomplete", "worker_lifecycle_invalid",
   "termination_unconfirmed", "cleanup_failed", "internal"}

Init ==
  /\ lock = Free
  /\ pc = [r \in Requests |-> "new"]
  /\ attempt = [r \in Requests |-> "none"]
  /\ outcome = [r \in Requests |-> "success"]
  /\ created = [r \in Requests |-> FALSE]
  /\ confirmed = [r \in Requests |-> FALSE]
  /\ late = [r \in Requests |-> FALSE]
  /\ parent = [r \in Requests |-> FALSE]
  /\ root = [r \in Requests |-> "none"]
  /\ worker = [r \in Requests |-> "none"]
  /\ child = [r \in Requests |-> "none"]
  /\ killed = [r \in Requests |-> FALSE]
  /\ result = [r \in Requests |-> "missing"]

At(r, label) == pc[r] = label

GoTo(r, label) == pc' = [pc EXCEPT ![r] = label]

-----------------------------------------------------------------------------
(* The pending result.  A worse candidate replaces the current outcome; the *)
(* worst keeps a root, the best is the trace.                               *)
Rank ==
  [o \in Outcomes |->
     CASE o = "termination_unconfirmed" -> 0
       [] o = "cleanup_failed" -> 1
       [] o \in {"success", "busy"} -> 3
       [] OTHER -> 2]

(* Mutant of Preferred: the first error is kept, however bad the next one.  *)
PreferredFirst(current, candidate) ==
  IF current = "success" THEN candidate ELSE current

Preferred(current, candidate) ==
  IF Rank[candidate] < Rank[current] THEN candidate ELSE current

Prefer(r, candidate) ==
  outcome' = [outcome EXCEPT ![r] = Preferred(@, candidate)]

(* The finally block of a run that never had a process.                     *)
NoProcess(r) ==
  Prefer(r, "internal") /\ GoTo(r, "close")

-----------------------------------------------------------------------------
(* The processes of a request.                                              *)
GroupAlive(r) == worker[r] = "running" \/ child[r] = "grouped"

GroupEmpty(r) == worker[r] \in {"none", "gone"} /\ child[r] \in {"none", "detached"}

(* The worker starts git or pytest.                                         *)
Fork(r) ==
  /\ worker[r] = "running" /\ ~killed[r]
  /\ child[r] = "none" /\ result[r] = "missing"
  /\ child' = [child EXCEPT ![r] = "grouped"]
  /\ UNCHANGED <<lock, control, dirs, worker, killed, result>>

(* setsid, between the fork and the exec of a command run by                *)
(* SubprocessLauncher.                                                      *)
Detach(r) ==
  /\ child[r] = "grouped" /\ ~killed[r]
  /\ child' = [child EXCEPT ![r] = "detached"]
  /\ UNCHANGED <<lock, control, dirs, worker, killed, result>>

(* A child ends.  The worker, or init, reaps it sooner or later; a process  *)
(* outside the group is of no interest any more.                            *)
ChildEnds(r) ==
  /\ child[r] \in {"grouped", "detached"}
  /\ child' = [child EXCEPT ![r] = IF @ = "grouped" THEN "zombie" ELSE "none"]
  /\ UNCHANGED <<lock, control, dirs, worker, killed, result>>

ChildReaped(r) ==
  /\ child[r] = "zombie"
  /\ child' = [child EXCEPT ![r] = "none"]
  /\ UNCHANGED <<lock, control, dirs, worker, killed, result>>

(* The scenario is over and its result is written.  (A result that breaks   *)
(* the trace contract is treated like a missing one.)                       *)
WriteResult(r) ==
  /\ worker[r] = "running" /\ ~killed[r]
  /\ child[r] = "none"
  /\ result' = [result EXCEPT ![r] = "valid"]
  /\ UNCHANGED <<lock, control, dirs, worker, child, killed>>

(* The worker exits, is killed, or dies of something else.                  *)
WorkerEnds(r) ==
  /\ worker[r] = "running"
  /\ worker' = [worker EXCEPT ![r] = "zombie"]
  /\ UNCHANGED <<lock, control, dirs, child, killed, result>>

Environment(r) ==
  \/ Fork(r) \/ Detach(r) \/ ChildEnds(r) \/ ChildReaped(r)
  \/ WriteResult(r) \/ WorkerEnds(r)

(* The worker's parent waits for it: a dead one is reaped.                  *)
Reaped(state) == IF state = "zombie" THEN "gone" ELSE state

-----------------------------------------------------------------------------
(* start_scenario: the form is refused, or a parent directory is made and a *)
(* thread enters run_scenario.                                              *)
Reject(r) ==
  /\ At(r, "new")
  /\ GoTo(r, "done")
  /\ UNCHANGED <<lock, attempt, outcome, created, confirmed, late, dirs, procs>>

Accept(r) ==
  /\ At(r, "new")
  /\ parent' = [parent EXCEPT ![r] = TRUE]
  /\ GoTo(r, "acquire")
  /\ UNCHANGED <<lock, attempt, outcome, created, confirmed, late, root, procs>>

(* Mutant of Acquire: the lock is not looked at.                            *)
AcquireAnyway(r) ==
  /\ At(r, "acquire")
  /\ lock' = r
  /\ GoTo(r, "create")
  /\ UNCHANGED <<attempt, outcome, created, confirmed, late, dirs, procs>>

Acquire(r) ==
  /\ At(r, "acquire")
  /\ lock = Free
  /\ lock' = r
  /\ GoTo(r, "create")
  /\ UNCHANGED <<attempt, outcome, created, confirmed, late, dirs, procs>>

Busy(r) ==
  /\ At(r, "acquire")
  /\ lock # Free
  /\ outcome' = [outcome EXCEPT ![r] = "busy"]
  /\ GoTo(r, "answer")
  /\ UNCHANGED <<lock, attempt, created, confirmed, late, dirs, procs>>

(* _create_request_root: made whole, not made at all, or made in part.      *)
CreateRoot(r) ==
  /\ At(r, "create")
  /\ root' = [root EXCEPT ![r] = "present"]
  /\ GoTo(r, "config")
  /\ UNCHANGED <<lock, attempt, outcome, created, confirmed, late, parent, procs>>

CreateRootFails(r) ==
  /\ At(r, "create")
  /\ NoProcess(r)
  /\ UNCHANGED <<lock, attempt, created, confirmed, late, dirs, procs>>

(* Mutant of LeakRoot: a root that could not be removed is an internal      *)
(* error like any other.                                                    *)
LeakRootSilently(r) ==
  /\ At(r, "create")
  /\ root' = [root EXCEPT ![r] = "leaked"]
  /\ NoProcess(r)
  /\ UNCHANGED <<lock, attempt, created, confirmed, late, parent, procs>>

(* A part of the root was made and cannot be removed again; the run forgets *)
(* its path.  (When it can be removed, nothing is left: CreateRootFails.)   *)
LeakRoot(r) ==
  /\ At(r, "create")
  /\ root' = [root EXCEPT ![r] = "leaked"]
  /\ Prefer(r, "cleanup_failed")
  /\ GoTo(r, "close")
  /\ UNCHANGED <<lock, attempt, created, confirmed, late, parent, procs>>

WriteConfig(r) ==
  /\ At(r, "config")
  /\ GoTo(r, "start")
  /\ UNCHANGED <<lock, attempt, outcome, created, confirmed, late, dirs, procs>>

WriteConfigFails(r) ==
  /\ At(r, "config")
  /\ NoProcess(r)
  /\ UNCHANGED <<lock, attempt, created, confirmed, late, dirs, procs>>

StartWorker(r) ==
  /\ At(r, "start")
  /\ worker' = [worker EXCEPT ![r] = "running"]
  /\ created' = [created EXCEPT ![r] = TRUE]
  /\ GoTo(r, "wait")
  /\ UNCHANGED <<lock, attempt, outcome, confirmed, late, dirs, child, killed, result>>

(* No process came up; or one did, the boundary around it did not, and      *)
(* _cleanup_partial_start did what it could.                                *)
StartWorkerFails(r, left) ==
  /\ At(r, "start")
  /\ left \in {"none", "running", "gone"}
  /\ worker' = [worker EXCEPT ![r] = left]
  /\ NoProcess(r)
  /\ UNCHANGED <<lock, attempt, created, confirmed, late, dirs, child, killed, result>>

-----------------------------------------------------------------------------
Deadline(r) ==
  /\ At(r, "wait") /\ ~late[r]
  /\ late' = [late EXCEPT ![r] = TRUE]
  /\ UNCHANGED <<lock, pc, attempt, outcome, created, confirmed, dirs, procs>>

(* Mutant of WorkerExits: an exit wins over the deadline.                   *)
WorkerExitsAnyTime(r) ==
  /\ At(r, "wait")
  /\ worker[r] = "zombie"
  /\ worker' = [worker EXCEPT ![r] = "gone"]
  /\ GoTo(r, "confirm")
  /\ UNCHANGED <<lock, attempt, outcome, created, confirmed, late, dirs, child, killed, result>>

(* The worker's exit is seen before the deadline; its exit code is not      *)
(* looked at.                                                               *)
WorkerExits(r) ==
  /\ At(r, "wait") /\ ~late[r]
  /\ worker[r] = "zombie"
  /\ worker' = [worker EXCEPT ![r] = "gone"]
  /\ GoTo(r, "confirm")
  /\ UNCHANGED <<lock, attempt, outcome, created, confirmed, late, dirs, child, killed, result>>

BeginTermination(r, why) ==
  /\ attempt' = [attempt EXCEPT ![r] = why]
  /\ GoTo(r, "terminate")

(* Mutant of DeadlineExceeded: only a worker that exited late is noticed.   *)
DeadlineExceededAfterExit(r) ==
  /\ At(r, "wait") /\ late[r] /\ worker[r] = "zombie"
  /\ worker' = [worker EXCEPT ![r] = Reaped(@)]
  /\ BeginTermination(r, "timeout")
  /\ UNCHANGED <<lock, outcome, created, confirmed, late, dirs, child, killed, result>>

(* The deadline, even if the worker exits at the same moment.               *)
DeadlineExceeded(r) ==
  /\ At(r, "wait") /\ late[r]
  /\ worker' = [worker EXCEPT ![r] = Reaped(@)]
  /\ BeginTermination(r, "timeout")
  /\ UNCHANGED <<lock, outcome, created, confirmed, late, dirs, child, killed, result>>

(* wait raises: the finally block takes over.                               *)
WaitFails(r) ==
  /\ At(r, "wait")
  /\ Prefer(r, "internal")
  /\ BeginTermination(r, "final")
  /\ UNCHANGED <<lock, created, confirmed, late, dirs, procs>>

(* Mutant of GroupSeenDead: only the leader is asked.                       *)
GroupSeenDeadByLeader(r) == worker[r] # "running"

(* confirm_termination.  The leader is reaped by then and no one is left to *)
(* start a process in the group, so probing the group and reading the state *)
(* of its members is one step: the group is gone, or only zombies remain.   *)
GroupSeenDead(r) == worker[r] # "running" /\ child[r] # "grouped"

ConfirmExit(r) ==
  /\ At(r, "confirm")
  /\ GroupSeenDead(r)
  /\ confirmed' = [confirmed EXCEPT ![r] = TRUE]
  /\ GoTo(r, "read")
  /\ UNCHANGED <<lock, attempt, outcome, created, late, dirs, procs>>

(* A member lives, or /proc does not tell.                                  *)
DescendantsAlive(r) ==
  /\ At(r, "confirm")
  /\ ~GroupEmpty(r)
  /\ BeginTermination(r, "worker_lifecycle_invalid")
  /\ UNCHANGED <<lock, outcome, created, confirmed, late, dirs, procs>>

ReadResult(r) ==
  /\ At(r, "read")
  /\ IF result[r] = "valid" THEN UNCHANGED outcome ELSE Prefer(r, "trace_incomplete")
  /\ GoTo(r, "close")
  /\ UNCHANGED <<lock, attempt, created, confirmed, late, dirs, procs>>

-----------------------------------------------------------------------------
(* _terminate_and_confirm.  The attempt ends confirmed or not; after the    *)
(* first one failed, the finally block makes another.                       *)
Settle(r, dead) ==
  /\ confirmed' = [confirmed EXCEPT ![r] = dead]
  /\ IF ~dead THEN Prefer(r, "termination_unconfirmed")
     ELSE IF attempt[r] = "final" THEN UNCHANGED outcome
     ELSE Prefer(r, attempt[r])
  /\ IF dead \/ attempt[r] = "final"
       THEN GoTo(r, "close") /\ UNCHANGED attempt
       ELSE BeginTermination(r, "final")

(* SIGKILL to the whole group; a group that is gone already is fine too.    *)
TerminateTree(r) ==
  /\ At(r, "terminate")
  /\ killed' = [killed EXCEPT ![r] = TRUE]
  /\ GoTo(r, "wait_for_root")
  /\ UNCHANGED <<lock, attempt, outcome, created, confirmed, late, dirs, worker, child, result>>

(* The signal cannot be sent; waiting for the root then changes nothing.    *)
TerminateFails(r) ==
  /\ At(r, "terminate")
  /\ worker' = [worker EXCEPT ![r] = Reaped(@)]
  /\ Settle(r, FALSE)
  /\ UNCHANGED <<lock, created, late, dirs, child, killed, result>>

RootExited(r) ==
  /\ At(r, "wait_for_root")
  /\ worker[r] \in {"zombie", "gone"}
  /\ worker' = [worker EXCEPT ![r] = "gone"]
  /\ GoTo(r, "recheck")
  /\ UNCHANGED <<lock, attempt, outcome, created, confirmed, late, dirs, child, killed, result>>

(* Five seconds were not enough.                                            *)
RootStays(r) ==
  /\ At(r, "wait_for_root")
  /\ worker[r] = "running"
  /\ Settle(r, FALSE)
  /\ UNCHANGED <<lock, created, late, dirs, procs>>

(* confirm_termination polls until its short recovery deadline.             *)
Recheck(r, dead) ==
  /\ At(r, "recheck")
  /\ IF dead THEN GroupSeenDead(r) ELSE ~GroupEmpty(r)
  /\ Settle(r, dead)
  /\ UNCHANGED <<lock, created, late, dirs, procs>>

-----------------------------------------------------------------------------
(* The rest of the finally block.                                           *)
Close(r, fails) ==
  /\ At(r, "close")
  /\ IF fails /\ created[r] THEN Prefer(r, "internal") ELSE UNCHANGED outcome
  /\ GoTo(r, "dispose")
  /\ UNCHANGED <<lock, attempt, created, confirmed, late, dirs, procs>>

(* Mutant of SafeToCleanup: whatever happened to the process.               *)
SafeToCleanupAlways(r) == root[r] = "present"

(* safe_to_cleanup.                                                         *)
SafeToCleanup(r) == root[r] = "present" /\ (~created[r] \/ confirmed[r])

Cleanup(r) ==
  /\ At(r, "dispose")
  /\ SafeToCleanup(r)
  /\ root' = [root EXCEPT ![r] = "deleted"]
  /\ GoTo(r, "unlock")
  /\ UNCHANGED <<lock, attempt, outcome, created, confirmed, late, parent, procs>>

CleanupFails(r) ==
  /\ At(r, "dispose")
  /\ SafeToCleanup(r)
  /\ Prefer(r, "cleanup_failed")
  /\ GoTo(r, "unlock")
  /\ UNCHANGED <<lock, attempt, created, confirmed, late, dirs, procs>>

(* The root is renamed, or stays where it is when that fails.               *)
Quarantine(r, place) ==
  /\ At(r, "dispose")
  /\ root[r] = "present" /\ ~SafeToCleanup(r)
  /\ place \in {"present", "quarantined"}
  /\ root' = [root EXCEPT ![r] = place]
  /\ Prefer(r, "termination_unconfirmed")
  /\ GoTo(r, "unlock")
  /\ UNCHANGED <<lock, attempt, created, confirmed, late, parent, procs>>

NothingToDispose(r) ==
  /\ At(r, "dispose")
  /\ root[r] \in {"none", "leaked"}
  /\ GoTo(r, "unlock")
  /\ UNCHANGED <<lock, attempt, outcome, created, confirmed, late, dirs, procs>>

Unlock(r) ==
  /\ At(r, "unlock")
  /\ lock' = Free
  /\ GoTo(r, "answer")
  /\ UNCHANGED <<attempt, outcome, created, confirmed, late, dirs, procs>>

(* _RETAIN_REQUEST_ROOT_PARENT_ERRORS.                                      *)
Retained == {"cleanup_failed", "termination_unconfirmed"}

(* The response; the parent directory goes with it, if it is empty and no   *)
(* root was retained.                                                       *)
Answer(r) ==
  /\ At(r, "answer")
  /\ parent' = [parent EXCEPT ![r] =
                  outcome[r] \in Retained \/ root[r] \notin {"none", "deleted"}]
  /\ GoTo(r, "done")
  /\ UNCHANGED <<lock, attempt, outcome, created, confirmed, late, root, procs>>

-----------------------------------------------------------------------------
Prepare(r) ==
  \/ Reject(r) \/ Accept(r) \/ Acquire(r) \/ Busy(r)
  \/ CreateRoot(r) \/ CreateRootFails(r) \/ LeakRoot(r)
  \/ WriteConfig(r) \/ WriteConfigFails(r)
  \/ StartWorker(r) \/ \E left \in {"none", "running", "gone"} : StartWorkerFails(r, left)

Supervise(r) ==
  \/ WorkerExits(r) \/ DeadlineExceeded(r)
  \/ ConfirmExit(r) \/ DescendantsAlive(r) \/ ReadResult(r)
  \/ TerminateTree(r) \/ TerminateFails(r) \/ RootExited(r) \/ RootStays(r)
  \/ \E dead \in BOOLEAN : Recheck(r, dead)

Finish(r) ==
  \/ \E fails \in BOOLEAN : Close(r, fails)
  \/ Cleanup(r) \/ CleanupFails(r) \/ NothingToDispose(r)
  \/ \E place \in {"present", "quarantined"} : Quarantine(r, place)
  \/ Unlock(r) \/ Answer(r)

Service(r) == Prepare(r) \/ Supervise(r) \/ Finish(r)

Next ==
  \E r \in Requests :
    Service(r) \/ WaitFails(r) \/ Deadline(r) \/ Environment(r)

Spec == Init /\ [][Next]_vars

(* Every call of the service is bounded by a timeout of its own and the     *)
(* clock runs; nothing is assumed of the processes, which may hang, and no  *)
(* error of wait comes to the rescue.                                       *)
FairSpec ==
  /\ Spec
  /\ \A r \in Requests : WF_vars(Service(r)) /\ WF_vars(Deadline(r))

-----------------------------------------------------------------------------
Labels ==
  {"new", "acquire", "create", "config", "start", "wait", "confirm", "read",
   "terminate", "wait_for_root", "recheck", "close", "dispose", "unlock",
   "answer", "done"}

(* Where a thread holds the lock.                                           *)
Holding == Labels \ {"new", "acquire", "answer", "done"}

(* Type invariant; the lock belongs to the one thread between acquire and   *)
(* release.                                                                 *)
TypeOK ==
  /\ lock \in Requests \cup {Free}
  /\ pc \in [Requests -> Labels]
  /\ \A r \in Requests : pc[r] \in Holding <=> lock = r
  /\ attempt \in [Requests -> {"none", "timeout", "worker_lifecycle_invalid", "final"}]
  /\ outcome \in [Requests -> Outcomes]
  /\ created \in [Requests -> BOOLEAN]
  /\ confirmed \in [Requests -> BOOLEAN]
  /\ late \in [Requests -> BOOLEAN]
  /\ parent \in [Requests -> BOOLEAN]
  /\ root \in [Requests -> {"none", "leaked", "present", "quarantined", "deleted"}]
  /\ worker \in [Requests -> {"none", "running", "zombie", "gone"}]
  /\ child \in [Requests -> {"none", "grouped", "detached", "zombie"}]
  /\ killed \in [Requests -> BOOLEAN]
  /\ result \in [Requests -> {"missing", "valid"}]

(* No root is deleted under a member of the group of a supervised worker    *)
(* (run_service.py:469-476): what was seen dead stays dead.                 *)
DeletedRootIsQuiet ==
  \A r \in Requests : root[r] = "deleted" /\ created[r] => ~GroupAlive(r)

(* Whatever may still run once the lock is free again is reported: any      *)
(* other outcome means that the group of the worker is dead                 *)
(* (run_service.py:450-459, 633-637).                                       *)
SurvivorsAreReported ==
  \A r \in Requests :
    pc[r] \in {"answer", "done"} /\ created[r] /\ GroupAlive(r) =>
      outcome[r] = "termination_unconfirmed"

(* A trace is only shown of a worker that left a valid result in time, and  *)
(* whose group and root are gone (run_service.py:399-426, 473-501).         *)
SuccessIsClean ==
  \A r \in Requests :
    pc[r] \in {"answer", "done"} /\ created[r] /\ outcome[r] = "success" =>
      /\ result[r] = "valid" /\ ~late[r]
      /\ confirmed[r] /\ ~GroupAlive(r)
      /\ root[r] = "deleted"

(* No directory is left behind in silence: what remains of a request on     *)
(* disk was answered with one of the two codes that say so                  *)
(* (run_service.py:545-553, 476-488; app.py:290-305).                       *)
LeaksAreReported ==
  \A r \in Requests :
    At(r, "done") /\ (parent[r] \/ root[r] \notin {"none", "deleted"}) =>
      outcome[r] \in Retained

(* Every accepted request is answered, and then its thread holds no lock:   *)
(* no hanging worker keeps it (run_service.py:399-411, 490-492).            *)
RequestsAreAnswered == \A r \in Requests : pc[r] # "new" ~> pc[r] = "done"

-----------------------------------------------------------------------------
(* The boundary of a request, as its contract sees it.  The tree is what    *)
(* killpg reaches, the group of a supervised worker: a process that went to *)
(* a session of its own has left it.                                        *)
BoundaryPhase(r) ==
  IF created[r]
    THEN IF pc[r] \in {"dispose", "unlock", "answer", "done"} THEN "closed" ELSE "supervising"
  ELSE IF pc[r] \in {"new", "acquire", "create", "config", "start"} THEN "starting"
  ELSE "failed"

Group(r) ==
  IF ~created[r] THEN "none" ELSE IF GroupAlive(r) THEN "alive" ELSE "dead"

Contract(r) == INSTANCE BoundaryContract WITH
  phase <- BoundaryPhase(r), tree <- Group(r), confirmed <- confirmed[r]

(* The boundary of every request keeps the contract, up to the group and    *)
(* however its processes fork, end and leave it: nothing is supervised      *)
(* before it stands, a group is confirmed dead only when it is, while its   *)
(* boundary is open, and neither comes back (process_boundary.py:68-122).   *)
ImplementsContract ==
  /\ \A r \in Requests : Contract(r)!Init
  /\ [][\A r \in Requests : Contract(r)!Next \/ UNCHANGED Contract(r)!contractVars]_vars

-----------------------------------------------------------------------------
(* What the documents say and the code does not do.                         *)

(* "confirm_termination checks descendants in both timeout and normal exit  *)
(* cases", pytest included (2026-08-09-webui-v0.2.0-design.md:163): no      *)
(* process of the tree of a supervised worker is left when its root is      *)
(* deleted.                                                                 *)
NoDescendantLeft ==
  \A r \in Requests :
    root[r] = "deleted" /\ created[r] =>
      ~GroupAlive(r) /\ child[r] # "detached"
=================================================================================
