----------------------------- MODULE WindowsBoundary ----------------------------
(***************************************************************************)
(* The Windows boundary of web/process_boundary.py: create_boundary,        *)
(* _create_windows_suspended_process, WindowsJobObjectBoundary and their    *)
(* cleanups, for one worker, system call by system call.  Every call may    *)
(* fail.  The worker is made suspended, put into a job that kills its       *)
(* members when its handle is closed, and only then resumed; handles are    *)
(* the resources that must neither leak nor be closed twice.                *)
(***************************************************************************)
EXTENDS Naturals

CONSTANT MaxKids  \* processes the worker's tree may have at once, but for itself

ASSUME MaxKidsAssumption == MaxKids \in Nat

VARIABLES
  pc,          \* where create_boundary is; then "up" until close
  handle,      \* what became of each handle
  held,        \* the handles an attribute still refers to (is not None)
  killOnClose, \* the limit of the job is set
  inJob,       \* the worker was assigned to the job
  worker,      \* the worker process
  kids,        \* living processes below the worker, members of the job
  strays,      \* living processes below the worker, outside the job
  doomed,      \* the members of the job are being killed
  ran,         \* the worker was resumed
  refused,     \* TerminateProcess failed
  confirmed    \* confirm_termination returned True

os   == <<worker, kids, strays, doomed, ran>>
vars == <<pc, handle, held, killOnClose, inJob, os, refused, confirmed>>

Handles == {"input", "output", "process", "thread", "job"}

(* The handles _WindowsCreatedProcess owns.                                 *)
Owned == {"process", "thread"}

Init ==
  /\ pc = "input"
  /\ handle = [h \in Handles |-> "none"]
  /\ held = {}
  /\ killOnClose = FALSE /\ inJob = FALSE
  /\ worker = "none" /\ kids = 0 /\ strays = 0 /\ doomed = FALSE /\ ran = FALSE
  /\ refused = FALSE
  /\ confirmed = FALSE

-----------------------------------------------------------------------------
(* Handles.  Closing one that is closed already would close whatever has    *)
(* its number by then.                                                      *)
Opened(hs) == [h \in Handles |-> IF h \in hs THEN "open" ELSE handle[h]]

Closed(hs, stuck) ==
  [h \in Handles |->
     IF h \notin hs THEN handle[h]
     ELSE IF handle[h] # "open" THEN "twice"
     ELSE IF h \in stuck THEN "stuck" ELSE "closed"]

(* Closing its last handle kills the members of a job.                      *)
JobKills(hs, stuck) ==
  inJob /\ killOnClose /\ "job" \in hs \ stuck /\ handle["job"] = "open"

(* _cleanup_windows_handles: TerminateProcess, a bounded wait, then a close *)
(* of each handle whatever failed before.  (A wait does not change a thing.)*)
Sweep(hs, kills, stuck) ==
  /\ "process" \in hs \/ ~kills
  /\ handle' = Closed(hs, stuck)
  /\ doomed' = (doomed \/ JobKills(hs, stuck))
  /\ worker' = IF kills \/ JobKills(hs, stuck) THEN "dying" ELSE worker
  /\ refused' = (refused \/ ("process" \in hs /\ ~kills))
  /\ UNCHANGED <<killOnClose, inJob, kids, strays, ran, confirmed>>

GoTo(label) == pc' = label

-----------------------------------------------------------------------------
(* _create_windows_suspended_process.                                       *)
OpenInput(fails) ==
  /\ pc = "input"
  /\ IF fails THEN GoTo("failed") /\ UNCHANGED handle
     ELSE GoTo("output") /\ handle' = Opened({"input"})
  /\ UNCHANGED <<held, killOnClose, inJob, os, refused, confirmed>>

OpenOutput ==
  /\ pc = "output"
  /\ GoTo("prepare")
  /\ handle' = Opened({"output"})
  /\ UNCHANGED <<held, killOnClose, inJob, os, refused, confirmed>>

OpenOutputFails(stuck) ==
  /\ pc = "output"
  /\ GoTo("failed")
  /\ handle' = Closed({"input"}, stuck)
  /\ UNCHANGED <<held, killOnClose, inJob, os, refused, confirmed>>

(* The attribute list and the inheritance of the two handles.               *)
Prepare(fails) ==
  /\ pc = "prepare"
  /\ GoTo(IF fails THEN "release" ELSE "create")
  /\ UNCHANGED <<handle, held, killOnClose, inJob, os, refused, confirmed>>

(* CreateProcessW with CREATE_SUSPENDED.                                    *)
CreateProcess ==
  /\ pc = "create"
  /\ GoTo("adopt")
  /\ handle' = Opened(Owned)
  /\ worker' = "suspended"
  /\ UNCHANGED <<held, killOnClose, inJob, kids, strays, doomed, ran, refused, confirmed>>

CreateProcessFails ==
  /\ pc = "create"
  /\ GoTo("release")
  /\ UNCHANGED <<handle, held, killOnClose, inJob, os, refused, confirmed>>

(* The handles get an owner, or the constructor is interrupted.             *)
Adopt ==
  /\ pc = "adopt"
  /\ held' = Owned
  /\ GoTo("release")
  /\ UNCHANGED <<handle, killOnClose, inJob, os, refused, confirmed>>

AdoptFails(kills, stuck) ==
  /\ pc = "adopt"
  /\ Sweep(Owned, kills, stuck)
  /\ GoTo("release")
  /\ UNCHANGED held

(* The finally block: the worker inherits the null handles, the parent has  *)
(* no more use for them.  A close that fails takes the worker down.         *)
Release(stuck) ==
  /\ pc = "release"
  /\ handle' = Closed({"input", "output"}, stuck)
  /\ GoTo(IF held = {} THEN "failed" ELSE IF stuck # {} THEN "abandon" ELSE "job")
  /\ UNCHANGED <<held, killOnClose, inJob, os, refused, confirmed>>

Abandon(kills, stuck) ==
  /\ pc = "abandon"
  /\ Sweep(Owned, kills, stuck)
  /\ held' = {}
  /\ GoTo("failed")

-----------------------------------------------------------------------------
(* WindowsJobObjectBoundary.__init__.                                       *)
CreateJob ==
  /\ pc = "job"
  /\ handle' = Opened({"job"})
  /\ held' = held \cup {"job"}
  /\ GoTo("limits")
  /\ UNCHANGED <<killOnClose, inJob, os, refused, confirmed>>

CreateJobFails ==
  /\ pc = "job"
  /\ GoTo("partial")
  /\ UNCHANGED <<handle, held, killOnClose, inJob, os, refused, confirmed>>

(* Mutant of SetLimits: the limit is left out.                              *)
SetLimitsNone ==
  /\ pc = "limits"
  /\ GoTo("assign")
  /\ UNCHANGED <<handle, held, killOnClose, inJob, os, refused, confirmed>>

(* Mutant of SetLimits: the worker is not suspended until it is in the job. *)
SetLimitsAndResume ==
  /\ pc = "limits"
  /\ killOnClose' = TRUE
  /\ worker' = "running" /\ ran' = TRUE
  /\ GoTo("assign")
  /\ UNCHANGED <<handle, held, inJob, kids, strays, doomed, refused, confirmed>>

SetLimits ==
  /\ pc = "limits"
  /\ killOnClose' = TRUE
  /\ GoTo("assign")
  /\ UNCHANGED <<handle, held, inJob, os, refused, confirmed>>

Assign ==
  /\ pc = "assign"
  /\ inJob' = TRUE
  /\ GoTo("resume")
  /\ UNCHANGED <<handle, held, killOnClose, os, refused, confirmed>>

Resume ==
  /\ pc = "resume"
  /\ worker' = IF worker = "suspended" THEN "running" ELSE worker
  /\ ran' = TRUE
  /\ GoTo("up")
  /\ UNCHANGED <<handle, held, killOnClose, inJob, kids, strays, doomed, refused, confirmed>>

SetupFails ==
  /\ pc \in {"limits", "assign", "resume"}
  /\ GoTo("undo")
  /\ UNCHANGED <<handle, held, killOnClose, inJob, os, refused, confirmed>>

(* Mutant of Undo: the attributes keep the closed handles.                  *)
UndoHolding(kills, stuck) ==
  /\ pc = "undo"
  /\ Sweep(held, kills, stuck)
  /\ GoTo("partial")
  /\ UNCHANGED held

(* The except clause of the constructor.                                    *)
Undo(kills, stuck) ==
  /\ pc = "undo"
  /\ Sweep(held, kills, stuck)
  /\ held' = {}
  /\ GoTo("partial")

(* Mutant of CleanupPartialStart: the handles are closed, nothing more.     *)
CleanupPartialStartQuietly(kills, stuck) ==
  /\ pc = "partial"
  /\ ~kills
  /\ handle' = Closed(held \cap Owned, stuck)
  /\ held' = {}
  /\ GoTo("failed")
  /\ UNCHANGED <<killOnClose, inJob, os, refused, confirmed>>

(* _cleanup_partial_start: with what is still held; without a handle its    *)
(* calls fail and are ignored.                                              *)
CleanupPartialStart(kills, stuck) ==
  /\ pc = "partial"
  /\ Sweep(held \cap Owned, kills, stuck)
  /\ held' = {}
  /\ GoTo("failed")

-----------------------------------------------------------------------------
(* The boundary in use.  wait and wait_for_root only look at the worker.    *)
ActiveProcesses ==
  kids + (IF inJob /\ worker \in {"suspended", "running", "dying"} THEN 1 ELSE 0)

ConfirmTermination ==
  /\ pc = "up"
  /\ ActiveProcesses = 0
  /\ confirmed' = TRUE
  /\ UNCHANGED <<pc, handle, held, killOnClose, inJob, os, refused>>

(* TerminateJobObject.                                                      *)
TerminateTree ==
  /\ pc = "up"
  /\ doomed' = TRUE
  /\ worker' = IF worker = "running" THEN "dying" ELSE worker
  /\ UNCHANGED <<pc, handle, held, killOnClose, inJob, kids, strays, ran, refused, confirmed>>

(* close: the job, then the thread and the process, each tried even if      *)
(* another failed.                                                          *)
Close(stuck) ==
  /\ pc = "up"
  /\ handle' = Closed(held, stuck)
  /\ held' = {}
  /\ doomed' = (doomed \/ JobKills(held, stuck))
  /\ worker' = IF worker = "running" /\ JobKills(held, stuck) THEN "dying" ELSE worker
  /\ GoTo("closed")
  /\ UNCHANGED <<killOnClose, inJob, kids, strays, ran, refused, confirmed>>

-----------------------------------------------------------------------------
(* The operating system: a process in a job starts its children there, and  *)
(* a process that is being killed starts none and ends in its own time.     *)
Spawn ==
  /\ worker = "running" \/ (kids > 0 /\ ~doomed)
  /\ kids + strays < MaxKids
  /\ IF inJob THEN kids' = kids + 1 /\ UNCHANGED strays
              ELSE strays' = strays + 1 /\ UNCHANGED kids
  /\ UNCHANGED <<pc, handle, held, killOnClose, inJob, worker, doomed, ran, refused, confirmed>>

KidEnds ==
  /\ \/ kids > 0 /\ kids' = kids - 1 /\ UNCHANGED strays
     \/ strays > 0 /\ strays' = strays - 1 /\ UNCHANGED kids
  /\ UNCHANGED <<pc, handle, held, killOnClose, inJob, worker, doomed, ran, refused, confirmed>>

WorkerEnds ==
  /\ worker \in {"running", "dying"}
  /\ worker' = "dead"
  /\ UNCHANGED <<pc, handle, held, killOnClose, inJob, kids, strays, doomed, ran, refused, confirmed>>

-----------------------------------------------------------------------------
CreateSuspended ==
  \/ \E fails \in BOOLEAN : OpenInput(fails) \/ Prepare(fails)
  \/ OpenOutput \/ CreateProcess \/ CreateProcessFails \/ Adopt
  \/ \E stuck \in SUBSET {"input", "output"} : OpenOutputFails(stuck) \/ Release(stuck)
  \/ \E kills \in BOOLEAN, stuck \in SUBSET Owned :
       AdoptFails(kills, stuck) \/ Abandon(kills, stuck)

SetUp ==
  \/ CreateJob \/ CreateJobFails \/ SetLimits \/ Assign \/ Resume \/ SetupFails
  \/ \E kills \in BOOLEAN, stuck \in SUBSET Handles :
       Undo(kills, stuck) \/ CleanupPartialStart(kills, stuck)

Use ==
  \/ ConfirmTermination \/ TerminateTree
  \/ \E stuck \in SUBSET Handles : Close(stuck)

Environment == Spawn \/ KidEnds \/ WorkerEnds

Next == CreateSuspended \/ SetUp \/ Use \/ Environment

Spec == Init /\ [][Next]_vars

-----------------------------------------------------------------------------
Labels ==
  {"input", "output", "prepare", "create", "adopt", "release", "abandon", "job",
   "limits", "assign", "resume", "undo", "partial", "up", "closed", "failed"}

(* Type invariant; no process of the tree is ever outside the job.          *)
TypeOK ==
  /\ pc \in Labels
  /\ handle \in [Handles -> {"none", "open", "closed", "stuck", "twice"}]
  /\ held \subseteq Owned \cup {"job"}
  /\ killOnClose \in BOOLEAN /\ inJob \in BOOLEAN
  /\ worker \in {"none", "suspended", "running", "dying", "dead"}
  /\ kids \in 0 .. MaxKids /\ strays = 0
  /\ doomed \in BOOLEAN /\ ran \in BOOLEAN /\ refused \in BOOLEAN
  /\ confirmed \in BOOLEAN

(* Whether create_boundary raises or the boundary is closed, every handle   *)
(* that was opened had one close tried on it, and none had two              *)
(* (process_boundary.py:335-375, 518-541, 572-585, 620-640, 768-784).       *)
HandlesSettle ==
  /\ \A h \in Handles : handle[h] # "twice"
  /\ pc \in {"failed", "closed"} => \A h \in Handles : handle[h] # "open"

(* A worker whose boundary could not be made does not stay behind           *)
(* suspended, unless TerminateProcess refused it and no job kills it        *)
(* (process_boundary.py:353-375, 760-784).                                  *)
FailedStartIsSwept ==
  pc = "failed" /\ worker = "suspended" =>
    refused /\ ~(inJob /\ handle["job"] = "closed")

(* Even unconfirmed, a boundary whose job handle could be closed leaves no  *)
(* process that is not being killed (process_boundary.py:556-571, 620-649). *)
ClosedIsDoomed ==
  pc = "closed" /\ handle["job"] = "closed" =>
    worker \in {"dying", "dead"} /\ (kids > 0 => doomed)

(* The boundary implements its contract: a worker runs only once its        *)
(* boundary stands, so a failed start never ran, and a tree confirmed dead  *)
(* has no process left and gets none (process_boundary.py:556-611).         *)
Phase ==
  IF pc = "up" THEN "supervising"
  ELSE IF pc \in {"closed", "failed"} THEN pc ELSE "starting"

Tree ==
  IF ~ran THEN "none"
  ELSE IF worker \in {"running", "dying"} \/ kids > 0 \/ strays > 0 THEN "alive"
  ELSE "dead"

Contract == INSTANCE BoundaryContract WITH
  phase <- Phase, tree <- Tree, confirmed <- confirmed

ImplementsContract == Contract!Spec
=================================================================================
