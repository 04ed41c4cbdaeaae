------------------------------ MODULE SessionStore ------------------------------
(***************************************************************************)
(* Several CLI processes on one task: run, status and resume of cli/app.py  *)
(* and composition.py, through ApplicationService and the session store of  *)
(* application/session_store.py.                                            *)
(*                                                                          *)
(* The store keeps a task twice, as a status in the tasks table and as a    *)
(* session, with its workspace, in a row of feedback_states.  A load reads  *)
(* the two in separate statements; a save reads the workspace first and     *)
(* then writes both in one transaction.  Every statement is an action here, *)
(* so the statements of different processes interleave.  What a step of the *)
(* loop does in between is HarnessCore's subject: here it is one action     *)
(* with any outcome.                                                        *)
(***************************************************************************)
EXTENDS Naturals

CONSTANTS
  Procs,       \* processes started by someone, one command each
  Creator,     \* the one that runs the task for the first time
  MaxActions,  \* limits.max_actions
  NoTask,      \* no line of the tasks table
  NoRow,       \* no line of feedback_states
  NoSession    \* a process that has read nothing

ASSUME CreatorAssumption == Creator \in Procs

ASSUME BudgetAssumption == MaxActions \in Nat \ {0}

Statuses ==
  {"deciding", "awaiting_approval", "paused_for_human", "succeeded", "stopped"}

Sessions == [status : Statuses, actions : 0 .. MaxActions]

Rows == [session : Sessions, bound : BOOLEAN]

ASSUME NullAssumption ==
  NoTask \notin Statuses /\ NoRow \notin Rows /\ NoSession \notin Sessions

VARIABLES
  tasks,  \* tasks.status of the task, or NoTask
  row,    \* its line of feedback_states: session, and whether a workspace is bound
  pc,     \* statement each process is at
  goal,   \* what its load, or its save, is for
  read,   \* session it read last
  draft,  \* session it is going to save
  kept    \* whether its save found a workspace to keep

vars == <<tasks, row, pc, goal, read, draft, kept>>

Fresh == [status |-> "deciding", actions |-> 0]

Init ==
  /\ tasks = NoTask
  /\ row = NoRow
  /\ pc = [p \in Procs |-> "start"]
  /\ goal = [p \in Procs |-> "none"]
  /\ read = [p \in Procs |-> NoSession]
  /\ draft = [p \in Procs |-> NoSession]
  /\ kept = [p \in Procs |-> FALSE]

At(p, stage) == pc[p] = stage

GoTo(p, stage) == pc' = [pc EXCEPT ![p] = stage]

For(p, purpose) == goal' = [goal EXCEPT ![p] = purpose]

UnchangedStore == UNCHANGED <<tasks, row>>

Save(p, s) ==
  /\ GoTo(p, "peek")
  /\ draft' = [draft EXCEPT ![p] = s]

-----------------------------------------------------------------------------
(* The commands.                                                            *)

(* run, from the save of the fresh session on.                              *)
Run(p) ==
  /\ At(p, "start")
  /\ p = Creator
  /\ Save(p, Fresh)
  /\ For(p, "create")
  /\ UnchangedStore /\ UNCHANGED <<read, kept>>

(* status and resume begin with a load.                                     *)
Open(p, purpose) ==
  /\ At(p, "start")
  /\ purpose \in {"view", "check"}
  /\ GoTo(p, "row")
  /\ For(p, purpose)
  /\ UnchangedStore /\ UNCHANGED <<read, draft, kept>>

-----------------------------------------------------------------------------
(* load: the row first.                                                     *)
ReadRow(p) ==
  /\ At(p, "row")
  /\ row # NoRow
  /\ read' = [read EXCEPT ![p] = row.session]
  /\ GoTo(p, "status")
  /\ UnchangedStore /\ UNCHANGED <<goal, draft, kept>>

TaskNotFound(p) ==
  /\ At(p, "row")
  /\ row = NoRow
  /\ GoTo(p, "done")
  /\ UnchangedStore /\ UNCHANGED <<goal, read, draft, kept>>

(* ... then the status, which must be the session's own.                    *)
InvalidState(p) ==
  /\ At(p, "status")
  /\ tasks # read[p].status
  /\ GoTo(p, "done")
  /\ UnchangedStore /\ UNCHANGED <<goal, read, draft, kept>>

BudgetLeft(s) == s.actions < MaxActions

(* What the loader does with the session: run binds the workspace to it,    *)
(* resume wants it paused (twice), the loop wants it deciding.              *)
Loaded(p) ==
  LET s == read[p] IN
  /\ At(p, "status")
  /\ tasks = s.status
  /\ \/ /\ goal[p] = "bind"
        /\ GoTo(p, "bind")
        /\ UNCHANGED <<goal, draft>>
     \/ /\ goal[p] = "check"
        /\ s.status = "paused_for_human"
        /\ GoTo(p, "workspace")
        /\ UNCHANGED <<goal, draft>>
     \/ /\ goal[p] = "resume"
        /\ s.status = "paused_for_human"
        /\ Save(p, [s EXCEPT !.status = "deciding"])
        /\ UNCHANGED goal
     \/ /\ goal[p] = "step"
        /\ s.status = "deciding"
        /\ IF BudgetLeft(s)
             THEN GoTo(p, "work") /\ UNCHANGED draft
             ELSE Save(p, [s EXCEPT !.status = "stopped"])
        /\ UNCHANGED goal
     \/ /\ \/ goal[p] = "view"
           \/ goal[p] \in {"check", "resume"} /\ s.status # "paused_for_human"
           \/ goal[p] = "step" /\ s.status # "deciding"
        /\ GoTo(p, "done")
        /\ UNCHANGED <<goal, draft>>
  /\ UnchangedStore /\ UNCHANGED <<read, kept>>

(* The workspace is validated, the configuration and the key are loaded;    *)
(* ApplicationService.resume_task then starts with a load of its own.       *)
Validated(p) ==
  /\ At(p, "workspace")
  /\ GoTo(p, "row")
  /\ For(p, "resume")
  /\ UnchangedStore /\ UNCHANGED <<read, draft, kept>>

-----------------------------------------------------------------------------
(* Mutant of Worked: an answer is not counted.                              *)
WorkedFree(p, status) ==
  /\ At(p, "work")
  /\ Save(p, [read[p] EXCEPT !.status = status])
  /\ UnchangedStore /\ UNCHANGED <<goal, read, kept>>

(* One step of the loop: an answer of the model and all that follows it.    *)
Worked(p, status) ==
  /\ At(p, "work")
  /\ Save(p, [status |-> status, actions |-> read[p].actions + 1])
  /\ UnchangedStore /\ UNCHANGED <<goal, read, kept>>

-----------------------------------------------------------------------------
(* Mutant of Peek: the workspace of the row is forgotten.                   *)
PeekNothing(p) ==
  /\ At(p, "peek")
  /\ kept' = [kept EXCEPT ![p] = FALSE]
  /\ GoTo(p, "write")
  /\ UnchangedStore /\ UNCHANGED <<goal, read, draft>>

(* save: the workspace to keep is read before the transaction begins.       *)
Peek(p) ==
  /\ At(p, "peek")
  /\ kept' = [kept EXCEPT ![p] = row # NoRow /\ row.bound]
  /\ GoTo(p, "write")
  /\ UnchangedStore /\ UNCHANGED <<goal, read, draft>>

(* Where a process goes after its save.                                     *)
AfterSave(p) ==
  \/ goal[p] = "create" /\ For(p, "bind") /\ GoTo(p, "row")
  \/ goal[p] = "resume" /\ For(p, "step") /\ GoTo(p, "row")
  \/ goal[p] = "step" /\ draft[p].status = "deciding" /\ GoTo(p, "row") /\ UNCHANGED goal
  \/ goal[p] = "step" /\ draft[p].status # "deciding" /\ GoTo(p, "done") /\ UNCHANGED goal

(* Mutant of Write: the status is written for a new task only.              *)
WriteStatusOnce(p) ==
  /\ At(p, "write")
  /\ tasks' = IF tasks = NoTask THEN draft[p].status ELSE tasks
  /\ row' = [session |-> draft[p], bound |-> kept[p]]
  /\ AfterSave(p)
  /\ UNCHANGED <<read, draft, kept>>

(* The transaction.  The status it compares with was read inside the same   *)
(* transaction, so the comparison never fails, and the session the process  *)
(* had loaded plays no part in it.                                          *)
Write(p) ==
  /\ At(p, "write")
  /\ tasks' = draft[p].status
  /\ row' = [session |-> draft[p], bound |-> kept[p]]
  /\ AfterSave(p)
  /\ UNCHANGED <<read, draft, kept>>

(* bind_workspace: the loaded session again, now with the workspace.        *)
BindWorkspace(p) ==
  /\ At(p, "bind")
  /\ row' = [session |-> read[p], bound |-> TRUE]
  /\ For(p, "step")
  /\ GoTo(p, "row")
  /\ UNCHANGED <<tasks, read, draft, kept>>

(* A failed check, a locked database, an exception or a crash: the command  *)
(* is over, an open transaction is rolled back.                             *)
Fail(p) ==
  /\ pc[p] \notin {"start", "done"}
  /\ GoTo(p, "done")
  /\ UnchangedStore /\ UNCHANGED <<goal, read, draft, kept>>

-----------------------------------------------------------------------------
Advance(p) ==
  \/ ReadRow(p) \/ TaskNotFound(p) \/ InvalidState(p) \/ Loaded(p)
  \/ Validated(p)
  \/ \E status \in Statuses : Worked(p, status)
  \/ Peek(p) \/ Write(p) \/ BindWorkspace(p)

Start(p) == Run(p) \/ \E purpose \in {"view", "check"} : Open(p, purpose)

Next == \E p \in Procs : Start(p) \/ Advance(p) \/ Fail(p)

Spec == Init /\ [][Next]_vars

(* A started command keeps executing statements: sqlite's busy timeout and  *)
(* the bounded calls of a step leave none waiting for ever.                 *)
FairSpec == Spec /\ \A p \in Procs : WF_vars(Advance(p))

-----------------------------------------------------------------------------
Stages ==
  {"start", "row", "status", "workspace", "work", "peek", "write", "bind", "done"}

Purposes == {"none", "create", "bind", "view", "check", "resume", "step"}

(* Type invariant; the saved count never passes the budget.                 *)
TypeOK ==
  /\ tasks \in Statuses \cup {NoTask}
  /\ row \in Rows \cup {NoRow}
  /\ pc \in [Procs -> Stages]
  /\ goal \in [Procs -> Purposes]
  /\ read \in [Procs -> Sessions \cup {NoSession}]
  /\ draft \in [Procs -> Sessions \cup {NoSession}]
  /\ kept \in [Procs -> BOOLEAN]

(* The two tables always tell the same status, although run binds the       *)
(* workspace by writing back a session it loaded earlier: otherwise no load *)
(* would ever succeed again (session_store.py:26, 44-55, 61-71).            *)
TablesAgree ==
  /\ row = NoRow <=> tasks = NoTask
  /\ row # NoRow => tasks = row.session.status

(* The workspace of a task is bound before any step works on it and is      *)
(* never lost to a concurrent save: whoever works, and whatever no longer   *)
(* decides, has one to resume in (composition.py:145-147, 165-181).         *)
WorkIsBound ==
  /\ \A p \in Procs : At(p, "work") => row # NoRow /\ row.bound
  /\ row # NoRow /\ ~row.bound => row.session = Fresh

(* Every command ends, even when concurrent saves take counted actions back *)
(* (harness.py:79-90).                                                      *)
CommandsEnd == \A p \in Procs : pc[p] # "start" ~> pc[p] = "done"

-----------------------------------------------------------------------------
(* What the documents say of concurrent commands, and the code does not do. *)
(* "Compare-and-set transitions prevent a stale writer from silently        *)
(* replacing newer state" (ARCHITECTURE.md:60): a save of the loop only     *)
(* replaces the session it was computed from.                               *)
NoStaleOverwrite ==
  [][\A p \in Procs :
       Write(p) /\ goal[p] \in {"resume", "step"} => row.session = read[p]]_vars
=================================================================================
