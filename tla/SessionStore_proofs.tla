--------------------------- MODULE SessionStore_proofs --------------------------
(***************************************************************************)
(* Proofs about SessionStore, for any number of processes and any budget.   *)
(***************************************************************************)
EXTENDS SessionStore, TLAPS

Bound == row # NoRow /\ row.bound

(* Which purpose each statement may serve, and what it finds loaded.        *)
StageInv ==
  \A p \in Procs :
    /\ At(p, "row") => goal[p] \in {"bind", "view", "check", "resume", "step"}
    /\ At(p, "status") =>
         goal[p] \in {"bind", "view", "check", "resume", "step"} /\ read[p] \in Sessions
    /\ At(p, "workspace") => goal[p] = "check"
    /\ At(p, "work") =>
         goal[p] = "step" /\ read[p] \in Sessions /\ read[p].actions < MaxActions
    /\ pc[p] \in {"peek", "write"} =>
         goal[p] \in {"create", "resume", "step"} /\ draft[p] \in Sessions
    /\ At(p, "bind") => goal[p] = "bind" /\ read[p] \in Sessions

(* Before the workspace is bound, only the creator writes; the others have  *)
(* seen nothing but the fresh session.                                      *)
Early(p) ==
  \/ At(p, "done")
  \/ At(p, "start") /\ (p = Creator => row = NoRow)
  \/ At(p, "row") /\ goal[p] \in {"view", "check"}
  \/ At(p, "status") /\ goal[p] \in {"view", "check"} /\ read[p] = Fresh
  \/ /\ p = Creator /\ goal[p] = "create" /\ row = NoRow /\ draft[p] = Fresh
     /\ At(p, "peek") \/ (At(p, "write") /\ ~kept[p])
  \/ /\ p = Creator /\ goal[p] = "bind" /\ row # NoRow
     /\ At(p, "row") \/ (pc[p] \in {"status", "bind"} /\ read[p] = Fresh)

(* Afterwards nobody creates or binds, and every save keeps the workspace.  *)
Late(p) ==
  \/ At(p, "done")
  \/ At(p, "start") /\ p # Creator
  \/ /\ pc[p] \notin {"start", "done"}
     /\ goal[p] \notin {"create", "bind"}
     /\ At(p, "write") => kept[p]

PhaseInv ==
  /\ Bound => \A p \in Procs : Late(p)
  /\ ~Bound => \A p \in Procs : Early(p)
  /\ row # NoRow /\ ~row.bound => row.session = Fresh

(* The strengthening that every step preserves.                             *)
IInv == TypeOK /\ StageInv /\ TablesAgree /\ PhaseInv

-----------------------------------------------------------------------------
(* What the three properties of the store need is in IInv.                  *)
LEMMA Consequences == IInv => WorkIsBound
BY DEF IInv, PhaseInv, WorkIsBound, Early, Bound, At

(* A fresh session is a session.                                            *)
LEMMA FreshTyped == Fresh \in Sessions /\ Fresh.status = "deciding"
BY BudgetAssumption DEF Fresh, Sessions, Statuses

(* The initial state satisfies the strengthening.                           *)
LEMMA InitInv == Init => IInv
BY NullAssumption, CreatorAssumption
   DEF Init, IInv, TypeOK, StageInv, TablesAgree, PhaseInv, Bound, Early, At,
       Stages, Purposes

(* Steps that only read leave the tables alone.                             *)
LEMMA ReadersInv ==
  ASSUME IInv, NEW p \in Procs,
         Start(p) \/ ReadRow(p) \/ TaskNotFound(p) \/ InvalidState(p) \/ Loaded(p)
           \/ Validated(p) \/ (\E status \in Statuses : Worked(p, status))
           \/ Peek(p) \/ Fail(p)
  PROVE  IInv'
<1>. USE FreshTyped DEF UnchangedStore, At, GoTo, For
<1>1. TablesAgree'
  BY DEF IInv, TablesAgree, Start, Run, Open, ReadRow, TaskNotFound, InvalidState,
         Loaded, Validated, Worked, Peek, Fail
<1>2. CASE Run(p)
  <2>1. TypeOK' /\ StageInv'
    BY <1>2 DEF IInv, TypeOK, StageInv, Run, Save, Stages, Purposes
  <2>2. row = NoRow
    BY <1>2 DEF IInv, PhaseInv, Run, Bound, Early, Late
  <2>3. \A q \in Procs : Early(q)'
    BY <1>2, <2>2 DEF IInv, TypeOK, PhaseInv, Run, Save, Bound, Early
  <2>. QED BY <1>1, <1>2, <2>1, <2>2, <2>3 DEF IInv, PhaseInv, Bound, Run
<1>3. CASE \E purpose \in {"view", "check"} : Open(p, purpose)
  <2>1. TypeOK' /\ StageInv'
    BY <1>3 DEF IInv, TypeOK, StageInv, Open, Stages, Purposes
  <2>2. \A q \in Procs : (Bound => Late(q)') /\ (~Bound => Early(q)')
    BY <1>3 DEF IInv, TypeOK, PhaseInv, Open, Early, Late
  <2>. QED BY <1>1, <1>3, <2>1, <2>2 DEF IInv, PhaseInv, Bound, Open
<1>4. CASE ReadRow(p)
  <2>1. row.session \in Sessions
    BY <1>4 DEF IInv, TypeOK, ReadRow, Rows
  <2>2. TypeOK' /\ StageInv'
    BY <1>4, <2>1 DEF IInv, TypeOK, StageInv, ReadRow, Stages
  <2>3. \A q \in Procs : (Bound => Late(q)') /\ (~Bound => Early(q)')
    BY <1>4 DEF IInv, TypeOK, PhaseInv, ReadRow, Early, Late, Bound
  <2>. QED BY <1>1, <1>4, <2>2, <2>3 DEF IInv, PhaseInv, Bound, ReadRow
<1>5. CASE TaskNotFound(p) \/ InvalidState(p) \/ Fail(p)
  <2>1. TypeOK' /\ StageInv'
    BY <1>5 DEF IInv, TypeOK, StageInv, TaskNotFound, InvalidState, Fail, Stages
  <2>2. \A q \in Procs : (Bound => Late(q)') /\ (~Bound => Early(q)')
    BY <1>5 DEF IInv, TypeOK, PhaseInv, TaskNotFound, InvalidState, Fail, Early, Late
  <2>. QED BY <1>1, <1>5, <2>1, <2>2
           DEF IInv, PhaseInv, Bound, TaskNotFound, InvalidState, Fail
<1>6. CASE Loaded(p)
  <2>1. /\ read[p] \in Sessions
        /\ [read[p] EXCEPT !.status = "deciding"] \in Sessions
        /\ [read[p] EXCEPT !.status = "stopped"] \in Sessions
        /\ BudgetLeft(read[p]) => read[p].actions < MaxActions
    BY <1>6 DEF IInv, StageInv, Loaded, Sessions, Statuses, BudgetLeft
  <2>2. TypeOK'
    BY <1>6, <2>1 DEF IInv, TypeOK, Loaded, Save, Stages
  <2>3. StageInv'
    BY <1>6, <2>1 DEF IInv, TypeOK, StageInv, Loaded, Save
  <2>4. \A q \in Procs : (Bound => Late(q)') /\ (~Bound => Early(q)')
    BY <1>6 DEF IInv, TypeOK, PhaseInv, Loaded, Save, Early, Late
  <2>. QED BY <1>1, <1>6, <2>2, <2>3, <2>4 DEF IInv, PhaseInv, Bound, Loaded
<1>7. CASE Validated(p)
  <2>1. TypeOK' /\ StageInv'
    BY <1>7 DEF IInv, TypeOK, StageInv, Validated, Stages, Purposes
  <2>2. Bound /\ \A q \in Procs : Late(q)'
    BY <1>7 DEF IInv, TypeOK, PhaseInv, Validated, Early, Late
  <2>. QED BY <1>1, <1>7, <2>1, <2>2 DEF IInv, PhaseInv, Bound, Validated
<1>8. CASE \E status \in Statuses : Worked(p, status)
  <2>1. PICK status \in Statuses : Worked(p, status)
    BY <1>8
  <2>2. read[p] \in Sessions /\ read[p].actions < MaxActions /\ goal[p] = "step"
    BY <2>1 DEF IInv, StageInv, Worked
  <2>3. [status |-> status, actions |-> read[p].actions + 1] \in Sessions
    BY <2>2, BudgetAssumption DEF Sessions
  <2>4. TypeOK' /\ StageInv'
    BY <2>1, <2>2, <2>3 DEF IInv, TypeOK, StageInv, Worked, Save, Stages
  <2>5. Bound /\ \A q \in Procs : Late(q)'
    BY <2>1, <2>2 DEF IInv, TypeOK, PhaseInv, Worked, Save, Early, Late
  <2>. QED BY <1>1, <2>1, <2>4, <2>5 DEF IInv, PhaseInv, Bound, Worked
<1>9. CASE Peek(p)
  <2>1. (row # NoRow /\ row.bound) \in BOOLEAN
    BY <1>9 DEF IInv, TypeOK, Rows
  <2>2. TypeOK' /\ StageInv'
    BY <1>9, <2>1 DEF IInv, TypeOK, StageInv, Peek, Stages
  <2>3. \A q \in Procs : (Bound => Late(q)') /\ (~Bound => Early(q)')
    BY <1>9 DEF IInv, TypeOK, PhaseInv, Peek, Early, Late, Bound
  <2>. QED BY <1>1, <1>9, <2>2, <2>3 DEF IInv, PhaseInv, Bound, Peek
<1>. QED BY <1>2, <1>3, <1>4, <1>5, <1>6, <1>7, <1>8, <1>9 DEF Start

(* The transaction creates the fresh row, or keeps the workspace bound.     *)
LEMMA WriteInv ==
  ASSUME IInv, NEW p \in Procs, Write(p)
  PROVE  IInv'
<1>. USE FreshTyped DEF At, GoTo, For
<1>. DEFINE new == [session |-> draft[p], bound |-> kept[p]]
<1>1. draft[p] \in Sessions /\ draft[p].status \in Statuses /\ kept[p] \in BOOLEAN
  BY DEF IInv, TypeOK, StageInv, Write, Sessions
<1>2. new \in Rows /\ new # NoRow /\ new.session = draft[p] /\ new.bound = kept[p]
  BY <1>1, NullAssumption DEF Rows
<1>3. tasks' = draft[p].status /\ row' = new
  BY DEF Write
<1>4. TypeOK'
  BY <1>1, <1>2, <1>3 DEF IInv, TypeOK, Write, AfterSave, Stages, Purposes
<1>5. StageInv'
  BY <1>1 DEF IInv, TypeOK, StageInv, Write, AfterSave
<1>6. TablesAgree'
  BY <1>1, <1>2, <1>3, NullAssumption DEF TablesAgree
<1>7. CASE Bound
  <2>1. kept[p]
    BY <1>7 DEF IInv, PhaseInv, Late, Write
  <2>2. \A q \in Procs : Late(q)'
    BY <1>7 DEF IInv, TypeOK, PhaseInv, Late, Write, AfterSave
  <2>. QED BY <1>2, <1>3, <1>4, <1>5, <1>6, <2>1, <2>2 DEF IInv, PhaseInv, Bound
<1>8. CASE ~Bound
  <2>1. p = Creator /\ goal[p] = "create" /\ draft[p] = Fresh /\ ~kept[p]
    BY <1>8 DEF IInv, PhaseInv, Early, Write
  <2>2. \A q \in Procs : Early(q)'
    BY <1>2, <1>3, <1>8, <2>1 DEF IInv, TypeOK, PhaseInv, Early, Write, AfterSave
  <2>. QED BY <1>2, <1>3, <1>4, <1>5, <1>6, <2>1, <2>2 DEF IInv, PhaseInv, Bound
<1>. QED BY <1>7, <1>8

(* Binding writes back the session that is still there.                     *)
LEMMA BindInv ==
  ASSUME IInv, NEW p \in Procs, BindWorkspace(p)
  PROVE  IInv'
<1>. USE FreshTyped DEF At, GoTo, For
<1>. DEFINE new == [session |-> Fresh, bound |-> TRUE]
<1>1. goal[p] = "bind"
  BY DEF IInv, StageInv, BindWorkspace
<1>2. /\ ~Bound /\ p = Creator /\ row # NoRow /\ read[p] = Fresh
      /\ row.bound = FALSE /\ row.session = Fresh
  BY <1>1 DEF IInv, TypeOK, PhaseInv, Early, Late, BindWorkspace, Bound, Rows
<1>3. new \in Rows /\ new # NoRow /\ new.session = Fresh /\ new.bound = TRUE
  <2>1. \A s \in Sessions, b \in BOOLEAN : [session |-> s, bound |-> b] \in Rows
    BY Zenon DEF Rows
  <2>2. new \in Rows
    BY <2>1
  <2>. QED BY <2>2, NullAssumption
<1>4. row' = new /\ tasks' = tasks
  BY <1>2 DEF BindWorkspace
<1>5. TypeOK' /\ StageInv'
  BY <1>3, <1>4 DEF IInv, TypeOK, StageInv, BindWorkspace, Stages, Purposes
<1>6. TablesAgree'
  BY <1>2, <1>3, <1>4 DEF IInv, TablesAgree
<1>7. \A q \in Procs : Late(q)'
  BY <1>2 DEF IInv, TypeOK, PhaseInv, Early, Late, BindWorkspace
<1>. QED BY <1>3, <1>4, <1>5, <1>6, <1>7 DEF IInv, PhaseInv, Bound

-----------------------------------------------------------------------------
(* Every reachable state satisfies the strengthening, however many          *)
(* processes interleave their statements on the task.                       *)
THEOREM StoreInvariance == Spec => []IInv
<1>1. Init => IInv
  BY InitInv
<1>2. IInv /\ [Next]_vars => IInv'
  <2>1. CASE Next
    BY <2>1, ReadersInv, WriteInv, BindInv DEF Next, Advance
  <2>2. CASE UNCHANGED vars
    BY <2>2 DEF vars, IInv, TypeOK, StageInv, TablesAgree, PhaseInv, Bound, Early,
                Late, At
  <2>. QED BY <2>1, <2>2
<1>. QED BY <1>1, <1>2, PTL DEF Spec

(* Type correctness, with the saved count within the budget.                *)
THEOREM StoreTypeCorrectness == Spec => []TypeOK
<1>1. IInv => TypeOK
  BY DEF IInv
<1>. QED BY <1>1, StoreInvariance, PTL

(* The status of the tasks table is always the status of the session.       *)
THEOREM StoreTablesAgree == Spec => []TablesAgree
<1>1. IInv => TablesAgree
  BY DEF IInv
<1>. QED BY <1>1, StoreInvariance, PTL

(* No step works without a bound workspace, and none is lost again.         *)
THEOREM StoreWorkIsBound == Spec => []WorkIsBound
BY Consequences, StoreInvariance, PTL

-----------------------------------------------------------------------------
(* What the run StoreStaleOverwrite refutes for commands that overlap holds *)
(* for commands that do not: the interleaving alone is the cause.           *)
OneAtATime ==
  \A p, q \in Procs : p # q => pc[p] \in {"start", "done"} \/ pc[q] \in {"start", "done"}

(* The session a process computes with is still the one of the row.         *)
CopiesAreFresh ==
  \A p \in Procs :
    \/ pc[p] \in {"status", "bind", "work"}
    \/ pc[p] \in {"peek", "write"} /\ goal[p] \in {"resume", "step"}
    => row # NoRow /\ row.session = read[p]

(* A step that leaves the tables alone keeps every copy fresh.              *)
LEMMA ReadersKeepCopies ==
  ASSUME TypeOK, CopiesAreFresh, NEW p \in Procs,
         Start(p) \/ ReadRow(p) \/ TaskNotFound(p) \/ InvalidState(p) \/ Loaded(p)
           \/ Validated(p) \/ (\E status \in Statuses : Worked(p, status))
           \/ Peek(p) \/ Fail(p)
  PROVE  CopiesAreFresh'
<1>. USE DEF TypeOK, CopiesAreFresh, UnchangedStore, At, GoTo, For, Save
<1>1. CASE Start(p)
  BY <1>1 DEF Start, Run, Open
<1>2. CASE ReadRow(p)
  BY <1>2 DEF ReadRow
<1>3. CASE TaskNotFound(p) \/ InvalidState(p) \/ Validated(p) \/ Fail(p)
  BY <1>3 DEF TaskNotFound, InvalidState, Validated, Fail
<1>4. CASE Loaded(p)
  BY <1>4 DEF Loaded
<1>5. CASE \E status \in Statuses : Worked(p, status)
  BY <1>5 DEF Worked
<1>6. CASE Peek(p)
  BY <1>6 DEF Peek
<1>. QED BY <1>1, <1>2, <1>3, <1>4, <1>5, <1>6

(* A step that writes leaves its own process without a copy, and finds no   *)
(* other process with one.                                                  *)
LEMMA WritersKeepCopies ==
  ASSUME TypeOK, CopiesAreFresh, OneAtATime, NEW p \in Procs,
         Write(p) \/ BindWorkspace(p)
  PROVE  CopiesAreFresh'
<1>1. pc[p] \notin {"start", "done"} /\ pc' \in [Procs -> Stages]
  BY DEF TypeOK, Write, AfterSave, BindWorkspace, At, GoTo, Stages
<1>2. pc'[p] \in {"row", "done"}
  BY DEF TypeOK, Write, AfterSave, BindWorkspace, GoTo
<1>3. \A q \in Procs : q # p => pc'[q] \in {"start", "done"}
  BY <1>1 DEF OneAtATime, TypeOK, Write, AfterSave, BindWorkspace, GoTo
<1>. QED BY <1>2, <1>3 DEF CopiesAreFresh

(* While commands do not overlap, every copy stays fresh.                   *)
LEMMA SerialCopies == Spec /\ []OneAtATime => []CopiesAreFresh
<1>1. Init => CopiesAreFresh
  BY DEF Init, CopiesAreFresh
<1>2. TypeOK /\ OneAtATime /\ CopiesAreFresh /\ [Next]_vars => CopiesAreFresh'
  <2>1. CASE UNCHANGED vars
    BY <2>1 DEF vars, CopiesAreFresh
  <2>2. CASE Next
    BY <2>2, ReadersKeepCopies, WritersKeepCopies DEF Next, Advance
  <2>. QED BY <2>1, <2>2
<1>. QED BY <1>1, <1>2, StoreTypeCorrectness, PTL DEF Spec

(* Of commands that do not overlap, every save of the loop replaces the     *)
(* session it was computed from: what ARCHITECTURE.md:60 asks, and what     *)
(* save alone does not ensure (session_store.py:32-58).                     *)
THEOREM SerialSavesAreNotStale == Spec /\ []OneAtATime => NoStaleOverwrite
<1>1. CopiesAreFresh /\ [Next]_vars =>
        [\A p \in Procs :
           Write(p) /\ goal[p] \in {"resume", "step"} => row.session = read[p]]_vars
  BY DEF CopiesAreFresh, Write, At
<1>. QED BY <1>1, SerialCopies, PTL DEF Spec, NoStaleOverwrite

(* Of commands that do not overlap, no load finds the two statements it     *)
(* reads with in disagreement: the corruption it would report is another    *)
(* command's save between them (session_store.py:17-30).                   *)
THEOREM SerialLoadsSucceed ==
  Spec /\ []OneAtATime => [](\A p \in Procs : At(p, "status") => tasks = read[p].status)
<1>1. TablesAgree /\ CopiesAreFresh =>
        \A p \in Procs : At(p, "status") => tasks = read[p].status
  BY DEF TablesAgree, CopiesAreFresh, At
<1>. QED BY <1>1, SerialCopies, StoreTablesAgree, PTL
=================================================================================
