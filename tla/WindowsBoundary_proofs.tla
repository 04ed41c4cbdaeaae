------------------------- MODULE WindowsBoundary_proofs -------------------------
(***************************************************************************)
(* Proofs about WindowsBoundary, for a process tree of any size.            *)
(***************************************************************************)
EXTENDS WindowsBoundary, TLAPS

(* The null handles the parent still needs.                                 *)
Nulls ==
  IF pc = "output" THEN {"input"}
  ELSE IF pc \in {"prepare", "create", "adopt", "release"} THEN {"input", "output"}
  ELSE {}

(* The handles of the worker and its job.                                   *)
Live == IF pc = "adopt" THEN Owned ELSE held

(* Exactly the handles somebody still answers for are open.                 *)
HandleInv ==
  /\ handle \in [Handles -> {"none", "open", "closed", "stuck"}]
  /\ \A h \in Handles : handle[h] = "open" <=> h \in Nulls \cup Live

HeldInv ==
  /\ pc \in {"input", "output", "prepare", "create", "adopt", "closed", "failed"} => held = {}
  /\ pc \in {"release", "partial"} => held \in {{}, Owned}
  /\ pc \in {"abandon", "job"} => held = Owned
  /\ pc \in {"limits", "assign", "resume", "undo", "up"} => held = Owned \cup {"job"}

(* A worker nobody answers for any more does not stay suspended for free.   *)
Swept == worker = "suspended" => refused /\ ~(inJob /\ handle["job"] = "closed")

(* Before it is resumed the worker is suspended or was swept.               *)
SuspendedInv ==
  /\ pc \in {"input", "output", "prepare", "create"} => worker = "none" /\ ~ran
  /\ pc \in {"adopt", "abandon", "job", "limits", "assign", "resume", "undo"} =>
       worker = "suspended" /\ ~ran
  /\ pc \in {"release", "partial"} =>
       ~ran /\ (IF held = Owned THEN worker = "suspended" ELSE Swept)
  /\ pc = "failed" => ~ran /\ Swept
  /\ pc \in {"up", "closed"} => ran
  /\ ~ran => worker # "running" /\ kids = 0 /\ ~confirmed

(* The job holds the whole tree, and kills it when it goes.                 *)
JobInv ==
  /\ pc \in {"assign", "resume", "up", "closed"} => killOnClose
  /\ pc \in {"resume", "up", "closed"} => inJob
  /\ inJob => killOnClose /\ pc \in {"resume", "undo", "partial", "failed", "up", "closed"}
  /\ pc = "partial" /\ inJob => held = {}
  /\ doomed => pc \in {"partial", "failed", "up", "closed"}
  /\ pc \in {"up", "closed"} =>
       /\ worker \in {"running", "dying", "dead"}
       /\ doomed => worker # "running"
       /\ confirmed => worker = "dead" /\ kids = 0
  /\ pc = "closed" /\ handle["job"] = "closed" => doomed

IInv == TypeOK /\ HandleInv /\ HeldInv /\ SuspendedInv /\ JobInv

-----------------------------------------------------------------------------
LEMMA InitInv == Init => IInv
<1> SUFFICES ASSUME Init PROVE IInv
  OBVIOUS
<1> USE DEF Init
<1>1. TypeOK
  <2>1. kids \in 0 .. MaxKids
    BY MaxKidsAssumption
  <2>2. handle \in [Handles -> {"none", "open", "closed", "stuck", "twice"}]
    OBVIOUS
  <2>. QED BY <2>1, <2>2 DEF TypeOK, Labels
<1>2. HandleInv
  BY DEF HandleInv, Nulls, Live
<1>3. HeldInv /\ SuspendedInv /\ JobInv
  BY DEF HeldInv, SuspendedInv, JobInv
<1>. QED BY <1>1, <1>2, <1>3 DEF IInv

(* Closing handles that are open.                                           *)
LEMMA ClosedFacts ==
  ASSUME HandleInv, NEW hs \in SUBSET Handles, NEW stuck,
         \A h \in hs : handle[h] = "open"
  PROVE  /\ Closed(hs, stuck) \in [Handles -> {"none", "open", "closed", "stuck"}]
         /\ \A h \in Handles : Closed(hs, stuck)[h] = "open" <=> handle[h] = "open" /\ h \notin hs
         /\ \A h \in hs : Closed(hs, stuck)[h] = IF h \in stuck THEN "stuck" ELSE "closed"
         /\ \A h \in Handles \ hs : Closed(hs, stuck)[h] = handle[h]
BY DEF HandleInv, Closed

LEMMA OpenedFacts ==
  ASSUME HandleInv, NEW hs \in SUBSET Handles
  PROVE  /\ Opened(hs) \in [Handles -> {"none", "open", "closed", "stuck"}]
         /\ \A h \in Handles : Opened(hs)[h] = "open" <=> handle[h] = "open" \/ h \in hs
         /\ \A h \in Handles \ hs : Opened(hs)[h] = handle[h]
BY DEF HandleInv, Opened

(* The steps that make the suspended worker.                                *)
LEMMA CreateSuspendedInv == IInv /\ CreateSuspended => IInv'
<1> SUFFICES ASSUME IInv, CreateSuspended PROVE IInv'
  OBVIOUS
<1> USE DEF IInv, GoTo
<1>1. ASSUME NEW fails \in BOOLEAN, OpenInput(fails) \/ Prepare(fails) PROVE IInv'
  <2>1. HandleInv'
    BY <1>1, OpenedFacts DEF OpenInput, Prepare, HandleInv, HeldInv, Nulls, Live,
       Handles, Owned, os
  <2>2. TypeOK'
    BY <1>1, <2>1 DEF OpenInput, Prepare, TypeOK, Labels, HandleInv, HeldInv, Owned, os
  <2>3. HeldInv'
    BY <1>1 DEF OpenInput, Prepare, HeldInv, Owned, os
  <2>4. SuspendedInv'
    BY <1>1, OpenedFacts DEF OpenInput, Prepare, SuspendedInv, JobInv, HeldInv, Swept,
       HandleInv, Nulls, Live, Handles, Owned, os
  <2>5. JobInv'
    BY <1>1, OpenedFacts DEF OpenInput, Prepare, JobInv, SuspendedInv, HeldInv,
       TypeOK, HandleInv, Nulls, Live, Handles, Owned, os
  <2>. QED BY <2>1, <2>2, <2>3, <2>4, <2>5
<1>2. CASE OpenOutput \/ CreateProcess
  <2>1. HandleInv'
    BY <1>2, OpenedFacts DEF OpenOutput, CreateProcess, HandleInv, HeldInv, Nulls,
       Live, Handles, Owned, os
  <2>2. TypeOK'
    BY <1>2, <2>1 DEF OpenOutput, CreateProcess, TypeOK, Labels, HandleInv, HeldInv,
       Owned, os
  <2>3. HeldInv'
    BY <1>2 DEF OpenOutput, CreateProcess, HeldInv, Owned, os
  <2>4. SuspendedInv'
    BY <1>2, OpenedFacts DEF OpenOutput, CreateProcess, SuspendedInv, JobInv, HeldInv,
       Swept, HandleInv, Nulls, Live, Handles, Owned, os
  <2>5. JobInv'
    BY <1>2, OpenedFacts DEF OpenOutput, CreateProcess, JobInv, SuspendedInv, HeldInv,
       TypeOK, HandleInv, Nulls, Live, Handles, Owned, os
  <2>. QED BY <2>1, <2>2, <2>3, <2>4, <2>5
<1>3. CASE CreateProcessFails \/ Adopt
  <2>1. HandleInv'
    BY <1>3 DEF CreateProcessFails, Adopt, HandleInv, HeldInv, Nulls, Live, Handles,
       Owned, os
  <2>2. TypeOK'
    BY <1>3, <2>1 DEF CreateProcessFails, Adopt, TypeOK, Labels, HandleInv, HeldInv,
       Owned, os
  <2>3. HeldInv'
    BY <1>3 DEF CreateProcessFails, Adopt, HeldInv, Owned, os
  <2>4. SuspendedInv'
    BY <1>3 DEF CreateProcessFails, Adopt, SuspendedInv, JobInv, HeldInv, Swept,
       HandleInv, Nulls, Live, Handles, Owned, os
  <2>5. JobInv'
    BY <1>3 DEF CreateProcessFails, Adopt, JobInv, SuspendedInv, HeldInv, TypeOK,
       HandleInv, Nulls, Live, Handles, Owned, os
  <2>. QED BY <2>1, <2>2, <2>3, <2>4, <2>5
<1>4. ASSUME NEW stuck \in SUBSET {"input", "output"}, OpenOutputFails(stuck) PROVE IInv'
  <2>1. HandleInv'
    BY <1>4, ClosedFacts DEF OpenOutputFails, HandleInv, HeldInv, Nulls, Live,
       Handles, Owned, os
  <2>2. TypeOK'
    BY <1>4, <2>1 DEF OpenOutputFails, TypeOK, Labels, HandleInv, HeldInv, Owned, os
  <2>3. HeldInv'
    BY <1>4 DEF OpenOutputFails, HeldInv, Owned, os
  <2>4. SuspendedInv'
    BY <1>4, ClosedFacts DEF OpenOutputFails, SuspendedInv, JobInv, HeldInv, Swept,
       HandleInv, Nulls, Live, Handles, Owned, os
  <2>5. JobInv'
    BY <1>4, ClosedFacts DEF OpenOutputFails, JobInv, SuspendedInv, HeldInv, TypeOK,
       HandleInv, Nulls, Live, Handles, Owned, os
  <2>. QED BY <2>1, <2>2, <2>3, <2>4, <2>5
<1>5. ASSUME NEW stuck \in SUBSET {"input", "output"}, Release(stuck) PROVE IInv'
  <2>1. HandleInv'
    BY <1>5, ClosedFacts DEF Release, HandleInv, HeldInv, Nulls, Live, Handles, Owned,
       os
  <2>2. TypeOK'
    BY <1>5, <2>1 DEF Release, TypeOK, Labels, HandleInv, HeldInv, Owned, os
  <2>3. HeldInv'
    BY <1>5 DEF Release, HeldInv, Owned, os
  <2>4. SuspendedInv'
    BY <1>5, ClosedFacts DEF Release, SuspendedInv, JobInv, HeldInv, Swept, HandleInv,
       Nulls, Live, Handles, Owned, os
  <2>5. JobInv'
    BY <1>5, ClosedFacts DEF Release, JobInv, SuspendedInv, HeldInv, TypeOK,
       HandleInv, Nulls, Live, Handles, Owned, os
  <2>. QED BY <2>1, <2>2, <2>3, <2>4, <2>5
<1>6. ASSUME NEW kills \in BOOLEAN, NEW stuck \in SUBSET Owned, AdoptFails(kills, stuck)
      PROVE  IInv'
  <2>1. HandleInv'
    BY <1>6, ClosedFacts DEF AdoptFails, Sweep, JobKills, HandleInv, HeldInv, Nulls,
       Live, Handles, Owned, os
  <2>2. TypeOK'
    BY <1>6, <2>1 DEF AdoptFails, Sweep, JobKills, TypeOK, Labels, HandleInv, HeldInv,
       Owned, os
  <2>3. HeldInv'
    BY <1>6 DEF AdoptFails, Sweep, JobKills, HeldInv, Owned, os
  <2>4. SuspendedInv'
    BY <1>6, ClosedFacts DEF AdoptFails, Sweep, JobKills, SuspendedInv, JobInv,
       HeldInv, Swept, HandleInv, Nulls, Live, Handles, Owned, os
  <2>5. JobInv'
    BY <1>6, ClosedFacts DEF AdoptFails, Sweep, JobKills, JobInv, SuspendedInv,
       HeldInv, TypeOK, HandleInv, Nulls, Live, Handles, Owned, os
  <2>. QED BY <2>1, <2>2, <2>3, <2>4, <2>5
<1>7. ASSUME NEW kills \in BOOLEAN, NEW stuck \in SUBSET Owned, Abandon(kills, stuck)
      PROVE  IInv'
  <2>1. HandleInv'
    BY <1>7, ClosedFacts DEF Abandon, Sweep, JobKills, HandleInv, HeldInv, Nulls,
       Live, Handles, Owned, os
  <2>2. TypeOK'
    BY <1>7, <2>1 DEF Abandon, Sweep, JobKills, TypeOK, Labels, HandleInv, HeldInv,
       Owned, os
  <2>3. HeldInv'
    BY <1>7 DEF Abandon, Sweep, JobKills, HeldInv, Owned, os
  <2>4. SuspendedInv'
    BY <1>7, ClosedFacts DEF Abandon, Sweep, JobKills, SuspendedInv, JobInv, HeldInv,
       Swept, HandleInv, Nulls, Live, Handles, Owned, os
  <2>5. JobInv'
    BY <1>7, ClosedFacts DEF Abandon, Sweep, JobKills, JobInv, SuspendedInv, HeldInv,
       TypeOK, HandleInv, Nulls, Live, Handles, Owned, os
  <2>. QED BY <2>1, <2>2, <2>3, <2>4, <2>5
<1>. QED BY <1>1, <1>2, <1>3, <1>4, <1>5, <1>6, <1>7 DEF CreateSuspended

(* The steps of the constructor of the boundary.                            *)
LEMMA SetUpInv == IInv /\ SetUp => IInv'
<1> SUFFICES ASSUME IInv, SetUp PROVE IInv'
  OBVIOUS
<1> USE DEF IInv, GoTo
<1>1. CASE CreateJob
  <2>1. HandleInv'
    BY <1>1, OpenedFacts DEF CreateJob, HandleInv, HeldInv, Nulls, Live, Handles,
       Owned, os
  <2>2. TypeOK'
    BY <1>1, <2>1 DEF CreateJob, TypeOK, Labels, HandleInv, HeldInv, Owned, os
  <2>3. HeldInv'
    BY <1>1 DEF CreateJob, HeldInv, Owned, os
  <2>4. SuspendedInv'
    BY <1>1, OpenedFacts DEF CreateJob, SuspendedInv, JobInv, HeldInv, Swept,
       HandleInv, Nulls, Live, Handles, Owned, os
  <2>5. JobInv'
    BY <1>1, OpenedFacts DEF CreateJob, JobInv, SuspendedInv, HeldInv, TypeOK,
       HandleInv, Nulls, Live, Handles, Owned, os
  <2>. QED BY <2>1, <2>2, <2>3, <2>4, <2>5
<1>2. CASE CreateJobFails \/ SetLimits \/ Assign \/ SetupFails
  <2>1. HandleInv'
    BY <1>2 DEF CreateJobFails, SetLimits, Assign, SetupFails, HandleInv, HeldInv,
       Nulls, Live, Handles, Owned, os
  <2>2. TypeOK'
    BY <1>2, <2>1 DEF CreateJobFails, SetLimits, Assign, SetupFails, TypeOK, Labels,
       HandleInv, HeldInv, Owned, os
  <2>3. HeldInv'
    BY <1>2 DEF CreateJobFails, SetLimits, Assign, SetupFails, HeldInv, Owned, os
  <2>4. SuspendedInv'
    BY <1>2 DEF CreateJobFails, SetLimits, Assign, SetupFails, SuspendedInv, JobInv,
       HeldInv, Swept, HandleInv, Nulls, Live, Handles, Owned, os
  <2>5. JobInv'
    BY <1>2 DEF CreateJobFails, SetLimits, Assign, SetupFails, JobInv, SuspendedInv,
       HeldInv, TypeOK, HandleInv, Nulls, Live, Handles, Owned, os
  <2>. QED BY <2>1, <2>2, <2>3, <2>4, <2>5
<1>3. CASE Resume
  <2>1. HandleInv'
    BY <1>3 DEF Resume, HandleInv, HeldInv, Nulls, Live, Handles, Owned, os
  <2>2. TypeOK'
    BY <1>3, <2>1 DEF Resume, TypeOK, Labels, HandleInv, HeldInv, Owned, os
  <2>3. HeldInv'
    BY <1>3 DEF Resume, HeldInv, Owned, os
  <2>4. SuspendedInv'
    BY <1>3 DEF Resume, SuspendedInv, JobInv, HeldInv, Swept, HandleInv, Nulls, Live,
       Handles, Owned, os
  <2>5. JobInv'
    BY <1>3 DEF Resume, JobInv, SuspendedInv, HeldInv, TypeOK, HandleInv, Nulls, Live,
       Handles, Owned, os
  <2>. QED BY <2>1, <2>2, <2>3, <2>4, <2>5
<1>4. ASSUME NEW kills \in BOOLEAN, NEW stuck \in SUBSET Handles, Undo(kills, stuck)
      PROVE  IInv'
  <2>1. HandleInv'
    BY <1>4, ClosedFacts DEF Undo, Sweep, JobKills, HandleInv, HeldInv, Nulls, Live,
       Handles, Owned
  <2>2. TypeOK'
    BY <1>4, <2>1 DEF Undo, Sweep, TypeOK, Labels, HandleInv
  <2>3. HeldInv'
    BY <1>4 DEF Undo, HeldInv
  <2>4. "process" \in held /\ handle["job"] = "open" /\ "job" \in held
    BY <1>4 DEF Undo, HandleInv, HeldInv, Live, Handles, Owned
  <2>5. handle'["job"] = "closed" => "job" \in held \ stuck
    BY <1>4, <2>4 DEF Undo, Sweep, Closed, Handles
  <2>6. SuspendedInv'
    BY <1>4, <2>4, <2>5 DEF Undo, Sweep, JobKills, SuspendedInv, JobInv, Swept, Owned
  <2>7. JobInv'
    BY <1>4 DEF Undo, Sweep, JobInv
  <2>. QED BY <2>1, <2>2, <2>3, <2>6, <2>7
<1>5. ASSUME NEW kills \in BOOLEAN, NEW stuck \in SUBSET Handles,
             CleanupPartialStart(kills, stuck)
      PROVE  IInv'
  <2>1. HandleInv'
    BY <1>5, ClosedFacts DEF CleanupPartialStart, Sweep, HandleInv, HeldInv, Nulls,
       Live, Handles, Owned
  <2>2. TypeOK'
    BY <1>5, <2>1 DEF CleanupPartialStart, Sweep, TypeOK, Labels, HandleInv
  <2>3. HeldInv'
    BY <1>5 DEF CleanupPartialStart, HeldInv
  <2>4. ~JobKills(held \cap Owned, stuck) /\ handle'["job"] = handle["job"]
    BY <1>5 DEF CleanupPartialStart, Sweep, JobKills, Closed, Handles, Owned
  <2>5. ASSUME held = Owned PROVE SuspendedInv'
    BY <1>5, <2>4, <2>5 DEF CleanupPartialStart, Sweep, SuspendedInv, JobInv, Swept,
       Owned
  <2>6. ASSUME held = {} PROVE SuspendedInv'
    BY <1>5, <2>4, <2>6 DEF CleanupPartialStart, Sweep, SuspendedInv, JobInv, Swept,
       Owned
  <2>7. SuspendedInv'
    BY <1>5, <2>5, <2>6 DEF CleanupPartialStart, HeldInv
  <2>8. JobInv'
    BY <1>5 DEF CleanupPartialStart, Sweep, JobInv
  <2>. QED BY <2>1, <2>2, <2>3, <2>7, <2>8
<1>. QED BY <1>1, <1>2, <1>3, <1>4, <1>5 DEF SetUp

(* The boundary in use.                                                     *)
LEMMA UseInv == IInv /\ Use => IInv'
<1> SUFFICES ASSUME IInv, Use PROVE IInv'
  OBVIOUS
<1> USE DEF IInv, GoTo
<1>1. CASE ConfirmTermination
  <2>1. HandleInv'
    BY <1>1 DEF ConfirmTermination, ActiveProcesses, HandleInv, HeldInv, Nulls, Live,
       Handles, Owned, os
  <2>2. TypeOK'
    BY <1>1, <2>1 DEF ConfirmTermination, ActiveProcesses, TypeOK, Labels, HandleInv,
       HeldInv, Owned, os
  <2>3. HeldInv'
    BY <1>1 DEF ConfirmTermination, ActiveProcesses, HeldInv, Owned, os
  <2>4. SuspendedInv'
    BY <1>1 DEF ConfirmTermination, ActiveProcesses, SuspendedInv, JobInv, HeldInv,
       Swept, HandleInv, Nulls, Live, Handles, Owned, os
  <2>5. JobInv'
    BY <1>1 DEF ConfirmTermination, ActiveProcesses, JobInv, SuspendedInv, HeldInv,
       TypeOK, HandleInv, Nulls, Live, Handles, Owned, os
  <2>. QED BY <2>1, <2>2, <2>3, <2>4, <2>5
<1>2. CASE TerminateTree
  <2>1. HandleInv'
    BY <1>2 DEF TerminateTree, HandleInv, HeldInv, Nulls, Live, Handles, Owned, os
  <2>2. TypeOK'
    BY <1>2, <2>1 DEF TerminateTree, TypeOK, Labels, HandleInv, HeldInv, Owned, os
  <2>3. HeldInv'
    BY <1>2 DEF TerminateTree, HeldInv, Owned, os
  <2>4. SuspendedInv'
    BY <1>2 DEF TerminateTree, SuspendedInv, JobInv, HeldInv, Swept, HandleInv, Nulls,
       Live, Handles, Owned, os
  <2>5. JobInv'
    BY <1>2 DEF TerminateTree, JobInv, SuspendedInv, HeldInv, TypeOK, HandleInv,
       Nulls, Live, Handles, Owned, os
  <2>. QED BY <2>1, <2>2, <2>3, <2>4, <2>5
<1>3. ASSUME NEW stuck \in SUBSET Handles, Close(stuck) PROVE IInv'
  <2>1. HandleInv'
    BY <1>3, ClosedFacts DEF Close, HandleInv, HeldInv, Nulls, Live, Handles, Owned
  <2>2. TypeOK'
    BY <1>3, <2>1 DEF Close, TypeOK, Labels, HandleInv
  <2>3. HeldInv' /\ SuspendedInv'
    BY <1>3 DEF Close, HeldInv, SuspendedInv
  <2>4. handle["job"] = "open" /\ "job" \in held
    BY <1>3 DEF Close, HandleInv, HeldInv, Live, Handles, Owned
  <2>5. handle'["job"] = "closed" => "job" \in held \ stuck
    BY <1>3, <2>4 DEF Close, Closed, Handles
  <2>6. JobInv'
    BY <1>3, <2>4, <2>5 DEF Close, JobKills, JobInv
  <2>. QED BY <2>1, <2>2, <2>3, <2>6
<1>. QED BY <1>1, <1>2, <1>3 DEF Use

(* The processes at their own pace.                                         *)
LEMMA EnvironmentInv == IInv /\ Environment => IInv'
<1> SUFFICES ASSUME IInv, Environment PROVE IInv'
  OBVIOUS
<1> USE DEF IInv, GoTo
<1>1. CASE Spawn
  <2>1. HandleInv'
    BY <1>1 DEF Spawn, HandleInv, HeldInv, Nulls, Live, Handles, Owned, os
  <2>2. TypeOK'
    BY <1>1, <2>1, MaxKidsAssumption DEF Spawn, TypeOK, Labels, SuspendedInv, JobInv
  <2>3. HeldInv'
    BY <1>1 DEF Spawn, HeldInv, Owned, os
  <2>4. SuspendedInv'
    BY <1>1 DEF Spawn, SuspendedInv, JobInv, HeldInv, Swept, HandleInv, Nulls, Live,
       Handles, Owned, os
  <2>5. JobInv'
    BY <1>1 DEF Spawn, JobInv, SuspendedInv, HeldInv, TypeOK, HandleInv, Nulls, Live,
       Handles, Owned, os
  <2>. QED BY <2>1, <2>2, <2>3, <2>4, <2>5
<1>2. CASE KidEnds
  <2>1. HandleInv'
    BY <1>2 DEF KidEnds, HandleInv, HeldInv, Nulls, Live, Handles, Owned, os
  <2>2. TypeOK'
    BY <1>2, <2>1, MaxKidsAssumption DEF KidEnds, TypeOK, Labels, HandleInv, HeldInv,
       Owned, os
  <2>3. HeldInv'
    BY <1>2 DEF KidEnds, HeldInv, Owned, os
  <2>4. SuspendedInv'
    BY <1>2 DEF KidEnds, SuspendedInv, JobInv, HeldInv, Swept, HandleInv, Nulls, Live,
       Handles, Owned, os
  <2>5. JobInv'
    BY <1>2 DEF KidEnds, JobInv, SuspendedInv, HeldInv, TypeOK, HandleInv, Nulls,
       Live, Handles, Owned, os
  <2>. QED BY <2>1, <2>2, <2>3, <2>4, <2>5
<1>3. CASE WorkerEnds
  <2>1. HandleInv'
    BY <1>3 DEF WorkerEnds, HandleInv, HeldInv, Nulls, Live, Handles, Owned, os
  <2>2. TypeOK'
    BY <1>3, <2>1 DEF WorkerEnds, TypeOK, Labels, HandleInv, HeldInv, Owned, os
  <2>3. HeldInv'
    BY <1>3 DEF WorkerEnds, HeldInv, Owned, os
  <2>4. SuspendedInv'
    BY <1>3 DEF WorkerEnds, SuspendedInv, JobInv, HeldInv, Swept, HandleInv, Nulls,
       Live, Handles, Owned, os
  <2>5. JobInv'
    BY <1>3 DEF WorkerEnds, JobInv, SuspendedInv, HeldInv, TypeOK, HandleInv, Nulls,
       Live, Handles, Owned, os
  <2>. QED BY <2>1, <2>2, <2>3, <2>4, <2>5
<1>. QED BY <1>1, <1>2, <1>3 DEF Environment

THEOREM BoundaryInvariance == Spec => []IInv
<1>1. IInv /\ [Next]_vars => IInv'
  <2>1. CASE UNCHANGED vars
    BY <2>1 DEF vars, os, IInv, TypeOK, HandleInv, HeldInv, SuspendedInv, JobInv,
       Swept, Nulls, Live
  <2>. QED BY <2>1, CreateSuspendedInv, SetUpInv, UseInv, EnvironmentInv DEF Next
<1>. QED BY InitInv, <1>1, PTL DEF Spec

(* Type correctness, and no process of the tree is outside the job.         *)
THEOREM BoundaryTypeCorrectness == Spec => []TypeOK
<1>1. IInv => TypeOK
  BY DEF IInv
<1>. QED BY <1>1, BoundaryInvariance, PTL

(* Whichever call fails, every handle is closed once and none twice.        *)
THEOREM HandlesAlwaysSettle == Spec => []HandlesSettle
<1>1. IInv => HandlesSettle
  BY DEF IInv, HandleInv, HeldInv, HandlesSettle, Nulls, Live
<1>. QED BY <1>1, BoundaryInvariance, PTL

(* Whichever call fails, the suspended worker is swept.                     *)
THEOREM FailedStartsAreSwept == Spec => []FailedStartIsSwept
<1>1. IInv => FailedStartIsSwept
  BY DEF IInv, SuspendedInv, Swept, FailedStartIsSwept
<1>. QED BY <1>1, BoundaryInvariance, PTL

(* A closed job leaves nothing that is not being killed.                    *)
THEOREM ClosedIsAlwaysDoomed == Spec => []ClosedIsDoomed
<1>1. IInv => ClosedIsDoomed
  BY DEF IInv, JobInv, ClosedIsDoomed
<1>. QED BY <1>1, BoundaryInvariance, PTL

(* Every step of the boundary is one of its contract, or a stutter.         *)
THEOREM ContractIsImplemented == Spec => ImplementsContract
<1>1. Init => Contract!Init
  BY DEF Init, Contract!Init, Phase, Tree
<1>2. IInv /\ IInv' /\ [Next]_vars => [Contract!Next]_Contract!contractVars
  <2> SUFFICES ASSUME IInv, IInv', [Next]_vars
               PROVE  [Contract!Next]_Contract!contractVars
    OBVIOUS
  <2> USE DEF Contract!contractVars, Phase, Tree
  <2>1. CASE CreateSuspended
    BY <2>1 DEF CreateSuspended, OpenInput, Prepare, OpenOutput, CreateProcess,
       CreateProcessFails, Adopt, OpenOutputFails, Release, AdoptFails, Abandon, Sweep, GoTo,
       os, IInv, SuspendedInv, Contract!Next, Contract!Fail
  <2>2. CASE SetUp
    BY <2>2 DEF SetUp, CreateJob, CreateJobFails, SetLimits, Assign, Resume,
       SetupFails, Undo,
       CleanupPartialStart, Sweep, GoTo, os, IInv, SuspendedInv, Contract!Next,
       Contract!Fail, Contract!Start
  <2>3. CASE Use
    BY <2>3 DEF Use, ConfirmTermination, TerminateTree, Close, ActiveProcesses, GoTo,
       os, IInv, TypeOK, SuspendedInv, JobInv, Contract!Next, Contract!Confirm, Contract!Close
  <2>4. CASE Environment
    BY <2>4 DEF Environment, Spawn, KidEnds, WorkerEnds, IInv, TypeOK, SuspendedInv,
       JobInv,
       Contract!Next, Contract!TreeDies
  <2>5. CASE UNCHANGED vars
    BY <2>5 DEF vars, os
  <2>. QED BY <2>1, <2>2, <2>3, <2>4, <2>5 DEF Next
<1>. QED BY <1>1, <1>2, BoundaryInvariance, PTL DEF Spec, ImplementsContract, Contract!Spec
=================================================================================
