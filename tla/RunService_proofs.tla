---------------------------- MODULE RunService_proofs ---------------------------
(***************************************************************************)
(* Proofs about RunService, for any number of requests.                     *)
(***************************************************************************)
EXTENDS RunService, TLAPS

Starting == {"new", "acquire", "create", "config", "start"}
Running  == {"wait", "confirm", "read", "terminate", "wait_for_root", "recheck"}
Closing  == {"close", "dispose"}
Over     == {"unlock", "answer", "done"}

(* Nothing has happened yet.                                                *)
StartingInv(r) ==
  /\ pc[r] \in Starting =>
       /\ ~created[r] /\ ~confirmed[r] /\ outcome[r] = "success" /\ worker[r] = "none"
       /\ root[r] = IF pc[r] \in {"config", "start"} THEN "present" ELSE "none"
  /\ At(r, "new") => ~parent[r]

(* A worker is supervised; the outcome is a success until something breaks. *)
RunningInv(r) ==
  /\ pc[r] \in Running =>
       created[r] /\ root[r] = "present" /\ (confirmed[r] <=> At(r, "read"))
  /\ pc[r] \in {"wait", "confirm", "read"} => outcome[r] = "success"
  /\ pc[r] \in {"confirm", "read", "recheck"} => worker[r] = "gone"
  /\ pc[r] \in {"confirm", "read"} => ~late[r]
  /\ pc[r] \in {"terminate", "wait_for_root", "recheck"} =>
       /\ attempt[r] \in {"timeout", "worker_lifecycle_invalid", "final"}
       /\ attempt[r] = "final" => outcome[r] # "success"

(* What was confirmed dead is dead, and stays so.                           *)
ConfirmedInv(r) ==
  confirmed[r] => created[r] /\ worker[r] = "gone" /\ child[r] # "grouped"

(* How the run ended is settled when its handles are closed.                *)
SettledInv(r) ==
  pc[r] \in Closing \cup Over =>
    /\ created[r] /\ ~confirmed[r] => outcome[r] = "termination_unconfirmed"
    /\ created[r] /\ outcome[r] = "success" =>
         confirmed[r] /\ result[r] = "valid" /\ ~late[r]
    /\ created[r] => root[r] \notin {"none", "leaked"}

(* What is left on disk, and what is said of it.                            *)
DiskInv(r) ==
  /\ pc[r] \in Closing => root[r] \in {"none", "leaked", "present"}
  /\ root[r] = "leaked" => outcome[r] = "cleanup_failed" /\ ~created[r]
  /\ pc[r] \in Over /\ root[r] \notin {"none", "deleted"} => outcome[r] \in Retained
  /\ root[r] = "deleted" => pc[r] \in Over /\ (created[r] => confirmed[r])
  /\ pc[r] \in Over /\ created[r] /\ outcome[r] = "success" => root[r] = "deleted"
  /\ At(r, "done") /\ parent[r] => outcome[r] \in Retained

RequestInv(r) ==
  StartingInv(r) /\ RunningInv(r) /\ ConfirmedInv(r) /\ SettledInv(r) /\ DiskInv(r)

(* The strengthening that every step preserves.                             *)
IInv == TypeOK /\ \A r \in Requests : RequestInv(r)

-----------------------------------------------------------------------------
(* The preference: an error replaces the success, nothing replaces an       *)
(* unconfirmed termination, a failed cleanup only gives way to one.         *)
LEMMA PreferredFacts ==
  ASSUME NEW o \in Outcomes, NEW c \in Outcomes \ {"success", "busy"}
  PROVE  /\ Preferred(o, c) \in Outcomes
         /\ Preferred(o, c) \in {o, c}
         /\ Preferred("success", c) = c
         /\ Preferred(o, "termination_unconfirmed") = "termination_unconfirmed"
         /\ Preferred("termination_unconfirmed", c) = "termination_unconfirmed"
         /\ Preferred(o, "cleanup_failed") \in Retained
         /\ o \in Retained => Preferred(o, c) \in Retained
<1>1. /\ \A x \in Outcomes : Rank[x] \in 0 .. 3
      /\ \A x \in Outcomes : Rank[x] = 0 <=> x = "termination_unconfirmed"
      /\ \A x \in Outcomes : Rank[x] = 1 <=> x = "cleanup_failed"
      /\ \A x \in Outcomes : Rank[x] = 3 <=> x \in {"success", "busy"}
  BY DEF Rank, Outcomes
<1>2. /\ "termination_unconfirmed" \in Outcomes
      /\ "cleanup_failed" \in Outcomes
      /\ "success" \in Outcomes
  BY DEF Outcomes
<1>. QED BY <1>1, <1>2 DEF Preferred, Retained

(* A step of one request, or of its processes, leaves the others alone.     *)
Others(r) ==
  \A q \in Requests \ {r} :
    /\ pc'[q] = pc[q] /\ attempt'[q] = attempt[q] /\ outcome'[q] = outcome[q]
    /\ created'[q] = created[q] /\ confirmed'[q] = confirmed[q] /\ late'[q] = late[q]
    /\ parent'[q] = parent[q] /\ root'[q] = root[q]
    /\ worker'[q] = worker[q] /\ child'[q] = child[q]
    /\ killed'[q] = killed[q] /\ result'[q] = result[q]

(* ... and so their invariants.                                             *)
LEMMA OthersKept ==
  ASSUME NEW r \in Requests, Others(r), \A q \in Requests : RequestInv(q), RequestInv(r)'
  PROVE  \A q \in Requests : RequestInv(q)'
<1>. SUFFICES ASSUME NEW q \in Requests \ {r}
              PROVE  RequestInv(q)'
  OBVIOUS
<1>1. /\ pc'[q] = pc[q] /\ attempt'[q] = attempt[q] /\ outcome'[q] = outcome[q]
      /\ created'[q] = created[q] /\ confirmed'[q] = confirmed[q] /\ late'[q] = late[q]
      /\ parent'[q] = parent[q] /\ root'[q] = root[q]
      /\ worker'[q] = worker[q] /\ child'[q] = child[q] /\ result'[q] = result[q]
  BY DEF Others
<1>2. RequestInv(q)
  OBVIOUS
<1>3. StartingInv(q)' /\ RunningInv(q)'
  BY <1>1, <1>2 DEF RequestInv, StartingInv, RunningInv, At
<1>4. ConfirmedInv(q)' /\ SettledInv(q)'
  BY <1>1, <1>2 DEF RequestInv, ConfirmedInv, SettledInv
<1>5. DiskInv(q)'
  BY <1>1, <1>2 DEF RequestInv, DiskInv, At
<1>. QED BY <1>3, <1>4, <1>5 DEF RequestInv

(* A thread that holds the lock and keeps it.                               *)
Moves(r) ==
  lock' = lock /\ pc[r] \in Holding /\ \E label \in Holding : pc' = [pc EXCEPT ![r] = label]

(* ... leaves the lock to whom it belongs.                                  *)
LEMMA LockKept ==
  ASSUME TypeOK, NEW r \in Requests, Moves(r)
  PROVE  /\ pc' \in [Requests -> Labels]
         /\ \A q \in Requests : pc'[q] \in Holding <=> lock' = q
<1>1. PICK label \in Holding : pc' = [pc EXCEPT ![r] = label]
  BY DEF Moves
<1>2. label \in Labels /\ pc \in [Requests -> Labels]
  BY DEF TypeOK, Holding
<1>3. \A q \in Requests : pc'[q] \in Holding <=> pc[q] \in Holding
  BY <1>1, <1>2 DEF Moves
<1>. QED BY <1>1, <1>2, <1>3 DEF Moves, TypeOK

-----------------------------------------------------------------------------
(* The initial state satisfies the strengthening.                           *)
LEMMA InitInv == Init => IInv
<1>. SUFFICES ASSUME Init PROVE IInv
  OBVIOUS
<1>1. TypeOK
  BY FreeAssumption DEF Init, TypeOK, Labels, Holding, Outcomes
<1>2. \A r \in Requests : RequestInv(r)
  BY DEF Init, RequestInv, StartingInv, RunningInv, ConfirmedInv, SettledInv, DiskInv,
         At, Starting, Running, Closing, Over
<1>. QED BY <1>1, <1>2 DEF IInv

(* Processes come and go; none joins a group that was seen dead.            *)
LEMMA EnvironmentInv ==
  ASSUME IInv, NEW r \in Requests, Environment(r)
  PROVE  IInv'
<1>1. TypeOK'
  BY DEF IInv, TypeOK, Environment, Fork, Detach, ChildEnds, ChildReaped, WriteResult,
         WorkerEnds, control, dirs
<1>2. Others(r)
  BY DEF IInv, TypeOK, Others, Environment, Fork, Detach, ChildEnds, ChildReaped,
         WriteResult, WorkerEnds, control, dirs
<1>3. RequestInv(r)'
  BY DEF IInv, TypeOK, RequestInv, StartingInv, RunningInv, ConfirmedInv, SettledInv,
         DiskInv, At, Environment, Fork, Detach, ChildEnds, ChildReaped, WriteResult,
         WorkerEnds, control, dirs, Starting, Running, Closing, Over
<1>. QED BY <1>1, <1>2, <1>3, OthersKept DEF IInv

-----------------------------------------------------------------------------
(* Up to the start of the worker nothing is settled; a failure closes a run *)
(* without a process.                                                       *)
LEMMA PrepareInv ==
  ASSUME IInv, NEW r \in Requests, Prepare(r)
  PROVE  IInv'
<1>. USE DEF GoTo, At
<1>1. Preferred("success", "internal") = "internal"
      /\ Preferred("success", "cleanup_failed") = "cleanup_failed"
  BY PreferredFacts DEF Outcomes
<1>2. pc[r] \in Starting /\ RequestInv(r)
  BY DEF IInv, Prepare, Reject, Accept, Acquire, Busy, CreateRoot, CreateRootFails,
         LeakRoot, WriteConfig, WriteConfigFails, StartWorker, StartWorkerFails, Starting
<1>3. outcome[r] = "success"
  BY <1>2 DEF RequestInv, StartingInv
<1>4. CASE Reject(r) \/ Accept(r) \/ Acquire(r) \/ Busy(r)
  <2>1. TypeOK'
    <3>1. CASE Reject(r) \/ Accept(r) \/ Busy(r)
      <4>1. outcome' \in [Requests -> Outcomes] /\ parent' \in [Requests -> BOOLEAN]
        BY <3>1 DEF IInv, TypeOK, Reject, Accept, Busy, dirs, Outcomes
      <4>2. /\ pc' \in [Requests -> Labels]
            /\ \A q \in Requests : pc'[q] \in Holding <=> lock' = q
        BY <3>1 DEF IInv, TypeOK, Reject, Accept, Busy, Labels, Holding
      <4>. QED BY <3>1, <4>1, <4>2 DEF IInv, TypeOK, Reject, Accept, Busy, dirs, procs
    <3>2. CASE Acquire(r)
      <4>1. /\ pc' \in [Requests -> Labels]
            /\ \A q \in Requests : pc'[q] \in Holding <=> lock' = q
        BY <3>2, FreeAssumption DEF IInv, TypeOK, Acquire, Labels, Holding
      <4>. QED BY <3>2, <4>1 DEF IInv, TypeOK, Acquire, dirs, procs
    <3>. QED BY <1>4, <3>1, <3>2
  <2>2. Others(r)
    BY <1>4 DEF IInv, TypeOK, Others, Reject, Accept, Acquire, Busy, dirs, procs
  <2>3. RequestInv(r)'
    BY <1>2, <1>4 DEF IInv, TypeOK, RequestInv, StartingInv, RunningInv, ConfirmedInv,
       SettledInv, DiskInv, Reject, Accept, Acquire, Busy, dirs, procs,
       Starting, Running, Closing, Over
  <2>. QED BY <2>1, <2>2, <2>3, OthersKept DEF IInv
<1>5. CASE CreateRoot(r) \/ CreateRootFails(r) \/ LeakRoot(r)
  <2>1. TypeOK'
    <3>1. Moves(r)
      BY <1>5 DEF Moves, CreateRoot, CreateRootFails, LeakRoot,
         BeginTermination, NoProcess, Holding, Labels
    <3>. QED BY <1>1, <1>3, <1>5, <3>1, LockKept
         DEF IInv, TypeOK, CreateRoot, CreateRootFails, LeakRoot,
             NoProcess, Prefer, Outcomes, dirs, procs
  <2>2. Others(r)
    BY <1>5 DEF IInv, TypeOK, Others, CreateRoot, CreateRootFails, LeakRoot, NoProcess,
       Prefer, dirs, procs
  <2>3. RequestInv(r)'
    BY <1>1, <1>2, <1>3, <1>5 DEF IInv, TypeOK, RequestInv, StartingInv, RunningInv,
       ConfirmedInv, SettledInv, DiskInv, CreateRoot, CreateRootFails, LeakRoot, NoProcess,
       Prefer, dirs, procs, Starting, Running, Closing, Over
  <2>. QED BY <2>1, <2>2, <2>3, OthersKept DEF IInv
<1>6. CASE WriteConfig(r) \/ WriteConfigFails(r) \/ StartWorker(r)
             \/ \E left \in {"none", "running", "gone"} : StartWorkerFails(r, left)
  <2>1. TypeOK'
    <3>1. Moves(r)
      BY <1>6 DEF Moves, WriteConfig, WriteConfigFails, StartWorker, StartWorkerFails,
         BeginTermination, NoProcess, Holding, Labels
    <3>2. outcome' = outcome \/ outcome' = [outcome EXCEPT ![r] = "internal"]
      BY <1>1, <1>3, <1>6
         DEF WriteConfig, WriteConfigFails, StartWorker, StartWorkerFails, NoProcess, Prefer
    <3>3. /\ worker' = worker \/ \E left \in {"none", "running", "gone"} :
                                   worker' = [worker EXCEPT ![r] = left]
          /\ created' = created \/ created' = [created EXCEPT ![r] = TRUE]
      BY <1>6 DEF WriteConfig, WriteConfigFails, StartWorker, StartWorkerFails, procs
    <3>4. outcome' \in [Requests -> Outcomes]
      BY <3>2 DEF IInv, TypeOK, Outcomes
    <3>5. /\ worker' \in [Requests -> {"none", "running", "zombie", "gone"}]
          /\ created' \in [Requests -> BOOLEAN]
      <4>1. /\ worker \in [Requests -> {"none", "running", "zombie", "gone"}]
            /\ created \in [Requests -> BOOLEAN]
        BY DEF IInv, TypeOK
      <4>2. CASE worker' = worker
        BY <3>3, <4>1, <4>2
      <4>3. CASE \E left \in {"none", "running", "gone"} : worker' = [worker EXCEPT ![r] = left]
        BY <3>3, <4>1, <4>3
      <4>. QED BY <3>3, <4>2, <4>3
    <3>. QED BY <1>6, <3>1, <3>4, <3>5, LockKept
         DEF IInv, TypeOK, WriteConfig, WriteConfigFails, StartWorker, StartWorkerFails,
             dirs, procs
  <2>2. Others(r)
    BY <1>6 DEF IInv, TypeOK, Others, WriteConfig, WriteConfigFails, StartWorker,
       StartWorkerFails, NoProcess, Prefer, dirs, procs
  <2>3. RequestInv(r)'
    BY <1>1, <1>2, <1>3, <1>6 DEF IInv, TypeOK, RequestInv, StartingInv, RunningInv,
       ConfirmedInv, SettledInv, DiskInv, WriteConfig, WriteConfigFails, StartWorker,
       StartWorkerFails, NoProcess, Prefer, dirs, procs, Starting, Running, Closing, Over
  <2>. QED BY <2>1, <2>2, <2>3, OthersKept DEF IInv
<1>. QED BY <1>4, <1>5, <1>6 DEF Prepare

(* Waiting for the worker, the check that follows its exit and the reading  *)
(* of its result.                                                           *)
LEMMA WaitInv ==
  ASSUME IInv, NEW r \in Requests,
         Deadline(r) \/ WorkerExits(r) \/ DeadlineExceeded(r) \/ WaitFails(r)
           \/ ConfirmExit(r) \/ DescendantsAlive(r) \/ ReadResult(r)
           \/ TerminateTree(r) \/ RootExited(r)
  PROVE  IInv'
<1>. USE DEF GoTo, At
<1>1. Preferred("success", "internal") = "internal"
      /\ Preferred("success", "trace_incomplete") = "trace_incomplete"
  BY PreferredFacts DEF Outcomes
<1>2. RequestInv(r)
  BY DEF IInv
<1>3. CASE WorkerExits(r) \/ DeadlineExceeded(r) \/ WaitFails(r)
  <2>0. outcome[r] = "success"
    BY <1>2, <1>3 DEF RequestInv, RunningInv, WorkerExits, DeadlineExceeded, WaitFails
  <2>1. TypeOK'
    <3>1. Moves(r)
      BY <1>3 DEF Moves, WorkerExits, DeadlineExceeded, WaitFails,
         BeginTermination, NoProcess, Holding, Labels
    <3>2. outcome' \in [Requests -> Outcomes]
      BY <1>1, <1>3, <2>0
         DEF IInv, TypeOK, WorkerExits, DeadlineExceeded, WaitFails, Prefer, Outcomes
    <3>3. /\ attempt' \in [Requests -> {"none", "timeout", "worker_lifecycle_invalid", "final"}]
          /\ worker' \in [Requests -> {"none", "running", "zombie", "gone"}]
      BY <1>3 DEF IInv, TypeOK, WorkerExits, DeadlineExceeded, WaitFails, BeginTermination,
         Reaped, procs
    <3>. QED BY <1>3, <3>1, <3>2, <3>3, LockKept
         DEF IInv, TypeOK, WorkerExits, DeadlineExceeded, WaitFails, dirs, procs
  <2>2. Others(r)
    BY <1>3 DEF IInv, TypeOK, Others, WorkerExits, DeadlineExceeded, WaitFails,
       BeginTermination, Prefer, dirs, procs
  <2>3. RequestInv(r)'
    BY <1>1, <1>2, <1>3, <2>0 DEF IInv, TypeOK, RequestInv, StartingInv, RunningInv,
       ConfirmedInv, SettledInv, DiskInv, WorkerExits, DeadlineExceeded, WaitFails,
       BeginTermination, Reaped, Prefer, dirs, procs, Starting, Running, Closing, Over
  <2>. QED BY <2>1, <2>2, <2>3, OthersKept DEF IInv
<1>4. CASE ConfirmExit(r) \/ DescendantsAlive(r) \/ ReadResult(r)
  <2>0. outcome[r] = "success"
    BY <1>2, <1>4 DEF RequestInv, RunningInv, ConfirmExit, DescendantsAlive, ReadResult
  <2>1. TypeOK'
    <3>1. Moves(r)
      BY <1>4 DEF Moves, ConfirmExit, DescendantsAlive, ReadResult,
         BeginTermination, NoProcess, Holding, Labels
    <3>2. outcome' \in [Requests -> Outcomes]
      BY <1>1, <1>4, <2>0
         DEF IInv, TypeOK, ConfirmExit, DescendantsAlive, ReadResult, Prefer, Outcomes
    <3>3. /\ attempt' \in [Requests -> {"none", "timeout", "worker_lifecycle_invalid", "final"}]
          /\ confirmed' \in [Requests -> BOOLEAN]
      BY <1>4 DEF IInv, TypeOK, ConfirmExit, DescendantsAlive, ReadResult, BeginTermination
    <3>. QED BY <1>4, <3>1, <3>2, <3>3, LockKept
         DEF IInv, TypeOK, ConfirmExit, DescendantsAlive, ReadResult, dirs, procs
  <2>2. Others(r)
    BY <1>4 DEF IInv, TypeOK, Others, ConfirmExit, DescendantsAlive, ReadResult,
       BeginTermination, Prefer, dirs, procs
  <2>3. RequestInv(r)'
    BY <1>1, <1>2, <1>4, <2>0 DEF IInv, TypeOK, RequestInv, StartingInv, RunningInv,
       ConfirmedInv, SettledInv, DiskInv, ConfirmExit, DescendantsAlive, ReadResult,
       GroupSeenDead, BeginTermination, Prefer, dirs, procs, Starting, Running, Closing, Over
  <2>. QED BY <2>1, <2>2, <2>3, OthersKept DEF IInv
<1>5. CASE TerminateTree(r) \/ RootExited(r)
  <2>1. TypeOK'
    <3>1. Moves(r)
      BY <1>5 DEF Moves, TerminateTree, RootExited,
         BeginTermination, NoProcess, Holding, Labels
    <3>. QED BY <1>5, <3>1, LockKept
         DEF IInv, TypeOK, TerminateTree, RootExited,
             dirs, procs
  <2>2. Others(r)
    BY <1>5 DEF IInv, TypeOK, Others, TerminateTree, RootExited, dirs, procs
  <2>3. RequestInv(r)'
    BY <1>2, <1>5 DEF IInv, TypeOK, RequestInv, StartingInv, RunningInv, ConfirmedInv,
       SettledInv, DiskInv, TerminateTree, RootExited, dirs, procs,
       Starting, Running, Closing, Over
  <2>. QED BY <2>1, <2>2, <2>3, OthersKept DEF IInv
<1>6. CASE Deadline(r)
  <2>1. TypeOK'
    BY <1>6 DEF IInv, TypeOK, Deadline, dirs, procs
  <2>2. Others(r)
    BY <1>6 DEF IInv, TypeOK, Others, Deadline, dirs, procs
  <2>3. RequestInv(r)'
    BY <1>2, <1>6 DEF IInv, TypeOK, RequestInv, StartingInv, RunningInv, ConfirmedInv,
       SettledInv, DiskInv, Deadline, dirs, procs, Starting, Running, Closing, Over
  <2>. QED BY <2>1, <2>2, <2>3, OthersKept DEF IInv
<1>. QED BY <1>3, <1>4, <1>5, <1>6

(* A termination attempt ends confirmed, is repeated, or is reported.       *)
LEMMA SettleInv ==
  ASSUME IInv, NEW r \in Requests,
         TerminateFails(r) \/ RootStays(r) \/ (\E dead \in BOOLEAN : Recheck(r, dead))
  PROVE  IInv'
<1>. USE DEF GoTo, At
<1>1. PICK dead \in BOOLEAN :
        /\ Settle(r, dead)
        /\ pc[r] \in {"terminate", "wait_for_root", "recheck"}
        /\ dead => GroupSeenDead(r) /\ At(r, "recheck")
        /\ worker' = worker \/ worker' = [worker EXCEPT ![r] = Reaped(@)]
        /\ dead => worker' = worker
        /\ UNCHANGED <<lock, created, late, dirs, child, killed, result>>
  <2>1. CASE TerminateFails(r) \/ RootStays(r)
    <3>1. /\ Settle(r, FALSE)
          /\ pc[r] \in {"terminate", "wait_for_root", "recheck"}
          /\ worker' = worker \/ worker' = [worker EXCEPT ![r] = Reaped(@)]
          /\ UNCHANGED <<lock, created, late, dirs, child, killed, result>>
      BY <2>1 DEF TerminateFails, RootStays, procs
    <3>. QED BY <3>1
  <2>2. CASE \E dead \in BOOLEAN : Recheck(r, dead)
    <3>1. PICK dead \in BOOLEAN : Recheck(r, dead)
      BY <2>2
    <3>2. /\ Settle(r, dead)
          /\ pc[r] \in {"terminate", "wait_for_root", "recheck"}
          /\ dead => GroupSeenDead(r) /\ At(r, "recheck")
          /\ worker' = worker
          /\ UNCHANGED <<lock, created, late, dirs, child, killed, result>>
      BY <3>1 DEF Recheck, procs
    <3>. QED BY <3>2
  <2>. QED BY <2>1, <2>2
<1>2. RequestInv(r)
  BY DEF IInv
<1>3. /\ created[r] /\ root[r] = "present" /\ ~confirmed[r]
      /\ attempt[r] \in {"timeout", "worker_lifecycle_invalid", "final"}
      /\ attempt[r] = "final" => outcome[r] # "success"
      /\ dead => worker[r] = "gone"
  BY <1>1, <1>2 DEF RequestInv, RunningInv, Running
<1>4. /\ outcome[r] \in Outcomes /\ outcome'[r] \in Outcomes
      /\ outcome' = [outcome EXCEPT ![r] = outcome'[r]]
      /\ dead => outcome'[r] # "success"
      /\ ~dead => outcome'[r] = "termination_unconfirmed"
  <2>1. outcome \in [Requests -> Outcomes]
    BY DEF IInv, TypeOK
  <2>2. CASE ~dead
    BY <1>1, <2>1, <2>2, PreferredFacts DEF Settle, Prefer, Outcomes
  <2>3. CASE dead /\ attempt[r] = "final"
    BY <1>1, <1>3, <2>1, <2>3 DEF Settle
  <2>4. CASE dead /\ attempt[r] # "final"
    <3>1. attempt[r] \in Outcomes \ {"success", "busy"}
      BY <1>3, <2>4 DEF Outcomes
    <3>2. /\ Preferred(outcome[r], attempt[r]) \in Outcomes
          /\ Preferred(outcome[r], attempt[r]) # "success"
      BY <2>1, <3>1, PreferredFacts
    <3>3. outcome' = [outcome EXCEPT ![r] = Preferred(outcome[r], attempt[r])]
      BY <1>1, <2>4 DEF Settle, Prefer
    <3>. QED BY <2>1, <2>4, <3>2, <3>3
  <2>. QED BY <2>2, <2>3, <2>4
<1>5. /\ pc' = [pc EXCEPT ![r] = pc'[r]] /\ pc'[r] \in {"close", "terminate"}
      /\ dead => pc'[r] = "close"
      /\ attempt' = [attempt EXCEPT ![r] = attempt'[r]]
      /\ pc'[r] = "terminate" => attempt'[r] = "final"
      /\ attempt'[r] \in {"timeout", "worker_lifecycle_invalid", "final"}
      /\ confirmed' = [confirmed EXCEPT ![r] = dead]
  BY <1>1, <1>3 DEF IInv, TypeOK, Settle, BeginTermination
<1>6. TypeOK'
  <2>1. \A q \in Requests : pc'[q] \in Holding <=> lock' = q
    BY <1>1, <1>5 DEF IInv, TypeOK, Holding, Labels
  <2>2. worker' \in [Requests -> {"none", "running", "zombie", "gone"}]
    BY <1>1 DEF IInv, TypeOK, Reaped
  <2>3. /\ pc' \in [Requests -> Labels]
        /\ attempt' \in [Requests -> {"none", "timeout", "worker_lifecycle_invalid", "final"}]
        /\ outcome' \in [Requests -> Outcomes]
    BY <1>4, <1>5 DEF IInv, TypeOK, Labels
  <2>4. confirmed' \in [Requests -> BOOLEAN]
    BY <1>5 DEF IInv, TypeOK
  <2>. QED BY <1>1, <2>1, <2>2, <2>3, <2>4 DEF IInv, TypeOK, dirs
<1>7. Others(r)
  BY <1>1, <1>4, <1>5 DEF IInv, TypeOK, Others, dirs
<1>8. RequestInv(r)'
  <2>1. /\ created'[r] /\ root'[r] = "present" /\ (confirmed'[r] <=> dead)
        /\ pc'[r] \in {"close", "terminate"} /\ (dead => pc'[r] = "close")
        /\ pc'[r] = "terminate" => attempt'[r] = "final"
        /\ dead => worker'[r] = "gone" /\ child'[r] # "grouped"
        /\ dead => outcome'[r] # "success"
        /\ ~dead => outcome'[r] = "termination_unconfirmed"
    BY <1>1, <1>3, <1>4, <1>5 DEF IInv, TypeOK, dirs, GroupSeenDead
  <2>. QED BY <2>1, <1>5 DEF RequestInv, StartingInv, RunningInv, ConfirmedInv, SettledInv,
       DiskInv, Starting, Running, Closing, Over
<1>. QED BY <1>6, <1>7, <1>8, OthersKept DEF IInv

(* The finally block keeps what was settled and reports what it leaves.     *)
LEMMA FinishInv ==
  ASSUME IInv, NEW r \in Requests, Finish(r)
  PROVE  IInv'
<1>. USE DEF GoTo, At
<1>1. RequestInv(r) /\ outcome \in [Requests -> Outcomes] /\ outcome[r] \in Outcomes
  BY DEF IInv, TypeOK
<1>2. \A c \in {"internal", "cleanup_failed", "termination_unconfirmed"} :
        /\ c \in Outcomes /\ Preferred(outcome[r], c) \in Outcomes
        /\ Preferred(outcome[r], c) # "success"
        /\ outcome[r] = "termination_unconfirmed" =>
             Preferred(outcome[r], c) = "termination_unconfirmed"
        /\ outcome[r] \in Retained => Preferred(outcome[r], c) \in Retained
        /\ c # "internal" => Preferred(outcome[r], c) \in Retained
  BY <1>1, PreferredFacts DEF Outcomes, Retained
<1>3. CASE \E fails \in BOOLEAN : Close(r, fails)
  <2>1. TypeOK'
    BY <1>2, <1>3 DEF IInv, TypeOK, Close, Prefer, dirs, procs, Labels, Holding
  <2>2. Others(r)
    BY <1>3 DEF IInv, TypeOK, Others, Close, Prefer, dirs, procs
  <2>3. RequestInv(r)'
    BY <1>1, <1>2, <1>3 DEF IInv, TypeOK, RequestInv, StartingInv, RunningInv, ConfirmedInv,
       SettledInv, DiskInv, Close, Prefer, dirs, procs, Starting, Running, Closing, Over
  <2>. QED BY <2>1, <2>2, <2>3, OthersKept DEF IInv
<1>4. CASE Cleanup(r) \/ CleanupFails(r) \/ NothingToDispose(r)
             \/ \E place \in {"present", "quarantined"} : Quarantine(r, place)
  <2>1. TypeOK'
    BY <1>2, <1>4 DEF IInv, TypeOK, Cleanup, CleanupFails, NothingToDispose, Quarantine,
       Prefer, dirs, procs, Labels, Holding
  <2>2. Others(r)
    BY <1>4 DEF IInv, TypeOK, Others, Cleanup, CleanupFails, NothingToDispose, Quarantine,
       Prefer, dirs, procs
  <2>3. CASE Cleanup(r) \/ NothingToDispose(r)
    <3>1. RequestInv(r)'
      BY <1>1, <2>3 DEF IInv, TypeOK, RequestInv, StartingInv, RunningInv, ConfirmedInv,
         SettledInv, DiskInv, Cleanup, NothingToDispose, SafeToCleanup, dirs, procs,
         Starting, Running, Closing, Over, Retained
    <3>. QED BY <2>1, <2>2, <3>1, OthersKept DEF IInv
  <2>4. CASE CleanupFails(r) \/ \E place \in {"present", "quarantined"} : Quarantine(r, place)
    <3>1. RequestInv(r)'
      BY <1>1, <1>2, <2>4 DEF IInv, TypeOK, RequestInv, StartingInv, RunningInv,
         ConfirmedInv, SettledInv, DiskInv, CleanupFails, Quarantine, SafeToCleanup, Prefer,
         dirs, procs, Starting, Running, Closing, Over, Retained
    <3>. QED BY <2>1, <2>2, <3>1, OthersKept DEF IInv
  <2>. QED BY <1>4, <2>3, <2>4
<1>5. CASE Unlock(r)
  <2>1. TypeOK'
    BY <1>5, FreeAssumption DEF IInv, TypeOK, Unlock, dirs, procs, Labels, Holding
  <2>2. Others(r)
    BY <1>5 DEF IInv, TypeOK, Others, Unlock, dirs, procs
  <2>3. RequestInv(r)'
    BY <1>1, <1>5 DEF IInv, TypeOK, RequestInv, StartingInv, RunningInv, ConfirmedInv,
       SettledInv, DiskInv, Unlock, dirs, procs, Starting, Running, Closing, Over
  <2>. QED BY <2>1, <2>2, <2>3, OthersKept DEF IInv
<1>6. CASE Answer(r)
  <2>1. PICK kept \in BOOLEAN :
          /\ kept <=> outcome[r] \in Retained \/ root[r] \notin {"none", "deleted"}
          /\ parent' = [parent EXCEPT ![r] = kept]
    BY <1>6 DEF Answer
  <2>2. /\ At(r, "answer") /\ GoTo(r, "done")
        /\ UNCHANGED <<lock, attempt, outcome, created, confirmed, late, root, procs>>
    BY <1>6 DEF Answer
  <2>3. TypeOK'
    BY <2>1, <2>2 DEF IInv, TypeOK, procs, Labels, Holding
  <2>4. Others(r)
    BY <2>1, <2>2 DEF IInv, TypeOK, Others, procs
  <2>5. /\ pc'[r] = "done" /\ parent'[r] = kept
        /\ attempt'[r] = attempt[r] /\ outcome'[r] = outcome[r]
        /\ created'[r] = created[r] /\ confirmed'[r] = confirmed[r] /\ late'[r] = late[r]
        /\ root'[r] = root[r] /\ worker'[r] = worker[r] /\ child'[r] = child[r]
        /\ result'[r] = result[r] /\ pc[r] = "answer"
    BY <2>1, <2>2 DEF IInv, TypeOK, procs
  <2>6. RequestInv(r)'
    BY <1>1, <2>1, <2>5 DEF RequestInv, StartingInv, RunningInv, ConfirmedInv,
       SettledInv, DiskInv, Starting, Running, Closing, Over
  <2>. QED BY <2>3, <2>4, <2>6, OthersKept DEF IInv
<1>. QED BY <1>3, <1>4, <1>5, <1>6 DEF Finish

-----------------------------------------------------------------------------
(* Every reachable state satisfies the strengthening.                       *)
THEOREM RunInvariance == Spec => []IInv
<1>1. Init => IInv
  BY InitInv
<1>2. IInv /\ [Next]_vars => IInv'
  <2>1. CASE Next
    <3>1. PICK r \in Requests :
           Service(r) \/ WaitFails(r) \/ Deadline(r) \/ Environment(r)
      BY <2>1 DEF Next
    <3>. QED BY <3>1, EnvironmentInv, PrepareInv, WaitInv, SettleInv, FinishInv
             DEF Service, Supervise
  <2>2. CASE UNCHANGED vars
    BY <2>2 DEF vars, control, dirs, procs, IInv, TypeOK, RequestInv, StartingInv,
       RunningInv, ConfirmedInv, SettledInv, DiskInv, At
  <2>. QED BY <2>1, <2>2
<1>. QED BY <1>1, <1>2, PTL DEF Spec

(* Type correctness, and the lock belongs to exactly the thread between     *)
(* acquire and release.                                                     *)
THEOREM RunTypeCorrectness == Spec => []TypeOK
<1>1. IInv => TypeOK
  BY DEF IInv
<1>. QED BY <1>1, RunInvariance, PTL

(* No request root is deleted under a living member of the group of a       *)
(* supervised worker.                                                       *)
THEOREM DeletedRootsAreQuiet == Spec => []DeletedRootIsQuiet
<1>1. IInv => DeletedRootIsQuiet
  BY DEF IInv, RequestInv, ConfirmedInv, DiskInv, DeletedRootIsQuiet, GroupAlive
<1>. QED BY <1>1, RunInvariance, PTL

(* What survives the release of the lock was answered as an unconfirmed     *)
(* termination.                                                             *)
THEOREM SurvivorsAreAlwaysReported == Spec => []SurvivorsAreReported
<1>1. IInv => SurvivorsAreReported
  BY DEF IInv, RequestInv, ConfirmedInv, SettledInv, SurvivorsAreReported, GroupAlive, Over
<1>. QED BY <1>1, RunInvariance, PTL

(* A trace is only shown after a clean end.                                 *)
THEOREM SuccessIsAlwaysClean == Spec => []SuccessIsClean
<1>1. IInv => SuccessIsClean
  BY DEF IInv, RequestInv, ConfirmedInv, SettledInv, DiskInv, SuccessIsClean, GroupAlive, Over
<1>. QED BY <1>1, RunInvariance, PTL

(* What is left on disk was answered with one of the two codes that say so. *)
THEOREM LeaksAreAlwaysReported == Spec => []LeaksAreReported
<1>1. IInv => LeaksAreReported
  BY DEF IInv, RequestInv, DiskInv, LeaksAreReported, At, Over
<1>. QED BY <1>1, RunInvariance, PTL
-----------------------------------------------------------------------------
(* Every step is one of a single request, or of its processes.              *)
LEMMA OneRequest ==
  ASSUME IInv, NEW r \in Requests,
         Service(r) \/ WaitFails(r) \/ Deadline(r) \/ Environment(r)
  PROVE  Others(r)
<1>1. CASE Environment(r)
  BY <1>1 DEF IInv, TypeOK, Others, Environment, Fork, Detach, ChildEnds, ChildReaped,
     WriteResult, WorkerEnds, control, dirs
<1>2. CASE Prepare(r)
  <2>1. CASE Reject(r) \/ Accept(r) \/ Acquire(r) \/ Busy(r) \/ WriteConfig(r)
               \/ StartWorker(r)
    BY <2>1 DEF IInv, TypeOK, Others, Reject, Accept, Acquire, Busy, WriteConfig, StartWorker,
       GoTo, dirs, procs
  <2>2. CASE CreateRoot(r) \/ CreateRootFails(r) \/ LeakRoot(r) \/ WriteConfigFails(r)
               \/ \E left \in {"none", "running", "gone"} : StartWorkerFails(r, left)
    BY <2>2 DEF IInv, TypeOK, Others, CreateRoot, CreateRootFails, LeakRoot, WriteConfigFails,
       StartWorkerFails, NoProcess, Prefer, GoTo, dirs, procs
  <2>. QED BY <1>2, <2>1, <2>2 DEF Prepare
<1>3. CASE Supervise(r) \/ WaitFails(r) \/ Deadline(r)
  <2>1. CASE Deadline(r) \/ WorkerExits(r) \/ DeadlineExceeded(r) \/ WaitFails(r)
               \/ ConfirmExit(r) \/ DescendantsAlive(r) \/ ReadResult(r)
               \/ TerminateTree(r) \/ RootExited(r)
    BY <2>1 DEF IInv, TypeOK, Others, Deadline, WorkerExits, DeadlineExceeded, WaitFails,
       ConfirmExit, DescendantsAlive, ReadResult, TerminateTree, RootExited,
       BeginTermination, Prefer, GoTo, dirs, procs
  <2>2. CASE TerminateFails(r) \/ RootStays(r) \/ \E dead \in BOOLEAN : Recheck(r, dead)
    <3>1. PICK dead \in BOOLEAN :
            /\ Settle(r, dead)
            /\ worker' = worker \/ worker' = [worker EXCEPT ![r] = Reaped(@)]
            /\ UNCHANGED <<created, late, parent, root, child, killed, result>>
      BY <2>2 DEF TerminateFails, RootStays, Recheck, dirs, procs
    <3>. QED BY <3>1 DEF IInv, TypeOK, Others, Settle, BeginTermination, Prefer, GoTo
  <2>. QED BY <1>3, <2>1, <2>2 DEF Supervise
<1>4. CASE Finish(r)
  BY <1>4 DEF IInv, TypeOK, Others, Finish, Close, Cleanup, CleanupFails, NothingToDispose,
     Quarantine, Unlock, Answer, Prefer, GoTo, dirs, procs
<1>. QED BY <1>1, <1>2, <1>3, <1>4 DEF Service

(* A step of one request is none of another's boundary.                     *)
LEMMA BoundaryOfOthers ==
  ASSUME NEW r \in Requests, Others(r), NEW q \in Requests \ {r}
  PROVE  UNCHANGED Contract(q)!contractVars
BY DEF Others, Contract!contractVars, BoundaryPhase, Group, GroupAlive

(* Processes only leave the group: once dead, it has nobody to fork.        *)
LEMMA EnvironmentKeepsContract ==
  ASSUME IInv, NEW r \in Requests, Environment(r)
  PROVE  Contract(r)!Next \/ UNCHANGED Contract(r)!contractVars
<1>1. /\ UNCHANGED <<pc, created, confirmed>>
      /\ created[r] /\ GroupAlive(r)' => GroupAlive(r)
  BY DEF IInv, TypeOK, Environment, Fork, Detach, ChildEnds, ChildReaped, WriteResult,
     WorkerEnds, control, GroupAlive
<1>2. BoundaryPhase(r)' = BoundaryPhase(r)
  BY <1>1 DEF BoundaryPhase
<1>3. Group(r)' = Group(r) \/ (Group(r) = "alive" /\ Group(r)' = "dead")
  BY <1>1 DEF Group
<1>. QED BY <1>1, <1>2, <1>3 DEF Contract!Next, Contract!TreeDies, Contract!contractVars

(* Up to its start a boundary is starting; then it stands, or has failed.   *)
LEMMA PrepareKeepsContract ==
  ASSUME IInv, NEW r \in Requests, Prepare(r)
  PROVE  Contract(r)!Next \/ UNCHANGED Contract(r)!contractVars
<1>1. pc[r] \in Starting /\ ~created[r] /\ UNCHANGED confirmed
  BY DEF IInv, RequestInv, StartingInv, Prepare, Reject, Accept, Acquire, Busy, CreateRoot,
     CreateRootFails, LeakRoot, WriteConfig, WriteConfigFails, StartWorker, StartWorkerFails,
     Starting, At
<1>2. BoundaryPhase(r) = "starting" /\ Group(r) = "none"
  BY <1>1 DEF BoundaryPhase, Group, Starting
<1>3. CASE StartWorker(r)
  <2>1. created'[r] /\ worker'[r] = "running" /\ pc'[r] = "wait"
    BY <1>3 DEF IInv, TypeOK, StartWorker, GoTo
  <2>2. BoundaryPhase(r)' = "supervising" /\ Group(r)' = "alive"
    BY <2>1 DEF BoundaryPhase, Group, GroupAlive
  <2>. QED BY <1>1, <1>2, <2>2 DEF Contract!Next, Contract!Start
<1>4. CASE ~StartWorker(r)
  <2>1. created' = created
    BY <1>4 DEF Prepare, Reject, Accept, Acquire, Busy, CreateRoot, CreateRootFails, LeakRoot,
       WriteConfig, WriteConfigFails, StartWorkerFails
  <2>2. Group(r)' = "none" /\ BoundaryPhase(r)' \in {"starting", "failed"}
    BY <1>1, <2>1 DEF BoundaryPhase, Group
  <2>. QED BY <1>1, <1>2, <2>2 DEF Contract!Next, Contract!Fail, Contract!contractVars
<1>. QED BY <1>3, <1>4

(* Confirming is what a supervised boundary does of a dead group.           *)
LEMMA SuperviseKeepsContract ==
  ASSUME IInv, NEW r \in Requests, Supervise(r) \/ WaitFails(r) \/ Deadline(r)
  PROVE  Contract(r)!Next \/ UNCHANGED Contract(r)!contractVars
<1>1. /\ pc[r] \in Running /\ created[r] /\ confirmed[r] \in BOOLEAN
      /\ UNCHANGED <<created, child>>
  BY DEF IInv, TypeOK, RequestInv, RunningInv, Supervise, WaitFails, Deadline, WorkerExits,
     DeadlineExceeded, ConfirmExit, DescendantsAlive, ReadResult, TerminateTree,
     TerminateFails, RootExited, RootStays, Recheck, Running, At, procs
<1>2. pc'[r] \in Running \cup {"close"}
  BY <1>1 DEF IInv, TypeOK, Supervise, WaitFails, Deadline, WorkerExits,
     DeadlineExceeded, ConfirmExit, DescendantsAlive, ReadResult, TerminateTree,
     TerminateFails, RootExited, RootStays, Recheck, Settle, BeginTermination, GoTo, Running
<1>3. BoundaryPhase(r) = "supervising" /\ BoundaryPhase(r)' = "supervising"
  BY <1>1, <1>2 DEF BoundaryPhase, Running
<1>4. worker'[r] = "running" <=> worker[r] = "running"
  BY DEF IInv, TypeOK, Supervise, WaitFails, Deadline, WorkerExits,
     DeadlineExceeded, ConfirmExit, DescendantsAlive, ReadResult, TerminateTree,
     TerminateFails, RootExited, RootStays, Recheck, Reaped, procs
<1>5. Group(r)' = Group(r)
  BY <1>1, <1>4 DEF Group, GroupAlive
<1>6. \/ confirmed'[r] = confirmed[r]
      \/ confirmed'[r] = TRUE /\ GroupSeenDead(r)
  <2>1. CASE ConfirmExit(r)
    BY <2>1 DEF IInv, TypeOK, ConfirmExit
  <2>2. CASE TerminateFails(r) \/ RootStays(r)
    <3>1. confirmed'[r] = FALSE /\ pc[r] \in {"terminate", "wait_for_root"}
      BY <2>2 DEF IInv, TypeOK, TerminateFails, RootStays, Settle, At
    <3>. QED BY <1>1, <3>1 DEF IInv, RequestInv, RunningInv, At
  <2>3. CASE \E dead \in BOOLEAN : Recheck(r, dead)
    <3>1. PICK dead \in BOOLEAN : Recheck(r, dead)
      BY <2>3
    <3>2. /\ pc[r] = "recheck" /\ confirmed'[r] = dead
          /\ dead => GroupSeenDead(r)
      BY <3>1 DEF IInv, TypeOK, Recheck, Settle, At
    <3>3. ~confirmed[r]
      BY <1>1, <3>2 DEF IInv, RequestInv, RunningInv, At
    <3>. QED BY <1>1, <3>2, <3>3
  <2>4. CASE ~(ConfirmExit(r) \/ TerminateFails(r) \/ RootStays(r)
                 \/ \E dead \in BOOLEAN : Recheck(r, dead))
    <3>1. confirmed' = confirmed
      BY <2>4 DEF Supervise, WaitFails, Deadline, WorkerExits, DeadlineExceeded,
         DescendantsAlive, ReadResult, TerminateTree, RootExited
    <3>. QED BY <3>1
  <2>. QED BY <2>1, <2>2, <2>3, <2>4
<1>7. GroupSeenDead(r) => Group(r) = "dead"
  BY <1>1 DEF GroupSeenDead, Group, GroupAlive
<1>. QED BY <1>3, <1>5, <1>6, <1>7
     DEF Contract!Next, Contract!Confirm, Contract!contractVars

(* A boundary that stood is closed once; what follows does not touch it.    *)
LEMMA FinishKeepsContract ==
  ASSUME IInv, NEW r \in Requests, Finish(r)
  PROVE  Contract(r)!Next \/ UNCHANGED Contract(r)!contractVars
<1>1. /\ UNCHANGED <<created, confirmed, worker, child>>
      /\ pc[r] \in {"close", "dispose", "unlock", "answer"}
      /\ pc'[r] \in {"dispose", "unlock", "answer", "done"}
  BY DEF IInv, TypeOK, Finish, Close, Cleanup, CleanupFails, NothingToDispose, Quarantine,
     Unlock, Answer, GoTo, At, procs
<1>2. /\ Group(r)' = Group(r) /\ confirmed'[r] = confirmed[r]
      /\ created'[r] = created[r]
  BY <1>1 DEF Group, GroupAlive
<1>3. CASE ~created[r]
  <2>1. BoundaryPhase(r) = "failed" /\ BoundaryPhase(r)' = "failed"
    BY <1>1, <1>2, <1>3 DEF BoundaryPhase
  <2>. QED BY <1>2, <2>1 DEF Contract!contractVars
<1>4. CASE created[r]
  <2>1. /\ BoundaryPhase(r) \in {"supervising", "closed"}
        /\ BoundaryPhase(r)' = "closed"
    BY <1>1, <1>2, <1>4 DEF BoundaryPhase
  <2>. QED BY <1>2, <2>1 DEF Contract!Next, Contract!Close, Contract!contractVars
<1>. QED BY <1>3, <1>4

(* The POSIX boundary of every request implements the contract of           *)
(* BoundaryContract with the worker's group for its tree, for any number of *)
(* requests and however their processes fork and end: the service never     *)
(* holds a living group for a dead one, and never a dead one to live again  *)
(* (process_boundary.py:68-122, run_service.py:395-459).                    *)
THEOREM BoundariesKeepTheContract == Spec => ImplementsContract
<1>1. Init => \A r \in Requests : Contract(r)!Init
  BY DEF Init, Contract!Init, BoundaryPhase, Group
<1>2. IInv /\ [Next]_vars =>
        [\A r \in Requests : Contract(r)!Next \/ UNCHANGED Contract(r)!contractVars]_vars
  <2>. SUFFICES ASSUME IInv, [Next]_vars, NEW q \in Requests
                PROVE  \/ UNCHANGED vars
                       \/ Contract(q)!Next \/ UNCHANGED Contract(q)!contractVars
    BY Zenon
  <2>1. CASE Next
    <3>1. PICK r \in Requests : Service(r) \/ WaitFails(r) \/ Deadline(r) \/ Environment(r)
      BY <2>1 DEF Next
    <3>2. CASE q = r
      BY <3>1, <3>2, EnvironmentKeepsContract, PrepareKeepsContract, SuperviseKeepsContract,
         FinishKeepsContract DEF Service
    <3>3. CASE q # r
      BY <3>1, <3>3, OneRequest, BoundaryOfOthers
    <3>. QED BY <3>2, <3>3
  <2>. QED BY <2>1
<1>. QED BY <1>1, <1>2, RunInvariance, PTL DEF Spec, ImplementsContract
=================================================================================
