--------------------------- MODULE StateStore_proofs ---------------------------
(***************************************************************************)
(* Proofs about StateStore, for any number of processes, tasks and actions, *)
(* any time to live and any bound on time.                                  *)
(***************************************************************************)
EXTENDS StateStore, TLAPS

(* A job before its start has an intent and was not started; at most one    *)
(* process has it, and none once the effect has run.                        *)
JobInv ==
  \A p \in Procs :
    job[p] # NoJob =>
      /\ job[p].action \in intents
      /\ job[p].stage # "running" => runs[job[p].action] = 0

OneJob ==
  \A p, q \in Procs :
    job[p] # NoJob /\ job[q] # NoJob /\ job[p].action = job[q].action => p = q

(* An action without an intent was never begun.                             *)
FreshInv == \A a \in Actions : a \notin intents => runs[a] = 0

IInv ==
  /\ TypeOK /\ JobInv /\ OneJob /\ FreshInv
  /\ AtMostOnce /\ ConsumedIsCommitted

-----------------------------------------------------------------------------
(* The initial state satisfies the strengthening.                           *)
LEMMA InitInv == Init => IInv
BY TimeAssumption
   DEF Init, IInv, TypeOK, JobInv, OneJob, FreshInv, AtMostOnce, ConsumedIsCommitted,
       Leases, Calls, Jobs, Statuses, Approvals

(* Two lemmas keep the records of calls and jobs apart from their nulls.    *)
LEMMA CallTyped ==
  ASSUME NEW t \in Tasks, NEW now \in 0 .. MaxClock
  PROVE  [task |-> t, now |-> now] \in Calls
BY DEF Calls

LEMMA JobTyped ==
  ASSUME NEW a \in Actions, NEW s \in {"logged", "committed", "running"}
  PROVE  /\ [action |-> a, stage |-> s] \in Jobs
         /\ [action |-> a, stage |-> s] # NoJob
BY NullAssumption DEF Jobs

-----------------------------------------------------------------------------
(* The lease operations and time leave the actions alone, and keep types.   *)
LEMMA LeasingType ==
  ASSUME TypeOK, Tick \/ \E p \in Procs : Leasing(p)
  PROVE  TypeOK' /\ UNCHANGED acting
<1> USE TimeAssumption
<1>1. CASE Tick
  <2>1. clock' \in 0 .. MaxClock /\ clock' = clock + 1 /\ UNCHANGED <<acting, lease, call>>
    BY <1>1 DEF Tick, TypeOK
  <2>2. \A t \in Tasks : lease[t].until \in Nat /\ lease[t].until <= clock + Ttl
    BY DEF TypeOK, Leases
  <2>3. \A t \in Tasks : lease[t].until <= clock' + Ttl
    BY <2>1, <2>2 DEF TypeOK
  <2>4. \A p \in Procs : call[p] # NoCall => call[p].now <= clock'
    BY <2>1 DEF TypeOK, Calls
  <2>5. QED
    BY <2>1, <2>3, <2>4 DEF TypeOK, acting
<1>2. ASSUME NEW p \in Procs, NEW t \in Tasks, ReadClock(p, t)
      PROVE  TypeOK' /\ UNCHANGED acting
  BY <1>2, CallTyped DEF ReadClock, TypeOK, acting
<1>3. ASSUME NEW p \in Procs, AcquireLease(p)
      PROVE  TypeOK' /\ UNCHANGED acting
  <2>1. call[p] \in Calls /\ call[p].now <= clock
    BY <1>3 DEF AcquireLease, TypeOK
  <2>2. [owner |-> p, until |-> call[p].now + Ttl] \in Leases
    BY <2>1 DEF Leases, Calls
  <2>3. lease' \in [Tasks -> Leases]
    BY <1>3, <2>2 DEF AcquireLease, Extended, TypeOK
  <2>4. \A t \in Tasks : lease'[t].until <= clock + Ttl
    BY <1>3, <2>1 DEF AcquireLease, Extended, TypeOK, Calls, Leases
  <2>5. QED
    BY <1>3, <2>3, <2>4 DEF AcquireLease, TypeOK, acting
<1>4. ASSUME NEW p \in Procs, LeaseRefused(p)
      PROVE  TypeOK' /\ UNCHANGED acting
  BY <1>4 DEF LeaseRefused, TypeOK, acting
<1>5. QED
  BY <1>1, <1>2, <1>3, <1>4 DEF Leasing

(* The other operations leave the leases alone, and keep types.             *)
LEMMA ActingType ==
  ASSUME TypeOK,
         \/ \E p \in Procs : Executing(p)
         \/ \E a \in Actions : Approving(a)
         \/ RecoverInflight
  PROVE  TypeOK' /\ UNCHANGED leasing
<1>1. ASSUME NEW a \in Actions, Approving(a)
      PROVE  TypeOK' /\ UNCHANGED leasing
  BY <1>1 DEF Approving, CreateAction, CreateApproval, RecordDecision, TypeOK,
              leasing, Statuses, Approvals, Decisions
<1>2. ASSUME NEW p \in Procs, NEW a \in Actions, ConsumeApproval(p, a)
      PROVE  TypeOK' /\ UNCHANGED leasing
  BY <1>2, JobTyped DEF ConsumeApproval, Consumable, Assign, TypeOK, leasing,
                        Statuses, Approvals
<1>3. ASSUME NEW p \in Procs, NEW a \in Actions, LogIntent(p, a)
      PROVE  TypeOK' /\ UNCHANGED leasing
  BY <1>3, JobTyped DEF LogIntent, Assign, TypeOK, leasing
<1>4. ASSUME NEW p \in Procs, EnterExecuting(p) \/ StartEffect(p) \/ FinishEffect(p)
      PROVE  TypeOK' /\ UNCHANGED leasing
  <2>1. job[p] \in Jobs /\ job[p].action \in Actions
    BY <1>4 DEF EnterExecuting, StartEffect, FinishEffect, TypeOK, Jobs
  <2>2. CASE EnterExecuting(p)
    BY <2>1, <2>2, JobTyped
       DEF EnterExecuting, CompareAndSet, Assign, TypeOK, leasing, Statuses
  <2>3. CASE StartEffect(p)
    <3>1. runs' \in [Actions -> Nat]
      BY <2>1, <2>3 DEF StartEffect, TypeOK
    <3>2. job' \in [Procs -> Jobs \union {NoJob}]
      BY <2>1, <2>3, JobTyped DEF StartEffect, Assign, TypeOK
    <3>3. QED
      BY <2>3, <3>1, <3>2 DEF StartEffect, TypeOK, leasing
  <2>4. CASE FinishEffect(p)
    BY <2>1, <2>4 DEF FinishEffect, CompareAndSet, TypeOK, leasing, Statuses
  <2>5. QED
    BY <1>4, <2>2, <2>3, <2>4
<1>5. CASE RecoverInflight
  BY <1>5 DEF RecoverInflight, TypeOK, leasing, Statuses
<1>6. QED
  BY <1>1, <1>2, <1>3, <1>4, <1>5 DEF Executing

LEMMA TypeStep == TypeOK /\ [Next]_vars => TypeOK'
<1> SUFFICES ASSUME TypeOK, [Next]_vars PROVE TypeOK'
  OBVIOUS
<1>1. ASSUME NEW p \in Procs, Crash(p) PROVE TypeOK'
  BY <1>1 DEF Crash, TypeOK
<1>2. CASE UNCHANGED vars
  BY <1>2 DEF vars, TypeOK
<1>3. QED
  BY <1>1, <1>2, LeasingType, ActingType DEF Next

(* Types: []TypeOK, with the bound of every lease by its time to live.      *)
THEOREM StateTypeCorrectness == Spec => []TypeOK
<1>1. Init => TypeOK
  BY InitInv DEF IInv
<1>2. QED
  BY <1>1, TypeStep, PTL DEF Spec

-----------------------------------------------------------------------------
(* What a process that holds a lease relies on: the time another process    *)
(* judges it by is never later than now.                                    *)
LEMMA LeaseStep ==
  ASSUME TypeOK, [Next]_vars, NEW t \in Tasks, Held(t)
  PROVE  lease'[t].owner = lease[t].owner
<1>1. ASSUME NEW p \in Procs, AcquireLease(p)
      PROVE  lease'[t].owner = lease[t].owner
  <2>1. call[p] \in Calls /\ call[p].now <= clock /\ call[p].now \in Nat
    BY <1>1 DEF AcquireLease, TypeOK, Calls
  <2>2. CASE call[p].task = t
    <3>1. lease[t].until \in Nat /\ clock \in Nat
      BY DEF TypeOK, Leases
    <3>2. ~(lease[t].until < call[p].now)
      BY <2>1, <3>1 DEF Held
    <3>3. lease[t].owner = p
      BY <1>1, <2>2, <3>2 DEF AcquireLease, Available, Held
    <3>4. QED
      BY <1>1, <2>2, <3>3 DEF AcquireLease, TypeOK
  <2>3. CASE call[p].task # t
    BY <1>1, <2>3 DEF AcquireLease, TypeOK
  <2>4. QED
    BY <2>2, <2>3
<1>2. CASE lease' = lease
  BY <1>2
<1>3. ASSUME NEW p \in Procs, Executing(p) \/ Crash(p)
      PROVE  lease' = lease
  BY <1>3 DEF Executing, ConsumeApproval, LogIntent, EnterExecuting, StartEffect,
              FinishEffect, Crash, leasing
<1>4. ASSUME NEW a \in Actions, Approving(a)
      PROVE  lease' = lease
  BY <1>4 DEF Approving, CreateAction, CreateApproval, RecordDecision, leasing
<1>5. CASE Tick \/ RecoverInflight \/ UNCHANGED vars
  BY <1>2, <1>5 DEF Tick, RecoverInflight, leasing, vars
<1>6. QED
  BY <1>1, <1>2, <1>3, <1>4, <1>5 DEF Next, Leasing, ReadClock, LeaseRefused

(* A held lease is never taken, however stale the time of an acquire_lease  *)
(* is by the time its transaction runs.                                     *)
THEOREM LeasesAreKept == Spec => LeaseIsKept
<1>1. TypeOK /\ [Next]_vars =>
        [\A t \in Tasks : Held(t) => lease'[t].owner = lease[t].owner]_vars
  BY LeaseStep
<1>2. QED
  BY <1>1, StateTypeCorrectness, PTL DEF Spec, LeaseIsKept

-----------------------------------------------------------------------------
(* One process at most has an action that was not started.                  *)
LEMMA ActingStep ==
  ASSUME IInv, NEW p \in Procs, Executing(p)
  PROVE  IInv'
<1> USE DEF IInv
<1>0. TypeOK'
  BY TypeStep DEF Next
<1>1. ASSUME NEW a \in Actions, ConsumeApproval(p, a) \/ LogIntent(p, a)
      PROVE  IInv'
  <2>1. /\ a \notin intents /\ intents' = intents \union {a} /\ runs' = runs
        /\ job[p] = NoJob
    BY <1>1 DEF ConsumeApproval, LogIntent, Consumable
  <2>2. PICK s \in {"logged", "committed", "running"} :
          job' = [job EXCEPT ![p] = [action |-> a, stage |-> s]]
    BY <1>1 DEF ConsumeApproval, LogIntent, Assign
  <2>3. runs[a] = 0
    BY <2>1 DEF FreshInv
  <2>4. \A q \in Procs : q # p /\ job[q] # NoJob => job[q].action # a
    BY <2>1 DEF JobInv
  <2>5. JobInv' /\ OneJob'
    BY <2>1, <2>2, <2>3, <2>4 DEF TypeOK, JobInv, OneJob
  <2>6. ConsumedIsCommitted'
    BY <1>1 DEF ConsumeApproval, LogIntent, ConsumedIsCommitted, TypeOK
  <2>7. QED
    BY <1>0, <2>1, <2>5, <2>6 DEF FreshInv, AtMostOnce
<1>2. ASSUME job[p] # NoJob, UNCHANGED <<runs, intents>>,
             \/ job' = [job EXCEPT ![p] = NoJob]
             \/ /\ job[p].stage # "running"
                /\ job' = [job EXCEPT ![p] =
                             [action |-> job[p].action, stage |-> "committed"]]
      PROVE  JobInv' /\ OneJob' /\ FreshInv' /\ AtMostOnce'
  BY <1>2 DEF TypeOK, JobInv, OneJob, FreshInv, AtMostOnce
<1>3. CASE EnterExecuting(p)
  <2>1. job[p] # NoJob /\ job[p].stage # "running" /\ UNCHANGED <<runs, intents, approval>>
    BY <1>3 DEF EnterExecuting
  <2>2. job' = [job EXCEPT ![p] = [action |-> job[p].action, stage |-> "committed"]]
    BY <1>3 DEF EnterExecuting, Assign
  <2>3. ConsumedIsCommitted'
    BY <1>3 DEF EnterExecuting, CompareAndSet, ConsumedIsCommitted, TypeOK
  <2>4. QED
    BY <1>0, <1>2, <2>1, <2>2, <2>3
<1>4. CASE StartEffect(p)
  <2>1. /\ job[p] # NoJob /\ job[p].stage = "committed"
        /\ UNCHANGED <<intents, approval, status>>
        /\ runs' = [runs EXCEPT ![job[p].action] = @ + 1]
        /\ job' = [job EXCEPT ![p] = [action |-> job[p].action, stage |-> "running"]]
    BY <1>4 DEF StartEffect, Assign
  <2>2. job[p].action \in Actions /\ runs[job[p].action] = 0 /\ job[p].action \in intents
    BY <2>1 DEF TypeOK, Jobs, JobInv
  <2>3. \A q \in Procs : q # p /\ job[q] # NoJob => job[q].action # job[p].action
    BY <2>1 DEF OneJob
  <2>4. runs'[job[p].action] = 1 /\ \A a \in Actions : a # job[p].action => runs'[a] = runs[a]
    BY <2>1, <2>2 DEF TypeOK
  <2>5. JobInv'
    BY <2>1, <2>2, <2>3, <2>4 DEF TypeOK, Jobs, JobInv
  <2>6. OneJob'
    BY <2>1, <2>3 DEF TypeOK, OneJob
  <2>7. FreshInv' /\ AtMostOnce' /\ ConsumedIsCommitted'
    BY <2>1, <2>2, <2>4 DEF FreshInv, AtMostOnce, ConsumedIsCommitted
  <2>8. QED
    BY <1>0, <2>5, <2>6, <2>7
<1>5. CASE FinishEffect(p)
  <2>1. job[p] # NoJob /\ UNCHANGED <<runs, intents, approval>>
        /\ job' = [job EXCEPT ![p] = NoJob]
    BY <1>5 DEF FinishEffect
  <2>2. ConsumedIsCommitted'
    BY <1>5 DEF FinishEffect, CompareAndSet, ConsumedIsCommitted, TypeOK
  <2>3. QED
    BY <1>0, <1>2, <2>1, <2>2
<1>6. QED
  BY <1>1, <1>3, <1>4, <1>5 DEF Executing

(* Every step keeps the strengthening.                                      *)
LEMMA NextInv == IInv /\ [Next]_vars => IInv'
<1> SUFFICES ASSUME IInv, [Next]_vars PROVE IInv'
  OBVIOUS
<1> USE DEF IInv
<1>0. TypeOK'
  BY TypeStep
<1>1. CASE Tick \/ \E p \in Procs : Leasing(p)
  <2>1. UNCHANGED <<status, approval, intents, job, runs>>
    BY <1>1, LeasingType DEF acting
  <2>2. QED
    BY <1>0, <2>1 DEF JobInv, OneJob, FreshInv, AtMostOnce, ConsumedIsCommitted
<1>2. ASSUME NEW p \in Procs, Crash(p)
      PROVE  IInv'
  BY <1>0, <1>2 DEF Crash, TypeOK, JobInv, OneJob, FreshInv, AtMostOnce,
                    ConsumedIsCommitted
<1>3. ASSUME NEW a \in Actions, Approving(a)
      PROVE  IInv'
  <2>1. UNCHANGED <<intents, job, runs>>
    BY <1>3 DEF Approving, CreateAction, CreateApproval, RecordDecision
  <2>2. ConsumedIsCommitted'
    BY <1>3 DEF Approving, CreateAction, CreateApproval, RecordDecision, TypeOK,
                Decisions, ConsumedIsCommitted
  <2>3. QED
    BY <1>0, <2>1, <2>2 DEF JobInv, OneJob, FreshInv, AtMostOnce
<1>4. CASE RecoverInflight
  BY <1>0, <1>4 DEF RecoverInflight, TypeOK, JobInv, OneJob, FreshInv, AtMostOnce,
                    ConsumedIsCommitted
<1>5. CASE UNCHANGED vars
  BY <1>0, <1>5 DEF vars, JobInv, OneJob, FreshInv, AtMostOnce, ConsumedIsCommitted
<1>6. QED
  BY <1>1, <1>2, <1>3, <1>4, <1>5, ActingStep DEF Next

LEMMA Invariance == Spec => []IInv
BY InitInv, NextInv, PTL DEF Spec

(* No side effect is started twice, by however many processes.              *)
THEOREM EffectsAreAtMostOnce == Spec => []AtMostOnce
<1>1. IInv => AtMostOnce
  BY DEF IInv
<1>2. QED
  BY <1>1, Invariance, PTL

(* A consumed approval always comes with its intent and a begun action.     *)
THEOREM ConsumptionIsAtomic == Spec => []ConsumedIsCommitted
<1>1. IInv => ConsumedIsCommitted
  BY DEF IInv
<1>2. QED
  BY <1>1, Invariance, PTL

-----------------------------------------------------------------------------
(* What the run StateStoreTwoLeases refutes holds as long as no process     *)
(* waits between reading the time and its transaction.                      *)
NobodyWaits == \A p \in Procs : call[p] # NoCall => call[p].now = clock

(* A lease that is taken on time is taken while no other task has one.      *)
LEMMA AcquireOnTime ==
  ASSUME TypeOK, NobodyWaits, OneActiveLease, NEW p \in Procs, AcquireLease(p)
  PROVE  OneActiveLease'
<1>. DEFINE t == call[p].task
<1>1. t \in Tasks /\ call[p].now = clock /\ NoneElsewhere(t, clock)
  BY CallTyped DEF TypeOK, NobodyWaits, AcquireLease, Calls
<1>2. \A u \in Tasks : Held(u) => u = t
  BY <1>1 DEF NoneElsewhere, Active, Held, OneActiveLease
<1>3. \A u \in Tasks : u # t => lease'[u] = lease[u]
  BY DEF TypeOK, AcquireLease
<1>4. clock' = clock
  BY DEF AcquireLease
<1>. QED BY <1>1, <1>2, <1>3, <1>4 DEF OneActiveLease, Held

(* Other steps take no lease, and time only ends them.                      *)
LEMMA OthersOnTime ==
  ASSUME TypeOK, OneActiveLease, lease' = lease, clock' \in {clock, clock + 1}
  PROVE  OneActiveLease'
<1>1. \A t \in Tasks : lease[t].until \in Nat /\ clock \in Nat
  BY TimeAssumption DEF TypeOK, Leases
<1>. QED BY <1>1 DEF OneActiveLease, Held

(* If every transaction of acquire_lease sees the time its caller read, the *)
(* database has one active lease, as tests and plan promise: the wait for   *)
(* the write lock is the only way to a second (state_store.py:66-97).       *)
THEOREM PromptLeasesAreSingle == Spec /\ []NobodyWaits => []OneActiveLease
<1>1. Init => OneActiveLease
  BY DEF Init, OneActiveLease, Held
<1>2. TypeOK /\ NobodyWaits /\ OneActiveLease /\ [Next]_vars => OneActiveLease'
  <2>. SUFFICES ASSUME TypeOK, NobodyWaits, OneActiveLease, [Next]_vars
                PROVE  OneActiveLease'
    OBVIOUS
  <2>1. CASE \E p \in Procs : AcquireLease(p)
    BY <2>1, AcquireOnTime
  <2>2. CASE ~\E p \in Procs : AcquireLease(p)
    <3>1. lease' = lease /\ clock' \in {clock, clock + 1}
      BY <2>2 DEF Next, vars, leasing, Tick, Leasing, ReadClock, LeaseRefused, Approving,
             CreateAction, CreateApproval, RecordDecision, Executing, ConsumeApproval,
             LogIntent, EnterExecuting, StartEffect, FinishEffect, RecoverInflight, Crash
    <3>. QED BY <3>1, OthersOnTime
  <2>. QED BY <2>1, <2>2
<1>. QED BY <1>1, <1>2, StateTypeCorrectness, PTL DEF Spec
=================================================================================
