------------------------------- MODULE StateStore -------------------------------
(***************************************************************************)
(* The leases, approvals and intents of adapters/sqlite/state_store.py,     *)
(* used by several processes on one database.  The runtime does not call    *)
(* these operations yet; what a caller does around them is what the tests   *)
(* of tests/integration/sqlite do: an approved action is consumed and then  *)
(* started, an action that needs no approval logs its intent, is compared   *)
(* and set to executing and then started, the end is compared and set.      *)
(*                                                                          *)
(* Every statement outside a transaction is an action; a transaction that   *)
(* rolls back changes nothing and is left out, unless its caller goes on.   *)
(***************************************************************************)
EXTENDS Naturals

CONSTANTS
  Procs,     \* processes, each an owner of leases
  Tasks,
  Actions,
  Ttl,       \* ttl_seconds of acquire_lease
  MaxClock,  \* bound on time
  NoOwner,   \* NULL in lease_owner
  NoCall,    \* a process outside acquire_lease
  NoJob      \* a process that executes nothing

ASSUME TimeAssumption == Ttl \in Nat /\ MaxClock \in Nat

ASSUME NullAssumption ==
  /\ NoOwner \notin Procs
  /\ NoCall \notin [task : Tasks, now : Nat]
  /\ NoJob \notin [action : Actions, stage : {"logged", "committed", "running"}]

Leases == [owner : Procs \union {NoOwner}, until : 0 .. MaxClock + Ttl]

Calls == [task : Tasks, now : 0 .. MaxClock]

Jobs == [action : Actions, stage : {"logged", "committed", "running"}]

Statuses ==
  {"none", "awaiting_approval", "ready", "executing", "succeeded", "failed",
   "unknown_outcome"}

Decisions == {"approved", "denied", "cancelled", "expired"}

Approvals == {"none", "pending", "consumed"} \union Decisions

VARIABLES
  clock,     \* time, which processes read before they may have to wait
  lease,     \* lease_owner and lease_until of each task
  call,      \* the acquire_lease each process is in: its task, its now
  status,    \* actions.status
  approval,  \* approvals.status
  intents,   \* execution_intents
  job,       \* what each process is executing, or is about to
  runs       \* times each action's side effect was started

leasing == <<clock, lease, call>>

acting == <<status, approval, intents, job, runs>>

vars == <<clock, lease, call, status, approval, intents, job, runs>>

Init ==
  /\ clock = 0
  /\ lease = [t \in Tasks |-> [owner |-> NoOwner, until |-> 0]]
  /\ call = [p \in Procs |-> NoCall]
  /\ status = [a \in Actions |-> "none"]
  /\ approval = [a \in Actions |-> "none"]
  /\ intents = {}
  /\ job = [p \in Procs |-> NoJob]
  /\ runs = [a \in Actions |-> 0]

Tick ==
  /\ clock < MaxClock
  /\ clock' = clock + 1
  /\ UNCHANGED acting /\ UNCHANGED <<lease, call>>

-----------------------------------------------------------------------------
(* acquire_lease: the time first, then a transaction that may wait for      *)
(* others.                                                                  *)
ReadClock(p, t) ==
  /\ call[p] = NoCall
  /\ call' = [call EXCEPT ![p] = [task |-> t, now |-> clock]]
  /\ UNCHANGED acting /\ UNCHANGED <<clock, lease>>

Active(now) == {t \in Tasks : lease[t].owner # NoOwner /\ lease[t].until >= now}

(* One active lease is fetched, any of them, and may be the task's own.     *)
NoneElsewhere(t, now) == Active(now) = {} \/ t \in Active(now)

SomeElsewhere(t, now) == \E u \in Active(now) : u # t

(* Mutant of Available: a lease may be taken in its last second.            *)
AvailableEarly(p, t, now) ==
  lease[t].owner \in {NoOwner, p} \/ lease[t].until <= now

Available(p, t, now) ==
  lease[t].owner \in {NoOwner, p} \/ lease[t].until < now

Extended(t, now) == now + Ttl

AcquireLease(p) ==
  /\ call[p] # NoCall
  /\ LET t == call[p].task
         now == call[p].now
     IN /\ NoneElsewhere(t, now)
        /\ Available(p, t, now)
        /\ lease' = [lease EXCEPT ![t] = [owner |-> p, until |-> Extended(t, now)]]
  /\ call' = [call EXCEPT ![p] = NoCall]
  /\ UNCHANGED acting /\ UNCHANGED clock

LeaseRefused(p) ==
  /\ call[p] # NoCall
  /\ \/ SomeElsewhere(call[p].task, call[p].now)
     \/ ~Available(p, call[p].task, call[p].now)
  /\ call' = [call EXCEPT ![p] = NoCall]
  /\ UNCHANGED acting /\ UNCHANGED <<clock, lease>>

-----------------------------------------------------------------------------
(* Actions and approvals.                                                   *)
CreateAction(a) ==
  /\ status[a] = "none"
  /\ \E s \in {"awaiting_approval", "ready"} : status' = [status EXCEPT ![a] = s]
  /\ UNCHANGED leasing /\ UNCHANGED <<approval, intents, job, runs>>

CreateApproval(a) ==
  /\ status[a] # "none"
  /\ approval[a] = "none"
  /\ approval' = [approval EXCEPT ![a] = "pending"]
  /\ UNCHANGED leasing /\ UNCHANGED <<status, intents, job, runs>>

RecordDecision(a) ==
  /\ approval[a] = "pending"
  /\ \E d \in Decisions : approval' = [approval EXCEPT ![a] = d]
  /\ UNCHANGED leasing /\ UNCHANGED <<status, intents, job, runs>>

(* Mutant of Consumable: the approval alone is asked, and asked for ever.   *)
ConsumableAgain(a) == approval[a] \in {"approved", "consumed"}

(* The key of execution_intents refuses a second intent, and with it the    *)
(* whole transaction.                                                       *)
Consumable(a) ==
  /\ approval[a] = "approved"
  /\ status[a] = "awaiting_approval"
  /\ a \notin intents

Assign(p, a, stage) == job' = [job EXCEPT ![p] = [action |-> a, stage |-> stage]]

(* Mutant of ConsumeApproval: the action is set to executing later.         *)
ConsumeApprovalOnly(p, a) ==
  /\ job[p] = NoJob
  /\ Consumable(a)
  /\ approval' = [approval EXCEPT ![a] = "consumed"]
  /\ intents' = intents \union {a}
  /\ Assign(p, a, "committed")
  /\ UNCHANGED leasing /\ UNCHANGED <<status, runs>>

ConsumeApproval(p, a) ==
  /\ job[p] = NoJob
  /\ Consumable(a)
  /\ approval' = [approval EXCEPT ![a] = "consumed"]
  /\ status' = [status EXCEPT ![a] = "executing"]
  /\ intents' = intents \union {a}
  /\ Assign(p, a, "committed")
  /\ UNCHANGED leasing /\ UNCHANGED runs

(* Without an approval the intent and the status are two statements.        *)
LogIntent(p, a) ==
  /\ job[p] = NoJob
  /\ status[a] = "ready"
  /\ a \notin intents
  /\ intents' = intents \union {a}
  /\ Assign(p, a, "logged")
  /\ UNCHANGED leasing /\ UNCHANGED <<status, approval, runs>>

(* compare_and_set_action_status, by the process whose action it is.        *)
CompareAndSet(a, expected, target) ==
  /\ status[a] = expected
  /\ status' = [status EXCEPT ![a] = target]

EnterExecuting(p) ==
  /\ job[p] # NoJob /\ job[p].stage = "logged"
  /\ CompareAndSet(job[p].action, "ready", "executing")
  /\ Assign(p, job[p].action, "committed")
  /\ UNCHANGED leasing /\ UNCHANGED <<approval, intents, runs>>

StartEffect(p) ==
  /\ job[p] # NoJob /\ job[p].stage = "committed"
  /\ runs' = [runs EXCEPT ![job[p].action] = @ + 1]
  /\ Assign(p, job[p].action, "running")
  /\ UNCHANGED leasing /\ UNCHANGED <<status, approval, intents>>

(* The end of an action that was meanwhile declared unknown changes nothing.*)
FinishEffect(p) ==
  /\ job[p] # NoJob /\ job[p].stage = "running"
  /\ \/ \E s \in {"succeeded", "failed"} : CompareAndSet(job[p].action, "executing", s)
     \/ status[job[p].action] # "executing" /\ UNCHANGED status
  /\ job' = [job EXCEPT ![p] = NoJob]
  /\ UNCHANGED leasing /\ UNCHANGED <<approval, intents, runs>>

(* Whoever recovers does so for every process, the living included.         *)
RecoverInflight ==
  /\ status' = [a \in Actions |->
                  IF status[a] = "executing" THEN "unknown_outcome" ELSE status[a]]
  /\ UNCHANGED leasing /\ UNCHANGED <<approval, intents, job, runs>>

Crash(p) ==
  /\ call' = [call EXCEPT ![p] = NoCall]
  /\ job' = [job EXCEPT ![p] = NoJob]
  /\ UNCHANGED <<clock, lease, status, approval, intents, runs>>

Leasing(p) ==
  \/ \E t \in Tasks : ReadClock(p, t)
  \/ AcquireLease(p)
  \/ LeaseRefused(p)

Approving(a) == CreateAction(a) \/ CreateApproval(a) \/ RecordDecision(a)

Executing(p) ==
  \/ \E a \in Actions : ConsumeApproval(p, a) \/ LogIntent(p, a)
  \/ EnterExecuting(p)
  \/ StartEffect(p)
  \/ FinishEffect(p)

Next ==
  \/ Tick
  \/ \E p \in Procs : Leasing(p) \/ Executing(p) \/ Crash(p)
  \/ \E a \in Actions : Approving(a)
  \/ RecoverInflight

Spec == Init /\ [][Next]_vars

-----------------------------------------------------------------------------
(* Types; no lease outlives its time to live, no process has a time to come.*)
TypeOK ==
  /\ clock \in 0 .. MaxClock
  /\ lease \in [Tasks -> Leases]
  /\ \A t \in Tasks : lease[t].until <= clock + Ttl
  /\ call \in [Procs -> Calls \union {NoCall}]
  /\ \A p \in Procs : call[p] # NoCall => call[p].now <= clock
  /\ status \in [Actions -> Statuses]
  /\ approval \in [Actions -> Approvals]
  /\ intents \subseteq Actions
  /\ job \in [Procs -> Jobs \union {NoJob}]
  /\ runs \in [Actions -> Nat]

Held(t) == lease[t].owner # NoOwner /\ lease[t].until >= clock

(* However long acquire_lease waited with the time it read, it never takes  *)
(* a lease from an owner that still holds it.                               *)
LeaseIsKept ==
  [][\A t \in Tasks : Held(t) => lease'[t].owner = lease[t].owner]_vars

(* The plan and the tests promise one active lease in the whole database.   *)
OneActiveLease == \A t, u \in Tasks : Held(t) /\ Held(u) => t = u

(* A side effect is started at most once, whatever consumes, recoveries and *)
(* crashes of other processes come in between.                              *)
AtMostOnce == \A a \in Actions : runs[a] <= 1

(* An approval is consumed together with the intent and the status: no      *)
(* crash leaves a consumed approval whose action could be started again, or *)
(* that recovery would not find.                                            *)
ConsumedIsCommitted ==
  \A a \in Actions :
    approval[a] = "consumed" =>
      a \in intents /\ status[a] \notin {"none", "awaiting_approval", "ready"}
=================================================================================
