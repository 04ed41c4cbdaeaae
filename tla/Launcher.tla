--------------------------------- MODULE Launcher --------------------------------
(***************************************************************************)
(* SubprocessLauncher.launch (adapters/process/runner.py): one call from    *)
(* Popen to its result, with the processes it starts, the two threads that  *)
(* drain their output and the bounded captures these fill.                  *)
(*                                                                          *)
(* The main thread, the drain threads and the processes interleave.  A      *)
(* stream is the number of units written to it so far, a captured value the *)
(* sequence of the positions it kept.  One unit may stand for one byte or   *)
(* for many: what matters is that stream.read(65536), a read of a buffered  *)
(* pipe, returns ReadSize units or blocks until the pipe has no writer      *)
(* left.  The child may start others: some stay in its process group, some  *)
(* leave it with a session of their own; each may or may not keep the pipes *)
(* open.  POSIX: on Windows taskkill replaces killpg.                       *)
(***************************************************************************)
EXTENDS Naturals, Sequences

CONSTANTS
  Child,       (* the process of Popen, leader of its session and group    *)
  Members,     (* processes it may start that stay in its group            *)
  Strays,      (* processes it may start that leave the group              *)
  ReadSize,    (* units of one full read                                   *)
  Limit,       (* stdout_limit and stderr_limit, in units                  *)
  MaxWritten   (* bound: units written to each stream                      *)

Streams == {"stdout", "stderr"}

Processes == {Child} \cup Members \cup Strays

Group == {Child} \cup Members

ASSUME ProcessesDiffer ==
  Child \notin Members \cup Strays /\ Members \cap Strays = {}

(* BoundedCapture refuses a limit below one.                                *)
ASSUME SizesArePositive ==
  /\ ReadSize \in Nat \ {0}
  /\ Limit \in [Streams -> Nat \ {0}]
  /\ MaxWritten \in [Streams -> Nat]

VARIABLES
  pc,          (* where the main thread is                                 *)
  at,          (* the stream it is at                                      *)
  procs,       (* the processes                                            *)
  writers,     (* the live processes that have the pipes open              *)
  written,     (* what was written to each stream                          *)
  reader,      (* where each drain thread is                               *)
  taken, fed,  (* what it read, and what it has put into its capture       *)
  value,       (* BoundedCapture._value                                    *)
  truncated,   (* BoundedCapture.truncated                                 *)
  result,      (* the LaunchResult, as far as it is put together           *)
  joined,      (* ghost: the thread had ended when it was joined           *)
  groupKilled  (* ghost: killpg reached the group                          *)

mainVars == <<pc, at, result, joined, groupKilled>>
procVars == <<procs, writers, written>>
readerVars == <<reader, taken, fed, value, truncated>>
vars == <<mainVars, procVars, readerVars>>

Alive(p) == procs[p] \in {"running", "killed"}

-----------------------------------------------------------------------------
(* BoundedCapture.                                                          *)
HeadSize(s) == Limit[s] \div 2

Chunk(s) == [i \in 1..(taken[s] - fed[s]) |-> fed[s] + i]

Combined(s) == value[s] \o Chunk(s)

(* Mutant of HeadAndTail: the head makes room for the tail.                 *)
TailOnly(s, combined) ==
  SubSeq(combined, Len(combined) - Limit[s] + 1, Len(combined))

(* combined[:head] + combined[-tail:]                                       *)
HeadAndTail(s, combined) ==
  LET tail == Limit[s] - HeadSize(s) IN
    SubSeq(combined, 1, HeadSize(s))
      \o SubSeq(combined, Len(combined) - tail + 1, Len(combined))

(* Mutant of Bounded: the tail is as long as the head, so a unit is lost at *)
(* an odd limit.                                                            *)
BoundedEvenly(s, combined) ==
  IF Len(combined) <= Limit[s] THEN combined
  ELSE SubSeq(combined, 1, HeadSize(s))
         \o SubSeq(combined, Len(combined) - HeadSize(s) + 1, Len(combined))

Bounded(s, combined) ==
  IF Len(combined) <= Limit[s] THEN combined ELSE HeadAndTail(s, combined)

-----------------------------------------------------------------------------
(* The processes.                                                           *)
Spawn(p, q, inherits) ==
  /\ procs[p] = "running"
  /\ q # Child /\ procs[q] = "absent"
  /\ q \in Members => p \in Group
  /\ inherits => p \in writers
  /\ procs' = [procs EXCEPT ![q] = "running"]
  /\ writers' = IF inherits THEN writers \cup {q} ELSE writers
  /\ UNCHANGED <<written, mainVars, readerVars>>

Write(p, s) ==
  /\ procs[p] = "running"
  /\ p \in writers
  /\ written[s] < MaxWritten[s]
  /\ written' = [written EXCEPT ![s] = @ + 1]
  /\ UNCHANGED <<procs, writers, mainVars, readerVars>>

(* By itself, or by a signal, which takes its time.                         *)
Exit(p) ==
  /\ Alive(p)
  /\ procs' = [procs EXCEPT ![p] = "exited"]
  /\ writers' = writers \ {p}
  /\ UNCHANGED <<written, mainVars, readerVars>>

-----------------------------------------------------------------------------
(* Mutant of Read: nothing but full reads.                                  *)
ReadFull(s) ==
  /\ reader[s] = "reading"
  /\ written[s] - taken[s] >= ReadSize
  /\ taken' = [taken EXCEPT ![s] = @ + ReadSize]
  /\ reader' = [reader EXCEPT ![s] = "feeding"]
  /\ UNCHANGED <<fed, value, truncated, procVars, mainVars>>

(* drain: a full read, the rest at the end of the stream, or the end.       *)
Read(s) ==
  /\ reader[s] = "reading"
  /\ \/ /\ written[s] - taken[s] >= ReadSize
        /\ taken' = [taken EXCEPT ![s] = @ + ReadSize]
     \/ /\ written[s] - taken[s] \in 1..(ReadSize - 1)
        /\ writers = {}
        /\ taken' = [taken EXCEPT ![s] = written[s]]
  /\ reader' = [reader EXCEPT ![s] = "feeding"]
  /\ UNCHANGED <<fed, value, truncated, procVars, mainVars>>

(* Mutant of EndOfStream: a pipe that is empty for the moment is an end.    *)
EndOfStreamEarly(s) ==
  /\ reader[s] = "reading"
  /\ written[s] = taken[s]
  /\ reader' = [reader EXCEPT ![s] = "done"]
  /\ UNCHANGED <<taken, fed, value, truncated, procVars, mainVars>>

EndOfStream(s) ==
  /\ reader[s] = "reading"
  /\ written[s] = taken[s]
  /\ writers = {}
  /\ reader' = [reader EXCEPT ![s] = "done"]
  /\ UNCHANGED <<taken, fed, value, truncated, procVars, mainVars>>

(* BoundedCapture.feed assigns _value first ...                             *)
Feed(s) ==
  /\ reader[s] = "feeding"
  /\ value' = [value EXCEPT ![s] = Bounded(s, Combined(s))]
  /\ fed' = [fed EXCEPT ![s] = taken[s]]
  /\ reader' = [reader EXCEPT ![s] =
       IF Len(Combined(s)) <= Limit[s] THEN "reading" ELSE "marking"]
  /\ UNCHANGED <<taken, truncated, procVars, mainVars>>

(* ... and truncated after it.                                              *)
Mark(s) ==
  /\ reader[s] = "marking"
  /\ truncated' = [truncated EXCEPT ![s] = TRUE]
  /\ reader' = [reader EXCEPT ![s] = "reading"]
  /\ UNCHANGED <<taken, fed, value, procVars, mainVars>>

-----------------------------------------------------------------------------
(* The main thread.  Both threads are started before it waits.              *)
PopenFails ==
  /\ pc = "popen"
  /\ pc' = "returned"
  /\ result' = [result EXCEPT !.status = "environment_error"]
  /\ UNCHANGED <<at, joined, groupKilled, procVars, readerVars>>

Popen ==
  /\ pc = "popen"
  /\ pc' = "wait"
  /\ procs' = [procs EXCEPT ![Child] = "running"]
  /\ writers' = {Child}
  /\ reader' = [s \in Streams |-> "reading"]
  /\ UNCHANGED <<written, taken, fed, value, truncated,
                 at, result, joined, groupKilled>>

(* process.wait returns, whatever else is still alive ...                   *)
WaitReturns ==
  /\ pc = "wait"
  /\ procs[Child] = "exited"
  /\ pc' = "join"
  /\ result' = [result EXCEPT !.status = "completed"]
  /\ UNCHANGED <<at, joined, groupKilled, procVars, readerVars>>

(* ... or raises TimeoutExpired.                                            *)
WaitExpires ==
  /\ pc = "wait"
  /\ pc' = "killpg"
  /\ result' = [result EXCEPT !.status = "timed_out"]
  /\ UNCHANGED <<at, joined, groupKilled, procVars, readerVars>>

Signalled(ps) ==
  [p \in Processes |->
     IF p \in ps /\ procs[p] = "running" THEN "killed" ELSE procs[p]]

(* Mutant of KillGroup: os.kill of the child in the place of os.killpg.     *)
KillGroupChild ==
  /\ pc = "killpg"
  /\ procs' = Signalled({Child})
  /\ groupKilled' = TRUE
  /\ pc' = "reap"
  /\ UNCHANGED <<at, result, joined, writers, written, readerVars>>

(* _terminate_tree.  The child is not reaped, so its group still exists; an *)
(* OSError of killpg leads to process.kill.                                 *)
KillGroup ==
  /\ pc = "killpg"
  /\ procs' = Signalled(Group)
  /\ groupKilled' = TRUE
  /\ pc' = "reap"
  /\ UNCHANGED <<at, result, joined, writers, written, readerVars>>

KillGroupFails ==
  /\ pc = "killpg"
  /\ pc' = "kill"
  /\ UNCHANGED <<at, result, joined, groupKilled, procVars, readerVars>>

(* process.wait(timeout=5) ends, or raises and leads to process.kill.       *)
Reap ==
  /\ pc = "reap"
  /\ \/ procs[Child] = "exited" /\ pc' = "join"
     \/ Alive(Child) /\ pc' = "kill"
  /\ UNCHANGED <<at, result, joined, groupKilled, procVars, readerVars>>

Kill ==
  /\ pc = "kill"
  /\ procs' = Signalled({Child})
  /\ pc' = "join"
  /\ UNCHANGED <<at, result, joined, groupKilled, writers, written, readerVars>>

(* A stage of the last part: for stdout, then for stderr.                   *)
Stage(stage, next) ==
  /\ pc = stage
  /\ pc' = IF at = "stdout" THEN stage ELSE next
  /\ at' = IF at = "stdout" THEN "stderr" ELSE "stdout"

(* Mutant of Join: a join without a timeout.                                *)
JoinForever ==
  /\ Stage("join", "value")
  /\ reader[at] = "done"
  /\ joined' = [joined EXCEPT ![at] = TRUE]
  /\ UNCHANGED <<result, groupKilled, procVars, readerVars>>

(* thread.join(timeout=1): the thread has ended, or a second has passed.    *)
Join ==
  /\ Stage("join", "value")
  /\ joined' = [joined EXCEPT ![at] = (reader[at] = "done")]
  /\ UNCHANGED <<result, groupKilled, procVars, readerVars>>

(* The arguments of LaunchResult, in their order.                           *)
TakeValue ==
  /\ Stage("value", "flag")
  /\ result' = [result EXCEPT !.value[at] = value[at]]
  /\ UNCHANGED <<joined, groupKilled, procVars, readerVars>>

TakeFlag ==
  /\ Stage("flag", "returned")
  /\ result' = [result EXCEPT !.truncated[at] = truncated[at]]
  /\ UNCHANGED <<joined, groupKilled, procVars, readerVars>>

-----------------------------------------------------------------------------
Init ==
  /\ pc = "popen"
  /\ at = "stdout"
  /\ procs = [p \in Processes |-> "absent"]
  /\ writers = {}
  /\ written = [s \in Streams |-> 0]
  /\ reader = [s \in Streams |-> "unstarted"]
  /\ taken = [s \in Streams |-> 0]
  /\ fed = [s \in Streams |-> 0]
  /\ value = [s \in Streams |-> << >>]
  /\ truncated = [s \in Streams |-> FALSE]
  /\ result = [status |-> "none",
               value |-> [s \in Streams |-> << >>],
               truncated |-> [s \in Streams |-> FALSE]]
  /\ joined = [s \in Streams |-> FALSE]
  /\ groupKilled = FALSE

Main ==
  \/ PopenFails \/ Popen
  \/ WaitReturns \/ WaitExpires
  \/ KillGroup \/ KillGroupFails \/ Reap \/ Kill
  \/ Join \/ TakeValue \/ TakeFlag

Reader(s) == Read(s) \/ EndOfStream(s) \/ Feed(s) \/ Mark(s)

Process ==
  \/ \E p, q \in Processes, inherits \in BOOLEAN : Spawn(p, q, inherits)
  \/ \E p \in Processes : Exit(p) \/ \E s \in Streams : Write(p, s)

Next == Main \/ (\E s \in Streams : Reader(s)) \/ Process

Spec == Init /\ [][Next]_vars

(* Every call the main thread waits in has a timeout (wait, the wait after  *)
(* the kill, join), and runnable threads are scheduled.  Nothing is assumed *)
(* of the processes: they may hang, ignore everything and hold the pipes.   *)
FairSpec == Spec /\ WF_vars(Main) /\ \A s \in Streams : WF_vars(Reader(s))

-----------------------------------------------------------------------------
(* Type invariant.                                                          *)
TypeOK ==
  /\ pc \in {"popen", "wait", "killpg", "reap", "kill",
            "join", "value", "flag", "returned"}
  /\ at \in Streams
  /\ procs \in [Processes -> {"absent", "running", "killed", "exited"}]
  /\ writers \in SUBSET {p \in Processes : Alive(p)}
  /\ written \in [Streams -> Nat]
  /\ reader \in [Streams -> {"unstarted", "reading", "feeding", "marking", "done"}]
  /\ taken \in [Streams -> Nat]
  /\ fed \in [Streams -> Nat]
  /\ value \in [Streams -> Seq(Nat)]
  /\ truncated \in [Streams -> BOOLEAN]
  /\ result \in [status : {"none", "environment_error", "completed", "timed_out"},
                 value : [Streams -> Seq(Nat)],
                 truncated : [Streams -> BOOLEAN]]
  /\ joined \in [Streams -> BOOLEAN]
  /\ groupKilled \in BOOLEAN

(* What a capture of the first n positions should hold: all of them, or the *)
(* first half of the limit and the last ones to fill it.                    *)
Kept(s, n) ==
  IF n <= Limit[s] THEN [i \in 1..n |-> i]
  ELSE [i \in 1..Limit[s] |-> IF i <= HeadSize(s) THEN i ELSE n - Limit[s] + i]

(* However the output was cut into chunks, and however often it overflowed, *)
(* the capture is the head and the tail of all that was fed to it, and the  *)
(* mark tells, once feed is over (runner.py:58-68).                         *)
CaptureKeepsEnds ==
  \A s \in Streams :
    /\ value[s] = Kept(s, fed[s])
    /\ reader[s] # "marking" => (truncated[s] <=> fed[s] > Limit[s])

(* When a drain thread had ended by the time it was joined, the result has  *)
(* the whole output of that stream, or its two ends and the mark that says  *)
(* so, although everything is read in separate steps (runner.py:157-159).   *)
JoinedIsExact ==
  \A s \in Streams : pc = "returned" /\ joined[s] =>
    /\ result.value[s] = Kept(s, written[s])
    /\ result.truncated[s] <=> written[s] > Limit[s]

(* Whatever raced with it, a result shows something the processes did write *)
(* in this order: the head and the tail of some beginning of the output     *)
(* (runner.py:67, 159).                                                     *)
ResultIsAnOutput ==
  \A s \in Streams : \E n \in 0..written[s] : result.value[s] = Kept(s, n)

(* After a launch that timed out nothing of the child's group runs on,      *)
(* unless the kernel refused the signal; the child itself never does        *)
(* (runner.py:153-156, 161-170).                                            *)
TimedOutIsDoomed ==
  pc \in {"join", "value", "flag", "returned"} /\ result.status = "timed_out" =>
    /\ procs[Child] # "running"
    /\ groupKilled => \A p \in Group : procs[p] # "running"

(* A launch returns, whatever the processes do.                             *)
LaunchReturns == (pc # "returned") ~> (pc = "returned")

(* Once nobody has the pipes open, the drain threads end: none is left      *)
(* behind, with its capture, for good.                                      *)
ReadersEnd ==
  \A s \in Streams :
    (reader[s] = "reading" /\ writers = {}) ~> (reader[s] = "done")
=================================================================================
