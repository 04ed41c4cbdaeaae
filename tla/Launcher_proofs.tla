----------------------------- MODULE Launcher_proofs -----------------------------
(***************************************************************************)
(* Proofs about Launcher, for every limit, every size of a read, every      *)
(* amount of output and every set of processes.                             *)
(***************************************************************************)
EXTENDS Launcher, SequenceTheorems, TLAPS

-----------------------------------------------------------------------------
(* Sequences of positions, for a limit L with a head of h.                  *)

(* q is what is kept of the first n positions.                              *)
KeptOf(L, h, n, q) ==
  /\ q \in Seq(Nat)
  /\ Len(q) = IF n <= L THEN n ELSE L
  /\ \A i \in 1..Len(q) : q[i] = IF n <= L \/ i <= h THEN i ELSE n - L + i

(* c is the positions after f, up to t.                                     *)
ChunkOf(f, t, c) ==
  /\ c \in Seq(Nat)
  /\ Len(c) = t - f
  /\ \A i \in 1..(t - f) : c[i] = f + i

(* m is what was kept of f positions, with the chunk up to t behind it.     *)
Uncut(L, h, f, t, m) ==
  /\ m \in Seq(Nat)
  /\ Len(m) = (IF f <= L THEN f ELSE L) + (t - f)
  /\ \A i \in 1..Len(m) : m[i] = IF f <= L \/ i <= h THEN i ELSE f - L + i

LEMMA KeptIsKept ==
  ASSUME NEW s \in Streams, NEW n \in Nat
  PROVE  KeptOf(Limit[s], HeadSize(s), n, Kept(s, n))
<1>1. Limit[s] \in Nat \ {0} BY SizesArePositive
<1>2. CASE n <= Limit[s] BY <1>1, <1>2 DEF Kept, KeptOf
<1>3. CASE ~(n <= Limit[s])
  <2> DEFINE e(i) == IF i <= HeadSize(s) THEN i ELSE n - Limit[s] + i
  <2>1. \A i \in 1..Limit[s] : e(i) \in Nat BY <1>1, <1>3
  <2>2. Kept(s, n) = [i \in 1..Limit[s] |-> e(i)] BY <1>3 DEF Kept
  <2> HIDE DEF e
  <2>3. /\ Kept(s, n) \in Seq(Nat) /\ Len(Kept(s, n)) = Limit[s]
        /\ \A i \in 1..Limit[s] : Kept(s, n)[i] = e(i)
    BY <1>1, <2>1, <2>2
  <2>. QED BY <1>3, <2>3 DEF e, KeptOf
<1>. QED BY <1>2, <1>3

LEMMA KeptIsUnique ==
  ASSUME NEW L, NEW h, NEW n, NEW p, NEW q, KeptOf(L, h, n, p), KeptOf(L, h, n, q)
  PROVE  p = q
BY SeqEqual DEF KeptOf

LEMMA Appended ==
  ASSUME NEW L \in Nat \ {0}, NEW h \in Nat, h < L,
         NEW f \in Nat, NEW t \in Nat, f < t,
         NEW v, NEW c, KeptOf(L, h, f, v), ChunkOf(f, t, c)
  PROVE  Uncut(L, h, f, t, v \o c)
<1>1. PICK k \in Nat : k = IF f <= L THEN f ELSE L OBVIOUS
<1>2. /\ v \in Seq(Nat) /\ Len(v) = k
      /\ \A i \in 1..k : v[i] = IF f <= L \/ i <= h THEN i ELSE f - L + i
  BY <1>1 DEF KeptOf
<1>3. /\ c \in Seq(Nat) /\ Len(c) = t - f
      /\ \A i \in 1..(t - f) : c[i] = f + i
  BY DEF ChunkOf
<1>4. /\ v \o c \in Seq(Nat) /\ Len(v \o c) = Len(v) + Len(c)
      /\ \A i \in 1..(Len(v) + Len(c)) :
           (v \o c)[i] = IF i <= Len(v) THEN v[i] ELSE c[i - Len(v)]
  BY <1>2, <1>3, ConcatProperties
<1> SUFFICES ASSUME NEW i \in 1..(k + (t - f))
             PROVE  (v \o c)[i] = IF f <= L \/ i <= h THEN i ELSE f - L + i
  BY <1>1, <1>2, <1>3, <1>4 DEF Uncut
<1>5. CASE i <= k BY <1>2, <1>3, <1>4, <1>5
<1>6. CASE ~(i <= k)
  <2>1. i - k \in 1..(t - f) /\ (v \o c)[i] = c[i - k] BY <1>2, <1>3, <1>4, <1>6
  <2>2. (v \o c)[i] = f + (i - k) BY <1>3, <2>1
  <2>. QED BY <1>1, <1>6, <2>2
<1>. QED BY <1>5, <1>6

(* Its head and its tail are what is kept of t positions.                   *)
LEMMA CutInTwo ==
  ASSUME NEW L \in Nat \ {0}, NEW h \in Nat, h < L,
         NEW f \in Nat, NEW t \in Nat, f < t, L < t,
         NEW m, Uncut(L, h, f, t, m),
         NEW front, front = SubSeq(m, 1, h),
         NEW back, back = SubSeq(m, Len(m) - (L - h) + 1, Len(m))
  PROVE  KeptOf(L, h, t, front \o back)
<1>0. PICK k \in Nat : k = IF f <= L THEN f ELSE L OBVIOUS
<1>1. /\ m \in Seq(Nat) /\ Len(m) = k + (t - f) /\ Len(m) \in Nat /\ Len(m) > L
      /\ \A i \in 1..Len(m) : m[i] = IF f <= L \/ i <= h THEN i ELSE f - L + i
  BY <1>0 DEF Uncut
<1>2. /\ front \in Seq(Nat) /\ Len(front) = h
      /\ \A i \in 1..h : front[i] = i
  <2>1. \A i \in 1..h : m[i] = i BY <1>1
  <2>2. \A i \in 1..h : m[i] \in Nat BY <2>1
  <2>3. /\ SubSeq(m, 1, h) \in Seq(Nat)
        /\ Len(SubSeq(m, 1, h)) = IF 1 <= h THEN h - 1 + 1 ELSE 0
        /\ \A i \in 1..(h - 1 + 1) : SubSeq(m, 1, h)[i] = m[1 + i - 1]
    BY <2>2, SubSeqProperties
  <2>4. Len(front) = h BY <2>3
  <2>5. \A i \in 1..h : i \in 1..(h - 1 + 1) /\ 1 + i - 1 = i OBVIOUS
  <2>6. \A i \in 1..h : front[i] = m[i] BY <2>3, <2>5
  <2>. QED BY <2>1, <2>3, <2>4, <2>6
<1>3. PICK a \in Nat : a = Len(m) - (L - h) + 1 /\ a > h BY <1>1
<1>4. /\ back \in Seq(Nat) /\ Len(back) = L - h
      /\ \A i \in 1..(L - h) : back[i] = m[a + i - 1]
  <2>1. \A i \in a..Len(m) : m[i] \in Nat BY <1>1, <1>3, ElementOfSeq
  <2>2. /\ SubSeq(m, a, Len(m)) \in Seq(Nat)
        /\ Len(SubSeq(m, a, Len(m))) = IF a <= Len(m) THEN Len(m) - a + 1 ELSE 0
        /\ \A i \in 1..(Len(m) - a + 1) : SubSeq(m, a, Len(m))[i] = m[a + i - 1]
    BY <1>1, <1>3, <2>1, SubSeqProperties
  <2>3. Len(m) - a + 1 = L - h /\ a <= Len(m) BY <1>1, <1>3
  <2>. QED BY <1>3, <2>2, <2>3
<1>5. \A i \in 1..(L - h) : back[i] = t - (L - h) + i
  <2> SUFFICES ASSUME NEW i \in 1..(L - h)
               PROVE  back[i] = t - (L - h) + i
    OBVIOUS
  <2>1. /\ a + i - 1 \in 1..Len(m) /\ a + i - 1 > h
        /\ a + i - 1 = k + (t - f) - (L - h) + i
    BY <1>1, <1>3
  <2>2. m[a + i - 1] = IF f <= L THEN a + i - 1 ELSE f - L + (a + i - 1)
    BY <1>1, <2>1
  <2>3. back[i] = m[a + i - 1] BY <1>4
  <2>4. CASE f <= L
    <3>1. k = f /\ m[a + i - 1] = a + i - 1 BY <1>0, <2>2, <2>4
    <3>2. k + (t - f) - (L - h) + i = t - (L - h) + i BY <3>1
    <3>. QED BY <2>1, <2>3, <3>1, <3>2
  <2>5. CASE ~(f <= L)
    <3>1. k = L /\ m[a + i - 1] = f - L + (a + i - 1) BY <1>0, <2>2, <2>5
    <3>2. f - L + (k + (t - f) - (L - h) + i) = t - (L - h) + i BY <3>1
    <3>. QED BY <2>1, <2>3, <3>1, <3>2
  <2>. QED BY <2>4, <2>5
<1>6. /\ front \o back \in Seq(Nat) /\ Len(front \o back) = Len(front) + Len(back)
      /\ \A i \in 1..(Len(front) + Len(back)) :
           (front \o back)[i] = IF i <= Len(front) THEN front[i]
                                ELSE back[i - Len(front)]
  BY <1>2, <1>4, ConcatProperties
<1>7. Len(front) + Len(back) = L BY <1>2, <1>4
<1>8. \A i \in 1..L : (front \o back)[i] = IF i <= h THEN i ELSE t - L + i
  <2> SUFFICES ASSUME NEW i \in 1..L
               PROVE  (front \o back)[i] = IF i <= h THEN i ELSE t - L + i
    OBVIOUS
  <2>1. (front \o back)[i] = IF i <= h THEN front[i] ELSE back[i - h]
    BY <1>2, <1>6, <1>7
  <2>2. CASE i <= h BY <1>2, <2>1, <2>2
  <2>3. CASE ~(i <= h)
    <3>1. i - h \in 1..(L - h) /\ t - (L - h) + (i - h) = t - L + i BY <2>3
    <3>. QED BY <1>5, <2>1, <2>3, <3>1
  <2>. QED BY <2>2, <2>3
<1>9. PICK q : q = front \o back OBVIOUS
<1>10. q \in Seq(Nat) /\ Len(q) = L BY <1>6, <1>7, <1>9
<1>11. \A i \in 1..L : q[i] = IF i <= h THEN i ELSE t - L + i BY <1>8, <1>9
<1>12. ~(t <= L) OBVIOUS
<1>13. KeptOf(L, h, t, q) BY <1>10, <1>11, <1>12 DEF KeptOf
<1>. QED BY <1>9, <1>13

(* One call of feed turns what is kept of the old positions into what is    *)
(* kept of the old and the new ones, and overflows exactly when these are   *)
(* more than the limit.                                                     *)
LEMMA FeedKeeps ==
  ASSUME NEW s \in Streams, fed[s] \in Nat, taken[s] \in Nat,
         fed[s] < taken[s], value[s] = Kept(s, fed[s])
  PROVE  /\ Bounded(s, Combined(s)) = Kept(s, taken[s])
         /\ Len(Combined(s)) <= Limit[s] <=> taken[s] <= Limit[s]
<1>1. PICK L \in Nat \ {0} : L = Limit[s] BY SizesArePositive
<1>2. PICK h \in Nat : h = HeadSize(s) /\ h < L BY <1>1 DEF HeadSize
<1>3. PICK f \in Nat, t \in Nat : f = fed[s] /\ t = taken[s] /\ f < t OBVIOUS
<1>4. KeptOf(L, h, f, value[s]) BY <1>1, <1>2, <1>3, KeptIsKept
<1>5. KeptOf(L, h, t, Kept(s, t)) BY <1>1, <1>2, <1>3, KeptIsKept
<1>6. ChunkOf(f, t, Chunk(s))
  <2>1. Chunk(s) = [i \in 1..(t - f) |-> f + i] BY <1>3 DEF Chunk
  <2>2. t - f \in Nat /\ \A i \in 1..(t - f) : f + i \in Nat BY <1>3
  <2>. QED BY <2>1, <2>2 DEF ChunkOf
<1>7. Uncut(L, h, f, t, Combined(s))
  BY <1>2, <1>3, <1>4, <1>6, Appended DEF Combined
<1>8. PICK m : m = Combined(s) OBVIOUS
<1>9. Len(m) <= L <=> t <= L BY <1>3, <1>7, <1>8 DEF Uncut
<1>10. CASE t <= L
  <2>1. Bounded(s, m) = m BY <1>1, <1>9, <1>10 DEF Bounded
  <2>2. KeptOf(L, h, t, m) BY <1>3, <1>7, <1>8, <1>10 DEF Uncut, KeptOf
  <2>3. m = Kept(s, t) BY <1>5, <2>2, KeptIsUnique
  <2>. QED BY <1>1, <1>3, <1>8, <1>9, <2>1, <2>3
<1>11. CASE ~(t <= L)
  <2>1. PICK front, back :
          /\ front = SubSeq(m, 1, h)
          /\ back = SubSeq(m, Len(m) - (L - h) + 1, Len(m))
    OBVIOUS
  <2>2. Bounded(s, m) = front \o back
    BY <1>1, <1>2, <1>9, <1>11, <2>1 DEF Bounded, HeadAndTail
  <2>3. L < t BY <1>11
  <2>4. KeptOf(L, h, t, front \o back)
    BY <1>2, <1>3, <1>7, <1>8, <2>1, <2>3, CutInTwo
  <2>5. front \o back = Kept(s, t) BY <1>5, <2>4, KeptIsUnique
  <2>. QED BY <1>1, <1>3, <1>8, <1>9, <2>2, <2>5
<1>. QED BY <1>10, <1>11

-----------------------------------------------------------------------------
(* The drain threads and their captures.                                    *)

(* A thread feeds all it has read before it reads again, reads no more than *)
(* was written, and ends with the stream, which then has no writer again.   *)
ReaderInv ==
  /\ \A s \in Streams :
       /\ fed[s] <= taken[s] /\ taken[s] <= written[s]
       /\ reader[s] = "feeding" => fed[s] < taken[s]
       /\ reader[s] # "feeding" => fed[s] = taken[s]
       /\ reader[s] = "marking" => fed[s] > Limit[s]
       /\ reader[s] = "done" => taken[s] = written[s] /\ writers = {}
  /\ pc = "popen" => \A s \in Streams : reader[s] = "unstarted"

CaptureInv == TypeOK /\ ReaderInv /\ CaptureKeepsEnds

LEMMA CaptureInit == Init => CaptureInv
<1> SUFFICES ASSUME Init PROVE CaptureInv OBVIOUS
<1>1. TypeOK
  <2>1. << >> \in Seq(Nat) /\ 0 \in Nat OBVIOUS
  <2>2. /\ value \in [Streams -> Seq(Nat)]
        /\ truncated \in [Streams -> BOOLEAN] /\ joined \in [Streams -> BOOLEAN]
        /\ result \in [status : {"none", "environment_error", "completed", "timed_out"},
                       value : [Streams -> Seq(Nat)],
                       truncated : [Streams -> BOOLEAN]]
    BY <2>1 DEF Init
  <2>. QED BY <2>1, <2>2 DEF Init, TypeOK, Streams, Alive
<1>2. ReaderInv BY DEF Init, ReaderInv
<1>3. ASSUME NEW s \in Streams
      PROVE  value[s] = Kept(s, fed[s]) /\ truncated[s] = FALSE /\ ~(fed[s] > Limit[s])
  <2>1. fed[s] = 0 /\ value[s] = << >> /\ truncated[s] = FALSE BY DEF Init
  <2>2. 0 \in Nat /\ Limit[s] \in Nat /\ 0 <= Limit[s] BY SizesArePositive
  <2>3. KeptOf(Limit[s], HeadSize(s), 0, Kept(s, 0)) BY <2>2, KeptIsKept
  <2>4. Kept(s, 0) = << >> BY <2>2, <2>3, EmptySeq DEF KeptOf
  <2>. QED BY <2>1, <2>2, <2>4
<1>4. CaptureKeepsEnds BY <1>3 DEF CaptureKeepsEnds
<1>. QED BY <1>1, <1>2, <1>4 DEF CaptureInv

LEMMA MainCapture == CaptureInv /\ Main => CaptureInv'
<1> SUFFICES ASSUME CaptureInv, Main PROVE CaptureInv' OBVIOUS
<1>1. TypeOK /\ ReaderInv /\ CaptureKeepsEnds BY DEF CaptureInv
<1>2. CASE Popen
  <2>1. TypeOK' BY <1>1, <1>2 DEF Popen, TypeOK, Processes, Alive
  <2>2. ReaderInv' BY <1>1, <1>2 DEF Popen, ReaderInv, TypeOK
  <2>3. \A s \in Streams : reader[s] # "marking" BY <1>1, <1>2 DEF Popen, ReaderInv
  <2>4. CaptureKeepsEnds'
    BY <1>1, <1>2, <2>3 DEF Popen, CaptureKeepsEnds, Kept, HeadSize
  <2>. QED BY <2>1, <2>2, <2>4 DEF CaptureInv
<1>3. CASE ~Popen
  <2>1. UNCHANGED <<writers, written, readerVars>> /\ pc' # "popen"
    BY <1>3 DEF Main, Popen, PopenFails, WaitReturns, WaitExpires, KillGroup,
                KillGroupFails, Reap, Kill, Join, TakeValue, TakeFlag, Stage, procVars
  <2>2. CaptureKeepsEnds'
    BY <1>1, <2>1 DEF readerVars, CaptureKeepsEnds, Kept, HeadSize
  <2>3. ReaderInv' BY <1>1, <2>1 DEF readerVars, ReaderInv
  <2>4. TypeOK'
    <3>1. /\ written' \in [Streams -> Nat]
          /\ reader' \in [Streams -> {"unstarted", "reading", "feeding", "marking", "done"}]
          /\ taken' \in [Streams -> Nat] /\ fed' \in [Streams -> Nat]
          /\ value' \in [Streams -> Seq(Nat)] /\ truncated' \in [Streams -> BOOLEAN]
      BY <1>1, <2>1 DEF readerVars, TypeOK
    <3>2. /\ pc' \in {"popen", "wait", "killpg", "reap", "kill",
                     "join", "value", "flag", "returned"}
          /\ at' \in Streams
      BY <1>1, <1>3 DEF Main, PopenFails, WaitReturns, WaitExpires, KillGroup,
           KillGroupFails, Reap, Kill, Join, TakeValue, TakeFlag, Stage, TypeOK, Streams
    <3>8. joined' \in [Streams -> BOOLEAN] /\ groupKilled' \in BOOLEAN
      <4>1. CASE Join
        <5>1. (reader[at] = "done") \in BOOLEAN OBVIOUS
        <5>. QED BY <1>1, <4>1, <5>1 DEF Join, TypeOK
      <4>2. CASE ~Join
        <5>1. joined' = joined /\ groupKilled' \in {groupKilled, TRUE}
          BY <1>3, <4>2 DEF Main, PopenFails, WaitReturns, WaitExpires, KillGroup,
               KillGroupFails, Reap, Kill, TakeValue, TakeFlag
        <5>. QED BY <1>1, <5>1 DEF TypeOK
      <4>. QED BY <4>1, <4>2
    <3>3. \A ps : /\ Signalled(ps) \in [Processes -> {"absent", "running", "killed", "exited"}]
                  /\ \A p \in Processes : Alive(p) =>
                       Signalled(ps)[p] \in {"running", "killed"}
      BY <1>1 DEF Signalled, TypeOK, Alive
    <3>4. procs' = procs \/ \E ps : procs' = Signalled(ps)
      BY <1>3 DEF Main, PopenFails, WaitReturns, WaitExpires, KillGroup, procVars,
                  KillGroupFails, Reap, Kill, Join, TakeValue, TakeFlag
    <3>5. /\ procs' \in [Processes -> {"absent", "running", "killed", "exited"}]
          /\ \A p \in Processes : Alive(p) => procs'[p] \in {"running", "killed"}
      BY <1>1, <3>3, <3>4 DEF TypeOK, Alive
    <3>6. writers' \in SUBSET {p \in Processes : Alive(p)'}
      BY <1>1, <2>1, <3>5 DEF TypeOK, Alive
    <3>7. result' \in [status : {"none", "environment_error", "completed", "timed_out"},
                       value : [Streams -> Seq(Nat)],
                       truncated : [Streams -> BOOLEAN]]
      <4>1. /\ result.value \in [Streams -> Seq(Nat)]
            /\ result.truncated \in [Streams -> BOOLEAN]
            /\ \A s \in Streams : value[s] \in Seq(Nat) /\ truncated[s] \in BOOLEAN
        BY <1>1 DEF TypeOK
      <4>2. CASE TakeValue BY <1>1, <4>1, <4>2 DEF TakeValue, TypeOK
      <4>3. CASE TakeFlag BY <1>1, <4>1, <4>3 DEF TakeFlag, TypeOK
      <4>4. CASE ~TakeValue /\ ~TakeFlag
        BY <1>1, <1>3, <4>4 DEF Main, PopenFails, WaitReturns, WaitExpires,
             KillGroup, KillGroupFails, Reap, Kill, Join, TypeOK
      <4>. QED BY <4>2, <4>3, <4>4
    <3>. QED BY <3>1, <3>2, <3>5, <3>6, <3>7, <3>8 DEF TypeOK
  <2>. QED BY <2>2, <2>3, <2>4 DEF CaptureInv
<1>. QED BY <1>2, <1>3

LEMMA ReaderCapture ==
  ASSUME NEW s \in Streams, CaptureInv, Reader(s)
  PROVE  CaptureInv'
<1>1. TypeOK /\ ReaderInv /\ CaptureKeepsEnds BY DEF CaptureInv
<1>2. UNCHANGED <<procVars, mainVars>>
  BY DEF Reader, Read, EndOfStream, Feed, Mark
<1>3. pc' = "popen" => FALSE
  BY <1>1, <1>2 DEF Reader, Read, EndOfStream, Feed, Mark, ReaderInv, mainVars
<1>4. /\ fed[s] \in Nat /\ taken[s] \in Nat /\ written[s] \in Nat
      /\ Limit[s] \in Nat /\ ReadSize \in Nat \ {0}
  BY <1>1, SizesArePositive DEF TypeOK
<1>5. CASE Read(s)
  <2>1. /\ taken'[s] \in Nat /\ taken'[s] > taken[s] /\ taken'[s] <= written[s]
        /\ \A u \in Streams \ {s} : taken'[u] = taken[u]
        /\ taken' \in [Streams -> Nat]
    <3>1. PICK n \in Nat : /\ taken' = [taken EXCEPT ![s] = n]
                          /\ n > taken[s] /\ n <= written[s]
      <4>1. CASE /\ written[s] - taken[s] >= ReadSize
                 /\ taken' = [taken EXCEPT ![s] = @ + ReadSize]
        <5>1. /\ taken[s] + ReadSize \in Nat /\ taken[s] + ReadSize > taken[s]
              /\ taken[s] + ReadSize <= written[s]
          BY <1>4, <4>1
        <5>. QED BY <4>1, <5>1
      <4>2. CASE /\ written[s] - taken[s] \in 1..(ReadSize - 1)
                 /\ taken' = [taken EXCEPT ![s] = written[s]]
        <5>1. written[s] > taken[s] /\ written[s] <= written[s] BY <1>4, <4>2
        <5>. QED BY <1>4, <4>2, <5>1
      <4>. QED BY <1>5, <4>1, <4>2 DEF Read
    <3>2. taken \in [Streams -> Nat] BY <1>1 DEF TypeOK
    <3>. QED BY <3>1, <3>2
  <2>2. TypeOK' BY <1>1, <1>2, <1>5, <2>1 DEF Read, TypeOK, procVars, mainVars, Alive
  <2>3. ReaderInv'
    <3>1. /\ reader[s] = "reading" /\ reader' = [reader EXCEPT ![s] = "feeding"]
          /\ UNCHANGED <<fed, written, writers>>
      BY <1>2, <1>5 DEF Read, procVars
    <3>2. reader'[s] = "feeding" /\ fed[s] = taken[s] /\ fed[s] < taken'[s]
      BY <1>1, <1>4, <2>1, <3>1 DEF ReaderInv, TypeOK
    <3>3. \A u \in Streams \ {s} : reader'[u] = reader[u] BY <1>1, <3>1 DEF TypeOK
    <3>4. fed[s] <= taken'[s] BY <1>4, <2>1, <3>2
    <3>. QED BY <1>1, <1>3, <2>1, <3>1, <3>2, <3>3, <3>4 DEF ReaderInv
  <2>4. CaptureKeepsEnds'
    BY <1>1, <1>5 DEF Read, CaptureKeepsEnds, Kept, HeadSize, TypeOK
  <2>. QED BY <2>2, <2>3, <2>4 DEF CaptureInv
<1>6. CASE EndOfStream(s)
  <2>1. TypeOK' BY <1>1, <1>2, <1>6 DEF EndOfStream, TypeOK, procVars, mainVars, Alive
  <2>2. ReaderInv'
    BY <1>1, <1>2, <1>3, <1>4, <1>6 DEF EndOfStream, ReaderInv, TypeOK, procVars
  <2>3. CaptureKeepsEnds'
    BY <1>1, <1>6 DEF EndOfStream, CaptureKeepsEnds, Kept, HeadSize, TypeOK
  <2>. QED BY <2>1, <2>2, <2>3 DEF CaptureInv
<1>7. CASE Feed(s)
  <2>1. fed[s] < taken[s] /\ value[s] = Kept(s, fed[s])
    BY <1>1, <1>7 DEF Feed, ReaderInv, CaptureKeepsEnds
  <2>2. /\ Bounded(s, Combined(s)) = Kept(s, taken[s])
        /\ Len(Combined(s)) <= Limit[s] <=> taken[s] <= Limit[s]
    BY <1>4, <2>1, FeedKeeps
  <2>3. Kept(s, taken[s]) \in Seq(Nat) BY <1>4, KeptIsKept DEF KeptOf
  <2>4. /\ value' = [value EXCEPT ![s] = Kept(s, taken[s])]
        /\ fed' = [fed EXCEPT ![s] = taken[s]]
        /\ reader' = [reader EXCEPT ![s] =
                        IF taken[s] <= Limit[s] THEN "reading" ELSE "marking"]
        /\ UNCHANGED <<taken, truncated>>
    BY <1>7, <2>2 DEF Feed
  <2>5. TypeOK'
    BY <1>1, <1>2, <1>4, <2>3, <2>4 DEF TypeOK, procVars, mainVars, Alive
  <2>6. ReaderInv'
    BY <1>1, <1>2, <1>3, <1>4, <2>4 DEF ReaderInv, TypeOK, procVars
  <2>7. ASSUME NEW u \in Streams
        PROVE  /\ value'[u] = Kept(u, fed'[u])
               /\ reader'[u] # "marking" => (truncated'[u] <=> fed'[u] > Limit[u])
    <3>1. CASE u # s BY <1>1, <2>4, <3>1 DEF TypeOK, CaptureKeepsEnds
    <3>2. CASE u = s
      <4>1. value'[s] = Kept(s, taken[s]) /\ fed'[s] = taken[s]
        BY <1>1, <2>4 DEF TypeOK
      <4>2. CASE taken[s] <= Limit[s]
        <5>1. fed[s] <= Limit[s] /\ ~(taken[s] > Limit[s]) BY <1>4, <2>1, <4>2
        <5>2. reader[s] # "marking" BY <1>7 DEF Feed
        <5>3. truncated[s] <=> fed[s] > Limit[s]
          BY <1>1, <5>2 DEF CaptureKeepsEnds
        <5>4. ~(fed[s] > Limit[s]) BY <1>4, <5>1
        <5>. QED BY <2>4, <3>2, <4>1, <5>1, <5>3, <5>4
      <4>3. CASE ~(taken[s] <= Limit[s])
        BY <1>1, <2>4, <3>2, <4>1, <4>3 DEF TypeOK
      <4>. QED BY <4>2, <4>3
    <3>. QED BY <3>1, <3>2
  <2>8. CaptureKeepsEnds' BY <2>7 DEF CaptureKeepsEnds, Kept, HeadSize
  <2>. QED BY <2>5, <2>6, <2>8 DEF CaptureInv
<1>8. CASE Mark(s)
  <2>1. TypeOK' BY <1>1, <1>2, <1>8 DEF Mark, TypeOK, procVars, mainVars, Alive
  <2>2. ReaderInv'
    BY <1>1, <1>2, <1>3, <1>4, <1>8 DEF Mark, ReaderInv, TypeOK, procVars
  <2>3. fed[s] > Limit[s] BY <1>1, <1>8 DEF Mark, ReaderInv
  <2>4. CaptureKeepsEnds'
    BY <1>1, <1>8, <2>3 DEF Mark, CaptureKeepsEnds, Kept, HeadSize, TypeOK
  <2>. QED BY <2>1, <2>2, <2>4 DEF CaptureInv
<1>. QED BY <1>5, <1>6, <1>7, <1>8 DEF Reader

LEMMA ProcessCapture == CaptureInv /\ Process => CaptureInv'
<1> SUFFICES ASSUME CaptureInv, Process PROVE CaptureInv' OBVIOUS
<1>1. TypeOK /\ ReaderInv /\ CaptureKeepsEnds BY DEF CaptureInv
<1>2. UNCHANGED <<mainVars, readerVars>> BY DEF Process, Spawn, Exit, Write
<1>3. CaptureKeepsEnds'
  BY <1>1, <1>2 DEF readerVars, CaptureKeepsEnds, Kept, HeadSize
<1>4. ASSUME NEW p \in Processes, NEW q \in Processes, NEW inherits \in BOOLEAN,
             Spawn(p, q, inherits)
      PROVE  TypeOK' /\ ReaderInv'
  <2>1. TypeOK' BY <1>1, <1>2, <1>4 DEF Spawn, TypeOK, mainVars, readerVars, Alive
  <2>2. ReaderInv'
    BY <1>1, <1>2, <1>4 DEF Spawn, ReaderInv, mainVars, readerVars
  <2>. QED BY <2>1, <2>2
<1>5. ASSUME NEW p \in Processes, Exit(p)
      PROVE  TypeOK' /\ ReaderInv'
  <2>1. TypeOK' BY <1>1, <1>2, <1>5 DEF Exit, TypeOK, mainVars, readerVars, Alive
  <2>2. ReaderInv' BY <1>1, <1>2, <1>5 DEF Exit, ReaderInv, mainVars, readerVars
  <2>. QED BY <2>1, <2>2
<1>6. ASSUME NEW p \in Processes, NEW s \in Streams, Write(p, s)
      PROVE  TypeOK' /\ ReaderInv'
  <2>1. TypeOK' BY <1>1, <1>2, <1>6 DEF Write, TypeOK, mainVars, readerVars, Alive
  <2>2. writers # {} BY <1>6 DEF Write
  <2>3. \A u \in Streams : /\ written[u] \in Nat /\ written'[u] \in Nat
                           /\ taken[u] \in Nat /\ written'[u] >= written[u]
    <3>1. /\ written \in [Streams -> Nat] /\ taken \in [Streams -> Nat]
          /\ written' = [written EXCEPT ![s] = written[s] + 1]
      BY <1>1, <1>6 DEF Write, TypeOK
    <3>2. written[s] \in Nat /\ written[s] + 1 >= written[s] BY <3>1
    <3>. QED BY <3>1, <3>2
  <2>4. ReaderInv' BY <1>1, <1>2, <2>2, <2>3 DEF ReaderInv, mainVars, readerVars
  <2>. QED BY <2>1, <2>4
<1>7. TypeOK' /\ ReaderInv' BY <1>4, <1>5, <1>6 DEF Process
<1>. QED BY <1>3, <1>7 DEF CaptureInv

LEMMA CaptureStep == CaptureInv /\ [Next]_vars => CaptureInv'
<1>1. CaptureInv /\ UNCHANGED vars => CaptureInv'
  BY DEF CaptureInv, TypeOK, ReaderInv, CaptureKeepsEnds, Kept, HeadSize, Alive,
         vars, mainVars, procVars, readerVars
<1>. QED BY <1>1, MainCapture, ReaderCapture, ProcessCapture DEF Next

(* The captures of a launch hold what they should, at every step: values of *)
(* the right type, ...                                                      *)
THEOREM TypeCorrect == Spec => []TypeOK
<1>1. CaptureInv => TypeOK BY DEF CaptureInv
<1>. QED BY <1>1, CaptureInit, CaptureStep, PTL DEF Spec

(* ... the two ends of the output and a mark that tells (runner.py:58-68).  *)
THEOREM EndsAreKept == Spec => []CaptureKeepsEnds
<1>1. CaptureInv => CaptureKeepsEnds BY DEF CaptureInv
<1>. QED BY <1>1, CaptureInit, CaptureStep, PTL DEF Spec

-----------------------------------------------------------------------------
(* The result.                                                              *)

HasValue(s) ==
  \/ pc \in {"flag", "returned"}
  \/ pc = "value" /\ at = "stderr" /\ s = "stdout"

HasFlag(s) ==
  \/ pc = "returned"
  \/ pc = "flag" /\ at = "stderr" /\ s = "stdout"

(* A thread that was joined has ended, so what is taken of its capture      *)
(* remains what it holds.                                                   *)
JoinedInv ==
  \A s \in Streams : joined[s] =>
    /\ reader[s] = "done"
    /\ HasValue(s) => result.value[s] = value[s]
    /\ HasFlag(s) => result.truncated[s] = truncated[s]

ResultInv == JoinedInv /\ ResultIsAnOutput

LEMMA ResultInit == Init => ResultInv
<1> SUFFICES ASSUME Init PROVE ResultInv OBVIOUS
<1>1. JoinedInv BY DEF Init, JoinedInv
<1>2. ASSUME NEW s \in Streams
      PROVE  \E n \in 0..written[s] : result.value[s] = Kept(s, n)
  <2>1. result.value[s] = value[s] /\ fed[s] = 0 /\ written[s] = 0 BY DEF Init
  <2>2. value[s] = Kept(s, fed[s]) BY CaptureInit DEF CaptureInv, CaptureKeepsEnds
  <2>. QED BY <2>1, <2>2
<1>. QED BY <1>1, <1>2 DEF ResultInv, ResultIsAnOutput

LEMMA JoinedStep ==
  ASSUME CaptureInv, JoinedInv, Next
  PROVE  JoinedInv'
<1>1. TypeOK /\ ReaderInv BY DEF CaptureInv
<1>2. /\ result.value \in [Streams -> Seq(Nat)]
      /\ result.truncated \in [Streams -> BOOLEAN]
      /\ \A s \in Streams : truncated[s] \in BOOLEAN
  BY <1>1 DEF TypeOK
<1>3. CASE PopenFails \/ Popen
  <2>1. \A s \in Streams : ~joined[s] BY <1>1, <1>3 DEF PopenFails, Popen, ReaderInv, JoinedInv
  <2>. QED BY <1>3, <2>1 DEF PopenFails, Popen, JoinedInv
<1>4. CASE Join
  <2>1. \A s \in Streams : joined'[s] => joined[s] \/ reader[s] = "done"
    BY <1>1, <1>4 DEF Join, TypeOK
  <2>2. \A s \in Streams : ~HasValue(s)' /\ ~HasFlag(s)'
    BY <1>4 DEF Join, Stage, HasValue, HasFlag
  <2>3. UNCHANGED reader BY <1>4 DEF Join, readerVars
  <2>. QED BY <2>1, <2>2, <2>3 DEF JoinedInv
<1>5. CASE TakeValue
  <2>1. /\ pc = "value" /\ UNCHANGED <<joined, reader, value, truncated>>
        /\ result' = [result EXCEPT !.value = [result.value EXCEPT ![at] = value[at]]]
    BY <1>5 DEF TakeValue, Stage, readerVars
  <2>2. \A s \in Streams : ~HasFlag(s)'
    BY <1>5 DEF TakeValue, Stage, HasFlag
  <2>3. \A s \in Streams : HasValue(s)' => HasValue(s) \/ s = at
    BY <1>1, <1>5 DEF TakeValue, Stage, HasValue, TypeOK, Streams
  <2>4. \A s \in Streams : /\ s = at => result'.value[s] = value[s]
                           /\ s # at => result'.value[s] = result.value[s]
    BY <1>1, <1>2, <2>1 DEF TypeOK
  <2>5. ASSUME NEW s \in Streams, joined[s], HasValue(s)'
        PROVE  result'.value[s] = value[s]
    BY <2>3, <2>4, <2>5 DEF JoinedInv
  <2>. QED BY <2>1, <2>2, <2>5 DEF JoinedInv
<1>6. CASE TakeFlag
  <2>1. /\ pc = "flag" /\ UNCHANGED <<joined, reader, value, truncated>>
        /\ result' = [result EXCEPT !.truncated =
                        [result.truncated EXCEPT ![at] = truncated[at]]]
    BY <1>6 DEF TakeFlag, Stage, readerVars
  <2>2. \A s \in Streams : HasValue(s) BY <2>1 DEF HasValue
  <2>3. \A s \in Streams : HasFlag(s)' => HasFlag(s) \/ s = at
    BY <1>1, <1>6 DEF TakeFlag, Stage, HasFlag, TypeOK, Streams
  <2>4. \A s \in Streams : /\ s = at => result'.truncated[s] = truncated[s]
                           /\ s # at => result'.truncated[s] = result.truncated[s]
                           /\ result'.value[s] = result.value[s]
    BY <1>1, <1>2, <2>1 DEF TypeOK
  <2>5. ASSUME NEW s \in Streams, joined[s], HasFlag(s)'
        PROVE  result'.truncated[s] = truncated[s]
    BY <2>3, <2>4, <2>5 DEF JoinedInv
  <2>. QED BY <2>1, <2>2, <2>4, <2>5 DEF JoinedInv
<1>7. CASE /\ Main
           /\ ~(PopenFails \/ Popen \/ Join \/ TakeValue \/ TakeFlag)
  <2>1. /\ UNCHANGED <<joined, readerVars>>
        /\ result'.value = result.value /\ result'.truncated = result.truncated
    BY <1>1, <1>7 DEF Main, WaitReturns, WaitExpires, KillGroup, KillGroupFails,
                      Reap, Kill, TypeOK
  <2>2. \A s \in Streams : ~HasValue(s)' /\ ~HasFlag(s)'
    BY <1>7 DEF Main, WaitReturns, WaitExpires, KillGroup, KillGroupFails,
                Reap, Kill, HasValue, HasFlag
  <2>. QED BY <2>1, <2>2 DEF JoinedInv, readerVars
<1>8. ASSUME NEW u \in Streams, Reader(u)
      PROVE  JoinedInv'
  <2>1. UNCHANGED mainVars BY <1>8 DEF Reader, Read, EndOfStream, Feed, Mark
  <2>2. reader[u] # "done" BY <1>8 DEF Reader, Read, EndOfStream, Feed, Mark
  <2>3. \A s \in Streams \ {u} : /\ reader'[s] = reader[s] /\ value'[s] = value[s]
                                 /\ truncated'[s] = truncated[s]
    BY <1>1, <1>8 DEF Reader, Read, EndOfStream, Feed, Mark, TypeOK
  <2>4. ~joined[u] BY <2>2 DEF JoinedInv
  <2>. QED BY <2>1, <2>3, <2>4 DEF JoinedInv, mainVars, HasValue, HasFlag
<1>9. CASE Process
  <2>1. UNCHANGED <<mainVars, readerVars>> BY <1>9 DEF Process, Spawn, Exit, Write
  <2>. QED BY <2>1 DEF JoinedInv, mainVars, readerVars, HasValue, HasFlag
<1>. QED BY <1>3, <1>4, <1>5, <1>6, <1>7, <1>8, <1>9 DEF Next, Main

LEMMA OutputStep ==
  ASSUME CaptureInv, ResultIsAnOutput, Next
  PROVE  ResultIsAnOutput'
<1>1. TypeOK /\ ReaderInv /\ CaptureKeepsEnds BY DEF CaptureInv
<1>2. \A s \in Streams : written'[s] \in Nat /\ written[s] \in Nat /\ written'[s] >= written[s]
  <2>1. CASE UNCHANGED written BY <1>1, <2>1 DEF TypeOK
  <2>2. ASSUME NEW u \in Streams, written' = [written EXCEPT ![u] = written[u] + 1]
        PROVE  \A s \in Streams : written'[s] \in Nat /\ written[s] \in Nat
                                  /\ written'[s] >= written[s]
    <3>1. written \in [Streams -> Nat] BY <1>1 DEF TypeOK
    <3>2. written[u] + 1 \in Nat /\ written[u] + 1 >= written[u] BY <3>1
    <3>. QED BY <2>2, <3>1, <3>2
  <2>3. UNCHANGED written \/ \E u \in Streams : written' = [written EXCEPT ![u] = written[u] + 1]
    BY DEF Next, Main, PopenFails, Popen, WaitReturns, WaitExpires, KillGroup,
           KillGroupFails, Reap, Kill, Join, TakeValue, TakeFlag, Reader, Read,
           EndOfStream, Feed, Mark, Process, Spawn, Exit, Write, procVars
  <2>. QED BY <2>1, <2>2, <2>3
<1> SUFFICES ASSUME NEW s \in Streams
             PROVE  \E n \in 0..written'[s] : result'.value[s] = Kept(s, n)
  BY DEF ResultIsAnOutput, Kept, HeadSize
<1>3. CASE result'.value[s] = result.value[s]
  BY <1>2, <1>3 DEF ResultIsAnOutput
<1>4. CASE result'.value[s] = value[s]
  <2>1. value[s] = Kept(s, fed[s]) /\ fed[s] \in Nat /\ fed[s] <= written[s]
    BY <1>1 DEF CaptureKeepsEnds, ReaderInv, TypeOK
  <2>2. fed[s] \in 0..written'[s] BY <1>2, <2>1
  <2>. QED BY <1>4, <2>1, <2>2
<1>5. result'.value[s] \in {result.value[s], value[s]}
  <2>1. CASE TakeValue
    <3>1. result.value \in [Streams -> Seq(Nat)] BY <1>1 DEF TypeOK
    <3>2. result' = [result EXCEPT !.value = [result.value EXCEPT ![at] = value[at]]]
      BY <2>1 DEF TakeValue
    <3>. QED BY <1>1, <3>1, <3>2 DEF TypeOK
  <2>2. CASE ~TakeValue
    <3>1. \/ UNCHANGED result
          \/ \E x : result' = [result EXCEPT !.status = x]
          \/ \E x : result' = [result EXCEPT !.truncated = x]
      BY <2>2 DEF Next, Main, PopenFails, Popen, WaitReturns, WaitExpires, KillGroup,
           KillGroupFails, Reap, Kill, Join, TakeFlag, Reader, Read,
           EndOfStream, Feed, Mark, Process, Spawn, Exit, Write, mainVars
    <3>. QED BY <1>1, <3>1 DEF TypeOK
  <2>. QED BY <2>1, <2>2
<1>. QED BY <1>3, <1>4, <1>5

LEMMA ResultStep == CaptureInv /\ ResultInv /\ [Next]_vars => ResultInv'
<1>1. ResultInv /\ UNCHANGED vars => ResultInv'
  <2> SUFFICES ASSUME ResultInv, UNCHANGED vars PROVE ResultInv' OBVIOUS
  <2>1. UNCHANGED <<pc, at, written, reader, value, truncated, result, joined>>
    BY DEF vars, mainVars, procVars, readerVars
  <2>2. JoinedInv' BY <2>1 DEF ResultInv, JoinedInv, HasValue, HasFlag
  <2>3. ResultIsAnOutput' BY <2>1 DEF ResultInv, ResultIsAnOutput, Kept, HeadSize
  <2>. QED BY <2>2, <2>3 DEF ResultInv
<1>. QED BY <1>1, JoinedStep, OutputStep DEF ResultInv

(* When a drain thread had ended by the time it was joined, the result has  *)
(* the whole output of that stream, or its two ends and the mark that says  *)
(* so (runner.py:157-159).                                                  *)
THEOREM ExactWhenJoined == Spec => []JoinedIsExact
<1>1. CaptureInv /\ ResultInv => JoinedIsExact
  BY DEF CaptureInv, CaptureKeepsEnds, ReaderInv, ResultInv, JoinedInv, JoinedIsExact,
         HasValue, HasFlag
<1>. QED BY <1>1, CaptureInit, CaptureStep, ResultInit, ResultStep, PTL DEF Spec

(* Every result is the head and the tail of some beginning of the output,   *)
(* whatever raced with it (runner.py:67, 159).                              *)
THEOREM OutputWasWritten == Spec => []ResultIsAnOutput
<1>1. ResultInv => ResultIsAnOutput BY DEF ResultInv
<1>. QED BY <1>1, CaptureInit, CaptureStep, ResultInit, ResultStep, PTL DEF Spec

-----------------------------------------------------------------------------
(* The kill after a timeout.                                                *)

(* Nothing starts in a group that is dead, and the main thread joins only   *)
(* when the child is.                                                       *)
KillInv ==
  /\ pc \in {"popen", "wait"} => ~groupKilled
  /\ pc = "reap" => groupKilled
  /\ groupKilled => \A p \in Group : procs[p] # "running"
  /\ pc \in {"join", "value", "flag", "returned"} /\ result.status = "timed_out" =>
       procs[Child] # "running"

LEMMA KillInit == Init => KillInv
BY DEF Init, KillInv

LEMMA MainKill == TypeOK /\ KillInv /\ Main => KillInv'
<1> SUFFICES ASSUME TypeOK, KillInv, Main PROVE KillInv' OBVIOUS
<1>1. \A ps : \A p \in Processes : /\ Signalled(ps)[p] = "running" => procs[p] = "running"
                                   /\ p \in ps => Signalled(ps)[p] # "running"
  BY DEF Signalled
<1>2. Child \in Group /\ Group \subseteq Processes BY DEF Group, Processes
<1>3. CASE PopenFails \/ WaitReturns
  BY <1>3 DEF PopenFails, WaitReturns, KillInv, TypeOK, procVars
<1>4. CASE Popen BY <1>4 DEF Popen, KillInv, TypeOK
<1>5. CASE WaitExpires BY <1>5 DEF WaitExpires, KillInv, TypeOK, procVars
<1>6. CASE KillGroup BY <1>1, <1>2, <1>6 DEF KillGroup, KillInv
<1>7. CASE KillGroupFails BY <1>7 DEF KillGroupFails, KillInv, procVars
<1>8. CASE Reap BY <1>2, <1>8 DEF Reap, KillInv, procVars, Alive
<1>9. CASE Kill BY <1>1, <1>2, <1>9 DEF Kill, KillInv
<1>10. CASE Join BY <1>10 DEF Join, Stage, KillInv, procVars
<1>11. CASE TakeValue \/ TakeFlag
  <2>1. result'.status = result.status BY <1>11 DEF TakeValue, TakeFlag, TypeOK
  <2>2. /\ pc \in {"value", "flag"} /\ pc' \in {"value", "flag", "returned"}
        /\ UNCHANGED <<groupKilled, procs>>
    BY <1>11 DEF TakeValue, TakeFlag, Stage, procVars
  <2>. QED BY <2>1, <2>2 DEF KillInv
<1>. QED BY <1>3, <1>4, <1>5, <1>6, <1>7, <1>8, <1>9, <1>10, <1>11 DEF Main

LEMMA KillStep == TypeOK /\ KillInv /\ [Next]_vars => KillInv'
<1> SUFFICES ASSUME TypeOK, KillInv, [Next]_vars PROVE KillInv' OBVIOUS
<1>1. CASE Main BY <1>1, MainKill
<1>2. ASSUME NEW s \in Streams, Reader(s) PROVE KillInv'
  BY <1>2 DEF Reader, Read, EndOfStream, Feed, Mark, KillInv, procVars, mainVars
<1>3. ASSUME NEW p \in Processes, NEW q \in Processes, NEW inherits \in BOOLEAN,
             Spawn(p, q, inherits)
      PROVE  KillInv'
  <2>1. UNCHANGED mainVars /\ q # Child /\ procs' = [procs EXCEPT ![q] = "running"]
    BY <1>3 DEF Spawn
  <2>2. groupKilled => q \notin Group
    BY <1>3 DEF Spawn, KillInv, Group
  <2>3. Child \in Group /\ Group \subseteq Processes BY DEF Group, Processes
  <2>4. \A r \in Processes \ {q} : procs'[r] = procs[r] BY <2>1 DEF TypeOK
  <2>. QED BY <2>1, <2>2, <2>3, <2>4 DEF KillInv, mainVars
<1>4. ASSUME NEW p \in Processes, Exit(p) PROVE KillInv'
  <2>1. \A r \in Processes : procs'[r] = "running" => procs[r] = "running"
    BY <1>4 DEF Exit, TypeOK
  <2>2. UNCHANGED mainVars BY <1>4 DEF Exit
  <2>3. Child \in Group /\ Group \subseteq Processes BY DEF Group, Processes
  <2>. QED BY <2>1, <2>2, <2>3 DEF KillInv, mainVars
<1>5. ASSUME NEW p \in Processes, NEW s \in Streams, Write(p, s) PROVE KillInv'
  BY <1>5 DEF Write, KillInv, mainVars
<1>6. CASE UNCHANGED vars BY <1>6 DEF vars, mainVars, procVars, KillInv
<1>. QED BY <1>1, <1>2, <1>3, <1>4, <1>5, <1>6 DEF Next, Process

(* After a launch that timed out the child is dead, and so is its group     *)
(* unless the kernel refused the signal (runner.py:153-156, 161-170).       *)
THEOREM TimedOutDies == Spec => []TimedOutIsDoomed
<1>1. KillInv => TimedOutIsDoomed BY DEF KillInv, TimedOutIsDoomed
<1>. QED BY <1>1, KillInit, KillStep, TypeCorrect, PTL DEF Spec
=================================================================================
