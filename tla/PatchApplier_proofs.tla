-------------------------- MODULE PatchApplier_proofs --------------------------
(***************************************************************************)
(* Proofs about PatchApplier, for a patch of any number of files.           *)
(***************************************************************************)
EXTENDS PatchApplier, TLAPS

(* What the files nobody else wrote hold, while apply is at each phase.     *)
CheckInv ==
  phase = "check" =>
    /\ \A f \in Own : disk[f] = Found(f)
    /\ \A f \in Own : f < at => disk[f] = Pre(f)

WriteInv ==
  phase \in {"write", "replace"} =>
    /\ \A f \in Own : f < at => disk[f] = Post(f)
    /\ \A f \in Own : f >= at => disk[f] = Pre(f)

(* In a compensation a file is either as it was or as the patch wrote it,   *)
(* the ones behind the scan are known, and the ones never begun untouched.  *)
ScanInv ==
  phase = "scan" =>
    /\ \A f \in Own : disk[f] \in {Pre(f), Post(f)}
    /\ \A f \in Own : f < at => disk[f] = Pre(f) \/ f \in todo
    /\ \A f \in Own : f > changed => disk[f] = Pre(f)
    /\ \A f \in Own : f \in todo => disk[f] = Post(f)

RollbackInv ==
  phase \in {"rollback", "restore"} =>
    /\ \A f \in Own : f \in todo => disk[f] = Post(f)
    /\ \A f \in Own : f \notin todo => disk[f] = Pre(f)

TodoInv == phase \in {"check", "write", "replace"} => todo = {}

IInv ==
  /\ TypeOK /\ TodoInv
  /\ CheckInv /\ WriteInv /\ ScanInv /\ RollbackInv
  /\ AllOrNothing /\ UnknownMeansInterference

-----------------------------------------------------------------------------
(* The three images of a file are contents.                                 *)
LEMMA ImagesTyped ==
  \A f \in Files : Pre(f) \in Contents /\ Post(f) \in Contents /\ Found(f) \in Contents
BY DEF Pre, Post, Found, Contents

(* The initial state satisfies the strengthening.                           *)
LEMMA InitInv == Init => IInv
<1> SUFFICES ASSUME Init PROVE IInv
  OBVIOUS
<1>1. TypeOK
  BY FilesAssumption, ImagesTyped
     DEF Init, TypeOK, Files, Phases, Outcomes
<1>2. QED
  BY <1>1, FilesAssumption
     DEF Init, IInv, TodoInv, CheckInv, WriteInv, ScanInv, RollbackInv,
         AllOrNothing, UnknownMeansInterference, Own, Files

-----------------------------------------------------------------------------
(* Every step keeps the types and the places of the loops.                  *)
LEMMA TypeStep == TypeOK /\ [Next]_vars => TypeOK'
<1> SUFFICES ASSUME TypeOK, [Next]_vars PROVE TypeOK'
  OBVIOUS
<1> USE FilesAssumption DEF Files
<1>1. CASE Check
  BY <1>1 DEF Check, GoTo, plan, TypeOK, Phases
<1>2. CASE Conflict
  BY <1>2 DEF Conflict, End, plan, TypeOK, Phases, Outcomes
<1>3. CASE Unlink
  BY <1>3 DEF Unlink, Put, Written, End, GoTo, plan, TypeOK, Phases, Outcomes, Contents
<1>4. CASE WriteTemp
  BY <1>4 DEF WriteTemp, GoTo, plan, TypeOK, Phases
<1>5. CASE Replace
  <2>1. Post(at) \in Contents
    BY <1>5, ImagesTyped DEF Replace, TypeOK
  <2>2. QED
    BY <1>5, <2>1 DEF Replace, Put, Written, End, GoTo, plan, TypeOK, Phases, Outcomes
<1>6. CASE WriteFails
  BY <1>6 DEF WriteFails, GoTo, plan, TypeOK, Phases
<1>7. CASE ScanRestored
  BY <1>7 DEF ScanRestored, plan, TypeOK
<1>8. CASE ScanOurs
  BY <1>8 DEF ScanOurs, plan, TypeOK
<1>9. CASE ScanForeign \/ RecheckConflicts \/ RolledBack
  BY <1>9 DEF ScanForeign, RecheckConflicts, RolledBack, End, plan, TypeOK, Phases, Outcomes
<1>10. CASE ScanEnds \/ Recheck
  BY <1>10 DEF ScanEnds, Recheck, GoTo, plan, TypeOK, Phases
<1>11. CASE Restore
  BY <1>11, ImagesTyped DEF Restore, Put, GoTo, plan, TypeOK, Phases
<1>12. ASSUME Torn PROVE disk' \in [Files -> Contents]
  BY <1>12 DEF Torn, Put, TypeOK, Contents
<1>13. CASE Raise \/ Crash
  BY <1>12, <1>13 DEF Raise, Crash, End, plan, TypeOK, Phases, Outcomes
<1>14. CASE Interfere
  BY <1>14 DEF Interfere, Put, TypeOK
<1>15. CASE UNCHANGED vars
  BY <1>15 DEF vars, TypeOK
<1>16. QED
  BY <1>1, <1>2, <1>3, <1>4, <1>5, <1>6, <1>7, <1>8, <1>9, <1>10, <1>11, <1>13,
     <1>14, <1>15
     DEF Next, Apply, Compensate

(* Types: []TypeOK, the loop bounds of apply and its compensation included. *)
THEOREM ApplierTypeCorrectness == Spec => []TypeOK
<1>1. Init => TypeOK
  BY InitInv DEF IInv
<1>2. QED
  BY <1>1, TypeStep, PTL DEF Spec

-----------------------------------------------------------------------------
(* Steps of apply itself: file by file from pre-image to post-image.        *)
LEMMA ApplyStep == IInv /\ Apply => IInv'
<1> SUFFICES ASSUME IInv, Apply PROVE IInv'
  OBVIOUS
<1> USE FilesAssumption DEF Files, IInv, TodoInv, Own
<1>0. TypeOK'
  BY TypeStep DEF Next
<1>1. CASE Check
  <2>1. \A f \in Files : Pre(f)' = Pre(f) /\ Found(f)' = Found(f)
    BY <1>1 DEF Check, plan, Pre, Found
  <2>2. /\ phase = "check" /\ outcome = "none" /\ outcome' = "none"
        /\ disk' = disk /\ foreign' = foreign /\ todo' = {}
    BY <1>1 DEF Check, GoTo, plan, TypeOK
  <2>3. \A f \in Own : f < at + 1 => disk[f] = Pre(f)
    BY <1>1 DEF Check, CheckInv, TypeOK
  <2>4. CASE at = N
    <3>1. phase' = "write" /\ at' = 1
      BY <1>1, <2>4 DEF Check, GoTo
    <3>2. \A f \in Own : disk[f] = Pre(f)
      BY <2>3, <2>4
    <3>3. QED
      BY <1>0, <2>1, <2>2, <3>1, <3>2
         DEF CheckInv, WriteInv, ScanInv, RollbackInv, AllOrNothing,
             UnknownMeansInterference
  <2>5. CASE at # N
    <3>1. phase' = "check" /\ at' = at + 1
      BY <1>1, <2>5 DEF Check, GoTo
    <3>2. CheckInv'
      BY <2>1, <2>2, <2>3, <3>1 DEF CheckInv
    <3>3. QED
      BY <1>0, <2>2, <3>1, <3>2
         DEF WriteInv, ScanInv, RollbackInv, AllOrNothing, UnknownMeansInterference
  <2>6. QED
    BY <2>4, <2>5
<1>2. CASE Conflict
  <2>1. \A f \in Files : Found(f)' = Found(f)
    BY <1>2 DEF Conflict, plan, Pre, Found
  <2>2. QED
    BY <1>0, <1>2, <2>1
       DEF Conflict, End, plan, TypeOK, CheckInv, WriteInv, ScanInv, RollbackInv,
           AllOrNothing, UnknownMeansInterference
<1>3. CASE Unlink \/ Replace
  <2>1. \A f \in Files : Pre(f)' = Pre(f) /\ Post(f)' = Post(f)
    BY <1>3 DEF Unlink, Replace, plan, Pre, Post
  <2>2. disk' = [disk EXCEPT ![at] = Post(at)] /\ at \in Files
    <3>1. op[at] = "delete" => Post(at) = "absent"
      BY DEF Post
    <3>2. QED
      BY <1>3, <3>1 DEF Unlink, Replace, Put, TypeOK
  <2>3. \A f \in Own : f <= at => disk'[f] = Post(f)
    BY <1>3, <2>2 DEF Unlink, Replace, WriteInv, TypeOK
  <2>4. \A f \in Own : f > at => disk'[f] = Pre(f)
    BY <1>3, <2>2 DEF Unlink, Replace, WriteInv, TypeOK
  <2>5. Written /\ foreign' = foreign /\ todo' = {} /\ outcome = "none"
    BY <1>3 DEF Unlink, Replace, plan, TypeOK
  <2>6. CASE at = N
    <3>1. phase' = "done" /\ outcome' = "applied"
      BY <2>5, <2>6 DEF Written, End
    <3>2. \A f \in Own : disk'[f] = Post(f)
      BY <2>3, <2>6
    <3>3. AllOrNothing'
      BY <2>1, <2>5, <3>1, <3>2 DEF AllOrNothing
    <3>4. QED
      BY <1>0, <3>1, <3>3
         DEF CheckInv, WriteInv, ScanInv, RollbackInv, UnknownMeansInterference
  <2>7. CASE at # N
    <3>1. phase' = "write" /\ outcome' = "none" /\ at' = at + 1
      BY <2>5, <2>7 DEF Written, GoTo
    <3>2. WriteInv'
      BY <2>1, <2>2, <2>3, <2>4, <2>5, <3>1 DEF WriteInv
    <3>3. QED
      BY <1>0, <2>5, <3>1, <3>2
         DEF CheckInv, ScanInv, RollbackInv, AllOrNothing, UnknownMeansInterference
  <2>8. QED
    BY <2>6, <2>7
<1>4. CASE WriteTemp
  <2>1. \A f \in Files : Pre(f)' = Pre(f) /\ Post(f)' = Post(f)
    BY <1>4 DEF WriteTemp, plan, Pre, Post
  <2>2. /\ phase = "write" /\ phase' = "replace" /\ outcome' = outcome
        /\ disk' = disk /\ foreign' = foreign /\ todo' = todo /\ at' = at
    BY <1>4 DEF WriteTemp, GoTo, plan
  <2>3. outcome = "none"
    BY <2>2 DEF TypeOK
  <2>4. WriteInv'
    BY <2>1, <2>2 DEF WriteInv
  <2>5. QED
    BY <1>0, <2>2, <2>3, <2>4
       DEF CheckInv, ScanInv, RollbackInv, AllOrNothing, UnknownMeansInterference
<1>5. CASE WriteFails
  <2>1. \A f \in Files : Pre(f)' = Pre(f) /\ Post(f)' = Post(f)
    BY <1>5 DEF WriteFails, plan, Pre, Post
  <2>2. phase' = "scan" /\ outcome' = outcome /\ outcome = "none" /\ todo' = {}
    BY <1>5 DEF WriteFails, GoTo, TypeOK
  <2>3. at' = 1 /\ changed' = at /\ disk' = disk /\ foreign' = foreign
    BY <1>5 DEF WriteFails, plan
  <2>4. ScanInv'
    BY <1>5, <2>1, <2>2, <2>3 DEF WriteFails, WriteInv, ScanInv, TypeOK
  <2>5. QED
    BY <1>0, <2>2, <2>4
       DEF CheckInv, WriteInv, RollbackInv, AllOrNothing, UnknownMeansInterference
<1>6. QED
  BY <1>1, <1>2, <1>3, <1>4, <1>5 DEF Apply

(* Steps of the compensation: what is not known restored is in todo.        *)
LEMMA CompensateStep == IInv /\ Compensate => IInv'
<1> SUFFICES ASSUME IInv, Compensate PROVE IInv'
  OBVIOUS
<1> USE FilesAssumption DEF Files, IInv, TodoInv, Own
<1>0. TypeOK'
  BY TypeStep DEF Next
<1>i. \A f \in Files : Pre(f)' = Pre(f) /\ Post(f)' = Post(f)
  BY DEF Compensate, ScanRestored, ScanOurs, ScanForeign, ScanEnds, Recheck,
         RecheckConflicts, Restore, RolledBack, plan, Pre, Post
<1>1. CASE ScanRestored \/ ScanOurs
  <2>1. at \in Files /\ phase = "scan" /\ phase' = "scan" /\ outcome' = outcome
    BY <1>1 DEF ScanRestored, ScanOurs, TypeOK
  <2>2. disk' = disk /\ foreign' = foreign /\ changed' = changed
    BY <1>1 DEF ScanRestored, ScanOurs, plan
  <2>3. at' = at + 1 /\ at \in Nat
    BY <1>1, <2>1 DEF ScanRestored, ScanOurs
  <2>4. \/ disk[at] = Pre(at) /\ todo' = todo
        \/ disk[at] = Post(at) /\ todo' = todo \union {at}
    BY <1>1 DEF ScanRestored, ScanOurs
  <2>5. ScanInv'
    <3>1. \A f \in Own : f < at + 1 => disk[f] = Pre(f) \/ f \in todo'
      BY <2>1, <2>3, <2>4 DEF ScanInv
    <3>2. \A f \in Own : f \in todo' => disk[f] = Post(f)
      BY <2>1, <2>4 DEF ScanInv
    <3>3. QED
      BY <1>i, <2>1, <2>2, <2>3, <3>1, <3>2 DEF ScanInv
  <2>6. QED
    BY <1>0, <2>1, <2>5
       DEF TypeOK, CheckInv, WriteInv, RollbackInv, AllOrNothing, UnknownMeansInterference
<1>2. CASE ScanForeign
  <2>1. at \notin Own
    BY <1>2 DEF ScanForeign, ScanInv
  <2>2. foreign' # {}
    BY <1>2, <2>1 DEF ScanForeign, plan, TypeOK
  <2>3. QED
    BY <1>0, <1>2, <2>2
       DEF ScanForeign, End, CheckInv, WriteInv, ScanInv, RollbackInv,
           AllOrNothing, UnknownMeansInterference
<1>3. CASE ScanEnds
  <2>1. \A f \in Own : f \notin todo => disk[f] = Pre(f)
    BY <1>3 DEF ScanEnds, ScanInv, TypeOK
  <2>2. QED
    BY <1>0, <1>3, <1>i, <2>1
       DEF ScanEnds, GoTo, plan, TypeOK, CheckInv, WriteInv, ScanInv, RollbackInv,
           AllOrNothing, UnknownMeansInterference
<1>4. CASE Recheck
  BY <1>0, <1>4, <1>i
     DEF Recheck, GoTo, plan, TypeOK, CheckInv, WriteInv, ScanInv, RollbackInv,
         AllOrNothing, UnknownMeansInterference
<1>5. CASE RecheckConflicts
  <2>1. PICK f \in Files : Last(f) /\ disk[f] # Post(f)
    BY <1>5 DEF RecheckConflicts
  <2>2. f \in foreign
    BY <1>5, <2>1 DEF RecheckConflicts, Last, RollbackInv
  <2>3. QED
    BY <1>0, <1>5, <2>2
       DEF RecheckConflicts, End, plan, CheckInv, WriteInv, ScanInv, RollbackInv,
           AllOrNothing, UnknownMeansInterference
<1>6. CASE Restore
  <2>1. PICK f \in Files : Put(f, Pre(f)) /\ todo' = todo \ {f}
    BY <1>6 DEF Restore
  <2>2. QED
    BY <1>0, <1>6, <1>i, <2>1
       DEF Restore, Put, GoTo, plan, TypeOK, CheckInv, WriteInv, ScanInv, RollbackInv,
           AllOrNothing, UnknownMeansInterference
<1>7. CASE RolledBack
  BY <1>0, <1>7, <1>i
     DEF RolledBack, End, plan, TypeOK, CheckInv, WriteInv, ScanInv, RollbackInv,
         AllOrNothing, UnknownMeansInterference
<1>8. QED
  BY <1>1, <1>2, <1>3, <1>4, <1>5, <1>6, <1>7 DEF Compensate

(* An error, a crash, and what others write.                                *)
LEMMA DisturbanceStep == IInv /\ (Raise \/ Crash \/ Interfere) => IInv'
<1> SUFFICES ASSUME IInv, Raise \/ Crash \/ Interfere PROVE IInv'
  OBVIOUS
<1> USE FilesAssumption DEF Files, IInv, TodoInv, Own
<1>0. TypeOK'
  BY TypeStep DEF Next
<1>1. CASE Raise \/ Crash
  BY <1>0, <1>1
     DEF Raise, Crash, End, CheckInv, WriteInv, ScanInv, RollbackInv,
         AllOrNothing, UnknownMeansInterference
<1>2. CASE Interfere
  <2>1. \A f \in Files : Pre(f)' = Pre(f) /\ Post(f)' = Post(f) /\ Found(f)' = Found(f)
    BY <1>2 DEF Interfere, Pre, Post, Found
  <2>2. Own' \subseteq Own /\ \A f \in Own' : disk'[f] = disk[f]
    BY <1>2 DEF Interfere, Put, TypeOK
  <2>3. QED
    BY <1>0, <1>2, <2>1, <2>2
       DEF Interfere, TypeOK, CheckInv, WriteInv, ScanInv, RollbackInv,
           AllOrNothing, UnknownMeansInterference
<1>3. QED
  BY <1>1, <1>2

(* Every step keeps the strengthening.                                      *)
LEMMA NextInv == IInv /\ [Next]_vars => IInv'
<1> SUFFICES ASSUME IInv, [Next]_vars PROVE IInv'
  OBVIOUS
<1>1. CASE Next
  BY <1>1, ApplyStep, CompensateStep, DisturbanceStep DEF Next
<1>2. CASE UNCHANGED vars
  BY <1>2
     DEF vars, IInv, TypeOK, TodoInv, CheckInv, WriteInv, ScanInv, RollbackInv,
         AllOrNothing, UnknownMeansInterference, Own, Pre, Post, Found
<1>3. QED
  BY <1>1, <1>2

LEMMA Invariance == Spec => []IInv
BY InitInv, NextInv, PTL DEF Spec

(* Whichever file of however many fails, and whatever others write, an      *)
(* answer of apply tells the state of all the files nobody else wrote.      *)
THEOREM ApplyIsAllOrNothing == Spec => []AllOrNothing
<1>1. IInv => AllOrNothing
  BY DEF IInv
<1>2. QED
  BY <1>1, Invariance, PTL

(* An unknown outcome is never the patch's own doing.                       *)
THEOREM UnknownIsNeverOwn == Spec => []UnknownMeansInterference
<1>1. IInv => UnknownMeansInterference
  BY DEF IInv
<1>2. QED
  BY <1>1, Invariance, PTL
=================================================================================
