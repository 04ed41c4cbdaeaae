------------------------------ MODULE PatchApplier ------------------------------
(***************************************************************************)
(* apply of patching/applier.py with rollback of patching/rollback.py: a    *)
(* prepared patch is checked against the worktree, written file by file     *)
(* and, when the operating system refuses a step, compensated.              *)
(*                                                                          *)
(* The content of a file is told from the plan's point of view: what the    *)
(* plan found, what it writes, nothing, or anything else.  Others may write *)
(* in the worktree at any time.  The call of execute_patch always comes     *)
(* with an authorization.                                                   *)
(***************************************************************************)
EXTENDS Naturals

CONSTANT N  \* files of the prepared patch, in its order

ASSUME FilesAssumption == N \in Nat \ {0}

Files == 1 .. N

(* "keep" is a diff of context lines only; "move" names two paths, of which *)
(* the plan takes the content of the old and the place of the new.          *)
Operations == {"modify", "create", "delete", "keep", "move"}

Contents == {"absent", "old", "new", "other"}

Phases == {"check", "write", "replace", "scan", "rollback", "restore", "done"}

Outcomes ==
  {"none", "applied", "conflict", "apply_failed", "unknown_outcome",
   "raised", "crashed"}

VARIABLES
  op,       \* operation planned for each file
  disk,     \* what the worktree has at each file's path
  foreign,  \* files somebody else wrote since the plan was prepared
  temps,    \* files with a temporary file beside them
  phase,
  at,       \* file the loop is at
  changed,  \* length of the list of files begun, once a step failed
  todo,     \* compensable files not restored yet
  outcome   \* what apply returned, or how it ended

vars == <<op, disk, foreign, temps, phase, at, changed, todo, outcome>>

plan == <<op, foreign>>

(* Pre-image, post-image, and what the place had at preparation.            *)
Pre(f) == IF op[f] = "create" THEN "absent" ELSE "old"

Post(f) ==
  CASE op[f] = "delete" -> "absent"
    [] op[f] = "keep" -> "old"
    [] OTHER -> "new"

Found(f) == IF op[f] = "move" THEN "absent" ELSE Pre(f)

Init ==
  /\ op \in [Files -> Operations]
  /\ disk = [f \in Files |-> Found(f)]
  /\ foreign = {}
  /\ temps = {}
  /\ phase = "check"
  /\ at = 1
  /\ changed = 0
  /\ todo = {}
  /\ outcome = "none"

Put(f, content) == disk' = [disk EXCEPT ![f] = content]

End(result) == phase' = "done" /\ outcome' = result

GoTo(next) == phase' = next /\ UNCHANGED outcome

-----------------------------------------------------------------------------
(* Nothing is written before every file has its pre-image.                  *)
Check ==
  /\ phase = "check"
  /\ disk[at] = Pre(at)
  /\ IF at = N THEN GoTo("write") /\ at' = 1
               ELSE GoTo("check") /\ at' = at + 1
  /\ UNCHANGED plan /\ UNCHANGED <<disk, temps, changed, todo>>

Conflict ==
  /\ phase = "check"
  /\ disk[at] # Pre(at)
  /\ End("conflict")
  /\ UNCHANGED plan /\ UNCHANGED <<disk, temps, at, changed, todo>>

-----------------------------------------------------------------------------
(* The writes.                                                              *)

Written ==
  IF at = N THEN End("applied") /\ UNCHANGED at
            ELSE GoTo("write") /\ at' = at + 1

Unlink ==
  /\ phase = "write"
  /\ op[at] = "delete"
  /\ disk[at] # "absent"
  /\ Put(at, "absent")
  /\ Written
  /\ UNCHANGED plan /\ UNCHANGED <<temps, changed, todo>>

WriteTemp ==
  /\ phase = "write"
  /\ op[at] # "delete"
  /\ temps' = temps \union {at}
  /\ GoTo("replace")
  /\ UNCHANGED plan /\ UNCHANGED <<disk, at, changed, todo>>

Replace ==
  /\ phase = "replace"
  /\ Put(at, Post(at))
  /\ temps' = temps \ {at}
  /\ Written
  /\ UNCHANGED plan /\ UNCHANGED <<changed, todo>>

(* Any of these calls may fail; the file is already in the list then, and a *)
(* temporary file stays where it is.                                        *)
WriteFails ==
  /\ phase \in {"write", "replace"}
  /\ temps' \in IF op[at] = "delete" THEN {temps} ELSE {temps, temps \union {at}}
  /\ changed' = at
  /\ at' = 1
  /\ GoTo("scan")
  /\ UNCHANGED plan /\ UNCHANGED <<disk, todo>>

-----------------------------------------------------------------------------
(* The compensation: first a scan of the files begun ...                    *)

(* Mutant of ScanRestored: a written file is the one to be left alone.      *)
ScanRestoredSwapped ==
  /\ phase = "scan" /\ at <= changed
  /\ disk[at] = Post(at)
  /\ at' = at + 1
  /\ UNCHANGED plan /\ UNCHANGED <<disk, temps, phase, changed, todo, outcome>>

ScanRestored ==
  /\ phase = "scan" /\ at <= changed
  /\ disk[at] = Pre(at)
  /\ at' = at + 1
  /\ UNCHANGED plan /\ UNCHANGED <<disk, temps, phase, changed, todo, outcome>>

ScanOurs ==
  /\ phase = "scan" /\ at <= changed
  /\ disk[at] # Pre(at) /\ disk[at] = Post(at)
  /\ todo' = todo \union {at}
  /\ at' = at + 1
  /\ UNCHANGED plan /\ UNCHANGED <<disk, temps, phase, changed, outcome>>

(* Mutant of ScanForeign: only the post-image is known.                     *)
ScanForeignUnlessPost ==
  /\ phase = "scan" /\ at <= changed
  /\ disk[at] # Post(at)
  /\ End("unknown_outcome")
  /\ UNCHANGED plan /\ UNCHANGED <<disk, temps, at, changed, todo>>

ScanForeign ==
  /\ phase = "scan" /\ at <= changed
  /\ disk[at] \notin {Pre(at), Post(at)}
  /\ End("unknown_outcome")
  /\ UNCHANGED plan /\ UNCHANGED <<disk, temps, at, changed, todo>>

ScanEnds ==
  /\ phase = "scan" /\ at > changed
  /\ GoTo("rollback")
  /\ UNCHANGED plan /\ UNCHANGED <<disk, temps, at, changed, todo>>

(* ... then the rollback, from the last compensable file to the first, each *)
(* checked again and written in place.                                      *)
Last(f) == f \in todo /\ \A g \in todo : g <= f

Recheck ==
  /\ phase = "rollback"
  /\ \E f \in Files : Last(f) /\ disk[f] = Post(f)
  /\ GoTo("restore")
  /\ UNCHANGED plan /\ UNCHANGED <<disk, temps, at, changed, todo>>

RecheckConflicts ==
  /\ phase = "rollback"
  /\ \E f \in Files : Last(f) /\ disk[f] # Post(f)
  /\ End("unknown_outcome")
  /\ UNCHANGED plan /\ UNCHANGED <<disk, temps, at, changed, todo>>

Restore ==
  /\ phase = "restore"
  /\ \E f \in Files : Last(f) /\ Put(f, Pre(f)) /\ todo' = todo \ {f}
  /\ GoTo("rollback")
  /\ UNCHANGED plan /\ UNCHANGED <<temps, at, changed>>

RolledBack ==
  /\ phase = "rollback" /\ todo = {}
  /\ End("apply_failed")
  /\ UNCHANGED plan /\ UNCHANGED <<disk, temps, at, changed, todo>>

-----------------------------------------------------------------------------
(* Ends that return nothing: an error outside the writes, where nobody      *)
(* catches it, and a crash.  A file being restored may be left torn.        *)
Torn ==
  \/ UNCHANGED disk
  \/ /\ phase = "restore"
     /\ \E f \in Files : Last(f) /\ Pre(f) # "absent" /\ Put(f, "other")

Raise ==
  /\ phase \in {"check", "scan", "rollback", "restore"}
  /\ phase = "rollback" => todo # {}
  /\ Torn
  /\ End("raised")
  /\ UNCHANGED plan /\ UNCHANGED <<temps, at, changed, todo>>

Crash ==
  /\ phase # "done"
  /\ Torn
  /\ End("crashed")
  /\ UNCHANGED plan /\ UNCHANGED <<temps, at, changed, todo>>

(* Somebody else writes a file, anything, the plan's own contents included. *)
Interfere ==
  /\ phase # "done"
  /\ \E f \in Files, content \in Contents :
       Put(f, content) /\ foreign' = foreign \union {f}
  /\ UNCHANGED <<op, temps, phase, at, changed, todo, outcome>>

Apply == Check \/ Conflict \/ Unlink \/ WriteTemp \/ Replace \/ WriteFails

Compensate ==
  \/ ScanRestored \/ ScanOurs \/ ScanForeign \/ ScanEnds
  \/ Recheck \/ RecheckConflicts \/ Restore \/ RolledBack

Next == Apply \/ Compensate \/ Raise \/ Crash \/ Interfere

Spec == Init /\ [][Next]_vars

-----------------------------------------------------------------------------
(* Types, and where each loop may be.                                       *)
TypeOK ==
  /\ op \in [Files -> Operations]
  /\ disk \in [Files -> Contents]
  /\ foreign \subseteq Files
  /\ temps \subseteq Files
  /\ phase \in Phases
  /\ at \in 1 .. N + 1
  /\ phase \in {"check", "write", "replace"} => at \in Files
  /\ changed \in 0 .. N
  /\ phase = "scan" => at <= changed + 1
  /\ todo \subseteq Files
  /\ outcome \in Outcomes
  /\ (outcome = "none") = (phase # "done")

Own == Files \ foreign

(* An answer of apply tells the state of every file nobody else wrote: all  *)
(* are the plan's, or all are what they were, wherever between two files a  *)
(* step failed.                                                             *)
AllOrNothing ==
  /\ outcome = "applied" => \A f \in Own : disk[f] = Post(f)
  /\ outcome = "apply_failed" => \A f \in Own : disk[f] = Pre(f)
  /\ outcome = "conflict" => \A f \in Own : disk[f] = Found(f)

(* A patch is only given up as unknown, which pauses the task for a human,  *)
(* when somebody else really wrote one of its files.                        *)
UnknownMeansInterference == outcome = "unknown_outcome" => foreign # {}
=================================================================================
