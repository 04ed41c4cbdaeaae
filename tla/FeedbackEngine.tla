----------------------------- MODULE FeedbackEngine -----------------------------
(***************************************************************************)
(* The pure feedback engine: feedback/engine.py and feedback/fingerprint.py *)
(* compare one parsed test result with the previous one and with the        *)
(* results that precede it.                                                 *)
(*                                                                          *)
(* A result is a record                                                     *)
(*   [phase, outcome, nodes, detail, rev]                                   *)
(* "nodes" is the set of failing test ids, "detail" stands for the          *)
(* exception type, the summary and the project frames taken together (the   *)
(* engine only ever compares the three through one digest) and "rev" is the *)
(* content of the workspace the run was made on.                            *)
(***************************************************************************)
EXTENDS Naturals, Sequences

(* The phases the runtime gives to a run (TestPhase has three more, which   *)
(* nothing in the program produces).                                        *)
Phases == {"focused", "requested_full", "post_patch"}

ParsedOutcomes ==
  {"passed", "failed", "collection_error", "environment_error", "unparseable"}

FeedbackKinds ==
  {"passed", "progress", "no_progress", "changed", "regression", "loop",
   "environment_error", "unparseable"}

(* Results that say nothing about the code under repair.                    *)
Unreliable(r) == r.outcome \in {"environment_error", "unparseable"}

(* Results that name something to repair.                                   *)
Failing(r) == r.outcome \in {"failed", "collection_error"}

(* The digest of everything but the run id and the workspace revision.      *)
Fingerprint(r) == <<r.phase, r.outcome, r.nodes, r.detail>>

(* Mutant of SeenBefore: the oldest entry is forgotten too.                 *)
SeenBeforeLately(current, history) ==
  \E i \in 2 .. (Len(history) - 1) : Fingerprint(history[i]) = Fingerprint(current)

(* The loop test looks at history[:-1]: the newest entry is left to the     *)
(* no-progress rule.                                                        *)
SeenBefore(current, history) ==
  \E i \in 1 .. (Len(history) - 1) : Fingerprint(history[i]) = Fingerprint(current)

(* The ordered comparison of a failing result with the previous result.     *)
Compare(previous, current) ==
  IF previous.outcome = "collection_error" /\ current.outcome # "collection_error"
    THEN "progress"
  ELSE IF current.nodes \subseteq previous.nodes /\ current.nodes # previous.nodes
    THEN "progress"
  ELSE IF current.nodes \ previous.nodes # {}
    THEN "regression"
  ELSE IF Fingerprint(previous) = Fingerprint(current) /\ current.rev = previous.rev
    THEN "no_progress"
  ELSE "changed"

(* FeedbackEngine.analyze; a failing current result requires a previous one. *)
Analyze(previous, current, history) ==
  IF ~Failing(current) THEN current.outcome
  ELSE IF SeenBefore(current, history) THEN "loop"
  ELSE Compare(previous, current)
=================================================================================
