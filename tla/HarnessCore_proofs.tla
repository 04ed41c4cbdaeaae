--------------------------- MODULE HarnessCore_proofs ---------------------------
(***************************************************************************)
(* Proofs about HarnessCore, for every budget, worktree, test suite and     *)
(* patch.                                                                   *)
(***************************************************************************)
EXTENDS DemoWorker, FiniteSetTheorems, SequenceTheorems, TLAPS

Executing == pc \in {"apply", "tool", "test"}

(* What a running step has spent and not yet saved.                         *)
BudgetInv ==
  /\ stored.actions <= MaxActions
  /\ stored.feedback <= MaxFeedback
  /\ Len(stored.results) = stored.feedback
  /\ pc # "idle" => stored.status = "deciding"
  /\ ~Executing => session = stored
  /\ pc = "load" \/ stored.status # "deciding" => llmCalls = stored.actions
  /\ pc = "generate" => WithinBudget /\ llmCalls = stored.actions
  /\ Executing =>
       /\ WithinBudget
       /\ llmCalls = stored.actions + 1
       /\ session.actions = stored.actions + 1
       /\ session.status = "deciding"
       /\ session.feedback = stored.feedback
       /\ session.previous = stored.previous
       /\ session.results = stored.results
  /\ llmCalls <= MaxActions

(* Only a test run that follows a patch starts on an unreviewed worktree.   *)
ReviewInv ==
  unreviewed => pc = "idle" \/ (pc = "test" /\ phase = "post_patch")

(* The strengthening that is preserved by every step.                       *)
IInv == TypeOK /\ BudgetInv /\ ReviewInv /\ SuccessIsEarned

-----------------------------------------------------------------------------
(* Both budgets are positive numbers.                                       *)
LEMMA LimitsTyped ==
  ASSUME limits \in Limits
  PROVE  MaxActions \in Nat \ {0} /\ MaxFeedback \in Nat \ {0}
BY LimitsAssumption DEF MaxActions, MaxFeedback

(* Every result the parser makes of a raw run is a well-formed result.      *)
LEMMA ParsedTyped ==
  ASSUME NEW raw \in RawRuns, NEW testPhase \in Phases
  PROVE  ParsePytest(raw, testPhase, NoDetail) \in Results
BY TextsAssumption
   DEF RawRuns, ParsePytest, ParsedOutcome, Results, ParsedOutcomes, Classify

(* The parser calls a run passed only if the process proves it.             *)
LEMMA PassedIsGenuine ==
  ASSUME NEW raw \in RawRuns, WellFormed(raw), NEW testPhase \in Phases,
         Classify(raw) # "workspace_drift",
         ParsePytest(raw, testPhase, NoDetail).outcome = "passed"
  PROVE  GenuinePass(raw)
BY TextsAssumption
   DEF RawRuns, ParsePytest, ParsedOutcome, Classify, LaunchOutcome, NoEvidence,
       GenuinePass, WellFormed, NoCode, LaunchStatuses

(* Whatever a pytest process does, the run made of it keeps the contract of *)
(* TestRun (domain/models.py:190-213): apart from its dates the domain model *)
(* refuses none of the runs PytestTestRunner.run classifies                 *)
(* (pytest_runner.py:104-115).                                              *)
THEOREM RunsAreValid ==
  ASSUME NEW raw \in RawRuns, WellFormed(raw)
  PROVE  ValidRun(raw)
<1>1. raw.launch \in LaunchStatuses /\ raw.clean \in BOOLEAN
  BY DEF RawRuns
<1>. QED
  BY <1>1 DEF ValidRun, Classify, LaunchOutcome, WellFormed, NoCode, LaunchStatuses

(* The gate knows nothing but the five statuses, and lets a task succeed    *)
(* only on a passed result of a full phase.                                 *)
LEMMA GateTyped ==
  ASSUME IInv, NEW s \in Sessions, NEW kind
  PROVE  /\ GateStatus(s, kind) \in Statuses
         /\ GateStatus(s, kind) = "succeeded" => kind = "passed" /\ phase # "focused"
         /\ GateStatus(s, kind) = "deciding" => s.feedback < MaxFeedback
BY LimitsTyped DEF IInv, TypeOK, GateStatus, Statuses, Sessions

(* The engine calls a comparison passed only for a passed result.           *)
LEMMA KindPassed ==
  ASSUME NEW r \in Results, KindOf(r) = "passed"
  PROVE  r.outcome = "passed"
BY DEF KindOf, Analyze, Compare, Failing, FirstComparison, Results

(* Logging and status changes keep a session well formed.                   *)
LEMMA LogTyped ==
  ASSUME NEW s \in Sessions, NEW tag \in HistoryTags
  PROVE  /\ Log(s, tag) \in Sessions
         /\ Log(s, tag) = [s EXCEPT !.history = Append(s.history, tag)]
         /\ Log(s, tag).status = s.status
         /\ Log(s, tag).actions = s.actions
         /\ Log(s, tag).feedback = s.feedback
         /\ Log(s, tag).previous = s.previous
         /\ Log(s, tag).results = s.results
BY DEF Log, Sessions

(* A status change touches the status alone.                                *)
LEMMA StatusTyped ==
  ASSUME NEW s \in Sessions, NEW status \in Statuses
  PROVE  /\ WithStatus(s, status) \in Sessions
         /\ WithStatus(s, status).status = status
         /\ WithStatus(s, status).actions = s.actions
         /\ WithStatus(s, status).feedback = s.feedback
         /\ WithStatus(s, status).previous = s.previous
         /\ WithStatus(s, status).results = s.results
BY DEF WithStatus, Sessions

(* A recorded result is one more result and one more feedback round.        *)
LEMMA RecordTyped ==
  ASSUME NEW s \in Sessions, NEW r \in Results
  PROVE  /\ Record(s, r) \in Sessions
         /\ Record(s, r).status = s.status
         /\ Record(s, r).actions = s.actions
         /\ Record(s, r).feedback = s.feedback + 1
         /\ Len(Record(s, r).results) = Len(s.results) + 1
<1>1. s.results \in Seq(Results) /\ s.feedback \in Nat
  BY DEF Sessions
<1>2. /\ Append(s.results, r) \in Seq(Results)
      /\ Len(Append(s.results, r)) = Len(s.results) + 1
  BY <1>1
<1>3. Record(s, r) = [s EXCEPT !.previous = r, !.results = Append(s.results, r),
                               !.feedback = s.feedback + 1]
  BY DEF Record
<1>4. s = [status |-> s.status, actions |-> s.actions, feedback |-> s.feedback,
            previous |-> s.previous, results |-> s.results, history |-> s.history]
  BY DEF Sessions
<1>5. Record(s, r) =
        [status |-> s.status, actions |-> s.actions, feedback |-> s.feedback + 1,
         previous |-> r, results |-> Append(s.results, r), history |-> s.history]
  BY <1>3, <1>4
<1>6. Record(s, r) \in Sessions
  BY <1>1, <1>2, <1>5 DEF Sessions
<1>. QED BY <1>2, <1>5, <1>6

-----------------------------------------------------------------------------
(* What a save must establish: within budget, everything asked is paid for, *)
(* only a reviewed worktree goes on, and success is earned.                 *)
LEMMA CommitKeeps ==
  ASSUME IInv, NEW s \in Sessions, Commit(s), limits' = limits,
         s.actions <= MaxActions, s.feedback <= MaxFeedback,
         Len(s.results) = s.feedback,
         llmCalls' = s.actions,
         revision' \in Revisions, green' \in Revisions \cup {NoRevision},
         unreviewed' \in BOOLEAN,
         s.status = "deciding" => ~unreviewed',
         s.status = "succeeded" => green' = revision' /\ ~unreviewed'
  PROVE  IInv'
<1>1. TypeOK'
  BY DEF Commit, IInv, TypeOK, Sessions
<1>2. BudgetInv'
  BY LimitsTyped
     DEF Commit, IInv, TypeOK, BudgetInv, Executing, Sessions, WithinBudget, MaxActions, MaxFeedback
<1>3. ReviewInv' /\ SuccessIsEarned'
  BY DEF Commit, ReviewInv, SuccessIsEarned, Sessions
<1>. QED BY <1>1, <1>2, <1>3 DEF IInv

(* A new task satisfies the invariant.                                      *)
LEMMA InitIInv == Init => IInv
<1>. SUFFICES ASSUME Init PROVE IInv
  OBVIOUS
<1>1. stored \in Sessions
  BY DEF Init, Sessions, Statuses
<1>2. TypeOK
  BY <1>1 DEF Init, TypeOK
<1>3. BudgetInv
  BY <1>2, LimitsTyped DEF Init, TypeOK, BudgetInv, Executing
<1>4. ReviewInv /\ SuccessIsEarned
  BY DEF Init, ReviewInv, SuccessIsEarned
<1>. QED BY <1>2, <1>3, <1>4 DEF IInv

(* The session with the answer counted: what every way of handling the      *)
(* answer starts from.                                                      *)
LEMMA AnsweredTyped ==
  ASSUME IInv, pc = "generate"
  PROVE  /\ Answered \in Sessions
         /\ Answered.actions = stored.actions + 1
         /\ Answered.actions = llmCalls + 1
         /\ Answered.actions <= MaxActions
         /\ Answered.status = "deciding"
         /\ Answered.feedback = stored.feedback
         /\ Answered.feedback <= MaxFeedback
         /\ Answered.previous = stored.previous
         /\ Answered.results = stored.results
         /\ Len(Answered.results) = Answered.feedback
<1>1. session = stored /\ stored \in Sessions
  BY DEF IInv, TypeOK, BudgetInv, Executing
<1>2. /\ Answered \in Sessions
      /\ Answered.actions = stored.actions + 1
      /\ Answered.status = stored.status
      /\ Answered.feedback = stored.feedback
      /\ Answered.previous = stored.previous
      /\ Answered.results = stored.results
  BY <1>1 DEF Answered, Sessions
<1>. QED
  BY <1>1, <1>2, LimitsTyped DEF IInv, TypeOK, BudgetInv, WithinBudget, Sessions

(* Reading the store, or finding a budget spent.                            *)
LEMMA LoadKeeps == IInv /\ (Load \/ BudgetExhausted) => IInv'
<1>. SUFFICES ASSUME IInv, Load \/ BudgetExhausted PROVE IInv'
  OBVIOUS
<1>1. CASE Load
  <2>1. TypeOK'
    BY <1>1 DEF Load, IInv, TypeOK
  <2>2. BudgetInv'
    BY <1>1 DEF Load, IInv, BudgetInv, Executing, WithinBudget, MaxActions, MaxFeedback
  <2>3. ReviewInv' /\ SuccessIsEarned'
    BY <1>1 DEF Load, IInv, ReviewInv, SuccessIsEarned
  <2>. QED BY <2>1, <2>2, <2>3 DEF IInv
<1>2. CASE BudgetExhausted
  <2>. DEFINE s == WithStatus(stored, "stopped")
  <2>1. /\ Commit(s) /\ s \in Sessions /\ s.status = "stopped"
        /\ s.actions = stored.actions /\ s.feedback = stored.feedback
        /\ s.results = stored.results
    BY <1>2, StatusTyped DEF BudgetExhausted, IInv, TypeOK, Statuses
  <2>2. /\ s.actions <= MaxActions /\ s.feedback <= MaxFeedback
        /\ Len(s.results) = s.feedback /\ llmCalls' = s.actions
    BY <1>2, <2>1 DEF BudgetExhausted, IInv, BudgetInv
  <2>3. /\ revision' \in Revisions /\ green' \in Revisions \cup {NoRevision}
        /\ unreviewed' \in BOOLEAN /\ limits' = limits
    BY <1>2 DEF BudgetExhausted, IInv, TypeOK
  <2>. HIDE DEF s
  <2>. QED BY <2>1, <2>2, <2>3, CommitKeeps
<1>. QED BY <1>1, <1>2

(* A refused answer costs an action, and the last one stops the task.       *)
LEMMA RefuseKeeps ==
  ASSUME IInv, Asked, NEW tag \in HistoryTags, Refuse(tag)
  PROVE  IInv'
<1>. DEFINE a == Log(Answered, tag)
            s == IF a.actions >= MaxActions THEN WithStatus(a, "stopped") ELSE a
<1>1. pc = "generate"
  BY DEF Asked
<1>2. /\ a \in Sessions /\ a.status = "deciding" /\ a.actions = llmCalls + 1
      /\ a.actions <= MaxActions /\ a.feedback <= MaxFeedback
      /\ Len(a.results) = a.feedback
  BY <1>1, AnsweredTyped, LogTyped
<1>. HIDE DEF a
<1>3. /\ s \in Sessions /\ s.status \in {"deciding", "stopped"}
      /\ s.actions = a.actions /\ s.feedback = a.feedback /\ s.results = a.results
  BY <1>2, StatusTyped DEF Statuses
<1>4. Commit(s)
  BY DEF Refuse, a
<1>. HIDE DEF s
<1>5. /\ llmCalls' = s.actions /\ revision' \in Revisions
      /\ green' \in Revisions \cup {NoRevision} /\ unreviewed' = FALSE
      /\ limits' = limits
  BY <1>1, <1>2, <1>3 DEF Asked, IInv, TypeOK, ReviewInv
<1>. QED BY <1>2, <1>3, <1>4, <1>5, CommitKeeps

(* Saving any other handled answer keeps the invariant.                     *)
LEMMA SaveAnswerKeeps ==
  ASSUME IInv, Asked, NEW s \in Sessions, Commit(s),
         s.status \in {"deciding", "paused_for_human", "awaiting_approval"},
         s.actions = Answered.actions, s.feedback = Answered.feedback,
         s.results = Answered.results
  PROVE  IInv'
<1>1. pc = "generate"
  BY DEF Asked
<1>2. /\ s.actions = llmCalls + 1 /\ s.actions <= MaxActions
      /\ s.feedback <= MaxFeedback /\ Len(s.results) = s.feedback
  BY <1>1, AnsweredTyped
<1>3. /\ llmCalls' = s.actions /\ revision' \in Revisions
      /\ green' \in Revisions \cup {NoRevision} /\ unreviewed' = FALSE
      /\ limits' = limits
  BY <1>1, <1>2 DEF Asked, IInv, TypeOK, ReviewInv
<1>. QED BY <1>2, <1>3, CommitKeeps

(* So does passing an allowed action on to its executor.                    *)
LEMMA DispatchKeeps ==
  ASSUME IInv, NEW f, NEW executor \in {"apply", "tool", "test"},
         NEW testPhase \in Phases \cup {"none"},
         executor = "test" => testPhase \in Phases,
         Dispatch(f, executor, testPhase)
  PROVE  IInv'
<1>1. pc = "generate"
  BY DEF Dispatch, Asked
<1>2. TypeOK'
  <2>1. llmCalls' \in Nat
    BY DEF Dispatch, Asked, IInv, TypeOK
  <2>. QED BY <1>1, <2>1, AnsweredTyped DEF Dispatch, Asked, IInv, TypeOK
<1>3. BudgetInv'
  BY <1>1, AnsweredTyped DEF Dispatch, Asked, IInv, BudgetInv, Executing, WithinBudget,
         MaxActions, MaxFeedback
<1>4. ReviewInv' /\ SuccessIsEarned'
  BY <1>1 DEF Dispatch, Asked, IInv, ReviewInv, SuccessIsEarned, BudgetInv
<1>. QED BY <1>2, <1>3, <1>4 DEF IInv

(* Handling the answer of the model keeps the invariant.                    *)
LEMMA AnswerKeeps == IInv /\ Answer => IInv'
<1>. SUFFICES ASSUME IInv, Answer PROVE IInv'
  OBVIOUS
<1>1. CASE ProtocolError
  BY <1>1, RefuseKeeps DEF ProtocolError, HistoryTags
<1>2. CASE RequestHuman
  <2>. DEFINE a == Log(Answered, "request_human")
  <2>1. Asked /\ pc = "generate" /\ Commit(WithStatus(a, "paused_for_human"))
    BY <1>2 DEF RequestHuman, Asked
  <2>2. /\ a \in Sessions /\ a.actions = Answered.actions
        /\ a.feedback = Answered.feedback /\ a.results = Answered.results
    BY <2>1, AnsweredTyped, LogTyped DEF HistoryTags
  <2>. HIDE DEF a
  <2>. QED BY <2>1, <2>2, StatusTyped, SaveAnswerKeeps DEF Statuses
<1>3. CASE PatchPrepareFailed
  <2>1. Asked /\ pc = "generate" /\ Commit(Log(Answered, "patch_prepare_failed"))
    BY <1>3 DEF PatchPrepareFailed, Asked
  <2>. QED BY <2>1, AnsweredTyped, LogTyped, SaveAnswerKeeps DEF HistoryTags
<1>4. ASSUME NEW f \in Patches, PolicyDeny(f) PROVE IInv'
  BY <1>4, RefuseKeeps DEF PolicyDeny, HistoryTags
<1>5. ASSUME NEW f \in Patches, RequireApproval(f) PROVE IInv'
  <2>1. Asked /\ pc = "generate" /\ Commit(WithStatus(Answered, "awaiting_approval"))
    BY <1>5 DEF RequireApproval, Asked
  <2>. QED BY <2>1, AnsweredTyped, StatusTyped, SaveAnswerKeeps DEF Statuses
<1>6. ASSUME NEW f \in Patches, DispatchPatch(f) PROVE IInv'
  BY <1>6, DispatchKeeps DEF DispatchPatch
<1>7. CASE DispatchTool
  BY <1>7, DispatchKeeps DEF DispatchTool
<1>8. ASSUME NEW testPhase \in {"focused", "requested_full"}, DispatchTests(testPhase)
      PROVE  IInv'
  BY <1>8, DispatchKeeps DEF DispatchTests, Phases
<1>. QED BY <1>1, <1>2, <1>3, <1>4, <1>5, <1>6, <1>7, <1>8 DEF Answer

-----------------------------------------------------------------------------
(* The session an executing step saves is the stored one with one more      *)
(* answer, and perhaps one more result.                                     *)
LEMMA SaveExecutionKeeps ==
  ASSUME IInv, Executing, NEW s \in Sessions, Commit(s),
         s.actions = session.actions,
         \/ s.feedback = session.feedback /\ s.results = session.results
         \/ s.feedback = session.feedback + 1 /\ Len(s.results) = Len(session.results) + 1,
         llmCalls' = llmCalls, limits' = limits,
         revision' \in Revisions, green' \in Revisions \cup {NoRevision},
         unreviewed' \in BOOLEAN,
         s.status = "deciding" => ~unreviewed',
         s.status = "succeeded" => green' = revision' /\ ~unreviewed'
  PROVE  IInv'
<1>1. /\ session.actions = llmCalls /\ session.actions <= MaxActions
      /\ session.feedback < MaxFeedback /\ session.feedback \in Nat
      /\ Len(session.results) = session.feedback
  BY DEF IInv, TypeOK, BudgetInv, WithinBudget, Sessions
<1>2. /\ s.actions <= MaxActions /\ s.feedback <= MaxFeedback
      /\ Len(s.results) = s.feedback /\ llmCalls' = s.actions
  BY <1>1, LimitsTyped DEF IInv, TypeOK
<1>. QED BY <1>2, CommitKeeps

(* Reading tools and diagnostics keep it, and so does a result too long.    *)
LEMMA ToolKeeps ==
  IInv /\ (ToolResultTooLong \/ \E tag \in HistoryTags : UseTool(tag)) => IInv'
<1>. SUFFICES ASSUME IInv, ToolResultTooLong \/ \E tag \in HistoryTags : UseTool(tag)
              PROVE  IInv'
  OBVIOUS
<1>1. CASE ToolResultTooLong
  <2>1. TypeOK'
    BY <1>1 DEF ToolResultTooLong, IInv, TypeOK
  <2>2. BudgetInv'
    BY <1>1 DEF ToolResultTooLong, IInv, BudgetInv, Executing, WithinBudget,
           MaxActions, MaxFeedback
  <2>3. ReviewInv' /\ SuccessIsEarned'
    BY <1>1 DEF ToolResultTooLong, IInv, ReviewInv, SuccessIsEarned
  <2>. QED BY <2>1, <2>2, <2>3 DEF IInv
<1>2. ASSUME NEW tag \in HistoryTags, UseTool(tag) PROVE IInv'
  <2>1. /\ pc = "tool" /\ Executing /\ session.status = "deciding" /\ ~unreviewed
        /\ session \in Sessions
    BY <1>2 DEF UseTool, IInv, BudgetInv, TypeOK, ReviewInv, Executing
  <2>2. /\ Commit(Log(session, tag)) /\ llmCalls' = llmCalls /\ unreviewed' = FALSE
        /\ limits' = limits
        /\ revision' \in Revisions /\ green' \in Revisions \cup {NoRevision}
    BY <1>2, <2>1 DEF UseTool, IInv, TypeOK
  <2>. QED BY <2>1, <2>2, LogTyped, SaveExecutionKeeps
<1>. QED BY <1>1, <1>2

(* A patch leaves the worktree unreviewed until its test run, or pauses.    *)
LEMMA PatchKeeps ==
  ASSUME IInv,
         \/ ApplyPatchUnknown
         \/ \E outcome \in {"applied", "conflict", "apply_failed"} : ApplyPatch(outcome)
  PROVE  IInv'
<1>1. CASE ApplyPatchUnknown
  <2>. DEFINE s == WithStatus(session, "paused_for_human")
  <2>1. /\ pc = "apply" /\ Executing /\ session \in Sessions
    BY <1>1 DEF ApplyPatchUnknown, IInv, TypeOK, Executing
  <2>2. /\ s \in Sessions /\ s.status = "paused_for_human"
        /\ s.actions = session.actions /\ s.feedback = session.feedback
        /\ s.results = session.results
    BY <2>1, StatusTyped DEF Statuses
  <2>3. /\ Commit(s) /\ llmCalls' = llmCalls /\ unreviewed' = TRUE
        /\ limits' = limits
        /\ revision' \in Revisions /\ green' \in Revisions \cup {NoRevision}
    BY <1>1 DEF ApplyPatchUnknown, IInv, TypeOK
  <2>. HIDE DEF s
  <2>. QED BY <2>1, <2>2, <2>3, SaveExecutionKeeps
<1>2. ASSUME NEW outcome \in {"applied", "conflict", "apply_failed"}, ApplyPatch(outcome)
      PROVE  IInv'
  <2>1. pc = "apply" /\ session \in Sessions /\ session' = Log(session, "apply_patch")
    BY <1>2 DEF ApplyPatch, IInv, TypeOK
  <2>2. /\ session' \in Sessions
        /\ session'.status = session.status /\ session'.actions = session.actions
        /\ session'.feedback = session.feedback /\ session'.previous = session.previous
        /\ session'.results = session.results
    BY <2>1, LogTyped DEF HistoryTags
  <2>3. TypeOK'
    BY <1>2, <2>2 DEF ApplyPatch, IInv, TypeOK, Phases
  <2>4. BudgetInv'
    BY <1>2, <2>2 DEF ApplyPatch, IInv, BudgetInv, Executing, WithinBudget,
           MaxActions, MaxFeedback
  <2>5. ReviewInv' /\ SuccessIsEarned'
    BY <1>2 DEF ApplyPatch, IInv, ReviewInv, SuccessIsEarned, BudgetInv
  <2>. QED BY <2>3, <2>4, <2>5 DEF IInv
<1>. QED BY <1>1, <1>2

(* A test run, whatever it found.  Success needs a passed comparison of a   *)
(* full phase, hence a genuine full pass of what the worktree now holds; a  *)
(* focused run starts on a reviewed worktree, so every run leaves one.      *)
LEMMA TestedFacts ==
  ASSUME IInv, NEW raw \in RawRuns, Tested(raw)
  PROVE  /\ pc = "test" /\ phase \in Phases /\ Executing
         /\ session \in Sessions /\ session.status = "deciding"
         /\ WithRunLogged \in Sessions
         /\ WithRunLogged.status = "deciding"
         /\ WithRunLogged.actions = session.actions
         /\ WithRunLogged.feedback = session.feedback
         /\ WithRunLogged.results = session.results
         /\ llmCalls' = llmCalls /\ limits' = limits
         /\ revision' = raw.after /\ revision' \in Revisions
         /\ green' \in Revisions \cup {NoRevision}
         /\ unreviewed' = FALSE
<1>1. pc = "test" /\ phase \in Phases /\ Executing /\ session \in Sessions
  BY DEF Tested, IInv, TypeOK, Executing
<1>2. session.status = "deciding"
  BY <1>1 DEF IInv, BudgetInv
<1>3. /\ WithRunLogged \in Sessions
      /\ WithRunLogged.status = session.status
      /\ WithRunLogged.actions = session.actions
      /\ WithRunLogged.feedback = session.feedback
      /\ WithRunLogged.results = session.results
  BY <1>1, LogTyped DEF WithRunLogged, HistoryTags
<1>4. /\ llmCalls' = llmCalls /\ limits' = limits
      /\ revision' = raw.after /\ raw.after \in Revisions
  BY DEF Tested, RawRuns
<1>5. green' \in Revisions \cup {NoRevision}
  BY <1>4 DEF Tested, IInv, TypeOK
<1>6. unreviewed' = FALSE
  BY <1>1 DEF Tested, IInv, ReviewInv, TypeOK
<1>. QED BY <1>1, <1>2, <1>3, <1>4, <1>5, <1>6

(* Every way a test run ends keeps the invariant.                           *)
LEMMA TestsKeep ==
  ASSUME IInv, NEW raw \in RawRuns,
         TestsUnknown(raw) \/ TestsDrifted(raw) \/ TestsParsed(raw)
  PROVE  IInv'
<1>1. CASE TestsUnknown(raw)
  <2>. DEFINE s == WithStatus(session, "paused_for_human")
  <2>1. Tested(raw) /\ Commit(s)
    BY <1>1 DEF TestsUnknown
  <2>2. /\ s \in Sessions /\ s.status = "paused_for_human"
        /\ s.actions = session.actions /\ s.feedback = session.feedback
        /\ s.results = session.results
    BY <2>1, TestedFacts, StatusTyped DEF Statuses
  <2>. HIDE DEF s
  <2>. QED BY <2>1, <2>2, TestedFacts, SaveExecutionKeeps
<1>2. CASE TestsDrifted(raw)
  <2>. DEFINE s == WithStatus(WithRunLogged, "paused_for_human")
  <2>1. Tested(raw) /\ Commit(s)
    BY <1>2 DEF TestsDrifted
  <2>2. /\ s \in Sessions /\ s.status = "paused_for_human"
        /\ s.actions = session.actions /\ s.feedback = session.feedback
        /\ s.results = session.results
    BY <2>1, TestedFacts, StatusTyped DEF Statuses
  <2>. HIDE DEF s
  <2>. QED BY <2>1, <2>2, TestedFacts, SaveExecutionKeeps
<1>3. CASE TestsParsed(raw)
  <2>. DEFINE r == ParsePytest(raw, phase, NoDetail)
              rec == Record(WithRunLogged, r)
              gate == GateStatus(rec, KindOf(r))
              s == WithStatus(rec, gate)
  <2>1. Tested(raw) /\ Commit(s) /\ Classify(raw) # "workspace_drift"
    BY <1>3 DEF TestsParsed
  <2>2. r \in Results
    BY <2>1, TestedFacts, ParsedTyped
  <2>. HIDE DEF r
  <2>3. /\ rec \in Sessions /\ rec.actions = session.actions
        /\ rec.feedback = session.feedback + 1
        /\ Len(rec.results) = Len(session.results) + 1
    BY <2>1, <2>2, TestedFacts, RecordTyped
  <2>. HIDE DEF rec
  <2>4. /\ gate \in Statuses
        /\ gate = "succeeded" => KindOf(r) = "passed" /\ phase # "focused"
    BY <2>3, GateTyped
  <2>5. gate = "succeeded" => green' = revision'
    <3>1. SUFFICES ASSUME gate = "succeeded" PROVE green' = revision'
      OBVIOUS
    <3>2. r.outcome = "passed" /\ phase # "focused"
      BY <3>1, <2>2, <2>4, KindPassed
    <3>3. WellFormed(raw) /\ phase \in Phases
      BY <2>1, TestedFacts DEF Tested
    <3>4. GenuinePass(raw)
      BY <3>2, <3>3, <2>1, PassedIsGenuine DEF r
    <3>. QED BY <3>2, <3>4, <2>1 DEF Tested
  <2>. HIDE DEF gate
  <2>6. /\ s \in Sessions /\ s.status = gate
        /\ s.actions = session.actions /\ s.feedback = session.feedback + 1
        /\ Len(s.results) = Len(session.results) + 1
    BY <2>3, <2>4, StatusTyped
  <2>. HIDE DEF s
  <2>. QED BY <2>1, <2>5, <2>6, TestedFacts, SaveExecutionKeeps
<1>. QED BY <1>1, <1>2, <1>3

(* A crash loses the copy and keeps what the store accounts for.            *)
LEMMA CrashKeeps == IInv /\ Crash => IInv'
<1>. SUFFICES ASSUME IInv, Crash PROVE IInv'
  OBVIOUS
<1>1. TypeOK'
  <2>1. llmCalls' \in Nat /\ revision' \in Revisions
    BY DEF Crash, IInv, TypeOK
  <2>2. unreviewed' \in BOOLEAN
    BY DEF Crash, IInv, TypeOK
  <2>. QED BY <2>1, <2>2 DEF Crash, IInv, TypeOK
<1>2. BudgetInv'
  <2>1. llmCalls' <= MaxActions
    BY LimitsTyped DEF Crash, IInv, TypeOK, BudgetInv, WithinBudget, Sessions
  <2>. QED BY <2>1 DEF Crash, IInv, BudgetInv, Executing, MaxActions, MaxFeedback
<1>3. ReviewInv' /\ SuccessIsEarned'
  BY DEF Crash, IInv, ReviewInv, SuccessIsEarned, BudgetInv
<1>. QED BY <1>1, <1>2, <1>3 DEF IInv

(* A verdict the domain model refuses leaves what a crash may leave.        *)
LEMMA RefusalIsCrash ==
  ASSUME IInv,
         TestsMisdated \/ \E raw \in RawRuns : TestsRefused(raw)
  PROVE  Crash
<1>1. pc = "test" /\ revision' \in Revisions /\ Unsaved
  BY DEF TestsMisdated, TestsRefused, RawRuns
<1>2. unreviewed' = (unreviewed \/ pc = "apply")
  BY <1>1 DEF Unsaved, IInv, TypeOK
<1>. QED BY <1>1, <1>2 DEF Unsaved, Crash

(* A human lets a paused task decide again; the worktree is then theirs to  *)
(* have looked at.                                                          *)
LEMMA ResumeKeeps == IInv /\ Resume => IInv'
<1>. SUFFICES ASSUME IInv, Resume PROVE IInv'
  OBVIOUS
<1>. DEFINE s == WithStatus(stored, "deciding")
<1>1. /\ Commit(s) /\ s \in Sessions /\ s.status = "deciding"
      /\ s.actions = stored.actions /\ s.feedback = stored.feedback
      /\ s.results = stored.results
  BY StatusTyped DEF Resume, IInv, TypeOK, Statuses
<1>2. /\ s.actions <= MaxActions /\ s.feedback <= MaxFeedback
      /\ Len(s.results) = s.feedback /\ llmCalls' = s.actions
  BY <1>1 DEF Resume, IInv, BudgetInv
<1>3. /\ revision' \in Revisions /\ green' \in Revisions \cup {NoRevision}
      /\ unreviewed' = FALSE /\ limits' = limits
  BY DEF Resume, IInv, TypeOK
<1>. HIDE DEF s
<1>. QED BY <1>1, <1>2, <1>3, CommitKeeps

(* The invariant is inductive.                                              *)
LEMMA NextKeeps == IInv /\ [Next]_vars => IInv'
<1>. SUFFICES ASSUME IInv, [Next]_vars PROVE IInv'
  OBVIOUS
<1>1. CASE Load \/ BudgetExhausted
  BY <1>1, LoadKeeps
<1>2. CASE Answer
  BY <1>2, AnswerKeeps
<1>3. CASE Execute
  BY <1>3, ToolKeeps, PatchKeeps, TestsKeep, RefusalIsCrash, CrashKeeps DEF Execute
<1>4. CASE Crash
  BY <1>4, CrashKeeps
<1>5. CASE Resume
  BY <1>5, ResumeKeeps
<1>6. CASE UNCHANGED vars
  <2>1. TypeOK'
    BY <1>6 DEF vars, IInv, TypeOK
  <2>2. BudgetInv'
    BY <1>6 DEF vars, IInv, BudgetInv, Executing, WithinBudget,
           MaxActions, MaxFeedback
  <2>3. ReviewInv' /\ SuccessIsEarned'
    BY <1>6 DEF vars, IInv, ReviewInv, SuccessIsEarned
  <2>. QED BY <2>1, <2>2, <2>3 DEF IInv
<1>. QED BY <1>1, <1>2, <1>3, <1>4, <1>5, <1>6 DEF Next, Step

(* No step changes the limits.                                              *)
LEMMA LimitsStay == [Next]_vars => limits' = limits
BY DEF vars, Next, Step, Load, BudgetExhausted, Answer, ProtocolError, RequestHuman,
       PatchPrepareFailed, PolicyDeny, RequireApproval, DispatchPatch, DispatchTool,
       DispatchTests, Dispatch, Asked, Execute, UseTool, ToolResultTooLong, ApplyPatch,
       ApplyPatchUnknown, TestsUnknown, TestsDrifted, TestsParsed, TestsRefused,
       TestsMisdated, Tested, Unsaved, Crash, Resume

(* The inductive invariant holds of every behaviour of the loop.            *)
THEOREM Invariance == Spec => []IInv
BY InitIInv, NextKeeps, PTL DEF Spec

(* Every state of the loop is well typed.                                   *)
THEOREM TypeCorrectness == Spec => []TypeOK
<1>1. IInv => TypeOK
  BY DEF IInv
<1>. QED BY <1>1, Invariance, PTL

(* A task succeeds only on a genuine full pass of what its worktree holds,  *)
(* whatever was patched, crashed or resumed before (harness.py:166).        *)
THEOREM SuccessIsSound == Spec => []SuccessIsEarned
<1>1. IInv => SuccessIsEarned
  BY DEF IInv
<1>. QED BY <1>1, Invariance, PTL

(* The requests made to the model and the results recorded stay within the  *)
(* limits, for all limits, across crashes and resumes (harness.py:89).      *)
THEOREM BudgetsAreHard == Spec => []BudgetsHold
<1>1. IInv => BudgetsHold
  BY DEF IInv, BudgetInv, BudgetsHold
<1>. QED BY <1>1, Invariance, PTL

(* The model is only asked about a worktree that nothing was written to     *)
(* since a full test run or a human looked at it (harness.py:140-146).      *)
THEOREM DecisionsAreInformed == Spec => []NoBlindDecision
<1>1. IInv => NoBlindDecision
  BY DEF IInv, ReviewInv, NoBlindDecision
<1>. QED BY <1>1, Invariance, PTL
-----------------------------------------------------------------------------
(* A save that pays for one answer is a decision of the abstract lifecycle. *)
LEMMA SaveIsDecision ==
  ASSUME IInv, NEW s \in Sessions, Commit(s), limits' = limits, pc # "idle", WithinBudget,
         s.actions = stored.actions + 1,
         revision' \in Revisions, green' \in {green, revision'},
         s.status = "succeeded" => green' = revision'
  PROVE  Lifecycle!Next
<1>1. stored.status = "deciding" /\ stored' = s
  BY DEF IInv, BudgetInv, Commit
<1>2. CASE s.status = "succeeded"
  <2>1. Lifecycle!Succeed
    BY <1>1, <1>2 DEF Lifecycle!Succeed, WithinBudget, MaxActions
  <2>. QED BY <2>1 DEF Lifecycle!Next
<1>3. CASE s.status # "succeeded"
  <2>1. Lifecycle!Decide
    BY <1>1, <1>3 DEF Lifecycle!Decide, WithinBudget, Sessions, Statuses, MaxActions
  <2>. QED BY <2>1 DEF Lifecycle!Next
<1>. QED BY <1>2, <1>3

(* Unsaved work shows in the worktree at most.                              *)
LEMMA UnsavedIsWork ==
  ASSUME IInv, pc # "idle", UNCHANGED <<limits, stored, green>>, revision' \in Revisions
  PROVE  Lifecycle!Next
<1>1. Lifecycle!Work
  BY DEF Lifecycle!Work, IInv, BudgetInv, MaxActions
<1>. QED BY <1>1 DEF Lifecycle!Next

(* Handling an answer is a decision, or the beginning of work.              *)
LEMMA AnswerRefines == IInv /\ Answer => Lifecycle!Next
<1>. SUFFICES ASSUME IInv, Answer PROVE Lifecycle!Next
  OBVIOUS
<1>1. Asked /\ pc = "generate" /\ WithinBudget
  BY DEF Answer, ProtocolError, RequestHuman, PatchPrepareFailed, PolicyDeny,
         RequireApproval, DispatchPatch, DispatchTool, DispatchTests, Dispatch, Asked,
         IInv, BudgetInv
<1>2. /\ revision' \in Revisions /\ revision' = revision /\ green' = green
      /\ limits' = limits
  BY <1>1 DEF Asked, IInv, TypeOK
<1>3. ASSUME NEW s \in Sessions, Commit(s), s.actions = Answered.actions,
             s.status # "succeeded"
      PROVE  Lifecycle!Next
  BY <1>1, <1>2, <1>3, AnsweredTyped, SaveIsDecision
<1>4. ASSUME NEW tag \in HistoryTags, Refuse(tag) PROVE Lifecycle!Next
  <2>. DEFINE a == Log(Answered, tag)
              s == IF a.actions >= MaxActions THEN WithStatus(a, "stopped") ELSE a
  <2>1. a \in Sessions /\ a.status = "deciding" /\ a.actions = Answered.actions
    BY <1>1, AnsweredTyped, LogTyped
  <2>2. Commit(s)
    BY <1>4 DEF Refuse
  <2>. HIDE DEF a
  <2>3. s \in Sessions /\ s.actions = Answered.actions /\ s.status # "succeeded"
    BY <2>1, StatusTyped DEF Statuses
  <2>. HIDE DEF s
  <2>. QED BY <2>2, <2>3, <1>3
<1>5. CASE ProtocolError
  BY <1>5, <1>4 DEF ProtocolError, HistoryTags
<1>6. CASE RequestHuman
  <2>. DEFINE a == Log(Answered, "request_human")
  <2>1. a \in Sessions /\ a.actions = Answered.actions
    BY <1>1, AnsweredTyped, LogTyped DEF HistoryTags
  <2>2. Commit(WithStatus(a, "paused_for_human"))
    BY <1>6 DEF RequestHuman
  <2>. HIDE DEF a
  <2>. QED BY <2>1, <2>2, StatusTyped, <1>3 DEF Statuses
<1>7. CASE PatchPrepareFailed
  <2>1. Commit(Log(Answered, "patch_prepare_failed"))
    BY <1>7 DEF PatchPrepareFailed
  <2>. QED BY <2>1, <1>1, AnsweredTyped, LogTyped, <1>3 DEF HistoryTags
<1>8. ASSUME NEW f \in Patches, PolicyDeny(f) PROVE Lifecycle!Next
  BY <1>8, <1>4 DEF PolicyDeny, HistoryTags
<1>9. ASSUME NEW f \in Patches, RequireApproval(f) PROVE Lifecycle!Next
  <2>1. Commit(WithStatus(Answered, "awaiting_approval"))
    BY <1>9 DEF RequireApproval
  <2>. QED BY <2>1, <1>1, AnsweredTyped, StatusTyped, <1>3 DEF Statuses
<1>10. ASSUME NEW f, NEW executor, NEW testPhase, Dispatch(f, executor, testPhase)
       PROVE  Lifecycle!Next
  BY <1>1, <1>2, <1>10, UnsavedIsWork DEF Dispatch
<1>. QED
  BY <1>5, <1>6, <1>7, <1>8, <1>9, <1>10
     DEF Answer, DispatchPatch, DispatchTool, DispatchTests

(* So is every step of an executor.                                         *)
LEMMA ExecuteRefines == IInv /\ Execute => [Lifecycle!Next]_(Lifecycle!lifecycleVars)
<1>. SUFFICES ASSUME IInv, Execute
              PROVE  [Lifecycle!Next]_(Lifecycle!lifecycleVars)
  OBVIOUS
<1>1. ASSUME NEW s \in Sessions, Commit(s), Executing, s.actions = session.actions,
             limits' = limits, revision' \in Revisions, green' \in {green, revision'},
             s.status = "succeeded" => green' = revision'
      PROVE  Lifecycle!Next
  <2>1. pc # "idle" /\ WithinBudget /\ s.actions = stored.actions + 1
    BY <1>1 DEF IInv, BudgetInv, Executing
  <2>. QED BY <1>1, <2>1, SaveIsDecision
<1>2. session \in Sessions /\ (Executing => session.status = "deciding")
  BY DEF IInv, TypeOK, BudgetInv
<1>3. ASSUME NEW tag \in HistoryTags, UseTool(tag) PROVE Lifecycle!Next
  <2>1. /\ Executing /\ Commit(Log(session, tag)) /\ green' = green
        /\ revision' \in Revisions /\ limits' = limits
    BY <1>3 DEF UseTool, Executing, IInv, TypeOK
  <2>. QED BY <2>1, <1>1, <1>2, LogTyped
<1>4. CASE ToolResultTooLong
  BY <1>4 DEF ToolResultTooLong, Lifecycle!lifecycleVars, MaxActions
<1>5. ASSUME NEW outcome \in {"applied", "conflict", "apply_failed"}, ApplyPatch(outcome)
      PROVE  Lifecycle!Next
  <2>1. pc # "idle" /\ revision' \in Revisions /\ UNCHANGED <<limits, stored, green>>
    BY <1>5 DEF ApplyPatch, IInv, TypeOK
  <2>. QED BY <2>1, UnsavedIsWork
<1>6. CASE ApplyPatchUnknown
  <2>1. /\ Executing /\ Commit(WithStatus(session, "paused_for_human"))
        /\ green' = green /\ revision' \in Revisions /\ limits' = limits
    BY <1>6 DEF ApplyPatchUnknown, Executing
  <2>. QED BY <2>1, <1>1, <1>2, StatusTyped DEF Statuses
<1>7. ASSUME NEW raw \in RawRuns, Tested(raw)
      PROVE  /\ revision' \in Revisions /\ green' \in {green, revision'}
             /\ limits' = limits
  BY <1>7, TestedFacts DEF Tested
<1>8. ASSUME NEW raw \in RawRuns, TestsUnknown(raw) PROVE Lifecycle!Next
  <2>1. Tested(raw) /\ Commit(WithStatus(session, "paused_for_human"))
    BY <1>8 DEF TestsUnknown
  <2>2. /\ Executing /\ session \in Sessions
        /\ session.actions = session.actions
    BY <2>1, TestedFacts
  <2>3. /\ WithStatus(session, "paused_for_human") \in Sessions
        /\ WithStatus(session, "paused_for_human").status = "paused_for_human"
        /\ WithStatus(session, "paused_for_human").actions = session.actions
    BY <2>2, StatusTyped DEF Statuses
  <2>. QED BY <2>1, <2>2, <2>3, <1>1, <1>7
<1>9. ASSUME NEW raw \in RawRuns, TestsDrifted(raw) PROVE Lifecycle!Next
  <2>1. Tested(raw) /\ Commit(WithStatus(WithRunLogged, "paused_for_human"))
    BY <1>9 DEF TestsDrifted
  <2>2. /\ Executing /\ WithRunLogged \in Sessions
        /\ WithRunLogged.actions = session.actions
    BY <2>1, TestedFacts
  <2>3. /\ WithStatus(WithRunLogged, "paused_for_human") \in Sessions
        /\ WithStatus(WithRunLogged, "paused_for_human").status = "paused_for_human"
        /\ WithStatus(WithRunLogged, "paused_for_human").actions = session.actions
    BY <2>2, StatusTyped DEF Statuses
  <2>. QED BY <2>1, <2>2, <2>3, <1>1, <1>7
<1>10. ASSUME NEW raw \in RawRuns, TestsParsed(raw) PROVE Lifecycle!Next
  <2>. DEFINE r == ParsePytest(raw, phase, NoDetail)
              rec == Record(WithRunLogged, r)
              gate == GateStatus(rec, KindOf(r))
              s == WithStatus(rec, gate)
  <2>1. Tested(raw) /\ Commit(s) /\ Classify(raw) # "workspace_drift"
    BY <1>10 DEF TestsParsed
  <2>2. r \in Results
    BY <2>1, TestedFacts, ParsedTyped
  <2>. HIDE DEF r
  <2>3. rec \in Sessions /\ rec.actions = session.actions
    BY <2>1, <2>2, TestedFacts, RecordTyped
  <2>. HIDE DEF rec
  <2>4. gate \in Statuses
    BY <2>3, GateTyped
  <2>. HIDE DEF gate
  <2>5. s \in Sessions /\ s.status = gate /\ s.actions = session.actions
    BY <2>3, <2>4, StatusTyped
  <2>6. s.status = "succeeded" => green' = revision'
    <3>1. IInv' /\ stored' = s
      BY <1>10, <2>1, TestsKeep DEF Commit
    <3>. QED BY <3>1 DEF IInv, SuccessIsEarned
  <2>. HIDE DEF s
  <2>. QED BY <2>1, <2>5, <2>6, <1>1, <1>7, TestedFacts
<1>11. CASE TestsMisdated \/ \E raw \in RawRuns : TestsRefused(raw)
  <2>1. pc # "idle" /\ revision' \in Revisions /\ UNCHANGED <<limits, stored, green>>
    BY <1>11 DEF TestsMisdated, TestsRefused, Unsaved, RawRuns
  <2>. QED BY <2>1, UnsavedIsWork
<1>. QED BY <1>3, <1>4, <1>5, <1>6, <1>8, <1>9, <1>10, <1>11 DEF Execute

(* The decision loop implements the abstract lifecycle: whatever a step     *)
(* saves is a decision within budget, and a success certifies the worktree. *)
THEOREM LifecycleIsImplemented == Spec => ImplementsLifecycle
<1>1. Init => Lifecycle!Init
  <2>. SUFFICES ASSUME Init PROVE Lifecycle!Init
    OBVIOUS
  <2>1. MaxActions \in Nat
    BY LimitsTyped DEF Init
  <2>. QED BY <2>1 DEF Init, Lifecycle!Init
<1>2. IInv /\ [Next]_vars => [Lifecycle!Next]_(Lifecycle!lifecycleVars)
  <2>. SUFFICES ASSUME IInv, [Next]_vars
                PROVE  [Lifecycle!Next]_(Lifecycle!lifecycleVars)
    OBVIOUS
  <2>1. CASE Load
    BY <2>1 DEF Load, Lifecycle!lifecycleVars, MaxActions
  <2>2. CASE BudgetExhausted
    <3>1. stored.status = "deciding" /\ stored \in Sessions
      BY <2>2 DEF BudgetExhausted, IInv, BudgetInv, TypeOK
    <3>2. /\ stored' = WithStatus(stored, "stopped") /\ revision' = revision
          /\ green' = green /\ limits' = limits
      BY <2>2 DEF BudgetExhausted, Commit
    <3>3. stored'.status = "stopped" /\ stored'.actions = stored.actions
      BY <3>1, <3>2, StatusTyped DEF Statuses
    <3>4. Lifecycle!Exhaust
      BY <3>1, <3>2, <3>3 DEF Lifecycle!Exhaust, MaxActions
    <3>. QED BY <3>4 DEF Lifecycle!Next
  <2>3. CASE Answer
    BY <2>3, AnswerRefines
  <2>4. CASE Execute
    BY <2>4, ExecuteRefines
  <2>5. CASE Crash
    <3>1. pc # "idle" /\ revision' \in Revisions /\ UNCHANGED <<limits, stored, green>>
      BY <2>5 DEF Crash, IInv, TypeOK
    <3>. QED BY <3>1, UnsavedIsWork
  <2>6. CASE Resume
    <3>1. /\ stored.status = "paused_for_human" /\ stored' = WithStatus(stored, "deciding")
          /\ stored \in Sessions /\ revision' = revision /\ green' = green
          /\ limits' = limits
      BY <2>6 DEF Resume, Commit, IInv, TypeOK
    <3>2. stored'.status = "deciding" /\ stored'.actions = stored.actions
      BY <3>1, StatusTyped DEF Statuses
    <3>3. Lifecycle!GoOn
      BY <3>1, <3>2 DEF Lifecycle!GoOn, MaxActions
    <3>. QED BY <3>3 DEF Lifecycle!Next
  <2>7. CASE UNCHANGED vars
    BY <2>7 DEF vars, Lifecycle!lifecycleVars, MaxActions
  <2>. QED BY <2>1, <2>2, <2>3, <2>4, <2>5, <2>6, <2>7 DEF Next, Step
<1>. QED
  BY <1>1, <1>2, Invariance, PTL DEF Spec, ImplementsLifecycle, Lifecycle!Spec

-----------------------------------------------------------------------------
(* What a task remembers: the history of its actions, and the test results  *)
(* the feedback engine compares.                                            *)
(* Every patch in a history is followed at once by its full test run.       *)
FollowedUp(h) ==
  \A i \in DOMAIN h :
    h[i] = "apply_patch" => i < Len(h) /\ h[i + 1] = "full_test"

AfterPatch == pc = "test" /\ phase = "post_patch"

(* The running step has logged the patch it applied, and nothing else.      *)
HistoryInv ==
  /\ FollowedUp(stored.history)
  /\ AfterPatch => session.history = Append(stored.history, "apply_patch")
  /\ ~AfterPatch => session.history = stored.history

(* A failing result repeats an earlier one only right after it, and on      *)
(* another worktree.                                                        *)
NoRepeats(rs) ==
  \A i, j \in DOMAIN rs :
    i < j /\ Failing(rs[j]) /\ Fingerprint(rs[i]) = Fingerprint(rs[j]) =>
      j = i + 1 /\ rs[i].rev # rs[j].rev

LastIsPrevious(s) ==
  \/ s.results = << >> /\ s.previous = NoResult
  \/ s.results # << >> /\ s.previous = s.results[Len(s.results)]

(* A task that may go on has repeated nothing, and compares with its latest *)
(* result.                                                                  *)
RepeatInv ==
  stored.status \in {"deciding", "paused_for_human"} =>
    LastIsPrevious(stored) /\ NoRepeats(stored.results)

-----------------------------------------------------------------------------
(* Anything but a patch can be logged; a patch with its test run can.       *)
LEMMA LogsFollowUp ==
  ASSUME NEW h \in Seq(HistoryTags), FollowedUp(h), NEW tag \in HistoryTags
  PROVE  /\ tag # "apply_patch" => FollowedUp(Append(h, tag))
         /\ FollowedUp(Append(Append(h, "apply_patch"), "full_test"))
<1>1. ASSUME tag # "apply_patch" PROVE FollowedUp(Append(h, tag))
  BY <1>1 DEF FollowedUp
<1>2. FollowedUp(Append(Append(h, "apply_patch"), "full_test"))
  <2>. DEFINE g == Append(h, "apply_patch")
              k == Append(g, "full_test")
  <2>1. /\ g \in Seq(HistoryTags) /\ Len(g) = Len(h) + 1
        /\ \A i \in 1 .. Len(h) : g[i] = h[i]
    BY DEF HistoryTags
  <2>2. /\ Len(k) = Len(h) + 2 /\ DOMAIN k = 1 .. (Len(h) + 2)
        /\ \A i \in 1 .. Len(h) : k[i] = h[i]
        /\ k[Len(h) + 1] = "apply_patch" /\ k[Len(h) + 2] = "full_test"
    BY <2>1
  <2>. HIDE DEF k
  <2>3. FollowedUp(k)
    BY <2>2 DEF FollowedUp
  <2>. QED BY <2>3 DEF k
<1>. QED BY <1>1, <1>2

(* A save keeps the history invariant if what it saves is followed up.      *)
LEMMA CommitKeepsHistory ==
  ASSUME NEW s, Commit(s), FollowedUp(s.history)
  PROVE  HistoryInv'
BY DEF Commit, HistoryInv, AfterPatch

(* What the helpers of a step do to the history.                            *)
LEMMA HelpersOnHistory ==
  ASSUME NEW s \in Sessions
  PROVE  /\ s.history \in Seq(HistoryTags)
         /\ \A status \in Statuses : WithStatus(s, status).history = s.history
         /\ \A tag \in HistoryTags : Log(s, tag).history = Append(s.history, tag)
         /\ \A r \in Results : Record(s, r).history = s.history
<1>1. \A status \in Statuses : WithStatus(s, status).history = s.history
  BY DEF WithStatus, Sessions
<1>2. \A tag \in HistoryTags : Log(s, tag).history = Append(s.history, tag)
  BY DEF Log, Sessions
<1>3. \A r \in Results : Record(s, r).history = s.history
  BY DEF Record, Sessions
<1>. QED BY <1>1, <1>2, <1>3 DEF Sessions

(* Handling an answer logs no patch.                                        *)
LEMMA AnswerKeepsHistory ==
  ASSUME IInv, HistoryInv, Answer
  PROVE  HistoryInv'
<1>1. pc = "generate" /\ ~AfterPatch
  BY DEF Answer, ProtocolError, RequestHuman, PatchPrepareFailed, PolicyDeny,
         RequireApproval, DispatchPatch, DispatchTool, DispatchTests, Dispatch, Asked,
         AfterPatch
<1>2. /\ Answered \in Sessions /\ Answered.history = stored.history
      /\ FollowedUp(stored.history) /\ stored.history \in Seq(HistoryTags)
  BY <1>1, AnsweredTyped
     DEF Answered, IInv, TypeOK, BudgetInv, Executing, Sessions, HistoryInv
<1>3. ASSUME NEW tag \in HistoryTags, tag # "apply_patch"
      PROVE  /\ Log(Answered, tag) \in Sessions
             /\ FollowedUp(Log(Answered, tag).history)
  BY <1>2, <1>3, HelpersOnHistory, LogsFollowUp, LogTyped
<1>4. ASSUME NEW tag \in HistoryTags, tag # "apply_patch", Refuse(tag)
      PROVE  HistoryInv'
  <2>. DEFINE a == Log(Answered, tag)
              s == IF a.actions >= MaxActions THEN WithStatus(a, "stopped") ELSE a
  <2>1. a \in Sessions /\ FollowedUp(a.history)
    BY <1>3, <1>4
  <2>2. Commit(s)
    BY <1>4 DEF Refuse
  <2>. HIDE DEF a
  <2>3. s.history = a.history
    BY <2>1, HelpersOnHistory DEF Statuses
  <2>. HIDE DEF s
  <2>. QED BY <2>1, <2>2, <2>3, CommitKeepsHistory
<1>5. CASE ProtocolError
  BY <1>5, <1>4 DEF ProtocolError, HistoryTags
<1>6. CASE RequestHuman
  <2>1. WithStatus(Log(Answered, "request_human"), "paused_for_human").history
          = Log(Answered, "request_human").history
    BY <1>3, HelpersOnHistory DEF Statuses, HistoryTags
  <2>2. Commit(WithStatus(Log(Answered, "request_human"), "paused_for_human"))
    BY <1>6 DEF RequestHuman
  <2>3. FollowedUp(Log(Answered, "request_human").history)
    BY <1>3 DEF HistoryTags
  <2>. QED BY <2>1, <2>2, <2>3, CommitKeepsHistory
<1>7. CASE PatchPrepareFailed
  BY <1>7, <1>3, CommitKeepsHistory DEF PatchPrepareFailed, HistoryTags
<1>8. ASSUME NEW f \in Patches, PolicyDeny(f) PROVE HistoryInv'
  BY <1>8, <1>4 DEF PolicyDeny, HistoryTags
<1>9. ASSUME NEW f \in Patches, RequireApproval(f) PROVE HistoryInv'
  <2>1. WithStatus(Answered, "awaiting_approval").history = stored.history
    BY <1>2, HelpersOnHistory DEF Statuses
  <2>. QED BY <1>2, <1>9, <2>1, CommitKeepsHistory DEF RequireApproval
<1>10. ASSUME NEW f, NEW executor, NEW testPhase, testPhase # "post_patch",
              Dispatch(f, executor, testPhase)
       PROVE  HistoryInv'
  BY <1>2, <1>10 DEF Dispatch, HistoryInv, AfterPatch
<1>11. CASE DispatchTool
  BY <1>11, <1>10 DEF DispatchTool
<1>12. ASSUME NEW f \in Patches, DispatchPatch(f) PROVE HistoryInv'
  BY <1>12, <1>10 DEF DispatchPatch
<1>13. ASSUME NEW testPhase \in {"focused", "requested_full"}, DispatchTests(testPhase)
       PROVE  HistoryInv'
  BY <1>13, <1>10 DEF DispatchTests
<1>. QED BY <1>5, <1>6, <1>7, <1>8, <1>9, <1>11, <1>12, <1>13 DEF Answer

(* A test run logs itself: as the full run when it follows a patch.         *)
LEMMA TestsKeepHistory ==
  ASSUME IInv, HistoryInv, NEW raw \in RawRuns,
         TestsUnknown(raw) \/ TestsDrifted(raw) \/ TestsParsed(raw)
  PROVE  HistoryInv'
<1>1. Tested(raw) /\ pc = "test" /\ session \in Sessions /\ WithRunLogged \in Sessions
  BY TestedFacts DEF TestsUnknown, TestsDrifted, TestsParsed
<1>2. stored.history \in Seq(HistoryTags) /\ FollowedUp(stored.history)
  BY DEF IInv, TypeOK, Sessions, HistoryInv
<1>3. FollowedUp(WithRunLogged.history)
  <2>1. CASE phase = "post_patch"
    <3>1. session.history = Append(stored.history, "apply_patch")
      BY <1>1, <2>1 DEF HistoryInv, AfterPatch
    <3>2. WithRunLogged.history = Append(session.history, "full_test")
      BY <1>1, <2>1, HelpersOnHistory DEF WithRunLogged, HistoryTags
    <3>. QED BY <1>2, <3>1, <3>2, LogsFollowUp DEF HistoryTags
  <2>2. CASE phase # "post_patch"
    <3>1. session.history = stored.history
      BY <2>2 DEF HistoryInv, AfterPatch
    <3>2. WithRunLogged.history = Append(session.history, "run_tests")
      BY <1>1, <2>2, HelpersOnHistory DEF WithRunLogged, HistoryTags
    <3>. QED BY <1>2, <3>1, <3>2, LogsFollowUp DEF HistoryTags
  <2>. QED BY <2>1, <2>2
<1>4. CASE TestsUnknown(raw)
  <2>1. session.history = stored.history
    BY <1>4 DEF TestsUnknown, UndecidedRun, HistoryInv, AfterPatch
  <2>2. WithStatus(session, "paused_for_human").history = stored.history
    BY <1>1, <2>1, HelpersOnHistory DEF Statuses
  <2>. QED BY <1>2, <1>4, <2>2, CommitKeepsHistory DEF TestsUnknown
<1>5. CASE TestsDrifted(raw)
  <2>1. WithStatus(WithRunLogged, "paused_for_human").history = WithRunLogged.history
    BY <1>1, HelpersOnHistory DEF Statuses
  <2>. QED BY <1>3, <1>5, <2>1, CommitKeepsHistory DEF TestsDrifted
<1>6. CASE TestsParsed(raw)
  <2>. DEFINE r == ParsePytest(raw, phase, NoDetail)
              rec == Record(WithRunLogged, r)
              gate == GateStatus(rec, KindOf(r))
  <2>1. Commit(WithStatus(rec, gate))
    BY <1>6 DEF TestsParsed
  <2>2. r \in Results
    BY <1>1, TestedFacts, ParsedTyped
  <2>. HIDE DEF r
  <2>3. rec \in Sessions /\ rec.history = WithRunLogged.history
    BY <1>1, <2>2, RecordTyped, HelpersOnHistory
  <2>. HIDE DEF rec
  <2>4. gate \in Statuses
    BY <2>3, GateTyped
  <2>. HIDE DEF gate
  <2>5. WithStatus(rec, gate).history = rec.history
    BY <2>3, <2>4, HelpersOnHistory
  <2>. QED BY <1>3, <2>1, <2>3, <2>5, CommitKeepsHistory
<1>. QED BY <1>4, <1>5, <1>6

(* The history invariant is inductive relative to the main invariant.       *)
LEMMA NextKeepsHistory == IInv /\ HistoryInv /\ [Next]_vars => HistoryInv'
<1>. SUFFICES ASSUME IInv, HistoryInv, [Next]_vars PROVE HistoryInv'
  OBVIOUS
<1>1. stored \in Sessions /\ session \in Sessions /\ FollowedUp(stored.history)
  BY DEF IInv, TypeOK, HistoryInv
<1>2. CASE Load \/ Crash \/ ToolResultTooLong
  BY <1>2 DEF Load, Crash, ToolResultTooLong, HistoryInv, AfterPatch
<1>3. CASE BudgetExhausted
  BY <1>1, <1>3, HelpersOnHistory, CommitKeepsHistory DEF BudgetExhausted, Statuses
<1>4. CASE Answer
  BY <1>4, AnswerKeepsHistory
<1>5. ASSUME NEW tag \in HistoryTags, UseTool(tag) PROVE HistoryInv'
  <2>1. session.history = stored.history /\ tag # "apply_patch"
    BY <1>5 DEF UseTool, HistoryInv, AfterPatch
  <2>2. FollowedUp(Log(session, tag).history)
    BY <1>1, <2>1, HelpersOnHistory, LogsFollowUp
  <2>. QED BY <1>5, <2>2, CommitKeepsHistory DEF UseTool
<1>6. ASSUME NEW outcome, ApplyPatch(outcome) PROVE HistoryInv'
  <2>1. session.history = stored.history
    BY <1>6 DEF ApplyPatch, HistoryInv, AfterPatch
  <2>2. session'.history = Append(stored.history, "apply_patch")
    BY <1>1, <1>6, <2>1, HelpersOnHistory DEF ApplyPatch, HistoryTags
  <2>. QED BY <1>1, <1>6, <2>2 DEF ApplyPatch, HistoryInv, AfterPatch
<1>7. CASE ApplyPatchUnknown
  <2>1. session.history = stored.history
    BY <1>7 DEF ApplyPatchUnknown, HistoryInv, AfterPatch
  <2>2. WithStatus(session, "paused_for_human").history = stored.history
    BY <1>1, <2>1, HelpersOnHistory DEF Statuses
  <2>. QED BY <1>1, <1>7, <2>2, CommitKeepsHistory DEF ApplyPatchUnknown
<1>8. ASSUME NEW raw \in RawRuns,
             TestsUnknown(raw) \/ TestsDrifted(raw) \/ TestsParsed(raw)
      PROVE  HistoryInv'
  BY <1>8, TestsKeepHistory
<1>9. CASE Resume
  BY <1>1, <1>9, HelpersOnHistory, CommitKeepsHistory DEF Resume, Statuses
<1>10. CASE UNCHANGED vars
  BY <1>10 DEF vars, HistoryInv, AfterPatch
<1>11. CASE TestsMisdated \/ \E raw \in RawRuns : TestsRefused(raw)
  BY <1>2, <1>11, RefusalIsCrash
<1>. QED
  BY <1>2, <1>3, <1>4, <1>5, <1>6, <1>7, <1>8, <1>9, <1>10, <1>11
     DEF Next, Step, Execute

(* Every patch a task ever saved is followed at once by its full test run,  *)
(* for all executors, crashes and resumes (harness.py:143-146).             *)
THEOREM PatchesAreAlwaysTested == Spec => []PatchesAreTested
<1>1. Init => HistoryInv
  BY DEF Init, HistoryInv, FollowedUp, AfterPatch
<1>2. HistoryInv => PatchesAreTested
  BY DEF HistoryInv, FollowedUp, PatchesAreTested
<1>. QED BY <1>1, <1>2, Invariance, NextKeepsHistory, PTL DEF Spec

-----------------------------------------------------------------------------
(* The gate stops a task on a loop and on no progress, so a result it lets  *)
(* pass repeats at most the one before it, on another worktree.             *)
LEMMA GateForbidsRepeats ==
  ASSUME NEW s \in Sessions, NEW q \in Results,
         LastIsPrevious(session), session \in Sessions, NoRepeats(session.results),
         GateStatus(s, KindOf(q)) \in {"deciding", "paused_for_human"}
  PROVE  NoRepeats(Append(session.results, q))
<1>. DEFINE rs == session.results
            n == Len(rs)
            qs == Append(rs, q)
<1>1. /\ rs \in Seq(Results) /\ n \in Nat
      /\ Len(qs) = n + 1 /\ DOMAIN qs = 1 .. (n + 1) /\ DOMAIN rs = 1 .. n
      /\ \A i \in 1 .. n : qs[i] = rs[i] /\ rs[i] \in Results
      /\ qs[n + 1] = q
  BY DEF Sessions
<1>2. KindOf(q) \notin {"loop", "no_progress"}
  BY DEF GateStatus
<1>3. ASSUME NEW i \in 1 .. n, Failing(q), Fingerprint(rs[i]) = Fingerprint(q)
      PROVE  i = n /\ rs[n].rev # q.rev
  <2>1. rs # << >> /\ session.previous = rs[n] /\ session.previous # NoResult
    BY <1>1, <1>3, NoResultAssumption DEF LastIsPrevious
  <2>2. KindOf(q) = Analyze(rs[n], q, rs)
    BY <2>1 DEF KindOf, FirstComparison
  <2>3. ~SeenBefore(q, rs) /\ KindOf(q) = Compare(rs[n], q)
    BY <1>2, <1>3, <2>2 DEF Analyze
  <2>4. i = n
    BY <1>1, <2>3, <1>3 DEF SeenBefore
  <2>5. rs[n].outcome = q.outcome /\ rs[n].nodes = q.nodes
    BY <1>3, <2>4 DEF Fingerprint
  <2>6. rs[n].rev # q.rev
    BY <1>2, <1>3, <2>3, <2>4, <2>5 DEF Compare
  <2>. QED BY <2>4, <2>6
<1>. HIDE DEF qs
<1>4. ASSUME NEW i \in DOMAIN qs, NEW j \in DOMAIN qs, i < j, Failing(qs[j]),
             Fingerprint(qs[i]) = Fingerprint(qs[j])
      PROVE  j = i + 1 /\ qs[i].rev # qs[j].rev
  <2>1. CASE j = n + 1
    BY <1>1, <1>3, <1>4, <2>1
  <2>2. CASE j # n + 1
    <3>1. i \in DOMAIN rs /\ j \in DOMAIN rs /\ qs[i] = rs[i] /\ qs[j] = rs[j]
      BY <1>1, <1>4, <2>2
    <3>. QED BY <1>4, <3>1 DEF NoRepeats
  <2>. QED BY <2>1, <2>2
<1>. QED BY <1>4 DEF NoRepeats, qs

(* A save that adds no result keeps the results apart.                      *)
LEMMA SameResultsKeep ==
  ASSUME RepeatInv, NEW s,
         Commit(s), s.results = stored.results, s.previous = stored.previous,
         stored.status \in {"deciding", "paused_for_human"}
  PROVE  RepeatInv'
BY DEF RepeatInv, Commit, LastIsPrevious

(* Nor does a test run, unless it repeats a state: then the task is over.   *)
LEMMA TestsKeepRepeats ==
  ASSUME IInv, RepeatInv, NEW raw \in RawRuns,
         TestsUnknown(raw) \/ TestsDrifted(raw) \/ TestsParsed(raw)
  PROVE  RepeatInv'
<1>1. /\ Tested(raw) /\ session \in Sessions /\ WithRunLogged \in Sessions
      /\ WithRunLogged.results = session.results
      /\ WithRunLogged.previous = session.previous
      /\ phase \in Phases
  <2>1. Tested(raw)
    BY DEF TestsUnknown, TestsDrifted, TestsParsed
  <2>2. session \in Sessions /\ phase \in Phases
    BY <2>1, TestedFacts
  <2>. QED BY <2>1, <2>2, TestedFacts, LogTyped DEF WithRunLogged, HistoryTags
<1>2. /\ stored.status = "deciding" /\ session.results = stored.results
      /\ session.previous = stored.previous
  BY <1>1, TestedFacts DEF IInv, BudgetInv, Executing
<1>3. CASE TestsUnknown(raw)
  <2>. DEFINE s == WithStatus(session, "paused_for_human")
  <2>1. Commit(s) /\ s.results = stored.results /\ s.previous = stored.previous
    BY <1>1, <1>2, <1>3, StatusTyped DEF TestsUnknown, Statuses
  <2>. HIDE DEF s
  <2>. QED BY <1>2, <2>1, SameResultsKeep
<1>4. CASE TestsDrifted(raw)
  <2>. DEFINE s == WithStatus(WithRunLogged, "paused_for_human")
  <2>1. Commit(s) /\ s.results = stored.results /\ s.previous = stored.previous
    BY <1>1, <1>2, <1>4, StatusTyped DEF TestsDrifted, Statuses
  <2>. HIDE DEF s
  <2>. QED BY <1>2, <2>1, SameResultsKeep
<1>5. CASE TestsParsed(raw)
  <2>. DEFINE r == ParsePytest(raw, phase, NoDetail)
              rec == Record(WithRunLogged, r)
              gate == GateStatus(rec, KindOf(r))
              s == WithStatus(rec, gate)
  <2>1. stored' = s
    BY <1>5 DEF TestsParsed, Commit
  <2>2. r \in Results
    BY <1>1, ParsedTyped
  <2>. HIDE DEF r
  <2>3. /\ rec \in Sessions /\ rec.results = Append(session.results, r)
        /\ rec.previous = r
    BY <1>1, <2>2, RecordTyped DEF Record, Sessions
  <2>. HIDE DEF rec
  <2>4. gate \in Statuses
    BY <2>3, GateTyped
  <2>5. /\ s.results = Append(session.results, r) /\ s.previous = r /\ s.status = gate
    BY <2>3, <2>4, StatusTyped
  <2>6. LastIsPrevious(s)
    <3>1. session.results \in Seq(Results)
      BY <1>1 DEF Sessions
    <3>2. /\ Append(session.results, r) # << >>
          /\ Append(session.results, r)[Len(Append(session.results, r))] = r
      BY <2>2, <3>1
    <3>. QED BY <2>5, <3>2 DEF LastIsPrevious
  <2>7. ASSUME gate \in {"deciding", "paused_for_human"} PROVE NoRepeats(s.results)
    <3>1. LastIsPrevious(session) /\ NoRepeats(session.results)
      BY <1>2 DEF RepeatInv, LastIsPrevious
    <3>. QED BY <1>1, <2>2, <2>3, <2>5, <2>7, <3>1, GateForbidsRepeats
  <2>. HIDE DEF s
  <2>. QED BY <2>1, <2>5, <2>6, <2>7 DEF RepeatInv, LastIsPrevious, NoRepeats
<1>. QED BY <1>3, <1>4, <1>5

(* Handling an answer adds no result.                                       *)
LEMMA AnswerKeepsRepeats ==
  ASSUME IInv, RepeatInv, Answer
  PROVE  RepeatInv'
<1>1. /\ pc = "generate" /\ stored.status = "deciding"
      /\ Answered \in Sessions /\ Answered.results = stored.results
      /\ Answered.previous = stored.previous
  BY AnsweredTyped
     DEF Answer, ProtocolError, RequestHuman, PatchPrepareFailed, PolicyDeny,
         RequireApproval, DispatchPatch, DispatchTool, DispatchTests, Dispatch, Asked,
         IInv, BudgetInv
<1>2. ASSUME NEW s, Commit(s), s.results = stored.results, s.previous = stored.previous
      PROVE  RepeatInv'
  BY <1>1, <1>2, SameResultsKeep
<1>3. ASSUME NEW tag \in HistoryTags
      PROVE  /\ Log(Answered, tag) \in Sessions
             /\ Log(Answered, tag).results = stored.results
             /\ Log(Answered, tag).previous = stored.previous
  BY <1>1, <1>3, LogTyped
<1>4. ASSUME NEW tag \in HistoryTags, Refuse(tag) PROVE RepeatInv'
  <2>. DEFINE a == Log(Answered, tag)
              s == IF a.actions >= MaxActions THEN WithStatus(a, "stopped") ELSE a
  <2>1. Commit(s)
    BY <1>4 DEF Refuse
  <2>2. a \in Sessions /\ a.results = stored.results /\ a.previous = stored.previous
    BY <1>3, <1>4
  <2>. HIDE DEF a
  <2>3. s.results = stored.results /\ s.previous = stored.previous
    BY <2>2, StatusTyped DEF Statuses
  <2>. HIDE DEF s
  <2>. QED BY <2>1, <2>3, <1>2
<1>5. CASE ProtocolError
  BY <1>5, <1>4 DEF ProtocolError, HistoryTags
<1>6. CASE RequestHuman
  <2>. DEFINE a == Log(Answered, "request_human")
  <2>1. a \in Sessions /\ a.results = stored.results /\ a.previous = stored.previous
    BY <1>3 DEF HistoryTags
  <2>2. Commit(WithStatus(a, "paused_for_human"))
    BY <1>6 DEF RequestHuman
  <2>. HIDE DEF a
  <2>. QED BY <2>1, <2>2, <1>2, StatusTyped DEF Statuses
<1>7. CASE PatchPrepareFailed
  BY <1>7, <1>3, <1>2 DEF PatchPrepareFailed, HistoryTags
<1>8. ASSUME NEW f \in Patches, PolicyDeny(f) PROVE RepeatInv'
  BY <1>8, <1>4 DEF PolicyDeny, HistoryTags
<1>9. ASSUME NEW f \in Patches, RequireApproval(f) PROVE RepeatInv'
  BY <1>9, <1>1, <1>2, StatusTyped DEF RequireApproval, Statuses
<1>10. ASSUME NEW f, NEW executor, NEW testPhase, Dispatch(f, executor, testPhase)
       PROVE  RepeatInv'
  BY <1>10 DEF Dispatch, RepeatInv
<1>. QED
  BY <1>5, <1>6, <1>7, <1>8, <1>9, <1>10
     DEF Answer, DispatchPatch, DispatchTool, DispatchTests

(* The results stay apart on every step.                                    *)
LEMMA NextKeepsRepeats == IInv /\ RepeatInv /\ [Next]_vars => RepeatInv'
<1>. SUFFICES ASSUME IInv, RepeatInv, [Next]_vars PROVE RepeatInv'
  OBVIOUS
<1>1. stored \in Sessions /\ session \in Sessions
  BY DEF IInv, TypeOK
<1>2. CASE stored' = stored
  BY <1>2 DEF RepeatInv
<1>3. CASE BudgetExhausted
  <2>1. stored.status = "deciding" /\ Commit(WithStatus(stored, "stopped"))
    BY <1>3 DEF BudgetExhausted, IInv, BudgetInv
  <2>. QED BY <1>1, <2>1, StatusTyped, SameResultsKeep DEF Statuses
<1>4. CASE Answer
  BY <1>4, AnswerKeepsRepeats
<1>5. ASSUME pc \in {"tool", "apply"}
      PROVE  /\ stored.status = "deciding" /\ session.results = stored.results
             /\ session.previous = stored.previous
  BY <1>5 DEF IInv, BudgetInv, Executing
<1>6. ASSUME NEW tag \in HistoryTags, UseTool(tag) PROVE RepeatInv'
  <2>1. Commit(Log(session, tag)) /\ pc = "tool"
    BY <1>6 DEF UseTool
  <2>. QED BY <1>1, <1>5, <2>1, LogTyped, SameResultsKeep
<1>7. CASE ApplyPatchUnknown
  <2>1. Commit(WithStatus(session, "paused_for_human")) /\ pc = "apply"
    BY <1>7 DEF ApplyPatchUnknown
  <2>. QED BY <1>1, <1>5, <2>1, StatusTyped, SameResultsKeep DEF Statuses
<1>8. ASSUME NEW raw \in RawRuns,
             TestsUnknown(raw) \/ TestsDrifted(raw) \/ TestsParsed(raw)
      PROVE  RepeatInv'
  BY <1>8, TestsKeepRepeats
<1>9. CASE Resume
  <2>1. stored.status = "paused_for_human" /\ Commit(WithStatus(stored, "deciding"))
    BY <1>9 DEF Resume
  <2>. QED BY <1>1, <2>1, StatusTyped, SameResultsKeep DEF Statuses
<1>10. CASE Load \/ Crash \/ ToolResultTooLong \/ UNCHANGED vars
  BY <1>2, <1>10 DEF Load, Crash, ToolResultTooLong, vars
<1>11. ASSUME NEW outcome, ApplyPatch(outcome) PROVE RepeatInv'
  BY <1>2, <1>11 DEF ApplyPatch
<1>12. CASE TestsMisdated \/ \E raw \in RawRuns : TestsRefused(raw)
  BY <1>10, <1>12, RefusalIsCrash
<1>. QED
  BY <1>3, <1>4, <1>6, <1>7, <1>8, <1>9, <1>10, <1>11, <1>12 DEF Next, Step, Execute

(* A task that may go on never has the same failing state twice, except     *)
(* just before, on another worktree (engine.py:23-36).                      *)
THEOREM RepeatsAlwaysStop == Spec => []RepeatsStop
<1>1. Init => RepeatInv
  BY DEF Init, RepeatInv, LastIsPrevious, NoRepeats
<1>2. RepeatInv => RepeatsStop
  BY DEF RepeatInv, NoRepeats, RepeatsStop
<1>. QED BY <1>1, <1>2, Invariance, NextKeepsRepeats, PTL DEF Spec
-----------------------------------------------------------------------------
(* The demo worker.  Its loop is a task of HarnessCore, so IInv and         *)
(* HistoryInv hold of it; what follows is about the scripts and the trace.  *)

(* The invariants of the loop, and its budget.                              *)
LoopInv ==
  IInv /\ HistoryInv /\ scenario \in DOMAIN Scenarios /\ MaxActions = Plan.maxActions

(* The scripted model proposes nothing but patches, or asks for a human.    *)
ScriptInv ==
  /\ base \in Revisions
  /\ pc # "tool"
  /\ pc = "test" => phase = "post_patch"
  /\ scenario # "feedback_success" =>
       pc \notin {"apply", "test"} /\ revision = base /\ stored.results = << >>

(* No patch of the history failed to be prepared.                           *)
Prepared(h) == \A i \in DOMAIN h : h[i] # "patch_prepare_failed"

(* A repair goes on after a run that did not pass, and ends with one that   *)
(* did.                                                                     *)
RepairStory(s) ==
  \/ s.history = << >> /\ s.results = << >> /\ s.status = "deciding"
  \/ /\ s.history = <<"apply_patch", "full_test">>
     /\ s.actions >= 1 /\ Len(s.results) = 1
     /\ s.results[1].outcome = "passed" <=> s.status = "succeeded"
  \/ /\ s.history = <<"apply_patch", "full_test", "apply_patch", "full_test">>
     /\ s.actions >= 2 /\ Len(s.results) = 2
     /\ s.results[1].outcome # "passed"
     /\ s.results[2].outcome = "passed" <=> s.status = "succeeded"

(* The one other action of a script, if it was answered.                    *)
SingleStory(s, tag) ==
  \/ s.history = << >>
  \/ s.history = <<tag>> /\ s.actions >= 1

(* What a history that can be shown says, by scenario.                      *)
Story(s) ==
  Prepared(s.history) /\ s.status \in {"deciding", Plan.expected} =>
    /\ scenario = "feedback_success" => RepairStory(s)
    /\ scenario = "governance_denied" => SingleStory(s, "policy_deny")
    /\ scenario = "human_review_pause" => SingleStory(s, "request_human")

StoryInv == Story(stored)

(* The events of the entries: a patch was selected, its run failed first,   *)
(* or passed.                                                               *)
Selected == Event("action_selected", "apply_patch")
Failed   == Event("test_completed", "failed")
First    == Event("feedback_produced", "initial_failure")
Passed   == Event("test_completed", "passed")
Done     == Event("feedback_produced", "passed")
Denied   == Event("policy_decision", "test_asset_protection")
Asking   == Event("action_selected", "request_human")

(* The events of the first r entries of a repair that has n of them.        *)
RepairEvents(r, n) ==
  IF r = 0 THEN << >>
  ELSE IF r = 1 THEN <<Selected>>
  ELSE IF r = 2 /\ n = 2 THEN <<Selected, Passed, Done>>
  ELSE IF r = 2 THEN <<Selected, Failed, First>>
  ELSE IF r = 3 THEN <<Selected, Failed, First, Selected>>
  ELSE <<Selected, Failed, First, Selected, Passed, Done>>

(* The events built from a history that will be shown are the designed ones.*)
RepairBuilt ==
  /\ built = RepairEvents(read, Len(stored.history))
  /\ read \in {0, 1} \/ ~Unreliable(stored.results[1])

BuiltRight ==
  /\ scenario = "feedback_success" => RepairBuilt
  /\ scenario = "governance_denied" => (read = 1 => built = <<Selected, Denied>>)
  /\ scenario = "human_review_pause" => (read = 1 => built = <<Asking>>)

TraceInv ==
  /\ read \in 0 .. Len(stored.history)
  /\ built \in Seq(Events)
  /\ pc # "idle" => read = 0
  /\ read = 0 => built = << >>
  /\ \A i \in 1 .. read : stored.history[i] # "patch_prepare_failed"
  /\ Prepared(stored.history) /\ stored.status = Plan.expected => BuiltRight

(* The one result a scenario can have, and what it says of the task.        *)
DesignedResult ==
  [scenario |-> scenario, events |-> Designed[scenario], terminal |-> Plan.expected]

Truth ==
  IF scenario = "feedback_success"
    THEN /\ stored.results[1].outcome \in {"failed", "collection_error"}
         /\ green = revision /\ ~unreviewed
    ELSE revision = base /\ stored.results = << >>

FileInv ==
  /\ at \in {"prepare", "loop", "written", "exited"}
  /\ exit \in {"none", "ok", "failed"}
  /\ exit # "none" <=> at = "exited"
  /\ file \in {DesignedResult, NoFile, Torn}
  /\ file \in WorkerResults => at \in {"written", "exited"} /\ Truth
  /\ at = "written" \/ exit = "ok" => file = DesignedResult
  /\ shown # NoFile => at = "exited" /\ Truth
  /\ shown \in {Designed[scenario], NoFile}

WorkerInv == LoopInv /\ ScriptInv /\ StoryInv /\ TraceInv /\ FileInv

-----------------------------------------------------------------------------
(* What the scenarios say.                                                  *)
LEMMA PlanFacts ==
  ASSUME scenario \in DOMAIN Scenarios
  PROVE  /\ scenario \in {"feedback_success", "governance_denied", "human_review_pause"}
         /\ Len(Plan.script) = Plan.maxActions
         /\ Plan.expected \in Statuses
         /\ scenario = "feedback_success" =>
              /\ Plan.maxActions = 2 /\ Plan.expected = "succeeded"
              /\ Plan.contract = SuccessContract
              /\ \A i \in 1 .. 2 : Plan.script[i] = Patch(SourcePatch)
         /\ scenario = "governance_denied" =>
              /\ Plan.maxActions = 1 /\ Plan.expected = "stopped"
              /\ Plan.contract = DeniedContract
              /\ Plan.script[1] = Patch(TestPatch)
         /\ scenario = "human_review_pause" =>
              /\ Plan.maxActions = 1 /\ Plan.expected = "paused_for_human"
              /\ Plan.contract = PauseContract
              /\ Plan.script[1] = AskHuman
<1>1. scenario \in {"feedback_success", "governance_denied", "human_review_pause"}
  BY DEF Scenarios
<1>2. CASE scenario = "feedback_success"
  <2>1. Plan = [script |-> <<Patch(SourcePatch), Patch(SourcePatch)>>, maxActions |-> 2,
                expected |-> "succeeded", contract |-> SuccessContract]
    BY <1>2 DEF Plan, Scenarios
  <2>. QED BY <1>2, <2>1 DEF Statuses
<1>3. CASE scenario = "governance_denied"
  <2>1. Plan = [script |-> <<Patch(TestPatch)>>, maxActions |-> 1,
                expected |-> "stopped", contract |-> DeniedContract]
    BY <1>3 DEF Plan, Scenarios
  <2>. QED BY <1>3, <2>1 DEF Statuses
<1>4. CASE scenario = "human_review_pause"
  <2>1. Plan = [script |-> <<AskHuman>>, maxActions |-> 1,
                expected |-> "paused_for_human", contract |-> PauseContract]
    BY <1>4 DEF Plan, Scenarios
  <2>. QED BY <1>4, <2>1 DEF Statuses
<1>. QED BY <1>1, <1>2, <1>3, <1>4

(* What the two tables of the policy look for.                              *)
MustDeny(f) ==
  \/ f.flags \cap {"touches_test_assets", "protected_config", "path_escape", "symlink",
                   "binary", "shell", "capability_missing", "demo_escape"} # {}
  \/ f.files > 20 \/ f.lines > 2000 \/ f.bytes > 1048576

MustAsk(f) ==
  \/ f.files > 5 \/ f.lines > 300
  \/ f.flags \cap {"source_delete", "sensitive_path", "dependency_config"} # {}

(* A table matches when one of its rules does.                              *)
LEMMA Tables ==
  ASSUME NEW f
  PROVE  /\ Matches(DenyRules(f)) # {} <=> MustDeny(f)
         /\ Matches(ApprovalRules(f)) # {} <=> MustAsk(f)
<1>1. Matches(DenyRules(f)) # {} <=> MustDeny(f)
  <2>. DEFINE d == DenyRules(f)
              large == f.files > 20 \/ f.lines > 2000 \/ f.bytes > 1048576
              limit == [reason |-> "patch_hard_limit", matches |-> large]
  <2>1. DOMAIN d = 1 .. 8
    BY DEF DenyRules
  <2>2. /\ d[1].matches = ("touches_test_assets" \in f.flags)
        /\ d[2].matches = ("protected_config" \in f.flags)
        /\ d[3].matches = (f.flags \cap {"path_escape", "symlink"} # {})
        /\ d[4].matches = ("binary" \in f.flags)
        /\ d[5].matches = ("shell" \in f.flags)
        /\ d[6].matches = ("capability_missing" \in f.flags)
        /\ d[7].matches = ("demo_escape" \in f.flags)
    BY DEF DenyRules
  <2>3. d[8].matches = large
    <3>1. d[8] = limit
      BY DEF DenyRules
    <3>2. limit.matches = large
      <4>. HIDE DEF large
      <4>. QED BY Zenon
    <3>. HIDE DEF d, large, limit
    <3>. QED BY <3>1, <3>2, Zenon
  <2>. HIDE DEF d, large
  <2>4. /\ d[1].matches <=> "touches_test_assets" \in f.flags
        /\ d[2].matches <=> "protected_config" \in f.flags
        /\ d[3].matches <=> f.flags \cap {"path_escape", "symlink"} # {}
        /\ d[4].matches <=> "binary" \in f.flags
        /\ d[5].matches <=> "shell" \in f.flags
        /\ d[6].matches <=> "capability_missing" \in f.flags
        /\ d[7].matches <=> "demo_escape" \in f.flags
        /\ d[8].matches <=> large
    BY <2>2, <2>3, Zenon
  <2>5. (\E i \in DOMAIN d : d[i].matches) <=>
          \/ "touches_test_assets" \in f.flags \/ "protected_config" \in f.flags
          \/ f.flags \cap {"path_escape", "symlink"} # {} \/ "binary" \in f.flags \/ "shell" \in f.flags
          \/ "capability_missing" \in f.flags \/ "demo_escape" \in f.flags \/ large
    BY <2>1, <2>4
  <2>6. Matches(d) # {} <=> \E i \in DOMAIN d : d[i].matches
    BY DEF Matches
  <2>. QED BY <2>5, <2>6 DEF d, large, MustDeny
<1>2. Matches(ApprovalRules(f)) # {} <=> MustAsk(f)
  <2>. DEFINE a == ApprovalRules(f)
              large == f.files > 5 \/ f.lines > 300
              limit == [reason |-> "patch_requires_approval", matches |-> large]
  <2>1. DOMAIN a = 1 .. 4
    BY DEF ApprovalRules
  <2>2. /\ a[2].matches = ("source_delete" \in f.flags)
        /\ a[3].matches = ("sensitive_path" \in f.flags)
        /\ a[4].matches = ("dependency_config" \in f.flags)
    BY DEF ApprovalRules
  <2>3. a[1].matches = large
    <3>1. a[1] = limit
      BY DEF ApprovalRules
    <3>2. limit.matches = large
      <4>. HIDE DEF large
      <4>. QED BY Zenon
    <3>. HIDE DEF a, large, limit
    <3>. QED BY <3>1, <3>2, Zenon
  <2>. HIDE DEF a, large
  <2>4. /\ a[1].matches <=> large
        /\ a[2].matches <=> "source_delete" \in f.flags
        /\ a[3].matches <=> "sensitive_path" \in f.flags
        /\ a[4].matches <=> "dependency_config" \in f.flags
    BY <2>2, <2>3, Zenon
  <2>5. (\E i \in DOMAIN a : a[i].matches) <=>
          \/ large \/ "source_delete" \in f.flags \/ "sensitive_path" \in f.flags
          \/ "dependency_config" \in f.flags
    BY <2>1, <2>4
  <2>6. Matches(a) # {} <=> \E i \in DOMAIN a : a[i].matches
    BY DEF Matches
  <2>. QED BY <2>5, <2>6 DEF a, large, MustAsk
<1>. QED BY <1>1, <1>2

(* A rule that denies wins over every rule that asks, whatever their order  *)
(* in the tables.                                                           *)
LEMMA Verdicts ==
  ASSUME NEW f
  PROVE  /\ Evaluate(f).outcome = "deny" <=> MustDeny(f)
         /\ Evaluate(f).outcome = "require_approval" <=> ~MustDeny(f) /\ MustAsk(f)
         /\ Evaluate(f).outcome = "allow" <=> ~MustDeny(f) /\ ~MustAsk(f)
<1>1. CASE MustDeny(f)
  BY <1>1, Tables DEF Evaluate
<1>2. CASE ~MustDeny(f) /\ MustAsk(f)
  BY <1>2, Tables DEF Evaluate
<1>3. CASE ~MustDeny(f) /\ ~MustAsk(f)
  BY <1>3, Tables DEF Evaluate
<1>. QED BY <1>1, <1>2, <1>3

(* Of a patch, of any number of files, the policy allows exactly what needs *)
(* no look: small, and every file an ordinary one inside the root, Python   *)
(* source not being deleted.  One test asset, protected, sensitive or       *)
(* dependency file among the others is enough, wherever it is               *)
(* (policy.py:61-96, patch_policy.py:12-29).                                *)
THEOREM OnlyPlainPatchesPass ==
  ASSUME NEW p \in [files : Seq(FilePlans), lines : Nat, bytes : Nat]
  PROVE  Evaluate(PolicyFactsFromPrepared(p, "real")).outcome = "allow" <=>
           /\ Len(p.files) <= 5 /\ p.lines <= 300 /\ p.bytes <= 1048576
           /\ \A i \in DOMAIN p.files :
                /\ p.files[i].kinds \subseteq {"python"} /\ p.files[i].unsafe = {}
                /\ p.files[i].operation = "delete" => p.files[i].kinds = {}
<1>. DEFINE f == PolicyFactsFromPrepared(p, "real")
<1>1. /\ f.files = Len(p.files) /\ f.lines = p.lines /\ f.bytes = p.bytes
      /\ f.files \in Nat /\ f.lines \in Nat /\ f.bytes \in Nat
  BY DEF PolicyFactsFromPrepared
<1>2. /\ f.flags \subseteq Flags
      /\ "touches_test_assets" \in f.flags <=> SomeFile(p, {"in_tests", "test_asset"})
      /\ "protected_config" \in f.flags <=> SomeFile(p, {"protected"})
      /\ "path_escape" \in f.flags <=> SomeUnsafe(p, "path_escape")
      /\ "symlink" \in f.flags <=> SomeUnsafe(p, "symlink")
      /\ "binary" \in f.flags <=> SomeUnsafe(p, "binary")
      /\ "shell" \notin f.flags
      /\ "capability_missing" \notin f.flags
      /\ "demo_escape" \notin f.flags
      /\ "source_delete" \in f.flags <=>
           \E i \in DOMAIN p.files :
             /\ p.files[i].operation = "delete"
             /\ "python" \in p.files[i].kinds /\ "in_tests" \notin p.files[i].kinds
      /\ "sensitive_path" \in f.flags <=> SomeFile(p, {"sensitive"})
      /\ "dependency_config" \in f.flags <=> SomeFile(p, {"dependency"})
  BY DEF PolicyFactsFromPrepared, Flags
<1>3. \A i \in DOMAIN p.files : p.files[i] \in FilePlans
  OBVIOUS
<1>. HIDE DEF f
<1>4. ~MustDeny(f) /\ ~MustAsk(f) <=>
        /\ f.files <= 5 /\ f.lines <= 300 /\ f.bytes <= 1048576
        /\ f.flags = {}
  BY <1>1, <1>2 DEF MustDeny, MustAsk, Flags
<1>5. f.flags = {} <=>
        \A i \in DOMAIN p.files :
          /\ p.files[i].kinds \subseteq {"python"} /\ p.files[i].unsafe = {}
          /\ p.files[i].operation = "delete" => p.files[i].kinds = {}
  BY <1>2, <1>3 DEF SomeFile, SomeUnsafe, FilePlans, PathKinds, Flags
<1>. QED BY <1>1, <1>4, <1>5, Verdicts DEF f

(* The policy lets the scripted repair pass, and denies the patch of a test *)
(* (policy.py:78-120).                                                      *)
LEMMA PolicyOnScripts ==
  /\ Evaluate(SourcePatch).outcome = "allow"
  /\ Evaluate(TestPatch).outcome = "deny"
<1>1. ASSUME NEW kinds \in SUBSET PathKinds
      PROVE  LET p == OneFile(kinds) IN
               /\ p \in [files : Seq(FilePlans), lines : Nat, bytes : Nat]
               /\ DOMAIN p.files = {1} /\ Len(p.files) = 1
               /\ p.files[1].kinds = kinds /\ p.files[1].operation = "modify"
               /\ p.files[1].unsafe = {} /\ p.lines = 2 /\ p.bytes = 110
  BY DEF OneFile, FilePlans
<1>2. Evaluate(SourcePatch).outcome = "allow"
  <2>1. {"python"} \in SUBSET PathKinds
    BY DEF PathKinds
  <2>. DEFINE p == OneFile({"python"})
  <2>2. /\ p \in [files : Seq(FilePlans), lines : Nat, bytes : Nat]
        /\ DOMAIN p.files = {1} /\ Len(p.files) = 1
        /\ p.files[1].kinds = {"python"} /\ p.files[1].operation = "modify"
        /\ p.files[1].unsafe = {} /\ p.lines = 2 /\ p.bytes = 110
    BY <1>1, <2>1
  <2>. HIDE DEF p
  <2>3. /\ Len(p.files) <= 5 /\ p.lines <= 300 /\ p.bytes <= 1048576
        /\ \A i \in DOMAIN p.files :
             /\ p.files[i].kinds \subseteq {"python"} /\ p.files[i].unsafe = {}
             /\ p.files[i].operation # "delete"
    BY <2>2
  <2>. QED BY <2>2, <2>3, OnlyPlainPatchesPass DEF SourcePatch, p
<1>3. Evaluate(TestPatch).outcome = "deny"
  <2>1. {"python", "in_tests"} \in SUBSET PathKinds
    BY DEF PathKinds
  <2>2. SomeFile(OneFile({"python", "in_tests"}), {"in_tests", "test_asset"})
    BY <1>1, <2>1 DEF SomeFile
  <2>3. "touches_test_assets" \in TestPatch.flags
    BY <2>2 DEF TestPatch, PolicyFactsFromPrepared, Flags
  <2>. QED BY <2>3, Verdicts DEF MustDeny
<1>. QED BY <1>2, <1>3

(* What each script asks of the loop.                                       *)
LEMMA ScriptedAnswers ==
  ASSUME scenario \in DOMAIN Scenarios, llmCalls \in Nat, ScriptLeft,
         Scripted(Plan.script[llmCalls + 1])
  PROVE  \/ PatchPrepareFailed /\ scenario # "human_review_pause"
         \/ scenario = "feedback_success" /\ DispatchPatch(SourcePatch)
         \/ scenario = "governance_denied" /\ PolicyDeny(TestPatch)
         \/ scenario = "human_review_pause" /\ RequestHuman
<1>. DEFINE action == Plan.script[llmCalls + 1]
<1>1. llmCalls + 1 \in 1 .. Plan.maxActions
  BY PlanFacts DEF ScriptLeft
<1>2. ASSUME NEW facts, action = Patch(facts)
      PROVE  PatchPrepareFailed \/ PolicyDeny(facts) \/ RequireApproval(facts)
             \/ DispatchPatch(facts)
  <2>1. action.type = "apply_patch" /\ action.facts = facts
    BY <1>2 DEF Patch
  <2>. QED BY <2>1 DEF Scripted
<1>3. CASE scenario = "feedback_success"
  <2>1. action = Patch(SourcePatch)
    BY <1>1, <1>3, PlanFacts
  <2>2. ~PolicyDeny(SourcePatch) /\ ~RequireApproval(SourcePatch)
    BY PolicyOnScripts DEF PolicyDeny, RequireApproval
  <2>. QED BY <1>2, <1>3, <2>1, <2>2
<1>4. CASE scenario = "governance_denied"
  <2>1. action = Patch(TestPatch)
    BY <1>1, <1>4, PlanFacts
  <2>2. ~RequireApproval(TestPatch) /\ ~DispatchPatch(TestPatch)
    BY PolicyOnScripts DEF RequireApproval, DispatchPatch, Dispatch
  <2>. QED BY <1>2, <1>4, <2>1, <2>2
<1>5. CASE scenario = "human_review_pause"
  <2>1. action = AskHuman
    BY <1>1, <1>5, PlanFacts
  <2>2. action.type # "apply_patch"
    BY <2>1 DEF AskHuman
  <2>. QED BY <1>5, <2>2 DEF Scripted
<1>. QED BY <1>3, <1>4, <1>5, PlanFacts

(* The loop under a script takes steps of HarnessCore.                      *)
LEMMA LoopIsStep ==
  ASSUME scenario \in DOMAIN Scenarios, llmCalls \in Nat, LoopStep
  PROVE  Step
<1>1. CASE ScriptLeft /\ Scripted(Plan.script[llmCalls + 1])
  <2>1. Answer
    BY <1>1, ScriptedAnswers, ScriptedPatchesAssumption DEF Answer
  <2>. QED BY <2>1 DEF Step
<1>2. CASE pc = "test" /\ \E raw \in RawRuns : TestsDrifted(raw) \/ TestsParsed(raw)
  BY <1>2 DEF Step, Execute
<1>. QED BY <1>1, <1>2 DEF LoopStep, Step, Execute

(* A step of the worker is one of its loop, or leaves the loop alone.       *)
LEMMA WorkerStepIsNext ==
  ASSUME scenario \in DOMAIN Scenarios, llmCalls \in Nat, [WorkerNext]_workerVars
  PROVE  [Next]_vars /\ scenario' = scenario
<1>1. CASE RunLoop
  BY <1>1, LoopIsStep DEF RunLoop, Next
<1>2. ASSUME NEW left \in LeftBehind, Raise(left) PROVE [Next]_vars /\ scenario' = scenario
  BY <1>2 DEF Raise, Fail, Next
<1>3. CASE PrepareRepository \/ WriteResult \/ TraceRefused \/ Exit \/ ReadWorkerResult
  BY <1>3 DEF PrepareRepository, WriteResult, TraceRefused, Exit, ReadWorkerResult, Fail
<1>4. ASSUME NEW drifted \in Drifted, ReadEntry(drifted) \/ EntryRefused(drifted)
      PROVE  [Next]_vars /\ scenario' = scenario
  BY <1>4 DEF ReadEntry, EntryRefused, Fail
<1>5. CASE UNCHANGED workerVars
  BY <1>5 DEF workerVars, vars
<1>. QED BY <1>1, <1>2, <1>3, <1>4, <1>5 DEF WorkerNext, Work

(* What the loop keeps, it keeps under the worker.                          *)
LEMMA WorkerKeepsLoop == LoopInv /\ [WorkerNext]_workerVars => LoopInv'
<1>. SUFFICES ASSUME LoopInv, [WorkerNext]_workerVars PROVE LoopInv'
  OBVIOUS
<1>1. [Next]_vars /\ scenario' = scenario
  BY WorkerStepIsNext DEF LoopInv, IInv, TypeOK
<1>2. limits' = limits
  BY <1>1, LimitsStay
<1>. QED
  BY <1>1, <1>2, NextKeeps, NextKeepsHistory DEF LoopInv, MaxActions, Plan

(* The loop of a worker that starts has them.                               *)
LEMMA InitLoop == WorkerInit => LoopInv
<1>1. WorkerInit => Init /\ HistoryInv
  BY DEF WorkerInit, Init, HistoryInv, FollowedUp, AfterPatch
<1>. QED BY <1>1, InitIInv DEF WorkerInit, LoopInv

(* The loop of the demo is a task of HarnessCore: a scripted model, and a   *)
(* worker that may be killed, add no behaviour the loop does not have       *)
(* (worker.py:195-214, scripted_mock.py:14-19).                             *)
THEOREM WorkerRunsTheLoop == WorkerSpec => Spec
<1>1. WorkerInit => Init
  BY DEF WorkerInit
<1>2. LoopInv /\ [WorkerNext]_workerVars => [Next]_vars
  BY WorkerStepIsNext DEF LoopInv, IInv, TypeOK
<1>. QED BY <1>1, <1>2, InitLoop, WorkerKeepsLoop, PTL DEF WorkerSpec, Spec

(* The loop stops on its budget before its script has run out, in every     *)
(* scenario (scenarios.py:206-256).                                         *)
THEOREM ScriptsSuffice == WorkerSpec => []ScriptSuffices
<1>1. LoopInv => ScriptSuffices
  <2>. SUFFICES ASSUME LoopInv, pc = "generate" PROVE ScriptLeft
    BY DEF ScriptSuffices
  <2>1. Len(Plan.script) = MaxActions
    BY PlanFacts DEF LoopInv
  <2>2. llmCalls < MaxActions
    BY DEF LoopInv, IInv, BudgetInv, WithinBudget
  <2>. QED BY <2>1, <2>2 DEF ScriptLeft
<1>. QED BY <1>1, InitLoop, WorkerKeepsLoop, PTL DEF WorkerSpec

-----------------------------------------------------------------------------
(* All that is left of a step of the worker for the loop.                   *)
LEMMA WorkerSteps ==
  ASSUME [WorkerNext]_workerVars
  PROVE  /\ scenario' = scenario /\ base' = base
         /\ \/ at = "loop" /\ LoopStep
            \/ Crash
            \/ UNCHANGED vars
<1>1. CASE RunLoop
  BY <1>1 DEF RunLoop
<1>2. ASSUME NEW left \in LeftBehind, Raise(left)
      PROVE  scenario' = scenario /\ base' = base /\ (Crash \/ UNCHANGED vars)
  BY <1>2 DEF Raise, Fail
<1>3. CASE PrepareRepository \/ WriteResult \/ TraceRefused \/ Exit \/ ReadWorkerResult
  BY <1>3 DEF PrepareRepository, WriteResult, TraceRefused, Exit, ReadWorkerResult, Fail
<1>4. ASSUME NEW drifted \in Drifted, ReadEntry(drifted) \/ EntryRefused(drifted)
      PROVE  scenario' = scenario /\ base' = base /\ UNCHANGED vars
  BY <1>4 DEF ReadEntry, EntryRefused, Fail
<1>5. CASE UNCHANGED workerVars
  BY <1>5 DEF workerVars, vars
<1>. QED BY <1>1, <1>2, <1>3, <1>4, <1>5 DEF WorkerNext, Work

(* What the scripts bring about, the worker keeps.                          *)
LEMMA WorkerKeepsScript == LoopInv /\ ScriptInv /\ [WorkerNext]_workerVars => ScriptInv'
<1>. SUFFICES ASSUME LoopInv, ScriptInv, [WorkerNext]_workerVars PROVE ScriptInv'
  OBVIOUS
<1>1. scenario' = scenario /\ base' = base /\ scenario \in DOMAIN Scenarios
      /\ llmCalls \in Nat /\ revision \in Revisions /\ stored \in Sessions
  BY WorkerSteps DEF LoopInv, IInv, TypeOK
<1>2. ASSUME NEW s, Commit(s), s.results = stored.results, revision' = revision
      PROVE  ScriptInv'
  BY <1>1, <1>2 DEF ScriptInv, Commit
<1>3. ASSUME NEW s, Commit(s), scenario = "feedback_success" PROVE ScriptInv'
  BY <1>1, <1>3 DEF ScriptInv, Commit
<1>4. CASE Load \/ Crash \/ UNCHANGED vars
  BY <1>1, <1>4 DEF Load, Crash, vars, ScriptInv
<1>5. CASE BudgetExhausted
  <2>1. Commit(WithStatus(stored, "stopped")) /\ revision' = revision
    BY <1>5 DEF BudgetExhausted
  <2>. QED BY <2>1, <1>1, <1>2, StatusTyped DEF Statuses
<1>6. CASE ScriptLeft /\ Scripted(Plan.script[llmCalls + 1])
  <2>1. CASE DispatchPatch(SourcePatch) /\ scenario = "feedback_success"
    BY <1>1, <2>1 DEF DispatchPatch, Dispatch, ScriptInv
  <2>2. CASE PatchPrepareFailed \/ PolicyDeny(TestPatch) \/ RequestHuman
    <3>1. IInv /\ pc = "generate" /\ revision' = revision
      BY <2>2 DEF LoopInv, PatchPrepareFailed, PolicyDeny, RequestHuman, Asked
    <3>2. Answered \in Sessions /\ Answered.results = stored.results
      BY <3>1, AnsweredTyped
    <3>3. ASSUME NEW tag \in HistoryTags
          PROVE  Log(Answered, tag) \in Sessions /\ Log(Answered, tag).results = stored.results
      BY <3>2, LogTyped
    <3>4. ASSUME NEW tag \in HistoryTags, NEW status \in Statuses
          PROVE  WithStatus(Log(Answered, tag), status).results = stored.results
      BY <3>3, StatusTyped
    <3>5. CASE PatchPrepareFailed
      BY <3>5, <3>1, <3>3, <1>2 DEF PatchPrepareFailed, HistoryTags
    <3>6. CASE RequestHuman
      BY <3>6, <3>1, <3>4, <1>2 DEF RequestHuman, HistoryTags, Statuses
    <3>7. CASE PolicyDeny(TestPatch)
      <4>. DEFINE a == Log(Answered, "policy_deny")
                  s == IF a.actions >= MaxActions THEN WithStatus(a, "stopped") ELSE a
      <4>1. Commit(s)
        BY <3>7 DEF PolicyDeny, Refuse
      <4>2. s.results = stored.results
        BY <3>3, <3>4 DEF HistoryTags, Statuses
      <4>. HIDE DEF s
      <4>. QED BY <4>1, <4>2, <3>1, <1>2
    <3>. QED BY <2>2, <3>5, <3>6, <3>7
  <2>. QED BY <1>1, <1>6, <2>1, <2>2, ScriptedAnswers
<1>7. ASSUME NEW outcome, ApplyPatch(outcome) PROVE ScriptInv'
  BY <1>1, <1>7 DEF ApplyPatch, ScriptInv
<1>8. CASE ApplyPatchUnknown
  BY <1>3, <1>8 DEF ApplyPatchUnknown, ScriptInv
<1>9. ASSUME NEW raw \in RawRuns, TestsDrifted(raw) \/ TestsParsed(raw)
      PROVE  ScriptInv'
  BY <1>3, <1>9 DEF TestsDrifted, TestsParsed, Tested, ScriptInv
<1>. QED
  BY <1>4, <1>5, <1>6, <1>7, <1>8, <1>9, WorkerSteps DEF LoopStep

(* A run is passed when the gate lets the task succeed, and only then.      *)
LEMMA GateIsVerdict ==
  ASSUME IInv, phase = "post_patch", NEW s \in Sessions, NEW r \in Results
  PROVE  GateStatus(s, KindOf(r)) = "succeeded" <=> r.outcome = "passed"
<1>1. ASSUME r.outcome = "passed" PROVE KindOf(r) = "passed"
  BY <1>1 DEF KindOf, FirstComparison, Analyze, Failing
<1>2. KindOf(r) = "passed" => GateStatus(s, KindOf(r)) = "succeeded"
  BY DEF GateStatus
<1>. QED BY <1>1, <1>2, GateTyped, KindPassed

(* A save that only ends the task tells no other story.                     *)
LEMMA StatusKeepsStory ==
  ASSUME StoryInv, stored \in Sessions, stored.status = "deciding",
         scenario \in DOMAIN Scenarios
  PROVE  Story(WithStatus(stored, "stopped"))
<1>. DEFINE s == WithStatus(stored, "stopped")
<1>1. s.status = "stopped" /\ s.history = stored.history /\ s.actions = stored.actions
  BY StatusTyped, HelpersOnHistory DEF Statuses
<1>. HIDE DEF s
<1>2. scenario = "governance_denied" =>
        (Prepared(stored.history) => SingleStory(stored, "policy_deny"))
  BY DEF StoryInv, Story
<1>3. scenario # "governance_denied" => s.status \notin {"deciding", Plan.expected}
  BY <1>1, PlanFacts
<1>4. SingleStory(stored, "policy_deny") => SingleStory(s, "policy_deny")
  BY <1>1 DEF SingleStory
<1>5. Story(s)
  BY <1>1, <1>2, <1>3, <1>4 DEF Story
<1>. QED BY <1>5 DEF s

(* Nor does a step that handles an answer of the script.                    *)
LEMMA AnswerKeepsStory ==
  ASSUME LoopInv, StoryInv, scenario' = scenario, ScriptLeft,
         Scripted(Plan.script[llmCalls + 1])
  PROVE  StoryInv'
<1>1. /\ IInv /\ pc = "generate" /\ stored \in Sessions /\ llmCalls \in Nat
      /\ scenario \in DOMAIN Scenarios /\ stored.status = "deciding"
      /\ stored.actions < Plan.maxActions /\ stored.actions \in Nat
  <2>1. pc = "generate" /\ llmCalls \in Nat /\ scenario \in DOMAIN Scenarios
    BY ScriptedAnswers
       DEF LoopInv, IInv, TypeOK, PatchPrepareFailed, PolicyDeny, RequestHuman,
           DispatchPatch, Dispatch, Asked
  <2>. QED
    BY <2>1 DEF LoopInv, IInv, TypeOK, BudgetInv, WithinBudget, Sessions
<1>2. /\ Answered \in Sessions /\ Answered.actions = stored.actions + 1
      /\ Answered.history = stored.history
  BY <1>1, AnsweredTyped DEF Answered, LoopInv, HistoryInv, AfterPatch, Sessions
<1>3. ASSUME NEW s, Commit(s), Story(s) PROVE StoryInv'
  BY <1>3 DEF Commit, StoryInv, Story, Plan
<1>4. CASE DispatchPatch(SourcePatch)
  BY <1>4 DEF DispatchPatch, Dispatch, StoryInv, Story, Plan
<1>5. CASE PatchPrepareFailed
  <2>. DEFINE s == Log(Answered, "patch_prepare_failed")
  <2>1. Commit(s)
    BY <1>5 DEF PatchPrepareFailed
  <2>2. s.history = Append(stored.history, "patch_prepare_failed")
        /\ stored.history \in Seq(HistoryTags)
    BY <1>1, <1>2, HelpersOnHistory DEF HistoryTags
  <2>. HIDE DEF s
  <2>3. ~Prepared(s.history)
    <3>1. Len(stored.history) + 1 \in DOMAIN s.history
          /\ s.history[Len(stored.history) + 1] = "patch_prepare_failed"
      BY <2>2
    <3>. QED BY <3>1 DEF Prepared
  <2>. QED BY <2>1, <2>3, <1>3 DEF Story
<1>6. ASSUME NEW tag \in HistoryTags, NEW s, s.history = Append(stored.history, tag),
             s.actions = stored.actions + 1, scenario # "feedback_success",
             scenario = "governance_denied" => tag = "policy_deny",
             scenario = "human_review_pause" => tag = "request_human"
      PROVE  Story(s)
  <2>. SUFFICES ASSUME Prepared(s.history) PROVE SingleStory(s, tag)
    BY <1>6 DEF Story
  <2>1. stored.actions = 0
    BY <1>1, <1>6, PlanFacts
  <2>2. stored.history \in Seq(HistoryTags)
    BY <1>1 DEF Sessions
  <2>3. Prepared(stored.history)
    BY <1>6, <2>2 DEF Prepared
  <2>4. SingleStory(stored, tag)
    BY <1>1, <1>6, <2>3, PlanFacts DEF StoryInv, Story
  <2>5. stored.history = << >>
    BY <2>1, <2>4 DEF SingleStory
  <2>6. s.history = <<tag>>
    BY <2>5, <1>6
  <2>. QED BY <2>1, <2>6, <1>6 DEF SingleStory
<1>7. ASSUME NEW tag \in HistoryTags, NEW status \in Statuses
      PROVE  /\ Log(Answered, tag).history = Append(stored.history, tag)
             /\ Log(Answered, tag).actions = stored.actions + 1
             /\ WithStatus(Log(Answered, tag), status).history = Append(stored.history, tag)
             /\ WithStatus(Log(Answered, tag), status).actions = stored.actions + 1
  <2>. DEFINE a == Log(Answered, tag)
  <2>1. a \in Sessions /\ a.actions = stored.actions + 1
    BY <1>2, LogTyped
  <2>2. a.history = Append(stored.history, tag)
    BY <1>2, HelpersOnHistory
  <2>3. WithStatus(a, status).actions = a.actions
        /\ WithStatus(a, status).history = a.history
    <3>. HIDE DEF a
    <3>. QED BY <2>1, StatusTyped, HelpersOnHistory
  <2>. QED BY <2>1, <2>2, <2>3
<1>8. CASE RequestHuman /\ scenario = "human_review_pause"
  <2>. DEFINE s == WithStatus(Log(Answered, "request_human"), "paused_for_human")
  <2>1. Commit(s)
    BY <1>8 DEF RequestHuman
  <2>2. s.history = Append(stored.history, "request_human")
        /\ s.actions = stored.actions + 1
    BY <1>7 DEF HistoryTags, Statuses
  <2>. HIDE DEF s
  <2>3. Story(s)
    BY <2>2, <1>6, <1>8 DEF HistoryTags
  <2>. QED BY <2>1, <2>3, <1>3
<1>9. CASE PolicyDeny(TestPatch) /\ scenario = "governance_denied"
  <2>. DEFINE a == Log(Answered, "policy_deny")
              s == IF a.actions >= MaxActions THEN WithStatus(a, "stopped") ELSE a
  <2>1. Commit(s)
    BY <1>9 DEF PolicyDeny, Refuse
  <2>2. s.history = Append(stored.history, "policy_deny")
        /\ s.actions = stored.actions + 1
    BY <1>7 DEF HistoryTags, Statuses
  <2>. HIDE DEF s
  <2>3. Story(s)
    BY <2>2, <1>6, <1>9 DEF HistoryTags
  <2>. QED BY <2>1, <2>3, <1>3
<1>. QED BY <1>1, <1>4, <1>5, <1>8, <1>9, ScriptedAnswers

(* What a sequence is when two elements are appended.                       *)
LEMMA TwoMore ==
  ASSUME NEW S, NEW h \in Seq(S), NEW a \in S, NEW b \in S, NEW n \in Nat, Len(h) = n
  PROVE  LET t == Append(Append(h, a), b) IN
           /\ t \in Seq(S) /\ Len(t) = n + 2
           /\ \A i \in 1 .. n : t[i] = h[i]
           /\ t[n + 1] = a /\ t[n + 2] = b
<1>. DEFINE g == Append(h, a)
<1>1. /\ g \in Seq(S) /\ Len(g) = n + 1 /\ g[n + 1] = a
      /\ \A i \in 1 .. n : g[i] = h[i]
  OBVIOUS
<1>. HIDE DEF g
<1>. DEFINE t == Append(g, b)
<1>2. /\ t \in Seq(S) /\ Len(t) = n + 2 /\ t[n + 2] = b
      /\ \A i \in 1 .. (n + 1) : t[i] = g[i]
  BY <1>1
<1>. HIDE DEF t
<1>3. t[n + 1] = a /\ \A i \in 1 .. n : t[i] = h[i]
  BY <1>1, <1>2
<1>. QED BY <1>2, <1>3 DEF t, g

(* Nor does the test run of a patch.                                        *)
LEMMA TestsKeepStory ==
  ASSUME LoopInv, ScriptInv, StoryInv, scenario' = scenario,
         NEW raw \in RawRuns, TestsDrifted(raw) \/ TestsParsed(raw)
  PROVE  StoryInv'
<1>1. /\ IInv /\ pc = "test" /\ phase = "post_patch" /\ scenario = "feedback_success"
      /\ stored \in Sessions /\ session \in Sessions /\ stored.status = "deciding"
      /\ Plan.expected = "succeeded" /\ Plan.maxActions = 2
      /\ stored.actions < 2
      /\ WithRunLogged \in Sessions /\ WithRunLogged.results = stored.results
      /\ WithRunLogged.actions = stored.actions + 1
  <2>1. IInv /\ Tested(raw) /\ pc = "test"
    BY DEF LoopInv, TestsDrifted, TestsParsed, Tested
  <2>2. phase = "post_patch" /\ scenario = "feedback_success"
    BY <2>1 DEF ScriptInv
  <2>3. Plan.expected = "succeeded" /\ Plan.maxActions = 2
    BY <2>2, PlanFacts DEF LoopInv
  <2>. QED
    BY <2>1, <2>2, <2>3, TestedFacts
       DEF LoopInv, IInv, TypeOK, BudgetInv, WithinBudget, Executing
<1>2. ASSUME NEW s, Commit(s), Story(s) PROVE StoryInv'
  BY <1>2 DEF Commit, StoryInv, Story, Plan
<1>3. ASSUME NEW s, Commit(s), s.status \in {"paused_for_human", "stopped"} PROVE StoryInv'
  <2>1. Story(s)
    BY <1>1, <1>3 DEF Story
  <2>. QED BY <2>1, <1>2, <1>3
<1>4. CASE TestsDrifted(raw)
  <2>. DEFINE s == WithStatus(WithRunLogged, "paused_for_human")
  <2>1. Commit(s)
    BY <1>4 DEF TestsDrifted
  <2>2. s.status = "paused_for_human"
    BY <1>1, StatusTyped DEF Statuses
  <2>. QED BY <2>1, <2>2, <1>3
<1>5. CASE TestsParsed(raw)
  <2>. DEFINE r == ParsePytest(raw, phase, NoDetail)
              rec == Record(WithRunLogged, r)
              gate == GateStatus(rec, KindOf(r))
              s == WithStatus(rec, gate)
  <2>1. Commit(s)
    BY <1>5 DEF TestsParsed
  <2>2. r \in Results
    BY <1>1, ParsedTyped DEF Phases
  <2>. HIDE DEF r
  <2>3. rec \in Sessions /\ rec.actions = stored.actions + 1
        /\ rec.history = WithRunLogged.history /\ rec.results = Append(stored.results, r)
    BY <1>1, <2>2, RecordTyped, HelpersOnHistory DEF Record, Sessions
  <2>. HIDE DEF rec
  <2>4. gate \in Statuses /\ (gate = "succeeded" <=> r.outcome = "passed")
    BY <1>1, <2>2, <2>3, GateTyped, GateIsVerdict
  <2>. HIDE DEF gate
  <2>5. /\ s.status = gate /\ s.actions = stored.actions + 1
        /\ s.history = WithRunLogged.history /\ s.results = Append(stored.results, r)
    BY <2>3, <2>4, StatusTyped, HelpersOnHistory
  <2>. HIDE DEF s
  <2>6. WithRunLogged.history = Append(Append(stored.history, "apply_patch"), "full_test")
    <3>1. session.history = Append(stored.history, "apply_patch")
      BY <1>1 DEF LoopInv, HistoryInv, AfterPatch
    <3>. QED BY <1>1, <3>1, HelpersOnHistory DEF WithRunLogged, HistoryTags
  <2>7. /\ stored.history \in Seq(HistoryTags) /\ stored.results \in Seq(Results)
        /\ stored.actions \in Nat
    BY <1>1 DEF Sessions
  <2>. DEFINE n == Len(stored.history)
  <2>8. /\ n \in Nat /\ s.history \in Seq(HistoryTags) /\ Len(s.history) = n + 2
        /\ \A i \in 1 .. n : s.history[i] = stored.history[i]
        /\ s.history[n + 1] = "apply_patch" /\ s.history[n + 2] = "full_test"
    BY <2>5, <2>6, <2>7, TwoMore DEF HistoryTags
  <2>. HIDE DEF n
  <2>9. Prepared(s.history) => Prepared(stored.history)
    <3>1. DOMAIN stored.history = 1 .. n
      BY <2>7 DEF n
    <3>2. DOMAIN s.history = 1 .. (n + 2)
      BY <2>8
    <3>3. \A i \in 1 .. n : i \in 1 .. (n + 2) /\ s.history[i] = stored.history[i]
      BY <2>8
    <3>. QED BY <3>1, <3>2, <3>3 DEF Prepared
  <2>10. ASSUME Prepared(stored.history), s.status \in {"deciding", "succeeded"}
        PROVE  RepairStory(s)
    <3>1. RepairStory(stored)
      BY <1>1, <2>10 DEF StoryInv, Story
    <3>2. CASE stored.history = << >> /\ stored.results = << >>
      <4>1. s.history = <<"apply_patch", "full_test">>
        <5>1. n = 0 /\ n + 1 = 1 /\ n + 2 = 2
          BY <3>2 DEF n
        <5>. QED BY <2>8, <5>1
      <4>2. s.results = <<r>>
        BY <2>5, <3>2
      <4>. QED BY <2>4, <2>5, <2>7, <4>1, <4>2 DEF RepairStory
    <3>3. CASE /\ stored.history = <<"apply_patch", "full_test">>
               /\ Len(stored.results) = 1 /\ stored.actions >= 1
               /\ stored.results[1].outcome # "passed"
      <4>1. s.history = <<"apply_patch", "full_test", "apply_patch", "full_test">>
        <5>1. n = 2 /\ n + 1 = 3 /\ n + 2 = 4
          BY <3>3 DEF n
        <5>2. s.history[1] = "apply_patch" /\ s.history[2] = "full_test"
          BY <2>8, <3>3, <5>1
        <5>. QED BY <2>8, <5>1, <5>2
      <4>2. Len(s.results) = 2 /\ s.results[1] = stored.results[1] /\ s.results[2] = r
        BY <2>2, <2>5, <2>7, <3>3
      <4>. QED BY <2>4, <2>5, <2>7, <3>3, <4>1, <4>2 DEF RepairStory
    <3>. QED BY <1>1, <3>1, <3>2, <3>3, <2>7 DEF RepairStory
  <2>12. Story(s)
    BY <1>1, <2>9, <2>10 DEF Story
  <2>. QED BY <2>1, <2>12, <1>2
<1>. QED BY <1>4, <1>5

(* The saved history tells a story its scenario has, on every step.         *)
LEMMA WorkerKeepsStory ==
  LoopInv /\ ScriptInv /\ StoryInv /\ [WorkerNext]_workerVars => StoryInv'
<1>. SUFFICES ASSUME LoopInv, ScriptInv, StoryInv, [WorkerNext]_workerVars
              PROVE  StoryInv'
  OBVIOUS
<1>1. scenario' = scenario /\ stored \in Sessions
  BY WorkerSteps DEF LoopInv, IInv, TypeOK
<1>2. CASE stored' = stored
  BY <1>1, <1>2 DEF StoryInv, Story, Plan
<1>3. ASSUME NEW s, Commit(s), Story(s) PROVE StoryInv'
  BY <1>1, <1>3 DEF Commit, StoryInv, Story, Plan
<1>4. CASE BudgetExhausted
  <2>1. Commit(WithStatus(stored, "stopped")) /\ stored.status = "deciding"
    BY <1>4 DEF BudgetExhausted, LoopInv, IInv, BudgetInv
  <2>. QED BY <1>1, <1>3, <2>1, StatusKeepsStory DEF LoopInv
<1>5. CASE ScriptLeft /\ Scripted(Plan.script[llmCalls + 1])
  BY <1>1, <1>5, AnswerKeepsStory
<1>6. CASE ApplyPatchUnknown
  <2>. DEFINE s == WithStatus(session, "paused_for_human")
  <2>1. Commit(s) /\ pc = "apply"
    BY <1>6 DEF ApplyPatchUnknown
  <2>2. scenario = "feedback_success" /\ Plan.expected = "succeeded"
    BY <2>1, PlanFacts DEF ScriptInv, LoopInv
  <2>3. s.status = "paused_for_human"
    BY StatusTyped DEF Statuses, LoopInv, IInv, TypeOK
  <2>. HIDE DEF s
  <2>. QED BY <2>1, <2>2, <2>3, <1>3 DEF Story
<1>7. CASE pc = "test" /\ \E raw \in RawRuns : TestsDrifted(raw) \/ TestsParsed(raw)
  BY <1>1, <1>7, TestsKeepStory
<1>8. CASE Load \/ Crash \/ UNCHANGED vars
  BY <1>2, <1>8 DEF Load, Crash, vars
<1>9. ASSUME NEW outcome, ApplyPatch(outcome) PROVE StoryInv'
  BY <1>2, <1>9 DEF ApplyPatch
<1>. QED BY <1>4, <1>5, <1>6, <1>7, <1>8, <1>9, WorkerSteps DEF LoopStep

-----------------------------------------------------------------------------
(* Events are built from their codes.                                       *)
LEMMA EventsTyped ==
  /\ \A code \in ActionKinds : Event("action_selected", code) \in Events
  /\ \A code \in Reasons : Event("policy_decision", code) \in Events
  /\ \A code \in RunOutcomes : Event("test_completed", code) \in Events
  /\ \A code \in FeedbackCodes : Event("feedback_produced", code) \in Events
  /\ \A code \in Statuses : Event("terminal_status", code) \in Events
BY DEF Event, Events

LEMMA NamedEventsTyped ==
  /\ Selected \in Events /\ Failed \in Events /\ First \in Events /\ Passed \in Events
  /\ Done \in Events /\ Denied \in Events /\ Asking \in Events
BY EventsTyped
   DEF Selected, Failed, First, Passed, Done, Denied, Asking,
       ActionKinds, Reasons, RunOutcomes, FeedbackCodes

(* What an entry adds to the trace, by its action.                          *)
LEMMA EntryAdds ==
  ASSUME NEW entry, NEW events, Mappable(entry)
  PROVE  /\ entry.action \in {"apply_patch", "request_human", "full_test", "policy_deny"}
         /\ EntryEvents(entry, events) \in Seq(Events)
         /\ entry.action = "apply_patch" => EntryEvents(entry, events) = <<Selected>>
         /\ entry.action = "request_human" => EntryEvents(entry, events) = <<Asking>>
         /\ entry.action = "policy_deny" =>
              EntryEvents(entry, events) = <<Selected, Denied>>
         /\ entry.action = "full_test" /\ entry.result = "passed" =>
              EntryEvents(entry, events) = <<Passed, Done>>
         /\ entry.action = "full_test" /\ entry.result # "passed"
              /\ (\A j \in DOMAIN events : events[j].type # "test_completed") =>
              EntryEvents(entry, events) = <<Failed, First>>
<1>. DEFINE e == EntryEvents(entry, events)
<1>1. entry.action \in {"apply_patch", "request_human", "full_test", "policy_deny"}
  BY DEF Mappable
<1>2. CASE entry.action = "apply_patch"
  <2>1. e = <<Selected>>
    BY <1>2 DEF EntryEvents, Selected
  <2>2. e \in Seq(Events)
    BY <2>1, NamedEventsTyped
  <2>. HIDE DEF e
  <2>. QED BY <1>2, <2>1, <2>2 DEF e
<1>3. CASE entry.action = "request_human"
  <2>1. e = <<Asking>>
    BY <1>3 DEF EntryEvents, Asking
  <2>2. e \in Seq(Events)
    BY <2>1, NamedEventsTyped
  <2>. HIDE DEF e
  <2>. QED BY <1>3, <2>1, <2>2 DEF e
<1>4. CASE entry.action = "policy_deny"
  <2>1. entry.result = "test_asset_protection"
    BY <1>4 DEF Mappable
  <2>2. e = <<Selected, Denied>>
    BY <1>4, <2>1 DEF EntryEvents, Selected, Denied
  <2>3. e \in Seq(Events)
    BY <2>2, NamedEventsTyped
  <2>. HIDE DEF e
  <2>. QED BY <1>4, <2>2, <2>3 DEF e
<1>5. CASE entry.action = "full_test"
  <2>. DEFINE o == ShownOutcome(entry.result)
              c == FeedbackCode(o, events)
  <2>1. e = << Event("test_completed", o), Event("feedback_produced", c) >>
    BY <1>5 DEF EntryEvents
  <2>2. o \in RunOutcomes /\ c \in FeedbackCodes
    BY DEF ShownOutcome, FeedbackCode, RunOutcomes, FeedbackCodes
  <2>3. entry.result = "passed" => o = "passed" /\ c = "passed"
    BY DEF ShownOutcome, FeedbackCode
  <2>4. entry.result # "passed" /\ (\A j \in DOMAIN events : events[j].type # "test_completed")
          => o = "failed" /\ c = "initial_failure"
    BY DEF ShownOutcome, FeedbackCode
  <2>. HIDE DEF o, c
  <2>5. Event("test_completed", o) \in Events /\ Event("feedback_produced", c) \in Events
    BY <2>2, EventsTyped
  <2>6. e \in Seq(Events)
    BY <2>1, <2>5
  <2>. HIDE DEF e
  <2>7. entry.result = "passed" => e = <<Passed, Done>>
    BY <2>1, <2>3 DEF Passed, Done
  <2>8. entry.result # "passed" /\ (\A j \in DOMAIN events : events[j].type # "test_completed")
          => e = <<Failed, First>>
    BY <2>1, <2>4 DEF Failed, First
  <2>. QED BY <1>5, <2>6, <2>7, <2>8 DEF e
<1>. QED BY <1>1, <1>2, <1>3, <1>4, <1>5

(* How many runs the first entries of a repair name.                        *)
LEMMA RunsOfRepair ==
  ASSUME \/ stored.history = <<"apply_patch", "full_test">>
         \/ stored.history = <<"apply_patch", "full_test", "apply_patch", "full_test">>
  PROVE  /\ FullRuns(2) = 1
         /\ Len(stored.history) = 4 => FullRuns(4) = 2
<1>1. {j \in 1 .. 2 : stored.history[j] = "full_test"} = {2}
  OBVIOUS
<1>2. Len(stored.history) = 4 =>
        {j \in 1 .. 4 : stored.history[j] = "full_test"} = {2} \cup {4}
  OBVIOUS
<1>3. Cardinality({2}) = 1 /\ IsFiniteSet({2})
  BY FS_Singleton
<1>4. Cardinality({2} \cup {4}) = 2
  BY <1>3, FS_AddElement
<1>. QED BY <1>1, <1>2, <1>3, <1>4 DEF FullRuns

(* A sequence behind another one.                                           *)
LEMMA Joined ==
  ASSUME NEW s \in Seq(Events), NEW t \in Seq(Events), NEW n \in Nat, Len(s) = n
  PROVE  /\ s \o t \in Seq(Events) /\ Len(s \o t) = n + Len(t)
         /\ \A i \in 1 .. n : (s \o t)[i] = s[i]
         /\ \A i \in 1 .. Len(t) : (s \o t)[n + i] = t[i]
<1>1. /\ s \o t \in Seq(Events) /\ Len(s \o t) = Len(s) + Len(t)
      /\ \A i \in 1 .. Len(s) + Len(t) :
           (s \o t)[i] = IF i <= Len(s) THEN s[i] ELSE t[i - Len(s)]
  BY ConcatProperties
<1>2. ASSUME NEW i \in 1 .. Len(t) PROVE (s \o t)[n + i] = t[i]
  <2>1. Len(t) \in Nat /\ n + i \in 1 .. n + Len(t) /\ ~(n + i <= n) /\ (n + i) - n = i
    OBVIOUS
  <2>. QED BY <1>1, <2>1
<1>. QED BY <1>1, <1>2

(* Reading an entry of a history that will be shown builds the events the   *)
(* design has for it.                                                       *)
LEMMA EntryReadRight ==
  ASSUME LoopInv, StoryInv, TraceInv, NEW drifted \in Drifted, ReadEntry(drifted),
         Prepared(stored.history), stored.status = Plan.expected
  PROVE  BuiltRight'
<1>. DEFINE entry == Entry(read + 1, drifted)
            more  == EntryEvents(entry, built)
<1>1. /\ scenario' = scenario /\ stored' = stored /\ read' = read + 1
      /\ built' = built \o more /\ Mappable(entry) /\ read < Len(stored.history)
      /\ scenario \in DOMAIN Scenarios
      /\ read \in Nat /\ built \in Seq(Events) /\ (read = 0 => built = << >>) /\ BuiltRight
  <2>1. stored \in Sessions
    BY DEF LoopInv, IInv, TypeOK
  <2>2. Len(stored.history) \in Nat
    BY <2>1 DEF Sessions
  <2>. QED BY <2>2 DEF ReadEntry, vars, TraceInv, LoopInv
<1>2. entry.action = stored.history[read + 1]
      /\ entry.result = SafeResult(read + 1, drifted)
  BY DEF Entry
<1>. HIDE DEF entry
<1>3. /\ more \in Seq(Events)
      /\ entry.action = "apply_patch" => more = <<Selected>>
      /\ entry.action = "request_human" => more = <<Asking>>
      /\ entry.action = "policy_deny" => more = <<Selected, Denied>>
      /\ entry.action = "full_test" /\ entry.result = "passed" => more = <<Passed, Done>>
      /\ entry.action = "full_test" /\ entry.result # "passed"
           /\ (\A j \in DOMAIN built : built[j].type # "test_completed") =>
           more = <<Failed, First>>
  BY <1>1, EntryAdds
<1>. HIDE DEF more
<1>4. read = 0 => built' = more
  BY <1>1, <1>3, ConcatEmptySeq
<1>5. ASSUME NEW tag, stored.history = <<tag>> PROVE read = 0 /\ entry.action = tag
  BY <1>1, <1>2, <1>5
<1>6. CASE scenario = "governance_denied"
  <2>1. SingleStory(stored, "policy_deny")
    BY <1>6 DEF StoryInv, Story
  <2>2. stored.history = <<"policy_deny">>
    BY <1>1, <2>1 DEF SingleStory
  <2>. QED BY <1>1, <1>3, <1>4, <1>5, <1>6, <2>2 DEF BuiltRight
<1>7. CASE scenario = "human_review_pause"
  <2>1. SingleStory(stored, "request_human")
    BY <1>7 DEF StoryInv, Story
  <2>2. stored.history = <<"request_human">>
    BY <1>1, <2>1 DEF SingleStory
  <2>. QED BY <1>1, <1>3, <1>4, <1>5, <1>7, <2>2 DEF BuiltRight
<1>8. CASE scenario = "feedback_success"
  <2>1. RepairStory(stored) /\ stored.status = "succeeded"
    BY <1>1, <1>8, PlanFacts DEF StoryInv, Story
  <2>. DEFINE n == Len(stored.history)
  <2>2. built = RepairEvents(read, n)
        /\ (read \in {0, 1} \/ ~Unreliable(stored.results[1]))
    BY <1>1, <1>8 DEF BuiltRight, RepairBuilt
  <2>3. \/ stored.history = <<"apply_patch", "full_test">>
        \/ stored.history = <<"apply_patch", "full_test", "apply_patch", "full_test">>
    BY <2>1 DEF RepairStory
  <2>4. n \in {2, 4}
    BY <2>3
  <2>5. read \in Nat /\ read < n
    BY <1>1
  <2>6. ASSUME NEW k \in {1, 2, 3, 4}, k = read + 1, built' = RepairEvents(k, n),
               k = 1 \/ ~Unreliable(stored.results[1])
        PROVE  BuiltRight'
    <3>1. built' = RepairEvents(read', Len(stored'.history))
          /\ (read' \in {0, 1} \/ ~Unreliable(stored'.results[1]))
      BY <1>1, <2>6
    <3>2. RepairBuilt'
      BY <3>1 DEF RepairBuilt
    <3>. QED BY <1>1, <1>8, <3>2 DEF BuiltRight
  <2>. HIDE DEF n
  <2>7. CASE read = 0
    <3>1. built' = <<Selected>>
      BY <1>2, <1>3, <1>4, <2>3, <2>7
    <3>. QED BY <2>6, <2>7, <3>1 DEF RepairEvents
  <2>8. CASE read = 1
    <3>1. built = <<Selected>> /\ Len(built) = 1 /\ read + 1 = 2
      BY <2>2, <2>8 DEF RepairEvents
    <3>2. entry.action = "full_test" /\ entry.result = stored.results[1].outcome
      <4>1. stored.history[2] = "full_test" /\ FullRuns(2) = 1
        BY <2>3, RunsOfRepair
      <4>2. 1 \in DOMAIN stored.results
        BY <2>1, <2>3 DEF RepairStory, LoopInv, IInv, TypeOK, Sessions
      <4>. QED BY <1>2, <3>1, <4>1, <4>2 DEF SafeResult
    <3>3. ~Unreliable(stored.results[1])
      BY <1>1, <3>2 DEF Mappable, Unreliable
    <3>4. \A j \in DOMAIN built : built[j].type # "test_completed"
      BY <3>1 DEF Selected, Event
    <3>5. stored.results[1].outcome = "passed" <=> n = 2
      BY <2>1 DEF RepairStory, n
    <3>6. more = IF n = 2 THEN <<Passed, Done>> ELSE <<Failed, First>>
      BY <1>3, <3>2, <3>4, <3>5
    <3>7. /\ built' \in Seq(Events) /\ Len(built') = 3 /\ built'[1] = Selected
          /\ built'[2] = more[1] /\ built'[3] = more[2]
      <4>1. Len(more) = 2
        BY <3>6
      <4>. QED BY <1>1, <1>3, <3>1, <4>1, Joined
    <3>8. built' = IF n = 2 THEN <<Selected, Passed, Done>> ELSE <<Selected, Failed, First>>
      BY <3>6, <3>7
    <3>. QED BY <2>6, <3>1, <3>3, <3>8 DEF RepairEvents
  <2>9. ASSUME read \in {2, 3}
        PROVE  /\ n = 4
               /\ stored.history = <<"apply_patch", "full_test", "apply_patch", "full_test">>
               /\ Len(stored.results) = 2 /\ stored.results[2].outcome = "passed"
               /\ ~Unreliable(stored.results[1])
    <3>1. n = 4
      BY <2>4, <2>5, <2>9
    <3>2. stored.history # <<"apply_patch", "full_test">>
      BY <3>1 DEF n
    <3>3. Len(stored.results) = 2 /\ stored.results[2].outcome = "passed"
      BY <2>1, <3>2 DEF RepairStory
    <3>. QED BY <2>2, <2>3, <2>9, <3>1, <3>2, <3>3
  <2>10. CASE read = 2
    <3>1. built = <<Selected, Failed, First>> /\ Len(built) = 3 /\ read + 1 = 3
      BY <2>2, <2>9, <2>10 DEF RepairEvents
    <3>2. more = <<Selected>> /\ Len(more) = 1
      BY <1>2, <1>3, <2>9, <2>10, <3>1
    <3>3. /\ built' \in Seq(Events) /\ Len(built') = 4 /\ built'[1] = Selected
          /\ built'[2] = Failed /\ built'[3] = First /\ built'[4] = Selected
      BY <1>1, <1>3, <3>1, <3>2, Joined
    <3>4. built' = <<Selected, Failed, First, Selected>>
      BY <3>3
    <3>. QED BY <2>6, <2>9, <2>10, <3>1, <3>4 DEF RepairEvents
  <2>11. CASE read = 3
    <3>1. built = <<Selected, Failed, First, Selected>> /\ Len(built) = 4 /\ read + 1 = 4
      BY <2>2, <2>9, <2>11 DEF RepairEvents
    <3>2. entry.action = "full_test" /\ entry.result = "passed"
      <4>1. stored.history[4] = "full_test" /\ FullRuns(4) = 2
        BY <2>9, <2>11, RunsOfRepair DEF n
      <4>2. 2 \in DOMAIN stored.results
        BY <2>9, <2>11 DEF LoopInv, IInv, TypeOK, Sessions
      <4>. QED BY <1>2, <2>9, <2>11, <3>1, <4>1, <4>2 DEF SafeResult
    <3>3. more = <<Passed, Done>> /\ Len(more) = 2
      BY <1>3, <3>2
    <3>4. /\ built' \in Seq(Events) /\ Len(built') = 6 /\ built'[1] = Selected
          /\ built'[2] = Failed /\ built'[3] = First /\ built'[4] = Selected
          /\ built'[5] = Passed /\ built'[6] = Done
      BY <1>1, <1>3, <3>1, <3>3, Joined
    <3>5. built' = <<Selected, Failed, First, Selected, Passed, Done>>
      BY <3>4
    <3>. QED BY <2>6, <2>9, <2>11, <3>1, <3>5 DEF RepairEvents
  <2>. QED BY <2>4, <2>5, <2>7, <2>8, <2>10, <2>11
<1>. QED BY <1>1, <1>6, <1>7, <1>8, PlanFacts

(* The trace is built as the history was, on every step.                    *)
LEMMA WorkerKeepsTrace ==
  LoopInv /\ StoryInv /\ TraceInv /\ [WorkerNext]_workerVars => TraceInv'
<1>. SUFFICES ASSUME LoopInv, StoryInv, TraceInv, [WorkerNext]_workerVars
              PROVE  TraceInv'
  OBVIOUS
<1>1. /\ scenario' = scenario /\ LoopInv' /\ stored.history \in Seq(HistoryTags)
      /\ stored'.history \in Seq(HistoryTags)
  <2>1. scenario' = scenario /\ LoopInv'
    BY WorkerSteps, WorkerKeepsLoop
  <2>2. stored \in Sessions /\ stored' \in Sessions
    BY <2>1 DEF LoopInv, IInv, TypeOK
  <2>. QED BY <2>1, <2>2 DEF Sessions
<1>2. ASSUME read' = 0, built' = << >> PROVE TraceInv'
  <2>1. BuiltRight'
    <3>1. read' # 1 /\ RepairEvents(read', Len(stored'.history)) = << >>
      BY <1>2 DEF RepairEvents
    <3>2. RepairBuilt'
      BY <1>2, <3>1 DEF RepairBuilt
    <3>. QED BY <3>1, <3>2 DEF BuiltRight
  <2>2. built' \in Seq(Events) /\ read' \in 0 .. Len(stored'.history)
    BY <1>1, <1>2
  <2>. QED BY <1>2, <2>1, <2>2 DEF TraceInv
<1>3. ASSUME UNCHANGED <<read, built, vars>> PROVE TraceInv'
  BY <1>1, <1>3 DEF TraceInv, BuiltRight, RepairBuilt, Prepared, Plan, vars
<1>4. CASE RunLoop
  <2>1. pc # "idle"
    BY <1>4
       DEF RunLoop, LoopStep, Load, BudgetExhausted, Scripted, RequestHuman,
           PatchPrepareFailed, PolicyDeny, RequireApproval, DispatchPatch, Dispatch, Asked,
           ApplyPatch, ApplyPatchUnknown
  <2>. QED BY <1>2, <1>4, <2>1 DEF RunLoop, TraceInv
<1>5. ASSUME NEW left \in LeftBehind, Raise(left) PROVE TraceInv'
  <2>1. UNCHANGED <<read, built>>
    BY <1>5 DEF Raise, Fail
  <2>2. CASE pc # "idle"
    BY <1>2, <2>1, <2>2 DEF TraceInv
  <2>3. CASE pc = "idle"
    BY <1>3, <1>5, <2>1, <2>3 DEF Raise
  <2>. QED BY <2>2, <2>3
<1>6. ASSUME NEW drifted \in Drifted, ReadEntry(drifted) PROVE TraceInv'
  <2>. DEFINE entry == Entry(read + 1, drifted)
  <2>1. /\ read \in Nat /\ read < Len(stored.history) /\ pc = "idle"
        /\ read' = read + 1 /\ stored' = stored /\ pc' = pc
        /\ built' = built \o EntryEvents(entry, built) /\ Mappable(entry)
    BY <1>1, <1>6 DEF ReadEntry, Tracing, TraceInv, vars
  <2>2. entry.action = stored.history[read + 1]
    BY DEF Entry
  <2>. HIDE DEF entry
  <2>3. /\ EntryEvents(entry, built) \in Seq(Events)
        /\ entry.action # "patch_prepare_failed"
    BY <2>1, EntryAdds
  <2>4. built' \in Seq(Events)
    BY <2>1, <2>3, ConcatProperties DEF TraceInv
  <2>5. read' \in 0 .. Len(stored'.history) /\ read' # 0
    BY <1>1, <2>1
  <2>6. \A i \in 1 .. read' : stored'.history[i] # "patch_prepare_failed"
    BY <2>1, <2>2, <2>3 DEF TraceInv
  <2>7. Prepared(stored'.history) /\ stored'.status = Plan'.expected => BuiltRight'
    BY <1>1, <1>6, <2>1, EntryReadRight DEF Plan
  <2>. QED BY <2>1, <2>4, <2>5, <2>6, <2>7 DEF TraceInv
<1>7. CASE PrepareRepository \/ WriteResult \/ TraceRefused \/ Exit \/ ReadWorkerResult
  BY <1>3, <1>7 DEF PrepareRepository, WriteResult, TraceRefused, Exit, ReadWorkerResult, Fail
<1>8. ASSUME NEW drifted \in Drifted, EntryRefused(drifted) PROVE TraceInv'
  BY <1>3, <1>8 DEF EntryRefused, Fail
<1>9. CASE UNCHANGED workerVars
  BY <1>3, <1>9 DEF workerVars
<1>. QED BY <1>4, <1>5, <1>6, <1>7, <1>8, <1>9 DEF WorkerNext, Work

-----------------------------------------------------------------------------
(* The designed traces, in the events of the entries.                       *)
LEMMA DesignedEvents ==
  /\ Designed["feedback_success"] =
       <<Selected, Failed, First, Selected, Passed, Done,
         Event("terminal_status", "succeeded")>>
  /\ Designed["governance_denied"] =
       <<Selected, Denied, Event("terminal_status", "stopped")>>
  /\ Designed["human_review_pause"] =
       <<Asking, Event("terminal_status", "paused_for_human")>>
BY DEF Designed, Selected, Failed, First, Passed, Done, Denied, Asking

(* The contract of a repair wants two runs, that of the others an action.   *)
LEMMA ContractCounts ==
  ASSUME NEW events
  PROVE  /\ Validate(SuccessContract, events) =>
              Cardinality(OfType(events, "test_completed")) = 2
         /\ Validate(DeniedContract, events) =>
              Cardinality(OfType(events, "action_selected")) = 1
         /\ Validate(PauseContract, events) =>
              Cardinality(OfType(events, "action_selected")) = 1
<1>1. /\ "test_completed" \in DOMAIN SuccessContract.counts
      /\ SuccessContract.counts["test_completed"] = 2
  BY DEF SuccessContract
<1>2. /\ "action_selected" \in DOMAIN DeniedContract.counts
      /\ DeniedContract.counts["action_selected"] = 1
  BY DEF DeniedContract
<1>3. /\ "action_selected" \in DOMAIN PauseContract.counts
      /\ PauseContract.counts["action_selected"] = 1
  BY DEF PauseContract
<1>. QED BY <1>1, <1>2, <1>3 DEF Validate

(* A trace that keeps its contract is the designed one: what a shorter      *)
(* history would give has too few events of a type.                         *)
LEMMA FaithfulIsDesigned ==
  ASSUME LoopInv, StoryInv, TraceInv, read = Len(stored.history), Faithful(Trace)
  PROVE  /\ Trace = Designed[scenario] /\ stored.status = Plan.expected
         /\ scenario = "feedback_success" =>
              stored.results[1].outcome \in {"failed", "collection_error"}
<1>. DEFINE n == Len(stored.history)
            last == Event("terminal_status", stored.status)
<1>1. /\ stored \in Sessions /\ stored.history \in Seq(HistoryTags) /\ n \in Nat
      /\ stored.results \in Seq(Results) /\ scenario \in DOMAIN Scenarios
      /\ built \in Seq(Events) /\ read = n /\ (read = 0 => built = << >>)
  <2>1. stored \in Sessions /\ scenario \in DOMAIN Scenarios
    BY DEF LoopInv, IInv, TypeOK
  <2>. QED BY <2>1 DEF Sessions, TraceInv
<1>2. stored.status = Plan.expected /\ Validate(Plan.contract, Trace)
  BY DEF Faithful
<1>3. Prepared(stored.history)
  <2>1. DOMAIN stored.history = 1 .. read
    BY <1>1
  <2>. QED BY <2>1 DEF TraceInv, Prepared
<1>4. BuiltRight
  BY <1>2, <1>3 DEF TraceInv
<1>5. last \in Events
  BY <1>1, EventsTyped DEF Sessions
<1>6. /\ Trace \in Seq(Events) /\ Len(Trace) = Len(built) + 1
      /\ \A i \in 1 .. Len(built) : Trace[i] = built[i]
      /\ Trace[Len(built) + 1] = last
  BY <1>1, <1>5, AppendProperties DEF Trace
<1>7. Cardinality({}) = 0 /\ Cardinality({2}) = 1
  BY FS_EmptySet, FS_Singleton
<1>8. CASE scenario = "governance_denied"
  <2>1. SingleStory(stored, "policy_deny") /\ Validate(DeniedContract, Trace)
        /\ stored.status = "stopped"
    BY <1>1, <1>2, <1>3, <1>8, PlanFacts DEF StoryInv, Story
  <2>2. CASE stored.history = << >>
    <3>1. built = << >> /\ Len(built) = 0 /\ Len(built) + 1 = 1
      BY <1>1, <2>2
    <3>2. OfType(Trace, "action_selected") = {}
      BY <1>6, <3>1 DEF OfType, Event
    <3>. QED BY <1>7, <2>1, <3>2, ContractCounts
  <2>3. CASE stored.history = <<"policy_deny">>
    <3>1. built = <<Selected, Denied>> /\ Len(built) = 2 /\ Len(built) + 1 = 3
      <4>1. read = 1
        BY <1>1, <2>3
      <4>2. built = <<Selected, Denied>>
        BY <1>4, <1>8, <4>1 DEF BuiltRight
      <4>. QED BY <4>2
    <3>2. Trace = <<Selected, Denied, last>>
      BY <1>6, <3>1
    <3>. QED BY <1>2, <1>8, <2>1, <3>2, DesignedEvents
  <2>. QED BY <2>1, <2>2, <2>3 DEF SingleStory
<1>9. CASE scenario = "human_review_pause"
  <2>1. SingleStory(stored, "request_human") /\ Validate(PauseContract, Trace)
        /\ stored.status = "paused_for_human"
    BY <1>1, <1>2, <1>3, <1>9, PlanFacts DEF StoryInv, Story
  <2>2. CASE stored.history = << >>
    <3>1. built = << >> /\ Len(built) = 0 /\ Len(built) + 1 = 1
      BY <1>1, <2>2
    <3>2. OfType(Trace, "action_selected") = {}
      BY <1>6, <3>1 DEF OfType, Event
    <3>. QED BY <1>7, <2>1, <3>2, ContractCounts
  <2>3. CASE stored.history = <<"request_human">>
    <3>1. built = <<Asking>> /\ Len(built) = 1 /\ Len(built) + 1 = 2
      <4>1. read = 1
        BY <1>1, <2>3
      <4>2. built = <<Asking>>
        BY <1>4, <1>9, <4>1 DEF BuiltRight
      <4>. QED BY <4>2
    <3>2. Trace = <<Asking, last>>
      BY <1>6, <3>1
    <3>. QED BY <1>2, <1>9, <2>1, <3>2, DesignedEvents
  <2>. QED BY <2>1, <2>2, <2>3 DEF SingleStory
<1>10. CASE scenario = "feedback_success"
  <2>1. RepairStory(stored) /\ Validate(SuccessContract, Trace)
        /\ stored.status = "succeeded"
    BY <1>1, <1>2, <1>3, <1>10, PlanFacts DEF StoryInv, Story
  <2>2. built = RepairEvents(n, n) /\ (n \in {0, 1} \/ ~Unreliable(stored.results[1]))
    BY <1>1, <1>4, <1>10 DEF BuiltRight, RepairBuilt
  <2>3. CASE stored.history = <<"apply_patch", "full_test">>
    <3>1. n = 2
      BY <2>3
    <3>2. built = <<Selected, Passed, Done>> /\ Len(built) = 3 /\ Len(built) + 1 = 4
      BY <2>2, <3>1 DEF RepairEvents
    <3>3. /\ DOMAIN Trace = 1 .. 4 /\ Trace[1].type # "test_completed"
          /\ Trace[2].type = "test_completed" /\ Trace[3].type # "test_completed"
          /\ Trace[4].type # "test_completed"
      <4>1. /\ Len(Trace) = 4 /\ Trace[1] = Selected /\ Trace[2] = Passed
            /\ Trace[3] = Done /\ Trace[4] = last
        BY <1>6, <3>2
      <4>2. /\ Selected.type = "action_selected" /\ Passed.type = "test_completed"
            /\ Done.type = "feedback_produced" /\ last.type = "terminal_status"
        BY DEF Selected, Passed, Done, Event
      <4>3. DOMAIN Trace = 1 .. 4
        <5>1. Trace \in Seq(Events)
          BY <1>6
        <5>2. Len(Trace) = 4
          BY <4>1
        <5>. QED BY <5>1, <5>2
      <4>. HIDE DEF last
      <4>. QED BY <4>1, <4>2, <4>3
    <3>4. OfType(Trace, "test_completed") = {2}
      BY <3>3 DEF OfType
    <3>. QED BY <1>7, <2>1, <3>4, ContractCounts
  <2>4. CASE stored.history = <<"apply_patch", "full_test", "apply_patch", "full_test">>
    <3>1. n = 4
      BY <2>4
    <3>2. built = <<Selected, Failed, First, Selected, Passed, Done>>
          /\ Len(built) = 6 /\ Len(built) + 1 = 7
      BY <2>2, <3>1 DEF RepairEvents
    <3>3. Trace = <<Selected, Failed, First, Selected, Passed, Done, last>>
      BY <1>6, <3>2
    <3>4. stored.results[1].outcome # "passed" /\ Len(stored.results) = 2
      BY <2>1, <3>1 DEF RepairStory
    <3>5. stored.results[1].outcome \in ParsedOutcomes
      <4>1. stored.results[1] \in Results
        BY <1>1, <3>4
      <4>. QED BY <4>1 DEF Results
    <3>6. stored.results[1].outcome \in {"failed", "collection_error"}
      BY <2>2, <3>1, <3>4, <3>5 DEF Unreliable, ParsedOutcomes
    <3>. QED BY <1>2, <1>10, <2>1, <3>3, <3>6, DesignedEvents
  <2>. QED BY <2>1, <2>3, <2>4 DEF RepairStory
<1>. QED BY <1>1, <1>8, <1>9, <1>10, PlanFacts

(* What the worker leaves in its file, and the page shows, is the designed  *)
(* trace of a task it is true of: on every step.                            *)
LEMMA WorkerKeepsFile == WorkerInv /\ [WorkerNext]_workerVars => FileInv'
<1>. SUFFICES ASSUME WorkerInv, [WorkerNext]_workerVars PROVE FileInv'
  OBVIOUS
<1>1. /\ scenario' = scenario /\ base' = base
      /\ DesignedResult' = DesignedResult /\ Designed' = Designed
      /\ scenario \in DOMAIN Scenarios
  BY WorkerSteps DEF WorkerInv, LoopInv, DesignedResult, Plan, Designed
<1>2. /\ at \in {"prepare", "loop", "written", "exited"}
      /\ exit \in {"none", "ok", "failed"}
      /\ exit # "none" <=> at = "exited"
      /\ file \in {DesignedResult, NoFile, Torn}
      /\ file \in WorkerResults => at \in {"written", "exited"} /\ Truth
      /\ at = "written" \/ exit = "ok" => file = DesignedResult
      /\ shown # NoFile => at = "exited" /\ Truth
      /\ shown \in {Designed[scenario], NoFile}
  BY DEF WorkerInv, FileInv
<1>3. UNCHANGED vars => (Truth' <=> Truth)
  BY <1>1 DEF Truth, vars
<1>4. NoFile \notin WorkerResults /\ Torn \notin WorkerResults
  BY NoFileAssumption
<1>5. CASE PrepareRepository \/ RunLoop
           \/ \E drifted \in Drifted : ReadEntry(drifted) \/ EntryRefused(drifted)
  <2>1. /\ UNCHANGED <<file, shown>> /\ at \in {"prepare", "loop"}
        /\ \/ at' = "loop" /\ exit' = exit
           \/ at' = "exited" /\ exit' = "failed"
    BY <1>5 DEF PrepareRepository, RunLoop, ReadEntry, EntryRefused, Tracing, Fail
  <2>. QED BY <1>1, <1>2, <2>1 DEF FileInv
<1>6. CASE TraceRefused
  <2>1. /\ UNCHANGED <<file, shown>> /\ at = "loop" /\ at' = "exited" /\ exit' = "failed"
    BY <1>6 DEF TraceRefused, Tracing, Fail
  <2>. QED BY <1>1, <1>2, <2>1 DEF FileInv
<1>7. CASE WriteResult
  <2>1. /\ at = "loop" /\ at' = "written" /\ UNCHANGED <<exit, shown, vars>>
        /\ read = Len(stored.history) /\ Faithful(Trace)
        /\ file' = [scenario |-> scenario, events |-> Trace, terminal |-> stored.status]
    BY <1>7 DEF WriteResult, Tracing
  <2>2. /\ Trace = Designed[scenario] /\ stored.status = Plan.expected
        /\ scenario = "feedback_success" =>
             stored.results[1].outcome \in {"failed", "collection_error"}
    BY <2>1, FaithfulIsDesigned DEF WorkerInv
  <2>3. file' = DesignedResult
    BY <2>1, <2>2 DEF DesignedResult
  <2>4. Truth
    <3>1. scenario = "feedback_success" => green = revision /\ ~unreviewed
      BY <1>1, <2>2, PlanFacts DEF WorkerInv, LoopInv, IInv, SuccessIsEarned
    <3>2. scenario # "feedback_success" => revision = base /\ stored.results = << >>
      BY DEF WorkerInv, ScriptInv
    <3>. QED BY <2>2, <3>1, <3>2 DEF Truth
  <2>. QED BY <1>1, <1>2, <1>3, <2>1, <2>3, <2>4 DEF FileInv
<1>8. CASE Exit
  <2>1. /\ at = "written" /\ at' = "exited" /\ exit' = "ok"
        /\ UNCHANGED <<file, shown, vars>>
    BY <1>8 DEF Exit
  <2>. QED BY <1>1, <1>2, <1>3, <2>1 DEF FileInv
<1>9. ASSUME NEW left \in LeftBehind, Raise(left) PROVE FileInv'
  <2>1. /\ at # "exited" /\ at' = "exited" /\ exit' = "failed" /\ file' = left
        /\ UNCHANGED shown /\ (at # "loop" => UNCHANGED vars)
    BY <1>9 DEF Raise, Fail
  <2>2. left \in {NoFile, Torn, file}
    BY <1>9 DEF LeftBehind
  <2>. QED BY <1>1, <1>2, <1>3, <1>4, <2>1, <2>2 DEF FileInv
<1>10. CASE ReadWorkerResult
  <2>1. /\ at = "exited" /\ file \in WorkerResults /\ shown' = file.events
        /\ UNCHANGED <<at, exit, file, vars>>
    BY <1>10 DEF ReadWorkerResult, Readable
  <2>2. file = DesignedResult
    BY <1>2, <1>4, <2>1
  <2>3. shown' = Designed[scenario]
    BY <2>1, <2>2 DEF DesignedResult
  <2>. QED BY <1>1, <1>2, <1>3, <2>1, <2>3 DEF FileInv
<1>11. CASE UNCHANGED workerVars
  <2>1. UNCHANGED <<at, exit, file, shown, vars>>
    BY <1>11 DEF workerVars
  <2>. QED BY <1>1, <1>2, <1>3, <2>1 DEF FileInv
<1>. QED
  BY <1>5, <1>6, <1>7, <1>8, <1>9, <1>10, <1>11 DEF WorkerNext, Work

(* The invariant of the worker holds when it starts.                        *)
LEMMA InitWorker == WorkerInit => WorkerInv
<1>. SUFFICES ASSUME WorkerInit PROVE WorkerInv
  OBVIOUS
<1>1. LoopInv
  BY InitLoop
<1>2. /\ scenario \in DOMAIN Scenarios /\ at = "prepare" /\ exit = "none" /\ read = 0
      /\ built = << >> /\ file = NoFile /\ shown = NoFile /\ base = revision
      /\ pc = "load" /\ stored.results = << >> /\ stored.history = << >>
      /\ stored.status = "deciding" /\ revision \in Revisions
  BY DEF WorkerInit, Init
<1>3. ScriptInv
  BY <1>2 DEF ScriptInv
<1>4. StoryInv
  BY <1>2 DEF StoryInv, Story, RepairStory, SingleStory
<1>5. TraceInv
  <2>1. BuiltRight
    <3>1. RepairEvents(read, Len(stored.history)) = << >>
      BY <1>2 DEF RepairEvents
    <3>2. RepairBuilt
      BY <1>2, <3>1 DEF RepairBuilt
    <3>. QED BY <1>2, <3>2 DEF BuiltRight
  <2>2. built \in Seq(Events) /\ read \in 0 .. Len(stored.history)
    BY <1>2
  <2>. QED BY <1>2, <2>1, <2>2 DEF TraceInv
<1>6. FileInv
  BY <1>2, NoFileAssumption DEF FileInv
<1>. QED BY <1>1, <1>3, <1>4, <1>5, <1>6 DEF WorkerInv

(* Every step of the worker keeps it.                                       *)
LEMMA WorkerKeeps == WorkerInv /\ [WorkerNext]_workerVars => WorkerInv'
BY WorkerKeepsLoop, WorkerKeepsScript, WorkerKeepsStory, WorkerKeepsTrace, WorkerKeepsFile
   DEF WorkerInv

(* So it holds of every behaviour of the worker.                            *)
LEMMA WorkerInvariance == WorkerSpec => []WorkerInv
BY InitWorker, WorkerKeeps, PTL DEF WorkerSpec

(* Two places are two.                                                      *)
LEMMA TwoPlaces ==
  ASSUME NEW i \in Nat, NEW j \in Nat, i # j
  PROVE  Cardinality({i, j}) = 2
<1>1. Cardinality({i} \cup {j}) = 2
  <2>1. IsFiniteSet({i}) /\ Cardinality({i}) = 1
    BY FS_Singleton
  <2>. QED BY <2>1, FS_AddElement
<1>2. {i, j} = {i} \cup {j}
  OBVIOUS
<1>. QED BY <1>1, <1>2

(* The designed traces keep the contracts of their scenarios.               *)
LEMMA DesignedIsValid ==
  ASSUME scenario \in DOMAIN Scenarios
  PROVE  /\ Designed[scenario] \in Seq(Events) /\ Len(Designed[scenario]) <= 7
         /\ Validate(Plan.contract, Designed[scenario])
         /\ Last(Designed[scenario]).code = Plan.expected
         /\ Plan.contract.terminal = Plan.expected
<1>. DEFINE e == Designed[scenario]
<1>1. /\ Selected.type = "action_selected" /\ Asking.type = "action_selected"
      /\ Failed.type = "test_completed" /\ Passed.type = "test_completed"
      /\ First.type = "feedback_produced" /\ Done.type = "feedback_produced"
      /\ Denied.type = "policy_decision"
      /\ \A code : /\ Event("terminal_status", code).type = "terminal_status"
                   /\ Event("terminal_status", code).code = code
  BY DEF Selected, Asking, Failed, Passed, First, Done, Denied, Event
<1>2. \A code \in Statuses : Event("terminal_status", code) \in Events
  BY EventsTyped
<1>3. Cardinality({1}) = 1 /\ Cardinality({2}) = 1 /\ Cardinality({3}) = 1
      /\ Cardinality({7}) = 1
  BY FS_Singleton
<1>4. CASE scenario = "feedback_success"
  <2>. DEFINE last == Event("terminal_status", "succeeded")
              c == SuccessContract
  <2>1. e = <<Selected, Failed, First, Selected, Passed, Done, last>>
    BY <1>4, DesignedEvents
  <2>2. Plan.contract = c /\ Plan.expected = "succeeded"
    BY <1>4, PlanFacts
  <2>3. last \in Events /\ last.type = "terminal_status" /\ last.code = "succeeded"
    BY <1>1, <1>2 DEF Statuses
  <2>. HIDE DEF last
  <2>4. e \in Seq(Events) /\ Len(e) = 7 /\ DOMAIN e = 1 .. 7
    BY <2>1, <2>3, NamedEventsTyped
  <2>5. /\ e[1].type = "action_selected" /\ e[2].type = "test_completed"
        /\ e[3].type = "feedback_produced" /\ e[4].type = "action_selected"
        /\ e[5].type = "test_completed" /\ e[6].type = "feedback_produced"
        /\ e[7].type = "terminal_status" /\ e[7].code = "succeeded"
    BY <1>1, <2>1, <2>3
  <2>. HIDE DEF e
  <2>6. /\ OfType(e, "action_selected") = {1, 4} /\ OfType(e, "test_completed") = {2, 5}
        /\ OfType(e, "feedback_produced") = {3, 6} /\ OfType(e, "terminal_status") = {7}
    BY <2>4, <2>5 DEF OfType
  <2>7. Last(e).code = "succeeded"
    BY <2>4, <2>5 DEF Last
  <2>8. /\ c.maxEvents = 7 /\ c.terminal = "succeeded"
        /\ c.counts = [action_selected |-> 2, test_completed |-> 2,
                       feedback_produced |-> 2, terminal_status |-> 1]
        /\ c.transitions =
             {<<"action_selected", "test_completed">>,
              <<"test_completed", "feedback_produced">>,
              <<"feedback_produced", "action_selected">>,
              <<"feedback_produced", "terminal_status">>}
    BY DEF SuccessContract
  <2>. HIDE DEF c
  <2>9. \A t \in DOMAIN c.counts : Cardinality(OfType(e, t)) = c.counts[t]
    <3>1. Cardinality({1, 4}) = 2 /\ Cardinality({2, 5}) = 2 /\ Cardinality({3, 6}) = 2
      BY TwoPlaces
    <3>. QED BY <1>3, <2>6, <2>8, <3>1
  <2>10. \A i \in 1 .. 6 : <<e[i].type, e[i + 1].type>> \in c.transitions
    BY <2>5, <2>8
  <2>11. Validate(c, e)
    BY <2>4, <2>6, <2>7, <2>8, <2>9, <2>10 DEF Validate
  <2>. QED BY <2>2, <2>4, <2>7, <2>8, <2>11 DEF e
<1>5. CASE scenario = "governance_denied"
  <2>. DEFINE last == Event("terminal_status", "stopped")
              c == DeniedContract
  <2>1. e = <<Selected, Denied, last>>
    BY <1>5, DesignedEvents
  <2>2. Plan.contract = c /\ Plan.expected = "stopped"
    BY <1>5, PlanFacts
  <2>3. last \in Events /\ last.type = "terminal_status" /\ last.code = "stopped"
    BY <1>1, <1>2 DEF Statuses
  <2>. HIDE DEF last
  <2>4. e \in Seq(Events) /\ Len(e) = 3 /\ DOMAIN e = 1 .. 3
    BY <2>1, <2>3, NamedEventsTyped
  <2>5. /\ e[1].type = "action_selected" /\ e[2].type = "policy_decision"
        /\ e[3].type = "terminal_status" /\ e[3].code = "stopped"
    BY <1>1, <2>1, <2>3
  <2>. HIDE DEF e
  <2>6. /\ OfType(e, "action_selected") = {1} /\ OfType(e, "policy_decision") = {2}
        /\ OfType(e, "terminal_status") = {3}
    BY <2>4, <2>5 DEF OfType
  <2>7. Last(e).code = "stopped"
    BY <2>4, <2>5 DEF Last
  <2>8. /\ c.maxEvents = 3 /\ c.terminal = "stopped"
        /\ c.counts = [action_selected |-> 1, policy_decision |-> 1, terminal_status |-> 1]
        /\ c.transitions = {<<"action_selected", "policy_decision">>,
                            <<"policy_decision", "terminal_status">>}
    BY DEF DeniedContract
  <2>. HIDE DEF c
  <2>9. \A t \in DOMAIN c.counts : Cardinality(OfType(e, t)) = c.counts[t]
    BY <1>3, <2>6, <2>8
  <2>10. \A i \in 1 .. 2 : <<e[i].type, e[i + 1].type>> \in c.transitions
    BY <2>5, <2>8
  <2>11. Validate(c, e)
    BY <2>4, <2>6, <2>7, <2>8, <2>9, <2>10 DEF Validate
  <2>. QED BY <2>2, <2>4, <2>7, <2>8, <2>11 DEF e
<1>6. CASE scenario = "human_review_pause"
  <2>. DEFINE last == Event("terminal_status", "paused_for_human")
              c == PauseContract
  <2>1. e = <<Asking, last>>
    BY <1>6, DesignedEvents
  <2>2. Plan.contract = c /\ Plan.expected = "paused_for_human"
    BY <1>6, PlanFacts
  <2>3. last \in Events /\ last.type = "terminal_status" /\ last.code = "paused_for_human"
    BY <1>1, <1>2 DEF Statuses
  <2>. HIDE DEF last
  <2>4. e \in Seq(Events) /\ Len(e) = 2 /\ DOMAIN e = 1 .. 2
    BY <2>1, <2>3, NamedEventsTyped
  <2>5. /\ e[1].type = "action_selected"
        /\ e[2].type = "terminal_status" /\ e[2].code = "paused_for_human"
    BY <1>1, <2>1, <2>3
  <2>. HIDE DEF e
  <2>6. OfType(e, "action_selected") = {1} /\ OfType(e, "terminal_status") = {2}
    BY <2>4, <2>5 DEF OfType
  <2>7. Last(e).code = "paused_for_human"
    BY <2>4, <2>5 DEF Last
  <2>8. /\ c.maxEvents = 2 /\ c.terminal = "paused_for_human"
        /\ c.counts = [action_selected |-> 1, terminal_status |-> 1]
        /\ c.transitions = {<<"action_selected", "terminal_status">>}
    BY DEF PauseContract
  <2>. HIDE DEF c
  <2>9. \A t \in DOMAIN c.counts : Cardinality(OfType(e, t)) = c.counts[t]
    BY <1>3, <2>6, <2>8
  <2>10. \A i \in 1 .. 1 : <<e[i].type, e[i + 1].type>> \in c.transitions
    BY <2>5, <2>8
  <2>11. Validate(c, e)
    BY <2>4, <2>6, <2>7, <2>8, <2>9, <2>10 DEF Validate
  <2>. QED BY <2>2, <2>4, <2>7, <2>8, <2>11 DEF e
<1>. QED BY <1>4, <1>5, <1>6, PlanFacts

(* The designed result is one the models of the trace take.                 *)
LEMMA DesignedTyped ==
  ASSUME scenario \in DOMAIN Scenarios
  PROVE  DesignedResult \in WorkerResults
BY DesignedIsValid, PlanFacts DEF DesignedResult, WorkerResults

(* Every state of the worker is well typed.                                 *)
THEOREM WorkerTypeCorrectness == WorkerSpec => []WorkerTypeOK
<1>1. WorkerInv => WorkerTypeOK
  <2>. SUFFICES ASSUME WorkerInv PROVE WorkerTypeOK
    OBVIOUS
  <2>1. scenario \in DOMAIN Scenarios /\ FileInv /\ TraceInv /\ ScriptInv
    BY DEF WorkerInv, LoopInv
  <2>2. Designed[scenario] \in Seq(Events)
    BY <2>1, DesignedIsValid
  <2>. QED BY <2>1, <2>2, DesignedTyped DEF FileInv, TraceInv, ScriptInv, WorkerTypeOK
<1>. QED BY <1>1, WorkerInvariance, PTL

(* The page shows the designed sequence of its scenario, code by code, or   *)
(* no trace: nothing a test run, a kill or a torn file can do makes it show *)
(* another (trace.py:109-145, run_service.py:557).                          *)
THEOREM PageShowsTheDesign == WorkerSpec => []ShownAsDesigned
<1>1. WorkerInv => ShownAsDesigned
  BY DEF WorkerInv, FileInv, ShownAsDesigned
<1>. QED BY <1>1, WorkerInvariance, PTL

(* What the page shows is true of the task behind it, for all repositories, *)
(* tests and worktrees a demo may have (worker.py:240-306).                 *)
THEOREM PageTellsTheTruth == WorkerSpec => []ShownIsTrue
<1>1. WorkerInv => ShownIsTrue
  BY DEF WorkerInv, FileInv, ShownIsTrue, Truth
<1>. QED BY <1>1, WorkerInvariance, PTL

(* The service reads every result a worker that ended well has written      *)
(* (worker.py:472-490, run_service.py:557).                                 *)
THEOREM VerdictsStand == WorkerSpec => []VerdictStands
<1>1. WorkerInv => VerdictStands
  <2>. SUFFICES ASSUME WorkerInv, exit = "ok" PROVE Readable
    BY DEF VerdictStands
  <2>1. scenario \in DOMAIN Scenarios /\ file = DesignedResult
    BY DEF WorkerInv, LoopInv, FileInv
  <2>2. /\ file.scenario = scenario /\ file.events = Designed[scenario]
        /\ file.terminal = Plan.expected
    BY <2>1 DEF DesignedResult
  <2>3. file \in WorkerResults
    BY <2>1, DesignedTyped
  <2>4. Len(file.events) <= 64
    BY <2>1, <2>2, DesignedIsValid
  <2>. QED BY <2>1, <2>2, <2>3, <2>4, DesignedIsValid DEF Readable
<1>. QED BY <1>1, WorkerInvariance, PTL
=================================================================================
