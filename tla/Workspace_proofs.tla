----------------------------- MODULE Workspace_proofs ----------------------------
(***************************************************************************)
(* Proofs about Workspace and the merge of ConfigLayers, for every set of   *)
(* commits and every layers.                                                *)
(***************************************************************************)
EXTENDS Workspace, TLAPS

-----------------------------------------------------------------------------
(* The merge.                                                               *)

LEMMA SmallerIsSmaller ==
  ASSUME NEW a \in Nat, NEW b \in Nat
  PROVE  Smaller(a, b) \in Nat /\ Smaller(a, b) <= a /\ Smaller(a, b) <= b
BY DEF Smaller

LEMMA OptionIsValue ==
  ASSUME NEW S, NEW opt, IsOption(opt, S), NEW default, NEW x \in opt
  PROVE  Option(opt, default) = x
BY DEF IsOption, Option

LEMMA OptionIsTyped ==
  ASSUME NEW opt, IsOption(opt, Nat \ {0}), NEW default \in Nat
  PROVE  Option(opt, default) \in Nat
<1>1. CASE opt = {} BY <1>1 DEF Option
<1>2. ASSUME NEW x \in opt PROVE Option(opt, default) \in Nat
  BY <1>2, OptionIsValue DEF IsOption
<1>. QED BY <1>1, <1>2

(* What the layers make of the timeout is below all of them.                *)
LEMMA TimeoutNarrows ==
  ASSUME NEW u, NEW r, IsLayer(u), IsLayer(r), ~Conflict(u, r)
  PROVE  /\ Frozen(u, r).timeout <= Builtin.timeout
         /\ Frozen(u, r).timeout <= MaxTimeout
         /\ \A t \in u.timeout \cup r.timeout : Frozen(u, r).timeout <= t
<1> DEFINE b == Builtin.timeout
           ut == UserTimeout(u)
           rt == RepoTimeout(u, r)
           inner == Smaller(ut, rt)
           least == Smaller(b, inner)
<1>1. b \in Nat /\ MaxTimeout \in Nat BY BuiltinIsWhole
<1>2. IsOption(u.timeout, Nat \ {0}) /\ IsOption(r.timeout, Nat \ {0}) BY DEF IsLayer
<1>3. ut \in Nat BY <1>1, <1>2, OptionIsTyped DEF UserTimeout
<1>4. rt \in Nat BY <1>2, <1>3, OptionIsTyped DEF RepoTimeout
<1>5. ~(rt > MaxTimeout) BY DEF Conflict
<1>6. \A t \in u.timeout : ut = t BY <1>2, OptionIsValue DEF UserTimeout
<1>7. \A t \in r.timeout : rt = t BY <1>2, OptionIsValue DEF RepoTimeout
<1>8. Frozen(u, r).timeout = least BY DEF Frozen
<1> HIDE DEF b, ut, rt
<1>9. inner \in Nat /\ inner <= ut /\ inner <= rt BY <1>3, <1>4, SmallerIsSmaller
<1> HIDE DEF inner
<1>10. least \in Nat /\ least <= b /\ least <= inner BY <1>1, <1>9, SmallerIsSmaller
<1> HIDE DEF least
<1>11. least <= ut /\ least <= rt /\ least <= MaxTimeout
  BY <1>1, <1>3, <1>4, <1>5, <1>9, <1>10
<1>. QED BY <1>6, <1>7, <1>8, <1>10, <1>11 DEF b

(* A limit is never above the layer below the repository's, nor above the   *)
(* repository's own.                                                        *)
LEMMA LimitsNarrow ==
  ASSUME NEW u, NEW r, IsLayer(u), IsLayer(r), ~Conflict(u, r), NEW f \in LimitFields
  PROVE  LET below == Over(Builtin.fields, u.fields) IN
           /\ Frozen(u, r).fields[f] <= below[f]
           /\ f \in DOMAIN r.fields => Frozen(u, r).fields[f] <= r.fields[f]
<1> DEFINE below == Over(Builtin.fields, u.fields)
<1>1. f \in Fields /\ DOMAIN Builtin.fields = Fields BY BuiltinIsWhole DEF Fields
<1>2. below[f] \in Nat BY <1>1, BuiltinIsWhole DEF Over, IsLayer
<1>3. Frozen(u, r).fields[f] =
        IF f \notin DOMAIN r.fields THEN below[f] ELSE Smaller(below[f], r.fields[f])
  BY <1>1 DEF Frozen, Merged
<1> HIDE DEF below
<1>4. CASE f \notin DOMAIN r.fields BY <1>2, <1>3, <1>4 DEF below
<1>5. CASE f \in DOMAIN r.fields
  <2>1. r.fields[f] \in Nat BY <1>5 DEF IsLayer
  <2>. QED BY <1>2, <1>3, <1>5, <2>1, SmallerIsSmaller DEF below
<1>. QED BY <1>4, <1>5

LEMMA FrozenNarrows ==
  ASSUME NEW u, NEW r, IsLayer(u), IsLayer(r), ~Conflict(u, r)
  PROVE  Narrows(Frozen(u, r), u, r)
<1>1. /\ Frozen(u, r).protected = Builtin.protected \cup u.protected \cup r.protected
      /\ Frozen(u, r).sensitive = Builtin.sensitive \cup u.sensitive \cup r.sensitive
      /\ Frozen(u, r).diagnostics = InAll(Builtin.diagnostics, u.diagnostics, r.diagnostics)
      /\ Frozen(u, r).memory = InAll(Builtin.memory, u.memory, r.memory)
  BY DEF Frozen
<1>2. Frozen(u, r).diagnostics # {} BY <1>1 DEF Conflict
<1>3. /\ Frozen(u, r).diagnostics \subseteq Builtin.diagnostics
      /\ \A allowed \in u.diagnostics \cup r.diagnostics :
           Frozen(u, r).diagnostics \subseteq allowed
      /\ \A allowed \in u.memory \cup r.memory : Frozen(u, r).memory \subseteq allowed
  BY <1>1 DEF InAll
<1>4. /\ Builtin.protected \cup u.protected \cup r.protected \subseteq Frozen(u, r).protected
      /\ Builtin.sensitive \cup u.sensitive \cup r.sensitive \subseteq Frozen(u, r).sensitive
  BY <1>1
<1>5. \A f \in LimitFields :
        /\ Frozen(u, r).fields[f] <= Over(Builtin.fields, u.fields)[f]
        /\ f \in DOMAIN r.fields => Frozen(u, r).fields[f] <= r.fields[f]
  BY LimitsNarrow
<1>. QED BY <1>2, <1>3, <1>4, <1>5, TimeoutNarrows DEF Narrows

-----------------------------------------------------------------------------
(* The commands.                                                            *)

RunPlaces == {"run_status", "run_head", "run_config", "prepare_status",
              "prepare_head", "add", "save", "bind"}

(* Places of resume after it compared the configurations.                   *)
ValidatedPlaces == {"validate_status", "validate_head", "validate_facts", "resume_save"}

ResumePlaces == {"resume_read", "resume_config", "validate"} \cup ValidatedPlaces

(* What run has established at each of its places.                          *)
RunInv ==
  /\ pc \in RunPlaces => command = "run" /\ bound = NoWorkspace
  /\ pc \in {"run_config", "prepare_status", "prepare_head", "add", "save", "bind"} =>
       facts \in Commits
  /\ pc \in {"prepare_status", "prepare_head", "add", "save", "bind"} => config \in Configs
  /\ pc \in {"save", "bind"} =>
       workspace = [commit |-> facts, config |-> config] /\ tree = facts
  /\ pc = "bind" => status = "deciding"

(* What resume has.                                                         *)
ResumeInv ==
  /\ pc \in ResumePlaces => command = "resume"
  /\ pc \in ResumePlaces \ {"resume_read"} => workspace \in Workspaces /\ workspace = bound
  /\ pc \in ValidatedPlaces \cup {"validate"} =>
       \E u \in UserLayers : /\ ~Conflict(u, RepoLayer[bound.commit])
                             /\ config = Frozen(u, RepoLayer[bound.commit])
  /\ pc \in ValidatedPlaces => tree = bound.commit /\ config = bound.config

(* What the commands leave to each other.  A worktree that is gone does not *)
(* come back: only a task without one gets one.                             *)
DiskInv ==
  /\ status = "none" => bound = NoWorkspace
  /\ tree # NoCommit /\ bound # NoWorkspace => tree = bound.commit

WorkspaceInv ==
  TypeOK /\ RunInv /\ ResumeInv /\ DiskInv /\ LoopIsAsBound /\ ResumedIsOfItsCommit

LEMMA WorkspaceInit == Init => WorkspaceInv
BY DEF Init, WorkspaceInv, TypeOK, RunInv, ResumeInv, DiskInv, LoopIsAsBound,
       ResumedIsOfItsCommit, RunPlaces, ResumePlaces, ValidatedPlaces

LEMMA RunStep == WorkspaceInv /\ Run => WorkspaceInv'
<1> SUFFICES ASSUME WorkspaceInv, Run PROVE WorkspaceInv' OBVIOUS
<1>1. TypeOK /\ RunInv /\ DiskInv BY DEF WorkspaceInv
<1>2. \A c \in Commits : \A u \in UserLayers : Frozen(u, RepoLayer[c]) \in Configs
  BY DEF Configs
<1>3. /\ pc' \notin ResumePlaces
      /\ ResumedIsOfItsCommit'
      /\ UNCHANGED <<head, dirty, user>>
  BY <1>1 DEF Run, StartRun, RunInspects, RunConfigures, PrepareInspects, AddWorktree,
       SaveSession, BindWorkspace, InspectStatus, InspectHead, LoadConfig, Step,
       ResumePlaces, ValidatedPlaces, RunInv, RunPlaces, ResumedIsOfItsCommit, repository,
       disk, locals
<1>4. ResumeInv' BY <1>3 DEF ResumeInv, ResumePlaces, ValidatedPlaces
<1>5. CASE StartRun
  <2>1. TypeOK' /\ RunInv' /\ DiskInv' /\ LoopIsAsBound'
    BY <1>1, <1>5 DEF StartRun, Step, TypeOK, RunInv, DiskInv, LoopIsAsBound, RunPlaces,
         repository, disk
  <2>. QED BY <1>3, <1>4, <2>1 DEF WorkspaceInv
<1>6. CASE RunInspects \/ PrepareInspects
  <2>1. TypeOK' /\ RunInv' /\ DiskInv' /\ LoopIsAsBound'
    BY <1>1, <1>6 DEF RunInspects, PrepareInspects, InspectStatus, InspectHead, Step,
         TypeOK, RunInv, DiskInv, LoopIsAsBound, RunPlaces, repository, disk, locals
  <2>. QED BY <1>3, <1>4, <2>1 DEF WorkspaceInv
<1>7. CASE RunConfigures
  <2>1. config' \in Configs
    BY <1>1, <1>2, <1>7 DEF RunConfigures, LoadConfig, Step, TypeOK, RunInv
  <2>2. TypeOK' /\ RunInv' /\ DiskInv' /\ LoopIsAsBound'
    BY <1>1, <1>7, <2>1 DEF RunConfigures, LoadConfig, Step,
         TypeOK, RunInv, DiskInv, LoopIsAsBound, RunPlaces, repository, disk
  <2>. QED BY <1>3, <1>4, <2>2 DEF WorkspaceInv
<1>8. CASE AddWorktree
  <2>1. /\ facts \in Commits /\ config \in Configs
        /\ workspace' = [commit |-> facts, config |-> config]
        /\ workspace' \in Workspaces
    BY <1>1, <1>8 DEF AddWorktree, Step, RunInv, Workspaces
  <2>2. TypeOK' /\ RunInv' /\ DiskInv' /\ LoopIsAsBound'
    BY <1>1, <1>8, <2>1 DEF AddWorktree, Step, TypeOK, RunInv, DiskInv, LoopIsAsBound,
         RunPlaces, repository
  <2>. QED BY <1>3, <1>4, <2>2 DEF WorkspaceInv
<1>9. CASE SaveSession
  <2>1. TypeOK' /\ RunInv' /\ DiskInv' /\ LoopIsAsBound'
    BY <1>1, <1>9 DEF SaveSession, Step, TypeOK, RunInv, DiskInv, LoopIsAsBound, RunPlaces,
         repository, locals
  <2>. QED BY <1>3, <1>4, <2>1 DEF WorkspaceInv
<1>10. CASE BindWorkspace
  <2>1. /\ bound' = [commit |-> facts, config |-> config] /\ bound' \in Workspaces
        /\ tree = facts /\ status = "deciding"
    BY <1>1, <1>10 DEF BindWorkspace, Step, RunInv, Workspaces
  <2>2. bound' # NoWorkspace BY <2>1, NoneIsNone
  <2>3. TypeOK' /\ RunInv' /\ DiskInv' /\ LoopIsAsBound'
    BY <1>1, <1>10, <2>1, <2>2 DEF BindWorkspace, Step, TypeOK, RunInv, DiskInv,
         LoopIsAsBound, RunPlaces, repository, locals
  <2>. QED BY <1>3, <1>4, <2>3 DEF WorkspaceInv
<1>. QED BY <1>5, <1>6, <1>7, <1>8, <1>9, <1>10 DEF Run

LEMMA ResumeStep == WorkspaceInv /\ ResumeTask => WorkspaceInv'
<1> SUFFICES ASSUME WorkspaceInv, ResumeTask PROVE WorkspaceInv' OBVIOUS
<1>1. TypeOK /\ ResumeInv /\ DiskInv BY DEF WorkspaceInv
<1>2. \A c \in Commits : \A u \in UserLayers : Frozen(u, RepoLayer[c]) \in Configs
  BY DEF Configs
<1>3. \A w \in Workspaces : w.commit \in Commits /\ w # NoWorkspace
  BY NoneIsNone DEF Workspaces
<1>4. /\ pc' \notin RunPlaces
      /\ UNCHANGED <<head, dirty, user, tree, bound>>
  BY <1>1 DEF ResumeTask, StartResume, ReadWorkspace, ResumeConfigures, ValidateConfig,
       ValidateInspects, ValidateFacts, SaveResumed, InspectStatus, InspectHead,
       LoadConfig, Step, RunPlaces, repository, disk
<1>5. RunInv' BY <1>4 DEF RunInv, RunPlaces
<1>6. CASE StartResume \/ ReadWorkspace
  <2>1. TypeOK' /\ ResumeInv' /\ DiskInv' /\ LoopIsAsBound' /\ ResumedIsOfItsCommit'
    BY <1>1, <1>6 DEF StartResume, ReadWorkspace, Step, TypeOK, ResumeInv, DiskInv,
         LoopIsAsBound, ResumedIsOfItsCommit, ResumePlaces, ValidatedPlaces,
         repository, disk
  <2>. QED BY <1>5, <2>1 DEF WorkspaceInv
<1>7. CASE ResumeConfigures
  <2>1. /\ pc = "resume_config" /\ pc' = "validate"
        /\ workspace \in Workspaces /\ workspace = bound /\ command = "resume"
        /\ ~Conflict(user, RepoLayer[bound.commit])
        /\ config' = Frozen(user, RepoLayer[bound.commit])
        /\ UNCHANGED <<head, dirty, user, tree, status, bound, command, facts, workspace>>
    BY <1>1, <1>7 DEF ResumeConfigures, LoadConfig, Step, ResumeInv, ResumePlaces,
         repository, disk
  <2>2. config' \in Configs BY <1>1, <1>2, <1>3, <2>1 DEF TypeOK
  <2>3. TypeOK' BY <1>1, <2>1, <2>2 DEF TypeOK
  <2>4. ResumeInv'
    <3>1. \E u \in UserLayers : /\ ~Conflict(u, RepoLayer[bound'.commit])
                                /\ config' = Frozen(u, RepoLayer[bound'.commit])
      BY <1>1, <2>1 DEF TypeOK
    <3>. QED BY <2>1, <3>1 DEF ResumeInv, ResumePlaces, ValidatedPlaces
  <2>5. DiskInv' /\ LoopIsAsBound' /\ ResumedIsOfItsCommit'
    BY <1>1, <2>1 DEF DiskInv, LoopIsAsBound, ResumedIsOfItsCommit
  <2>. QED BY <1>5, <2>3, <2>4, <2>5 DEF WorkspaceInv
<1>8. CASE ValidateConfig
  <2>1. /\ pc = "validate" /\ pc' = "validate_status"
        /\ workspace \in Workspaces /\ workspace = bound /\ command = "resume"
        /\ \E u \in UserLayers : /\ ~Conflict(u, RepoLayer[bound.commit])
                                 /\ config = Frozen(u, RepoLayer[bound.commit])
        /\ tree # NoCommit /\ workspace.config = config
        /\ UNCHANGED <<head, dirty, user, tree, status, bound,
                       command, facts, config, workspace>>
    BY <1>1, <1>8 DEF ValidateConfig, Step, ResumeInv, ResumePlaces, repository, disk, locals
  <2>2. tree = bound.commit BY <1>1, <1>3, <2>1 DEF DiskInv
  <2>3. TypeOK' BY <1>1, <2>1 DEF TypeOK
  <2>4. ResumeInv' BY <2>1, <2>2 DEF ResumeInv, ResumePlaces, ValidatedPlaces
  <2>5. DiskInv' /\ LoopIsAsBound' /\ ResumedIsOfItsCommit'
    BY <1>1, <2>1 DEF DiskInv, LoopIsAsBound, ResumedIsOfItsCommit
  <2>. QED BY <1>5, <2>3, <2>4, <2>5 DEF WorkspaceInv
<1>9. CASE ValidateInspects \/ ValidateFacts
  <2>1. /\ pc \in ValidatedPlaces /\ pc' \in ValidatedPlaces /\ facts' \in Commits \cup {NoCommit}
        /\ UNCHANGED <<head, dirty, user, tree, status, bound, command, config, workspace>>
    BY <1>1, <1>9 DEF ValidateInspects, ValidateFacts, InspectStatus, InspectHead, Step,
         ValidatedPlaces, TypeOK, repository, disk, locals
  <2>2. TypeOK' BY <1>1, <2>1 DEF TypeOK, ValidatedPlaces
  <2>3. ResumeInv' BY <1>1, <2>1 DEF ResumeInv, ResumePlaces, ValidatedPlaces
  <2>4. DiskInv' /\ LoopIsAsBound' /\ ResumedIsOfItsCommit'
    BY <1>1, <2>1 DEF DiskInv, LoopIsAsBound, ResumedIsOfItsCommit, ValidatedPlaces
  <2>. QED BY <1>5, <2>2, <2>3, <2>4 DEF WorkspaceInv
<1>10. CASE SaveResumed
  <2>1. /\ pc = "resume_save" /\ pc' = "loop" /\ status' = "deciding"
        /\ status = "paused_for_human"
        /\ UNCHANGED <<head, dirty, user, tree, bound, command, facts, config, workspace>>
    BY <1>10 DEF SaveResumed, Step, repository, locals
  <2>2. /\ workspace \in Workspaces /\ workspace = bound
        /\ \E u \in UserLayers : /\ ~Conflict(u, RepoLayer[bound.commit])
                                 /\ config = Frozen(u, RepoLayer[bound.commit])
        /\ tree = bound.commit /\ config = bound.config
    BY <1>1, <2>1 DEF ResumeInv, ResumePlaces, ValidatedPlaces
  <2>3. bound # NoWorkspace BY <1>3, <2>2
  <2>4. TypeOK' BY <1>1, <2>1 DEF TypeOK
  <2>5. ResumeInv' /\ DiskInv'
    BY <1>1, <2>1 DEF ResumeInv, DiskInv, ResumePlaces, ValidatedPlaces
  <2>6. LoopIsAsBound' BY <2>1, <2>2, <2>3 DEF LoopIsAsBound
  <2>7. ResumedIsOfItsCommit' BY <2>1, <2>2 DEF ResumedIsOfItsCommit
  <2>. QED BY <1>5, <2>4, <2>5, <2>6, <2>7 DEF WorkspaceInv
<1>. QED BY <1>6, <1>7, <1>8, <1>9, <1>10 DEF ResumeTask

(* A command that ends or dies forgets, and other people only touch what    *)
(* the commands compare.                                                    *)
LEMMA OtherStep ==
  ASSUME WorkspaceInv,
         Fail \/ (\E s \in {"paused_for_human", "ended"} : LoopEnds(s)) \/ Others
                \/ UNCHANGED vars
  PROVE  WorkspaceInv'
<1>1. /\ TypeOK /\ RunInv /\ ResumeInv /\ DiskInv /\ LoopIsAsBound
      /\ ResumedIsOfItsCommit
  BY DEF WorkspaceInv
<1>2. CASE Fail
  BY <1>1, <1>2 DEF Fail, Forget, WorkspaceInv, TypeOK, RunInv, ResumeInv, DiskInv,
       LoopIsAsBound, ResumedIsOfItsCommit, RunPlaces, ResumePlaces, ValidatedPlaces,
       repository, disk
<1>3. ASSUME NEW s \in {"paused_for_human", "ended"}, LoopEnds(s)
      PROVE  WorkspaceInv'
  BY <1>1, <1>3 DEF LoopEnds, Forget, WorkspaceInv, TypeOK, RunInv, ResumeInv, DiskInv,
       LoopIsAsBound, ResumedIsOfItsCommit, RunPlaces, ResumePlaces, ValidatedPlaces,
       repository
<1>4. CASE RemoveWorktree
  BY <1>1, <1>4 DEF RemoveWorktree, WorkspaceInv, TypeOK, RunInv, ResumeInv, DiskInv,
       LoopIsAsBound, ResumedIsOfItsCommit, RunPlaces, ResumePlaces, ValidatedPlaces,
       repository, locals
<1>5. CASE Others \/ UNCHANGED vars
  <2>1. CASE RemoveWorktree BY <1>4, <2>1
  <2>2. CASE ~RemoveWorktree
    <3>1. /\ head' \in Commits /\ dirty' \in BOOLEAN /\ user' \in UserLayers
          /\ UNCHANGED <<disk, locals, pc>>
      BY <1>1, <1>5, <2>2 DEF Others, MoveHead, Touch, EditUserConfig, vars, TypeOK, repository
    <3>2. TypeOK' BY <1>1, <3>1 DEF TypeOK, disk, locals
    <3>3. RunInv' /\ ResumeInv' /\ DiskInv'
      BY <1>1, <3>1 DEF RunInv, ResumeInv, DiskInv, disk, locals
    <3>4. LoopIsAsBound' /\ ResumedIsOfItsCommit'
      BY <1>1, <3>1 DEF LoopIsAsBound, ResumedIsOfItsCommit, disk, locals
    <3>. QED BY <3>2, <3>3, <3>4 DEF WorkspaceInv
  <2>. QED BY <2>1, <2>2
<1>. QED BY <1>2, <1>3, <1>5

LEMMA WorkspaceStep == WorkspaceInv /\ [Next]_vars => WorkspaceInv'
BY RunStep, ResumeStep, OtherStep DEF Next

LEMMA WorkspaceAlways == Spec => []WorkspaceInv
BY WorkspaceInit, WorkspaceStep, PTL DEF Spec

(* Whatever a command works with is a configuration merged of real layers   *)
(* and a commit of the repository, or nothing at all                        *)
(* (composition.py:123-185).                                                *)
THEOREM TypeCorrect == Spec => []TypeOK
<1>1. WorkspaceInv => TypeOK BY DEF WorkspaceInv
<1>. QED BY <1>1, WorkspaceAlways, PTL

(* Whatever was edited, committed or lost between its commands, the loop    *)
(* works in the worktree, at the commit and under the configuration that    *)
(* were bound to the task (composition.py:138-147, 158-185).                *)
THEOREM LoopWorksAsBound == Spec => []LoopIsAsBound
<1>1. WorkspaceInv => LoopIsAsBound BY DEF WorkspaceInv
<1>. QED BY <1>1, WorkspaceAlways, PTL

(* A resumed task works under a configuration made of the repository's      *)
(* layer of its own base commit (composition.py:166-177).                   *)
THEOREM ResumedWithItsCommit == Spec => []ResumedIsOfItsCommit
<1>1. WorkspaceInv => ResumedIsOfItsCommit BY DEF WorkspaceInv
<1>. QED BY <1>1, WorkspaceAlways, PTL

(* No command touches a task whose command died in the middle               *)
(* (service.py:29, composition.py:163).                                     *)
THEOREM CrashedStaysAlone == Spec => CrashedIsLeftAlone
<1>1. [Next]_vars => [status = "deciding" /\ pc = "idle" =>
                        /\ status' = "deciding" /\ pc' = "idle" /\ bound' = bound]_vars
  BY DEF Next, Run, StartRun, RunInspects, RunConfigures, PrepareInspects, AddWorktree,
       SaveSession, BindWorkspace, InspectStatus, InspectHead, LoadConfig, Step,
       ResumeTask, StartResume, ReadWorkspace, ResumeConfigures, ValidateConfig,
       ValidateInspects, ValidateFacts, SaveResumed, Fail, LoopEnds, Others, MoveHead,
       Touch, EditUserConfig, RemoveWorktree, disk, locals, vars
<1>. QED BY <1>1, PTL DEF Spec, CrashedIsLeftAlone

(* Every configuration a task is begun with is one the repository's layer   *)
(* could only narrow (resolver.py:45-87, source_loader.py:20-31).           *)
THEOREM RepositoryNarrows == Spec => RepositoryOnlyNarrows
<1>1. WorkspaceInv /\ [Next]_vars =>
        [pc = "run_config" /\ pc' = "prepare_status" =>
           Narrows(config', user, RepoLayer[facts])]_vars
  <2> SUFFICES ASSUME WorkspaceInv, Next, pc = "run_config", pc' = "prepare_status"
               PROVE  Narrows(config', user, RepoLayer[facts])
    BY DEF vars
  <2>1. /\ ~Conflict(user, RepoLayer[facts])
        /\ config' = Frozen(user, RepoLayer[facts])
    BY DEF Next, Run, StartRun, RunInspects, RunConfigures, PrepareInspects, AddWorktree,
         SaveSession, BindWorkspace, InspectStatus, InspectHead, LoadConfig, Step,
         ResumeTask, StartResume, ReadWorkspace, ResumeConfigures, ValidateConfig,
         ValidateInspects, ValidateFacts, SaveResumed, Fail, Forget, LoopEnds, Others,
         MoveHead, Touch, EditUserConfig, RemoveWorktree
  <2>2. user \in UserLayers /\ facts \in Commits BY DEF WorkspaceInv, TypeOK, RunInv
  <2>3. IsLayer(user) /\ IsLayer(RepoLayer[facts]) BY <2>2, LayersAreLayers
  <2>. QED BY <2>1, <2>3, FrozenNarrows
<1>. QED BY <1>1, WorkspaceAlways, PTL DEF Spec, RepositoryOnlyNarrows
=================================================================================
