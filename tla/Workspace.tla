-------------------------------- MODULE Workspace --------------------------------
(***************************************************************************)
(* The commands run and resume of _RealRuntime (composition.py) on a        *)
(* repository that does not stand still: the inspection of the repository   *)
(* (application/preflight.py), the configuration read at a commit           *)
(* (adapters/config), the worktree made and validated                       *)
(* (adapters/git/worktree.py), and what the session store binds.            *)
(*                                                                          *)
(* One task; its commands come one after the other (SessionStore has the    *)
(* concurrent ones), and each may fail or be killed at every step.  Every   *)
(* git command is a step of its own: between two of them somebody commits,  *)
(* switches the branch, leaves changes behind or edits the user's           *)
(* configuration.                                                           *)
(***************************************************************************)
EXTENDS ConfigLayers

CONSTANTS
  Commits,
  RepoLayer,    (* the repository's layer in the tree of each commit        *)
  UserLayers,   (* what the user's configuration file may hold              *)
  NoCommit, NoConfig, NoWorkspace

ASSUME LayersAreLayers ==
  /\ \A c \in Commits : IsLayer(RepoLayer[c])
  /\ \A u \in UserLayers : IsLayer(u)

VARIABLES
  head, dirty,   (* the repository: HEAD, and whether status shows changes  *)
  user,          (* the user's configuration file                           *)
  tree,          (* the commit of the task's worktree, or NoCommit          *)
  status, bound, (* the stored session's status, the stored workspace       *)
  command, pc,   (* the command at work, and where it is                    *)
  facts,         (* base_commit of the last inspection                      *)
  config,        (* frozen_config of the command                            *)
  workspace      (* the VerifiedWorkspace it works with                     *)

repository == <<head, dirty, user>>
disk == <<tree, status, bound>>
locals == <<command, facts, config, workspace>>
vars == <<repository, disk, locals, pc>>

Configs == {Frozen(u, RepoLayer[c]) : u \in UserLayers, c \in Commits}

(* VerifiedWorkspace: base_commit and frozen_config.                        *)
Workspaces == [commit : Commits, config : Configs]

ASSUME NoneIsNone == NoCommit \notin Commits /\ NoWorkspace \notin Workspaces

-----------------------------------------------------------------------------
(* Other people.                                                            *)
MoveHead(c) ==
  /\ head' = c
  /\ UNCHANGED <<dirty, user, disk, locals, pc>>

Touch ==
  /\ dirty' = ~dirty
  /\ UNCHANGED <<head, user, disk, locals, pc>>

EditUserConfig(u) ==
  /\ user' = u
  /\ UNCHANGED <<head, dirty, disk, locals, pc>>

(* Nobody removes the worktree under a command at work.                     *)
RemoveWorktree ==
  /\ pc = "idle"
  /\ tree' = NoCommit
  /\ UNCHANGED <<repository, status, bound, locals, pc>>

-----------------------------------------------------------------------------
(* A step of the command from one place to the next.                        *)
Step(from, to) == pc = from /\ pc' = to

(* An error of git, a conflict, a refusal, a missing provider, a crash: the *)
(* command is gone, and what it stored stays.                               *)
Forget ==
  /\ pc' = "idle"
  /\ command' = "none"
  /\ facts' = NoCommit
  /\ config' = NoConfig
  /\ workspace' = NoWorkspace

Fail ==
  /\ pc # "idle"
  /\ Forget
  /\ UNCHANGED <<repository, disk>>

(* RepositoryPreflight.inspect: git status, then git rev-parse HEAD.        *)
InspectStatus(from, to) ==
  /\ Step(from, to)
  /\ ~dirty
  /\ UNCHANGED <<repository, disk, locals>>

InspectHead(from, to) ==
  /\ Step(from, to)
  /\ facts' = head
  /\ UNCHANGED <<repository, disk, command, config, workspace>>

(* LayeredConfigSource.load: the user's file as it is now, the repository's *)
(* as it was at that commit.                                                *)
LoadConfig(from, to, commit) ==
  /\ Step(from, to)
  /\ ~Conflict(user, RepoLayer[commit])
  /\ config' = Frozen(user, RepoLayer[commit])
  /\ UNCHANGED <<repository, disk, command, facts, workspace>>

-----------------------------------------------------------------------------
(* run.  Its task is new, and so is the directory of its worktree.          *)
StartRun ==
  /\ Step("idle", "run_status")
  /\ status = "none"
  /\ tree = NoCommit
  /\ command' = "run"
  /\ UNCHANGED <<repository, disk, facts, config, workspace>>

RunInspects ==
  \/ InspectStatus("run_status", "run_head")
  \/ InspectHead("run_head", "run_config")

RunConfigures == LoadConfig("run_config", "prepare_status", facts)

(* GitWorktreeAdapter.prepare inspects the repository once more ...         *)
PrepareInspects ==
  \/ InspectStatus("prepare_status", "prepare_head")
  \/ InspectHead("prepare_head", "add")

(* ... and adds a worktree at the commit it found.                          *)
AddWorktree ==
  /\ Step("add", "save")
  /\ tree' = facts
  /\ workspace' = [commit |-> facts, config |-> config]
  /\ UNCHANGED <<repository, status, bound, command, facts, config>>

SaveSession ==
  /\ Step("save", "bind")
  /\ status' = "deciding"
  /\ UNCHANGED <<repository, tree, bound, locals>>

BindWorkspace ==
  /\ Step("bind", "loop")
  /\ bound' = workspace
  /\ UNCHANGED <<repository, tree, status, locals>>

-----------------------------------------------------------------------------
(* Mutant of StartResume: a task left deciding is taken up again.           *)
StartResumeAny ==
  /\ Step("idle", "resume_read")
  /\ status \in {"paused_for_human", "deciding"}
  /\ command' = "resume"
  /\ UNCHANGED <<repository, disk, facts, config, workspace>>

(* resume.                                                                  *)
StartResume ==
  /\ Step("idle", "resume_read")
  /\ status = "paused_for_human"
  /\ command' = "resume"
  /\ UNCHANGED <<repository, disk, facts, config, workspace>>

(* A paused session has a workspace: it was bound before the loop could     *)
(* pause it.                                                                *)
ReadWorkspace ==
  /\ Step("resume_read", "resume_config")
  /\ bound # NoWorkspace
  /\ workspace' = bound
  /\ UNCHANGED <<repository, disk, command, facts, config>>

(* Mutant of ResumeConfigures: the repository's layer is read at HEAD.      *)
ResumeConfiguresAtHead == LoadConfig("resume_config", "validate", head)

ResumeConfigures == LoadConfig("resume_config", "validate", workspace.commit)

(* Mutant of ValidateConfig: the hash of the configuration is not compared. *)
ValidateConfigNot ==
  /\ Step("validate", "validate_status")
  /\ tree # NoCommit
  /\ UNCHANGED <<repository, disk, locals>>

(* validate_resume: the worktree is there, the configuration is the one     *)
(* bound, the repository is clean and still at the base commit.             *)
ValidateConfig ==
  /\ Step("validate", "validate_status")
  /\ tree # NoCommit
  /\ workspace.config = config
  /\ UNCHANGED <<repository, disk, locals>>

ValidateInspects ==
  \/ InspectStatus("validate_status", "validate_head")
  \/ InspectHead("validate_head", "validate_facts")

ValidateFacts ==
  /\ Step("validate_facts", "resume_save")
  /\ facts = workspace.commit
  /\ UNCHANGED <<repository, disk, locals>>

(* resume_task loads the session again and saves it as deciding.            *)
SaveResumed ==
  /\ Step("resume_save", "loop")
  /\ status = "paused_for_human"
  /\ status' = "deciding"
  /\ UNCHANGED <<repository, tree, bound, locals>>

-----------------------------------------------------------------------------
(* The decision loop, as HarnessCore has it, ends paused or for good.       *)
LoopEnds(s) ==
  /\ pc = "loop"
  /\ status' = s
  /\ Forget
  /\ UNCHANGED <<repository, tree, bound>>

-----------------------------------------------------------------------------
Init ==
  /\ head \in Commits
  /\ dirty \in BOOLEAN
  /\ user \in UserLayers
  /\ tree = NoCommit
  /\ status = "none"
  /\ bound = NoWorkspace
  /\ command = "none"
  /\ pc = "idle"
  /\ facts = NoCommit
  /\ config = NoConfig
  /\ workspace = NoWorkspace

Run ==
  \/ StartRun \/ RunInspects \/ RunConfigures \/ PrepareInspects
  \/ AddWorktree \/ SaveSession \/ BindWorkspace

ResumeTask ==
  \/ StartResume \/ ReadWorkspace \/ ResumeConfigures
  \/ ValidateConfig \/ ValidateInspects \/ ValidateFacts \/ SaveResumed

Others ==
  \/ \E c \in Commits : MoveHead(c)
  \/ Touch
  \/ \E u \in UserLayers : EditUserConfig(u)
  \/ RemoveWorktree

Next ==
  \/ Run \/ ResumeTask \/ Fail
  \/ \E s \in {"paused_for_human", "ended"} : LoopEnds(s)
  \/ Others

Spec == Init /\ [][Next]_vars

-----------------------------------------------------------------------------
(* Type invariant.                                                          *)
TypeOK ==
  /\ head \in Commits
  /\ dirty \in BOOLEAN
  /\ user \in UserLayers
  /\ tree \in Commits \cup {NoCommit}
  /\ status \in {"none", "deciding", "paused_for_human", "ended"}
  /\ bound \in Workspaces \cup {NoWorkspace}
  /\ command \in {"none", "run", "resume"}
  /\ pc \in {"idle", "run_status", "run_head", "run_config", "prepare_status",
            "prepare_head", "add", "save", "bind", "resume_read",
            "resume_config", "validate", "validate_status", "validate_head",
            "validate_facts", "resume_save", "loop"}
  /\ facts \in Commits \cup {NoCommit}
  /\ config \in Configs \cup {NoConfig}
  /\ workspace \in Workspaces \cup {NoWorkspace}

(* Whatever was edited, committed or lost between its commands, the loop    *)
(* only works in the worktree the task was bound to, at the commit that was *)
(* bound, under the budgets and limits that were bound: the frozen          *)
(* configuration of a task never changes (composition.py:138-147, 158-185,  *)
(* worktree.py:122-148).                                                    *)
LoopIsAsBound ==
  pc = "loop" =>
    /\ bound # NoWorkspace
    /\ tree = bound.commit
    /\ workspace = bound
    /\ config = bound.config

(* A resumed task works under a configuration made of the repository's      *)
(* layer of its own base commit.  A new task need not: HEAD may move        *)
(* between the inspection the configuration is read at and the one the      *)
(* worktree is made at, and a task begun like that is never resumed under   *)
(* what it was begun with, unless both layers come to the same              *)
(* (composition.py:125-128, 138, 166-177).                                  *)
ResumedIsOfItsCommit ==
  pc = "loop" /\ command = "resume" =>
    \E u \in UserLayers : /\ ~Conflict(u, RepoLayer[tree])
                          /\ config = Frozen(u, RepoLayer[tree])

(* No command touches a task whose command died in the middle: its worktree *)
(* may hold half a patch.  (It stays deciding for good: nothing resumes it, *)
(* service.py:29, composition.py:163.)                                      *)
CrashedIsLeftAlone ==
  [][status = "deciding" /\ pc = "idle" =>
       /\ status' = "deciding"
       /\ pc' = "idle"
       /\ bound' = bound]_vars

(* What a repository's layer may do to the configuration below it: lower a  *)
(* limit or the timeout, add paths, take commands and memory types away     *)
(* (resolver.py:45-87).                                                     *)
Narrows(frozen, u, r) ==
  LET below == Over(Builtin.fields, u.fields) IN
    /\ \A f \in LimitFields :
         /\ frozen.fields[f] <= below[f]
         /\ f \in DOMAIN r.fields => frozen.fields[f] <= r.fields[f]
    /\ frozen.timeout <= Builtin.timeout
    /\ frozen.timeout <= MaxTimeout
    /\ \A t \in u.timeout \cup r.timeout : frozen.timeout <= t
    /\ Builtin.protected \cup u.protected \cup r.protected \subseteq frozen.protected
    /\ Builtin.sensitive \cup u.sensitive \cup r.sensitive \subseteq frozen.sensitive
    /\ frozen.diagnostics # {}
    /\ frozen.diagnostics \subseteq Builtin.diagnostics
    /\ \A allowed \in u.diagnostics \cup r.diagnostics :
         frozen.diagnostics \subseteq allowed
    /\ \A allowed \in u.memory \cup r.memory : frozen.memory \subseteq allowed

(* Every configuration a task is begun with is one the repository could     *)
(* only narrow, whichever commit it was read at and whoever edited the      *)
(* user's file meanwhile (resolver.py:45-87, source_loader.py:20-31).       *)
RepositoryOnlyNarrows ==
  [][pc = "run_config" /\ pc' = "prepare_status" =>
       Narrows(config', user, RepoLayer[facts])]_vars
=================================================================================
