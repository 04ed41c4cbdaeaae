------------------------------- MODULE ConfigLayers ------------------------------
(***************************************************************************)
(* resolve_config (config/resolver.py): the built-in, the user's and the    *)
(* repository's layer merged into one frozen configuration, or refused.     *)
(*                                                                          *)
(* A layer is a record                                                      *)
(*   [fields, timeout, protected, sensitive, diagnostics, memory, oversteps]*)
(* "fields" is a partial function of the named values; the fields of the    *)
(* section "limits" are LimitFields, those of the sections tests, patch and *)
(* memory, which no rule compares, are FreeFields.  What a layer may leave  *)
(* out is a set with at most one element.  "oversteps" says that a          *)
(* repository's layer names a provider, a model or another mode.  The mode  *)
(* is "real": the demonstrations read no layers.                            *)
(***************************************************************************)
EXTENDS Naturals

CONSTANTS
  LimitFields, FreeFields,
  Paths, Diagnostics, MemoryTypes,   (* what a layer may name               *)
  Builtin,      (* the built-in layer: it has every field                   *)
  MaxTimeout    (* MAX_TIMEOUT_SECONDS                                      *)

Fields == LimitFields \cup FreeFields

IsOption(opt, S) == opt \subseteq S /\ \A x, y \in opt : x = y

(* What load_strict_toml lets through.                                      *)
IsLayer(layer) ==
  /\ DOMAIN layer.fields \subseteq Fields
  /\ \A f \in DOMAIN layer.fields : layer.fields[f] \in Nat \ {0}
  /\ IsOption(layer.timeout, Nat \ {0})
  /\ layer.protected \subseteq Paths
  /\ layer.sensitive \subseteq Paths
  /\ IsOption(layer.diagnostics, SUBSET Diagnostics)
  /\ IsOption(layer.memory, SUBSET MemoryTypes)
  /\ layer.oversteps \in BOOLEAN

ASSUME BuiltinIsWhole ==
  /\ Builtin.fields \in [Fields -> Nat \ {0}]
  /\ Builtin.timeout \in Nat \ {0}
  /\ Builtin.protected \in SUBSET Paths
  /\ Builtin.sensitive \in SUBSET Paths
  /\ Builtin.diagnostics \in SUBSET Diagnostics
  /\ Builtin.memory \in SUBSET MemoryTypes
  /\ MaxTimeout \in Nat

-----------------------------------------------------------------------------
(* The upper layer's value where it has one.                                *)
Over(lower, upper) ==
  [f \in DOMAIN lower \cup DOMAIN upper |->
     IF f \in DOMAIN upper THEN upper[f] ELSE lower[f]]

Smaller(a, b) == IF a <= b THEN a ELSE b

(* The value of an option, with its default.                                *)
Option(opt, default) == IF opt = {} THEN default ELSE CHOOSE x \in opt : TRUE

(* Mutant of InAll: the repository's list replaces the user's.              *)
InLast(list, user, repo) ==
  {x \in list : \A allowed \in IF repo # {} THEN repo ELSE user : x \in allowed}

(* What a white list and the optional lists of both layers all allow.       *)
InAll(list, user, repo) ==
  {x \in list : \A allowed \in user \cup repo : x \in allowed}

UserTimeout(user) == Option(user.timeout, Builtin.timeout)

RepoTimeout(user, repo) == Option(repo.timeout, UserTimeout(user))

(* ConfigConflict.  A repository may not broaden what the user's layer, or  *)
(* in its absence the built-in one, says in "limits".                       *)
Conflict(user, repo) ==
  \/ repo.oversteps
  \/ \E f \in LimitFields \cap DOMAIN repo.fields :
       repo.fields[f] > Over(Builtin.fields, user.fields)[f]
  \/ RepoTimeout(user, repo) > MaxTimeout
  \/ UserTimeout(user) > MaxTimeout
  \/ InAll(Builtin.diagnostics, user.diagnostics, repo.diagnostics) = {}

(* Where the value of a field came from.  The timeout is the repository's   *)
(* as soon as it is not the built-in one, because repo_timeout falls back   *)
(* on the user's.                                                           *)
Provenance(user, repo) ==
  [fields |-> [f \in DOMAIN user.fields \cup DOMAIN repo.fields |->
                 IF f \in DOMAIN repo.fields THEN "repo" ELSE "user"],
   timeout |->
     IF RepoTimeout(user, repo) # Builtin.timeout THEN "repo"
     ELSE IF user.timeout # {} THEN "user" ELSE "unnamed",
   protected |-> IF repo.protected # {} THEN "repo"
                 ELSE IF user.protected # {} THEN "user" ELSE "builtin",
   sensitive |-> IF repo.sensitive # {} THEN "repo"
                 ELSE IF user.sensitive # {} THEN "user" ELSE "builtin",
   diagnostics |-> IF repo.diagnostics # {} THEN "repo"
                   ELSE IF user.diagnostics # {} THEN "user" ELSE "unnamed",
   memory |-> IF repo.memory # {} THEN "repo"
              ELSE IF user.memory # {} THEN "user" ELSE "unnamed"]

(* The sections merged field by field.                                      *)
Merged(user, repo) ==
  LET below == Over(Builtin.fields, user.fields) IN
    [f \in Fields |->
       IF f \notin DOMAIN repo.fields THEN below[f]
       ELSE IF f \in LimitFields THEN Smaller(below[f], repo.fields[f])
       ELSE repo.fields[f]]

(* The frozen configuration; its hash covers all of it, so two have the     *)
(* same hash when they are equal.                                           *)
Frozen(user, repo) ==
  [fields |-> Merged(user, repo),
   timeout |-> Smaller(Builtin.timeout,
                 Smaller(UserTimeout(user), RepoTimeout(user, repo))),
   protected |-> Builtin.protected \cup user.protected \cup repo.protected,
   sensitive |-> Builtin.sensitive \cup user.sensitive \cup repo.sensitive,
   diagnostics |-> InAll(Builtin.diagnostics, user.diagnostics, repo.diagnostics),
   memory |-> InAll(Builtin.memory, user.memory, repo.memory),
   provenance |-> Provenance(user, repo)]
=================================================================================
