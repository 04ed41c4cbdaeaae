------------------------------- MODULE MCWorkspace -------------------------------
(***************************************************************************)
(* Workspace for TLC: layers that conflict with each other or not, that     *)
(* differ in their values or only in where these come from.                 *)
(***************************************************************************)
EXTENDS Workspace

CONSTANTS c1, c2, c3, p1, p2

Nothing == [fields |-> [f \in {} |-> 1], timeout |-> {}, protected |-> {},
            sensitive |-> {}, diagnostics |-> {}, memory |-> {}, oversteps |-> FALSE]

MCBuiltin ==
  [fields |-> [max_actions |-> 4, approval_file_threshold |-> 2], timeout |-> 3,
   protected |-> {p1}, sensitive |-> {}, diagnostics |-> {"ruff", "mypy"},
   memory |-> {"rule", "issue"}]

(* More actions and less time; and the built-in timeout by name.            *)
MCUserLayers ==
  { Nothing,
    [Nothing EXCEPT !.fields = [max_actions |-> 6], !.timeout = {2},
                    !.diagnostics = {{"ruff", "black"}}],
    [Nothing EXCEPT !.timeout = {3}, !.memory = {{"rule"}}] }

(* c2 broadens what the first user layer allows, and narrows the second.    *)
MCRepoLayer ==
  [c \in Commits |->
     IF c = c1 THEN Nothing
     ELSE IF c = c2
       THEN [Nothing EXCEPT !.fields = [max_actions |-> 5], !.timeout = {7},
                            !.protected = {p2}]
     ELSE [Nothing EXCEPT !.fields = [max_actions |-> 2, approval_file_threshold |-> 9],
                          !.diagnostics = {{"mypy", "ruff"}}, !.timeout = {1},
                          !.sensitive = {p2}]]
=================================================================================
