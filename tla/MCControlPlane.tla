--------------------------- MODULE MCControlPlane ---------------------------
(***************************************************************************)
(* Instances of ControlPlane: two users with a project each, and what      *)
(* their clients send.  A column holds 0 (FALSE, 0 or "") or 1, and cannot *)
(* hold 2.                                                                 *)
(***************************************************************************)
EXTENDS ControlPlane, Naturals, TLC

Cell0 == [c \in Columns |-> 0]
ask(op, user) == [op |-> op, user |-> user, project |-> None, flag |-> None, rule |-> None,
                  key |-> None, name |-> None, fits |-> TRUE, patch |-> <<>>]

(* "ANN" is an e-mail that lower() changes, and a project's name. *)
MCNormal == [n \in Names |-> IF n = "ANN" THEN "ann" ELSE n]

proj(u, n) == [owner_id |-> u, slug |-> n, is_active |-> TRUE, cols |-> Cell0]
flg(p, n) == [project_id |-> p, name |-> n, is_archived |-> FALSE, cols |-> Cell0]

(* Two users with a project, a flag and a key each; a rule of the first    *)
(* flag; room for two more of what competes for names, one of the rest.    *)
MCSeed ==
    [users |-> [u \in Users |-> CASE u = "u1" -> "eve" [] u = "u2" -> "bob" [] OTHER -> None],
     projects |-> [p \in Projects |-> CASE p = "p1" -> proj("u1", "eve")
                                        [] p = "p2" -> proj("u2", "bob") [] OTHER -> None],
     flags |-> [f \in Flags |-> CASE f = "f1" -> flg("p1", "ann")
                                  [] f = "f2" -> flg("p2", "ann") [] OTHER -> None],
     rules |-> [i \in Rules |-> IF i = "r1" THEN [flag_id |-> "f1", gone |-> FALSE] ELSE None],
     keys |-> [k \in ApiKeys |-> CASE k = "k1" -> [project_id |-> "p1", is_active |-> TRUE]
                                   [] k = "k2" -> [project_id |-> "p2", is_active |-> TRUE]
                                   [] OTHER -> None]]

(* Users and projects that compete for a name, and flags that do; bodies   *)
(* that do not fit.                                                        *)
Accounts ==
    {[ask("register", None) EXCEPT !.name = n] : n \in {"ann", "ANN"}}
    \cup {[ask("create_project", u) EXCEPT !.name = n] : u \in {"u1", "u2"}, n \in {"ann", "ANN"}}
    \cup {[ask("delete_project", u) EXCEPT !.project = "p3"] : u \in {"u1", "u2"}}
    \cup {[ask("register", None) EXCEPT !.name = "ann", !.fits = FALSE],
          [ask("create_project", "u1") EXCEPT !.name = "ann", !.fits = FALSE]}
FlagNames ==
    {[ask("create_flag", "u1") EXCEPT !.project = "p1", !.name = n] : n \in {"ann", "bob"}}
    \cup {[ask("create_flag", "u1") EXCEPT !.project = "p1", !.name = "bob", !.fits = FALSE],
          [ask("delete_flag", "u1") EXCEPT !.flag = "f1"],
          [ask("delete_project", "u1") EXCEPT !.project = "p1"]}

(* The owner of p1, and another user whose paths name the rows of p1. *)
Paths ==
    {[ask(op, "u1") EXCEPT !.project = "p1"] : op \in {"delete_project", "generate_key"}}
    \cup {[ask(op, "u1") EXCEPT !.flag = "f1"] : op \in {"delete_flag", "create_rule"}}
    \cup {[ask("delete_rule", "u1") EXCEPT !.flag = "f1", !.rule = "r1"],
          [ask("delete_rule", "u1") EXCEPT !.flag = "f1", !.rule = "r2"],
          [ask("create_rule", "u1") EXCEPT !.flag = "f1", !.fits = FALSE],
          [ask("generate_key", "u1") EXCEPT !.project = "p1", !.fits = FALSE],
          [ask("revoke_key", "u1") EXCEPT !.project = "p1", !.key = "k1"],
          [ask("delete_flag", "u2") EXCEPT !.flag = "f1"],
          [ask("delete_rule", "u2") EXCEPT !.flag = "f2", !.rule = "r1"],
          [ask("revoke_key", "u2") EXCEPT !.project = "p2", !.key = "k1"]}

(* PATCHes of one flag and one project, with nulls, falsy values, oversize *)
(* values and some columns left out.                                       *)
Bodies == {[c \in {"is_enabled"} |-> v] : v \in {0, 1, None}}
          \cup {[c \in {"description"} |-> 2],
                [c \in Columns |-> IF c = "description" THEN None ELSE 0]}
Edits ==
    {[ask("update_flag", "u1") EXCEPT !.flag = "f1", !.patch = b] : b \in Bodies}
    \cup {[ask("update_project", "u1") EXCEPT !.project = "p1", !.patch = b] :
            b \in {[c \in {"description"} |-> 1], [c \in Columns |-> None]}}
    \cup {[ask("delete_flag", "u1") EXCEPT !.flag = "f1"],
          [ask("delete_project", "u1") EXCEPT !.project = "p1"]}

Menus == [accounts |-> Accounts, flag_names |-> FlagNames, paths |-> Paths, edits |-> Edits]
MCInputs == Accounts \cup FlagNames \cup Paths \cup Edits

(* Clients ask from one menu in each behaviour, to keep the instance small. *)
VARIABLE menu
MCInit == Init /\ menu \in DOMAIN Menus
MCNext ==
    /\ \E r \in Reqs : \/ Read(r) \/ Write(r)
                       \/ \E in \in Menus[menu] : \E id \in Unused(in.op) : Receive(r, in, id)
    /\ menu' = menu
MCSpec == MCInit /\ [][MCNext]_<<vars, menu>>

Interchangeable == Permutations(Reqs)
=============================================================================
