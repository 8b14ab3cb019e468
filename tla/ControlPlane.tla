---------------------------- MODULE ControlPlane ----------------------------
(***************************************************************************)
(* The dashboard's requests that change something: registration, projects, *)
(* flags, rules and API keys.  A request reads what it needs, one SELECT   *)
(* at a time, then writes; two requests interleave between any two awaits. *)
(* A write is one statement and its commit: Postgres makes a competing one *)
(* wait until it is over.  A row that does not exist yet is None.          *)
(***************************************************************************)
CONSTANTS
    Users, Projects, Flags, Rules, ApiKeys,   \* primary keys, existing or not
    Names,       \* e-mails, slugs and flag names
    Normal,      \* lower() of an e-mail, the slug of a project's name
    Columns,     \* the columns that a PATCH may set
    Nullable,    \* those that may be NULL
    Values,      \* what they hold
    Oversize,    \* what a body may hold and no column does: too long, too large...
    Fresh,       \* what they hold in a new row
    Reqs,        \* requests that can be open at once
    Inputs,      \* what clients ask for
    Seed,        \* the tables at the start
    None

FlagOps == {"update_flag", "delete_flag", "create_rule", "delete_rule"}
ProjectOps == {"update_project", "delete_project", "create_flag",
               "generate_key", "revoke_key"}
Ops == {"register", "create_project"} \cup FlagOps \cup ProjectOps
Patches == {"update_flag", "update_project"}

Cols == {cols \in [Columns -> Values \cup {None}] : \A c \in Columns \ Nullable : cols[c] # None}
Project == [owner_id : Users, slug : Names, is_active : BOOLEAN, cols : Cols]
Flag == [project_id : Projects, name : Names, is_archived : BOOLEAN, cols : Cols]
Rule == [flag_id : Flags, gone : BOOLEAN]   \* gone: deleted, its id is never used again
ApiKey == [project_id : Projects, is_active : BOOLEAN]

(* The path's ids, the body, and the user of the bearer token.  The        *)
(* schemas set no limits, the columns do: fits says whether the body of a  *)
(* creation keeps them.                                                    *)
Input ==
    {in \in [op : Ops, user : Users \cup {None}, project : Projects \cup {None},
             flag : Flags \cup {None}, rule : Rules \cup {None}, key : ApiKeys \cup {None},
             name : Names \cup {None}, fits : BOOLEAN,
             patch : UNION {[cs -> Values \cup Oversize \cup {None}] : cs \in SUBSET Columns}] :
       /\ in.op # "register" => in.user # None
       /\ in.op \in FlagOps => in.flag # None
       /\ in.op \in ProjectOps => in.project # None
       /\ in.op = "delete_rule" => in.rule # None
       /\ in.op = "revoke_key" => in.key # None
       /\ in.op \in {"register", "create_project", "create_flag"} => in.name # None}

ASSUME ControlParameters ==
    /\ Inputs \subseteq Input
    /\ Normal \in [Names -> Names]
    /\ Fresh \in Cols
    /\ Flags \cap Projects = {} /\ Oversize \cap (Values \cup {None}) = {}
    /\ None \notin Users \cup Projects \cup Flags \cup Rules \cup ApiKeys \cup Names
                   \cup Project \cup Flag \cup Rule \cup ApiKey

(* A lookup by e-mail, slug or name and project finds one row at most. *)
NoTwins(us, ps, fs) ==
    /\ \A u, v \in Users : us[u] = us[v] /\ us[u] # None => u = v
    /\ \A p, q \in Projects :
          ps[p] # None /\ ps[q] # None /\ ps[p].slug = ps[q].slug => p = q
    /\ \A f, g \in Flags :
          /\ fs[f] # None /\ fs[g] # None
          /\ fs[f].name = fs[g].name /\ fs[f].project_id = fs[g].project_id
          => f = g

ASSUME SeedRows ==
    /\ Seed.users \in [Users -> Names \cup {None}]
    /\ Seed.projects \in [Projects -> Project \cup {None}]
    /\ Seed.flags \in [Flags -> Flag \cup {None}]
    /\ Seed.rules \in [Rules -> Rule \cup {None}]
    /\ Seed.keys \in [ApiKeys -> ApiKey \cup {None}]
    /\ NoTwins(Seed.users, Seed.projects, Seed.flags)

VARIABLES
    users,       \* e-mail of each user
    projects, flags, rules, keys,
    req,         \* what each request asked for and how far it is
    dead,        \* history: the projects and flags deleted before it came
    held         \* history: what the columns it patches held since it read them

tables == <<users, projects, flags, rules, keys>>
vars == <<tables, req, dead, held>>

Answers == {"ok", "not_found", "conflict", "error"}   \* 2xx, 404, 409, 500
Steps == {"email", "slug", "flag", "project", "name", "rule", "key", "write", "refresh"}

Request == [in : Inputs, at : Steps \cup Answers, got : Cols \cup {None},
            row : Users \cup Projects \cup Flags \cup Rules \cup ApiKeys \cup {None}]

Init ==
    /\ users = Seed.users
    /\ projects = Seed.projects
    /\ flags = Seed.flags
    /\ rules = Seed.rules
    /\ keys = Seed.keys
    /\ req = [r \in Reqs |-> None]
    /\ dead = [r \in Reqs |-> {}]
    /\ held = [r \in Reqs |-> {}]
-----------------------------------------------------------------------------
Open(r) == req[r] # None /\ req[r].at \notin Answers
At(r, step) == req[r] # None /\ req[r].at = step
Writing(r, op) == At(r, "write") /\ req[r].in.op = op
Go(r, to) == req' = [req EXCEPT ![r].at = to]
(* The reply of a COMMIT may be lost, and the request answered with a 500. *)
Done(r) == Go(r, "ok") \/ Go(r, "error")

First(op) ==
    CASE op = "register" -> "email"
      [] op = "create_project" -> "slug"
      [] op \in FlagOps -> "flag"
      [] OTHER -> "project"

AfterProject(op) ==
    CASE op = "create_flag" -> "name"
      [] op = "delete_rule" -> "rule"
      [] op = "revoke_key" -> "key"
      [] OTHER -> "write"

(* The ids that uuid4 may draw for a new row. *)
Unused(op) ==
    CASE op = "register" -> {u \in Users : users[u] = None}
      [] op = "create_project" -> {p \in Projects : projects[p] = None}
      [] op = "create_flag" -> {f \in Flags : flags[f] = None}
      [] op = "create_rule" -> {i \in Rules : rules[i] = None}
      [] op = "generate_key" -> {k \in ApiKeys : keys[k] = None}
      [] OTHER -> {None}

Deleted == {p \in Projects : projects[p] # None /\ ~projects[p].is_active}
           \cup {f \in Flags : flags[f] # None /\ flags[f].is_archived}

(* get_current_user finds the token's user: nothing deletes or deactivates *)
(* one.  Where a session is opened and the first SELECT is sent.           *)
Receive(r, in, id) ==
    /\ ~Open(r)
    /\ in.op # "register" => users[in.user] # None
    /\ id \in Unused(in.op)
    /\ id # None => \A x \in Reqs : Open(x) => req[x].row # id
    /\ req' = [req EXCEPT ![r] = [in |-> in, at |-> First(in.op), got |-> None, row |-> id]]
    /\ dead' = [dead EXCEPT ![r] = Deleted]
    /\ held' = [held EXCEPT ![r] = {}]
    /\ UNCHANGED tables
-----------------------------------------------------------------------------
(* Reads.  A check that fails ends the request.                            *)

Cells(cols) == {<<c, cols[c]>> : c \in Columns}

(* The session keeps the row that it will patch. *)
Load(r, cols, next) ==
    /\ req' = [req EXCEPT ![r].at = next, ![r].got = cols]
    /\ held' = [held EXCEPT ![r] = Cells(cols)]

ReadEmail(r) ==
    /\ At(r, "email")
    /\ Go(r, IF \E u \in Users : users[u] = Normal[req[r].in.name] THEN "conflict" ELSE "write")
    /\ UNCHANGED <<tables, dead, held>>

TakenSlug(slug) == \E p \in Projects : projects[p] # None /\ projects[p].slug = slug

(* The slugs of deleted projects count. *)
ReadSlug(r) ==
    /\ At(r, "slug")
    /\ Go(r, IF TakenSlug(Normal[req[r].in.name]) THEN "conflict" ELSE "write")
    /\ UNCHANGED <<tables, dead, held>>

(* Archived flags are not found. *)
ReadFlag(r) ==
    LET flag == flags[req[r].in.flag] IN
    /\ At(r, "flag")
    /\ IF flag # None /\ ~flag.is_archived
         THEN Load(r, flag.cols, "project")
         ELSE Go(r, "not_found") /\ UNCHANGED held
    /\ UNCHANGED <<tables, dead>>

(* A flag's routes ignore the project in their path and ask for the flag's. *)
ProjectOf(in) == IF in.op \in FlagOps THEN flags[in.flag].project_id ELSE in.project

(* Faulty: a deleted project is found like any other. *)
OwnedOrDeleted(project, user) == project # None /\ project.owner_id = user

Owned(project, user) == project # None /\ project.is_active /\ project.owner_id = user

ReadProject(r) ==
    LET in == req[r].in
        project == projects[ProjectOf(in)] IN
    /\ At(r, "project")
    /\ IF Owned(project, in.user)
         THEN IF in.op = "update_project" THEN Load(r, project.cols, "write")
              ELSE Go(r, AfterProject(in.op)) /\ UNCHANGED held
         ELSE Go(r, "not_found") /\ UNCHANGED held
    /\ UNCHANGED <<tables, dead>>

(* get_by_name does not see archived flags. *)
ReadName(r) ==
    LET in == req[r].in IN
    /\ At(r, "name")
    /\ Go(r, IF \E f \in Flags : /\ flags[f] # None /\ ~flags[f].is_archived
                                 /\ flags[f].project_id = in.project /\ flags[f].name = in.name
             THEN "conflict" ELSE "write")
    /\ UNCHANGED <<tables, dead, held>>

(* Faulty: any rule will do. *)
IsRule(rule, flag) == rule # None /\ ~rule.gone

IsRuleOf(rule, flag) == rule # None /\ ~rule.gone /\ rule.flag_id = flag

ReadRule(r) ==
    /\ At(r, "rule")
    /\ Go(r, IF IsRuleOf(rules[req[r].in.rule], req[r].in.flag)
             THEN "write" ELSE "not_found")
    /\ UNCHANGED <<tables, dead, held>>

(* A revoked key is found, too. *)
ReadKey(r) ==
    LET key == keys[req[r].in.key] IN
    /\ At(r, "key")
    /\ Go(r, IF key # None /\ key.project_id = req[r].in.project THEN "write" ELSE "not_found")
    /\ UNCHANGED <<tables, dead, held>>
-----------------------------------------------------------------------------
(* Writes.  One that violates a constraint raises IntegrityError, a value  *)
(* that the column cannot hold DataError: a 500.                           *)

Register(r) ==
    LET email == Normal[req[r].in.name] IN
    /\ Writing(r, "register")
    /\ IF ~req[r].in.fits \/ \E u \in Users : users[u] = email
         THEN Go(r, "error") /\ UNCHANGED users
         ELSE users' = [users EXCEPT ![req[r].row] = email] /\ Go(r, "refresh")
    /\ UNCHANGED <<projects, flags, rules, keys, dead, held>>

CreateProject(r) ==
    LET in == req[r].in IN
    /\ Writing(r, "create_project")
    /\ IF ~in.fits \/ TakenSlug(Normal[in.name])
         THEN Go(r, "error") /\ UNCHANGED projects
         ELSE /\ projects' = [projects EXCEPT ![req[r].row] =
                   [owner_id |-> in.user, slug |-> Normal[in.name], is_active |-> TRUE,
                    cols |-> Fresh]]
              /\ Go(r, "refresh")
    /\ UNCHANGED <<users, flags, rules, keys, dead, held>>

(* Faulty: there is no constraint, only the check before. *)
TakenNever(project, name) == FALSE

(* The unique constraint counts archived flags. *)
TakenName(project, name) ==
    \E f \in Flags : /\ flags[f] # None
                     /\ flags[f].project_id = project /\ flags[f].name = name

(* Faulty: ON CONFLICT DO NOTHING. *)
CreateFlagSkips(r) ==
    LET in == req[r].in IN
    /\ Writing(r, "create_flag")
    /\ IF TakenName(in.project, in.name)
         THEN Go(r, "refresh") /\ UNCHANGED flags
         ELSE /\ flags' = [flags EXCEPT ![req[r].row] =
                   [project_id |-> in.project, name |-> in.name, is_archived |-> FALSE,
                    cols |-> Fresh]]
              /\ Go(r, "refresh")
    /\ UNCHANGED <<users, projects, rules, keys, dead, held>>

CreateFlag(r) ==
    LET in == req[r].in IN
    /\ Writing(r, "create_flag")
    /\ IF ~in.fits \/ TakenName(in.project, in.name)
         THEN Go(r, "error") /\ UNCHANGED flags
         ELSE /\ flags' = [flags EXCEPT ![req[r].row] =
                   [project_id |-> in.project, name |-> in.name, is_archived |-> FALSE,
                    cols |-> Fresh]]
              /\ Go(r, "refresh")
    /\ UNCHANGED <<users, projects, rules, keys, dead, held>>

(* Faulty: a value that Python takes for false is left out. *)
WrittenIfTrue(patch, got, cols) ==
    [c \in Columns |-> IF c \in DOMAIN patch /\ patch[c] \notin {0, None, got[c]}
                         THEN patch[c] ELSE cols[c]]

(* The UPDATE names the columns whose new value differs from the one read. *)
Written(patch, got, cols) ==
    [c \in Columns |-> IF c \in DOMAIN patch /\ patch[c] # got[c] THEN patch[c] ELSE cols[c]]

(* Faulty: NOT NULL is missing in the schema. *)
FitsAlways(cols) == TRUE

(* No null where there may be none, nothing oversize. *)
Fits(cols) == cols \in Cols

(* Faulty: the row is saved as it was when it was read, not archived. *)
SavedFlag(flag, cols) == [flag EXCEPT !.cols = cols, !.is_archived = FALSE]

PatchedFlag(flag, cols) == [flag EXCEPT !.cols = cols]

(* Every open request that patches the row may have seen its new columns. *)
Seen(op, row, cols) ==
    [x \in Reqs |-> IF /\ Open(x) /\ req[x].in.op = op
                       /\ row \in {req[x].in.flag, req[x].in.project}
                      THEN held[x] \cup Cells(cols) ELSE held[x]]

UpdateProject(r) ==
    LET p == req[r].in.project
        new == Written(req[r].in.patch, req[r].got, projects[p].cols) IN
    /\ Writing(r, "update_project")
    /\ IF Fits(new)
         THEN /\ projects' = [projects EXCEPT ![p].cols = new]
              /\ held' = Seen("update_project", p, new)
              /\ Go(r, "refresh")
         ELSE Go(r, "error") /\ UNCHANGED <<projects, held>>
    /\ UNCHANGED <<users, flags, rules, keys, dead>>

UpdateFlag(r) ==
    LET f == req[r].in.flag
        new == Written(req[r].in.patch, req[r].got, flags[f].cols) IN
    /\ Writing(r, "update_flag")
    /\ IF Fits(new)
         THEN /\ flags' = [flags EXCEPT ![f] = PatchedFlag(flags[f], new)]
              /\ held' = Seen("update_flag", f, new)
              /\ Go(r, "refresh")
         ELSE Go(r, "error") /\ UNCHANGED <<flags, held>>
    /\ UNCHANGED <<users, projects, rules, keys, dead>>

DeleteProject(r) ==
    /\ Writing(r, "delete_project")
    /\ projects' = [projects EXCEPT ![req[r].in.project].is_active = FALSE]
    /\ Done(r)
    /\ UNCHANGED <<users, flags, rules, keys, dead, held>>

DeleteFlag(r) ==
    /\ Writing(r, "delete_flag")
    /\ flags' = [flags EXCEPT ![req[r].in.flag].is_archived = TRUE]
    /\ Done(r)
    /\ UNCHANGED <<users, projects, rules, keys, dead, held>>

CreateRule(r) ==
    /\ Writing(r, "create_rule")
    /\ IF ~req[r].in.fits
         THEN Go(r, "error") /\ UNCHANGED rules
         ELSE /\ rules' = [rules EXCEPT ![req[r].row] =
                   [flag_id |-> req[r].in.flag, gone |-> FALSE]]
              /\ Go(r, "refresh")
    /\ UNCHANGED <<users, projects, flags, keys, dead, held>>

(* A DELETE that matches no row any more is only a warning. *)
DeleteRule(r) ==
    /\ Writing(r, "delete_rule")
    /\ rules' = [rules EXCEPT ![req[r].in.rule].gone = TRUE]
    /\ Done(r)
    /\ UNCHANGED <<users, projects, flags, keys, dead, held>>

GenerateKey(r) ==
    /\ Writing(r, "generate_key")
    /\ IF ~req[r].in.fits
         THEN Go(r, "error") /\ UNCHANGED keys
         ELSE /\ keys' = [keys EXCEPT ![req[r].row] =
                   [project_id |-> req[r].in.project, is_active |-> TRUE]]
              /\ Go(r, "refresh")
    /\ UNCHANGED <<users, projects, flags, rules, dead, held>>

RevokeKey(r) ==
    /\ Writing(r, "revoke_key")
    /\ keys' = [keys EXCEPT ![req[r].in.key].is_active = FALSE]
    /\ Done(r)
    /\ UNCHANGED <<users, projects, flags, rules, dead, held>>

(* The answer is read back; only a rule can be gone by then. *)
Refresh(r) ==
    /\ At(r, "refresh")
    /\ Go(r, IF req[r].in.op = "create_rule" /\ rules[req[r].row].gone THEN "error" ELSE "ok")
    /\ UNCHANGED <<tables, dead, held>>

(* A statement fails for another reason - no connection, a timeout, a NUL  *)
(* in a parameter - and nothing of it stays.  After the COMMIT that is the *)
(* refresh: the request ends in a 500 though its row is written.           *)
DatabaseError(r) ==
    /\ Open(r)
    /\ Go(r, "error")
    /\ UNCHANGED <<tables, dead, held>>

Read(r) == \/ ReadEmail(r) \/ ReadSlug(r) \/ ReadFlag(r) \/ ReadProject(r)
           \/ ReadName(r) \/ ReadRule(r) \/ ReadKey(r) \/ Refresh(r) \/ DatabaseError(r)
Write(r) == \/ Register(r) \/ CreateProject(r) \/ UpdateProject(r) \/ DeleteProject(r)
            \/ CreateFlag(r) \/ UpdateFlag(r) \/ DeleteFlag(r)
            \/ CreateRule(r) \/ DeleteRule(r) \/ GenerateKey(r) \/ RevokeKey(r)

Next == \E r \in Reqs : \/ Read(r) \/ Write(r)
                        \/ \E in \in Inputs : \E id \in Unused(in.op) : Receive(r, in, id)

Spec == Init /\ [][Next]_vars
-----------------------------------------------------------------------------
(* The tables and the requests keep their shape; the columns that are NOT  *)
(* NULL hold no None, whatever clients put into a PATCH.                   *)
TypeOK ==
    /\ users \in [Users -> Names \cup {None}]
    /\ projects \in [Projects -> Project \cup {None}]
    /\ flags \in [Flags -> Flag \cup {None}]
    /\ rules \in [Rules -> Rule \cup {None}]
    /\ keys \in [ApiKeys -> ApiKey \cup {None}]
    /\ req \in [Reqs -> Request \cup {None}]
    /\ dead \in [Reqs -> SUBSET (Projects \cup Flags)]
    /\ held \in [Reqs -> SUBSET (Columns \X (Values \cup {None}))]

(* However the checks race, a lookup by e-mail, slug or name and project   *)
(* finds one row at most (scalar_one_or_none would raise on two).          *)
UniqueRows == NoTwins(users, projects, flags)

(* What a step changes: flags, and projects with anything under them. *)
TouchedFlags == {f \in Flags : flags'[f] # flags[f]}
                \cup {rules'[i].flag_id : i \in {j \in Rules : rules'[j] # rules[j]}}
Touched == {p \in Projects : projects'[p] # projects[p]}
           \cup {flags'[f].project_id : f \in TouchedFlags}
           \cup {keys'[k].project_id : k \in {j \in ApiKeys : keys'[j] # keys[j]}}

(* No request changes anything in a project of another user, whatever ids  *)
(* it puts into its path.                                                  *)
OwnersOnly ==
    [][\A r \in Reqs : req'[r] # req[r] =>
          \A p \in Touched : projects'[p].owner_id = req'[r].in.user]_vars

(* The checks precede the writes, so a request that overlaps a deletion    *)
(* may still write; one that comes after it never changes the deleted      *)
(* project or flag, nor anything under it.                                 *)
DeletedIsLeftAlone ==
    [][\A r \in Reqs : req'[r] # req[r] => (Touched \cup TouchedFlags) \cap dead[r] = {}]_vars

(* What was answered as deleted stays so, whatever requests that had read  *)
(* the row before write into it.                                           *)
DeletesHold ==
    \A r \in Reqs : At(r, "ok") =>
       LET in == req[r].in IN
       /\ in.op = "delete_project" => ~projects[in.project].is_active
       /\ in.op = "delete_flag" => flags[in.flag].is_archived
       /\ in.op = "delete_rule" => rules[in.rule].gone
       /\ in.op = "revoke_key" => ~keys[in.key].is_active

(* Each value of a PATCH that succeeds was in the row at some time between *)
(* its read and its answer: a value is never skipped but because it was    *)
(* there.                                                                  *)
PatchTookEffect ==
    \A r \in Reqs : At(r, "ok") /\ req[r].in.op \in Patches =>
       \A c \in DOMAIN req[r].in.patch : <<c, req[r].in.patch[c]>> \in held[r]

(* What was answered as created is there, under its own id and with what   *)
(* was asked for, whatever requests raced for its name; the loser of such  *)
(* a race, or of a value that does not fit, is never told it has won.      *)
CreatesHold ==
    \A r \in Reqs : At(r, "ok") =>
       LET in == req[r].in row == req[r].row IN
       /\ in.op = "register" => users[row] = Normal[in.name]
       /\ in.op = "create_project" =>
             /\ projects[row] # None
             /\ projects[row].slug = Normal[in.name] /\ projects[row].owner_id = in.user
       /\ in.op = "create_flag" =>
             /\ flags[row] # None
             /\ flags[row].name = in.name /\ flags[row].project_id = in.project
       /\ in.op = "create_rule" => rules[row] # None /\ rules[row].flag_id = in.flag
       /\ in.op = "generate_key" => keys[row] # None /\ keys[row].project_id = in.project
=============================================================================
