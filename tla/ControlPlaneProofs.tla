------------------------- MODULE ControlPlaneProofs -------------------------
(***************************************************************************)
(* Proofs about ControlPlane, for any tables, requests and inputs.         *)
(***************************************************************************)
EXTENDS ControlPlane, TLAPS

LEMMA NoneIsNothing ==
  /\ None \notin Users /\ None \notin Projects /\ None \notin Flags /\ None \notin Rules
  /\ None \notin ApiKeys /\ None \notin Names
  /\ None \notin Project /\ None \notin Flag /\ None \notin Rule /\ None \notin ApiKey
  BY ControlParameters DEF ControlParameters

(* What an input holds. *)
LEMMA InputFields ==
  ASSUME NEW in \in Inputs
  PROVE  /\ in.op \in Ops
         /\ in.op # "register" => in.user \in Users
         /\ in.op \in FlagOps => in.flag \in Flags
         /\ in.op \in ProjectOps => in.project \in Projects
         /\ in.op = "delete_rule" => in.rule \in Rules
         /\ in.op = "revoke_key" => in.key \in ApiKeys
         /\ in.op \in {"register", "create_project", "create_flag"} => in.name \in Names
         /\ in.patch \in UNION {[cs -> Values \cup Oversize \cup {None}] : cs \in SUBSET Columns}
  BY ControlParameters, NoneIsNothing DEF ControlParameters, Input

LEMMA InputPatch ==
  ASSUME NEW in \in Inputs
  PROVE  DOMAIN in.patch \subseteq Columns
  <1>1. PICK cs \in SUBSET Columns : in.patch \in [cs -> Values \cup Oversize \cup {None}]
    BY InputFields
  <1> QED BY <1>1

(***************************************************************************)
(* One request's step and the other requests.                              *)
(***************************************************************************)

(* A request moves on: nothing of it changes but its step. *)
LEMMA GoEffect ==
  ASSUME req \in [Reqs -> Request \cup {None}], NEW r \in Reqs, req[r] # None,
         NEW to \in Steps \cup Answers, Go(r, to)
  PROVE  /\ req' \in [Reqs -> Request \cup {None}]
         /\ req'[r] \in Request
         /\ req'[r].at = to /\ req'[r].in = req[r].in
         /\ req'[r].got = req[r].got /\ req'[r].row = req[r].row
         /\ \A x \in Reqs \ {r} : req'[x] = req[x]
  <1> DEFINE q == req[r]
  <1>1. q \in Request
    OBVIOUS
  <1>2. req'[r] = [q EXCEPT !.at = to]
    BY DEF Go
  <1>3. \A x \in Reqs \ {r} : req'[x] = req[x]
    BY DEF Go
  <1> HIDE DEF q
  <1>4. req'[r] \in Request /\ req'[r].at = to /\ req'[r].in = q.in
        /\ req'[r].got = q.got /\ req'[r].row = q.row
    BY <1>1, <1>2 DEF Request
  <1>5. req' \in [Reqs -> Request \cup {None}]
    BY <1>3, <1>4 DEF Go
  <1> QED BY <1>3, <1>4, <1>5 DEF q

LEMMA LoadEffect ==
  ASSUME req \in [Reqs -> Request \cup {None}], NEW r \in Reqs, req[r] # None,
         NEW to \in Steps \cup Answers, NEW cols \in Cols, Load(r, cols, to)
  PROVE  /\ req' \in [Reqs -> Request \cup {None}]
         /\ req'[r] \in Request
         /\ req'[r].at = to /\ req'[r].in = req[r].in
         /\ req'[r].got = cols /\ req'[r].row = req[r].row
         /\ \A x \in Reqs \ {r} : req'[x] = req[x]
  <1> DEFINE q == req[r]
  <1>1. q \in Request
    OBVIOUS
  <1>2. req'[r] = [q EXCEPT !.at = to, !.got = cols]
    BY DEF Load
  <1>3. \A x \in Reqs \ {r} : req'[x] = req[x]
    BY DEF Load
  <1> HIDE DEF q
  <1>4. req'[r] \in Request /\ req'[r].at = to /\ req'[r].in = q.in
        /\ req'[r].got = cols /\ req'[r].row = q.row
    BY <1>1, <1>2 DEF Request
  <1>5. req' \in [Reqs -> Request \cup {None}]
    BY <1>3, <1>4 DEF Load
  <1> QED BY <1>3, <1>4, <1>5 DEF q

(* The steps each kind of request takes, and what it has in hand. *)
Creators == {"register", "create_project", "create_flag", "create_rule", "generate_key"}
Stage(r) ==
  LET op == req[r].in.op at == req[r].at IN
  req[r] # None =>
     /\ at = "email" => op = "register"
     /\ at = "slug" => op = "create_project"
     /\ at = "flag" => op \in FlagOps
     /\ at = "project" => op \in FlagOps \cup ProjectOps
     /\ at = "name" => op = "create_flag"
     /\ at = "rule" => op = "delete_rule"
     /\ at = "key" => op = "revoke_key"
     /\ at = "refresh" => op \in Creators \cup Patches
     /\ op = "register" => req[r].row \in Users
     /\ op = "create_project" => req[r].row \in Projects
     /\ op = "create_flag" => req[r].row \in Flags
     /\ op = "create_rule" => req[r].row \in Rules
     /\ op = "generate_key" => req[r].row \in ApiKeys
     /\ op = "update_project" /\ at = "write" => req[r].got \in Cols
     /\ op = "update_flag" /\ at \in {"project", "write"} => req[r].got \in Cols

(* What a request has read is there still. *)
Has(r) ==
  LET in == req[r].in at == req[r].at IN
  req[r] # None =>
     /\ in.op \in FlagOps /\ at \in {"project", "rule", "write", "refresh", "ok"} =>
           flags[in.flag] # None
     /\ in.op \in FlagOps \cup ProjectOps
        /\ at \in {"name", "rule", "key", "write", "refresh", "ok"} =>
           projects[ProjectOf(in)] # None /\ projects[ProjectOf(in)].owner_id = in.user
     /\ in.op = "delete_rule" /\ at \in {"write", "ok"} =>
           rules[in.rule] # None /\ rules[in.rule].flag_id = in.flag
     /\ in.op = "revoke_key" /\ at \in {"write", "ok"} =>
           keys[in.key] # None /\ keys[in.key].project_id = in.project
     /\ in.op = "create_rule" /\ at = "refresh" => rules[req[r].row] # None

(* The row that a request will insert does not exist before, and it is no  *)
(* other request's.                                                        *)
Reserved(r) ==
  LET op == req[r].in.op row == req[r].row IN
  Open(r) /\ req[r].at # "refresh" =>
     /\ op = "register" => users[row] = None
     /\ op = "create_project" => projects[row] = None
     /\ op = "create_flag" => flags[row] = None
     /\ op = "create_rule" => rules[row] = None
     /\ op = "generate_key" => keys[row] = None
Apart ==
  \A x, y \in Reqs : Open(x) /\ Open(y) /\ x # y /\ req[x].row # None => req[x].row # req[y].row

Inv == TypeOK /\ Apart /\ \A r \in Reqs : Stage(r) /\ Has(r) /\ Reserved(r)

LEMMA InvInit == ASSUME Init PROVE Inv
  BY SeedRows DEF SeedRows, Init, Inv, TypeOK, Stage, Has, Reserved, Apart, Open

(***************************************************************************)
(* The tables.                                                             *)
(***************************************************************************)

TablesTyped ==
  /\ users \in [Users -> Names \cup {None}]
  /\ projects \in [Projects -> Project \cup {None}]
  /\ flags \in [Flags -> Flag \cup {None}]
  /\ rules \in [Rules -> Rule \cup {None}]
  /\ keys \in [ApiKeys -> ApiKey \cup {None}]

(* No step takes a row away, moves it, renames it or brings it back. *)
Keeps ==
  /\ \A u \in Users : users[u] # None => users'[u] = users[u]
  /\ \A p \in Projects : projects[p] # None =>
        /\ projects'[p] # None
        /\ projects'[p].owner_id = projects[p].owner_id /\ projects'[p].slug = projects[p].slug
        /\ ~projects[p].is_active => ~projects'[p].is_active
  /\ \A f \in Flags : flags[f] # None =>
        /\ flags'[f] # None
        /\ flags'[f].project_id = flags[f].project_id /\ flags'[f].name = flags[f].name
        /\ flags[f].is_archived => flags'[f].is_archived
  /\ \A i \in Rules : rules[i] # None =>
        /\ rules'[i] # None
        /\ rules'[i].flag_id = rules[i].flag_id /\ (rules[i].gone => rules'[i].gone)
  /\ \A k \in ApiKeys : keys[k] # None =>
        /\ keys'[k] # None
        /\ keys'[k].project_id = keys[k].project_id /\ (~keys[k].is_active => ~keys'[k].is_active)

(* The only rows it adds are those that request r inserts. *)
Adds(r) ==
  LET op == req[r].in.op row == req[r].row IN
  /\ \A u \in Users : users[u] = None => users'[u] = None \/ (op = "register" /\ u = row)
  /\ \A p \in Projects :
        projects[p] = None => projects'[p] = None \/ (op = "create_project" /\ p = row)
  /\ \A f \in Flags : flags[f] = None => flags'[f] = None \/ (op = "create_flag" /\ f = row)
  /\ \A i \in Rules : rules[i] = None => rules'[i] = None \/ (op = "create_rule" /\ i = row)
  /\ \A k \in ApiKeys : keys[k] = None => keys'[k] = None \/ (op = "generate_key" /\ k = row)

LEMMA StandStill ==
  ASSUME TypeOK, UNCHANGED tables
  PROVE  TablesTyped' /\ Keeps /\ \A r \in Reqs : Adds(r)
  BY DEF TypeOK, TablesTyped, Keeps, Adds, tables

(* What each write does to the tables. *)
LEMMA WriteTables ==
  ASSUME Inv, NEW r \in Reqs, Write(r)
  PROVE  TablesTyped' /\ Keeps /\ Adds(r)
  <1> DEFINE in == req[r].in
             row == req[r].row
  <1>1. /\ req \in [Reqs -> Request \cup {None}] /\ req[r] # None /\ req[r].at = "write"
        /\ in.op \in Ops
    BY DEF Inv, TypeOK, Write, Writing, At, Register, CreateProject, UpdateProject, DeleteProject,
           CreateFlag, UpdateFlag, DeleteFlag, CreateRule, DeleteRule, GenerateKey, RevokeKey,
           Request, Ops, FlagOps, ProjectOps
  <1>2. in \in Inputs
    BY <1>1 DEF Request
  <1>3. Stage(r) /\ Has(r) /\ Reserved(r) /\ TablesTyped
    BY DEF Inv, TypeOK, TablesTyped
  <1>4. Open(r)
    BY <1>1 DEF Open, Answers
  <1> HIDE DEF in
  <1>5. CASE Register(r)
    <2>1. in.op = "register" /\ row \in Users /\ users[row] = None /\ in.name \in Names
      BY <1>1, <1>2, <1>3, <1>4, <1>5, InputFields DEF Register, Writing, Stage, Reserved, in
    <2>2. Normal[in.name] \in Names /\ Normal[in.name] # None
      BY <2>1, NoneIsNothing, ControlParameters DEF ControlParameters
    <2>3. UNCHANGED <<projects, flags, rules, keys>>
          /\ (users' = users \/ users' = [users EXCEPT ![row] = Normal[in.name]])
      BY <1>5 DEF Register, in
    <2> QED BY <1>3, <2>1, <2>2, <2>3 DEF TablesTyped, Keeps, Adds, in
  <1>6. CASE CreateProject(r)
    <2>1. /\ in.op = "create_project" /\ row \in Projects /\ projects[row] = None
          /\ in.name \in Names /\ in.user \in Users
      BY <1>1, <1>2, <1>3, <1>4, <1>6, InputFields DEF CreateProject, Writing, Stage, Reserved, in
    <2> DEFINE new == [owner_id |-> in.user, slug |-> Normal[in.name], is_active |-> TRUE,
                       cols |-> Fresh]
    <2>2. new \in Project
      BY <2>1, ControlParameters DEF ControlParameters, Project
    <2>3. UNCHANGED <<users, flags, rules, keys>>
          /\ (projects' = projects \/ projects' = [projects EXCEPT ![row] = new])
      BY <1>6 DEF CreateProject, in
    <2> HIDE DEF new
    <2>4. new # None
      BY <2>2, NoneIsNothing
    <2> QED BY <1>3, <2>1, <2>2, <2>3, <2>4 DEF TablesTyped, Keeps, Adds, in
  <1>7. CASE CreateFlag(r)
    <2>1. /\ in.op = "create_flag" /\ row \in Flags /\ flags[row] = None
          /\ in.name \in Names /\ in.project \in Projects
      BY <1>1, <1>2, <1>3, <1>4, <1>7, InputFields
         DEF CreateFlag, Writing, Stage, Reserved, in, ProjectOps
    <2> DEFINE new == [project_id |-> in.project, name |-> in.name, is_archived |-> FALSE,
                       cols |-> Fresh]
    <2>2. new \in Flag
      BY <2>1, ControlParameters DEF ControlParameters, Flag
    <2>3. UNCHANGED <<users, projects, rules, keys>>
          /\ (flags' = flags \/ flags' = [flags EXCEPT ![row] = new])
      BY <1>7 DEF CreateFlag, in
    <2> HIDE DEF new
    <2>4. new # None
      BY <2>2, NoneIsNothing
    <2> QED BY <1>3, <2>1, <2>2, <2>3, <2>4 DEF TablesTyped, Keeps, Adds, in
  <1>8. CASE CreateRule(r)
    <2>1. in.op = "create_rule" /\ row \in Rules /\ rules[row] = None /\ in.flag \in Flags
      BY <1>1, <1>2, <1>3, <1>4, <1>8, InputFields
         DEF CreateRule, Writing, Stage, Reserved, in, FlagOps
    <2> DEFINE new == [flag_id |-> in.flag, gone |-> FALSE]
    <2>2. new \in Rule
      BY <2>1 DEF Rule
    <2>3. UNCHANGED <<users, projects, flags, keys>>
          /\ (rules' = rules \/ rules' = [rules EXCEPT ![row] = new])
      BY <1>8 DEF CreateRule, in
    <2> HIDE DEF new
    <2>4. new # None
      BY <2>2, NoneIsNothing
    <2> QED BY <1>3, <2>1, <2>2, <2>3, <2>4 DEF TablesTyped, Keeps, Adds, in
  <1>9. CASE GenerateKey(r)
    <2>1. /\ in.op = "generate_key" /\ row \in ApiKeys /\ keys[row] = None
          /\ in.project \in Projects
      BY <1>1, <1>2, <1>3, <1>4, <1>9, InputFields
         DEF GenerateKey, Writing, Stage, Reserved, in, ProjectOps
    <2> DEFINE new == [project_id |-> in.project, is_active |-> TRUE]
    <2>2. new \in ApiKey
      BY <2>1 DEF ApiKey
    <2>3. UNCHANGED <<users, projects, flags, rules>>
          /\ (keys' = keys \/ keys' = [keys EXCEPT ![row] = new])
      BY <1>9 DEF GenerateKey, in
    <2> HIDE DEF new
    <2>4. new # None
      BY <2>2, NoneIsNothing
    <2> QED BY <1>3, <2>1, <2>2, <2>3, <2>4 DEF TablesTyped, Keeps, Adds, in
  <1>10. ASSUME NEW p \in Projects, projects[p] # None,
                UNCHANGED <<users, flags, rules, keys>>,
                NEW new \in Project, new.owner_id = projects[p].owner_id,
                new.slug = projects[p].slug, ~projects[p].is_active => ~new.is_active,
                projects' = [projects EXCEPT ![p] = new]
         PROVE  TablesTyped' /\ Keeps /\ Adds(r)
    BY <1>3, <1>10, NoneIsNothing DEF TablesTyped, Keeps, Adds
  <1>11. ASSUME NEW f \in Flags, flags[f] # None,
                UNCHANGED <<users, projects, rules, keys>>,
                NEW new \in Flag, new.project_id = flags[f].project_id,
                new.name = flags[f].name, flags[f].is_archived => new.is_archived,
                flags' = [flags EXCEPT ![f] = new]
         PROVE  TablesTyped' /\ Keeps /\ Adds(r)
    BY <1>3, <1>11, NoneIsNothing DEF TablesTyped, Keeps, Adds
  <1>12. CASE UpdateProject(r) \/ DeleteProject(r)
    <2> DEFINE p == in.project
               old == projects[p]
    <2>1. in.op \in {"update_project", "delete_project"}
      BY <1>12 DEF UpdateProject, DeleteProject, Writing, in
    <2>2. p \in Projects /\ old # None
      BY <1>1, <1>2, <1>3, <2>1, InputFields DEF Has, ProjectOf, ProjectOps, FlagOps, in
    <2>3. old \in Project
      BY <1>3, <2>2 DEF TablesTyped
    <2>4. CASE DeleteProject(r)
      <3> DEFINE new == [old EXCEPT !.is_active = FALSE]
      <3>1. UNCHANGED <<users, flags, rules, keys>> /\ projects' = [projects EXCEPT ![p] = new]
        BY <2>4 DEF DeleteProject, in
      <3>2. /\ new \in Project /\ new.owner_id = old.owner_id /\ new.slug = old.slug
            /\ ~new.is_active
        BY <2>3 DEF Project
      <3> HIDE DEF new, p
      <3> QED BY <1>10, <2>2, <3>1, <3>2
    <2>5. CASE UpdateProject(r)
      <3> DEFINE cols == Written(req[r].in.patch, req[r].got, projects[p].cols)
                 new == [old EXCEPT !.cols = cols]
      <3>1. CASE cols \in Cols
        <4>1. UNCHANGED <<users, flags, rules, keys>> /\ projects' = [projects EXCEPT ![p] = new]
          BY <2>5, <3>1 DEF UpdateProject, Fits, in
        <4> HIDE DEF cols
        <4>2. /\ new \in Project /\ new.owner_id = old.owner_id /\ new.slug = old.slug
              /\ new.is_active = old.is_active
          BY <2>3, <3>1 DEF Project
        <4> HIDE DEF new, p
        <4> QED BY <1>10, <2>2, <4>1, <4>2
      <3>2. CASE cols \notin Cols
        <4>1. UNCHANGED tables
          BY <2>5, <3>2 DEF UpdateProject, Fits, tables, in
        <4> QED BY <4>1, StandStill DEF Inv
      <3> QED BY <3>1, <3>2
    <2> QED BY <1>12, <2>4, <2>5
  <1>13. CASE UpdateFlag(r) \/ DeleteFlag(r)
    <2> DEFINE f == in.flag
               old == flags[f]
    <2>1. in.op \in {"update_flag", "delete_flag"}
      BY <1>13 DEF UpdateFlag, DeleteFlag, Writing, in
    <2>2. f \in Flags /\ old # None
      BY <1>1, <1>2, <1>3, <2>1, InputFields DEF Has, FlagOps, in
    <2>3. old \in Flag
      BY <1>3, <2>2 DEF TablesTyped
    <2>4. CASE DeleteFlag(r)
      <3> DEFINE new == [old EXCEPT !.is_archived = TRUE]
      <3>1. UNCHANGED <<users, projects, rules, keys>> /\ flags' = [flags EXCEPT ![f] = new]
        BY <2>4 DEF DeleteFlag, in
      <3>2. /\ new \in Flag /\ new.project_id = old.project_id /\ new.name = old.name
            /\ new.is_archived
        BY <2>3 DEF Flag
      <3> HIDE DEF new, f
      <3> QED BY <1>11, <2>2, <3>1, <3>2
    <2>5. CASE UpdateFlag(r)
      <3> DEFINE cols == Written(req[r].in.patch, req[r].got, flags[f].cols)
                 new == [old EXCEPT !.cols = cols]
      <3>1. CASE cols \in Cols
        <4>1. UNCHANGED <<users, projects, rules, keys>> /\ flags' = [flags EXCEPT ![f] = new]
          BY <2>5, <3>1 DEF UpdateFlag, PatchedFlag, Fits, in
        <4> HIDE DEF cols
        <4>2. /\ new \in Flag /\ new.project_id = old.project_id /\ new.name = old.name
              /\ new.is_archived = old.is_archived
          BY <2>3, <3>1 DEF Flag
        <4> HIDE DEF new, f
        <4> QED BY <1>11, <2>2, <4>1, <4>2
      <3>2. CASE cols \notin Cols
        <4>1. UNCHANGED tables
          BY <2>5, <3>2 DEF UpdateFlag, Fits, tables, in
        <4> QED BY <4>1, StandStill DEF Inv
      <3> QED BY <3>1, <3>2
    <2> QED BY <1>13, <2>4, <2>5
  <1>14. CASE DeleteRule(r)
    <2> DEFINE i == in.rule
               old == rules[i]
               new == [old EXCEPT !.gone = TRUE]
    <2>1. in.op = "delete_rule" /\ i \in Rules /\ old # None
      BY <1>1, <1>2, <1>3, <1>14, InputFields DEF DeleteRule, Writing, Has, in
    <2>2. old \in Rule
      BY <1>3, <2>1 DEF TablesTyped
    <2>3. new \in Rule /\ new.flag_id = old.flag_id /\ new.gone
      BY <2>2 DEF Rule
    <2>4. UNCHANGED <<users, projects, flags, keys>> /\ rules' = [rules EXCEPT ![i] = new]
      BY <1>14 DEF DeleteRule, in
    <2> HIDE DEF new, i
    <2> QED BY <1>3, <2>1, <2>3, <2>4, NoneIsNothing DEF TablesTyped, Keeps, Adds
  <1>15. CASE RevokeKey(r)
    <2> DEFINE k == in.key
               old == keys[k]
               new == [old EXCEPT !.is_active = FALSE]
    <2>1. in.op = "revoke_key" /\ k \in ApiKeys /\ old # None
      BY <1>1, <1>2, <1>3, <1>15, InputFields DEF RevokeKey, Writing, Has, in
    <2>2. old \in ApiKey
      BY <1>3, <2>1 DEF TablesTyped
    <2>3. new \in ApiKey /\ new.project_id = old.project_id /\ ~new.is_active
      BY <2>2 DEF ApiKey
    <2>4. UNCHANGED <<users, projects, flags, rules>> /\ keys' = [keys EXCEPT ![k] = new]
      BY <1>15 DEF RevokeKey, in
    <2> HIDE DEF new, k
    <2> QED BY <1>3, <2>1, <2>3, <2>4, NoneIsNothing DEF TablesTyped, Keeps, Adds
  <1> QED BY <1>5, <1>6, <1>7, <1>8, <1>9, <1>12, <1>13, <1>14, <1>15 DEF Write

(***************************************************************************)
(* The requests.                                                           *)
(***************************************************************************)

HeldTyped == held \in [Reqs -> SUBSET (Columns \X (Values \cup {None}))]

LEMMA CellsTyped ==
  ASSUME NEW cols \in [Columns -> Values \cup {None}]
  PROVE  Cells(cols) \subseteq Columns \X (Values \cup {None})
  BY DEF Cells

(* A write ends its request, or leaves it to read its answer back. *)
LEMMA WriteMoves ==
  ASSUME Inv, NEW r \in Reqs, Write(r)
  PROVE  /\ req[r] # None /\ req[r].at = "write" /\ dead' = dead
         /\ \E to \in {"refresh", "ok", "error"} :
               /\ Go(r, to)
               /\ to = "refresh" => req[r].in.op \in Creators \cup Patches
               /\ to = "refresh" /\ req[r].in.op = "create_rule" => rules'[req[r].row] # None
         /\ HeldTyped' /\ \A x \in Reqs : held[x] \subseteq held'[x]
  <1>1. HeldTyped
    BY DEF Inv, TypeOK, HeldTyped
  <1>2. CASE UpdateProject(r) \/ UpdateFlag(r)
    <2>1. req[r] # None /\ req[r].at = "write" /\ dead' = dead
      BY <1>2 DEF UpdateProject, UpdateFlag, Writing, At
    <2>2. \E to \in {"refresh", "ok", "error"} :
               /\ Go(r, to)
               /\ to = "refresh" => req[r].in.op \in Patches
      BY <1>2 DEF UpdateProject, UpdateFlag, Writing, Patches
    <2>3. ASSUME NEW op, NEW row, NEW cols \in Cols, held' = Seen(op, row, cols)
          PROVE  HeldTyped' /\ \A x \in Reqs : held[x] \subseteq held'[x]
      <3>1. Cells(cols) \subseteq Columns \X (Values \cup {None})
        BY CellsTyped DEF Cols
      <3> QED BY <1>1, <2>3, <3>1 DEF HeldTyped, Seen
    <2>4. held' = held \/ \E cols \in Cols, op \in Patches, row \in {req[r].in.flag, req[r].in.project} :
                              held' = Seen(op, row, cols)
      BY <1>2 DEF UpdateProject, UpdateFlag, Fits, Patches
    <2>5. HeldTyped' /\ \A x \in Reqs : held[x] \subseteq held'[x]
      BY <1>1, <2>3, <2>4 DEF HeldTyped
    <2> QED BY <2>1, <2>2, <2>5 DEF Patches
  <1>3. CASE CreateRule(r)
    <2>1. req[r].row \in Rules /\ rules \in [Rules -> Rule \cup {None}]
      BY <1>3 DEF Inv, TypeOK, Stage, CreateRule, Writing, At
    <2> DEFINE new == [flag_id |-> req[r].in.flag, gone |-> FALSE]
    <2>2. req[r].in.flag \in Flags
      BY <1>3, InputFields DEF Inv, TypeOK, Request, CreateRule, Writing, At, FlagOps
    <2>3. new \in Rule
      BY <2>2 DEF Rule
    <2>4. \/ Go(r, "error")
          \/ Go(r, "refresh") /\ rules' = [rules EXCEPT ![req[r].row] = new]
      BY <1>3 DEF CreateRule
    <2> HIDE DEF new
    <2>5. Go(r, "error") \/ (Go(r, "refresh") /\ rules'[req[r].row] # None)
      BY <2>1, <2>3, <2>4, NoneIsNothing
    <2> QED BY <1>1, <1>3, <2>5 DEF CreateRule, Writing, At, Creators, HeldTyped
  <1>4. CASE Register(r) \/ CreateProject(r) \/ CreateFlag(r) \/ GenerateKey(r)
    BY <1>1, <1>4 DEF Register, CreateProject, CreateFlag, GenerateKey, Writing, At, Creators,
                      HeldTyped
  <1>5. CASE DeleteProject(r) \/ DeleteFlag(r) \/ DeleteRule(r) \/ RevokeKey(r)
    BY <1>1, <1>5 DEF DeleteProject, DeleteFlag, DeleteRule, RevokeKey, Done, Writing, At, HeldTyped
  <1> QED BY <1>2, <1>3, <1>4, <1>5 DEF Write

(* Whatever another request does, what this one knows stays true. *)
LEMMA OthersKeep ==
  ASSUME Inv, NEW r \in Reqs, Open(r), Keeps, Adds(r),
         NEW x \in Reqs, x # r, req'[x] = req[x]
  PROVE  Stage(x)' /\ Has(x)' /\ Reserved(x)'
  <1>1. Stage(x) /\ Has(x) /\ Reserved(x) /\ TablesTyped
    BY DEF Inv, TypeOK, TablesTyped
  <1>2. CASE req[x] = None
    BY <1>2 DEF Stage, Has, Reserved, Open
  <1>3. CASE req[x] # None
    <2>1. req[x].in \in Inputs
      BY <1>3 DEF Inv, TypeOK, Request
    <2>2. Stage(x)'
      BY <1>1 DEF Stage
    <2>3. Has(x)'
      <3>1. CASE req[x].in.op \in FlagOps
        <4>1. req[x].in.flag \in Flags
          BY <2>1, <3>1, InputFields
        <4>2. req[x].at \in {"project", "rule", "write", "refresh", "ok"} =>
                 /\ flags[req[x].in.flag] # None /\ flags'[req[x].in.flag] # None
                 /\ ProjectOf(req[x].in)' = ProjectOf(req[x].in)
                 /\ ProjectOf(req[x].in) \in Projects
          BY <1>1, <1>3, <3>1, <4>1 DEF Has, Keeps, ProjectOf, TablesTyped, Flag
        <4>3. req[x].at \in {"name", "key"} => FALSE
          BY <1>1, <1>3, <3>1 DEF Stage, FlagOps
        <4>4. req[x].in.op = "delete_rule" => req[x].in.rule \in Rules
          BY <2>1, InputFields
        <4>5. req[x].in.op = "create_rule" => req[x].row \in Rules
          BY <1>1, <1>3 DEF Stage
        <4> QED BY <1>1, <1>3, <3>1, <4>1, <4>2, <4>3, <4>4, <4>5 DEF Has, Keeps, FlagOps
      <3>2. CASE req[x].in.op \notin FlagOps
        <4>1. ProjectOf(req[x].in) = req[x].in.project /\ ProjectOf(req[x].in)' = req[x].in.project
          BY <3>2 DEF ProjectOf
        <4>2. req[x].in.op \in ProjectOps => req[x].in.project \in Projects
          BY <2>1, InputFields
        <4>3. req[x].in.op = "revoke_key" => req[x].in.key \in ApiKeys
          BY <2>1, InputFields
        <4> QED BY <1>1, <1>3, <3>2, <4>1, <4>2, <4>3 DEF Has, Keeps, FlagOps
      <3> QED BY <3>1, <3>2
    <2>4. Reserved(x)'
      <3> SUFFICES ASSUME Open(x), req[x].at # "refresh" PROVE Reserved(x)'
        BY DEF Reserved, Open
      <3>1. req[x].row # None => req[x].row # req[r].row
        BY DEF Inv, Apart
      <3> QED BY <1>1, <1>3, <3>1, NoneIsNothing DEF Reserved, Stage, Adds
    <2> QED BY <2>2, <2>3, <2>4
  <1> QED BY <1>2, <1>3

(* The acting request's row stays its own. *)
LEMMA ApartKept ==
  ASSUME Apart, NEW r \in Reqs, Open(r), req'[r].row = req[r].row,
         \A x \in Reqs \ {r} : req'[x] = req[x]
  PROVE  Apart'
  BY DEF Apart, Open

LEMMA WriteInv == ASSUME Inv, NEW r \in Reqs, Write(r) PROVE Inv'
  <1>1. PICK to \in {"refresh", "ok", "error"} :
           /\ Go(r, to)
           /\ to = "refresh" => req[r].in.op \in Creators \cup Patches
           /\ to = "refresh" /\ req[r].in.op = "create_rule" => rules'[req[r].row] # None
    BY WriteMoves
  <1>2. req[r] # None /\ req[r].at = "write" /\ dead' = dead /\ HeldTyped' /\ Open(r)
    BY WriteMoves DEF Open, Answers
  <1>3. to \in Steps \cup Answers
    BY DEF Steps, Answers
  <1>4. /\ req' \in [Reqs -> Request \cup {None}]
        /\ req'[r].at = to /\ req'[r].in = req[r].in
        /\ req'[r].got = req[r].got /\ req'[r].row = req[r].row
        /\ \A x \in Reqs \ {r} : req'[x] = req[x]
    BY <1>1, <1>2, <1>3, GoEffect DEF Inv, TypeOK
  <1>5. TablesTyped' /\ Keeps /\ Adds(r)
    BY WriteTables
  <1>6. TypeOK'
    BY <1>2, <1>4, <1>5 DEF Inv, TypeOK, TablesTyped, HeldTyped
  <1>7. Apart'
    BY <1>2, <1>4, ApartKept DEF Inv
  <1>8. \A x \in Reqs \ {r} : Stage(x)' /\ Has(x)' /\ Reserved(x)'
    BY <1>2, <1>4, <1>5, OthersKeep
  <1>9. Stage(r) /\ Has(r) /\ TablesTyped /\ req[r].in \in Inputs
    BY <1>2 DEF Inv, TypeOK, TablesTyped, Request
  <1>10. Stage(r)'
    BY <1>1, <1>2, <1>4, <1>9 DEF Stage
  <1>11. Reserved(r)'
    BY <1>1, <1>4 DEF Reserved, Open, Answers
  <1>12. Has(r)'
    <2>1. CASE req[r].in.op \in FlagOps
      <3>1. req[r].in.flag \in Flags
        BY <1>9, <2>1, InputFields
      <3>2. /\ flags[req[r].in.flag] # None /\ flags'[req[r].in.flag] # None
            /\ ProjectOf(req[r].in)' = ProjectOf(req[r].in)
            /\ ProjectOf(req[r].in) \in Projects
        BY <1>2, <1>4, <1>5, <1>9, <2>1, <3>1 DEF Has, Keeps, ProjectOf, TablesTyped, Flag
      <3>3. req[r].in.op = "delete_rule" => req[r].in.rule \in Rules
        BY <1>9, InputFields
      <3>4. req[r].in.op = "create_rule" /\ to = "refresh" => rules'[req[r].row] # None
        BY <1>1
      <3>5. req[r].in.op = "delete_rule" =>
               rules'[req[r].in.rule] # None /\ rules'[req[r].in.rule].flag_id = req[r].in.flag
        BY <1>2, <1>5, <1>9, <3>3 DEF Has, Keeps
      <3>6. LET p == ProjectOf(req[r].in) IN projects'[p] # None /\ projects'[p].owner_id = req[r].in.user
        BY <1>2, <1>5, <1>9, <2>1, <3>2 DEF Has, Keeps
      <3>7. req'[r].in.op # "revoke_key"
        BY <1>4, <2>1 DEF FlagOps
      <3> QED BY <1>4, <3>2, <3>4, <3>5, <3>6, <3>7 DEF Has
    <2>2. CASE req[r].in.op \notin FlagOps
      <3>1. req[r].in.op \in ProjectOps => req[r].in.project \in Projects
        BY <1>9, InputFields
      <3>2. req[r].in.op = "revoke_key" => req[r].in.key \in ApiKeys
        BY <1>9, InputFields
      <3> QED BY <1>2, <1>4, <1>5, <1>9, <2>2, <3>1, <3>2 DEF Has, Keeps, FlagOps, ProjectOf
    <2> QED BY <2>1, <2>2
  <1> QED BY <1>6, <1>7, <1>8, <1>10, <1>11, <1>12 DEF Inv

(* A read changes no table; it loads a row, moves on or ends the request.  *)
LEMMA ReadMoves ==
  ASSUME Inv, NEW r \in Reqs, Read(r)
  PROVE  /\ Open(r) /\ UNCHANGED tables /\ dead' = dead /\ HeldTyped'
         /\ \A x \in Reqs : held[x] \subseteq held'[x] \/ x = r
         /\ req' \in [Reqs -> Request \cup {None}]
         /\ req'[r].in = req[r].in /\ req'[r].row = req[r].row
         /\ \A x \in Reqs \ {r} : req'[x] = req[x]
         /\ Stage(r)' /\ Has(r)' /\ Reserved(r)'
  <1> DEFINE in == req[r].in
             at == req[r].at
  <1>1. req \in [Reqs -> Request \cup {None}] /\ HeldTyped /\ TablesTyped
    BY DEF Inv, TypeOK, HeldTyped, TablesTyped
  <1>2. req[r] # None /\ at \in Steps /\ Open(r) /\ in \in Inputs
    BY <1>1 DEF Read, ReadEmail, ReadSlug, ReadFlag, ReadProject, ReadName, ReadRule, ReadKey,
                Refresh, DatabaseError, At, Steps, Open, Answers, Request
  <1>3. Stage(r) /\ Has(r) /\ Reserved(r)
    BY DEF Inv
  <1>4. ASSUME NEW to \in Steps \cup Answers, Go(r, to), UNCHANGED <<tables, dead, held>>,
               to # "refresh", to # "flag", to # "email", to # "slug", to # "project",
               to = "name" => in.op = "create_flag",
               to = "rule" => in.op = "delete_rule",
               to = "key" => in.op = "revoke_key",
               to = "write" => in.op \notin Patches \/ req[r].got \in Cols,
               to \in {"name", "rule", "key", "write", "ok"} /\ in.op \in FlagOps \cup ProjectOps =>
                  /\ in.op \in FlagOps => flags[in.flag] # None
                  /\ projects[ProjectOf(in)] # None /\ projects[ProjectOf(in)].owner_id = in.user,
               to \in {"write", "ok"} /\ in.op = "delete_rule" =>
                  rules[in.rule] # None /\ rules[in.rule].flag_id = in.flag,
               to \in {"write", "ok"} /\ in.op = "revoke_key" =>
                  keys[in.key] # None /\ keys[in.key].project_id = in.project,
               to \in Answers \/ at # "refresh"
        PROVE  /\ Open(r) /\ UNCHANGED tables /\ dead' = dead /\ HeldTyped'
               /\ \A x \in Reqs : held[x] \subseteq held'[x] \/ x = r
               /\ req' \in [Reqs -> Request \cup {None}]
               /\ req'[r].in = req[r].in /\ req'[r].row = req[r].row
               /\ \A x \in Reqs \ {r} : req'[x] = req[x]
               /\ Stage(r)' /\ Has(r)' /\ Reserved(r)'
    <2>1. /\ req' \in [Reqs -> Request \cup {None}]
          /\ req'[r].at = to /\ req'[r].in = req[r].in
          /\ req'[r].got = req[r].got /\ req'[r].row = req[r].row
          /\ \A x \in Reqs \ {r} : req'[x] = req[x]
      BY <1>1, <1>2, <1>4, GoEffect
    <2>2. UNCHANGED <<users, projects, flags, rules, keys>> /\ HeldTyped'
      BY <1>1, <1>4 DEF tables, HeldTyped
    <2>3. Stage(r)'
      BY <1>2, <1>3, <1>4, <2>1 DEF Stage, Patches
    <2>4. Has(r)'
      <3>1. ProjectOf(in)' = ProjectOf(in)
        BY <2>1, <2>2 DEF ProjectOf
      <3> QED BY <1>4, <2>1, <2>2, <3>1 DEF Has
    <2>5. Reserved(r)'
      BY <1>2, <1>3, <1>4, <2>1, <2>2 DEF Reserved, Open
    <2> QED BY <1>2, <1>4, <2>1, <2>2, <2>3, <2>4, <2>5
  <1>5. CASE ReadEmail(r)
    BY <1>2, <1>3, <1>4, <1>5 DEF ReadEmail, At, Stage, Steps, Answers, FlagOps, ProjectOps, Patches
  <1>6. CASE ReadSlug(r)
    BY <1>2, <1>3, <1>4, <1>6 DEF ReadSlug, At, Stage, Steps, Answers, FlagOps, ProjectOps, Patches
  <1>7. CASE Refresh(r)
    BY <1>2, <1>3, <1>4, <1>7
       DEF Refresh, At, Stage, Has, Steps, Answers, FlagOps, ProjectOps, Patches, Creators
  <1>8. CASE ReadName(r)
    BY <1>2, <1>3, <1>4, <1>8
       DEF ReadName, At, Stage, Has, Steps, Answers, FlagOps, ProjectOps, Patches
  <1>9. CASE ReadRule(r)
    BY <1>2, <1>3, <1>4, <1>9
       DEF ReadRule, IsRuleOf, At, Stage, Has, Steps, Answers, FlagOps, ProjectOps, Patches
  <1>10. CASE ReadKey(r)
    BY <1>2, <1>3, <1>4, <1>10
       DEF ReadKey, At, Stage, Has, Steps, Answers, FlagOps, ProjectOps, Patches
  <1>11. ASSUME NEW to \in {"project", "write"}, NEW cols \in Cols, Load(r, cols, to),
                UNCHANGED <<tables, dead>>, in.op \in Patches,
                at # "refresh",
                in.op = "update_flag" => flags[in.flag] # None /\ to = "project",
                in.op = "update_project" =>
                   /\ to = "write"
                   /\ projects[in.project] # None /\ projects[in.project].owner_id = in.user
         PROVE  /\ Open(r) /\ UNCHANGED tables /\ dead' = dead /\ HeldTyped'
                /\ \A x \in Reqs : held[x] \subseteq held'[x] \/ x = r
                /\ req' \in [Reqs -> Request \cup {None}]
                /\ req'[r].in = req[r].in /\ req'[r].row = req[r].row
                /\ \A x \in Reqs \ {r} : req'[x] = req[x]
                /\ Stage(r)' /\ Has(r)' /\ Reserved(r)'
    <2>1. to \in Steps \cup Answers
      BY DEF Steps
    <2>2. /\ req' \in [Reqs -> Request \cup {None}]
          /\ req'[r].at = to /\ req'[r].in = req[r].in
          /\ req'[r].got = cols /\ req'[r].row = req[r].row
          /\ \A x \in Reqs \ {r} : req'[x] = req[x]
      BY <1>1, <1>2, <1>11, <2>1, LoadEffect
    <2>3. UNCHANGED <<users, projects, flags, rules, keys>>
      BY <1>11 DEF tables
    <2>4. HeldTyped' /\ \A x \in Reqs : held[x] \subseteq held'[x] \/ x = r
      <3>1. Cells(cols) \subseteq Columns \X (Values \cup {None})
        BY CellsTyped DEF Cols
      <3> QED BY <1>1, <1>11, <3>1 DEF Load, HeldTyped
    <2>5. Stage(r)'
      BY <1>3, <1>11, <2>2, <1>2 DEF Stage, Patches, FlagOps, ProjectOps
    <2>6. Has(r)'
      BY <1>11, <2>2, <2>3 DEF Has, Patches, FlagOps, ProjectOps, ProjectOf
    <2>7. Reserved(r)'
      BY <1>11, <2>2 DEF Reserved, Patches
    <2> QED BY <1>2, <1>11, <2>2, <2>4, <2>5, <2>6, <2>7
  <1>12. CASE ReadFlag(r)
    <2>1. in.op \in FlagOps /\ in.flag \in Flags /\ at = "flag"
      BY <1>2, <1>3, <1>12, InputFields DEF ReadFlag, At, Stage
    <2>2. CASE flags[in.flag] # None /\ ~flags[in.flag].is_archived
      <3>1. flags[in.flag].cols \in Cols
        BY <1>1, <2>1, <2>2 DEF TablesTyped, Flag
      <3>2. Load(r, flags[in.flag].cols, "project") /\ UNCHANGED <<tables, dead>>
        BY <1>12, <2>2 DEF ReadFlag
      <3>3. CASE in.op \in Patches
        BY <1>11, <2>1, <2>2, <3>1, <3>2, <3>3 DEF Patches, FlagOps
      <3>4. CASE in.op \notin Patches
        <4>1. "project" \in Steps \cup Answers
          BY DEF Steps
        <4>2. /\ req' \in [Reqs -> Request \cup {None}]
              /\ req'[r].at = "project" /\ req'[r].in = req[r].in /\ req'[r].row = req[r].row
              /\ \A x \in Reqs \ {r} : req'[x] = req[x]
          BY <1>1, <1>2, <3>1, <3>2, <4>1, LoadEffect
        <4>3. UNCHANGED <<users, projects, flags, rules, keys>>
          BY <3>2 DEF tables
        <4>4. HeldTyped' /\ \A x \in Reqs : held[x] \subseteq held'[x] \/ x = r
          <5>1. Cells(flags[in.flag].cols) \subseteq Columns \X (Values \cup {None})
            BY <3>1, CellsTyped DEF Cols
          <5> QED BY <1>1, <3>2, <5>1 DEF Load, HeldTyped
        <4>5. Stage(r)'
          BY <1>2, <1>3, <2>1, <3>4, <4>2 DEF Stage, Patches
        <4>6. Has(r)'
          BY <2>1, <2>2, <4>2, <4>3 DEF Has, FlagOps
        <4>7. Reserved(r)'
          BY <1>2, <1>3, <2>1, <4>2, <4>3 DEF Reserved, Open
        <4> QED BY <1>2, <3>2, <4>2, <4>4, <4>5, <4>6, <4>7
      <3> QED BY <3>3, <3>4
    <2>3. CASE ~(flags[in.flag] # None /\ ~flags[in.flag].is_archived)
      <3>1. Go(r, "not_found") /\ UNCHANGED <<tables, dead, held>>
        BY <1>12, <2>3 DEF ReadFlag
      <3> QED BY <1>4, <2>1, <3>1 DEF Steps, Answers
    <2> QED BY <2>2, <2>3
  <1>13. CASE ReadProject(r)
    <2> DEFINE p == ProjectOf(in)
    <2>1. in.op \in FlagOps \cup ProjectOps /\ at = "project"
      BY <1>2, <1>3, <1>13 DEF ReadProject, At, Stage
    <2>2. p \in Projects /\ (in.op \in FlagOps => flags[in.flag] # None)
      BY <1>1, <1>2, <1>3, <2>1, InputFields DEF Has, ProjectOf, TablesTyped, Flag
    <2>3. CASE Owned(projects[p], in.user) /\ in.op = "update_project"
      <3>1. projects[p].cols \in Cols
        BY <1>1, <2>2, <2>3 DEF Owned, TablesTyped, Project
      <3>2. Load(r, projects[p].cols, "write") /\ UNCHANGED <<tables, dead>>
        BY <1>13, <2>3 DEF ReadProject
      <3>3. p = in.project
        BY <2>3 DEF ProjectOf, FlagOps
      <3> QED BY <1>11, <2>1, <2>3, <3>1, <3>2, <3>3 DEF Patches, Owned
    <2>4. CASE Owned(projects[p], in.user) /\ in.op # "update_project"
      <3>1. Go(r, AfterProject(in.op)) /\ UNCHANGED <<tables, dead, held>>
        BY <1>13, <2>4 DEF ReadProject
      <3>2. /\ AfterProject(in.op) \in {"name", "rule", "key", "write"}
            /\ AfterProject(in.op) = "name" => in.op = "create_flag"
            /\ AfterProject(in.op) = "rule" => in.op = "delete_rule"
            /\ AfterProject(in.op) = "key" => in.op = "revoke_key"
            /\ AfterProject(in.op) = "write" => in.op \notin {"delete_rule", "revoke_key"}
        BY DEF AfterProject
      <3>3. in.op \in Patches => req[r].got \in Cols
        BY <1>2, <1>3, <2>1, <2>4 DEF Stage, Patches
      <3> HIDE DEF p
      <3>4. p = ProjectOf(in)
        BY DEF p
      <3> QED BY <1>4, <2>1, <2>2, <2>4, <3>1, <3>2, <3>3, <3>4 DEF Owned, Steps, Answers
    <2>5. CASE ~Owned(projects[p], in.user)
      <3>1. Go(r, "not_found") /\ UNCHANGED <<tables, dead, held>>
        BY <1>13, <2>5 DEF ReadProject
      <3> QED BY <1>4, <2>1, <3>1 DEF Steps, Answers
    <2> QED BY <2>3, <2>4, <2>5
  <1>14. CASE DatabaseError(r)
    BY <1>4, <1>14 DEF DatabaseError, Answers, Steps
  <1> QED BY <1>5, <1>6, <1>7, <1>8, <1>9, <1>10, <1>12, <1>13, <1>14 DEF Read

LEMMA ReadInv == ASSUME Inv, NEW r \in Reqs, Read(r) PROVE Inv'
  <1>1. /\ Open(r) /\ UNCHANGED tables /\ dead' = dead /\ HeldTyped'
        /\ req' \in [Reqs -> Request \cup {None}]
        /\ req'[r].row = req[r].row
        /\ \A x \in Reqs \ {r} : req'[x] = req[x]
        /\ Stage(r)' /\ Has(r)' /\ Reserved(r)'
    BY ReadMoves
  <1>2. TablesTyped' /\ Keeps /\ Adds(r)
    BY <1>1, StandStill DEF Inv
  <1>3. TypeOK'
    BY <1>1, <1>2 DEF Inv, TypeOK, TablesTyped, HeldTyped
  <1>4. Apart'
    BY <1>1, ApartKept DEF Inv
  <1>5. \A x \in Reqs \ {r} : Stage(x)' /\ Has(x)' /\ Reserved(x)'
    BY <1>1, <1>2, OthersKeep
  <1> QED BY <1>1, <1>3, <1>4, <1>5 DEF Inv

LEMMA ReceiveMoves ==
  ASSUME Inv, NEW r \in Reqs, NEW in \in Inputs, NEW id \in Unused(in.op), Receive(r, in, id)
  PROVE  /\ ~Open(r) /\ UNCHANGED tables
         /\ dead' = [dead EXCEPT ![r] = Deleted] /\ held' = [held EXCEPT ![r] = {}]
         /\ req'[r].in = in /\ req'[r].at = First(in.op) /\ req'[r].row = id
         /\ \A x \in Reqs \ {r} : req'[x] = req[x]
         /\ req' \in [Reqs -> Request \cup {None}]
  <1> DEFINE new == [in |-> in, at |-> First(in.op), got |-> None, row |-> id]
  <1>1. req' = [req EXCEPT ![r] = new] /\ req \in [Reqs -> Request \cup {None}]
    BY DEF Receive, Inv, TypeOK
  <1>2. First(in.op) \in Steps \cup Answers
    BY DEF First, Steps
  <1>3. id \in Users \cup Projects \cup Flags \cup Rules \cup ApiKeys \cup {None}
    BY DEF Unused
  <1>4. new \in Request
    BY <1>2, <1>3 DEF Request
  <1>5. new.in = in /\ new.at = First(in.op) /\ new.row = id
    OBVIOUS
  <1> HIDE DEF new
  <1> QED BY <1>1, <1>4, <1>5 DEF Receive

LEMMA ReceiveInv ==
  ASSUME Inv, NEW r \in Reqs, NEW in \in Inputs, NEW id \in Unused(in.op), Receive(r, in, id)
  PROVE  Inv'
  <1>1. /\ ~Open(r) /\ UNCHANGED tables
        /\ dead' = [dead EXCEPT ![r] = Deleted] /\ held' = [held EXCEPT ![r] = {}]
        /\ req'[r].in = in /\ req'[r].at = First(in.op) /\ req'[r].row = id
        /\ \A x \in Reqs \ {r} : req'[x] = req[x]
        /\ req' \in [Reqs -> Request \cup {None}]
    BY ReceiveMoves
  <1>2. UNCHANGED <<users, projects, flags, rules, keys>>
    BY <1>1 DEF tables
  <1>3. Deleted \subseteq Projects \cup Flags
    BY DEF Deleted
  <1>4. TypeOK'
    BY <1>1, <1>2, <1>3 DEF Inv, TypeOK
  <1>5. First(in.op) \in {"email", "slug", "flag", "project"}
        /\ (First(in.op) = "email" => in.op = "register")
        /\ (First(in.op) = "slug" => in.op = "create_project")
        /\ (First(in.op) = "flag" <=> in.op \in FlagOps)
        /\ (First(in.op) = "project" => in.op \in ProjectOps)
    BY InputFields DEF First, FlagOps, ProjectOps, Ops
  <1>6. /\ in.op = "register" => id \in Users /\ users[id] = None
        /\ in.op = "create_project" => id \in Projects /\ projects[id] = None
        /\ in.op = "create_flag" => id \in Flags /\ flags[id] = None
        /\ in.op = "create_rule" => id \in Rules /\ rules[id] = None
        /\ in.op = "generate_key" => id \in ApiKeys /\ keys[id] = None
    BY DEF Unused
  <1>7. Stage(r)'
    BY <1>1, <1>5, <1>6 DEF Stage, FlagOps, ProjectOps
  <1>8. Has(r)' /\ Reserved(r)'
    BY <1>1, <1>2, <1>5, <1>6 DEF Has, Reserved, FlagOps
  <1>9. \A x \in Reqs \ {r} : Stage(x)' /\ Has(x)' /\ Reserved(x)'
    BY <1>1, <1>2 DEF Inv, Stage, Has, Reserved, Open, ProjectOf
  <1>10. Apart'
    <2>1. id # None => \A x \in Reqs : Open(x) => req[x].row # id
      BY DEF Receive
    <2> QED BY <1>1, <2>1 DEF Inv, Apart, Open
  <1> QED BY <1>4, <1>7, <1>8, <1>9, <1>10 DEF Inv

LEMMA InvNext == ASSUME Inv, [Next]_vars PROVE Inv'
  <1>1. ASSUME NEW r \in Reqs, NEW in \in Inputs, NEW id \in Unused(in.op), Receive(r, in, id)
        PROVE  Inv'
    BY <1>1, ReceiveInv
  <1>2. CASE UNCHANGED vars
    BY <1>2 DEF vars, tables, Inv, TypeOK, Apart, Stage, Has, Reserved, Open, ProjectOf
  <1> QED BY <1>1, <1>2, ReadInv, WriteInv DEF Next

LEMMA Invariant == Spec => []Inv
  BY InvInit, InvNext, PTL DEF Spec

(* The tables and requests keep their shape, and no PATCH puts a null into *)
(* a column that has none.                                                 *)
THEOREM ControlTypeCorrect == Spec => []TypeOK
  <1>1. Inv => TypeOK
    BY DEF Inv
  <1> QED BY <1>1, Invariant, PTL

(***************************************************************************)
(* Every step: rows stay, and only one request moves.                      *)
(***************************************************************************)

LEMMA StepKeeps == ASSUME Inv, [Next]_vars PROVE Keeps
  <1>1. ASSUME NEW r \in Reqs, Read(r) PROVE Keeps
    BY <1>1, ReadMoves, StandStill DEF Inv
  <1>2. ASSUME NEW r \in Reqs, Write(r) PROVE Keeps
    BY <1>2, WriteTables
  <1>3. ASSUME NEW r \in Reqs, NEW in \in Inputs, NEW id \in Unused(in.op), Receive(r, in, id)
        PROVE  Keeps
    BY <1>3, ReceiveMoves, StandStill DEF Inv
  <1>4. CASE UNCHANGED vars
    BY <1>4, StandStill DEF Inv, vars
  <1> QED BY <1>1, <1>2, <1>3, <1>4 DEF Next

(* Checks and inserts race, but names stay unique. *)
LEMMA UniqueNext == ASSUME Inv, UniqueRows, [Next]_vars PROVE UniqueRows'
  <1> USE DEF UniqueRows, NoTwins
  <1>1. CASE UNCHANGED tables
    BY <1>1 DEF tables
  <1>2. ASSUME NEW r \in Reqs, Write(r) PROVE UniqueRows'
    <2>1. Keeps /\ Adds(r) /\ TablesTyped /\ Stage(r) /\ TablesTyped' /\ req[r] # None
      BY <1>2, WriteTables, WriteMoves DEF Inv, TypeOK, TablesTyped
    <2>2. CASE Register(r)
      BY <2>1, <2>2 DEF Register, TablesTyped, Stage, Writing, At
    <2>3. CASE CreateProject(r)
      <3> DEFINE new == [owner_id |-> req[r].in.user, slug |-> Normal[req[r].in.name],
                         is_active |-> TRUE, cols |-> Fresh]
      <3>1. CASE ~req[r].in.fits \/ TakenSlug(Normal[req[r].in.name])
        BY <2>3, <3>1 DEF CreateProject
      <3>2. CASE req[r].in.fits /\ ~TakenSlug(Normal[req[r].in.name])
        <4>1. projects' = [projects EXCEPT ![req[r].row] = new] /\ UNCHANGED <<users, flags>>
          BY <2>3, <3>2 DEF CreateProject
        <4>2. new.slug = Normal[req[r].in.name]
          OBVIOUS
        <4> HIDE DEF new
        <4>3. \A p \in Projects : projects[p] # None => projects[p].slug # new.slug
          BY <3>2, <4>2 DEF TakenSlug
        <4> QED BY <2>1, <4>1, <4>3 DEF TablesTyped
      <3> QED BY <3>1, <3>2
    <2>4. CASE CreateFlag(r)
      <3> DEFINE new == [project_id |-> req[r].in.project, name |-> req[r].in.name,
                         is_archived |-> FALSE, cols |-> Fresh]
      <3>1. CASE ~req[r].in.fits \/ TakenName(req[r].in.project, req[r].in.name)
        BY <2>4, <3>1 DEF CreateFlag
      <3>2. CASE req[r].in.fits /\ ~TakenName(req[r].in.project, req[r].in.name)
        <4>1. flags' = [flags EXCEPT ![req[r].row] = new] /\ UNCHANGED <<users, projects>>
          BY <2>4, <3>2 DEF CreateFlag
        <4>2. new.project_id = req[r].in.project /\ new.name = req[r].in.name
          OBVIOUS
        <4> HIDE DEF new
        <4>3. \A f \in Flags : flags[f] # None =>
                 flags[f].project_id # new.project_id \/ flags[f].name # new.name
          BY <3>2, <4>2 DEF TakenName
        <4> QED BY <2>1, <4>1, <4>3 DEF TablesTyped
      <3> QED BY <3>1, <3>2
    <2>5. CASE ~Register(r) /\ ~CreateProject(r) /\ ~CreateFlag(r)
      <3>1. req[r].in.op \notin {"register", "create_project", "create_flag"}
        BY <1>2, <2>5 DEF Write, Writing, UpdateProject, DeleteProject, UpdateFlag, DeleteFlag,
                          CreateRule, DeleteRule, GenerateKey, RevokeKey
      <3>2. /\ \A u \in Users : users'[u] = users[u]
            /\ \A p \in Projects : projects'[p] = None <=> projects[p] = None
            /\ \A f \in Flags : flags'[f] = None <=> flags[f] = None
        BY <2>1, <3>1 DEF Keeps, Adds, TablesTyped
      <3> QED BY <2>1, <3>2 DEF Keeps
    <2> QED BY <2>2, <2>3, <2>4, <2>5
  <1>3. ASSUME NEW r \in Reqs, Read(r) PROVE UNCHANGED tables
    BY <1>3, ReadMoves
  <1>4. ASSUME NEW r \in Reqs, NEW in \in Inputs, NEW id \in Unused(in.op), Receive(r, in, id)
        PROVE  UNCHANGED tables
    BY <1>4 DEF Receive
  <1>5. CASE UNCHANGED vars
    BY <1>1, <1>5 DEF vars
  <1> QED BY <1>1, <1>2, <1>3, <1>4, <1>5 DEF Next

(* Whatever requests race to create, a lookup by name finds one row.       *)
THEOREM NamesStayUnique == Spec => []UniqueRows
  <1>1. Init => UniqueRows
    BY SeedRows DEF Init, SeedRows, UniqueRows
  <1>2. Inv /\ UniqueRows /\ [Next]_vars => UniqueRows'
    BY UniqueNext
  <1> QED BY <1>1, <1>2, Invariant, PTL DEF Spec

(***************************************************************************)
(* What was answered stays true.                                           *)
(***************************************************************************)

DeleteHolds(r) ==
  At(r, "ok") =>
     LET in == req[r].in IN
     /\ in.op = "delete_project" => ~projects[in.project].is_active
     /\ in.op = "delete_flag" => flags[in.flag].is_archived
     /\ in.op = "delete_rule" => rules[in.rule].gone
     /\ in.op = "revoke_key" => ~keys[in.key].is_active

(* A request that does not move keeps its answer, whatever the others do.  *)
LEMMA DeleteHoldsOn ==
  ASSUME Inv, Keeps, NEW x \in Reqs, req'[x] = req[x], DeleteHolds(x)
  PROVE  DeleteHolds(x)'
  <1> SUFFICES ASSUME At(x, "ok") PROVE DeleteHolds(x)'
    BY DEF DeleteHolds, At
  <1>1. req[x].in \in Inputs /\ Has(x)
    BY DEF Inv, TypeOK, Request, At
  <1>2. CASE req[x].in.op = "delete_project"
    BY <1>1, <1>2, InputFields DEF DeleteHolds, Has, Keeps, At, ProjectOf, ProjectOps, FlagOps
  <1>3. CASE req[x].in.op = "delete_flag"
    BY <1>1, <1>3, InputFields DEF DeleteHolds, Has, Keeps, At, FlagOps
  <1>4. CASE req[x].in.op = "delete_rule"
    BY <1>1, <1>4, InputFields DEF DeleteHolds, Has, Keeps, At
  <1>5. CASE req[x].in.op = "revoke_key"
    BY <1>1, <1>5, InputFields DEF DeleteHolds, Has, Keeps, At
  <1> QED BY <1>2, <1>3, <1>4, <1>5 DEF DeleteHolds

LEMMA DeleteHoldsWrite ==
  ASSUME Inv, NEW r \in Reqs, Write(r)
  PROVE  DeleteHolds(r)'
  <1>1. /\ req[r] # None /\ req[r].at = "write" /\ TablesTyped /\ Has(r)
        /\ req \in [Reqs -> Request \cup {None}] /\ req[r].in \in Inputs
    BY WriteMoves DEF Inv, TypeOK, TablesTyped, Request
  <1>2. ASSUME NEW to \in {"refresh", "ok", "error"}, Go(r, to)
        PROVE  req'[r].in = req[r].in /\ req'[r].at = to
    BY <1>1, <1>2, GoEffect DEF Steps, Answers
  <1>3. CASE DeleteProject(r)
    <2>1. req[r].in.project \in Projects /\ projects[req[r].in.project] \in Project
      BY <1>1, <1>3, InputFields
         DEF DeleteProject, Writing, At, Has, ProjectOf, ProjectOps, FlagOps, TablesTyped
    <2>2. ~projects'[req[r].in.project].is_active
      BY <1>1, <1>3, <2>1 DEF DeleteProject, TablesTyped, Project
    <2> QED BY <1>2, <1>3, <2>2 DEF DeleteProject, Done, Writing, DeleteHolds
  <1>4. CASE DeleteFlag(r)
    <2>1. req[r].in.flag \in Flags /\ flags[req[r].in.flag] \in Flag
      BY <1>1, <1>4, InputFields DEF DeleteFlag, Writing, At, Has, FlagOps, TablesTyped
    <2>2. flags'[req[r].in.flag].is_archived
      BY <1>1, <1>4, <2>1 DEF DeleteFlag, TablesTyped, Flag
    <2> QED BY <1>2, <1>4, <2>2 DEF DeleteFlag, Done, Writing, DeleteHolds
  <1>5. CASE DeleteRule(r)
    <2>1. req[r].in.rule \in Rules /\ rules[req[r].in.rule] \in Rule
      BY <1>1, <1>5, InputFields DEF DeleteRule, Writing, At, Has, TablesTyped
    <2>2. rules'[req[r].in.rule].gone
      BY <1>1, <1>5, <2>1 DEF DeleteRule, TablesTyped, Rule
    <2> QED BY <1>2, <1>5, <2>2 DEF DeleteRule, Done, Writing, DeleteHolds
  <1>6. CASE RevokeKey(r)
    <2>1. req[r].in.key \in ApiKeys /\ keys[req[r].in.key] \in ApiKey
      BY <1>1, <1>6, InputFields DEF RevokeKey, Writing, At, Has, TablesTyped
    <2>2. ~keys'[req[r].in.key].is_active
      BY <1>1, <1>6, <2>1 DEF RevokeKey, TablesTyped, ApiKey
    <2> QED BY <1>2, <1>6, <2>2 DEF RevokeKey, Done, Writing, DeleteHolds
  <1>7. CASE ~DeleteProject(r) /\ ~DeleteFlag(r) /\ ~DeleteRule(r) /\ ~RevokeKey(r)
    <2>1. \E to \in {"refresh", "error"} : Go(r, to)
      BY <1>7 DEF Write, Register, CreateProject, UpdateProject, CreateFlag, UpdateFlag,
                  CreateRule, GenerateKey
    <2> QED BY <1>2, <2>1 DEF DeleteHolds, At
  <1> QED BY <1>3, <1>4, <1>5, <1>6, <1>7

(* A read that ends a request with success has read its answer back. *)
LEMMA ReadOk ==
  ASSUME Inv, NEW r \in Reqs, Read(r), req'[r].at \in {"ok", "refresh"}
  PROVE  Refresh(r) /\ req[r].in.op \in Creators \cup Patches
  <1>1. req \in [Reqs -> Request \cup {None}] /\ Stage(r) /\ TablesTyped
    BY DEF Inv, TypeOK, TablesTyped
  <1>2. ASSUME NEW to \in (Steps \cup Answers) \ {"ok", "refresh"}, req[r] # None, Go(r, to)
        PROVE  FALSE
    BY <1>1, <1>2, GoEffect
  <1>3. ASSUME NEW to \in {"project", "write"}, NEW cols, req[r] # None, Load(r, cols, to)
        PROVE  FALSE
    BY <1>1, <1>3 DEF Load, Request
  <1>4. ~ReadEmail(r) /\ ~ReadSlug(r) /\ ~ReadName(r) /\ ~ReadRule(r) /\ ~ReadKey(r)
    BY <1>2 DEF ReadEmail, ReadSlug, ReadName, ReadRule, ReadKey, At, Steps, Answers
  <1>5. ~ReadFlag(r)
    BY <1>2, <1>3 DEF ReadFlag, At, Steps, Answers
  <1>6. ~ReadProject(r)
    <2>1. \A op : AfterProject(op) \in (Steps \cup Answers) \ {"ok", "refresh"}
      BY DEF AfterProject, Steps
    <2> QED BY <1>2, <1>3, <2>1 DEF ReadProject, At, Steps, Answers
  <1>7. ~DatabaseError(r)
    BY <1>2 DEF DatabaseError, Open, Answers
  <1> QED BY <1>1, <1>4, <1>5, <1>6, <1>7 DEF Read, Refresh, At, Stage

LEMMA DeletesNext == ASSUME Inv, DeletesHold, [Next]_vars PROVE DeletesHold'
  <1>0. Keeps /\ \A x \in Reqs : DeleteHolds(x)
    BY StepKeeps DEF DeletesHold, DeleteHolds
  <1>1. ASSUME NEW r \in Reqs, DeleteHolds(r)', \A x \in Reqs \ {r} : req'[x] = req[x]
        PROVE  DeletesHold'
    BY <1>0, <1>1, DeleteHoldsOn DEF DeletesHold, DeleteHolds
  <1>2. ASSUME NEW r \in Reqs, Write(r) PROVE DeletesHold'
    <2>1. \A x \in Reqs \ {r} : req'[x] = req[x]
      BY <1>2, WriteMoves DEF Go, Inv, TypeOK
    <2> QED BY <1>1, <1>2, <2>1, DeleteHoldsWrite
  <1>3. ASSUME NEW r \in Reqs, Read(r) PROVE DeletesHold'
    <2>1. DeleteHolds(r)'
      BY <1>3, ReadOk, ReadMoves DEF DeleteHolds, At, Creators, Patches
    <2> QED BY <1>1, <1>3, <2>1, ReadMoves
  <1>4. ASSUME NEW r \in Reqs, NEW in \in Inputs, NEW id \in Unused(in.op), Receive(r, in, id)
        PROVE  DeletesHold'
    <2>1. req'[r].at # "ok" /\ \A x \in Reqs \ {r} : req'[x] = req[x]
      BY <1>4, ReceiveMoves DEF First
    <2> QED BY <1>1, <2>1 DEF DeleteHolds, At
  <1>5. CASE UNCHANGED vars
    BY <1>0, <1>5, DeleteHoldsOn DEF vars, DeletesHold, DeleteHolds
  <1> QED BY <1>2, <1>3, <1>4, <1>5 DEF Next

(* What was answered as deleted is deleted for good.                       *)
THEOREM DeletesStay == Spec => []DeletesHold
  <1>1. Init => DeletesHold
    BY DEF Init, DeletesHold, At
  <1>2. Inv /\ DeletesHold /\ [Next]_vars => DeletesHold'
    BY DeletesNext
  <1> QED BY <1>1, <1>2, Invariant, PTL DEF Spec

(***************************************************************************)
(* What a step changes.                                                    *)
(***************************************************************************)

(* A write changes its own flag and project and nothing else. *)
LEMMA WriteTouches ==
  ASSUME Inv, NEW r \in Reqs, Write(r)
  PROVE  LET in == req[r].in row == req[r].row IN
         /\ \A f \in TouchedFlags : \/ in.op \in FlagOps /\ f = in.flag
                                    \/ in.op = "create_flag" /\ f = row
         /\ \A p \in Touched :
               \/ in.op \in FlagOps \cup ProjectOps /\ p = ProjectOf(in)
               \/ in.op = "create_project" /\ p = row /\ projects'[p].owner_id = in.user
  <1> DEFINE in == req[r].in
             row == req[r].row
  <1>1. /\ req \in [Reqs -> Request \cup {None}] /\ req[r] # None /\ req[r].at = "write"
        /\ in \in Inputs /\ TablesTyped /\ Stage(r) /\ Has(r) /\ Keeps
    BY WriteMoves, WriteTables DEF Inv, TypeOK, TablesTyped, Request
  <1> HIDE DEF in
  <1>2. CASE Register(r)
    BY <1>2 DEF Register, Touched, TouchedFlags
  <1>3. CASE CreateProject(r)
    <2> DEFINE new == [owner_id |-> in.user, slug |-> Normal[in.name], is_active |-> TRUE,
                       cols |-> Fresh]
    <2>1. /\ in.op = "create_project" /\ UNCHANGED <<flags, rules, keys>>
          /\ projects' = projects \/ projects' = [projects EXCEPT ![row] = new]
      BY <1>3 DEF CreateProject, Writing, in
    <2>2. new.owner_id = in.user
      OBVIOUS
    <2> HIDE DEF new
    <2>3. row \in Projects
      BY <1>1, <2>1 DEF Stage, in
    <2>4. TouchedFlags = {}
      BY <2>1 DEF TouchedFlags
    <2>5. \A p \in Touched : p \in Projects /\ projects'[p] # projects[p]
      BY <2>1, <2>4 DEF Touched
    <2>6. \A p \in Touched : p = row /\ projects'[p].owner_id = in.user
      BY <1>1, <2>1, <2>2, <2>3, <2>5 DEF TablesTyped
    <2> QED BY <2>1, <2>4, <2>6 DEF in
  <1>4. CASE CreateFlag(r)
    <2> DEFINE new == [project_id |-> in.project, name |-> in.name, is_archived |-> FALSE,
                       cols |-> Fresh]
    <2>1. /\ in.op = "create_flag" /\ UNCHANGED <<projects, rules, keys>>
          /\ flags' = flags \/ flags' = [flags EXCEPT ![row] = new]
      BY <1>4 DEF CreateFlag, Writing, in
    <2>2. new.project_id = in.project
      OBVIOUS
    <2> HIDE DEF new
    <2>3. ProjectOf(in) = in.project /\ in.op \in ProjectOps
      BY <2>1 DEF ProjectOf, FlagOps, ProjectOps
    <2>4. row \in Flags
      BY <1>1, <2>1 DEF Stage, in
    <2>5. \A f \in TouchedFlags : f = row /\ flags'[f].project_id = in.project
      BY <1>1, <2>1, <2>2, <2>4 DEF TouchedFlags, TablesTyped
    <2>6. \A p \in Touched : p = in.project
      BY <2>1, <2>5 DEF Touched
    <2> QED BY <2>1, <2>3, <2>5, <2>6 DEF in
  <1>5. CASE UpdateProject(r) \/ DeleteProject(r)
    <2>1. /\ in.op \in {"update_project", "delete_project"} /\ UNCHANGED <<flags, rules, keys>>
          /\ \A p \in Projects : p # in.project => projects'[p] = projects[p]
      BY <1>1, <1>5 DEF UpdateProject, DeleteProject, Writing, in, TablesTyped
    <2>2. ProjectOf(in) = in.project /\ in.op \in ProjectOps
      BY <2>1 DEF ProjectOf, FlagOps, ProjectOps
    <2>3. TouchedFlags = {}
      BY <2>1 DEF TouchedFlags
    <2>4. \A p \in Touched : p = in.project
      BY <2>1, <2>3 DEF Touched
    <2> QED BY <2>2, <2>3, <2>4 DEF in
  <1>6. CASE UpdateFlag(r) \/ DeleteFlag(r)
    <2>1. /\ in.op \in {"update_flag", "delete_flag"} /\ UNCHANGED <<projects, rules, keys>>
          /\ \A f \in Flags : f # in.flag => flags'[f] = flags[f]
      BY <1>1, <1>6 DEF UpdateFlag, DeleteFlag, Writing, in, TablesTyped
    <2>2. in.op \in FlagOps /\ ProjectOf(in) = flags[in.flag].project_id
      BY <2>1 DEF ProjectOf, FlagOps
    <2>3. in.flag \in Flags /\ flags'[in.flag].project_id = flags[in.flag].project_id
      BY <1>1, <2>2, InputFields DEF Has, Keeps, in
    <2>4. \A f \in TouchedFlags : f = in.flag
      BY <2>1 DEF TouchedFlags
    <2>5. \A p \in Touched : p = ProjectOf(in)
      BY <2>1, <2>2, <2>3, <2>4 DEF Touched
    <2> QED BY <2>2, <2>4, <2>5 DEF in
  <1>7. CASE CreateRule(r) \/ DeleteRule(r)
    <2>1. /\ in.op \in {"create_rule", "delete_rule"} /\ UNCHANGED <<projects, flags, keys>>
      BY <1>7 DEF CreateRule, DeleteRule, Writing, in
    <2>2. in.op \in FlagOps /\ ProjectOf(in) = flags[in.flag].project_id
      BY <2>1 DEF ProjectOf, FlagOps
    <2>3. \A i \in Rules : rules'[i] # rules[i] => rules'[i].flag_id = in.flag
      <3>1. CASE CreateRule(r)
        <4> DEFINE new == [flag_id |-> in.flag, gone |-> FALSE]
        <4>1. rules' = rules \/ rules' = [rules EXCEPT ![row] = new]
          BY <3>1 DEF CreateRule, in
        <4>2. new.flag_id = in.flag
          OBVIOUS
        <4> HIDE DEF new
        <4> QED BY <1>1, <4>1, <4>2 DEF TablesTyped
      <3>2. CASE DeleteRule(r)
        <4>1. in.op = "delete_rule" /\ rules' = [rules EXCEPT ![in.rule].gone = TRUE]
          BY <3>2 DEF DeleteRule, Writing, in
        <4>2. /\ in.rule \in Rules /\ rules[in.rule] # None /\ rules[in.rule].flag_id = in.flag
          BY <1>1, <4>1, InputFields DEF Has, in
        <4>3. rules'[in.rule].flag_id = in.flag
          BY <1>1, <4>2 DEF Keeps
        <4>4. \A i \in Rules : i # in.rule => rules'[i] = rules[i]
          BY <1>1, <4>1 DEF TablesTyped
        <4> QED BY <4>3, <4>4
      <3> QED BY <1>7, <3>1, <3>2
    <2>4. \A f \in TouchedFlags : f = in.flag
      BY <2>1, <2>3 DEF TouchedFlags
    <2>5. \A p \in Touched : p = ProjectOf(in)
      BY <2>1, <2>2, <2>4 DEF Touched
    <2> QED BY <2>2, <2>4, <2>5 DEF in
  <1>8. CASE GenerateKey(r) \/ RevokeKey(r)
    <2>1. /\ in.op \in {"generate_key", "revoke_key"} /\ UNCHANGED <<projects, flags, rules>>
      BY <1>8 DEF GenerateKey, RevokeKey, Writing, in
    <2>2. in.op \in ProjectOps /\ ProjectOf(in) = in.project
      BY <2>1 DEF ProjectOf, FlagOps, ProjectOps
    <2>3. \A k \in ApiKeys : keys'[k] # keys[k] => keys'[k].project_id = in.project
      <3>1. CASE GenerateKey(r)
        <4> DEFINE new == [project_id |-> in.project, is_active |-> TRUE]
        <4>1. keys' = keys \/ keys' = [keys EXCEPT ![row] = new]
          BY <3>1 DEF GenerateKey, in
        <4>2. new.project_id = in.project
          OBVIOUS
        <4> HIDE DEF new
        <4> QED BY <1>1, <4>1, <4>2 DEF TablesTyped
      <3>2. CASE RevokeKey(r)
        <4>1. in.op = "revoke_key" /\ keys' = [keys EXCEPT ![in.key].is_active = FALSE]
          BY <3>2 DEF RevokeKey, Writing, in
        <4>2. /\ in.key \in ApiKeys /\ keys[in.key] # None /\ keys[in.key].project_id = in.project
          BY <1>1, <4>1, InputFields DEF Has, in
        <4>3. keys'[in.key].project_id = in.project
          BY <1>1, <4>2 DEF Keeps
        <4>4. \A k \in ApiKeys : k # in.key => keys'[k] = keys[k]
          BY <1>1, <4>1 DEF TablesTyped
        <4> QED BY <4>3, <4>4
      <3> QED BY <1>8, <3>1, <3>2
    <2>4. TouchedFlags = {}
      BY <2>1 DEF TouchedFlags
    <2>5. \A p \in Touched : p = in.project
      BY <2>1, <2>3, <2>4 DEF Touched
    <2> QED BY <2>2, <2>4, <2>5 DEF in
  <1> QED BY <1>2, <1>3, <1>4, <1>5, <1>6, <1>7, <1>8 DEF Write

LEMMA NothingTouched == ASSUME UNCHANGED tables PROVE Touched = {} /\ TouchedFlags = {}
  <1>1. UNCHANGED <<projects, flags, rules, keys>>
    BY DEF tables
  <1>2. TouchedFlags = {}
    BY <1>1 DEF TouchedFlags
  <1> QED BY <1>1, <1>2 DEF Touched

(* The project that a request writes to has its row, and its owner is the  *)
(* request's user.                                                         *)
LEMMA WriteWhere ==
  ASSUME Inv, NEW r \in Reqs, Write(r), req[r].in.op \in FlagOps \cup ProjectOps
  PROVE  LET p == ProjectOf(req[r].in) IN
         p \in Projects /\ projects[p] # None /\ projects[p].owner_id = req[r].in.user
  <1>1. req[r] # None /\ req[r].at = "write" /\ req[r].in \in Inputs /\ Has(r) /\ TablesTyped
    BY WriteMoves DEF Inv, TypeOK, TablesTyped, Request
  <1>2. CASE req[r].in.op \in FlagOps
    <2>1. req[r].in.flag \in Flags /\ flags[req[r].in.flag] \in Flag
      BY <1>1, <1>2, InputFields DEF Has, TablesTyped
    <2> QED BY <1>1, <1>2, <2>1 DEF Has, ProjectOf, Flag
  <1>3. CASE req[r].in.op \notin FlagOps
    <2>1. req[r].in.project \in Projects
      BY <1>1, <1>3, InputFields
    <2> QED BY <1>1, <1>3, <2>1 DEF Has, ProjectOf
  <1> QED BY <1>2, <1>3

(* Nobody changes another user's project, whatever ids the paths hold.     *)
THEOREM OwnersAlone == Spec => OwnersOnly
  <1> DEFINE Only == \A r \in Reqs : req'[r] # req[r] =>
                        \A p \in Touched : projects'[p].owner_id = req'[r].in.user
  <1>1. ASSUME Inv, [Next]_vars PROVE [Only]_vars
    <2>1. ASSUME UNCHANGED tables PROVE Only
      BY <2>1, NothingTouched
    <2>2. ASSUME NEW r \in Reqs, Read(r) PROVE UNCHANGED tables
      BY <1>1, <2>2, ReadMoves
    <2>3. ASSUME NEW r \in Reqs, NEW in \in Inputs, NEW id \in Unused(in.op), Receive(r, in, id)
          PROVE  UNCHANGED tables
      BY <2>3 DEF Receive
    <2>4. ASSUME NEW r \in Reqs, Write(r) PROVE Only
      <3>1. /\ req'[r].in = req[r].in
            /\ \A x \in Reqs \ {r} : req'[x] = req[x]
        <4>1. PICK to \in {"refresh", "ok", "error"} : Go(r, to)
          BY <1>1, <2>4, WriteMoves
        <4>2. req \in [Reqs -> Request \cup {None}] /\ req[r] # None /\ to \in Steps \cup Answers
          BY <1>1, <2>4, WriteMoves DEF Inv, TypeOK, Steps, Answers
        <4> QED BY <4>1, <4>2, GoEffect
      <3>2. ASSUME NEW p \in Touched PROVE projects'[p].owner_id = req[r].in.user
        BY <1>1, <2>4, <3>2, WriteTouches, WriteWhere, WriteTables DEF Keeps
      <3> QED BY <3>1, <3>2
    <2> QED BY <1>1, <2>1, <2>2, <2>3, <2>4 DEF Next
  <1> QED BY <1>1, Invariant, PTL DEF Spec, OwnersOnly

(***************************************************************************)
(* What a request found deleted when it came stays untouched by it.        *)
(***************************************************************************)

Spared(r) ==
  LET in == req[r].in at == req[r].at IN
  /\ dead[r] \subseteq Deleted
  /\ Open(r) =>
       /\ in.op \in FlagOps /\ at \in {"project", "rule", "write"} => in.flag \notin dead[r]
       /\ in.op \in FlagOps \cup ProjectOps /\ at \in {"name", "rule", "key", "write"} =>
             ProjectOf(in) \notin dead[r]

LEMMA DeletedGrows == ASSUME Keeps PROVE Deleted \subseteq Deleted'
  BY DEF Keeps, Deleted

LEMMA SparedOn ==
  ASSUME Inv, Keeps, NEW x \in Reqs, req'[x] = req[x], dead'[x] = dead[x], Spared(x)
  PROVE  Spared(x)'
  <1>1. dead'[x] \subseteq Deleted'
    BY DeletedGrows DEF Spared
  <1>2. ASSUME Open(x), req[x].in.op \in FlagOps, req[x].at \in {"rule", "write"}
        PROVE  ProjectOf(req[x].in)' = ProjectOf(req[x].in)
    <2>1. req[x].in.flag \in Flags /\ flags[req[x].in.flag] # None
      BY <1>2, InputFields DEF Inv, TypeOK, Request, Has, Open
    <2> QED BY <1>2, <2>1 DEF Keeps, ProjectOf
  <1>3. ASSUME Open(x), req[x].in.op \notin FlagOps
        PROVE  ProjectOf(req[x].in)' = ProjectOf(req[x].in)
    BY <1>3 DEF ProjectOf
  <1>4. ASSUME Open(x), req[x].in.op \in FlagOps
        PROVE  req[x].at \notin {"name", "key"}
    BY <1>4 DEF Inv, Stage, Open, FlagOps
  <1> QED BY <1>1, <1>2, <1>3, <1>4 DEF Spared, Open

(* A check that succeeds has found the row alive. *)
LEMMA SparedRead == ASSUME Inv, NEW r \in Reqs, Read(r), Spared(r) PROVE Spared(r)'
  <1> DEFINE in == req[r].in
             at == req[r].at
  <1>1. /\ req \in [Reqs -> Request \cup {None}] /\ TablesTyped /\ Stage(r) /\ Has(r)
        /\ Open(r) /\ UNCHANGED tables /\ dead' = dead /\ req'[r].in = in /\ req[r] # None
        /\ in \in Inputs
    BY ReadMoves DEF Inv, TypeOK, TablesTyped, Open, Request
  <1>2. /\ Deleted' = Deleted /\ ProjectOf(in)' = ProjectOf(in)
    BY <1>1 DEF tables, Deleted, ProjectOf
  <1>3. dead'[r] \subseteq Deleted'
    BY <1>1, <1>2 DEF Spared
  <1> HIDE DEF in
  <1>4. ASSUME NEW to \in Steps \cup Answers, Go(r, to) \/ \E cols \in Cols : Load(r, cols, to)
        PROVE  req'[r].at = to
    BY <1>1, <1>4, GoEffect, LoadEffect
  <1>5. CASE ReadEmail(r) \/ ReadSlug(r)
    <2>1. in.op \in {"register", "create_project"}
      BY <1>1, <1>5 DEF ReadEmail, ReadSlug, At, Stage, in
    <2> QED BY <1>1, <1>3, <2>1 DEF Spared, FlagOps, ProjectOps
  <1>6. CASE ReadName(r) \/ ReadRule(r) \/ ReadKey(r) \/ Refresh(r)
    <2>1. at \in {"name", "rule", "key", "refresh"}
          /\ req'[r].at \in {"write", "conflict", "not_found", "ok", "error"}
          /\ (at = "refresh" => req'[r].at \in {"ok", "error"})
      BY <1>4, <1>6 DEF ReadName, ReadRule, ReadKey, Refresh, At, Steps, Answers
    <2>2. in.op \in FlagOps => at \notin {"name", "key"}
      BY <1>1 DEF Stage, FlagOps, in
    <2>3. Open(r)' => at # "refresh" /\ req'[r].at = "write"
      BY <2>1 DEF Open, Answers
    <2> QED BY <1>1, <1>2, <1>3, <2>1, <2>2, <2>3 DEF Spared, in
  <1>7. CASE ReadFlag(r)
    <2>1. in.op \in FlagOps /\ in.flag \in Flags
      BY <1>1, <1>7, InputFields DEF ReadFlag, At, Stage, in
    <2>2. CASE flags[in.flag] # None /\ ~flags[in.flag].is_archived
      <3>1. flags[in.flag].cols \in Cols /\ "project" \in Steps \cup Answers
        BY <1>1, <2>1, <2>2 DEF TablesTyped, Flag, Steps
      <3>2. req'[r].at = "project"
        BY <1>4, <1>7, <2>2, <3>1 DEF ReadFlag, in
      <3>3. in.flag \notin Deleted
        BY <2>1, <2>2, ControlParameters DEF ControlParameters, Deleted
      <3> QED BY <1>1, <1>3, <3>2, <3>3 DEF Spared
    <2>3. CASE ~(flags[in.flag] # None /\ ~flags[in.flag].is_archived)
      <3>1. req'[r].at = "not_found"
        BY <1>4, <1>7, <2>3 DEF ReadFlag, in, Answers
      <3> QED BY <1>3, <3>1 DEF Spared, Open, Answers
    <2> QED BY <2>2, <2>3
  <1>8. CASE ReadProject(r)
    <2> DEFINE p == ProjectOf(in)
    <2>1. in.op \in FlagOps \cup ProjectOps /\ at = "project"
      BY <1>1, <1>8 DEF ReadProject, At, Stage, in
    <2>2. p \in Projects
      BY <1>1, <2>1, InputFields DEF Has, ProjectOf, TablesTyped, Flag, in
    <2>3. in.op \in FlagOps => in.flag \notin dead[r]
      BY <1>1, <2>1 DEF Spared, in
    <2>4. CASE Owned(projects[p], in.user)
      <3>1. p \notin Deleted
        BY <2>2, <2>4, ControlParameters DEF ControlParameters, Deleted, Owned
      <3>2. p \notin dead[r] /\ dead'[r] = dead[r]
        BY <1>1, <3>1 DEF Spared
      <3>3. ProjectOf(req[r].in)' = p
        BY <1>1 DEF tables, ProjectOf, in
      <3> QED BY <1>1, <1>3, <2>3, <3>2, <3>3 DEF Spared
    <2>5. CASE ~Owned(projects[p], in.user)
      <3>1. req'[r].at = "not_found"
        BY <1>4, <1>8, <2>5 DEF ReadProject, in, Answers
      <3> QED BY <1>3, <3>1 DEF Spared, Open, Answers
    <2> QED BY <2>4, <2>5
  <1>9. CASE DatabaseError(r)
    BY <1>3, <1>4, <1>9 DEF DatabaseError, Spared, Open, Answers
  <1> QED BY <1>5, <1>6, <1>7, <1>8, <1>9 DEF Read

AllSpared == \A r \in Reqs : Spared(r)

LEMMA SparedNext == ASSUME Inv, AllSpared, [Next]_vars PROVE AllSpared'
  <1>0. Keeps
    BY StepKeeps
  <1>1. ASSUME NEW r \in Reqs, Spared(r)',
               \A x \in Reqs \ {r} : req'[x] = req[x] /\ dead'[x] = dead[x]
        PROVE  AllSpared'
    BY <1>0, <1>1, SparedOn DEF AllSpared
  <1>2. ASSUME NEW r \in Reqs, Read(r) PROVE AllSpared'
    BY <1>1, <1>2, ReadMoves, SparedRead DEF AllSpared
  <1>3. ASSUME NEW r \in Reqs, Write(r) PROVE AllSpared'
    <2>1. PICK to \in {"refresh", "ok", "error"} : Go(r, to)
      BY <1>3, WriteMoves
    <2>2. /\ req'[r].at = to /\ \A x \in Reqs \ {r} : req'[x] = req[x]
      <3>1. req \in [Reqs -> Request \cup {None}] /\ req[r] # None /\ to \in Steps \cup Answers
        BY <1>3, WriteMoves DEF Inv, TypeOK, Steps, Answers
      <3> QED BY <2>1, <3>1, GoEffect
    <2>3. dead' = dead
      BY <1>3, WriteMoves
    <2>4. Spared(r)'
      BY <1>0, <2>2, <2>3, DeletedGrows DEF AllSpared, Spared
    <2> QED BY <1>1, <2>2, <2>3, <2>4
  <1>4. ASSUME NEW r \in Reqs, NEW in \in Inputs, NEW id \in Unused(in.op), Receive(r, in, id)
        PROVE  AllSpared'
    <2>1. /\ dead' = [dead EXCEPT ![r] = Deleted]
          /\ req'[r].in = in /\ req'[r].at = First(in.op)
          /\ \A x \in Reqs \ {r} : req'[x] = req[x]
          /\ dead \in [Reqs -> SUBSET (Projects \cup Flags)]
      BY <1>4, ReceiveMoves DEF Inv, TypeOK
    <2>2. First(in.op) \in {"email", "slug", "flag", "project"}
          /\ (First(in.op) = "project" => in.op \notin FlagOps)
      BY DEF First
    <2>3. Spared(r)'
      BY <1>0, <2>1, <2>2, DeletedGrows DEF Spared
    <2> QED BY <1>1, <2>1, <2>3
  <1>5. CASE UNCHANGED vars
    BY <1>0, <1>5, SparedOn DEF vars, AllSpared
  <1> QED BY <1>2, <1>3, <1>4, <1>5 DEF Next

(* A request that comes after a deletion changes nothing of what was       *)
(* deleted; one that overlaps it may.                                      *)
THEOREM DeletedLeftAlone == Spec => DeletedIsLeftAlone
  <1> DEFINE Alone == \A r \in Reqs : req'[r] # req[r] =>
                         (Touched \cup TouchedFlags) \cap dead[r] = {}
  <1>1. Init => AllSpared
    BY DEF Init, AllSpared, Spared, Open
  <1>2. Inv /\ AllSpared /\ [Next]_vars => AllSpared'
    BY SparedNext
  <1>3. ASSUME Inv, AllSpared, [Next]_vars PROVE [Alone]_vars
    <2>1. ASSUME UNCHANGED tables PROVE Alone
      BY <2>1, NothingTouched
    <2>2. ASSUME NEW r \in Reqs, Read(r) PROVE UNCHANGED tables
      BY <1>3, <2>2, ReadMoves
    <2>3. ASSUME NEW r \in Reqs, NEW in \in Inputs, NEW id \in Unused(in.op), Receive(r, in, id)
          PROVE  UNCHANGED tables
      BY <2>3 DEF Receive
    <2>4. ASSUME NEW r \in Reqs, Write(r) PROVE Alone
      <3>1. /\ req[r] # None /\ req[r].at = "write" /\ Spared(r) /\ Stage(r) /\ Reserved(r)
            /\ \A x \in Reqs \ {r} : req'[x] = req[x]
        BY <1>3, <2>4, WriteMoves DEF Inv, TypeOK, Go, AllSpared
      <3>2. Open(r)
        BY <3>1 DEF Open, Answers
      <3>3. /\ req[r].in.op = "create_flag" => req[r].row \notin Deleted
            /\ req[r].in.op = "create_project" => req[r].row \notin Deleted
        BY <3>1, <3>2, ControlParameters DEF ControlParameters, Stage, Reserved, Deleted
      <3>4. (Touched \cup TouchedFlags) \cap dead[r] = {}
        BY <1>3, <2>4, <3>1, <3>2, <3>3, WriteTouches DEF Spared
      <3> QED BY <3>1, <3>4
    <2> QED BY <1>3, <2>1, <2>2, <2>3, <2>4 DEF Next
  <1> QED BY <1>1, <1>2, <1>3, Invariant, PTL DEF Spec, DeletedIsLeftAlone

(***************************************************************************)
(* What became of a creation.                                              *)
(***************************************************************************)

(* Once the row is written it is there, answered or not. *)
CreateHolds(r) ==
  req[r] # None /\ req[r].at \in {"refresh", "ok"} =>
     LET in == req[r].in row == req[r].row IN
     /\ in.op = "register" => users[row] = Normal[in.name]
     /\ in.op = "create_project" =>
           /\ projects[row] # None
           /\ projects[row].slug = Normal[in.name] /\ projects[row].owner_id = in.user
     /\ in.op = "create_flag" =>
           /\ flags[row] # None
           /\ flags[row].name = in.name /\ flags[row].project_id = in.project
     /\ in.op = "create_rule" => rules[row] # None /\ rules[row].flag_id = in.flag
     /\ in.op = "generate_key" => keys[row] # None /\ keys[row].project_id = in.project
AllCreated == \A r \in Reqs : CreateHolds(r)

LEMMA CreateHoldsOn ==
  ASSUME Inv, Keeps, NEW x \in Reqs, req'[x] = req[x], CreateHolds(x)
  PROVE  CreateHolds(x)'
  <1> SUFFICES ASSUME req[x] # None, req[x].at \in {"refresh", "ok"} PROVE CreateHolds(x)'
    BY DEF CreateHolds
  <1>1. req[x].in \in Inputs /\ Stage(x)
    BY DEF Inv, TypeOK, Request
  <1>2. CASE req[x].in.op = "register"
    <2>1. Normal[req[x].in.name] # None
      BY <1>1, <1>2, InputFields, NoneIsNothing, ControlParameters DEF ControlParameters
    <2> QED BY <1>1, <1>2, <2>1 DEF CreateHolds, Stage, Keeps
  <1>3. CASE req[x].in.op = "create_project"
    BY <1>1, <1>3 DEF CreateHolds, Stage, Keeps
  <1>4. CASE req[x].in.op = "create_flag"
    BY <1>1, <1>4 DEF CreateHolds, Stage, Keeps
  <1>5. CASE req[x].in.op = "create_rule"
    BY <1>1, <1>5 DEF CreateHolds, Stage, Keeps
  <1>6. CASE req[x].in.op = "generate_key"
    BY <1>1, <1>6 DEF CreateHolds, Stage, Keeps
  <1> QED BY <1>2, <1>3, <1>4, <1>5, <1>6 DEF CreateHolds

(* An INSERT that goes through writes what was asked for; one that fails   *)
(* ends the request.                                                       *)
LEMMA CreateHoldsWrite == ASSUME Inv, NEW r \in Reqs, Write(r) PROVE CreateHolds(r)'
  <1> DEFINE in == req[r].in
             row == req[r].row
  <1>1. /\ req \in [Reqs -> Request \cup {None}] /\ req[r] # None /\ req[r].at = "write"
        /\ in \in Inputs /\ TablesTyped /\ Stage(r)
    BY WriteMoves DEF Inv, TypeOK, TablesTyped, Request
  <1>2. ASSUME NEW to \in {"refresh", "ok", "error"}, Go(r, to)
        PROVE  req'[r].in = in /\ req'[r].row = row /\ req'[r].at = to
    BY <1>1, <1>2, GoEffect DEF Steps, Answers
  <1>3. ASSUME Go(r, "error") PROVE CreateHolds(r)'
    BY <1>2, <1>3 DEF CreateHolds
  <1>4. req'[r].in = in /\ req'[r].row = row
    BY <1>2, WriteMoves
  <1> HIDE DEF in
  <1>5. CASE Register(r)
    <2>1. in.op = "register" /\ row \in Users
      BY <1>1, <1>5 DEF Register, Writing, Stage, in
    <2>2. Go(r, "error") \/ users' = [users EXCEPT ![row] = Normal[in.name]]
      BY <1>5 DEF Register, in
    <2> QED BY <1>1, <1>3, <1>4, <2>1, <2>2 DEF CreateHolds, TablesTyped
  <1>6. CASE CreateProject(r)
    <2> DEFINE new == [owner_id |-> in.user, slug |-> Normal[in.name], is_active |-> TRUE,
                       cols |-> Fresh]
    <2>1. in.op = "create_project" /\ row \in Projects /\ in.user \in Users /\ in.name \in Names
      BY <1>1, <1>6, InputFields DEF CreateProject, Writing, Stage, in
    <2>2. new \in Project /\ new.slug = Normal[in.name] /\ new.owner_id = in.user
      BY <2>1, ControlParameters DEF ControlParameters, Project
    <2>3. Go(r, "error") \/ projects' = [projects EXCEPT ![row] = new]
      BY <1>6 DEF CreateProject, in
    <2> HIDE DEF new
    <2>4. Go(r, "error") \/ projects'[row] = new
      BY <1>1, <2>1, <2>3 DEF TablesTyped
    <2> QED BY <1>3, <1>4, <2>1, <2>2, <2>4, NoneIsNothing DEF CreateHolds
  <1>7. CASE CreateFlag(r)
    <2> DEFINE new == [project_id |-> in.project, name |-> in.name, is_archived |-> FALSE,
                       cols |-> Fresh]
    <2>1. /\ in.op = "create_flag" /\ row \in Flags
          /\ in.project \in Projects /\ in.name \in Names
      BY <1>1, <1>7, InputFields DEF CreateFlag, Writing, Stage, ProjectOps, in
    <2>2. new \in Flag /\ new.name = in.name /\ new.project_id = in.project
      BY <2>1, ControlParameters DEF ControlParameters, Flag
    <2>3. Go(r, "error") \/ flags' = [flags EXCEPT ![row] = new]
      BY <1>7 DEF CreateFlag, in
    <2> HIDE DEF new
    <2>4. Go(r, "error") \/ flags'[row] = new
      BY <1>1, <2>1, <2>3 DEF TablesTyped
    <2> QED BY <1>3, <1>4, <2>1, <2>2, <2>4, NoneIsNothing DEF CreateHolds
  <1>8. CASE CreateRule(r)
    <2> DEFINE new == [flag_id |-> in.flag, gone |-> FALSE]
    <2>1. in.op = "create_rule" /\ row \in Rules /\ in.flag \in Flags
      BY <1>1, <1>8, InputFields DEF CreateRule, Writing, Stage, FlagOps, in
    <2>2. new \in Rule /\ new.flag_id = in.flag
      BY <2>1 DEF Rule
    <2>3. Go(r, "error") \/ rules' = [rules EXCEPT ![row] = new]
      BY <1>8 DEF CreateRule, in
    <2> HIDE DEF new
    <2>4. Go(r, "error") \/ rules'[row] = new
      BY <1>1, <2>1, <2>3 DEF TablesTyped
    <2> QED BY <1>3, <1>4, <2>1, <2>2, <2>4, NoneIsNothing DEF CreateHolds
  <1>9. CASE GenerateKey(r)
    <2> DEFINE new == [project_id |-> in.project, is_active |-> TRUE]
    <2>1. in.op = "generate_key" /\ row \in ApiKeys /\ in.project \in Projects
      BY <1>1, <1>9, InputFields DEF GenerateKey, Writing, Stage, ProjectOps, in
    <2>2. new \in ApiKey /\ new.project_id = in.project
      BY <2>1 DEF ApiKey
    <2>3. Go(r, "error") \/ keys' = [keys EXCEPT ![row] = new]
      BY <1>9 DEF GenerateKey, in
    <2> HIDE DEF new
    <2>4. Go(r, "error") \/ keys'[row] = new
      BY <1>1, <2>1, <2>3 DEF TablesTyped
    <2> QED BY <1>3, <1>4, <2>1, <2>2, <2>4, NoneIsNothing DEF CreateHolds
  <1>10. CASE UpdateProject(r) \/ DeleteProject(r) \/ UpdateFlag(r) \/ DeleteFlag(r)
              \/ DeleteRule(r) \/ RevokeKey(r)
    <2>1. in.op \notin Creators
      BY <1>10 DEF UpdateProject, DeleteProject, UpdateFlag, DeleteFlag, DeleteRule, RevokeKey,
                   Writing, Creators, in
    <2> QED BY <1>4, <2>1 DEF CreateHolds, Creators
  <1> QED BY <1>5, <1>6, <1>7, <1>8, <1>9, <1>10 DEF Write

(* Only the answer is read back of a row that was written. *)
LEMMA CreateHoldsRead ==
  ASSUME Inv, NEW r \in Reqs, Read(r), CreateHolds(r)
  PROVE  CreateHolds(r)'
  <1> SUFFICES ASSUME req'[r].at \in {"ok", "refresh"} PROVE CreateHolds(r)'
    BY DEF CreateHolds
  <1>1. /\ req[r] # None /\ req[r].at = "refresh" /\ UNCHANGED tables
        /\ req'[r].in = req[r].in /\ req'[r].row = req[r].row
    BY ReadOk, ReadMoves DEF Refresh, At
  <1>2. UNCHANGED <<users, projects, flags, rules, keys>>
    BY <1>1 DEF tables
  <1> QED BY <1>1, <1>2 DEF CreateHolds

LEMMA CreatedNext == ASSUME Inv, AllCreated, [Next]_vars PROVE AllCreated'
  <1>0. Keeps
    BY StepKeeps
  <1>1. ASSUME NEW r \in Reqs, CreateHolds(r)', \A x \in Reqs \ {r} : req'[x] = req[x]
        PROVE  AllCreated'
    BY <1>0, <1>1, CreateHoldsOn DEF AllCreated
  <1>2. ASSUME NEW r \in Reqs, Read(r) PROVE AllCreated'
    BY <1>1, <1>2, ReadMoves, CreateHoldsRead DEF AllCreated
  <1>3. ASSUME NEW r \in Reqs, Write(r) PROVE AllCreated'
    <2>1. \A x \in Reqs \ {r} : req'[x] = req[x]
      BY <1>3, WriteMoves DEF Go, Inv, TypeOK
    <2> QED BY <1>1, <1>3, <2>1, CreateHoldsWrite
  <1>4. ASSUME NEW r \in Reqs, NEW in \in Inputs, NEW id \in Unused(in.op), Receive(r, in, id)
        PROVE  AllCreated'
    <2>1. req'[r].at \notin {"ok", "refresh"} /\ \A x \in Reqs \ {r} : req'[x] = req[x]
      BY <1>4, ReceiveMoves DEF First
    <2> QED BY <1>1, <2>1 DEF CreateHolds
  <1>5. CASE UNCHANGED vars
    BY <1>0, <1>5, CreateHoldsOn DEF vars, AllCreated
  <1> QED BY <1>2, <1>3, <1>4, <1>5 DEF Next

(* What was answered as created exists as it was asked for, whoever raced  *)
(* for its name and whatever statements failed.                            *)
THEOREM CreatesStay == Spec => []CreatesHold
  <1>1. Init => AllCreated
    BY DEF Init, AllCreated, CreateHolds
  <1>2. Inv /\ AllCreated /\ [Next]_vars => AllCreated'
    BY CreatedNext
  <1>3. AllCreated => CreatesHold
    BY DEF AllCreated, CreateHolds, CreatesHold, At
  <1> QED BY <1>1, <1>2, <1>3, Invariant, PTL DEF Spec

(***************************************************************************)
(* What became of the values of a PATCH.                                   *)
(***************************************************************************)

(* The request remembers all it has read, and all it wrote was there.      *)
Patching(r) ==
  LET in == req[r].in at == req[r].at IN
  req[r] # None /\ in.op \in Patches =>
     /\ (at = "write" \/ (at = "project" /\ in.op = "update_flag")) =>
           Cells(req[r].got) \subseteq held[r]
     /\ at \in {"refresh", "ok"} =>
           \A c \in DOMAIN in.patch : <<c, in.patch[c]>> \in held[r]
AllPatching == \A r \in Reqs : Patching(r)

LEMMA PatchingWrite == ASSUME Inv, NEW r \in Reqs, Write(r), Patching(r) PROVE Patching(r)'
  <1> DEFINE in == req[r].in
  <1>1. /\ req \in [Reqs -> Request \cup {None}] /\ req[r] # None /\ req[r].at = "write"
        /\ in \in Inputs /\ held \in [Reqs -> SUBSET (Columns \X (Values \cup {None}))]
    BY WriteMoves DEF Inv, TypeOK, Request
  <1>2. Open(r)
    BY <1>1 DEF Open, Answers
  <1>3. PICK to \in {"refresh", "ok", "error"} : Go(r, to)
    BY WriteMoves
  <1>4. req'[r].in = in /\ req'[r].at = to
    BY <1>1, <1>3, GoEffect DEF Steps, Answers
  <1>5. ASSUME NEW op \in Patches, NEW row \in {in.flag, in.project}, NEW old,
               in.op = op, held' = Seen(op, row, Written(in.patch, req[r].got, old))
        PROVE  \A c \in DOMAIN in.patch : <<c, in.patch[c]>> \in held'[r]
    <2> DEFINE new == Written(in.patch, req[r].got, old)
    <2>1. held'[r] = held[r] \cup Cells(new)
      BY <1>2, <1>5 DEF Seen
    <2>2. Cells(req[r].got) \subseteq held[r]
      BY <1>1, <1>5 DEF Patching
    <2>3. ASSUME NEW c \in DOMAIN in.patch PROVE <<c, in.patch[c]>> \in held'[r]
      <3>1. c \in Columns
        BY <1>1, InputPatch
      <3>2. CASE in.patch[c] = req[r].got[c]
        BY <2>1, <2>2, <3>1, <3>2 DEF Cells
      <3>3. CASE in.patch[c] # req[r].got[c]
        <4>1. new[c] = in.patch[c]
          BY <3>1, <3>3 DEF Written
        <4> QED BY <2>1, <3>1, <4>1 DEF Cells
      <3> QED BY <3>2, <3>3
    <2> QED BY <2>3
  <1>6. CASE in.op \notin Patches
    BY <1>4, <1>6 DEF Patching
  <1>7. CASE to = "error"
    BY <1>4, <1>7 DEF Patching
  <1>8. CASE in.op \in Patches /\ to # "error"
    <2>1. ~Go(r, "error")
      <3>1. Go(r, "error") => req'[r].at = "error"
        BY <1>1, GoEffect DEF Answers
      <3> QED BY <1>4, <1>8, <3>1
    <2>2. UpdateProject(r) \/ UpdateFlag(r)
      BY <1>8 DEF Write, Register, CreateProject, DeleteProject, CreateFlag, DeleteFlag,
                  CreateRule, DeleteRule, GenerateKey, RevokeKey, Writing, Patches
    <2>3. \/ /\ in.op = "update_project"
             /\ held' = Seen("update_project", in.project,
                             Written(in.patch, req[r].got, projects[in.project].cols))
          \/ /\ in.op = "update_flag"
             /\ held' = Seen("update_flag", in.flag,
                             Written(in.patch, req[r].got, flags[in.flag].cols))
      BY <2>1, <2>2 DEF UpdateProject, UpdateFlag, Writing
    <2>4. \A c \in DOMAIN in.patch : <<c, in.patch[c]>> \in held'[r]
      BY <1>5, <2>3 DEF Patches
    <2> QED BY <1>4, <2>4 DEF Patching
  <1> QED BY <1>6, <1>7, <1>8

LEMMA PatchingRead == ASSUME Inv, NEW r \in Reqs, Read(r), Patching(r) PROVE Patching(r)'
  <1> DEFINE in == req[r].in
             at == req[r].at
  <1>1. /\ req \in [Reqs -> Request \cup {None}] /\ req[r] # None /\ in \in Inputs
        /\ Stage(r) /\ Has(r) /\ TablesTyped /\ req'[r].in = in
        /\ held \in [Reqs -> SUBSET (Columns \X (Values \cup {None}))]
    BY ReadMoves DEF Inv, TypeOK, TablesTyped, Request, Open, Read, ReadEmail, ReadSlug, ReadFlag,
                     ReadProject, ReadName, ReadRule, ReadKey, Refresh, DatabaseError, At
  <1> SUFFICES ASSUME in.op \in Patches PROVE Patching(r)'
    BY <1>1 DEF Patching
  <1>2. ASSUME NEW cols \in Cols, NEW to \in {"project", "write"}, Load(r, cols, to)
        PROVE  Patching(r)'
    <2>1. req'[r].got = cols /\ req'[r].at = to
      BY <1>1, <1>2, LoadEffect DEF Steps
    <2>2. held'[r] = Cells(cols)
      BY <1>1, <1>2 DEF Load
    <2>3. Cells(req'[r].got) = Cells(cols)
      BY <2>1
    <2> QED BY <2>1, <2>2, <2>3 DEF Patching, Cells
  <1>3. ASSUME Go(r, "not_found") PROVE Patching(r)'
    BY <1>1, <1>3, GoEffect DEF Patching, Answers
  <1>4. CASE ReadFlag(r)
    <2>1. in.flag \in Flags
      BY <1>1, <1>4, InputFields DEF ReadFlag, At, Stage
    <2>2. flags[in.flag] # None => flags[in.flag].cols \in Cols
      BY <1>1, <2>1 DEF TablesTyped, Flag
    <2> QED BY <1>2, <1>3, <1>4, <2>2 DEF ReadFlag
  <1>5. CASE ReadProject(r)
    <2> DEFINE p == ProjectOf(in)
    <2>1. in.op \in FlagOps \cup ProjectOps /\ at = "project"
      BY <1>1, <1>5 DEF ReadProject, At, Stage
    <2>2. p \in Projects
      BY <1>1, <2>1, InputFields DEF Has, ProjectOf, TablesTyped, Flag
    <2>3. projects[p] # None => projects[p].cols \in Cols
      BY <1>1, <2>2 DEF TablesTyped, Project
    <2>4. CASE Owned(projects[p], in.user) /\ in.op = "update_project"
      BY <1>2, <1>5, <2>3, <2>4 DEF ReadProject, Owned
    <2>5. CASE Owned(projects[p], in.user) /\ in.op # "update_project"
      <3>1. in.op = "update_flag"
        BY <2>5 DEF Patches
      <3>2. Go(r, "write") /\ held' = held
        BY <1>5, <2>5, <3>1 DEF ReadProject, AfterProject
      <3>3. req'[r].at = "write" /\ req'[r].got = req[r].got
        BY <1>1, <3>2, GoEffect DEF Steps
      <3>4. Cells(req[r].got) \subseteq held[r]
        BY <1>1, <2>1, <3>1 DEF Patching
      <3>5. Cells(req'[r].got) = Cells(req[r].got)
        BY <3>3
      <3> QED BY <3>2, <3>3, <3>4, <3>5 DEF Patching, Cells
    <2>6. CASE ~Owned(projects[p], in.user)
      BY <1>3, <1>5, <2>6 DEF ReadProject
    <2> QED BY <2>4, <2>5, <2>6
  <1>6. CASE Refresh(r)
    <2>1. at = "refresh" /\ held' = held /\ (Go(r, "ok") \/ Go(r, "error"))
      BY <1>6 DEF Refresh, At
    <2>2. req'[r].at \in {"ok", "error"}
      BY <1>1, <2>1, GoEffect DEF Answers
    <2> QED BY <1>1, <2>1, <2>2 DEF Patching
  <1>7. CASE ReadEmail(r) \/ ReadSlug(r) \/ ReadName(r) \/ ReadRule(r) \/ ReadKey(r)
    BY <1>1, <1>7 DEF ReadEmail, ReadSlug, ReadName, ReadRule, ReadKey, At, Stage, Patches
  <1>8. CASE DatabaseError(r)
    <2>1. req'[r].at = "error"
      BY <1>1, <1>8, GoEffect DEF DatabaseError, Answers
    <2> QED BY <1>1, <2>1 DEF Patching
  <1> QED BY <1>4, <1>5, <1>6, <1>7, <1>8 DEF Read

LEMMA PatchingOn ==
  ASSUME NEW x \in Reqs, req'[x] = req[x], held[x] \subseteq held'[x], Patching(x)
  PROVE  Patching(x)'
  <1>1. Cells(req[x].got)' = Cells(req[x].got)
    BY DEF Cells
  <1> QED BY <1>1 DEF Patching

LEMMA PatchingNext == ASSUME Inv, AllPatching, [Next]_vars PROVE AllPatching'
  <1>1. ASSUME NEW r \in Reqs, Patching(r)',
               \A x \in Reqs \ {r} : req'[x] = req[x] /\ held[x] \subseteq held'[x]
        PROVE  AllPatching'
    BY <1>1, PatchingOn DEF AllPatching
  <1>2. ASSUME NEW r \in Reqs, Read(r) PROVE AllPatching'
    BY <1>1, <1>2, ReadMoves, PatchingRead DEF AllPatching
  <1>3. ASSUME NEW r \in Reqs, Write(r) PROVE AllPatching'
    <2>1. \A x \in Reqs \ {r} : req'[x] = req[x]
      BY <1>3, WriteMoves DEF Go, Inv, TypeOK
    <2> QED BY <1>1, <1>3, <2>1, WriteMoves, PatchingWrite DEF AllPatching
  <1>4. ASSUME NEW r \in Reqs, NEW in \in Inputs, NEW id \in Unused(in.op), Receive(r, in, id)
        PROVE  AllPatching'
    <2>1. /\ req'[r].at = First(in.op) /\ req'[r].in = in
          /\ \A x \in Reqs \ {r} : req'[x] = req[x]
          /\ held' = [held EXCEPT ![r] = {}]
          /\ held \in [Reqs -> SUBSET (Columns \X (Values \cup {None}))]
      BY <1>4, ReceiveMoves DEF Inv, TypeOK
    <2>2. First(in.op) \in {"email", "slug", "flag", "project"}
          /\ (First(in.op) = "project" => in.op # "update_flag")
      BY DEF First, FlagOps
    <2>3. Patching(r)'
      BY <2>1, <2>2 DEF Patching
    <2> QED BY <1>1, <2>1, <2>3
  <1>5. CASE UNCHANGED vars
    BY <1>5, PatchingOn DEF vars, AllPatching
  <1> QED BY <1>2, <1>3, <1>4, <1>5 DEF Next

(* A PATCH that answers 200 had each of its values in the row meanwhile.   *)
THEOREM PatchesTakeEffect == Spec => []PatchTookEffect
  <1>1. Init => AllPatching
    BY DEF Init, AllPatching, Patching
  <1>2. Inv /\ AllPatching /\ [Next]_vars => AllPatching'
    BY PatchingNext
  <1>3. AllPatching => PatchTookEffect
    BY DEF AllPatching, Patching, PatchTookEffect, At
  <1> QED BY <1>1, <1>2, <1>3, Invariant, PTL DEF Spec
=============================================================================
