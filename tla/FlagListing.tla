---------------------------- MODULE FlagListing ----------------------------
(***************************************************************************)
(* GET /projects/{id}/flags: a client walks through the pages of a         *)
(* filtered list while flags are created, switched and archived.  A page   *)
(* is three SELECTs - the project, the count, OFFSET and LIMIT - and the   *)
(* offset is counted anew in the table that each page finds.               *)
(***************************************************************************)
EXTENDS Integers, Sequences, FiniteSets, Functions

CONSTANTS
    Flags,
    InitDates,   \* created_at of those stored at the start, 0 for the others
    Instants,    \* bound: creations are dated from 1 to Instants
    Searches,    \* sets of flags that a search finds; Flags without search=
    Limits,      \* page sizes
    None

ASSUME ListParameters ==
    /\ IsFiniteSet(Flags) /\ InitDates \in [Flags -> Nat] /\ Instants \in Nat
    /\ Searches \subseteq SUBSET Flags /\ Limits \subseteq 1 .. 100

VARIABLES
    created_at,  \* when a flag's transaction began, 0 before; dates may be equal
    stored,      \* flags committed
    enabled, archived,
    project_active,
    walk,        \* the client's walk: filter, page, next SELECT, total
    shown,       \* what each page has shown
    seen         \* history: what matched all along, what left, what entered

flags_vars == <<created_at, stored, enabled, archived, project_active>>
vars == <<flags_vars, walk, shown, seen>>

Filter == [status : BOOLEAN \cup {None}, found : Searches]
Steps == {"project", "count", "page", "done", "not_found"}
Walk == [filter : Filter, limit : Limits, page : Nat \ {0}, at : Steps,
         total : 0 .. Cardinality(Flags)]

ASSUME NoneIsNoWalk == None \notin Walk

Matches(filter) ==
    {f \in stored \ archived : /\ filter.status \in {None, (f \in enabled)}
                               /\ f \in filter.found}

Begun == {f \in Flags : created_at[f] > 0}

Newer(g, f) == created_at[g] > created_at[f]

Lists(set) == Bijection(1 .. Cardinality(set), set)

(* Faulty: created_at without desc(). *)
SortedOldest(set) ==
    {list \in Lists(set) : \A i, j \in DOMAIN list : i < j => ~Newer(list[i], list[j])}

(* ORDER BY created_at DESC, and by nothing else: flags of one date come   *)
(* in any order, and in another one for the next page.                     *)
Sorted(set) ==
    {list \in Lists(set) : \A i, j \in DOMAIN list : i < j => ~Newer(list[j], list[i])}

(* Faulty: LIMIT page * limit. *)
SlotsTooMany(page, limit) == (page - 1) * limit + 1 .. (2 * page - 1) * limit

(* OFFSET (page - 1) * limit LIMIT limit. *)
Slots(page, limit) == (page - 1) * limit + 1 .. page * limit

PageOf(list, page, limit) == {list[n] : n \in DOMAIN list \cap Slots(page, limit)}

Init ==
    /\ created_at = InitDates
    /\ stored = Begun
    /\ enabled = {}
    /\ archived = {}
    /\ project_active = TRUE
    /\ walk = None
    /\ shown = <<>>
    /\ seen = [stayed |-> {}, left |-> {}, entered |-> {}]
-----------------------------------------------------------------------------
(* The history of a walk. *)
Observe ==
    /\ UNCHANGED <<walk, shown>>
    /\ IF walk = None THEN UNCHANGED seen
       ELSE LET old == Matches(walk.filter)
                new == Matches(walk.filter)' IN
            seen' = [stayed |-> seen.stayed \cap new,
                     left |-> seen.left \cup (old \ new),
                     entered |-> seen.entered \cup (new \ old)]

(* created_at is now(), the start of the transaction, which may be that of *)
(* another one ...                                                         *)
BeginCreate(f) ==
    /\ f \notin Begun
    /\ \E now \in 1 .. Instants :
          /\ \A g \in Flags : created_at[g] <= now
          /\ created_at' = [created_at EXCEPT ![f] = now]
    /\ UNCHANGED <<stored, enabled, archived, project_active>> /\ Observe

(* ... so that flags may be stored in another order than their created_at. *)
CommitCreate(f) ==
    /\ f \in Begun \ stored
    /\ stored' = stored \cup {f}
    /\ UNCHANGED <<created_at, enabled, archived, project_active>> /\ Observe

Switch(f) ==
    /\ f \in stored
    /\ \E on \in SUBSET {f} : enabled' = (enabled \ {f}) \cup on
    /\ UNCHANGED <<created_at, stored, archived, project_active>> /\ Observe

Archive(f) ==
    /\ f \in stored
    /\ archived' = archived \cup {f}
    /\ UNCHANGED <<created_at, stored, enabled, project_active>> /\ Observe

DeleteProject ==
    /\ project_active
    /\ project_active' = FALSE
    /\ UNCHANGED <<created_at, stored, enabled, archived>> /\ Observe
-----------------------------------------------------------------------------
At(step) == walk # None /\ walk.at = step

Ask(filter, limit) ==
    /\ walk = None
    /\ walk' = [filter |-> filter, limit |-> limit, page |-> 1, at |-> "project", total |-> 0]
    /\ seen' = [stayed |-> Matches(filter), left |-> {}, entered |-> {}]
    /\ UNCHANGED <<flags_vars, shown>>

ReadProject ==
    /\ At("project")
    /\ walk' = [walk EXCEPT !.at = IF project_active THEN "count" ELSE "not_found"]
    /\ UNCHANGED <<flags_vars, shown, seen>>

(* The count does not take the filters. *)
Counted(filter) == stored \ archived

Count ==
    /\ At("count")
    /\ walk' = [walk EXCEPT !.at = "page", !.total = Cardinality(Counted(walk.filter))]
    /\ UNCHANGED <<flags_vars, shown, seen>>

(* The client asks for the next page until one is not full. *)
ReadPage ==
    /\ At("page")
    /\ \E list \in Sorted(Matches(walk.filter)) :
          LET page == PageOf(list, walk.page, walk.limit) IN
          /\ shown' = Append(shown, page)
          /\ walk' = IF Cardinality(page) < walk.limit THEN [walk EXCEPT !.at = "done"]
                     ELSE [walk EXCEPT !.at = "project", !.page = @ + 1]
    /\ UNCHANGED <<flags_vars, seen>>

Next ==
    \/ \E f \in Flags : BeginCreate(f) \/ CommitCreate(f) \/ Switch(f) \/ Archive(f)
    \/ DeleteProject
    \/ \E filter \in Filter, limit \in Limits : Ask(filter, limit)
    \/ ReadProject \/ Count \/ ReadPage

Spec == Init /\ [][Next]_vars
-----------------------------------------------------------------------------
(* Pages and their history hold flags of the list; no page is too long.    *)
TypeOK ==
    /\ created_at \in [Flags -> Nat]
    /\ stored \subseteq Begun /\ archived \subseteq stored /\ enabled \subseteq stored
    /\ project_active \in BOOLEAN
    /\ walk \in Walk \cup {None}
    /\ shown \in Seq(SUBSET Flags)
    /\ \A k \in DOMAIN shown : /\ Cardinality(shown[k]) <= walk.limit
                               /\ shown[k] \subseteq walk.filter.found

(* Another flag that was on the list during the walk has the same date.    *)
Tied(f) ==
    \E g \in (seen.stayed \cup seen.left \cup seen.entered) \ {f} : created_at[g] = created_at[f]

(* A walk to the last page misses a flag that matched all along only if a  *)
(* newer one left the list meanwhile and moved it to a page already read,  *)
(* or one of the same date took its place.                                 *)
WalkMissesNoFlag ==
    At("done") =>
       \A f \in seen.stayed \ UNION Range(shown) :
          Tied(f) \/ \E g \in seen.left : Newer(g, f)

(* It shows a flag twice only if a newer one has entered the list, which a *)
(* creation that was slow to commit may also do in the middle, or one of   *)
(* the same date had its place.                                            *)
WalkRepeatsOnlyShifted ==
    \A j, k \in DOMAIN shown : j # k =>
       \A f \in shown[j] \cap shown[k] :
          Tied(f) \/ \E g \in seen.entered : Newer(g, f)
=============================================================================
