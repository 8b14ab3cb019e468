-------------------------- MODULE EvaluateRequest --------------------------
(***************************************************************************)
(* The SDK's requests about one flag, POST /evaluate and POST /events,     *)
(* while its owner edits and archives it, revokes the key and deletes the  *)
(* project.  A request reads the key, the flag's row and the flag's rules  *)
(* in three SELECTs; what it answers is recorded after the answer is sent. *)
(***************************************************************************)
EXTENDS FlagRollout

CONSTANT Calls       \* requests the SDK sends, each once

Kinds == {"evaluate", "track"}
Trends == {"narrower", "wider"}
EngineReasons == {"raised", "flag_disabled", "rule_match_exclude", "rule_match_include",
                  "rollout_excluded", "rollout_included"}
Reasons == EngineReasons \cup {"flag_not_found", "accepted", "unauthorized"}
Answers == [enabled : BOOLEAN, reason : Reasons]
Call == [kind : Kinds, q : Requests, at : {"key", "flag", "rules", "record", "done"},
         row : Flag \cup {None}, answer : Answers \cup {None}]
Found == [row : Flag, rules : SUBSET RulePool, archived : BOOLEAN,
          trend : SUBSET Trends, key : BOOLEAN, project : BOOLEAN]

ASSUME NoneIsNoRecord == None \notin Call \cup Found \cup Answers

VARIABLES
    archived,        \* flags.is_archived
    key_active,      \* api_keys.is_active
    project_active,  \* projects.is_active, which no query of the SDK looks at
    call,            \* where each request is
    events,          \* evaluation_events and conversion_events
    was              \* history: the configuration a request found when it came,
                     \* which way it was edited since, what was gone already

sdk == <<key_active, project_active, call, events>>
serve_vars == <<vars, archived, sdk, was>>

NotFound == Answer(FALSE, "flag_not_found")
Accepted == Answer(FALSE, "accepted")
Refused == Answer(FALSE, "unauthorized")

ServeInit ==
    /\ Init
    /\ archived = FALSE
    /\ key_active = TRUE
    /\ project_active = TRUE
    /\ call = [c \in Calls |-> None]
    /\ events = {}
    /\ was = [c \in Calls |-> None]
-----------------------------------------------------------------------------
(* The owner.  An edit that is still open when its flag is archived may    *)
(* commit after it.                                                        *)

Turn(ways) == was' = [c \in Calls |-> IF was[c] = None THEN None
                                      ELSE [was[c] EXCEPT !.trend = @ \cap ways]]

Edit ==
    /\ Next
    /\ Turn({t \in Trends : (t = "narrower" /\ Narrows) \/ (t = "wider" /\ Widens)})
    /\ UNCHANGED <<archived, sdk>>

ArchiveFlag ==
    /\ ~archived
    /\ archived' = TRUE
    /\ Turn({"narrower"})
    /\ UNCHANGED <<vars, sdk>>

RevokeKey ==
    /\ key_active
    /\ key_active' = FALSE
    /\ UNCHANGED <<vars, archived, project_active, call, events, was>>

DeleteProject ==
    /\ project_active
    /\ project_active' = FALSE
    /\ UNCHANGED <<vars, archived, key_active, call, events, was>>
-----------------------------------------------------------------------------
(* A request.                                                              *)

At(c, step) == call[c] # None /\ call[c].at = step
Reply(c, answer, next) ==
    call' = [call EXCEPT ![c].at = next, ![c].answer = answer]
Idle == UNCHANGED <<vars, archived, key_active, project_active, was>>

Send(c, kind, q) ==
    /\ call[c] = None
    /\ call' = [call EXCEPT ![c] =
          [kind |-> kind, q |-> q, at |-> "key", row |-> None, answer |-> None]]
    /\ was' = [was EXCEPT ![c] = [row |-> flag, rules |-> rules, archived |-> archived,
                                  trend |-> Trends, key |-> key_active, project |-> project_active]]
    /\ UNCHANGED <<vars, archived, key_active, project_active, events>>

(* Faulty: get_by_hash finds revoked keys, too. *)
ReadKeyRevokedToo(c) ==
    /\ At(c, "key")
    /\ Reply(c, None, "flag")
    /\ UNCHANGED events /\ Idle

ReadKey(c) ==
    /\ At(c, "key")
    /\ IF key_active THEN Reply(c, None, "flag") ELSE Reply(c, Refused, "done")
    /\ UNCHANGED events /\ Idle

(* Faulty: a missing flag's answer is recorded like any other. *)
ReadFlagRecordsMissing(c) ==
    /\ At(c, "flag")
    /\ IF archived
         THEN Reply(c, IF call[c].kind = "evaluate" THEN NotFound ELSE Accepted, "record")
         ELSE call' = [call EXCEPT ![c].at = "rules", ![c].row = flag]
    /\ UNCHANGED events /\ Idle

(* get_by_name's first SELECT; a missing flag is no error, nothing will be *)
(* recorded of it.                                                         *)
ReadFlag(c) ==
    /\ At(c, "flag")
    /\ IF archived
         THEN Reply(c, IF call[c].kind = "evaluate" THEN NotFound ELSE Accepted, "done")
         ELSE call' = [call EXCEPT ![c].at = "rules", ![c].row = flag]
    /\ UNCHANGED events /\ Idle

(* Faulty: the switch is not looked at. *)
LoadedRowAlwaysOn(c) == [call[c].row EXCEPT !.is_enabled = TRUE]

LoadedRow(c) == call[c].row

(* Its second SELECT (selectinload), the engine and the answer; when the   *)
(* engine raises the answer is a 500 and no task has been added.           *)
ReadRules(c) ==
    /\ At(c, "rules")
    /\ IF call[c].kind = "track" THEN Reply(c, Accepted, "record")
       ELSE \E s \in Orders(rules) :
               LET answer == EvaluateRow(LoadedRow(c), s, call[c].q) IN
               Reply(c, answer, IF answer = Raised THEN "done" ELSE "record")
    /\ UNCHANGED events /\ Idle

(* The background task, on the request's session. *)
Record(c) ==
    /\ At(c, "record")
    /\ events' = events \cup {[call |-> c, kind |-> call[c].kind, answer |-> call[c].answer]}
    /\ call' = [call EXCEPT ![c].at = "done"]
    /\ Idle

(* Its INSERT fails, or the process is killed before: nobody is told. *)
LoseRecord(c) ==
    /\ At(c, "record")
    /\ call' = [call EXCEPT ![c].at = "done"]
    /\ UNCHANGED events /\ Idle

CallStep(c) ==
    \/ \E kind \in Kinds, q \in Requests : Send(c, kind, q)
    \/ ReadKey(c) \/ ReadFlag(c) \/ ReadRules(c) \/ Record(c) \/ LoseRecord(c)

ServeNext ==
    \/ Edit \/ ArchiveFlag \/ RevokeKey \/ DeleteProject
    \/ \E c \in Calls : CallStep(c)

ServeSpec == ServeInit /\ [][ServeNext]_serve_vars
-----------------------------------------------------------------------------
(* Requests and their history keep their shape; a row is loaded before the *)
(* rules are.                                                              *)
ServeTypeOK ==
    /\ TypeOK
    /\ archived \in BOOLEAN /\ key_active \in BOOLEAN /\ project_active \in BOOLEAN
    /\ call \in [Calls -> Call \cup {None}]
    /\ was \in [Calls -> Found \cup {None}]
    /\ events \subseteq [call : Calls, kind : Kinds, answer : Answers]
    /\ \A c \in Calls : /\ At(c, "rules") => call[c].row \in Flag
                        /\ At(c, "record") => call[c].answer \in Answers
                        /\ call[c] # None <=> was[c] # None

Replied(c) == call[c] # None /\ call[c].answer \notin {None, Refused}
Says(found, q) == ~found.archived /\ DecisionOf(found.row, found.rules, q)

(* The flag's row and its rules are read one after the other, so an answer *)
(* may mix two configurations.  Still, while the owner only narrows - the  *)
(* kill switch included - nobody is served who was not served when the     *)
(* request came; while he only widens, nobody who was is turned away.      *)
AnswersFollowEdits ==
    \A c \in Calls :
       Replied(c) /\ call[c].kind = "evaluate" /\ WellFormed(call[c].q) =>
          /\ "narrower" \in was[c].trend /\ call[c].answer.enabled => Says(was[c], call[c].q)
          /\ "wider" \in was[c].trend /\ Says(was[c], call[c].q) => call[c].answer.enabled

(* An event tells what was answered, once, and never of a flag that was    *)
(* missing when its request came, of a refused one or of an exception.     *)
EventsTellAnswers ==
    /\ \A e \in events :
          /\ At(e.call, "done") /\ e.answer = call[e.call].answer /\ e.kind = call[e.call].kind
          /\ e.answer \notin {NotFound, Raised, Refused}
          /\ ~was[e.call].archived
    /\ \A d, e \in events : d.call = e.call => d = e

(* A request that comes after its key's revocation is refused and leaves   *)
(* nothing behind; one that was past the dependency is still answered.     *)
RevokedKeyOpensNothing ==
    \A c \in Calls : was[c] # None /\ ~was[c].key =>
       call[c].answer \in {None, Refused} /\ \A e \in events : e.call # c

(* "Soft-delete a project (sets is_active=False, cascades via DB to        *)
(* flags/keys)" (projects.py:61): a request that comes after it is not     *)
(* told that a flag of the project is on.                                  *)
DeletedProjectServesNothing ==
    \A c \in Calls : was[c] # None /\ ~was[c].project => ~(Replied(c) /\ call[c].answer.enabled)
=============================================================================
