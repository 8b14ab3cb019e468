---------------------------- MODULE FlagRollout ----------------------------
(***************************************************************************)
(* One flag while its owner edits it - FlagRepository.update,              *)
(* RuleRepository.create and delete, each committed as one transaction -   *)
(* and what POST /evaluate would answer its users in between.  The rules   *)
(* reach the engine in the order Postgres returns them: the relationship   *)
(* Flag.rules has no order_by, so any order is possible.                   *)
(***************************************************************************)
EXTENDS EvaluationEngine, FiniteSets, Functions

CONSTANTS
    RulePool,    \* rule rows the owner may create, each with its id
    Percents,    \* values of rollout_percentage the owner uses
    Requests,    \* evaluation requests: a user and a context
    Hash         \* mmh3 of flag name and user id, for each user

ASSUME RolloutParameters ==
    /\ \A r \in RulePool : ValidRule(r)
    /\ IsFiniteSet(RulePool)
    /\ Percents \subseteq 0 .. 100
    /\ Requests \subseteq [user : Values, context : Context]
    /\ Hash \in [Values -> Nat]

VARIABLES
    flag,        \* the columns of the flag's row that decide
    rules        \* its rows in flag_rules

vars == <<flag, rules>>

Flag == [is_enabled : BOOLEAN, rollout_percentage : 0 .. 100]

(* A flag is created off; the percentage comes with the request. *)
Init ==
    /\ flag \in {[is_enabled |-> FALSE, rollout_percentage |-> n] : n \in Percents}
    /\ rules = {}

Fields == {"is_enabled", "rollout_percentage"}

(* Faulty: a PATCH writes the fields that the request left out, too. *)
UpdateUnset(set, on, n) ==
    /\ flag' = [is_enabled |-> IF "is_enabled" \in set THEN on ELSE None,
                rollout_percentage |-> IF "rollout_percentage" \in set THEN n ELSE None]
    /\ UNCHANGED rules

(* PATCH of the fields in set; the request's other fields are not touched. *)
Update(set, on, n) ==
    /\ flag' = [is_enabled |-> IF "is_enabled" \in set THEN on ELSE flag.is_enabled,
                rollout_percentage |-> IF "rollout_percentage" \in set
                                          THEN n ELSE flag.rollout_percentage]
    /\ UNCHANGED rules

CreateRule(r) ==
    /\ r \notin rules
    /\ rules' = rules \cup {r}
    /\ UNCHANGED flag

DeleteRule(r) ==
    /\ r \in rules
    /\ rules' = rules \ {r}
    /\ UNCHANGED flag

Next ==
    \/ \E set \in SUBSET Fields, on \in BOOLEAN, n \in Percents : Update(set, on, n)
    \/ \E r \in RulePool : CreateRule(r) \/ DeleteRule(r)

Spec == Init /\ [][Next]_vars
-----------------------------------------------------------------------------
(* The orders in which the rules may be read: as many places as there are  *)
(* rules, and each rule in one of them.                                    *)
Orders(rs) == Surjection(1 .. Cardinality(rs), rs)

EvaluateRow(row, order, q) == Evaluate(row, order, q.user, q.context, Hash[q.user])
EvaluateIn(order, q) == EvaluateRow(flag, order, q)

(* The request gives custom attributes the engine can look into. *)
WellFormed(q) == q.context.custom \in Maps

(* What a flag's row and rules say of a request, with no order in it. *)
Matching(rs, effect, q) ==
    {r \in rs : r.effect = effect /\ RuleMatches(r, q.user, q.context)}
DecisionOf(row, rs, q) ==
    /\ row.is_enabled
    /\ Matching(rs, "exclude", q) = {}
    /\ \/ Matching(rs, "include", q) # {}
       \/ ComputeBucket(Hash[q.user]) < row.rollout_percentage
Decision(q) == DecisionOf(flag, rules, q)

TypeOK == flag \in Flag /\ rules \subseteq RulePool

(* The answer is what the configuration says, whatever the priorities and  *)
(* whatever order the rules are read in: exclude beats include beats       *)
(* rollout, and a rollout of 0 or 100 is no special case of its bucket.    *)
DecisionHolds ==
    \A q \in Requests : WellFormed(q) =>
       \A s \in Orders(rules) : EvaluateIn(s, q).enabled <=> Decision(q)

NoContext == [email |-> None, country |-> None, custom |-> [k \in Keys |-> None]]

(* A request without context is answered as if the rules on attributes of  *)
(* the context were not there, negated operators included: "All rule       *)
(* checks against context attributes return no match - fall through to     *)
(* rollout" (FLAGBASE_SPEC.md:1493).                                       *)
BareRequestSeesUserRules ==
    \A q \in Requests : q.context = NoContext =>
       \A s \in Orders(rules), t \in Orders({r \in rules : r.rule_type = "user_id"}) :
          EvaluateIn(s, q) = EvaluateIn(t, q)

Served(q) == \A s \in Orders(rules) : EvaluateIn(s, q).enabled

Widens ==
    \/ \E set \in SUBSET Fields, n \in Percents :
          /\ "rollout_percentage" \in set => n >= flag.rollout_percentage
          /\ Update(set, TRUE, n)
    \/ \E r \in RulePool : r.effect = "include" /\ CreateRule(r)
    \/ \E r \in RulePool : r.effect = "exclude" /\ DeleteRule(r)

Narrows ==
    \/ \E set \in SUBSET Fields, n \in Percents :
          /\ "rollout_percentage" \in set => n <= flag.rollout_percentage
          /\ Update(set, FALSE, n)
    \/ \E r \in RulePool : r.effect = "exclude" /\ CreateRule(r)
    \/ \E r \in RulePool : r.effect = "include" /\ DeleteRule(r)

(* Raising the rollout, turning the flag on, adding an include rule or     *)
(* removing an exclude rule never takes the flag away from a user who had  *)
(* it; the opposite edits never give it to one who did not.                *)
EditsAreMonotone ==
    [][\A q \in Requests : WellFormed(q) =>
          /\ Widens => (Served(q) => Served(q)')
          /\ Narrows => (Served(q)' => Served(q))]_vars

(* With custom_attributes that is no object, priorities and the order of   *)
(* reading decide whether the engine raises or another rule answers first. *)
(* Where it does answer, the exception has hidden no rule that could have  *)
(* answered otherwise: the answer is the one that the rules on user id,    *)
(* email and country give by themselves, in whatever order they are read.  *)
MalformedAnswersStand ==
    \A q \in Requests : ~WellFormed(q) =>
       \A s \in Orders(rules), t \in Orders({r \in rules : r.rule_type # "custom_attribute"}) :
          EvaluateIn(s, q) \in {Raised, EvaluateIn(t, q)}
=============================================================================
