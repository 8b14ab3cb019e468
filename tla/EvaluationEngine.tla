-------------------------- MODULE EvaluationEngine --------------------------
(***************************************************************************)
(* services/evaluation_engine.py: the pure function that decides whether a *)
(* flag is on for a user.  A rule is a row of flag_rules, a context has an *)
(* email, a country and custom attributes, each None when the request does *)
(* not give it.  The context is any JSON object (schemas/flag.py does not  *)
(* look into it): custom, which should map keys to values, may be null -   *)
(* None - or a string, a number or a list, for which a value stands.       *)
(***************************************************************************)
EXTENDS Integers, Sequences

CONSTANTS
    Values,     \* JSON values of attributes: user ids, addresses, countries...
    Keys,       \* keys of custom attributes
    None        \* Python's None

Maps == [Keys -> Values \cup {None}]

ASSUME NoneIsNoValue == None \notin Values /\ (Values \cup {None}) \cap Maps = {}

Operators == {"equals", "not_equals", "in_list", "not_in_list"}

(* RuleCreate.validate_rule lets these through, nothing else. *)
ValidRule(r) ==
    /\ r.rule_type \in {"user_id", "email", "country", "custom_attribute"}
    /\ r.operator \in Operators
    /\ r.effect \in {"include", "exclude"}
    /\ r.priority \in Int
    /\ r.attribute_key \in Keys \cup {None}
    /\ r.rule_type = "custom_attribute" => r.attribute_key # None
    /\ IF r.operator \in {"equals", "not_equals"} THEN r.value \in Values
                                                  ELSE r.value \subseteq Values

Context == [email : Values \cup {None}, country : Values \cup {None},
            custom : Maps \cup Values \cup {None}]

(* Only a dict has get(): evaluate raises when it reaches a rule on a      *)
(* custom attribute and there is something else to look into.              *)
Raises(r, ctx) ==
    r.rule_type = "custom_attribute" /\ r.attribute_key # None /\ ctx.custom \notin Maps

GetAttribute(r, user, ctx) ==
    CASE r.rule_type = "user_id" -> user
      [] r.rule_type = "email" -> ctx.email
      [] r.rule_type = "country" -> ctx.country
      [] r.rule_type = "custom_attribute" /\ r.attribute_key # None ->
            ctx.custom[r.attribute_key]
      [] OTHER -> None

(* Faulty: an attribute that the context lacks is compared like any other. *)
RuleMatchesAbsent(r, user, ctx) ==
    LET v == GetAttribute(r, user, ctx) IN
    \/ r.operator = "equals" /\ v = r.value
    \/ r.operator = "not_equals" /\ v # r.value
    \/ r.operator = "in_list" /\ v \in r.value
    \/ r.operator = "not_in_list" /\ v \notin r.value

RuleMatches(r, user, ctx) ==
    LET v == GetAttribute(r, user, ctx) IN
    /\ v # None
    /\ \/ r.operator = "equals" /\ v = r.value
       \/ r.operator = "not_equals" /\ v # r.value
       \/ r.operator = "in_list" /\ v \in r.value
       \/ r.operator = "not_in_list" /\ v \notin r.value

(* Where a loop over the rules of one effect would end: at a match, or at  *)
(* an exception.                                                           *)
Stops(rules, effect, user, ctx) ==
    {i \in DOMAIN rules : /\ rules[i].effect = effect
                          /\ Raises(rules[i], ctx) \/ RuleMatches(rules[i], user, ctx)}

(* sorted(rules, key=priority) is stable. *)
Precedes(rules, i, j) ==
    \/ rules[i].priority < rules[j].priority
    \/ rules[i].priority = rules[j].priority /\ i < j

(* Faulty: a rule that cannot be looked at counts as one that matches. *)
RaisesNever(rules, stops, ctx) == FALSE

(* The loop ends at the first of its stops, in sorted order. *)
RaisesFirst(rules, stops, ctx) ==
    \E i \in stops : /\ Raises(rules[i], ctx)
                     /\ \A j \in stops \ {i} : Precedes(rules, i, j)

Answer(enabled, reason) == [enabled |-> enabled, reason |-> reason]
Raised == Answer(FALSE, "raised")

(* Faulty: the comparison is the wrong way round. *)
RolloutSwapped(flag, bucket) ==
    IF flag.rollout_percentage = 0 THEN Answer(FALSE, "rollout_excluded")
    ELSE IF flag.rollout_percentage = 100 THEN Answer(TRUE, "rollout_included")
    ELSE IF bucket >= flag.rollout_percentage THEN Answer(TRUE, "rollout_included")
    ELSE Answer(FALSE, "rollout_excluded")

Rollout(flag, bucket) ==
    IF flag.rollout_percentage = 0 THEN Answer(FALSE, "rollout_excluded")
    ELSE IF flag.rollout_percentage = 100 THEN Answer(TRUE, "rollout_included")
    ELSE IF bucket < flag.rollout_percentage THEN Answer(TRUE, "rollout_included")
    ELSE Answer(FALSE, "rollout_excluded")

(* mmh3 gives an unsigned 32-bit number; the remainder keeps 0..99. *)
ComputeBucket(hash) == hash % 100

(* Faulty: the include rules are looped over first. *)
EvaluateIncludeFirst(flag, rules, user, ctx, hash) ==
    LET excludes == Stops(rules, "exclude", user, ctx)
        includes == Stops(rules, "include", user, ctx) IN
    IF ~flag.is_enabled THEN Answer(FALSE, "flag_disabled")
    ELSE IF includes # {}
      THEN IF RaisesFirst(rules, includes, ctx) THEN Raised
                                                ELSE Answer(TRUE, "rule_match_include")
    ELSE IF excludes # {}
      THEN IF RaisesFirst(rules, excludes, ctx) THEN Raised
                                                ELSE Answer(FALSE, "rule_match_exclude")
    ELSE Rollout(flag, ComputeBucket(hash))

Evaluate(flag, rules, user, ctx, hash) ==
    LET excludes == Stops(rules, "exclude", user, ctx)
        includes == Stops(rules, "include", user, ctx) IN
    IF ~flag.is_enabled THEN Answer(FALSE, "flag_disabled")
    ELSE IF excludes # {}
      THEN IF RaisesFirst(rules, excludes, ctx) THEN Raised
                                                ELSE Answer(FALSE, "rule_match_exclude")
    ELSE IF includes # {}
      THEN IF RaisesFirst(rules, includes, ctx) THEN Raised
                                                ELSE Answer(TRUE, "rule_match_include")
    ELSE Rollout(flag, ComputeBucket(hash))
=============================================================================
