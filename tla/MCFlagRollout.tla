--------------------------- MODULE MCFlagRollout ---------------------------
(***************************************************************************)
(* A small instance of FlagRollout: five rules, one per rule type and one  *)
(* with each negated operator, three of them with the default priority;    *)
(* users whose buckets lie on both sides of every percentage; contexts     *)
(* whose custom attributes are a map, null or a string.                    *)
(***************************************************************************)
EXTENDS FlagRollout, TLC

CONSTANTS ann, bob, eve, us, de, premium, plan

rule(id, type, key, op, v, effect, prio) ==
    [id |-> id, rule_type |-> type, attribute_key |-> key, operator |-> op,
     value |-> v, effect |-> effect, priority |-> prio]

MCRules == {
    rule(1, "user_id", None, "in_list", {ann, bob}, "include", 0),
    rule(2, "email", None, "not_equals", ann, "exclude", 0),
    rule(3, "country", None, "equals", us, "exclude", 1),
    rule(4, "custom_attribute", plan, "equals", premium, "include", -1),
    rule(5, "custom_attribute", plan, "not_in_list", {premium}, "exclude", 0)}

ctx(e, c, custom) == [email |-> e, country |-> c, custom |-> custom]
MCRequests == [user : {ann, bob, eve},
               context : {ctx(None, None, [k \in Keys |-> None]),
                          ctx(ann, us, [k \in Keys |-> None]),
                          ctx(ann, de, [k \in Keys |-> premium]),
                          ctx(bob, None, [k \in Keys |-> us]),
                          ctx(None, de, None),
                          ctx(bob, us, premium)}]

MCHash == [v \in Values |-> CASE v = ann -> 100
                              [] v = bob -> 1050
                              [] OTHER -> 199]
=============================================================================
