------------------------- MODULE MCEvaluateRequest -------------------------
(***************************************************************************)
(* A small instance of EvaluateRequest: a rule that includes a user, one   *)
(* that excludes by a custom attribute; users below and at the rollout's   *)
(* threshold, one request whose custom attributes are a string.            *)
(***************************************************************************)
EXTENDS EvaluateRequest, TLC

CONSTANTS ann, bob, free, plan

rule(id, type, key, op, v, effect) ==
    [id |-> id, rule_type |-> type, attribute_key |-> key, operator |-> op,
     value |-> v, effect |-> effect, priority |-> 0]

MCRules == {rule(1, "user_id", None, "in_list", {bob}, "include"),
            rule(2, "custom_attribute", plan, "equals", free, "exclude")}

from(user, custom) ==
    [user |-> user, context |-> [email |-> None, country |-> None, custom |-> custom]]
MCRequests == {from(ann, plan :> None), from(bob, plan :> free), from(bob, free)}

MCHash == [v \in Values |-> IF v = ann THEN 149 ELSE 1050]
=============================================================================
