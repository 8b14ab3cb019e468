\* Every edit of one flag with up to five rules, evaluated for eighteen requests.
SPECIFICATION Spec
CONSTANTS
    None = None
    ann = ann
    bob = bob
    eve = eve
    us = us
    de = de
    premium = premium
    plan = plan
    Values = {ann, bob, eve, us, de, premium}
    Keys = {plan}
    RulePool <- MCRules
    Percents = {0, 1, 50, 51, 99, 100}
    Requests <- MCRequests
    Hash <- MCHash
INVARIANTS TypeOK DecisionHolds BareRequestSeesUserRules MalformedAnswersStand
PROPERTY EditsAreMonotone
