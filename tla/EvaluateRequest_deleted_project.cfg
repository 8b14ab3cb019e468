\* A request that comes after the deletion of its project.
SPECIFICATION ServeSpec
CONSTANTS
    None = None
    ann = ann
    bob = bob
    free = free
    plan = plan
    Values = {ann, bob, free}
    Keys = {plan}
    RulePool <- MCRules
    Percents = {49, 50}
    Requests <- MCRequests
    Hash <- MCHash
    Calls = {c1}
INVARIANT DeletedProjectServesNothing
