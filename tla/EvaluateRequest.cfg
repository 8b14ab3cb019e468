\* One SDK request between any edits of its flag, revocation and deletions.
SPECIFICATION ServeSpec
CONSTANTS
    None = None
    ann = ann
    bob = bob
    free = free
    plan = plan
    Values = {ann, bob, free}
    Keys = {plan}
    RulePool <- MCRules
    Percents = {49, 50}
    Requests <- MCRequests
    Hash <- MCHash
    Calls = {c1}
INVARIANTS ServeTypeOK AnswersFollowEdits EventsTellAnswers RevokedKeyOpensNothing
