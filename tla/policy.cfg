SPECIFICATION FairSyncSpec
CONSTANTS
    a = a
    b = b
    c = c
    small = small
    large = large
    s1 = s1
    s2 = s2
    NoCore = NoCore
    Targets = {a, b, c}
    Cores = {small, large}
    Syncers = {s1, s2}
    Policies <- MCPolicies
    Scenarios <- MCScenarios
CHECK_DEADLOCK FALSE
INVARIANTS CountsMatchLists AnswerHolds
PROPERTIES NeverOpened SyncConverges
