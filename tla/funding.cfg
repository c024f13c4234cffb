SPECIFICATION FairFundSpec
CONSTANTS
    Budget <- MCBudget
    ClockSkew = FALSE
    MaxAttempts = 2
    Scenarios <- MCScenarios
CHECK_DEADLOCK FALSE
INVARIANTS AcceptedIsFunded FinalIsSettled
PROPERTIES DeadBudgetsReturn LaneMoves
