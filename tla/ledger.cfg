SPECIFICATION FairLedSpec
CONSTANTS
    j1 = j1
    j2 = j2
    NoJob = NoJob
    Jobs = {j1, j2}
    Nodes <- MCNodes
    Scenarios <- MCScenarios
CHECK_DEADLOCK FALSE
INVARIANTS ProofIsFinal OneDecision
PROPERTY LedgerSettles
