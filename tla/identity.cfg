SPECIFICATION FairIdSpec
CONSTANTS
    Jobs <- MCJobs
    Scenarios <- MCScenarios
CHECK_DEADLOCK FALSE
INVARIANTS BoundIsTrue BindBeforeSubmit OneMintUnlessDropped
PROPERTIES BindingsEnd DeliverablesLeave
