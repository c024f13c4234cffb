SPECIFICATION FairSetSpec
CONSTANTS
    Scenarios <- MCScenarios
CHECK_DEADLOCK FALSE
INVARIANTS BooksFollowChain SendsAgree FileIsCommitted
PROPERTIES ReviewIsObeyed OutcomesAreBooked DeliveriesSettle
