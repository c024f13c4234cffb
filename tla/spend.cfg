SPECIFICATION LegacySpec
CONSTANTS
    job = job
    shop = shop
    kiosk = kiosk
    NoPayee = NoPayee
    Work = {job}
    JobOf <- MCJobOf
    Payees = {shop, kiosk}
    Prices = {1, 2}
    Budget = 2
    MaxTries = 2
    MaxPays = 2
    MaxTxs = 1
    MaxJobs = 2
    MaxDay = 1
    Values = {1, 2}
    Limits = {0, 2}
    MayPause = TRUE
    Scenarios <- MCScenarios
SYMMETRY MCPayeeSymmetry
CHECK_DEADLOCK FALSE
INVARIANTS
    BooksBalance
    SentWithinLimit
    JobBudgetHolds
    UsableIsCounted
    MoneyWithinBudget
PROPERTIES
    LimitBinds
