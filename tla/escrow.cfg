SPECIFICATION FairSpec
CONSTANTS
    client = client
    provider = provider
    operator = operator
    Address <- MCAddress
    Operator = operator
    NoAddress = NoAddress
    Escrow = Escrow
    Hooks = {}
    NoHook = NoHook
    AgentIds = {agent1}
    NoAgentId = NoAgentId
    PlatformFeeBP = 100
    EvaluatorFeeBP = 50
    InitialFunds = 20398
    Amounts <- MCAmounts
    Clients = {client}
    Providers = {provider, Escrow}
    Evaluators = {operator, client, Escrow}
    FeeWallets = {operator, Escrow}
    Blockable = {client, provider}
    MaxJobs = 2
    MaxTime = 2
INVARIANT Solvency
PROPERTIES TermsFrozen HeldJobsAreReleased
