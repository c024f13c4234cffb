SPECIFICATION HSpec
CONSTANTS
    client = client
    provider = provider
    operator = operator
    hook = hook
    Address <- MCAddress
    Operator = operator
    NoAddress = NoAddress
    Escrow = Escrow
    Hooks <- MCHooks
    NoHook = NoHook
    AgentIds = {agent1, agent2}
    NoAgentId = NoAgentId
    PlatformFeeBP = 100
    EvaluatorFeeBP = 0
    InitialFunds = 20
    Amounts = {10}
    Clients = {client}
    Providers = {provider}
    Evaluators = {operator, client}
    FeeWallets = {operator}
    Blockable = {}
    MaxJobs = 2
    MaxTime = 2
    RepHook = hook
    TrustedEvaluator = operator
    MinFeedbackBudget = 10
    Controllers = {provider}
SYMMETRY MCAgentSymmetry
INVARIANTS OneIdentityPerProvider NoVerdictDodged EntriesMatchSettlements
PROPERTIES PraiseIsEarned
