SPECIFICATION TxSpec
CONSTANTS
    only = only
    w1 = w1
    w2 = w2
    Txs = {only}
    Kinds = {"a2a"}
    Pausable = {only}
    Workers = {w1}
    MaxAttempts = 2
    Prices = {1}
    LateKinds = {}
    MaxLosses = 1
    NoWorker = NoWorker
    NoTx = NoTx
    NoHash = NoHash
INVARIANTS
    CreditedOnce
