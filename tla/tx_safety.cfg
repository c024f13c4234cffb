SPECIFICATION TxSpec
CONSTANTS
    only = only
    w1 = w1
    w2 = w2
    Txs = {only}
    Kinds = {"a2a", "routed", "policySync", "transfer"}
    Pausable = {only}
    Workers = {w1, w2}
    MaxAttempts = 2
    Prices = {1, 2}
    LateKinds = {"transfer"}
    MaxLosses = 1
    NoWorker = NoWorker
    NoTx = NoTx
    NoHash = NoHash
SYMMETRY MCSymmetry
INVARIANTS
    ExecutedAtMostOnce
    ReceiptsAreTraceable
    BooksMatchChain
    ReleasedIsUnspent
