SPECIFICATION FairSpec
CONSTANTS
    Code <- MCCode
    Native <- MCNative
    Txs <- MCTxs
    Refused = {"over", "pledgeTooMuch"}
    JSCost = 2
    PreloadCost = 1
    OpCost = 1
    GetCost = 1
    MaxStack = 2
    PoolSize = 2
    MaxGas = 14
    RetCost = 1
    Pledges = {"pledge", "pledgeTooMuch"}
    PledgeKey = "p"
    Reward = 20
    UnpledgeKey = "g"
    GasLeft = 20
    Ram = 2
    TxTimeLimit = 4
    ShortLimit = 2
    MaxTime = 5
INVARIANTS ITypeOK SameReceipt FatalOnlyByAuthCharge AllOrNothing
PROPERTY TxEnds
CHECK_DEADLOCK FALSE
