SPECIFICATION MCTSpec
CONSTANTS
    NoBlock = NoBlock
    Block <- MCBlock
    Genesis = 1
    Parent <- MCParent
    Anc <- MCAnc
    Number <- MCNumber
    Time <- MCTime
    Witness <- MCWitness
    PendingOf <- MCPendingOf
    Txs <- MCTxs
    TxTime <- MCTxTime
    Expiration <- MCExpiration
    Tx = {1, 2}
    Producer = {"w", "me"}
    Account = "me"
    VoteInterval = 1
    SlotInterval = 1
    BlockNumPerWitness = 1
    FilterTime = 5
    MaxExpiration = 5
    MaxTxTimeGap = 1
    MaxBlockTimeGap = 1
    MaxCacheTxs = 1
    MaxTime = 8
    MaxRestarts = 1
INVARIANTS NoDoubleTx PendingNotOnChain NothingDropped
CHECK_DEADLOCK FALSE
