SPECIFICATION MCSpec
CONSTANTS
    NoBlock = NoBlock
    Block <- MCBlock
    Genesis = 1
    Producer <- MCProducer
    Parent <- MCParent
    Anc <- MCAnc
    Number <- MCNumber
    Witness <- MCWitness
    Time <- MCTime
    PendingOf <- MCPendingOf
    Schedule <- TwoProducers
    VoteInterval = 100
    SlotInterval = 2
    BlockNumPerWitness = 1
    DelSingleBlockTime = 2
    MaxTime = 4
    MaxNodes = 6
INVARIANTS TypeOK LinkedTree LeafExact SingleRootExact ConfirmationsReal
    ConfirmationsExact HeadLongest StateAvailable NoneLeftBehind LibMaximal
PROPERTIES LibConfirmed ChainIrreversible
