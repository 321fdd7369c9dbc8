SPECIFICATION FairSySpec
CONSTANTS
    NoBlock = NoBlock
    Block <- MCBlock
    Genesis = 1
    Parent <- MCParent
    Anc <- MCAnc
    Number <- MCNumber
    Time <- MCTime
    Witness <- MCWitness
    PendingOf <- MCPendingOf
    Confirms <- MCConfirms
    Producer = {"w"}
    VoteInterval = 1
    SlotInterval = 1
    BlockNumPerWitness = 1
    Peer <- MCPeer
    Start = {1}
    StartHead = 1
    PeerStart <- MCPeerStart
    Own = {5, 6}
    MaxSyncRange = 2
    HalfRange = 0
    RangeStep = 1
    DelSingleBlockTime = 1
    MaxInFlight = 1
    MaxLosses = 1
    QueueLen = 1
INVARIANTS RangeBelowHead
PROPERTY CatchesUp
CHECK_DEADLOCK FALSE
