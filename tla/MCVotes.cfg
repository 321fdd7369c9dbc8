SPECIFICATION Spec
CONSTANTS
    NoBlock = NoBlock
    Block <- MCBlock
    Genesis = 1
    Producer = {"A", "B", "C"}
    Parent <- MCParent
    Anc <- MCAnc
    Number <- MCNumber
    Witness <- MCWitness
    Time <- MCTime
    PendingOf <- MCPendingOf
    Tree <- VoteTree
    VoteInterval = 3
    SlotInterval = 1
    BlockNumPerWitness = 1
    DelSingleBlockTime = 2
INVARIANTS ActiveByChain
PROPERTY LibConfirmed
