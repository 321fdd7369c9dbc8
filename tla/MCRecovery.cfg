SPECIFICATION MCRFairSpec
CONSTANTS
    NoBlock = NoBlock
    Block <- MCBlock
    Genesis = 1
    Producer = {"A", "B", "C"}
    Parent <- MCParent
    Anc <- MCAnc
    Number <- MCNumber
    Witness <- MCWitness
    Time <- MCTime
    PendingOf <- MCPendingOf
    Tree <- ElectionTree
    VoteInterval = 3
    SlotInterval = 1
    BlockNumPerWitness = 1
    DelSingleBlockTime = 2
    MaxCrashes = 2
    Early = {4, 5, 10}
INVARIANTS LogComplete StateAvailable
PROPERTIES AddTerminates NeverRewritten NothingLost ListsRestored DurableIrreversible
