SPECIFICATION FairSpec
CONSTANTS
    Nodes <- WideNodes
    Edges <- WideEdges
    Pools = {"p", "console"}
    NoEdge = NoEdge
    NoPool = NoPool
    NoNode = NoNode
    In <- WideIn
    Inorder <- WideInorder
    Out <- WideOut
    Use <- WideUse
    Phony = {}
    Generator = {}
    Restat = {"g", "z"}
    Pool <- WidePool
    Depth <- WideDepth
    Targets <- WideTargets
    Manifest = NoNode
    MaxJobs = 3
    MaxFail = 1
    DryRun = FALSE
    SlotChunk = 1
    MaxTries = 2
    SpawnFails = TRUE
    InitFiles <- WideFiles
INVARIANTS
    SlotsSound
    PoolDepth
PROPERTIES
    DependencyOrder
    Terminates
