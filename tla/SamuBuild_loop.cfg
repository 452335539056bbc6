SPECIFICATION Spec
CONSTANTS
    Nodes <- LoopNodes
    Edges <- LoopEdges
    Pools = {}
    NoEdge = NoEdge
    NoPool = NoPool
    NoNode = NoNode
    In <- LoopIn
    Inorder <- LoopInorder
    Out <- LoopOut
    Use <- LoopUse
    Phony = {}
    Generator = {}
    Restat = {}
    Pool <- LoopPool
    Depth <- NoDepth
    Targets <- LoopTargets
    Manifest = NoNode
    MaxJobs = 2
    MaxFail = 1
    DryRun = FALSE
    SlotChunk = 1
    MaxTries = 2
    SpawnFails = FALSE
    InitFiles <- LoopFiles
INVARIANTS
    CycleRefused
