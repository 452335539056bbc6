SPECIFICATION FairSpec
CONSTANTS
    Nodes <- ConfNodes
    Edges <- ConfEdges
    Pools = {"console"}
    NoEdge = NoEdge
    NoPool = NoPool
    NoNode = NoNode
    In <- ConfIn
    Inorder <- ConfInorder
    Out <- ConfOut
    Use <- ConfUse
    Phony = {}
    Generator = {"conf"}
    Restat = {"tool", "conf"}
    Pool <- ConfPool
    Depth <- ConfDepth
    Targets <- ConfTargets
    Manifest = "build.ninja"
    MaxJobs = 2
    MaxFail = 1
    DryRun = FALSE
    SlotChunk = 1
    MaxTries = 2
    SpawnFails = FALSE
    InitFiles <- ConfFiles
INVARIANTS
    UpToDate
PROPERTIES
    Terminates
