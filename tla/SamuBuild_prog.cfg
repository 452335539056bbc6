SPECIFICATION Spec
CONSTANTS
    Nodes <- ProgNodes
    Edges <- ProgEdges
    Pools = {"p"}
    NoEdge = NoEdge
    NoPool = NoPool
    NoNode = NoNode
    In <- ProgIn
    Inorder <- ProgInorder
    Out <- ProgOut
    Use <- ProgUse
    Phony = {"all"}
    Generator = {}
    Restat = {"gen"}
    Pool <- ProgPool
    Depth <- ProgDepth
    Targets <- ProgTargets
    Manifest = NoNode
    MaxJobs = 2
    MaxFail = 2
    DryRun = FALSE
    SlotChunk = 1
    MaxTries = 2
    SpawnFails = FALSE
    InitFiles <- ProgFiles
INVARIANTS
    TypeOK
    BlockedByCapacity
    NothingForgotten
    KeepsGoing
    UpToDate
