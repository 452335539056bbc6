CONSTANTS
    src = src  tab = tab  hdr = hdr  gen = gen  obj = obj  mkgen = mkgen  cc = cc
    NoNode = NoNode
    Nodes = {src, tab, hdr, gen, obj}
    Edges = {mkgen, cc}
    Outputs <- McOutputs
    PathPrefixes <- McPrefixes
    In <- McIn
    OrderOnly <- McOrderOnly
    Out <- McOut
    Headers <- McHeaders
    DepOut = {obj, gen}
    LogKeep = 1
    DepsKeep = 6
    Ratio = 0
    Empty = FALSE
    Reverts = FALSE
    MaxRuns = 3
    MaxEdits = 2
    MaxCrashes = 1
SPECIFICATION Spec
INVARIANTS UpToDate NothingTwice IdsGiven OwnRecord
CHECK_DEADLOCK FALSE
