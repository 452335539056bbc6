CONSTANTS
    src = src  tab = tab  hdr = hdr  gen = gen  obj = obj  mkgen = mkgen  cc = cc
    NoNode = NoNode
    Nodes = {src, tab, hdr, gen, obj}
    Edges = {mkgen, cc}
    Outputs <- McOutputs
    PathPrefixes <- McPrefixes
    In <- McSource
    OrderOnly <- McNone
    Out <- McOut
    Headers <- McOneHeader
    DepOut = {obj, gen}
    LogKeep = 1
    DepsKeep = 6
    Ratio = 0
    Empty = TRUE
    Reverts = FALSE
    MaxRuns = 3
    MaxEdits = 2
    MaxCrashes = 1
SPECIFICATION Spec
INVARIANTS OwnRecord
CHECK_DEADLOCK FALSE
