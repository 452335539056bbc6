SPECIFICATION Spec
CONSTANTS
    Pids = {p1, p2, p3}
    rootpid = rootpid
    MaxJob = 2
    MaxProc = 2
    JobCtl = FALSE
    Failures = TRUE
    PidReuse = FALSE
    Signals = TRUE
SYMMETRY Symmetry
INVARIANTS
    TypeOK
    ListSound
PROPERTIES
    WaitForAll
