SPECIFICATION FairSpec
CONSTANTS
    Pids = {p1, p2}
    rootpid = rootpid
    MaxJob = 2
    MaxProc = 2
    JobCtl = TRUE
    Failures = FALSE
    PidReuse = FALSE
    Signals = TRUE
INVARIANTS
    ListSound
    DoneIsDone
    TerminalBack
PROPERTIES
    WaitReturns
