SPECIFICATION Spec
CONSTANTS
    Sigs = {2, 20}
    Interact = {TRUE, FALSE}
    Monitor = {TRUE, FALSE}
    Entries = {{}, {2}}
    Script = TRUE
    DashC = TRUE
    TrapErrors = FALSE
    MaxNest = 2
    MaxFork = 1
CHECK_DEADLOCK FALSE
INVARIANTS
    TypeOK
    NoTrapLost
    TrapCount
    InForce
    CommandsUnharmed
    StatusKept
PROPERTIES
    SubshellResets
