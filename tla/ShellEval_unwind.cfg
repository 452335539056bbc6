SPECIFICATION Spec
CONSTANTS
    file1 = file1
    Fds = {3, 4}
    Desc = {3, 4, 5, 10, 11, 12, 13, 14, 15, 16, 17, 18, 19}
    Files = {file1}
    NoFile = NoFile
    KeepFd = KeepFd
    Scripts = Scripts
    Vars = {x}
    Values = {1}
    Unset = Unset
    NoValue = NoValue
    Redirs <- McRedirs
    Statuses = {0, 2}
    Marks = {"readonly"}
    MaxDepth = 2
    MaxLocals = 1
    LoopErrors = FALSE
    TestReturns = FALSE
CONSTRAINT OneTopic
CHECK_DEADLOCK FALSE
INVARIANTS TypeOK Balanced DescriptorsKept LocalsPresent SkipTarget
PROPERTIES Lands RedirectionsUndone LocalsUndone
