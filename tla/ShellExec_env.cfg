SPECIFICATION Spec
CONSTANTS
    Names = {"prog", "ls", "cd", "echo"}
    Regular = {"cd"}
    Irregular = {"echo"}
    Toys = {"ls"}
    Dirs = {"/a", "/b", "/c"}
    Here = Here
    Paths <- SomePaths
    DefPath <- StandardPath
    Programs <- SomePrograms
    EnvVars = {"X"}
    Values = {"on"}
    Unset = Unset
    MaxScopes = 1
INVARIANTS
    EnvironmentRight
