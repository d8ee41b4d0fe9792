\* $(file >>f) in the regeneration check.
CONSTANTS
    Path = {"Makefile", "kati", "r"}
    Dirs = {}
    Parent <- MCParent
    Top = "."
    Matches <- MCMatches
    Makefile = "Makefile"
    KatiBinary = "kati"
    IgnoreDirty = {}
    Var = {"PATH"}
    Val = {"a", "b", "/bin"}
    PathVar = "PATH"
    Unset = "unset"
    InitFiles <- AppendFiles
    Edits <- NoEdits
    Deletable = {}
    Frozen = {}
    Envs <- OneEnv
    Args = {"all"}
    MaxEdits = 0
    MaxRuns = 2
    MaxLines = 3
SPECIFICATION Spec
PROPERTIES CleanCheckKeepsFiles
CHECK_DEADLOCK FALSE
