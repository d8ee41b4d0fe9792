\* The environment, the arguments, the kati binary, and both threads of the check.
CONSTANTS
    Path = {"Makefile", "kati", "d", "d/x"}
    Dirs = {"d"}
    Parent <- MCParent
    Top = "."
    Matches <- MCMatches
    Makefile = "Makefile"
    KatiBinary = "kati"
    IgnoreDirty = {}
    Var = {"PATH", "V", "W"}
    Val = {"a", "b", "/bin"}
    PathVar = "PATH"
    Unset = "unset"
    InitFiles <- EnvInit
    Edits <- EnvEdits
    Deletable = {}
    Frozen = {}
    Envs <- SomeEnvs
    Args = {"all", "test"}
    MaxEdits = 1
    MaxRuns = 3
    MaxLines = 8
SPECIFICATION FairSpec
INVARIANTS TypeOK StampImpliesNinja RegenSound NoSpuriousRegen
PROPERTIES RunsEnd
CHECK_DEADLOCK FALSE
