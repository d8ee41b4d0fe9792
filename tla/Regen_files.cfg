\* $(file ...) and $(shell ...) on files that kati itself writes, and --ignore_dirty.
CONSTANTS
    Path = {"Makefile", "kati", "r", "d", "d/x"}
    Dirs = {"d"}
    Parent <- MCParent
    Top = "."
    Matches <- MCMatches
    Makefile = "Makefile"
    KatiBinary = "kati"
    IgnoreDirty = {"d/*"}
    Var = {"PATH"}
    Val = {"a", "b", "/bin"}
    PathVar = "PATH"
    Unset = "unset"
    InitFiles <- FilesInit
    Edits <- FilesEdits
    Deletable <- FilesDeletable
    Frozen = {}
    Envs <- OneEnv
    Args = {"all"}
    MaxEdits = 2
    MaxRuns = 3
    MaxLines = 4
SPECIFICATION Spec
INVARIANTS RegenSound NoSpuriousRegen
PROPERTIES CleanCheckKeepsFiles
CHECK_DEADLOCK FALSE
