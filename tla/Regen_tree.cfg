\* Makefiles, wildcards and find under edits, deletions and kills.
CONSTANTS
    Path = {"Makefile", "kati", "sub.mk", "d", "d/x"}
    Dirs = {"d"}
    Parent <- MCParent
    Top = "."
    Matches <- MCMatches
    Makefile = "Makefile"
    KatiBinary = "kati"
    IgnoreDirty = {}
    Var = {"PATH"}
    Val = {"a", "b", "/bin"}
    PathVar = "PATH"
    Unset = "unset"
    InitFiles <- TreeFiles
    Edits <- TreeEdits
    Deletable <- TreeDeletable
    Frozen = {"d"}
    Envs <- OneEnv
    Args = {"all"}
    MaxEdits = 3
    MaxRuns = 3
    MaxLines = 4
SPECIFICATION Spec
INVARIANTS StampCovers RegenSound NoSpuriousRegen
CHECK_DEADLOCK FALSE
