\* Sequential builds, restarts, failures and kills.
CONSTANTS
    Node = {"all", "a", "b", "lib", "src", "dir", "loop", "pool", "conf.mk", "opt.mk", "lost"}
    Deps <- MCDeps
    OrderOnlys <- MCOrderOnlys
    IsPhony = {"all"}
    HasRule = {"all", "a", "b", "lib", "dir", "loop", "pool", "conf.mk"}
    NumCmds <- MCCmds
    MayFail = {"a"}
    MayNotWrite = {"b"}
    Makefiles <- MCMakefiles
    OptMakefiles <- MCOptMakefiles
    Goals <- MCGoals
    Source = {"src"}
    InitFiles <- MCInitFiles
    MaxRuns = 3
    MaxEdits = 1
SPECIFICATION FairSpec
INVARIANTS TypeOK ProcessingIsOnStack Fresh
PROPERTIES Implements NothingToDo RunEnds
CHECK_DEADLOCK FALSE
