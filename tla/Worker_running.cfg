\* A shared dependency is still being built.
CONSTANTS
    Node = {"test1", "test2", "foo"}
    Deps <- BasicDeps
    OrderOnlys <- NoOrderOnlys
    IsPhony = {}
    HasRule = {"test1", "test2", "foo"}
    Cmds = {"test1", "test2", "foo"}
    MayFail = {}
    MayNotWrite = {}
    Goals <- BasicGoals
    InitTs = {}
    Worker = {w1, w2}
    Nil = Nil
SPECIFICATION FairSpec
INVARIANTS DepsFirst
CHECK_DEADLOCK FALSE
