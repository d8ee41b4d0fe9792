\* Failures, timestamps and order-only dependencies when no target is shared.
CONSTANTS
    Node = {"all", "a", "b", "src", "dir"}
    Deps <- TreeDeps
    OrderOnlys <- TreeOrderOnlys
    IsPhony = {"all"}
    HasRule = {"all", "a", "b", "dir"}
    Cmds = {"all", "a", "b", "dir"}
    MayFail = {"a", "b"}
    MayNotWrite = {"a"}
    Goals <- TreeGoals
    InitTs = {1, 2}
    Worker = {w1, w2}
    Nil = Nil
SPECIFICATION Spec
INVARIANTS TypeOK UpToDate
PROPERTY Implements
CHECK_DEADLOCK FALSE
