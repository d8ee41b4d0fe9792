\* Shared, repeated and circular dependencies.
CONSTANTS
    Node = {"all", "a", "b", "lib", "self", "loop", "pool", "lost"}
    Deps <- SharedDeps
    OrderOnlys <- SharedOrderOnlys
    IsPhony = {"all", "self", "loop", "pool"}
    HasRule = {"all", "a", "b", "lib", "self", "loop", "pool"}
    Cmds = {"a", "b", "lib", "self", "pool"}
    MayFail = {"a", "lib"}
    MayNotWrite = {}
    Goals <- SharedGoals
    InitTs = {1}
    Worker = {w1, w2}
    Nil = Nil
SPECIFICATION FairSpec
INVARIANTS RunsOnce NumDepsExact NoPanic ResultRight
PROPERTIES BuildEnds
CHECK_DEADLOCK FALSE
