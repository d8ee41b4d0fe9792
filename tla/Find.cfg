\* What find and findleaves.py print, and the directories it depends on.
CONSTANTS
    Trees <- MCTrees
    Commands <- MCCommands
    Paths <- MCPaths
    Names <- MCNames
    Fnmatch <- MCFnmatch
    MaxEdits = 2
SPECIFICATION Spec
INVARIANTS OutputRight DirsCover
CHECK_DEADLOCK FALSE
