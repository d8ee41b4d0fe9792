\* Reading in two phases, the origins of variables, and recursive variables.
CONSTANTS
    Inputs <- MCInputs
    Names <- MCNames
    Targets <- MCTargets
    Files <- MCFiles
SPECIFICATION Spec
INVARIANTS OnePhase PrecedenceRight SelfReferenceRight
PROPERTY ReadonlyKept
CHECK_DEADLOCK FALSE
