\* One script does what the commands of a recipe do.
CONSTANTS
    Recipes <- MCRecipes
    RspSize = 12
SPECIFICATION Spec
INVARIANTS ScriptRight LinesRight
CHECK_DEADLOCK FALSE
