CONSTANTS
    Lists <- AllLists
    MaxItems = 4
    Shown = {}
CHECK_DEADLOCK FALSE
SPECIFICATION Spec
INVARIANTS
    SameObject
    EvaluatedOnce
