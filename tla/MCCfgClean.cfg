CONSTANTS
    N = 4
    Lowered <- MCLowered
SPECIFICATION Spec
CHECK_DEADLOCK FALSE
INVARIANTS
    SameRuns
    NumberedForReloop
