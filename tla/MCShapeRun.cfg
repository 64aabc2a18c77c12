CONSTANTS
    N = 4
    MaxOut = 3
    Twice = {0}
    Reducible = TRUE
    MaxNesting = 1
    Graphs <- MCGraphs
SPECIFICATION RSpec
INVARIANTS
    EveryBlockOnce
    ChecksNeverFail
    HeadsIndependent
    LabelsAgree
PROPERTIES
    ExecutesGraph
