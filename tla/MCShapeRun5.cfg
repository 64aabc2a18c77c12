CONSTANTS
    N = 5
    MaxOut = 2
    Twice = {}
    Reducible = FALSE
    MaxNesting = 400
    Graphs <- MCGraphs
SPECIFICATION RSpec
INVARIANTS
    EntryInScope
PROPERTIES
    ExecutesGraph
