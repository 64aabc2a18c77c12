CONSTANTS
    Name = {"x", "y", "f", "g", "main"}
    Alphabets <- AllAlphabets
CHECK_DEADLOCK FALSE
SPECIFICATION Spec
INVARIANTS
    MeansTheSame
    SymbolsAsC
    Closed
