CONSTANTS
    Taken <- MixedLabels
    Table <- NoTable
    Values = {0, 1, 2}
    Outer = {"block", "while", "switch"}
    Inner = {"block", "do"}
    Conditions = {"plain"}
    OuterJumps = {"none", "goto2"}
    InnerJumps = {"goto*"}
SPECIFICATION Spec
INVARIANTS
    CleansOnlyWhatItLeaves
