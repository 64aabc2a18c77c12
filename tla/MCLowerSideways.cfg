CONSTANTS
    Taken <- TakenLabels
    Table <- TableLabels
    Values = {0, 1, 2}
    Outer = {"block", "while", "switch"}
    Inner = {"block", "do"}
    Conditions = {"plain"}
    OuterJumps = {"none", "goto2"}
    InnerJumps = {"goto5"}
SPECIFICATION Spec
INVARIANTS
    CleansWhatItLeaves
