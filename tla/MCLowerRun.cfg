CONSTANTS
    Taken <- TakenLabels
    Table <- TableLabels
    Values = {0, 1, 2}
    Outer = {"block", "then", "else", "while", "forever", "do", "for", "ever", "switch"}
    Inner = {"block", "else", "while", "forever", "do", "for", "switch"}
    Conditions = {"plain", "setjmp", "and", "or", "both"}
    OuterJumps = {"none", "goto1", "goto2", "break", "continue", "return", "use", "goto*"}
    InnerJumps = {"none", "goto1", "goto2", "goto3", "goto4", "break", "continue", "return", "setjmp", "table"}
SPECIFICATION Spec
INVARIANTS
    SameEvents
