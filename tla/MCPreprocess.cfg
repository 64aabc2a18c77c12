CONSTANTS
    Letters = {"A", "B", "F", "V", "X", "G"}
    DigitValue <- MCDigitValue
    Width = 3
    MaxEvalDepth = 4
    Units <- MCUnits
    Budgets = {6, 100}
    MaxExpansionDepth = 6
    MaxIncludeDepth = 4
    Enough = 100
SPECIFICATION Spec
INVARIANTS
    SameOutput
    HeadersKeepGroups
    EndsByItself
