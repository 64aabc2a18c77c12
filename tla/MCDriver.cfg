CONSTANTS
  r1 = r1
  r2 = r2
  aC = aC
  bC = bC
  aObj = aObj
  bObj = bObj
  oObj = oObj
  mObj = mObj
  aDep = aDep
  prog = prog
  both = both
  new = new
  old = old
  None = None
  Half = Half
  Run = {r1, r2}
  File = {aObj, bObj, oObj, mObj, aDep, prog, both}
  Unit = {aC, bC}
  Compiler = {old, new}
  Builds <- Asked
  NeedsRuntime = {bC}
  Before <- Built
  MaxInputs = 3
CHECK_DEADLOCK FALSE
SPECIFICATION Spec
INVARIANTS
  OutputsStayWhole
  BrokenOutputsAreBlamed
  CheckedIsLinked
  RuleFollowsObject
PROPERTIES
  InputsKept
  EveryRunCleansUp
