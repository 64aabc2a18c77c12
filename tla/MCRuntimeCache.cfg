CONSTANTS
  Run = {r1, r2}
  Pid = {1, 2}
  Key = {k1, k2}
SPECIFICATION Spec
INVARIANTS
  NeverHalf
  FailsForCause
  NoLitter
PROPERTIES
  StaysInPlace
  KeepsStore
  EveryRunAnswered
