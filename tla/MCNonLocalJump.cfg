CONSTANTS
  Thread = {t1, t2}
  Stack = {s1, s2}
  Unit = {u1}
  Buf = {b1, b2}
  MaxDepth = 2
  MaxSerial = 2
  Walks = {TRUE, FALSE}
  Reuses = FALSE
  Abandons = FALSE
SPECIFICATION Spec
CHECK_DEADLOCK FALSE
INVARIANTS
  RegistryIsLive
PROPERTIES
  JumpsToItsSetJmp
  JumpsLand
