SPECIFICATION BrowserSpec
CONSTANTS
  None = None
  a1 = a1
  a2 = a2
  a3 = a3
  r1 = r1
  r2 = r2
  r3 = r3
  c1 = c1
  c2 = c2
  i1 = i1
  i2 = i2
  Actions = {a1, a2, a3}
  Requests = {r1, r2, r3}
  Controls = {c1, c2}
  ControlIds = {i1, i2}
  Browser = {a1}
  Tools = {a2}
  AutoApproved = {}
  Vetoed = {a3}
  Cancelable = {a1}
  Signature <- OneSignature
  Ttl = 1
  MaxTime = 2
  Faults = {"crash", "drop"}
SYMMETRY Symmetric
CHECK_DEADLOCK FALSE
INVARIANTS
  ExecutedAtMostOnce
  DispatchAuthorized
  DecisionFinal
  PageAgrees
PROPERTIES
  ImplementsContract
