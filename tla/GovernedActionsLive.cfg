SPECIFICATION BrowserFairSpec
CONSTANTS
  None = None
  a1 = a1
  a2 = a2
  a3 = a3
  r1 = r1
  r2 = r2
  r3 = r3
  c1 = c1
  c2 = c2
  i1 = i1
  i2 = i2
  Actions = {a1, a2}
  Requests = {r1, r2, r3}
  Controls = {c1}
  ControlIds = {i1}
  Browser = {a1}
  Tools = {a2}
  AutoApproved = {a2}
  Vetoed = {}
  Cancelable = {a1}
  Signature <- OneSignature
  Ttl = 1
  MaxTime = 1
  Faults = {}
CHECK_DEADLOCK FALSE
PROPERTIES
  GrantedSettles
