SPECIFICATION FairSpec
CONSTANTS
  Tasks = {t1, t2}
  Files = {f1, f2}
  Vendors = {v1}
  Local = Local
  MaxAttempts = 2
  MaxFaults = 1
CHECK_DEADLOCK FALSE
INVARIANTS
  ProductionSound
PROPERTIES
  TaskEnds
