SPECIFICATION Spec
CONSTANTS
  N = 3
  Gated = {1}
  StopOnFailure = {}
  RetryReason = {2, 3}
  MaxCost = 5
  MaxStepAttempts = 5
  StepsPerRun = 2
  Runs = {r1, r2, r3, r4}
  Deps <- MCDeps
  MaxAttempts <- MCMaxAttempts
  Cost <- MCCost
  None = None
  r1 = r1
  r2 = r2
  r3 = r3
  r4 = r4
  r5 = r5
  Overlaps = {"review"}
SYMMETRY Symmetric
CHECK_DEADLOCK FALSE
INVARIANTS
  ApprovedBeforeExecution
