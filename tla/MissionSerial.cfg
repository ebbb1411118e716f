SPECIFICATION Spec
CONSTANTS
  N = 3
  Gated = {1}
  StopOnFailure = {}
  RetryReason = {3}
  MaxCost = 5
  MaxStepAttempts = 4
  StepsPerRun = 1
  Runs = {r1, r2, r3, r4, r5}
  Deps <- MCDeps
  MaxAttempts <- MCMaxAttempts
  Cost <- MCCost
  None = None
  r1 = r1
  r2 = r2
  r3 = r3
  r4 = r4
  r5 = r5
  Overlaps = {}
SYMMETRY Symmetric
CHECK_DEADLOCK FALSE
INVARIANTS
  ApprovedBeforeExecution
  StepEffectOnce
