SPECIFICATION Spec
CONSTANTS
  TextTurns = {t1, t2}
  VoiceTurns = {v1}
  Turns = {t1, t2, v1}
  Reasons = {"explicit_stop", "competing_input", "user_barge_in"}
  None = None
  MaxDisturbances = 2
  MaxTurns = 2
  t1 = t1
  t2 = t2
  v1 = v1
SYMMETRY Symmetric
CHECK_DEADLOCK FALSE
INVARIANTS
  OneStory
  ClientTruthful
