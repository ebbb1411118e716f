SPECIFICATION PolledSpec
CONSTANTS
  Works = {w1}
  Principals = {p1}
  Attempts = {1, 2}
  PaneSend = {}
  ArtifactGate = TRUE
  TornWrites = TRUE
  ObserverErrors = FALSE
  MissionEnds = {"completed"}
  None = None
  w1 = w1
  p1 = p1
  p2 = p2
INVARIANTS
  PromptedIsRecorded
  PromptedOnce
PROPERTIES
  DefinitiveIsFinal
  EndedMissionCloses
