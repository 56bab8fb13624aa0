SPECIFICATION Spec
CONSTANTS
  env = env
  envTwin = envTwin
  compose = compose
  composeTwin = composeTwin
  torn = torn
  tornTwin = tornTwin
  program = program
  programTwin = programTwin
  image = image
  Scans <- MCScans
  Base <- MCBase
  Binary <- MCBinary
  Texts <- MCTexts
  WellFormed <- MCWellFormed
  Twin <- MCTwin
INVARIANTS
  MarkersAreLocal
  CredentialsAreReported
CHECK_DEADLOCK FALSE
