SPECIFICATION Spec
CONSTANTS
  app = app  manifest = manifest
  password = password  apikey = apikey  hardcoded = hardcoded  pair = pair
  traversal = traversal  command = command  advisory = advisory
  fpA = fpA  fpB = fpB  fpC = fpC  fpD = fpD
  path = path
  NoVar = NoVar  NoChain = NoChain
  Scanners = {"sast", "secrets", "sca"}
  Batches <- MCBatches
  Credentials = {password, apikey, hardcoded, pair}
  Shown = {"security"}
  Allowed <- MCAllowed
  Exempted <- MCExempted
INVARIANT ProvenanceSurvives
CHECK_DEADLOCK FALSE
