SPECIFICATION Spec
CONSTANTS
  w1 = w1
  w2 = w2
  Workers <- MCWorkers
  Rules <- MCRules
  Contents <- MCPatterns
  EnableGraphs = TRUE
  Fits <- MatchNode
  TaintedBy <- TaintedIdentifier
  Sources <- MCSources
  LiteralTexts <- MCLiteralTexts
  WriteModes <- MCWriteModes
  NotNames <- MCNotNames
INVARIANT
  UnpackedNamesVary
SYMMETRY Swaps
CHECK_DEADLOCK FALSE
