SPECIFICATION Spec
CONSTANTS
  w1 = w1
  w2 = w2
  Workers <- MCWorkers
  Rules <- MCRules
  Contents <- MCContents
  EnableGraphs = TRUE
  Fits <- MatchNode
  TaintedBy <- TaintedIdentifier
  Sources <- MCSources
  LiteralTexts <- MCLiteralTexts
  WriteModes <- MCWriteModes
  NotNames <- MCNotNames
INVARIANTS
  MatchIsExhaustive
  StrongHasSource
  ReachingIsSound
  PathsAreChains
  FoldedArgumentsAreFixed
SYMMETRY Swaps
CHECK_DEADLOCK FALSE
