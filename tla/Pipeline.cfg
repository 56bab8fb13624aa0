SPECIFICATION PipelineFairSpec
CONSTANTS
  root = root  src = src  static = static  deep = deep  vendored = vendored
  app = app   logo = logo  gen = gen  tests = tests  lock = lock  seed = seed  script = script  lib = lib
  w1 = w1  w2 = w2
  Root = root
  Dirs <- MCDirs
  Regulars <- MCRegulars
  Children <- MCChildren
  SkippedDirs = {static, vendored}
  AssetDirs = {static}
  DataFiles = {seed}
  SkippedFiles = {logo}
  Oversized = {}
  Ignores <- MCIgnores
  Breakable = {lock, src, static}
  EntryCap = 1
  ErrCap = 1
  Workers <- MCWorkers
  NoFile = NoFile
  Scanners <- MCScanners
  Wants <- MCWants
  TestFiles = {tests}
  ScaOnError = {"warn", "fail"}
  Fleeting = {app, lock}
INVARIANTS PipelineTypeOK EachFileOnce SendsAreFree WalkFindsTheTree
PROPERTIES RunKeepsItsPromise WorkersAreOneCall RunEnds NobodyIsLeftBehind
CHECK_DEADLOCK FALSE
