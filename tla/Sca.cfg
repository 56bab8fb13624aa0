SPECIFICATION Spec
CONSTANTS
  lock = lock
  pkg = pkg
  pom = pom
  bad = bad
  web = web
  java = java
  f1 = f1
  f2 = f2
  main = main
  Manifests <- MCManifests
  Base <- MCBase
  Dir <- MCDir
  Asset <- MCAsset
  WellFormed <- MCWellFormed
  Entries <- MCEntries
  Walked <- MCWalked
  Ids <- MCIds
  Ghsa <- MCGhsa
  Canonical <- MCCanonical
  Pages <- MCPages
  Bodies <- MCBodies
  Fetchers <- MCFetchers
  Caller = main
  MaxAttempts = 2
  BatchSize = 2
  OnError = {"warn", "fail"}
INVARIANTS
  ScaTypeOK
  NoAdvisoryIsLost
  GroupsShareNoId
  BodyServedOnce
  EveryBodyWasAsked
PROPERTIES
  ScanEnds
CHECK_DEADLOCK FALSE
