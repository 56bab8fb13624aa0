SPECIFICATION FairSpec
CONSTANTS
  tool = tool  lib = lib
  c1 = c1  c2 = c2
  python = python
  Unknown = Unknown  NoContent = NoContent  NoScan = NoScan
  Nothing = Nothing  Failed = Failed
  NoMeta = NoMeta  Corrupt = Corrupt  NoRecord = NoRecord  NoIR = NoIR
  Garbage = Garbage
  Files <- MCFiles
  Contents <- MCContents
  MayHold <- MCMayHold
  Languages = {python, Unknown}
  LangOf <- MCLangOf
  Metas <- MCMetas
  GraphModes = {FALSE}
INVARIANTS TypeOK OnlyFreshReports CacheMatchesMeta
PROPERTIES CachedIsCold RuleEditKeepsIR ScanEnds
CHECK_DEADLOCK FALSE
