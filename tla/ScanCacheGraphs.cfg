SPECIFICATION Spec
CONSTANTS
  tool = tool  lib = lib
  c1 = c1  c2 = c2
  python = python
  Unknown = Unknown  NoContent = NoContent  NoScan = NoScan
  Nothing = Nothing  Failed = Failed
  NoMeta = NoMeta  Corrupt = Corrupt  NoRecord = NoRecord  NoIR = NoIR
  Garbage = Garbage
  Files <- MCFiles
  Contents <- MCContents
  MayHold <- MCMayHold
  Languages = {python, Unknown}
  LangOf <- MCLangOf
  Metas <- MCMetasOne
  GraphModes = {FALSE, TRUE}
INVARIANT GraphsHonoured
CHECK_DEADLOCK FALSE
