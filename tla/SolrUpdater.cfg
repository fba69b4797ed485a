SPECIFICATION FairSpec
CONSTANTS
  wk1 = wk1
  wk2 = wk2
  e1 = e1
  e2 = e2
  NoWork = NoWork
  NoSolr = NoSolr
  Torn = Torn
  Works <- MCWorks1
  Editions <- MCEditions1
  BatchSize = 2
  MaxFetches = 2
  ChunkSize = 2
  MaxLog = 3
  MaxCrashes = 1
  Failures = TRUE
CHECK_DEADLOCK FALSE
 
PROPERTY DeliversAtLeastOnce
PROPERTY EveryEditIsPassed
