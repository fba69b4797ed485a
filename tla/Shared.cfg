SPECIFICATION SharedSpec
CONSTANTS
  k1 = k1
  p1 = p1
  p2 = p2
  p3 = p3
  t1 = t1
  t2 = t2
  i1 = i1
  b1 = b1
  b2 = b2
  a1 = a1
  a2 = a2
  Keys <- MCKeys
  Processes <- MCProcesses
  Empty = Empty
  MaxWrites = 2
  Failures = TRUE
  Threads <- MCThreads
  NoValue = NoValue
  MaxChanges = 2
  MaxFaults = 2
  Items <- MCItems
  Batches <- MCBatches
  Bots <- MCBots
  NoBot = NoBot
  Retries = 2
  MaxFailures = 1
INVARIANT SharedTypeOK
INVARIANT StaleEntriesHaveACause
PROPERTY StaleEntriesGo
INVARIANT FlagsHaveAnOwner
PROPERTY OldValuesAreReplaced
INVARIANT ItemsAreQueuedOnce
INVARIANT ItemsAreMadeOnce
PROPERTY PendingRowsAreDecided
CHECK_DEADLOCK FALSE
