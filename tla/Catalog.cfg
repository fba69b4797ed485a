SPECIFICATION CatSpec
CONSTANTS
  a1 = a1
  a2 = a2
  a3 = a3
  w1 = w1
  w2 = w2
  e1 = e1
  e2 = e2
  r1 = r1
  r2 = r2
  Authors <- MCAuthors
  Works <- MCWorks
  Editions <- MCEditions
  Requests <- MCRequests
  NoKey = NoKey
  MaxRequests = 2
SYMMETRY Symmetry
INVARIANT CatTypeOK
INVARIANT RedirectsEnd
INVARIANT MergedAuthorsAreGone
PROPERTY LoneMergesAreComplete
PROPERTY NamesAreKept
PROPERTY OcaidsAreKept
CHECK_DEADLOCK FALSE
