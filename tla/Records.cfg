SPECIFICATION RecordsSpec
CONSTANTS
  s1 = s1
  s2 = s2
  c1 = c1
  c2 = c2
  b1 = b1
  b2 = b2
  p1 = p1
  p2 = p2
  r1 = r1
  q1 = q1
  q2 = q2
  u1 = u1
  u2 = u2
  e1 = e1
  e2 = e2
  l1 = l1
  l2 = l2
  Sites <- MCSites
  Clients <- MCClients
  Timeout = 1
  NoTime = NoTime
  MaxTime = 4
  MaxEdits = 2
  Books <- MCBooks
  Processes <- MCProcesses
  Unknown = Unknown
  MaxSaves = 2
  Covers <- MCCovers
  Readers <- MCReaders
  NoCover = NoCover
  NoRow = NoRow
  Local = Local
  Missing = Missing
  Short = Short
  MaxTar = 3
  MaxKills = 1
  Requests <- MCRequests
  Stars <- MCStars
  Users <- MCUsers
  Emails <- MCEmails
  Logins <- MCLogins
  Nobody = Nobody
  MaxAdmin = 1
SYMMETRY Symmetry
INVARIANT RecordsTypeOK
 
 
INVARIANT OutdatedPartsHaveACause
PROPERTY WorksAreDeletedEmpty
 
 
INVARIANT TwoShelvesHaveACause
 
PROPERTY LoginsLinkOnce
PROPERTY SessionsAreActive
CHECK_DEADLOCK FALSE
