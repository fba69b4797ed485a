SPECIFICATION Spec
CONSTANTS
  b1 = b1
  b2 = b2
  u1 = u1
  u2 = u2
  o1 = o1
  w1 = w1
  w2 = w2
  NoWait = NoWait
  Books <- MCBooks1
  Patrons <- MCPatrons1
  Outsiders <- MCOutsiders
  Workers <- MCWorkers2
  Crons <- MCWorkers2
  Rejoins = 2
  Operations <- MCAllOperations
  Elsewhere <- MCNobody
  Failures = TRUE
  MaxMails = 3
SYMMETRY Symmetry
INVARIANT TypeOK
INVARIANT MailsAreBounded
 
INVARIANT MarkedPatronsWereMailed
