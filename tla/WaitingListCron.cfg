SPECIFICATION FairSpec
CONSTANTS
  b1 = b1
  b2 = b2
  u1 = u1
  u2 = u2
  o1 = o1
  w1 = w1
  w2 = w2
  NoWait = NoWait
  Books <- MCBooks2
  Patrons <- MCPatrons1
  Outsiders <- MCOutsiders
  Workers <- MCWorkers1
  Crons <- MCWorkers1
  Rejoins = 1
  Operations <- MCCronOnly
  Elsewhere <- MCEverybody
  Failures = FALSE
  MaxMails = 2
PROPERTY FirstInLineIsMarked
