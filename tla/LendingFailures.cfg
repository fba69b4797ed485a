SPECIFICATION Spec
CONSTANTS
  b1 = b1
  b2 = b2
  b3 = b3
  u1 = u1
  u2 = u2
  w1 = w1
  w2 = w2
  outsider = outsider
  Outsider = outsider
  NoLoan = NoLoan
  Books <- MCBooks2
  Patrons <- MCPatrons1
  Workers <- MCWorkers1
  MaxLoans = 2
  Reborrows = 1
  Direct <- MCOutsiders
  Waiters <- MCNobody
  Operations <- MCAllOperations
  Failures = TRUE
INVARIANT RecordsAreOfGrantedLoans
