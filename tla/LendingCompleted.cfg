SPECIFICATION Spec
CONSTANTS
  b1 = b1
  b2 = b2
  b3 = b3
  u1 = u1
  u2 = u2
  w1 = w1
  w2 = w2
  outsider = outsider
  Outsider = outsider
  NoLoan = NoLoan
  Books <- MCBooks1
  Patrons <- MCPatrons1
  Workers <- MCWorkers1
  MaxLoans = 1
  Reborrows = 2
  Direct <- MCNobody
  Waiters <- MCNobody
  Operations <- MCBorrowSync
  Failures = FALSE
INVARIANT CompletedLoansHaveEnded
