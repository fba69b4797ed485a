SPECIFICATION Spec
CONSTANTS
  b1 = b1
  b2 = b2
  b3 = b3
  u1 = u1
  u2 = u2
  w1 = w1
  w2 = w2
  outsider = outsider
  Outsider = outsider
  NoLoan = NoLoan
  Books <- MCBooks3
  Patrons <- MCPatrons1
  Workers <- MCWorkers2
  MaxLoans = 1
  Reborrows = 1
  Direct <- MCNobody
  Waiters <- MCNobody
  Operations <- MCBorrowOnly
  Failures = FALSE
SYMMETRY Symmetry
INVARIANT OverborrowIsBounded
