------------------------------ MODULE MCLending ------------------------------
(* Instances of Lending for TLC. *)
EXTENDS Lending, TLC

CONSTANTS b1, b2, b3, u1, u2, w1, w2, outsider

MCBooks1 == {b1}
MCBooks2 == {b1, b2}
MCBooks3 == {b1, b2, b3}
MCPatrons1 == {u1}
MCPatrons2 == {u1, u2}
MCOutsiders == {outsider}
MCWorkers1 == {w1}
MCWorkers2 == {w1, w2}
MCNobody == {}

MCAllOperations == AllOperations
MCBorrowOnly == {"borrow"}
MCBorrowReturn == {"borrow", "return"}
MCBorrowSync == {"borrow", "sync"}

Symmetry == Permutations(Workers)
=============================================================================
