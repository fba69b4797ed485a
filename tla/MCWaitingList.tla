---------------------------- MODULE MCWaitingList ----------------------------
(* Instances of WaitingList for TLC. *)
EXTENDS WaitingList, TLC

CONSTANTS b1, b2, u1, u2, o1, w1, w2

MCBooks1 == {b1}
MCBooks2 == {b1, b2}
MCPatrons1 == {u1}
MCPatrons2 == {u1, u2}
MCOutsiders == {o1}
MCWorkers1 == {w1}
MCWorkers2 == {w1, w2}
MCNobody == {}
MCEverybody == {u1, o1}

MCAllOperations == AllOperations
MCCronOnly == {"cron"}
MCRequests == AllOperations \ {"cron"}

Symmetry == Permutations(Workers)
=============================================================================
