----------------------------- MODULE MCRecords -----------------------------
(***************************************************************************)
(* What is kept of pages, patrons and images - entries of pages, copies    *)
(* that lag behind, cover images, shelves and ratings, accounts - for TLC. *)
(* The components share no state with each other, so a behaviour is one of *)
(* a single component: part says of which, and the variables of the others *)
(* keep their initial values.                                              *)
(***************************************************************************)
EXTENDS Invalidation, PageData, CoverStore, ReadingLog, Accounts, TLC

CONSTANTS s1, s2, c1, c2, b1, b2, p1, p2, r1, q1, q2, u1, u2, e1, e2, l1, l2

MCSites == {s1, s2}
MCClients == {c1, c2}
MCBooks == {b1, b2}
MCProcesses == {p1, p2}
MCCovers == {1, 2}
MCReaders == {r1}
MCRequests == {q1, q2}
MCStars == {0, 5}
MCUsers == {u1, u2}
MCEmails == {e1, e2}
MCLogins == {l1, l2}

Symmetry == Permutations(MCSites) \cup Permutations(MCClients)

VARIABLE part

RecordsInit ==
    /\ part \in {"copies", "pages", "covers", "shelves", "accounts"}
    /\ InvInit /\ PDInit /\ CovInit /\ RLInit /\ ACInit
    /\ part # "pages" => books = {} /\ entry = NoEntry
    /\ part # "accounts" => ia = {} /\ \A u \in Users : account[u] = NoAccount

RecordsNext ==
    /\ part' = part
    /\ \/ part = "copies" /\ InvNext /\ UNCHANGED <<pdVars, covVars, rlVars, acVars>>
       \/ part = "pages" /\ PDNext /\ UNCHANGED <<invVars, covVars, rlVars, acVars>>
       \/ part = "covers" /\ CovNext /\ UNCHANGED <<invVars, pdVars, rlVars, acVars>>
       \/ part = "shelves" /\ RLNext /\ UNCHANGED <<invVars, pdVars, covVars, acVars>>
       \/ part = "accounts" /\ ACNext /\ UNCHANGED <<invVars, pdVars, covVars, rlVars>>

RecordsSpec ==
    RecordsInit /\ [][RecordsNext]_<<part, invVars, pdVars, covVars, rlVars, acVars>>

\* The type invariants of the five components.
RecordsTypeOK == InvTypeOK /\ PDTypeOK /\ CovTypeOK /\ RLTypeOK /\ ACTypeOK

=============================================================================
