------------------------------ MODULE MCCatalog ------------------------------
(* An instance of Catalog for TLC. *)
EXTENDS Catalog, TLC

CONSTANTS a1, a2, a3, w1, w2, e1, e2, r1, r2

MCAuthors == {a1, a2, a3}
MCWorks == {w1, w2}
MCEditions == {e1, e2}
MCRequests == {r1, r2}

Symmetry == Permutations(MCAuthors) \cup Permutations(MCWorks)
            \cup Permutations(MCEditions) \cup Permutations(MCRequests)

=============================================================================
