---------------------------- MODULE MCSolrUpdater ----------------------------
(* Instances of SolrUpdater for TLC. *)
EXTENDS SolrUpdater, TLC

CONSTANTS wk1, wk2, e1, e2

MCWorks1 == {wk1}
MCWorks2 == {wk1, wk2}
MCEditions1 == {e1}
MCEditions2 == {e1, e2}
MCNone == {}
=============================================================================
