-------------------------- MODULE MCReconciliation --------------------------
(* Two zones that come and go, each with two versions of its settings. *)
EXTENDS Reconciliation

CONSTANTS s1, s2, v1, v2

TwoSubentries == {s1, s2}
TwoVersions   == {v1, v2}
OneSubentry   == {s1}
=============================================================================
