-------------------------- MODULE MCReconciliation --------------------------
(* Two legs: a view that leaves one out is trusted while it shows the other. *)
EXTENDS Reconciliation

CONSTANTS l1, l2

MCRestored == <<l1>>
=============================================================================
