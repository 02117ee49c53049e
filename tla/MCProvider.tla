----------------------------- MODULE MCProvider -----------------------------
(* DBaaSProvider for the model checker.                                        *)
EXTENDS DBaaSProvider
=============================================================================
