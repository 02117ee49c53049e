------------------------------ MODULE MCWebhook ------------------------------
(* InventoryWebhook for the model checker.                                     *)
EXTENDS InventoryWebhook, TLC

\* No definition tells one name from another.
Symmetry == Permutations(Names)
=============================================================================
