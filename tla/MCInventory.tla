---------------------------- MODULE MCInventory ----------------------------
(* InventorySystem for the model checker: the symmetries of its constants. *)
EXTENDS InventorySystem, TLC

\* No definition tells one identifier, password or set of credentials from another.
Symmetry == Permutations(DBIds) \cup Permutations(Passwords) \cup Permutations(Creds)
=============================================================================
