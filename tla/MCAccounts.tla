----------------------------- MODULE MCAccounts -----------------------------
(* Accounts for TLC: interchangeable requests. *)
EXTENDS Accounts, TLC

Symmetry == Permutations(Clients)

=============================================================================
