----------------------------- MODULE MCAccounts -----------------------------
(***************************************************************************)
(* Accounts on a small instance.                                           *)
(***************************************************************************)
EXTENDS Accounts, TLC

Symmetry == Permutations(AccountIds) \cup Permutations(Emails)
              \cup Permutations(Passwords) \cup Permutations(Workers)
=============================================================================
