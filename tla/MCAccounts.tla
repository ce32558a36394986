----------------------------- MODULE MCAccounts -----------------------------
(* Accounts with requests and authorizations that are interchangeable.     *)
EXTENDS Accounts, TLC

Symmetry == Permutations(Requests) \union Permutations(Authorizations)
=============================================================================
