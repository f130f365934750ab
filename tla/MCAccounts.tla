----------------------------- MODULE MCAccounts -----------------------------
(* Accounts on a small instance: requests are alike, and so are the calls. *)
EXTENDS Accounts, TLC

Interchangeable == Permutations(Requests) \cup Permutations(Calls)
=============================================================================
