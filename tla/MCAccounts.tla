----------------------------- MODULE MCAccounts -----------------------------
(* Entry point of TLC for Accounts: users, browsers and requests are alike.  *)
EXTENDS Accounts, TLC

Symmetry == Permutations(Emails) \cup Permutations(Browsers) \cup Permutations(Requests)
=============================================================================
