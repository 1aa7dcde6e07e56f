----------------------------- MODULE MCAccounts -----------------------------
(***************************************************************************)
(* Instances of Accounts for TLC.  Everything but the statuses is          *)
(* interchangeable.                                                        *)
(***************************************************************************)
EXTENDS Accounts, TLC

Symmetry ==
  Permutations(Tenants) \cup Permutations(Users) \cup Permutations(Emails)
    \cup Permutations(Invites) \cup Permutations(Completions) \cup Permutations(Reqs)
=============================================================================
