---------------------------- MODULE MCMembership ----------------------------
(* Membership with interchangeable ids, accounts, emails and invocations. *)
EXTENDS Membership, TLC

Symmetry == Permutations(Ids) \union Permutations(Accounts) \union Permutations(Emails) \union Permutations(Fobs)
            \union Permutations(Procs)
=============================================================================
