---------------------------- MODULE MCMemberSync ----------------------------
(* MemberSync with interchangeable invocations, accounts and customers. *)
EXTENDS MemberSync, TLC

Symmetry == Permutations(Procs) \union Permutations(Accounts) \union Permutations(Customers)
=============================================================================
