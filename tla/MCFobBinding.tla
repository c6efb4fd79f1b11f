---------------------------- MODULE MCFobBinding ----------------------------
(* FobBinding with interchangeable members, fobs, admins and redemptions. *)
EXTENDS FobBinding, TLC

Symmetry == Permutations(Members) \union Permutations(Fobs) \union Permutations(Admins)
            \union Permutations(Binders)
=============================================================================
