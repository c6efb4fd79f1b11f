----------------------------- MODULE MCCheckout -----------------------------
(* Checkout for TLC: requests are interchangeable, and so are plans. *)
EXTENDS Checkout, TLC

Symmetry == Permutations(Reqs) \union Permutations(Plans)
=============================================================================
