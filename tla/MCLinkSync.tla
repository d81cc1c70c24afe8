----------------------------- MODULE MCLinkSync -----------------------------
(* LinkSync for TLC: links and delays are model values, given in the cfg. *)
EXTENDS LinkSync, TLC

Symmetry == Permutations(Link) \cup Permutations(Delay)
=============================================================================
