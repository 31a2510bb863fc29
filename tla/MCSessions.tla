------------------------------ MODULE MCSessions ------------------------------
(* Sessions with pages, and the calls of a page, interchangeable. *)
EXTENDS Sessions, TLC

Symmetry == Permutations(Tab) \cup Permutations(Call)
=============================================================================
