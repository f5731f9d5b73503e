--------------------------- MODULE MC_ImageLibrary ----------------------------
(* Two concurrent uploads of the same names, discovery, a removal, a crash. *)
EXTENDS ImageLibrary, TLC

CONSTANTS u1, u2

TwoUploads == {u1, u2}
Symmetry == Permutations(TwoUploads)
===============================================================================
