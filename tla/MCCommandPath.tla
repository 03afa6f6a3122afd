--------------------------- MODULE MCCommandPath ---------------------------
(* Two of the four bits of CMD are enough: the bits do not interact.        *)
EXTENDS CommandPath
=============================================================================
