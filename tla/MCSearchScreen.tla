--------------------------- MODULE MCSearchScreen ---------------------------
(* SearchScreen for TLC: two texts besides the empty one. *)
EXTENDS SearchScreen
=============================================================================
