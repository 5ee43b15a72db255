----------------------------- MODULE MCUserCells -----------------------------
(* UserCells for TLC: two cells take turns at the rows of two users. *)
EXTENDS UserCells
=============================================================================
