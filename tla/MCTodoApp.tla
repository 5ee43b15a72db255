----------------------------- MODULE MCTodoApp -----------------------------
(* Instance of TodoApp for TLC: see the configurations for the bounds.      *)
EXTENDS TodoApp
=============================================================================
