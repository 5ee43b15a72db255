------------ MODULE MCSceneCoordinator ------------
(* Instance of SceneCoordinator for TLC. *)
EXTENDS SceneCoordinator
=============================================================================
