-------------------------- MODULE MCPersonTimeline --------------------------
(* Instance of PersonTimeline: see PersonTimeline.cfg for the bounds.       *)
EXTENDS PersonTimeline
=============================================================================
