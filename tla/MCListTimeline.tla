--------------------------- MODULE MCListTimeline ---------------------------
(* Instance of ListTimeline: see ListTimeline.cfg for the bounds.           *)
EXTENDS ListTimeline
=============================================================================
