------------------------- MODULE MCTimelineFetcher -------------------------
(* Instance of TimelineFetcher: two consecutive identifiers and a gap, one  *)
(* garbled tweet.                                                           *)
EXTENDS TimelineFetcher
=============================================================================
