--------------------------- MODULE MCPositionFeed ---------------------------
(* Small instances of PositionFeed for TLC: trackers' clocks show 1 or 2.  *)
EXTENDS PositionFeed

TwoTimes == {1, 2}
=============================================================================
