---------------------------- MODULE MCFuturesShard ----------------------------
(***************************************************************************)
(* Model values for FuturesShard: one bid and one ask level.  The second   *)
(* update changes nothing, so events may start after it; the others change *)
(* a level, remove it and put it back.                                     *)
(***************************************************************************)
EXTENDS FuturesShard

MCVenueBook == [n \in 0..MaxId |->
  [l \in Levels |->
    CASE n = 0 -> 1
      [] n \in {1, 2} -> IF l \in Bids THEN 2 ELSE 1
      [] n = 3 -> IF l \in Bids THEN 2 ELSE 0
      [] OTHER -> IF l \in Bids THEN 3 ELSE 1]]
==============================================================================
