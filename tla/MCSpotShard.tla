----------------------------- MODULE MCSpotShard -----------------------------
(***************************************************************************)
(* Model values for SpotShard: one bid and one ask level.  The venue's     *)
(* history changes each in turn, removes one of them and puts it back.     *)
(***************************************************************************)
EXTENDS SpotShard

MCVenueBook == [n \in 0..MaxId |->
  [l \in Levels |->
    CASE n = 0 -> 1
      [] n = 1 -> 2
      [] n = 2 -> IF l \in Bids THEN 3 ELSE 2
      [] n = 3 -> IF l \in Bids THEN 3 ELSE 0
      [] OTHER -> IF l \in Bids THEN 3 ELSE 1]]
==============================================================================
