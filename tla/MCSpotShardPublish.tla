-------------------------- MODULE MCSpotShardPublish --------------------------
(***************************************************************************)
(* Model values for SpotShardPublish: the venue of MCSpotShard.            *)
(***************************************************************************)
EXTENDS SpotShardPublish, MCSpotShard
==============================================================================
