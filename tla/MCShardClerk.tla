---------------------------- MODULE MCShardClerk ----------------------------
(* The shard clerk for TLC: two groups of two servers, two shards. *)
EXTENDS ShardClerk

MCServer == Group \X (1 .. n)
MCConfigs ==
  {[Shards |-> (0 :> 100) @@ (1 :> 101), Groups |-> Group], [Shards |-> (0 :> 101) @@ (1 :> 100), Groups |-> Group]}
=============================================================================
