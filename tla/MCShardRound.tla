---------------------------- MODULE MCShardRound ----------------------------
(* Small instances of ShardRound: the configurations give every constant.   *)
EXTENDS ShardRound
=============================================================================
