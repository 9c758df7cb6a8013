--------------------------- MODULE MCMasterClerk ---------------------------
(* The shard master's clerk and tester for TLC, with server 0, from which the *)
(* client is disconnected, in every place of the clerk's list.                *)
EXTENDS MasterClerk

MCHandles == {<<0, 1, 2>>, <<1, 0, 2>>, <<2, 1, 0>>}
=============================================================================
