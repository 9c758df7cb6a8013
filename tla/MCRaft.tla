------------------------------- MODULE MCRaft -------------------------------
(* Raft with every interleaving of goroutines and calls that fits the bounds. *)
EXTENDS Raft, TLC

CONSTANTS MaxCalls,      \* bound: calls in progress at once
          MaxCampaigns,  \* bound: elections and leaders alive at once
          MaxActivity,   \* bound: the two together
          MaxFollowers   \* bound: awaitElection and callElection goroutines of a server

Symmetry == Permutations(Server)

Bounded ==
  /\ Cardinality(rpcs) <= MaxCalls
  /\ Cardinality(campaigns) <= MaxCampaigns
  /\ Cardinality(rpcs) + Cardinality(campaigns) <= MaxActivity
  /\ \A s \in Server :
       waiting[s] + spawned[s]["follower"] + spawned[s]["candidate"] <= MaxFollowers
=============================================================================
