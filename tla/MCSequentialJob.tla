--------------------------- MODULE MCSequentialJob --------------------------
(* Every input of two files with up to MaxPairs pairs of three keys, two of *)
(* which fall in one partition.                                             *)
EXTENDS SequentialJob

MCihash == [k \in Key |-> k]
=============================================================================
