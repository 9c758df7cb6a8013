---------------------------- MODULE MCMapReduce -----------------------------
(* Two map tasks and one reduce task, on one worker that lasts and others *)
(* that run out of RPCs or die.                                           *)
EXTENDS MapReduce, TLC

CONSTANTS Lasting,   \* workers without a limit that never die
          Limit      \* nRPC of the others

MCnRPC == [w \in Worker |-> IF w \in Lasting THEN -1 ELSE Limit]
MCMortal == Worker \ Lasting
=============================================================================
