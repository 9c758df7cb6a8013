------------------------------- MODULE Ballot -------------------------------
(***************************************************************************)
(* What a Raft peer promises about its vote, whatever crashes in between:  *)
(* its term never goes back, and in one term it backs at most one server   *)
(* and never takes the vote back.                                          *)
(***************************************************************************)
EXTENDS Naturals

CONSTANTS Server, None
VARIABLES term, vote

Init ==
  /\ term = [s \in Server |-> 0]
  /\ vote = [s \in Server |-> None]

\* A later term, in which s has not voted or votes for itself at once.
Enter(s, v) ==
  /\ term'[s] > term[s]
  /\ term' = [term EXCEPT ![s] = term'[s]]
  /\ vote' = [vote EXCEPT ![s] = v]

Cast(s, c) ==
  /\ vote[s] = None
  /\ vote' = [vote EXCEPT ![s] = c]
  /\ UNCHANGED term

Next ==
  \E s \in Server :
    \/ \E v \in {None, s} : Enter(s, v)
    \/ \E c \in Server \ {s} : Cast(s, c)

Spec == Init /\ [][Next]_<<term, vote>>
=============================================================================
