------------------------- MODULE MCLinearizability -------------------------
(* The checker for TLC: histories of a few operations on two keys, overlapping *)
(* in every way or one after the other, and event histories of one key.        *)
EXTENDS Linearizability

CONSTANTS a, b,       \* two keys
          MaxOps,     \* bound: operations in a history
          MaxTime     \* bound: times are 1 .. MaxTime

Op(k, kind, v) == [key |-> k, kind |-> kind, value |-> v]

Ops == <<Op(a, "get", <<>>), Op(a, "get", <<"x">>), Op(a, "put", <<"x">>),
         Op(a, "append", <<"x">>), Op(b, "get", <<"x">>), Op(b, "put", <<"x">>)>>

\* An operation takes time.
Timed == {t \in (DOMAIN Ops) \X (1 .. MaxTime) \X (1 .. MaxTime) : t[2] < t[3]}
Rank(t) == (t[1] * MaxTime + t[2]) * MaxTime + t[3]

\* Where an operation stands in the history makes no difference, so each bag of
\* operations comes in one order.
Make(o, c, r) ==
  [key |-> Ops[o].key, kind |-> Ops[o].kind, value |-> Ops[o].value, call |-> c, return |-> r]

Overlapping ==
  UNION {{[i \in 1 .. n |-> Make(f[i][1], f[i][2], f[i][3])] :
            f \in {g \in [1 .. n -> Timed] :
                     \A i \in 1 .. n - 1 : Rank(g[i]) <= Rank(g[i + 1])}} : n \in 0 .. MaxOps}

\* One operation after the other.
Chains == {[i \in 1 .. MaxOps |-> Make(f[i], 2 * i, 2 * i + 1)] : f \in [1 .. MaxOps -> DOMAIN Ops]}

MCHistories == Overlapping \cup Chains

Event(kind, id, o) == [kind |-> kind, id |-> id, op |-> o]

\* Two operations of one key under way together, or one after the other, with
\* ids that are no places.
MCEventHistories ==
  UNION {{<<Event("CallEvent", 7, o), Event("CallEvent", 4, p), Event("ReturnEvent", 4, p), Event("ReturnEvent", 7, o)>>,
          <<Event("CallEvent", 7, o), Event("ReturnEvent", 7, o), Event("CallEvent", 4, p), Event("ReturnEvent", 4, p)>>} :
         o \in {Ops[i] : i \in 1 .. 4}, p \in {Ops[i] : i \in 1 .. 4}}

MCKey == {a, b}
=============================================================================
