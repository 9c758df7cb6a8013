---------------------------- MODULE EntrySearch ----------------------------
(***************************************************************************)
(* The search of checkSingle (src/src/linearizability) without its linked  *)
(* list: the entries that are left are those of the operations that are    *)
(* not linearized, in the order of the history.  It decides whether the    *)
(* operations have a legal order that respects the history.                *)
(***************************************************************************)
EXTENDS Naturals, Sequences

CONSTANTS Start,         \* Model.Init()
          Legal(_, _),   \* Model.Step's first result, for a state and an operation
          After(_, _)    \* and its second

VARIABLES
  history,     \* for each id its operation, and where it is called and returns
  linearized,  \* the ids on the stack
  cache,       \* the pairs of linearized and state reached so far
  calls,       \* the stack: an id and the state before it
  state,
  entry,       \* the place in the history that is looked at, 0 for nil
  kill,
  verdict      \* what checkSingle returned, "none" while it runs

vars == <<history, linearized, cache, calls, state, entry, kill, verdict>>

Id == DOMAIN history
Operation(o) == history[o].op
CallAt(o)    == history[o].call
ReturnAt(o)  == history[o].return

\* Calls come before returns, and no two entries have one place.
WellFormed(h) ==
  /\ \A o \in DOMAIN h : /\ h[o].call \in Nat /\ h[o].return \in Nat
                         /\ 0 < h[o].call /\ h[o].call < h[o].return
  /\ \A o, p \in DOMAIN h : o # p => h[o].call # h[p].call /\ h[o].return # h[p].return
  /\ \A o, p \in DOMAIN h : h[o].call # h[p].return

\* The entries of the operations outside L.
Left(L) == {CallAt(o) : o \in Id \ L} \cup {ReturnAt(o) : o \in Id \ L}

\* b is the first entry of the list after place a.
Follows(a, b, L) ==
  /\ b \in Left(L)
  /\ a < b
  /\ \A c \in Left(L) : a < c => b <= c

Init ==
  /\ WellFormed(history)
  /\ linearized = {}
  /\ cache = {}
  /\ calls = <<>>
  /\ state = Start
  /\ IF Id = {} THEN entry = 0 ELSE Follows(0, entry, {})
  /\ kill = FALSE
  /\ verdict = "none"
-----------------------------------------------------------------------------
\* The rest of an iteration, after the loop's condition and the look at kill.
Looking == verdict = "none" /\ linearized # Id /\ ~ kill

Linearize(o) ==
  LET reached == <<linearized \cup {o}, After(state, Operation(o))>>
  IN  /\ Looking
      /\ entry = CallAt(o)
      /\ Legal(state, Operation(o))
      /\ reached \notin cache
      /\ cache' = cache \cup {reached}
      /\ calls' = Append(calls, [id |-> o, state |-> state])
      /\ state' = reached[2]
      /\ linearized' = reached[1]
      /\ IF linearized' = Id THEN entry' = 0 ELSE Follows(0, entry', linearized')
      /\ UNCHANGED <<history, kill, verdict>>

Skip(o) ==
  /\ Looking
  /\ entry = CallAt(o)
  /\ \/ ~ Legal(state, Operation(o))
     \/ <<linearized \cup {o}, After(state, Operation(o))>> \in cache
  /\ Follows(entry, entry', linearized)
  /\ UNCHANGED <<history, linearized, cache, calls, state, kill, verdict>>

Backtrack(o) ==
  LET top == calls[Len(calls)]
  IN  /\ Looking
      /\ entry = ReturnAt(o)
      /\ calls # <<>>
      /\ linearized' = linearized \ {top.id}
      /\ state' = top.state
      /\ calls' = SubSeq(calls, 1, Len(calls) - 1)
      /\ Follows(CallAt(top.id), entry', linearized')
      /\ UNCHANGED <<history, cache, kill, verdict>>

\* No order is left to try.
Refuse(o) ==
  /\ Looking
  /\ entry = ReturnAt(o)
  /\ calls = <<>>
  /\ verdict' = "false"
  /\ UNCHANGED <<history, linearized, cache, calls, state, entry, kill>>

Accept ==
  /\ verdict = "none"
  /\ linearized = Id
  /\ verdict' = "true"
  /\ UNCHANGED <<history, linearized, cache, calls, state, entry, kill>>

Stop ==
  /\ verdict = "none"
  /\ linearized # Id
  /\ kill
  /\ verdict' = "false"
  /\ UNCHANGED <<history, linearized, cache, calls, state, entry, kill>>

\* Another partition has been refused.
Kill ==
  /\ kill' = TRUE
  /\ UNCHANGED <<history, linearized, cache, calls, state, entry, verdict>>

Next ==
  \/ \E o \in Id : Linearize(o) \/ Skip(o) \/ Backtrack(o) \/ Refuse(o)
  \/ Accept \/ Stop \/ Kill

Spec == Init /\ [][Next]_vars
-----------------------------------------------------------------------------
(* What is decided *)

\* order puts every operation of h outside L once, none after one that was
\* called only when it had returned; st are the states it goes through from s.
Completes(h, L, s, order, st) ==
  LET n == Len(order)
      todo == (DOMAIN h) \ L
  IN  /\ order \in Seq(todo)
      /\ \A o \in todo : \E i \in 1 .. n : order[i] = o
      /\ \A i, j \in 1 .. n : i # j => order[i] # order[j]
      /\ \A i, j \in 1 .. n : i < j => ~ (h[order[j]].return < h[order[i]].call)
      /\ st[1] = s
      /\ \A i \in 1 .. n : /\ Legal(st[i], h[order[i]].op)
                           /\ st[i + 1] = After(st[i], h[order[i]].op)

Completable(h, L, s) == \E order, st : Completes(h, L, s, order, st)

Linearizable == Completable(history, {}, Start)

\* checkSingle accepts no history that has no legal order.
AcceptsOnlyLinearizable == verdict = "true" => Linearizable

\* checkSingle refuses no history that has one, unless it has been killed.
RefusesOnlyOthers == verdict = "false" => kill \/ ~ Linearizable
=============================================================================
