-------------------------- MODULE Linearizability --------------------------
(***************************************************************************)
(* The linearizability checker of src/src/linearizability with KvModel: a  *)
(* goroutine per partition searches its history over a doubly linked list  *)
(* of entries, and CheckOperationsTimeout collects their results.          *)
(***************************************************************************)
EXTENDS Naturals, Sequences, SequencesExt, FiniteSets

CONSTANTS Key,
          Histories,      \* what CheckOperations is given: sequences of operations
          EventHistories  \* what CheckEvents is given: sequences of events

VARIABLES
  history,     \* the operations
  partitions,  \* the keys that have a goroutine
  entries,     \* for each key its entries, in the order of time
  search,      \* for each key the locals of its checkSingle
  timeout,     \* timeout > 0
  kill,
  waiting,     \* the keys whose result has not been received
  ok, count,   \* locals of CheckOperationsTimeout
  at           \* where it is: "loop", "done", or "timeout" if it gave up

input == <<history, partitions, entries, timeout>>
main  == <<kill, waiting, ok, count, at>>
vars  == <<history, partitions, entries, search, timeout, kill, waiting, ok, count, at>>
-----------------------------------------------------------------------------
(* KvModel.  A string is the sequence of what was appended to it. *)

StepOk(s, o)    == o.kind = "get" => o.value = s
StepState(s, o) == CASE o.kind = "get" -> s
                     [] o.kind = "put" -> o.value
                     [] o.kind = "append" -> s \o o.value

\* The subhistory of a key.
Partition(h, k) == SelectSeq(h, LAMBDA o : o.key = k)
-----------------------------------------------------------------------------
(* The entries of a subhistory *)

Entry(kind, id, o) ==
  [kind |-> kind, id |-> id, op |-> o,
   time |-> IF kind = "call" THEN o.call ELSE o.return]

\* All sequences that sort.Sort may return: it is not stable.
SortsOf(S) ==
  LET times == SetToSortSeq({e.time : e \in S}, <)
  IN  FoldLeft(LAMBDA acc, t : {a \o b : a \in acc, b \in SetToSeqs({e \in S : e.time = t})},
               {<<>>}, times)

makeEntries(sub) ==
  SortsOf({Entry("call", i, sub[i]) : i \in DOMAIN sub}
          \cup {Entry("return", i, sub[i]) : i \in DOMAIN sub})

\* The new number of an event's id: its place among the ids by first use.
renumber(events) ==
  LET First(i) == \A j \in 1 .. i - 1 : events[j].id # events[i].id
      Number(id) == LET f == CHOOSE i \in DOMAIN events : events[i].id = id /\ First(i)
                    IN  Cardinality({i \in 1 .. f : First(i)})
  IN  [i \in DOMAIN events |-> [events[i] EXCEPT !.id = Number(events[i].id)]]

\* An event carries the input or the output, here the operation that has both.
convertEntries(events) ==
  [i \in DOMAIN events |->
     [kind |-> IF events[i].kind = "ReturnEvent" THEN "return" ELSE "call",
      id |-> events[i].id, op |-> events[i].op]]
-----------------------------------------------------------------------------
(* The list.  Nodes are places of entries, then head; 0 is nil. *)

Head_(e) == Len(e) + 1

\* The return of a call; nil for a return.
Match(e, i) ==
  IF e[i].kind = "return" THEN 0
  ELSE CHOOSE j \in DOMAIN e : e[j].kind = "return" /\ e[j].id = e[i].id

makeLinkedEntries(e) ==
  LET n == Len(e)
  IN  [next |-> [i \in 1 .. n + 1 |-> IF i < n THEN i + 1
                                      ELSE IF i = n + 1 /\ n > 0 THEN 1 ELSE 0],
       prev |-> [i \in 1 .. n |-> IF i = 1 THEN n + 1 ELSE i - 1]]

lift(l, e, m) ==
  LET next1 == [l.next EXCEPT ![l.prev[e]] = l.next[e]]
      prev1 == [l.prev EXCEPT ![l.next[e]] = l.prev[e]]
  IN  [next |-> [next1 EXCEPT ![prev1[m]] = next1[m]],
       prev |-> IF next1[m] # 0 THEN [prev1 EXCEPT ![next1[m]] = prev1[m]] ELSE prev1]

\* Mutation: what follows the call is not told of it.
unliftForwards(l, e, m) ==
  LET next1 == [l.next EXCEPT ![l.prev[m]] = m]
      prev1 == IF l.next[m] # 0 THEN [l.prev EXCEPT ![l.next[m]] = m] ELSE l.prev
  IN  [next |-> [next1 EXCEPT ![prev1[e]] = e], prev |-> prev1]

unlift(l, e, m) ==
  LET next1 == [l.next EXCEPT ![l.prev[m]] = m]
      prev1 == IF l.next[m] # 0 THEN [l.prev EXCEPT ![l.next[m]] = m] ELSE l.prev
  IN  [next |-> [next1 EXCEPT ![prev1[e]] = e],
       prev |-> [prev1 EXCEPT ![next1[e]] = e]]
-----------------------------------------------------------------------------
(* checkSingle, one action for each way through its loop *)

Begin(e) ==
  [linearized |-> {}, cache |-> {}, calls |-> <<>>, state |-> <<>>,
   entry |-> IF e = <<>> THEN 0 ELSE 1, list |-> makeLinkedEntries(e), result |-> "none"]

Ended(k) == search[k].list.next[Head_(entries[k])] = 0

InLoop(k) == k \in partitions /\ search[k].result = "none" /\ ~ Ended(k) /\ ~ kill

Reached(k) ==
  LET s == search[k]
      e == entries[k][s.entry]
  IN  <<s.linearized \cup {e.id}, StepState(s.state, e.op)>>

Stepped(k) == StepOk(search[k].state, entries[k][search[k].entry].op)

\* Mutation: the cache does not look at the state.
cacheContainsAny(k) == \E c \in search[k].cache : c[1] = Reached(k)[1]

cacheContains(k) == Reached(k) \in search[k].cache

linearize(k) ==
  LET s == search[k]
      e == entries[k][s.entry]
      l == lift(s.list, s.entry, Match(entries[k], s.entry))
  IN  /\ InLoop(k)
      /\ e.kind = "call" /\ Stepped(k) /\ ~ cacheContains(k)
      /\ search' = [search EXCEPT ![k] =
           [s EXCEPT !.linearized = Reached(k)[1],
                     !.state = Reached(k)[2],
                     !.cache = @ \cup {Reached(k)},
                     !.calls = Append(@, [id |-> e.id, node |-> s.entry, state |-> s.state]),
                     !.list = l,
                     !.entry = l.next[Head_(entries[k])]]]
      /\ UNCHANGED <<input, main>>

\* Mutation: it starts over from the head of the list.
skipToHead(k) ==
  LET s == search[k]
  IN  /\ InLoop(k)
      /\ entries[k][s.entry].kind = "call"
      /\ ~ Stepped(k) \/ cacheContains(k)
      /\ search' = [search EXCEPT ![k].entry = s.list.next[Head_(entries[k])]]
      /\ UNCHANGED <<input, main>>

skip(k) ==
  LET s == search[k]
  IN  /\ InLoop(k)
      /\ entries[k][s.entry].kind = "call"
      /\ ~ Stepped(k) \/ cacheContains(k)
      /\ search' = [search EXCEPT ![k].entry = s.list.next[s.entry]]
      /\ UNCHANGED <<input, main>>

\* Mutation: the state is not put back.
backtrackKeepsState(k) ==
  LET s == search[k]
      top == Last(s.calls)
      l == unlift(s.list, top.node, Match(entries[k], top.node))
  IN  /\ InLoop(k)
      /\ entries[k][s.entry].kind = "return"
      /\ s.calls # <<>>
      /\ search' = [search EXCEPT ![k] =
           [s EXCEPT !.linearized = @ \ {top.id},
                     !.calls = Front(@),
                     !.list = l,
                     !.entry = l.next[top.node]]]
      /\ UNCHANGED <<input, main>>

backtrack(k) ==
  LET s == search[k]
      top == Last(s.calls)
      l == unlift(s.list, top.node, Match(entries[k], top.node))
  IN  /\ InLoop(k)
      /\ entries[k][s.entry].kind = "return"
      /\ s.calls # <<>>
      /\ search' = [search EXCEPT ![k] =
           [s EXCEPT !.linearized = @ \ {top.id},
                     !.state = top.state,
                     !.calls = Front(@),
                     !.list = l,
                     !.entry = l.next[top.node]]]
      /\ UNCHANGED <<input, main>>

refuse(k) ==
  /\ InLoop(k)
  /\ entries[k][search[k].entry].kind = "return"
  /\ search[k].calls = <<>>
  /\ search' = [search EXCEPT ![k].result = "false"]
  /\ UNCHANGED <<input, main>>

accept(k) ==
  /\ k \in partitions
  /\ search[k].result = "none"
  /\ Ended(k)
  /\ search' = [search EXCEPT ![k].result = "true"]
  /\ UNCHANGED <<input, main>>

stop(k) ==
  /\ k \in partitions
  /\ search[k].result = "none"
  /\ ~ Ended(k)
  /\ kill
  /\ search' = [search EXCEPT ![k].result = "false"]
  /\ UNCHANGED <<input, main>>

checkSingle(k) ==
  linearize(k) \/ skip(k) \/ backtrack(k) \/ refuse(k) \/ accept(k) \/ stop(k)
-----------------------------------------------------------------------------
(* CheckOperationsTimeout and CheckEventsTimeout *)

\* Mutation: count is compared before it is incremented.
AllInLate == count >= Cardinality(partitions)

\* Mutation: the last partition is not waited for.
AllInEarly == count + 2 >= Cardinality(partitions)

AllIn == count + 1 >= Cardinality(partitions)

receive(k) ==
  /\ at = "loop"
  /\ k \in waiting
  /\ search[k].result # "none"
  /\ waiting' = waiting \ {k}
  /\ ok' = (ok /\ search[k].result = "true")
  /\ IF ~ ok'
     THEN kill' = TRUE /\ at' = "done" /\ UNCHANGED count
     ELSE /\ count' = count + 1
          /\ at' = IF AllIn THEN "done" ELSE "loop"
          /\ UNCHANGED kill
  /\ UNCHANGED <<input, search>>

timeoutChan ==
  /\ at = "loop"
  /\ timeout
  /\ at' = "timeout"
  /\ UNCHANGED <<input, search, kill, waiting, ok, count>>

CheckOperations ==
  \E h \in Histories :
    LET sorted == [k \in Key |-> makeEntries(Partition(h, k))]
    IN  /\ history = h
        /\ partitions = {h[i].key : i \in DOMAIN h}
        /\ entries \in {f \in [Key -> UNION Range(sorted)] : \A k \in Key : f[k] \in sorted[k]}

\* KvModel has no PartitionEvent: one partition, whatever the keys.
CheckEvents ==
  \E h \in EventHistories, k \in Key :
    LET e == convertEntries(renumber(h))
    IN  /\ \A i \in DOMAIN h : h[i].op.key = k
        /\ history = [i \in {e[j].id : j \in DOMAIN e} |->
             LET PlaceOf(kind) == CHOOSE j \in DOMAIN e : e[j].id = i /\ e[j].kind = kind
                 o == e[PlaceOf("call")].op
             IN  [key |-> k, kind |-> o.kind, value |-> o.value,
                  call |-> PlaceOf("call"), return |-> PlaceOf("return")]]
        /\ partitions = {k}
        /\ entries = [q \in Key |-> IF q = k THEN e ELSE <<>>]

Init ==
  /\ CheckOperations \/ CheckEvents
  /\ search = [k \in Key |-> Begin(entries[k])]
  /\ timeout \in BOOLEAN
  /\ kill = FALSE
  /\ waiting = partitions
  /\ ok = TRUE
  /\ count = 0
  /\ at = "loop"

Next == (\E k \in Key : checkSingle(k) \/ receive(k)) \/ timeoutChan

\* Goroutines that can go on do.
Fairness ==
  /\ \A k \in Key : WF_vars(checkSingle(k)) /\ WF_vars(receive(k))
  /\ WF_vars(timeoutChan)

Spec == Init /\ [][Next]_vars /\ Fairness
-----------------------------------------------------------------------------
(* Properties *)

\* Some order of the whole history, all keys together, is legal for a map
\* that is empty at first, and never has i behind j if Before(i, j).
LinearizableUnder(Before(_, _)) ==
  LET Do(acc, i) ==
        LET o == history[i]
        IN  [legal |-> acc.legal /\ StepOk(acc.store[o.key], o),
             store |-> [acc.store EXCEPT ![o.key] = StepState(@, o)]]
      Legal(order) == FoldLeft(Do, [legal |-> TRUE, store |-> [k \in Key |-> <<>>]], order).legal
      Keeps(order) == \A a, b \in DOMAIN order : a < b => ~ Before(order[b], order[a])
  IN  \E order \in SetToSeqs(DOMAIN history) : Keeps(order) /\ Legal(order)

\* "a history is linearizable if an only if each partition is linearizable"
\* (model.go:24-25), and CheckOperations accepts only those: what it accepts,
\* unless it timed out, has an order that keeps every operation behind those
\* that had returned before it was called.
AcceptedIsLinearizable ==
  at = "done" /\ ok => LinearizableUnder(LAMBDA i, j : history[i].return < history[j].call)

\* CheckOperations never refuses a linearizable history, timed out or not and
\* though a refused partition kills the others.  An operation that returns at
\* the time at which another is called may be taken to precede it.
RefusedIsNot ==
  at # "loop" /\ ~ ok => ~ LinearizableUnder(LAMBDA i, j : history[i].return <= history[j].call)

\* lift and unlift (linearizability.go:147-165) keep the list: from head,
\* next visits the entries that are not linearized in the order of time, and
\* prev comes back.
ListIsWhatIsLeft ==
  \A k \in partitions :
    LET s == search[k]
        left == {i \in DOMAIN entries[k] : entries[k][i].id \notin s.linearized}
        First(S) == IF S = {} THEN 0 ELSE Min(S)
    IN  /\ s.list.next[Head_(entries[k])] = First(left)
        /\ \A i \in left : LET next == First({j \in left : j > i})
                           IN  s.list.next[i] = next /\ (next # 0 => s.list.prev[next] = i)

\* Where an entry of a key's list is in its history.
Listed(k) ==
  LET e == entries[k]
      PlaceOf(id, kind) == CHOOSE j \in DOMAIN e : e[j].id = id /\ e[j].kind = kind
  IN  [id \in {e[j].id : j \in DOMAIN e} |->
         [op |-> e[PlaceOf(id, "call")].op,
          call |-> PlaceOf(id, "call"), return |-> PlaceOf(id, "return")]]

Search(k) == INSTANCE EntrySearch WITH
  Start <- <<>>, Legal <- StepOk, After <- StepState,
  history <- Listed(k),
  linearized <- search[k].linearized,
  cache <- search[k].cache,
  calls <- [i \in DOMAIN search[k].calls |->
              [id |-> search[k].calls[i].id, state |-> search[k].calls[i].state]],
  state <- search[k].state,
  entry <- search[k].entry,
  verdict <- search[k].result

\* checkSingle on its linked list makes exactly the steps of EntrySearch, for
\* which both directions of its answer are proved.
SearchSpec ==
  /\ \A k \in Key : Search(k)!Init
  /\ [][\A k \in Key : UNCHANGED Search(k)!vars \/ Search(k)!Next]_vars

\* CheckOperations returns, whatever the search costs, if there is a partition
\* or a timeout; with neither, which is an empty history under KvModel, the
\* select at linearizability.go:254 waits for ever.
Returns == <>(at # "loop" \/ (partitions = {} /\ ~ timeout))

\* No search is left behind: each comes to an end, though nobody may take its
\* result (after a timeout kill stays 0).
SearchesEnd == <>(\A k \in partitions : search[k].result # "none")
=============================================================================
