------------------------- MODULE EntrySearchProofs -------------------------
(***************************************************************************)
(* EntrySearch decides linearizability: for every history, model and state *)
(* space, what it accepts has a legal order and what it refuses without    *)
(* being killed has none.                                                  *)
(***************************************************************************)
EXTENDS EntrySearch, SequenceTheorems, TLAPS

\* The levels of the search: what is below each, the state it is in, and the
\* entry it has come to.
Under(i)   == {calls[j].id : j \in 1 .. i}
StateAt(i) == IF i = Len(calls) THEN state ELSE calls[i + 1].state
PlaceAt(i) == IF i = Len(calls) THEN entry ELSE CallAt(calls[i + 1].id)

\* A level has passed no return, and every call that it has passed is illegal
\* or leads nowhere.
Level(h, L, s, place) ==
  /\ \A o \in (DOMAIN h) \ L : place <= h[o].return
  /\ \A o \in (DOMAIN h) \ L :
       h[o].call < place /\ Legal(s, h[o].op) => ~ Completable(h, L \cup {o}, After(s, h[o].op))

\* The stack is a legal order of what is linearized.
StackInv ==
  /\ WellFormed(history)
  /\ \E S : calls \in Seq(S)
  /\ linearized = Under(Len(calls))
  /\ \A i \in 1 .. Len(calls) : calls[i].id \in Id \ Under(i - 1)
  /\ StateAt(0) = Start
  /\ \A i \in 1 .. Len(calls) :
       /\ Legal(calls[i].state, Operation(calls[i].id))
       /\ StateAt(i) = After(calls[i].state, Operation(calls[i].id))

LevelInv ==
  /\ linearized # Id => entry \in Left(linearized)
  /\ \A i \in 0 .. Len(calls) : Level(history, Under(i), StateAt(i), PlaceAt(i))

\* What is cached is on the stack or has been given up for good.
CacheInv ==
  \A c \in cache : \/ ~ Completable(history, c[1], c[2])
                   \/ \E i \in 1 .. Len(calls) : c = <<Under(i), StateAt(i)>>

VerdictInv ==
  /\ verdict = "true" => linearized = Id
  /\ verdict = "false" => kill \/ ~ Linearizable

Inv == StackInv /\ LevelInv /\ CacheInv /\ VerdictInv

USE DEF Id, Operation, CallAt, ReturnAt
-----------------------------------------------------------------------------
\* The rest of a completion completes what its first operation leads to.
LEMMA Rest ==
  ASSUME NEW h, NEW L, NEW s, NEW order, NEW st, Completes(h, L, s, order, st), Len(order) >= 1
  PROVE  /\ order[1] \in (DOMAIN h) \ L
         /\ Legal(s, h[order[1]].op)
         /\ Completable(h, L \cup {order[1]}, After(s, h[order[1]].op))
<1> DEFINE n == Len(order)
           tail == Tail(order)
           st2 == [i \in Nat |-> st[i + 1]]
           M == L \cup {order[1]}
<1>1. order \in Seq((DOMAIN h) \ L) /\ n \in Nat /\ n >= 1
  BY DEF Completes
<1>2. \A i \in 1 .. n : order[i] \in (DOMAIN h) \ L
  BY <1>1
<1>3. Len(tail) = n - 1 /\ \A i \in 1 .. n - 1 : tail[i] = order[i + 1]
  BY <1>1
<1>4. \A i, j \in 1 .. n : i # j => order[i] # order[j]
  BY DEF Completes
<1>5. tail \in Seq((DOMAIN h) \ M)
  <2>0. tail \in Seq((DOMAIN h) \ L)
    BY <1>1, HeadTailProperties
  <2>1. tail \in [1 .. n - 1 -> (DOMAIN h) \ L]
    BY <1>3, <2>0, LenProperties
  <2>2. \A i \in 1 .. n - 1 : tail[i] \in (DOMAIN h) \ M
    BY <1>1, <1>2, <1>3, <1>4
  <2>3. tail \in [1 .. n - 1 -> (DOMAIN h) \ M]
    BY <2>1, <2>2
  <2> HIDE DEF tail, M, n
  <2> QED BY <1>1, <2>3, SeqDef
<1>6. ASSUME NEW o \in (DOMAIN h) \ M PROVE \E i \in 1 .. n - 1 : tail[i] = o
  <2>1. PICK i \in 1 .. n : order[i] = o
    BY DEF Completes
  <2>2. i # 1 BY <2>1
  <2>3. i - 1 \in 1 .. n - 1 /\ tail[i - 1] = o
    BY <1>1, <1>3, <2>1, <2>2
  <2> QED BY <2>3
<1>7. \A i, j \in 1 .. n - 1 : i # j => tail[i] # tail[j]
  BY <1>1, <1>3, <1>4
<1>8. \A i, j \in 1 .. n - 1 : i < j => ~ (h[tail[j]].return < h[tail[i]].call)
  <2>1. \A i, j \in 1 .. n : i < j => ~ (h[order[j]].return < h[order[i]].call)
    BY DEF Completes
  <2>2. ASSUME NEW i \in 1 .. n - 1, NEW j \in 1 .. n - 1, i < j
        PROVE  ~ (h[tail[j]].return < h[tail[i]].call)
    <3>1. i + 1 \in 1 .. n /\ j + 1 \in 1 .. n /\ i + 1 < j + 1
      BY <1>1, <2>2
    <3>2. tail[i] = order[i + 1] /\ tail[j] = order[j + 1]
      BY <1>3
    <3> QED BY <2>1, <3>1, <3>2
  <2> QED BY <2>2
<1>9. st[1] = s /\ \A i \in 1 .. n : /\ Legal(st[i], h[order[i]].op)
                                     /\ st[i + 1] = After(st[i], h[order[i]].op)
  BY DEF Completes
<1>10. st2[1] = After(s, h[order[1]].op)
  BY <1>1, <1>9
<1>11. ASSUME NEW i \in 1 .. n - 1
       PROVE  /\ Legal(st2[i], h[tail[i]].op)
              /\ st2[i + 1] = After(st2[i], h[tail[i]].op)
  <2>1. i \in Nat /\ i + 1 \in 1 .. n /\ tail[i] = order[i + 1]
    BY <1>1, <1>3
  <2>2. st2[i] = st[i + 1] /\ st2[i + 1] = st[(i + 1) + 1]
    BY <2>1
  <2> QED BY <1>9, <2>1, <2>2
<1>12. Completes(h, M, After(s, h[order[1]].op), tail, st2)
  <2> HIDE DEF tail, st2, M
  <2> QED BY <1>3, <1>5, <1>6, <1>7, <1>8, <1>10, <1>11 DEF Completes
<1> QED BY <1>1, <1>2, <1>9, <1>12 DEF Completable

\* A level that has come to a return has tried everything that may be next.
LEMMA DeadEnd ==
  ASSUME NEW h, WellFormed(h), NEW L, NEW s, NEW r \in (DOMAIN h) \ L, Level(h, L, s, h[r].return)
  PROVE  ~ Completable(h, L, s)
<1> SUFFICES ASSUME NEW order, NEW st, Completes(h, L, s, order, st) PROVE FALSE
  BY DEF Completable
<1>1. order \in Seq((DOMAIN h) \ L) /\ Len(order) \in Nat
  BY DEF Completes
<1>2. PICK j \in 1 .. Len(order) : order[j] = r
  BY DEF Completes
<1>3. Len(order) >= 1
  BY <1>1, <1>2
<1>4. order[1] \in (DOMAIN h) \ L /\ Legal(s, h[order[1]].op)
      /\ Completable(h, L \cup {order[1]}, After(s, h[order[1]].op))
  BY <1>3, Rest
<1>5. h[r].return \in Nat /\ h[order[1]].call \in Nat /\ h[order[1]].call # h[r].return
  BY <1>4 DEF WellFormed
<1>6. h[order[1]].call < h[r].return
  <2>1. CASE j = 1
    BY <1>2, <2>1 DEF WellFormed
  <2>2. CASE j # 1
    <3>1. 1 \in 1 .. Len(order) /\ 1 < j
      BY <1>1, <1>3, <2>2
    <3>2. ~ (h[order[j]].return < h[order[1]].call)
      BY <3>1 DEF Completes
    <3> QED BY <1>2, <1>5, <3>2
  <2> QED BY <2>1, <2>2
<1> QED BY <1>4, <1>6 DEF Level

\* A full stack is a legal order.
LEMMA FullStack ==
  ASSUME StackInv, LevelInv, linearized = Id
  PROVE  Linearizable
<1> DEFINE n == Len(calls)
           order == [i \in 1 .. n |-> calls[i].id]
           st == [i \in Nat |-> StateAt(i - 1)]
<1>1. n \in Nat
  BY DEF StackInv
<1>2. \A i \in 1 .. n : order[i] \in Id \ Under(i - 1)
  BY DEF StackInv
<1>3. order \in Seq(Id) /\ Len(order) = n
  BY <1>1, <1>2
<1>4. ASSUME NEW o \in Id PROVE \E i \in 1 .. n : order[i] = o
  BY DEF StackInv, Under
<1>5. ASSUME NEW i \in 1 .. n, NEW j \in 1 .. n, i < j
      PROVE  order[i] # order[j] /\ order[j] \in Id \ Under(i - 1)
  <2>1. i \in 1 .. j - 1 /\ \A k \in 1 .. i - 1 : k \in 1 .. j - 1
    BY <1>1, <1>5
  <2>2. order[i] \in Under(j - 1) /\ Under(i - 1) \subseteq Under(j - 1)
    BY <2>1 DEF Under
  <2> QED BY <1>2, <2>2
<1>6. ASSUME NEW i \in 1 .. n, NEW j \in 1 .. n, i < j
      PROVE  ~ (ReturnAt(order[j]) < CallAt(order[i]))
  <2>1. i - 1 \in 0 .. n /\ i - 1 # n /\ (i - 1) + 1 = i
    BY <1>1
  <2>2. PlaceAt(i - 1) = CallAt(order[i])
    BY <2>1 DEF PlaceAt
  <2>3. Level(history, Under(i - 1), StateAt(i - 1), PlaceAt(i - 1))
    BY <2>1 DEF LevelInv
  <2>4. CallAt(order[i]) <= ReturnAt(order[j])
    BY <1>5, <1>6, <2>2, <2>3 DEF Level
  <2>5. CallAt(order[i]) \in Nat /\ ReturnAt(order[j]) \in Nat
    BY <1>2 DEF StackInv, WellFormed
  <2> QED BY <2>4, <2>5
<1>7. st[1] = Start
  BY DEF StackInv
<1>8. ASSUME NEW i \in 1 .. n
      PROVE  /\ Legal(st[i], Operation(order[i]))
             /\ st[i + 1] = After(st[i], Operation(order[i]))
  <2>1. i \in Nat /\ i + 1 \in Nat /\ (i - 1) + 1 = i /\ (i + 1) - 1 = i /\ i - 1 # n
    BY <1>1
  <2>2. st[i] = calls[i].state
    BY <2>1 DEF StateAt
  <2>3. st[i + 1] = StateAt(i)
    BY <2>1
  <2>4. /\ Legal(calls[i].state, Operation(calls[i].id))
        /\ StateAt(i) = After(calls[i].state, Operation(calls[i].id))
    BY DEF StackInv
  <2> QED BY <2>2, <2>3, <2>4
<1>9. \A i, j \in 1 .. n : i # j => order[i] # order[j]
  <2> SUFFICES ASSUME NEW i \in 1 .. n, NEW j \in 1 .. n, i # j PROVE order[i] # order[j]
    OBVIOUS
  <2>1. i < j \/ j < i
    BY <1>1
  <2> QED BY <1>5, <2>1
<1> HIDE DEF order, st
<1>10. Completes(history, {}, Start, order, st)
  BY <1>3, <1>4, <1>6, <1>7, <1>8, <1>9 DEF Completes
<1> QED BY <1>10 DEF Linearizable, Completable
-----------------------------------------------------------------------------
\* The entry that is looked at belongs to an operation that is left.
LEMMA LookedAt ==
  ASSUME Inv, Looking, NEW o \in Id, entry \in {CallAt(o), ReturnAt(o)}
  PROVE  o \notin linearized
<1>1. entry \in Left(linearized)
  BY DEF Inv, LevelInv, Looking
<1>2. PICK p \in Id \ linearized : entry \in {CallAt(p), ReturnAt(p)}
  BY <1>1 DEF Left
<1>3. p = o
  BY <1>2 DEF Inv, StackInv, WellFormed
<1> QED BY <1>2, <1>3

\* A stack that holds.
LEMMA Stack ==
  ASSUME StackInv
  PROVE  /\ Len(calls) \in Nat
         /\ Under(0) = {}
         /\ \A i \in 1 .. Len(calls) : Under(i) = Under(i - 1) \cup {calls[i].id}
<1>1. Len(calls) \in Nat
  BY DEF StackInv
<1>2. Under(0) = {}
  BY DEF Under
<1>3. ASSUME NEW i \in 1 .. Len(calls) PROVE Under(i) = Under(i - 1) \cup {calls[i].id}
  <2>1. \A j : j \in 1 .. i <=> j \in 1 .. i - 1 \/ j = i
    BY <1>1
  <2> QED BY <2>1 DEF Under
<1> QED BY <1>1, <1>2, <1>3

LEMMA LinearizeStep ==
  ASSUME Inv, NEW o \in Id, Linearize(o)
  PROVE  Inv'
<1> DEFINE frame == [id |-> o, state |-> state]
           now == After(state, Operation(o))
<1>1. PICK n \in Nat : n = Len(calls)
  BY Stack DEF Inv
<1>2. o \notin linearized
  BY LookedAt DEF Linearize
<1>3. PICK S : calls \in Seq(S)
  BY <1>1 DEF Inv, StackInv
<1>4. calls' \in Seq(S \cup {frame}) /\ Len(calls') = n + 1
      /\ (\A i \in 1 .. n : calls'[i] = calls[i]) /\ calls'[n + 1] = frame
  <2>1. calls \in Seq(S \cup {frame})
    BY <1>1, <1>3, SeqMonotonic
  <2>2. calls' = Append(calls, frame)
    BY <1>1 DEF Linearize
  <2> HIDE DEF frame
  <2> QED BY <1>1, <2>1, <2>2, AppendProperties
<1>5. history' = history /\ linearized' = linearized \cup {o} /\ state' = now
      /\ cache' = cache \cup {<<linearized \cup {o}, now>>} /\ UNCHANGED <<kill, verdict>>
      /\ entry = CallAt(o) /\ Legal(state, Operation(o)) /\ verdict = "none"
      /\ IF linearized' = Id THEN entry' = 0 ELSE Follows(0, entry', linearized')
  BY <1>1 DEF Linearize, Looking
<1> HIDE DEF now
<1>6. \A i \in 0 .. n : Under(i)' = Under(i)
  BY <1>1, <1>4 DEF Under
<1>7. Under(n + 1)' = linearized \cup {o}
  <2>1. \A j : j \in 1 .. n + 1 <=> j \in 1 .. n \/ j = n + 1
    BY <1>1
  <2>2. {calls'[j].id : j \in 1 .. n + 1} = {calls'[j].id : j \in 1 .. n} \cup {calls'[n + 1].id}
    BY <1>1, <2>1
  <2>3. calls'[n + 1].id = o
    BY <1>1, <1>4
  <2>4. {calls'[j].id : j \in 1 .. n} = linearized
    BY <1>1, <1>4 DEF Inv, StackInv, Under
  <2> QED BY <1>1, <2>2, <2>3, <2>4 DEF Under
<1>8. (\A i \in 0 .. n : StateAt(i)' = StateAt(i)) /\ StateAt(n + 1)' = now
  <2>1. ASSUME NEW i \in 0 .. n PROVE StateAt(i)' = StateAt(i)
    <3>1. CASE i = n BY <1>1, <1>4, <3>1 DEF StateAt
    <3>2. CASE i # n
      <4>1. i + 1 \in 1 .. n /\ i # n + 1
        BY <1>1, <3>2
      <4> QED BY <1>1, <1>4, <3>2, <4>1 DEF StateAt
    <3> QED BY <1>1, <3>1, <3>2
  <2>2. StateAt(n + 1)' = now
    BY <1>1, <1>4, <1>5 DEF StateAt
  <2> QED BY <1>1, <2>1, <2>2
<1>9. (\A i \in 0 .. n : PlaceAt(i)' = PlaceAt(i)) /\ PlaceAt(n + 1)' = entry'
  <2>1. ASSUME NEW i \in 0 .. n PROVE PlaceAt(i)' = PlaceAt(i)
    <3>1. CASE i = n BY <1>1, <1>4, <1>5, <3>1 DEF PlaceAt
    <3>2. CASE i # n
      <4>1. i + 1 \in 1 .. n /\ i # n + 1
        BY <1>1, <3>2
      <4> QED BY <1>1, <1>4, <1>5, <3>2, <4>1 DEF PlaceAt
    <3> QED BY <1>1, <3>1, <3>2
  <2>2. PlaceAt(n + 1)' = entry'
    BY <1>1, <1>4 DEF PlaceAt
  <2> QED BY <1>1, <2>1, <2>2
<1>10. StackInv'
  <2>1. \A i \in 1 .. n + 1 : calls'[i].id \in Id \ Under(i - 1)'
    <3>1. ASSUME NEW i \in 1 .. n PROVE calls'[i].id \in Id \ Under(i - 1)'
      <4>1. i - 1 \in 0 .. n
        BY <1>1
      <4> QED BY <1>1, <1>4, <1>6, <4>1 DEF Inv, StackInv
    <3>2. calls'[n + 1].id \in Id \ Under(n)'
      BY <1>1, <1>2, <1>4, <1>6 DEF Inv, StackInv
    <3>3. (n + 1) - 1 = n /\ \A i \in 1 .. n + 1 : i \in 1 .. n \/ i = n + 1
      BY <1>1
    <3> QED BY <1>1, <3>1, <3>2, <3>3
  <2>2. StateAt(0)' = Start
    BY <1>1, <1>8 DEF Inv, StackInv
  <2>3. \A i \in 1 .. n + 1 : /\ Legal(calls'[i].state, Operation(calls'[i].id))
                            /\ StateAt(i)' = After(calls'[i].state, Operation(calls'[i].id))
    <3>1. ASSUME NEW i \in 1 .. n
          PROVE  /\ Legal(calls'[i].state, Operation(calls'[i].id))
                 /\ StateAt(i)' = After(calls'[i].state, Operation(calls'[i].id))
      <4>1. i \in 0 .. n
        BY <1>1
      <4> QED BY <1>1, <1>4, <1>8, <4>1 DEF Inv, StackInv
    <3>2. /\ Legal(calls'[n + 1].state, Operation(calls'[n + 1].id))
          /\ StateAt(n + 1)' = After(calls'[n + 1].state, Operation(calls'[n + 1].id))
      BY <1>1, <1>4, <1>5, <1>8 DEF now
    <3>3. \A i \in 1 .. n + 1 : i \in 1 .. n \/ i = n + 1
      BY <1>1
    <3> QED BY <1>1, <3>1, <3>2, <3>3
  <2> QED BY <1>1, <1>4, <1>5, <1>7, <2>1, <2>2, <2>3 DEF Inv, StackInv
<1>11. Level(history, linearized', now, entry')
  <2>1. ASSUME NEW p \in Id \ linearized' PROVE entry' <= CallAt(p) /\ entry' <= ReturnAt(p)
    <3>1. Follows(0, entry', linearized')
      BY <1>1, <1>5, <2>1
    <3>2. 0 < CallAt(p) /\ 0 < ReturnAt(p)
      BY <1>1, <2>1 DEF Inv, StackInv, WellFormed
    <3> QED BY <1>1, <1>5, <2>1, <3>1, <3>2 DEF Follows, Left
  <2>2. \A p \in Id \ linearized' : entry' \in Nat /\ CallAt(p) \in Nat
    <3>1. ASSUME NEW p \in Id \ linearized' PROVE entry' \in Left(linearized')
      BY <1>1, <1>5, <3>1 DEF Follows
    <3> QED BY <1>1, <1>5, <3>1 DEF Inv, StackInv, WellFormed, Left
  <2> QED BY <1>1, <2>1, <2>2 DEF Level
<1>12. LevelInv'
  <2>1. linearized' # Id' => entry' \in Left(linearized)'
    BY <1>1, <1>5 DEF Follows, Left
  <2>2. ASSUME NEW i \in 0 .. n PROVE Level(history, Under(i), StateAt(i), PlaceAt(i))'
    <3>1. Level(history, Under(i), StateAt(i), PlaceAt(i))
      BY <1>1 DEF Inv, LevelInv
    <3> QED BY <1>1, <1>5, <1>6, <1>8, <1>9, <3>1
  <2>3. Level(history, Under(n + 1), StateAt(n + 1), PlaceAt(n + 1))'
    <3>1. Under(n + 1)' = linearized' /\ StateAt(n + 1)' = now /\ PlaceAt(n + 1)' = entry'
      BY <1>1, <1>4, <1>5, <1>7, <1>8, <1>9
    <3> QED BY <1>1, <1>5, <1>11, <3>1
  <2>4. \A i \in 0 .. n + 1 : i \in 0 .. n \/ i = n + 1
    BY <1>1
  <2> QED BY <1>1, <1>4, <2>1, <2>2, <2>3, <2>4 DEF LevelInv
<1>13. CacheInv'
  <2> SUFFICES ASSUME NEW c \in cache'
               PROVE  \/ ~ Completable(history, c[1], c[2])
                      \/ \E i \in 1 .. n + 1 : c = <<Under(i)', StateAt(i)'>>
    BY <1>1, <1>4, <1>5 DEF CacheInv
  <2>1. CASE c \in cache
    <3>1. \A i \in 1 .. n : i \in 1 .. n + 1 /\ i \in 0 .. n
      BY <1>1
    <3> QED BY <1>1, <1>6, <1>8, <2>1, <3>1 DEF Inv, CacheInv
  <2>2. CASE c = <<linearized \cup {o}, now>>
    <3>1. n + 1 \in 1 .. n + 1 /\ c = <<Under(n + 1)', StateAt(n + 1)'>>
      BY <1>1, <1>7, <1>8, <2>2
    <3> QED BY <1>1, <3>1
  <2> QED BY <1>1, <1>5, <2>1, <2>2
<1>14. VerdictInv'
  BY <1>1, <1>5 DEF VerdictInv
<1> QED BY <1>10, <1>12, <1>13, <1>14 DEF Inv

LEMMA SkipStep ==
  ASSUME Inv, NEW o \in Id, Skip(o)
  PROVE  Inv'
<1> DEFINE now == After(state, Operation(o))
<1>1. PICK n \in Nat : n = Len(calls)
  BY Stack DEF Inv
<1>2. o \notin linearized
  BY LookedAt DEF Skip
<1>3. UNCHANGED <<history, linearized, cache, calls, state, kill, verdict>>
  BY DEF Skip
<1>4. entry = CallAt(o) /\ Follows(entry, entry', linearized)
      /\ (~ Legal(state, Operation(o)) \/ <<linearized \cup {o}, now>> \in cache)
  BY DEF Skip
<1> HIDE DEF now
<1>5. Legal(state, Operation(o)) => ~ Completable(history, linearized \cup {o}, now)
  <2> SUFFICES ASSUME Legal(state, Operation(o)), Completable(history, linearized \cup {o}, now)
               PROVE  FALSE
    OBVIOUS
  <2> DEFINE c == <<linearized \cup {o}, now>>
  <2>1. c \in cache /\ c[1] = linearized \cup {o} /\ c[2] = now
    BY <1>4
  <2>2. PICK i \in 1 .. n : c = <<Under(i), StateAt(i)>>
    BY <1>1, <2>1 DEF Inv, CacheInv
  <2>3. Under(i) \subseteq linearized
    BY <1>1 DEF Inv, StackInv, Under
  <2> QED BY <1>2, <2>1, <2>2, <2>3
<1>6. Level(history, linearized, state, entry')
  <2>1. Level(history, linearized, state, entry)
    BY <1>1 DEF Inv, StackInv, LevelInv, StateAt, PlaceAt
  <2>2. ASSUME NEW p \in Id \ linearized PROVE entry' <= ReturnAt(p)
    <3>1. entry <= ReturnAt(p)
      BY <2>1 DEF Level
    <3>2. entry \in Nat /\ ReturnAt(p) \in Nat /\ entry # ReturnAt(p)
      BY <1>4 DEF Inv, StackInv, WellFormed
    <3> QED BY <1>4, <3>1, <3>2 DEF Follows, Left
  <2>3. ASSUME NEW p \in Id \ linearized, CallAt(p) < entry', Legal(state, Operation(p))
        PROVE  ~ Completable(history, linearized \cup {p}, After(state, Operation(p)))
    <3>1. CASE p = o
      BY <1>5, <2>3, <3>1 DEF now
    <3>2. CASE p # o
      <4>1. entry \in Nat /\ entry' \in Nat /\ CallAt(p) \in Nat /\ CallAt(p) # entry
        BY <1>4, <3>2 DEF Inv, StackInv, WellFormed, Follows, Left
      <4>2. CallAt(p) < entry
        BY <1>4, <2>3, <4>1 DEF Follows, Left
      <4> QED BY <2>1, <2>3, <4>2 DEF Level
    <3> QED BY <3>1, <3>2
  <2> QED BY <2>2, <2>3 DEF Level
<1>7. \A i \in 0 .. n : Under(i)' = Under(i) /\ StateAt(i)' = StateAt(i)
  BY <1>3 DEF Under, StateAt
<1>8. StackInv'
  BY <1>3 DEF Inv, StackInv, Under, StateAt
<1>9. LevelInv'
  <2>1. entry' \in Left(linearized)'
    BY <1>3, <1>4 DEF Follows, Left
  <2>2. ASSUME NEW i \in 0 .. n PROVE Level(history, Under(i), StateAt(i), PlaceAt(i))'
    <3>1. CASE i = n
      <4>1. PlaceAt(i)' = entry' /\ Under(i)' = linearized /\ StateAt(i)' = state
        BY <1>1, <1>3, <3>1 DEF PlaceAt, Inv, StackInv, Under, StateAt
      <4> QED BY <1>3, <1>6, <4>1
    <3>2. CASE i # n
      <4>1. PlaceAt(i)' = PlaceAt(i)
        BY <1>1, <1>3, <3>2 DEF PlaceAt
      <4>2. Level(history, Under(i), StateAt(i), PlaceAt(i))
        BY <1>1 DEF Inv, LevelInv
      <4> QED BY <1>3, <1>7, <4>1, <4>2
    <3> QED BY <3>1, <3>2
  <2> QED BY <1>1, <1>3, <2>1, <2>2 DEF LevelInv
<1>10. CacheInv'
  <2> SUFFICES ASSUME NEW c \in cache
               PROVE  \/ ~ Completable(history, c[1], c[2])
                      \/ \E i \in 1 .. n : c = <<Under(i)', StateAt(i)'>>
    BY <1>1, <1>3 DEF CacheInv
  <2>1. \/ ~ Completable(history, c[1], c[2])
        \/ \E i \in 1 .. n : c = <<Under(i), StateAt(i)>>
    BY <1>1 DEF Inv, CacheInv
  <2>2. \A i \in 1 .. n : i \in 0 .. n
    OBVIOUS
  <2> QED BY <1>7, <2>1, <2>2
<1>11. VerdictInv'
  BY <1>3 DEF Inv, VerdictInv, Linearizable
<1> QED BY <1>8, <1>9, <1>10, <1>11 DEF Inv

LEMMA BacktrackStep ==
  ASSUME Inv, NEW o \in Id, Backtrack(o)
  PROVE  Inv'
<1>1. PICK n \in Nat : n = Len(calls)
  BY Stack DEF Inv
<1>2. o \notin linearized
  BY LookedAt DEF Backtrack
<1>3. PICK S : calls \in Seq(S)
  BY DEF Inv, StackInv
<1>4. n >= 1
  BY <1>1, <1>3 DEF Backtrack
<1>5. PICK top : top = calls[n]
  OBVIOUS
<1>6. PICK m \in Nat : n = m + 1
  <2>1. n - 1 \in Nat /\ n = (n - 1) + 1
    BY <1>4
  <2> QED BY <2>1
<1>7. calls' \in Seq(S) /\ Len(calls') = m /\ \A i \in 1 .. m : calls'[i] = calls[i]
  <2>1. calls' = SubSeq(calls, 1, m)
    BY <1>1, <1>6 DEF Backtrack
  <2>2. 1 \in 1 .. Len(calls) + 1 /\ m \in 1 - 1 .. Len(calls) /\ (m - 1) + 1 = m
    BY <1>1, <1>6
  <2>3. /\ SubSeq(calls, 1, m) \in Seq(S)
        /\ Len(SubSeq(calls, 1, m)) = (m - 1) + 1
        /\ \A i \in 1 .. (m - 1) + 1 : SubSeq(calls, 1, m)[i] = calls[1 + i - 1]
    BY <1>3, <2>2, SubSeqProperties
  <2>4. \A i \in 1 .. m : 1 + i - 1 = i
    OBVIOUS
  <2> QED BY <2>1, <2>2, <2>3, <2>4
<1>8. /\ UNCHANGED <<history, cache, kill, verdict>>
      /\ linearized' = linearized \ {top.id} /\ state' = top.state
      /\ entry = ReturnAt(o) /\ Follows(CallAt(top.id), entry', linearized')
      /\ verdict = "none"
  BY <1>1, <1>5 DEF Backtrack, Looking
<1>9. \A i \in 0 .. m : Under(i)' = Under(i)
  BY <1>7 DEF Under
<1>10. top.id \in Id \ Under(m) /\ linearized = Under(m) \cup {top.id} /\ Under(m) = linearized'
  <2>1. n \in 1 .. n /\ n - 1 = m
    BY <1>4, <1>6
  <2>2. top.id \in Id \ Under(m)
    BY <1>1, <1>5, <2>1 DEF Inv, StackInv
  <2>3. linearized = Under(n) /\ Under(n) = Under(m) \cup {top.id}
    BY <1>1, <1>5, <2>1, Stack DEF Inv, StackInv
  <2> QED BY <1>8, <2>2, <2>3
<1>11. \A i \in 0 .. m : StateAt(i)' = StateAt(i)
  <2> SUFFICES ASSUME NEW i \in 0 .. m PROVE StateAt(i)' = StateAt(i)
    OBVIOUS
  <2>1. i # n
    BY <1>6
  <2>2. CASE i = m
    BY <1>1, <1>5, <1>6, <1>7, <1>8, <2>1, <2>2 DEF StateAt
  <2>3. CASE i # m
    <3>1. i + 1 \in 1 .. m
      BY <2>3
    <3> QED BY <1>1, <1>7, <2>1, <2>3, <3>1 DEF StateAt
  <2> QED BY <2>2, <2>3
<1>12. ~ Completable(history, Under(n), StateAt(n))
  <2>1. n \in 0 .. n /\ PlaceAt(n) = ReturnAt(o)
    BY <1>1, <1>8 DEF PlaceAt
  <2>2. Level(history, Under(n), StateAt(n), ReturnAt(o))
    BY <1>1, <2>1 DEF Inv, LevelInv
  <2>3. o \in Id \ Under(n) /\ WellFormed(history)
    BY <1>1, <1>2 DEF Inv, StackInv
  <2> QED BY <2>2, <2>3, DeadEnd
<1>13. StateAt(n) = After(StateAt(m), Operation(top.id))
  <2>1. StateAt(m) = top.state
    BY <1>1, <1>5, <1>6 DEF StateAt
  <2>2. n \in 1 .. n
    BY <1>4
  <2> QED BY <1>1, <1>5, <2>1, <2>2 DEF Inv, StackInv
<1>14. Level(history, Under(m), StateAt(m), entry')
  <2>1. Level(history, Under(m), StateAt(m), CallAt(top.id))
    <3>1. m \in 0 .. n /\ PlaceAt(m) = CallAt(top.id)
      BY <1>1, <1>5, <1>6 DEF PlaceAt
    <3> QED BY <1>1, <3>1 DEF Inv, LevelInv
  <2>2. ASSUME NEW p \in Id \ Under(m) PROVE entry' <= ReturnAt(p)
    <3>1. CallAt(top.id) <= ReturnAt(p)
      BY <2>1 DEF Level
    <3>2. CallAt(top.id) \in Nat /\ ReturnAt(p) \in Nat /\ CallAt(top.id) # ReturnAt(p)
      BY <1>10 DEF Inv, StackInv, WellFormed
    <3> QED BY <1>8, <1>10, <3>1, <3>2 DEF Follows, Left
  <2>3. ASSUME NEW p \in Id \ Under(m), CallAt(p) < entry', Legal(StateAt(m), Operation(p))
        PROVE  ~ Completable(history, Under(m) \cup {p}, After(StateAt(m), Operation(p)))
    <3>1. CASE p = top.id
      <4>1. Under(n) = Under(m) \cup {p}
        BY <1>1, <1>10, <3>1 DEF Inv, StackInv
      <4> QED BY <1>12, <1>13, <3>1, <4>1
    <3>2. CASE p # top.id
      <4>1. /\ CallAt(top.id) \in Nat /\ entry' \in Nat /\ CallAt(p) \in Nat
            /\ CallAt(p) # CallAt(top.id)
        BY <1>8, <1>10, <3>2 DEF Inv, StackInv, WellFormed, Follows, Left
      <4>2. CallAt(p) < CallAt(top.id)
        BY <1>8, <1>10, <2>3, <4>1 DEF Follows, Left
      <4> QED BY <2>1, <2>3, <4>2 DEF Level
    <3> QED BY <3>1, <3>2
  <2> QED BY <2>2, <2>3 DEF Level
<1>15. StackInv'
  <2>1. \A i \in 1 .. m : i \in 1 .. n /\ i - 1 \in 0 .. m /\ i \in 0 .. m
    BY <1>6
  <2>2. \A i \in 1 .. m : calls'[i].id \in Id \ Under(i - 1)'
    BY <1>1, <1>7, <1>9, <2>1 DEF Inv, StackInv
  <2>3. StateAt(0)' = Start
    BY <1>11 DEF Inv, StackInv
  <2>4. \A i \in 1 .. m : /\ Legal(calls'[i].state, Operation(calls'[i].id))
                        /\ StateAt(i)' = After(calls'[i].state, Operation(calls'[i].id))
    BY <1>1, <1>7, <1>11, <2>1 DEF Inv, StackInv
  <2>5. linearized' = Under(m)'
    BY <1>9, <1>10
  <2> QED BY <1>7, <1>8, <2>2, <2>3, <2>4, <2>5 DEF Inv, StackInv
<1>16. LevelInv'
  <2>1. entry' \in Left(linearized)'
    BY <1>8 DEF Follows, Left
  <2>2. ASSUME NEW i \in 0 .. m PROVE Level(history, Under(i), StateAt(i), PlaceAt(i))'
    <3>1. CASE i = m
      <4>1. PlaceAt(i)' = entry'
        BY <1>7, <3>1 DEF PlaceAt
      <4> QED BY <1>8, <1>9, <1>11, <1>14, <3>1, <4>1
    <3>2. CASE i # m
      <4>1. i + 1 \in 1 .. m /\ i \in 0 .. n /\ i # n
        BY <1>6, <3>2
      <4>2. PlaceAt(i)' = PlaceAt(i)
        BY <1>1, <1>7, <1>8, <3>2, <4>1 DEF PlaceAt
      <4>3. Level(history, Under(i), StateAt(i), PlaceAt(i))
        BY <1>1, <4>1 DEF Inv, LevelInv
      <4> QED BY <1>8, <1>9, <1>11, <4>2, <4>3
    <3> QED BY <3>1, <3>2
  <2> QED BY <1>7, <2>1, <2>2 DEF LevelInv
<1>17. CacheInv'
  <2> SUFFICES ASSUME NEW c \in cache
               PROVE  \/ ~ Completable(history, c[1], c[2])
                      \/ \E i \in 1 .. m : c = <<Under(i)', StateAt(i)'>>
    BY <1>7, <1>8 DEF CacheInv
  <2>1. CASE ~ Completable(history, c[1], c[2])
    BY <2>1
  <2>2. ASSUME NEW i \in 1 .. n, c = <<Under(i), StateAt(i)>>
        PROVE  \/ ~ Completable(history, c[1], c[2])
               \/ \E j \in 1 .. m : c = <<Under(j)', StateAt(j)'>>
    <3>1. CASE i = n
      <4>1. c[1] = Under(n) /\ c[2] = StateAt(n)
        BY <2>2, <3>1
      <4> QED BY <1>12, <4>1
    <3>2. CASE i # n
      <4>1. i \in 1 .. m /\ i \in 0 .. m
        BY <1>6, <3>2
      <4> QED BY <1>9, <1>11, <2>2, <4>1
    <3> QED BY <3>1, <3>2
  <2> QED BY <1>1, <2>1, <2>2 DEF Inv, CacheInv
<1>18. VerdictInv'
  BY <1>8 DEF VerdictInv
<1> QED BY <1>15, <1>16, <1>17, <1>18 DEF Inv

\* A step that leaves the search where it is.
LEMMA Unmoved ==
  ASSUME Inv, UNCHANGED <<history, linearized, cache, calls, state, entry>>
  PROVE  StackInv' /\ LevelInv' /\ CacheInv'
<1>1. PICK n \in Nat : n = Len(calls)
  BY Stack DEF Inv
<1>2. \A i : Under(i)' = Under(i) /\ StateAt(i)' = StateAt(i) /\ PlaceAt(i)' = PlaceAt(i)
  BY DEF Under, StateAt, PlaceAt
<1>3. StackInv'
  BY <1>2 DEF Inv, StackInv
<1>4. LevelInv'
  <2>1. linearized' # Id' => entry' \in Left(linearized)'
    BY DEF Inv, LevelInv, Left
  <2>2. ASSUME NEW i \in 0 .. n PROVE Level(history, Under(i), StateAt(i), PlaceAt(i))'
    <3>1. Level(history, Under(i), StateAt(i), PlaceAt(i))
      BY <1>1 DEF Inv, LevelInv
    <3> QED BY <1>2, <3>1
  <2> QED BY <1>1, <2>1, <2>2 DEF LevelInv
<1>5. CacheInv'
  <2> SUFFICES ASSUME NEW c \in cache
               PROVE  \/ ~ Completable(history, c[1], c[2])
                      \/ \E i \in 1 .. n : c = <<Under(i)', StateAt(i)'>>
    BY <1>1 DEF CacheInv
  <2>1. \/ ~ Completable(history, c[1], c[2])
        \/ \E i \in 1 .. n : c = <<Under(i), StateAt(i)>>
    BY <1>1 DEF Inv, CacheInv
  <2> QED BY <1>2, <2>1
<1> QED BY <1>3, <1>4, <1>5

\* The steps that only give the verdict, and kill.
LEMMA VerdictStep ==
  ASSUME Inv, Accept \/ Stop \/ Kill \/ \E o \in Id : Refuse(o)
  PROVE  Inv'
<1>1. UNCHANGED <<history, linearized, cache, calls, state, entry>>
  BY DEF Accept, Stop, Kill, Refuse
<1>2. StackInv' /\ LevelInv' /\ CacheInv'
  BY <1>1, Unmoved
<1>3. CASE Accept \/ Stop \/ Kill
  <2>1. VerdictInv'
    BY <1>1, <1>3 DEF Inv, VerdictInv, Accept, Stop, Kill, Linearizable
  <2> QED BY <1>2, <2>1 DEF Inv
<1>4. ASSUME NEW o \in Id, Refuse(o) PROVE Inv'
  <2>1. o \notin linearized
    BY <1>4, LookedAt DEF Refuse
  <2>2. calls = <<>> /\ entry = ReturnAt(o) /\ Len(calls) = 0
    BY <1>4 DEF Refuse
  <2>3. Under(0) = linearized /\ StateAt(0) = Start /\ PlaceAt(0) = ReturnAt(o) /\ Under(0) = {}
    BY <2>2, Stack DEF Inv, StackInv, PlaceAt
  <2>4. Level(history, {}, Start, ReturnAt(o))
    BY <2>2, <2>3 DEF Inv, LevelInv
  <2>5. ~ Completable(history, {}, Start)
    BY <2>1, <2>3, <2>4, DeadEnd DEF Inv, StackInv
  <2>6. VerdictInv'
    BY <1>1, <1>4, <2>5 DEF VerdictInv, Refuse, Linearizable
  <2> QED BY <1>2, <2>6 DEF Inv
<1> QED BY <1>3, <1>4
-----------------------------------------------------------------------------
LEMMA InitInv == Init => Inv
<1> SUFFICES ASSUME Init PROVE Inv
  OBVIOUS
<1>1. calls = <<>> /\ Len(calls) = 0 /\ calls \in Seq({})
  BY DEF Init
<1>2. Under(0) = {} /\ StateAt(0) = Start /\ PlaceAt(0) = entry
  BY <1>1 DEF Init, Under, StateAt, PlaceAt
<1>3. StackInv
  BY <1>1, <1>2 DEF Init, StackInv
<1>4. Level(history, {}, Start, entry)
  <2>1. ASSUME NEW p \in Id PROVE entry <= CallAt(p) /\ entry <= ReturnAt(p)
    BY <2>1 DEF Init, Follows, Left, WellFormed
  <2>2. \A p \in Id : entry \in Nat /\ CallAt(p) \in Nat
    BY DEF Init, Follows, Left, WellFormed
  <2> QED BY <2>1, <2>2 DEF Level
<1>5. LevelInv
  <2>1. linearized # Id => entry \in Left(linearized)
    BY DEF Init, Follows
  <2> QED BY <1>1, <1>2, <1>4, <2>1 DEF LevelInv
<1>6. CacheInv /\ VerdictInv
  BY DEF Init, CacheInv, VerdictInv
<1> QED BY <1>3, <1>5, <1>6 DEF Inv

LEMMA Invariant == Spec => []Inv
<1>1. Inv /\ [Next]_vars => Inv'
  <2> SUFFICES ASSUME Inv, [Next]_vars PROVE Inv'
    OBVIOUS
  <2>1. CASE UNCHANGED vars
    <3>1. StackInv' /\ LevelInv' /\ CacheInv'
      BY <2>1, Unmoved DEF vars
    <3>2. VerdictInv'
      BY <2>1 DEF vars, Inv, VerdictInv, Linearizable
    <3> QED BY <3>1, <3>2 DEF Inv
  <2>2. CASE Next
    BY <2>2, LinearizeStep, SkipStep, BacktrackStep, VerdictStep DEF Next
  <2> QED BY <2>1, <2>2
<1> QED BY InitInv, <1>1, PTL DEF Spec

\* checkSingle says true of no history that is not linearizable, whatever the
\* history and the model.  The stack and its states are then a legal order, and
\* it keeps the order of the history because the search passes no return.
THEOREM Sound == Spec => []AcceptsOnlyLinearizable
<1>1. Inv => AcceptsOnlyLinearizable
  BY FullStack DEF Inv, VerdictInv, AcceptsOnlyLinearizable
<1> QED BY <1>1, Invariant, PTL

\* checkSingle says false of no linearizable history unless it has been killed.
\* What the search skips, because it is illegal or cached, and what it backs out
\* of leads nowhere, so that a return at the bottom of the stack refutes all.
THEOREM Complete == Spec => []RefusesOnlyOthers
<1>1. Inv => RefusesOnlyOthers
  BY DEF Inv, VerdictInv, RefusesOnlyOthers
<1> QED BY <1>1, Invariant, PTL
=============================================================================
