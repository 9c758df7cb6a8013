---------------------------- MODULE SequentialJob ---------------------------
(***************************************************************************)
(* What the tasks of src/src/mapreduce compute: doMap, doReduce and merge  *)
(* run one after the other by Sequential, with the map output of each file *)
(* given and wc.go's reduceF.  Keys are numbers in the order of their      *)
(* strings, from 1; the empty string is 0, and is not a key of the input.  *)
(***************************************************************************)
EXTENDS Integers, Sequences, SequencesExt, TLC

CONSTANTS Key, Value, ihash,
          nMap, nReduce,
          MaxPairs      \* bound: pairs mapF returns for a file

ASSUME TasksAssumption ==
  /\ Key \subseteq Nat \ {0}
  /\ Value \subseteq Nat
  /\ ihash \in [Key -> Nat]
  /\ nMap \in Nat /\ nReduce \in Nat \ {0}

VARIABLES
  mapped,   \* what mapF returns for each input file
  phase,    \* where run is
  task,     \* the next task of the phase
  inter,    \* the intermediate file of each map and reduce task
  res,      \* the output file of each reduce task
  output    \* the merged file

vars == <<mapped, phase, task, inter, res, output>>
-----------------------------------------------------------------------------
MapTask == 0 .. nMap - 1
ReduceTask == 0 .. nReduce - 1
KeyValue(k, v) == [key |-> k, value |-> v]

\* The values are the decimal numbers wc.go's mapF emits.
reduceF(values) == FoldSeq(LAMBDA v, sum : v + sum, 0, values)

Partition(kv) == ihash[kv.key] % nReduce

doMap(m) ==
  inter' = [inter EXCEPT ![m] =
              [r \in ReduceTask |-> SelectSeq(mapped[m], LAMBDA kv : Partition(kv) = r)]]

\* The state of doReduce's loop after a pair of inputArray.
ScanPair(scan, kv) ==
  LET new == kv.key # scan.previousKey /\ ~ scan.first
  IN  [first |-> FALSE,
       previousKey |-> kv.key,
       valueBuffer |-> Append(IF new THEN << >> ELSE scan.valueBuffer, kv.value),
       written |-> IF new
                   THEN Append(scan.written, KeyValue(scan.previousKey, reduceF(scan.valueBuffer)))
                   ELSE scan.written]

NoScan == [first |-> TRUE, previousKey |-> 0, valueBuffer |-> << >>, written |-> << >>]

\* Mutation: the pairs are not sorted.
ReducedUnsorted(inputArray) ==
  LET scan == FoldLeft(ScanPair, NoScan, inputArray)
  IN  Append(scan.written, KeyValue(scan.previousKey, reduceF(scan.valueBuffer)))

\* inputArray, sorted, is scanned; what is left in the buffer is written last.
Reduced(inputArray) ==
  LET scan == FoldLeft(ScanPair, NoScan, SortSeq(inputArray, LAMBDA a, b : a.key > b.key))
  IN  Append(scan.written, KeyValue(scan.previousKey, reduceF(scan.valueBuffer)))

doReduce(r) ==
  res' = [res EXCEPT ![r] =
            Reduced(FlattenSeq([m \in 1 .. nMap |-> inter[m - 1][r]]))]

\* kvs, where a later pair replaces an earlier one.
Merged ==
  LET pairs == FlattenSeq([r \in 1 .. nReduce |-> res[r - 1]])
      last(k) == CHOOSE i \in DOMAIN pairs :
                   pairs[i].key = k /\ \A j \in DOMAIN pairs : pairs[j].key = k => j <= i
  IN  [k \in {pairs[i].key : i \in DOMAIN pairs} |-> pairs[last(k)].value]
-----------------------------------------------------------------------------
Init ==
  /\ mapped \in [MapTask -> BoundedSeq([key : Key, value : Value], MaxPairs)]
  /\ phase = "map"
  /\ task = 0
  /\ inter = [m \in MapTask |-> [r \in ReduceTask |-> << >>]]
  /\ res = [r \in ReduceTask |-> << >>]
  /\ output = << >>

mapStep ==
  /\ phase = "map"
  /\ task < nMap
  /\ doMap(task)
  /\ task' = task + 1
  /\ UNCHANGED <<mapped, phase, res, output>>

mapsDone ==
  /\ phase = "map"
  /\ task = nMap
  /\ phase' = "reduce"
  /\ task' = 0
  /\ UNCHANGED <<mapped, inter, res, output>>

reduceStep ==
  /\ phase = "reduce"
  /\ task < nReduce
  /\ doReduce(task)
  /\ task' = task + 1
  /\ UNCHANGED <<mapped, phase, inter, output>>

merge ==
  /\ phase = "reduce"
  /\ task = nReduce
  /\ output' = Merged
  /\ phase' = "done"
  /\ UNCHANGED <<mapped, task, inter, res>>

Next == mapStep \/ mapsDone \/ reduceStep \/ merge

Spec == Init /\ [][Next]_vars
-----------------------------------------------------------------------------
\* The values of a key in all of the input.
ValuesOf(k) ==
  LET all == FlattenSeq([m \in 1 .. nMap |-> mapped[m - 1]])
      kvs == SelectSeq(all, LAMBDA kv : kv.key = k)
  IN  [i \in DOMAIN kvs |-> kvs[i].value]

\* The merged file has every key of the input with the reduction of all of its
\* values, from whichever files, each used once.
OutputCorrect ==
  phase = "done" =>
    \A k \in Key : ValuesOf(k) # << >> =>
      k \in DOMAIN output /\ output[k] = reduceF(ValuesOf(k))
=============================================================================
