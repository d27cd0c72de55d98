------------------------------ MODULE Shuffle ------------------------------
(***************************************************************************)
(* The data of the MapReduce job: how MapWorker splits the pairs of a file *)
(* and how ReduceWorker puts the pairs of one partition together again     *)
(* (mr/worker.go), compared with what main/mrsequential.go computes from   *)
(* all pairs in one place.                                                 *)
(*                                                                         *)
(* Values are numbers that occur once, so that a lost, doubled or          *)
(* misplaced pair can be told; the reduce function gets the list Values.   *)
(***************************************************************************)
EXTENDS Integers, FiniteSets, SequencesExt

CONSTANTS
  Key,       \* the keys, ordered like strings
  NMap, NReduce,
  MaxPairs   \* bound on the pairs of one input file

MapIndex == 0..(NMap - 1)
ReduceIndex == 0..(NReduce - 1)

VARIABLES
  kva,           \* what the map function returned for each file
  ihash,         \* the hash of every key
  r,             \* RIndex of the reduce task
  next,          \* the intermediate file it reads next
  intermediate,
  sorted,        \* sort.Sort has been called
  i,             \* loop variable of ReduceWorker
  lines          \* lines written to the output file

vars == <<kva, ihash, r, next, intermediate, sorted, i, lines>>

KeyValue(key, value) == [Key |-> key, Value |-> value]

\* The buckets of map task m: every pair is appended to the one of its key.
interFile(m) ==
  FoldLeft(LAMBDA files, kv : [files EXCEPT ![ihash[kv.Key] % NReduce] = Append(@, kv)],
           [idx \in ReduceIndex |-> <<>>], kva[m])

ReduceWorkerRead ==
  /\ next < NMap
  /\ next' = next + 1
  /\ intermediate' = intermediate \o interFile(next)[r]
  /\ UNCHANGED <<kva, ihash, r, sorted, i, lines>>

\* The order of sort.Sort(ByKey(...)).
ByKey(kv1, kv2) == kv1.Key <= kv2.Key

\* sort.Sort is not stable: pairs with equal keys end up in any order.
ReduceWorkerSort ==
  /\ next = NMap /\ ~ sorted
  /\ sorted' = TRUE
  /\ \E f \in Bijection(1..Len(intermediate), 1..Len(intermediate)) :
       LET s == [k \in 1..Len(intermediate) |-> intermediate[f[k]]]
       IN  IsSorted(s, ByKey) /\ intermediate' = s
  /\ UNCHANGED <<kva, ihash, r, next, i, lines>>

\* Mutant of EndOfKey: the loop stops before the last pair.
EndOfKeyShort ==
  Min({j \in (i + 1)..Len(intermediate) :
         j = Len(intermediate) \/ intermediate[j].Key # intermediate[i].Key}
      \union {Len(intermediate) + 1})

\* The inner loop: the first position after i that has another key.
EndOfKey ==
  Min({j \in (i + 1)..Len(intermediate) : intermediate[j].Key # intermediate[i].Key}
      \union {Len(intermediate) + 1})

ReduceWorkerLine ==
  /\ sorted /\ i <= Len(intermediate)
  /\ lines' = Append(lines, [Key |-> intermediate[i].Key,
                             Values |-> [k \in 1..(EndOfKey - i) |-> intermediate[i + k - 1].Value]])
  /\ i' = EndOfKey
  /\ UNCHANGED <<kva, ihash, r, next, intermediate, sorted>>

\* The files may hold any keys in any order, and the hash may be any function.
Init ==
  /\ \E keys \in [MapIndex -> UNION {[1..n -> Key] : n \in 0..MaxPairs}] :
       kva = [m \in MapIndex |->
                [k \in 1..Len(keys[m]) |-> KeyValue(keys[m][k], m * MaxPairs + k)]]
  /\ ihash \in [Key -> 0..NReduce]
  /\ r \in ReduceIndex
  /\ next = 0 /\ intermediate = <<>> /\ sorted = FALSE
  /\ i = 1 /\ lines = <<>>

Finished == sorted /\ i > Len(intermediate)

\* The file is renamed and the worker reports; nothing is left to do.
Terminated == Finished /\ UNCHANGED vars

Next == ReduceWorkerRead \/ ReduceWorkerSort \/ ReduceWorkerLine \/ Terminated

Spec == Init /\ [][Next]_vars

-----------------------------------------------------------------------------
\* What mrsequential.go passes to the reduce function for a key: the values of all
\* pairs of all files that have it.
Sequential(key) ==
  UNION {{kva[m][k].Value : k \in {j \in 1..Len(kva[m]) : kva[m][j].Key = key}} : m \in MapIndex}

\* The output file of reduce task r has exactly one line for every key that belongs
\* to r and occurs in some file, and that line was computed from the same values as
\* in the sequential program, none twice.
MatchesSequential ==
  Finished =>
    /\ {l \in 1..Len(lines) : Sequential(lines[l].Key) = {} \/ ihash[lines[l].Key] % NReduce # r} = {}
    /\ \A key \in Key : ihash[key] % NReduce = r /\ Sequential(key) # {} =>
         /\ Cardinality({l \in 1..Len(lines) : lines[l].Key = key}) = 1
         /\ \A l \in 1..Len(lines) : lines[l].Key = key =>
              /\ ToSet(lines[l].Values) = Sequential(key)
              /\ Len(lines[l].Values) = Cardinality(Sequential(key))

=============================================================================
