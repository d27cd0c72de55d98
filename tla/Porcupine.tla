----------------------------- MODULE Porcupine -----------------------------
(***************************************************************************)
(* The linearizability checker of porcupine/, with the model of a key      *)
(* value store of models/kv.go, as the tests of kvraft and shardkv call    *)
(* it: CheckOperationsVerbose, and Visualize when the answer is Illegal.   *)
(*                                                                         *)
(* checkParallel starts a goroutine per partition of the history and waits *)
(* for their answers or for the timeout.  A goroutine is checkSingle; one  *)
(* turn of its loop is one step.  The list of entries is kept as the       *)
(* pointers next and prev between the positions of the sorted entries,     *)
(* with position 0 for headEntry; a string is a sequence of letters.       *)
(***************************************************************************)
EXTENDS Integers, FiniteSets, Sequences, SequencesExt, FiniteSetsExt

CONSTANTS
  Histories,  \* the histories to check: sequences of operations
  WordBits    \* the bits in a word of a bitset, 64 in the code

ASSUME WordAssumption == WordBits \in Nat \ {0}

VARIABLES
  history, verbose, timed,  \* what checkOperations is called with
  parts,      \* the operations of each partition
  entries,    \* the entries of each partition, sorted
  search,     \* the local state of checkSingle, per partition
  longest,    \* checkParallel's longest: what the goroutines hand back
  results,    \* the channel
  kill,
  main,       \* where checkParallel is
  count, ok, timedOut,
  result,     \* its answer
  info,       \* its partial linearizations, per partition
  drawn       \* what Visualize shows

callVars == <<history, verbose, timed>>
mainVars == <<main, count, ok, timedOut, result, info, drawn>>
vars == <<callVars, parts, entries, search, longest, results, kill, mainVars>>

Nil == -1

-----------------------------------------------------------------------------
\* The elements of a set in a total order.
Sorted(S, Lt(_, _)) ==
  [k \in 1..Cardinality(S) |-> CHOOSE e \in S : Cardinality({x \in S : Lt(x, e)}) = k - 1]

(***************************************************************************)
(* models/kv.go.                                                           *)
(***************************************************************************)
\* The operations of each key, in the order of the keys.
Partition(h) ==
  LET keys == Sorted({h[i].key : i \in DOMAIN h}, <)
  IN  [p \in DOMAIN keys |-> SelectSeq(h, LAMBDA v : v.key = keys[p])]

InitState == <<>>

\* Whether the store can answer so, and its state afterwards.
StepOk(state, v) == v.op = "get" => v.out = state
StepState(state, v) ==
  CASE v.op = "get" -> state
    [] v.op = "put" -> v.value
    [] v.op = "append" -> state \o v.value

-----------------------------------------------------------------------------
(***************************************************************************)
(* The entries.                                                            *)
(***************************************************************************)
Less(a, b) ==
  a.time < b.time \/ (a.time = b.time /\ a.kind = "call" /\ b.kind = "return")

\* Entries that Less does not order stay as they were appended: sort.Sort sorts short
\* lists by insertion.
Before(a, b) == Less(a, b) \/ (~ Less(b, a) /\ a.id < b.id)

\* The operations are numbered from 0.
makeEntries(h) ==
  Sorted(UNION {{[kind |-> "call", id |-> i - 1, time |-> h[i].Call],
                 [kind |-> "return", id |-> i - 1, time |-> h[i].Return]} : i \in DOMAIN h},
         Before)

\* The list of the entries behind headEntry.
makeLinkedEntries(es) ==
  [next |-> [i \in 0..Len(es) |-> IF i = Len(es) THEN Nil ELSE i + 1],
   prev |-> [i \in 0..Len(es) |-> IF i = 0 THEN Nil ELSE i - 1]]

\* The position of the return of a call, Nil for a return.
match(es, i) ==
  IF es[i].kind = "return" THEN Nil
  ELSE CHOOSE j \in DOMAIN es : es[j].kind = "return" /\ es[j].id = es[i].id

unlink(l, x) ==
  [next |-> [l.next EXCEPT ![l.prev[x]] = l.next[x]],
   prev |-> IF l.next[x] = Nil THEN l.prev ELSE [l.prev EXCEPT ![l.next[x]] = l.prev[x]]]

relink(l, x) ==
  [next |-> [l.next EXCEPT ![l.prev[x]] = x],
   prev |-> IF l.next[x] = Nil THEN l.prev ELSE [l.prev EXCEPT ![l.next[x]] = x]]

\* Takes a call and its return out of the list, and puts them back.
lift(l, e, m) == unlink(unlink(l, e), m)

\* Mutant of unlift: the return is not put back.
unliftCall(l, e, m) == relink(l, e)

unlift(l, e, m) == relink(relink(l, m), e)

-----------------------------------------------------------------------------
(***************************************************************************)
(* bitset.go: a set of operations, as words of WordBits bits each; a word  *)
(* is the set of its bits that are set.                                    *)
(***************************************************************************)
newBitset(n) == [w \in 1..((n \div WordBits) + (IF n % WordBits # 0 THEN 1 ELSE 0)) |-> {}]
major(pos) == (pos \div WordBits) + 1
minor(pos) == pos % WordBits
get(b, pos) == minor(pos) \in b[major(pos)]
set(b, pos) == [b EXCEPT ![major(pos)] = @ \union {minor(pos)}]
clear(b, pos) == [b EXCEPT ![major(pos)] = @ \ {minor(pos)}]

\* Mutant of cacheContains: the same operations are taken for the same state.
cacheContainsSet(cache, b, state) == \E e \in cache : e.linearized = b

\* The hash is a function of the words: it only says where the entry is looked up.
cacheContains(cache, b, state) == \E e \in cache : e.linearized = b /\ e.state = state

-----------------------------------------------------------------------------
(***************************************************************************)
(* checkSingle, a goroutine per partition.                                 *)
(***************************************************************************)
Op(p, id) == parts[p][id + 1]
Ids(p) == 0..(Len(parts[p]) - 1)
CallIds(calls) == [k \in DOMAIN calls |-> calls[k].id]

StartSearch(es) ==
  LET n == Len(es) \div 2
  IN  [pc |-> "run", list |-> makeLinkedEntries(es), entry |-> 1, linearized |-> newBitset(n),
       cache |-> {}, calls |-> <<>>, state |-> InitState, ok |-> FALSE,
       longest |-> [i \in 0..(n - 1) |-> <<>>]]

Looping(p) == search[p].pc = "run" /\ search[p].list.next[0] # Nil

\* checkSingle returns, and its goroutine writes the shared slice.
ReturnSearch(p, b, l) ==
  /\ search' = [search EXCEPT ![p].pc = "written", ![p].ok = b]
  /\ longest' = [longest EXCEPT ![p] = l]
  /\ UNCHANGED <<callVars, parts, entries, results, kill, mainVars>>

\* The list is empty: the calls are a linearization.
CheckSingleDone(p) ==
  LET s == search[p]
  IN  /\ s.pc = "run" /\ s.list.next[0] = Nil
      /\ ReturnSearch(p, TRUE, [i \in DOMAIN s.longest |-> CallIds(s.calls)])

CheckSingleKilled(p) ==
  /\ Looping(p) /\ kill
  /\ ReturnSearch(p, FALSE, search[p].longest)

\* A call that the model allows now, with a state not seen before, is linearized;
\* otherwise the next entry is tried.
CheckSingleCall(p) ==
  LET s  == search[p]
      es == entries[p]
      e  == s.entry
      m  == match(es, e)
      v  == Op(p, es[e].id)
      b  == set(s.linearized, es[e].id)
      st == StepState(s.state, v)
      l  == lift(s.list, e, m)
      new == [linearized |-> b, state |-> st]
  IN  /\ Looping(p) /\ ~ kill /\ m # Nil
      /\ search' = [search EXCEPT ![p] =
           IF StepOk(s.state, v) /\ ~ cacheContains(s.cache, b, st)
           THEN [@ EXCEPT !.cache = @ \union {new}, !.linearized = b, !.state = st,
                          !.calls = Append(@, [entry |-> e, id |-> es[e].id, state |-> s.state]),
                          !.list = l, !.entry = l.next[0]]
           ELSE [@ EXCEPT !.entry = s.list.next[e]]]
      /\ UNCHANGED <<callVars, parts, entries, longest, results, kill, mainVars>>

CheckSingleFail(p) ==
  /\ Looping(p) /\ ~ kill
  /\ match(entries[p], search[p].entry) = Nil /\ search[p].calls = <<>>
  /\ ReturnSearch(p, FALSE, search[p].longest)

\* Mutant of recordLongest: the calls are listed from the last to the first.
recordLongestReversed(l, calls) ==
  LET seq == Reverse(CallIds(calls))
  IN  [i \in DOMAIN l |-> IF i \in Range(seq) /\ (l[i] = <<>> \/ Len(seq) > Len(l[i]))
                          THEN seq ELSE l[i]]

\* The calls are remembered for each of them that had no longer linearization yet.
recordLongest(l, calls) ==
  LET seq == CallIds(calls)
  IN  [i \in DOMAIN l |-> IF i \in Range(seq) /\ (l[i] = <<>> \/ Len(seq) > Len(l[i]))
                          THEN seq ELSE l[i]]

\* A return is reached before its call is linearized: the last call is undone.
CheckSingleBacktrack(p) ==
  LET s   == search[p]
      top == Last(s.calls)
      l   == unlift(s.list, top.entry, match(entries[p], top.entry))
  IN  /\ Looping(p) /\ ~ kill
      /\ match(entries[p], s.entry) = Nil /\ s.calls # <<>>
      /\ search' = [search EXCEPT ![p] =
           [@ EXCEPT !.longest = IF verbose THEN recordLongest(@, s.calls) ELSE @,
                     !.state = top.state, !.linearized = clear(@, top.id),
                     !.calls = Front(@), !.list = l, !.entry = l.next[top.entry]]]
      /\ UNCHANGED <<callVars, parts, entries, longest, results, kill, mainVars>>

\* Mutant of SendResult: the goroutine does not end.
SendResultAgain(p) ==
  /\ search[p].pc = "written" /\ Len(results) < 2 * Len(parts)
  /\ results' = Append(results, search[p].ok)
  /\ UNCHANGED <<callVars, parts, entries, search, longest, kill, mainVars>>

SendResult(p) ==
  /\ search[p].pc = "written"
  /\ results' = Append(results, search[p].ok)
  /\ search' = [search EXCEPT ![p].pc = "sent"]
  /\ UNCHANGED <<callVars, parts, entries, longest, kill, mainVars>>

-----------------------------------------------------------------------------
(***************************************************************************)
(* checkOperations and checkParallel.                                      *)
(***************************************************************************)
\* checkOperations partitions the history and sorts each partition.
PartitionHistory ==
  /\ main = "start"
  /\ parts' = Partition(history) /\ main' = "sort"
  /\ UNCHANGED <<callVars, entries, search, longest, results, kill, count, ok, timedOut, result,
                 info, drawn>>

SortEntries ==
  /\ main = "sort"
  /\ entries' = [p \in DOMAIN parts |-> makeEntries(parts[p])] /\ main' = "go"
  /\ UNCHANGED <<callVars, parts, search, longest, results, kill, count, ok, timedOut, result,
                 info, drawn>>

\* checkParallel starts the goroutines.
StartGoroutines ==
  /\ main = "go"
  /\ search' = [p \in DOMAIN parts |-> StartSearch(entries[p])]
  /\ longest' = [p \in DOMAIN parts |-> <<>>]
  /\ main' = "select"
  /\ UNCHANGED <<callVars, parts, entries, results, kill, count, ok, timedOut, result, info, drawn>>

AfterLoop == IF verbose THEN "drain" ELSE "end"

\* Mutant of AllReceived: one answer more is waited for.
AllReceivedOff(n) == n > Len(parts)

AllReceived(n) == n >= Len(parts)

\* An answer arrives.  Without computeInfo the first bad one ends the loop.
ReceiveResult ==
  LET good == ok /\ Head(results)
      stop == ~ good /\ ~ verbose
  IN  /\ main = "select" /\ results # <<>>
      /\ results' = Tail(results) /\ count' = count + 1 /\ ok' = good
      /\ kill' = (kill \/ stop)
      /\ main' = IF stop \/ AllReceived(count + 1) THEN AfterLoop ELSE main
      /\ UNCHANGED <<callVars, parts, entries, search, longest, timedOut, result, info, drawn>>

TimeoutFires ==
  /\ main = "select" /\ timed
  /\ timedOut' = TRUE /\ kill' = TRUE /\ main' = AfterLoop
  /\ UNCHANGED <<callVars, parts, entries, search, longest, results, count, ok, result, info, drawn>>

\* Mutant of DrainResults: the goroutines are not waited for.
DrainResultsNot ==
  /\ main = "drain" /\ count < Len(parts)
  /\ count' = count + 1
  /\ UNCHANGED <<callVars, parts, entries, search, longest, results, kill, main, ok, timedOut,
                 result, info, drawn>>

\* With computeInfo all goroutines are waited for.
DrainResults ==
  /\ main = "drain" /\ count < Len(parts) /\ results # <<>>
  /\ results' = Tail(results) /\ count' = count + 1
  /\ UNCHANGED <<callVars, parts, entries, search, longest, kill, main, ok, timedOut,
                 result, info, drawn>>

Answer(o, t) == IF ~ o THEN "Illegal" ELSE IF t THEN "Unknown" ELSE "Ok"

ReturnResult ==
  /\ main = "end" \/ (main = "drain" /\ AllReceived(count))
  /\ result' = Answer(ok, timedOut)
  /\ info' = IF verbose THEN [p \in DOMAIN parts |-> Range(longest[p]) \ {<<>>}] ELSE info
  /\ main' = "returned"
  /\ UNCHANGED <<callVars, parts, entries, search, longest, results, kill, count, ok, timedOut, drawn>>

-----------------------------------------------------------------------------
(***************************************************************************)
(* computeVisualizationData replays the partial linearizations.            *)
(***************************************************************************)
Replay(p, seq) ==
  FoldLeft(LAMBDA acc, id : [ok |-> acc.ok /\ StepOk(acc.state, Op(p, id)),
                             state |-> StepState(acc.state, Op(p, id))],
           [ok |-> TRUE, state |-> InitState], seq)

\* The size of the largest linearization that has an operation.
largestSize(p) ==
  [id \in UNION {Range(s) : s \in info[p]} |-> Max({Len(s) : s \in {q \in info[p] : id \in Range(q)}})]

\* The tests draw what is Illegal.  A linearization that cannot be replayed panics.
Visualize ==
  /\ main = "returned" /\ verbose /\ result = "Illegal"
  /\ IF \A p \in DOMAIN parts : \A s \in info[p] : Replay(p, s).ok
     THEN main' = "drawn" /\ drawn' = [p \in DOMAIN parts |-> largestSize(p)]
     ELSE main' = "panic" /\ UNCHANGED drawn
  /\ UNCHANGED <<callVars, parts, entries, search, longest, results, kill, count, ok, timedOut,
                 result, info>>

-----------------------------------------------------------------------------
Init ==
  /\ history \in Histories /\ verbose \in BOOLEAN /\ timed \in BOOLEAN
  /\ parts = <<>> /\ entries = <<>> /\ search = <<>> /\ longest = <<>>
  /\ results = <<>> /\ kill = FALSE
  /\ main = "start" /\ count = 0 /\ ok = TRUE /\ timedOut = FALSE
  /\ result = "none" /\ info = <<>> /\ drawn = <<>>

Goroutine(p) ==
  \/ CheckSingleDone(p) \/ CheckSingleKilled(p) \/ CheckSingleCall(p)
  \/ CheckSingleFail(p) \/ CheckSingleBacktrack(p) \/ SendResult(p)

MainStep ==
  \/ PartitionHistory \/ SortEntries \/ StartGoroutines \/ ReceiveResult
  \/ DrainResults \/ ReturnResult \/ Visualize

SearchStep == \E p \in DOMAIN search : Goroutine(p)

Next == MainStep \/ TimeoutFires \/ SearchStep

\* Goroutines are scheduled, and a timeout that was asked for fires in the end.
Fairness == WF_vars(MainStep) /\ WF_vars(SearchStep) /\ WF_vars(TimeoutFires)

Spec == Init /\ [][Next]_vars /\ Fairness

-----------------------------------------------------------------------------
(***************************************************************************)
(* What the answers mean.  The reference is the definition of              *)
(* linearizability for the whole store, not split by key.                  *)
(***************************************************************************)
\* An operation that returned before another was called comes before it.
InTime(h, order) ==
  \A j, k \in DOMAIN order : j < k => h[order[k]].Return >= h[order[j]].Call

\* The store with all keys answers as the history says, in this order.
Explains(h, order) ==
  LET Run == FoldLeft(LAMBDA acc, i :
               [ok |-> acc.ok /\ StepOk(acc.store[h[i].key], h[i]),
                store |-> [acc.store EXCEPT ![h[i].key] = StepState(@, h[i])]],
               [ok |-> TRUE, store |-> [k \in {h[i].key : i \in DOMAIN h} |-> <<>>]], order)
  IN  Run.ok

Orders(S) == {f \in [1..Cardinality(S) -> S] : \A j, k \in DOMAIN f : f[j] = f[k] => j = k}

Linearizable(h) == \E order \in Orders(DOMAIN h) : InTime(h, order) /\ Explains(h, order)

\* The type of the state.
TypeOK ==
  /\ main \in {"start", "sort", "go", "select", "drain", "end", "returned", "drawn", "panic"}
  /\ result \in {"none", "Ok", "Illegal", "Unknown"}
  /\ kill \in BOOLEAN /\ ok \in BOOLEAN /\ timedOut \in BOOLEAN
  /\ count \in 0..Len(parts) /\ Len(results) + count <= Len(parts)
  /\ \A p \in DOMAIN search :
       /\ search[p].pc \in {"run", "written", "sent"}
       /\ Looping(p) => search[p].entry \in DOMAIN entries[p]
       /\ DOMAIN search[p].longest = Ids(p)

\* Ok and Illegal are right answers, whatever the goroutines, kill and the timeout do
\* to each other, and Unknown is only given for a check that had a timeout.
VerdictRight ==
  /\ result = "Ok" => Linearizable(history)
  /\ result = "Illegal" => ~ Linearizable(history)
  /\ result = "Unknown" => timed

\* While checkSingle goes on, the list is the entries that are not linearized, in
\* their order and linked both ways: lift and unlift undo each other.
ListIntact ==
  \A p \in DOMAIN search : search[p].pc = "run" =>
    LET s == search[p]
        In == {0} \union {i \in DOMAIN entries[p] : ~ get(s.linearized, entries[p][i].id)}
        After(i) == {j \in In : j > i}
    IN  /\ \A i \in In : s.list.next[i] = IF After(i) = {} THEN Nil ELSE Min(After(i))
        /\ \A i \in In \ {0} : s.list.next[s.list.prev[i]] = i
        /\ {c.id : c \in Range(s.calls)} = {id \in Ids(p) : get(s.linearized, id)}
        /\ s.list.next[0] # Nil => s.entry \in In

\* The prefixes of a partition that can be linearized: closed under what returned
\* earlier, and explained by the model.
LinearPrefixes(p) ==
  {seq \in UNION {Orders(S) : S \in SUBSET Ids(p)} :
     /\ \A j, k \in DOMAIN seq : j < k => Op(p, seq[k]).Return >= Op(p, seq[j]).Call
     /\ \A k \in DOMAIN seq, id \in Ids(p) \ Range(seq) : Op(p, id).Return >= Op(p, seq[k]).Call
     /\ Replay(p, seq).ok}

\* What is drawn for an operation is the longest prefix that can be linearized and has
\* it, although the cache cuts most of the search off; and nothing panics.
DrawnRight ==
  /\ main # "panic"
  /\ main = "drawn" /\ ~ timedOut =>
       \A p \in DOMAIN parts :
         /\ \A s \in info[p] : s \in LinearPrefixes(p)
         /\ \A id \in Ids(p) :
              LET with == {Len(s) : s \in {q \in LinearPrefixes(p) : id \in Range(q)}}
              IN  IF with = {} THEN id \notin DOMAIN drawn[p]
                  ELSE id \in DOMAIN drawn[p] /\ drawn[p][id] = Max(with)

\* What is returned with computeInfo was written before it is read: every goroutine
\* has handed back its linearizations.
InfoComplete ==
  verbose /\ main \in {"returned", "drawn", "panic"} =>
    \A p \in DOMAIN parts : search[p].pc = "sent" /\ info[p] = Range(longest[p]) \ {<<>>}

\* A check with something to check, or with a timeout, answers, and leaves no goroutine
\* behind.  (An empty history without a timeout waits for ever.)
Answers ==
  (history # <<>> \/ timed) ~>
    main \in {"returned", "drawn", "panic"} /\ \A p \in DOMAIN search : search[p].pc = "sent"

=============================================================================
