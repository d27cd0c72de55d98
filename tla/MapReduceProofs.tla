-------------------------- MODULE MapReduceProofs --------------------------
(***************************************************************************)
(* Proofs about the coordinator's queues: the state is typed, every task   *)
(* is in one place and every attempt has one timer. Then about the files   *)
(* of the job: they are what the coordinator's account says, and the job   *)
(* implements MapReduceJob.                                                *)
(***************************************************************************)
EXTENDS MapReduce, TLAPS, FiniteSetTheorems

-----------------------------------------------------------------------------
(***************************************************************************)
(* Types.                                                                  *)
(***************************************************************************)
\* The numbers of tasks and the indexes of a type belong together.
LEMMA IndexTypes ==
  ASSUME NEW t \in TaskType
  PROVE  /\ Index(t) \subseteq Nat /\ Size(t) \in Nat \ {0}
         /\ IsFiniteSet(Index(t)) /\ Cardinality(Index(t)) = Size(t)
  BY SizeAssumption, FS_Interval DEF TaskType, Index, Size, MapIndex, ReduceIndex

\* All tasks of a type are completed exactly when as many are as there are.
LEMMA AllCompleted ==
  ASSUME NEW t \in TaskType, NEW S \in SUBSET Index(t)
  PROVE  Cardinality(S) = Size(t) <=> S = Index(t)
  BY IndexTypes, FS_Subset, Zenon

\* What GetTask pops is a task of its type, and the rest of the queue are tasks.
LEMMA QueueTypes ==
  ASSUME NEW q \in Seq(Nat), q # <<>>
  PROVE  /\ Head(q) = q[1] /\ Len(q) \in Nat \ {0}
         /\ Tail(q) \in Seq(Nat) /\ Len(Tail(q)) = Len(q) - 1
         /\ \A k \in 1..Len(Tail(q)) : Tail(q)[k] = q[k + 1]
  OBVIOUS

\* A task that CheckExcept puts back is at the end of the queue.
LEMMA AppendTypes ==
  ASSUME NEW q \in Seq(Nat), NEW i \in Nat
  PROVE  /\ Append(q, i) \in Seq(Nat) /\ Len(Append(q, i)) = Len(q) + 1
         /\ Len(q) \in Nat
         /\ \A k \in 1..Len(Append(q, i)) :
              Append(q, i)[k] = IF k = Len(q) + 1 THEN i ELSE q[k]
  OBVIOUS

\* A worker that only changes its phase keeps its type.
LEMMA PhaseTypes ==
  ASSUME WorkerType, NEW w \in Worker, NEW p \in {"idle", "sleep", "gone"},
         worker' = [worker EXCEPT ![w].phase = p]
  PROVE  WorkerType'
<1>1. /\ [worker[w] EXCEPT !.phase = p] \in WorkerState
      /\ [worker[w] EXCEPT !.phase = p].index = worker[w].index
      /\ [worker[w] EXCEPT !.phase = p].type = worker[w].type
      /\ [worker[w] EXCEPT !.phase = p].phase = p
  BY Zenon DEF WorkerType, WorkerState
<1>2. worker' = [worker EXCEPT ![w] = [worker[w] EXCEPT !.phase = p]]
  BY Zenon DEF WorkerType
<1> QED BY <1>1, <1>2, Zenon DEF WorkerType

\* Every step of the job keeps the types of the state.
LEMMA TypeStep == TypeOK /\ [Next]_vars => TypeOK'
<1> SUFFICES ASSUME TypeOK, [Next]_vars PROVE TypeOK'
  OBVIOUS
<1> USE DEF TypeOK
<1>f. Fresh \in WorkerState /\ Fresh.index \in Index(Fresh.type) /\ Fresh.phase = "idle"
  BY SizeAssumption DEF Fresh, WorkerState, Index, TaskType, MapIndex
<1>1. ASSUME NEW w \in Worker, NEW t \in TaskType, GetTask(w, t) PROVE TypeOK'
  <2> DEFINE i == Head(InitQue[t])
  <2>1. InitQue[t] \in Seq(Nat) /\ InitQue[t] # <<>>
    BY <1>1, Zenon DEF GetTask, CoordType
  <2>2. i \in Index(t) /\ i \in Nat /\ \A k \in 1..Len(Tail(InitQue[t])) : Tail(InitQue[t])[k] \in Index(t)
    BY <2>1, QueueTypes, IndexTypes DEF CoordType
  <2>3. [type |-> t, index |-> i, worker |-> w] \in Timer
    BY <2>2, Zenon DEF Timer
  <2>4. InitQue' = [InitQue EXCEPT ![t] = Tail(@)] /\ Running' = [Running EXCEPT ![t] = @ \union {i}]
        /\ timers' = timers \union {[type |-> t, index |-> i, worker |-> w]}
        /\ UNCHANGED <<Status, Completed, up, inter, out, crashes, slow>>
    BY <1>1, Zenon DEF GetTask
  <2>5. t = "MapTask" => i \in MapIndex /\ Part[i] \subseteq ReduceIndex
    BY <2>2, PartAssumption, Zenon DEF Index
  <2> DEFINE ws == [Fresh EXCEPT !.phase = IF t = "MapTask" THEN "map" ELSE "reduce",
                         !.type = t, !.index = i,
                         !.todo = IF t = "MapTask" THEN Part[i] ELSE {}]
  <2>6. /\ ws \in WorkerState /\ ws.index = i /\ ws.type = t
        /\ ws.phase = IF t = "MapTask" THEN "map" ELSE "reduce"
    BY <2>2, <2>5, <1>f, Zenon DEF WorkerState, Fresh, Working
  <2>7. worker' = [worker EXCEPT ![w] = ws]
    BY <1>1, Zenon DEF GetTask
  <2> HIDE DEF ws
  <2>8. WorkerType'
    BY <2>6, <2>7, <2>2, Zenon DEF WorkerType, TaskType
  <2> HIDE DEF i
  <2>9. CoordType'
    BY <2>1, <2>2, <2>3, <2>4, QueueTypes DEF CoordType
  <2> QED BY <2>8, <2>9, <2>4, Zenon DEF FileType
<1>2. ASSUME NEW w \in Worker, NEW t \in TaskType, GetTaskSleep(w, t) PROVE TypeOK'
  BY <1>2, PhaseTypes, Zenon DEF GetTaskSleep, coordVars, CoordType, FileType
<1>3. ASSUME NEW w \in Worker, GetTaskExit(w) PROVE TypeOK'
  BY <1>3, PhaseTypes, Zenon DEF GetTaskExit, coordVars, CoordType, FileType
<1>4. ASSUME NEW w \in Worker, Report(w) PROVE TypeOK'
  <2> DEFINE t == worker[w].type
             i == worker[w].index
  <2>1. t \in TaskType /\ i \in Index(t)
    BY Zenon DEF WorkerType, WorkerState
  <2>2. i \in Nat
    BY <2>1, IndexTypes, Zenon
  <2>3. WorkerType'
    BY <1>4, <1>f, Zenon DEF Report, WorkerType
  <2>4. Status' \in {"MapStage", "ReduceStage", "IdleStage"}
    BY <1>4, Zenon DEF Report, NextStage, CoordType
  <2>5. UNCHANGED <<InitQue, timers, up, inter, out, crashes, slow>>
    BY <1>4, Zenon DEF Report
  <2>6. \/ UNCHANGED <<Running, Completed>>
        \/ /\ Running' = [Running EXCEPT ![t] = @ \ {i}]
           /\ Completed' = [Completed EXCEPT ![t] = @ \union {i}]
    BY <1>4, Zenon DEF Report
  <2> HIDE DEF t, i
  <2>7. /\ Running' \in [TaskType -> SUBSET Nat] /\ Completed' \in [TaskType -> SUBSET Nat]
        /\ \A u \in TaskType : Running'[u] \subseteq Index(u) /\ Completed'[u] \subseteq Index(u)
    <3>1. CASE UNCHANGED <<Running, Completed>>
      BY <3>1, Zenon DEF CoordType
    <3>2. CASE /\ Running' = [Running EXCEPT ![t] = @ \ {i}]
               /\ Completed' = [Completed EXCEPT ![t] = @ \union {i}]
      BY <3>2, <2>1, <2>2, Zenon DEF CoordType
    <3> QED BY <2>6, <3>1, <3>2, Zenon
  <2>8. CoordType'
    BY <2>4, <2>5, <2>7, Zenon DEF CoordType
  <2> QED BY <2>3, <2>5, <2>8, Zenon DEF FileType
<1>5. ASSUME NEW w \in Worker, Wake(w) PROVE TypeOK'
  BY <1>5, <1>f, Zenon DEF Wake, coordVars, CoordType, WorkerType, FileType
<1>6. ASSUME NEW w \in Worker, CallFails(w) PROVE TypeOK'
  BY <1>6, PhaseTypes, Zenon DEF CallFails, coordVars, CoordType, FileType
<1>7. ASSUME NEW w \in Worker, NEW r \in ReduceIndex, MapWorkerRename(w, r) PROVE TypeOK'
  <2>1. worker[w] \in WorkerState /\ worker[w].index \in Index(worker[w].type)
    BY Zenon DEF WorkerType
  <2> DEFINE ws == [worker[w] EXCEPT !.todo = @ \ {r}]
  <2>2. ws \in WorkerState /\ ws.index = worker[w].index /\ ws.type = worker[w].type /\ ws.phase = worker[w].phase
    BY <2>1, Zenon DEF WorkerState
  <2>3. worker' = [worker EXCEPT ![w] = ws]
    BY <1>7, Zenon DEF MapWorkerRename, WorkerType
  <2> HIDE DEF ws
  <2>4. WorkerType'
    BY <2>2, <2>3, Zenon DEF WorkerType
  <2>5. worker[w].index \in MapIndex
    BY <1>7, Zenon DEF MapWorkerRename, WorkerType, Index
  <2>6. FileType'
    BY <1>7, <2>5 DEF MapWorkerRename, FileType
  <2> QED BY <1>7, <2>4, <2>6, Zenon DEF MapWorkerRename, coordVars, CoordType
<1>8. ASSUME NEW w \in Worker, ReduceWorkerRead(w) PROVE TypeOK'
  <2> DEFINE m == worker[w].next
             ws == [worker[w] EXCEPT !.next = m + 1,
                      !.got = IF <<m, worker[w].index>> \in inter THEN @ \union {m} ELSE @]
  <2>1. worker[w] \in WorkerState /\ m \in 0..NMap /\ m < NMap /\ NMap \in Nat
    BY <1>8, SizeAssumption, Zenon DEF WorkerType, WorkerState, ReduceWorkerRead
  <2>2. m \in MapIndex /\ m + 1 \in 0..NMap
    BY <2>1 DEF MapIndex
  <2>3. ws \in WorkerState /\ ws.index = worker[w].index /\ ws.type = worker[w].type /\ ws.phase = worker[w].phase
    BY <2>1, <2>2, Zenon DEF WorkerState
  <2>4. worker' = [worker EXCEPT ![w] = ws]
    BY <1>8, Zenon DEF ReduceWorkerRead, WorkerType
  <2> HIDE DEF ws
  <2>5. WorkerType'
    BY <2>3, <2>4, Zenon DEF WorkerType
  <2> QED BY <1>8, <2>5, Zenon DEF ReduceWorkerRead, coordVars, CoordType, FileType
<1>9. ASSUME NEW w \in Worker, ReduceWorkerRename(w) PROVE TypeOK'
  <2>1. worker[w] \in WorkerState
    BY Zenon DEF WorkerType
  <2> DEFINE ws == [worker[w] EXCEPT !.phase = "reduced"]
  <2>a. /\ ws \in WorkerState /\ ws.index = worker[w].index /\ ws.type = worker[w].type
        /\ ws.phase = "reduced" /\ worker[w].type = "ReduceTask"
    BY <2>1, <1>9, Zenon DEF WorkerState, Working, WorkerType, ReduceWorkerRename
  <2>b. worker' = [worker EXCEPT ![w] = ws]
    BY <1>9, Zenon DEF ReduceWorkerRename, WorkerType
  <2> HIDE DEF ws
  <2>2. WorkerType'
    BY <2>a, <2>b, Zenon DEF WorkerType
  <2>3. worker[w].got \in SUBSET MapIndex
    BY <2>1, Zenon DEF WorkerState
  <2>4. FileType'
    BY <1>9, <2>3, Zenon DEF ReduceWorkerRename, FileType
  <2> QED BY <1>9, <2>2, <2>4, Zenon DEF ReduceWorkerRename, coordVars, CoordType
<1>10. ASSUME NEW w \in Worker, Crash(w) PROVE TypeOK'
  <2>1. WorkerType'
    BY <1>10, PhaseTypes, Zenon DEF Crash
  <2>2. crashes' \in Nat
    BY <1>10 DEF Crash, CoordType
  <2> QED BY <1>10, <2>1, <2>2, Zenon DEF Crash, coordVars, CoordType, FileType
<1>11. ASSUME NEW c \in timers, CheckExcept(c) PROVE TypeOK'
  <2>1. c.type \in TaskType /\ c.index \in Index(c.type) /\ c.index \in Nat
    BY IndexTypes, Zenon DEF CoordType, Timer
  <2>2. InitQue[c.type] \in Seq(Nat)
    BY <2>1, Zenon DEF CoordType
  <2>3. timers' \subseteq timers /\ slow' \in Nat
        /\ UNCHANGED <<Status, Completed, up, worker, inter, out, crashes>>
    BY <1>11 DEF CheckExcept, CoordType
  <2>4. \/ UNCHANGED <<Running, InitQue>>
        \/ /\ Running' = [Running EXCEPT ![c.type] = @ \ {c.index}]
           /\ InitQue' = [InitQue EXCEPT ![c.type] = Append(@, c.index)]
    BY <1>11, Zenon DEF CheckExcept
  <2>5. CASE UNCHANGED <<Running, InitQue>>
    BY <2>3, <2>5, Zenon DEF CoordType, WorkerType, FileType
  <2>6. CASE /\ Running' = [Running EXCEPT ![c.type] = @ \ {c.index}]
             /\ InitQue' = [InitQue EXCEPT ![c.type] = Append(@, c.index)]
    <3>1. InitQue' \in [TaskType -> Seq(Nat)]
      BY <2>1, <2>2, <2>6, AppendTypes, Zenon DEF CoordType
    <3>2. \A k \in 1..Len(Append(InitQue[c.type], c.index)) :
            Append(InitQue[c.type], c.index)[k] \in Index(c.type)
      BY <2>1, <2>2, AppendTypes DEF CoordType
    <3>3. \A t \in TaskType : \A k \in 1..Len(InitQue'[t]) : InitQue'[t][k] \in Index(t)
      BY <2>1, <2>6, <3>2, Zenon DEF CoordType
    <3>4. Running' \in [TaskType -> SUBSET Nat] /\ \A t \in TaskType : Running'[t] \subseteq Index(t)
      BY <2>1, <2>6, Zenon DEF CoordType
    <3> QED BY <2>3, <3>1, <3>3, <3>4, Zenon DEF CoordType, WorkerType, FileType
  <2> QED BY <2>4, <2>5, <2>6, Zenon
<1>12. CASE CoordinatorExit
  BY <1>12, Zenon DEF CoordinatorExit, coordVars, CoordType, WorkerType, FileType
<1>13. CASE UNCHANGED vars
  BY <1>13, Zenon DEF vars, coordVars, CoordType, WorkerType, FileType
<1> QED BY <1>1, <1>2, <1>3, <1>4, <1>5, <1>6, <1>7, <1>8, <1>9, <1>10, <1>11, <1>12, <1>13, Zenon DEF Next, WorkerStep

-----------------------------------------------------------------------------
(***************************************************************************)
(* Where the tasks are.                                                    *)
(***************************************************************************)
\* Taking the head off a queue without repetitions removes that task from it.
LEMMA Popped ==
  ASSUME NEW q \in Seq(Nat), q # <<>>,
         \A j, k \in 1..Len(q) : q[j] = q[k] => j = k
  PROVE  LET p == Tail(q)
         IN  /\ \A j, k \in 1..Len(p) : p[j] = p[k] => j = k
             /\ {p[k] : k \in 1..Len(p)} = {q[k] : k \in 1..Len(q)} \ {Head(q)}
             /\ Head(q) \in {q[k] : k \in 1..Len(q)}
<1> DEFINE p == Tail(q)
<1>1. /\ Head(q) = q[1] /\ Len(q) \in Nat \ {0} /\ Len(p) = Len(q) - 1
      /\ \A k \in 1..Len(p) : p[k] = q[k + 1]
  BY QueueTypes, Zenon
<1> HIDE DEF p
<1>2. ASSUME NEW j \in 1..Len(p), NEW k \in 1..Len(p), p[j] = p[k] PROVE j = k
  <2>1. j + 1 \in 1..Len(q) /\ k + 1 \in 1..Len(q) /\ q[j + 1] = q[k + 1]
    BY SMTT(20), <1>1, <1>2
  <2>2. j + 1 = k + 1
    BY <2>1
  <2> QED BY <2>2
<1>3. ASSUME NEW k \in 1..Len(p) PROVE p[k] \in {q[j] : j \in 1..Len(q)} \ {q[1]}
  <2>1. k + 1 \in 1..Len(q) /\ 1 \in 1..Len(q) /\ k + 1 # 1 /\ p[k] = q[k + 1]
    BY <1>1
  <2> QED BY <2>1, Zenon
<1>4. ASSUME NEW x \in {q[k] : k \in 1..Len(q)} \ {q[1]} PROVE x \in {p[k] : k \in 1..Len(p)}
  <2>1. PICK k \in 1..Len(q) : x = q[k] /\ k # 1
    BY <1>4, Zenon
  <2>2. k - 1 \in 1..Len(p) /\ p[k - 1] = q[k]
    BY <1>1, <2>1
  <2> QED BY <2>1, <2>2, Zenon
<1> QED BY SMTT(20), <1>1, <1>2, <1>3, <1>4 DEF p

\* Appending a task that is not in the queue adds just that task.
LEMMA Pushed ==
  ASSUME NEW q \in Seq(Nat), NEW i \in Nat, i \notin {q[k] : k \in 1..Len(q)},
         \A j, k \in 1..Len(q) : q[j] = q[k] => j = k
  PROVE  LET p == Append(q, i)
         IN  /\ \A j, k \in 1..Len(p) : p[j] = p[k] => j = k
             /\ {p[k] : k \in 1..Len(p)} = {q[k] : k \in 1..Len(q)} \union {i}
<1> DEFINE p == Append(q, i)
<1>1. /\ Len(p) = Len(q) + 1 /\ Len(q) \in Nat
      /\ \A k \in 1..Len(p) : p[k] = IF k = Len(q) + 1 THEN i ELSE q[k]
  BY AppendTypes, Zenon
<1> HIDE DEF p
<1>2. \A j, k \in 1..Len(p) : p[j] = p[k] => j = k
  BY <1>1
<1>3. \A x : x \in {p[k] : k \in 1..Len(p)} => x \in {q[k] : k \in 1..Len(q)} \union {i}
  BY <1>1
<1>4. \A x : x \in {q[k] : k \in 1..Len(q)} \union {i} => x \in {p[k] : k \in 1..Len(p)}
  <2>1. Len(q) + 1 \in 1..Len(p) /\ p[Len(q) + 1] = i
    BY <1>1
  <2>2. \A k \in 1..Len(q) : k \in 1..Len(p) /\ p[k] = q[k]
    BY <1>1
  <2>3. i \in {p[k] : k \in 1..Len(p)}
    BY <2>1, Zenon
  <2>4. ASSUME NEW k \in 1..Len(q) PROVE q[k] \in {p[j] : j \in 1..Len(p)}
    BY <2>2, Zenon
  <2> QED BY <2>3, <2>4, Zenon
<1> QED BY <1>2, <1>3, <1>4, Zenon DEF p

\* Every step of the job keeps tasks and timers in place.
LEMMA PlaceStep ==
  TypeOK /\ TaskOnce /\ TimerPerAttempt /\ [Next]_vars => TaskOnce' /\ TimerPerAttempt'
<1> SUFFICES ASSUME TypeOK, TaskOnce, TimerPerAttempt, [Next]_vars
             PROVE  TaskOnce' /\ TimerPerAttempt'
  OBVIOUS
<1>0. ASSUME UNCHANGED <<InitQue, Running, Completed, timers>>
      PROVE  TaskOnce' /\ TimerPerAttempt'
  BY <1>0 DEF TaskOnce, TimerPerAttempt, Queued
<1>1. ASSUME NEW w \in Worker, NEW t \in TaskType, GetTask(w, t)
      PROVE  TaskOnce' /\ TimerPerAttempt'
  <2> DEFINE i == Head(InitQue[t])
             new == [type |-> t, index |-> i, worker |-> w]
  <2>1. /\ InitQue' = [InitQue EXCEPT ![t] = Tail(@)] /\ InitQue[t] # <<>>
        /\ Running' = [Running EXCEPT ![t] = @ \union {i}]
        /\ timers' = timers \union {new} /\ Completed' = Completed
    BY <1>1, Zenon DEF GetTask
  <2>2. InitQue \in [TaskType -> Seq(Nat)] /\ Running \in [TaskType -> SUBSET Nat]
    BY Zenon DEF TypeOK, CoordType
  <2>3. /\ \A j, k \in 1..Len(InitQue'[t]) : InitQue'[t][j] = InitQue'[t][k] => j = k
        /\ Queued(t)' = Queued(t) \ {i} /\ i \in Queued(t)
    <3>1. InitQue[t] \in Seq(Nat) /\ InitQue'[t] = Tail(InitQue[t])
      BY <2>1, <2>2, Zenon
    <3>2. \A j, k \in 1..Len(InitQue[t]) : InitQue[t][j] = InitQue[t][k] => j = k
      BY Zenon DEF TaskOnce
    <3>3. /\ \A j, k \in 1..Len(Tail(InitQue[t])) : Tail(InitQue[t])[j] = Tail(InitQue[t])[k] => j = k
          /\ {Tail(InitQue[t])[k] : k \in 1..Len(Tail(InitQue[t]))}
               = {InitQue[t][k] : k \in 1..Len(InitQue[t])} \ {i}
          /\ i \in {InitQue[t][k] : k \in 1..Len(InitQue[t])}
      BY <2>1, <3>1, <3>2, Popped, Zenon
    <3> QED BY <3>1, <3>3, Zenon DEF Queued
  <2>4. \A u \in TaskType \ {t} : InitQue'[u] = InitQue[u] /\ Running'[u] = Running[u]
    BY <2>1, <2>2, Zenon
  <2>5. \A u \in TaskType \ {t} : Queued(u)' = Queued(u)
    BY <2>4, Zenon DEF Queued
  <2>6. Running'[t] = Running[t] \union {i}
    BY <2>1, <2>2, Zenon
  <2>7. new.type = t /\ new.index = i
    OBVIOUS
  <2> HIDE DEF i, new
  <2>8. TaskOnce'
    BY <2>1, <2>3, <2>4, <2>5, <2>6 DEF TaskOnce
  <2>9. \A u \in TaskType : \A x \in Running'[u] : \E c \in timers' : c.type = u /\ c.index = x
    BY <2>1, <2>4, <2>6, <2>7 DEF TimerPerAttempt
  <2>10. \A c \in timers' : c.index \notin Queued(c.type)'
    <3>1. \A c \in timers : c.type \in TaskType
      BY DEF TypeOK, CoordType, Timer
    <3> QED BY <3>1, <2>1, <2>3, <2>5, <2>7 DEF TimerPerAttempt
  <2>11. \A c \in timers : ~ (c.type = t /\ c.index = i)
    BY <2>3 DEF TimerPerAttempt
  <2>12. \A c, d \in timers' : c.type = d.type /\ c.index = d.index => c = d
    BY <2>1, <2>7, <2>11, Zenon DEF TimerPerAttempt
  <2> QED BY <2>8, <2>9, <2>10, <2>12, Zenon DEF TimerPerAttempt
<1>2. ASSUME NEW w \in Worker, Report(w) PROVE TaskOnce' /\ TimerPerAttempt'
  <2> DEFINE t == worker[w].type
             i == worker[w].index
  <2>1. InitQue' = InitQue /\ timers' = timers
    BY <1>2, Zenon DEF Report
  <2>2. \A u : Queued(u)' = Queued(u)
    BY <2>1, Zenon DEF Queued
  <2>3. CASE i \in Running[t]
    <3>1. t \in TaskType
      BY Zenon DEF TypeOK, WorkerType, WorkerState
    <3>2. Running' = [Running EXCEPT ![t] = @ \ {i}] /\ Completed' = [Completed EXCEPT ![t] = @ \union {i}]
      BY <1>2, <2>3, Zenon DEF Report
    <3>3. Running \in [TaskType -> SUBSET Nat] /\ Completed \in [TaskType -> SUBSET Nat]
      BY Zenon DEF TypeOK, CoordType
    <3>4. /\ Running'[t] = Running[t] \ {i} /\ Completed'[t] = Completed[t] \union {i}
          /\ \A u \in TaskType \ {t} : Running'[u] = Running[u] /\ Completed'[u] = Completed[u]
      BY <3>2, <3>3, <3>1, Zenon
    <3> HIDE DEF t, i
    <3>5. \A u \in TaskType : Running'[u] \subseteq Running[u]
      BY <3>4, Zenon
    <3>6. TaskOnce'
      BY <2>1, <2>2, <2>3, <3>1, <3>4, SMTT(20) DEF TaskOnce
    <3> QED BY <2>1, <2>2, <3>5, <3>6, Zenon DEF TimerPerAttempt
  <2>4. CASE i \notin Running[t]
    BY <1>2, <2>1, <2>4, <1>0, Zenon DEF Report
  <2> QED BY <2>3, <2>4, Zenon
<1>3. ASSUME NEW c \in timers, CheckExcept(c) PROVE TaskOnce' /\ TimerPerAttempt'
  <2> DEFINE t == c.type
             i == c.index
  <2>1. t \in TaskType /\ i \in Nat
    BY Zenon DEF TypeOK, CoordType, Timer
  <2>2. timers' = timers \ {c} /\ Completed' = Completed
    BY <1>3, Zenon DEF CheckExcept
  <2>3. \A d \in timers' : d.type = t => d.index # i
    BY <2>2, Zenon DEF TimerPerAttempt
  <2>4. CASE i \in Running[t]
    <3>1. /\ Running' = [Running EXCEPT ![t] = @ \ {i}]
          /\ InitQue' = [InitQue EXCEPT ![t] = Append(@, i)]
      BY <1>3, <2>4, Zenon DEF CheckExcept
    <3>2. InitQue \in [TaskType -> Seq(Nat)] /\ Running \in [TaskType -> SUBSET Nat]
      BY Zenon DEF TypeOK, CoordType
    <3> HIDE DEF t, i
    <3>3. /\ \A j, k \in 1..Len(InitQue'[t]) : InitQue'[t][j] = InitQue'[t][k] => j = k
          /\ Queued(t)' = Queued(t) \union {i}
      <4>1. InitQue[t] \in Seq(Nat) /\ InitQue'[t] = Append(InitQue[t], i)
        BY <2>1, <3>1, <3>2, Zenon
      <4>2. i \notin {InitQue[t][k] : k \in 1..Len(InitQue[t])}
        BY <2>1, <2>4, Zenon DEF TaskOnce, Queued
      <4>3. \A j, k \in 1..Len(InitQue[t]) : InitQue[t][j] = InitQue[t][k] => j = k
        BY <2>1, Zenon DEF TaskOnce
      <4>4. /\ \A j, k \in 1..Len(Append(InitQue[t], i)) :
                 Append(InitQue[t], i)[j] = Append(InitQue[t], i)[k] => j = k
            /\ {Append(InitQue[t], i)[k] : k \in 1..Len(Append(InitQue[t], i))}
                 = {InitQue[t][k] : k \in 1..Len(InitQue[t])} \union {i}
        BY <2>1, <4>1, <4>2, <4>3, Pushed, Zenon
      <4> QED BY <4>1, <4>4, Zenon DEF Queued
    <3>4. /\ Running'[t] = Running[t] \ {i}
          /\ \A u \in TaskType \ {t} : InitQue'[u] = InitQue[u] /\ Running'[u] = Running[u]
      BY <2>1, <3>1, <3>2, Zenon
    <3>5. \A u \in TaskType \ {t} : Queued(u)' = Queued(u)
      BY <3>4, Zenon DEF Queued
    <3>6. TaskOnce'
      BY <2>1, <2>2, <2>4, <3>3, <3>4, <3>5 DEF TaskOnce
    <3>7. \A u \in TaskType : \A x \in Running'[u] : \E d \in timers' : d.type = u /\ d.index = x
      BY <2>1, <2>2, <3>4 DEF TimerPerAttempt, t, i
    <3>8. \A d \in timers' : d.index \notin Queued(d.type)'
      <4>1. \A d \in timers' : d \in timers /\ d.type \in TaskType
        BY <2>2 DEF TypeOK, CoordType, Timer
      <4> QED BY <2>3, <3>3, <3>5, <4>1 DEF TimerPerAttempt
    <3> QED BY <2>2, <3>6, <3>7, <3>8, Zenon DEF TimerPerAttempt
  <2>5. CASE i \notin Running[t]
    <3>1. Running' = Running /\ InitQue' = InitQue
      BY <1>3, <2>5, Zenon DEF CheckExcept
    <3>2. \A u : Queued(u)' = Queued(u)
      BY <3>1, Zenon DEF Queued
    <3>3. TaskOnce'
      BY <2>2, <3>1, <3>2, Zenon DEF TaskOnce
    <3>4. \A u \in TaskType : \A x \in Running'[u] : \E d \in timers' : d.type = u /\ d.index = x
      BY <2>2, <2>5, <3>1 DEF TimerPerAttempt
    <3> QED BY <2>2, <3>2, <3>3, <3>4, Zenon DEF TimerPerAttempt
  <2> QED BY <2>4, <2>5, Zenon
<1>4. ASSUME NEW w \in Worker, NEW t \in TaskType, GetTaskSleep(w, t)
      PROVE  UNCHANGED <<InitQue, Running, Completed, timers>>
  BY <1>4, Zenon DEF GetTaskSleep, coordVars
<1>5. ASSUME NEW w \in Worker,
             \/ GetTaskExit(w) \/ Wake(w) \/ CallFails(w) \/ ReduceWorkerRead(w)
             \/ ReduceWorkerRename(w) \/ Crash(w) \/ \E r \in ReduceIndex : MapWorkerRename(w, r)
      PROVE  UNCHANGED <<InitQue, Running, Completed, timers>>
  BY <1>5, Zenon DEF GetTaskExit, Wake, CallFails, ReduceWorkerRead, ReduceWorkerRename, Crash,
              MapWorkerRename, coordVars
<1>6. CASE CoordinatorExit \/ UNCHANGED vars
  BY <1>0, <1>6, Zenon DEF CoordinatorExit, vars, coordVars
<1> QED BY <1>0, <1>1, <1>2, <1>3, <1>4, <1>5, <1>6, Zenon DEF Next, WorkerStep

\* In the initial state every task is queued once and none has a timer.
LEMMA PlaceInit == Init => TypeOK /\ TaskOnce /\ TimerPerAttempt
<1> SUFFICES ASSUME Init PROVE TypeOK /\ TaskOnce /\ TimerPerAttempt
  OBVIOUS
<1>1. ASSUME NEW t \in TaskType
      PROVE  /\ InitQue[t] \in Seq(Nat) /\ Len(InitQue[t]) = Size(t)
             /\ \A k \in 1..Size(t) : InitQue[t][k] = k - 1
             /\ \A k \in 1..Size(t) : k - 1 \in Index(t)
             /\ \A i \in Index(t) : i + 1 \in 1..Size(t) /\ (i + 1) - 1 = i
  <2>1. InitQue[t] = [k \in 1..Size(t) |-> k - 1]
    BY Zenon DEF Init, MakeCoordinator
  <2>2. Size(t) \in Nat \ {0} /\ Index(t) = 0..(Size(t) - 1)
    BY SizeAssumption, Zenon DEF Size, Index, MapIndex, ReduceIndex
  <2>3. \A k \in 1..Size(t) : k - 1 \in Index(t) /\ k - 1 \in Nat
    BY <2>2
  <2>4. InitQue[t] \in Seq(Nat) /\ Len(InitQue[t]) = Size(t)
    BY <2>1, <2>2, <2>3
  <2> QED BY <2>1, <2>2, <2>3, <2>4
<1>2. /\ Running = [t \in TaskType |-> {}] /\ Completed = [t \in TaskType |-> {}] /\ timers = {}
  BY Zenon DEF Init
<1>3. \A t \in TaskType : Queued(t) = Index(t)
  <2> TAKE t \in TaskType
  <2>1. ASSUME NEW i \in Index(t) PROVE i \in Queued(t)
    <3>1. i + 1 \in 1..Len(InitQue[t]) /\ InitQue[t][i + 1] = i
      BY <1>1, Zenon
    <3> QED BY <3>1, Zenon DEF Queued
  <2>2. \A i \in Queued(t) : i \in Index(t)
    BY <1>1 DEF Queued
  <2> QED BY <2>1, <2>2, Zenon
<1>4. \A t \in TaskType : \A j, k \in 1..Len(InitQue[t]) : InitQue[t][j] = InitQue[t][k] => j = k
  <2> TAKE t \in TaskType
  <2>1. Size(t) \in Nat
    BY IndexTypes
  <2> QED BY <1>1, <2>1
<1>5. TaskOnce /\ TimerPerAttempt
  BY <1>2, <1>3, <1>4, Zenon DEF TaskOnce, TimerPerAttempt
<1>6. CoordType
  <2>1. InitQue \in [TaskType -> Seq(Nat)]
    BY <1>1, Zenon DEF Init, MakeCoordinator
  <2>2. \A t \in TaskType : \A k \in 1..Len(InitQue[t]) : InitQue[t][k] \in Index(t)
    BY <1>1, Zenon
  <2> QED BY <2>1, <2>2, <1>2, Zenon DEF Init, CoordType
<1>7. WorkerType
  <2>1. Fresh \in WorkerState /\ Fresh.index \in Index(Fresh.type) /\ Fresh.phase = "idle"
    BY SizeAssumption DEF Fresh, WorkerState, Index, TaskType, MapIndex
  <2> QED BY <2>1, Zenon DEF Init, WorkerType
<1>8. FileType
  BY Zenon DEF Init, FileType
<1> QED BY <1>5, <1>6, <1>7, <1>8, Zenon DEF TypeOK

\* The types, the places of the tasks and the timers are inductive together.
LEMMA PlacementInvariant == Spec => [](TypeOK /\ TaskOnce /\ TimerPerAttempt)
<1>1. Init => TypeOK /\ TaskOnce /\ TimerPerAttempt
  BY PlaceInit, Zenon
<1>2. (TypeOK /\ TaskOnce /\ TimerPerAttempt) /\ [Next]_vars
        => (TypeOK /\ TaskOnce /\ TimerPerAttempt)'
  BY TypeStep, PlaceStep, Zenon
<1> QED BY <1>1, <1>2, PTL DEF Spec

\* The state of the coordinator and its workers is well typed.
THEOREM JobTyped == Spec => []TypeOK
  BY PlacementInvariant, PTL

\* Whatever the numbers of workers, files, crashes and late reports are, a task is in
\* one place: the coordinator loses no task and doubles none.
THEOREM TaskPlacement == Spec => []TaskOnce
  BY PlacementInvariant, PTL

\* A task handed out has exactly one checkExcept that will look after it, also when it
\* was taken back and handed out again before the first one woke up.
THEOREM TimersWatch == Spec => []TimerPerAttempt
  BY PlacementInvariant, PTL

-----------------------------------------------------------------------------
(***************************************************************************)
(* The files of the job.                                                   *)
(***************************************************************************)
\* What one worker contributes to WorkerInv.
OneWorker(w) ==
  /\ worker[w].phase = "map" =>
       /\ worker[w].todo \subseteq Part[worker[w].index]
       /\ \A r \in Part[worker[w].index] \ worker[w].todo : <<worker[w].index, r>> \in inter
  /\ worker[w].phase \in {"reduce", "reduced"} =>
       /\ Completed["MapTask"] = MapIndex
       /\ worker[w].got = {m \in MapIndex : m < worker[w].next /\ worker[w].index \in Part[m]}
  /\ worker[w].phase = "reduced" => out[worker[w].index] = Whole(worker[w].index)

\* A worker that does nothing is not disturbed by files and completed tasks that the
\* others add.
LEMMA OthersKeep ==
  ASSUME TypeOK, NEW w \in Worker, OneWorker(w), worker'[w] = worker[w], inter \subseteq inter',
         Completed["MapTask"] = MapIndex => Completed'["MapTask"] = MapIndex,
         \A r \in ReduceIndex : out[r] = Whole(r) => out'[r] = Whole(r)
  PROVE  OneWorker(w)'
<1>1. worker[w].phase = "reduced" => worker[w].index \in ReduceIndex
  BY Zenon DEF TypeOK, WorkerType, Index, TaskType
<1> QED BY <1>1, Zenon DEF OneWorker, Whole

\* JobInv with the workers one by one.
LEMMA JobParts ==
  JobInv <=> /\ StageInv /\ InterInv /\ OutputWhole
             /\ \A w \in Worker : OneWorker(w)
             /\ \A r \in Completed["ReduceTask"] : out[r] = Whole(r)
  BY Zenon DEF JobInv, WorkerInv, OneWorker

LEMMA JobPartsNext ==
  JobInv' <=> /\ StageInv' /\ InterInv' /\ OutputWhole'
              /\ \A w \in Worker : OneWorker(w)'
              /\ \A r \in Completed'["ReduceTask"] : out'[r] = Whole(r)
  BY Zenon DEF JobInv, WorkerInv, OneWorker, Whole

\* A step that leaves the coordinator and the files alone, and after which the worker
\* that took it is idle, asleep or gone, keeps JobInv.
LEMMA QuietStep ==
  ASSUME TypeOK, JobInv, NEW w \in Worker, UNCHANGED <<Status, Completed, inter, out>>,
         worker'[w].phase \in {"idle", "sleep", "gone"},
         \A v \in Worker \ {w} : worker'[v] = worker[v]
  PROVE  JobInv'
<1>1. \A v \in Worker \ {w} : OneWorker(v)'
  BY JobParts, OthersKeep, Zenon
<1>2. OneWorker(w)'
  BY Zenon DEF OneWorker
<1>3. StageInv' /\ InterInv' /\ OutputWhole'
  BY JobParts, Zenon DEF StageInv, InterInv, OutputWhole, Whole
<1>4. \A r \in Completed'["ReduceTask"] : out'[r] = Whole(r)
  BY JobParts, Zenon
<1> QED BY <1>1, <1>2, <1>3, <1>4, JobPartsNext, Zenon


\* GetTask hands out reduce tasks only after the map stage.
LEMMA JobGetTask ==
  ASSUME TypeOK, JobInv, NEW w \in Worker, NEW t \in TaskType, GetTask(w, t)
  PROVE  JobInv'
<1> DEFINE i == Head(InitQue[t])
           ws == [Fresh EXCEPT !.phase = IF t = "MapTask" THEN "map" ELSE "reduce",
                         !.type = t, !.index = i,
                         !.todo = IF t = "MapTask" THEN Part[i] ELSE {}]
<1>1. /\ worker' = [worker EXCEPT ![w] = ws] /\ Status = Stage(t)
      /\ UNCHANGED <<Status, Completed, inter, out>>
  BY Zenon DEF GetTask
<1>2. /\ ws.phase = IF t = "MapTask" THEN "map" ELSE "reduce"
      /\ ws.index = i /\ ws.todo = (IF t = "MapTask" THEN Part[i] ELSE {})
      /\ ws.next = 0 /\ ws.got = {}
  BY Zenon DEF Fresh
<1> HIDE DEF ws, i
<1>3. worker'[w] = ws /\ \A v \in Worker \ {w} : worker'[v] = worker[v]
  BY <1>1, Zenon DEF TypeOK, WorkerType
<1>4. OneWorker(w)'
  <2>1. CASE t = "MapTask"
    BY <1>2, <1>3, <2>1, Zenon DEF OneWorker
  <2>2. CASE t # "MapTask"
    <3>1. Completed'["MapTask"] = MapIndex
      BY <1>1, <2>2, JobParts, Zenon DEF Stage, StageInv
    <3>2. {m \in MapIndex : m < 0 /\ i \in Part[m]} = {}
      BY DEF MapIndex
    <3> QED BY <1>2, <1>3, <2>2, <3>1, <3>2, Zenon DEF OneWorker
  <2> QED BY <2>1, <2>2, Zenon
<1>5. \A v \in Worker \ {w} : OneWorker(v)'
  BY <1>1, <1>3, JobParts, OthersKeep, Zenon
<1>6. StageInv' /\ InterInv' /\ OutputWhole'
  BY <1>1, JobParts, Zenon DEF StageInv, InterInv, OutputWhole, Whole
<1> QED BY <1>1, <1>4, <1>5, <1>6, JobParts, JobPartsNext, Zenon

\* Report counts a task whose files are there, and moves the stage forward only.
LEMMA JobReport ==
  ASSUME TypeOK, TypeOK', TaskOnce, JobInv, NEW w \in Worker, Report(w)
  PROVE  /\ JobInv'
         /\ Status = "ReduceStage" => Status' # "MapStage"
         /\ Status = "IdleStage" => Status' = "IdleStage"
         /\ \A u \in TaskType : Completed[u] \subseteq Completed'[u]
<1> DEFINE t == worker[w].type
           i == worker[w].index
<1>1. /\ worker'[w] = Fresh /\ \A v \in Worker \ {w} : worker'[v] = worker[v]
      /\ UNCHANGED <<inter, out>> /\ Reporting(w)
  BY Zenon DEF Report, TypeOK, WorkerType
<1>2. Fresh.phase = "idle"
  BY Zenon DEF Fresh
<1>3. CASE i \notin Running[t]
  <2>1. UNCHANGED <<Status, Completed>>
    BY <1>3, Zenon DEF Report
  <2>2. JobInv'
    BY <1>1, <1>2, <2>1, QuietStep, Zenon
  <2> QED BY <2>1, <2>2, Zenon
<1>4. CASE i \in Running[t]
  <2>1. /\ Completed' = [Completed EXCEPT ![t] = @ \union {i}]
        /\ Status' = IF Cardinality(Completed'[t]) = Size(t) THEN NextStage(t) ELSE Status
    BY <1>4, Zenon DEF Report
  <2>2. t \in TaskType /\ i \in Index(t) /\ (t = "MapTask" <=> worker[w].phase = "map")
        /\ (t # "MapTask" <=> worker[w].phase = "reduced")
    BY <1>1, Zenon DEF TypeOK, WorkerType, WorkerState, Reporting
  <2>3. Completed'[t] = Completed[t] \union {i} /\ \A u \in TaskType \ {t} : Completed'[u] = Completed[u]
    BY <2>1, <2>2, Zenon DEF TypeOK, CoordType
  <2>4. \A u \in TaskType : Completed'[u] \subseteq Index(u)
    BY Zenon DEF TypeOK, CoordType
  <2>5. Status' = IF Completed'[t] = Index(t) THEN NextStage(t) ELSE Status
    BY <2>1, <2>2, <2>4, AllCompleted, Zenon
  <2>6. i \notin Completed[t] /\ Completed[t] # Index(t)
    BY <1>4, <2>2 DEF TaskOnce
  <2>7. CASE t = "MapTask"
    <3>1. Completed["MapTask"] # MapIndex /\ Status = "MapStage"
      BY <2>6, <2>7, JobParts, Zenon DEF Index, StageInv
    <3>2. Completed'["ReduceTask"] = Completed["ReduceTask"]
      BY <2>3, <2>7, Zenon DEF TaskType
    <3>3. StageInv'
      BY <2>5, <2>7, <3>1, Zenon DEF StageInv, Index, NextStage
    <3>4. \A r \in Part[i] : <<i, r>> \in inter
      <4>1. worker[w].phase = "map" /\ worker[w].todo = {}
        BY <1>1, <2>2, <2>7, Zenon DEF Reporting
      <4> QED BY <4>1, JobParts, Zenon DEF OneWorker
    <3>5. InterInv'
      BY <1>1, <2>3, <2>7, <3>4, JobParts DEF InterInv
    <3>6. Completed["MapTask"] = MapIndex => Completed'["MapTask"] = MapIndex
      BY <3>1, Zenon
    <3>7. \A v \in Worker : OneWorker(v)'
      <4>1. OneWorker(w)'
        BY <1>1, <1>2, Zenon DEF OneWorker
      <4>2. \A v \in Worker \ {w} : OneWorker(v)'
        BY <1>1, <3>6, JobParts, OthersKeep, Zenon
      <4> QED BY <4>1, <4>2, Zenon
    <3>8. OutputWhole'
      BY <1>1, JobParts, Zenon DEF OutputWhole, Whole
    <3>9. JobInv'
      BY <1>1, <3>2, <3>3, <3>5, <3>7, <3>8, JobParts, JobPartsNext, Zenon
    <3> QED BY <3>1, <3>9, <2>3, Zenon
  <2>8. CASE t # "MapTask"
    <3>1. t = "ReduceTask" /\ worker[w].phase = "reduced" /\ Completed["MapTask"] = MapIndex
      BY <2>2, <2>8, JobParts, Zenon DEF TaskType, OneWorker
    <3>2. Completed'["MapTask"] = Completed["MapTask"] /\ Status # "IdleStage"
      BY <2>3, <2>6, <3>1, JobParts, Zenon DEF TaskType, StageInv, Index
    <3>3. StageInv' /\ (Status = "ReduceStage" => Status' # "MapStage")
      BY <2>5, <3>1, <3>2, Zenon DEF StageInv, Index, NextStage
    <3>4. out[i] = Whole(i)
      BY <3>1, JobParts, Zenon DEF OneWorker
    <3>5. \A r \in Completed'["ReduceTask"] : out'[r] = Whole(r)
      BY <1>1, <2>3, <3>1, <3>4, JobParts, Zenon
    <3>6. \A v \in Worker : OneWorker(v)'
      <4>1. OneWorker(w)'
        BY <1>1, <1>2, Zenon DEF OneWorker
      <4>2. \A v \in Worker \ {w} : OneWorker(v)'
        BY <1>1, <3>1, <3>2, JobParts, OthersKeep, Zenon
      <4> QED BY <4>1, <4>2, Zenon
    <3>7. InterInv' /\ OutputWhole'
      BY <1>1, <3>2, JobParts, Zenon DEF InterInv, OutputWhole, Whole
    <3>8. JobInv'
      BY <3>3, <3>5, <3>6, <3>7, JobPartsNext, Zenon
    <3> QED BY <3>2, <3>3, <3>8, <2>3, Zenon
  <2> QED BY <2>7, <2>8, Zenon
<1> QED BY <1>3, <1>4, Zenon

\* A map worker adds one file of its own task.
LEMMA JobMapRename ==
  ASSUME RenameWorks, TypeOK, JobInv, NEW w \in Worker, NEW r \in ReduceIndex, MapWorkerRename(w, r)
  PROVE  JobInv'
<1> DEFINE i == worker[w].index
           ws == [worker[w] EXCEPT !.todo = @ \ {r}]
<1>1. /\ inter' = inter \union {<<i, r>>} /\ worker' = [worker EXCEPT ![w] = ws]
      /\ UNCHANGED <<Status, Completed, out>> /\ worker[w].phase = "map" /\ r \in worker[w].todo
  BY Zenon DEF MapWorkerRename, coordVars, TypeOK, WorkerType
<1>2. /\ worker[w] \in WorkerState /\ i \in MapIndex
  BY <1>1, Zenon DEF TypeOK, WorkerType, Index
<1>3. ws.phase = "map" /\ ws.index = i /\ ws.todo = worker[w].todo \ {r}
  BY <1>1, <1>2, Zenon DEF WorkerState
<1> HIDE DEF ws
<1>4. worker'[w] = ws /\ \A v \in Worker \ {w} : worker'[v] = worker[v]
  BY <1>1, Zenon DEF TypeOK, WorkerType
<1>5. worker[w].todo \subseteq Part[i] /\ \A q \in Part[i] \ worker[w].todo : <<i, q>> \in inter
  BY <1>1, JobParts, Zenon DEF OneWorker
<1> HIDE DEF i
<1>6. OneWorker(w)'
  BY <1>1, <1>3, <1>4, <1>5 DEF OneWorker
<1>7. \A v \in Worker \ {w} : OneWorker(v)'
  BY <1>1, <1>4, JobParts, OthersKeep, Zenon
<1>8. InterInv'
  BY <1>1, <1>5, JobParts, Zenon DEF InterInv
<1>9. StageInv' /\ OutputWhole'
  BY <1>1, JobParts, Zenon DEF StageInv, OutputWhole, Whole
<1> QED BY <1>1, <1>6, <1>7, <1>8, <1>9, JobParts, JobPartsNext, Zenon

\* A reduce worker reads the data of the next map task if that has some for it.
LEMMA JobRead ==
  ASSUME TypeOK, JobInv, NEW w \in Worker, ReduceWorkerRead(w)
  PROVE  JobInv'
<1> DEFINE m == worker[w].next
           i == worker[w].index
           ws == [worker[w] EXCEPT !.next = m + 1,
                    !.got = IF <<m, i>> \in inter THEN @ \union {m} ELSE @]
<1>1. /\ worker' = [worker EXCEPT ![w] = ws] /\ worker[w].phase = "reduce" /\ m < NMap
      /\ UNCHANGED <<Status, Completed, inter, out>>
  BY Zenon DEF ReduceWorkerRead, coordVars, TypeOK, WorkerType
<1>2. worker[w] \in WorkerState /\ m \in MapIndex /\ i \in ReduceIndex
  BY <1>1, SizeAssumption DEF TypeOK, WorkerType, WorkerState, Index, MapIndex
<1>3. /\ ws.phase = "reduce" /\ ws.index = i /\ ws.next = m + 1
      /\ ws.got = IF <<m, i>> \in inter THEN worker[w].got \union {m} ELSE worker[w].got
  BY <1>1, <1>2, Zenon DEF WorkerState
<1> HIDE DEF ws
<1>4. worker'[w] = ws /\ \A v \in Worker \ {w} : worker'[v] = worker[v]
  BY <1>1, Zenon DEF TypeOK, WorkerType
<1>5. /\ Completed["MapTask"] = MapIndex
      /\ worker[w].got = {n \in MapIndex : n < m /\ i \in Part[n]}
  BY <1>1, JobParts, Zenon DEF OneWorker
<1>6. <<m, i>> \in inter <=> i \in Part[m]
  BY <1>2, <1>5, JobParts, Zenon DEF InterInv
<1> HIDE DEF m, i
<1>7. ws.got = {n \in MapIndex : n < m + 1 /\ i \in Part[n]}
  <2>1. \A n \in MapIndex : n < m + 1 <=> n < m \/ n = m
    BY <1>2, SizeAssumption DEF MapIndex
  <2> QED BY <1>2, <1>3, <1>5, <1>6, <2>1, Zenon
<1>8. OneWorker(w)'
  BY <1>1, <1>3, <1>4, <1>5, <1>7 DEF OneWorker
<1>9. \A v \in Worker \ {w} : OneWorker(v)'
  BY <1>1, <1>4, JobParts, OthersKeep, Zenon
<1>10. StageInv' /\ InterInv' /\ OutputWhole'
  BY <1>1, JobParts, Zenon DEF StageInv, InterInv, OutputWhole, Whole
<1> QED BY <1>1, <1>8, <1>9, <1>10, JobParts, JobPartsNext, Zenon

\* What a reduce worker renames into place is the whole output file.
LEMMA JobReduceRename ==
  ASSUME RenameWorks, TypeOK, JobInv, NEW w \in Worker, ReduceWorkerRename(w)
  PROVE  /\ JobInv' /\ Completed' = Completed /\ worker[w].index \in ReduceIndex
         /\ out' = [out EXCEPT ![worker[w].index] = Whole(worker[w].index)]
<1> DEFINE i == worker[w].index
           ws == [worker[w] EXCEPT !.phase = "reduced"]
<1>1. /\ worker' = [worker EXCEPT ![w] = ws] /\ worker[w].phase = "reduce" /\ worker[w].next = NMap
      /\ out' = [out EXCEPT ![i] = worker[w].got]
      /\ UNCHANGED <<Status, Completed, inter>>
  BY Zenon DEF ReduceWorkerRename, coordVars, TypeOK, WorkerType
<1>2. worker[w] \in WorkerState /\ i \in ReduceIndex
  BY <1>1, Zenon DEF TypeOK, WorkerType, Index
<1>3. ws.phase = "reduced" /\ ws.index = i /\ ws.next = NMap /\ ws.got = worker[w].got
  BY <1>1, <1>2, Zenon DEF WorkerState
<1> HIDE DEF ws
<1>4. worker'[w] = ws /\ \A v \in Worker \ {w} : worker'[v] = worker[v]
  BY <1>1, Zenon DEF TypeOK, WorkerType
<1>5. /\ Completed["MapTask"] = MapIndex
      /\ worker[w].got = {n \in MapIndex : n < NMap /\ i \in Part[n]}
  BY <1>1, JobParts, Zenon DEF OneWorker
<1>6. worker[w].got = Whole(i)
  <2>1. \A n \in MapIndex : n < NMap
    BY SizeAssumption DEF MapIndex
  <2> QED BY <1>5, <2>1, Zenon DEF Whole
<1>7. out'[i] = Whole(i) /\ \A r \in ReduceIndex \ {i} : out'[r] = out[r]
  BY <1>1, <1>2, <1>6, Zenon DEF TypeOK, FileType
<1> HIDE DEF i
<1>8. OneWorker(w)'
  BY <1>1, <1>3, <1>4, <1>5, <1>7 DEF OneWorker, Whole
<1>9. \A v \in Worker \ {w} : OneWorker(v)'
  BY <1>1, <1>4, <1>7, JobParts, OthersKeep, Zenon
<1>10. OutputWhole'
  <2>1. OutputWhole
    BY JobParts, Zenon
  <2> QED BY <1>7, <2>1, Zenon DEF OutputWhole, Whole
<1>11. StageInv' /\ InterInv'
  BY <1>1, JobParts, Zenon DEF StageInv, InterInv
<1>12. \A r \in Completed'["ReduceTask"] : out'[r] = Whole(r)
  <2>1. Completed["ReduceTask"] \subseteq ReduceIndex
    BY Zenon DEF TypeOK, CoordType, TaskType, Index
  <2> QED BY <1>1, <1>7, <2>1, JobParts, Zenon
<1> QED BY <1>1, <1>2, <1>6, <1>8, <1>9, <1>10, <1>11, <1>12, JobPartsNext, Zenon DEF i

\* How far a step moves the job: stages and completed tasks go forward, and either
\* the output is unchanged or one file gets its whole content.
Progress ==
  /\ Status = "ReduceStage" => Status' # "MapStage"
  /\ Status = "IdleStage" => Status' = "IdleStage"
  /\ \A t \in TaskType : Completed[t] \subseteq Completed'[t]
  /\ \/ out' = out
     \/ Completed' = Completed /\ \E r \in ReduceIndex : out' = [out EXCEPT ![r] = Whole(r)]

\* Every step of the job keeps JobInv and moves the job forward.
LEMMA JobStep ==
  ASSUME RenameWorks, TypeOK, TypeOK', TaskOnce, JobInv, [Next]_vars
  PROVE  JobInv' /\ Progress
<1>0. UNCHANGED <<Status, Completed, out>> => Progress
  BY Zenon DEF Progress
<1>1. ASSUME NEW w \in Worker, NEW t \in TaskType, GetTask(w, t) PROVE JobInv' /\ Progress
  <2>1. UNCHANGED <<Status, Completed, out>>
    BY <1>1, Zenon DEF GetTask
  <2> QED BY <1>0, <1>1, <2>1, JobGetTask, Zenon
<1>2. ASSUME NEW w \in Worker, Report(w) PROVE JobInv' /\ Progress
  <2>1. out' = out
    BY <1>2, Zenon DEF Report
  <2> QED BY <1>2, <2>1, JobReport, Zenon DEF Progress
<1>3. ASSUME NEW w \in Worker, NEW r \in ReduceIndex, MapWorkerRename(w, r) PROVE JobInv' /\ Progress
  <2>1. UNCHANGED <<Status, Completed, out>>
    BY <1>3, Zenon DEF MapWorkerRename, coordVars
  <2> QED BY <1>0, <1>3, <2>1, JobMapRename, Zenon
<1>4. ASSUME NEW w \in Worker, ReduceWorkerRead(w) PROVE JobInv' /\ Progress
  <2>1. UNCHANGED <<Status, Completed, out>>
    BY <1>4, Zenon DEF ReduceWorkerRead, coordVars
  <2> QED BY <1>0, <1>4, <2>1, JobRead, Zenon
<1>5. ASSUME NEW w \in Worker, ReduceWorkerRename(w) PROVE JobInv' /\ Progress
  <2>1. UNCHANGED <<Status, Completed>>
    BY <1>5, Zenon DEF ReduceWorkerRename, coordVars
  <2> QED BY <1>5, <2>1, JobReduceRename, Zenon DEF Progress
<1>6. ASSUME NEW w \in Worker,
             \/ GetTaskExit(w) \/ Wake(w) \/ CallFails(w) \/ Crash(w)
             \/ \E t \in TaskType : GetTaskSleep(w, t)
      PROVE  JobInv' /\ Progress
  <2>1. UNCHANGED <<Status, Completed, inter, out>>
    BY <1>6, Zenon DEF GetTaskExit, Wake, CallFails, Crash, GetTaskSleep, coordVars
  <2>2. PICK p \in {"idle", "sleep", "gone"} :
          worker' = [worker EXCEPT ![w] = Fresh] \/ worker' = [worker EXCEPT ![w].phase = p]
    BY <1>6, Zenon DEF GetTaskExit, Wake, CallFails, Crash, GetTaskSleep
  <2>3. /\ worker'[w].phase \in {"idle", "sleep", "gone"}
        /\ \A v \in Worker \ {w} : worker'[v] = worker[v]
    BY <2>2 DEF TypeOK, WorkerType, WorkerState, Fresh
  <2> QED BY <1>0, <2>1, <2>3, QuietStep, Zenon
<1>7. CASE \/ \E c \in timers : CheckExcept(c)
           \/ CoordinatorExit
           \/ UNCHANGED vars
  <2>1. UNCHANGED <<Status, Completed, worker, inter, out>>
    BY <1>7, Zenon DEF CheckExcept, CoordinatorExit, vars, coordVars
  <2>2. JobInv'
    BY <2>1, Zenon DEF JobInv, StageInv, InterInv, WorkerInv, OutputWhole, Whole
  <2> QED BY <1>0, <2>1, <2>2, Zenon
<1> QED BY <1>1, <1>2, <1>3, <1>4, <1>5, <1>6, <1>7, Zenon DEF Next, WorkerStep

\* There are no files, and nothing is completed, when the job starts.
LEMMA JobInit == Init => JobInv
<1> SUFFICES ASSUME Init PROVE JobInv
  OBVIOUS
<1>1. Completed["MapTask"] = {} /\ Completed["ReduceTask"] = {} /\ inter = {} /\ Status = "MapStage"
      /\ out = [r \in ReduceIndex |-> NoFile]
  BY Zenon DEF Init, TaskType
<1>2. \A w \in Worker : worker[w].phase = "idle"
  BY Zenon DEF Init, Fresh
<1> QED BY <1>1, <1>2, Zenon DEF JobInv, StageInv, InterInv, WorkerInv, OutputWhole

\* Done() says that all tasks are completed.
LEMMA DoneCompleted ==
  ASSUME TypeOK
  PROVE  Done <=> \A t \in TaskType : Completed[t] = Index(t)
  BY AllCompleted, Zenon DEF TypeOK, CoordType, Done

LEMMA DoneCompletedNext ==
  ASSUME TypeOK'
  PROVE  Done' <=> \A t \in TaskType : Completed'[t] = Index(t)
  BY AllCompleted, Zenon DEF TypeOK, CoordType, Done

\* Where the files cannot be lost on the way (RenameWorks), the coordinator's account
\* of the job is right in every state.
LEMMA JobInvariant ==
  ASSUME RenameWorks
  PROVE  Spec => [](TypeOK /\ TaskOnce /\ TimerPerAttempt /\ JobInv)
<1> DEFINE I == TypeOK /\ TaskOnce /\ TimerPerAttempt /\ JobInv
<1>1. Init => I
  BY PlaceInit, JobInit, Zenon
<1>2. I /\ [Next]_vars => I'
  BY TypeStep, PlaceStep, JobStep, Zenon
<1> QED BY <1>1, <1>2, PTL DEF Spec

\* The inductive invariant of the job holds in every state: what a completed task has
\* written is there for the tasks after it.
THEOREM JobAccounted == RenameWorks => (Spec => []JobInv)
<1> SUFFICES ASSUME RenameWorks PROVE Spec => []JobInv
  OBVIOUS
<1> QED BY JobInvariant, PTL

\* An output file that can be seen is whole, for every number of files, workers, crashes
\* and slow attempts: workers write elsewhere and rename.
THEOREM OutputsWhole == RenameWorks => (Spec => []OutputWhole)
<1> SUFFICES ASSUME RenameWorks PROVE Spec => []OutputWhole
  OBVIOUS
<1>1. JobInv => OutputWhole
  BY Zenon DEF JobInv
<1> QED BY <1>1, JobInvariant, PTL

\* Done() returns true only when all output files are there.
THEOREM OutputCorrect == RenameWorks => (Spec => []DoneMeansOutput)
<1> SUFFICES ASSUME RenameWorks PROVE Spec => []DoneMeansOutput
  OBVIOUS
<1>1. TypeOK /\ JobInv => DoneMeansOutput
  <2> SUFFICES ASSUME TypeOK, JobInv PROVE DoneMeansOutput
    OBVIOUS
  <2>1. Done => Completed["ReduceTask"] = ReduceIndex
    BY DoneCompleted, Zenon DEF TaskType, Index
  <2> QED BY <2>1, Zenon DEF JobInv, DoneMeansOutput
<1> QED BY <1>1, JobInvariant, PTL

\* The stage never goes back and a completed task stays completed.
THEOREM StagesGoForward == RenameWorks => (Spec => StageForward)
<1> SUFFICES ASSUME RenameWorks PROVE Spec => StageForward
  OBVIOUS
<1>1. /\ TypeOK /\ TypeOK' /\ TaskOnce /\ JobInv /\ [Next]_vars
      => [/\ Status = "ReduceStage" => Status' # "MapStage"
          /\ Status = "IdleStage" => Status' = "IdleStage"
          /\ \A t \in TaskType : Completed[t] \subseteq Completed'[t]]_vars
  BY JobStep, Zenon DEF Progress
<1> QED BY <1>1, JobInvariant, PTL DEF Spec, StageForward

\* The coordinator and its workers do what MapReduceJob promises the user of the job,
\* with the output files and Done() as the refinement mapping.
THEOREM Refinement == RenameWorks => (Spec => Implements)
<1> SUFFICES ASSUME RenameWorks PROVE Spec => Implements
  OBVIOUS
<1>1. Init => Job!JobInit
  <2> SUFFICES ASSUME Init PROVE Job!JobInit
    OBVIOUS
  <2>1. TypeOK /\ Completed["MapTask"] = {} /\ out = [r \in ReduceIndex |-> NoFile]
    BY PlaceInit, Zenon DEF Init, TaskType
  <2>2. 0 \in MapIndex
    BY SizeAssumption DEF MapIndex
  <2>3. Done = FALSE
    BY <2>1, <2>2, DoneCompleted, Zenon DEF Done, TaskType, Index
  <2> QED BY <2>1, <2>3, Zenon DEF Job!JobInit
<1>2. ASSUME TypeOK, TypeOK', TaskOnce, JobInv, JobInv', [Next]_vars
      PROVE  [Job!JobNext]_<<out, Done>>
  <2>1. Progress /\ OutputWhole
    BY <1>2, JobStep, Zenon DEF JobInv
  <2>2. Done => Done'
    <3>1. \A t \in TaskType : Completed[t] \subseteq Completed'[t] /\ Completed'[t] \subseteq Index(t)
      BY <1>2, <2>1, Zenon DEF Progress, TypeOK, CoordType
    <3> QED BY <1>2, <3>1, DoneCompleted, DoneCompletedNext, Zenon
  <2>3. Done \in BOOLEAN /\ Done' \in BOOLEAN
    BY Zenon DEF Done
  <2>4. Done' => \A r \in ReduceIndex : out'[r] = Whole(r)
    <3>1. Done' => Completed'["ReduceTask"] = ReduceIndex
      BY <1>2, DoneCompletedNext, Zenon DEF TaskType, Index
    <3> QED BY <1>2, <3>1, JobPartsNext, Zenon
  <2>5. CASE out' = out
    BY <2>2, <2>3, <2>4, <2>5, Zenon DEF Job!JobNext, Job!Finish
  <2>6. CASE out' # out
    <3>1. PICK r \in ReduceIndex : out' = [out EXCEPT ![r] = Whole(r)] /\ Completed' = Completed
      BY <2>1, <2>6, Zenon DEF Progress
    <3>2. Done' = Done
      BY <3>1, Zenon DEF Done
    <3>3. out[r] # Whole(r)
      BY <1>2, <2>6, <3>1, Zenon DEF TypeOK, FileType
    <3>4. out[r] = NoFile
      BY <2>1, <3>3, Zenon DEF OutputWhole
    <3>5. ~ Done
      BY <2>4, <3>1, <3>2, <3>3, <1>2, DoneCompleted, Zenon DEF JobInv, TaskType, Index
    <3> QED BY <3>1, <3>2, <3>4, <3>5, Zenon DEF Job!JobNext, Job!Publish
  <2> QED BY <2>5, <2>6, Zenon
<1> QED BY <1>1, <1>2, JobInvariant, PTL DEF Spec, Implements, Job!JobSpec

=============================================================================
