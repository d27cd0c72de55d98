----------------------------- MODULE MapReduce -----------------------------
(***************************************************************************)
(* The MapReduce job of mr/: the coordinator (mr/coordinator.go), which    *)
(* main/mrcoordinator.go polls with Done() and ends, the worker processes  *)
(* (mr/worker.go) and the files they share.                                *)
(*                                                                         *)
(* Map and reduce tasks take the same way through the coordinator: InitQue *)
(* ["MapTask"] is InitMapQue, InitQue["ReduceTask"] is InitReduceQue, and  *)
(* so for Running and Completed.  A handler of the coordinator is one      *)
(* critical section of c.Mu and is one step with the Call of the worker    *)
(* that waits for it.  A worker renames its files, and reads them, one by  *)
(* one, and may crash at any point in between.                             *)
(***************************************************************************)
EXTENDS Integers, FiniteSets, Sequences

CONSTANTS
  Worker,       \* the worker processes
  NMap,         \* number of input files
  NReduce,      \* MakeCoordinator's nReduce
  Part,         \* Part[m]: the reduce tasks that map task m has keys for
  NoFile,       \* the content of an output file that does not exist
  RenameWorks,  \* os.Rename moves a temporary file into the working directory
  MaxCrash,     \* bound on the workers that crash
  MaxSlow       \* bound on the attempts that take longer than ten seconds

MapIndex == 0..(NMap - 1)
ReduceIndex == 0..(NReduce - 1)

ASSUME SizeAssumption == NMap \in Nat \ {0} /\ NReduce \in Nat \ {0}
ASSUME PartAssumption == Part \in [MapIndex -> SUBSET ReduceIndex]
ASSUME NoFileAssumption == \A S \in SUBSET MapIndex : NoFile # S
ASSUME MapReduceBounds == RenameWorks \in BOOLEAN /\ MaxCrash \in Nat /\ MaxSlow \in Nat

VARIABLES
  Status,     \* the stage the coordinator is in
  InitQue, Running, Completed,
  timers,     \* the goroutines CheckExcept that are asleep
  up,         \* the coordinator process has not ended
  worker,     \* what each worker is doing
  inter,      \* the intermediate files mr-m-r that exist, as pairs <<m, r>>
  out,        \* mr-out-r: the map tasks whose data it holds, or NoFile
  crashes, slow

coordVars == <<Status, InitQue, Running, Completed, timers>>
vars == <<coordVars, up, worker, inter, out, crashes, slow>>

TaskType == {"MapTask", "ReduceTask"}
Index(t) == IF t = "MapTask" THEN MapIndex ELSE ReduceIndex
Size(t) == IF t = "MapTask" THEN NMap ELSE NReduce

\* The stage in which tasks of a type are handed out, and the one after it.
Stage(t) == IF t = "MapTask" THEN "MapStage" ELSE "ReduceStage"
NextStage(t) == IF t = "MapTask" THEN "ReduceStage" ELSE "IdleStage"

\* A worker asks for a task ("idle"), sleeps, works on a task, has renamed the
\* output of its reduce task ("reduced"), or its process has ended ("gone").
\*   todo  the partitions of the map task not yet renamed
\*   next  the intermediate file that the reduce task reads next
\*   got   the map tasks whose data the reduce task has read
Working == {"map", "reduce", "reduced"}
WorkerState == [phase : {"idle", "sleep", "gone"} \union Working, type : TaskType, index : Nat,
                todo : SUBSET ReduceIndex, next : 0..NMap, got : SUBSET MapIndex]
Fresh == [phase |-> "idle", type |-> "MapTask", index |-> 0, todo |-> {}, next |-> 0, got |-> {}]

Timer == [type : TaskType, index : Nat, worker : Worker]

-----------------------------------------------------------------------------
(***************************************************************************)
(* The coordinator's handlers, called by the workers.                      *)
(***************************************************************************)
\* Mutant of GetTask: a reduce task gets no timer.
GetTaskNoTimer(w, t) ==
  LET i == Head(InitQue[t])
  IN  /\ up /\ worker[w].phase = "idle"
      /\ Status = Stage(t) /\ InitQue[t] # <<>>
      /\ InitQue' = [InitQue EXCEPT ![t] = Tail(@)]
      /\ Running' = [Running EXCEPT ![t] = @ \union {i}]
      /\ timers' = IF t = "MapTask" THEN timers \union {[type |-> t, index |-> i, worker |-> w]}
                   ELSE timers
      /\ worker' = [worker EXCEPT ![w] =
           [Fresh EXCEPT !.phase = IF t = "MapTask" THEN "map" ELSE "reduce",
                         !.type = t, !.index = i,
                         !.todo = IF t = "MapTask" THEN Part[i] ELSE {}]]
      /\ UNCHANGED <<Status, Completed, up, inter, out, crashes, slow>>

\* The queue of the stage has a task: it is popped, marked as running, sent to the
\* worker and put under a timer.
GetTask(w, t) ==
  LET i == Head(InitQue[t])
  IN  /\ up /\ worker[w].phase = "idle"
      /\ Status = Stage(t) /\ InitQue[t] # <<>>
      /\ InitQue' = [InitQue EXCEPT ![t] = Tail(@)]
      /\ Running' = [Running EXCEPT ![t] = @ \union {i}]
      /\ timers' = timers \union {[type |-> t, index |-> i, worker |-> w]}
      /\ worker' = [worker EXCEPT ![w] =
           [Fresh EXCEPT !.phase = IF t = "MapTask" THEN "map" ELSE "reduce",
                         !.type = t, !.index = i,
                         !.todo = IF t = "MapTask" THEN Part[i] ELSE {}]]
      /\ UNCHANGED <<Status, Completed, up, inter, out, crashes, slow>>

\* All tasks of the stage are handed out: the worker sleeps five seconds.
GetTaskSleep(w, t) ==
  /\ up /\ worker[w].phase = "idle"
  /\ Status = Stage(t) /\ InitQue[t] = <<>>
  /\ worker' = [worker EXCEPT ![w].phase = "sleep"]
  /\ UNCHANGED <<coordVars, up, inter, out, crashes, slow>>

\* The job is done: ExitTask, and the loop of the worker ends.
GetTaskExit(w) ==
  /\ up /\ worker[w].phase = "idle" /\ Status = "IdleStage"
  /\ worker' = [worker EXCEPT ![w].phase = "gone"]
  /\ UNCHANGED <<coordVars, up, inter, out, crashes, slow>>

\* Mutant of Reporting: a reduce task is reported before its file is renamed.
ReportingEarly(w) == \/ worker[w].phase = "map" /\ worker[w].todo = {}
                     \/ worker[w].phase \in {"reduce", "reduced"}

\* A worker whose work is in place, and only the Report is left.
Reporting(w) == \/ worker[w].phase = "map" /\ worker[w].todo = {}
                \/ worker[w].phase = "reduced"

\* Mutant of Report: a report completes its task whether it is running or not.
ReportAny(w) ==
  LET t == worker[w].type
      i == worker[w].index
  IN  /\ up /\ Reporting(w)
      /\ Running' = [Running EXCEPT ![t] = @ \ {i}]
      /\ Completed' = [Completed EXCEPT ![t] = @ \union {i}]
      /\ Status' = IF Cardinality(Completed'[t]) = Size(t) THEN NextStage(t) ELSE Status
      /\ worker' = [worker EXCEPT ![w] = Fresh]
      /\ UNCHANGED <<InitQue, timers, up, inter, out, crashes, slow>>

\* The handler counts the task unless it is not running any more (again); the
\* worker goes back to its loop in both cases.
Report(w) ==
  LET t == worker[w].type
      i == worker[w].index
  IN  /\ up /\ Reporting(w)
      /\ IF i \in Running[t]
         THEN /\ Running' = [Running EXCEPT ![t] = @ \ {i}]
              /\ Completed' = [Completed EXCEPT ![t] = @ \union {i}]
              /\ Status' = IF Cardinality(Completed'[t]) = Size(t) THEN NextStage(t) ELSE Status
         ELSE UNCHANGED <<Running, Completed, Status>>
      /\ worker' = [worker EXCEPT ![w] = Fresh]
      /\ UNCHANGED <<InitQue, timers, up, inter, out, crashes, slow>>

\* The worker of a timer is still busy with the attempt.
OnIt(c) == /\ worker[c.worker].phase \in Working
           /\ worker[c.worker].type = c.type /\ worker[c.worker].index = c.index

\* Mutant of CheckExcept: the timed out task is dropped.
CheckExceptDrop(c) ==
  /\ up /\ c \in timers
  /\ OnIt(c) => slow < MaxSlow
  /\ slow' = IF OnIt(c) THEN slow + 1 ELSE slow
  /\ timers' = timers \ {c}
  /\ Running' = [Running EXCEPT ![c.type] = @ \ {c.index}]
  /\ UNCHANGED <<Status, InitQue, Completed, up, worker, inter, out, crashes>>

\* CheckExcept wakes up after ten seconds: a task that is still running is queued
\* again.  A worker that is alive is that slow at most MaxSlow times.
CheckExcept(c) ==
  /\ up /\ c \in timers
  /\ OnIt(c) => slow < MaxSlow
  /\ slow' = IF OnIt(c) THEN slow + 1 ELSE slow
  /\ timers' = timers \ {c}
  /\ IF c.index \in Running[c.type]
     THEN /\ Running' = [Running EXCEPT ![c.type] = @ \ {c.index}]
          /\ InitQue' = [InitQue EXCEPT ![c.type] = Append(@, c.index)]
     ELSE UNCHANGED <<Running, InitQue>>
  /\ UNCHANGED <<Status, Completed, up, worker, inter, out, crashes>>

\* What main/mrcoordinator.go polls.
Done == \A t \in TaskType : Cardinality(Completed[t]) = Size(t)

\* main returns, and with it the process and its goroutines end.
CoordinatorExit ==
  /\ up /\ Done
  /\ up' = FALSE
  /\ UNCHANGED <<coordVars, worker, inter, out, crashes, slow>>

-----------------------------------------------------------------------------
(***************************************************************************)
(* The workers.                                                            *)
(***************************************************************************)
Wake(w) ==
  /\ worker[w].phase = "sleep"
  /\ worker' = [worker EXCEPT ![w] = Fresh]
  /\ UNCHANGED <<coordVars, up, inter, out, crashes, slow>>

\* A Call finds no coordinator: log.Fatal, or a zero Task without an input file,
\* which ends in log.Fatalf as well.
CallFails(w) ==
  /\ ~ up
  /\ worker[w].phase = "idle" \/ Reporting(w)
  /\ worker' = [worker EXCEPT ![w].phase = "gone"]
  /\ UNCHANGED <<coordVars, up, inter, out, crashes, slow>>

\* Mutant of MapWorkerRename: one rename ends the loop.
MapWorkerRenameOne(w, r) ==
  /\ worker[w].phase = "map" /\ r \in worker[w].todo
  /\ inter' = IF RenameWorks THEN inter \union {<<worker[w].index, r>>} ELSE inter
  /\ worker' = [worker EXCEPT ![w].todo = {}]
  /\ UNCHANGED <<coordVars, up, out, crashes, slow>>

\* Renames the file of partition r; the error of os.Rename is ignored.
MapWorkerRename(w, r) ==
  /\ worker[w].phase = "map" /\ r \in worker[w].todo
  /\ inter' = IF RenameWorks THEN inter \union {<<worker[w].index, r>>} ELSE inter
  /\ worker' = [worker EXCEPT ![w].todo = @ \ {r}]
  /\ UNCHANGED <<coordVars, up, out, crashes, slow>>

\* Reads the next intermediate file; one that does not exist is read as empty.
ReduceWorkerRead(w) ==
  LET m == worker[w].next
  IN  /\ worker[w].phase = "reduce" /\ m < NMap
      /\ worker' = [worker EXCEPT ![w].next = m + 1,
                      ![w].got = IF <<m, worker[w].index>> \in inter THEN @ \union {m} ELSE @]
      /\ UNCHANGED <<coordVars, up, inter, out, crashes, slow>>

\* Mutant of ReduceWorkerRename: the file is complete one input too early.
ReduceWorkerRenameEarly(w) ==
  /\ worker[w].phase = "reduce" /\ worker[w].next = NMap - 1
  /\ out' = IF RenameWorks THEN [out EXCEPT ![worker[w].index] = worker[w].got] ELSE out
  /\ worker' = [worker EXCEPT ![w].phase = "reduced"]
  /\ UNCHANGED <<coordVars, up, inter, crashes, slow>>

\* Writes what it has read into a temporary file and renames that.
ReduceWorkerRename(w) ==
  /\ worker[w].phase = "reduce" /\ worker[w].next = NMap
  /\ out' = IF RenameWorks THEN [out EXCEPT ![worker[w].index] = worker[w].got] ELSE out
  /\ worker' = [worker EXCEPT ![w].phase = "reduced"]
  /\ UNCHANGED <<coordVars, up, inter, crashes, slow>>

\* The process of a worker ends at any point (mrapps/crash.go calls os.Exit).
Crash(w) ==
  /\ crashes < MaxCrash /\ worker[w].phase # "gone"
  /\ crashes' = crashes + 1
  /\ worker' = [worker EXCEPT ![w].phase = "gone"]
  /\ UNCHANGED <<coordVars, up, inter, out, slow>>

-----------------------------------------------------------------------------
\* Mutant of MakeCoordinator: the tasks are numbered from one.
MakeCoordinatorOne == [t \in TaskType |-> [k \in 1..Size(t) |-> k]]

\* The queues as MakeCoordinator fills them: all indexes in order.
MakeCoordinator == [t \in TaskType |-> [k \in 1..Size(t) |-> k - 1]]

Init ==
  /\ Status = "MapStage"
  /\ InitQue = MakeCoordinator
  /\ Running = [t \in TaskType |-> {}]
  /\ Completed = [t \in TaskType |-> {}]
  /\ timers = {} /\ up = TRUE
  /\ worker = [w \in Worker |-> Fresh]
  /\ inter = {} /\ out = [r \in ReduceIndex |-> NoFile]
  /\ crashes = 0 /\ slow = 0

\* What a worker does when it is scheduled; it does not crash by itself.
WorkerStep(w) ==
  \/ \E t \in TaskType : GetTask(w, t) \/ GetTaskSleep(w, t)
  \/ GetTaskExit(w) \/ Report(w) \/ Wake(w) \/ CallFails(w)
  \/ \E r \in ReduceIndex : MapWorkerRename(w, r)
  \/ ReduceWorkerRead(w) \/ ReduceWorkerRename(w)

Next ==
  \/ \E w \in Worker : WorkerStep(w) \/ Crash(w)
  \/ \E c \in timers : CheckExcept(c)
  \/ CoordinatorExit

Spec == Init /\ [][Next]_vars

\* Processes that run are scheduled, timers go off, and main polls Done().
Fairness ==
  /\ \A w \in Worker : WF_vars(WorkerStep(w))
  /\ \A t \in TaskType, i \in MapIndex \union ReduceIndex, w \in Worker :
       WF_vars(CheckExcept([type |-> t, index |-> i, worker |-> w]))
  /\ WF_vars(CoordinatorExit)

FairSpec == Spec /\ Fairness

-----------------------------------------------------------------------------
(***************************************************************************)
(* Properties.                                                             *)
(***************************************************************************)
CoordType ==
  /\ Status \in {"MapStage", "ReduceStage", "IdleStage"}
  /\ InitQue \in [TaskType -> Seq(Nat)]
  /\ \A t \in TaskType : \A k \in 1..Len(InitQue[t]) : InitQue[t][k] \in Index(t)
  /\ Running \in [TaskType -> SUBSET Nat] /\ Completed \in [TaskType -> SUBSET Nat]
  /\ \A t \in TaskType : Running[t] \subseteq Index(t) /\ Completed[t] \subseteq Index(t)
  /\ timers \subseteq Timer /\ \A c \in timers : c.index \in Index(c.type)
  /\ up \in BOOLEAN /\ crashes \in Nat /\ slow \in Nat
WorkerType ==
  /\ worker \in [Worker -> WorkerState]
  /\ \A w \in Worker :
       /\ worker[w].index \in Index(worker[w].type)
       /\ worker[w].phase = "map" => worker[w].type = "MapTask"
       /\ worker[w].phase \in {"reduce", "reduced"} => worker[w].type = "ReduceTask"
FileType ==
  /\ inter \subseteq MapIndex \X ReduceIndex
  /\ out \in [ReduceIndex -> {NoFile} \union SUBSET MapIndex]

\* The type of the state.
TypeOK == CoordType /\ WorkerType /\ FileType

Queued(t) == {InitQue[t][k] : k \in 1..Len(InitQue[t])}

\* Every task is in exactly one place, once: in the queue, running or completed.
\* Late and repeated reports and timers that fire after a report lose no task and
\* double none.
TaskOnce ==
  \A t \in TaskType :
    /\ \A j, k \in 1..Len(InitQue[t]) : InitQue[t][j] = InitQue[t][k] => j = k
    /\ Queued(t) \cap Running[t] = {} /\ Queued(t) \cap Completed[t] = {}
    /\ Running[t] \cap Completed[t] = {}
    /\ Queued(t) \union Running[t] \union Completed[t] = Index(t)

\* A running task has a timer, a queued one has none, and none has two: the timer
\* of an old attempt never takes a newer attempt away, and no running task is
\* forgotten when its worker dies.
TimerPerAttempt ==
  /\ \A t \in TaskType : \A i \in Running[t] : \E c \in timers : c.type = t /\ c.index = i
  /\ \A c \in timers : c.index \notin Queued(c.type)
  /\ \A c, d \in timers : c.type = d.type /\ c.index = d.index => c = d

\* What mr-out-r has to hold: the data of every map task that has some for r.
Whole(r) == {m \in MapIndex : r \in Part[m]}

\* An output file that can be seen is whole, whichever attempts crashed, were given
\* up or finished late: a reduce task never reads before the map files are there.
OutputWhole == \A r \in ReduceIndex : out[r] \in {NoFile, Whole(r)}

\* When Done() returns true, all output files are in place.
DoneMeansOutput == Done => \A r \in ReduceIndex : out[r] = Whole(r)

\* The stage never goes back, and what is completed stays completed.
StageForward ==
  [][/\ Status = "ReduceStage" => Status' # "MapStage"
     /\ Status = "IdleStage" => Status' = "IdleStage"
     /\ \A t \in TaskType : Completed[t] \subseteq Completed'[t]]_vars

(***************************************************************************)
(* Why the output is right: the parts of an inductive invariant.           *)
(***************************************************************************)
\* A stage is left when all its tasks are completed.
StageInv ==
  /\ Status # "MapStage" => Completed["MapTask"] = MapIndex
  /\ Status = "IdleStage" => Completed["ReduceTask"] = ReduceIndex

\* The files of a completed map task exist, and no file exists without data.
InterInv ==
  /\ \A m \in Completed["MapTask"] : \A r \in Part[m] : <<m, r>> \in inter
  /\ \A m \in MapIndex, r \in ReduceIndex : <<m, r>> \in inter => r \in Part[m]

\* A map worker has renamed what is not in todo; a reduce worker has the data of all
\* files before next, and works only after the map stage.
WorkerInv ==
  \A w \in Worker :
    /\ worker[w].phase = "map" =>
         /\ worker[w].todo \subseteq Part[worker[w].index]
         /\ \A r \in Part[worker[w].index] \ worker[w].todo : <<worker[w].index, r>> \in inter
    /\ worker[w].phase \in {"reduce", "reduced"} =>
         /\ Completed["MapTask"] = MapIndex
         /\ worker[w].got = {m \in MapIndex : m < worker[w].next /\ worker[w].index \in Part[m]}
    /\ worker[w].phase = "reduced" => out[worker[w].index] = Whole(worker[w].index)

\* The files of the job are what the coordinator believes they are: no interleaving of
\* attempts, crashes and late reports makes it count a task whose data is missing.
JobInv ==
  /\ StageInv /\ InterInv /\ WorkerInv /\ OutputWhole
  /\ \A r \in Completed["ReduceTask"] : out[r] = Whole(r)

\* The job ends and every worker with it, if at least one worker does not crash.
JobEnds == <>(~ up /\ \A w \in Worker : worker[w].phase = "gone")

\* The job implements MapReduceJob: its files are the output, Done() is done.
Job == INSTANCE MapReduceJob WITH output <- out, done <- Done, Result <- Whole

\* Every behaviour of the coordinator and the workers is one the user of the job
\* is promised.
Implements == Job!JobSpec

=============================================================================
