# Verification of the 6.824 labs in TLA+

The repository holds one person's solution of two of the MIT 6.824 labs, with the
course's own support code around them:

| part | code | state of the code |
|---|---|---|
| Raft with persistence and snapshots (lab 2) | `src/src/raft/raft.go` | written |
| MapReduce (lab 1) | `src/src/mr/*`, `src/src/main/mr*.go`, `src/src/mrapps/*` | written |
| simulated network, encoding, persister | `src/src/labrpc`, `src/src/labgob`, `src/src/raft/persister.go` | from the course |
| test harness that crashes and restarts servers | `src/src/raft/config.go` | from the course |
| linearizability checker | `src/src/porcupine`, `src/src/models` | from the course |
| key/value server, shard controller, sharded server (labs 3, 4) | `src/src/kvraft`, `src/src/shardctrler`, `src/src/shardkv` | server handlers are empty; two clerks have their loops |

Raft servers call each other through `labrpc`, save through the `Persister` that the
harness hands to the next instance after a crash, and give committed commands and
snapshots to the service on `applyCh`; the service (in this repository the harness's
`applierSnap`) calls `Snapshot` and `CondInstallSnapshot` back.  Every argument and
reply of an RPC is coded by `labgob`.  MapReduce is independent of Raft: workers ask one
coordinator for tasks by RPC and exchange data through files.  The clerks of labs 3 and
4 call servers through `labrpc`; the tests of these labs hand the recorded history of
operations to porcupine.

## Modules

| module | models |
|---|---|
| `Raft` | `raft.go` with `crash1`, `start1` and `applierSnap` of `config.go` |
| `RaftElection` | the parts of the inductive invariant of the election |
| `MCRaft`, `MCRaftLeader` | instances for TLC: from start-up, and from an elected leader |
| `RaftLog` | the inductive invariants of the apply loops, the service and the logs |
| `RaftTypes`, `RaftProofs` | type correctness of `Raft`, proved |
| `RaftElectionProofs` | every action keeps the invariant of the election |
| `RaftRangeProofs` | every action keeps the apply loops in the logs and the service in step |
| `RaftLogProofs` | every action keeps the logs matching, in a cluster without snapshots |
| `RaftTheorems` | the theorems about `Raft` that follow |
| `RaftApply` | the lock and the apply channel of one follower, goroutine by goroutine |
| `Labrpc` | `labrpc.go`: calls, the network's goroutines, ends and servers |
| `LabrpcCrash` | `Labrpc` under the harness's disconnect, crash and restart, with its `Persister`s |
| `LabrpcCrashProofs` | replies survive crashes, old instances are isolated and silent, proved |
| `MapReduce` | `coordinator.go` and the control of `worker.go`; `MCMapReduce` its instance |
| `MapReduceJob` | what a job promises; `MapReduce` implements it |
| `MapReduceProofs` | the theorems about the task queues, the files and the refinement |
| `Shuffle` | the data of `worker.go`, against `mrsequential.go` |
| `Porcupine` | the checker, its parallel driver and the visualization's data; `MCPorcupine` the histories |
| `Labgob` | the type check, the default check and the error counter of `labgob.go` |
| `Clerk` | the clerks of `shardctrler` and `shardkv`, on top of `Labgob`; `MCClerk` its instance |

### Raft

One action is one critical section of `rf.mu`: `RequestVote`, `AppendEntries` and
`InstallSnapshot` (split by their early returns), `TickerElection` and
`TickerHeartbeat` for the two halves of `ticker`, `Start`, `Kill`, `Snapshot`,
`CondInstallSnapshot`.  The send goroutines are records in `voteCalls`, `appendCalls`
and `snapCalls` with a phase: `sent` (the request may be executed), `orphan` (its
sender is gone, the request is still under way), `replied`, and for votes `passed`,
because `sendRequestVote` gives the lock up at line 553 between its two parts.  A call
that was not answered is repeated with the same arguments, which is `LoseReply`
followed by a second execution.

 * Timers may fire at any moment: `getRandomTimeout` only makes some orders unlikely.
 * `persisted` is what `persist()` last saved; `crash1` hands it to `start1`, as the
   harness does.  `CrashInAppendEntries` is the crash in the middle of the apply loop
   of a follower, which comes before its `persist()`.
 * `mode` is `wedged` once `CondInstallSnapshot` has returned with the lock held: such
   a server takes no further step.
 * An index outside a slice, which panics in Go, is no step of the model; `ApplyInRange`,
   `ServiceInStep` and `SnapshotBehindApplied` say that the states in which it would
   happen are not reached.
 * Handlers that send on `applyCh` wait until the service is back from its last call.
   What happens when the service calls in during such a loop is the subject of
   `RaftApply`.
 * The constant `Ordered` says whether a server executes the requests of one sender in
   the order of their rounds.  `labrpc` promises no order.
 * `GetState` only reads; `matchIndexs` and `AppendErr_ReqRepeat` are never used by the
   code and have no counterpart.  A repeated request whose first copy is executed after
   the answer to the second is not modelled.

### RaftApply

One follower and the leader of one term.  `mu` is the holder of `rf.mu`; a handler is a
program counter with its request, and `Deliver` is the rendezvous on the unbuffered
`applyCh`, at which the handler still holds the lock.  The service is `applierSnap`:
`CondInstallSnapshot` waits for the lock (and, refusing, leaves it locked, as line 182
does), while `Snapshot` is two steps without it, the assignment of `lastIncludeIndex`
and the trimming of the log.  A caller of `Start` waits for the lock.  Of the leader only
what decides its next request is kept.  A panic or `log.Fatalf` ends the program
(`Ended`).

### MapReduce

`GetTask`, `Report`, `CheckExcept`, `Done` are the coordinator's critical sections.
A worker is a record with its task and phase; `MapWorkerRename` renames one
intermediate file at a time, so that crashes and other workers come between.  `inter`
and `out` are the files with the names `mr-m-r` and `mr-out-r`; an output file is
modelled by the set of map tasks whose pairs went into it.  `Part` says for which
reduce tasks a map task has pairs: the code creates no file for the others and reads a
missing file as empty.  `RenameWorks` is FALSE when the temporary directory is on
another file system, where `os.Rename` returns an error that the code drops.

`MapReduceJob` is the promise to the user of a job: outputs appear once, whole, and
`done` only after all of them.  `Implements` is `MapReduce` under the mapping of its
files to the job's output and of `Done()` to `done`.

### Shuffle

`kva`, `interFile`, `intermediate`, `i` are the variables of `MapWorker` and
`ReduceWorker`; keys are numbers, the hash is any function, and `sort.Sort`, which is
not stable, may leave equal keys in any order.  `Sequential` is what
`mrsequential.go` passes to the reduce function.

### Labrpc and LabrpcCrash

A call is a record whose `phase` is the place of `Call` and its `processReq` goroutine:
`sent` (before `readEndnameInfo`), `lost` (no server is reachable, the failure is still
to be delivered), `admitted` (read, not yet dispatched), `waiting` (in the loop that waits for
the handler or polls `isServerDead`), `replied`, `answering` (after the last
`isServerDead`), `returned`.  `handler` is the place of the goroutine that runs
`dispatch`: `none`, `running`, `finished`; a handler may go on after its call has
returned.  `servers` maps a name to the number of the instance registered under it, 0
for none, so that comparing numbers is comparing the `*Server` pointers.  Random drops
are choices; delays are stutters, except that a delayed reply may return after the flags
have changed.

`LabrpcCrash` adds the harness: `disconnect`, `connect`, `crash1` and `start1` run step
by step beside the call, and an instance that was crashed is not stopped: it keeps its
ends and its `Persister` object, may send calls, execute handlers and save.

### Porcupine

`checkParallel` starts a goroutine per partition; `search[p]` is the local state of
`checkSingle`, and one turn of its loop is one step.  The doubly linked list of entries
is kept as the pointers `next` and `prev`, so `lift` and `unlift` are what they are in
the code; a bitset is a sequence of words of `WordBits` bits, and the cache a set of
(bitset, state) pairs.  `kill`, the results channel and the timeout are separate steps.
When the answer is Illegal, the data that `computeVisualizationData` replays is
`drawn`.  `Linearizable` and `LinearPrefixes` are the definitions the verdict and the
drawing are compared with; they are written from the meaning of linearizability and
share no operator with the search except the key/value model.

### Clerk and Labgob

`Labgob` describes a Go type by its kind and its parts.  `checkType` is a stack of types
still to visit: a turn looks a type up in the shared table and marks it (under the lock)
or counts a lower-case field (under the lock again), so that walks of two goroutines
interleave between the two.  `checkDefault1` counts non-default scalars down to the depth
at which the code stops.  `encoding/gob` itself is external: `Decoded` omits fields with
the zero value, as gob does, so decoding into a variable merges.

A client operation of `Clerk` is a loop over the servers that may answer: `CallServer`
checks the types and encodes, `Send`, `Receive` or `CallFails` is the call, `Decode` fills the
turn's fresh `reply`, then `Return`, `WrongGroup`, `NextServer`, `EndOfServers` are the
branches of the loop, `Sleep` and `NewConfig` the way back.  The empty handlers mean that
a server may answer anything of its type: `ServerReplies` is external.

## Runs

| run | checks | size |
|---|---|---|
| `raft_elections` | `TypeOK`, `ElectionSafety`, `ElectionInv` | 3 servers from start-up, 2 elections, a crash, a lost reply, any order |
| `raft_commit` | `LogMatching`, `Durable`, `StateMachineSafety`, `AppliedOnMajority`, `LogInv` | a leader with one entry under way, 1 more command, 1 more election, a crash, requests of one sender in order |
| `raft_snapshots` | `SnapshotBehindApplied`, `ServiceInStep`, `ApplyInRange`, `RangeInv` | a leader with two entries, a snapshot every second entry, a crash, a lost reply, any order |
| `mr_tasks` | `TypeOK`, `TaskOnce`, `TimerPerAttempt`, `OutputWhole`, `DoneMeansOutput`, `JobInv`, `StageForward`, `Implements`, `JobEnds` | 2 workers, 2 map and 2 reduce tasks, a crash, 2 attempts slower than the timeout |
| `mr_shuffle` | `MatchesSequential` | 2 files of at most 2 pairs, 3 keys, all hashes |
| `labrpc_crash` | `TypeOK`, `PositiveReplySaved`, `OldInstanceIsolated`, `OldInstanceSilent`, `PersisterInv`, `SilentInv`, `CallReturns` | 2 servers, up to 3 instances each, 1 call, 2 crashes or starts |
| `porcupine` | `TypeOK`, `VerdictRight`, `ListIntact`, `DrawnRight`, `InfoComplete`, `Answers` | all timings of six sets of 3 or 4 operations, 2 keys, words of 2 bits |
| `clerk` | `TypeOK`, `ReplyIsAnswer`, `ComplainOnce`, `RefusedGroupLeft`, `OpReturns` | 2 operations, 2 controllers, groups of 1 and 2 servers, 3 unhelpful answers; or 2 goroutines that encode the types of `TestCapital` |
| `raft_stale_append` | `StateMachineSafety` (violated) | a leader with two entries under way, 1 more election, any order |
| `raft_restored_log` | `RestoredLogAgrees` (violated) | a snapshot every second entry, no further election |
| `raft_start_returns` | `StartReturns` (violated) | one follower, 3 entries, 2 handlers, 4 requests |
| `raft_snapshot_race` | `AppliedFromLog` (violated) | the same |

What the passing runs show beyond the tests of the repository:

 * **Raft.**  With any loss, delay and crash, a term has one leader, although a server
   may vote twice in a term (below).  If requests of one sender arrive in order, logs
   that agree on a term agree up to there, an acknowledgement never promises what is not
   on disk, and what is applied is on the disks of a majority.  Trimming never passes
   what was applied, and no apply loop leaves the log, in whatever order the requests
   arrive.
 * **MapReduce.**  A task is never lost or queued twice by a timer that races a late
   report, a late attempt never harms a finished file, and the job ends if one worker
   lives.
 * **labrpc and harness.**  An old instance that goes on running neither writes into the
   new one's `Persister` nor reaches a server; a positive reply survives the crash.
 * **Porcupine.**  The verdict is that of the definition, although the cache cuts most of
   the search off; backtracking restores the list; the timeout never turns into a wrong
   answer; what is drawn is the longest linearizable prefix.
 * **Clerks.**  The reply that is looked at is the one sent, although gob omits zero
   fields; labgob complains once per field under any interleaving.

### Bounds

Three servers are the smallest group with a majority that can lose one.  A second
election lets another leader rewrite what the first one left, which is where Raft's
safety is decided.  `MaxElections` counts the first leader's election too, so 2 leaves one
more to runs that start from an elected leader (`MCRaftLeader`); their start state is the
one reached when the leader has been elected by all and has sent its first requests.
Snapshots and a second election together are left out: what a restarted server makes of
a trimmed log is already wrong (`raft_restored_log`), and everything after it follows.
Server symmetry is used in the Raft runs, none of which checks liveness under it; the
other runs use none.

In `labrpc_crash` one call is enough: the code keeps no state that one call could change
for another, the harness's steps and a handler that outlives its call are what
interferes, and these are all there.  All its invariants are also proved for any
number of calls, servers and crashes.  In `porcupine` words of two bits make histories of
three operations cross the boundary of a word.  In `clerk` a behaviour has either the
client's operations or the testers' encodings, since the two share only the table of
types, which the testers already contend for; three unhelpful answers lead through a
stale configuration, a refusing group and a server that is not the leader.  In
`RaftApply` three entries with a snapshot at every second give one snapshot in the middle
and one at the end.

### Disagreements with the code's own documents

Four runs end in a counterexample; each states what a comment, a test or a lab text says.

 * `raft_stale_append` (`StateMachineSafety`): requests of one leader executed out of
   order.  `AppendEntries` cuts the log at `PrevLogIndex` whatever follows, so the older
   request removes entries the leader already counts as stored.  This is why
   `raft_commit` assumes order.
 * `raft_restored_log` (`RestoredLogAgrees`): the base index of a trimmed log is not
   persisted.
 * `raft_start_returns` (`StartReturns`): `InstallSnapshot` sends on `applyCh` with
   `rf.mu` held while the service waits for `rf.mu` in `CondInstallSnapshot`; nobody goes
   on.  The same holds for the apply loop of `AppendEntries`, and `CondInstallSnapshot`
   returns false without unlocking.
 * `raft_snapshot_race` (`AppliedFromLog`): `Snapshot()` takes no lock; the apply loop
   computes an index from the new `lastIncludeIndex` and the old log.

Three weaknesses have no run of their own.  `InstallSnapshot` sets `lastIncludeIndex`
(`raft.go:474`) before the service, in `CondInstallSnapshot`, sets `snapshotCmd`
(`raft.go:185`).  A server that is elected in between sends its old snapshot under the new
index (`raft.go:872`), and a server that was restarted from a trimmed log takes it;
`ingestSnap` of `config.go` then finds that the snapshot does not end where it is said to.
It takes two elections, a crash and a snapshot under way, beyond the bounds of
`raft_snapshots`.  `ServiceInStep` therefore says nothing of a server whose service has not yet
taken the snapshot.  A late refusal of a vote demotes the leader
elected in the same term (`SendRequestVoteRefused`): this costs an election and no
safety.  A failed `os.Rename` is reported as success: the runs and theorems about files
are for `RenameWorks = TRUE`, that is for a temporary directory on the file system of the
working directory; with FALSE the model declares a job done that has no output.

## Fairness

`Raft` is checked for safety only: its timers are free.  The other specifications assume:

 * `MapReduce`: weak fairness of each worker's steps while it lives (the operating system
   runs every process), of each timer (`time.Sleep` returns) and of the coordinator's exit
   loop.  Nothing is assumed of crashes and slow attempts.
 * `LabrpcCrash`: weak fairness of the network's goroutine of each call, and none of
   handlers or of the harness.  `CallReturns` therefore says: a call returns, unless its
   handler runs for ever on a server that is never deleted.
 * `Porcupine`: weak fairness of `checkParallel`, of the searches, and of the timeout.
 * `Clerk`: weak fairness of the client's goroutine, calls included, which is what
   `CallReturns` gives it; `MaxBad` bounds the unhelpful answers, so `OpReturns` is about
   servers that answer in the end.
 * `RaftApply`: strong fairness of each handler, of the service and of the caller of
   `Start`, since a goroutine that waits for a `sync.Mutex` is not starved.  The
   counterexample stops in a state where none of them can move.

## Proofs

For every value of the constants:

| theorem | module | states |
|---|---|---|
| `TypeCorrect` | `RaftProofs` | `TypeOK` and `SnapshotBehindApplied` always hold |
| `WellTyped` | `RaftTheorems` | `TypeOK` |
| `OneLeaderPerTerm`, `ElectionInvariant` | `RaftTheorems` | `ElectionSafety`, from `ElectionInv` |
| `NoApplyOutOfRange`, `RangeInvariant` | `RaftTheorems` | `ApplyInRange`, from `RangeInv` |
| `CommandsInOrder` | `RaftTheorems` | `ServiceInStep` |
| `LogInvariant`, `LogsAgree`, `NothingUnsaved` | `RaftTheorems` | `LogInv`, hence `LogMatching` and `Durable`, when `SnapShotInterval = 0` |
| `PersistersOwned`, `ReplySurvives`, `OldInstancesIsolated` | `LabrpcCrashProofs` | `PersisterInv`, hence `PositiveReplySaved` and `OldInstanceIsolated` |
| `OldEndsOff`, `OldInstancesSilent`, `NetworkTyped` | `LabrpcCrashProofs` | `SilentInv`, hence `OldInstanceSilent`; `TypeOK` |
| `JobTyped`, `TaskPlacement`, `TimersWatch` | `MapReduceProofs` | `TypeOK`, `TaskOnce`, `TimerPerAttempt` |
| `JobAccounted`, `OutputsWhole`, `OutputCorrect` | `MapReduceProofs` | `JobInv`, hence `OutputWhole` and `DoneMeansOutput` |
| `StagesGoForward` | `MapReduceProofs` | `StageForward` |
| `Refinement` | `MapReduceProofs` | `Implements` |

Assumptions: the set of servers is finite and `None` is not in it; there is at least one
map and one reduce task; bounds are naturals; in `LabrpcCrash` servers are numbered from 1,
as in `config.go`, and each may be started at least once.  The last five theorems about
MapReduce also assume `RenameWorks`.  The three about logs assume `SnapShotInterval = 0`, a
service that takes no snapshots, as in the tests of labs 2A to 2C.  They need it: with
snapshots a server that trimmed its log is restarted with its entries at other indexes
(`raft_restored_log`), and `InstallSnapshot` does not persist.

`TypeCorrect` needs `SnapshotBehindApplied` in the induction, because a snapshot is sent
with a term looked up in the log, and the lookup is typed only inside the log.

`ElectionSafety` is not inductive, and the usual reason for it does not hold here:
`AppendEntries` and `InstallSnapshot` overwrite `voteFor` with the sender, and
`InstallSnapshot` does not persist it, so a server may vote twice in a term.  `ElectionInv`
adds: a granted vote is in the persisted state of its voter, or the voter has moved to a
later term, or the term has a leader that the voter followed; counted votes were granted;
whoever sends as leader was elected; the quorum of an elected leader stays closed.  Two
majorities share a voter, who could vote again only in a term that has its leader already.
`RaftElectionProofs` first states which changes of votes, terms and calls keep
`ElectionInv`, and then shows that every action is such a change.

`ApplyInRange` looks at a request and at the log it meets, which come from two servers at
two times.  `RangeInv` links them: a request carries its sender's log up to `LogIndex`, and
its `LeaderCommit` is not behind that (`RequestFits`); in the term of the request the
sender's log has not become shorter (`SenderAhead`), because only another leader's
request could make it so, and `ElectionSafety` rules that out; and no server has applied behind the
end of its log, except that a log restored without its trimmed entries may be short while
nothing is applied (`AppliedBound`).  `CommandsInOrder` adds to it that a `Snapshot` call under
way is about the last applied entry (`ServiceInv`).

`LogMatching` speaks of two logs; what makes it true is in the messages.  `LogInv` states it
of all `Parts`: the logs and the entries that requests carry, each with the index and term
before its first entry.  Parts with one term at an index agree there and before
(`PartsMatch`); every term in a part had a leader (`TermsLed`); a leader holds every entry of
its term that exists, and does not fall behind a term it led (`LeaderHolds`).  `Start` adds an entry of
the leader's term at an index where, by `LeaderHolds`, no part has one; `AppendEntries` joins
a log and a request that agree at `PrevLogIndex`; a new leader's term occurs in no part, by
`TermsLed` and `ElectionSafety`; and a restart brings back the log as it was, since all is saved
(`Saved`, which is `Durable` also for servers that are down).  None of this asks for an order of
requests: `raft_stale_append` breaks commitment, never the matching of logs.

`PositiveReplySaved` depends on an order of steps in two files: `crash1` deletes the
server before it copies the `Persister`, and `processReq` looks for the server after the
handler has returned.  `PersisterInv` says what holds in between: instances are numbered
as they start and only the last may be registered (`InstanceInv`); a saved `Persister` is
that of the registered instance, and of no older one (`DiskInv`); while `start1` is
between `Make` and `AddServer`, the new `Persister` holds only what `Make` read; and a call is
in no `Persister` before its handler runs, in its instance's when the handler is
finished, and in the saved one from the moment the answer can no longer be withheld
(`CallOk`).  The proof has a lemma for each kind of step: one that changes one call
(`OneCall`), one that only moves the test (`QuietKeeps`), and those that make, delete or
register instances and copy or write `Persister`s.

`OldInstanceSilent` depends on what the harness is about to do.  `SilentInv` says of the
`Enable`s still to be made that they name ends in use, and that they disable when a restart is
to follow (`TodoInv`); that an end of the instance to be replaced is disabled or still to be
(`EndsOff`), so that all are when `start1` draws new names; and that the calls of replaced
instances went through old ends and no further than `lost` (`LateCall`).

`DoneMeansOutput` is not inductive either: that the coordinator counts a task as completed
says something about files only through the worker that reported it.  `JobInv` adds
`StageInv` (a stage is left when its tasks are completed), `InterInv` (a completed map
task's files exist) and `WorkerInv` (what a worker has renamed or read so far is there,
and reduce workers run only after the map stage).  The refinement follows step by step:
only the first rename of a reduce output and the report that completes the last reduce
task map to steps of `MapReduceJob`.

Only model-checked:

 * `StateMachineSafety` and `AppliedOnMajority`.  They hold under `Ordered`, without snapshots
   and without repeated requests; the argument needs the log with which each leader was
   elected, which the state does not keep.
 * `Clerk` and `Labgob`, whose recursive operators the prover cannot work with; `Shuffle` and
   `Porcupine`, whose properties compare a loop with a recursive definition, by induction over
   data.
 * `RaftApply`, whose runs end in counterexamples.
 * All liveness: `JobEnds`, `CallReturns`, `Answers`, `OpReturns`.

## Not modelled

 * `kvraft`, and the servers of `shardctrler` and `shardkv`: their handlers are empty, so
   there is nothing to translate.  Whether a repeated `PutAppend` is applied twice is
   decided there.
 * `checkEvents`, `renumber` and `convertEntries` of porcupine: nothing calls them.  The
   hash that picks a bucket of the cache only affects speed; the page around the drawn
   data is HTML.
 * `Register` and `RegisterName` of labgob, which only wrap `checkValue` and gob.  gob
   itself is external.  `checkDefault1` looks three levels deep, as in the code, so it does not
   see a non-default value below.
 * The command lines under `main/` beyond the exit loop of `mrcoordinator.go` and the
   reference of `mrsequential.go`; several belong to packages that are not here.
 * What the MapReduce applications compute: `Map` and `Reduce` are arbitrary.
 * Real time: that a leader is eventually elected and stays depends on random timeouts,
   and with free timers endless split votes are behaviours.
 * Test scripts and their statistics: they exercise the parts above and have no state of
   their own that a property could be about.

What remains of the repository is in this list or is one of the files the modules name;
a further module could only restate tests or empty handlers.
