----------------------------- MODULE RaftApply -----------------------------
(***************************************************************************)
(* The lock rf.mu and the unbuffered channel applyCh of one follower, at   *)
(* the grain of goroutines.  Raft.tla takes a handler as one step; here a  *)
(* handler may stop between taking the lock and releasing it, because it   *)
(* sends on applyCh in between, and the service's goroutine (applierSnap   *)
(* of config.go) calls back into the same server: CondInstallSnapshot,     *)
(* which takes the lock, and Snapshot, which does not.                     *)
(*                                                                         *)
(* There is one leader and one term, so the comparisons of terms never     *)
(* fail.  The leader has the entries 1..N; the command of entry i is i.    *)
(* The leader is kept to what decides the requests it sends: its commit    *)
(* index, its snapshot, and nextIndex of this follower.                    *)
(***************************************************************************)
EXTENDS Integers, Sequences, TLC

CONSTANTS
    N,                 \* the length of the leader's log
    SnapShotInterval,  \* of config.go
    Handler,           \* the goroutines that handle requests
    None,
    MaxCalls           \* bound on the leader's requests

VARIABLES
    mu,                \* the goroutine that holds rf.mu, None, or "leaked"
    logs,              \* the commands of rf.logs
    lastIncludeIndex,
    lastApplied,
    handler,           \* per handler: where it is, its request, its message
    service,           \* applierSnap: where it is, its message, and pos of Snapshot
    applied,           \* the commands the service was given, by index
    client,            \* a caller of Start: "idle" or "lock"
    leading, leaderCommit, leaderInclude, nextIndex, calls

raftVars == <<logs, lastIncludeIndex, lastApplied>>
leaderVars == <<leading, leaderCommit, leaderInclude, nextIndex, calls>>
vars == <<mu, raftVars, handler, service, applied, client, leaderVars>>

IdleHandler == [pc |-> "idle", args |-> None, msg |-> None]
Receiving == [pc |-> "receive", msg |-> None, pos |-> 0]

\* len(rf.logs) + rf.lastIncludeIndex
LastIndex == Len(logs) + lastIncludeIndex

\* The service snapshots after it applied index i.
Snapshots(i) == (i + 1) % SnapShotInterval = 0

Init ==
    /\ mu = None /\ logs = <<>> /\ lastIncludeIndex = 0 /\ lastApplied = 0
    /\ handler = [g \in Handler |-> IdleHandler]
    /\ service = Receiving /\ applied = <<>> /\ client = "idle"
    /\ leading = TRUE /\ leaderCommit = 0 /\ leaderInclude = 0 /\ nextIndex = N + 1 /\ calls = 0

-----------------------------------------------------------------------------
(***************************************************************************)
(* The leader: another follower's acknowledgements let it apply its next   *)
(* entry, after which its service may snapshot; a heartbeat sends the      *)
(* follower its snapshot, or the entries from nextIndex on.                *)
(***************************************************************************)
LeaderApplies ==
    /\ leading /\ leaderCommit < N
    /\ leaderCommit' = leaderCommit + 1
    /\ leaderInclude' = IF Snapshots(leaderCommit') THEN leaderCommit' ELSE leaderInclude
    /\ UNCHANGED <<mu, raftVars, handler, service, applied, client, leading, nextIndex, calls>>

Heartbeat(g) ==
    /\ leading /\ handler[g].pc = "idle" /\ calls < MaxCalls
    /\ calls' = calls + 1
    /\ handler' = [handler EXCEPT ![g] =
           [pc |-> "lock", msg |-> None,
            args |-> IF nextIndex <= leaderInclude
                     THEN [type |-> "install", LastIncludeIndex |-> leaderInclude]
                     ELSE [type |-> "append", PrevLogIndex |-> nextIndex - 1,
                           Logs |-> [k \in 1..(N + 1 - nextIndex) |-> nextIndex - 1 + k],
                           LeaderCommit |-> leaderCommit]]]
    /\ UNCHANGED <<mu, raftVars, service, applied, client, leading, leaderCommit,
                   leaderInclude, nextIndex>>

\* Handler g returns, and the leader learns next from its reply.  At a reply
\* "out of date" it steps down.
Reply(g, next) ==
    /\ handler' = [handler EXCEPT ![g] = IdleHandler]
    /\ nextIndex' = next
    /\ UNCHANGED <<leading, leaderCommit, leaderInclude, calls>>

StepDown(g) ==
    /\ handler' = [handler EXCEPT ![g] = IdleHandler]
    /\ leading' = FALSE
    /\ UNCHANGED <<leaderCommit, leaderInclude, nextIndex, calls>>

-----------------------------------------------------------------------------
(***************************************************************************)
(* AppendEntries.                                                          *)
(***************************************************************************)
Locks(g, type) == handler[g].pc = "lock" /\ handler[g].args.type = type /\ mu = None

Mismatch(args) ==
    args.PrevLogIndex # lastIncludeIndex /\ args.PrevLogIndex >= LastIndex + 1

\* The request is refused, as out of date, as not matching, or as applied before.
AppendEntriesRefuse(g) ==
    LET args == handler[g].args IN
    /\ Locks(g, "append")
    /\ \/ args.PrevLogIndex < lastIncludeIndex /\ StepDown(g)
       \/ /\ args.PrevLogIndex >= lastIncludeIndex
          /\ Mismatch(args) \/ lastApplied > args.PrevLogIndex
          /\ Reply(g, lastApplied + 1)
    /\ UNCHANGED <<mu, raftVars, service, applied, client>>

\* The entries are taken over; the loop that applies them keeps the lock.
AppendEntries(g) ==
    LET args == handler[g].args IN
    /\ Locks(g, "append")
    /\ args.PrevLogIndex >= lastIncludeIndex /\ ~Mismatch(args)
    /\ lastApplied <= args.PrevLogIndex
    /\ mu' = g
    /\ logs' = IF args.Logs = <<>> THEN logs
               ELSE SubSeq(logs, 1, args.PrevLogIndex - lastIncludeIndex) \o args.Logs
    /\ handler' = [handler EXCEPT ![g].pc = "apply"]
    /\ UNCHANGED <<lastIncludeIndex, lastApplied, service, applied, client, leaderVars>>

\* One turn of the loop: the index into rf.logs is computed from a
\* lastIncludeIndex and a log that Snapshot may be changing.  An index out of
\* range is a panic, which ends the program.
Apply(g) ==
    LET pos == lastApplied + 1 - lastIncludeIndex IN
    /\ handler[g].pc = "apply" /\ lastApplied < handler[g].args.LeaderCommit
    /\ lastApplied' = lastApplied + 1
    /\ handler' = [handler EXCEPT
           ![g].pc = IF pos \in DOMAIN logs THEN "send" ELSE "panic",
           ![g].msg = IF pos \in DOMAIN logs
                      THEN [type |-> "command", index |-> lastApplied + 1, cmd |-> logs[pos]]
                      ELSE None]
    /\ UNCHANGED <<mu, logs, lastIncludeIndex, service, applied, client, leaderVars>>

\* The loop is done.
AppendEntriesReturn(g) ==
    LET args == handler[g].args IN
    /\ handler[g].pc = "apply" /\ lastApplied >= args.LeaderCommit
    /\ mu' = None
    /\ Reply(g, N + 1)
    /\ UNCHANGED <<raftVars, service, applied, client>>

(***************************************************************************)
(* InstallSnapshot.                                                        *)
(***************************************************************************)
InstallSnapshotOld(g) ==
    /\ Locks(g, "install")
    /\ handler[g].args.LastIncludeIndex <= lastIncludeIndex
    /\ Reply(g, N + 1)
    /\ UNCHANGED <<mu, raftVars, service, applied, client>>

InstallSnapshot(g) ==
    LET index == handler[g].args.LastIncludeIndex IN
    /\ Locks(g, "install") /\ index > lastIncludeIndex
    /\ mu' = g
    /\ logs' = IF LastIndex <= index THEN <<>>
               ELSE SubSeq(logs, index - lastIncludeIndex + 1, Len(logs))
    /\ lastIncludeIndex' = index
    /\ handler' = [handler EXCEPT ![g].pc = "send",
                                  ![g].msg = [type |-> "snapshot", index |-> index]]
    /\ UNCHANGED <<lastApplied, service, applied, client, leaderVars>>

InstallSnapshotReturn(g) ==
    LET index == handler[g].args.LastIncludeIndex IN
    /\ handler[g].pc = "sent"
    /\ lastApplied' = index
    /\ mu' = None
    /\ Reply(g, index + 1)
    /\ UNCHANGED <<logs, lastIncludeIndex, service, applied, client>>

\* rf.applyChan <- msg: the channel has no buffer, so both sides go on together.
Deliver(g) ==
    /\ handler[g].pc = "send" /\ service.pc = "receive"
    /\ service' = [service EXCEPT !.pc = "got", !.msg = handler[g].msg]
    /\ handler' = [handler EXCEPT
           ![g].pc = IF handler[g].msg.type = "command" THEN "apply" ELSE "sent"]
    /\ UNCHANGED <<mu, raftVars, applied, client, leaderVars>>

-----------------------------------------------------------------------------
(***************************************************************************)
(* The service: applierSnap.                                               *)
(***************************************************************************)
\* A command is checked and kept; every SnapShotInterval-th makes the service
\* call Snapshot.  A command out of order ends the program.
ServiceCommand ==
    LET m == service.msg IN
    /\ service.pc = "got" /\ m.type = "command"
    /\ IF m.index # Len(applied) + 1
       THEN service' = [service EXCEPT !.pc = "fatal"] /\ UNCHANGED applied
       ELSE /\ applied' = Append(applied, m.cmd)
            /\ service' = IF Snapshots(m.index) THEN [service EXCEPT !.pc = "snapshot"]
                          ELSE Receiving
    /\ UNCHANGED <<mu, raftVars, handler, client, leaderVars>>

\* Snapshot(index, snapshot), statement by statement: it does not take rf.mu.
SnapshotInclude ==
    /\ service.pc = "snapshot"
    /\ service' = [service EXCEPT !.pc = "trim",
                                  !.pos = service.msg.index - lastIncludeIndex - 1]
    /\ lastIncludeIndex' = service.msg.index
    /\ UNCHANGED <<mu, logs, lastApplied, handler, applied, client, leaderVars>>

SnapshotTrim ==
    /\ service.pc = "trim"
    /\ IF service.pos + 1 \in DOMAIN logs
       THEN /\ logs' = SubSeq(logs, service.pos + 2, Len(logs))
            /\ service' = Receiving
       ELSE service' = [service EXCEPT !.pc = "fatal"] /\ UNCHANGED logs
    /\ UNCHANGED <<mu, lastIncludeIndex, lastApplied, handler, applied, client, leaderVars>>

\* CondInstallSnapshot returns true and the service takes the snapshot over.
CondInstallSnapshot ==
    LET index == service.msg.index IN
    /\ service.pc = "got" /\ service.msg.type = "snapshot" /\ mu = None
    /\ LastIndex <= index
    /\ logs' = <<>> /\ lastIncludeIndex' = index /\ lastApplied' = index
    /\ applied' = [i \in 1..index |-> i]
    /\ service' = Receiving
    /\ UNCHANGED <<mu, handler, client, leaderVars>>

\* It returns false, with rf.mu locked.
CondInstallSnapshotRefuse ==
    /\ service.pc = "got" /\ service.msg.type = "snapshot" /\ mu = None
    /\ LastIndex > service.msg.index
    /\ mu' = "leaked"
    /\ service' = Receiving
    /\ UNCHANGED <<raftVars, handler, applied, client, leaderVars>>

\* A caller of Start waits for rf.mu, and returns because this server is not
\* the leader.
Start ==
    /\ client = "idle"
    /\ client' = "lock"
    /\ UNCHANGED <<mu, raftVars, handler, service, applied, leaderVars>>

StartReturn ==
    /\ client = "lock" /\ mu = None
    /\ client' = "idle"
    /\ UNCHANGED <<mu, raftVars, handler, service, applied, leaderVars>>

-----------------------------------------------------------------------------
\* A panic or log.Fatalf ends the program.
Ended == service.pc = "fatal" \/ \E g \in Handler : handler[g].pc = "panic"

HandlerStep(g) ==
    \/ AppendEntriesRefuse(g) \/ AppendEntries(g) \/ Apply(g) \/ AppendEntriesReturn(g)
    \/ InstallSnapshotOld(g) \/ InstallSnapshot(g) \/ InstallSnapshotReturn(g) \/ Deliver(g)

ServiceStep ==
    \/ ServiceCommand \/ SnapshotInclude \/ SnapshotTrim
    \/ CondInstallSnapshot \/ CondInstallSnapshotRefuse

Next ==
    /\ ~Ended
    /\ \/ LeaderApplies \/ Start \/ StartReturn \/ ServiceStep
       \/ \E g \in Handler : Heartbeat(g) \/ HandlerStep(g)

\* Every goroutine runs, and sync.Mutex starves nobody.
Fairness ==
    /\ SF_vars(StartReturn /\ ~Ended)
    /\ SF_vars(ServiceStep /\ ~Ended)
    /\ \A g \in Handler : SF_vars(HandlerStep(g) /\ ~Ended)

Spec == Init /\ [][Next]_vars /\ Fairness

-----------------------------------------------------------------------------
\* Every command the service is given at index i is the leader's i-th command:
\* the tester stops with "some server has already committed a different value
\* for this entry!" (raft/config.go:146) when it is not.
AppliedFromLog == \A i \in DOMAIN applied : applied[i] = i

\* Start, which only takes rf.mu and looks at the status of the server, returns
\* ("start the agreement and return immediately", raft/raft.go:742-743): rf.mu is
\* released again, whatever the handlers and the service do with it.
StartReturns == client = "lock" ~> (client = "idle" \/ Ended)

=============================================================================
