-------------------------------- MODULE Raft --------------------------------
(***************************************************************************)
(* The Raft cluster of raft/raft.go, run the way raft/config.go runs it.   *)
(*                                                                         *)
(* One action is one critical section of rf.mu: an RPC handler, the tail   *)
(* of a send goroutine after its Call returned, a firing of the ticker,    *)
(* Start, or a call of the service (Snapshot, CondInstallSnapshot).  The   *)
(* tester crashes and restarts servers (crash1, start1).  Timers fire at   *)
(* any time.  A send goroutine is a record in voteCalls, appendCalls or    *)
(* snapCalls: its arguments never change, and after a failed Call it sends *)
(* them again, until the call succeeds or its own server is killed.        *)
(*                                                                         *)
(* Log entry i is slice position i - lastIncludeIndex - 1 in the code and  *)
(* sequence position i - lastIncludeIndex here; entry 0 is a dummy.        *)
(***************************************************************************)
EXTENDS Integers, FiniteSets, Sequences

CONSTANTS
  Server,            \* the peers
  None,              \* voteFor = -1
  SnapShotInterval,  \* config.go's constant; 0 for a cluster without snapshots
  Ordered,           \* TRUE: one leader's AppendEntries reach a peer in the order sent
  MaxElections,      \* bound on the elections of all servers
  MaxStart,          \* bound on the commands given to Start
  MaxRounds,         \* bound on the heartbeat rounds of all leaders
  MaxCrash,          \* bound on the crashes
  MaxLoss            \* bound on the lost replies

ASSUME ServerAssumption == IsFiniteSet(Server) /\ None \notin Server
ASSUME IntervalAssumption == SnapShotInterval \in Nat
ASSUME OrderedAssumption == Ordered \in BOOLEAN
ASSUME BoundsAssumption ==
  /\ MaxElections \in Nat /\ MaxStart \in Nat /\ MaxRounds \in Nat
  /\ MaxCrash \in Nat /\ MaxLoss \in Nat

VARIABLES
  \* The fields of the struct Raft, per server.
  currentTerm, voteFor, myStatus, logs, nextIndexs, commitIndex, lastApplied,
  lastIncludeIndex, lastIncludeTerm, snapshotCmd,
  mode,         \* "running", "wedged" (rf.mu is never unlocked again) or "down"
  persisted,    \* what persist() saved last
  \* The send goroutines and the counters they share.
  voteCalls, appendCalls, snapCalls,
  voteNum,      \* the peers counted in voteNum of the server's last election
  appendNum,    \* the peers counted in appendNum of a heartbeat round
  \* The service on each server (applier, applierSnap of config.go).
  applier,      \* the call of the service that is pending
  svcLog,       \* the commands the service has applied
  \* History: votes granted, leaders elected, commands applied.
  granted, elected, applied,
  \* Counters for the bounds; rounds also numbers the heartbeat rounds.
  elections, starts, rounds, crashes, losses

electVars  == <<currentTerm, voteFor, myStatus>>
snapVars   == <<lastIncludeIndex, lastIncludeTerm, snapshotCmd>>
applyVars  == <<commitIndex, lastApplied, applier, svcLog, applied>>
voteVars   == <<voteCalls, voteNum, granted, elected>>
appendVars == <<appendCalls, appendNum>>
boundVars  == <<elections, starts, rounds, crashes, losses>>
vars == <<electVars, logs, nextIndexs, snapVars, applyVars, mode, persisted,
          voteVars, appendVars, snapCalls, boundVars>>

Status == {"Follower", "Candidate", "Leader"}
LogEntry == [Term : Nat, Cmd : Nat]
Majority(S) == Cardinality(S) > Cardinality(Server) \div 2

LastIndex(s) == Len(logs[s]) + lastIncludeIndex[s]
LastTerm(s) == IF logs[s] # <<>> THEN logs[s][Len(logs[s])].Term
                                 ELSE lastIncludeTerm[s]
\* The term of log entry i, lastIncludeIndex[s] <= i <= LastIndex(s).
TermAt(s, i) == IF i = lastIncludeIndex[s] THEN lastIncludeTerm[s]
                ELSE logs[s][i - lastIncludeIndex[s]].Term

-----------------------------------------------------------------------------
(***************************************************************************)
(* RPC records.  A send goroutine is in phase                              *)
(*   "sent"     its request may be handled (again, if the reply was lost); *)
(*   "orphan"   its server was killed while the request was under way;     *)
(*   "replied"  the reply is there, the goroutine has not looked at it;    *)
(*   "passed"   sendRequestVote only: found its term current, then gave up *)
(*              rf.mu, and has not taken it again.                         *)
(***************************************************************************)
Phase == {"sent", "orphan", "replied", "passed"}

VoteReply == [Term : Nat, VoteGranted : BOOLEAN,
              VoteErr : {"Nil", "VoteReqOutofDate", "CandidateLogTooOld", "VotedThisTerm"}]
NoVoteReply == [Term |-> 0, VoteGranted |-> FALSE, VoteErr |-> "Nil"]
VoteCall == [from : Server, to : Server, Term : Nat, LastLogIndex : Int,
             LastLogTerm : Nat, phase : Phase, reply : VoteReply]

AppendReply == [Term : Nat, NotMatchIndex : Int,
                AppendErr : {"Nil", "LogsNotMatch", "ReqOutofDate", "Commited"}]
NoAppendReply == [Term |-> 0, NotMatchIndex |-> 0, AppendErr |-> "Nil"]
AppendCall == [from : Server, to : Server, round : 1..MaxRounds, Term : Nat,
               PrevLogIndex : Int, PrevLogTerm : Nat, Logs : Seq(LogEntry),
               LeaderCommit : Int, LogIndex : Int, phase : Phase, reply : AppendReply]

SnapReply == [Term : Nat, Err : {"Nil", "ReqOutofDate", "OldIndex"}]
NoSnapReply == [Term |-> 0, Err |-> "Nil"]
SnapCall == [from : Server, to : Server, round : 1..MaxRounds, Term : Nat,
             LastIncludeIndex : Int, LastIncludeTerm : Nat, Data : Seq(Nat),
             phase : Phase, reply : SnapReply]

\* The handler has run: the goroutine gets the reply, unless it is gone.
Answer(calls, c, r) ==
  (calls \ {c}) \union
    (IF c.phase = "orphan" THEN {} ELSE {[c EXCEPT !.phase = "replied", !.reply = r]})

\* The goroutines of a killed server: requests under way remain, nobody
\* retries them or looks at a reply.
Orphaned(calls, s) ==
  {IF c.from = s THEN [c EXCEPT !.phase = "orphan"] ELSE c :
     c \in {d \in calls : d.from = s => d.phase \in {"sent", "orphan"}}}

\* A request that the network may hand to its server now.
Deliverable(c) == c.phase \in {"sent", "orphan"} /\ mode[c.to] = "running"

InOrder(c) ==
  Ordered => \A d \in appendCalls :
    (d.from = c.from /\ d.to = c.to /\ d.phase \in {"sent", "orphan"}) => c.round <= d.round

\* A reply that its goroutine may process now.
Arrived(c) == c.phase = "replied" /\ mode[c.from] = "running"

-----------------------------------------------------------------------------
\* Mutant of persist: the vote is not saved.
persistNoVote(s) ==
  persisted' = [persisted EXCEPT ![s] = [currentTerm |-> currentTerm'[s],
                                         voteFor |-> None, logs |-> logs'[s]]]

\* Mutant of persist: the log is not saved.
persistNoLogs(s) ==
  persisted' = [persisted EXCEPT ![s] = [currentTerm |-> currentTerm'[s],
                                         voteFor |-> voteFor'[s], logs |-> persisted[s].logs]]

\* persist() at the end of a step: saves the values the step has assigned.
persist(s) ==
  persisted' = [persisted EXCEPT ![s] = [currentTerm |-> currentTerm'[s],
                                         voteFor |-> voteFor'[s], logs |-> logs'[s]]]

\* Mutant of StepDown: the vote is reset to the zero value, which is a peer's number.
StepDownZero(s, term) ==
  /\ myStatus' = [myStatus EXCEPT ![s] = "Follower"]
  /\ IF term > currentTerm[s]
     THEN /\ currentTerm' = [currentTerm EXCEPT ![s] = term]
          /\ voteFor' = [voteFor EXCEPT ![s] = 0]
          /\ persisted' = [persisted EXCEPT ![s] = [currentTerm |-> term,
                                                    voteFor |-> 0, logs |-> logs[s]]]
     ELSE UNCHANGED <<currentTerm, voteFor, persisted>>

\* A sender steps down, and adopts the term of the reply if that is newer.
StepDown(s, term) ==
  /\ myStatus' = [myStatus EXCEPT ![s] = "Follower"]
  /\ IF term > currentTerm[s]
     THEN /\ currentTerm' = [currentTerm EXCEPT ![s] = term]
          /\ voteFor' = [voteFor EXCEPT ![s] = None]
          /\ persisted' = [persisted EXCEPT ![s] = [currentTerm |-> term,
                                                    voteFor |-> None, logs |-> logs[s]]]
     ELSE UNCHANGED <<currentTerm, voteFor, persisted>>

\* What a handler does with the term and the leader of a valid request.
Adopt(s, term, leader) ==
  /\ currentTerm' = [currentTerm EXCEPT ![s] = term]
  /\ voteFor' = [voteFor EXCEPT ![s] = leader]
  /\ myStatus' = [myStatus EXCEPT ![s] = "Follower"]

Idle == [op |-> "idle", index |-> 0, term |-> 0, data |-> <<>>]
SnapshotDue(i) == SnapShotInterval > 0 /\ (i + 1) % SnapShotInterval = 0

(***************************************************************************)
(* The apply loop: with lg as the log, send the entries after lastApplied  *)
(* up to target on applyChan, where the service takes them one by one.     *)
(* When a snapshot is due the service calls Snapshot before it takes the   *)
(* next entry: for an entry that is not the last one the call ends inside  *)
(* the loop, for the last one it is left pending.  An index out of range,  *)
(* or a command the service finds out of order, ends the process: there is *)
(* no step.                                                                *)
(***************************************************************************)
Apply(s, lg, target) ==
  LET base  == lastIncludeIndex[s]
      first == lastApplied[s] + 1
      last  == IF target > lastApplied[s] THEN target ELSE lastApplied[s]
      log   == svcLog[s] \o [k \in 1..(last - lastApplied[s]) |-> lg[lastApplied[s] + k - base].Cmd]
      \* the last snapshot taken inside the loop, if there is one
      taken == {i \in first..(last - 1) :
                  SnapshotDue(i) /\ \A j \in (i + 1)..(last - 1) : ~ SnapshotDue(j)}
      cut   == IF taken = {} THEN base ELSE CHOOSE i \in taken : TRUE
  IN  /\ target > lastApplied[s] => /\ applier[s].op = "idle"
                                    /\ last <= Len(lg) + base
                                    /\ Len(svcLog[s]) = lastApplied[s]
      /\ lastApplied' = [lastApplied EXCEPT ![s] = last]
      /\ commitIndex' = [commitIndex EXCEPT ![s] = IF target > lastApplied[s] THEN last ELSE @]
      /\ svcLog' = [svcLog EXCEPT ![s] = log]
      /\ applied' = applied \union {<<i, lg[i - base].Cmd>> : i \in first..last}
      /\ applier' = [applier EXCEPT ![s] =
                       IF target > lastApplied[s] /\ SnapshotDue(last)
                       THEN [Idle EXCEPT !.op = "snapshot", !.index = last] ELSE @]
      /\ lastIncludeIndex' = [lastIncludeIndex EXCEPT ![s] = cut]
      /\ lastIncludeTerm' = [lastIncludeTerm EXCEPT ![s] =
                               IF taken = {} THEN @ ELSE lg[cut - base].Term]
      /\ snapshotCmd' = [snapshotCmd EXCEPT ![s] =
                           IF taken = {} THEN @ ELSE SubSeq(log, 1, cut)]
      /\ logs' = [logs EXCEPT ![s] = SubSeq(lg, cut - base + 1, Len(lg))]

-----------------------------------------------------------------------------
(***************************************************************************)
(* ticker: an election, or a round of heartbeats.                          *)
(***************************************************************************)
TickerElection(s) ==
  /\ mode[s] = "running" /\ myStatus[s] # "Leader"
  /\ elections < MaxElections
  /\ elections' = elections + 1
  /\ currentTerm' = [currentTerm EXCEPT ![s] = @ + 1]
  /\ voteFor' = [voteFor EXCEPT ![s] = s]
  /\ myStatus' = [myStatus EXCEPT ![s] = "Candidate"]
  /\ voteNum' = [voteNum EXCEPT ![s] = {s}]
  /\ granted' = granted \union {[term |-> currentTerm[s] + 1, voter |-> s, cand |-> s]}
  /\ UNCHANGED logs /\ persist(s)
  /\ voteCalls' = voteCalls \union
       {[from |-> s, to |-> p, Term |-> currentTerm[s] + 1, LastLogIndex |-> LastIndex(s),
         LastLogTerm |-> LastTerm(s), phase |-> "sent", reply |-> NoVoteReply] : p \in Server \ {s}}
  /\ UNCHANGED <<nextIndexs, snapVars, applyVars, mode, elected, appendVars, snapCalls,
                 starts, rounds, crashes, losses>>

\* nextIndexs[s][p] once the loop of the heartbeat has lowered it into the log.
Clamped(s, p) ==
  IF nextIndexs[s][p] > LastIndex(s) + 1 THEN LastIndex(s) + 1 ELSE nextIndexs[s][p]

\* Mutant of NewAppendCall: the entries start one position late.
NewAppendCallLate(s, p) ==
  LET next == Clamped(s, p)
  IN  [from |-> s, to |-> p, round |-> rounds + 1, Term |-> currentTerm[s],
       PrevLogIndex |-> next - 1, PrevLogTerm |-> TermAt(s, next - 1),
       Logs |-> SubSeq(logs[s], next - lastIncludeIndex[s] + 1, Len(logs[s])),
       LeaderCommit |-> commitIndex[s], LogIndex |-> LastIndex(s),
       phase |-> "sent", reply |-> NoAppendReply]

NewAppendCall(s, p) ==
  LET next == Clamped(s, p)
  IN  [from |-> s, to |-> p, round |-> rounds + 1, Term |-> currentTerm[s],
       PrevLogIndex |-> next - 1, PrevLogTerm |-> TermAt(s, next - 1),
       Logs |-> SubSeq(logs[s], next - lastIncludeIndex[s], Len(logs[s])),
       LeaderCommit |-> commitIndex[s], LogIndex |-> LastIndex(s),
       phase |-> "sent", reply |-> NoAppendReply]

NewSnapCall(s, p) ==
  [from |-> s, to |-> p, round |-> rounds + 1, Term |-> currentTerm[s],
   LastIncludeIndex |-> lastIncludeIndex[s], LastIncludeTerm |-> lastIncludeTerm[s],
   Data |-> snapshotCmd[s], phase |-> "sent", reply |-> NoSnapReply]

TickerHeartbeat(s) ==
  LET behind == {p \in Server \ {s} : nextIndexs[s][p] <= lastIncludeIndex[s]}
      others == (Server \ {s}) \ behind
  IN  /\ mode[s] = "running" /\ myStatus[s] = "Leader"
      /\ rounds < MaxRounds
      /\ rounds' = rounds + 1
      /\ appendNum' = [appendNum EXCEPT ![rounds + 1] = {s}]
      /\ snapCalls' = snapCalls \union {NewSnapCall(s, p) : p \in behind}
      /\ appendCalls' = appendCalls \union {NewAppendCall(s, p) : p \in others}
      /\ nextIndexs' = [nextIndexs EXCEPT ![s] =
                          [p \in Server |-> IF p \in others THEN Clamped(s, p) ELSE @[p]]]
      /\ UNCHANGED <<electVars, logs, snapVars, applyVars, mode, persisted, voteVars,
                     elections, starts, crashes, losses>>

-----------------------------------------------------------------------------
(***************************************************************************)
(* RequestVote: the handler, one action per way out of it.                 *)
(***************************************************************************)
VoteFrame == UNCHANGED <<logs, nextIndexs, snapVars, applyVars, mode, voteNum, elected,
                         appendVars, snapCalls, boundVars>>

\* A request of an older term.
RequestVoteOutofDate(c) ==
  LET s == c.to
  IN  /\ Deliverable(c) /\ c.Term < currentTerm[s]
      /\ voteCalls' = Answer(voteCalls, c, [Term |-> currentTerm[s], VoteGranted |-> FALSE,
                                            VoteErr |-> "VoteReqOutofDate"])
      /\ UNCHANGED <<electVars, persisted, granted>> /\ VoteFrame

\* Mutant of candidateLogTooOld: only the snapshots are compared.
candidateLogTooOldSnap(c) ==
  c.LastLogTerm < lastIncludeTerm[c.to] \/ c.LastLogIndex < lastIncludeIndex[c.to]

\* The election restriction: the candidate's log is older than this server's.
candidateLogTooOld(c) ==
  LET s == c.to
  IN  \/ c.LastLogTerm < lastIncludeTerm[s]
      \/ c.LastLogIndex < lastIncludeIndex[s]
      \/ /\ logs[s] # <<>>
         /\ \/ c.LastLogTerm < LastTerm(s)
            \/ c.LastLogTerm = LastTerm(s) /\ c.LastLogIndex < LastIndex(s)

RequestVoteLogTooOld(c) ==
  LET s == c.to
  IN  /\ Deliverable(c) /\ c.Term >= currentTerm[s]
      /\ candidateLogTooOld(c)
      /\ IF c.Term > currentTerm[s]
         THEN Adopt(s, c.Term, None)
         ELSE UNCHANGED electVars
      /\ UNCHANGED logs /\ persist(s)
      /\ voteCalls' = Answer(voteCalls, c, [Term |-> c.Term, VoteGranted |-> FALSE,
                                            VoteErr |-> "CandidateLogTooOld"])
      /\ UNCHANGED granted /\ VoteFrame

\* The vote of this term is given: granted again to the same candidate,
\* refused to another one.
RequestVoteVoted(c) ==
  LET s == c.to
      same == voteFor[s] = c.from
  IN  /\ Deliverable(c) /\ c.Term = currentTerm[s]
      /\ ~ candidateLogTooOld(c)
      /\ voteFor[s] # None
      /\ myStatus' = [myStatus EXCEPT ![s] = IF same THEN "Follower" ELSE @]
      /\ granted' = granted \union
           (IF same THEN {[term |-> c.Term, voter |-> s, cand |-> c.from]} ELSE {})
      /\ voteCalls' = Answer(voteCalls, c, [Term |-> c.Term, VoteGranted |-> same,
                                            VoteErr |-> "VotedThisTerm"])
      /\ UNCHANGED <<currentTerm, voteFor, persisted>> /\ VoteFrame

\* Mutant of RequestVoteGrant: the vote of the term is not looked at.
RequestVoteGrantTwice(c) ==
  LET s == c.to
  IN  /\ Deliverable(c) /\ c.Term >= currentTerm[s]
      /\ ~ candidateLogTooOld(c)
      /\ Adopt(s, c.Term, c.from)
      /\ UNCHANGED logs /\ persist(s)
      /\ granted' = granted \union {[term |-> c.Term, voter |-> s, cand |-> c.from]}
      /\ voteCalls' = Answer(voteCalls, c, [Term |-> c.Term, VoteGranted |-> TRUE, VoteErr |-> "Nil"])
      /\ VoteFrame

RequestVoteGrant(c) ==
  LET s == c.to
  IN  /\ Deliverable(c) /\ c.Term >= currentTerm[s]
      /\ ~ candidateLogTooOld(c)
      /\ c.Term > currentTerm[s] \/ voteFor[s] = None
      /\ Adopt(s, c.Term, c.from)
      /\ UNCHANGED logs /\ persist(s)
      /\ granted' = granted \union {[term |-> c.Term, voter |-> s, cand |-> c.from]}
      /\ voteCalls' = Answer(voteCalls, c, [Term |-> c.Term, VoteGranted |-> TRUE, VoteErr |-> "Nil"])
      /\ VoteFrame

RequestVote(c) == \/ RequestVoteOutofDate(c) \/ RequestVoteLogTooOld(c)
                  \/ RequestVoteVoted(c) \/ RequestVoteGrant(c)

(***************************************************************************)
(* sendRequestVote after its Call returned.  The term is checked in a      *)
(* first critical section, the reply used in a second one.                 *)
(***************************************************************************)
SendRequestVoteCheck(c) ==
  /\ Arrived(c)
  /\ voteCalls' = (voteCalls \ {c}) \union
       (IF c.Term < currentTerm[c.from] THEN {} ELSE {[c EXCEPT !.phase = "passed"]})
  /\ UNCHANGED <<electVars, persisted, granted>> /\ VoteFrame

SendRequestVoteRefused(c) ==
  /\ c.phase = "passed" /\ mode[c.from] = "running"
  /\ c.reply.VoteErr \in {"VoteReqOutofDate", "CandidateLogTooOld"}
  /\ StepDown(c.from, c.reply.Term)
  /\ voteCalls' = voteCalls \ {c}
  /\ UNCHANGED granted /\ VoteFrame

\* voteNum is the counter of the last election: for an older election
\* reply.Term differs from currentTerm, and its counter is not above half.
SendRequestVoteCount(c) ==
  LET s == c.from
      votes == IF /\ c.reply.VoteGranted
                  /\ c.reply.Term = currentTerm[s]
                  /\ ~ Majority(voteNum[s])
               THEN voteNum[s] \union {c.to} ELSE voteNum[s]
  IN  /\ c.phase = "passed" /\ mode[s] = "running"
      /\ c.reply.VoteErr \in {"Nil", "VotedThisTerm"}
      /\ voteCalls' = voteCalls \ {c}
      /\ voteNum' = [voteNum EXCEPT ![s] = IF Majority(votes) THEN {} ELSE votes]
      /\ IF Majority(votes) /\ myStatus[s] # "Leader"
         THEN /\ myStatus' = [myStatus EXCEPT ![s] = "Leader"]
              /\ nextIndexs' = [nextIndexs EXCEPT ![s] = [p \in Server |-> LastIndex(s) + 1]]
              /\ elected' = elected \union {[term |-> currentTerm[s], leader |-> s]}
         ELSE UNCHANGED <<myStatus, nextIndexs, elected>>
      /\ UNCHANGED <<currentTerm, voteFor, persisted, logs, snapVars, applyVars, mode, granted,
                     appendVars, snapCalls, boundVars>>

-----------------------------------------------------------------------------
(***************************************************************************)
(* AppendEntries: the handler.                                             *)
(***************************************************************************)
AppendFrame == UNCHANGED <<nextIndexs, voteVars, appendNum, snapCalls, boundVars>>

AppendEntriesOutofDate(c) ==
  LET s == c.to
  IN  /\ Deliverable(c) /\ InOrder(c)
      /\ c.Term < currentTerm[s] \/ c.PrevLogIndex < lastIncludeIndex[s]
      /\ appendCalls' = Answer(appendCalls, c, [Term |-> currentTerm[s], NotMatchIndex |-> -1,
                                                AppendErr |-> "ReqOutofDate"])
      /\ UNCHANGED <<electVars, persisted, logs, snapVars, applyVars, mode>> /\ AppendFrame

\* The guards both remaining outcomes share.
AppendEntriesValid(c) ==
  /\ Deliverable(c) /\ InOrder(c)
  /\ c.Term >= currentTerm[c.to] /\ c.PrevLogIndex >= lastIncludeIndex[c.to]

LogsMatch(c) == /\ c.PrevLogIndex <= LastIndex(c.to)
                /\ c.PrevLogTerm = TermAt(c.to, c.PrevLogIndex)

\* The entry before the new ones differs, or entries after it are applied.
AppendEntriesReject(c) ==
  LET s == c.to
  IN  /\ AppendEntriesValid(c)
      /\ ~ LogsMatch(c) \/ lastApplied[s] > c.PrevLogIndex
      /\ Adopt(s, c.Term, c.from)
      /\ UNCHANGED logs /\ persist(s)
      /\ appendCalls' = Answer(appendCalls, c,
           [Term |-> c.Term, NotMatchIndex |-> lastApplied[s] + 1,
            AppendErr |-> IF LogsMatch(c) THEN "Commited" ELSE "LogsNotMatch"])
      /\ UNCHANGED <<snapVars, applyVars, mode>> /\ AppendFrame

\* Mutant of Appended: nothing is cut off.
AppendedAll(c) == logs[c.to] \o c.Logs

\* The log after the handler: everything behind PrevLogIndex gives way to
\* the entries of the request, if it has any.
Appended(c) ==
  IF c.Logs # <<>>
  THEN SubSeq(logs[c.to], 1, c.PrevLogIndex - lastIncludeIndex[c.to]) \o c.Logs
  ELSE logs[c.to]

AppendEntriesAccept(c) ==
  LET s == c.to
  IN  /\ AppendEntriesValid(c)
      /\ LogsMatch(c) /\ lastApplied[s] <= c.PrevLogIndex
      /\ Adopt(s, c.Term, c.from)
      /\ Apply(s, Appended(c), c.LeaderCommit)
      /\ persist(s)
      /\ appendCalls' = Answer(appendCalls, c, [Term |-> c.Term, NotMatchIndex |-> -1,
                                                AppendErr |-> "Nil"])
      /\ UNCHANGED mode /\ AppendFrame

AppendEntries(c) == AppendEntriesOutofDate(c) \/ AppendEntriesReject(c) \/ AppendEntriesAccept(c)

(***************************************************************************)
(* sendAppendEntries after its Call returned, one critical section.        *)
(***************************************************************************)
SendAppendFrame == UNCHANGED <<mode, voteVars, snapCalls, boundVars>>

SendAppendEntriesStale(c) ==
  /\ Arrived(c) /\ c.Term < currentTerm[c.from]
  /\ appendCalls' = appendCalls \ {c}
  /\ UNCHANGED <<electVars, persisted, logs, nextIndexs, snapVars, applyVars, appendNum>>
  /\ SendAppendFrame

SendAppendEntriesCurrent(c, err) ==
  /\ Arrived(c) /\ c.Term >= currentTerm[c.from]
  /\ c.reply.AppendErr = err
  /\ appendCalls' = appendCalls \ {c}

\* The entry of the round is replicated, and of the leader's own term.
MayCommit(s, i) == i < lastIncludeIndex[s] \/ TermAt(s, i) = currentTerm[s]

SendAppendEntriesSuccess(c) ==
  LET s == c.from
      acks == IF c.reply.Term = currentTerm[s] /\ ~ Majority(appendNum[c.round])
              THEN appendNum[c.round] \union {c.to} ELSE appendNum[c.round]
      newer == nextIndexs[s][c.to] > c.LogIndex + 1
      commit == ~ newer /\ Majority(acks)
  IN  /\ SendAppendEntriesCurrent(c, "Nil")
      /\ appendNum' = [appendNum EXCEPT ![c.round] = IF commit THEN {} ELSE acks]
      /\ nextIndexs' = IF newer THEN nextIndexs
                       ELSE [nextIndexs EXCEPT ![s][c.to] = c.LogIndex + 1]
      /\ IF commit /\ MayCommit(s, c.LogIndex)
         THEN Apply(s, logs[s], c.LogIndex)
         ELSE UNCHANGED <<logs, snapVars, applyVars>>
      /\ UNCHANGED <<electVars, persisted>> /\ SendAppendFrame

SendAppendEntriesOutofDate(c) ==
  /\ SendAppendEntriesCurrent(c, "ReqOutofDate")
  /\ StepDown(c.from, c.reply.Term)
  /\ UNCHANGED <<logs, nextIndexs, snapVars, applyVars, appendNum>> /\ SendAppendFrame

\* Back up to where the follower says; a goroutine of another term does not.
SendAppendEntriesBackup(c, err) ==
  /\ SendAppendEntriesCurrent(c, err)
  /\ nextIndexs' = IF c.Term # currentTerm[c.from] THEN nextIndexs
                   ELSE [nextIndexs EXCEPT ![c.from][c.to] = c.reply.NotMatchIndex]
  /\ UNCHANGED <<electVars, persisted, logs, snapVars, applyVars, appendNum>> /\ SendAppendFrame

SendAppendEntries(c) ==
  \/ SendAppendEntriesStale(c) \/ SendAppendEntriesSuccess(c) \/ SendAppendEntriesOutofDate(c)
  \/ SendAppendEntriesBackup(c, "LogsNotMatch") \/ SendAppendEntriesBackup(c, "Commited")

-----------------------------------------------------------------------------
(***************************************************************************)
(* InstallSnapshot: the handler.  It neither persists nor, for an old      *)
(* index, adopts the term.                                                 *)
(***************************************************************************)
InstallFrame == UNCHANGED <<nextIndexs, mode, persisted, voteVars, appendVars, boundVars>>

InstallSnapshotRefuse(c) ==
  LET s == c.to
  IN  /\ Deliverable(c)
      /\ c.Term < currentTerm[s] \/ c.LastIncludeIndex <= lastIncludeIndex[s]
      /\ snapCalls' = Answer(snapCalls, c,
           [Term |-> currentTerm[s],
            Err |-> IF c.Term < currentTerm[s] THEN "ReqOutofDate" ELSE "OldIndex"])
      /\ UNCHANGED <<electVars, logs, snapVars, applyVars>> /\ InstallFrame

\* Mutant of InstallSnapshotAccept: lastApplied is forgotten.
InstallSnapshotAcceptOld(c) ==
  LET s == c.to
  IN  /\ Deliverable(c)
      /\ c.Term >= currentTerm[s] /\ c.LastIncludeIndex > lastIncludeIndex[s]
      /\ applier[s].op = "idle"
      /\ Adopt(s, c.Term, c.from)
      /\ logs' = [logs EXCEPT ![s] =
                    IF LastIndex(s) <= c.LastIncludeIndex THEN <<>>
                    ELSE SubSeq(@, c.LastIncludeIndex - lastIncludeIndex[s] + 1, Len(@))]
      /\ lastIncludeIndex' = [lastIncludeIndex EXCEPT ![s] = c.LastIncludeIndex]
      /\ lastIncludeTerm' = [lastIncludeTerm EXCEPT ![s] = c.LastIncludeTerm]
      /\ applier' = [applier EXCEPT ![s] = [op |-> "install", index |-> c.LastIncludeIndex,
                                            term |-> c.LastIncludeTerm, data |-> c.Data]]
      /\ commitIndex' = [commitIndex EXCEPT ![s] = c.LastIncludeIndex]
      /\ snapCalls' = Answer(snapCalls, c, [Term |-> c.Term, Err |-> "Nil"])
      /\ UNCHANGED <<lastApplied, snapshotCmd, svcLog, applied>> /\ InstallFrame

InstallSnapshotAccept(c) ==
  LET s == c.to
  IN  /\ Deliverable(c)
      /\ c.Term >= currentTerm[s] /\ c.LastIncludeIndex > lastIncludeIndex[s]
      /\ applier[s].op = "idle"
      /\ Adopt(s, c.Term, c.from)
      /\ logs' = [logs EXCEPT ![s] =
                    IF LastIndex(s) <= c.LastIncludeIndex THEN <<>>
                    ELSE SubSeq(@, c.LastIncludeIndex - lastIncludeIndex[s] + 1, Len(@))]
      /\ lastIncludeIndex' = [lastIncludeIndex EXCEPT ![s] = c.LastIncludeIndex]
      /\ lastIncludeTerm' = [lastIncludeTerm EXCEPT ![s] = c.LastIncludeTerm]
      /\ applier' = [applier EXCEPT ![s] = [op |-> "install", index |-> c.LastIncludeIndex,
                                            term |-> c.LastIncludeTerm, data |-> c.Data]]
      /\ lastApplied' = [lastApplied EXCEPT ![s] = c.LastIncludeIndex]
      /\ commitIndex' = [commitIndex EXCEPT ![s] = c.LastIncludeIndex]
      /\ snapCalls' = Answer(snapCalls, c, [Term |-> c.Term, Err |-> "Nil"])
      /\ UNCHANGED <<snapshotCmd, svcLog, applied>> /\ InstallFrame

InstallSnapshot(c) == InstallSnapshotRefuse(c) \/ InstallSnapshotAccept(c)

\* sendInstallSnapshot after its Call returned.
SendInstallSnapshot(c) ==
  LET s == c.from
      old == c.reply.Term < currentTerm[s] \/ c.reply.Err = "ReqOutofDate"
      next == IF c.reply.Err = "Nil" THEN c.LastIncludeIndex + 1 ELSE LastIndex(s) + 1
  IN  /\ Arrived(c)
      /\ snapCalls' = snapCalls \ {c}
      /\ IF ~ old /\ c.reply.Term > currentTerm[s]
         THEN StepDown(s, c.reply.Term)
         ELSE UNCHANGED <<electVars, persisted>>
      /\ nextIndexs' = IF old THEN nextIndexs ELSE [nextIndexs EXCEPT ![s][c.to] = next]
      /\ UNCHANGED <<logs, snapVars, applyVars, mode, voteVars, appendVars, boundVars>>

-----------------------------------------------------------------------------
(***************************************************************************)
(* Calls of the service.                                                   *)
(***************************************************************************)
\* Mutant of Start: the new entry is not saved.
StartUnsaved(s) ==
  /\ mode[s] = "running" /\ myStatus[s] = "Leader"
  /\ starts < MaxStart
  /\ starts' = starts + 1
  /\ logs' = [logs EXCEPT ![s] = Append(@, [Term |-> currentTerm[s], Cmd |-> starts + 1])]
  /\ UNCHANGED <<electVars, persisted>>
  /\ UNCHANGED <<nextIndexs, snapVars, applyVars, mode, voteVars, appendVars, snapCalls,
                 elections, rounds, crashes, losses>>

Start(s) ==
  /\ mode[s] = "running" /\ myStatus[s] = "Leader"
  /\ starts < MaxStart
  /\ starts' = starts + 1
  /\ logs' = [logs EXCEPT ![s] = Append(@, [Term |-> currentTerm[s], Cmd |-> starts + 1])]
  /\ UNCHANGED electVars /\ persist(s)
  /\ UNCHANGED <<nextIndexs, snapVars, applyVars, mode, voteVars, appendVars, snapCalls,
                 elections, rounds, crashes, losses>>

ServiceFrame == UNCHANGED <<electVars, nextIndexs, persisted, voteVars, appendVars, snapCalls,
                            boundVars>>

\* Mutant of Snapshot: the new snapshot is not kept.
SnapshotLost(s) ==
  LET index == applier[s].index
      pos == index - lastIncludeIndex[s]
  IN  /\ mode[s] = "running" /\ applier[s].op = "snapshot"
      /\ pos \in 1..Len(logs[s])
      /\ lastIncludeIndex' = [lastIncludeIndex EXCEPT ![s] = index]
      /\ lastIncludeTerm' = [lastIncludeTerm EXCEPT ![s] = logs[s][pos].Term]
      /\ logs' = [logs EXCEPT ![s] = SubSeq(@, pos + 1, Len(@))]
      /\ applier' = [applier EXCEPT ![s] = Idle]
      /\ UNCHANGED <<snapshotCmd, mode, commitIndex, lastApplied, svcLog, applied>> /\ ServiceFrame

\* Snapshot(index, snapshot), without rf.mu.
Snapshot(s) ==
  LET index == applier[s].index
      pos == index - lastIncludeIndex[s]
  IN  /\ mode[s] = "running" /\ applier[s].op = "snapshot"
      /\ pos \in 1..Len(logs[s])
      /\ lastIncludeIndex' = [lastIncludeIndex EXCEPT ![s] = index]
      /\ lastIncludeTerm' = [lastIncludeTerm EXCEPT ![s] = logs[s][pos].Term]
      /\ logs' = [logs EXCEPT ![s] = SubSeq(@, pos + 1, Len(@))]
      /\ snapshotCmd' = [snapshotCmd EXCEPT ![s] = svcLog[s]]
      /\ applier' = [applier EXCEPT ![s] = Idle]
      /\ UNCHANGED <<mode, commitIndex, lastApplied, svcLog, applied>> /\ ServiceFrame

\* CondInstallSnapshot, and what the service does when it returns true: it takes
\* over the snapshot, whose index must be the one it was told.
CondInstallSnapshot(s) ==
  LET m == applier[s]
  IN  /\ mode[s] = "running" /\ m.op = "install"
      /\ LastIndex(s) <= m.index
      /\ Len(m.data) = m.index
      /\ snapshotCmd' = [snapshotCmd EXCEPT ![s] = m.data]
      /\ logs' = [logs EXCEPT ![s] = <<>>]
      /\ lastIncludeTerm' = [lastIncludeTerm EXCEPT ![s] = m.term]
      /\ lastIncludeIndex' = [lastIncludeIndex EXCEPT ![s] = m.index]
      /\ commitIndex' = [commitIndex EXCEPT ![s] = m.index]
      /\ lastApplied' = [lastApplied EXCEPT ![s] = m.index]
      /\ svcLog' = [svcLog EXCEPT ![s] = m.data]
      /\ applier' = [applier EXCEPT ![s] = Idle]
      /\ UNCHANGED <<mode, applied>> /\ ServiceFrame

\* It returns false when the log goes on after the snapshot, with rf.mu locked.
CondInstallSnapshotRefuse(s) ==
  LET m == applier[s]
  IN  /\ mode[s] = "running" /\ m.op = "install"
      /\ LastIndex(s) > m.index
      /\ mode' = [mode EXCEPT ![s] = "wedged"]
      /\ applier' = [applier EXCEPT ![s] = Idle]
      /\ UNCHANGED <<logs, snapVars, commitIndex, lastApplied, svcLog, applied>> /\ ServiceFrame

-----------------------------------------------------------------------------
(***************************************************************************)
(* The tester and the network.                                             *)
(***************************************************************************)
\* What crash1 does to the server: only the Persister survives.
Kill(s) ==
  /\ crashes < MaxCrash
  /\ crashes' = crashes + 1
  /\ mode' = [mode EXCEPT ![s] = "down"]
  /\ voteCalls' = Orphaned(voteCalls, s)
  /\ appendCalls' = Orphaned(appendCalls, s)
  /\ snapCalls' = Orphaned(snapCalls, s)
  /\ UNCHANGED <<electVars, logs, nextIndexs, snapVars, commitIndex, lastApplied, applier, svcLog,
                 persisted, voteNum, appendNum, granted, elected,
                 elections, starts, rounds, losses>>

crash1(s) == mode[s] = "running" /\ Kill(s) /\ UNCHANGED applied

\* crash1 copies the Persister while AppendEntries is in its apply loop:
\* entries up to k have reached the service, the log is not saved.
CrashInAppendEntries(c, k) ==
  LET s == c.to
      base == lastIncludeIndex[s]
  IN  /\ AppendEntriesValid(c)
      /\ LogsMatch(c) /\ lastApplied[s] <= c.PrevLogIndex
      /\ applier[s].op = "idle"
      /\ k \in (lastApplied[s] + 1)..c.LeaderCommit /\ k <= Len(Appended(c)) + base
      /\ applied' = applied \union
           {<<i, Appended(c)[i - base].Cmd>> : i \in (lastApplied[s] + 1)..k}
      /\ Kill(s)

\* start1: a new instance, made by Make from the Persister.
start1(s) ==
  /\ mode[s] = "down"
  /\ mode' = [mode EXCEPT ![s] = "running"]
  /\ currentTerm' = [currentTerm EXCEPT ![s] = persisted[s].currentTerm]
  /\ voteFor' = [voteFor EXCEPT ![s] = persisted[s].voteFor]
  /\ logs' = [logs EXCEPT ![s] = persisted[s].logs]
  /\ myStatus' = [myStatus EXCEPT ![s] = "Follower"]
  /\ nextIndexs' = [nextIndexs EXCEPT ![s] = [p \in Server |-> 0]]
  /\ commitIndex' = [commitIndex EXCEPT ![s] = 0]
  /\ lastApplied' = [lastApplied EXCEPT ![s] = 0]
  /\ lastIncludeIndex' = [lastIncludeIndex EXCEPT ![s] = -1]
  /\ lastIncludeTerm' = [lastIncludeTerm EXCEPT ![s] = 0]
  /\ snapshotCmd' = [snapshotCmd EXCEPT ![s] = <<>>]
  /\ applier' = [applier EXCEPT ![s] = Idle]
  /\ svcLog' = [svcLog EXCEPT ![s] = <<>>]
  /\ UNCHANGED <<persisted, voteVars, applied, appendVars, snapCalls, boundVars>>

\* A reply is lost: Call returns false and the goroutine sends its request again.
Resend(calls, c, none) ==
  (calls \ {c}) \union {[c EXCEPT !.phase = "sent", !.reply = none]}

LoseReply ==
  /\ losses < MaxLoss
  /\ losses' = losses + 1
  /\ \/ \E c \in voteCalls : /\ c.phase = "replied"
                             /\ voteCalls' = Resend(voteCalls, c, NoVoteReply)
                             /\ UNCHANGED <<appendCalls, snapCalls>>
     \/ \E c \in appendCalls : /\ c.phase = "replied"
                               /\ appendCalls' = Resend(appendCalls, c, NoAppendReply)
                               /\ UNCHANGED <<voteCalls, snapCalls>>
     \/ \E c \in snapCalls : /\ c.phase = "replied"
                             /\ snapCalls' = Resend(snapCalls, c, NoSnapReply)
                             /\ UNCHANGED <<voteCalls, appendCalls>>
  /\ UNCHANGED <<electVars, logs, nextIndexs, snapVars, applyVars, mode, persisted, voteNum,
                 granted, elected, appendNum, elections, starts, rounds, crashes>>

-----------------------------------------------------------------------------
Dummy == <<[Term |-> 0, Cmd |-> 0]>>

Init ==
  /\ currentTerm = [s \in Server |-> 0]
  /\ voteFor = [s \in Server |-> None]
  /\ myStatus = [s \in Server |-> "Follower"]
  /\ logs = [s \in Server |-> Dummy]
  /\ nextIndexs = [s \in Server |-> [p \in Server |-> 0]]
  /\ commitIndex = [s \in Server |-> 0]
  /\ lastApplied = [s \in Server |-> 0]
  /\ lastIncludeIndex = [s \in Server |-> -1]
  /\ lastIncludeTerm = [s \in Server |-> 0]
  /\ snapshotCmd = [s \in Server |-> <<>>]
  /\ mode = [s \in Server |-> "running"]
  /\ persisted = [s \in Server |-> [currentTerm |-> 0, voteFor |-> None, logs |-> Dummy]]
  /\ voteCalls = {} /\ appendCalls = {} /\ snapCalls = {}
  /\ voteNum = [s \in Server |-> {}]
  /\ appendNum = [r \in 1..MaxRounds |-> {}]
  /\ applier = [s \in Server |-> Idle]
  /\ svcLog = [s \in Server |-> <<>>]
  /\ granted = {} /\ elected = {} /\ applied = {}
  /\ elections = 0 /\ starts = 0 /\ rounds = 0 /\ crashes = 0 /\ losses = 0

ServerStep(s) ==
  \/ TickerElection(s) \/ TickerHeartbeat(s) \/ Start(s)
  \/ Snapshot(s) \/ CondInstallSnapshot(s) \/ CondInstallSnapshotRefuse(s)
  \/ crash1(s) \/ start1(s)
VoteStep(c) == \/ RequestVote(c) \/ SendRequestVoteCheck(c)
               \/ SendRequestVoteRefused(c) \/ SendRequestVoteCount(c)
AppendStep(c) == \/ AppendEntries(c) \/ SendAppendEntries(c)
                 \/ \E k \in 1..c.LeaderCommit : CrashInAppendEntries(c, k)
SnapStep(c) == InstallSnapshot(c) \/ SendInstallSnapshot(c)

Next ==
  \/ \E s \in Server : ServerStep(s)
  \/ \E c \in voteCalls : VoteStep(c)
  \/ \E c \in appendCalls : AppendStep(c)
  \/ \E c \in snapCalls : SnapStep(c)
  \/ LoseReply

Spec == Init /\ [][Next]_vars

-----------------------------------------------------------------------------
Persisted == [currentTerm : Nat, voteFor : Server \union {None}, logs : Seq(LogEntry)]
ServiceCall == [op : {"idle", "snapshot", "install"}, index : Int, term : Nat, data : Seq(Nat)]

ElectType == /\ currentTerm \in [Server -> Nat]
             /\ voteFor \in [Server -> Server \union {None}]
             /\ myStatus \in [Server -> Status]
LogType == logs \in [Server -> Seq(LogEntry)]
NextType == nextIndexs \in [Server -> [Server -> Int]]
SnapType == /\ lastIncludeIndex \in [Server -> Int]
            /\ lastIncludeTerm \in [Server -> Nat]
            /\ snapshotCmd \in [Server -> Seq(Nat)]
ApplyType == /\ commitIndex \in [Server -> Int]
             /\ lastApplied \in [Server -> Int]
             /\ applier \in [Server -> ServiceCall]
             /\ svcLog \in [Server -> Seq(Nat)]
             /\ applied \subseteq Int \X Nat
ModeType == mode \in [Server -> {"running", "wedged", "down"}]
PersistType == persisted \in [Server -> Persisted]
VoteType == /\ voteCalls \subseteq VoteCall
            /\ voteNum \in [Server -> SUBSET Server]
            /\ granted \subseteq [term : Nat, voter : Server, cand : Server]
            /\ elected \subseteq [term : Nat, leader : Server]
AppendType == appendCalls \subseteq AppendCall /\ appendNum \in [1..MaxRounds -> SUBSET Server]
SnapCallType == snapCalls \subseteq SnapCall
BoundType == /\ elections \in Nat /\ starts \in Nat /\ rounds \in 0..MaxRounds
             /\ crashes \in Nat /\ losses \in Nat

\* The type of the state: terms and commands are naturals, indexes integers (-1 is
\* the snapshot index of a server without one), RPC records what the structs say.
TypeOK == /\ ElectType /\ LogType /\ NextType /\ SnapType /\ ApplyType /\ ModeType
          /\ PersistType /\ VoteType /\ AppendType /\ SnapCallType /\ BoundType

\* At most one server ever becomes leader of a term, over all crashes, restarts
\* and retries, although AppendEntries and InstallSnapshot overwrite voteFor and
\* a server may so grant its vote of one term twice.
ElectionSafety ==
  \A e, f \in elected : e.term = f.term => e.leader = f.leader

Has(s, i) == lastIncludeIndex[s] < i /\ i <= LastIndex(s)
EntryAt(s, i) == logs[s][i - lastIncludeIndex[s]]

\* A snapshot never runs ahead of what its server has applied: the apply loops
\* index the log with lastApplied - lastIncludeIndex.
SnapshotBehindApplied ==
  \A s \in Server : /\ lastIncludeIndex[s] <= lastApplied[s]
                    /\ applier[s].op = "snapshot" => applier[s].index <= lastApplied[s]

\* If two servers hold an entry of the same index and term, their logs agree on
\* that entry and on all earlier ones both still hold: what AppendEntries checks
\* at PrevLogIndex is enough.
LogMatching ==
  \A s, t \in Server : \A i \in 0..LastIndex(s) :
    Has(s, i) /\ Has(t, i) /\ EntryAt(s, i).Term = EntryAt(t, i).Term
      => \A j \in 0..i : Has(s, j) /\ Has(t, j) => EntryAt(s, j) = EntryAt(t, j)

\* No two services ever apply different commands at one index: checkLogs of
\* config.go, over the whole run.
StateMachineSafety ==
  \A a, b \in applied : a[1] = b[1] => a[2] = b[2]

\* When rf.mu is free, what persist() saved is what the server acts on: no
\* handler or send goroutine leaves term, vote or log unsaved.
Durable ==
  \A s \in Server : mode[s] = "running" =>
    persisted[s] = [currentTerm |-> currentTerm[s], voteFor |-> voteFor[s], logs |-> logs[s]]

\* The service is where its server thinks it is: the next command sent on applyChan
\* is the one after its last, and the snapshot a server keeps covers what it is said
\* to.  While an installed snapshot is on its way to the service neither is true yet.
ServiceInStep ==
  \A s \in Server : mode[s] = "running" /\ applier[s].op # "install" =>
    /\ Len(svcLog[s]) = lastApplied[s]
    /\ lastIncludeIndex[s] # -1 => Len(snapshotCmd[s]) = lastIncludeIndex[s]

\* No apply loop leaves its log: a follower holds every entry LeaderCommit tells it
\* to apply, a leader every entry it is told was stored.
ApplyInRange ==
  \A c \in appendCalls :
    /\ AppendEntriesValid(c) /\ LogsMatch(c) /\ lastApplied[c.to] <= c.PrevLogIndex
         => c.LeaderCommit <= Len(Appended(c)) + lastIncludeIndex[c.to]
    /\ Arrived(c) /\ c.Term = currentTerm[c.from] => c.LogIndex <= LastIndex(c.from)

\* An applied command is in the saved log of a majority, so that no crash and
\* no election can lose it.
AppliedOnMajority ==
  \A a \in applied :
    Majority({s \in Server : Len(persisted[s].logs) > a[1] /\ persisted[s].logs[a[1] + 1].Cmd = a[2]})

-----------------------------------------------------------------------------
(***************************************************************************)
(* What the documentation says and the code does not do.                   *)
(***************************************************************************)
\* A crash loses nothing: the log that Make restores from the Persister has every
\* entry the server holds, at the index at which it holds it.
RestoredLogAgrees ==
  \A s \in Server : mode[s] = "running" =>
    \A i \in 0..LastIndex(s) : Has(s, i) =>
      i < Len(persisted[s].logs) /\ persisted[s].logs[i + 1] = EntryAt(s, i)

=============================================================================
