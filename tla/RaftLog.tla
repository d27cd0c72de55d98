------------------------------ MODULE RaftLog -------------------------------
(***************************************************************************)
(* What keeps the logs of Raft.tla in order: the inductive invariants      *)
(* behind ApplyInRange, ServiceInStep, Durable and LogMatching.            *)
(*                                                                         *)
(* RangeInv holds of every cluster.  LogInv is about a cluster without     *)
(* snapshots: with them a server that trimmed its log, saved it and was    *)
(* restarted reads its entries at other indexes than before.               *)
(***************************************************************************)
EXTENDS RaftElection

-----------------------------------------------------------------------------
(***************************************************************************)
(* The apply loops stay inside the logs.                                   *)
(***************************************************************************)
\* Server s has applied no entry behind the end of its log; a log restored
\* without its trimmed entries may be shorter than that only while nothing is applied.
AppliedBound(s) ==
  /\ commitIndex[s] = lastApplied[s] /\ lastApplied[s] >= 0 /\ lastIncludeIndex[s] >= -1
  /\ lastApplied[s] = 0 \/ lastApplied[s] <= LastIndex(s)
  /\ applier[s].op = "install" => applier[s].index >= 0

\* A request carries the sender's log up to LogIndex, and commits nothing behind it.
RequestFits(c) ==
  /\ c.from # c.to
  /\ c.PrevLogIndex + Len(c.Logs) = c.LogIndex
  /\ c.LeaderCommit <= 0 \/ c.LeaderCommit <= c.LogIndex

\* The log of its sender has not become shorter in the term of the request.
SenderAhead(c) ==
  c.phase # "orphan" =>
    /\ mode[c.from] # "down"
    /\ c.Term <= currentTerm[c.from]
    /\ c.Term = currentTerm[c.from] => c.LogIndex <= LastIndex(c.from)

\* The inductive invariant of the apply loops, over TypeOK and ElectionInv.
RangeInv ==
  /\ \A s \in Server : AppliedBound(s)
  /\ \A c \in appendCalls : RequestFits(c) /\ SenderAhead(c)
  /\ \A c \in snapCalls : c.from # c.to

\* A snapshot the service is about to take ends at the last entry it applied.
ServiceInv ==
  /\ ServiceInStep
  /\ \A s \in Server : applier[s].op = "snapshot" => applier[s].index = lastApplied[s]

-----------------------------------------------------------------------------
(***************************************************************************)
(* The logs match, in a cluster without snapshots.                         *)
(***************************************************************************)
\* No trace of a snapshot: entry i is at position i + 1 of a log, after its dummy.
NoTrace ==
  /\ snapCalls = {}
  /\ \A s \in Server : /\ lastIncludeIndex[s] = -1 /\ lastIncludeTerm[s] = 0
                       /\ applier[s].op = "idle" /\ logs[s] # <<>>

\* No leader looks for an entry before the dummy, and no reply makes it do so.
CallSane(c) ==
  /\ c.PrevLogIndex >= -1
  /\ c.phase = "replied" /\ c.reply.AppendErr \in {"LogsNotMatch", "Commited"} =>
       c.reply.NotMatchIndex >= 0

NextSane ==
  /\ \A s, p \in Server : nextIndexs[s][p] >= 0
  /\ \A c \in appendCalls : CallSane(c)

\* Everything is saved, also on a server that is down.
Saved ==
  \A s \in Server :
    persisted[s] = [currentTerm |-> currentTerm[s], voteFor |-> voteFor[s], logs |-> logs[s]]

NoSnapshots == NoTrace /\ NextSane /\ Saved

\* A part of a log: the term of entry prev, and the entries after it.  A server has
\* one from its first entry on, a request the one it carries.
LogPart(s) == [prev |-> lastIncludeIndex[s], term |-> lastIncludeTerm[s], ents |-> logs[s]]
CallPart(c) == [prev |-> c.PrevLogIndex, term |-> c.PrevLogTerm, ents |-> c.Logs]
Parts == {LogPart(s) : s \in Server} \union {CallPart(c) : c \in appendCalls}

Indexes(x) == x.prev..(x.prev + Len(x.ents))
TermIn(x, i) == IF i = x.prev THEN x.term ELSE x.ents[i - x.prev].Term

\* Parts x and y hold the same at index i, as far as both know it.
Agree(x, y, i) ==
  /\ TermIn(x, i) = TermIn(y, i)
  /\ i # x.prev /\ i # y.prev => x.ents[i - x.prev] = y.ents[i - y.prev]

\* Parts with the same term at one index agree there and at all earlier ones.
Matching(x, y) ==
  \A i \in Indexes(x) \cap Indexes(y) : TermIn(x, i) = TermIn(y, i) =>
    \A j \in Indexes(x) \cap Indexes(y) : j <= i => Agree(x, y, j)

PartsMatch == \A x, y \in Parts : Matching(x, y)

\* Every entry but the dummy is of a term that had a leader.
TermsLed == \A x \in Parts : \A i \in Indexes(x) : i > 0 => HasLeader(TermIn(x, i))

\* A server holds every entry there is of the term it is in, if it was elected in it,
\* and it never falls back behind a term it led.
LeaderHolds ==
  \A e \in elected :
    /\ e.term <= currentTerm[e.leader]
    /\ e.term = currentTerm[e.leader] =>
         \A x \in Parts : \A i \in Indexes(x) : TermIn(x, i) = e.term => i <= LastIndex(e.leader)

\* The inductive invariant of the logs, over TypeOK, ElectionInv and RangeInv.
LogOrder == PartsMatch /\ TermsLed /\ LeaderHolds
LogInv == NoSnapshots /\ LogOrder

=============================================================================
