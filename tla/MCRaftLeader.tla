---------------------------- MODULE MCRaftLeader ----------------------------
(***************************************************************************)
(* Raft from the moment its first election is over: Leader won term 1 with *)
(* the votes of all servers and every vote call has returned.  It has been *)
(* given Sent commands, sent a round of heartbeats after each, and no      *)
(* request of these has been handled yet.  The state is reachable from     *)
(* Init; starting there spends the bounds on what comes after.             *)
(***************************************************************************)
EXTENDS RaftLog, TLC

CONSTANTS Leader1, Sent

Symmetry == Permutations(Server \ {Leader1})

Log(n) == Dummy \o [i \in 1..n |-> [Term |-> 1, Cmd |-> i]]

LeaderInit ==
  /\ currentTerm = [s \in Server |-> 1]
  /\ voteFor = [s \in Server |-> Leader1]
  /\ myStatus = [s \in Server |-> IF s = Leader1 THEN "Leader" ELSE "Follower"]
  /\ logs = [s \in Server |-> IF s = Leader1 THEN Log(Sent) ELSE Dummy]
  /\ nextIndexs = [s \in Server |-> [p \in Server |-> IF s = Leader1 THEN 1 ELSE 0]]
  /\ commitIndex = [s \in Server |-> 0]
  /\ lastApplied = [s \in Server |-> 0]
  /\ lastIncludeIndex = [s \in Server |-> -1]
  /\ lastIncludeTerm = [s \in Server |-> 0]
  /\ snapshotCmd = [s \in Server |-> <<>>]
  /\ mode = [s \in Server |-> "running"]
  /\ persisted = [s \in Server |-> [currentTerm |-> 1, voteFor |-> Leader1, logs |-> logs[s]]]
  /\ voteCalls = {} /\ snapCalls = {}
  /\ appendCalls = {[from |-> Leader1, to |-> p, round |-> r, Term |-> 1, PrevLogIndex |-> 0,
                     PrevLogTerm |-> 0, Logs |-> Tail(Log(r)), LeaderCommit |-> 0, LogIndex |-> r,
                     phase |-> "sent", reply |-> NoAppendReply] :
                       r \in 1..Sent, p \in Server \ {Leader1}}
  /\ voteNum = [s \in Server |-> {}]
  /\ appendNum = [r \in 1..MaxRounds |-> IF r <= Sent THEN {Leader1} ELSE {}]
  /\ applier = [s \in Server |-> Idle]
  /\ svcLog = [s \in Server |-> <<>>]
  /\ granted = {[term |-> 1, voter |-> s, cand |-> Leader1] : s \in Server}
  /\ elected = {[term |-> 1, leader |-> Leader1]} /\ applied = {}
  /\ elections = 1 /\ starts = Sent /\ rounds = Sent /\ crashes = 0 /\ losses = 0

LeaderSpec == LeaderInit /\ [][Next]_vars

=============================================================================
