----------------------------- MODULE RaftTypes ------------------------------
(***************************************************************************)
(* Types of the operators of Raft, and the steps that take no part of a    *)
(* log keep them. RaftProofs goes on to the other handlers.                *)
(***************************************************************************)
EXTENDS Raft, TLAPS

-----------------------------------------------------------------------------
(***************************************************************************)
(* Types of the operators the model is built from.                         *)
(***************************************************************************)
\* Answering or resending a vote request leaves a set of vote calls.
LEMMA VoteCallTypes ==
  ASSUME NEW calls \in SUBSET VoteCall, NEW c \in calls, NEW r \in VoteReply
  PROVE  Answer(calls, c, r) \subseteq VoteCall /\ Resend(calls, c, r) \subseteq VoteCall
  BY Zenon DEF VoteCall, Answer, Resend, Phase

\* Answering or resending an AppendEntries request leaves a set of such calls.
LEMMA AppendCallTypes ==
  ASSUME NEW calls \in SUBSET AppendCall, NEW c \in calls, NEW r \in AppendReply
  PROVE  Answer(calls, c, r) \subseteq AppendCall /\ Resend(calls, c, r) \subseteq AppendCall
<1>1. /\ [c EXCEPT !.phase = "replied", !.reply = r] \in AppendCall
      /\ [c EXCEPT !.phase = "sent", !.reply = r] \in AppendCall
  BY Zenon DEF AppendCall, Phase
<1> QED BY <1>1, Zenon DEF Answer, Resend

\* Answering or resending an InstallSnapshot request leaves a set of such calls.
LEMMA SnapCallTypes ==
  ASSUME NEW calls \in SUBSET SnapCall, NEW c \in calls, NEW r \in SnapReply
  PROVE  Answer(calls, c, r) \subseteq SnapCall /\ Resend(calls, c, r) \subseteq SnapCall
  BY ZenonT(30) DEF SnapCall, Answer, Resend, Phase

\* What Kill does to the send goroutines of its server keeps the types of the calls.
LEMMA OrphanTypes ==
  ASSUME NEW s
  PROVE  /\ \A calls \in SUBSET VoteCall : Orphaned(calls, s) \subseteq VoteCall
         /\ \A calls \in SUBSET AppendCall : Orphaned(calls, s) \subseteq AppendCall
         /\ \A calls \in SUBSET SnapCall : Orphaned(calls, s) \subseteq SnapCall
<1>1. \A calls \in SUBSET VoteCall : Orphaned(calls, s) \subseteq VoteCall
  BY Zenon DEF VoteCall, Orphaned, Phase
<1>2. \A calls \in SUBSET AppendCall : Orphaned(calls, s) \subseteq AppendCall
  BY DEF AppendCall, Orphaned, Phase
<1>3. \A calls \in SUBSET SnapCall : Orphaned(calls, s) \subseteq SnapCall
  BY ZenonT(30) DEF SnapCall, Orphaned, Phase
<1> QED BY <1>1, <1>2, <1>3, Zenon

\* The zero values a Call is made with are replies.
LEMMA NoReplyTypes ==
  NoVoteReply \in VoteReply /\ NoAppendReply \in AppendReply /\ NoSnapReply \in SnapReply
  BY DEF NoVoteReply, NoAppendReply, NoSnapReply, VoteReply, AppendReply, SnapReply

\* A service without a pending call is well typed.
LEMMA IdleType == Idle \in ServiceCall
<1>1. <<>> \in Seq(Nat)
  OBVIOUS
<1> QED BY <1>1 DEF Idle, ServiceCall

\* The fields of a vote call.
LEMMA VoteCallFields ==
  ASSUME VoteType, NEW c \in voteCalls
  PROVE  /\ c \in VoteCall /\ c.from \in Server /\ c.to \in Server /\ c.Term \in Nat
         /\ c.reply \in VoteReply /\ c.reply.Term \in Nat
  BY Zenon DEF VoteType, VoteCall, VoteReply

\* The fields of an append call.
LEMMA AppendCallFields ==
  ASSUME AppendType, NEW c \in appendCalls
  PROVE  /\ c \in AppendCall /\ c.from \in Server /\ c.to \in Server /\ c.round \in 1..MaxRounds
         /\ c.Term \in Nat /\ c.PrevLogIndex \in Int /\ c.Logs \in Seq(LogEntry)
         /\ c.LeaderCommit \in Int /\ c.LogIndex \in Int
         /\ c.reply \in AppendReply /\ c.reply.Term \in Nat /\ c.reply.NotMatchIndex \in Int
<1>1. c \in AppendCall
  BY Zenon DEF AppendType
<1> QED BY <1>1, Zenon DEF AppendCall, AppendReply

\* The fields of a snapshot call.
LEMMA SnapCallFields ==
  ASSUME SnapCallType, NEW c \in snapCalls
  PROVE  /\ c \in SnapCall /\ c.from \in Server /\ c.to \in Server /\ c.Term \in Nat
         /\ c.LastIncludeIndex \in Int /\ c.LastIncludeTerm \in Nat /\ c.Data \in Seq(Nat)
         /\ c.reply \in SnapReply /\ c.reply.Term \in Nat
<1>1. c \in SnapCall
  BY Zenon DEF SnapCallType
<1> QED BY <1>1, Zenon DEF SnapCall, SnapReply

\* An unchanged group of variables keeps its type.
LEMMA Unchanged ==
  /\ ElectType /\ UNCHANGED electVars => ElectType'
  /\ LogType /\ UNCHANGED logs => LogType'
  /\ NextType /\ UNCHANGED nextIndexs => NextType'
  /\ SnapType /\ UNCHANGED snapVars => SnapType'
  /\ ApplyType /\ UNCHANGED applyVars => ApplyType'
  /\ ModeType /\ UNCHANGED mode => ModeType'
  /\ PersistType /\ UNCHANGED persisted => PersistType'
  /\ VoteType /\ UNCHANGED voteVars => VoteType'
  /\ AppendType /\ UNCHANGED appendVars => AppendType'
  /\ SnapCallType /\ UNCHANGED snapCalls => SnapCallType'
  /\ BoundType /\ UNCHANGED boundVars => BoundType'
  /\ SnapshotBehindApplied /\ UNCHANGED <<snapVars, applyVars>> => SnapshotBehindApplied'
  BY Zenon DEF ElectType, electVars, LogType, NextType, SnapType, snapVars, ApplyType, applyVars,
         ModeType, PersistType, VoteType, voteVars, AppendType, appendVars, SnapCallType,
         BoundType, boundVars, SnapshotBehindApplied

-----------------------------------------------------------------------------
(***************************************************************************)
(* Parts of logs.                                                          *)
(***************************************************************************)
\* A part of a sequence over S is a sequence over S.
LEMMA SubSeqType ==
  ASSUME NEW S, NEW q \in Seq(S), NEW m \in Int, NEW n \in Int, m >= 1, n <= Len(q)
  PROVE  SubSeq(q, m, n) \in Seq(S)
OBVIOUS

\* Two sequences over S, one after the other, are a sequence over S.
LEMMA ConcatType ==
  ASSUME NEW S, NEW q \in Seq(S), NEW r \in Seq(S)
  PROVE  q \o r \in Seq(S) /\ Len(q \o r) = Len(q) + Len(r)
OBVIOUS

\* LastIndex, LastTerm and TermAt are well typed where the code indexes rf.logs.
LEMMA TermTypes ==
  ASSUME LogType, SnapType, NEW s \in Server
  PROVE  /\ LastIndex(s) \in Int
         /\ LastTerm(s) \in Nat
         /\ Len(logs[s]) \in Nat
         /\ \A i \in Int : lastIncludeIndex[s] <= i /\ i <= LastIndex(s) => TermAt(s, i) \in Nat
<1>1. logs[s] \in Seq(LogEntry) /\ lastIncludeIndex[s] \in Int /\ lastIncludeTerm[s] \in Nat
  BY Zenon DEF LogType, SnapType
<1>2. Len(logs[s]) \in Nat /\ \A i \in 1..Len(logs[s]) : logs[s][i].Term \in Nat
  <2>1. Len(logs[s]) \in Nat
    BY <1>1
  <2>2. \A i \in 1..Len(logs[s]) : logs[s][i] \in LogEntry
    BY <1>1
  <2> QED BY <2>1, <2>2, Zenon DEF LogEntry
<1>3. LastTerm(s) \in Nat
  <2>1. CASE logs[s] = <<>>
    BY <2>1, <1>1, Zenon DEF LastTerm
  <2>2. CASE logs[s] # <<>>
    <3>1. Len(logs[s]) # 0
      BY <2>2, <1>1
    <3> QED BY <3>1, <2>2, <1>2 DEF LastTerm
  <2> QED BY <2>1, <2>2, Zenon
<1>4. ASSUME NEW i \in Int, lastIncludeIndex[s] <= i, i <= LastIndex(s)
      PROVE  TermAt(s, i) \in Nat
  <2>1. CASE i = lastIncludeIndex[s]
    BY <2>1, <1>1, Zenon DEF TermAt
  <2>2. CASE i # lastIncludeIndex[s]
    <3>1. i - lastIncludeIndex[s] \in 1..Len(logs[s])
      BY <2>2, <1>1, <1>2, <1>4 DEF LastIndex
    <3> QED BY <3>1, <2>2, <1>2, Zenon DEF TermAt
  <2> QED BY <2>1, <2>2, Zenon
<1> QED BY <1>1, <1>2, <1>3, <1>4 DEF LastIndex

\* The log a valid request leaves behind is a log.
LEMMA AppendedType ==
  ASSUME LogType, SnapType, AppendType, NEW c \in appendCalls,
         AppendEntriesValid(c), LogsMatch(c)
  PROVE  Appended(c) \in Seq(LogEntry)
<1>1. /\ c.to \in Server /\ c.PrevLogIndex \in Int /\ c.Logs \in Seq(LogEntry)
  BY AppendCallFields, Zenon
<1>2. /\ logs[c.to] \in Seq(LogEntry) /\ lastIncludeIndex[c.to] \in Int
      /\ Len(logs[c.to]) \in Nat
  BY <1>1 DEF LogType, SnapType
<1>3. /\ c.PrevLogIndex - lastIncludeIndex[c.to] \in Int
      /\ c.PrevLogIndex - lastIncludeIndex[c.to] <= Len(logs[c.to])
  BY <1>1, <1>2 DEF LogsMatch, LastIndex
<1>4. SubSeq(logs[c.to], 1, c.PrevLogIndex - lastIncludeIndex[c.to]) \in Seq(LogEntry)
  BY <1>2, <1>3, SubSeqType
<1>5. SubSeq(logs[c.to], 1, c.PrevLogIndex - lastIncludeIndex[c.to]) \o c.Logs \in Seq(LogEntry)
  BY <1>1, <1>4
<1> QED BY <1>2, <1>5, Zenon DEF Appended

-----------------------------------------------------------------------------
(***************************************************************************)
(* The type invariant, and the steps without parts of logs.                *)
(***************************************************************************)
TypeInv == TypeOK /\ SnapshotBehindApplied

\* Make, run on an empty Persister, establishes the types.
LEMMA TypeInit == Init => TypeInv
<1> SUFFICES ASSUME Init PROVE TypeInv
  OBVIOUS
<1>1. ElectType /\ LogType /\ NextType /\ SnapType /\ ModeType
  BY DEF Init, ElectType, LogType, NextType, SnapType, ModeType, Status, Dummy, LogEntry
<1>2. ApplyType /\ PersistType
  BY DEF Init, ApplyType, PersistType, Idle, ServiceCall, Persisted, Dummy, LogEntry
<1>3. VoteType /\ AppendType /\ SnapCallType /\ BoundType
  BY BoundsAssumption DEF Init, VoteType, AppendType, SnapCallType, BoundType
<1>4. SnapshotBehindApplied
  BY DEF Init, SnapshotBehindApplied, Idle
<1> QED BY <1>1, <1>2, <1>3, <1>4, Zenon DEF TypeInv, TypeOK

\* Stepping down for a reply keeps the types of term, vote and saved state.
LEMMA TypeStepDown ==
  ASSUME TypeInv, NEW s \in Server, NEW term \in Nat, StepDown(s, term)
  PROVE  ElectType' /\ PersistType'
<1> USE DEF TypeInv, TypeOK
<1>1. ElectType'
  BY Zenon DEF StepDown, ElectType, Status
<1>2. PersistType'
  <2>1. [currentTerm |-> term, voteFor |-> None, logs |-> logs[s]] \in Persisted
    BY Zenon DEF Persisted, LogType
  <2> QED BY <2>1, Zenon DEF StepDown, PersistType
<1> QED BY <1>1, <1>2, Zenon

\* A handler that adopts a term and persists.
LEMMA TypeAdopt ==
  ASSUME ElectType, NEW s \in Server, NEW term \in Nat,
         NEW leader \in Server \union {None}, Adopt(s, term, leader)
  PROVE  ElectType'
  BY Zenon DEF Adopt, ElectType, Status

\* persist saves a well typed state.
LEMMA TypePersist ==
  ASSUME PersistType, ElectType', LogType', NEW s \in Server, persist(s)
  PROVE  PersistType'
<1>1. [currentTerm |-> currentTerm'[s], voteFor |-> voteFor'[s], logs |-> logs'[s]] \in Persisted
  BY Zenon DEF ElectType, LogType, Persisted
<1> QED BY <1>1, Zenon DEF persist, PersistType

\* Every way out of RequestVote keeps the types.
LEMMA TypeRequestVote ==
  ASSUME TypeInv, NEW c \in voteCalls, RequestVote(c)
  PROVE  TypeInv'
<1> USE DEF TypeInv, TypeOK
<1> DEFINE s == c.to
<1>1. /\ c.from \in Server /\ s \in Server /\ c.Term \in Nat
      /\ currentTerm[s] \in Nat
  BY VoteCallFields, Zenon DEF ElectType
<1>2. CASE RequestVoteOutofDate(c)
  <2>1. VoteType'
    BY <1>1, <1>2, VoteCallTypes, Zenon DEF RequestVoteOutofDate, VoteFrame, VoteType, VoteReply
  <2>2. UNCHANGED <<electVars, logs, nextIndexs, snapVars, applyVars, mode, persisted,
                    appendVars, snapCalls, boundVars>>
    BY <1>2, Zenon DEF RequestVoteOutofDate, VoteFrame
  <2> QED BY <2>1, <2>2, Unchanged, Zenon
<1>3. CASE RequestVoteLogTooOld(c)
  <2>1. VoteType'
    BY <1>1, <1>3, VoteCallTypes, Zenon DEF RequestVoteLogTooOld, VoteFrame, VoteType, VoteReply
  <2>2. ElectType'
    BY <1>1, <1>3, Zenon DEF RequestVoteLogTooOld, Adopt, ElectType, electVars, Status
  <2>3. UNCHANGED <<logs, nextIndexs, snapVars, applyVars, mode, appendVars, snapCalls, boundVars>>
    BY <1>3, Zenon DEF RequestVoteLogTooOld, VoteFrame
  <2>4. PersistType'
    BY <1>1, <1>3, <2>2, <2>3, Zenon DEF RequestVoteLogTooOld, persist, PersistType, Persisted, ElectType, LogType
  <2> QED BY <2>1, <2>2, <2>3, <2>4, Unchanged, Zenon
<1>4. CASE RequestVoteVoted(c)
  <2>1. VoteType'
    <3>1. voteCalls' \subseteq VoteCall
      BY <1>1, <1>4, VoteCallTypes, Zenon DEF RequestVoteVoted, VoteType, VoteReply
    <3>2. /\ granted \subseteq [term : Nat, voter : Server, cand : Server]
          /\ c.to \in Server /\ c.from \in Server /\ c.Term \in Nat
      BY <1>1, Zenon DEF VoteType
    <3>3. granted' \subseteq [term : Nat, voter : Server, cand : Server]
      BY <1>4, <3>2, SMTT(20) DEF RequestVoteVoted
    <3>4. UNCHANGED <<voteNum, elected>>
      BY <1>4, Zenon DEF RequestVoteVoted, VoteFrame
    <3> QED BY <3>1, <3>3, <3>4, Zenon DEF VoteType
  <2>2. ElectType'
    BY <1>1, <1>4, Zenon DEF RequestVoteVoted, ElectType, Status
  <2>3. UNCHANGED <<logs, nextIndexs, snapVars, applyVars, mode, persisted, appendVars, snapCalls, boundVars>>
    BY <1>4, Zenon DEF RequestVoteVoted, VoteFrame
  <2> QED BY <2>1, <2>2, <2>3, Unchanged, Zenon
<1>5. CASE RequestVoteGrant(c)
  <2>1. VoteType'
    <3>1. voteCalls' \subseteq VoteCall
      BY <1>1, <1>5, VoteCallTypes, Zenon DEF RequestVoteGrant, VoteType, VoteReply
    <3>2. [term |-> c.Term, voter |-> s, cand |-> c.from] \in [term : Nat, voter : Server, cand : Server]
      BY <1>1, Zenon
    <3>3. granted' \subseteq [term : Nat, voter : Server, cand : Server]
      <4>1. granted' = granted \union {[term |-> c.Term, voter |-> s, cand |-> c.from]}
        BY <1>5, Zenon DEF RequestVoteGrant
      <4> QED BY <3>2, <4>1, Zenon DEF VoteType
    <3> QED BY <3>1, <3>3, <1>5, Zenon DEF RequestVoteGrant, VoteFrame, VoteType
  <2>2. ElectType'
    BY <1>1, <1>5, Zenon DEF RequestVoteGrant, Adopt, ElectType, Status
  <2>3. UNCHANGED <<logs, nextIndexs, snapVars, applyVars, mode, appendVars, snapCalls, boundVars>>
    BY <1>5, Zenon DEF RequestVoteGrant, VoteFrame
  <2>4. PersistType'
    BY <1>1, <1>5, <2>2, <2>3, Zenon DEF RequestVoteGrant, persist, PersistType, Persisted, ElectType, LogType
  <2> QED BY <2>1, <2>2, <2>3, <2>4, Unchanged, Zenon
<1> QED BY <1>2, <1>3, <1>4, <1>5, Zenon DEF RequestVote

\* CondInstallSnapshot keeps the types, whatever it returns.
LEMMA TypeCondInstallSnapshot ==
  ASSUME TypeInv, NEW s \in Server, CondInstallSnapshot(s) \/ CondInstallSnapshotRefuse(s)
  PROVE  TypeInv'
<1> USE DEF TypeInv, TypeOK
<1>1. applier[s].index \in Int /\ applier[s].term \in Nat /\ applier[s].data \in Seq(Nat)
  BY Zenon DEF ApplyType, ServiceCall
<1>2. CASE CondInstallSnapshot(s)
  <2>1. LogType'
    <3>1. <<>> \in Seq(LogEntry)
      OBVIOUS
    <3> QED BY <3>1, <1>2, Zenon DEF CondInstallSnapshot, LogType
  <2>2. SnapType'
    BY <1>1, <1>2, Zenon DEF CondInstallSnapshot, SnapType
  <2>3. ApplyType'
    BY <1>1, <1>2, IdleType, Zenon DEF CondInstallSnapshot, ApplyType
  <2>4. SnapshotBehindApplied'
    BY SMTT(20), <1>1, <1>2 DEF CondInstallSnapshot, SnapshotBehindApplied, SnapType, ApplyType, Idle
  <2>5. UNCHANGED <<electVars, nextIndexs, mode, persisted, voteVars, appendVars, snapCalls, boundVars>>
    BY <1>2, Zenon DEF CondInstallSnapshot, ServiceFrame
  <2> QED BY <2>1, <2>2, <2>3, <2>4, <2>5, Unchanged, Zenon
<1>3. CASE CondInstallSnapshotRefuse(s)
  <2>1. ModeType'
    BY <1>3, Zenon DEF CondInstallSnapshotRefuse, ModeType
  <2>2. ApplyType'
    BY <1>3, IdleType, Zenon DEF CondInstallSnapshotRefuse, ApplyType
  <2>3. UNCHANGED <<electVars, logs, nextIndexs, snapVars, persisted, voteVars, appendVars,
                    snapCalls, boundVars>>
    BY <1>3, Zenon DEF CondInstallSnapshotRefuse, ServiceFrame
  <2>4. SnapshotBehindApplied'
    BY <1>3, Zenon DEF CondInstallSnapshotRefuse, SnapshotBehindApplied, snapVars, ApplyType, Idle
  <2> QED BY <2>1, <2>2, <2>3, <2>4, Unchanged, Zenon
<1> QED BY <1>2, <1>3, Zenon

\* Kill keeps the types.
LEMMA TypeKill ==
  ASSUME TypeInv, NEW s \in Server, Kill(s), applied' \subseteq Int \X Nat
  PROVE  TypeInv'
<1> USE DEF TypeInv, TypeOK
<1>1. VoteType'
  BY OrphanTypes, Zenon DEF Kill, VoteType
<1>2. AppendType'
  BY OrphanTypes, Zenon DEF Kill, AppendType
<1>3. SnapCallType'
  BY OrphanTypes, Zenon DEF Kill, SnapCallType
<1>4. ModeType' /\ BoundType' /\ ApplyType' /\ SnapshotBehindApplied'
  BY DEF Kill, ModeType, BoundType, ApplyType, SnapshotBehindApplied, snapVars
<1>5. UNCHANGED <<electVars, logs, nextIndexs, snapVars, persisted>>
  BY Zenon DEF Kill
<1> QED BY <1>1, <1>2, <1>3, <1>4, <1>5, Unchanged, Zenon

\* A crash of the tester keeps the types.
LEMMA Typecrash1 ==
  ASSUME TypeInv, NEW s \in Server, crash1(s)
  PROVE  TypeInv'
<1>1. applied' \subseteq Int \X Nat
  BY Zenon DEF crash1, TypeInv, TypeOK, ApplyType
<1> QED BY <1>1, TypeKill, Zenon DEF crash1

\* A restart from the Persister keeps the types: what was saved is a state of Make.
LEMMA Typestart1 ==
  ASSUME TypeInv, NEW s \in Server, start1(s)
  PROVE  TypeInv'
<1> USE DEF TypeInv, TypeOK
<1>1. persisted[s] \in Persisted
  BY Zenon DEF PersistType
<1>2. ElectType' /\ LogType' /\ ModeType'
  BY <1>1, Zenon DEF start1, Persisted, ElectType, LogType, ModeType, Status
<1>3. NextType' /\ SnapType'
  BY DEF start1, NextType, SnapType
<1>4. ApplyType'
  BY IdleType, SMTT(20) DEF start1, ApplyType
<1>5. SnapshotBehindApplied'
  BY SMTT(20) DEF start1, SnapshotBehindApplied, SnapType, ApplyType, Idle
<1>6. UNCHANGED <<persisted, voteVars, appendVars, snapCalls, boundVars>>
  BY Zenon DEF start1
<1> QED BY <1>2, <1>3, <1>4, <1>5, <1>6, Unchanged, Zenon

\* A lost reply keeps the types.
LEMMA TypeLoseReply ==
  ASSUME TypeInv, LoseReply
  PROVE  TypeInv'
<1> USE DEF TypeInv, TypeOK
<1>1. voteCalls' \subseteq VoteCall
  BY VoteCallTypes, NoReplyTypes DEF LoseReply, VoteType
<1>2. appendCalls' \subseteq AppendCall
  <2>1. \/ appendCalls' = appendCalls
        \/ \E c \in appendCalls : appendCalls' = Resend(appendCalls, c, NoAppendReply)
    BY Zenon DEF LoseReply
  <2>2. appendCalls \in SUBSET AppendCall /\ NoAppendReply \in AppendReply
    BY NoReplyTypes, Zenon DEF AppendType
  <2>3. ASSUME NEW c \in appendCalls PROVE Resend(appendCalls, c, NoAppendReply) \subseteq AppendCall
    BY <2>2, AppendCallTypes, Zenon
  <2> QED BY <2>1, <2>2, <2>3, Zenon
<1>3. snapCalls' \subseteq SnapCall
  BY SnapCallTypes, NoReplyTypes, Zenon DEF LoseReply, SnapCallType
<1>4. VoteType' /\ AppendType' /\ SnapCallType' /\ BoundType'
  BY <1>1, <1>2, <1>3 DEF LoseReply, VoteType, AppendType, SnapCallType, BoundType
<1>5. UNCHANGED <<electVars, logs, nextIndexs, snapVars, applyVars, mode, persisted>>
  BY Zenon DEF LoseReply
<1> QED BY <1>4, <1>5, Unchanged, Zenon

=============================================================================
