----------------------------- MODULE RaftProofs -----------------------------
(***************************************************************************)
(* The steps that index, cut or extend a log keep the types, and with      *)
(* RaftTypes so does every step.                                           *)
(***************************************************************************)
EXTENDS RaftTypes

-----------------------------------------------------------------------------
(***************************************************************************)
(* The apply loop and the handlers with logs.                              *)
(***************************************************************************)
\* The apply loop stays inside the log it is given.
LEMMA TypeApply ==
  ASSUME TypeInv, NEW s \in Server, NEW lg \in Seq(LogEntry), NEW target \in Int,
         Apply(s, lg, target)
  PROVE  LogType' /\ SnapType' /\ ApplyType' /\ SnapshotBehindApplied'
<1> DEFINE base  == lastIncludeIndex[s]
           first == lastApplied[s] + 1
           last  == IF target > lastApplied[s] THEN target ELSE lastApplied[s]
           sent  == [k \in 1..(last - lastApplied[s]) |-> lg[lastApplied[s] + k - base].Cmd]
           log   == svcLog[s] \o sent
           taken == {i \in first..(last - 1) :
                       SnapshotDue(i) /\ \A j \in (i + 1)..(last - 1) : ~ SnapshotDue(j)}
           cut   == IF taken = {} THEN base ELSE CHOOSE i \in taken : TRUE
           next  == [Idle EXCEPT !.op = "snapshot", !.index = last]
<1>1. /\ logs' = [logs EXCEPT ![s] = SubSeq(lg, cut - base + 1, Len(lg))]
      /\ lastIncludeIndex' = [lastIncludeIndex EXCEPT ![s] = cut]
      /\ lastIncludeTerm' = [lastIncludeTerm EXCEPT ![s] =
                               IF taken = {} THEN lastIncludeTerm[s] ELSE lg[cut - base].Term]
      /\ snapshotCmd' = [snapshotCmd EXCEPT ![s] =
                           IF taken = {} THEN snapshotCmd[s] ELSE SubSeq(log, 1, cut)]
      /\ applied' = applied \union {<<i, lg[i - base].Cmd>> : i \in first..last}
      /\ svcLog' = [svcLog EXCEPT ![s] = log]
      /\ lastApplied' = [lastApplied EXCEPT ![s] = last]
  BY Zenon DEF Apply
<1>2. /\ commitIndex' \in {commitIndex, [commitIndex EXCEPT ![s] = last]}
      /\ applier' \in {applier, [applier EXCEPT ![s] = next]}
  <2>1. commitIndex \in [Server -> Int] /\ applier \in [Server -> ServiceCall]
    BY Zenon DEF TypeInv, TypeOK, ApplyType
  <2>2. /\ commitIndex' = [commitIndex EXCEPT ![s] = IF target > lastApplied[s] THEN last ELSE commitIndex[s]]
        /\ applier' = [applier EXCEPT ![s] = IF target > lastApplied[s] /\ SnapshotDue(last)
                                             THEN next ELSE applier[s]]
    BY Zenon DEF Apply
  <2> HIDE DEF next, last
  <2> QED BY <2>1, <2>2, Zenon
<1>3. /\ base \in Int /\ lastApplied[s] \in Int /\ base <= lastApplied[s]
      /\ last \in Int /\ lastApplied[s] <= last
      /\ last > lastApplied[s] => last <= Len(lg) + base /\ Len(svcLog[s]) = lastApplied[s]
  <2>1. lastIncludeIndex[s] \in Int /\ lastApplied[s] \in Int
    BY Zenon DEF TypeInv, TypeOK, SnapType, ApplyType
  <2>2. lastIncludeIndex[s] <= lastApplied[s]
    BY Zenon DEF TypeInv, SnapshotBehindApplied
  <2>3. target > lastApplied[s] => last <= Len(lg) + base /\ Len(svcLog[s]) = lastApplied[s]
    BY Zenon DEF Apply
  <2>4. last \in Int /\ lastApplied[s] <= last /\ (last > lastApplied[s] => target > lastApplied[s])
    BY <2>1
  <2> QED BY <2>1, <2>2, <2>3, <2>4, Zenon
<1>4. /\ taken # {} => cut \in first..(last - 1)
      /\ taken = {} => cut = base
  BY Zenon
<1> HIDE DEF base, last, sent, log, taken, cut, next
<1>5. /\ Len(lg) \in Nat
      /\ \A i \in 1..Len(lg) : lg[i].Term \in Nat /\ lg[i].Cmd \in Nat
  <2>1. Len(lg) \in Nat
    OBVIOUS
  <2>2. \A i \in 1..Len(lg) : lg[i] \in LogEntry
    OBVIOUS
  <2> QED BY <2>1, <2>2, Zenon DEF LogEntry
<1>6. \A i \in first..last : i - base \in 1..Len(lg) /\ lg[i - base].Cmd \in Nat
  <2>1. \A i \in first..last : i - base \in 1..Len(lg)
    BY <1>3, <1>5
  <2> QED BY <2>1, <1>5, Zenon
<1>7. sent \in Seq(Nat) /\ Len(sent) = last - lastApplied[s] /\ log \in Seq(Nat)
      /\ Len(log) = Len(svcLog[s]) + Len(sent)
  <2>1. last - lastApplied[s] \in Nat
    BY <1>3
  <2>2. \A k \in 1..(last - lastApplied[s]) : lg[lastApplied[s] + k - base].Cmd \in Nat
    <3> TAKE k \in 1..(last - lastApplied[s])
    <3>1. lastApplied[s] + k \in first..last /\ (lastApplied[s] + k) - base = lastApplied[s] + k - base
      BY SMTT(20), <1>3
    <3> QED BY <3>1, <1>6, Zenon
  <2>3. sent \in Seq(Nat) /\ Len(sent) = last - lastApplied[s]
    BY <2>1, <2>2 DEF sent
  <2>4. svcLog[s] \in Seq(Nat)
    BY Zenon DEF TypeInv, TypeOK, ApplyType
  <2> QED BY <2>3, <2>4, ConcatType, Zenon DEF log
<1>8. /\ cut \in Int /\ base <= cut /\ cut <= last
      /\ taken # {} => cut - base \in 1..Len(lg) /\ cut <= Len(log)
  <2>1. CASE taken = {}
    BY <2>1, <1>3, <1>4
  <2>2. CASE taken # {}
    <3>1. cut \in Int /\ lastApplied[s] < cut /\ cut < last /\ cut \in first..last
      BY <2>2, <1>3, <1>4
    <3>2. cut <= Len(log)
      BY SMTT(20), <3>1, <1>3, <1>7
    <3> QED BY <3>1, <3>2, <1>3, <1>6
  <2> QED BY <2>1, <2>2, Zenon
<1>9. LogType'
  <2>1. cut - base + 1 \in Int /\ cut - base + 1 >= 1
    BY <1>3, <1>8
  <2>2. SubSeq(lg, cut - base + 1, Len(lg)) \in Seq(LogEntry)
    BY <1>5, <2>1, SubSeqType, SMTT(20)
  <2> QED BY <1>1, <2>2, Zenon DEF TypeInv, TypeOK, LogType
<1>10. SnapType'
  <2>1. taken # {} => lg[cut - base].Term \in Nat
    BY <1>5, <1>8, Zenon
  <2>2. taken # {} => SubSeq(log, 1, cut) \in Seq(Nat)
    BY <1>7, <1>8, SubSeqType
  <2> QED BY <1>1, <1>8, <2>1, <2>2, Zenon DEF TypeInv, TypeOK, SnapType
<1>11. next \in ServiceCall /\ next.op = "snapshot" /\ next.index = last
  BY <1>3, IdleType, Zenon DEF next, ServiceCall, Idle
<1>12. ApplyType'
  <2>1. applied' \subseteq Int \X Nat
    <3>1. \A i \in first..last : <<i, lg[i - base].Cmd>> \in Int \X Nat
      BY <1>3, <1>6
    <3> QED BY <1>1, <3>1, Zenon DEF TypeInv, TypeOK, ApplyType
  <2>2. svcLog' \in [Server -> Seq(Nat)]
    BY <1>1, <1>7, Zenon DEF TypeInv, TypeOK, ApplyType
  <2>3. applier' \in [Server -> ServiceCall]
    BY <1>2, <1>11, Zenon DEF TypeInv, TypeOK, ApplyType
  <2>4. lastApplied' \in [Server -> Int] /\ commitIndex' \in [Server -> Int]
    BY <1>1, <1>2, <1>3, Zenon DEF TypeInv, TypeOK, ApplyType
  <2> QED BY <2>1, <2>2, <2>3, <2>4, Zenon DEF ApplyType
<1>13. SnapshotBehindApplied'
  <2>1. ASSUME NEW p \in Server
        PROVE  /\ lastIncludeIndex'[p] <= lastApplied'[p]
               /\ applier'[p].op = "snapshot" => applier'[p].index <= lastApplied'[p]
    <3>1. /\ lastIncludeIndex[p] <= lastApplied[p] /\ applier[p].index \in Int /\ lastApplied[p] \in Int
          /\ applier[p].op = "snapshot" => applier[p].index <= lastApplied[p]
      BY Zenon DEF TypeInv, TypeOK, ApplyType, ServiceCall, SnapshotBehindApplied
    <3>2. CASE p # s
      <4>1. lastIncludeIndex'[p] = lastIncludeIndex[p] /\ lastApplied'[p] = lastApplied[p]
            /\ applier'[p] = applier[p]
        BY <3>2, <1>1, <1>2, Zenon DEF TypeInv, TypeOK, SnapType, ApplyType
      <4> QED BY <3>1, <4>1, Zenon
    <3>3. CASE p = s
      <4>1. lastIncludeIndex'[p] = cut /\ lastApplied'[p] = last
            /\ applier'[p] \in {applier[p], next}
        BY <3>3, <1>1, <1>2, Zenon DEF TypeInv, TypeOK, SnapType, ApplyType
      <4> QED BY <3>1, <3>3, <4>1, <1>3, <1>8, <1>11
    <3> QED BY <3>2, <3>3, Zenon
  <2> QED BY <2>1, Zenon DEF SnapshotBehindApplied
<1> QED BY <1>9, <1>10, <1>12, <1>13, Zenon

-----------------------------------------------------------------------------
(***************************************************************************)
(* The actions.                                                            *)
(***************************************************************************)
\* The election of ticker keeps the types.
LEMMA TypeTickerElection ==
  ASSUME TypeInv, NEW s \in Server, TickerElection(s)
  PROVE  TypeInv'
<1> USE DEF TypeInv, TypeOK
<1>1. ElectType'
  BY DEF TickerElection, ElectType, Status
<1>2. VoteType'
  <2>1. LastIndex(s) \in Int /\ LastTerm(s) \in Nat
    BY TermTypes, Zenon
  <2>2. currentTerm[s] + 1 \in Nat
    BY DEF ElectType
  <2>3. voteCalls' \subseteq VoteCall
    BY <2>1, <2>2, NoReplyTypes DEF TickerElection, VoteCall, Phase, VoteType
  <2> QED BY <2>2, <2>3 DEF TickerElection, VoteType
<1>3. PersistType'
  BY <1>1, Zenon DEF TickerElection, persist, PersistType, Persisted, ElectType, LogType
<1>4. BoundType'
  BY DEF TickerElection, BoundType
<1>5. /\ UNCHANGED <<logs, nextIndexs, snapVars, applyVars, mode, appendVars, snapCalls>>
  BY Zenon DEF TickerElection
<1> QED BY <1>1, <1>2, <1>3, <1>4, <1>5, Unchanged, Zenon

\* The heartbeat round of ticker keeps the types: the entries it copies lie in the log.
LEMMA TypeTickerHeartbeat ==
  ASSUME TypeInv, NEW s \in Server, TickerHeartbeat(s)
  PROVE  TypeInv'
<1> USE DEF TypeInv, TypeOK
<1> DEFINE behind == {p \in Server \ {s} : nextIndexs[s][p] <= lastIncludeIndex[s]}
           others == (Server \ {s}) \ behind
<1>1. /\ nextIndexs[s] \in [Server -> Int] /\ lastIncludeIndex[s] \in Int
      /\ LastIndex(s) \in Int /\ Len(logs[s]) \in Nat
      /\ LastIndex(s) = Len(logs[s]) + lastIncludeIndex[s]
      /\ \A p \in Server : Clamped(s, p) \in Int
  <2>1. nextIndexs[s] \in [Server -> Int] /\ lastIncludeIndex[s] \in Int
    BY Zenon DEF NextType, SnapType
  <2>2. LastIndex(s) \in Int /\ Len(logs[s]) \in Nat
    BY TermTypes, Zenon
  <2>3. LastIndex(s) = Len(logs[s]) + lastIncludeIndex[s]
    BY <2>1, <2>2, Zenon DEF LastIndex
  <2>4. \A p \in Server : Clamped(s, p) \in Int
    BY <2>1, <2>2 DEF Clamped
  <2> QED BY <2>1, <2>2, <2>3, <2>4, Zenon
<1>2. rounds + 1 \in 1..MaxRounds
  BY BoundsAssumption DEF TickerHeartbeat, BoundType
<1>3. ASSUME NEW p \in others
      PROVE  NewAppendCall(s, p) \in AppendCall
  <2>1. Clamped(s, p) > lastIncludeIndex[s] /\ Clamped(s, p) - 1 <= LastIndex(s)
    BY SMTT(20), <1>1, <1>3 DEF Clamped
  <2>2. TermAt(s, Clamped(s, p) - 1) \in Nat
    BY <1>1, <2>1, TermTypes
  <2>3. SubSeq(logs[s], Clamped(s, p) - lastIncludeIndex[s], Len(logs[s])) \in Seq(LogEntry)
    BY <1>1, <2>1, SubSeqType DEF LogType
  <2>4. /\ currentTerm[s] \in Nat /\ commitIndex[s] \in Int
        /\ Clamped(s, p) - 1 \in Int
    BY <1>1 DEF ElectType, ApplyType
  <2> QED BY <1>1, <1>2, <2>2, <2>3, <2>4, NoReplyTypes, Zenon DEF NewAppendCall, AppendCall, Phase
<1>4. ASSUME NEW p \in behind
      PROVE  NewSnapCall(s, p) \in SnapCall
  <2>1. /\ currentTerm[s] \in Nat /\ lastIncludeTerm[s] \in Nat
        /\ snapshotCmd[s] \in Seq(Nat)
    BY Zenon DEF ElectType, SnapType
  <2> QED BY <1>1, <1>2, <2>1, NoReplyTypes, Zenon DEF NewSnapCall, SnapCall, Phase
<1>5. AppendType'
  <2>1. appendCalls' \subseteq AppendCall
    BY <1>3, Zenon DEF TickerHeartbeat, AppendType
  <2>2. appendNum' \in [1..MaxRounds -> SUBSET Server]
    BY Zenon DEF TickerHeartbeat, AppendType
  <2> QED BY <2>1, <2>2, Zenon DEF AppendType
<1>6. SnapCallType'
  BY <1>4, Zenon DEF TickerHeartbeat, SnapCallType
<1>7. NextType'
  BY <1>1, Zenon DEF TickerHeartbeat, NextType
<1>8. BoundType'
  BY <1>2, BoundsAssumption DEF TickerHeartbeat, BoundType
<1>9. UNCHANGED <<electVars, logs, snapVars, applyVars, mode, persisted, voteVars>>
  BY Zenon DEF TickerHeartbeat
<1> QED BY <1>5, <1>6, <1>7, <1>8, <1>9, Unchanged, Zenon

\* Both critical sections of sendRequestVote keep the types.
LEMMA TypeSendRequestVote ==
  ASSUME TypeInv, NEW c \in voteCalls,
         SendRequestVoteCheck(c) \/ SendRequestVoteRefused(c) \/ SendRequestVoteCount(c)
  PROVE  TypeInv'
<1> USE DEF TypeInv, TypeOK
<1>1. c \in VoteCall /\ c.from \in Server /\ c.to \in Server /\ c.reply.Term \in Nat
  BY VoteCallFields, Zenon
<1>2. CASE SendRequestVoteCheck(c)
  <2>1. [c EXCEPT !.phase = "passed"] \in VoteCall
    BY <1>1, Zenon DEF VoteCall, Phase
  <2>2. VoteType'
    BY <2>1, <1>2, Zenon DEF SendRequestVoteCheck, VoteFrame, VoteType
  <2>3. UNCHANGED <<electVars, logs, nextIndexs, snapVars, applyVars, mode, persisted,
                    appendVars, snapCalls, boundVars>>
    BY <1>2, Zenon DEF SendRequestVoteCheck, VoteFrame
  <2> QED BY <2>2, <2>3, Unchanged, Zenon
<1>3. CASE SendRequestVoteRefused(c)
  <2>1. VoteType'
    <3>1. voteCalls' \subseteq voteCalls /\ UNCHANGED <<granted, voteNum, elected>>
      BY <1>3, Zenon DEF SendRequestVoteRefused, VoteFrame
    <3> QED BY <3>1, Zenon DEF VoteType
  <2>2. ElectType' /\ PersistType'
    BY <1>1, <1>3, TypeStepDown, Zenon DEF SendRequestVoteRefused
  <2>3. UNCHANGED <<logs, nextIndexs, snapVars, applyVars, mode, appendVars, snapCalls, boundVars>>
    BY <1>3, Zenon DEF SendRequestVoteRefused, VoteFrame
  <2> QED BY <2>1, <2>2, <2>3, Unchanged, Zenon
<1>4. CASE SendRequestVoteCount(c)
  <2>1. currentTerm[c.from] \in Nat /\ LastIndex(c.from) \in Int
    BY <1>1, TermTypes, Zenon DEF ElectType
  <2>2. VoteType'
    <3> DEFINE n == [term |-> currentTerm[c.from], leader |-> c.from]
    <3>1. /\ voteCalls' = voteCalls \ {c} /\ granted' = granted
          /\ elected' \in {elected, elected \union {n}}
      BY <1>4, Zenon DEF SendRequestVoteCount
    <3>2. n \in [term : Nat, leader : Server]
      BY <1>1, <2>1, Zenon
    <3>3. \E votes \in SUBSET Server : voteNum' = [voteNum EXCEPT ![c.from] = votes]
      <4>1. voteNum[c.from] \in SUBSET Server
        BY <1>1, Zenon DEF VoteType
      <4> QED BY <1>1, <1>4, <4>1, Zenon DEF SendRequestVoteCount
    <3> HIDE DEF n
    <3> QED BY <1>1, <3>1, <3>2, <3>3 DEF VoteType
  <2>3. ElectType'
    BY <1>1, <1>4, Zenon DEF SendRequestVoteCount, ElectType, Status
  <2>5. NextType'
    <3>1. [p \in Server |-> LastIndex(c.from) + 1] \in [Server -> Int]
      BY <2>1
    <3> QED BY <3>1, <1>1, <1>4, Zenon DEF SendRequestVoteCount, NextType
  <2>4. UNCHANGED <<logs, snapVars, applyVars, mode, persisted, appendVars, snapCalls, boundVars>>
    BY <1>4, Zenon DEF SendRequestVoteCount
  <2> QED BY <2>2, <2>3, <2>4, <2>5, Unchanged, Zenon
<1> QED BY <1>2, <1>3, <1>4, Zenon

\* Every way out of AppendEntries keeps the types and SnapshotBehindApplied.
LEMMA TypeAppendEntries ==
  ASSUME TypeInv, NEW c \in appendCalls, AppendEntries(c)
  PROVE  TypeInv'
<1> USE DEF TypeInv, TypeOK
<1> DEFINE s == c.to
<1>1. /\ c.from \in Server /\ s \in Server /\ c.Term \in Nat /\ c.LeaderCommit \in Int
      /\ currentTerm[s] \in Nat /\ lastApplied[s] \in Int
  BY AppendCallFields, Zenon DEF ElectType, ApplyType
<1>2. CASE AppendEntriesOutofDate(c)
  <2>1. [Term |-> currentTerm[s], NotMatchIndex |-> -1, AppendErr |-> "ReqOutofDate"] \in AppendReply
    BY <1>1 DEF AppendReply
  <2>2. AppendType'
    BY <2>1, <1>2, AppendCallTypes, Zenon DEF AppendEntriesOutofDate, AppendFrame, AppendType
  <2>3. UNCHANGED <<electVars, logs, nextIndexs, snapVars, applyVars, mode, persisted,
                    voteVars, snapCalls, boundVars>>
    BY <1>2, Zenon DEF AppendEntriesOutofDate, AppendFrame
  <2> QED BY <2>2, <2>3, Unchanged, Zenon
<1>3. CASE AppendEntriesReject(c)
  <2>1. [Term |-> c.Term, NotMatchIndex |-> lastApplied[s] + 1,
         AppendErr |-> IF LogsMatch(c) THEN "Commited" ELSE "LogsNotMatch"] \in AppendReply
    BY <1>1 DEF AppendReply
  <2>2. AppendType'
    BY <2>1, <1>3, AppendCallTypes, Zenon DEF AppendEntriesReject, AppendFrame, AppendType
  <2>3. ElectType'
    BY <1>1, <1>3, TypeAdopt, Zenon DEF AppendEntriesReject
  <2>4. UNCHANGED <<logs, nextIndexs, snapVars, applyVars, mode, voteVars, snapCalls, boundVars>>
    BY <1>3, Zenon DEF AppendEntriesReject, AppendFrame
  <2>5. LogType'
    BY <2>4, Unchanged, Zenon
  <2>6. PersistType'
    BY <1>1, <1>3, <2>3, <2>5, TypePersist, Zenon DEF AppendEntriesReject
  <2> QED BY <2>2, <2>3, <2>4, <2>6, Unchanged, Zenon
<1>4. CASE AppendEntriesAccept(c)
  <2>1. [Term |-> c.Term, NotMatchIndex |-> -1, AppendErr |-> "Nil"] \in AppendReply
    BY <1>1 DEF AppendReply
  <2>2. AppendType'
    BY <2>1, <1>4, AppendCallTypes, Zenon DEF AppendEntriesAccept, AppendFrame, AppendType
  <2>3. ElectType'
    BY <1>1, <1>4, TypeAdopt, Zenon DEF AppendEntriesAccept
  <2>4. LogType' /\ SnapType' /\ ApplyType' /\ SnapshotBehindApplied'
    <3>1. Appended(c) \in Seq(LogEntry)
      BY <1>4, AppendedType, Zenon DEF AppendEntriesAccept
    <3> QED BY <3>1, <1>1, <1>4, TypeApply, Zenon DEF AppendEntriesAccept
  <2>5. PersistType'
    BY <1>1, <1>4, <2>3, <2>4, TypePersist, Zenon DEF AppendEntriesAccept
  <2>6. UNCHANGED <<nextIndexs, mode, voteVars, snapCalls, boundVars>>
    BY <1>4, Zenon DEF AppendEntriesAccept, AppendFrame
  <2> QED BY <2>2, <2>3, <2>4, <2>5, <2>6, Unchanged, Zenon
<1> QED BY <1>2, <1>3, <1>4, Zenon DEF AppendEntries

\* Every way out of sendAppendEntries keeps the types and SnapshotBehindApplied.
LEMMA TypeSendAppendEntries ==
  ASSUME TypeInv, NEW c \in appendCalls, SendAppendEntries(c)
  PROVE  TypeInv'
<1> USE DEF TypeInv, TypeOK
<1> DEFINE s == c.from
<1>1. /\ s \in Server /\ c.to \in Server /\ c.round \in 1..MaxRounds /\ c.LogIndex \in Int
      /\ c.reply.Term \in Nat /\ c.reply.NotMatchIndex \in Int
  BY AppendCallFields, Zenon
<1>2. CASE SendAppendEntriesStale(c)
  <2>1. AppendType'
    BY <1>2, Zenon DEF SendAppendEntriesStale, AppendType
  <2>2. UNCHANGED <<electVars, logs, nextIndexs, snapVars, applyVars, mode, persisted,
                    voteVars, snapCalls, boundVars>>
    BY <1>2, Zenon DEF SendAppendEntriesStale, SendAppendFrame
  <2> QED BY <2>1, <2>2, Unchanged, Zenon
<1>3. CASE SendAppendEntriesSuccess(c)
  <2>1. AppendType'
    BY <1>1, <1>3, Zenon DEF SendAppendEntriesSuccess, SendAppendEntriesCurrent, AppendType
  <2>2. NextType'
    BY <1>1, <1>3 DEF SendAppendEntriesSuccess, NextType
  <2>3. LogType' /\ SnapType' /\ ApplyType' /\ SnapshotBehindApplied'
    <3>1. CASE Apply(s, logs[s], c.LogIndex)
      <4>1. logs[s] \in Seq(LogEntry)
        BY <1>1, Zenon DEF LogType
      <4> QED BY <4>1, <3>1, <1>1, TypeApply, Zenon
    <3>2. CASE UNCHANGED <<logs, snapVars, applyVars>>
      BY <3>2, Unchanged, Zenon
    <3> QED BY <1>3, <3>1, <3>2, Zenon DEF SendAppendEntriesSuccess
  <2>4. UNCHANGED <<electVars, mode, persisted, voteVars, snapCalls, boundVars>>
    BY <1>3, Zenon DEF SendAppendEntriesSuccess, SendAppendFrame
  <2> QED BY <2>1, <2>2, <2>3, <2>4, Unchanged, Zenon
<1>4. CASE SendAppendEntriesOutofDate(c)
  <2>1. AppendType'
    BY <1>4, Zenon DEF SendAppendEntriesOutofDate, SendAppendEntriesCurrent, AppendType
  <2>2. ElectType' /\ PersistType'
    BY <1>1, <1>4, TypeStepDown, Zenon DEF SendAppendEntriesOutofDate
  <2>3. UNCHANGED <<logs, nextIndexs, snapVars, applyVars, mode, voteVars, snapCalls, boundVars>>
    BY <1>4, Zenon DEF SendAppendEntriesOutofDate, SendAppendFrame
  <2> QED BY <2>1, <2>2, <2>3, Unchanged, Zenon
<1>5. ASSUME NEW err, SendAppendEntriesBackup(c, err)
      PROVE  TypeInv'
  <2>1. AppendType'
    BY <1>5, Zenon DEF SendAppendEntriesBackup, SendAppendEntriesCurrent, AppendType
  <2>2. NextType'
    BY <1>1, <1>5, Zenon DEF SendAppendEntriesBackup, NextType
  <2>3. UNCHANGED <<electVars, logs, snapVars, applyVars, mode, persisted, voteVars, snapCalls,
                    boundVars>>
    BY <1>5, Zenon DEF SendAppendEntriesBackup, SendAppendFrame
  <2> QED BY <2>1, <2>2, <2>3, Unchanged, Zenon
<1> QED BY <1>2, <1>3, <1>4, <1>5, Zenon DEF SendAppendEntries

\* InstallSnapshot keeps the types; it moves lastApplied with lastIncludeIndex.
LEMMA TypeInstallSnapshot ==
  ASSUME TypeInv, NEW c \in snapCalls, InstallSnapshot(c)
  PROVE  TypeInv'
<1> USE DEF TypeInv, TypeOK
<1> DEFINE s == c.to
<1>1. /\ c.from \in Server /\ s \in Server /\ c.Term \in Nat
      /\ c.LastIncludeIndex \in Int /\ c.LastIncludeTerm \in Nat /\ c.Data \in Seq(Nat)
      /\ currentTerm[s] \in Nat
  BY SnapCallFields, Zenon DEF ElectType
<1>2. CASE InstallSnapshotRefuse(c)
  <2>1. [Term |-> currentTerm[s],
         Err |-> IF c.Term < currentTerm[s] THEN "ReqOutofDate" ELSE "OldIndex"] \in SnapReply
    BY <1>1, Zenon DEF SnapReply
  <2>2. SnapCallType'
    BY <2>1, <1>2, SnapCallTypes, Zenon DEF InstallSnapshotRefuse, SnapCallType
  <2>3. UNCHANGED <<electVars, logs, nextIndexs, snapVars, applyVars, mode, persisted,
                    voteVars, appendVars, boundVars>>
    BY <1>2, Zenon DEF InstallSnapshotRefuse, InstallFrame
  <2> QED BY <2>2, <2>3, Unchanged, Zenon
<1>3. CASE InstallSnapshotAccept(c)
  <2>1. [Term |-> c.Term, Err |-> "Nil"] \in SnapReply
    BY <1>1, Zenon DEF SnapReply
  <2>2. SnapCallType'
    BY <2>1, <1>3, SnapCallTypes, Zenon DEF InstallSnapshotAccept, SnapCallType
  <2>3. ElectType'
    BY <1>1, <1>3, TypeAdopt, Zenon DEF InstallSnapshotAccept
  <2>4. LogType'
    <3>1. logs[s] \in Seq(LogEntry) /\ Len(logs[s]) \in Nat /\ lastIncludeIndex[s] \in Int
      BY <1>1 DEF LogType, SnapType
    <3>2. c.LastIncludeIndex - lastIncludeIndex[s] + 1 >= 1
      BY SMTT(20), <1>1, <1>3, <3>1 DEF InstallSnapshotAccept
    <3>3. SubSeq(logs[s], c.LastIncludeIndex - lastIncludeIndex[s] + 1, Len(logs[s])) \in Seq(LogEntry)
      BY <1>1, <3>1, <3>2, SubSeqType
    <3>4. <<>> \in Seq(LogEntry)
      OBVIOUS
    <3> QED BY <1>1, <1>3, <3>3, <3>4, Zenon DEF InstallSnapshotAccept, LogType
  <2>5. SnapType'
    BY <1>1, <1>3, Zenon DEF InstallSnapshotAccept, SnapType
  <2>6. ApplyType'
    <3>1. [op |-> "install", index |-> c.LastIncludeIndex, term |-> c.LastIncludeTerm,
           data |-> c.Data] \in ServiceCall
      BY <1>1, Zenon DEF ServiceCall
    <3> QED BY <3>1, <1>1, <1>3, Zenon DEF InstallSnapshotAccept, ApplyType
  <2>7. SnapshotBehindApplied'
    <3>1. /\ lastIncludeIndex' = [lastIncludeIndex EXCEPT ![c.to] = c.LastIncludeIndex]
          /\ lastApplied' = [lastApplied EXCEPT ![c.to] = c.LastIncludeIndex]
          /\ applier' = [applier EXCEPT ![c.to] = [op |-> "install", index |-> c.LastIncludeIndex,
                           term |-> c.LastIncludeTerm, data |-> c.Data]]
      BY <1>3, Zenon DEF InstallSnapshotAccept
    <3>2. /\ lastIncludeIndex \in [Server -> Int] /\ lastApplied \in [Server -> Int]
          /\ applier \in [Server -> ServiceCall] /\ c.LastIncludeIndex \in Int
      BY <1>1, Zenon DEF SnapType, ApplyType
    <3> QED BY <3>1, <3>2 DEF SnapshotBehindApplied
  <2>8. UNCHANGED <<nextIndexs, mode, persisted, voteVars, appendVars, boundVars>>
    BY <1>3, Zenon DEF InstallSnapshotAccept, InstallFrame
  <2> QED BY <2>2, <2>3, <2>4, <2>5, <2>6, <2>7, <2>8, Unchanged, Zenon
<1> QED BY <1>2, <1>3, Zenon DEF InstallSnapshot

\* sendInstallSnapshot keeps the types.
LEMMA TypeSendInstallSnapshot ==
  ASSUME TypeInv, NEW c \in snapCalls, SendInstallSnapshot(c)
  PROVE  TypeInv'
<1> USE DEF TypeInv, TypeOK
<1>1. /\ c.from \in Server /\ c.to \in Server /\ c.LastIncludeIndex + 1 \in Int
      /\ c.reply.Term \in Nat /\ LastIndex(c.from) + 1 \in Int
  BY SnapCallFields, TermTypes
<1>2. SnapCallType'
  BY Zenon DEF SendInstallSnapshot, SnapCallType
<1>3. NextType'
  BY <1>1, Zenon DEF SendInstallSnapshot, NextType
<1>4. ElectType' /\ PersistType'
  BY <1>1, TypeStepDown, Unchanged, Zenon DEF SendInstallSnapshot
<1>5. UNCHANGED <<logs, snapVars, applyVars, mode, voteVars, appendVars, boundVars>>
  BY Zenon DEF SendInstallSnapshot
<1> QED BY <1>2, <1>3, <1>4, <1>5, Unchanged, Zenon

\* Start keeps the types.
LEMMA TypeStart ==
  ASSUME TypeInv, NEW s \in Server, Start(s)
  PROVE  TypeInv'
<1> USE DEF TypeInv, TypeOK
<1>1. LogType'
  <2>1. [Term |-> currentTerm[s], Cmd |-> starts + 1] \in LogEntry
    BY DEF ElectType, BoundType, LogEntry
  <2>2. Append(logs[s], [Term |-> currentTerm[s], Cmd |-> starts + 1]) \in Seq(LogEntry)
    BY <2>1 DEF LogType
  <2> QED BY <2>2, Zenon DEF Start, LogType
<1>2. BoundType'
  BY DEF Start, BoundType
<1>3. UNCHANGED <<electVars, nextIndexs, snapVars, applyVars, mode, voteVars, appendVars, snapCalls>>
  BY Zenon DEF Start
<1>4. PersistType'
  BY <1>1, <1>3, Unchanged, TypePersist, Zenon DEF Start
<1> QED BY <1>1, <1>2, <1>3, <1>4, Unchanged, Zenon

\* Snapshot keeps the types and moves lastIncludeIndex only up to lastApplied.
LEMMA TypeSnapshot ==
  ASSUME TypeInv, NEW s \in Server, Snapshot(s)
  PROVE  TypeInv'
<1> USE DEF TypeInv, TypeOK
<1> DEFINE pos == applier[s].index - lastIncludeIndex[s]
<1>1. /\ logs[s] \in Seq(LogEntry) /\ Len(logs[s]) \in Nat /\ pos \in 1..Len(logs[s])
      /\ applier[s].index \in Int /\ applier[s].index <= lastApplied[s]
      /\ svcLog[s] \in Seq(Nat)
  BY SMTT(20) DEF Snapshot, LogType, ApplyType, ServiceCall, SnapshotBehindApplied
<1>2. LogType'
  <2>1. SubSeq(logs[s], pos + 1, Len(logs[s])) \in Seq(LogEntry)
    BY <1>1, SubSeqType
  <2> QED BY <2>1, Zenon DEF Snapshot, LogType
<1>3. SnapType'
  <2>1. logs[s][pos].Term \in Nat
    <3>1. logs[s][pos] \in LogEntry
      BY <1>1
    <3> QED BY <3>1, Zenon DEF LogEntry
  <2> QED BY <1>1, <2>1, Zenon DEF Snapshot, SnapType
<1>4. ApplyType'
  BY IdleType, Zenon DEF Snapshot, ApplyType
<1>5. SnapshotBehindApplied'
  BY <1>1, Zenon DEF Snapshot, SnapshotBehindApplied, SnapType, ApplyType, Idle
<1>6. UNCHANGED <<electVars, nextIndexs, mode, persisted, voteVars, appendVars, snapCalls, boundVars>>
  BY Zenon DEF Snapshot, ServiceFrame
<1> QED BY <1>2, <1>3, <1>4, <1>5, <1>6, Unchanged, Zenon

\* A crash in the apply loop of AppendEntries keeps the types.
LEMMA TypeCrashInAppendEntries ==
  ASSUME TypeInv, NEW c \in appendCalls, NEW k \in 1..c.LeaderCommit, CrashInAppendEntries(c, k)
  PROVE  TypeInv'
<1> USE DEF TypeInv, TypeOK
<1> DEFINE s == c.to
           base == lastIncludeIndex[s]
<1>1. /\ s \in Server /\ base \in Int /\ lastApplied[s] \in Int /\ base <= lastApplied[s]
      /\ c.LeaderCommit \in Int
  BY AppendCallFields, Zenon DEF SnapType, ApplyType, SnapshotBehindApplied
<1>2. Appended(c) \in Seq(LogEntry) /\ Len(Appended(c)) \in Nat
  BY AppendedType DEF CrashInAppendEntries
<1>3. \A i \in (lastApplied[s] + 1)..k : i \in Int /\ i - base \in 1..Len(Appended(c))
  <2>1. k \in Int /\ k <= Len(Appended(c)) + base
    BY <1>1 DEF CrashInAppendEntries
  <2> HIDE DEF base
  <2> QED BY <2>1, <1>1, <1>2
<1>4. \A i \in 1..Len(Appended(c)) : Appended(c)[i].Cmd \in Nat
  <2>1. \A i \in 1..Len(Appended(c)) : Appended(c)[i] \in LogEntry
    BY <1>2
  <2> QED BY <2>1, Zenon DEF LogEntry
<1>5. applied' \subseteq Int \X Nat
  <2>1. applied' = applied \union {<<i, Appended(c)[i - base].Cmd>> : i \in (lastApplied[s] + 1)..k}
    BY Zenon DEF CrashInAppendEntries
  <2>2. \A i \in (lastApplied[s] + 1)..k : i \in Int /\ Appended(c)[i - base].Cmd \in Nat
    <3> HIDE DEF base
    <3> QED BY <1>3, <1>4, Zenon
  <2> HIDE DEF base
  <2> QED BY <2>1, <2>2, SMTT(20) DEF ApplyType
<1> QED BY <1>1, <1>5, TypeKill, Zenon DEF CrashInAppendEntries

\* TypeInv is inductive.
LEMMA TypeNext == TypeInv /\ [Next]_vars => TypeInv'
<1> SUFFICES ASSUME TypeInv, [Next]_vars PROVE TypeInv'
  OBVIOUS
<1>1. ASSUME NEW s \in Server, ServerStep(s) PROVE TypeInv'
  BY <1>1, TypeTickerElection, TypeTickerHeartbeat, TypeStart, TypeSnapshot,
     TypeCondInstallSnapshot, Typecrash1, Typestart1, Zenon DEF ServerStep
<1>2. ASSUME NEW c \in voteCalls, VoteStep(c) PROVE TypeInv'
  BY <1>2, TypeRequestVote, TypeSendRequestVote, Zenon DEF VoteStep
<1>3. ASSUME NEW c \in appendCalls, AppendStep(c) PROVE TypeInv'
  BY <1>3, TypeAppendEntries, TypeSendAppendEntries, TypeCrashInAppendEntries, Zenon DEF AppendStep
<1>4. ASSUME NEW c \in snapCalls, SnapStep(c) PROVE TypeInv'
  BY <1>4, TypeInstallSnapshot, TypeSendInstallSnapshot, Zenon DEF SnapStep
<1>5. CASE UNCHANGED vars
  BY <1>5, Unchanged, Zenon DEF vars, TypeInv, TypeOK
<1> QED BY <1>1, <1>2, <1>3, <1>4, <1>5, TypeLoseReply, Zenon DEF Next

\* Every state of the cluster is well typed and every snapshot index is behind the
\* applied index, for any number of servers, elections, commands, crashes and
\* lost replies: no apply loop of AppendEntries or sendAppendEntries computes a
\* negative position in the log.
THEOREM TypeCorrect == Spec => [](TypeOK /\ SnapshotBehindApplied)
<1>1. TypeInv /\ [Next]_vars => TypeInv'
  BY TypeNext, Zenon
<1> QED BY <1>1, TypeInit, PTL DEF Spec, TypeInv

=============================================================================
