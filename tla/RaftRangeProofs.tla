-------------------------- MODULE RaftRangeProofs ---------------------------
(***************************************************************************)
(* Every step of Raft keeps the logs in order: proofs about RaftLog.       *)
(***************************************************************************)
EXTENDS RaftLog, RaftTypes

-----------------------------------------------------------------------------
(***************************************************************************)
(* What a step does to the requests under way.                             *)
(***************************************************************************)
\* Request c is request d after it was handled, resent or left by its sender.
CopyOf(c, d) ==
  /\ c.from = d.from /\ c.to = d.to /\ c.Term = d.Term
  /\ c.PrevLogIndex = d.PrevLogIndex /\ c.PrevLogTerm = d.PrevLogTerm /\ c.Logs = d.Logs
  /\ c.LeaderCommit = d.LeaderCommit /\ c.LogIndex = d.LogIndex
  /\ c.phase # "orphan" => d.phase # "orphan"

\* A step that sends no request.
KinCalls == \A c \in appendCalls' : \E d \in appendCalls : CopyOf(c, d)
KinSnaps == \A c \in snapCalls' : \E d \in snapCalls : c.from = d.from /\ c.to = d.to

\* A request that stays, or is dropped.
LEMMA KinLess ==
  /\ appendCalls' \subseteq appendCalls => KinCalls
  /\ snapCalls' \subseteq snapCalls => KinSnaps
  BY Zenon DEF KinCalls, KinSnaps, CopyOf

\* A request that is handled.
LEMMA KinAnswer ==
  ASSUME AppendType, NEW c \in appendCalls, NEW r, appendCalls' = Answer(appendCalls, c, r)
  PROVE  KinCalls
<1>1. c.phase # "orphan" => CopyOf([c EXCEPT !.phase = "replied", !.reply = r], c)
  <2>1. c \in AppendCall
    BY Zenon DEF AppendType
  <2> QED BY <2>1 DEF CopyOf, AppendCall
<1>2. \A d \in appendCalls : CopyOf(d, d)
  BY Zenon DEF CopyOf
<1> QED BY <1>1, <1>2, Zenon DEF KinCalls, Answer

\* A snapshot that is handled.
LEMMA KinAnswerSnap ==
  ASSUME SnapCallType, NEW c \in snapCalls, NEW r, snapCalls' = Answer(snapCalls, c, r)
  PROVE  KinSnaps
<1>1. /\ [c EXCEPT !.phase = "replied", !.reply = r].from = c.from
      /\ [c EXCEPT !.phase = "replied", !.reply = r].to = c.to
  <2>1. c \in SnapCall
    BY Zenon DEF SnapCallType
  <2> QED BY <2>1 DEF SnapCall
<1> QED BY <1>1, Zenon DEF KinSnaps, Answer

\* The requests of a server that is killed.
LEMMA KinOrphaned ==
  ASSUME AppendType, SnapCallType, NEW s \in Server,
         appendCalls' = Orphaned(appendCalls, s), snapCalls' = Orphaned(snapCalls, s)
  PROVE  /\ KinCalls /\ KinSnaps
         /\ \A c \in appendCalls' : c.phase # "orphan" => c.from # s
<1>1. \A d \in appendCalls : /\ CopyOf(d, d) /\ CopyOf([d EXCEPT !.phase = "orphan"], d)
                             /\ [d EXCEPT !.phase = "orphan"].phase = "orphan"
  <2>1. \A d \in appendCalls : d \in AppendCall
    BY Zenon DEF AppendType
  <2> QED BY <2>1 DEF CopyOf, AppendCall
<1>2. \A d \in snapCalls : /\ [d EXCEPT !.phase = "orphan"].from = d.from
                           /\ [d EXCEPT !.phase = "orphan"].to = d.to
  <2>1. \A d \in snapCalls : d \in SnapCall
    BY Zenon DEF SnapCallType
  <2> QED BY <2>1 DEF SnapCall
<1>3. \A c \in appendCalls' : \E d \in appendCalls :
         (d.from # s /\ c = d) \/ c = [d EXCEPT !.phase = "orphan"]
  BY Zenon DEF Orphaned
<1>4. \A c \in snapCalls' : \E d \in snapCalls : c = d \/ c = [d EXCEPT !.phase = "orphan"]
  BY Zenon DEF Orphaned
<1>5. KinCalls
  <2>1. ASSUME NEW c \in appendCalls' PROVE \E d \in appendCalls : CopyOf(c, d)
    <3>1. PICK d \in appendCalls : c = d \/ c = [d EXCEPT !.phase = "orphan"]
      BY <1>3, Zenon
    <3>2. CopyOf(d, d) /\ CopyOf([d EXCEPT !.phase = "orphan"], d)
      BY <1>1, Zenon
    <3> QED BY <3>1, <3>2, Zenon
  <2> QED BY <2>1, Zenon DEF KinCalls
<1>6. KinSnaps
  BY <1>2, <1>4, Zenon DEF KinSnaps
<1>7. \A c \in appendCalls' : c.phase # "orphan" => c.from # s
  BY <1>1, <1>3, Zenon
<1> QED BY <1>5, <1>6, <1>7, Zenon

\* A request whose reply is lost.
LEMMA KinResend ==
  ASSUME AppendType, SnapCallType, LoseReply
  PROVE  KinCalls /\ KinSnaps
<1>1. \A c \in appendCalls : c.phase = "replied" => CopyOf([c EXCEPT !.phase = "sent", !.reply = NoAppendReply], c)
  <2>1. \A d \in appendCalls : d \in AppendCall
    BY Zenon DEF AppendType
  <2> QED BY <2>1 DEF CopyOf, AppendCall
<1>2. \A c \in snapCalls : /\ [c EXCEPT !.phase = "sent", !.reply = NoSnapReply].from = c.from
                           /\ [c EXCEPT !.phase = "sent", !.reply = NoSnapReply].to = c.to
  <2>1. \A d \in snapCalls : d \in SnapCall
    BY Zenon DEF SnapCallType
  <2> QED BY <2>1 DEF SnapCall
<1>3. \A c : CopyOf(c, c)
  BY Zenon DEF CopyOf
<1>4. \/ appendCalls' = appendCalls
      \/ \E c \in appendCalls : c.phase = "replied" /\ appendCalls' = Resend(appendCalls, c, NoAppendReply)
  BY Zenon DEF LoseReply
<1>5. \/ snapCalls' = snapCalls
      \/ \E c \in snapCalls : snapCalls' = Resend(snapCalls, c, NoSnapReply)
  BY Zenon DEF LoseReply
<1>6. KinCalls
  BY <1>1, <1>3, <1>4, Zenon DEF KinCalls, Resend
<1>7. KinSnaps
  BY <1>2, <1>5, Zenon DEF KinSnaps, Resend
<1> QED BY <1>6, <1>7, Zenon

-----------------------------------------------------------------------------
(***************************************************************************)
(* Steps that keep RangeInv.                                               *)
(***************************************************************************)
\* A server that runs on falls behind no term, and in a term it leads its log
\* becomes no shorter.
Steady(p) ==
  /\ currentTerm[p] <= currentTerm'[p]
  /\ currentTerm'[p] = currentTerm[p] /\ Lead(currentTerm[p], p) => LastIndex(p) <= LastIndex(p)'
Ahead(p) == mode[p] # "down" => Steady(p)

\* What AppliedBound looks at, of server s.
Same(s) == /\ commitIndex'[s] = commitIndex[s] /\ lastApplied'[s] = lastApplied[s]
           /\ lastIncludeIndex'[s] = lastIncludeIndex[s] /\ logs'[s] = logs[s]
           /\ applier'[s] = applier[s]

\* The types of what RangeInv is about.
LEMMA RangeTypes ==
  ASSUME TypeInv, NEW s \in Server
  PROVE  /\ currentTerm[s] \in Nat /\ commitIndex[s] \in Int /\ lastApplied[s] \in Int
         /\ lastIncludeIndex[s] \in Int /\ logs[s] \in Seq(LogEntry) /\ Len(logs[s]) \in Nat
         /\ LastIndex(s) \in Int /\ applier[s] \in ServiceCall
<1>1. /\ currentTerm[s] \in Nat /\ commitIndex[s] \in Int /\ lastApplied[s] \in Int
      /\ lastIncludeIndex[s] \in Int /\ logs[s] \in Seq(LogEntry) /\ applier[s] \in ServiceCall
  BY Zenon DEF TypeInv, TypeOK, ElectType, ApplyType, SnapType, LogType
<1>2. LastIndex(s) \in Int /\ Len(logs[s]) \in Nat
  BY TermTypes, Zenon DEF TypeInv, TypeOK
<1> QED BY <1>1, <1>2, Zenon

\* A server that a step leaves alone stays where it was.
LEMMA AppliedSame ==
  ASSUME NEW s \in Server, Same(s)
  PROVE  (AppliedBound(s) => AppliedBound(s)') /\ LastIndex(s)' = LastIndex(s)
  BY Zenon DEF AppliedBound, Same, LastIndex

\* RangeInv is kept by a step that sends nothing, while all servers stay ahead.
LEMMA RangeMove ==
  ASSUME TypeInv, TypeInv', ElectionInv, RangeInv, KinCalls, KinSnaps,
         \A s \in Server : AppliedBound(s)' /\ Ahead(s),
         \A c \in appendCalls' : c.phase # "orphan" => (mode[c.from] # "down" => mode'[c.from] # "down")
  PROVE  RangeInv'
<1>1. ASSUME NEW c \in appendCalls' PROVE RequestFits(c)' /\ SenderAhead(c)'
  <2>1. PICK d \in appendCalls : CopyOf(c, d)
    BY <1>1, Zenon DEF KinCalls
  <2>2. RequestFits(d) /\ SenderAhead(d) /\ Lead(d.Term, d.from)
    BY Zenon DEF RangeInv, ElectionInv, OnlyElectedLead
  <2>3. RequestFits(c)
    BY <2>1, <2>2, Zenon DEF RequestFits, CopyOf
  <2>4. ASSUME c.phase # "orphan"
        PROVE  /\ mode'[c.from] # "down" /\ c.Term <= currentTerm'[c.from]
               /\ c.Term = currentTerm'[c.from] => c.LogIndex <= LastIndex(c.from)'
    <3> DEFINE p == c.from
    <3>1. /\ p \in Server /\ c.Term \in Nat /\ c.LogIndex \in Int
          /\ currentTerm[p] \in Nat /\ currentTerm'[p] \in Nat /\ LastIndex(p) \in Int /\ LastIndex(p)' \in Int
      <4>1. p \in Server /\ c.Term \in Nat /\ c.LogIndex \in Int
        BY <2>1, AppendCallFields, Zenon DEF TypeInv, TypeOK, CopyOf
      <4>2. currentTerm'[p] \in Nat /\ LastIndex(p)' \in Int
        <5>1. LogType' /\ SnapType' /\ ElectType'
          BY Zenon DEF TypeInv, TypeOK
        <5>2. currentTerm'[p] \in Nat /\ logs'[p] \in Seq(LogEntry) /\ lastIncludeIndex'[p] \in Int
          BY <4>1, <5>1, Zenon DEF LogType, SnapType, ElectType
        <5> QED BY <5>2 DEF LastIndex
      <4> QED BY <4>1, <4>2, RangeTypes, Zenon
    <3>2. /\ mode[p] # "down" /\ c.Term <= currentTerm[p]
          /\ c.Term = currentTerm[p] => c.LogIndex <= LastIndex(p)
          /\ Lead(c.Term, p)
      BY <2>1, <2>2, <2>4, Zenon DEF SenderAhead, CopyOf
    <3>3. /\ currentTerm[p] <= currentTerm'[p]
          /\ currentTerm'[p] = currentTerm[p] /\ Lead(currentTerm[p], p) => LastIndex(p) <= LastIndex(p)'
      BY <3>1, <3>2, Zenon DEF Ahead, Steady
    <3>4. mode'[p] # "down"
      BY <1>1, <2>4, <3>2, Zenon
    <3> HIDE DEF p
    <3>5. c.Term <= currentTerm'[p] /\ (c.Term = currentTerm'[p] => c.LogIndex <= LastIndex(p)')
      BY <3>1, <3>2, <3>3
    <3> QED BY <3>4, <3>5, Zenon DEF p
  <2> QED BY <2>3, <2>4, Zenon DEF SenderAhead, RequestFits
<1>2. \A c \in snapCalls' : c.from # c.to
  BY Zenon DEF KinSnaps, RangeInv
<1> QED BY <1>1, <1>2, Zenon DEF RangeInv

\* RangeInv is kept by a step that sends nothing and moves no log.
LEMMA RangeQuiet ==
  ASSUME TypeInv, TypeInv', ElectionInv, RangeInv, KinCalls, KinSnaps,
         \A p \in Server : currentTerm[p] <= currentTerm'[p],
         UNCHANGED <<logs, snapVars, applyVars, mode>>
  PROVE  RangeInv'
<1>1. \A s \in Server : Same(s)
  BY Zenon DEF Same, snapVars, applyVars
<1>2. \A s \in Server : AppliedBound(s)' /\ LastIndex(s)' = LastIndex(s)
  BY <1>1, AppliedSame, Zenon DEF RangeInv
<1>3. \A s \in Server : Ahead(s)
  BY <1>2, RangeTypes DEF Ahead, Steady
<1>4. \A p : mode'[p] = mode[p]
  BY Zenon
<1> QED BY <1>2, <1>3, <1>4, RangeMove, Zenon

-----------------------------------------------------------------------------
(***************************************************************************)
(* The actions keep RangeInv.                                              *)
(***************************************************************************)
\* How long the rest of a log is.
LEMMA SubSeqLen ==
  ASSUME NEW S, NEW q \in Seq(S), NEW m \in Int, m >= 1, m <= Len(q) + 1
  PROVE  Len(SubSeq(q, m, Len(q))) = Len(q) - m + 1
OBVIOUS

\* Terms only grow: where a sender steps down, and where a handler adopts a term.
LEMMA TermUp ==
  ASSUME TypeInv, NEW s \in Server, NEW term \in Nat, NEW leader
  PROVE  /\ StepDown(s, term) => \A p \in Server : currentTerm[p] <= currentTerm'[p]
         /\ Adopt(s, term, leader) /\ term >= currentTerm[s] =>
              \A p \in Server : currentTerm[p] <= currentTerm'[p]
         /\ UNCHANGED currentTerm => \A p \in Server : currentTerm[p] <= currentTerm'[p]
<1>1. currentTerm \in [Server -> Nat]
  BY Zenon DEF TypeInv, TypeOK, ElectType
<1> QED BY <1>1 DEF StepDown, Adopt

\* The apply loop moves lastApplied no further than the end of the log it is given,
\* and the snapshots it takes do not move that end.
LEMMA RangeApply ==
  ASSUME TypeInv, NEW s \in Server, NEW lg \in Seq(LogEntry), NEW target \in Int,
         Apply(s, lg, target), AppliedBound(s),
         lastApplied[s] = 0 \/ lastApplied[s] <= Len(lg) + lastIncludeIndex[s]
  PROVE  /\ AppliedBound(s)' /\ LastIndex(s)' = Len(lg) + lastIncludeIndex[s]
         /\ \A p \in Server \ {s} : Same(p)
<1> DEFINE base  == lastIncludeIndex[s]
           first == lastApplied[s] + 1
           last  == IF target > lastApplied[s] THEN target ELSE lastApplied[s]
           taken == {i \in first..(last - 1) :
                       SnapshotDue(i) /\ \A j \in (i + 1)..(last - 1) : ~ SnapshotDue(j)}
           cut   == IF taken = {} THEN base ELSE CHOOSE i \in taken : TRUE
           pend  == IF target > lastApplied[s] /\ SnapshotDue(last)
                    THEN [Idle EXCEPT !.op = "snapshot", !.index = last] ELSE applier[s]
<1>1. /\ logs' = [logs EXCEPT ![s] = SubSeq(lg, cut - base + 1, Len(lg))]
      /\ lastIncludeIndex' = [lastIncludeIndex EXCEPT ![s] = cut]
      /\ lastApplied' = [lastApplied EXCEPT ![s] = last]
      /\ commitIndex' = [commitIndex EXCEPT ![s] = IF target > lastApplied[s] THEN last ELSE commitIndex[s]]
      /\ applier' = [applier EXCEPT ![s] = pend]
      /\ target > lastApplied[s] => last <= Len(lg) + base
  BY Zenon DEF Apply
<1>2. /\ logs \in [Server -> Seq(LogEntry)] /\ lastIncludeIndex \in [Server -> Int]
      /\ lastApplied \in [Server -> Int] /\ commitIndex \in [Server -> Int]
      /\ applier \in [Server -> ServiceCall]
  BY Zenon DEF TypeInv, TypeOK, LogType, SnapType, ApplyType
<1>3. /\ base \in Int /\ lastApplied[s] \in Int /\ base <= lastApplied[s]
      /\ commitIndex[s] = lastApplied[s] /\ lastApplied[s] >= 0 /\ base >= -1
      /\ applier[s].op = "install" => applier[s].index >= 0
  BY <1>2, Zenon DEF AppliedBound, TypeInv, SnapshotBehindApplied
<1>4. /\ taken # {} => cut \in first..(last - 1)
      /\ taken = {} => cut = base
  BY Zenon
<1>5. pend.op = "install" => pend = applier[s]
  BY DEF Idle
<1>6. /\ logs'[s] = SubSeq(lg, cut - base + 1, Len(lg)) /\ lastIncludeIndex'[s] = cut
      /\ lastApplied'[s] = last /\ commitIndex'[s] = (IF target > lastApplied[s] THEN last ELSE commitIndex[s])
      /\ applier'[s] = pend
  BY <1>1, <1>2, Zenon
<1>7. \A p \in Server \ {s} : Same(p)
  <2> HIDE DEF base, first, last, taken, cut, pend
  <2> QED BY <1>1, <1>2, Zenon DEF Same
<1> HIDE DEF taken, cut, pend
<1>8. /\ last \in Int /\ last >= lastApplied[s] /\ cut \in Int /\ base <= cut
      /\ last = 0 \/ last <= Len(lg) + base
      /\ cut <= Len(lg) + base /\ Len(lg) \in Nat
  BY <1>1, <1>3, <1>4
<1> HIDE DEF last, first, base
<1>9. Len(SubSeq(lg, cut - base + 1, Len(lg))) = Len(lg) - (cut - base)
  <2>1. /\ cut - base + 1 \in Int /\ cut - base + 1 >= 1 /\ cut - base + 1 <= Len(lg) + 1
        /\ Len(lg) - (cut - base + 1) + 1 = Len(lg) - (cut - base)
    <3>1. cut \in Int /\ base \in Int /\ base <= cut /\ cut <= Len(lg) + base /\ Len(lg) \in Nat
      BY <1>3, <1>8, Zenon
    <3> QED BY <3>1
  <2> QED BY <2>1, SubSeqLen, Zenon
<1>10. LastIndex(s)' = Len(lg) + base
  <2>1. LastIndex(s)' = Len(lg) - (cut - base) + cut
    BY <1>6, <1>9, Zenon DEF LastIndex
  <2> QED BY <2>1, <1>3, <1>8
<1>11. AppliedBound(s)'
  <2>1. commitIndex'[s] = lastApplied'[s] /\ lastApplied'[s] >= 0 /\ lastIncludeIndex'[s] >= -1
    <3>1. target > lastApplied[s] \/ last = lastApplied[s]
      BY DEF last
    <3> QED BY <1>3, <1>6, <1>8, <3>1
  <2>2. lastApplied'[s] = 0 \/ lastApplied'[s] <= LastIndex(s)'
    BY <1>6, <1>8, <1>10, Zenon
  <2>3. applier'[s].op = "install" => applier'[s].index >= 0
    BY <1>3, <1>5, <1>6, Zenon
  <2> QED BY <2>1, <2>2, <2>3, Zenon DEF AppliedBound
<1> QED BY <1>7, <1>10, <1>11, Zenon DEF base

\* An election moves no log.
LEMMA RangeTickerElection ==
  ASSUME TypeInv, TypeInv', ElectionInv, RangeInv, NEW s \in Server, TickerElection(s)
  PROVE  RangeInv'
<1>1. UNCHANGED <<logs, snapVars, applyVars, mode, appendCalls, snapCalls>>
  BY Zenon DEF TickerElection, appendVars
<1>2. currentTerm \in [Server -> Nat] /\ currentTerm' = [currentTerm EXCEPT ![s] = currentTerm[s] + 1]
  BY Zenon DEF TickerElection, TypeInv, TypeOK, ElectType
<1>3. \A p \in Server : currentTerm[p] <= currentTerm'[p]
  BY <1>2
<1> QED BY <1>1, <1>3, KinLess, RangeQuiet, Zenon

\* What a round of heartbeats sends fits the log of its sender.
LEMMA NewCallFits ==
  ASSUME TypeInv, RangeInv, NEW s \in Server, NEW p \in Server \ {s},
         nextIndexs[s][p] > lastIncludeIndex[s], mode[s] # "down"
  PROVE  RequestFits(NewAppendCall(s, p)) /\ SenderAhead(NewAppendCall(s, p))
<1> DEFINE c == NewAppendCall(s, p)
           next == Clamped(s, p)
<1>1. /\ nextIndexs[s][p] \in Int /\ logs[s] \in Seq(LogEntry) /\ Len(logs[s]) \in Nat
      /\ lastIncludeIndex[s] \in Int /\ LastIndex(s) = Len(logs[s]) + lastIncludeIndex[s]
      /\ commitIndex[s] \in Int /\ currentTerm[s] \in Nat
  BY RangeTypes, Zenon DEF TypeInv, TypeOK, NextType, LastIndex
<1>2. /\ c.from = s /\ c.to = p /\ c.Term = currentTerm[s] /\ c.PrevLogIndex = next - 1
      /\ c.Logs = SubSeq(logs[s], next - lastIncludeIndex[s], Len(logs[s]))
      /\ c.LeaderCommit = commitIndex[s] /\ c.LogIndex = LastIndex(s)
  BY Zenon DEF NewAppendCall
<1> HIDE DEF c
<1>3. /\ next \in Int /\ next - lastIncludeIndex[s] \in Int
      /\ next - lastIncludeIndex[s] >= 1 /\ next - lastIncludeIndex[s] <= Len(logs[s]) + 1
  BY <1>1 DEF Clamped
<1> HIDE DEF next
<1>4. Len(c.Logs) = Len(logs[s]) - (next - lastIncludeIndex[s]) + 1
  <2>1. Len(SubSeq(logs[s], next - lastIncludeIndex[s], Len(logs[s])))
          = Len(logs[s]) - (next - lastIncludeIndex[s]) + 1
    BY <1>1, <1>3, SubSeqLen, Zenon
  <2> QED BY <1>2, <2>1, Zenon
<1>5. c.PrevLogIndex + Len(c.Logs) = c.LogIndex
  <2>1. Len(logs[s]) \in Nat /\ next \in Int /\ lastIncludeIndex[s] \in Int
    BY <1>1, <1>3, Zenon
  <2>2. (next - 1) + (Len(logs[s]) - (next - lastIncludeIndex[s]) + 1) = Len(logs[s]) + lastIncludeIndex[s]
    BY <2>1
  <2>3. c.PrevLogIndex = next - 1 /\ c.LogIndex = Len(logs[s]) + lastIncludeIndex[s]
    BY <1>1, <1>2, Zenon
  <2> QED BY <1>4, <2>2, <2>3, Zenon
<1>6. c.LeaderCommit <= 0 \/ c.LeaderCommit <= c.LogIndex
  <2>1. commitIndex[s] = lastApplied[s] /\ (lastApplied[s] = 0 \/ lastApplied[s] <= LastIndex(s))
    BY Zenon DEF RangeInv, AppliedBound
  <2> QED BY <1>1, <1>2, <2>1
<1>7. c.from # c.to
  BY <1>2, Zenon
<1>8. c.Term <= currentTerm[c.from] /\ c.LogIndex <= LastIndex(c.from)
  BY <1>1, <1>2
<1>9. mode[c.from] # "down"
  BY <1>2, Zenon
<1> QED BY <1>5, <1>6, <1>7, <1>8, <1>9, Zenon DEF RequestFits, SenderAhead, c

\* A round of heartbeats keeps RangeInv.
LEMMA RangeTickerHeartbeat ==
  ASSUME TypeInv, RangeInv, NEW s \in Server, TickerHeartbeat(s)
  PROVE  RangeInv'
<1> DEFINE behind == {p \in Server \ {s} : nextIndexs[s][p] <= lastIncludeIndex[s]}
           others == (Server \ {s}) \ behind
<1>1. /\ UNCHANGED <<logs, snapVars, applyVars, mode, currentTerm>> /\ mode[s] # "down"
      /\ snapCalls' = snapCalls \union {NewSnapCall(s, p) : p \in behind}
      /\ appendCalls' = appendCalls \union {NewAppendCall(s, p) : p \in others}
  BY Zenon DEF TickerHeartbeat, electVars
<1>2. \A p \in Server : AppliedBound(p)'
  BY <1>1, AppliedSame, Zenon DEF RangeInv, Same, snapVars, applyVars
<1>3. \A p \in others : nextIndexs[s][p] > lastIncludeIndex[s]
  <2>1. \A p \in others : p \in Server /\ ~ (nextIndexs[s][p] <= lastIncludeIndex[s])
    BY Zenon
  <2>2. lastIncludeIndex[s] \in Int /\ \A p \in Server : nextIndexs[s][p] \in Int
    BY Zenon DEF TypeInv, TypeOK, NextType, SnapType
  <2> QED BY <2>1, <2>2
<1>4. \A c \in appendCalls' : RequestFits(c) /\ SenderAhead(c)
  BY <1>1, <1>3, NewCallFits, Zenon DEF RangeInv
<1>5. \A c \in appendCalls' : SenderAhead(c)'
  BY <1>1, <1>4, Zenon DEF SenderAhead, LastIndex, snapVars
<1>6. \A p \in behind : NewSnapCall(s, p).from # NewSnapCall(s, p).to
  BY DEF NewSnapCall
<1>7. \A c \in snapCalls' : c.from # c.to
  BY <1>1, <1>6, Zenon DEF RangeInv
<1> QED BY <1>2, <1>4, <1>5, <1>7, Zenon DEF RangeInv, RequestFits

\* RequestVote and sendRequestVote move no log.
LEMMA RangeVote ==
  ASSUME TypeInv, TypeInv', ElectionInv, RangeInv, NEW c \in voteCalls, VoteStep(c)
  PROVE  RangeInv'
<1>1. /\ c.from \in Server /\ c.to \in Server /\ c.Term \in Nat /\ c.reply.Term \in Nat
  BY VoteCallFields, Zenon DEF TypeInv, TypeOK
<1>2. UNCHANGED <<logs, snapVars, applyVars, mode, appendCalls, snapCalls>>
  BY Zenon DEF VoteStep, RequestVote, RequestVoteOutofDate, RequestVoteLogTooOld, RequestVoteVoted,
     RequestVoteGrant, SendRequestVoteCheck, SendRequestVoteRefused, SendRequestVoteCount,
     VoteFrame, appendVars
<1>3. \/ UNCHANGED currentTerm \/ StepDown(c.from, c.reply.Term)
      \/ \E x : Adopt(c.to, c.Term, x) /\ c.Term >= currentTerm[c.to]
  BY Zenon DEF VoteStep, RequestVote, RequestVoteOutofDate, RequestVoteLogTooOld, RequestVoteVoted,
     RequestVoteGrant, SendRequestVoteCheck, SendRequestVoteRefused, SendRequestVoteCount, electVars
<1>4. \A p \in Server : currentTerm[p] <= currentTerm'[p]
  BY <1>1, <1>3, TermUp, Zenon
<1> QED BY <1>2, <1>4, KinLess, RangeQuiet, Zenon

\* What a valid request leaves of the log ends where the request says, or where
\* the log did.
LEMMA AppendedEnd ==
  ASSUME TypeInv, RangeInv, NEW c \in appendCalls, AppendEntriesValid(c), LogsMatch(c)
  PROVE  /\ c.Logs # <<>> => Len(Appended(c)) + lastIncludeIndex[c.to] = c.LogIndex
         /\ c.Logs = <<>> => /\ Len(Appended(c)) + lastIncludeIndex[c.to] = LastIndex(c.to)
                             /\ c.LogIndex = c.PrevLogIndex
         /\ c.PrevLogIndex <= c.LogIndex /\ c.PrevLogIndex <= LastIndex(c.to)
<1> DEFINE base == lastIncludeIndex[c.to]
           n == Len(logs[c.to])
<1>1. /\ c.to \in Server /\ c.PrevLogIndex \in Int /\ c.Logs \in Seq(LogEntry) /\ c.LogIndex \in Int
  BY AppendCallFields, Zenon DEF TypeInv, TypeOK
<1>2. base \in Int /\ logs[c.to] \in Seq(LogEntry) /\ n \in Nat /\ LastIndex(c.to) = n + base
  BY <1>1, RangeTypes, Zenon DEF LastIndex
<1>3. base <= c.PrevLogIndex /\ c.PrevLogIndex <= n + base /\ c.PrevLogIndex + Len(c.Logs) = c.LogIndex
  <2>1. c.PrevLogIndex >= base /\ c.PrevLogIndex <= LastIndex(c.to) /\ RequestFits(c)
    BY Zenon DEF AppendEntriesValid, LogsMatch, RangeInv
  <2> HIDE DEF base, n
  <2> QED BY <2>1, <1>1, <1>2 DEF RequestFits
<1>4. Len(c.Logs) \in Nat /\ (c.Logs = <<>> => Len(c.Logs) = 0)
  BY <1>1
<1>5. CASE c.Logs # <<>>
  <2>1. Appended(c) = SubSeq(logs[c.to], 1, c.PrevLogIndex - base) \o c.Logs
    BY <1>5, Zenon DEF Appended
  <2>2. /\ SubSeq(logs[c.to], 1, c.PrevLogIndex - base) \in Seq(LogEntry)
        /\ Len(SubSeq(logs[c.to], 1, c.PrevLogIndex - base)) = c.PrevLogIndex - base
    <3>1. c.PrevLogIndex - base \in 0..n
      <4> HIDE DEF base, n
      <4> QED BY <1>1, <1>2, <1>3
    <3> HIDE DEF base
    <3> QED BY <1>2, <3>1
  <2>3. Len(Appended(c)) = (c.PrevLogIndex - base) + Len(c.Logs)
    BY <1>1, <2>1, <2>2, ConcatType, Zenon
  <2> HIDE DEF base, n
  <2>4. Len(Appended(c)) + base = c.LogIndex /\ c.PrevLogIndex <= c.LogIndex
    BY <1>1, <1>2, <1>3, <1>4, <2>3
  <2> QED BY <1>2, <1>3, <1>5, <2>4, Zenon DEF base
<1>6. CASE c.Logs = <<>>
  <2>1. Appended(c) = logs[c.to]
    BY <1>6, Zenon DEF Appended
  <2> HIDE DEF base
  <2>2. Len(Appended(c)) + base = LastIndex(c.to) /\ c.LogIndex = c.PrevLogIndex /\ c.PrevLogIndex <= c.LogIndex
    BY <1>1, <1>2, <1>3, <1>4, <1>6, <2>1
  <2> QED BY <1>2, <1>3, <1>6, <2>2, Zenon DEF base
<1> QED BY <1>5, <1>6, Zenon

\* A server takes no request of the term it leads in from another one.
LEMMA NotFromMyself ==
  ASSUME ElectionInv, NEW c \in appendCalls \union snapCalls, c.from # c.to
  PROVE  ~ Lead(c.Term, c.to)
<1>1. Lead(c.Term, c.from)
  BY Zenon DEF ElectionInv, OnlyElectedLead
<1>2. /\ [term |-> c.Term, leader |-> c.from].term = [term |-> c.Term, leader |-> c.to].term
      /\ [term |-> c.Term, leader |-> c.from].leader = c.from
      /\ [term |-> c.Term, leader |-> c.to].leader = c.to
  OBVIOUS
<1> QED BY <1>1, <1>2, Zenon DEF ElectionInv, ElectionSafety, Lead

\* A handler that takes over the term of another leader may do what it likes to the
\* log of its server.
LEMMA AdoptSteady ==
  ASSUME TypeInv, NEW s \in Server, NEW term \in Nat, NEW leader, Adopt(s, term, leader),
         term >= currentTerm[s], ~ Lead(term, s), \A p \in Server \ {s} : Same(p)
  PROVE  \A p \in Server : Steady(p)
<1>1. /\ currentTerm \in [Server -> Nat] /\ currentTerm' = [currentTerm EXCEPT ![s] = term]
  BY Zenon DEF TypeInv, TypeOK, ElectType, Adopt
<1>2. currentTerm'[s] = term /\ currentTerm[s] <= currentTerm'[s]
  BY <1>1
<1>3. Steady(s)
  BY <1>2, Zenon DEF Steady
<1>4. ASSUME NEW p \in Server \ {s} PROVE Steady(p)
  <2>1. currentTerm'[p] = currentTerm[p] /\ currentTerm[p] \in Nat
    BY <1>1, Zenon
  <2>2. LastIndex(p)' = LastIndex(p) /\ LastIndex(p) \in Int
    BY <1>4, AppliedSame, RangeTypes, Zenon
  <2>3. currentTerm[p] <= currentTerm'[p] /\ LastIndex(p) <= LastIndex(p)'
    BY <2>1, <2>2
  <2> QED BY <2>3, Zenon DEF Steady
<1> QED BY <1>3, <1>4, Zenon

\* AppendEntries keeps RangeInv.
LEMMA RangeAppendEntries ==
  ASSUME TypeInv, TypeInv', ElectionInv, RangeInv, NEW c \in appendCalls, AppendEntries(c)
  PROVE  RangeInv'
<1>1. /\ c.to \in Server /\ c.Term \in Nat /\ c.LeaderCommit \in Int /\ AppendType /\ SnapCallType
  BY AppendCallFields, Zenon DEF TypeInv, TypeOK
<1>2. KinCalls /\ KinSnaps
  <2>1. \E r : appendCalls' = Answer(appendCalls, c, r)
    BY Zenon DEF AppendEntries, AppendEntriesOutofDate, AppendEntriesReject, AppendEntriesAccept
  <2>2. snapCalls' = snapCalls
    BY Zenon DEF AppendEntries, AppendEntriesOutofDate, AppendEntriesReject, AppendEntriesAccept, AppendFrame
  <2> QED BY <1>1, <2>1, <2>2, KinAnswer, KinLess, Zenon
<1>3. CASE AppendEntriesOutofDate(c) \/ AppendEntriesReject(c)
  <2>1. UNCHANGED <<logs, snapVars, applyVars, mode>>
    BY <1>3, Zenon DEF AppendEntriesOutofDate, AppendEntriesReject
  <2>2. UNCHANGED currentTerm \/ (Adopt(c.to, c.Term, c.from) /\ c.Term >= currentTerm[c.to])
    BY <1>3, Zenon DEF AppendEntriesOutofDate, AppendEntriesReject, AppendEntriesValid, electVars
  <2>3. \A p \in Server : currentTerm[p] <= currentTerm'[p]
    BY <1>1, <2>2, TermUp, Zenon
  <2> QED BY <1>2, <2>1, <2>3, RangeQuiet, Zenon
<1>4. CASE AppendEntriesAccept(c)
  <2> DEFINE s == c.to
  <2>1. /\ AppendEntriesValid(c) /\ LogsMatch(c) /\ lastApplied[s] <= c.PrevLogIndex
        /\ Adopt(s, c.Term, c.from) /\ c.Term >= currentTerm[s]
        /\ Apply(s, Appended(c), c.LeaderCommit) /\ mode' = mode
    BY <1>4, Zenon DEF AppendEntriesAccept, AppendEntriesValid
  <2>2. Appended(c) \in Seq(LogEntry)
    BY <2>1, AppendedType, Zenon DEF TypeInv, TypeOK
  <2>3. AppliedBound(s) /\ c.from # c.to
    BY <1>1, Zenon DEF RangeInv, RequestFits
  <2>4. lastApplied[s] = 0 \/ lastApplied[s] <= Len(Appended(c)) + lastIncludeIndex[s]
    <3>1. /\ lastApplied[s] \in Int /\ c.PrevLogIndex \in Int /\ c.LogIndex \in Int
          /\ LastIndex(s) \in Int
      BY <1>1, RangeTypes, AppendCallFields, Zenon
    <3>2. \/ Len(Appended(c)) + lastIncludeIndex[s] = c.LogIndex /\ c.PrevLogIndex <= c.LogIndex
          \/ Len(Appended(c)) + lastIncludeIndex[s] = LastIndex(s) /\ c.PrevLogIndex <= LastIndex(s)
      BY <2>1, AppendedEnd, Zenon
    <3> HIDE DEF s
    <3> QED BY <2>1, <3>1, <3>2
  <2>5. AppliedBound(s)' /\ \A p \in Server \ {s} : Same(p)
    BY <1>1, <2>1, <2>2, <2>3, <2>4, RangeApply, Zenon
  <2>6. \A p \in Server : AppliedBound(p)'
    BY <2>5, AppliedSame, Zenon DEF RangeInv
  <2>7. \A p \in Server : Ahead(p)
    BY <1>1, <2>1, <2>3, <2>5, NotFromMyself, AdoptSteady, Zenon DEF Ahead
  <2>8. \A p : mode'[p] = mode[p]
    BY <2>1, Zenon
  <2> QED BY <1>2, <2>6, <2>7, <2>8, RangeMove, Zenon
<1> QED BY <1>3, <1>4, Zenon DEF AppendEntries

\* sendAppendEntries keeps RangeInv: a leader commits what it still holds.
LEMMA RangeSendAppendEntries ==
  ASSUME TypeInv, TypeInv', ElectionInv, RangeInv, NEW c \in appendCalls, SendAppendEntries(c)
  PROVE  RangeInv'
<1>1. /\ c.from \in Server /\ c.reply.Term \in Nat /\ c.LogIndex \in Int
  BY AppendCallFields, Zenon DEF TypeInv, TypeOK
<1>2. /\ KinCalls /\ KinSnaps /\ mode' = mode
  <2>1. appendCalls' \subseteq appendCalls
    BY Zenon DEF SendAppendEntries, SendAppendEntriesStale, SendAppendEntriesSuccess,
       SendAppendEntriesOutofDate, SendAppendEntriesBackup, SendAppendEntriesCurrent
  <2>2. snapCalls' = snapCalls /\ mode' = mode
    BY Zenon DEF SendAppendEntries, SendAppendEntriesStale, SendAppendEntriesSuccess,
       SendAppendEntriesOutofDate, SendAppendEntriesBackup, SendAppendFrame
  <2> QED BY <2>1, <2>2, KinLess, Zenon
<1>3. \/ UNCHANGED <<logs, snapVars, applyVars>> /\ (UNCHANGED currentTerm \/ StepDown(c.from, c.reply.Term))
      \/ UNCHANGED currentTerm /\ Apply(c.from, logs[c.from], c.LogIndex)
  BY Zenon DEF SendAppendEntries, SendAppendEntriesStale, SendAppendEntriesSuccess,
     SendAppendEntriesOutofDate, SendAppendEntriesBackup, electVars
<1>4. \A p \in Server : currentTerm[p] <= currentTerm'[p]
  BY <1>1, <1>3, TermUp, Zenon
<1>5. CASE UNCHANGED <<logs, snapVars, applyVars>>
  BY <1>2, <1>4, <1>5, RangeQuiet, Zenon
<1>6. CASE Apply(c.from, logs[c.from], c.LogIndex)
  <2> DEFINE s == c.from
  <2>1. /\ AppliedBound(s) /\ LastIndex(s) = Len(logs[s]) + lastIncludeIndex[s] /\ logs[s] \in Seq(LogEntry)
    BY <1>1, RangeTypes, Zenon DEF RangeInv, LastIndex
  <2>2. lastApplied[s] = 0 \/ lastApplied[s] <= Len(logs[s]) + lastIncludeIndex[s]
    BY <2>1, Zenon DEF AppliedBound
  <2>3. AppliedBound(s)' /\ LastIndex(s)' = LastIndex(s) /\ \A p \in Server \ {s} : Same(p)
    BY <1>1, <1>6, <2>1, <2>2, RangeApply, Zenon
  <2>4. \A p \in Server : AppliedBound(p)' /\ LastIndex(p)' = LastIndex(p)
    BY <2>3, AppliedSame, Zenon DEF RangeInv
  <2>5. \A p \in Server : LastIndex(p) <= LastIndex(p)'
    BY <2>4, RangeTypes
  <2>6. \A p \in Server : Ahead(p)
    BY <1>4, <2>5, Zenon DEF Ahead, Steady
  <2>7. \A p : mode'[p] = mode[p]
    BY <1>2, Zenon
  <2> QED BY <1>2, <2>4, <2>6, <2>7, RangeMove, Zenon
<1> QED BY <1>3, <1>5, <1>6, Zenon

\* InstallSnapshot keeps RangeInv: lastApplied and the end of the log move together.
LEMMA RangeInstallSnapshot ==
  ASSUME TypeInv, TypeInv', ElectionInv, RangeInv, NEW c \in snapCalls, InstallSnapshot(c)
  PROVE  RangeInv'
<1>1. /\ c.to \in Server /\ c.Term \in Nat /\ c.LastIncludeIndex \in Int /\ SnapCallType
  BY SnapCallFields, Zenon DEF TypeInv, TypeOK
<1>2. KinCalls /\ KinSnaps /\ mode' = mode
  <2>1. \E r : snapCalls' = Answer(snapCalls, c, r)
    BY Zenon DEF InstallSnapshot, InstallSnapshotRefuse, InstallSnapshotAccept
  <2>2. appendCalls' = appendCalls /\ mode' = mode
    BY Zenon DEF InstallSnapshot, InstallSnapshotRefuse, InstallSnapshotAccept, InstallFrame, appendVars
  <2> QED BY <1>1, <2>1, <2>2, KinAnswerSnap, KinLess, Zenon
<1>3. CASE InstallSnapshotRefuse(c)
  <2>1. UNCHANGED <<logs, snapVars, applyVars, mode, currentTerm>>
    BY <1>2, <1>3, Zenon DEF InstallSnapshotRefuse, electVars
  <2> QED BY <1>1, <1>2, <2>1, TermUp, RangeQuiet, Zenon
<1>4. CASE InstallSnapshotAccept(c)
  <2> DEFINE s == c.to
             i == c.LastIncludeIndex
             m == [op |-> "install", index |-> c.LastIncludeIndex, term |-> c.LastIncludeTerm, data |-> c.Data]
             lg == IF LastIndex(s) <= i THEN <<>> ELSE SubSeq(logs[s], i - lastIncludeIndex[s] + 1, Len(logs[s]))
  <2>1. /\ Adopt(s, c.Term, c.from) /\ c.Term >= currentTerm[s] /\ i > lastIncludeIndex[s]
        /\ logs' = [logs EXCEPT ![s] = lg]
        /\ lastIncludeIndex' = [lastIncludeIndex EXCEPT ![s] = i]
        /\ lastApplied' = [lastApplied EXCEPT ![s] = i] /\ commitIndex' = [commitIndex EXCEPT ![s] = i]
        /\ applier' = [applier EXCEPT ![s] = m]
    BY <1>4, Zenon DEF InstallSnapshotAccept
  <2>2. /\ logs \in [Server -> Seq(LogEntry)] /\ lastIncludeIndex \in [Server -> Int]
        /\ lastApplied \in [Server -> Int] /\ commitIndex \in [Server -> Int]
        /\ applier \in [Server -> ServiceCall] /\ logs' \in [Server -> Seq(LogEntry)]
    BY Zenon DEF TypeInv, TypeOK, LogType, SnapType, ApplyType
  <2>3. m.index = i /\ i >= 0
    <3>1. m.index = i
      BY Zenon
    <3>2. lastIncludeIndex[s] >= -1 /\ lastIncludeIndex[s] \in Int
      BY <1>1, <2>2, Zenon DEF RangeInv, AppliedBound
    <3> QED BY <1>1, <2>1, <3>1, <3>2
  <2> HIDE DEF lg, m
  <2>4. /\ logs'[s] \in Seq(LogEntry) /\ lastIncludeIndex'[s] = i /\ lastApplied'[s] = i
        /\ commitIndex'[s] = i /\ applier'[s] = m
    BY <1>1, <2>1, <2>2, Zenon
  <2>5. \A p \in Server \ {s} : Same(p)
    BY <2>1, <2>2, Zenon DEF Same
  <2>6. AppliedBound(s)'
    <3>1. lastApplied'[s] <= LastIndex(s)' /\ lastApplied'[s] >= 0 /\ lastIncludeIndex'[s] >= -1
      <4>1. Len(logs'[s]) \in Nat /\ LastIndex(s)' = Len(logs'[s]) + i
        BY <2>4 DEF LastIndex
      <4> QED BY <1>1, <2>3, <2>4, <4>1
    <3> QED BY <2>3, <2>4, <3>1, Zenon DEF AppliedBound
  <2>7. \A p \in Server : AppliedBound(p)'
    BY <2>5, <2>6, AppliedSame, Zenon DEF RangeInv
  <2>8. \A p \in Server : Ahead(p)
    <3>1. c.from # c.to
      BY Zenon DEF RangeInv
    <3> QED BY <1>1, <2>1, <2>5, <3>1, NotFromMyself, AdoptSteady, Zenon DEF Ahead
  <2>9. \A p : mode'[p] = mode[p]
    BY <1>2, Zenon
  <2> QED BY <1>2, <2>7, <2>8, <2>9, RangeMove, Zenon
<1> QED BY <1>3, <1>4, Zenon DEF InstallSnapshot

\* sendInstallSnapshot moves no log.
LEMMA RangeSendInstallSnapshot ==
  ASSUME TypeInv, TypeInv', ElectionInv, RangeInv, NEW c \in snapCalls, SendInstallSnapshot(c)
  PROVE  RangeInv'
<1>1. c.from \in Server /\ c.reply.Term \in Nat
  BY SnapCallFields, Zenon DEF TypeInv, TypeOK
<1>2. UNCHANGED <<logs, snapVars, applyVars, mode, appendCalls>> /\ snapCalls' \subseteq snapCalls
  BY Zenon DEF SendInstallSnapshot, appendVars
<1>3. UNCHANGED currentTerm \/ StepDown(c.from, c.reply.Term)
  BY Zenon DEF SendInstallSnapshot, electVars
<1>4. \A p \in Server : currentTerm[p] <= currentTerm'[p]
  BY <1>1, <1>3, TermUp, Zenon
<1> QED BY <1>2, <1>4, KinLess, RangeQuiet, Zenon

\* A step of one server that makes its log no shorter and keeps AppliedBound.
LEMMA RangeOneServer ==
  ASSUME TypeInv, TypeInv', ElectionInv, RangeInv, NEW s \in Server,
         UNCHANGED <<currentTerm, appendCalls, snapCalls>>,
         \A p \in Server : mode[p] # "down" => mode'[p] # "down",
         \A p \in Server \ {s} : Same(p),
         AppliedBound(s)', LastIndex(s) <= LastIndex(s)'
  PROVE  RangeInv'
<1>1. \A p \in Server : AppliedBound(p)'
  BY AppliedSame, Zenon DEF RangeInv
<1>2. \A p \in Server : LastIndex(p) <= LastIndex(p)' /\ currentTerm[p] <= currentTerm'[p]
  <2>1. \A p \in Server \ {s} : LastIndex(p)' = LastIndex(p)
    BY AppliedSame, Zenon
  <2> QED BY <2>1, RangeTypes
<1>3. \A p \in Server : Ahead(p)
  BY <1>2, Zenon DEF Ahead, Steady
<1>4. \A c \in appendCalls' : c.from \in Server
  BY AppendCallFields, Zenon DEF TypeInv, TypeOK
<1> QED BY <1>1, <1>3, <1>4, KinLess, RangeMove, Zenon

\* Start makes the log longer.
LEMMA RangeStart ==
  ASSUME TypeInv, TypeInv', ElectionInv, RangeInv, NEW s \in Server, Start(s)
  PROVE  RangeInv'
<1> DEFINE e == [Term |-> currentTerm[s], Cmd |-> starts + 1]
<1>1. /\ logs' = [logs EXCEPT ![s] = Append(logs[s], e)]
      /\ UNCHANGED <<currentTerm, appendCalls, snapCalls, mode, lastIncludeIndex, commitIndex, lastApplied, applier>>
  BY Zenon DEF Start, electVars, appendVars, snapVars, applyVars
<1> HIDE DEF e
<1>2. logs \in [Server -> Seq(LogEntry)] /\ logs' \in [Server -> Seq(LogEntry)]
  BY Zenon DEF TypeInv, TypeOK, LogType
<1>3. \A p \in Server \ {s} : Same(p)
  BY <1>1, <1>2, Zenon DEF Same
<1>4. LastIndex(s)' = LastIndex(s) + 1
  <2>1. logs'[s] = Append(logs[s], e) /\ logs[s] \in Seq(LogEntry) /\ lastIncludeIndex'[s] = lastIncludeIndex[s]
    BY <1>1, <1>2, Zenon
  <2>2. Len(logs'[s]) = Len(logs[s]) + 1
    BY <2>1
  <2>3. Len(logs[s]) \in Nat /\ lastIncludeIndex[s] \in Int
    BY RangeTypes, Zenon
  <2> QED BY <2>1, <2>2, <2>3 DEF LastIndex
<1>5. LastIndex(s) <= LastIndex(s)' /\ (lastApplied[s] <= LastIndex(s) => lastApplied[s] <= LastIndex(s)')
  BY <1>4, RangeTypes
<1>6. AppliedBound(s)'
  BY <1>1, <1>5, Zenon DEF RangeInv, AppliedBound
<1> QED BY <1>1, <1>3, <1>5, <1>6, RangeOneServer, Zenon

\* Snapshot trims the log and leaves its end.
LEMMA RangeSnapshot ==
  ASSUME TypeInv, TypeInv', ElectionInv, RangeInv, NEW s \in Server, Snapshot(s)
  PROVE  RangeInv'
<1> DEFINE index == applier[s].index
           pos == index - lastIncludeIndex[s]
<1>1. /\ pos \in 1..Len(logs[s])
      /\ lastIncludeIndex' = [lastIncludeIndex EXCEPT ![s] = index]
      /\ logs' = [logs EXCEPT ![s] = SubSeq(logs[s], pos + 1, Len(logs[s]))]
      /\ applier' = [applier EXCEPT ![s] = Idle]
      /\ UNCHANGED <<currentTerm, appendCalls, snapCalls, mode, commitIndex, lastApplied>>
  BY Zenon DEF Snapshot, ServiceFrame, electVars, appendVars
<1>2. /\ logs \in [Server -> Seq(LogEntry)] /\ lastIncludeIndex \in [Server -> Int]
      /\ applier \in [Server -> ServiceCall]
  BY Zenon DEF TypeInv, TypeOK, LogType, SnapType, ApplyType
<1>3. index \in Int
  BY <1>2 DEF ServiceCall
<1> HIDE DEF index
<1>4. /\ logs'[s] = SubSeq(logs[s], pos + 1, Len(logs[s])) /\ lastIncludeIndex'[s] = index
      /\ applier'[s] = Idle
  BY <1>1, <1>2, Zenon
<1>5. \A p \in Server \ {s} : Same(p)
  BY <1>1, <1>2, Zenon DEF Same
<1>6. LastIndex(s)' = LastIndex(s) /\ lastIncludeIndex'[s] >= -1
  <2>1. /\ logs[s] \in Seq(LogEntry) /\ Len(logs[s]) \in Nat /\ lastIncludeIndex[s] \in Int
        /\ lastIncludeIndex[s] >= -1
    BY RangeTypes, Zenon DEF RangeInv, AppliedBound
  <2>2. pos + 1 \in Int /\ pos + 1 >= 1 /\ pos + 1 <= Len(logs[s]) + 1
    BY <1>1, <1>3, <2>1
  <2>3. Len(logs'[s]) = Len(logs[s]) - (pos + 1) + 1
    BY <1>4, <2>1, <2>2, SubSeqLen, Zenon
  <2>4. LastIndex(s)' = Len(logs'[s]) + index /\ LastIndex(s) = Len(logs[s]) + lastIncludeIndex[s]
    BY <1>4, Zenon DEF LastIndex
  <2>5. Len(logs[s]) - (pos + 1) + 1 + index = Len(logs[s]) + lastIncludeIndex[s] /\ index >= -1
    <3>1. \A n \in Nat, b, i \in Int : b >= -1 /\ i - b >= 1 => n - ((i - b) + 1) + 1 + i = n + b /\ i >= -1
      OBVIOUS
    <3>2. Len(logs[s]) \in Nat /\ lastIncludeIndex[s] \in Int /\ lastIncludeIndex[s] >= -1 /\ pos >= 1
      BY <1>1, <1>3, <2>1
    <3> QED BY <1>3, <3>1, <3>2, Zenon
  <2> QED BY <1>4, <2>3, <2>4, <2>5, Zenon
<1>7. AppliedBound(s)'
  <2>1. applier'[s].op # "install"
    BY <1>4 DEF Idle
  <2> QED BY <1>1, <1>6, <2>1, Zenon DEF RangeInv, AppliedBound
<1>8. LastIndex(s) <= LastIndex(s)'
  BY <1>6, RangeTypes
<1> QED BY <1>1, <1>5, <1>7, <1>8, RangeOneServer, Zenon

\* CondInstallSnapshot throws the log away only when it ends before the snapshot.
LEMMA RangeCondInstallSnapshot ==
  ASSUME TypeInv, TypeInv', ElectionInv, RangeInv, NEW s \in Server, CondInstallSnapshot(s)
  PROVE  RangeInv'
<1> DEFINE i == applier[s].index
<1>1. /\ applier[s].op = "install" /\ LastIndex(s) <= i
      /\ lastIncludeIndex' = [lastIncludeIndex EXCEPT ![s] = i]
      /\ logs' = [logs EXCEPT ![s] = <<>>]
      /\ commitIndex' = [commitIndex EXCEPT ![s] = i]
      /\ lastApplied' = [lastApplied EXCEPT ![s] = i]
      /\ applier' = [applier EXCEPT ![s] = Idle]
      /\ UNCHANGED <<currentTerm, appendCalls, snapCalls, mode>>
  BY Zenon DEF CondInstallSnapshot, ServiceFrame, electVars, appendVars
<1>2. /\ logs \in [Server -> Seq(LogEntry)] /\ lastIncludeIndex \in [Server -> Int]
      /\ commitIndex \in [Server -> Int] /\ lastApplied \in [Server -> Int]
      /\ applier \in [Server -> ServiceCall]
  BY Zenon DEF TypeInv, TypeOK, LogType, SnapType, ApplyType
<1>3. i \in Int /\ i >= 0
  <2>1. i >= 0
    BY <1>1, Zenon DEF RangeInv, AppliedBound
  <2>2. i \in Int
    BY <1>2 DEF ServiceCall
  <2> QED BY <2>1, <2>2, Zenon
<1> HIDE DEF i
<1>4. /\ logs'[s] = <<>> /\ lastIncludeIndex'[s] = i /\ commitIndex'[s] = i /\ lastApplied'[s] = i
      /\ applier'[s] = Idle
  BY <1>1, <1>2, Zenon
<1>5. \A p \in Server \ {s} : Same(p)
  BY <1>1, <1>2, Zenon DEF Same
<1>6. LastIndex(s)' = i
  BY <1>3, <1>4 DEF LastIndex
<1>7. AppliedBound(s)'
  <2>1. applier'[s].op # "install"
    BY <1>4 DEF Idle
  <2>2. lastIncludeIndex'[s] >= -1 /\ lastApplied'[s] >= 0 /\ lastApplied'[s] <= LastIndex(s)'
    BY <1>3, <1>4, <1>6
  <2> QED BY <1>4, <2>1, <2>2, Zenon DEF AppliedBound
<1> QED BY <1>1, <1>5, <1>6, <1>7, RangeOneServer, Zenon

\* CondInstallSnapshot that refuses moves no log.
LEMMA RangeCondInstallSnapshotRefuse ==
  ASSUME TypeInv, TypeInv', ElectionInv, RangeInv, NEW s \in Server, CondInstallSnapshotRefuse(s)
  PROVE  RangeInv'
<1>1. /\ applier' = [applier EXCEPT ![s] = Idle] /\ mode' = [mode EXCEPT ![s] = "wedged"]
      /\ UNCHANGED <<currentTerm, appendCalls, snapCalls, logs, lastIncludeIndex, commitIndex, lastApplied>>
  BY Zenon DEF CondInstallSnapshotRefuse, ServiceFrame, electVars, appendVars, snapVars
<1>2. applier \in [Server -> ServiceCall] /\ mode \in [Server -> {"running", "wedged", "down"}]
  BY Zenon DEF TypeInv, TypeOK, ApplyType, ModeType
<1>3. \A p \in Server \ {s} : Same(p)
  BY <1>1, <1>2, Zenon DEF Same
<1>4. applier'[s].op # "install"
  BY <1>1, <1>2 DEF Idle
<1>5. LastIndex(s)' = LastIndex(s)
  BY <1>1, Zenon DEF LastIndex
<1>6. AppliedBound(s)'
  BY <1>1, <1>4, <1>5, Zenon DEF RangeInv, AppliedBound
<1>7. LastIndex(s) <= LastIndex(s)'
  BY <1>5, RangeTypes
<1>8. \A p \in Server : mode[p] # "down" => mode'[p] # "down"
  BY <1>1, <1>2
<1> QED BY <1>1, <1>3, <1>6, <1>7, <1>8, RangeOneServer, Zenon

\* A crash leaves the requests of the server to the network.
LEMMA RangeKill ==
  ASSUME TypeInv, TypeInv', ElectionInv, RangeInv, NEW s \in Server, Kill(s)
  PROVE  RangeInv'
<1>1. AppendType /\ SnapCallType /\ mode \in [Server -> {"running", "wedged", "down"}]
  BY Zenon DEF TypeInv, TypeOK, ModeType
<1>2. /\ KinCalls /\ KinSnaps
      /\ \A c \in appendCalls' : c.phase # "orphan" => c.from # s
  BY <1>1, KinOrphaned, Zenon DEF Kill
<1>3. /\ UNCHANGED <<currentTerm, logs, snapVars, commitIndex, lastApplied, applier>>
      /\ mode' = [mode EXCEPT ![s] = "down"]
  BY Zenon DEF Kill, electVars
<1>4. \A p \in Server : Same(p)
  BY <1>3, Zenon DEF Same, snapVars
<1>5. \A p \in Server : AppliedBound(p)' /\ LastIndex(p)' = LastIndex(p)
  BY <1>4, AppliedSame, Zenon DEF RangeInv
<1>6. \A p \in Server : Ahead(p)
  BY <1>3, <1>5, RangeTypes DEF Ahead, Steady
<1>7. \A c \in appendCalls' : c.phase # "orphan" => (mode[c.from] # "down" => mode'[c.from] # "down")
  <2>1. \A c \in appendCalls' : c.from \in Server
    BY <1>2, AppendCallFields, Zenon DEF TypeInv, TypeOK, KinCalls, CopyOf
  <2> QED BY <1>1, <1>2, <1>3, <2>1, Zenon
<1> QED BY <1>2, <1>5, <1>6, <1>7, RangeMove, Zenon

\* A restarted server has applied nothing, and no request of its own is under way.
LEMMA Rangestart1 ==
  ASSUME TypeInv, TypeInv', ElectionInv, RangeInv, NEW s \in Server, start1(s)
  PROVE  RangeInv'
<1>1. /\ mode[s] = "down" /\ mode' = [mode EXCEPT ![s] = "running"]
      /\ currentTerm' = [currentTerm EXCEPT ![s] = persisted[s].currentTerm]
      /\ logs' = [logs EXCEPT ![s] = persisted[s].logs]
      /\ commitIndex' = [commitIndex EXCEPT ![s] = 0]
      /\ lastApplied' = [lastApplied EXCEPT ![s] = 0]
      /\ lastIncludeIndex' = [lastIncludeIndex EXCEPT ![s] = -1]
      /\ applier' = [applier EXCEPT ![s] = Idle]
      /\ UNCHANGED <<appendCalls, snapCalls>>
  BY Zenon DEF start1, appendVars
<1>2. /\ mode \in [Server -> {"running", "wedged", "down"}] /\ currentTerm \in [Server -> Nat]
      /\ logs \in [Server -> Seq(LogEntry)] /\ lastIncludeIndex \in [Server -> Int]
      /\ commitIndex \in [Server -> Int] /\ lastApplied \in [Server -> Int]
      /\ applier \in [Server -> ServiceCall]
  BY Zenon DEF TypeInv, TypeOK, ModeType, ElectType, LogType, SnapType, ApplyType
<1>3. \A p \in Server \ {s} : Same(p) /\ currentTerm'[p] = currentTerm[p] /\ mode'[p] = mode[p]
  BY <1>1, <1>2, Zenon DEF Same
<1>4. AppliedBound(s)'
  <2>1. /\ commitIndex'[s] = 0 /\ lastApplied'[s] = 0 /\ lastIncludeIndex'[s] = -1 /\ applier'[s] = Idle
    BY <1>1, <1>2, Zenon
  <2>2. applier'[s].op # "install"
    BY <2>1 DEF Idle
  <2>3. lastApplied'[s] >= 0 /\ lastIncludeIndex'[s] >= -1
    BY <2>1
  <2> QED BY <2>1, <2>2, <2>3, Zenon DEF AppliedBound
<1>5. \A p \in Server : AppliedBound(p)'
  BY <1>3, <1>4, AppliedSame, Zenon DEF RangeInv
<1>6. \A p \in Server : Ahead(p)
  <2>1. \A p \in Server \ {s} : LastIndex(p)' = LastIndex(p)
    BY <1>3, AppliedSame, Zenon
  <2> QED BY <1>1, <1>3, <2>1, RangeTypes DEF Ahead, Steady
<1>7. \A p \in Server : mode[p] # "down" => mode'[p] # "down"
  BY <1>1, <1>3, Zenon
<1>8. \A c \in appendCalls' : c.from \in Server
  BY <1>1, AppendCallFields, Zenon DEF TypeInv, TypeOK
<1> QED BY <1>1, <1>5, <1>6, <1>7, <1>8, KinLess, RangeMove, Zenon

\* A lost reply moves no log.
LEMMA RangeLoseReply ==
  ASSUME TypeInv, TypeInv', ElectionInv, RangeInv, LoseReply
  PROVE  RangeInv'
<1>1. UNCHANGED <<logs, snapVars, applyVars, mode, currentTerm>>
  BY Zenon DEF LoseReply, electVars
<1>2. KinCalls /\ KinSnaps
  BY KinResend, Zenon DEF TypeInv, TypeOK
<1>3. \A p \in Server : currentTerm[p] <= currentTerm'[p]
  BY <1>1, RangeTypes
<1> QED BY <1>1, <1>2, <1>3, RangeQuiet, Zenon

\* Initially nothing is applied and nothing is under way.
LEMMA RangeInit == Init => RangeInv
<1> SUFFICES ASSUME Init PROVE RangeInv
  OBVIOUS
<1>1. appendCalls = {} /\ snapCalls = {}
  BY Zenon DEF Init
<1>2. ASSUME NEW s \in Server PROVE AppliedBound(s)
  <2>1. commitIndex[s] = 0 /\ lastApplied[s] = 0 /\ lastIncludeIndex[s] = -1 /\ applier[s] = Idle
    BY Zenon DEF Init
  <2>2. applier[s].op # "install" /\ lastApplied[s] >= 0 /\ lastIncludeIndex[s] >= -1
    BY <2>1 DEF Idle
  <2> QED BY <2>1, <2>2, Zenon DEF AppliedBound
<1> QED BY <1>1, <1>2, Zenon DEF RangeInv

\* Every step keeps RangeInv.
LEMMA RangeNext == TypeInv /\ TypeInv' /\ ElectionInv /\ RangeInv /\ [Next]_vars => RangeInv'
<1> SUFFICES ASSUME TypeInv, TypeInv', ElectionInv, RangeInv, [Next]_vars PROVE RangeInv'
  BY Zenon
<1>1. ASSUME NEW s \in Server, ServerStep(s) PROVE RangeInv'
  BY <1>1, RangeTickerElection, RangeTickerHeartbeat, RangeStart, RangeSnapshot, RangeCondInstallSnapshot,
     RangeCondInstallSnapshotRefuse, RangeKill, Rangestart1, Zenon DEF ServerStep, crash1
<1>2. ASSUME NEW c \in appendCalls, AppendStep(c) PROVE RangeInv'
  <2>1. c.to \in Server
    BY AppendCallFields, Zenon DEF TypeInv, TypeOK
  <2> QED BY <1>2, <2>1, RangeAppendEntries, RangeSendAppendEntries, RangeKill, Zenon
          DEF AppendStep, CrashInAppendEntries
<1>3. ASSUME NEW c \in snapCalls, SnapStep(c) PROVE RangeInv'
  BY <1>3, RangeInstallSnapshot, RangeSendInstallSnapshot, Zenon DEF SnapStep
<1>4. CASE UNCHANGED vars
  <2>1. UNCHANGED <<logs, snapVars, applyVars, mode, currentTerm, appendCalls, snapCalls>>
    BY <1>4, Zenon DEF vars, electVars, appendVars
  <2>2. \A p \in Server : currentTerm[p] <= currentTerm'[p]
    BY <2>1, RangeTypes
  <2> QED BY <2>1, <2>2, KinLess, RangeQuiet, Zenon
<1> QED BY <1>1, <1>2, <1>3, <1>4, RangeVote, RangeLoseReply, Zenon DEF Next

\* RangeInv keeps the apply loops inside the logs.
LEMMA RangeImplies == TypeInv /\ RangeInv => ApplyInRange
<1> SUFFICES ASSUME TypeInv, RangeInv, NEW c \in appendCalls
             PROVE  /\ AppendEntriesValid(c) /\ LogsMatch(c) /\ lastApplied[c.to] <= c.PrevLogIndex
                         => c.LeaderCommit <= Len(Appended(c)) + lastIncludeIndex[c.to]
                    /\ Arrived(c) /\ c.Term = currentTerm[c.from] => c.LogIndex <= LastIndex(c.from)
  BY Zenon DEF ApplyInRange
<1>1. RequestFits(c) /\ SenderAhead(c)
  BY Zenon DEF RangeInv
<1>2. Arrived(c) /\ c.Term = currentTerm[c.from] => c.LogIndex <= LastIndex(c.from)
  <2>1. "replied" # "orphan"
    OBVIOUS
  <2> QED BY <1>1, <2>1, Zenon DEF Arrived, SenderAhead
<1>3. ASSUME AppendEntriesValid(c), LogsMatch(c), lastApplied[c.to] <= c.PrevLogIndex
      PROVE  c.LeaderCommit <= Len(Appended(c)) + lastIncludeIndex[c.to]
  <2> DEFINE end == Len(Appended(c)) + lastIncludeIndex[c.to]
  <2>1. /\ c.to \in Server /\ c.PrevLogIndex \in Int /\ c.LogIndex \in Int /\ c.LeaderCommit \in Int
    BY AppendCallFields, Zenon DEF TypeInv, TypeOK
  <2>2. /\ lastApplied[c.to] \in Int /\ lastApplied[c.to] >= 0 /\ LastIndex(c.to) \in Int
    BY <2>1, RangeTypes, Zenon DEF RangeInv, AppliedBound
  <2>3. /\ \/ end = c.LogIndex
           \/ end = LastIndex(c.to) /\ c.LogIndex = c.PrevLogIndex
        /\ c.PrevLogIndex <= c.LogIndex /\ c.PrevLogIndex <= LastIndex(c.to)
    BY <1>3, AppendedEnd, Zenon
  <2>4. c.LeaderCommit <= 0 \/ c.LeaderCommit <= c.LogIndex
    BY <1>1, Zenon DEF RequestFits
  <2> HIDE DEF end
  <2>5. c.LeaderCommit <= end
    BY <1>3, <2>1, <2>2, <2>3, <2>4
  <2> QED BY <2>5, Zenon DEF end
<1> QED BY <1>2, <1>3, Zenon

-----------------------------------------------------------------------------
(***************************************************************************)
(* The service keeps in step with its server.                              *)
(***************************************************************************)
\* ServiceInv, of server s, and what it looks at.
Served(s) ==
  /\ mode[s] = "running" /\ applier[s].op # "install" =>
       /\ Len(svcLog[s]) = lastApplied[s]
       /\ lastIncludeIndex[s] # -1 => Len(snapshotCmd[s]) = lastIncludeIndex[s]
  /\ applier[s].op = "snapshot" => applier[s].index = lastApplied[s]
SameService(s) ==
  /\ svcLog'[s] = svcLog[s] /\ lastApplied'[s] = lastApplied[s] /\ applier'[s] = applier[s]
  /\ lastIncludeIndex'[s] = lastIncludeIndex[s] /\ snapshotCmd'[s] = snapshotCmd[s]

\* A step of server s that keeps its service in step.
LEMMA ServiceOne ==
  ASSUME ServiceInv, NEW s \in Server, Served(s)',
         \A p \in Server \ {s} : SameService(p) /\ mode'[p] = mode[p]
  PROVE  ServiceInv'
<1>1. \A p \in Server \ {s} : Served(p)'
  BY Zenon DEF ServiceInv, ServiceInStep, SameService, Served
<1> QED BY <1>1, Zenon DEF ServiceInv, ServiceInStep, Served

\* A step that no service sees.
LEMMA ServiceQuiet ==
  ASSUME ServiceInv, UNCHANGED <<svcLog, lastApplied, applier, lastIncludeIndex, snapshotCmd>>,
         \A p \in Server : mode'[p] = "running" => mode[p] = "running"
  PROVE  ServiceInv'
<1>1. ASSUME NEW p \in Server PROVE Served(p)'
  <2>1. Served(p)
    BY Zenon DEF ServiceInv, ServiceInStep, Served
  <2> QED BY <2>1, Zenon DEF Served
<1> QED BY <1>1, Zenon DEF ServiceInv, ServiceInStep, Served

\* The apply loop hands over one command for each index it passes, and the snapshots
\* taken in it end where the log is cut.
LEMMA ServiceApply ==
  ASSUME TypeInv, ServiceInv, NEW s \in Server, AppliedBound(s), NEW lg \in Seq(LogEntry), NEW target \in Int,
         Apply(s, lg, target), mode' = mode
  PROVE  ServiceInv'
<1> DEFINE base  == lastIncludeIndex[s]
           done  == lastApplied[s]
           last  == IF target > done THEN target ELSE done
           sent  == [k \in 1..(last - done) |-> lg[done + k - base].Cmd]
           log   == svcLog[s] \o sent
           taken == {i \in (done + 1)..(last - 1) :
                       SnapshotDue(i) /\ \A j \in (i + 1)..(last - 1) : ~ SnapshotDue(j)}
           cut   == IF taken = {} THEN base ELSE CHOOSE i \in taken : TRUE
           next  == [Idle EXCEPT !.op = "snapshot", !.index = last]
<1>1. /\ svcLog' = [svcLog EXCEPT ![s] = log]
      /\ lastApplied' = [lastApplied EXCEPT ![s] = last]
      /\ lastIncludeIndex' = [lastIncludeIndex EXCEPT ![s] = cut]
      /\ snapshotCmd' = [snapshotCmd EXCEPT ![s] = IF taken = {} THEN snapshotCmd[s] ELSE SubSeq(log, 1, cut)]
      /\ applier' = [applier EXCEPT ![s] = IF target > done /\ SnapshotDue(last) THEN next ELSE applier[s]]
      /\ target > done => applier[s].op = "idle" /\ last <= Len(lg) + base /\ Len(svcLog[s]) = done
  BY Zenon DEF Apply
<1>2. /\ svcLog \in [Server -> Seq(Nat)] /\ lastApplied \in [Server -> Int]
      /\ lastIncludeIndex \in [Server -> Int] /\ snapshotCmd \in [Server -> Seq(Nat)]
      /\ applier \in [Server -> ServiceCall]
  BY Zenon DEF TypeInv, TypeOK, ApplyType, SnapType
<1>3. /\ base \in Int /\ done \in Int /\ base <= done /\ done >= 0 /\ svcLog[s] \in Seq(Nat)
  BY <1>2, Zenon DEF TypeInv, SnapshotBehindApplied, AppliedBound
<1>4. /\ last \in Int /\ done <= last /\ last - done \in Nat /\ (last > done <=> target > done)
      /\ target > done => last = target
      /\ ~ (target > done) => last = done
  BY <1>3
<1>5. /\ taken # {} => cut \in (done + 1)..(last - 1)
      /\ taken = {} => cut = base
  BY Zenon
<1>6. next.op = "snapshot" /\ next.index = last
  BY DEF Idle
<1> HIDE DEF base, done, last, sent, log, taken, cut, next
<1>7. /\ svcLog'[s] = log /\ lastApplied'[s] = last /\ lastIncludeIndex'[s] = cut
      /\ snapshotCmd'[s] = (IF taken = {} THEN snapshotCmd[s] ELSE SubSeq(log, 1, cut))
      /\ applier'[s] = (IF target > done /\ SnapshotDue(last) THEN next ELSE applier[s])
  BY <1>1, <1>2, Zenon
<1>8. \A p \in Server \ {s} : SameService(p)
  BY <1>1, <1>2, Zenon DEF SameService
<1>9. log \in Seq(Nat) /\ Len(log) = Len(svcLog[s]) + (last - done)
  <2>1. Len(lg) \in Nat
    OBVIOUS
  <2>2. \A i \in 1..Len(lg) : lg[i].Cmd \in Nat
    <3>1. \A i \in 1..Len(lg) : lg[i] \in LogEntry
      OBVIOUS
    <3> QED BY <3>1, Zenon DEF LogEntry
  <2>3. \A k \in 1..(last - done) : done + k - base \in 1..Len(lg)
    <3>1. last > done => last <= Len(lg) + base
      BY <1>1, <1>4, Zenon
    <3>2. \A n \in Nat, b, d, l \in Int : \A k \in 1..(l - d) :
            b <= d /\ d <= l /\ (l > d => l <= n + b) => d + k - b \in 1..n
      OBVIOUS
    <3> QED BY <1>3, <1>4, <2>1, <3>1, <3>2, Zenon
  <2>4. sent \in Seq(Nat) /\ Len(sent) = last - done
    <3>1. \A k \in 1..(last - done) : lg[done + k - base].Cmd \in Nat
      BY <2>2, <2>3, Zenon
    <3> QED BY <1>4, <3>1 DEF sent
  <2> QED BY <1>3, <2>4, ConcatType, Zenon DEF log
<1>10. Len(svcLog[s]) = done => Len(log) = last
  BY <1>3, <1>4, <1>9
<1>11. taken # {} => target > done /\ cut \in Int /\ cut >= 1 /\ cut <= last
  BY <1>3, <1>4, <1>5
<1>12. ASSUME mode[s] = "running", applier'[s].op # "install"
       PROVE  /\ Len(svcLog'[s]) = lastApplied'[s]
              /\ lastIncludeIndex'[s] # -1 => Len(snapshotCmd'[s]) = lastIncludeIndex'[s]
  <2>1. applier[s].op # "install"
    <3>1. "idle" # "install"
      OBVIOUS
    <3> QED BY <1>1, <1>7, <1>12, <3>1, Zenon
  <2>2. Len(svcLog[s]) = done /\ (base # -1 => Len(snapshotCmd[s]) = base)
    BY <1>12, <2>1, Zenon DEF ServiceInv, ServiceInStep, base, done
  <2>3. taken # {} => Len(SubSeq(log, 1, cut)) = cut
    <3>1. ASSUME taken # {} PROVE cut \in 1..Len(log)
      BY <1>4, <1>10, <1>11, <2>2, <3>1
    <3>2. \A q \in Seq(Nat) : \A n \in 1..Len(q) : Len(SubSeq(q, 1, n)) = n
      OBVIOUS
    <3> QED BY <1>9, <3>1, <3>2, Zenon
  <2> QED BY <1>5, <1>7, <1>10, <2>2, <2>3, Zenon
<1>13. applier'[s].op = "snapshot" => applier'[s].index = lastApplied'[s]
  <2>1. CASE target > done /\ SnapshotDue(last)
    BY <1>6, <1>7, <2>1, Zenon
  <2>2. CASE ~ (target > done /\ SnapshotDue(last))
    <3>1. applier'[s] = applier[s]
      BY <1>7, <2>2, Zenon
    <3>2. applier[s].op = "snapshot" => applier[s].index = done /\ ~ (target > done)
      <4>1. "idle" # "snapshot"
        OBVIOUS
      <4> QED BY <1>1, <4>1, Zenon DEF ServiceInv, done
    <3> QED BY <1>4, <1>7, <3>1, <3>2, Zenon
  <2> QED BY <2>1, <2>2, Zenon
<1>14. Served(s)'
  BY <1>12, <1>13, Zenon DEF Served
<1> QED BY <1>8, <1>14, ServiceOne, Zenon

\* AppendEntries and sendAppendEntries keep ServiceInv: they run the apply loop or none.
LEMMA ServiceAppend ==
  ASSUME TypeInv, RangeInv, ServiceInv, NEW c \in appendCalls, AppendEntries(c) \/ SendAppendEntries(c)
  PROVE  ServiceInv'
<1>1. /\ c.to \in Server /\ c.from \in Server /\ c.LeaderCommit \in Int /\ c.LogIndex \in Int
  BY AppendCallFields, Zenon DEF TypeInv, TypeOK
<1>2. \A s \in Server : AppliedBound(s) /\ logs[s] \in Seq(LogEntry)
  BY RangeTypes, Zenon DEF RangeInv
<1>3. CASE AppendEntriesAccept(c)
  <2>1. /\ AppendEntriesValid(c) /\ LogsMatch(c) /\ Apply(c.to, Appended(c), c.LeaderCommit) /\ mode' = mode
    BY <1>3, Zenon DEF AppendEntriesAccept
  <2>2. Appended(c) \in Seq(LogEntry)
    BY <2>1, AppendedType, Zenon DEF TypeInv, TypeOK
  <2> QED BY <1>1, <1>2, <2>1, <2>2, ServiceApply, Zenon
<1>4. CASE AppendEntriesOutofDate(c) \/ AppendEntriesReject(c)
  <2>1. UNCHANGED <<snapVars, applyVars, mode>>
    BY <1>4, Zenon DEF AppendEntriesOutofDate, AppendEntriesReject
  <2> QED BY <2>1, ServiceQuiet, Zenon DEF snapVars, applyVars
<1>5. CASE SendAppendEntries(c)
  <2>1. UNCHANGED <<snapVars, applyVars>> \/ Apply(c.from, logs[c.from], c.LogIndex)
    BY <1>5, Zenon DEF SendAppendEntries, SendAppendEntriesStale, SendAppendEntriesSuccess,
       SendAppendEntriesOutofDate, SendAppendEntriesBackup
  <2>2. mode' = mode
    BY <1>5, Zenon DEF SendAppendEntries, SendAppendEntriesStale, SendAppendEntriesSuccess,
       SendAppendEntriesOutofDate, SendAppendEntriesBackup, SendAppendFrame
  <2>3. CASE UNCHANGED <<snapVars, applyVars>>
    BY <2>2, <2>3, ServiceQuiet, Zenon DEF snapVars, applyVars
  <2>4. CASE Apply(c.from, logs[c.from], c.LogIndex)
    BY <1>1, <1>2, <2>2, <2>4, ServiceApply, Zenon
  <2> QED BY <2>1, <2>3, <2>4, Zenon
<1> QED BY <1>3, <1>4, <1>5, Zenon DEF AppendEntries

\* InstallSnapshot keeps ServiceInv: a snapshot it accepts is on its way to the service.
LEMMA ServiceInstallSnapshot ==
  ASSUME TypeInv, ServiceInv, NEW c \in snapCalls, InstallSnapshot(c)
  PROVE  ServiceInv'
<1>1. c.to \in Server
  BY SnapCallFields, Zenon DEF TypeInv, TypeOK
<1>2. CASE InstallSnapshotRefuse(c)
  <2>1. UNCHANGED <<snapVars, applyVars, mode>>
    BY <1>2, Zenon DEF InstallSnapshotRefuse, InstallFrame
  <2> QED BY <2>1, ServiceQuiet, Zenon DEF snapVars, applyVars
<1>3. CASE InstallSnapshotAccept(c)
  <2> DEFINE s == c.to
             m == [op |-> "install", index |-> c.LastIncludeIndex, term |-> c.LastIncludeTerm, data |-> c.Data]
  <2>1. /\ applier' = [applier EXCEPT ![s] = m]
        /\ lastIncludeIndex' = [lastIncludeIndex EXCEPT ![s] = c.LastIncludeIndex]
        /\ lastApplied' = [lastApplied EXCEPT ![s] = c.LastIncludeIndex]
        /\ UNCHANGED <<snapshotCmd, svcLog, mode>>
    BY <1>3, Zenon DEF InstallSnapshotAccept, InstallFrame
  <2>2. /\ applier \in [Server -> ServiceCall] /\ lastIncludeIndex \in [Server -> Int]
        /\ lastApplied \in [Server -> Int]
    BY Zenon DEF TypeInv, TypeOK, ApplyType, SnapType
  <2>3. m.op = "install" /\ "install" # "snapshot"
    OBVIOUS
  <2> HIDE DEF m
  <2>4. applier'[s] = m
    BY <1>1, <2>1, <2>2, Zenon
  <2>5. Served(s)'
    BY <2>3, <2>4, Zenon DEF Served
  <2>6. \A p \in Server \ {s} : SameService(p) /\ mode'[p] = mode[p]
    BY <2>1, <2>2, Zenon DEF SameService
  <2> QED BY <1>1, <2>5, <2>6, ServiceOne, Zenon
<1> QED BY <1>2, <1>3, Zenon DEF InstallSnapshot

\* The calls of the service keep ServiceInv.
LEMMA ServiceCalls ==
  ASSUME TypeInv, ServiceInv, NEW s \in Server,
         Snapshot(s) \/ CondInstallSnapshot(s) \/ CondInstallSnapshotRefuse(s)
  PROVE  ServiceInv'
<1>1. /\ applier \in [Server -> ServiceCall] /\ lastIncludeIndex \in [Server -> Int]
      /\ lastApplied \in [Server -> Int] /\ snapshotCmd \in [Server -> Seq(Nat)]
      /\ svcLog \in [Server -> Seq(Nat)] /\ mode \in [Server -> {"running", "wedged", "down"}]
  BY Zenon DEF TypeInv, TypeOK, ApplyType, SnapType, ModeType
<1>2. /\ Idle.op = "idle" /\ "idle" # "snapshot" /\ "snapshot" # "install" /\ "wedged" # "running"
  BY DEF Idle
<1>3. applier' = [applier EXCEPT ![s] = Idle] /\ applier'[s].op = "idle"
  BY <1>1, <1>2, Zenon DEF Snapshot, CondInstallSnapshot, CondInstallSnapshotRefuse
<1>4. CASE Snapshot(s)
  <2>1. /\ mode[s] = "running" /\ applier[s].op = "snapshot"
        /\ lastIncludeIndex' = [lastIncludeIndex EXCEPT ![s] = applier[s].index]
        /\ snapshotCmd' = [snapshotCmd EXCEPT ![s] = svcLog[s]]
        /\ UNCHANGED <<mode, lastApplied, svcLog>>
    BY <1>4, Zenon DEF Snapshot
  <2>2. Len(svcLog[s]) = lastApplied[s] /\ applier[s].index = lastApplied[s]
    BY <1>2, <2>1, Zenon DEF ServiceInv, ServiceInStep
  <2>3. Served(s)'
    BY <1>1, <1>2, <1>3, <2>1, <2>2, Zenon DEF Served
  <2>4. \A p \in Server \ {s} : SameService(p) /\ mode'[p] = mode[p]
    BY <1>1, <1>3, <2>1, Zenon DEF SameService
  <2> QED BY <2>3, <2>4, ServiceOne, Zenon
<1>5. CASE CondInstallSnapshot(s)
  <2> DEFINE m == applier[s]
  <2>1. /\ Len(m.data) = m.index
        /\ lastIncludeIndex' = [lastIncludeIndex EXCEPT ![s] = m.index]
        /\ snapshotCmd' = [snapshotCmd EXCEPT ![s] = m.data]
        /\ lastApplied' = [lastApplied EXCEPT ![s] = m.index]
        /\ svcLog' = [svcLog EXCEPT ![s] = m.data]
        /\ mode' = mode
    BY <1>5, Zenon DEF CondInstallSnapshot
  <2> HIDE DEF m
  <2>2. Served(s)'
    BY <1>1, <1>2, <1>3, <2>1, Zenon DEF Served
  <2>3. \A p \in Server \ {s} : SameService(p) /\ mode'[p] = mode[p]
    BY <1>1, <1>3, <2>1, Zenon DEF SameService
  <2> QED BY <2>2, <2>3, ServiceOne, Zenon
<1>6. CASE CondInstallSnapshotRefuse(s)
  <2>1. /\ mode' = [mode EXCEPT ![s] = "wedged"]
        /\ UNCHANGED <<lastIncludeIndex, snapshotCmd, lastApplied, svcLog>>
    BY <1>6, Zenon DEF CondInstallSnapshotRefuse, snapVars
  <2>2. Served(s)'
    BY <1>1, <1>2, <1>3, <2>1, Zenon DEF Served
  <2>3. \A p \in Server \ {s} : SameService(p) /\ mode'[p] = mode[p]
    BY <1>1, <1>3, <2>1, Zenon DEF SameService
  <2> QED BY <2>2, <2>3, ServiceOne, Zenon
<1> QED BY <1>4, <1>5, <1>6, Zenon

\* A restarted service starts from nothing, as its server does.
LEMMA Servicestart1 ==
  ASSUME TypeInv, ServiceInv, NEW s \in Server, start1(s)
  PROVE  ServiceInv'
<1>1. /\ applier \in [Server -> ServiceCall] /\ lastIncludeIndex \in [Server -> Int]
      /\ lastApplied \in [Server -> Int] /\ snapshotCmd \in [Server -> Seq(Nat)]
      /\ svcLog \in [Server -> Seq(Nat)] /\ mode \in [Server -> {"running", "wedged", "down"}]
  BY Zenon DEF TypeInv, TypeOK, ApplyType, SnapType, ModeType
<1>2. /\ mode' = [mode EXCEPT ![s] = "running"]
      /\ lastApplied' = [lastApplied EXCEPT ![s] = 0]
      /\ lastIncludeIndex' = [lastIncludeIndex EXCEPT ![s] = -1]
      /\ snapshotCmd' = [snapshotCmd EXCEPT ![s] = <<>>]
      /\ applier' = [applier EXCEPT ![s] = Idle]
      /\ svcLog' = [svcLog EXCEPT ![s] = <<>>]
  BY Zenon DEF start1
<1>3. Idle.op = "idle" /\ "idle" # "snapshot" /\ Len(<<>>) = 0
  BY DEF Idle
<1>4. /\ lastApplied'[s] = 0 /\ lastIncludeIndex'[s] = -1 /\ applier'[s] = Idle /\ svcLog'[s] = <<>>
  BY <1>1, <1>2, Zenon
<1>5. Served(s)'
  BY <1>3, <1>4, Zenon DEF Served
<1>6. \A p \in Server \ {s} : SameService(p) /\ mode'[p] = mode[p]
  BY <1>1, <1>2, Zenon DEF SameService
<1> QED BY <1>5, <1>6, ServiceOne, Zenon

\* Initially no service has applied anything.
LEMMA ServiceInit == Init => ServiceInv
<1> SUFFICES ASSUME Init, NEW s \in Server PROVE Served(s)
  BY Zenon DEF ServiceInv, ServiceInStep, Served
<1>1. /\ lastApplied[s] = 0 /\ lastIncludeIndex[s] = -1 /\ applier[s] = Idle /\ svcLog[s] = <<>>
  BY Zenon DEF Init
<1>2. Idle.op = "idle" /\ "idle" # "snapshot" /\ Len(<<>>) = 0
  BY DEF Idle
<1> QED BY <1>1, <1>2, Zenon DEF Served

\* Every step keeps ServiceInv.
LEMMA ServiceNext == TypeInv /\ RangeInv /\ ServiceInv /\ [Next]_vars => ServiceInv'
<1> SUFFICES ASSUME TypeInv, RangeInv, ServiceInv, [Next]_vars PROVE ServiceInv'
  BY Zenon
<1>1. UNCHANGED <<snapVars, applyVars, mode>> => ServiceInv'
  BY ServiceQuiet, Zenon DEF snapVars, applyVars
<1>2. ASSUME NEW s \in Server, Kill(s) PROVE ServiceInv'
  <2>1. /\ UNCHANGED <<snapVars, lastApplied, applier, svcLog>> /\ mode' = [mode EXCEPT ![s] = "down"]
        /\ mode \in [Server -> {"running", "wedged", "down"}]
    BY <1>2, Zenon DEF Kill, TypeInv, TypeOK, ModeType
  <2>2. "down" # "running"
    OBVIOUS
  <2>3. \A p \in Server : mode'[p] = "running" => mode[p] = "running"
    BY <2>1, <2>2, Zenon
  <2> QED BY <2>1, <2>3, ServiceQuiet, Zenon DEF snapVars
<1>3. ASSUME NEW s \in Server, ServerStep(s) PROVE ServiceInv'
  <2>1. TickerElection(s) \/ TickerHeartbeat(s) \/ Start(s) => UNCHANGED <<snapVars, applyVars, mode>>
    BY Zenon DEF TickerElection, TickerHeartbeat, Start
  <2> QED BY <1>1, <1>2, <1>3, <2>1, ServiceCalls, Servicestart1, Zenon DEF ServerStep, crash1
<1>4. ASSUME NEW c \in voteCalls, VoteStep(c) PROVE ServiceInv'
  <2>1. UNCHANGED <<snapVars, applyVars, mode>>
    BY <1>4, Zenon DEF VoteStep, RequestVote, RequestVoteOutofDate, RequestVoteLogTooOld, RequestVoteGrant,
       RequestVoteVoted, VoteFrame, SendRequestVoteCheck, SendRequestVoteRefused, SendRequestVoteCount
  <2> QED BY <1>1, <2>1, Zenon
<1>5. ASSUME NEW c \in appendCalls, AppendStep(c) PROVE ServiceInv'
  <2>1. c.to \in Server
    BY AppendCallFields, Zenon DEF TypeInv, TypeOK
  <2> QED BY <1>2, <1>5, <2>1, ServiceAppend, Zenon DEF AppendStep, CrashInAppendEntries
<1>6. ASSUME NEW c \in snapCalls, SnapStep(c) PROVE ServiceInv'
  <2>1. SendInstallSnapshot(c) => UNCHANGED <<snapVars, applyVars, mode>>
    BY Zenon DEF SendInstallSnapshot
  <2> QED BY <1>1, <1>6, <2>1, ServiceInstallSnapshot, Zenon DEF SnapStep
<1>7. LoseReply \/ UNCHANGED vars => UNCHANGED <<snapVars, applyVars, mode>>
  BY Zenon DEF LoseReply, vars
<1> QED BY <1>1, <1>3, <1>4, <1>5, <1>6, <1>7, Zenon DEF Next

=============================================================================
