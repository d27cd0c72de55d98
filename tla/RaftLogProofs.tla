--------------------------- MODULE RaftLogProofs ----------------------------
(***************************************************************************)
(* The logs of a cluster without snapshots match: LogInv of RaftLog is     *)
(* inductive, and implies LogMatching and Durable.                         *)
(***************************************************************************)
EXTENDS RaftRangeProofs

-----------------------------------------------------------------------------
(***************************************************************************)
(* Parts of logs that match.                                               *)
(***************************************************************************)
\* What part x holds at index i it has from part y.
Alike(x, y, i) ==
  /\ i \in Indexes(y) /\ TermIn(x, i) = TermIn(y, i)
  /\ i # x.prev => i # y.prev /\ x.ents[i - x.prev] = y.ents[i - y.prev]

Sub(x, y) == \A i \in Indexes(x) : Alike(x, y, i)

PartType(x) == x.prev \in Int /\ x.ents \in Seq(LogEntry)

\* A part is a part of itself, and matches itself.
LEMMA MatchSelf ==
  ASSUME NEW x
  PROVE  Sub(x, x) /\ Matching(x, x)
  BY Zenon DEF Sub, Alike, Matching, Agree

\* Matching does not depend on which of two parts comes first.
LEMMA MatchSym ==
  ASSUME NEW x, NEW y, Matching(x, y)
  PROVE  Matching(y, x)
  BY Zenon DEF Matching, Agree

\* A part of a part matches what that one matches.
LEMMA MatchSub ==
  ASSUME NEW x, NEW y, NEW w, Sub(x, y), Matching(y, w)
  PROVE  Matching(x, w)
<1> SUFFICES ASSUME NEW i \in Indexes(x) \cap Indexes(w), TermIn(x, i) = TermIn(w, i),
                    NEW j \in Indexes(x) \cap Indexes(w), j <= i
             PROVE  Agree(x, w, j)
  BY Zenon DEF Matching
<1>1. Alike(x, y, i) /\ Alike(x, y, j)
  BY Zenon DEF Sub
<1>2. Agree(y, w, j)
  BY <1>1, Zenon DEF Alike, Matching
<1> QED BY <1>1, <1>2, Zenon DEF Alike, Agree

\* A part that follows x up to index k and y, which agrees with x at k, behind it
\* matches what both match: what AppendEntries checks is enough.
LEMMA MatchJoin ==
  ASSUME NEW x, NEW y, NEW z, NEW w, NEW k \in Int, PartType(z), PartType(w),
         k \in Indexes(x), k \in Indexes(y), TermIn(x, k) = TermIn(y, k),
         \A i \in Indexes(z) : (i <= k => Alike(z, x, i)) /\ (i > k => Alike(z, y, i)),
         Matching(x, w), Matching(y, w)
  PROVE  Matching(z, w)
<1> SUFFICES ASSUME NEW i \in Indexes(z) \cap Indexes(w), TermIn(z, i) = TermIn(w, i),
                    NEW j \in Indexes(z) \cap Indexes(w), j <= i
             PROVE  Agree(z, w, j)
  BY Zenon DEF Matching
<1>1. i \in Int /\ j \in Int
  BY DEF Indexes, PartType
<1>2. CASE i <= k
  <2>1. j <= k
    BY <1>1, <1>2
  <2>2. Alike(z, x, i) /\ Alike(z, x, j)
    BY <1>2, <2>1, Zenon
  <2>3. Agree(x, w, j)
    BY <2>2, Zenon DEF Alike, Matching
  <2> QED BY <2>2, <2>3, Zenon DEF Alike, Agree
<1>3. CASE i > k /\ j > k
  <2>1. Alike(z, y, i) /\ Alike(z, y, j)
    BY <1>3, Zenon
  <2>2. Agree(y, w, j)
    BY <2>1, Zenon DEF Alike, Matching
  <2> QED BY <2>1, <2>2, Zenon DEF Alike, Agree
<1>4. CASE i > k /\ j <= k
  <2>1. Alike(z, y, i) /\ Alike(z, x, j)
    BY <1>4, Zenon
  <2>2. k \in Indexes(w) /\ k <= i
    BY <1>1, <1>4 DEF Indexes, PartType
  <2>3. Agree(y, w, k)
    BY <2>1, <2>2, Zenon DEF Alike, Matching
  <2>4. Agree(x, w, j)
    BY <1>4, <2>1, <2>2, <2>3, Zenon DEF Alike, Agree, Matching
  <2> QED BY <2>1, <2>4, Zenon DEF Alike, Agree
<1> QED BY <1>1, <1>2, <1>3, <1>4

\* So does x with a new last entry of a term that w has nowhere at that index.
LEMMA MatchGrow ==
  ASSUME NEW x, NEW z, NEW w, NEW n \in Int, PartType(z),
         \A i \in Indexes(z) : i <= n /\ (i # n => Alike(z, x, i)),
         n \in Indexes(w) => TermIn(w, n) # TermIn(z, n),
         Matching(x, w)
  PROVE  Matching(z, w)
<1> SUFFICES ASSUME NEW i \in Indexes(z) \cap Indexes(w), TermIn(z, i) = TermIn(w, i),
                    NEW j \in Indexes(z) \cap Indexes(w), j <= i
             PROVE  Agree(z, w, j)
  BY Zenon DEF Matching
<1>1. i \in Int /\ j \in Int
  BY DEF Indexes, PartType
<1>2. i # n /\ i <= n
  BY Zenon
<1>3. j # n
  BY <1>1, <1>2
<1>4. Alike(z, x, i) /\ Alike(z, x, j)
  BY <1>2, <1>3, Zenon
<1>5. Agree(x, w, j)
  BY <1>4, Zenon DEF Alike, Matching
<1> QED BY <1>4, <1>5, Zenon DEF Alike, Agree

-----------------------------------------------------------------------------
(***************************************************************************)
(* Steps that keep the logs matching.                                      *)
(***************************************************************************)
\* The parts of a state are parts of logs.
LEMMA PartTypes ==
  /\ TypeInv => \A x \in Parts : PartType(x)
  /\ TypeInv' => \A x \in Parts' : PartType(x)
<1>1. ASSUME TypeInv PROVE \A x \in Parts : PartType(x)
  <2>1. \A s \in Server : PartType(LogPart(s))
    BY <1>1, RangeTypes, Zenon DEF PartType, LogPart
  <2>2. \A c \in appendCalls : PartType(CallPart(c))
    BY <1>1, AppendCallFields, Zenon DEF PartType, CallPart, TypeInv, TypeOK
  <2> QED BY <2>1, <2>2, Zenon DEF Parts
<1>2. ASSUME TypeInv' PROVE \A x \in Parts' : PartType(x)
  <2>1. \A s \in Server : PartType(LogPart(s)')
    <3>1. \A s \in Server : lastIncludeIndex'[s] \in Int /\ logs'[s] \in Seq(LogEntry)
      BY <1>2, Zenon DEF TypeInv, TypeOK, SnapType, LogType
    <3> QED BY <3>1, Zenon DEF PartType, LogPart
  <2>2. \A c \in appendCalls' : PartType(CallPart(c))
    <3>1. \A c \in appendCalls' : c \in AppendCall
      BY <1>2, Zenon DEF TypeInv, TypeOK, AppendType
    <3>2. \A c \in AppendCall : c.PrevLogIndex \in Int /\ c.Logs \in Seq(LogEntry)
      BY Zenon DEF AppendCall
    <3> QED BY <3>1, <3>2, Zenon DEF PartType, CallPart
  <2> QED BY <2>1, <2>2, Zenon DEF Parts
<1> QED BY <1>1, <1>2, Zenon

\* A step after which all parts but z are parts of earlier ones.
LEMMA PartsGrow ==
  ASSUME PartsMatch, NEW z,
         \A x \in Parts' : x = z \/ \E y \in Parts : Sub(x, y),
         \A w \in Parts : Matching(z, w)
  PROVE  PartsMatch'
<1>1. ASSUME NEW x, NEW y \in Parts, Sub(x, y)
      PROVE  (\A w \in Parts : Matching(x, w)) /\ Matching(x, z)
  <2>1. \A w \in Parts : Matching(y, w)
    BY Zenon DEF PartsMatch
  <2>2. Matching(y, z)
    BY MatchSym, Zenon
  <2> QED BY <1>1, <2>1, <2>2, MatchSub, Zenon
<1>2. ASSUME NEW x, NEW y, NEW v \in Parts, NEW w \in Parts, Sub(x, v), Sub(y, w)
      PROVE  Matching(x, y)
  <2>1. Matching(x, w)
    BY <1>1, <1>2, Zenon
  <2>2. Matching(w, x)
    BY <2>1, MatchSym, Zenon
  <2>3. Matching(y, x)
    BY <1>2, <2>2, MatchSub, Zenon
  <2> QED BY <2>3, MatchSym, Zenon
<1>3. ASSUME NEW x, NEW y \in Parts, Sub(x, y)
      PROVE  Matching(x, z) /\ Matching(z, x)
  BY <1>1, <1>3, MatchSym, Zenon
<1>4. \A x, y \in Parts' : Matching(x, y)
  BY <1>2, <1>3, MatchSelf, Zenon
<1> QED BY <1>4, Zenon DEF PartsMatch

\* A step after which all parts are parts of earlier ones.
LEMMA PartsSub ==
  ASSUME PartsMatch, \A x \in Parts' : \E y \in Parts : Sub(x, y)
  PROVE  PartsMatch'
<1>1. CASE Parts = {}
  BY <1>1, Zenon DEF PartsMatch
<1>2. CASE Parts # {}
  <2>1. PICK z \in Parts : TRUE
    BY <1>2, Zenon
  <2>2. \A w \in Parts : Matching(z, w)
    BY Zenon DEF PartsMatch
  <2> QED BY <2>2, PartsGrow, Zenon
<1> QED BY <1>1, <1>2, Zenon

\* An earlier part has the same term at index i as x.
Old(x, i) == \E y \in Parts : i \in Indexes(y) /\ TermIn(x, i) = TermIn(y, i)

\* TermsLed holds on while new entries are of terms with a leader.
LEMMA LedKept ==
  ASSUME TermsLed, elected \subseteq elected',
         \A x \in Parts' : \A i \in Indexes(x) : Old(x, i) \/ \E e \in elected' : e.term = TermIn(x, i)
  PROVE  TermsLed'
<1>1. ASSUME NEW x \in Parts', NEW i \in Indexes(x), i > 0
      PROVE  \E e \in elected' : e.term = TermIn(x, i)
  BY <1>1, Zenon DEF TermsLed, HasLeader, Old
<1> QED BY <1>1, Zenon DEF TermsLed, HasLeader

\* LeaderHolds holds on while leaders move forward and new entries are theirs.
LEMMA HoldsKept ==
  ASSUME TypeInv, TypeInv', LeaderHolds, elected' = elected, \A p \in Server : Steady(p),
         \A x \in Parts' : \A i \in Indexes(x) :
           \/ Old(x, i)
           \/ \A e \in elected : e.term = TermIn(x, i) /\ e.term = currentTerm'[e.leader] =>
                i <= LastIndex(e.leader)'
  PROVE  LeaderHolds'
<1>1. ASSUME NEW e \in elected
      PROVE  /\ e.term <= currentTerm'[e.leader]
             /\ e.term = currentTerm'[e.leader] =>
                  \A x \in Parts' : \A i \in Indexes(x) : TermIn(x, i) = e.term => i <= LastIndex(e.leader)'
  <2> DEFINE p == e.leader
  <2>1. p \in Server /\ e.term \in Nat /\ e = [term |-> e.term, leader |-> p]
    BY <1>1, Zenon DEF TypeInv, TypeOK, VoteType
  <2>2. /\ currentTerm[p] \in Nat /\ currentTerm'[p] \in Nat /\ LastIndex(p) \in Int /\ LastIndex(p)' \in Int
    <3>1. currentTerm'[p] \in Nat
      BY <2>1, Zenon DEF TypeInv, TypeOK, ElectType
    <3>2. LastIndex(p)' \in Int
      <4>1. logs'[p] \in Seq(LogEntry) /\ lastIncludeIndex'[p] \in Int
        BY <2>1, Zenon DEF TypeInv, TypeOK, LogType, SnapType
      <4> QED BY <4>1 DEF LastIndex
    <3> QED BY <2>1, <3>1, <3>2, RangeTypes, Zenon
  <2>3. /\ e.term <= currentTerm[p] /\ currentTerm[p] <= currentTerm'[p]
        /\ e.term = currentTerm[p] =>
             \A x \in Parts : \A i \in Indexes(x) : TermIn(x, i) = e.term => i <= LastIndex(p)
        /\ currentTerm'[p] = currentTerm[p] /\ e.term = currentTerm[p] => LastIndex(p) <= LastIndex(p)'
    BY <1>1, <2>1, Zenon DEF LeaderHolds, Steady, Lead
  <2> HIDE DEF p
  <2>4. e.term <= currentTerm'[p]
    BY <2>1, <2>2, <2>3
  <2>5. ASSUME e.term = currentTerm'[p], NEW x \in Parts', NEW i \in Indexes(x), TermIn(x, i) = e.term
        PROVE  i <= LastIndex(p)'
    <3>1. currentTerm[p] = e.term /\ currentTerm'[p] = currentTerm[p]
      BY <2>1, <2>2, <2>3, <2>5
    <3>2. i \in Int
      <4>1. PartType(x)
        BY <2>5, PartTypes, Zenon
      <4> QED BY <4>1 DEF PartType, Indexes
    <3>3. i <= LastIndex(p) \/ i <= LastIndex(p)'
      BY <1>1, <2>3, <2>5, <3>1, Zenon DEF Old, p
    <3> QED BY <2>2, <2>3, <3>1, <3>2, <3>3
  <2> QED BY <2>4, <2>5, Zenon DEF p
<1> QED BY <1>1, Zenon DEF LeaderHolds

\* A step that changes no log keeps the logs in order.
LEMMA LogQuiet ==
  ASSUME TypeInv, TypeInv', LogOrder, KinCalls,
         UNCHANGED <<logs, lastIncludeIndex, lastIncludeTerm, elected>>,
         \A p \in Server : currentTerm[p] <= currentTerm'[p]
  PROVE  LogOrder'
<1>1. \A s \in Server : LogPart(s)' = LogPart(s) /\ LastIndex(s)' = LastIndex(s)
  BY Zenon DEF LogPart, LastIndex
<1>2. \A c \in appendCalls' : \E d \in appendCalls : CallPart(c) = CallPart(d)
  BY Zenon DEF KinCalls, CopyOf, CallPart
<1>3. Parts' \subseteq Parts
  BY <1>1, <1>2, Zenon DEF Parts
<1>4. PartsMatch'
  BY <1>3, Zenon DEF PartsMatch, LogOrder
<1>5. TermsLed'
  BY <1>3, LedKept, Zenon DEF LogOrder, Old
<1>6. \A p \in Server : LastIndex(p) <= LastIndex(p)'
  BY <1>1, RangeTypes
<1>7. \A p \in Server : Steady(p)
  BY <1>6, Zenon DEF Steady
<1>8. LeaderHolds'
  BY <1>3, <1>7, HoldsKept, Zenon DEF LogOrder, Old
<1> QED BY <1>4, <1>5, <1>8, Zenon DEF LogOrder

-----------------------------------------------------------------------------
(***************************************************************************)
(* Steps that leave no trace of a snapshot.                                *)
(***************************************************************************)
\* NoTrace is about these variables.
LEMMA NoTraceQuiet ==
  ASSUME NoTrace, UNCHANGED <<snapCalls, lastIncludeIndex, lastIncludeTerm, applier, logs>>
  PROVE  NoTrace'
  BY Zenon DEF NoTrace

\* Saved is about these.
LEMMA SavedQuiet ==
  ASSUME Saved, UNCHANGED <<persisted, currentTerm, voteFor, logs>>
  PROVE  Saved'
  BY Zenon DEF Saved

\* persist() at the end of a step of server s.
LEMMA SavedPersist ==
  ASSUME TypeInv, Saved, NEW s \in Server, persist(s),
         \A p \in Server \ {s} : /\ currentTerm'[p] = currentTerm[p] /\ voteFor'[p] = voteFor[p]
                                 /\ logs'[p] = logs[p]
  PROVE  Saved'
<1>1. /\ persisted \in [Server -> Persisted]
      /\ persisted' = [persisted EXCEPT ![s] = [currentTerm |-> currentTerm'[s],
                                                voteFor |-> voteFor'[s], logs |-> logs'[s]]]
  BY Zenon DEF TypeInv, TypeOK, PersistType, persist
<1>2. persisted'[s] = [currentTerm |-> currentTerm'[s], voteFor |-> voteFor'[s], logs |-> logs'[s]]
  BY <1>1, Zenon
<1>3. \A p \in Server \ {s} : persisted'[p] = persisted[p]
  BY <1>1, Zenon
<1>4. ASSUME NEW p \in Server \ {s}
      PROVE  persisted'[p] = [currentTerm |-> currentTerm'[p], voteFor |-> voteFor'[p], logs |-> logs'[p]]
  <2>1. persisted[p] = [currentTerm |-> currentTerm[p], voteFor |-> voteFor[p], logs |-> logs[p]]
    BY Zenon DEF Saved
  <2>2. currentTerm'[p] = currentTerm[p] /\ voteFor'[p] = voteFor[p] /\ logs'[p] = logs[p]
    BY <1>4, Zenon
  <2> QED BY <1>3, <2>1, <2>2, Zenon
<1> QED BY <1>2, <1>4, Zenon DEF Saved

\* A handler that adopts a term, a vote or nothing, and persists.
LEMMA SavedAdopt ==
  ASSUME TypeInv, Saved, NEW s \in Server, NEW term, NEW leader, persist(s), UNCHANGED logs,
         Adopt(s, term, leader) \/ UNCHANGED electVars
  PROVE  Saved'
<1>1. currentTerm \in [Server -> Nat] /\ voteFor \in [Server -> Server \union {None}]
  BY Zenon DEF TypeInv, TypeOK, ElectType
<1>2. \A p \in Server \ {s} : currentTerm'[p] = currentTerm[p] /\ voteFor'[p] = voteFor[p]
  BY <1>1, Zenon DEF Adopt, electVars
<1> QED BY <1>2, SavedPersist, Zenon

\* A sender that steps down.
LEMMA SavedStepDown ==
  ASSUME TypeInv, Saved, NEW s \in Server, NEW term \in Nat, UNCHANGED logs, StepDown(s, term)
  PROVE  Saved'
<1>1. CASE term > currentTerm[s]
  <2>1. /\ currentTerm \in [Server -> Nat] /\ voteFor \in [Server -> Server \union {None}]
    BY Zenon DEF TypeInv, TypeOK, ElectType
  <2>2. /\ currentTerm' = [currentTerm EXCEPT ![s] = term]
        /\ voteFor' = [voteFor EXCEPT ![s] = None]
        /\ persisted' = [persisted EXCEPT ![s] = [currentTerm |-> term, voteFor |-> None, logs |-> logs[s]]]
    BY <1>1, Zenon DEF StepDown
  <2>3. currentTerm'[s] = term /\ voteFor'[s] = None /\ logs'[s] = logs[s]
    BY <2>1, <2>2, Zenon
  <2>4. persist(s)
    BY <2>2, <2>3, Zenon DEF persist
  <2>5. \A p \in Server \ {s} : currentTerm'[p] = currentTerm[p] /\ voteFor'[p] = voteFor[p] /\ logs'[p] = logs[p]
    BY <2>1, <2>2, Zenon
  <2> QED BY <2>4, <2>5, SavedPersist, Zenon
<1>2. CASE ~ (term > currentTerm[s])
  BY <1>2, SavedQuiet, Zenon DEF StepDown
<1> QED BY <1>1, <1>2, Zenon

\* A request that is handled, orphaned or resent stays sane.
LEMMA CallsSane ==
  ASSUME AppendType, \A c \in appendCalls : CallSane(c)
  PROVE  /\ \A c \in appendCalls : \A r :
              (r.AppendErr \in {"LogsNotMatch", "Commited"} => r.NotMatchIndex >= 0) =>
                \A d \in Answer(appendCalls, c, r) : CallSane(d)
         /\ \A s : \A d \in Orphaned(appendCalls, s) : CallSane(d)
         /\ \A c \in appendCalls : \A r : \A d \in Resend(appendCalls, c, r) : CallSane(d)
<1>1. \A c \in appendCalls : c \in AppendCall
  BY Zenon DEF AppendType
<1>2. ASSUME NEW c \in appendCalls, NEW r,
             r.AppendErr \in {"LogsNotMatch", "Commited"} => r.NotMatchIndex >= 0
      PROVE  CallSane([c EXCEPT !.phase = "replied", !.reply = r])
  <2> DEFINE d == [c EXCEPT !.phase = "replied", !.reply = r]
  <2>1. d.PrevLogIndex = c.PrevLogIndex /\ d.reply = r
    BY <1>1 DEF AppendCall
  <2> HIDE DEF d
  <2>2. c.PrevLogIndex >= -1
    BY Zenon DEF CallSane
  <2> QED BY <1>2, <2>1, <2>2, Zenon DEF CallSane, d
<1>3. ASSUME NEW c \in appendCalls
      PROVE  CallSane([c EXCEPT !.phase = "orphan"])
  <2> DEFINE d == [c EXCEPT !.phase = "orphan"]
  <2>1. d.PrevLogIndex = c.PrevLogIndex /\ d.phase # "replied"
    BY <1>1 DEF AppendCall
  <2> HIDE DEF d
  <2> QED BY <2>1, Zenon DEF CallSane, d
<1>4. ASSUME NEW c \in appendCalls, NEW r
      PROVE  CallSane([c EXCEPT !.phase = "sent", !.reply = r])
  <2> DEFINE d == [c EXCEPT !.phase = "sent", !.reply = r]
  <2>1. d.PrevLogIndex = c.PrevLogIndex /\ d.phase # "replied"
    BY <1>1 DEF AppendCall
  <2> HIDE DEF d
  <2> QED BY <2>1, Zenon DEF CallSane, d
<1>5. \A c \in appendCalls : \A r :
        (r.AppendErr \in {"LogsNotMatch", "Commited"} => r.NotMatchIndex >= 0) =>
          \A d \in Answer(appendCalls, c, r) : CallSane(d)
  BY <1>2, Zenon DEF Answer
<1>6. \A s : \A d \in Orphaned(appendCalls, s) : CallSane(d)
  BY <1>3, Zenon DEF Orphaned
<1>7. \A c \in appendCalls : \A r : \A d \in Resend(appendCalls, c, r) : CallSane(d)
  BY <1>4, Zenon DEF Resend
<1> QED BY <1>5, <1>6, <1>7, Zenon

\* The apply loop of a server without snapshots.
LEMMA ApplyPlain ==
  ASSUME SnapShotInterval = 0, TypeInv, NEW s \in Server, NEW lg \in Seq(LogEntry), NEW target \in Int,
         Apply(s, lg, target)
  PROVE  /\ logs' = [logs EXCEPT ![s] = lg]
         /\ UNCHANGED <<lastIncludeIndex, lastIncludeTerm, applier>>
<1>1. \A i : ~ SnapshotDue(i)
  BY DEF SnapshotDue
<1> DEFINE base  == lastIncludeIndex[s]
           first == lastApplied[s] + 1
           last  == IF target > lastApplied[s] THEN target ELSE lastApplied[s]
           taken == {i \in first..(last - 1) :
                       SnapshotDue(i) /\ \A j \in (i + 1)..(last - 1) : ~ SnapshotDue(j)}
           cut   == IF taken = {} THEN base ELSE CHOOSE i \in taken : TRUE
<1>2. /\ applier' = [applier EXCEPT ![s] =
                       IF target > lastApplied[s] /\ SnapshotDue(last)
                       THEN [Idle EXCEPT !.op = "snapshot", !.index = last] ELSE applier[s]]
      /\ lastIncludeIndex' = [lastIncludeIndex EXCEPT ![s] = cut]
      /\ lastIncludeTerm' = [lastIncludeTerm EXCEPT ![s] =
                               IF taken = {} THEN lastIncludeTerm[s] ELSE lg[cut - base].Term]
      /\ logs' = [logs EXCEPT ![s] = SubSeq(lg, cut - base + 1, Len(lg))]
  BY Zenon DEF Apply
<1>3. taken = {} /\ cut = base
  BY <1>1, Zenon
<1> HIDE DEF taken, cut, first, last
<1>4. /\ applier \in [Server -> ServiceCall] /\ lastIncludeIndex \in [Server -> Int]
      /\ lastIncludeTerm \in [Server -> Nat] /\ base \in Int
  BY Zenon DEF TypeInv, TypeOK, ApplyType, SnapType
<1>5. SubSeq(lg, cut - base + 1, Len(lg)) = lg
  <2>1. cut - base + 1 = 1
    BY <1>3, <1>4
  <2>2. SubSeq(lg, 1, Len(lg)) = lg
    OBVIOUS
  <2> QED BY <2>1, <2>2, Zenon
<1>6. applier' = applier /\ lastIncludeIndex' = lastIncludeIndex /\ lastIncludeTerm' = lastIncludeTerm
  BY <1>1, <1>2, <1>3, <1>4, Zenon
<1> QED BY <1>2, <1>5, <1>6, Zenon

-----------------------------------------------------------------------------
(***************************************************************************)
(* The actions keep LogInv.                                                *)
(***************************************************************************)
\* An election saves the new term, and changes no log.
LEMMA LogTickerElection ==
  ASSUME TypeInv, TypeInv', LogInv, NEW s \in Server, TickerElection(s)
  PROVE  LogInv'
<1> USE DEF LogInv, NoSnapshots
<1>1. /\ UNCHANGED <<logs, nextIndexs, lastIncludeIndex, lastIncludeTerm, applier, elected, appendCalls, snapCalls>>
      /\ persist(s)
      /\ currentTerm' = [currentTerm EXCEPT ![s] = currentTerm[s] + 1]
      /\ voteFor' = [voteFor EXCEPT ![s] = s]
  BY Zenon DEF TickerElection, appendVars, snapVars, applyVars
<1>2. currentTerm \in [Server -> Nat] /\ voteFor \in [Server -> Server \union {None}]
  BY Zenon DEF TypeInv, TypeOK, ElectType
<1>3. \A p \in Server : currentTerm[p] <= currentTerm'[p]
  BY <1>1, <1>2
<1>4. Saved'
  BY <1>1, <1>2, SavedPersist, Zenon
<1>5. NextSane'
  BY <1>1, Zenon DEF NextSane
<1>6. LogOrder'
  BY <1>1, <1>3, KinLess, LogQuiet, Zenon
<1> QED BY <1>1, <1>4, <1>5, <1>6, NoTraceQuiet, Zenon

\* RequestVote changes no log.
LEMMA LogRequestVote ==
  ASSUME TypeInv, TypeInv', LogInv, NEW c \in voteCalls, RequestVote(c)
  PROVE  LogInv'
<1> USE DEF LogInv, NoSnapshots
<1>1. c.to \in Server /\ c.Term \in Nat
  BY VoteCallFields, Zenon DEF TypeInv, TypeOK
<1>2. UNCHANGED <<logs, nextIndexs, lastIncludeIndex, lastIncludeTerm, applier, elected, appendCalls, snapCalls>>
  BY Zenon DEF RequestVote, RequestVoteOutofDate, RequestVoteLogTooOld, RequestVoteVoted, RequestVoteGrant,
     VoteFrame, appendVars, snapVars, applyVars
<1>3. \/ UNCHANGED <<persisted, currentTerm, voteFor>>
      \/ /\ persist(c.to)
         /\ \/ UNCHANGED electVars
            \/ \E x : Adopt(c.to, c.Term, x) /\ c.Term >= currentTerm[c.to]
  BY Zenon DEF RequestVote, RequestVoteOutofDate, RequestVoteLogTooOld, RequestVoteVoted, RequestVoteGrant, electVars
<1>4. \A p \in Server : currentTerm[p] <= currentTerm'[p]
  BY <1>1, <1>3, TermUp, Zenon DEF electVars
<1>5. Saved'
  BY <1>1, <1>2, <1>3, SavedQuiet, SavedAdopt, Zenon
<1>6. NextSane'
  BY <1>2, Zenon DEF NextSane
<1>7. LogOrder'
  BY <1>2, <1>4, KinLess, LogQuiet, Zenon
<1> QED BY <1>2, <1>5, <1>6, <1>7, NoTraceQuiet, Zenon

\* A server that is elected holds every entry there is of its term, which is none
\* if it is elected for the first time in it.
LEMMA LogElected ==
  ASSUME TypeInv, ElectionInv', LogInv, NEW s \in Server,
         UNCHANGED <<currentTerm, logs, lastIncludeIndex, lastIncludeTerm, appendCalls>>,
         elected' = elected \union {[term |-> currentTerm[s], leader |-> s]}
  PROVE  LogOrder'
<1> USE DEF LogInv, NoSnapshots
<1> DEFINE e == [term |-> currentTerm[s], leader |-> s]
<1>1. Parts' = Parts /\ \A p \in Server : LastIndex(p)' = LastIndex(p)
  BY Zenon DEF Parts, LogPart, LastIndex
<1>2. PartsMatch'
  BY <1>1, Zenon DEF PartsMatch, LogOrder
<1>3. TermsLed'
  BY <1>1, Zenon DEF TermsLed, LogOrder, HasLeader
<1>4. e.term = currentTerm[s] /\ e.leader = s /\ e \in elected'
  BY Zenon
<1> HIDE DEF e
<1>5. LastIndex(s) >= 0 /\ LastIndex(s) \in Int /\ currentTerm[s] <= currentTerm[s]
  <2>1. logs[s] # <<>> /\ lastIncludeIndex[s] = -1 /\ logs[s] \in Seq(LogEntry) /\ currentTerm[s] \in Nat
    BY RangeTypes, Zenon DEF NoTrace
  <2> QED BY <2>1 DEF LastIndex
<1>6. ASSUME NEW x \in Parts, NEW i \in Indexes(x), TermIn(x, i) = e.term
      PROVE  i <= LastIndex(s)
  <2>1. i \in Int
    BY PartTypes DEF PartType, Indexes
  <2>2. CASE i > 0
    <3>1. PICK f \in elected : f.term = TermIn(x, i)
      BY <2>2, Zenon DEF LogOrder, TermsLed, HasLeader
    <3>2. f.leader = s
      <4>1. f \in elected' /\ f.term = e.term
        BY <1>6, <3>1, Zenon
      <4>2. \A g, h \in elected' : g.term = h.term => g.leader = h.leader
        BY Zenon DEF ElectionInv, ElectionSafety
      <4> QED BY <1>4, <4>1, <4>2, Zenon
    <3> QED BY <1>4, <1>6, <3>1, <3>2, Zenon DEF LogOrder, LeaderHolds
  <2>3. CASE ~ (i > 0)
    BY <1>5, <2>1, <2>3
  <2> QED BY <2>2, <2>3, Zenon
<1>7. ASSUME NEW f \in elected'
      PROVE  /\ f.term <= currentTerm'[f.leader]
             /\ f.term = currentTerm'[f.leader] =>
                  \A x \in Parts' : \A i \in Indexes(x) : TermIn(x, i) = f.term => i <= LastIndex(f.leader)'
  <2>1. CASE f \in elected
    <3>1. f.leader \in Server
      BY <2>1, Zenon DEF TypeInv, TypeOK, VoteType
    <3> QED BY <1>1, <2>1, <3>1, Zenon DEF LogOrder, LeaderHolds
  <2>2. CASE f = e
    BY <1>1, <1>4, <1>5, <1>6, <2>2, Zenon
  <2> QED BY <1>7, <2>1, <2>2, Zenon DEF e
<1>8. LeaderHolds'
  BY <1>7, Zenon DEF LeaderHolds
<1> QED BY <1>2, <1>3, <1>8, Zenon DEF LogOrder

\* sendRequestVote changes no log.
LEMMA LogSendRequestVote ==
  ASSUME TypeInv, TypeInv', ElectionInv', LogInv, NEW c \in voteCalls,
         SendRequestVoteCheck(c) \/ SendRequestVoteRefused(c) \/ SendRequestVoteCount(c)
  PROVE  LogInv'
<1> USE DEF LogInv, NoSnapshots
<1>1. c.from \in Server /\ c.reply.Term \in Nat
  BY VoteCallFields, Zenon DEF TypeInv, TypeOK
<1>2. UNCHANGED <<logs, lastIncludeIndex, lastIncludeTerm, applier, appendCalls, snapCalls>>
  BY Zenon DEF SendRequestVoteCheck, SendRequestVoteRefused, SendRequestVoteCount,
     VoteFrame, appendVars, snapVars, applyVars
<1>3. CASE SendRequestVoteCheck(c) \/ SendRequestVoteRefused(c)
  <2>1. /\ UNCHANGED <<nextIndexs, elected>>
        /\ UNCHANGED <<persisted, currentTerm, voteFor>> \/ StepDown(c.from, c.reply.Term)
    BY <1>3, Zenon DEF SendRequestVoteCheck, SendRequestVoteRefused, VoteFrame, electVars
  <2>2. \A p \in Server : currentTerm[p] <= currentTerm'[p]
    BY <1>1, <2>1, TermUp, Zenon
  <2>3. Saved'
    BY <1>1, <1>2, <2>1, SavedQuiet, SavedStepDown, Zenon
  <2>4. NextSane'
    BY <1>2, <2>1, Zenon DEF NextSane
  <2>5. LogOrder'
    BY <1>2, <2>1, <2>2, KinLess, LogQuiet, Zenon
  <2> QED BY <1>2, <2>3, <2>4, <2>5, NoTraceQuiet, Zenon
<1>4. CASE SendRequestVoteCount(c)
  <2> DEFINE s == c.from
  <2>1. /\ UNCHANGED <<persisted, currentTerm, voteFor>>
        /\ \/ UNCHANGED <<nextIndexs, elected>>
           \/ /\ nextIndexs' = [nextIndexs EXCEPT ![s] = [p \in Server |-> LastIndex(s) + 1]]
              /\ elected' = elected \union {[term |-> currentTerm[s], leader |-> s]}
    BY <1>4, Zenon DEF SendRequestVoteCount
  <2>2. Saved'
    BY <1>2, <2>1, SavedQuiet, Zenon
  <2>3. NextSane'
    <3>1. LastIndex(s) + 1 >= 0
      <4>1. lastIncludeIndex[s] = -1 /\ Len(logs[s]) \in Nat
        BY <1>1, RangeTypes, Zenon DEF NoTrace
      <4> QED BY <4>1 DEF LastIndex
    <3>2. nextIndexs \in [Server -> [Server -> Int]] /\ \A p, q \in Server : nextIndexs[p][q] >= 0
      BY Zenon DEF TypeInv, TypeOK, NextType, NextSane
    <3>3. \A p, q \in Server : nextIndexs'[p][q] >= 0
      <4>1. CASE UNCHANGED nextIndexs
        BY <3>2, <4>1, Zenon
      <4>2. CASE nextIndexs' = [nextIndexs EXCEPT ![s] = [p \in Server |-> LastIndex(s) + 1]]
        <5>1. ASSUME NEW q \in Server PROVE nextIndexs'[s][q] >= 0
          BY <1>1, <3>1, <3>2, <4>2, Zenon
        <5>2. ASSUME NEW p \in Server \ {s} PROVE nextIndexs'[p] = nextIndexs[p]
          BY <3>2, <4>2, Zenon
        <5> QED BY <3>2, <5>1, <5>2, Zenon
      <4> QED BY <2>1, <4>1, <4>2, Zenon
    <3> QED BY <1>2, <3>3, Zenon DEF NextSane
  <2>4. \A p \in Server : currentTerm[p] <= currentTerm'[p]
    BY <1>1, <2>1, TermUp, Zenon
  <2>5. LogOrder'
    BY <1>1, <1>2, <2>1, <2>4, KinLess, LogQuiet, LogElected, Zenon
  <2> QED BY <1>2, <2>2, <2>3, <2>5, NoTraceQuiet, Zenon
<1> QED BY <1>3, <1>4, Zenon

\* The rest of a log, entry by entry.
LEMMA SubSeqElt ==
  ASSUME NEW S, NEW q \in Seq(S), NEW m \in Int, m >= 0, m <= Len(q)
  PROVE  /\ Len(SubSeq(q, m + 1, Len(q))) = Len(q) - m
         /\ \A k \in 1..(Len(q) - m) : SubSeq(q, m + 1, Len(q))[k] = q[m + k]
OBVIOUS

\* What a round of heartbeats sends is a part of the sender's log.
LEMMA NewCallSub ==
  ASSUME TypeInv, NoSnapshots, NEW s \in Server, NEW p \in Server
  PROVE  /\ Sub(CallPart(NewAppendCall(s, p)), LogPart(s))
         /\ CallSane(NewAppendCall(s, p)) /\ Clamped(s, p) >= 0
<1> DEFINE c == NewAppendCall(s, p)
           next == Clamped(s, p)
           q == logs[s]
           x == CallPart(c)
           y == LogPart(s)
<1>1. /\ nextIndexs[s][p] \in Int /\ nextIndexs[s][p] >= 0 /\ q \in Seq(LogEntry) /\ Len(q) \in Nat
      /\ lastIncludeIndex[s] = -1 /\ LastIndex(s) = Len(q) + (-1)
  BY RangeTypes, Zenon DEF TypeInv, TypeOK, NextType, LastIndex, NoSnapshots, NextSane, NoTrace
<1>2. next \in Int /\ next >= 0 /\ next <= Len(q)
  BY <1>1 DEF Clamped
<1>3. next - lastIncludeIndex[s] = next + 1
  BY <1>1, <1>2
<1> HIDE DEF next
<1>4. /\ c.PrevLogIndex = next - 1 /\ c.PrevLogTerm = TermAt(s, next - 1)
      /\ c.Logs = SubSeq(q, next + 1, Len(q)) /\ c.phase = "sent"
  <2>1. /\ c.PrevLogIndex = next - 1 /\ c.PrevLogTerm = TermAt(s, next - 1)
        /\ c.Logs = SubSeq(q, next - lastIncludeIndex[s], Len(q)) /\ c.phase = "sent"
    BY Zenon DEF NewAppendCall, next
  <2> QED BY <1>3, <2>1, Zenon
<1> HIDE DEF c
<1>5. CallSane(c)
  <2>1. c.PrevLogIndex >= -1
    BY <1>2, <1>4
  <2>2. c.phase # "replied"
    BY <1>4
  <2> QED BY <2>1, <2>2, Zenon DEF CallSane
<1>6. /\ x.prev = next - 1 /\ x.term = TermAt(s, next - 1) /\ x.ents = SubSeq(q, next + 1, Len(q))
      /\ y.prev = -1 /\ y.term = lastIncludeTerm[s] /\ y.ents = q
  BY <1>1, <1>4, Zenon DEF CallPart, LogPart
<1>7. /\ Len(x.ents) = Len(q) - next
      /\ \A k \in 1..(Len(q) - next) : x.ents[k] = q[next + k]
  <2>1. /\ Len(SubSeq(q, next + 1, Len(q))) = Len(q) - next
        /\ \A k \in 1..(Len(q) - next) : SubSeq(q, next + 1, Len(q))[k] = q[next + k]
    <3> HIDE DEF q
    <3> QED BY <1>1, <1>2, SubSeqElt, Zenon
  <2> QED BY <1>6, <2>1, Zenon
<1> HIDE DEF x, y
<1>8. ASSUME NEW i \in Indexes(x) PROVE Alike(x, y, i)
  <2>1. i \in Int /\ next - 1 <= i /\ i <= Len(q) - 1
    <3>1. i \in (next - 1)..(next - 1 + (Len(q) - next))
      BY <1>6, <1>7, <1>8, Zenon DEF Indexes
    <3> HIDE DEF q
    <3> QED BY <1>1, <1>2, <3>1
  <2>2. i \in Indexes(y)
    <3>1. i \in (-1)..(-1 + Len(q))
      <4> HIDE DEF q
      <4> QED BY <1>1, <1>2, <2>1
    <3> QED BY <1>6, <3>1, Zenon DEF Indexes
  <2>3. CASE i = x.prev
    <3>1. TermIn(x, i) = TermAt(s, i)
      BY <1>6, <2>3, Zenon DEF TermIn
    <3>2. TermIn(y, i) = TermAt(s, i)
      BY <1>1, <1>6, Zenon DEF TermIn, TermAt
    <3> QED BY <2>2, <2>3, <3>1, <3>2, Zenon DEF Alike
  <2>4. CASE i # x.prev
    <3>1. /\ i - x.prev \in 1..(Len(q) - next) /\ next + (i - x.prev) = i - y.prev /\ i # y.prev
      <4>1. i - x.prev = i - next + 1 /\ i - y.prev = i + 1 /\ i # next - 1
        BY <1>2, <1>6, <2>1, <2>4
      <4> HIDE DEF q
      <4>2. i - next + 1 \in 1..(Len(q) - next) /\ next + (i - next + 1) = i + 1 /\ i # -1
        BY <1>1, <1>2, <2>1, <4>1
      <4> QED BY <1>6, <4>1, <4>2, Zenon
    <3>2. x.ents[i - x.prev] = y.ents[i - y.prev]
      BY <1>6, <1>7, <3>1, Zenon
    <3> QED BY <2>2, <2>4, <3>1, <3>2, Zenon DEF Alike, TermIn
  <2> QED BY <2>3, <2>4, Zenon
<1>9. next >= 0
  BY <1>2, Zenon
<1> QED BY <1>5, <1>8, <1>9, Zenon DEF Sub, x, y, c, next

\* A round of heartbeats sends parts of the log, and no snapshot.
LEMMA LogTickerHeartbeat ==
  ASSUME TypeInv, TypeInv', LogInv, NEW s \in Server, TickerHeartbeat(s)
  PROVE  LogInv'
<1> USE DEF LogInv, NoSnapshots
<1> DEFINE behind == {p \in Server \ {s} : nextIndexs[s][p] <= lastIncludeIndex[s]}
           others == (Server \ {s}) \ behind
<1>1. /\ UNCHANGED <<logs, lastIncludeIndex, lastIncludeTerm, applier, elected, persisted, currentTerm, voteFor>>
      /\ snapCalls' = snapCalls \union {NewSnapCall(s, p) : p \in behind}
      /\ appendCalls' = appendCalls \union {NewAppendCall(s, p) : p \in others}
      /\ nextIndexs' = [nextIndexs EXCEPT ![s] =
                          [p \in Server |-> IF p \in others THEN Clamped(s, p) ELSE nextIndexs[s][p]]]
  BY Zenon DEF TickerHeartbeat, electVars, snapVars, applyVars, voteVars
<1>2. behind = {}
  <2>1. lastIncludeIndex[s] = -1 /\ \A p \in Server : nextIndexs[s][p] \in Int /\ nextIndexs[s][p] >= 0
    BY Zenon DEF NoTrace, NextSane, TypeInv, TypeOK, NextType
  <2> QED BY <2>1
<1>3. NoTrace'
  BY <1>1, <1>2, NoTraceQuiet, Zenon
<1>4. Saved'
  BY <1>1, SavedQuiet, Zenon
<1> HIDE DEF behind
<1>5. NextSane'
  <2>1. nextIndexs \in [Server -> [Server -> Int]] /\ \A p, q \in Server : nextIndexs[p][q] >= 0
    BY Zenon DEF TypeInv, TypeOK, NextType, NextSane
  <2>2. \A p \in Server : nextIndexs'[s][p] >= 0
    BY <1>1, <2>1, NewCallSub, Zenon
  <2>3. \A p \in Server \ {s} : nextIndexs'[p] = nextIndexs[p]
    BY <1>1, <2>1, Zenon
  <2>4. \A p, q \in Server : nextIndexs'[p][q] >= 0
    BY <2>1, <2>2, <2>3, Zenon
  <2>5. \A c \in appendCalls' : CallSane(c)
    BY <1>1, NewCallSub, Zenon DEF NextSane
  <2> QED BY <2>4, <2>5, Zenon DEF NextSane
<1>6. \A x \in Parts' : \E y \in Parts : Sub(x, y)
  <2>1. \A p \in Server : LogPart(p)' = LogPart(p)
    BY <1>1, Zenon DEF LogPart
  <2>2. \A p \in others : \E y \in Parts : Sub(CallPart(NewAppendCall(s, p)), y)
    BY NewCallSub, Zenon DEF Parts
  <2>3. \A y \in Parts : Sub(y, y)
    BY MatchSelf, Zenon
  <2>4. ASSUME NEW c \in appendCalls' PROVE \E y \in Parts : Sub(CallPart(c), y)
    <3>1. CASE c \in appendCalls
      BY <2>3, <3>1, Zenon DEF Parts
    <3>2. CASE c \notin appendCalls
      <4>1. PICK p \in others : c = NewAppendCall(s, p)
        BY <1>1, <2>4, <3>2, Zenon
      <4> QED BY <2>2, <4>1, Zenon
    <3> QED BY <3>1, <3>2, Zenon
  <2>5. \A p \in Server : \E y \in Parts : Sub(LogPart(p)', y)
    BY <2>1, <2>3, Zenon DEF Parts
  <2> QED BY <2>4, <2>5, Zenon DEF Parts
<1>7. \A x \in Parts' : \A i \in Indexes(x) : Old(x, i)
  BY <1>6, Zenon DEF Sub, Alike, Old
<1>8. PartsMatch' /\ TermsLed'
  BY <1>1, <1>6, <1>7, PartsSub, LedKept, Zenon DEF LogOrder
<1>9. LeaderHolds'
  <2>1. \A p \in Server : LastIndex(p)' = LastIndex(p)
    BY <1>1, Zenon DEF LastIndex
  <2>2. \A p \in Server : LastIndex(p) <= LastIndex(p)' /\ currentTerm[p] <= currentTerm'[p]
    BY <1>1, <2>1, RangeTypes
  <2> QED BY <1>1, <1>7, <2>2, HoldsKept, Zenon DEF LogOrder, Steady
<1> QED BY <1>3, <1>4, <1>5, <1>8, <1>9, Zenon DEF LogOrder

\* A step that sends nothing and changes the log of one server.
LEMMA PartsOne ==
  ASSUME KinCalls, NEW s \in Server, \A p \in Server \ {s} : logs'[p] = logs[p],
         UNCHANGED <<lastIncludeIndex, lastIncludeTerm>>
  PROVE  \A x \in Parts' : x = LogPart(s)' \/ x \in Parts
<1>1. \A p \in Server \ {s} : LogPart(p)' = LogPart(p)
  BY Zenon DEF LogPart
<1>2. \A c \in appendCalls' : \E d \in appendCalls : CallPart(c) = CallPart(d)
  BY Zenon DEF KinCalls, CopyOf, CallPart
<1>3. \A c \in appendCalls' : CallPart(c) \in Parts
  BY <1>2, Zenon DEF Parts
<1>4. \A p \in Server : LogPart(p)' = LogPart(s)' \/ LogPart(p)' \in Parts
  BY <1>1, Zenon DEF Parts
<1> QED BY <1>3, <1>4, Zenon DEF Parts

\* A log with a new last entry.
LEMMA AppendElt ==
  ASSUME NEW S, NEW q \in Seq(S), NEW e
  PROVE  /\ Len(Append(q, e)) = Len(q) + 1 /\ Append(q, e)[Len(q) + 1] = e
         /\ \A k \in 1..Len(q) : Append(q, e)[k] = q[k]
OBVIOUS

\* Start appends an entry of a term in which nobody else has one behind its log.
LEMMA LogStart ==
  ASSUME TypeInv, TypeInv', ElectionInv, LogInv, NEW s \in Server, Start(s)
  PROVE  LogInv'
<1> USE DEF LogInv, NoSnapshots
<1> DEFINE e == [Term |-> currentTerm[s], Cmd |-> starts + 1]
           q == logs[s]
           n == Len(q)
           lead == [term |-> currentTerm[s], leader |-> s]
           x == LogPart(s)
           z == LogPart(s)'
<1>1. /\ logs' = [logs EXCEPT ![s] = Append(q, e)] /\ myStatus[s] = "Leader" /\ persist(s)
      /\ UNCHANGED <<currentTerm, voteFor, appendCalls, snapCalls, nextIndexs, lastIncludeIndex, lastIncludeTerm,
                     applier, elected>>
  BY Zenon DEF Start, electVars, appendVars, snapVars, applyVars, voteVars
<1>2. /\ logs \in [Server -> Seq(LogEntry)] /\ q \in Seq(LogEntry) /\ n \in Nat /\ currentTerm[s] \in Nat
      /\ lastIncludeIndex[s] = -1 /\ lastIncludeTerm[s] = 0
  BY RangeTypes, Zenon DEF TypeInv, TypeOK, LogType, NoTrace
<1>3. logs'[s] = Append(q, e) /\ \A p \in Server \ {s} : logs'[p] = logs[p]
  BY <1>1, <1>2, Zenon
<1>4. Saved'
  BY <1>1, <1>3, SavedPersist, Zenon
<1>5. NextSane'
  BY <1>1, Zenon DEF NextSane
<1>6. e.Term = currentTerm[s]
  BY Zenon
<1> HIDE DEF e
<1>0. /\ Len(Append(q, e)) = n + 1 /\ Append(q, e)[n + 1] = e
      /\ \A k \in 1..n : Append(q, e)[k] = q[k]
  <2> HIDE DEF q
  <2> QED BY <1>2, AppendElt, SMTT(20)
<1>7. NoTrace'
  <2>1. logs'[s] # <<>>
    <3>1. Len(Append(q, e)) = n + 1 /\ n \in Nat
      BY <1>0, <1>2, Zenon
    <3>2. Append(q, e) # <<>>
      <4> HIDE DEF q
      <4> QED BY <3>1
    <3> QED BY <1>3, <3>2, Zenon
  <2> QED BY <1>1, <1>3, <2>1, Zenon DEF NoTrace
<1>8. \A v \in Parts' : v = z \/ v \in Parts
  BY <1>1, <1>3, KinLess, PartsOne, Zenon
<1>9. /\ x.prev = -1 /\ x.term = 0 /\ x.ents = q
      /\ z.prev = -1 /\ z.term = 0 /\ z.ents = Append(q, e)
  BY <1>1, <1>2, <1>3, Zenon DEF LogPart
<1>10. LastIndex(s) = n - 1 /\ LastIndex(s)' = n
  <2>1. Len(logs'[s]) = n + 1
    BY <1>0, <1>3, Zenon
  <2>2. LastIndex(s) = n + (-1) /\ LastIndex(s)' = n + 1 + (-1)
    BY <1>1, <1>2, <2>1, Zenon DEF LastIndex
  <2> HIDE DEF n
  <2> QED BY <1>2, <2>2
<1>11. /\ PartType(z) /\ x \in Parts /\ z \in Parts'
  BY PartTypes, Zenon DEF Parts
<1> HIDE DEF x, z
<1>12. /\ Indexes(x) = (-1)..(n - 1) /\ Indexes(z) = (-1)..n
  <2>1. Indexes(x) = (-1)..(-1 + n)
    BY <1>9, Zenon DEF Indexes
  <2>2. Indexes(z) = (-1)..(-1 + (n + 1))
    <3>1. Len(z.ents) = n + 1
      BY <1>0, <1>9, Zenon
    <3> QED BY <1>9, <3>1, Zenon DEF Indexes
  <2> HIDE DEF n
  <2>3. -1 + n = n - 1 /\ -1 + (n + 1) = n
    BY <1>2
  <2> QED BY <2>1, <2>2, <2>3, Zenon
<1>13. ASSUME NEW i \in Indexes(z), i # n PROVE Alike(z, x, i)
  <2>1. i \in Int /\ -1 <= i /\ i <= n - 1 /\ i - (-1) = i + 1
    <3> HIDE DEF n
    <3> QED BY <1>2, <1>12, <1>13
  <2>2. i \in Indexes(x) /\ (i # -1 => i + 1 \in 1..n)
    <3> HIDE DEF n
    <3> QED BY <1>2, <1>12, <2>1
  <2>3. i # -1 => Append(q, e)[i + 1] = q[i + 1]
    BY <1>0, <2>2, Zenon
  <2> QED BY <1>9, <2>1, <2>2, <2>3, Zenon DEF Alike, TermIn
<1>14. TermIn(z, n) = currentTerm[s] /\ n \in Indexes(z) /\ \A i \in Indexes(z) : i <= n
  <2>1. n # -1 /\ n - (-1) = n + 1 /\ n \in Indexes(z) /\ \A i \in Indexes(z) : i <= n
    <3> HIDE DEF n
    <3> QED BY <1>2, <1>12
  <2>2. Append(q, e)[n + 1] = e
    BY <1>0, Zenon
  <2> QED BY <1>6, <1>9, <2>1, <2>2, Zenon DEF TermIn
<1>15. lead \in elected /\ lead.term = currentTerm[s] /\ lead.leader = s
  BY <1>1, Zenon DEF ElectionInv, OnlyElectedLead, Lead
<1> HIDE DEF lead, n, q
<1>16. \A w \in Parts : n \in Indexes(w) => TermIn(w, n) # TermIn(z, n)
  <2>1. ~ (n <= LastIndex(s))
    BY <1>2, <1>10
  <2> QED BY <1>14, <1>15, <2>1, Zenon DEF LogOrder, LeaderHolds
<1>17. PartsMatch'
  <2>1. \A w \in Parts : Matching(x, w)
    BY <1>11, Zenon DEF LogOrder, PartsMatch
  <2>2. n \in Int
    BY <1>2
  <2>3. \A w \in Parts : Matching(z, w)
    BY <1>11, <1>13, <1>14, <1>16, <2>1, <2>2, MatchGrow, Zenon
  <2> QED BY <1>8, <2>3, MatchSelf, PartsGrow, Zenon DEF LogOrder
<1>18. \A v \in Parts' : \A i \in Indexes(v) : Old(v, i) \/ (TermIn(v, i) = currentTerm[s] /\ i = n)
  BY <1>8, <1>11, <1>13, <1>14, Zenon DEF Old, Alike
<1>19. TermsLed'
  BY <1>1, <1>15, <1>18, LedKept, Zenon DEF LogOrder
<1>20. LeaderHolds'
  <2>1. \A p \in Server : LastIndex(p) <= LastIndex(p)' /\ currentTerm[p] <= currentTerm'[p]
    <3>1. \A p \in Server \ {s} : LastIndex(p)' = LastIndex(p)
      BY <1>1, <1>3, Zenon DEF LastIndex
    <3>2. LastIndex(s) <= LastIndex(s)' /\ \A p \in Server : currentTerm[p] <= currentTerm[p]
      BY <1>2, <1>10, RangeTypes
    <3>3. \A p \in Server \ {s} : LastIndex(p) <= LastIndex(p)'
      BY <3>1, RangeTypes
    <3> QED BY <1>1, <3>2, <3>3, Zenon
  <2>2. \A f \in elected : f.term = currentTerm[s] => f.leader = s
    BY <1>15, Zenon DEF ElectionInv, ElectionSafety
  <2>3. n <= LastIndex(s)'
    BY <1>2, <1>10
  <2> QED BY <1>1, <1>18, <2>1, <2>2, <2>3, HoldsKept, Zenon DEF LogOrder, Steady
<1> QED BY <1>4, <1>5, <1>7, <1>17, <1>19, <1>20, Zenon DEF LogOrder

\* The head of a log, up to entry m, and the entries that follow it.
LEMMA JoinElt ==
  ASSUME NEW S, NEW q \in Seq(S), NEW r \in Seq(S), NEW m \in 0..Len(q)
  PROVE  /\ Len(SubSeq(q, 1, m) \o r) = m + Len(r)
         /\ \A k \in 1..m : (SubSeq(q, 1, m) \o r)[k] = q[k]
         /\ \A k \in 1..Len(r) : (SubSeq(q, 1, m) \o r)[m + k] = r[k]
OBVIOUS

\* The log that AppendEntries leaves follows the old log up to PrevLogIndex and the
\* request behind it.
LEMMA AppendedJoin ==
  ASSUME TypeInv, RangeInv, NoSnapshots, NEW c \in appendCalls, AppendEntriesValid(c), LogsMatch(c),
         c.Logs # <<>>, NEW z, z.prev = -1, z.term = 0, z.ents = Appended(c)
  PROVE  /\ c.PrevLogIndex \in Indexes(LogPart(c.to)) /\ c.PrevLogIndex \in Indexes(CallPart(c))
         /\ TermIn(LogPart(c.to), c.PrevLogIndex) = TermIn(CallPart(c), c.PrevLogIndex)
         /\ \A i \in Indexes(z) : /\ i <= c.PrevLogIndex => Alike(z, LogPart(c.to), i)
                                  /\ i > c.PrevLogIndex => Alike(z, CallPart(c), i)
<1> DEFINE s == c.to
           q == logs[s]
           r == c.Logs
           k == c.PrevLogIndex
           x == LogPart(s)
           y == CallPart(c)
           lg == SubSeq(q, 1, k + 1) \o r
<1>1. s \in Server /\ k \in Int /\ r \in Seq(LogEntry)
  BY AppendCallFields, Zenon DEF TypeInv, TypeOK
<1>2. /\ q \in Seq(LogEntry) /\ Len(q) \in Nat /\ lastIncludeIndex[s] = -1 /\ lastIncludeTerm[s] = 0
      /\ LastIndex(s) = Len(q) + (-1)
  BY <1>1, RangeTypes, Zenon DEF NoSnapshots, NoTrace, LastIndex
<1>3. k >= -1 /\ k <= Len(q) - 1 /\ c.PrevLogTerm = TermAt(s, k) /\ k - lastIncludeIndex[s] = k + 1
  <2>1. k >= lastIncludeIndex[s] /\ k <= LastIndex(s) /\ c.PrevLogTerm = TermAt(s, k)
    BY Zenon DEF AppendEntriesValid, LogsMatch
  <2>2. k >= -1 /\ k <= Len(q) - 1 /\ k - lastIncludeIndex[s] = k + 1
    <3> HIDE DEF q
    <3> QED BY <1>1, <1>2, <2>1
  <2> QED BY <2>1, <2>2, Zenon
<1>4. Appended(c) = lg
  <2>1. Appended(c) = SubSeq(logs[c.to], 1, c.PrevLogIndex - lastIncludeIndex[c.to]) \o c.Logs
    BY Zenon DEF Appended
  <2> QED BY <1>3, <2>1, Zenon
<1>5. k + 1 \in 0..Len(q) /\ Len(r) \in Nat
  <2>1. Len(r) \in Nat
    BY <1>1
  <2> HIDE DEF q
  <2> QED BY <1>1, <1>2, <1>3, <2>1
<1>6. /\ Len(lg) = (k + 1) + Len(r)
      /\ \A j \in 1..(k + 1) : lg[j] = q[j]
      /\ \A j \in 1..Len(r) : lg[(k + 1) + j] = r[j]
  <2> HIDE DEF q, r, k
  <2> QED BY <1>1, <1>2, <1>5, JoinElt, SMTT(20)
<1>7. /\ x.prev = -1 /\ x.term = 0 /\ x.ents = q
      /\ y.prev = k /\ y.term = c.PrevLogTerm /\ y.ents = r
      /\ z.ents = lg
  BY <1>2, <1>4, Zenon DEF LogPart, CallPart
<1> HIDE DEF x, y, lg
<1>8. /\ Indexes(x) = (-1)..(-1 + Len(q)) /\ Indexes(y) = k..(k + Len(r))
      /\ Indexes(z) = (-1)..(-1 + ((k + 1) + Len(r)))
  BY <1>6, <1>7, Zenon DEF Indexes
<1> HIDE DEF q, r, k
<1>9. k \in Indexes(x) /\ k \in Indexes(y)
  BY <1>1, <1>2, <1>3, <1>5, <1>8
<1>10. TermIn(x, k) = TermIn(y, k)
  <2>1. TermIn(x, k) = TermAt(s, k)
    BY <1>2, <1>7, Zenon DEF TermIn, TermAt, q
  <2>2. TermIn(y, k) = c.PrevLogTerm
    BY <1>7, Zenon DEF TermIn
  <2> QED BY <1>3, <2>1, <2>2, Zenon
<1>11. ASSUME NEW i \in Indexes(z), i <= k PROVE Alike(z, x, i)
  <2>1. i \in Int /\ i \in Indexes(x) /\ i - (-1) = i + 1 /\ (i # -1 => i + 1 \in 1..(k + 1))
    BY <1>1, <1>2, <1>3, <1>5, <1>8, <1>11
  <2>2. i # -1 => lg[i + 1] = q[i + 1]
    BY <1>6, <2>1, Zenon
  <2> QED BY <1>7, <2>1, <2>2, Zenon DEF Alike, TermIn
<1>12. ASSUME NEW i \in Indexes(z), i > k PROVE Alike(z, y, i)
  <2>1. /\ i \in Int /\ i \in Indexes(y) /\ i # -1 /\ i # k /\ i - k \in 1..Len(r)
        /\ i - (-1) = (k + 1) + (i - k)
    <3>1. \A n \in Nat, a \in Int : \A b \in (-1)..(-1 + ((a + 1) + n)) : b > a /\ a >= -1 =>
            /\ b \in Int /\ b \in a..(a + n) /\ b # -1 /\ b # a /\ b - a \in 1..n
            /\ b - (-1) = (a + 1) + (b - a)
      OBVIOUS
    <3>2. i \in (-1)..(-1 + ((k + 1) + Len(r))) /\ i > k /\ k >= -1
      BY <1>3, <1>8, <1>12, Zenon
    <3>3. /\ i \in Int /\ i \in k..(k + Len(r)) /\ i # -1 /\ i # k /\ i - k \in 1..Len(r)
          /\ i - (-1) = (k + 1) + (i - k)
      BY <1>1, <1>5, <3>1, <3>2
    <3> QED BY <1>8, <3>3, Zenon
  <2>2. lg[(k + 1) + (i - k)] = r[i - k]
    BY <1>6, <2>1, Zenon
  <2>3. z.ents[i - z.prev] = y.ents[i - y.prev]
    BY <1>7, <2>1, <2>2, Zenon
  <2> QED BY <1>7, <2>1, <2>3, Zenon DEF Alike, TermIn
<1> QED BY <1>9, <1>10, <1>11, <1>12, Zenon DEF x, y, s, k

\* The head of a log is a log.
LEMMA HeadType ==
  ASSUME NEW S, NEW q \in Seq(S), NEW n \in Int, n <= Len(q)
  PROVE  SubSeq(q, 1, n) \in Seq(S)
<1>1. 1 \in Int /\ 1 >= 1
  OBVIOUS
<1> QED BY <1>1, SubSeqType, Zenon

\* A refused request changes no log, and its reply leads back behind the dummy.
LEMMA LogAppendEntriesRefused ==
  ASSUME TypeInv, TypeInv', RangeInv, LogInv, NEW c \in appendCalls,
         AppendEntriesOutofDate(c) \/ AppendEntriesReject(c)
  PROVE  LogInv'
<1> USE DEF LogInv, NoSnapshots
<1>1. /\ c.to \in Server /\ c.Term \in Nat /\ AppendType
  BY AppendCallFields, Zenon DEF TypeInv, TypeOK
<1>2. /\ UNCHANGED <<logs, lastIncludeIndex, lastIncludeTerm, applier, elected, snapCalls, nextIndexs>>
      /\ \/ UNCHANGED <<persisted, currentTerm, voteFor>>
         \/ persist(c.to) /\ Adopt(c.to, c.Term, c.from) /\ c.Term >= currentTerm[c.to]
  BY Zenon DEF AppendEntriesOutofDate, AppendEntriesReject, AppendEntriesValid, AppendFrame, electVars,
     snapVars, applyVars, voteVars
<1>3. PICK r : /\ appendCalls' = Answer(appendCalls, c, r)
               /\ r.AppendErr \in {"LogsNotMatch", "Commited"} => r.NotMatchIndex >= 0
  <2>1. CASE AppendEntriesOutofDate(c)
    <3> DEFINE r == [Term |-> currentTerm[c.to], NotMatchIndex |-> -1, AppendErr |-> "ReqOutofDate"]
    <3>1. appendCalls' = Answer(appendCalls, c, r)
      BY <2>1, Zenon DEF AppendEntriesOutofDate
    <3>2. r.AppendErr \notin {"LogsNotMatch", "Commited"}
      OBVIOUS
    <3> QED BY <3>1, <3>2, Zenon
  <2>2. CASE AppendEntriesReject(c)
    <3> DEFINE err == IF LogsMatch(c) THEN "Commited" ELSE "LogsNotMatch"
               r == [Term |-> c.Term, NotMatchIndex |-> lastApplied[c.to] + 1, AppendErr |-> err]
    <3>1. appendCalls' = Answer(appendCalls, c, r)
      BY <2>2, Zenon DEF AppendEntriesReject
    <3>2. lastApplied[c.to] \in Int /\ lastApplied[c.to] >= 0
      BY <1>1, RangeTypes, Zenon DEF RangeInv, AppliedBound
    <3>3. r.NotMatchIndex >= 0
      BY <3>2
    <3> QED BY <3>1, <3>3, Zenon
  <2> QED BY <2>1, <2>2, Zenon
<1>4. NoTrace'
  BY <1>2, NoTraceQuiet, Zenon
<1>5. NextSane'
  <2>1. \A d \in appendCalls' : CallSane(d)
    BY <1>1, <1>3, CallsSane, Zenon DEF NextSane
  <2> QED BY <1>2, <2>1, Zenon DEF NextSane
<1>6. Saved'
  BY <1>1, <1>2, SavedQuiet, SavedAdopt, Zenon
<1>7. \A p \in Server : currentTerm[p] <= currentTerm'[p]
  BY <1>1, <1>2, TermUp, Zenon
<1>8. LogOrder'
  BY <1>1, <1>2, <1>3, <1>7, KinAnswer, LogQuiet, Zenon
<1> QED BY <1>4, <1>5, <1>6, <1>8, Zenon

\* An accepted request: the new log is made of the old one and of the request, which
\* agree where they meet.
LEMMA LogAppendEntriesAccept ==
  ASSUME SnapShotInterval = 0, TypeInv, TypeInv', ElectionInv, RangeInv, LogInv,
         NEW c \in appendCalls, AppendEntriesAccept(c)
  PROVE  LogInv'
<1> USE DEF LogInv, NoSnapshots
<1> DEFINE s == c.to
           z == LogPart(s)'
           r == [Term |-> c.Term, NotMatchIndex |-> -1, AppendErr |-> "Nil"]
<1>1. /\ s \in Server /\ c.Term \in Nat /\ c.LeaderCommit \in Int /\ c.PrevLogIndex \in Int /\ AppendType
  BY AppendCallFields, Zenon DEF TypeInv, TypeOK
<1>2. /\ AppendEntriesValid(c) /\ LogsMatch(c) /\ c.Term >= currentTerm[s]
      /\ Adopt(s, c.Term, c.from) /\ persist(s) /\ Apply(s, Appended(c), c.LeaderCommit)
      /\ appendCalls' = Answer(appendCalls, c, r)
      /\ UNCHANGED <<elected, snapCalls, nextIndexs>>
  BY Zenon DEF AppendEntriesAccept, AppendEntriesValid, AppendFrame, voteVars
<1>3. Appended(c) \in Seq(LogEntry)
  BY <1>2, AppendedType, Zenon DEF TypeInv, TypeOK
<1>4. /\ logs' = [logs EXCEPT ![s] = Appended(c)]
      /\ UNCHANGED <<lastIncludeIndex, lastIncludeTerm, applier>>
  BY <1>1, <1>2, <1>3, ApplyPlain, Zenon
<1>5. logs \in [Server -> Seq(LogEntry)] /\ logs[s] # <<>> /\ lastIncludeIndex[s] = -1 /\ lastIncludeTerm[s] = 0
  BY <1>1, Zenon DEF TypeInv, TypeOK, LogType, NoTrace
<1>6. logs'[s] = Appended(c) /\ \A p \in Server \ {s} : logs'[p] = logs[p]
  BY <1>1, <1>4, <1>5, Zenon
<1>7. NoTrace'
  <2>1. Appended(c) # <<>>
    <3>1. CASE c.Logs = <<>>
      BY <1>5, <3>1, Zenon DEF Appended
    <3>2. CASE c.Logs # <<>>
      <4>1. /\ c.Logs \in Seq(LogEntry) /\ SubSeq(logs[s], 1, c.PrevLogIndex - lastIncludeIndex[s]) \in Seq(LogEntry)
        <5>1. lastIncludeIndex[s] = -1 /\ c.PrevLogIndex >= lastIncludeIndex[s] /\ c.PrevLogIndex <= LastIndex(s)
              /\ LastIndex(s) = Len(logs[s]) + lastIncludeIndex[s]
          BY <1>2, <1>5, Zenon DEF AppendEntriesValid, LogsMatch, LastIndex
        <5>2. c.Logs \in Seq(LogEntry) /\ logs[s] \in Seq(LogEntry) /\ Len(logs[s]) \in Nat
          BY <1>1, AppendCallFields, RangeTypes, Zenon DEF TypeInv, TypeOK
        <5>3. c.PrevLogIndex - lastIncludeIndex[s] \in Int /\ c.PrevLogIndex - lastIncludeIndex[s] <= Len(logs[s])
          <6>1. \A n \in Nat, i, b, l \in Int : i <= l /\ l = n + b => i - b \in Int /\ i - b <= n
            OBVIOUS
          <6>2. lastIncludeIndex[s] \in Int /\ LastIndex(s) \in Int
            BY <1>1, RangeTypes, Zenon
          <6> QED BY <1>1, <5>1, <5>2, <6>1, <6>2, Zenon
        <5> QED BY <5>2, <5>3, HeadType, Zenon
      <4>2. Appended(c) = SubSeq(logs[s], 1, c.PrevLogIndex - lastIncludeIndex[s]) \o c.Logs
        BY <3>2, Zenon DEF Appended
      <4>3. \A a, b \in Seq(LogEntry) : b # <<>> => a \o b # <<>>
        OBVIOUS
      <4> QED BY <3>2, <4>1, <4>2, <4>3, Zenon
    <3> QED BY <3>1, <3>2, Zenon
  <2> QED BY <1>2, <1>4, <1>6, <2>1, Zenon DEF NoTrace
<1>8. NextSane'
  <2>1. r.AppendErr \notin {"LogsNotMatch", "Commited"}
    OBVIOUS
  <2>2. \A d \in appendCalls' : CallSane(d)
    BY <1>1, <1>2, <2>1, CallsSane, Zenon DEF NextSane
  <2> QED BY <1>2, <2>2, Zenon DEF NextSane
<1>9. Saved'
  <2>1. currentTerm \in [Server -> Nat] /\ voteFor \in [Server -> Server \union {None}]
    BY Zenon DEF TypeInv, TypeOK, ElectType
  <2>2. \A p \in Server \ {s} : currentTerm'[p] = currentTerm[p] /\ voteFor'[p] = voteFor[p]
    BY <1>1, <1>2, <2>1, Zenon DEF Adopt
  <2> QED BY <1>1, <1>2, <1>6, <2>2, SavedPersist, Zenon
<1>10. KinCalls
  BY <1>1, <1>2, KinAnswer, Zenon
<1>11. CASE c.Logs = <<>>
  <2>1. logs' = logs
    BY <1>4, <1>5, <1>11, Zenon DEF Appended
  <2>2. \A p \in Server : currentTerm[p] <= currentTerm'[p]
    BY <1>1, <1>2, TermUp, Zenon
  <2>3. LogOrder'
    BY <1>2, <1>4, <1>10, <2>1, <2>2, LogQuiet, Zenon
  <2> QED BY <1>7, <1>8, <1>9, <2>3, Zenon
<1>12. CASE c.Logs # <<>>
  <2> DEFINE k == c.PrevLogIndex
             x == LogPart(s)
             y == CallPart(c)
  <2>1. z.prev = -1 /\ z.term = 0 /\ z.ents = Appended(c)
    BY <1>4, <1>5, <1>6, Zenon DEF LogPart
  <2>2. x \in Parts /\ y \in Parts /\ z \in Parts' /\ PartType(z) /\ \A w \in Parts : PartType(w)
    BY <1>1, PartTypes, Zenon DEF Parts
  <2>3. \A v \in Parts' : v = z \/ v \in Parts
    BY <1>1, <1>4, <1>6, <1>10, PartsOne, Zenon
  <2> HIDE DEF z
  <2>4. /\ k \in Indexes(x) /\ k \in Indexes(y) /\ TermIn(x, k) = TermIn(y, k)
        /\ \A i \in Indexes(z) : (i <= k => Alike(z, x, i)) /\ (i > k => Alike(z, y, i))
    BY <1>2, <1>12, <2>1, AppendedJoin, Zenon
  <2> HIDE DEF x, y
  <2>5. \A w \in Parts : Matching(x, w) /\ Matching(y, w)
    BY <2>2, Zenon DEF LogOrder, PartsMatch
  <2>6. \A w \in Parts : Matching(z, w)
    BY <1>1, <2>2, <2>4, <2>5, MatchJoin, Zenon
  <2>7. PartsMatch'
    BY <2>3, <2>6, MatchSelf, PartsGrow, Zenon DEF LogOrder
  <2>8. \A v \in Parts' : \A i \in Indexes(v) : Old(v, i)
    <3>1. \A i \in Indexes(z) : i <= k \/ i > k
      BY <1>1, <2>2 DEF PartType, Indexes
    <3> QED BY <2>2, <2>3, <2>4, <3>1, Zenon DEF Old, Alike
  <2>9. TermsLed'
    BY <1>2, <2>8, LedKept, Zenon DEF LogOrder
  <2>10. LeaderHolds'
    <3>1. \A p \in Server \ {s} : LastIndex(p)' = LastIndex(p)
      BY <1>4, <1>6, Zenon DEF LastIndex
    <3>2. ~ Lead(c.Term, s)
      BY NotFromMyself, Zenon DEF RangeInv, RequestFits
    <3>3. currentTerm'[s] = c.Term /\ \A p \in Server \ {s} : currentTerm'[p] = currentTerm[p]
      BY <1>1, <1>2, Zenon DEF Adopt, TypeInv, TypeOK, ElectType
    <3>4. \A p \in Server : currentTerm[p] <= currentTerm'[p]
      BY <1>1, <1>2, TermUp, Zenon
    <3>5. \A p \in Server \ {s} : LastIndex(p) <= LastIndex(p)'
      BY <3>1, RangeTypes
    <3>6. \A p \in Server : Steady(p)
      BY <3>2, <3>3, <3>4, <3>5, Zenon DEF Steady
    <3> QED BY <1>2, <2>8, <3>6, HoldsKept, Zenon DEF LogOrder
  <2> QED BY <1>7, <1>8, <1>9, <2>7, <2>9, <2>10, Zenon DEF LogOrder
<1> QED BY <1>11, <1>12, Zenon

\* A reply to sendAppendEntries changes no log, and sends the leader to no entry before
\* the dummy.
LEMMA LogSendAppendEntries ==
  ASSUME SnapShotInterval = 0, TypeInv, TypeInv', RangeInv, LogInv,
         NEW c \in appendCalls, SendAppendEntries(c)
  PROVE  LogInv'
<1> USE DEF LogInv, NoSnapshots
<1> DEFINE s == c.from
<1>1. /\ s \in Server /\ c.to \in Server /\ c.reply.Term \in Nat /\ c.LogIndex \in Int
      /\ c.PrevLogIndex \in Int /\ c.Logs \in Seq(LogEntry)
  BY AppendCallFields, Zenon DEF TypeInv, TypeOK
<1>2. appendCalls' \subseteq appendCalls /\ UNCHANGED <<snapCalls, elected>>
  <2>1. appendCalls' \subseteq appendCalls
    BY Zenon DEF SendAppendEntries, SendAppendEntriesStale, SendAppendEntriesSuccess,
       SendAppendEntriesOutofDate, SendAppendEntriesBackup, SendAppendEntriesCurrent
  <2>2. UNCHANGED <<snapCalls, elected>>
    BY Zenon DEF SendAppendEntries, SendAppendEntriesStale, SendAppendEntriesSuccess,
       SendAppendEntriesOutofDate, SendAppendEntriesBackup, SendAppendFrame, voteVars
  <2> QED BY <2>1, <2>2, Zenon
<1>3. /\ UNCHANGED <<logs, snapVars, applyVars>> \/ Apply(s, logs[s], c.LogIndex)
      /\ \/ UNCHANGED <<currentTerm, voteFor, persisted>>
         \/ StepDown(s, c.reply.Term) /\ UNCHANGED logs
  BY Zenon DEF SendAppendEntries, SendAppendEntriesStale, SendAppendEntriesSuccess,
     SendAppendEntriesOutofDate, SendAppendEntriesBackup, electVars
<1>4. UNCHANGED <<logs, lastIncludeIndex, lastIncludeTerm, applier>>
  <2>1. logs \in [Server -> Seq(LogEntry)] /\ logs[s] \in Seq(LogEntry)
    BY <1>1, Zenon DEF TypeInv, TypeOK, LogType
  <2>2. CASE Apply(s, logs[s], c.LogIndex)
    <3>1. /\ logs' = [logs EXCEPT ![s] = logs[s]]
          /\ UNCHANGED <<lastIncludeIndex, lastIncludeTerm, applier>>
      BY <1>1, <2>1, <2>2, ApplyPlain, Zenon
    <3> QED BY <2>1, <3>1, Zenon
  <2> QED BY <1>3, <2>2, Zenon DEF snapVars, applyVars
<1>5. NoTrace'
  BY <1>2, <1>4, NoTraceQuiet, Zenon
<1>6. Saved'
  BY <1>1, <1>3, <1>4, SavedQuiet, SavedStepDown, Zenon
<1>7. NextSane'
  <2>1. \/ nextIndexs' = nextIndexs
        \/ nextIndexs' = [nextIndexs EXCEPT ![s][c.to] = c.LogIndex + 1]
        \/ /\ nextIndexs' = [nextIndexs EXCEPT ![s][c.to] = c.reply.NotMatchIndex]
           /\ Arrived(c) /\ c.reply.AppendErr \in {"LogsNotMatch", "Commited"}
    BY Zenon DEF SendAppendEntries, SendAppendEntriesStale, SendAppendEntriesSuccess,
       SendAppendEntriesOutofDate, SendAppendEntriesBackup, SendAppendEntriesCurrent
  <2>2. CallSane(c) /\ RequestFits(c)
    BY Zenon DEF NextSane, RangeInv
  <2>3. c.LogIndex + 1 >= 0
    <3>1. c.PrevLogIndex >= -1 /\ c.PrevLogIndex + Len(c.Logs) = c.LogIndex
      BY <2>2, Zenon DEF CallSane, RequestFits
    <3>2. Len(c.Logs) \in Nat
      BY <1>1
    <3> QED BY <1>1, <3>1, <3>2
  <2>4. nextIndexs' = nextIndexs \/ \E n : n >= 0 /\ nextIndexs' = [nextIndexs EXCEPT ![s][c.to] = n]
    BY <2>1, <2>2, <2>3, Zenon DEF Arrived, CallSane
  <2>5. nextIndexs \in [Server -> [Server -> Int]] /\ \A p, q \in Server : nextIndexs[p][q] >= 0
    BY Zenon DEF TypeInv, TypeOK, NextType, NextSane
  <2>6. ASSUME NEW n, n >= 0, nextIndexs' = [nextIndexs EXCEPT ![s][c.to] = n]
        PROVE  \A p, q \in Server : nextIndexs'[p][q] >= 0
    <3>1. nextIndexs' = [nextIndexs EXCEPT ![s] = [nextIndexs[s] EXCEPT ![c.to] = n]]
      BY <2>6, Zenon
    <3>2. nextIndexs[s] \in [Server -> Int]
      BY <1>1, <2>5, Zenon
    <3>3. nextIndexs'[s] = [nextIndexs[s] EXCEPT ![c.to] = n] /\ \A p \in Server \ {s} : nextIndexs'[p] = nextIndexs[p]
      BY <1>1, <2>5, <3>1, Zenon
    <3>4. \A q \in Server : [nextIndexs[s] EXCEPT ![c.to] = n][q] >= 0
      BY <1>1, <2>5, <2>6, <3>2, Zenon
    <3> QED BY <2>5, <3>3, <3>4, Zenon
  <2>7. \A p, q \in Server : nextIndexs'[p][q] >= 0
    BY <2>4, <2>5, <2>6, Zenon
  <2> QED BY <1>2, <2>7, Zenon DEF NextSane
<1>8. \A p \in Server : currentTerm[p] <= currentTerm'[p]
  BY <1>1, <1>3, TermUp, Zenon
<1>9. LogOrder'
  BY <1>2, <1>4, <1>8, KinLess, LogQuiet, Zenon
<1> QED BY <1>5, <1>6, <1>7, <1>9, Zenon

\* A crash: the logs stay what they are, the requests are left to the network.
LEMMA LogKill ==
  ASSUME TypeInv, TypeInv', LogInv, NEW s \in Server, Kill(s)
  PROVE  LogInv'
<1> USE DEF LogInv, NoSnapshots
<1>1. /\ UNCHANGED <<logs, lastIncludeIndex, lastIncludeTerm, applier, elected, nextIndexs, persisted,
                     currentTerm, voteFor>>
      /\ appendCalls' = Orphaned(appendCalls, s) /\ snapCalls' = Orphaned(snapCalls, s)
      /\ AppendType /\ SnapCallType /\ snapCalls = {}
  BY Zenon DEF Kill, electVars, snapVars, TypeInv, TypeOK, NoTrace
<1>2. snapCalls' = {}
  BY <1>1, Zenon DEF Orphaned
<1>3. NoTrace'
  BY <1>1, <1>2, NoTraceQuiet, Zenon
<1>4. Saved'
  BY <1>1, SavedQuiet, Zenon
<1>5. NextSane'
  BY <1>1, CallsSane, Zenon DEF NextSane
<1>6. \A p \in Server : currentTerm[p] <= currentTerm'[p]
  BY <1>1, RangeTypes
<1>7. LogOrder'
  BY <1>1, <1>6, KinOrphaned, LogQuiet, Zenon
<1> QED BY <1>3, <1>4, <1>5, <1>7, Zenon

\* A restarted server finds what it had: everything was saved.
LEMMA Logstart1 ==
  ASSUME TypeInv, TypeInv', LogInv, NEW s \in Server, start1(s)
  PROVE  LogInv'
<1> USE DEF LogInv, NoSnapshots
<1>1. /\ currentTerm' = [currentTerm EXCEPT ![s] = persisted[s].currentTerm]
      /\ voteFor' = [voteFor EXCEPT ![s] = persisted[s].voteFor]
      /\ logs' = [logs EXCEPT ![s] = persisted[s].logs]
      /\ nextIndexs' = [nextIndexs EXCEPT ![s] = [p \in Server |-> 0]]
      /\ lastIncludeIndex' = [lastIncludeIndex EXCEPT ![s] = -1]
      /\ lastIncludeTerm' = [lastIncludeTerm EXCEPT ![s] = 0]
      /\ applier' = [applier EXCEPT ![s] = Idle]
      /\ UNCHANGED <<persisted, elected, appendCalls, snapCalls>>
  BY Zenon DEF start1, voteVars, appendVars
<1>2. /\ currentTerm \in [Server -> Nat] /\ voteFor \in [Server -> Server \union {None}]
      /\ logs \in [Server -> Seq(LogEntry)] /\ nextIndexs \in [Server -> [Server -> Int]]
      /\ lastIncludeIndex \in [Server -> Int] /\ lastIncludeTerm \in [Server -> Nat]
      /\ applier \in [Server -> ServiceCall]
  BY Zenon DEF TypeInv, TypeOK, ElectType, LogType, NextType, SnapType, ApplyType
<1>3. persisted[s].currentTerm = currentTerm[s] /\ persisted[s].voteFor = voteFor[s] /\ persisted[s].logs = logs[s]
  <2>1. persisted[s] = [currentTerm |-> currentTerm[s], voteFor |-> voteFor[s], logs |-> logs[s]]
    BY Zenon DEF Saved
  <2> QED BY <2>1
<1>4. UNCHANGED <<currentTerm, voteFor, logs>>
  BY <1>1, <1>2, <1>3, Zenon
<1>5. lastIncludeIndex[s] = -1 /\ lastIncludeTerm[s] = 0
  BY Zenon DEF NoTrace
<1>6. UNCHANGED <<lastIncludeIndex, lastIncludeTerm>>
  BY <1>1, <1>2, <1>5, Zenon
<1>7. NoTrace'
  <2>1. Idle.op = "idle"
    BY DEF Idle
  <2>2. \A p \in Server : applier'[p].op = "idle"
    BY <1>1, <1>2, <2>1, Zenon DEF NoTrace
  <2> QED BY <1>1, <1>4, <1>6, <2>2, Zenon DEF NoTrace
<1>8. Saved'
  BY <1>1, <1>4, SavedQuiet, Zenon
<1>9. NextSane'
  <2>1. 0 >= 0
    OBVIOUS
  <2>2. nextIndexs'[s] = [p \in Server |-> 0] /\ \A p \in Server \ {s} : nextIndexs'[p] = nextIndexs[p]
    BY <1>1, <1>2, Zenon
  <2> QED BY <1>1, <2>1, <2>2, Zenon DEF NextSane
<1>10. \A p \in Server : currentTerm[p] <= currentTerm'[p]
  BY <1>4, RangeTypes
<1>11. LogOrder'
  BY <1>1, <1>4, <1>6, <1>10, KinLess, LogQuiet, Zenon
<1> QED BY <1>7, <1>8, <1>9, <1>11, Zenon

\* A lost reply: the request is sent again as it was.
LEMMA LogLoseReply ==
  ASSUME TypeInv, TypeInv', LogInv, LoseReply
  PROVE  LogInv'
<1> USE DEF LogInv, NoSnapshots
<1>1. /\ UNCHANGED <<logs, lastIncludeIndex, lastIncludeTerm, applier, elected, nextIndexs, persisted,
                     currentTerm, voteFor>>
      /\ AppendType /\ SnapCallType
  BY Zenon DEF LoseReply, electVars, snapVars, applyVars, TypeInv, TypeOK
<1>2. /\ snapCalls' = snapCalls
      /\ appendCalls' = appendCalls \/ \E c \in appendCalls : appendCalls' = Resend(appendCalls, c, NoAppendReply)
  <2>1. snapCalls = {}
    BY Zenon DEF NoTrace
  <2> QED BY <2>1, Zenon DEF LoseReply
<1>3. NoTrace'
  BY <1>1, <1>2, NoTraceQuiet, Zenon
<1>4. Saved'
  BY <1>1, SavedQuiet, Zenon
<1>5. NextSane'
  <2>1. \A d \in appendCalls' : CallSane(d)
    BY <1>1, <1>2, CallsSane, Zenon DEF NextSane
  <2> QED BY <1>1, <2>1, Zenon DEF NextSane
<1>6. \A p \in Server : currentTerm[p] <= currentTerm'[p]
  BY <1>1, RangeTypes
<1>7. LogOrder'
  BY <1>1, <1>6, KinResend, LogQuiet, Zenon
<1> QED BY <1>3, <1>4, <1>5, <1>7, Zenon

\* Initially every log is the dummy, and nothing is under way.
LEMMA LogInit == Init => LogInv
<1> SUFFICES ASSUME Init PROVE LogInv
  OBVIOUS
<1>1. /\ appendCalls = {} /\ snapCalls = {} /\ elected = {}
      /\ \A s \in Server : /\ lastIncludeIndex[s] = -1 /\ lastIncludeTerm[s] = 0 /\ applier[s] = Idle
                           /\ logs[s] = Dummy /\ currentTerm[s] = 0 /\ voteFor[s] = None
                           /\ persisted[s] = [currentTerm |-> 0, voteFor |-> None, logs |-> Dummy]
                           /\ \A p \in Server : nextIndexs[s][p] = 0
  BY Zenon DEF Init
<1>2. Idle.op = "idle" /\ 0 >= 0 /\ Dummy # <<>> /\ Len(Dummy) = 1
  BY DEF Idle, Dummy
<1>3. NoSnapshots
  BY <1>1, <1>2, Zenon DEF NoSnapshots, NoTrace, NextSane, Saved
<1> DEFINE x == [prev |-> -1, term |-> 0, ents |-> Dummy]
<1>4. \A v \in Parts : v = x
  BY <1>1, Zenon DEF Parts, LogPart
<1>5. PartsMatch
  BY <1>4, MatchSelf, Zenon DEF PartsMatch
<1>6. TermsLed
  <2>1. x.prev = -1 /\ Len(x.ents) = 1
    BY <1>2
  <2>2. \A i \in Indexes(x) : ~ (i > 0)
    <3> HIDE DEF x
    <3> QED BY <2>1 DEF Indexes
  <2> QED BY <1>4, <2>2, Zenon DEF TermsLed
<1>7. LeaderHolds
  BY <1>1, Zenon DEF LeaderHolds
<1> QED BY <1>3, <1>5, <1>6, <1>7, Zenon DEF LogInv, LogOrder

\* Every step of a cluster without snapshots keeps LogInv.
LEMMA LogNext ==
  ASSUME SnapShotInterval = 0
  PROVE  TypeInv /\ TypeInv' /\ ElectionInv /\ ElectionInv' /\ RangeInv /\ LogInv /\ [Next]_vars => LogInv'
<1> SUFFICES ASSUME TypeInv, TypeInv', ElectionInv, ElectionInv', RangeInv, LogInv, [Next]_vars PROVE LogInv'
  BY Zenon
<1>1. snapCalls = {} /\ \A s \in Server : applier[s].op = "idle"
  BY Zenon DEF LogInv, NoSnapshots, NoTrace
<1>2. "idle" # "snapshot" /\ "idle" # "install"
  OBVIOUS
<1>3. ASSUME NEW s \in Server, ServerStep(s) PROVE LogInv'
  <2>1. ~ (Snapshot(s) \/ CondInstallSnapshot(s) \/ CondInstallSnapshotRefuse(s))
    BY <1>1, <1>2, Zenon DEF Snapshot, CondInstallSnapshot, CondInstallSnapshotRefuse
  <2> QED BY <1>3, <2>1, LogTickerElection, LogTickerHeartbeat, LogStart, LogKill, Logstart1, Zenon
          DEF ServerStep, crash1
<1>4. ASSUME NEW c \in voteCalls, VoteStep(c) PROVE LogInv'
  BY <1>4, LogRequestVote, LogSendRequestVote, Zenon DEF VoteStep
<1>5. ASSUME NEW c \in appendCalls, AppendStep(c) PROVE LogInv'
  <2>1. c.to \in Server
    BY AppendCallFields, Zenon DEF TypeInv, TypeOK
  <2> QED BY <1>5, <2>1, LogAppendEntriesRefused, LogAppendEntriesAccept, LogSendAppendEntries, LogKill, Zenon
          DEF AppendStep, AppendEntries, CrashInAppendEntries
<1>6. CASE UNCHANGED vars
  <2>1. UNCHANGED <<logs, lastIncludeIndex, lastIncludeTerm, applier, elected, nextIndexs, persisted,
                    currentTerm, voteFor, snapCalls, appendCalls>>
    BY <1>6, Zenon DEF vars, electVars, snapVars, applyVars, voteVars, appendVars
  <2>2. \A p \in Server : currentTerm[p] <= currentTerm'[p]
    BY <2>1, RangeTypes
  <2>3. LogOrder'
    BY <2>1, <2>2, KinLess, LogQuiet, Zenon DEF LogInv
  <2>4. NoSnapshots'
    BY <2>1, NoTraceQuiet, SavedQuiet, Zenon DEF LogInv, NoSnapshots, NextSane
  <2> QED BY <2>3, <2>4, Zenon DEF LogInv
<1> QED BY <1>1, <1>3, <1>4, <1>5, <1>6, LogLoseReply, Zenon DEF Next

\* Matching parts are matching logs, and what is saved everywhere is saved on the
\* servers that run.
LEMMA LogImplies == TypeInv /\ LogInv => LogMatching /\ Durable
<1> SUFFICES ASSUME TypeInv, LogInv PROVE LogMatching /\ Durable
  BY Zenon
<1>1. Durable
  BY Zenon DEF LogInv, NoSnapshots, Saved, Durable
<1>2. ASSUME NEW s \in Server, NEW i \in Int, Has(s, i)
      PROVE  /\ i \in Indexes(LogPart(s)) /\ i # LogPart(s).prev /\ TermIn(LogPart(s), i) = EntryAt(s, i).Term
             /\ LogPart(s).ents[i - LogPart(s).prev] = EntryAt(s, i)
  <2> DEFINE x == LogPart(s)
  <2>1. /\ lastIncludeIndex[s] \in Int /\ Len(logs[s]) \in Nat
        /\ lastIncludeIndex[s] < i /\ i <= LastIndex(s) /\ LastIndex(s) = Len(logs[s]) + lastIncludeIndex[s]
    BY <1>2, RangeTypes, Zenon DEF Has, LastIndex
  <2>2. x.prev = lastIncludeIndex[s] /\ x.ents = logs[s]
    BY Zenon DEF LogPart
  <2> HIDE DEF x
  <2>3. i \in lastIncludeIndex[s]..(lastIncludeIndex[s] + Len(logs[s])) /\ i # lastIncludeIndex[s]
    BY <2>1
  <2>4. i \in Indexes(x)
    BY <2>2, <2>3, Zenon DEF Indexes
  <2> QED BY <2>2, <2>3, <2>4, Zenon DEF TermIn, EntryAt, x
<1>3. ASSUME NEW s \in Server, NEW t \in Server, NEW i \in Int, Has(s, i), Has(t, i),
             EntryAt(s, i).Term = EntryAt(t, i).Term, NEW j \in Int, j <= i, Has(s, j), Has(t, j)
      PROVE  EntryAt(s, j) = EntryAt(t, j)
  <2>1. Matching(LogPart(s), LogPart(t))
    BY Zenon DEF LogInv, LogOrder, PartsMatch, Parts
  <2> DEFINE x == LogPart(s)
             y == LogPart(t)
  <2>2. i \in Indexes(x) \cap Indexes(y) /\ TermIn(x, i) = EntryAt(s, i).Term /\ TermIn(y, i) = EntryAt(t, i).Term
    BY <1>2, <1>3, Zenon
  <2>3. /\ j \in Indexes(x) \cap Indexes(y) /\ j # x.prev /\ j # y.prev
        /\ x.ents[j - x.prev] = EntryAt(s, j) /\ y.ents[j - y.prev] = EntryAt(t, j)
    BY <1>2, <1>3, Zenon
  <2> HIDE DEF x, y
  <2>4. Agree(x, y, j)
    <3>1. TermIn(x, i) = TermIn(y, i) /\ Matching(x, y)
      BY <1>3, <2>1, <2>2, Zenon DEF x, y
    <3> QED BY <1>3, <2>2, <2>3, <3>1, Zenon DEF Matching
  <2> QED BY <2>3, <2>4, Zenon DEF Agree
<1>4. ASSUME NEW s \in Server, NEW i \in 0..LastIndex(s), NEW j \in 0..i PROVE i \in Int /\ j \in Int /\ j <= i
  BY <1>4, RangeTypes
<1>5. LogMatching
  BY <1>3, <1>4, Zenon DEF LogMatching
<1> QED BY <1>1, <1>5, Zenon

=============================================================================
