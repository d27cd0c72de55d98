---------------------------- MODULE RaftTheorems ----------------------------
(***************************************************************************)
(* What holds of every cluster of Raft.tla, from the invariants that       *)
(* RaftProofs, RaftElectionProofs, RaftRangeProofs and RaftLogProofs show  *)
(* to be inductive.                                                        *)
(***************************************************************************)
EXTENDS RaftProofs, RaftElectionProofs, RaftLogProofs, FiniteSetTheorems

-----------------------------------------------------------------------------
(***************************************************************************)
(* Majorities.                                                             *)
(***************************************************************************)
\* The number of peers is a natural.
LEMMA CardServer == Cardinality(Server) \in Nat
  BY ServerAssumption, FS_CardinalityType, Zenon

\* A superset of a majority is a majority.
LEMMA MajorityUp ==
  ASSUME NEW S \in SUBSET Server, NEW T \in SUBSET Server, S \subseteq T, Majority(S)
  PROVE  Majority(T)
<1>1. IsFiniteSet(T) /\ IsFiniteSet(S)
  BY ServerAssumption, FS_Subset, Zenon
<1>2. Cardinality(S) <= Cardinality(T)
  BY <1>1, FS_Subset, Zenon
<1>3. Cardinality(S) \in Nat /\ Cardinality(T) \in Nat
  BY <1>1, FS_CardinalityType, Zenon
<1> QED BY <1>2, <1>3, CardServer DEF Majority

\* Two majorities have a server in common.
LEMMA MajorityMeet ==
  ASSUME NEW S \in SUBSET Server, NEW T \in SUBSET Server, Majority(S), Majority(T)
  PROVE  S \cap T # {}
<1>1. IsFiniteSet(T) /\ IsFiniteSet(S)
  BY ServerAssumption, FS_Subset, Zenon
<1>2. Cardinality(S) \in Nat /\ Cardinality(T) \in Nat
  BY <1>1, FS_CardinalityType, Zenon
<1>3. Cardinality(S) + Cardinality(T) > Cardinality(Server)
  BY <1>2, CardServer DEF Majority
<1> QED BY <1>3, ServerAssumption, FS_MajoritiesIntersect, Zenon

\* A server alone is a majority only in a cluster of one.
LEMMA MajorityAlone ==
  ASSUME NEW s \in Server, Majority({s})
  PROVE  Server = {s}
<1>1. Cardinality({s}) = 1
  BY FS_Singleton, Zenon
<1>2. Cardinality(Server) <= 1
  BY <1>1, CardServer DEF Majority
<1>3. {s} \subseteq Server /\ Cardinality({s}) <= Cardinality(Server)
  BY ServerAssumption, FS_Subset, Zenon
<1>4. Cardinality(Server) = Cardinality({s})
  BY <1>1, <1>2, <1>3, CardServer
<1> QED BY <1>3, <1>4, ServerAssumption, FS_Subset, Zenon

\* A counter that was reset is not above half.
LEMMA NoMajorityEmpty == ~ Majority({})
<1>1. Cardinality({}) = 0
  BY FS_EmptySet, Zenon
<1> QED BY <1>1, CardServer DEF Majority

\* So the facts that RaftElectionProofs starts from hold.
LEMMA QuorumsHold == Quorums
  BY MajorityUp, MajorityMeet, MajorityAlone, NoMajorityEmpty, Zenon DEF Quorums

-----------------------------------------------------------------------------
(***************************************************************************)
(* The theorems.                                                           *)
(***************************************************************************)
\* What holds of every cluster, together inductive.
RaftInv == TypeInv /\ ElectionInv /\ RangeInv /\ ServiceInv

\* RaftInv holds in every state.
LEMMA RaftInvariant == Spec => []RaftInv
<1>1. Init => RaftInv
  BY TypeInit, ElectionInit, QuorumsHold, RangeInit, ServiceInit, Zenon DEF RaftInv
<1>2. RaftInv /\ [Next]_vars => RaftInv'
  <2>1. TypeInv /\ [Next]_vars => TypeInv'
    BY TypeNext, Zenon
  <2>2. TypeInv /\ TypeInv' /\ ElectionInv /\ [Next]_vars => ElectionInv'
    BY ElectionNext, QuorumsHold, Zenon
  <2> QED BY <2>1, <2>2, RangeNext, ServiceNext, Zenon DEF RaftInv
<1> QED BY <1>1, <1>2, PTL DEF Spec

\* The state is well typed in every cluster, after any crash and restart.
THEOREM WellTyped == Spec => []TypeOK
<1>1. RaftInv => TypeOK
  BY Zenon DEF RaftInv, TypeInv
<1> QED BY <1>1, RaftInvariant, PTL

\* At most one server is ever elected in a term: for any number of servers,
\* elections, crashes with restarts from what persist() saved, lost replies, requests
\* handled again and in any order, with and without snapshots.
THEOREM OneLeaderPerTerm == Spec => []ElectionSafety
<1>1. RaftInv => ElectionSafety
  BY Zenon DEF RaftInv, ElectionInv
<1> QED BY <1>1, RaftInvariant, PTL

\* The inductive invariant of the elections holds in every state.
THEOREM ElectionInvariant == Spec => []ElectionInv
<1>1. RaftInv => ElectionInv
  BY Zenon DEF RaftInv
<1> QED BY <1>1, RaftInvariant, PTL

\* No apply loop indexes outside the log: a follower that accepts a request holds every
\* entry LeaderCommit tells it to apply, and a leader every entry it hears was stored,
\* although the log of a leader may have been cut since it sent the request.
THEOREM NoApplyOutOfRange == Spec => []ApplyInRange
<1>1. RaftInv => ApplyInRange
  BY RangeImplies, Zenon DEF RaftInv
<1> QED BY <1>1, RaftInvariant, PTL

\* The inductive invariant of the apply loops holds in every state.
THEOREM RangeInvariant == Spec => []RangeInv
<1>1. RaftInv => RangeInv
  BY Zenon DEF RaftInv
<1> QED BY <1>1, RaftInvariant, PTL

\* The service of a running server gets the commands one after the other, none left out
\* and none twice, over all crashes and all snapshots it takes and installs: applierSnap
\* of config.go never finds a command out of order.
THEOREM CommandsInOrder == Spec => []ServiceInStep
<1>1. RaftInv => ServiceInStep
  BY Zenon DEF RaftInv, ServiceInv
<1> QED BY <1>1, RaftInvariant, PTL

-----------------------------------------------------------------------------
(***************************************************************************)
(* Clusters without snapshots: what the tests of 2A, 2B and 2C run.        *)
(***************************************************************************)
\* The inductive invariant of the logs holds in every state.
THEOREM LogInvariant ==
  ASSUME SnapShotInterval = 0
  PROVE  Spec => []LogInv
<1>1. Init => LogInv
  BY LogInit, Zenon
<1>2. RaftInv /\ RaftInv' /\ LogInv /\ [Next]_vars => LogInv'
  BY LogNext, Zenon DEF RaftInv
<1> QED BY <1>1, <1>2, RaftInvariant, PTL DEF Spec

\* Two logs with the same term at an index are the same up to it: what AppendEntries
\* checks at PrevLogIndex is enough, in whatever order requests of old and new leaders,
\* crashed ones too, are handled, and handled again.
THEOREM LogsAgree ==
  ASSUME SnapShotInterval = 0
  PROVE  Spec => []LogMatching
<1>1. RaftInv /\ LogInv => LogMatching
  BY LogImplies, Zenon DEF RaftInv
<1> QED BY <1>1, RaftInvariant, LogInvariant, PTL

\* No handler and no send goroutine leaves a term, a vote or a log unsaved.
THEOREM NothingUnsaved ==
  ASSUME SnapShotInterval = 0
  PROVE  Spec => []Durable
<1>1. RaftInv /\ LogInv => Durable
  BY LogImplies, Zenon DEF RaftInv
<1> QED BY <1>1, RaftInvariant, LogInvariant, PTL

=============================================================================
