------------------------- MODULE RaftElectionProofs -------------------------
(***************************************************************************)
(* Every step of Raft keeps ElectionInv: first what a step may do to votes, *)
(* terms and calls without breaking it, then the actions that neither      *)
(* start nor win an election, which are such steps, and those that do.     *)
(***************************************************************************)
EXTENDS RaftElection, RaftTypes

-----------------------------------------------------------------------------
(***************************************************************************)
(* Majorities.                                                             *)
(***************************************************************************)
\* What the proofs use of majorities; RaftTheorems proves it.
Quorums ==
  /\ \A S, T \in SUBSET Server : S \subseteq T /\ Majority(S) => Majority(T)
  /\ \A S, T \in SUBSET Server : Majority(S) /\ Majority(T) => S \cap T # {}
  /\ \A s \in Server : Majority({s}) => Server = {s}
  /\ ~ Majority({})

-----------------------------------------------------------------------------
(***************************************************************************)
(* Steps of one server's term and vote.                                    *)
(***************************************************************************)
\* The step leaves the term and the vote of s, and what it saved, alone or moves
\* them forward: to a newer term, or in the same term from no vote to a vote or
\* to the leader.
Forward(s) ==
  \/ currentTerm'[s] > currentTerm[s]
  \/ /\ currentTerm'[s] = currentTerm[s]
     /\ voteFor'[s] = voteFor[s] \/ voteFor[s] = None \/ Lead(currentTerm[s], voteFor'[s])

SavedNow(s) ==
  persisted'[s].currentTerm = currentTerm'[s] /\ persisted'[s].voteFor = voteFor'[s]

NewGrant(s) == [term |-> currentTerm'[s], voter |-> s, cand |-> voteFor'[s]]

VoteMove(s) ==
  /\ Forward(s)
  /\ \A p \in Server \ {s} : persisted'[p] = persisted[p]
  /\ persisted'[s] = persisted[s] \/ SavedNow(s)
  /\ elected' = elected
  /\ \/ granted' = granted
     \/ /\ granted' = granted \union {NewGrant(s)}
        /\ SavedNow(s) \/ HasLeader(currentTerm'[s])

\* Nobody but c leads in term t.
Sole(t, c) == \A e \in elected : e.term = t => e.leader = c

\* The types these proofs need.
LEMMA ElectTypes ==
  ASSUME TypeOK
  PROVE  /\ \A s \in Server : /\ currentTerm[s] \in Nat /\ voteFor[s] \in Server \union {None}
                              /\ persisted[s].currentTerm \in Nat
                              /\ persisted[s].voteFor \in Server \union {None}
         /\ \A e \in elected : e.term \in Nat /\ e.leader \in Server
                               /\ e = [term |-> e.term, leader |-> e.leader]
         /\ \A g \in granted : g.term \in Nat /\ g.voter \in Server /\ g.cand \in Server
                               /\ g = [term |-> g.term, voter |-> g.voter, cand |-> g.cand]
  BY DEF TypeOK, ElectType, PersistType, Persisted, VoteType

\* A vote that is kept stays the vote of its term.
LEMMA Fixed ==
  ASSUME TypeOK, VoteSaved, NEW s \in Server, currentTerm'[s] \in Nat, Forward(s),
         NEW t \in Nat, NEW c \in Server, Kept(s, t, c), Sole(t, c)
  PROVE  currentTerm'[s] >= t /\ (currentTerm'[s] = t => voteFor'[s] = c)
<1>1. /\ currentTerm[s] \in Nat /\ persisted[s].currentTerm \in Nat
      /\ persisted[s].currentTerm <= currentTerm[s] /\ currentTerm[s] <= currentTerm'[s]
      /\ t <= persisted[s].currentTerm
  BY ElectTypes DEF VoteSaved, Forward, Kept
<1>2. ASSUME currentTerm'[s] = t PROVE voteFor'[s] = c
  <2>1. /\ currentTerm[s] = t /\ persisted[s].currentTerm = t /\ persisted[s].voteFor = c
    BY <1>1, <1>2 DEF Kept
  <2>2. \A x : Lead(t, x) => x = c
    BY Zenon DEF Lead, Sole
  <2>3. voteFor[s] = c
    BY <2>1, <2>2, Zenon DEF VoteSaved
  <2>4. c # None
    BY ServerAssumption, Zenon
  <2>5. voteFor'[s] = voteFor[s] \/ Lead(t, voteFor'[s])
    BY <1>2, <1>1, <2>1, <2>3, <2>4 DEF Forward
  <2> QED BY <2>2, <2>3, <2>5, Zenon
<1> QED BY <1>1, <1>2

\* So every vote that is kept is still kept after the step.
LEMMA KeptMove ==
  ASSUME TypeOK, VoteSaved, NEW s \in Server, currentTerm'[s] \in Nat, VoteMove(s),
         NEW v \in Server, NEW t \in Nat, NEW c \in Server, Kept(v, t, c), Sole(t, c)
  PROVE  Kept(v, t, c)'
<1>1. CASE persisted'[v] = persisted[v]
  BY <1>1, Zenon DEF Kept
<1>2. CASE v = s /\ SavedNow(s)
  <2>1. currentTerm'[s] >= t /\ (currentTerm'[s] = t => voteFor'[s] = c)
    BY <1>2, Fixed, Zenon DEF VoteMove
  <2>2. /\ persisted'[v].currentTerm = currentTerm'[s]
        /\ persisted'[v].voteFor = voteFor'[s]
    BY <1>2, Zenon DEF SavedNow
  <2> QED BY <2>1, <2>2 DEF Kept
<1> QED BY <1>1, <1>2, Zenon DEF VoteMove

\* And a new vote is no second one.
LEMMA GrantMove ==
  ASSUME TypeOK, VoteSaved, NEW s \in Server, currentTerm'[s] \in Nat, VoteMove(s),
         NEW v \in Server, NEW t \in Nat, NEW c \in Server, Kept(v, t, c), Sole(t, c),
         \A d \in Server : Grant(t, v, d) => d = c,
         NEW d \in Server, Grant(t, v, d)'
  PROVE  d = c
<1>1. CASE Grant(t, v, d)
  BY <1>1, Zenon
<1>2. CASE ~ Grant(t, v, d)
  <2>1. [term |-> t, voter |-> v, cand |-> d] = NewGrant(s)
    BY <1>2, Zenon DEF VoteMove, Grant
  <2>2. t = currentTerm'[s] /\ v = s /\ d = voteFor'[s]
    BY <2>1, Zenon DEF NewGrant
  <2> QED BY <2>2, Fixed, Zenon DEF VoteMove
<1> QED BY <1>1, <1>2, Zenon

\* A forward move of one vote leaves the leaders, the votes of open terms and the
\* quorums of the leaders as they were.
LEMMA CoreMove ==
  ASSUME Quorums, TypeOK, TypeOK', ElectionSafety, VoteSaved, VoteKept, LeaderQuorum,
         NEW s \in Server, VoteMove(s)
  PROVE  ElectionSafety' /\ VoteKept' /\ LeaderQuorum'
<1>1. elected' = elected /\ currentTerm'[s] \in Nat
  BY Zenon DEF VoteMove, TypeOK, ElectType
<1>2. ElectionSafety'
  BY <1>1, Zenon DEF ElectionSafety
<1>3. ASSUME NEW g \in granted', ~ HasLeader(g.term)'
      PROVE  /\ Kept(g.voter, g.term, g.cand)'
             /\ \A d \in Server : Grant(g.term, g.voter, d)' => d = g.cand
  <2>1. g.term \in Nat /\ g.voter \in Server /\ g.cand \in Server
    BY <1>3, Zenon DEF TypeOK, VoteType
  <2>2. ~ HasLeader(g.term) /\ \A c : Sole(g.term, c)
    BY <1>1, <1>3, Zenon DEF HasLeader, Sole
  <2>3. CASE g \in granted
    <3>1. Kept(g.voter, g.term, g.cand) /\ \A d \in Server : Grant(g.term, g.voter, d) => d = g.cand
      BY <2>2, <2>3, Zenon DEF VoteKept
    <3>2. Kept(g.voter, g.term, g.cand)'
      BY <1>1, <2>1, <2>2, <3>1, KeptMove, Zenon
    <3>3. \A d \in Server : Grant(g.term, g.voter, d)' => d = g.cand
      BY <1>1, <2>1, <2>2, <3>1, GrantMove, Zenon
    <3> QED BY <3>2, <3>3, Zenon
  <2>4. CASE g \notin granted
    <3>1. g = NewGrant(s) /\ granted' = granted \union {NewGrant(s)}
      BY <1>3, <2>4, Zenon DEF VoteMove
    <3>2. g.term = currentTerm'[s] /\ g.voter = s /\ g.cand = voteFor'[s]
      BY <3>1, Zenon DEF NewGrant
    <3>3. SavedNow(s)
      BY <2>2, <2>4, <1>3, <3>2, Zenon DEF VoteMove
    <3>4. Kept(g.voter, g.term, g.cand)'
      BY <3>2, <3>3, Zenon DEF Kept, SavedNow
    <3>5. ASSUME NEW d \in Server, Grant(g.term, g.voter, d)'
          PROVE  d = g.cand
      <4>1. CASE Grant(g.term, g.voter, d)
        <5> DEFINE h == [term |-> g.term, voter |-> g.voter, cand |-> d]
        <5>1. h \in granted /\ h.term = g.term /\ h.voter = g.voter /\ h.cand = d
          BY <4>1, Zenon DEF Grant
        <5>2. Kept(s, g.term, d)
          <6> HIDE DEF h
          <6> QED BY <5>1, <2>2, <3>2, Zenon DEF VoteKept
        <5> QED BY <5>2, <2>1, <2>2, <3>2, <1>1, Fixed DEF VoteMove
      <4>2. CASE ~ Grant(g.term, g.voter, d)
        <5>1. [term |-> g.term, voter |-> g.voter, cand |-> d] = NewGrant(s)
          BY <4>2, <3>5, <3>1, Zenon DEF Grant
        <5> QED BY <5>1, <3>2, Zenon DEF NewGrant
      <4> QED BY <4>1, <4>2, Zenon
    <3> QED BY <3>4, <3>5, Zenon
  <2> QED BY <2>3, <2>4, Zenon
<1>4. ASSUME NEW e \in elected'
      PROVE  Majority(Supporters(e.term, e.leader))'
  <2>1. e \in elected /\ e.term \in Nat /\ e.leader \in Server
    BY <1>1, ElectTypes, Zenon
  <2>2. Sole(e.term, e.leader)
    BY <2>1, Zenon DEF ElectionSafety, Sole
  <2>3. ASSUME NEW v \in Supporters(e.term, e.leader)
        PROVE  v \in Supporters(e.term, e.leader)'
    <3>1. v \in Server /\ Kept(v, e.term, e.leader)
          /\ \A d \in Server : Grant(e.term, v, d) => d = e.leader
      BY Zenon DEF Supporters
    <3>2. Kept(v, e.term, e.leader)'
      BY <1>1, <2>1, <2>2, <3>1, KeptMove, Zenon
    <3>3. \A d \in Server : Grant(e.term, v, d)' => d = e.leader
      BY <1>1, <2>1, <2>2, <3>1, GrantMove, Zenon
    <3> QED BY <3>1, <3>2, <3>3, Zenon DEF Supporters
  <2>4. Majority(Supporters(e.term, e.leader))
    BY <2>1, Zenon DEF LeaderQuorum
  <2>5. /\ Supporters(e.term, e.leader) \in SUBSET Server
        /\ Supporters(e.term, e.leader)' \in SUBSET Server
        /\ Supporters(e.term, e.leader) \subseteq Supporters(e.term, e.leader)'
    BY <2>3, Zenon DEF Supporters
  <2>6. ASSUME NEW S \in SUBSET Server, NEW T \in SUBSET Server, S \subseteq T, Majority(S)
        PROVE  Majority(T)
    BY <2>6, Zenon DEF Quorums
  <2>7. Majority(Supporters(e.term, e.leader)') <=> Majority(Supporters(e.term, e.leader))'
    BY Zenon DEF Majority
  <2> QED BY <2>4, <2>5, <2>6, <2>7, Zenon
<1>5. VoteKept'
  BY <1>3, Zenon DEF VoteKept
<1>6. LeaderQuorum'
  BY <1>4, Zenon DEF LeaderQuorum
<1> QED BY <1>2, <1>5, <1>6, Zenon

\* What the step of s leaves alone, and what of it is saved.
Elsewhere(s) ==
  \A p \in Server \ {s} : /\ currentTerm'[p] = currentTerm[p] /\ voteFor'[p] = voteFor[p]
                          /\ myStatus'[p] = myStatus[p]

SavedOrLead(s) ==
  \/ SavedNow(s)
  \/ /\ persisted'[s].currentTerm <= currentTerm'[s]
     /\ voteFor'[s] # None
     /\ Lead(currentTerm'[s], voteFor'[s])

\* A forward move that is saved, or goes to a leader, keeps VoteSaved.
LEMMA SavedMove ==
  ASSUME TypeOK, TypeOK', VoteSaved, NEW s \in Server, VoteMove(s), Elsewhere(s), SavedOrLead(s)
  PROVE  VoteSaved'
<1>1. elected' = elected
  BY Zenon DEF VoteMove
<1> SUFFICES ASSUME NEW p \in Server
             PROVE  /\ persisted'[p].currentTerm <= currentTerm'[p]
                    /\ \/ /\ persisted'[p].currentTerm = currentTerm'[p]
                          /\ persisted'[p].voteFor = voteFor'[p]
                       \/ /\ voteFor'[p] # None
                          /\ Lead(currentTerm'[p], voteFor'[p])
  BY <1>1, Zenon DEF VoteSaved, Lead
<1>2. CASE p = s
  <2>1. persisted'[s].currentTerm \in Nat /\ currentTerm'[s] \in Nat
    BY Zenon DEF TypeOK, ElectType, PersistType, Persisted
  <2> QED BY <1>1, <1>2, <2>1, SMTT(20) DEF SavedOrLead, SavedNow, Lead
<1>3. CASE p # s
  BY <1>1, <1>3, Zenon DEF VoteSaved, VoteMove, Elsewhere, Lead
<1> QED BY <1>2, <1>3, Zenon

\* Call c comes from call d: the same, sent again, answered, passed or orphaned.
Kin(c, d) ==
  /\ c.from = d.from /\ c.to = d.to /\ c.Term = d.Term
  /\ c.phase # "orphan" => d.phase # "orphan"
  /\ c.phase \in {"replied", "passed"} /\ c.reply.VoteGranted =>
       \/ d.phase \in {"replied", "passed"} /\ c.reply = d.reply
       \/ c.reply.Term = c.Term /\ Grant(c.Term, c.to, c.from)'

CallsKin == \A c \in voteCalls' : \E d \in voteCalls : Kin(c, d)

\* It keeps what the vote calls and the counters of sendRequestVote say.
LEMMA CallsMove ==
  ASSUME TypeOK, TypeOK', GrantReported, CountedGranted, CountReset,
         NEW s \in Server, VoteMove(s), Elsewhere(s),
         CallsKin, voteNum' = voteNum, \A p \in Server : mode'[p] = "down" => mode[p] = "down"
  PROVE  GrantReported' /\ CountedGranted' /\ CountReset'
<1>1. \A t, v, c : Grant(t, v, c) => Grant(t, v, c)'
  BY Zenon DEF VoteMove, Grant
<1>2. \A p \in Server : /\ currentTerm[p] \in Nat /\ currentTerm'[p] \in Nat
                        /\ currentTerm[p] <= currentTerm'[p]
  <2>1. \A p \in Server : currentTerm[p] \in Nat /\ currentTerm'[p] \in Nat
    BY Zenon DEF TypeOK, ElectType
  <2>2. currentTerm[s] <= currentTerm'[s]
    BY <2>1 DEF VoteMove, Forward
  <2>3. \A p \in Server \ {s} : currentTerm'[p] = currentTerm[p]
    BY Zenon DEF Elsewhere
  <2> QED BY <2>1, <2>2, <2>3, SMTT(20)
<1>3. ASSUME NEW c \in voteCalls'
      PROVE  /\ c.phase \in {"replied", "passed"} /\ c.reply.VoteGranted
                  => c.reply.Term = c.Term /\ Grant(c.Term, c.to, c.from)'
             /\ c.phase # "orphan" =>
                  /\ mode'[c.from] # "down"
                  /\ c.Term <= currentTerm'[c.from]
                  /\ c.Term = currentTerm'[c.from]
                       => \A v \in voteNum'[c.from] : Grant(c.Term, v, c.from)'
             /\ c.from # c.to
  <2>1. PICK d \in voteCalls : Kin(c, d)
    BY <1>3, Zenon DEF CallsKin
  <2>2. d.from \in Server /\ d.Term \in Nat
    BY VoteCallFields, Zenon DEF TypeOK
  <2>3. c.phase \in {"replied", "passed"} /\ c.reply.VoteGranted
          => c.reply.Term = c.Term /\ Grant(c.Term, c.to, c.from)'
    BY <1>1, <2>1, Zenon DEF Kin, GrantReported
  <2>4. ASSUME c.phase # "orphan"
        PROVE  /\ mode'[c.from] # "down"
               /\ c.Term <= currentTerm'[c.from]
               /\ c.Term = currentTerm'[c.from]
                    => \A v \in voteNum'[c.from] : Grant(c.Term, v, c.from)'
    <3>1. /\ mode[d.from] # "down" /\ d.Term <= currentTerm[d.from]
          /\ d.Term = currentTerm[d.from] => \A v \in voteNum[d.from] : Grant(d.Term, v, d.from)
      BY <2>1, <2>4, Zenon DEF Kin, CountedGranted
    <3>2. c.from = d.from /\ c.Term = d.Term
      BY <2>1, Zenon DEF Kin
    <3>3. c.Term = currentTerm'[c.from] => d.Term = currentTerm[d.from]
      BY <1>2, <2>2, <3>1, <3>2, SMTT(20)
    <3> QED BY <1>1, <1>2, <2>2, <3>1, <3>2, <3>3
  <2>5. c.from # c.to
    BY <2>1, Zenon DEF Kin, CountReset
  <2> QED BY <2>3, <2>4, <2>5, Zenon
<1>4. \A p \in Server : Majority(voteNum'[p]) => Server = {p}
  BY Zenon DEF CountReset
<1>5. GrantReported'
  BY <1>3, Zenon DEF GrantReported
<1>6. CountedGranted'
  BY <1>3, Zenon DEF CountedGranted
<1>7. CountReset'
  <2>1. \A p \in Server : Majority(voteNum[p])' => Majority(voteNum'[p])
    BY Zenon DEF Majority
  <2> QED BY <1>3, <1>4, <2>1, Zenon DEF CountReset
<1> QED BY <1>5, <1>6, <1>7, Zenon

\* Leaders and their requests.
LeadersKin(s) ==
  /\ myStatus'[s] = "Leader" => myStatus[s] = "Leader" /\ currentTerm'[s] = currentTerm[s]
  /\ \A c \in appendCalls' \union snapCalls' : Lead(c.Term, c.from)

\* If nobody becomes leader, only the elected lead and send.
LEMMA LeadMove ==
  ASSUME OnlyElectedLead, NEW s \in Server, Elsewhere(s), elected' = elected, LeadersKin(s)
  PROVE  OnlyElectedLead'
<1>1. \A p \in Server : myStatus'[p] = "Leader" => Lead(currentTerm'[p], p)
  BY Zenon DEF OnlyElectedLead, Elsewhere, LeadersKin
<1> QED BY <1>1, Zenon DEF OnlyElectedLead, LeadersKin, Lead

\* A step of s that counts no vote and starts no election.
StepOf(s) ==
  /\ VoteMove(s) /\ Elsewhere(s) /\ SavedOrLead(s) /\ CallsKin /\ LeadersKin(s)
  /\ voteNum' = voteNum
  /\ \A p \in Server : mode'[p] = "down" => mode[p] = "down"

\* Every step of one server that moves its vote forward keeps ElectionInv.
LEMMA StepMove ==
  ASSUME Quorums, TypeOK, TypeOK', ElectionInv, NEW s \in Server, StepOf(s)
  PROVE  ElectionInv'
<1>1. ElectionSafety' /\ VoteKept' /\ LeaderQuorum'
  BY CoreMove, Zenon DEF ElectionInv, StepOf
<1>2. VoteSaved'
  BY SavedMove, Zenon DEF ElectionInv, StepOf
<1>3. GrantReported' /\ CountedGranted' /\ CountReset'
  BY CallsMove, Zenon DEF ElectionInv, StepOf
<1>4. OnlyElectedLead'
  BY LeadMove, Zenon DEF ElectionInv, StepOf, VoteMove
<1> QED BY <1>1, <1>2, <1>3, <1>4, Zenon DEF ElectionInv

-----------------------------------------------------------------------------
(***************************************************************************)
(* The actions.                                                            *)
(***************************************************************************)
\* A step that leaves terms, votes and what is saved alone.
Still == UNCHANGED <<electVars, persisted, granted, elected, voteNum>>

\* A step that touches no term, vote or counter is such a step.
LEMMA StillStep ==
  ASSUME TypeOK, ElectionInv, Still, CallsKin,
         \A c \in appendCalls' \union snapCalls' : Lead(c.Term, c.from),
         \A p \in Server : mode'[p] = "down" => mode[p] = "down",
         NEW s \in Server
  PROVE  StepOf(s)
<1>1. VoteMove(s) /\ Elsewhere(s) /\ LeadersKin(s)
  BY Zenon DEF Still, electVars, VoteMove, Forward, Elsewhere, LeadersKin
<1>2. SavedOrLead(s)
  BY Zenon DEF ElectionInv, VoteSaved, Still, electVars, SavedOrLead, SavedNow
<1> QED BY <1>1, <1>2, Zenon DEF StepOf, Still

\* Dropping vote calls invents none.
LEMMA SameCalls ==
  voteCalls' \subseteq voteCalls => CallsKin
  BY Zenon DEF CallsKin, Kin

\* Requests under way keep their term and sender.
LEMMA SentByLeaders ==
  ASSUME OnlyElectedLead,
         NEW calls, NEW c \in calls, NEW r, calls \in {appendCalls, snapCalls},
         NEW d \in Answer(calls, c, r) \union Resend(calls, c, r), c \in AppendCall \union SnapCall
  PROVE  Lead(d.Term, d.from)
<1>1. d \in calls \/ d = [c EXCEPT !.phase = "replied", !.reply = r]
                  \/ d = [c EXCEPT !.phase = "sent", !.reply = r]
  BY Zenon DEF Answer, Resend
<1>2. CASE c \in AppendCall
  BY <1>1, <1>2, Zenon DEF OnlyElectedLead, AppendCall
<1>3. CASE c \in SnapCall
  BY <1>1, <1>3, Zenon DEF OnlyElectedLead, SnapCall
<1> QED BY <1>2, <1>3, Zenon

\* A sender that steps down.
LEMMA StepDownMove ==
  ASSUME TypeOK, VoteSaved, NEW s \in Server, NEW term \in Nat, StepDown(s, term),
         UNCHANGED <<granted, elected>>
  PROVE  VoteMove(s) /\ Elsewhere(s) /\ SavedOrLead(s) /\ myStatus'[s] # "Leader"
<1> USE DEF TypeOK, ElectType, PersistType
<1>1. Elsewhere(s) /\ myStatus'[s] # "Leader"
  BY Zenon DEF StepDown, Elsewhere
<1>2. CASE term > currentTerm[s]
  <2>1. /\ currentTerm'[s] = term /\ voteFor'[s] = None
        /\ persisted'[s] = [currentTerm |-> term, voteFor |-> None, logs |-> logs[s]]
        /\ \A p \in Server \ {s} : persisted'[p] = persisted[p]
    BY <1>2, Zenon DEF StepDown
  <2>2. SavedNow(s)
    BY <2>1 DEF SavedNow
  <2>3. Forward(s)
    BY <1>2, <2>1, Zenon DEF Forward
  <2> QED BY <1>1, <2>1, <2>2, <2>3, Zenon DEF VoteMove, SavedOrLead
<1>3. CASE ~ (term > currentTerm[s])
  <2>1. UNCHANGED <<currentTerm, voteFor, persisted>>
    BY <1>3, Zenon DEF StepDown
  <2>2. VoteMove(s)
    BY <2>1, Zenon DEF VoteMove, Forward
  <2>3. SavedOrLead(s)
    BY <2>1, Zenon DEF VoteSaved, SavedOrLead, SavedNow
  <2> QED BY <1>1, <2>2, <2>3, Zenon
<1> QED BY <1>2, <1>3, Zenon

\* A handler that follows the leader of a request.
LEMMA AdoptMove ==
  ASSUME TypeOK, VoteSaved, NEW s \in Server, NEW term \in Nat, NEW leader \in Server,
         Adopt(s, term, leader), term >= currentTerm[s], Lead(term, leader),
         persisted' = persisted \/ persist(s), UNCHANGED <<granted, elected>>
  PROVE  VoteMove(s) /\ Elsewhere(s) /\ SavedOrLead(s) /\ myStatus'[s] # "Leader"
<1> USE DEF TypeOK, ElectType, PersistType
<1>1. Elsewhere(s) /\ myStatus'[s] # "Leader"
  BY Zenon DEF Adopt, Elsewhere
<1>2. currentTerm'[s] = term /\ voteFor'[s] = leader /\ leader # None
  BY ServerAssumption, Zenon DEF Adopt
<1>3. \A p \in Server \ {s} : persisted'[p] = persisted[p]
  BY Zenon DEF persist
<1>4. persisted'[s] = persisted[s] \/ SavedNow(s)
  BY SMTT(20) DEF persist, SavedNow
<1>5. Forward(s)
  BY <1>2 DEF Forward
<1>6. SavedOrLead(s)
  <2>1. persisted[s].currentTerm <= term
    BY ElectTypes DEF VoteSaved
  <2> QED BY <1>2, <1>4, <2>1, Zenon DEF SavedOrLead
<1> QED BY <1>1, <1>3, <1>4, <1>5, <1>6, Zenon DEF VoteMove

-----------------------------------------------------------------------------
(***************************************************************************)
(* The actions that neither start nor win an election.                     *)
(***************************************************************************)
\* A heartbeat round keeps ElectionInv: only a leader sends it.
LEMMA ElectionTickerHeartbeat ==
  ASSUME Quorums, TypeInv, TypeInv', ElectionInv, NEW s \in Server, TickerHeartbeat(s)
  PROVE  ElectionInv'
<1>1. Still /\ voteCalls' = voteCalls /\ mode' = mode
  BY Zenon DEF TickerHeartbeat, voteVars, Still
<1>2. Lead(currentTerm[s], s)
  BY Zenon DEF TickerHeartbeat, ElectionInv, OnlyElectedLead
<1>3. \A c \in appendCalls' \union snapCalls' : Lead(c.Term, c.from)
  <2>1. \A c \in appendCalls \union snapCalls : Lead(c.Term, c.from)
    BY ZenonT(30) DEF ElectionInv, OnlyElectedLead
  <2>2. \A p \in Server : /\ NewAppendCall(s, p).Term = currentTerm[s]
                          /\ NewAppendCall(s, p).from = s
    BY Zenon DEF NewAppendCall
  <2>3. \A p \in Server : /\ NewSnapCall(s, p).Term = currentTerm[s]
                          /\ NewSnapCall(s, p).from = s
    BY Zenon DEF NewSnapCall
  <2>4. /\ \A c \in appendCalls' : c \in appendCalls \/ \E p \in Server : c = NewAppendCall(s, p)
        /\ \A c \in snapCalls' : c \in snapCalls \/ \E p \in Server : c = NewSnapCall(s, p)
    BY Zenon DEF TickerHeartbeat
  <2> QED BY <1>2, <2>1, <2>2, <2>3, <2>4, Zenon
<1> QED BY <1>1, <1>3, SameCalls, StillStep, StepMove, Zenon DEF TypeInv

\* AppendEntries keeps ElectionInv although it overwrites voteFor: the sender leads.
LEMMA ElectionAppendEntries ==
  ASSUME Quorums, TypeInv, TypeInv', ElectionInv, NEW c \in appendCalls, AppendEntries(c)
  PROVE  ElectionInv'
<1> DEFINE s == c.to
<1>1. c \in AppendCall /\ s \in Server /\ c.from \in Server /\ c.Term \in Nat
      /\ Lead(c.Term, c.from) /\ OnlyElectedLead /\ VoteSaved /\ TypeOK /\ TypeOK'
  BY AppendCallFields, Zenon DEF TypeInv, TypeOK, ElectionInv, OnlyElectedLead
<1>2. ASSUME NEW r, appendCalls' = Answer(appendCalls, c, r), snapCalls' = snapCalls
      PROVE  \A d \in appendCalls' \union snapCalls' : Lead(d.Term, d.from)
  BY <1>1, <1>2, SentByLeaders, SMTT(20) DEF OnlyElectedLead
<1>3. CASE AppendEntriesOutofDate(c)
  <2>1. Still /\ voteCalls' = voteCalls /\ mode' = mode
    BY <1>3, Zenon DEF AppendEntriesOutofDate, AppendFrame, voteVars, Still
  <2>2. \A d \in appendCalls' \union snapCalls' : Lead(d.Term, d.from)
    BY <1>2, <1>3, Zenon DEF AppendEntriesOutofDate, AppendFrame
  <2> QED BY <1>1, <2>1, <2>2, SameCalls, StillStep, StepMove, Zenon
<1>4. CASE AppendEntriesReject(c) \/ AppendEntriesAccept(c)
  <2>1. /\ Adopt(s, c.Term, c.from) /\ c.Term >= currentTerm[s] /\ persist(s)
        /\ UNCHANGED <<voteCalls, granted, elected, voteNum, mode, snapCalls>>
    BY <1>4, Zenon DEF AppendEntriesReject, AppendEntriesAccept, AppendEntriesValid, AppendFrame, voteVars
  <2>2. VoteMove(s) /\ Elsewhere(s) /\ SavedOrLead(s) /\ myStatus'[s] # "Leader"
    BY <1>1, <2>1, AdoptMove, Zenon
  <2>3. \A d \in appendCalls' \union snapCalls' : Lead(d.Term, d.from)
    BY <1>2, <1>4, <2>1, Zenon DEF AppendEntriesReject, AppendEntriesAccept
  <2>4. StepOf(s)
    BY <2>1, <2>2, <2>3, SameCalls, Zenon DEF StepOf, LeadersKin
  <2> QED BY <1>1, <2>4, StepMove, Zenon
<1> QED BY <1>3, <1>4, Zenon DEF AppendEntries

\* sendAppendEntries keeps ElectionInv.
LEMMA ElectionSendAppendEntries ==
  ASSUME Quorums, TypeInv, TypeInv', ElectionInv, NEW c \in appendCalls, SendAppendEntries(c)
  PROVE  ElectionInv'
<1> DEFINE s == c.from
<1>1. s \in Server /\ c.reply.Term \in Nat /\ OnlyElectedLead /\ VoteSaved /\ TypeOK /\ TypeOK'
  BY AppendCallFields, Zenon DEF TypeInv, TypeOK, ElectionInv
<1>2. /\ appendCalls' = appendCalls \ {c} /\ mode' = mode
      /\ UNCHANGED <<voteCalls, granted, elected, voteNum, snapCalls>>
  BY Zenon DEF SendAppendEntries, SendAppendEntriesStale, SendAppendEntriesSuccess,
         SendAppendEntriesOutofDate, SendAppendEntriesBackup, SendAppendEntriesCurrent,
         SendAppendFrame, voteVars
<1>3. \A d \in appendCalls' \union snapCalls' : Lead(d.Term, d.from)
  BY <1>1, <1>2, Zenon DEF OnlyElectedLead
<1>4. CASE SendAppendEntriesOutofDate(c)
  <2>1. VoteMove(s) /\ Elsewhere(s) /\ SavedOrLead(s) /\ myStatus'[s] # "Leader"
    BY <1>1, <1>2, <1>4, StepDownMove, Zenon DEF SendAppendEntriesOutofDate
  <2>2. StepOf(s)
    BY <1>2, <1>3, <2>1, SameCalls, Zenon DEF StepOf, LeadersKin
  <2> QED BY <1>1, <2>2, StepMove, Zenon
<1>5. CASE UNCHANGED <<electVars, persisted>>
  <2>1. Still
    BY <1>2, <1>5, Zenon DEF Still
  <2> QED BY <1>1, <1>2, <1>3, <2>1, SameCalls, StillStep, StepMove, Zenon
<1>6. SendAppendEntriesOutofDate(c) \/ UNCHANGED <<electVars, persisted>>
  BY Zenon DEF SendAppendEntries, SendAppendEntriesStale, SendAppendEntriesSuccess, SendAppendEntriesBackup
<1> QED BY <1>4, <1>5, <1>6, Zenon

\* InstallSnapshot keeps ElectionInv although the vote it writes is not saved.
LEMMA ElectionInstallSnapshot ==
  ASSUME Quorums, TypeInv, TypeInv', ElectionInv, NEW c \in snapCalls, InstallSnapshot(c)
  PROVE  ElectionInv'
<1> DEFINE s == c.to
<1>1. c \in SnapCall /\ s \in Server /\ c.from \in Server /\ c.Term \in Nat
      /\ Lead(c.Term, c.from) /\ OnlyElectedLead /\ VoteSaved /\ TypeOK /\ TypeOK'
  <2>1. TypeOK /\ TypeOK' /\ OnlyElectedLead /\ VoteSaved
    BY Zenon DEF TypeInv, ElectionInv
  <2>2. SnapCallType
    BY <2>1, Zenon DEF TypeOK
  <2>3. Lead(c.Term, c.from)
    BY <2>1, Zenon DEF OnlyElectedLead
  <2> QED BY <2>1, <2>2, <2>3, SnapCallFields, Zenon
<1>2. UNCHANGED <<voteCalls, granted, elected, voteNum, mode, persisted, appendCalls>>
  BY Zenon DEF InstallSnapshot, InstallSnapshotRefuse, InstallSnapshotAccept, InstallFrame, voteVars, appendVars
<1>3. \A d \in appendCalls' \union snapCalls' : Lead(d.Term, d.from)
  <2>1. \E r : snapCalls' = Answer(snapCalls, c, r)
    BY Zenon DEF InstallSnapshot, InstallSnapshotRefuse, InstallSnapshotAccept
  <2> QED BY <1>1, <1>2, <2>1, SentByLeaders DEF OnlyElectedLead
<1>4. CASE InstallSnapshotRefuse(c)
  <2>1. Still
    BY <1>2, <1>4, Zenon DEF InstallSnapshotRefuse, Still
  <2> QED BY <1>1, <1>2, <1>3, <2>1, SameCalls, StillStep, StepMove, Zenon
<1>5. CASE InstallSnapshotAccept(c)
  <2>1. Adopt(s, c.Term, c.from) /\ c.Term >= currentTerm[s]
    BY <1>5, Zenon DEF InstallSnapshotAccept
  <2>2. VoteMove(s) /\ Elsewhere(s) /\ SavedOrLead(s) /\ myStatus'[s] # "Leader"
    BY <1>1, <1>2, <2>1, AdoptMove, Zenon
  <2>3. StepOf(s)
    BY <1>2, <1>3, <2>2, SameCalls, Zenon DEF StepOf, LeadersKin
  <2> QED BY <1>1, <2>3, StepMove, Zenon
<1> QED BY <1>4, <1>5, Zenon DEF InstallSnapshot

\* sendInstallSnapshot keeps ElectionInv.
LEMMA ElectionSendInstallSnapshot ==
  ASSUME Quorums, TypeInv, TypeInv', ElectionInv, NEW c \in snapCalls, SendInstallSnapshot(c)
  PROVE  ElectionInv'
<1> DEFINE s == c.from
<1>1. s \in Server /\ c.reply.Term \in Nat /\ OnlyElectedLead /\ VoteSaved /\ TypeOK /\ TypeOK'
  BY SnapCallFields, Zenon DEF TypeInv, TypeOK, ElectionInv
<1>2. /\ snapCalls' = snapCalls \ {c} /\ mode' = mode
      /\ UNCHANGED <<voteCalls, granted, elected, voteNum, appendCalls>>
  BY Zenon DEF SendInstallSnapshot, voteVars, appendVars
<1>3. \A d \in appendCalls' \union snapCalls' : Lead(d.Term, d.from)
  BY <1>1, <1>2, Zenon DEF OnlyElectedLead
<1>4. CASE StepDown(s, c.reply.Term)
  <2>1. VoteMove(s) /\ Elsewhere(s) /\ SavedOrLead(s) /\ myStatus'[s] # "Leader"
    BY <1>1, <1>2, <1>4, StepDownMove, Zenon
  <2>2. StepOf(s)
    BY <1>2, <1>3, <2>1, SameCalls, Zenon DEF StepOf, LeadersKin
  <2> QED BY <1>1, <2>2, StepMove, Zenon
<1>5. CASE UNCHANGED <<electVars, persisted>>
  <2>1. Still
    BY <1>2, <1>5, Zenon DEF Still
  <2> QED BY <1>1, <1>2, <1>3, <2>1, SameCalls, StillStep, StepMove, Zenon
<1> QED BY <1>4, <1>5, Zenon DEF SendInstallSnapshot

\* The calls of the service do not touch the election.
LEMMA ElectionService ==
  ASSUME Quorums, TypeInv, TypeInv', ElectionInv, NEW s \in Server,
         Snapshot(s) \/ CondInstallSnapshot(s) \/ CondInstallSnapshotRefuse(s)
  PROVE  ElectionInv'
<1>1. ServiceFrame /\ \A p \in Server : mode'[p] = "down" => mode[p] = "down"
  BY Zenon DEF Snapshot, CondInstallSnapshot, CondInstallSnapshotRefuse, TypeInv, TypeOK, ModeType
<1>2. Still /\ voteCalls' = voteCalls /\ UNCHANGED <<appendCalls, snapCalls>>
  BY <1>1, Zenon DEF ServiceFrame, Still, voteVars, appendVars
<1>3. \A d \in appendCalls' \union snapCalls' : Lead(d.Term, d.from)
  BY <1>2, Zenon DEF OnlyElectedLead, ElectionInv
<1> QED BY <1>1, <1>2, <1>3, SameCalls, StillStep, StepMove, Zenon DEF TypeInv

\* Start saves the vote again and keeps ElectionInv.
LEMMA ElectionStart ==
  ASSUME Quorums, TypeInv, TypeInv', ElectionInv, NEW s \in Server, Start(s)
  PROVE  ElectionInv'
<1>1. /\ UNCHANGED <<currentTerm, voteFor, myStatus, mode, voteCalls, voteNum, granted, elected,
                     appendCalls, snapCalls>>
      /\ persist(s)
  BY Zenon DEF Start, electVars, voteVars, appendVars
<1>2. SavedNow(s) /\ \A p \in Server \ {s} : persisted'[p] = persisted[p]
  BY <1>1, Zenon DEF persist, SavedNow, TypeInv, TypeOK, PersistType
<1>3. VoteMove(s) /\ Elsewhere(s) /\ SavedOrLead(s)
  BY <1>1, <1>2, Zenon DEF VoteMove, Forward, Elsewhere, SavedOrLead
<1>4. LeadersKin(s)
  BY <1>1, Zenon DEF LeadersKin, ElectionInv, OnlyElectedLead
<1>5. StepOf(s)
  BY <1>1, <1>3, <1>4, SameCalls, Zenon DEF StepOf
<1> QED BY <1>5, StepMove, Zenon DEF TypeInv

\* A lost reply keeps ElectionInv.
LEMMA ElectionLoseReply ==
  ASSUME Quorums, TypeInv, TypeInv', ElectionInv, LoseReply
  PROVE  ElectionInv'
<1>1. Still /\ mode' = mode
  BY Zenon DEF LoseReply, Still
<1>2. CallsKin
  <2>1. ASSUME NEW c \in voteCalls, c.phase = "replied", voteCalls' = Resend(voteCalls, c, NoVoteReply)
        PROVE  CallsKin
    <3>1. ASSUME NEW d \in voteCalls' PROVE \E e \in voteCalls : Kin(d, e)
      <4>1. CASE d \in voteCalls
        BY <4>1, Zenon DEF Kin
      <4>2. CASE d = [c EXCEPT !.phase = "sent", !.reply = NoVoteReply]
        <5>1. c \in VoteCall
          BY Zenon DEF TypeInv, TypeOK, VoteType
        <5>2. d.from = c.from /\ d.to = c.to /\ d.Term = c.Term /\ d.phase = "sent"
          BY <4>2, <5>1, Zenon DEF VoteCall
        <5> QED BY <5>2, <2>1, Zenon DEF Kin
      <4> QED BY <3>1, <2>1, <4>1, <4>2, Zenon DEF Resend
    <3> QED BY <3>1, Zenon DEF CallsKin
  <2>2. voteCalls' = voteCalls => CallsKin
    BY SameCalls, Zenon
  <2> QED BY <2>1, <2>2, Zenon DEF LoseReply
<1>3. \A d \in appendCalls' \union snapCalls' : Lead(d.Term, d.from)
  <2>1. OnlyElectedLead /\ appendCalls \subseteq AppendCall /\ snapCalls \subseteq SnapCall
    BY Zenon DEF ElectionInv, TypeInv, TypeOK, AppendType, SnapCallType
  <2>2. /\ appendCalls' = appendCalls \/ \E c \in appendCalls : appendCalls' = Resend(appendCalls, c, NoAppendReply)
        /\ snapCalls' = snapCalls \/ \E c \in snapCalls : snapCalls' = Resend(snapCalls, c, NoSnapReply)
    BY Zenon DEF LoseReply
  <2>3. \A d \in appendCalls' : Lead(d.Term, d.from)
    BY <2>1, <2>2, SentByLeaders DEF OnlyElectedLead
  <2>4. \A d \in snapCalls' : Lead(d.Term, d.from)
    BY <2>1, <2>2, SentByLeaders, SMTT(20) DEF OnlyElectedLead
  <2> QED BY <2>3, <2>4, Zenon
<1>4. \E s : s \in Server
  BY VoteCallFields, AppendCallFields, SnapCallFields, Zenon DEF LoseReply, TypeInv, TypeOK
<1> QED BY <1>1, <1>2, <1>3, <1>4, StillStep, StepMove, Zenon DEF TypeInv

\* A granting answer to a vote request reports a vote that was given.
LEMMA AnswerKin ==
  ASSUME VoteType, NEW c \in voteCalls, NEW r, voteCalls' = Answer(voteCalls, c, r),
         r.VoteGranted => r.Term = c.Term /\ Grant(c.Term, c.to, c.from)'
  PROVE  CallsKin
<1> SUFFICES ASSUME NEW d \in voteCalls' PROVE \E e \in voteCalls : Kin(d, e)
  BY Zenon DEF CallsKin
<1>1. CASE d \in voteCalls
  BY <1>1, Zenon DEF Kin
<1>2. CASE d = [c EXCEPT !.phase = "replied", !.reply = r] /\ c.phase # "orphan"
  <2>1. c \in VoteCall
    BY Zenon DEF VoteType
  <2>2. d.from = c.from /\ d.to = c.to /\ d.Term = c.Term /\ d.reply = r
    BY <1>2, <2>1, Zenon DEF VoteCall
  <2> QED BY <1>2, <2>2, Zenon DEF Kin
<1> QED BY <1>1, <1>2, Zenon DEF Answer

\* RequestVote keeps ElectionInv: the vote it gives is saved, or its term has a leader.
LEMMA ElectionRequestVote ==
  ASSUME Quorums, TypeInv, TypeInv', ElectionInv, NEW c \in voteCalls, RequestVote(c)
  PROVE  ElectionInv'
<1> DEFINE s == c.to
<1>1. /\ s \in Server /\ c.from \in Server /\ c.Term \in Nat /\ currentTerm[s] \in Nat
      /\ OnlyElectedLead /\ VoteSaved /\ TypeOK /\ TypeOK' /\ VoteType
  BY VoteCallFields, Zenon DEF TypeInv, TypeOK, ElectType, ElectionInv
<1>2. UNCHANGED <<elected, voteNum, mode, appendCalls, snapCalls>>
  BY Zenon DEF RequestVote, RequestVoteOutofDate, RequestVoteLogTooOld, RequestVoteVoted,
         RequestVoteGrant, VoteFrame, appendVars
<1>3. \A d \in appendCalls' \union snapCalls' : Lead(d.Term, d.from)
  BY <1>1, <1>2, Zenon DEF OnlyElectedLead
<1>4. CASE RequestVoteOutofDate(c)
  <2>1. Still
    BY <1>2, <1>4, Zenon DEF RequestVoteOutofDate, Still
  <2>2. CallsKin
    BY <1>1, <1>4, AnswerKin, Zenon DEF RequestVoteOutofDate
  <2> QED BY <1>1, <1>2, <1>3, <2>1, <2>2, StillStep, StepMove, Zenon
<1>5. CASE RequestVoteLogTooOld(c)
  <2>1. CallsKin
    BY <1>1, <1>5, AnswerKin, Zenon DEF RequestVoteLogTooOld
  <2>2. SavedNow(s) /\ \A p \in Server \ {s} : persisted'[p] = persisted[p]
    BY <1>1, <1>5, Zenon DEF RequestVoteLogTooOld, persist, SavedNow, TypeOK, PersistType
  <2>3. Forward(s) /\ Elsewhere(s)
        /\ (myStatus'[s] = "Leader" => myStatus[s] = "Leader" /\ currentTerm'[s] = currentTerm[s])
    BY <1>1, <1>5, SMTT(20) DEF RequestVoteLogTooOld, Adopt, electVars, Forward, Elsewhere, TypeOK, ElectType
  <2>4. StepOf(s)
    BY <1>2, <1>3, <1>5, <2>1, <2>2, <2>3, Zenon DEF RequestVoteLogTooOld, StepOf, VoteMove, SavedOrLead, LeadersKin
  <2> QED BY <1>1, <2>4, StepMove, Zenon
<1>6. CASE RequestVoteVoted(c)
  <2>1. UNCHANGED <<currentTerm, voteFor, persisted>> /\ currentTerm[s] = c.Term
    BY <1>6, Zenon DEF RequestVoteVoted
  <2>2. Elsewhere(s) /\ (myStatus'[s] = "Leader" => myStatus[s] = "Leader")
    BY <1>1, <1>6, <2>1, Zenon DEF RequestVoteVoted, Elsewhere, TypeOK, ElectType
  <2>3. SavedOrLead(s)
    BY <1>1, <2>1, Zenon DEF VoteSaved, SavedOrLead, SavedNow
  <2>4. /\ voteFor[s] = c.from => granted' = granted \union {NewGrant(s)}
        /\ voteFor[s] # c.from => granted' = granted
    BY <1>6, <2>1, Zenon DEF RequestVoteVoted, NewGrant
  <2>5. CallsKin
    <3>1. voteFor[s] = c.from => Grant(c.Term, c.to, c.from)'
      BY <2>1, <2>4, Zenon DEF NewGrant, Grant
    <3> DEFINE r == [Term |-> c.Term, VoteGranted |-> voteFor[s] = c.from, VoteErr |-> "VotedThisTerm"]
    <3>2. voteCalls' = Answer(voteCalls, c, r)
      BY <1>6, Zenon DEF RequestVoteVoted
    <3>3. r.VoteGranted => r.Term = c.Term /\ Grant(c.Term, c.to, c.from)'
      BY <3>1, Zenon
    <3> HIDE DEF r
    <3> QED BY <1>1, <3>2, <3>3, AnswerKin, Zenon
  <2>6. SavedNow(s) \/ HasLeader(currentTerm'[s])
    BY <2>3, Zenon DEF SavedOrLead, HasLeader, Lead
  <2>7. VoteMove(s)
    BY <1>2, <2>1, <2>4, <2>6, Zenon DEF VoteMove, Forward
  <2>8. StepOf(s)
    BY <1>2, <1>3, <2>1, <2>2, <2>3, <2>5, <2>7, Zenon DEF StepOf, LeadersKin
  <2> QED BY <1>1, <2>8, StepMove, Zenon
<1>7. CASE RequestVoteGrant(c)
  <2>1. SavedNow(s) /\ \A p \in Server \ {s} : persisted'[p] = persisted[p]
    BY <1>1, <1>7, Zenon DEF RequestVoteGrant, persist, SavedNow, TypeOK, PersistType
  <2>2. /\ currentTerm'[s] = c.Term /\ voteFor'[s] = c.from /\ myStatus'[s] = "Follower"
        /\ Elsewhere(s)
    BY <1>1, <1>7, Zenon DEF RequestVoteGrant, Adopt, Elsewhere, TypeOK, ElectType
  <2>3. Forward(s)
    <3>1. c.Term >= currentTerm[s] /\ (c.Term > currentTerm[s] \/ voteFor[s] = None)
      BY <1>7, Zenon DEF RequestVoteGrant
    <3>2. c.Term \in Nat /\ currentTerm[s] \in Nat
      BY <1>1, VoteCallFields, Zenon DEF TypeOK, ElectType
    <3>3. currentTerm'[s] > currentTerm[s] \/ (currentTerm'[s] = currentTerm[s] /\ voteFor[s] = None)
      BY <2>2, <3>1, <3>2
    <3> QED BY <3>3, Zenon DEF Forward
  <2>4. granted' = granted \union {NewGrant(s)} /\ Grant(c.Term, c.to, c.from)'
    BY <1>7, <2>2, Zenon DEF RequestVoteGrant, NewGrant, Grant
  <2>5. CallsKin
    BY <1>1, <1>7, <2>4, AnswerKin, Zenon DEF RequestVoteGrant
  <2>6. StepOf(s)
    BY <1>2, <1>3, <2>1, <2>2, <2>3, <2>4, <2>5, Zenon DEF StepOf, VoteMove, SavedOrLead, LeadersKin
  <2> QED BY <1>1, <2>6, StepMove, Zenon
<1> QED BY <1>4, <1>5, <1>6, <1>7, Zenon DEF RequestVote

\* The first critical section of sendRequestVote, and a refusal, keep ElectionInv.
LEMMA ElectionSendRequestVote ==
  ASSUME Quorums, TypeInv, TypeInv', ElectionInv, NEW c \in voteCalls,
         SendRequestVoteCheck(c) \/ SendRequestVoteRefused(c)
  PROVE  ElectionInv'
<1> DEFINE s == c.from
<1>1. /\ s \in Server /\ c \in VoteCall /\ c.reply.Term \in Nat
      /\ OnlyElectedLead /\ VoteSaved /\ TypeOK /\ TypeOK'
  BY VoteCallFields, Zenon DEF TypeInv, TypeOK, ElectionInv
<1>2. UNCHANGED <<granted, elected, voteNum, mode, appendCalls, snapCalls>>
  BY Zenon DEF SendRequestVoteCheck, SendRequestVoteRefused, VoteFrame, appendVars
<1>3. \A d \in appendCalls' \union snapCalls' : Lead(d.Term, d.from)
  BY <1>1, <1>2, Zenon DEF OnlyElectedLead
<1>4. CASE SendRequestVoteCheck(c)
  <2>1. Still
    BY <1>2, <1>4, Zenon DEF SendRequestVoteCheck, Still
  <2>2. ASSUME NEW d \in voteCalls' PROVE \E e \in voteCalls : Kin(d, e)
    <3>1. CASE d \in voteCalls
      BY <3>1, Zenon DEF Kin
    <3>2. CASE d = [c EXCEPT !.phase = "passed"]
      <4>1. d.from = c.from /\ d.to = c.to /\ d.Term = c.Term /\ d.reply = c.reply
        BY <1>1, <3>2, Zenon DEF VoteCall
      <4>2. c.phase = "replied"
        BY <1>4, Zenon DEF SendRequestVoteCheck, Arrived
      <4> QED BY <4>1, <4>2, Zenon DEF Kin
    <3> QED BY <2>2, <1>4, <3>1, <3>2, Zenon DEF SendRequestVoteCheck
  <2>3. CallsKin
    BY <2>2, Zenon DEF CallsKin
  <2> QED BY <1>1, <1>2, <1>3, <2>1, <2>3, StillStep, StepMove, Zenon
<1>5. CASE SendRequestVoteRefused(c)
  <2>1. VoteMove(s) /\ Elsewhere(s) /\ SavedOrLead(s) /\ myStatus'[s] # "Leader"
    BY <1>1, <1>2, <1>5, StepDownMove, Zenon DEF SendRequestVoteRefused
  <2>2. CallsKin
    BY <1>5, SameCalls, Zenon DEF SendRequestVoteRefused
  <2>3. StepOf(s)
    BY <1>2, <1>3, <2>1, <2>2, Zenon DEF StepOf, LeadersKin
  <2> QED BY <1>1, <2>3, StepMove, Zenon
<1> QED BY <1>4, <1>5, Zenon

-----------------------------------------------------------------------------
(***************************************************************************)
(* Elections, crashes and restarts.                                        *)
(***************************************************************************)
\* A new election keeps ElectionInv: its term is new to the server.
LEMMA ElectionTickerElection ==
  ASSUME Quorums, TypeInv, TypeInv', ElectionInv, NEW s \in Server, TickerElection(s)
  PROVE  ElectionInv'
<1>1. TypeOK /\ TypeOK' /\ VoteSaved /\ currentTerm[s] \in Nat
  BY Zenon DEF TypeInv, TypeOK, ElectType, ElectionInv
<1>2. /\ currentTerm'[s] = currentTerm[s] + 1 /\ voteFor'[s] = s /\ myStatus'[s] = "Candidate"
      /\ Elsewhere(s)
  BY <1>1, Zenon DEF TickerElection, Elsewhere, TypeOK, ElectType
<1>3. SavedNow(s) /\ \A p \in Server \ {s} : persisted'[p] = persisted[p]
  BY <1>1, Zenon DEF TickerElection, persist, SavedNow, TypeOK, PersistType
<1>4. granted' = granted \union {NewGrant(s)} /\ [term |-> currentTerm'[s], voter |-> s, cand |-> s] \in granted'
  <2>1. NewGrant(s) = [term |-> currentTerm[s] + 1, voter |-> s, cand |-> s]
    BY <1>2, Zenon DEF NewGrant
  <2>2. granted' = granted \union {NewGrant(s)}
    BY <2>1, Zenon DEF TickerElection
  <2> QED BY <1>2, <2>2, Zenon DEF NewGrant, Grant
<1>5. UNCHANGED <<elected, mode, appendCalls, snapCalls>> /\ mode[s] = "running"
  BY Zenon DEF TickerElection, appendVars
<1>6. VoteMove(s)
  BY <1>1, <1>2, <1>3, <1>4, <1>5 DEF VoteMove, Forward
<1>7. ElectionSafety' /\ VoteKept' /\ LeaderQuorum' /\ VoteSaved'
  BY <1>1, <1>2, <1>3, <1>6, CoreMove, SavedMove, Zenon DEF ElectionInv, SavedOrLead
<1>8. OnlyElectedLead'
  BY <1>2, <1>5, LeadMove, Zenon DEF ElectionInv, OnlyElectedLead, LeadersKin
<1>9. /\ \A p \in Server \ {s} : voteNum'[p] = voteNum[p]
      /\ voteNum'[s] = {s}
  BY <1>1, Zenon DEF TickerElection, TypeOK, VoteType
<1>10. \A t, v, c : Grant(t, v, c) => Grant(t, v, c)'
  BY <1>4, Zenon DEF Grant
<1>11. ASSUME NEW c \in voteCalls'
       PROVE  /\ c.phase \in {"replied", "passed"} /\ c.reply.VoteGranted
                   => c.reply.Term = c.Term /\ Grant(c.Term, c.to, c.from)'
              /\ c.phase # "orphan" =>
                   /\ mode'[c.from] # "down"
                   /\ c.Term <= currentTerm'[c.from]
                   /\ c.Term = currentTerm'[c.from]
                        => \A v \in voteNum'[c.from] : Grant(c.Term, v, c.from)'
              /\ c.from # c.to
  <2>1. CASE c \in voteCalls
    <3>1. c.from \in Server /\ c.Term \in Nat
      BY <1>1, <2>1, VoteCallFields, Zenon DEF TypeOK
    <3>2. c.from # c.to /\ (c.phase \in {"replied", "passed"} /\ c.reply.VoteGranted
                              => c.reply.Term = c.Term /\ Grant(c.Term, c.to, c.from)')
      BY <1>10, <2>1, Zenon DEF ElectionInv, CountReset, GrantReported
    <3>3. c.phase # "orphan" =>
            /\ mode[c.from] # "down" /\ c.Term <= currentTerm[c.from]
            /\ c.Term = currentTerm[c.from] => \A v \in voteNum[c.from] : Grant(c.Term, v, c.from)
      BY <2>1, Zenon DEF ElectionInv, CountedGranted
    <3>4. CASE c.from = s
      <4>1. c.phase # "orphan" => c.Term < currentTerm'[c.from]
        BY <1>1, <1>2, <3>1, <3>3, <3>4
      <4> QED BY <1>1, <1>2, <1>5, <3>1, <3>2, <3>3, <3>4, <4>1
    <3>5. CASE c.from # s
      <4>1. currentTerm'[c.from] = currentTerm[c.from] /\ voteNum'[c.from] = voteNum[c.from]
        BY <1>2, <1>9, <3>1, <3>5, Zenon DEF Elsewhere
      <4> QED BY <1>5, <1>10, <3>2, <3>3, <4>1, Zenon
    <3> QED BY <3>4, <3>5, Zenon
  <2>2. CASE c \notin voteCalls
    <3>1. c.from = s /\ c.to # s /\ c.Term = currentTerm[s] + 1 /\ c.phase = "sent"
      BY <2>2, <1>11, SMTT(20) DEF TickerElection
    <3>2. c.Term = currentTerm'[s] /\ currentTerm'[s] \in Nat
      BY <1>1, <1>2, <3>1
    <3>3. \A v \in voteNum'[s] : Grant(c.Term, v, s)'
      BY <1>4, <1>9, <3>2, Zenon DEF Grant
    <3> QED BY <1>5, <3>1, <3>2, <3>3
  <2> QED BY <2>1, <2>2, Zenon
<1>12. GrantReported' /\ CountedGranted'
  BY <1>11, Zenon DEF GrantReported, CountedGranted
<1>13. CountReset'
  <2>1. \A p \in Server : Majority(voteNum[p])' => Majority(voteNum'[p])
    BY Zenon DEF Majority
  <2>2. \A p \in Server : Majority(voteNum'[p]) => Server = {p}
    BY <1>9, Zenon DEF ElectionInv, CountReset, Quorums
  <2> QED BY <1>11, <2>1, <2>2, Zenon DEF CountReset
<1> QED BY <1>7, <1>8, <1>12, <1>13, Zenon DEF ElectionInv

\* What a counted vote leaves in the counters.
LEMMA CountVotes ==
  ASSUME Quorums, TypeInv, TypeInv', ElectionInv, NEW c \in voteCalls, SendRequestVoteCount(c),
         NEW votes \in SUBSET Server,
         votes = voteNum[c.from] \/
           (votes = voteNum[c.from] \union {c.to} /\ c.reply.VoteGranted /\ c.reply.Term = currentTerm[c.from]),
         voteNum' = [voteNum EXCEPT ![c.from] = IF Majority(votes) THEN {} ELSE votes]
  PROVE  GrantReported' /\ CountedGranted' /\ CountReset'
<1> DEFINE s == c.from
<1>1. /\ s \in Server /\ VoteType /\ voteCalls' = voteCalls \ {c} /\ c.phase = "passed"
      /\ UNCHANGED <<currentTerm, granted, mode>>
  BY VoteCallFields, Zenon DEF TypeInv, TypeOK, SendRequestVoteCount
<1>2. /\ voteNum'[s] \in {votes, {}} /\ (Majority(votes) => voteNum'[s] = {})
      /\ \A p \in Server \ {s} : voteNum'[p] = voteNum[p]
  BY <1>1, Zenon DEF VoteType
<1>3. \A t, v, x : Grant(t, v, x) <=> Grant(t, v, x)'
  BY <1>1, Zenon DEF Grant
<1>4. GrantReported'
  BY <1>1, <1>3, Zenon DEF GrantReported, ElectionInv
<1>5. CountReset'
  <2>1. \A p \in Server : Majority(voteNum[p])' => Majority(voteNum'[p])
    BY Zenon DEF Majority
  <2>2. ~ Majority(voteNum'[s])
    BY <1>2, Zenon DEF Quorums
  <2>3. \A p \in Server : Majority(voteNum'[p]) => Server = {p}
    BY <1>2, <2>2, Zenon DEF CountReset, ElectionInv
  <2> QED BY <1>1, <2>1, <2>3, Zenon DEF CountReset, ElectionInv
<1>6. ASSUME NEW d \in voteCalls', d.phase # "orphan"
      PROVE  /\ mode'[d.from] # "down" /\ d.Term <= currentTerm'[d.from]
             /\ d.Term = currentTerm'[d.from] => \A v \in voteNum'[d.from] : Grant(d.Term, v, d.from)'
  <2>1. /\ d \in voteCalls /\ d.from \in Server /\ mode[d.from] # "down" /\ d.Term <= currentTerm[d.from]
        /\ d.Term = currentTerm[d.from] => \A v \in voteNum[d.from] : Grant(d.Term, v, d.from)
    BY <1>1, <1>6, VoteCallFields, Zenon DEF ElectionInv, CountedGranted
  <2>2. ASSUME d.Term = currentTerm[d.from], d.from = s, NEW v \in votes
        PROVE  Grant(d.Term, v, s)
    <3>1. CASE v \in voteNum[s]
      BY <2>1, <2>2, <3>1, Zenon
    <3>2. CASE v \notin voteNum[s]
      BY <1>1, <2>2, <3>2, SMTT(20) DEF ElectionInv, GrantReported
    <3> QED BY <3>1, <3>2, Zenon
  <2>3. d.Term = currentTerm[d.from] => \A v \in voteNum'[d.from] : Grant(d.Term, v, d.from)
    BY <1>2, <2>1, <2>2, Zenon
  <2> QED BY <1>1, <1>3, <2>1, <2>3, Zenon
<1>7. CountedGranted'
  BY <1>6, Zenon DEF CountedGranted
<1> QED BY <1>4, <1>5, <1>7, Zenon

\* A majority of one election elects a leader only in a term without another.
LEMMA NewLeader ==
  ASSUME Quorums, TypeOK, ElectionInv, NEW s \in Server, NEW votes \in SUBSET Server, Majority(votes),
         \A v \in votes : Grant(currentTerm[s], v, s),
         UNCHANGED <<currentTerm, voteFor, persisted, granted>>,
         elected' = elected \union {[term |-> currentTerm[s], leader |-> s]}
  PROVE  ElectionSafety' /\ VoteSaved' /\ VoteKept' /\ LeaderQuorum'
<1> DEFINE T == currentTerm[s]
           n == [term |-> T, leader |-> s]
<1>1. ASSUME NEW e \in elected, e.term = T PROVE e.leader = s
  <2>1. Majority(Supporters(T, e.leader)) /\ Supporters(T, e.leader) \in SUBSET Server
    BY <1>1, Zenon DEF ElectionInv, LeaderQuorum, Supporters
  <2>2. PICK v \in Server : v \in Supporters(T, e.leader) /\ v \in votes
    BY <2>1 DEF Quorums
  <2> QED BY <2>2, Zenon DEF Supporters
<1>2. ElectionSafety'
  <2>1. n.term = T /\ n.leader = s
    OBVIOUS
  <2>2. elected' = elected \union {n}
    OBVIOUS
  <2> HIDE DEF n
  <2> QED BY <1>1, <2>1, <2>2, Zenon DEF ElectionInv, ElectionSafety
<1>3. VoteSaved'
  BY Zenon DEF ElectionInv, VoteSaved, Lead
<1>4. \A v, t, c : (Kept(v, t, c) <=> Kept(v, t, c)') /\ (Grant(t, v, c) <=> Grant(t, v, c)')
  BY Zenon DEF Kept, Grant
<1>5. VoteKept'
  <2>1. \A t : ~ HasLeader(t)' => ~ HasLeader(t)
    BY Zenon DEF HasLeader
  <2> QED BY <1>4, <2>1, Zenon DEF ElectionInv, VoteKept
<1>6. \A t, a : Supporters(t, a)' = Supporters(t, a)
  BY <1>4, Zenon DEF Supporters
<1>7. ASSUME NEW e \in elected' PROVE Majority(Supporters(e.term, e.leader))
  <2>1. CASE e \in elected
    BY <2>1, Zenon DEF ElectionInv, LeaderQuorum
  <2>2. CASE e \notin elected
    <3>1. e.term = T /\ e.leader = s /\ e = n
      BY <2>2
    <3>2. ~ HasLeader(T)
      <4>1. ASSUME NEW f \in elected, f.term = T PROVE FALSE
        <5>1. f.leader = s /\ f = [term |-> f.term, leader |-> f.leader]
          BY <1>1, <4>1, ElectTypes, Zenon
        <5> QED BY <5>1, <4>1, <3>1, <2>2, Zenon
      <4> QED BY <4>1, Zenon DEF HasLeader
    <3>3. ASSUME NEW v \in votes PROVE v \in Supporters(T, s)
      <4> DEFINE g == [term |-> T, voter |-> v, cand |-> s]
      <4>1. g \in granted /\ g.term = T /\ g.voter = v /\ g.cand = s
        BY Zenon DEF Grant
      <4> HIDE DEF g
      <4>2. Kept(v, T, s) /\ \A d \in Server : Grant(T, v, d) => d = s
        BY <4>1, <3>2, Zenon DEF ElectionInv, VoteKept
      <4> QED BY <4>2, Zenon DEF Supporters
    <3>4. Supporters(T, s) \in SUBSET Server /\ votes \subseteq Supporters(T, s)
      BY <3>3, Zenon DEF Supporters
    <3> QED BY <3>1, <3>4, Zenon DEF Quorums
  <2> QED BY <2>1, <2>2, Zenon
<1>8. LeaderQuorum'
  <2>1. \A S : Majority(S) <=> Cardinality(S) > Cardinality(Server) \div 2
    BY Zenon DEF Majority
  <2>2. \A e \in elected' : Majority(Supporters(e.term, e.leader))'
    BY <1>6, <1>7, <2>1, Zenon DEF Majority
  <2> QED BY <2>2, Zenon DEF LeaderQuorum
<1> QED BY <1>2, <1>3, <1>5, <1>8, Zenon

\* Counting a vote keeps ElectionInv: a new quorum meets that of any leader of the term.
LEMMA ElectionSendRequestVoteCount ==
  ASSUME Quorums, TypeInv, TypeInv', ElectionInv, NEW c \in voteCalls, SendRequestVoteCount(c)
  PROVE  ElectionInv'
<1> DEFINE s == c.from
           counted == /\ c.reply.VoteGranted
                      /\ c.reply.Term = currentTerm[s]
                      /\ ~ Majority(voteNum[s])
           votes == IF counted THEN voteNum[s] \union {c.to} ELSE voteNum[s]
<1>1. /\ s \in Server /\ c.to \in Server /\ TypeOK /\ TypeOK' /\ c.phase = "passed"
      /\ voteNum[s] \in SUBSET Server
  BY VoteCallFields, Zenon DEF TypeInv, TypeOK, VoteType, SendRequestVoteCount
<1>2. votes \in SUBSET Server
  BY <1>1, Zenon
<1>3. GrantReported' /\ CountedGranted' /\ CountReset'
  <2>1. votes = voteNum[s] \/
          (votes = voteNum[s] \union {c.to} /\ c.reply.VoteGranted /\ c.reply.Term = currentTerm[s])
    BY Zenon
  <2>2. voteNum' = [voteNum EXCEPT ![s] = IF Majority(votes) THEN {} ELSE votes]
    BY Zenon DEF SendRequestVoteCount
  <2> HIDE DEF votes
  <2> QED BY <1>2, <2>1, <2>2, CountVotes, Zenon
<1>4. /\ UNCHANGED <<currentTerm, voteFor, persisted, granted, mode, appendCalls, snapCalls>>
      /\ IF Majority(votes) /\ myStatus[s] # "Leader"
         THEN /\ myStatus' = [myStatus EXCEPT ![s] = "Leader"]
              /\ elected' = elected \union {[term |-> currentTerm[s], leader |-> s]}
         ELSE UNCHANGED <<myStatus, elected>>
  BY Zenon DEF SendRequestVoteCount, appendVars
<1>5. CASE Majority(votes) /\ myStatus[s] # "Leader"
  <2>1. ~ Majority(voteNum[s])
    BY <1>1, Zenon DEF ElectionInv, CountReset
  <2>2. counted
    BY <1>5, <2>1, Zenon
  <2>3. Grant(c.Term, c.to, s) /\ c.Term = currentTerm[s] /\ \A v \in voteNum[s] : Grant(c.Term, v, s)
    BY <1>1, <2>2, Zenon DEF ElectionInv, GrantReported, CountedGranted
  <2>4. \A v \in votes : Grant(currentTerm[s], v, s)
    BY <2>2, <2>3, Zenon
  <2>5. elected' = elected \union {[term |-> currentTerm[s], leader |-> s]}
        /\ myStatus' = [myStatus EXCEPT ![s] = "Leader"]
    BY <1>4, <1>5, Zenon
  <2>6. ElectionSafety' /\ VoteSaved' /\ VoteKept' /\ LeaderQuorum'
    <3>1. Majority(votes) /\ UNCHANGED <<currentTerm, voteFor, persisted, granted>>
      BY <1>4, <1>5, Zenon
    <3> HIDE DEF votes, s
    <3> QED BY <1>1, <1>2, <2>4, <2>5, <3>1, NewLeader, Zenon
  <2>7. OnlyElectedLead'
    BY <1>1, <1>4, <2>5, Zenon DEF ElectionInv, OnlyElectedLead, Lead, TypeOK, ElectType
  <2> QED BY <1>3, <2>6, <2>7, Zenon DEF ElectionInv
<1>6. CASE ~ (Majority(votes) /\ myStatus[s] # "Leader")
  <2>1. UNCHANGED <<myStatus, elected>>
    BY <1>4, <1>6, Zenon
  <2>2. VoteMove(s) /\ Elsewhere(s) /\ LeadersKin(s)
    BY <1>4, <2>1, ZenonT(30) DEF VoteMove, Forward, Elsewhere, LeadersKin, ElectionInv, OnlyElectedLead
  <2>3. SavedOrLead(s)
    BY <1>1, <1>4, <2>1, Zenon DEF ElectionInv, VoteSaved, SavedOrLead, SavedNow
  <2>4. ElectionSafety' /\ VoteSaved' /\ VoteKept' /\ LeaderQuorum' /\ OnlyElectedLead'
    BY <1>1, <2>1, <2>2, <2>3, CoreMove, SavedMove, LeadMove, Zenon DEF ElectionInv
  <2> QED BY <1>3, <2>4, Zenon DEF ElectionInv
<1> QED BY <1>5, <1>6, Zenon

\* Kill keeps ElectionInv: the counters of a server that is down do not matter.
LEMMA ElectionKill ==
  ASSUME Quorums, TypeInv, TypeInv', ElectionInv, NEW s \in Server, Kill(s)
  PROVE  ElectionInv'
<1>1. TypeOK /\ TypeOK' /\ UNCHANGED <<currentTerm, voteFor, myStatus, persisted, voteNum, granted, elected>>
  BY Zenon DEF TypeInv, Kill, electVars
<1>2. /\ voteCalls' = Orphaned(voteCalls, s)
      /\ appendCalls' = Orphaned(appendCalls, s) /\ snapCalls' = Orphaned(snapCalls, s)
      /\ \A p \in Server \ {s} : mode'[p] = mode[p]
  BY <1>1, Zenon DEF Kill, TypeOK, ModeType
<1>3. ASSUME NEW calls \in {voteCalls, appendCalls, snapCalls}, NEW c \in Orphaned(calls, s)
      PROVE  \E d \in calls : c.from = d.from /\ c.to = d.to /\ c.Term = d.Term
                              /\ (c # d => c.phase = "orphan")
                              /\ (c.phase # "orphan" => c.from # s)
  <2>1. PICK d \in calls : c = IF d.from = s THEN [d EXCEPT !.phase = "orphan"] ELSE d
    BY Zenon DEF Orphaned
  <2>2. d \in VoteCall \/ d \in AppendCall \/ d \in SnapCall
    BY <1>1, Zenon DEF TypeOK, VoteType, AppendType, SnapCallType
  <2>3. d.from = s => /\ [d EXCEPT !.phase = "orphan"].from = s
                      /\ [d EXCEPT !.phase = "orphan"].to = d.to
                      /\ [d EXCEPT !.phase = "orphan"].Term = d.Term
                      /\ [d EXCEPT !.phase = "orphan"].phase = "orphan"
    <3>1. CASE d \in VoteCall
      BY <3>1, Zenon DEF VoteCall
    <3>2. CASE d \in AppendCall
      BY <3>2, Zenon DEF AppendCall
    <3>3. CASE d \in SnapCall
      BY <3>3, Zenon DEF SnapCall
    <3> QED BY <2>2, <3>1, <3>2, <3>3, Zenon
  <2> QED BY <2>1, <2>3, Zenon
<1>4. \A t, v, x : Grant(t, v, x) <=> Grant(t, v, x)'
  BY <1>1, Zenon DEF Grant
<1>5. LeadersKin(s)
  BY <1>1, <1>2, <1>3, Zenon DEF LeadersKin, ElectionInv, OnlyElectedLead
<1>6. VoteMove(s) /\ Elsewhere(s)
  BY <1>1, Zenon DEF VoteMove, Forward, Elsewhere
<1>7. SavedOrLead(s)
  BY <1>1, Zenon DEF ElectionInv, VoteSaved, SavedOrLead, SavedNow
<1>8. ElectionSafety' /\ VoteSaved' /\ VoteKept' /\ LeaderQuorum' /\ OnlyElectedLead'
  BY <1>1, <1>5, <1>6, <1>7, CoreMove, SavedMove, LeadMove, Zenon DEF ElectionInv
<1>9. GrantReported'
  BY <1>1, <1>2, <1>3, <1>4, SMTT(20) DEF ElectionInv, GrantReported
<1>10. CountedGranted'
  <2> SUFFICES ASSUME NEW c \in voteCalls', c.phase # "orphan"
               PROVE  /\ mode'[c.from] # "down" /\ c.Term <= currentTerm[c.from]
                      /\ c.Term = currentTerm[c.from] => \A v \in voteNum[c.from] : Grant(c.Term, v, c.from)
    BY <1>1, <1>4, Zenon DEF CountedGranted
  <2>1. c \in voteCalls /\ c.from # s
    BY <1>2, <1>3, Zenon
  <2>2. c.from \in Server
    BY <1>1, <2>1, VoteCallFields, Zenon DEF TypeOK
  <2> QED BY <1>2, <2>1, <2>2, Zenon DEF ElectionInv, CountedGranted
<1>11. CountReset'
  <2>1. \A c \in voteCalls' : c.from # c.to
    BY <1>2, <1>3, Zenon DEF ElectionInv, CountReset
  <2> QED BY <1>1, <2>1, Zenon DEF ElectionInv, CountReset, Majority
<1> QED BY <1>8, <1>9, <1>10, <1>11, Zenon DEF ElectionInv

\* A restart from what was saved keeps ElectionInv.
LEMMA Electionstart1 ==
  ASSUME Quorums, TypeInv, TypeInv', ElectionInv, NEW s \in Server, start1(s)
  PROVE  ElectionInv'
<1>1. /\ TypeOK /\ UNCHANGED <<persisted, voteCalls, voteNum, granted, elected, appendCalls, snapCalls>>
  BY Zenon DEF TypeInv, start1, voteVars, appendVars
<1>2. /\ currentTerm'[s] = persisted[s].currentTerm /\ voteFor'[s] = persisted[s].voteFor
      /\ myStatus'[s] = "Follower" /\ mode[s] = "down"
      /\ \A p \in Server \ {s} : mode'[p] = mode[p]
      /\ Elsewhere(s)
  BY <1>1, Zenon DEF start1, Elsewhere, TypeOK, ElectType, ModeType
<1>3. ElectionSafety' /\ VoteKept' /\ LeaderQuorum'
  BY <1>1, Zenon DEF ElectionInv, ElectionSafety, VoteKept, LeaderQuorum, Majority, Supporters, Kept,
              Grant, HasLeader
<1>4. VoteSaved'
  <2> SUFFICES ASSUME NEW p \in Server
               PROVE  /\ persisted[p].currentTerm <= currentTerm'[p]
                      /\ \/ /\ persisted[p].currentTerm = currentTerm'[p]
                            /\ persisted[p].voteFor = voteFor'[p]
                         \/ /\ voteFor'[p] # None
                            /\ Lead(currentTerm'[p], voteFor'[p])
    BY <1>1, Zenon DEF VoteSaved, Lead
  <2>1. persisted[s].currentTerm \in Nat
    BY <1>1, ElectTypes, Zenon
  <2> QED BY <1>2, <2>1, SMTT(30) DEF ElectionInv, VoteSaved, Elsewhere
<1>5. OnlyElectedLead'
  BY <1>1, <1>2, LeadMove, Zenon DEF LeadersKin, ElectionInv, OnlyElectedLead
<1>6. \A t, v, x : Grant(t, v, x) <=> Grant(t, v, x)'
  BY <1>1, Zenon DEF Grant
<1>7. GrantReported'
  BY <1>1, <1>6, Zenon DEF ElectionInv, GrantReported
<1>8. CountedGranted'
  <2> SUFFICES ASSUME NEW c \in voteCalls, c.phase # "orphan"
               PROVE  /\ mode'[c.from] # "down" /\ c.Term <= currentTerm'[c.from]
                      /\ c.Term = currentTerm'[c.from] => \A v \in voteNum[c.from] : Grant(c.Term, v, c.from)
    BY <1>1, <1>6, Zenon DEF CountedGranted
  <2>1. c.from \in Server /\ c.from # s
    BY <1>1, <1>2, VoteCallFields, Zenon DEF TypeOK, ElectionInv, CountedGranted
  <2> QED BY <1>2, <2>1, Zenon DEF ElectionInv, CountedGranted, Elsewhere
<1>9. CountReset'
  BY <1>1, Zenon DEF ElectionInv, CountReset, Majority
<1> QED BY <1>3, <1>4, <1>5, <1>7, <1>8, <1>9, Zenon DEF ElectionInv

-----------------------------------------------------------------------------
\* ElectionInv holds initially: nobody has voted.
LEMMA ElectionInit == Quorums /\ Init => ElectionInv
<1> SUFFICES ASSUME Quorums, Init PROVE ElectionInv
  OBVIOUS
<1>1. \A s \in Server : /\ voteNum[s] = {} /\ currentTerm[s] = 0 /\ voteFor[s] = None
                        /\ persisted[s].currentTerm = 0 /\ persisted[s].voteFor = None
                        /\ myStatus[s] = "Follower"
  BY Zenon DEF Init
<1>2. /\ voteCalls = {} /\ appendCalls = {} /\ snapCalls = {} /\ granted = {} /\ elected = {}
  BY Zenon DEF Init
<1>3. VoteSaved
  BY <1>1 DEF VoteSaved
<1>4. CountReset
  BY <1>1, <1>2, Zenon DEF CountReset, Quorums
<1> QED BY <1>1, <1>2, <1>3, <1>4, Zenon DEF ElectionInv, ElectionSafety, VoteKept, LeaderQuorum, GrantReported, CountedGranted,
           OnlyElectedLead

\* A stuttering step keeps ElectionInv.
LEMMA ElectionUnchanged == ElectionInv /\ UNCHANGED vars => ElectionInv'
<1> SUFFICES ASSUME ElectionInv, UNCHANGED vars PROVE ElectionInv'
  OBVIOUS
<1>1. UNCHANGED <<currentTerm, voteFor, myStatus, mode, persisted, voteCalls, voteNum, granted,
                  elected, appendCalls, snapCalls>>
  BY Zenon DEF vars, electVars, voteVars, appendVars
<1>2. ElectionSafety' /\ VoteSaved' /\ VoteKept' /\ LeaderQuorum'
  BY <1>1, Zenon DEF ElectionInv, ElectionSafety, VoteSaved, VoteKept, LeaderQuorum, Majority,
              Supporters, Kept, Grant, Lead, HasLeader
<1>3. GrantReported' /\ CountedGranted' /\ CountReset' /\ OnlyElectedLead'
  BY <1>1, Zenon DEF ElectionInv, GrantReported, CountedGranted, CountReset, OnlyElectedLead,
              Majority, Grant, Lead
<1> QED BY <1>2, <1>3, Zenon DEF ElectionInv

\* ElectionInv is inductive relative to the type invariant.
LEMMA ElectionNext == Quorums /\ TypeInv /\ TypeInv' /\ ElectionInv /\ [Next]_vars => ElectionInv'
<1> SUFFICES ASSUME Quorums, TypeInv, TypeInv', ElectionInv, [Next]_vars PROVE ElectionInv'
  OBVIOUS
<1>1. ASSUME NEW s \in Server, ServerStep(s) PROVE ElectionInv'
  BY <1>1, ElectionTickerElection, ElectionTickerHeartbeat, ElectionStart, ElectionService,
     ElectionKill, Electionstart1, Zenon DEF ServerStep, crash1
<1>2. ASSUME NEW c \in voteCalls, VoteStep(c) PROVE ElectionInv'
  BY <1>2, ElectionRequestVote, ElectionSendRequestVote, ElectionSendRequestVoteCount, Zenon DEF VoteStep
<1>3. ASSUME NEW c \in appendCalls, AppendStep(c) PROVE ElectionInv'
  <2>1. c.to \in Server
    BY AppendCallFields, Zenon DEF TypeInv, TypeOK
  <2> QED BY <1>3, <2>1, ElectionAppendEntries, ElectionSendAppendEntries, ElectionKill, Zenon
          DEF AppendStep, CrashInAppendEntries
<1>4. ASSUME NEW c \in snapCalls, SnapStep(c) PROVE ElectionInv'
  BY <1>4, ElectionInstallSnapshot, ElectionSendInstallSnapshot, Zenon DEF SnapStep
<1> QED BY <1>1, <1>2, <1>3, <1>4, ElectionLoseReply, ElectionUnchanged, Zenon DEF Next

=============================================================================
