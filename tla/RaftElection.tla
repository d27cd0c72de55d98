---------------------------- MODULE RaftElection ----------------------------
(***************************************************************************)
(* Why at most one leader is elected per term: the inductive invariant     *)
(* behind ElectionSafety of Raft.tla.                                      *)
(*                                                                         *)
(* The usual argument (a server votes once per term) does not hold for     *)
(* raft.go: AppendEntries and InstallSnapshot overwrite voteFor with the   *)
(* leader of the request, and InstallSnapshot does not persist it, so a    *)
(* server can vote twice in one term, before and after a crash.  It can do *)
(* so only in a term that already has a leader, and the quorum of that     *)
(* leader stays closed.                                                    *)
(***************************************************************************)
EXTENDS Raft

Grant(t, v, c) == [term |-> t, voter |-> v, cand |-> c] \in granted
Lead(t, s) == [term |-> t, leader |-> s] \in elected
HasLeader(t) == \E e \in elected : e.term = t

\* Server v can no longer be restarted into a state that votes in term t for
\* anybody but c.
Kept(v, t, c) ==
  \/ persisted[v].currentTerm > t
  \/ persisted[v].currentTerm = t /\ persisted[v].voteFor = c

\* The term in memory is never behind the saved one, and a vote that differs from
\* the saved one is for a leader (InstallSnapshot).
VoteSaved ==
  \A s \in Server :
    /\ persisted[s].currentTerm <= currentTerm[s]
    /\ \/ /\ persisted[s].currentTerm = currentTerm[s]
          /\ persisted[s].voteFor = voteFor[s]
       \/ /\ voteFor[s] # None
          /\ Lead(currentTerm[s], voteFor[s])

\* As long as a term has no leader, a server that voted in it keeps that vote
\* over every restart, and gave no other.
VoteKept ==
  \A g \in granted : ~ HasLeader(g.term) =>
    /\ Kept(g.voter, g.term, g.cand)
    /\ \A d \in Server : Grant(g.term, g.voter, d) => d = g.cand

\* The servers that have voted in term t for a and keep to it, over every restart.
Supporters(t, a) ==
  {v \in Server : Kept(v, t, a) /\ \A d \in Server : Grant(t, v, d) => d = a}

\* A leader has the support of a majority.
LeaderQuorum ==
  \A e \in elected : Majority(Supporters(e.term, e.leader))

\* A reply that grants a vote is about the term of its request, and the vote was given.
GrantReported ==
  \A c \in voteCalls : c.phase \in {"replied", "passed"} /\ c.reply.VoteGranted =>
    c.reply.Term = c.Term /\ Grant(c.Term, c.to, c.from)

\* The counter of an election counts votes of that election; goroutines of older
\* ones are behind the term, those of a killed server are gone.
CountedGranted ==
  \A c \in voteCalls : c.phase # "orphan" =>
    /\ mode[c.from] # "down"
    /\ c.Term <= currentTerm[c.from]
    /\ c.Term = currentTerm[c.from] => \A v \in voteNum[c.from] : Grant(c.Term, v, c.from)

\* A counter that has passed half is reset, and nobody sends itself a request.
CountReset ==
  /\ \A s \in Server : Majority(voteNum[s]) => Server = {s}
  /\ \A c \in voteCalls : c.from # c.to

\* Only elected servers lead, and send requests of their term.
OnlyElectedLead ==
  /\ \A s \in Server : myStatus[s] = "Leader" => Lead(currentTerm[s], s)
  /\ \A c \in appendCalls \union snapCalls : Lead(c.Term, c.from)

\* The inductive invariant of elections, over TypeOK: ElectionSafety, and what of
\* votes, counters, saved states and requests under way keeps it.
ElectionInv ==
  /\ ElectionSafety /\ VoteSaved /\ VoteKept /\ LeaderQuorum
  /\ GrantReported /\ CountedGranted /\ CountReset /\ OnlyElectedLead

=============================================================================
