------------------------------- MODULE MCRaft -------------------------------
(* Instances of Raft for TLC: interchangeable servers. *)
EXTENDS RaftElection, TLC

Symmetry == Permutations(Server)

=============================================================================
