---------------------------- MODULE MCMapReduce ----------------------------
(***************************************************************************)
(* Two input files, two reduce tasks: the first map task has keys for both *)
(* reduce tasks, the second only for the second.                           *)
(***************************************************************************)
EXTENDS MapReduce

Keys == [m \in MapIndex |-> IF m = 0 THEN ReduceIndex ELSE {NReduce - 1}]

=============================================================================
