---------------------------- MODULE MapReduceJob ----------------------------
(***************************************************************************)
(* What a MapReduce job promises to its user (mrcoordinator's Done() and   *)
(* the files mr-out-r): output files appear one by one, each with the      *)
(* whole result from the start and for ever, and the job is done only when *)
(* all of them are there.  Workers, attempts and stages are not visible.   *)
(***************************************************************************)
CONSTANTS ReduceIndex, NoFile, Result(_)

VARIABLES output, done

JobInit == output = [r \in ReduceIndex |-> NoFile] /\ done = FALSE

Publish(r) ==
  /\ ~ done /\ output[r] = NoFile
  /\ output' = [output EXCEPT ![r] = Result(r)]
  /\ UNCHANGED done

Finish ==
  /\ ~ done /\ \A r \in ReduceIndex : output[r] = Result(r)
  /\ done' = TRUE
  /\ UNCHANGED output

JobNext == Finish \/ \E r \in ReduceIndex : Publish(r)

JobSpec == JobInit /\ [][JobNext]_<<output, done>>

=============================================================================
