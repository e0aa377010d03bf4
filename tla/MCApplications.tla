--------------------------- MODULE MCApplications ---------------------------
(* Instances of Applications for TLC.                                      *)
EXTENDS Applications, TLC

\* Request slots run the same code, and all jobs are alike.
RequestJobSymmetry == Permutations(Requests) \cup Permutations(Jobs)

\* What moves rows: no action reads the topic, what was ever committed or an
\* answer given, and an Idempotency-Key only chooses between two answers.
Asked == [r \in Requests |->
    IF call[r] = None THEN None ELSE <<call[r].op, call[r].pair, call[r].target>>]

RowView == <<applications, jobRefs, candidateRefs, pc, Asked, loaded, raced, crowd>>

=============================================================================
