-------------------------- MODULE MCCandidateSync --------------------------
(* Instances of CandidateSync for TLC.                                     *)
EXTENDS CandidateSync, TLC

=============================================================================
