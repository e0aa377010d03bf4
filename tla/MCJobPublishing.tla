-------------------------- MODULE MCJobPublishing --------------------------
(* Instances of JobPublishing for TLC.                                     *)
EXTENDS JobPublishing, TLC

SlotSymmetry == Permutations(Requests) \cup Permutations(Attempts)

\* For the status alone: no action reads the topic or, once it has committed,
\* its copy of the row; the skills only follow the keywords.
Shown(row) ==
    IF row = None THEN None
    ELSE <<row.status, row.description, row.structured_content, row.extracted_keywords>>

StatusView ==
    <<[j \in Jobs |-> Shown(jobs[j])], used, workflow, faults, contested,
      [r \in Requests |->
          IF request[r] = None THEN None
          ELSE <<request[r].op, request[r].job, request[r].patch, request[r].step,
                 IF request[r].step = "commit" THEN Shown(request[r].row) ELSE None>>],
      [a \in Attempts |->
          IF attempt[a] = None THEN None
          ELSE <<attempt[a].job, attempt[a].activity, attempt[a].step, attempt[a].awaited,
                 IF attempt[a].step = "commit" THEN Shown(attempt[a].row) ELSE None>>]>>

\* What recruiters send: a new text.
TextPatches == {[description |-> d, required_skills |-> None] : d \in Descriptions}

=============================================================================
