---------------------------- MODULE JobLifecycle ----------------------------
(***************************************************************************)
(* What the jobs service promises about the status of a job, without       *)
(* requests, runs and attempts.  With `contested` always empty this is the *)
(* documented life cycle; a job on which two writers of the status have    *)
(* met may have any status a job can have.                                 *)
(***************************************************************************)
CONSTANT Jobs     \* job ids

VARIABLES
    status,       \* per job; "unused" before it is created, "gone" after
    contested     \* the jobs on which two writers of the status have met

Init ==
    /\ status = [j \in Jobs |-> "unused"]
    /\ contested = {}

Turn(j, from, to) ==
    /\ status[j] \in from
    /\ status' = [status EXCEPT ![j] = to]
    /\ UNCHANGED contested

Create(j) == Turn(j, {"unused"}, "draft")

\* A failed job may be published again.
Publish(j) == Turn(j, {"draft", "failed"}, "processing")

Finish(j) == Turn(j, {"processing"}, "ready") \/ Turn(j, {"processing"}, "failed")

Live == {"draft", "processing", "ready", "failed"}

Delete(j) == Turn(j, Live, "gone")

\* Two writers meet on j, or the later one overwrites what the other wrote.
Contest(j) ==
    /\ contested' = contested \cup {j}
    /\ \/ UNCHANGED status
       \/ /\ status[j] \in Live
          /\ \E to \in Live : status' = [status EXCEPT ![j] = to]

Next == \E j \in Jobs : Create(j) \/ Publish(j) \/ Finish(j) \/ Delete(j) \/ Contest(j)

Spec == Init /\ [][Next]_<<status, contested>>

=============================================================================
