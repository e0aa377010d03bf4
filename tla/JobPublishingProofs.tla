------------------------ MODULE JobPublishingProofs ------------------------
(***************************************************************************)
(* Proofs about JobPublishing, for any number of jobs, requests, attempts  *)
(* and faults: attempts that time out and go on are included.              *)
(*                                                                         *)
(* That a ready job has both outputs rests on three facts.  Outputs stay:  *)
(* no flush empties a column that was filled, however old the copy it is   *)
(* computed from (OutputsStay).  The run advances only on the attempt it   *)
(* waits for, and that is one of its current activity (OneAwaited).  So    *)
(* what a stage of the run stands for has been written, and whoever is     *)
(* about to write "ready" comes after both outputs (Progress).             *)
(***************************************************************************)
EXTENDS JobPublishing, TLAPS

\* A process past its load holds a row, and an update its patch.
RowsAtHand ==
    /\ \A r \in Requests : request[r] # None =>
          /\ request[r].op = "update" => request[r].patch \in AllPatches
          /\ request[r].step \in {"load", "commit"} => request[r].op # "create"
          /\ request[r].step = "commit" => request[r].row \in Rows
          /\ request[r].step = "announce" /\ request[r].op # "delete" =>
                request[r].row \in Rows
    /\ \A a \in Attempts : attempt[a] # None =>
          /\ attempt[a].step # "load" => attempt[a].row \in Rows
          /\ attempt[a].step = "announce" => attempt[a].activity \in {"mark_ready", "mark_failed"}

Awaited(a) == attempt[a] # None /\ attempt[a].awaited

\* The workflow waits for at most one attempt per job, of its current activity.
OneAwaited ==
    \A a \in Attempts : Awaited(a) =>
        /\ workflow[attempt[a].job].stage = attempt[a].activity
        /\ \A b \in Attempts : Awaited(b) /\ attempt[b].job = attempt[a].job => b = a

TInv == TypeOK /\ RowsAtHand /\ OneAwaited

Broken(j) == jobs[j] # None => jobs[j].structured_content # None
Extracted(j) == jobs[j] # None => jobs[j].extracted_keywords # None

\* Nobody is at work on a job that was never created.
KnownJobs ==
    /\ \A j \in Jobs : jobs[j] # None \/ workflow[j].stage # "none" => j \in used
    /\ \A r \in Requests : request[r] # None /\ request[r].step # "load" =>
          request[r].job \in used
    /\ \A a \in Attempts : attempt[a] # None => attempt[a].job \in used

\* What has been written by the time a run, or an attempt, is where it is.
Progress ==
    /\ \A j \in Jobs :
          /\ workflow[j].stage \in {"extract", "mark_ready", "ready"} => Broken(j)
          /\ workflow[j].stage \in {"mark_ready", "ready"} => Extracted(j)
    /\ \A a \in Attempts : attempt[a] # None =>
          /\ attempt[a].activity = "mark_ready" =>
                Broken(attempt[a].job) /\ Extracted(attempt[a].job)
          /\ attempt[a].step # "load" =>
                /\ attempt[a].row.structured_content # None => Broken(attempt[a].job)
                /\ attempt[a].row.extracted_keywords # None => Extracted(attempt[a].job)

IInv == TInv /\ KnownJobs /\ Progress /\ ReadyIsComplete

-----------------------------------------------------------------------------
(* Type correctness.                                                       *)

LEMMA MergeIsRow ==
    ASSUME NEW current \in Rows, NEW row \in Rows, NEW new \in Rows
    PROVE  Merge(current, row, new) \in Rows
BY DEF Merge, Written, Rows

LEMMA FlushKeepsType ==
    ASSUME TypeOK, NEW j \in Jobs, NEW row \in Rows, NEW new \in Rows,
           Flush(j, row, new)
    PROVE  jobs' \in [Jobs -> Rows \cup {None}]
<1>1. jobs[j] # None => Merge(jobs[j], row, new) \in Rows
  BY MergeIsRow DEF TypeOK
<1> QED
  BY <1>1 DEF Flush, TypeOK

LEMMA UpdatedIsRow ==
    ASSUME NEW row \in Rows, NEW patch \in AllPatches
    PROVE  Updated(row, patch) \in Rows
BY DEF Updated, Rows, AllPatches, Skills

LEMMA ProcessedIsRow ==
    ASSUME NEW row \in Rows, NEW activity \in Activities
    PROVE  Processed(activity, row) \in Rows
<1>1. CASE activity = "breakdown"
  BY <1>1 DEF Processed, Rows
<1>2. CASE activity = "extract"
  BY <1>2 DEF Processed, Rows, Skills
<1>3. CASE activity \in {"mark_ready", "mark_failed"}
  BY <1>3 DEF Processed, Rows, JobStatus
<1> QED
  BY <1>1, <1>2, <1>3 DEF Activities

\* The variables of the API and the bookkeeping are typed whatever happens to
\* the runs and attempts.
TablesOK ==
    /\ jobs \in [Jobs -> Rows \cup {None}]
    /\ used \subseteq Jobs
    /\ lastEvent \in [Jobs -> JobStatus \cup {"deleted", None}]
    /\ faults \in 0..MaxFaults
    /\ contested \subseteq Jobs

\* A request that goes on, or ends, with what it is entitled to hold.
LEMMA RequestKeepsType ==
    ASSUME TInv, NEW r \in Requests, NEW x \in ApiRequests \cup {None},
           request' = [request EXCEPT ![r] = x],
           x # None =>
              /\ x.op = "update" => x.patch \in AllPatches
              /\ x.step \in {"load", "commit"} => x.op # "create"
              /\ x.step = "commit" => x.row \in Rows
              /\ x.step = "announce" /\ x.op # "delete" => x.row \in Rows,
           TablesOK', UNCHANGED <<workflow, attempt>>
    PROVE  TInv'
<1>1. TypeOK'
  BY DEF TInv, TypeOK, TablesOK
<1>2. RowsAtHand'
  BY DEF TInv, TypeOK, RowsAtHand
<1>3. OneAwaited'
  BY DEF TInv, OneAwaited, Awaited
<1> QED
  BY <1>1, <1>2, <1>3 DEF TInv

\* What the end of an attempt makes of its run.
LEMMA EndsKeepType ==
    ASSUME TInv, NEW a \in Attempts, attempt[a] # None, EndWell(a) \/ EndBadly(a),
           TablesOK', UNCHANGED request
    PROVE  TInv'
<1> DEFINE j == attempt[a].job
           Runs == [stage: Activities \cup Ended \cup {"none"}, failures: 0..(MaxAttempts - 1)]
<1>1. attempt[a] \in ActivityAttempts /\ j \in Jobs /\ attempt[a].activity \in Activities
  BY DEF TInv, TypeOK, ActivityAttempts
<1>2. workflow[j] \in Runs
  BY <1>1 DEF TInv, TypeOK
<1>3. attempt' = [attempt EXCEPT ![a] = None]
  BY DEF EndWell, EndBadly, End
<1>4. attempt[a].awaited => workflow[j].stage = attempt[a].activity
  BY DEF TInv, OneAwaited, Awaited
<1>5. \/ UNCHANGED workflow
      \/ attempt[a].awaited /\ \E run \in Runs : workflow' = [workflow EXCEPT ![j] = run]
  <2>1. CASE attempt[a].awaited /\ Succeeded(j)
    <3>1. AfterSuccess(workflow[j].stage) \in Activities \cup Ended
      BY <1>1, <1>4, <2>1 DEF AfterSuccess, Activities, Ended
    <3>2. [stage |-> AfterSuccess(workflow[j].stage), failures |-> 0] \in Runs
      BY <3>1, MaxAttemptsAssumption
    <3> QED
      BY <2>1, <3>2 DEF Succeeded
  <2>2. CASE attempt[a].awaited /\ FailedOnce(j)
    <3>1. AfterFailure(workflow[j]) \in Runs
      BY <1>2, MaxAttemptsAssumption DEF AfterFailure, Activities
    <3> QED
      BY <2>2, <3>1 DEF FailedOnce
  <2> QED
    BY <2>1, <2>2 DEF EndWell, EndBadly
<1>6. workflow' \in [Jobs -> Runs]
  BY <1>1, <1>5 DEF TInv, TypeOK
<1>7. TypeOK'
  BY <1>3, <1>6 DEF TInv, TypeOK, TablesOK
<1>8. RowsAtHand'
  BY <1>3 DEF TInv, TypeOK, RowsAtHand
<1>9. OneAwaited'
  <2> SUFFICES ASSUME NEW b \in Attempts, Awaited(b)'
               PROVE  /\ workflow'[attempt'[b].job].stage = attempt'[b].activity
                      /\ \A c \in Attempts : Awaited(c)' /\ attempt'[c].job = attempt'[b].job => c = b
    BY DEF OneAwaited
  <2>1. b # a /\ attempt'[b] = attempt[b] /\ Awaited(b)
    BY <1>3 DEF Awaited, TInv, TypeOK
  <2>2. \A c \in Attempts : Awaited(c)' => Awaited(c) /\ attempt'[c] = attempt[c]
    BY <1>3 DEF Awaited, TInv, TypeOK
  <2>3. attempt[a].awaited => attempt[b].job # j
    BY <2>1 DEF TInv, OneAwaited, Awaited
  <2>4. attempt[b].job \in Jobs
    BY <2>1 DEF Awaited, TInv, TypeOK, ActivityAttempts
  <2>5. workflow'[attempt[b].job] = workflow[attempt[b].job]
    BY <1>1, <1>5, <2>3, <2>4 DEF TInv, TypeOK
  <2> QED
    BY <2>1, <2>2, <2>5 DEF TInv, OneAwaited
<1> QED
  BY <1>7, <1>8, <1>9 DEF TInv

LEMMA TypeInit == Init => TInv
BY MaxFaultsAssumption, MaxAttemptsAssumption
DEF Init, TInv, TypeOK, RowsAtHand, OneAwaited, Awaited

\* What is known of a request in flight.
LEMMA RequestType ==
    ASSUME TInv, NEW r \in Requests, request[r] # None
    PROVE  /\ request[r] \in ApiRequests
           /\ request[r].job \in Jobs
           /\ request[r].op \in {"create", "update", "publish", "delete"}
           /\ request[r].op = "update" => request[r].patch \in AllPatches
           /\ jobs[request[r].job] \in Rows \cup {None}
BY DEF TInv, TypeOK, ApiRequests, RowsAtHand

LEMMA ApiKeepsType ==
    ASSUME TInv, NEW r \in Requests, Api(r)
    PROVE  TInv'
<1> DEFINE q == request[r]
           j == q.job
<1>1. TablesOK
  BY DEF TInv, TypeOK, TablesOK
<1>2. AnswerTo(r) /\ TablesOK' /\ UNCHANGED <<workflow, attempt>> => TInv'
  BY RequestKeepsType DEF AnswerTo
<1>3. q # None
  BY DEF Api, LoadJob, CommitJob, DeleteJob, RefreshJob, AnnounceJob, StartWorkflow, StartFails, At
<1>4. /\ q \in ApiRequests /\ j \in Jobs
      /\ q.op \in {"create", "update", "publish", "delete"}
      /\ q.op = "update" => q.patch \in AllPatches
      /\ jobs[j] \in Rows \cup {None}
  BY <1>3, RequestType
<1>5. ASSUME NEW row \in Rows, NEW step \in {"commit", "announce"},
             step = "commit" => q.op # "create",
             request' = [request EXCEPT ![r].row = row, ![r].step = step],
             TablesOK', UNCHANGED <<workflow, attempt>>
      PROVE  TInv'
  <2> DEFINE x == [q EXCEPT !.row = row, !.step = step]
  <2>1. request' = [request EXCEPT ![r] = x]
    BY <1>4, <1>5 DEF TInv, TypeOK, ApiRequests
  <2>2. /\ x \in ApiRequests /\ x.op = q.op /\ x.patch = q.patch
        /\ x.row = row /\ x.step = step
    BY <1>4 DEF ApiRequests
  <2> HIDE DEF x
  <2> QED
    BY <1>4, <1>5, <2>1, <2>2, RequestKeepsType
<1>6. ASSUME NEW step \in {"refresh", "announce", "start"}, Step(r, step),
             step = "announce" => q.op = "delete",
             TablesOK', UNCHANGED <<workflow, attempt>>
      PROVE  TInv'
  <2> DEFINE x == [q EXCEPT !.step = step]
  <2>1. request' = [request EXCEPT ![r] = x]
    BY <1>4, <1>6 DEF Step, TInv, TypeOK, ApiRequests
  <2>2. /\ x \in ApiRequests /\ x.op = q.op /\ x.patch = q.patch
        /\ x.row = q.row /\ x.step = step
    BY <1>4 DEF ApiRequests
  <2> HIDE DEF x
  <2> QED
    BY <1>4, <1>6, <2>1, <2>2, RequestKeepsType
<1>7. CASE LoadJob(r)
  <2>1. TablesOK'
    BY <1>1, <1>4, <1>7 DEF LoadJob, TablesOK
  <2>2. CASE AnswerTo(r)
    BY <1>2, <1>7, <2>1, <2>2 DEF LoadJob
  <2>3. CASE /\ jobs[j] # None
             /\ request' = [request EXCEPT ![r].row = jobs[j], ![r].step = "commit"]
    <3>1. q.op # "create"
      BY <1>7, <1>3 DEF LoadJob, At, TInv, RowsAtHand
    <3> QED
      BY <1>4, <1>5, <1>7, <2>1, <2>3, <3>1 DEF LoadJob
  <2> QED
    BY <1>7, <2>2, <2>3 DEF LoadJob
<1>8. CASE CommitJob(r)
  <2> DEFINE new == IF q.op = "publish" THEN [q.row EXCEPT !.status = "processing"]
                    ELSE Updated(q.row, q.patch)
  <2>1. q.row \in Rows /\ q.op \in {"update", "publish"}
    BY <1>3, <1>4, <1>8 DEF CommitJob, At, TInv, RowsAtHand
  <2>2. new \in Rows
    <3>1. CASE q.op = "publish"
      BY <2>1, <3>1 DEF Rows, JobStatus
    <3>2. CASE q.op = "update"
      BY <1>4, <2>1, <3>2, UpdatedIsRow
    <3> QED
      BY <2>1, <3>1, <3>2
  <2> HIDE DEF new
  <2>3. \/ Flush(j, q.row, new) /\ Step(r, "refresh")
        \/ AnswerTo(r) /\ UNCHANGED jobs
    BY <1>8 DEF CommitJob, new
  <2>4. TablesOK'
    BY <1>1, <1>4, <1>8, <2>1, <2>2, <2>3, FlushKeepsType DEF CommitJob, apiOthers, TablesOK, TInv
  <2> QED
    BY <1>2, <1>6, <1>8, <2>3, <2>4 DEF CommitJob, apiOthers
<1>9. CASE DeleteJob(r)
  <2>1. TablesOK'
    BY <1>1, <1>4, <1>9 DEF DeleteJob, apiOthers, TablesOK
  <2> QED
    BY <1>6, <1>9, <2>1 DEF DeleteJob, apiOthers
<1>10. CASE RefreshJob(r)
  <2>1. CASE AnswerTo(r)
    BY <1>1, <1>2, <1>10, <2>1 DEF RefreshJob, apiOthers, TablesOK
  <2>2. CASE /\ jobs[j] # None
             /\ request' = [request EXCEPT ![r].row = jobs[j], ![r].step = "announce"]
    <3>1. TablesOK'
      BY <1>1, <1>10 DEF RefreshJob, apiOthers, TablesOK
    <3> QED
      BY <1>4, <1>5, <1>10, <2>2, <3>1 DEF RefreshJob, apiOthers
  <2> QED
    BY <1>10, <2>1, <2>2 DEF RefreshJob
<1>11. CASE AnnounceJob(r)
  <2>1. q.op # "delete" => q.row \in Rows /\ q.row.status \in JobStatus
    BY <1>3, <1>11 DEF AnnounceJob, At, TInv, RowsAtHand, Rows
  <2>2. TablesOK'
    BY <1>1, <1>4, <1>11, <2>1 DEF AnnounceJob, Announce, apiOthers, TablesOK
  <2> QED
    BY <1>2, <1>6, <1>11, <2>2 DEF AnnounceJob, apiOthers
<1>12. CASE StartFails(r)
  BY <1>1, <1>2, <1>12 DEF StartFails, apiOthers, TablesOK
<1>13. CASE StartWorkflow(r)
  <2>1. [stage |-> "breakdown", failures |-> 0] \in
            [stage: Activities \cup Ended \cup {"none"}, failures: 0..(MaxAttempts - 1)]
    BY MaxAttemptsAssumption DEF Activities
  <2>2. TypeOK'
    BY <1>4, <1>13, <2>1 DEF StartWorkflow, AnswerTo, TInv, TypeOK
  <2>3. RowsAtHand'
    BY <1>13 DEF StartWorkflow, AnswerTo, TInv, TypeOK, RowsAtHand
  <2>4. \A a \in Attempts : Awaited(a) =>
            /\ workflow[attempt[a].job].stage \in Activities
            /\ attempt[a].job \in Jobs
    BY DEF TInv, TypeOK, OneAwaited, Awaited, ActivityAttempts
  <2>5. \A a \in Attempts : Awaited(a) =>
            workflow'[attempt[a].job] = workflow[attempt[a].job]
    BY <1>4, <1>13, <2>4 DEF StartWorkflow, TInv, TypeOK
  <2>6. OneAwaited'
    BY <1>13, <2>5 DEF StartWorkflow, TInv, OneAwaited, Awaited
  <2> QED
    BY <2>2, <2>3, <2>6 DEF TInv
<1> QED
  BY <1>7, <1>8, <1>9, <1>10, <1>11, <1>12, <1>13 DEF Api

LEMMA CreateKeepsType ==
    ASSUME TInv, NEW r \in Requests, NEW j \in Jobs, NEW d \in Descriptions,
           NEW skills \in SUBSET {"asked"}, CreateJob(r, j, d, skills)
    PROVE  TInv'
<1> DEFINE row == [status |-> "draft", description |-> d,
                   structured_content |-> None, extracted_keywords |-> None,
                   required_skills |-> skills]
           x == [op |-> "create", job |-> j, patch |-> None, step |-> "refresh", row |-> row]
<1>1. row \in Rows
  BY DEF Rows, JobStatus, Skills
<1> HIDE DEF row
<1>2. x \in ApiRequests /\ x.op = "create" /\ x.step = "refresh"
  BY <1>1 DEF ApiRequests
<1> HIDE DEF x
<1>3. request' = [request EXCEPT ![r] = x] /\ jobs' = [jobs EXCEPT ![j] = row]
  BY DEF CreateJob, row, x
<1>4. TablesOK'
  BY <1>1, <1>3 DEF CreateJob, TInv, TypeOK, TablesOK
<1> QED
  BY <1>2, <1>3, <1>4, RequestKeepsType DEF CreateJob

LEMMA ReceiveKeepsType ==
    ASSUME TInv, NEW r \in Requests, NEW j \in Jobs, ReceiveCall(r, j)
    PROVE  TInv'
<1>1. PICK op \in {"update", "publish", "delete"}, patch \in AllPatches \cup {None} :
          /\ Receive(r, op, j, patch, "load")
          /\ op = "update" => patch \in AllPatches
  BY PatchesAssumption DEF ReceiveCall
<1> DEFINE x == [op |-> op, job |-> j, patch |-> patch, step |-> "load", row |-> None]
<1>2. x \in ApiRequests /\ x.op = op /\ x.patch = patch /\ x.step = "load"
  BY DEF ApiRequests
<1>3. request' = [request EXCEPT ![r] = x]
  BY <1>1 DEF Receive
<1> HIDE DEF x
<1>4. TablesOK'
  BY DEF ReceiveCall, apiOthers, TInv, TypeOK, TablesOK
<1> QED
  BY <1>1, <1>2, <1>3, <1>4, RequestKeepsType DEF ReceiveCall, apiOthers

\* An attempt that moves on, or is given up, while its run stays where it is
\* or loses interest.
LEMMA AttemptKeepsType ==
    ASSUME TInv, NEW a \in Attempts, NEW x \in ActivityAttempts,
           attempt' = [attempt EXCEPT ![a] = x],
           x.step # "load" => x.row \in Rows,
           x.step = "announce" => x.activity \in {"mark_ready", "mark_failed"},
           x.awaited =>
              /\ workflow[x.job].stage = x.activity
              /\ \A b \in Attempts : Awaited(b) /\ attempt[b].job = x.job => b = a,
           TablesOK', UNCHANGED <<workflow, request>>
    PROVE  TInv'
<1>1. TypeOK'
  BY DEF TInv, TypeOK, TablesOK
<1>2. RowsAtHand'
  BY DEF TInv, TypeOK, RowsAtHand
<1>3. OneAwaited'
  BY DEF TInv, TypeOK, OneAwaited, Awaited
<1> QED
  BY <1>1, <1>2, <1>3 DEF TInv

LEMMA ScheduleKeepsType ==
    ASSUME TInv, NEW a \in Attempts, NEW j \in Jobs, Schedule(a, j)
    PROVE  TInv'
<1> DEFINE x == [job |-> j, activity |-> workflow[j].stage, step |-> "load",
                 row |-> None, awaited |-> TRUE]
<1>1. /\ x \in ActivityAttempts /\ x.job = j /\ x.activity = workflow[j].stage
      /\ x.step = "load"
  BY DEF Schedule, ActivityAttempts
<1>2. attempt' = [attempt EXCEPT ![a] = x]
  BY DEF Schedule
<1> HIDE DEF x
<1>3. \A b \in Attempts : Awaited(b) => attempt[b].job # j
  BY DEF Schedule, Awaited
<1>4. TablesOK'
  BY DEF Schedule, workerOthers, TInv, TypeOK, TablesOK
<1>5. UNCHANGED <<workflow, request>>
  BY DEF Schedule, workerOthers
<1>6. \A b \in Attempts : Awaited(b) /\ attempt[b].job = x.job => b = a
  BY <1>1, <1>3
<1>7. x.step # "load" => x.row \in Rows
  BY <1>1
<1> QED
  BY <1>1, <1>2, <1>4, <1>5, <1>6, <1>7, AttemptKeepsType

LEMMA WorkerKeepsType ==
    ASSUME TInv, NEW a \in Attempts,
           Advance(a) \/ ActivityFails(a) \/ Timeout(a) \/ Vanish(a)
    PROVE  TInv'
<1> DEFINE t == attempt[a]
           j == t.job
<1>1. t # None
  BY DEF Advance, LoadActivity, CommitActivity, AnnounceActivity, ActivityFails, Timeout,
         Vanish, AttemptAt
<1>2. /\ t \in ActivityAttempts /\ j \in Jobs /\ t.activity \in Activities
      /\ t.awaited \in BOOLEAN /\ jobs[j] \in Rows \cup {None}
      /\ t.step # "load" => t.row \in Rows
  BY <1>1 DEF TInv, TypeOK, ActivityAttempts, RowsAtHand
<1>3. TablesOK
  BY DEF TInv, TypeOK, TablesOK
<1>4. t.awaited =>
          /\ workflow[j].stage = t.activity
          /\ \A b \in Attempts : Awaited(b) /\ attempt[b].job = j => b = a
  BY <1>1 DEF TInv, OneAwaited, Awaited
<1>5. ASSUME NEW row \in Rows, NEW step \in {"commit", "announce"},
             attempt' = [attempt EXCEPT ![a].row = row, ![a].step = step],
             step = "announce" => t.activity \in {"mark_ready", "mark_failed"},
             TablesOK', UNCHANGED <<workflow, request>>
      PROVE  TInv'
  <2> DEFINE x == [t EXCEPT !.row = row, !.step = step]
  <2>1. attempt' = [attempt EXCEPT ![a] = x]
    BY <1>2, <1>5 DEF TInv, TypeOK, ActivityAttempts
  <2>2. /\ x \in ActivityAttempts /\ x.job = j /\ x.activity = t.activity
        /\ x.awaited = t.awaited /\ x.row = row /\ x.step = step
    BY <1>2 DEF ActivityAttempts
  <2> HIDE DEF x
  <2> QED
    BY <1>4, <1>5, <2>1, <2>2, AttemptKeepsType
<1>6. CASE LoadActivity(a)
  <2>1. TablesOK'
    BY <1>3, <1>6 DEF LoadActivity, workerOthers, TablesOK
  <2>2. CASE EndBadly(a)
    BY <1>1, <1>6, <2>1, <2>2, EndsKeepType DEF LoadActivity, workerOthers
  <2>3. CASE /\ jobs[j] # None
             /\ attempt' = [attempt EXCEPT ![a].row = jobs[j], ![a].step = "commit"]
             /\ UNCHANGED workflow
    BY <1>2, <1>5, <1>6, <2>1, <2>3 DEF LoadActivity, workerOthers
  <2> QED
    BY <1>6, <2>2, <2>3 DEF LoadActivity
<1>7. CASE CommitActivity(a)
  <2> DEFINE new == Processed(t.activity, t.row)
  <2>1. t.row \in Rows /\ new \in Rows
    BY <1>2, <1>7, ProcessedIsRow DEF CommitActivity, AttemptAt
  <2> HIDE DEF new
  <2>2. Flush(j, t.row, new) \/ UNCHANGED jobs
    BY <1>7 DEF CommitActivity, new
  <2>3. TablesOK'
    BY <1>2, <1>3, <1>7, <2>1, <2>2, FlushKeepsType
    DEF CommitActivity, workerOthers, TablesOK, TInv
  <2>4. CASE EndBadly(a) \/ EndWell(a)
    BY <1>1, <1>7, <2>3, <2>4, EndsKeepType DEF CommitActivity, workerOthers
  <2>5. CASE /\ t.activity \in {"mark_ready", "mark_failed"}
             /\ attempt' = [attempt EXCEPT ![a].row = new, ![a].step = "announce"]
             /\ UNCHANGED workflow
    BY <1>5, <1>7, <2>1, <2>3, <2>5 DEF CommitActivity, workerOthers
  <2> QED
    BY <1>7, <2>4, <2>5 DEF CommitActivity, new
<1>8. CASE AnnounceActivity(a)
  <2>1. t.row.status \in JobStatus
    BY <1>2, <1>8 DEF AnnounceActivity, AttemptAt, Rows
  <2>2. TablesOK'
    BY <1>2, <1>3, <1>8, <2>1 DEF AnnounceActivity, Announce, workerOthers, TablesOK
  <2> QED
    BY <1>1, <1>8, <2>2, EndsKeepType DEF AnnounceActivity, workerOthers
<1>9. CASE ActivityFails(a)
  <2> DEFINE new == Processed(t.activity, t.row)
  <2>1. jobs' \in [Jobs -> Rows \cup {None}]
    <3>1. CASE AttemptAt(a, "commit") /\ Flush(j, t.row, new)
      <4>1. t.row \in Rows /\ new \in Rows
        BY <1>2, <3>1, ProcessedIsRow DEF AttemptAt
      <4> HIDE DEF new
      <4> QED
        BY <1>2, <3>1, <4>1, FlushKeepsType DEF TInv
    <3>2. CASE UNCHANGED jobs
      BY <1>3, <3>2 DEF TablesOK
    <3> QED
      BY <1>9, <3>1, <3>2 DEF ActivityFails
  <2>2. contested' \subseteq Jobs
    BY <1>2, <1>3, <1>9 DEF ActivityFails, OutOfSight, TablesOK
  <2>3. TablesOK'
    BY <1>3, <1>9, <2>1, <2>2, MaxFaultsAssumption DEF ActivityFails, TablesOK
  <2> QED
    BY <1>1, <1>9, <2>3, EndsKeepType DEF ActivityFails
<1>10. CASE Timeout(a)
  <2> DEFINE x == [t EXCEPT !.awaited = FALSE]
             Runs == [stage: Activities \cup Ended \cup {"none"}, failures: 0..(MaxAttempts - 1)]
  <2>1. attempt' = [attempt EXCEPT ![a] = x]
    BY <1>2, <1>10 DEF Timeout, TInv, TypeOK, ActivityAttempts
  <2>2. /\ x \in ActivityAttempts /\ x.awaited = FALSE /\ x.row = t.row /\ x.step = t.step
        /\ x.activity = t.activity
    BY <1>2 DEF ActivityAttempts
  <2> HIDE DEF x
  <2>3. workflow[j] \in Runs /\ workflow' = [workflow EXCEPT ![j] = AfterFailure(workflow[j])]
    BY <1>2, <1>10 DEF Timeout, FailedOnce, TInv, TypeOK
  <2>4. AfterFailure(workflow[j]) \in Runs
    BY <2>3, MaxAttemptsAssumption DEF AfterFailure, Activities
  <2>5. TypeOK'
    <3>1. workflow' \in [Jobs -> Runs] /\ attempt' \in [Attempts -> ActivityAttempts \cup {None}]
      BY <2>1, <2>2, <2>3, <2>4 DEF TInv, TypeOK
    <3>2. faults' \in 0..MaxFaults
      BY <1>3, <1>10, MaxFaultsAssumption DEF Timeout, TablesOK
    <3>3. contested' \subseteq Jobs
      BY <1>2, <1>3, <1>10 DEF Timeout, OutOfSight, TablesOK
    <3> QED
      BY <1>10, <3>1, <3>2, <3>3 DEF Timeout, TInv, TypeOK
  <2>6. RowsAtHand'
    BY <1>2, <1>10, <2>1, <2>2 DEF Timeout, TInv, TypeOK, RowsAtHand
  <2>7. \A b \in Attempts : Awaited(b)' =>
            /\ Awaited(b) /\ attempt'[b] = attempt[b]
            /\ attempt[b].job # j /\ attempt[b].job \in Jobs
    BY <1>4, <1>10, <2>1, <2>2 DEF Timeout, Awaited, TInv, TypeOK, ActivityAttempts
  <2>8. OneAwaited'
    BY <2>3, <2>7 DEF TInv, TypeOK, OneAwaited
  <2> QED
    BY <2>5, <2>6, <2>8 DEF TInv
<1>11. CASE Vanish(a)
  <2>1. TypeOK'
    BY <1>11 DEF Vanish, End, workerOthers, TInv, TypeOK
  <2>2. RowsAtHand'
    BY <1>11 DEF Vanish, End, workerOthers, TInv, TypeOK, RowsAtHand
  <2>3. OneAwaited'
    BY <1>11 DEF Vanish, End, TInv, TypeOK, OneAwaited, Awaited
  <2> QED
    BY <2>1, <2>2, <2>3 DEF TInv
<1> QED
  BY <1>6, <1>7, <1>8, <1>9, <1>10, <1>11 DEF Advance

LEMMA TypeNext == TInv /\ [Next]_vars => TInv'
<1> SUFFICES ASSUME TInv, [Next]_vars PROVE TInv'
  OBVIOUS
<1>1. CASE Crash
  BY <1>1 DEF Crash, apiOthers, TInv, TypeOK, RowsAtHand, OneAwaited, Awaited
<1>2. CASE UNCHANGED vars
  BY <1>2 DEF vars, TInv, TypeOK, RowsAtHand, OneAwaited, Awaited
<1> QED
  BY <1>1, <1>2, CreateKeepsType, ReceiveKeepsType, ApiKeepsType, ScheduleKeepsType,
     WorkerKeepsType DEF Next

LEMMA TypeInvariant == Spec => []TInv
BY TypeInit, TypeNext, PTL DEF Spec

\* Every variable keeps its type: a process past its load holds a row, and a
\* run counts fewer failures than it has attempts.
THEOREM JobTypeCorrect == Spec => []TypeOK
<1>1. TInv => TypeOK
  BY DEF TInv
<1> QED
  BY <1>1, TypeInvariant, PTL

-----------------------------------------------------------------------------
(* What a step can do to a row and to a run.                               *)

\* The attempt writes what its activity computed from the row it loaded.
Flushed(a) ==
    LET t == attempt[a] IN
    /\ AttemptAt(a, "commit")
    /\ Flush(t.job, t.row, Processed(t.activity, t.row))

\* A request writes, and its write concerns neither output nor "ready".
Saved(r) ==
    LET q == request[r] IN
    /\ At(r, "commit")
    /\ \E new \in Rows :
          /\ Flush(q.job, q.row, new)
          /\ new.structured_content = q.row.structured_content
          /\ new.extracted_keywords = q.row.extracted_keywords
          /\ new.status = q.row.status \/ (q.op = "publish" /\ new.status = "processing")

Created(j) ==
    /\ j \notin used /\ used' = used \cup {j}
    /\ \E row \in Rows : row.status = "draft" /\ jobs' = [jobs EXCEPT ![j] = row]

LEMMA JobsCases ==
    ASSUME TInv, [Next]_vars
    PROVE  \/ UNCHANGED jobs
           \/ \E j \in Jobs : Created(j) \/ jobs' = [jobs EXCEPT ![j] = None]
           \/ \E r \in Requests : Saved(r)
           \/ \E a \in Attempts : Flushed(a)
<1>1. ASSUME NEW r \in Requests, NEW j \in Jobs, NEW d \in Descriptions,
             NEW skills \in SUBSET {"asked"}, CreateJob(r, j, d, skills)
      PROVE  Created(j)
  <2> DEFINE row == [status |-> "draft", description |-> d,
                     structured_content |-> None, extracted_keywords |-> None,
                     required_skills |-> skills]
  <2>1. row \in Rows /\ row.status = "draft"
    BY DEF Rows, JobStatus, Skills
  <2>2. jobs' = [jobs EXCEPT ![j] = row]
    BY <1>1 DEF CreateJob
  <2> HIDE DEF row
  <2> QED
    BY <1>1, <2>1, <2>2 DEF CreateJob, Created
<1>2. ASSUME NEW r \in Requests, CommitJob(r), ~UNCHANGED jobs PROVE Saved(r)
  <2> DEFINE q == request[r]
             new == IF q.op = "publish" THEN [q.row EXCEPT !.status = "processing"]
                    ELSE Updated(q.row, q.patch)
  <2>1. q.row \in Rows /\ q.op \in {"update", "publish"} /\ (q.op = "update" => q.patch \in AllPatches)
    BY <1>2, RequestType DEF CommitJob, At, TInv, RowsAtHand
  <2>2. /\ new \in Rows
        /\ new.structured_content = q.row.structured_content
        /\ new.extracted_keywords = q.row.extracted_keywords
        /\ new.status = q.row.status \/ (q.op = "publish" /\ new.status = "processing")
    <3>1. CASE q.op = "publish"
      BY <2>1, <3>1 DEF Rows, JobStatus
    <3>2. CASE q.op = "update"
      BY <2>1, <3>2, UpdatedIsRow DEF Updated, Rows
    <3> QED
      BY <2>1, <3>1, <3>2
  <2>3. Flush(q.job, q.row, new) /\ At(r, "commit")
    BY <1>2 DEF CommitJob
  <2> HIDE DEF new
  <2> QED
    BY <2>2, <2>3 DEF Saved
<1>3. ASSUME NEW r \in Requests, Api(r)
      PROVE  \/ UNCHANGED jobs \/ Saved(r)
             \/ \E j \in Jobs : jobs' = [jobs EXCEPT ![j] = None]
  <2>1. CASE CommitJob(r)
    BY <1>2, <2>1
  <2>2. CASE DeleteJob(r)
    BY <2>2, RequestType DEF DeleteJob, At
  <2>3. CASE ~CommitJob(r) /\ ~DeleteJob(r)
    BY <1>3, <2>3 DEF Api, LoadJob, RefreshJob, AnnounceJob, StartWorkflow, StartFails
  <2> QED
    BY <2>1, <2>2, <2>3
<1>4. ASSUME NEW a \in Attempts,
             Advance(a) \/ ActivityFails(a) \/ Timeout(a) \/ Vanish(a)
      PROVE  UNCHANGED jobs \/ Flushed(a)
  BY <1>4 DEF Advance, LoadActivity, CommitActivity, AnnounceActivity, ActivityFails,
              Timeout, Vanish, Flushed
<1>5. ASSUME NEW r \in Requests, NEW j \in Jobs, ReceiveCall(r, j) PROVE UNCHANGED jobs
  BY <1>5 DEF ReceiveCall
<1>6. ASSUME NEW a \in Attempts, NEW j \in Jobs, Schedule(a, j) PROVE UNCHANGED jobs
  BY <1>6 DEF Schedule
<1>7. CASE Crash \/ UNCHANGED vars
  BY <1>7 DEF Crash, vars
<1> QED
  BY <1>1, <1>3, <1>4, <1>5, <1>6, <1>7 DEF Next

\* A run moves on when the attempt it waits for has done its work.
Achieved(a) ==
    LET t == attempt[a] IN
    /\ workflow[t.job].stage = t.activity
    /\ workflow'[t.job].stage = AfterSuccess(t.activity)
    /\ \/ t.activity \in {"breakdown", "extract"} /\ Flushed(a)
       \/ t.activity \in {"mark_ready", "mark_failed"}

LEMMA StageCases ==
    ASSUME TInv, [Next]_vars, NEW j \in Jobs
    PROVE  \/ workflow'[j] = workflow[j]
           \/ /\ workflow'[j].stage = "breakdown"
              /\ \E r \in Requests : At(r, "start") /\ request[r].job = j
           \/ \E a \in Attempts :
                 /\ attempt[a] # None /\ attempt[a].job = j
                 /\ \/ workflow'[j].stage \in {workflow[j].stage, "mark_failed"}
                    \/ Achieved(a)
<1>1. ASSUME NEW r \in Requests, StartWorkflow(r)
      PROVE  \/ workflow'[j] = workflow[j]
             \/ /\ workflow'[j].stage = "breakdown"
                /\ At(r, "start") /\ request[r].job = j
  BY <1>1, RequestType DEF StartWorkflow, At, TInv, TypeOK
<1>2. ASSUME NEW a \in Attempts, attempt[a] # None, FailedOnce(attempt[a].job)
      PROVE  \/ workflow'[j] = workflow[j]
             \/ /\ attempt[a].job = j
                /\ workflow'[j].stage \in {workflow[j].stage, "mark_failed"}
  <2>1. attempt[a].job \in Jobs
    BY <1>2 DEF TInv, TypeOK, ActivityAttempts
  <2>2. workflow[j].stage \in {workflow[j].stage} /\ AfterFailure(workflow[j]).stage \in {workflow[j].stage, "mark_failed"}
    BY DEF AfterFailure, TInv, TypeOK
  <2> QED
    BY <1>2, <2>1, <2>2 DEF FailedOnce, TInv, TypeOK
<1>3. ASSUME NEW a \in Attempts, attempt[a] # None, EndWell(a),
             \/ attempt[a].activity \in {"breakdown", "extract"} /\ Flushed(a)
             \/ attempt[a].activity \in {"mark_ready", "mark_failed"}
      PROVE  workflow'[j] = workflow[j] \/ (attempt[a].job = j /\ Achieved(a))
  <2>1. attempt[a].job \in Jobs
    BY <1>3 DEF TInv, TypeOK, ActivityAttempts
  <2>2. CASE attempt[a].awaited
    <3>1. workflow[attempt[a].job].stage = attempt[a].activity
      BY <1>3, <2>2 DEF TInv, OneAwaited, Awaited
    <3>2. workflow' = [workflow EXCEPT ![attempt[a].job] =
              [stage |-> AfterSuccess(attempt[a].activity), failures |-> 0]]
      BY <1>3, <2>2, <3>1 DEF EndWell, Succeeded
    <3> QED
      BY <1>3, <2>1, <3>1, <3>2 DEF Achieved, TInv, TypeOK
  <2>3. CASE ~attempt[a].awaited
    BY <1>3, <2>3 DEF EndWell
  <2> QED
    BY <2>2, <2>3
<1>4. ASSUME NEW a \in Attempts,
             Advance(a) \/ ActivityFails(a) \/ Timeout(a) \/ Vanish(a)
      PROVE  \/ workflow'[j] = workflow[j]
             \/ /\ attempt[a] # None /\ attempt[a].job = j
                /\ \/ workflow'[j].stage \in {workflow[j].stage, "mark_failed"}
                   \/ Achieved(a)
  <2>1. attempt[a] # None /\ attempt[a].activity \in Activities
    BY <1>4 DEF Advance, LoadActivity, CommitActivity, AnnounceActivity, ActivityFails,
                Timeout, Vanish, AttemptAt, TInv, TypeOK, ActivityAttempts
  <2>2. UNCHANGED workflow \/ FailedOnce(attempt[a].job) \/ EndWell(a)
    BY <1>4 DEF Advance, LoadActivity, CommitActivity, AnnounceActivity, ActivityFails,
                Timeout, Vanish, EndBadly
  <2>3. CASE CommitActivity(a) /\ EndWell(a) /\ ~EndBadly(a)
    <3>1. attempt[a].activity \in {"mark_ready", "mark_failed"} \/ Flushed(a)
      BY <2>3 DEF CommitActivity, Flushed
    <3> QED
      BY <1>3, <2>1, <2>3, <3>1 DEF Activities
  <2>4. CASE AnnounceActivity(a)
    <3>1. attempt[a].activity \in {"mark_ready", "mark_failed"} /\ EndWell(a)
      BY <2>1, <2>4 DEF AnnounceActivity, AttemptAt, TInv, RowsAtHand
    <3> QED
      BY <1>3, <2>1, <3>1
  <2>5. CASE ~AnnounceActivity(a) /\ ~(CommitActivity(a) /\ EndWell(a) /\ ~EndBadly(a))
    <3>1. UNCHANGED workflow \/ FailedOnce(attempt[a].job)
      BY <1>4, <2>5 DEF Advance, LoadActivity, CommitActivity, ActivityFails, Timeout,
                        Vanish, EndBadly
    <3> QED
      BY <1>2, <2>1, <3>1
  <2> QED
    BY <2>3, <2>4, <2>5
<1>5. ASSUME NEW r \in Requests, Api(r), ~StartWorkflow(r) PROVE UNCHANGED workflow
  BY <1>5 DEF Api, LoadJob, CommitJob, DeleteJob, RefreshJob, AnnounceJob, StartFails, apiOthers
<1>6. ASSUME NEW r \in Requests, NEW i \in Jobs,
             \/ ReceiveCall(r, i)
             \/ \E d \in Descriptions, s \in SUBSET {"asked"} : CreateJob(r, i, d, s)
      PROVE  UNCHANGED workflow
  BY <1>6 DEF ReceiveCall, CreateJob, apiOthers
<1>7. ASSUME NEW a \in Attempts, NEW i \in Jobs, Schedule(a, i) PROVE UNCHANGED workflow
  BY <1>7 DEF Schedule
<1>8. CASE Crash \/ UNCHANGED vars
  BY <1>8 DEF Crash, vars, apiOthers
<1> QED
  BY <1>1, <1>4, <1>5, <1>6, <1>7, <1>8 DEF Next

-----------------------------------------------------------------------------
(* The invariant of ReadyIsComplete.                                       *)

\* What a flush leaves of the outputs.
LEMMA MergeKeepsOutputs ==
    ASSUME NEW current \in Rows, NEW row \in Rows, NEW new \in Rows
    PROVE  LET m == Merge(current, row, new) IN
           /\ new.structured_content = row.structured_content =>
                  m.structured_content = current.structured_content
           /\ new.structured_content # row.structured_content =>
                  m.structured_content = new.structured_content
           /\ new.extracted_keywords = row.extracted_keywords =>
                  m.extracted_keywords = current.extracted_keywords
           /\ new.extracted_keywords # row.extracted_keywords =>
                  m.extracted_keywords = new.extracted_keywords
           /\ \/ m.status = current.status
              \/ m.status = new.status /\ new.status # row.status
<1> DEFINE m == Merge(current, row, new)
<1>1. m.structured_content =
        Written(current.structured_content, row.structured_content, new.structured_content)
  BY DEF Merge
<1>2. m.extracted_keywords =
        Written(current.extracted_keywords, row.extracted_keywords, new.extracted_keywords)
  BY DEF Merge
<1>3. m.status = Written(current.status, row.status, new.status)
  BY DEF Merge
<1> HIDE DEF m
<1> QED
  BY <1>1, <1>2, <1>3 DEF Written, m

\* The row an attempt writes, against the one it loaded.
LEMMA ProcessedOutputs ==
    ASSUME NEW row \in Rows, NEW activity \in Activities
    PROVE  LET new == Processed(activity, row) IN
           /\ activity = "breakdown" => new.structured_content # None
           /\ activity = "extract" => new.extracted_keywords # None
           /\ new.structured_content = row.structured_content \/ new.structured_content # None
           /\ new.extracted_keywords = row.extracted_keywords \/ new.extracted_keywords # None
           /\ new.status = row.status \/ activity \in {"mark_ready", "mark_failed"}
           /\ activity = "mark_failed" => new.status = "failed"
           /\ activity \in {"mark_ready", "mark_failed"} =>
                  /\ new.structured_content = row.structured_content
                  /\ new.extracted_keywords = row.extracted_keywords
<1>1. row.description # None
  BY NoneAssumption DEF Rows
<1>2. CASE activity = "breakdown"
  BY <1>1, <1>2 DEF Processed, Rows
<1>3. CASE activity = "extract"
  BY <1>1, <1>3 DEF Processed, Rows
<1>4. CASE activity = "mark_ready"
  BY <1>4 DEF Processed, Rows
<1>5. CASE activity = "mark_failed"
  BY <1>5 DEF Processed, Rows
<1> QED
  BY <1>2, <1>3, <1>4, <1>5 DEF Activities

\* What a step leaves of the row of a job that was ever created.
LEMMA RowCases ==
    ASSUME IInv, [Next]_vars, NEW i \in Jobs, i \in used
    PROVE  \/ jobs'[i] = jobs[i] \/ jobs'[i] = None
           \/ /\ jobs[i] \in Rows
              /\ \/ \E r \in Requests, new \in Rows :
                       /\ request[r].row \in Rows
                       /\ jobs'[i] = Merge(jobs[i], request[r].row, new)
                       /\ new.structured_content = request[r].row.structured_content
                       /\ new.extracted_keywords = request[r].row.extracted_keywords
                       /\ new.status \in {request[r].row.status, "processing"}
                 \/ \E a \in Attempts :
                       /\ AttemptAt(a, "commit") /\ attempt[a].job = i
                       /\ attempt[a].activity \in Activities /\ attempt[a].row \in Rows
                       /\ jobs'[i] = Merge(jobs[i], attempt[a].row,
                                          Processed(attempt[a].activity, attempt[a].row))
<1>1. ASSUME NEW j \in Jobs, Created(j) PROVE jobs'[i] = jobs[i]
  BY <1>1 DEF Created, IInv, TInv, TypeOK
<1>2. ASSUME NEW j \in Jobs, jobs' = [jobs EXCEPT ![j] = None]
      PROVE  jobs'[i] = jobs[i] \/ jobs'[i] = None
  BY <1>2 DEF IInv, TInv, TypeOK
<1>3. ASSUME NEW r \in Requests, Saved(r)
      PROVE  \/ jobs'[i] = jobs[i] \/ jobs'[i] = None
             \/ /\ jobs[i] \in Rows /\ request[r].row \in Rows
                /\ \E new \in Rows :
                       /\ jobs'[i] = Merge(jobs[i], request[r].row, new)
                       /\ new.structured_content = request[r].row.structured_content
                       /\ new.extracted_keywords = request[r].row.extracted_keywords
                       /\ new.status \in {request[r].row.status, "processing"}
  <2>1. request[r].row \in Rows /\ request[r].job \in Jobs /\ jobs[i] \in Rows \cup {None}
    BY <1>3, RequestType DEF Saved, At, IInv, TInv, TypeOK, RowsAtHand
  <2> QED
    BY <1>3, <2>1 DEF Saved, Flush, IInv, TInv, TypeOK
<1>4. ASSUME NEW a \in Attempts, Flushed(a)
      PROVE  \/ jobs'[i] = jobs[i] \/ jobs'[i] = None
             \/ /\ jobs[i] \in Rows
                /\ AttemptAt(a, "commit") /\ attempt[a].job = i
                /\ attempt[a].activity \in Activities /\ attempt[a].row \in Rows
                /\ jobs'[i] = Merge(jobs[i], attempt[a].row,
                                   Processed(attempt[a].activity, attempt[a].row))
  <2>1. /\ attempt[a].row \in Rows /\ attempt[a].job \in Jobs
        /\ attempt[a].activity \in Activities /\ jobs[i] \in Rows \cup {None}
    BY <1>4 DEF Flushed, AttemptAt, IInv, TInv, TypeOK, RowsAtHand, ActivityAttempts
  <2> QED
    BY <1>4, <2>1 DEF Flushed, Flush, IInv, TInv, TypeOK
<1>5. CASE UNCHANGED jobs
  BY <1>5
<1> QED
  BY <1>1, <1>2, <1>3, <1>4, <1>5, JobsCases DEF IInv

\* An output that was written stays written, however old the copies are from
\* which requests and late attempts write.
LEMMA OutputsStay ==
    ASSUME IInv, [Next]_vars, NEW i \in Jobs, i \in used
    PROVE  (Broken(i) => Broken(i)') /\ (Extracted(i) => Extracted(i)')
<1>1. CASE jobs'[i] = jobs[i] \/ jobs'[i] = None
  BY <1>1 DEF Broken, Extracted
<1>2. ASSUME jobs[i] \in Rows, NEW row \in Rows, NEW new \in Rows,
             jobs'[i] = Merge(jobs[i], row, new),
             new.structured_content = row.structured_content \/ new.structured_content # None,
             new.extracted_keywords = row.extracted_keywords \/ new.extracted_keywords # None
      PROVE  (Broken(i) => Broken(i)') /\ (Extracted(i) => Extracted(i)')
  BY <1>2, MergeKeepsOutputs, NoneAssumption DEF Broken, Extracted
<1> QED
  BY <1>1, <1>2, RowCases, ProcessedIsRow, ProcessedOutputs

\* ready is written by mark_ready alone, and that comes after both outputs.
LEMMA ReadyNext ==
    ASSUME IInv, [Next]_vars
    PROVE  ReadyIsComplete'
<1> SUFFICES ASSUME NEW i \in Jobs, jobs'[i] # None, jobs'[i].status = "ready"
             PROVE  Broken(i)' /\ Extracted(i)'
  BY DEF ReadyIsComplete, Broken, Extracted
<1>1. CASE i \notin used
  <2>1. jobs[i] = None
    BY <1>1 DEF IInv, KnownJobs
  <2>2. ASSUME NEW j \in Jobs, Created(j) PROVE FALSE
    BY <2>1, <2>2 DEF Created, IInv, TInv, TypeOK
  <2>3. ASSUME NEW r \in Requests, Saved(r) PROVE FALSE
    BY <2>1, <2>3, RequestType DEF Saved, At, Flush, IInv, TInv, TypeOK
  <2>4. ASSUME NEW a \in Attempts, Flushed(a) PROVE FALSE
    BY <2>1, <2>4 DEF Flushed, AttemptAt, Flush, IInv, TInv, TypeOK, ActivityAttempts
  <2>5. ASSUME NEW j \in Jobs, jobs' = [jobs EXCEPT ![j] = None] PROVE FALSE
    BY <2>1, <2>5 DEF IInv, TInv, TypeOK
  <2> QED
    BY <2>1, <2>2, <2>3, <2>4, <2>5, JobsCases DEF IInv
<1>2. CASE i \in used
  <2>1. Broken(i) /\ Extracted(i) => Broken(i)' /\ Extracted(i)'
    BY <1>2, OutputsStay
  <2>2. CASE jobs'[i] = jobs[i]
    BY <2>1, <2>2 DEF IInv, ReadyIsComplete, Broken, Extracted
  <2>3. CASE jobs[i] \in Rows /\ jobs[i].status = "ready"
    BY <2>1, <2>3 DEF IInv, ReadyIsComplete, Broken, Extracted
  <2>4. ASSUME jobs[i] \in Rows, jobs[i].status # "ready", NEW row \in Rows, NEW new \in Rows,
               jobs'[i] = Merge(jobs[i], row, new)
        PROVE  new.status = "ready" /\ new.status # row.status
    BY <2>4, MergeKeepsOutputs
  <2>5. ASSUME NEW a \in Attempts, AttemptAt(a, "commit"), attempt[a].job = i,
               attempt[a].activity \in Activities, attempt[a].row \in Rows,
               Processed(attempt[a].activity, attempt[a].row).status = "ready",
               attempt[a].row.status # "ready"
        PROVE  Broken(i) /\ Extracted(i)
    <3>1. attempt[a].activity = "mark_ready"
      BY <2>5, ProcessedOutputs
    <3> QED
      BY <2>5, <3>1 DEF IInv, Progress, AttemptAt
  <2> QED
    BY <1>2, <2>1, <2>2, <2>3, <2>4, <2>5, RowCases, ProcessedIsRow
<1> QED
  BY <1>1, <1>2

\* What an attempt can turn into: nothing, itself with another row, or, if
\* its slot was free, a new attempt of what the run is waiting for.
LEMMA AttemptCases ==
    ASSUME TInv, [Next]_vars, NEW a \in Attempts, attempt'[a] # None
    PROVE  \/ /\ attempt[a] # None
              /\ attempt'[a].job = attempt[a].job
              /\ attempt'[a].activity = attempt[a].activity
              /\ \/ attempt'[a].row = attempt[a].row /\ attempt'[a].step = attempt[a].step
                 \/ attempt'[a].row = jobs[attempt[a].job] /\ UNCHANGED jobs
                 \/ /\ attempt[a].step = "commit"
                    /\ attempt[a].activity \in {"mark_ready", "mark_failed"}
                    /\ attempt'[a].row = Processed(attempt[a].activity, attempt[a].row)
           \/ /\ attempt'[a].step = "load" /\ attempt'[a].job \in Jobs
              /\ attempt'[a].activity = workflow[attempt'[a].job].stage
              /\ workflow[attempt'[a].job].stage \in Activities
              /\ UNCHANGED jobs
<1>1. ASSUME NEW b \in Attempts, NEW j \in Jobs, Schedule(b, j), b = a
      PROVE  /\ attempt'[a].step = "load" /\ attempt'[a].job = j
             /\ attempt'[a].activity = workflow[j].stage
             /\ workflow[j].stage \in Activities /\ UNCHANGED jobs
  BY <1>1 DEF Schedule, TInv, TypeOK
<1>2. ASSUME NEW b \in Attempts, NEW j \in Jobs, Schedule(b, j), b # a
      PROVE  attempt'[a] = attempt[a]
  BY <1>2 DEF Schedule, TInv, TypeOK
<1>3. ASSUME NEW b \in Attempts, b # a,
             Advance(b) \/ ActivityFails(b) \/ Timeout(b) \/ Vanish(b)
      PROVE  attempt'[a] = attempt[a]
  BY <1>3 DEF Advance, LoadActivity, CommitActivity, AnnounceActivity, ActivityFails,
              Timeout, Vanish, EndWell, EndBadly, End, TInv, TypeOK
<1>4. CASE EndWell(a) \/ EndBadly(a) \/ Vanish(a)
  BY <1>4 DEF EndWell, EndBadly, Vanish, End, TInv, TypeOK
<1>5. ASSUME attempt[a] # None, NEW row, NEW step,
             attempt' = [attempt EXCEPT ![a].row = row, ![a].step = step]
      PROVE  /\ attempt'[a].job = attempt[a].job
             /\ attempt'[a].activity = attempt[a].activity
             /\ attempt'[a].row = row
  <2>1. attempt[a] \in ActivityAttempts
    BY <1>5 DEF TInv, TypeOK
  <2> QED
    BY <1>5, <2>1 DEF TInv, TypeOK, ActivityAttempts
<1>6. CASE LoadActivity(a)
  <2>1. CASE attempt' = [attempt EXCEPT ![a].row = jobs[attempt[a].job], ![a].step = "commit"]
    BY <1>5, <1>6, <2>1 DEF LoadActivity, AttemptAt
  <2> QED
    BY <1>4, <1>6, <2>1 DEF LoadActivity
<1>7. CASE CommitActivity(a)
  <2>1. CASE /\ attempt[a].activity \in {"mark_ready", "mark_failed"}
             /\ attempt' = [attempt EXCEPT
                    ![a].row = Processed(attempt[a].activity, attempt[a].row),
                    ![a].step = "announce"]
    BY <1>5, <1>7, <2>1 DEF CommitActivity, AttemptAt
  <2> QED
    BY <1>4, <1>7, <2>1 DEF CommitActivity
<1>8. CASE AnnounceActivity(a) \/ ActivityFails(a)
  BY <1>4, <1>8 DEF AnnounceActivity, ActivityFails
<1>9. CASE Timeout(a)
  <2>1. attempt[a] \in ActivityAttempts
    BY <1>9 DEF Timeout, TInv, TypeOK
  <2> QED
    BY <1>9, <2>1 DEF Timeout, TInv, TypeOK, ActivityAttempts
<1>10. CASE UNCHANGED attempt
  BY <1>10
<1>11. ASSUME NEW r \in Requests,
              \/ Api(r)
              \/ \E j \in Jobs : ReceiveCall(r, j)
              \/ \E j \in Jobs, d \in Descriptions, s \in SUBSET {"asked"} : CreateJob(r, j, d, s)
       PROVE  UNCHANGED attempt
  BY <1>11 DEF Api, LoadJob, CommitJob, DeleteJob, RefreshJob, AnnounceJob, StartWorkflow,
               StartFails, ReceiveCall, CreateJob, apiOthers
<1>12. CASE Crash \/ UNCHANGED vars
  BY <1>12 DEF Crash, vars, apiOthers
<1> QED
  BY <1>1, <1>2, <1>3, <1>4, <1>6, <1>7, <1>8, <1>9, <1>10, <1>11, <1>12 DEF Next, Advance

LEMMA KnownNext ==
    ASSUME IInv, [Next]_vars
    PROVE  KnownJobs'
<1>1. used \subseteq used'
  BY DEF Next, CreateJob, ReceiveCall, Api, LoadJob, CommitJob, DeleteJob, RefreshJob,
         AnnounceJob, StartWorkflow, StartFails, Schedule, Advance, LoadActivity,
         CommitActivity, AnnounceActivity, ActivityFails, Timeout, Vanish, Crash,
         apiOthers, workerOthers, vars
<1>2. ASSUME NEW j \in Jobs, jobs'[j] # None PROVE j \in used'
  <2>1. CASE jobs[j] # None
    BY <1>1, <2>1 DEF IInv, KnownJobs
  <2>2. CASE jobs[j] = None
    <3>1. ASSUME NEW i \in Jobs, Created(i) PROVE j \in used'
      BY <1>2, <2>2, <3>1 DEF Created, IInv, TInv, TypeOK
    <3>2. ASSUME NEW r \in Requests, Saved(r) PROVE FALSE
      BY <1>2, <2>2, <3>2, RequestType DEF Saved, At, Flush, IInv, TInv, TypeOK
    <3>3. ASSUME NEW a \in Attempts, Flushed(a) PROVE FALSE
      BY <1>2, <2>2, <3>3 DEF Flushed, AttemptAt, Flush, IInv, TInv, TypeOK, ActivityAttempts
    <3>4. ASSUME NEW i \in Jobs, jobs' = [jobs EXCEPT ![i] = None] PROVE FALSE
      BY <1>2, <2>2, <3>4 DEF IInv, TInv, TypeOK
    <3> QED
      BY <1>2, <2>2, <3>1, <3>2, <3>3, <3>4, JobsCases DEF IInv
  <2> QED
    BY <2>1, <2>2
<1>3. ASSUME NEW j \in Jobs, workflow'[j].stage # "none" PROVE j \in used'
  BY <1>1, <1>3, StageCases DEF IInv, KnownJobs, At
<1>4. ASSUME NEW a \in Attempts, attempt'[a] # None PROVE attempt'[a].job \in used'
  BY <1>1, <1>4, AttemptCases DEF IInv, KnownJobs, Activities
<1>5. ASSUME NEW r \in Requests, request'[r] # None, request'[r].step # "load"
      PROVE  request'[r].job \in used'
  <2>1. ASSUME NEW q \in Requests, NEW j \in Jobs, NEW d \in Descriptions,
               NEW s \in SUBSET {"asked"}, CreateJob(q, j, d, s)
        PROVE  request'[r] = request[r] \/ request'[r].job \in used'
    BY <2>1 DEF CreateJob, IInv, TInv, TypeOK
  <2>2. ASSUME NEW q \in Requests, NEW j \in Jobs, ReceiveCall(q, j)
        PROVE  request'[r] = request[r]
    BY <1>5, <2>2 DEF ReceiveCall, Receive, IInv, TInv, TypeOK
  <2>3. ASSUME NEW q \in Requests, Api(q), q # r PROVE request'[r] = request[r]
    BY <2>3 DEF Api, LoadJob, CommitJob, DeleteJob, RefreshJob, AnnounceJob, StartWorkflow,
                StartFails, AnswerTo, Step, IInv, TInv, TypeOK
  <2>4. CASE Api(r)
    <3>1. request[r] # None /\ request[r] \in ApiRequests /\ request[r].job \in Jobs
      BY <2>4, RequestType DEF Api, LoadJob, CommitJob, DeleteJob, RefreshJob, AnnounceJob,
                               StartWorkflow, StartFails, At, IInv
    <3>2. CASE LoadJob(r)
      <4>1. jobs[request[r].job] # None
        BY <1>5, <3>2 DEF LoadJob, AnswerTo, IInv, TInv, TypeOK
      <4>2. request'[r].job = request[r].job
        BY <1>5, <3>1, <3>2 DEF LoadJob, AnswerTo, IInv, TInv, TypeOK, ApiRequests
      <4> QED
        BY <1>1, <3>1, <4>1, <4>2 DEF IInv, KnownJobs
    <3>3. CASE ~LoadJob(r)
      <4>1. request[r].step # "load"
        BY <2>4, <3>3 DEF Api, CommitJob, DeleteJob, RefreshJob, AnnounceJob, StartWorkflow,
                          StartFails, At
      <4>2. request'[r].job = request[r].job
        BY <1>5, <2>4, <3>1, <3>3
        DEF Api, CommitJob, DeleteJob, RefreshJob, AnnounceJob, StartWorkflow, StartFails,
            AnswerTo, Step, IInv, TInv, TypeOK, ApiRequests
      <4> QED
        BY <1>1, <3>1, <4>1, <4>2 DEF IInv, KnownJobs
    <3> QED
      BY <3>2, <3>3
  <2>5. ASSUME NEW a \in Attempts,
               \/ Advance(a) \/ ActivityFails(a) \/ Timeout(a) \/ Vanish(a)
               \/ \E j \in Jobs : Schedule(a, j)
        PROVE  UNCHANGED request
    BY <2>5 DEF Advance, LoadActivity, CommitActivity, AnnounceActivity, ActivityFails,
                Timeout, Vanish, Schedule, workerOthers
  <2>6. ~Crash
    BY <1>5 DEF Crash
  <2>7. CASE request'[r] = request[r]
    BY <1>1, <1>5, <2>7 DEF IInv, KnownJobs
  <2> QED
    BY <2>1, <2>2, <2>3, <2>4, <2>5, <2>6, <2>7 DEF Next, vars
<1> QED
  BY <1>2, <1>3, <1>4, <1>5 DEF KnownJobs

\* Broken and Extracted of the next state, for a job read from this one.
BrokenNext(j) == jobs'[j] # None => jobs'[j].structured_content # None
ExtractedNext(j) == jobs'[j] # None => jobs'[j].extracted_keywords # None

\* breakdown and extract leave the job with their output, whether they write
\* it or find it written.
LEMMA FlushedOutputs ==
    ASSUME IInv, NEW a \in Attempts, Flushed(a)
    PROVE  LET j == attempt[a].job IN
           /\ attempt[a].activity = "breakdown" => BrokenNext(j)
           /\ attempt[a].activity = "extract" => ExtractedNext(j)
<1> DEFINE t == attempt[a]
           j == t.job
           new == Processed(t.activity, t.row)
<1>1. /\ t # None /\ t.step = "commit" /\ j \in Jobs /\ t.activity \in Activities
      /\ t.row \in Rows /\ jobs[j] \in Rows \cup {None}
  BY DEF Flushed, AttemptAt, IInv, TInv, TypeOK, RowsAtHand, ActivityAttempts
<1>2. /\ t.row.structured_content # None => Broken(j)
      /\ t.row.extracted_keywords # None => Extracted(j)
  BY <1>1 DEF IInv, Progress
<1>3. /\ t.activity = "breakdown" => new.structured_content # None
      /\ t.activity = "extract" => new.extracted_keywords # None
  BY <1>1, ProcessedOutputs
<1>4. new \in Rows
  BY <1>1, ProcessedIsRow
<1>5. jobs'[j] = IF jobs[j] = None THEN None ELSE Merge(jobs[j], t.row, new)
  BY <1>1 DEF Flushed, Flush, IInv, TInv, TypeOK
<1> HIDE DEF new
<1>6. CASE jobs[j] = None
  BY <1>5, <1>6 DEF Broken, Extracted, BrokenNext, ExtractedNext
<1>7. CASE jobs[j] # None
  <2> DEFINE m == Merge(jobs[j], t.row, new)
  <2>1. /\ \/ m.structured_content = jobs[j].structured_content
              /\ new.structured_content = t.row.structured_content
           \/ m.structured_content = new.structured_content
        /\ \/ m.extracted_keywords = jobs[j].extracted_keywords
              /\ new.extracted_keywords = t.row.extracted_keywords
           \/ m.extracted_keywords = new.extracted_keywords
    BY <1>1, <1>4, <1>7, MergeKeepsOutputs
  <2>2. jobs'[j] = m
    BY <1>5, <1>7
  <2> HIDE DEF m
  <2> QED
    BY <1>2, <1>3, <1>7, <2>1, <2>2 DEF Broken, Extracted, BrokenNext, ExtractedNext
<1> QED
  BY <1>6, <1>7

\* A run stands where it stands because its outputs were written.
LEMMA RunsNext ==
    ASSUME IInv, [Next]_vars, NEW j \in Jobs
    PROVE  /\ workflow'[j].stage \in {"extract", "mark_ready", "ready"} => BrokenNext(j)
           /\ workflow'[j].stage \in {"mark_ready", "ready"} => ExtractedNext(j)
<1> DEFINE was == workflow[j].stage
           is == workflow'[j].stage
<1>1. /\ was \in {"extract", "mark_ready", "ready"} => BrokenNext(j)
      /\ was \in {"mark_ready", "ready"} => ExtractedNext(j)
  <2>1. was \in {"extract", "mark_ready", "ready"} => j \in used
    BY DEF IInv, KnownJobs
  <2> QED
    BY <2>1, OutputsStay DEF IInv, Progress, Broken, Extracted, BrokenNext, ExtractedNext
<1>2. ASSUME NEW a \in Attempts, attempt[a] # None, attempt[a].job = j, Achieved(a)
      PROVE  /\ is \in {"extract", "mark_ready", "ready"} => BrokenNext(j)
             /\ is \in {"mark_ready", "ready"} => ExtractedNext(j)
  <2>1. was = attempt[a].activity /\ is = AfterSuccess(was)
    BY <1>2 DEF Achieved
  <2>2. CASE was = "breakdown"
    <3>1. is = "extract" /\ BrokenNext(j)
      BY <1>2, <2>1, <2>2, FlushedOutputs DEF Achieved, AfterSuccess
    <3> QED
      BY <3>1
  <2>3. CASE was = "extract"
    <3>1. is = "mark_ready" /\ ExtractedNext(j)
      BY <1>2, <2>1, <2>3, FlushedOutputs DEF Achieved, AfterSuccess
    <3> QED
      BY <1>1, <2>3, <3>1
  <2>4. CASE was = "mark_ready"
    BY <1>1, <2>4
  <2>5. CASE was = "mark_failed"
    BY <2>1, <2>5 DEF AfterSuccess
  <2> QED
    BY <1>2, <2>1, <2>2, <2>3, <2>4, <2>5 DEF Achieved
<1>3. CASE is \in {was, "mark_failed", "breakdown"}
  BY <1>1, <1>3
<1> QED
  BY <1>2, <1>3, StageCases DEF IInv

\* An attempt is where it is, with the row it holds, because of what was written.
LEMMA AttemptsNext ==
    ASSUME IInv, [Next]_vars, NEW a \in Attempts, attempt'[a] # None
    PROVE  /\ attempt'[a].activity = "mark_ready" =>
                  BrokenNext(attempt'[a].job) /\ ExtractedNext(attempt'[a].job)
           /\ attempt'[a].step # "load" =>
                /\ attempt'[a].row.structured_content # None => BrokenNext(attempt'[a].job)
                /\ attempt'[a].row.extracted_keywords # None => ExtractedNext(attempt'[a].job)
<1> DEFINE t == attempt[a]
           j == t.job
<1>1. CASE /\ t # None /\ attempt'[a].job = j /\ attempt'[a].activity = t.activity
           /\ \/ attempt'[a].row = t.row /\ attempt'[a].step = t.step
              \/ attempt'[a].row = jobs[j] /\ UNCHANGED jobs
              \/ /\ t.step = "commit" /\ t.activity \in {"mark_ready", "mark_failed"}
                 /\ attempt'[a].row = Processed(t.activity, t.row)
  <2>1. j \in Jobs /\ j \in used /\ t.activity \in Activities /\ (t.step # "load" => t.row \in Rows)
    BY <1>1 DEF IInv, KnownJobs, TInv, TypeOK, RowsAtHand, ActivityAttempts
  <2>2. (Broken(j) => BrokenNext(j)) /\ (Extracted(j) => ExtractedNext(j))
    BY <2>1, OutputsStay DEF Broken, Extracted, BrokenNext, ExtractedNext
  <2>3. t.activity = "mark_ready" => BrokenNext(j) /\ ExtractedNext(j)
    BY <1>1, <2>2 DEF IInv, Progress
  <2>4. t.step # "load" =>
          /\ t.row.structured_content # None => BrokenNext(j)
          /\ t.row.extracted_keywords # None => ExtractedNext(j)
    BY <1>1, <2>2 DEF IInv, Progress
  <2>5. CASE attempt'[a].row = t.row /\ attempt'[a].step = t.step
    BY <1>1, <2>3, <2>4, <2>5 DEF Broken, Extracted, BrokenNext, ExtractedNext
  <2>6. CASE attempt'[a].row = jobs[j] /\ UNCHANGED jobs
    BY <1>1, <2>3, <2>6 DEF Broken, Extracted, BrokenNext, ExtractedNext
  <2>7. CASE /\ t.step = "commit" /\ t.activity \in {"mark_ready", "mark_failed"}
             /\ attempt'[a].row = Processed(t.activity, t.row)
    <3>1. /\ attempt'[a].row.structured_content = t.row.structured_content
          /\ attempt'[a].row.extracted_keywords = t.row.extracted_keywords
      BY <2>1, <2>7, ProcessedOutputs
    <3> QED
      BY <1>1, <2>3, <2>4, <2>7, <3>1 DEF Broken, Extracted, BrokenNext, ExtractedNext
  <2> QED
    BY <1>1, <2>5, <2>6, <2>7
<1>2. CASE /\ attempt'[a].step = "load" /\ attempt'[a].job \in Jobs
           /\ attempt'[a].activity = workflow[attempt'[a].job].stage
           /\ UNCHANGED jobs
  BY <1>2 DEF IInv, Progress, Broken, Extracted, BrokenNext, ExtractedNext
<1> QED
  BY <1>1, <1>2, AttemptCases DEF IInv

LEMMA ReadyInit == Init => IInv
BY TypeInit DEF Init, IInv, TInv, TypeOK, KnownJobs, Progress, ReadyIsComplete

LEMMA ReadyStep == IInv /\ [Next]_vars => IInv'
<1> SUFFICES ASSUME IInv, [Next]_vars PROVE IInv'
  OBVIOUS
<1>1. TInv'
  BY TypeNext DEF IInv
<1>2. Progress'
  BY RunsNext, AttemptsNext DEF Progress, Broken, Extracted, BrokenNext, ExtractedNext
<1> QED
  BY <1>1, <1>2, KnownNext, ReadyNext DEF IInv

\* A ready job has both outputs of its workflow, for any number of jobs,
\* recruiters and late attempts, and however many activities fail or time out.
THEOREM ReadyHasBothOutputs == Spec => []ReadyIsComplete
<1>1. IInv => ReadyIsComplete
  BY DEF IInv
<1> QED
  BY <1>1, ReadyInit, ReadyStep, PTL DEF Spec

=============================================================================
