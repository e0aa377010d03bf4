------------------------ MODULE JobPublishingOutcome ------------------------
(***************************************************************************)
(* Proofs about the status of a job in JobPublishing, for any number of    *)
(* recruiters, attempts and faults, timeouts and restarts included.        *)
(*                                                                         *)
(* Until two writers of its status meet on a job, the status follows the   *)
(* run step by step (FollowsRun), whoever is about to write it holds the   *)
(* value it overwrites (MarkStands, PublishStands), and one publish at a   *)
(* time is under way (OnePublish).  So the job is ready exactly when its   *)
(* run returned "ready".  On a contested job all that is left is that the  *)
(* status is one of the four the service writes.                           *)
(***************************************************************************)
EXTENDS JobPublishingProofs

Marks == {"mark_ready", "mark_failed"}

\* An attempt, or a request, at work on j.
On(x, j) == x # None /\ x.job = j

\* What the status of a job can be, by where its run is.
FollowsRun(j) ==
    LET stage == workflow[j].stage
        status == jobs[j].status IN
    /\ stage = "none" => status \in {"draft", "processing"}
    /\ stage \in {"breakdown", "extract"} => status = "processing"
    /\ stage = "mark_ready" =>
          (Marked(j) /\ status = "ready") \/ (~Marked(j) /\ status = "processing")
    /\ stage = "mark_failed" => status = "processing" \/ (Marked(j) /\ status = "failed")
    /\ stage = "ready" => status = "ready"
    /\ stage = "raised" => status \in {"failed", "processing"}

\* An attempt to mark the job is awaited until its end, and overwrites what it
\* read.  Attempts of the other activities may be given up and go on.
MarkStands(a) ==
    attempt[a].activity \in Marks =>
        /\ attempt[a].awaited
        /\ attempt[a].step = "commit" => attempt[a].row.status = "processing"

\* So does a publish request, and until its end no run changes the status.
PublishStands(r, j) ==
    /\ request[r].step = "start" => request[r].op = "publish"
    /\ request[r].op = "publish" =>
          /\ request[r].step = "commit" =>
                request[r].row.status = jobs[j].status /\ Publishable(jobs[j])
          /\ request[r].step \in {"refresh", "announce", "start"} =>
                /\ jobs[j].status = "processing"
                /\ workflow[j].stage \in {"none", "mark_failed", "raised"}
                /\ workflow[j].stage = "mark_failed" => Marked(j)

\* A publish request that has found j publishable.
PastLoad(r, j) == Publishing(r, j) /\ request[r].step # "load"

OnePublish(j) ==
    \A r, q \in Requests : PastLoad(r, j) /\ PastLoad(q, j) => r = q

Calm(j) ==
    /\ FollowsRun(j)
    /\ \A a \in Attempts : On(attempt[a], j) => MarkStands(a)
    /\ \A r \in Requests : On(request[r], j) => PublishStands(r, j)
    /\ OnePublish(j)

\* The service writes four of the five statuses of the enumeration.
LiveRows ==
    \A j \in Jobs : jobs[j] # None => jobs[j].status \in Promise!Live

CalmJobs == \A j \in Jobs \ contested : jobs[j] # None => Calm(j)

OInv == IInv /\ LiveRows /\ CalmJobs

-----------------------------------------------------------------------------
(* Who can be at work on a job together.                                   *)

LEMMA StagesOfARun ==
    ASSUME TInv, NEW j \in Jobs
    PROVE  workflow[j].stage \in {"none", "breakdown", "extract", "mark_ready",
                                 "mark_failed", "ready", "raised"}
BY DEF TInv, TypeOK, Activities, Ended

LEMMA AttemptType ==
    ASSUME TInv, NEW a \in Attempts, attempt[a] # None
    PROVE  /\ attempt[a] \in ActivityAttempts /\ attempt[a].job \in Jobs
           /\ attempt[a].activity \in Activities /\ attempt[a].awaited \in BOOLEAN
           /\ attempt[a].step \in {"load", "commit", "announce"}
           /\ attempt[a].step # "load" => attempt[a].row \in Rows
           /\ attempt[a].step = "announce" => attempt[a].activity \in Marks
           /\ attempt[a].awaited => workflow[attempt[a].job].stage = attempt[a].activity
BY DEF TInv, TypeOK, ActivityAttempts, RowsAtHand, OneAwaited, Awaited, Marks

\* While the run waits for an attempt that has not written the status, no
\* other attempt has.
LEMMA Unmarked ==
    ASSUME TInv, NEW j \in Jobs, Calm(j),
           NEW a \in Attempts, On(attempt[a], j), attempt[a].awaited,
           attempt[a].step # "announce"
    PROVE  ~Marked(j) /\ workflow[j].stage = attempt[a].activity
<1>1. workflow[j].stage = attempt[a].activity
  BY AttemptType DEF On
<1>2. ASSUME NEW b \in Attempts, On(attempt[b], j), attempt[b].step = "announce" PROVE FALSE
  <2>1. attempt[b].awaited
    BY <1>2, AttemptType DEF Calm, MarkStands, On
  <2>2. b = a
    BY <1>2, <2>1 DEF TInv, OneAwaited, Awaited, On
  <2> QED
    BY <1>2, <2>2
<1> QED
  BY <1>1, <1>2 DEF Marked, On

\* A run under way whose status is not written yet: nobody is publishing.
LEMMA UnderWay ==
    ASSUME TInv, NEW j \in Jobs, Calm(j), workflow[j].stage \in Activities, ~Marked(j)
    PROVE  /\ jobs[j].status = "processing"
           /\ \A r \in Requests : ~PastLoad(r, j)
<1>1. jobs[j].status = "processing"
  BY DEF Calm, FollowsRun, Activities
<1>2. ASSUME NEW r \in Requests, PastLoad(r, j) PROVE FALSE
  <2>1. PublishStands(r, j) /\ request[r].op = "publish"
    BY <1>2 DEF PastLoad, Publishing, Calm, On
  <2>2. request[r].step \in {"commit", "refresh", "announce", "start"}
    BY <1>2, RequestType DEF PastLoad, Publishing, ApiRequests
  <2>3. request[r].step # "commit"
    BY <1>1, <2>1 DEF PublishStands, Publishable
  <2> QED
    BY <2>1, <2>2, <2>3 DEF PublishStands, Activities
<1> QED
  BY <1>1, <1>2

-----------------------------------------------------------------------------
(* Steps that leave the status of a job alone.                             *)

QuietRequests(j) ==
    \A r \in Requests : On(request'[r], j) =>
        \/ request'[r] = request[r]
        \/ request'[r].op # "publish" /\ request'[r].step # "start"
        \/ request'[r].step = "load"
        \/ /\ On(request[r], j)
           /\ request[r].op = "publish" /\ request'[r].op = "publish"
           /\ request[r].step \in {"refresh", "announce"}
           /\ request'[r].step \in {"announce", "start"}

QuietAttempts(j) ==
    \A a \in Attempts :
        /\ On(attempt'[a], j) =>
              \/ attempt'[a] = attempt[a]
              \/ attempt'[a].activity \notin Marks /\ attempt'[a].step # "announce"
              \/ attempt'[a].awaited /\ attempt'[a].step = "load"
        /\ On(attempt[a], j) /\ attempt[a].step = "announce" => attempt'[a] = attempt[a]

\* The run stays where it is, or goes on with the status still to be written.
QuietRun(j) ==
    \/ workflow'[j] = workflow[j]
    \/ workflow[j].stage \in Activities /\ workflow'[j].stage \in Activities /\ ~Marked(j)

QuietRow(j) == jobs'[j] # None /\ jobs'[j].status = jobs[j].status

LEMMA QuietStep ==
    ASSUME TInv, NEW j \in Jobs, Calm(j),
           QuietRow(j), QuietRequests(j), QuietAttempts(j), QuietRun(j)
    PROVE  Calm(j)'
<1>1. Marked(j)' <=> Marked(j)
  BY DEF QuietAttempts, Marked, On
<1>2. FollowsRun(j)'
  <2>1. CASE workflow'[j] = workflow[j]
    BY <1>1, <2>1 DEF Calm, FollowsRun, QuietRow
  <2>2. CASE /\ workflow[j].stage \in Activities /\ workflow'[j].stage \in Activities
             /\ ~Marked(j)
    BY <1>1, <2>2, UnderWay DEF FollowsRun, QuietRow, Activities
  <2> QED
    BY <2>1, <2>2 DEF QuietRun
<1>3. ASSUME NEW a \in Attempts, On(attempt[a], j)' PROVE MarkStands(a)'
  BY <1>3 DEF QuietAttempts, Calm, MarkStands, On
<1>4. ASSUME NEW r \in Requests, On(request[r], j)' PROVE PublishStands(r, j)'
  <2>1. CASE \/ request'[r].op # "publish" /\ request'[r].step # "start"
             \/ request'[r].step = "load"
    BY <2>1 DEF PublishStands
  <2>2. CASE workflow'[j] # workflow[j] /\ request'[r] = request[r]
    <3>1. ~PastLoad(r, j)
      BY <2>2, UnderWay DEF QuietRun
    <3>2. On(request[r], j) /\ PublishStands(r, j)
      BY <1>4, <2>2 DEF Calm, On
    <3> QED
      BY <2>2, <3>1, <3>2 DEF PastLoad, Publishing, PublishStands, On
  <2>3. CASE workflow'[j] = workflow[j] /\ request'[r] = request[r]
    <3>1. PublishStands(r, j)
      BY <1>4, <2>3 DEF Calm, On
    <3> QED
      BY <1>1, <2>3, <3>1 DEF PublishStands, QuietRow, Publishable
  <2>4. CASE /\ On(request[r], j)
             /\ request[r].op = "publish" /\ request'[r].op = "publish"
             /\ request[r].step \in {"refresh", "announce"}
             /\ request'[r].step \in {"announce", "start"}
    <3>1. PublishStands(r, j)
      BY <2>4 DEF Calm
    <3>2. PastLoad(r, j)
      BY <2>4 DEF PastLoad, Publishing, On
    <3>3. workflow'[j] = workflow[j]
      BY <3>2, UnderWay DEF QuietRun
    <3> QED
      BY <1>1, <2>4, <3>1, <3>3 DEF PublishStands, QuietRow
  <2> QED
    BY <1>4, <2>1, <2>2, <2>3, <2>4 DEF QuietRequests, On
<1>5. OnePublish(j)'
  <2>1. \A r \in Requests : PastLoad(r, j)' => PastLoad(r, j)
    BY DEF QuietRequests, PastLoad, Publishing, On
  <2> QED
    BY <2>1 DEF Calm, OnePublish
<1> QED
  BY <1>2, <1>3, <1>4, <1>5 DEF Calm

-----------------------------------------------------------------------------
(* Steps of the API.                                                       *)

\* The row of a new job: nobody else is at work on the new id.
LEMMA CreateStep ==
    ASSUME OInv, NEW r \in Requests, NEW j \in Jobs, NEW d \in Descriptions,
           NEW skills \in SUBSET {"asked"}, CreateJob(r, j, d, skills)
    PROVE  Calm(j)'
<1> DEFINE row == [status |-> "draft", description |-> d,
                   structured_content |-> None, extracted_keywords |-> None,
                   required_skills |-> skills]
           x == [op |-> "create", job |-> j, patch |-> None, step |-> "refresh", row |-> row]
<1>1. row.status = "draft" /\ x.op # "publish" /\ x.step # "start"
  OBVIOUS
<1>2. jobs' = [jobs EXCEPT ![j] = row] /\ request' = [request EXCEPT ![r] = x]
  BY DEF CreateJob
<1> HIDE DEF row, x
<1>3. /\ jobs'[j] = row /\ request'[r] = x
      /\ \A q \in Requests : q # r => request'[q] = request[q]
  BY <1>2 DEF OInv, IInv, TInv, TypeOK
<1>4. workflow[j].stage = "none" /\ UNCHANGED <<workflow, attempt>> /\ j \notin used
  BY DEF CreateJob, OInv, IInv, KnownJobs
<1>5. FollowsRun(j)'
  BY <1>1, <1>3, <1>4 DEF FollowsRun
<1>6. \A a \in Attempts : ~On(attempt[a], j)'
  BY <1>4 DEF On, OInv, IInv, KnownJobs
<1>7. \A q \in Requests : On(request[q], j)' => q = r \/ request'[q].step = "load"
  BY <1>3, <1>4 DEF On, OInv, IInv, KnownJobs
<1>8. \A q \in Requests : On(request[q], j)' => PublishStands(q, j)'
  BY <1>1, <1>3, <1>7 DEF PublishStands
<1>9. \A q \in Requests : ~PastLoad(q, j)'
  BY <1>1, <1>3, <1>7 DEF PastLoad, Publishing, On
<1> QED
  BY <1>5, <1>6, <1>8, <1>9 DEF Calm, OnePublish

\* A publish that goes on is the only one: the others had made the job
\* processing, or are about to, which contests it.
LEMMA LoadPublishStep ==
    ASSUME TInv, NEW j \in Jobs, Calm(j), NEW r \in Requests, LoadJob(r),
           request[r].job = j, request[r].op = "publish", ~AnswerTo(r),
           j \notin contested'
    PROVE  Calm(j)'
<1> DEFINE q == request[r]
<1>1. q # None /\ q \in ApiRequests
  BY RequestType DEF LoadJob, At
<1>2. /\ request' = [request EXCEPT ![r].row = jobs[j], ![r].step = "commit"]
      /\ jobs[j] # None /\ Publishable(jobs[j])
      /\ \A s \in Requests : ~AboutToPublish(s, j)
      /\ UNCHANGED <<jobs, workflow, attempt>>
  BY DEF LoadJob
<1>3. /\ \A s \in Requests : s # r => request'[s] = request[s]
      /\ request'[r].row = jobs[j] /\ request'[r].step = "commit"
      /\ request'[r].op = "publish" /\ request'[r].job = j
  BY <1>1, <1>2 DEF TInv, TypeOK, ApiRequests
<1>4. Marked(j)' <=> Marked(j)
  BY <1>2 DEF Marked
<1>5. FollowsRun(j)'
  BY <1>2, <1>4 DEF Calm, FollowsRun
<1>6. \A a \in Attempts : On(attempt[a], j)' => MarkStands(a)'
  BY <1>2 DEF Calm, On, MarkStands
<1>7. ASSUME NEW s \in Requests, On(request[s], j)' PROVE PublishStands(s, j)'
  <2>1. CASE s = r
    BY <1>2, <1>3, <2>1 DEF PublishStands
  <2>2. CASE s # r
    <3>1. PublishStands(s, j)
      BY <1>3, <1>7, <2>2 DEF Calm, On
    <3> QED
      BY <1>2, <1>3, <1>4, <2>2, <3>1 DEF PublishStands
  <2> QED
    BY <2>1, <2>2
<1>8. ASSUME NEW s \in Requests, s # r PROVE ~PastLoad(s, j)'
  <2>1. PastLoad(s, j)' => PastLoad(s, j)
    BY <1>3, <1>8 DEF PastLoad, Publishing
  <2>2. ASSUME PastLoad(s, j) PROVE FALSE
    <3>1. PublishStands(s, j) /\ request[s].op = "publish" /\ request[s].step # "commit"
      BY <1>2, <2>2 DEF PastLoad, Publishing, Calm, On, AboutToPublish, At
    <3>2. request[s].step \in {"refresh", "announce", "start"}
      BY <2>2, <3>1, RequestType DEF PastLoad, Publishing, ApiRequests
    <3> QED
      BY <1>2, <3>1, <3>2 DEF PublishStands, Publishable
  <2> QED
    BY <2>1, <2>2
<1>9. OnePublish(j)'
  BY <1>8 DEF OnePublish
<1> QED
  BY <1>5, <1>6, <1>7, <1>9 DEF Calm

\* The commit of a publish: no run is under way, or it has written the status
\* already.
LEMMA CommitPublishStep ==
    ASSUME TInv, NEW j \in Jobs, jobs[j] # None, Calm(j), NEW r \in Requests, CommitJob(r),
           request[r].job = j, request[r].op = "publish"
    PROVE  Calm(j)'
<1> DEFINE q == request[r]
           new == [q.row EXCEPT !.status = "processing"]
<1>1. q # None /\ q.step = "commit" /\ q \in ApiRequests /\ q.row \in Rows /\ jobs[j] \in Rows
  BY RequestType DEF CommitJob, At, TInv, RowsAtHand
<1>2. new \in Rows /\ new.status = "processing"
  BY <1>1 DEF Rows, JobStatus
<1>3. q.row.status = jobs[j].status /\ Publishable(jobs[j]) /\ PastLoad(r, j)
  BY <1>1 DEF Calm, On, PublishStands, PastLoad, Publishing
<1>4. Flush(j, q.row, new) /\ Step(r, "refresh") /\ UNCHANGED <<workflow, attempt>>
  BY DEF CommitJob, CanFlush, apiOthers
<1> HIDE DEF new
<1>5. jobs'[j] = Merge(jobs[j], q.row, new)
  BY <1>4 DEF Flush, TInv, TypeOK
<1>6. jobs'[j].status = "processing"
  <2>1. Merge(jobs[j], q.row, new).status = Written(jobs[j].status, q.row.status, new.status)
    BY DEF Merge
  <2> QED
    BY <1>2, <1>3, <1>5, <2>1 DEF Written
<1>7. Marked(j)' <=> Marked(j)
  BY <1>4 DEF Marked
<1>8. /\ workflow[j].stage \in {"none", "mark_failed", "raised"}
      /\ workflow[j].stage = "mark_failed" => Marked(j)
  BY <1>3, StagesOfARun DEF Calm, FollowsRun, Publishable
<1>9. FollowsRun(j)'
  BY <1>4, <1>6, <1>7, <1>8 DEF FollowsRun
<1>10. \A a \in Attempts : On(attempt[a], j)' => MarkStands(a)'
  BY <1>4 DEF Calm, On, MarkStands
<1>11. /\ \A s \in Requests : s # r => request'[s] = request[s]
       /\ request'[r].step = "refresh" /\ request'[r].op = "publish" /\ request'[r].job = j
  BY <1>1, <1>4 DEF Step, TInv, TypeOK, ApiRequests
<1>12. ASSUME NEW s \in Requests, s # r, On(request[s], j)' PROVE ~PastLoad(s, j) /\ request'[s] = request[s]
  BY <1>3, <1>11, <1>12 DEF Calm, OnePublish
<1>13. ASSUME NEW s \in Requests, On(request[s], j)' PROVE PublishStands(s, j)'
  <2>1. CASE s = r
    BY <1>4, <1>6, <1>7, <1>8, <1>11, <2>1 DEF PublishStands
  <2>2. CASE s # r
    <3>1. PublishStands(s, j) /\ ~PastLoad(s, j) /\ request'[s] = request[s]
      BY <1>12, <1>13, <2>2 DEF Calm, On
    <3>2. request[s].op # "publish" \/ request[s].step = "load"
      BY <1>13, <3>1 DEF PastLoad, Publishing, On
    <3> QED
      BY <3>1, <3>2 DEF PublishStands
  <2> QED
    BY <2>1, <2>2
<1>14. OnePublish(j)'
  BY <1>12 DEF OnePublish, PastLoad, Publishing, On
<1> QED
  BY <1>9, <1>10, <1>13, <1>14 DEF Calm

\* The start of a run: the job is processing and stays so.
LEMMA StartStep ==
    ASSUME TInv, NEW j \in Jobs, jobs[j] # None, Calm(j), NEW r \in Requests,
           StartWorkflow(r), request[r].job = j
    PROVE  Calm(j)'
<1>1. request[r] # None /\ request[r].step = "start" /\ On(request[r], j)
  BY DEF StartWorkflow, At, On
<1>2. PublishStands(r, j) /\ request[r].op = "publish" /\ PastLoad(r, j)
  BY <1>1 DEF Calm, PublishStands, PastLoad, Publishing, On
<1>3. /\ jobs[j].status = "processing"
      /\ workflow[j].stage \in {"none", "mark_failed", "raised"}
      /\ workflow[j].stage = "mark_failed" => Marked(j)
  BY <1>1, <1>2 DEF PublishStands
<1>4. UNCHANGED <<jobs, attempt>> /\ (Marked(j)' <=> Marked(j))
  BY DEF StartWorkflow, Marked
<1>5. \/ workflow'[j].stage = "breakdown"
      \/ workflow'[j] = workflow[j] /\ workflow[j].stage = "mark_failed"
  BY <1>3 DEF StartWorkflow, TInv, TypeOK, Activities
<1>6. FollowsRun(j)'
  BY <1>3, <1>4, <1>5 DEF FollowsRun
<1>7. \A a \in Attempts : On(attempt[a], j)' => MarkStands(a)'
  BY <1>4 DEF Calm, On, MarkStands
<1>8. request'[r] = None /\ \A s \in Requests : s # r => request'[s] = request[s]
  BY DEF StartWorkflow, AnswerTo, TInv, TypeOK
<1>9. ASSUME NEW s \in Requests, On(request[s], j)'
      PROVE  /\ On(request[s], j) /\ ~PastLoad(s, j) /\ request'[s] = request[s]
  BY <1>2, <1>8, <1>9 DEF Calm, OnePublish, On
<1>10. \A s \in Requests : On(request[s], j)' => PublishStands(s, j)'
  BY <1>9 DEF Calm, PublishStands, PastLoad, Publishing, On
<1>11. OnePublish(j)'
  BY <1>9 DEF OnePublish, PastLoad, Publishing, On
<1> QED
  BY <1>6, <1>7, <1>10, <1>11 DEF Calm

\* A step of one request that does not move the status of j, nor its run.
LEMMA RequestOnly ==
    ASSUME TInv, NEW j \in Jobs, Calm(j), QuietRow(j), QuietRequests(j),
           UNCHANGED <<workflow, attempt>>
    PROVE  Calm(j)'
<1>1. QuietAttempts(j) /\ QuietRun(j)
  BY DEF QuietAttempts, QuietRun
<1> QED
  BY <1>1, QuietStep

LEMMA Answered ==
    ASSUME TInv, NEW j \in Jobs, NEW r \in Requests, AnswerTo(r)
    PROVE  QuietRequests(j)
BY DEF AnswerTo, QuietRequests, On, TInv, TypeOK

LEMMA UpdateStep ==
    ASSUME TInv, NEW j \in Jobs, jobs[j] # None, Calm(j), NEW r \in Requests, CommitJob(r),
           request[r].job # j \/ request[r].op # "publish"
    PROVE  Calm(j)'
<1> DEFINE q == request[r]
           new == IF q.op = "publish" THEN [q.row EXCEPT !.status = "processing"]
                  ELSE Updated(q.row, q.patch)
<1>1. /\ q # None /\ q \in ApiRequests /\ q.row \in Rows /\ q.job \in Jobs
      /\ q.op \in {"update", "publish"}
      /\ q.op = "update" => q.patch \in AllPatches
  <2>1. q # None /\ q.step = "commit" /\ q.op # "delete"
    BY DEF CommitJob, At
  <2>2. q.op # "create" /\ q.row \in Rows
    BY <2>1 DEF TInv, RowsAtHand
  <2> QED
    BY <2>1, <2>2, RequestType
<1>2. q.job = j => new \in Rows /\ new.status = q.row.status
  BY <1>1, UpdatedIsRow DEF Updated, Rows
<1>3. UNCHANGED <<workflow, attempt>>
  BY DEF CommitJob, apiOthers
<1>4. \/ Flush(q.job, q.row, new) /\ Step(r, "refresh")
      \/ AnswerTo(r) /\ UNCHANGED jobs
  BY DEF CommitJob
<1> HIDE DEF new
<1>5. CASE AnswerTo(r) /\ UNCHANGED jobs
  BY <1>3, <1>5, Answered, RequestOnly DEF QuietRow
<1>6. CASE Flush(q.job, q.row, new) /\ Step(r, "refresh")
  <2>1. jobs'[j] = IF j = q.job THEN Merge(jobs[j], q.row, new) ELSE jobs[j]
    BY <1>1, <1>6 DEF Flush, TInv, TypeOK
  <2>2. j = q.job => /\ Merge(jobs[j], q.row, new) \in Rows
                     /\ Merge(jobs[j], q.row, new).status = jobs[j].status
    <3>1. Merge(jobs[j], q.row, new).status = Written(jobs[j].status, q.row.status, new.status)
      BY DEF Merge
    <3> QED
      BY <1>1, <1>2, <3>1, MergeIsRow DEF Written, TInv, TypeOK
  <2>3. QuietRow(j)
    BY <2>1, <2>2, NoneAssumption DEF QuietRow
  <2>4. /\ \A s \in Requests : s # r => request'[s] = request[s]
        /\ request'[r].step = "refresh" /\ request'[r].op = q.op /\ request'[r].job = q.job
    BY <1>1, <1>6 DEF Step, TInv, TypeOK, ApiRequests
  <2>5. QuietRequests(j)
    BY <1>1, <2>4 DEF QuietRequests, On
  <2> QED
    BY <1>3, <2>3, <2>5, RequestOnly
<1> QED
  BY <1>4, <1>5, <1>6

LEMMA ApiSteps ==
    ASSUME TInv, NEW j \in Jobs, jobs[j] # None, Calm(j), jobs'[j] # None,
           j \notin contested', NEW r \in Requests, Api(r)
    PROVE  Calm(j)'
<1> DEFINE q == request[r]
<1>1. q # None /\ q \in ApiRequests /\ q.job \in Jobs
  BY RequestType
  DEF Api, LoadJob, CommitJob, DeleteJob, RefreshJob, AnnounceJob, StartWorkflow, StartFails, At
<1>2. AnswerTo(r) /\ UNCHANGED <<jobs, workflow, attempt>> => Calm(j)'
  BY Answered, RequestOnly DEF QuietRow
<1>3. ASSUME NEW step, NEW row, request' = [request EXCEPT ![r].row = row, ![r].step = step]
      PROVE  /\ \A s \in Requests : s # r => request'[s] = request[s]
             /\ request'[r].step = step /\ request'[r].op = q.op /\ request'[r].job = q.job
  BY <1>1, <1>3 DEF TInv, TypeOK, ApiRequests
<1>4. ASSUME NEW step, Step(r, step)
      PROVE  /\ \A s \in Requests : s # r => request'[s] = request[s]
             /\ request'[r].step = step /\ request'[r].op = q.op /\ request'[r].job = q.job
  BY <1>1, <1>4 DEF Step, TInv, TypeOK, ApiRequests
<1>5. CASE LoadJob(r)
  <2>1. CASE AnswerTo(r)
    BY <1>2, <1>5, <2>1 DEF LoadJob
  <2>2. CASE q.job = j /\ q.op = "publish" /\ ~AnswerTo(r)
    BY <1>5, <2>2, LoadPublishStep
  <2>3. q.step = "load"
    BY <1>5 DEF LoadJob, At
  <2>4. CASE ~(q.job = j /\ q.op = "publish") /\ ~AnswerTo(r)
    <3>1. request' = [request EXCEPT ![r].row = jobs[q.job], ![r].step = "commit"]
      BY <1>5, <2>4 DEF LoadJob
    <3>2. /\ \A s \in Requests : s # r => request'[s] = request[s]
          /\ request'[r].step = "commit" /\ request'[r].op = q.op /\ request'[r].job = q.job
      BY <1>3, <3>1
    <3>3. QuietRequests(j)
      BY <2>3, <2>4, <3>2 DEF QuietRequests, On
    <3> QED
      BY <1>5, <3>3, RequestOnly DEF LoadJob, QuietRow
  <2> QED
    BY <2>1, <2>2, <2>4
<1>6. CASE CommitJob(r)
  BY <1>6, CommitPublishStep, UpdateStep
<1>7. CASE DeleteJob(r)
  <2>1. Step(r, "announce") /\ q.op = "delete" /\ UNCHANGED <<workflow, attempt>>
    BY <1>7 DEF DeleteJob, apiOthers
  <2>2. QuietRequests(j)
    BY <1>4, <2>1 DEF QuietRequests, On
  <2>3. QuietRow(j)
    BY <1>1, <1>7 DEF DeleteJob, QuietRow, TInv, TypeOK
  <2> QED
    BY <2>1, <2>2, <2>3, RequestOnly
<1>8. CASE RefreshJob(r)
  <2>1. CASE AnswerTo(r)
    BY <1>2, <1>8, <2>1 DEF RefreshJob, apiOthers
  <2>2. CASE request' = [request EXCEPT ![r].row = jobs[q.job], ![r].step = "announce"]
    <3>1. /\ \A s \in Requests : s # r => request'[s] = request[s]
          /\ request'[r].step = "announce" /\ request'[r].op = q.op /\ request'[r].job = q.job
      BY <1>3, <2>2
    <3>2. q.step = "refresh"
      BY <1>8 DEF RefreshJob, At
    <3>3. QuietRequests(j)
      BY <1>1, <3>1, <3>2 DEF QuietRequests, On
    <3> QED
      BY <1>8, <3>3, RequestOnly DEF RefreshJob, apiOthers, QuietRow
  <2> QED
    BY <1>8, <2>1, <2>2 DEF RefreshJob
<1>9. CASE AnnounceJob(r)
  <2>1. CASE AnswerTo(r)
    BY <1>2, <1>9, <2>1 DEF AnnounceJob, apiOthers
  <2>2. CASE q.op = "publish" /\ Step(r, "start")
    <3>1. /\ \A s \in Requests : s # r => request'[s] = request[s]
          /\ request'[r].step = "start" /\ request'[r].op = q.op /\ request'[r].job = q.job
      BY <1>4, <2>2
    <3>2. q.step = "announce"
      BY <1>9 DEF AnnounceJob, At
    <3>3. QuietRequests(j)
      BY <1>1, <2>2, <3>1, <3>2 DEF QuietRequests, On
    <3> QED
      BY <1>9, <3>3, RequestOnly DEF AnnounceJob, apiOthers, QuietRow
  <2> QED
    BY <1>9, <2>1, <2>2 DEF AnnounceJob
<1>10. CASE StartFails(r)
  BY <1>2, <1>10 DEF StartFails, apiOthers
<1>11. CASE StartWorkflow(r)
  <2>1. CASE q.job = j
    BY <1>11, <2>1, StartStep
  <2>2. CASE q.job # j
    <3>1. workflow'[j] = workflow[j] /\ UNCHANGED <<jobs, attempt>> /\ AnswerTo(r)
      BY <1>11, <2>2 DEF StartWorkflow, TInv, TypeOK
    <3>2. QuietRow(j) /\ QuietRequests(j) /\ QuietAttempts(j) /\ QuietRun(j)
      BY <3>1, Answered DEF QuietRow, QuietAttempts, QuietRun
    <3> QED
      BY <3>2, QuietStep
  <2> QED
    BY <2>1, <2>2
<1> QED
  BY <1>5, <1>6, <1>7, <1>8, <1>9, <1>10, <1>11 DEF Api

-----------------------------------------------------------------------------
(* Steps of the worker.                                                    *)

\* What the end of an attempt does to j, and to the run of j.
LEMMA AttemptEnds ==
    ASSUME TInv, NEW j \in Jobs, Calm(j), QuietRow(j),
           NEW a \in Attempts, attempt[a] # None, attempt[a].step # "announce",
           \/ EndBadly(a)
           \/ EndWell(a) /\ attempt[a].activity \in {"breakdown", "extract"},
           UNCHANGED request
    PROVE  Calm(j)'
<1> DEFINE t == attempt[a]
<1>1. t.job \in Jobs /\ t.activity \in Activities
  BY AttemptType
<1>2. attempt'[a] = None /\ \A b \in Attempts : b # a => attempt'[b] = attempt[b]
  BY DEF EndBadly, EndWell, End, TInv, TypeOK
<1>3. QuietAttempts(j)
  BY <1>2 DEF QuietAttempts, On
<1>4. QuietRequests(j)
  BY DEF QuietRequests
<1>5. QuietRun(j)
  <2>1. CASE ~t.awaited
    BY <2>1 DEF EndBadly, EndWell, QuietRun
  <2>2. CASE t.awaited /\ t.job # j
    <3>1. workflow'[j] = workflow[j]
      BY <1>1, <2>2 DEF EndBadly, EndWell, Succeeded, FailedOnce, TInv, TypeOK
    <3> QED
      BY <3>1 DEF QuietRun
  <2>3. CASE t.awaited /\ t.job = j
    <3>1. ~Marked(j) /\ workflow[j].stage = t.activity
      BY <2>3, Unmarked DEF On
    <3>2. CASE EndBadly(a)
      <4>1. AfterFailure(workflow[j]).stage \in Activities
        BY <1>1, <3>1 DEF AfterFailure, TInv, TypeOK, Activities
      <4> QED
        BY <1>1, <2>3, <3>1, <3>2, <4>1 DEF EndBadly, FailedOnce, QuietRun, TInv, TypeOK
    <3>3. CASE EndWell(a) /\ t.activity \in {"breakdown", "extract"}
      <4>1. AfterSuccess(workflow[j].stage) \in Activities
        BY <3>1, <3>3 DEF AfterSuccess, Activities
      <4> QED
        BY <1>1, <2>3, <3>1, <3>3, <4>1 DEF EndWell, Succeeded, QuietRun, TInv, TypeOK
    <3> QED
      BY <3>2, <3>3
  <2> QED
    BY <1>1, <2>1, <2>2, <2>3, AttemptType
<1> QED
  BY <1>3, <1>4, <1>5, QuietStep

\* An attempt to mark the job that goes on: it was alone with its job.
LEMMA MarkGoesOn ==
    ASSUME TInv, NEW j \in Jobs, jobs[j] # None, Calm(j),
           NEW a \in Attempts, On(attempt[a], j), attempt[a].activity \in Marks,
           attempt[a].step # "announce"
    PROVE  /\ attempt[a].awaited /\ workflow[j].stage = attempt[a].activity
           /\ ~Marked(j) /\ jobs[j].status = "processing"
           /\ \A r \in Requests : ~PastLoad(r, j)
           /\ \A b \in Attempts : On(attempt[b], j) /\ attempt[b].activity \in Marks => b = a
<1>1. attempt[a].awaited
  BY DEF Calm, MarkStands
<1>2. ~Marked(j) /\ workflow[j].stage = attempt[a].activity
  BY <1>1, Unmarked
<1>3. workflow[j].stage \in Activities
  BY <1>2, AttemptType DEF On
<1>4. ASSUME NEW b \in Attempts, On(attempt[b], j), attempt[b].activity \in Marks PROVE b = a
  BY <1>1, <1>4 DEF Calm, MarkStands, On, TInv, OneAwaited, Awaited
<1> QED
  BY <1>1, <1>2, <1>3, <1>4, UnderWay

\* Requests of a job that nobody is publishing.
LEMMA NobodyPublishes ==
    ASSUME NEW j \in Jobs, Calm(j), UNCHANGED request,
           \A r \in Requests : ~PastLoad(r, j)
    PROVE  /\ \A r \in Requests : On(request[r], j)' => PublishStands(r, j)'
           /\ OnePublish(j)'
<1>1. ASSUME NEW r \in Requests, On(request[r], j) PROVE PublishStands(r, j)'
  <2>1. PublishStands(r, j) /\ (request[r].op = "publish" => request[r].step = "load")
    BY <1>1 DEF Calm, PastLoad, Publishing, On
  <2> QED
    BY <2>1 DEF PublishStands
<1> QED
  BY <1>1 DEF On, OnePublish, PastLoad, Publishing

\* mark_ready or mark_failed reads the row, on the way to its flush.
LEMMA LoadMarkStep ==
    ASSUME TInv, NEW j \in Jobs, jobs[j] # None, Calm(j),
           NEW a \in Attempts, LoadActivity(a), On(attempt[a], j),
           attempt[a].activity \in Marks
    PROVE  Calm(j)'
<1>1. /\ attempt[a].step = "load" /\ attempt[a] \in ActivityAttempts
      /\ UNCHANGED <<jobs, request, workflow>>
      /\ attempt' = [attempt EXCEPT ![a].row = jobs[j], ![a].step = "commit"]
  BY AttemptType DEF LoadActivity, AttemptAt, On, workerOthers
<1>2. /\ attempt[a].awaited /\ workflow[j].stage = attempt[a].activity
      /\ ~Marked(j) /\ jobs[j].status = "processing"
      /\ \A r \in Requests : ~PastLoad(r, j)
      /\ \A b \in Attempts : On(attempt[b], j) /\ attempt[b].activity \in Marks => b = a
  BY <1>1, MarkGoesOn
<1>3. /\ \A b \in Attempts : b # a => attempt'[b] = attempt[b]
      /\ attempt'[a].awaited /\ attempt'[a].row = jobs[j] /\ attempt'[a].step = "commit"
      /\ attempt'[a].activity = attempt[a].activity
  BY <1>1, <1>2 DEF TInv, TypeOK, ActivityAttempts
<1>4. ~Marked(j)'
  BY <1>2, <1>3 DEF Marked
<1>5. FollowsRun(j)'
  BY <1>1, <1>2, <1>4 DEF FollowsRun, Marks
<1>6. ASSUME NEW b \in Attempts, On(attempt[b], j)' PROVE MarkStands(b)'
  <2>1. CASE b = a
    BY <1>2, <1>3, <2>1 DEF MarkStands
  <2>2. CASE b # a
    BY <1>3, <1>6, <2>2 DEF Calm, MarkStands, On
  <2> QED
    BY <2>1, <2>2
<1> QED
  BY <1>1, <1>2, <1>5, <1>6, NobodyPublishes DEF Calm

\* The flush of mark_ready or mark_failed: the status was processing.
LEMMA MarkStep ==
    ASSUME TInv, NEW j \in Jobs, jobs[j] # None, Calm(j),
           NEW a \in Attempts, CommitActivity(a), On(attempt[a], j),
           attempt[a].activity \in Marks
    PROVE  Calm(j)'
<1> DEFINE new == Processed(attempt[a].activity, attempt[a].row)
<1>1. /\ attempt[a].step = "commit" /\ attempt[a] \in ActivityAttempts
      /\ attempt[a].activity \in Activities
      /\ attempt[a].row \in Rows /\ jobs[j] \in Rows /\ attempt[a].job = j
  BY AttemptType DEF CommitActivity, AttemptAt, On, TInv, TypeOK
<1>2. /\ attempt[a].awaited /\ workflow[j].stage = attempt[a].activity
      /\ ~Marked(j) /\ jobs[j].status = "processing"
      /\ \A r \in Requests : ~PastLoad(r, j)
      /\ \A b \in Attempts : On(attempt[b], j) /\ attempt[b].activity \in Marks => b = a
  BY <1>1, MarkGoesOn
<1>3. attempt[a].row.status = "processing"
  BY <1>1 DEF Calm, MarkStands
<1>4. new \in Rows /\ new.status = IF attempt[a].activity = "mark_ready" THEN "ready" ELSE "failed"
  BY <1>1, ProcessedIsRow DEF Processed, Rows, Marks
<1>5. /\ UNCHANGED <<workflow, request>>
      /\ attempt' = [attempt EXCEPT ![a].row = new, ![a].step = "announce"]
      /\ jobs' = [jobs EXCEPT ![j] = Merge(jobs[j], attempt[a].row, new)]
  BY <1>1 DEF CommitActivity, CanFlush, Flush, workerOthers, Marks
<1> HIDE DEF new
<1>6. jobs'[j].status = new.status
  <2>1. Merge(jobs[j], attempt[a].row, new).status
          = Written(jobs[j].status, attempt[a].row.status, new.status)
    BY DEF Merge
  <2>2. jobs'[j] = Merge(jobs[j], attempt[a].row, new)
    BY <1>5 DEF TInv, TypeOK
  <2> QED
    BY <1>2, <1>3, <2>1, <2>2 DEF Written
<1>7. /\ \A b \in Attempts : b # a => attempt'[b] = attempt[b]
      /\ attempt'[a] = [attempt[a] EXCEPT !.row = new, !.step = "announce"]
  BY <1>5 DEF TInv, TypeOK
<1>8. /\ attempt'[a].job = j /\ attempt'[a].awaited /\ attempt'[a].step = "announce"
      /\ attempt'[a] \in ActivityAttempts
  BY <1>1, <1>2, <1>4, <1>7 DEF ActivityAttempts
<1>9. Marked(j)'
  BY <1>8, FreeSlotAssumption DEF Marked
<1>10. FollowsRun(j)'
  BY <1>2, <1>4, <1>5, <1>6, <1>9 DEF FollowsRun, Marks
<1>11. ASSUME NEW b \in Attempts, On(attempt[b], j)' PROVE MarkStands(b)'
  <2>1. CASE b = a
    BY <1>8, <2>1 DEF MarkStands
  <2>2. CASE b # a
    BY <1>7, <1>11, <2>2 DEF Calm, MarkStands, On
  <2> QED
    BY <2>1, <2>2
<1> QED
  BY <1>2, <1>5, <1>10, <1>11, NobodyPublishes DEF Calm

\* mark_ready or mark_failed returns, and with it the run.
LEMMA MarkReturns ==
    ASSUME TInv, NEW j \in Jobs, jobs[j] # None, Calm(j),
           NEW a \in Attempts, AnnounceActivity(a), On(attempt[a], j)
    PROVE  Calm(j)'
<1>1. /\ attempt[a].step = "announce" /\ attempt[a].activity \in Marks
      /\ attempt[a].job = j /\ attempt[a] # None
  BY AttemptType DEF AnnounceActivity, AttemptAt, On
<1>2. attempt[a].awaited /\ workflow[j].stage = attempt[a].activity /\ Marked(j)
  BY <1>1, AttemptType DEF Calm, MarkStands, Marked
<1>3. /\ UNCHANGED <<jobs, request>> /\ attempt' = [attempt EXCEPT ![a] = None]
      /\ workflow' = [workflow EXCEPT
             ![j] = [stage |-> AfterSuccess(workflow[j].stage), failures |-> 0]]
  BY <1>1, <1>2 DEF AnnounceActivity, EndWell, End, Succeeded, workerOthers
<1>4. /\ attempt'[a] = None /\ \A b \in Attempts : b # a => attempt'[b] = attempt[b]
      /\ workflow'[j].stage = IF attempt[a].activity = "mark_ready" THEN "ready" ELSE "raised"
  BY <1>1, <1>2, <1>3 DEF AfterSuccess, TInv, TypeOK, Marks
<1>5. FollowsRun(j)'
  <2>1. attempt[a].activity = "mark_ready" => jobs[j].status = "ready"
    BY <1>2 DEF Calm, FollowsRun
  <2>2. attempt[a].activity = "mark_failed" => jobs[j].status \in {"processing", "failed"}
    BY <1>2 DEF Calm, FollowsRun
  <2> QED
    BY <1>1, <1>3, <1>4, <2>1, <2>2 DEF FollowsRun, Marks
<1>6. \A b \in Attempts : On(attempt[b], j)' => MarkStands(b)'
  BY <1>4 DEF Calm, On, MarkStands
<1>7. ASSUME NEW r \in Requests, On(request[r], j) PROVE PublishStands(r, j)'
  <2>1. PublishStands(r, j)
    BY <1>7 DEF Calm
  <2> QED
    BY <1>1, <1>2, <1>3, <1>4, <2>1 DEF PublishStands, Marks
<1>8. OnePublish(j)'
  BY <1>3 DEF Calm, OnePublish, PastLoad, Publishing
<1> QED
  BY <1>3, <1>5, <1>6, <1>7, <1>8 DEF Calm, On

LEMMA ActivitySteps ==
    ASSUME TInv, NEW j \in Jobs, jobs[j] # None, Calm(j), jobs'[j] # None,
           j \notin contested', NEW a \in Attempts,
           Advance(a) \/ ActivityFails(a) \/ Timeout(a) \/ Vanish(a)
    PROVE  Calm(j)'
<1> DEFINE t == attempt[a]
<1>1. t # None
  BY DEF Advance, LoadActivity, CommitActivity, AnnounceActivity, ActivityFails, Timeout,
         Vanish, AttemptAt
<1>2. /\ t \in ActivityAttempts /\ t.job \in Jobs /\ t.activity \in Activities
      /\ t.step # "load" => t.row \in Rows
      /\ t.step = "announce" => t.activity \in Marks
  BY <1>1, AttemptType
<1>3. UNCHANGED request => QuietRequests(j)
  BY DEF QuietRequests
<1>4. UNCHANGED jobs => QuietRow(j)
  BY DEF QuietRow
\* A flush that does not write the status of j.
<1>5. ASSUME Flush(t.job, t.row, Processed(t.activity, t.row)), t.step = "commit",
             t.job # j \/ t.activity \notin Marks
      PROVE  QuietRow(j)
  <2> DEFINE new == Processed(t.activity, t.row)
  <2>1. t.activity \notin Marks => new.status = t.row.status
    BY <1>2, <1>5, ProcessedOutputs DEF Marks
  <2>2. Flush(t.job, t.row, new)
    BY <1>5
  <2> HIDE DEF new
  <2>3. jobs'[j] = IF j = t.job THEN Merge(jobs[j], t.row, new) ELSE jobs[j]
    BY <1>2, <2>2 DEF Flush, TInv, TypeOK
  <2>4. Merge(jobs[j], t.row, new).status = Written(jobs[j].status, t.row.status, new.status)
    BY DEF Merge
  <2> QED
    BY <1>5, <2>1, <2>3, <2>4 DEF Written, QuietRow
\* An attempt that stays, without having written the status of j.
<1>6. ASSUME UNCHANGED request, QuietRow(j), workflow'[j] = workflow[j],
             \A b \in Attempts : b # a => attempt'[b] = attempt[b],
             On(attempt'[a], j) => attempt'[a].activity \notin Marks /\ attempt'[a].step # "announce",
             t.job # j \/ t.activity \notin Marks
      PROVE  Calm(j)'
  <2>1. QuietAttempts(j)
    BY <1>2, <1>6 DEF QuietAttempts, On
  <2> QED
    BY <1>3, <1>6, <2>1, QuietStep DEF QuietRun
<1>7. CASE LoadActivity(a)
  <2>1. t.step = "load" /\ UNCHANGED <<jobs, request>>
    BY <1>7 DEF LoadActivity, AttemptAt, workerOthers
  <2>2. CASE EndBadly(a)
    BY <1>1, <1>4, <2>1, <2>2, AttemptEnds
  <2>3. CASE t.job = j /\ t.activity \in Marks
    BY <1>1, <1>7, <2>3, LoadMarkStep DEF On
  <2>4. CASE ~EndBadly(a) /\ ~(t.job = j /\ t.activity \in Marks)
    <3>1. /\ attempt' = [attempt EXCEPT ![a].row = jobs[t.job], ![a].step = "commit"]
          /\ UNCHANGED workflow
      BY <1>7, <2>4 DEF LoadActivity
    <3>2. /\ \A b \in Attempts : b # a => attempt'[b] = attempt[b]
          /\ attempt'[a].job = t.job /\ attempt'[a].activity = t.activity
          /\ attempt'[a].step = "commit"
      BY <1>2, <3>1 DEF TInv, TypeOK, ActivityAttempts
    <3> QED
      BY <1>4, <1>6, <2>1, <2>4, <3>1, <3>2 DEF On
  <2> QED
    BY <2>2, <2>3, <2>4
<1>8. CASE CommitActivity(a)
  <2> DEFINE new == Processed(t.activity, t.row)
  <2>1. t.step = "commit" /\ UNCHANGED request
    BY <1>8 DEF CommitActivity, AttemptAt, workerOthers
  <2>2. CASE EndBadly(a) /\ UNCHANGED jobs
    BY <1>1, <1>4, <2>1, <2>2, AttemptEnds
  <2>3. CASE t.job = j /\ t.activity \in Marks
    BY <1>1, <1>8, <2>3, MarkStep DEF On
  <2>4. CASE /\ ~(EndBadly(a) /\ UNCHANGED jobs) /\ ~(t.job = j /\ t.activity \in Marks)
    <3>1. Flush(t.job, t.row, new)
      BY <1>8, <2>4 DEF CommitActivity
    <3>2. QuietRow(j)
      BY <1>5, <2>1, <2>4, <3>1
    <3>3. CASE t.activity \in Marks
      <4>1. /\ attempt' = [attempt EXCEPT ![a].row = new, ![a].step = "announce"]
            /\ UNCHANGED workflow
        BY <1>8, <2>4, <3>3 DEF CommitActivity, Marks
      <4>2. /\ \A b \in Attempts : b # a => attempt'[b] = attempt[b]
            /\ attempt'[a].job = t.job
        BY <1>2, <4>1 DEF TInv, TypeOK, ActivityAttempts
      <4> QED
        BY <1>6, <2>1, <2>4, <3>2, <3>3, <4>1, <4>2 DEF On
    <3>4. CASE t.activity \notin Marks
      <4>1. EndWell(a) /\ t.activity \in {"breakdown", "extract"}
        BY <1>2, <1>8, <2>4, <3>4 DEF CommitActivity, Marks, Activities
      <4> QED
        BY <1>1, <2>1, <3>2, <4>1, AttemptEnds
    <3> QED
      BY <3>3, <3>4
  <2> QED
    BY <2>2, <2>3, <2>4
<1>9. CASE AnnounceActivity(a)
  <2>1. CASE t.job = j
    BY <1>1, <1>9, <2>1, MarkReturns DEF On
  <2>2. CASE t.job # j
    <3>1. workflow'[j] = workflow[j] /\ UNCHANGED <<jobs, request>>
      BY <1>2, <1>9, <2>2 DEF AnnounceActivity, EndWell, Succeeded, workerOthers, TInv, TypeOK
    <3>2. attempt'[a] = None /\ \A b \in Attempts : b # a => attempt'[b] = attempt[b]
      BY <1>9 DEF AnnounceActivity, EndWell, End, TInv, TypeOK
    <3> QED
      BY <1>4, <1>6, <2>2, <3>1, <3>2 DEF On
  <2> QED
    BY <2>1, <2>2
<1>10. CASE ActivityFails(a)
  <2>1. t.step # "announce" /\ EndBadly(a) /\ UNCHANGED request
    BY <1>10 DEF ActivityFails, AttemptAt
  <2>2. CASE UNCHANGED jobs
    BY <1>1, <1>4, <2>1, <2>2, AttemptEnds
  <2>3. CASE ~UNCHANGED jobs
    <3>1. /\ t.step = "commit" /\ Flush(t.job, t.row, Processed(t.activity, t.row))
          /\ OutOfSight(a)
      BY <1>10, <2>3 DEF ActivityFails, AttemptAt
    <3>2. t.job # j \/ t.activity \notin Marks
      BY <3>1 DEF OutOfSight, Marks
    <3>3. QuietRow(j)
      BY <1>5, <3>1, <3>2
    <3> QED
      BY <1>1, <2>1, <3>3, AttemptEnds
  <2> QED
    BY <2>2, <2>3
<1>11. CASE Timeout(a)
  <2>1. /\ t.awaited /\ FailedOnce(t.job) /\ UNCHANGED <<jobs, request>>
        /\ attempt' = [attempt EXCEPT ![a].awaited = FALSE] /\ OutOfSight(a)
    BY <1>11 DEF Timeout
  <2>2. /\ \A b \in Attempts : b # a => attempt'[b] = attempt[b]
        /\ attempt'[a].job = t.job /\ attempt'[a].activity = t.activity
        /\ attempt'[a].step = t.step
    BY <1>2, <2>1 DEF TInv, TypeOK, ActivityAttempts
  <2>3. CASE t.job # j
    <3>1. workflow'[j] = workflow[j]
      BY <1>2, <2>1, <2>3 DEF FailedOnce, TInv, TypeOK
    <3> QED
      BY <1>4, <1>6, <2>1, <2>2, <2>3, <3>1 DEF On
  <2>4. CASE t.job = j
    <3>1. t.activity \notin Marks
      BY <2>1, <2>4 DEF OutOfSight, Marks
    <3>2. ~Marked(j) /\ workflow[j].stage = t.activity
      BY <1>1, <1>2, <2>1, <2>4, <3>1, Unmarked DEF On
    <3>3. AfterFailure(workflow[j]).stage \in Activities
      BY <1>2, <3>2 DEF AfterFailure, TInv, TypeOK, Activities
    <3>4. QuietRun(j)
      BY <1>2, <2>1, <2>4, <3>2, <3>3 DEF FailedOnce, QuietRun, TInv, TypeOK
    <3>5. QuietAttempts(j)
      BY <1>2, <2>2, <3>1 DEF QuietAttempts, On
    <3> QED
      BY <1>3, <1>4, <2>1, <3>4, <3>5, QuietStep
  <2> QED
    BY <2>3, <2>4
<1>12. CASE Vanish(a)
  <2>1. /\ ~t.awaited /\ attempt'[a] = None
        /\ \A b \in Attempts : b # a => attempt'[b] = attempt[b]
        /\ UNCHANGED <<jobs, request, workflow>>
    BY <1>12 DEF Vanish, End, workerOthers, TInv, TypeOK
  <2>2. t.job # j \/ t.activity \notin Marks
    BY <1>1, <2>1 DEF Calm, MarkStands, On
  <2> QED
    BY <1>4, <1>6, <2>1, <2>2 DEF On
<1> QED
  BY <1>7, <1>8, <1>9, <1>10, <1>11, <1>12 DEF Advance

-----------------------------------------------------------------------------
(* The invariant.                                                          *)

\* How a job comes to be contested, and stays it.
LEMMA ContestCases ==
    ASSUME TInv, [Next]_vars
    PROVE  \/ UNCHANGED contested
           \/ /\ UNCHANGED used
              /\ \E i \in Jobs :
                    /\ contested' = contested \cup {i}
                    /\ \/ UNCHANGED jobs
                       \/ \E a \in Attempts : Flushed(a) /\ attempt[a].job = i
<1>1. ASSUME NEW r \in Requests, LoadJob(r), ~UNCHANGED contested
      PROVE  /\ UNCHANGED <<jobs, used>> /\ request[r].job \in Jobs
             /\ contested' = contested \cup {request[r].job}
  BY <1>1, RequestType DEF LoadJob, At
<1>2. ASSUME NEW a \in Attempts, ActivityFails(a) \/ Timeout(a), ~UNCHANGED contested
      PROVE  /\ UNCHANGED used /\ attempt[a].job \in Jobs
             /\ contested' = contested \cup {attempt[a].job}
             /\ UNCHANGED jobs \/ Flushed(a)
  BY <1>2, AttemptType DEF ActivityFails, Timeout, OutOfSight, Flushed, AttemptAt
<1> QED
  BY <1>1, <1>2
  DEF Next, CreateJob, ReceiveCall, Api, CommitJob, DeleteJob, RefreshJob, AnnounceJob,
      StartWorkflow, StartFails, Schedule, Advance, LoadActivity, CommitActivity,
      AnnounceActivity, Vanish, Crash, apiOthers, workerOthers, vars

LEMMA CalmNext ==
    ASSUME OInv, [Next]_vars
    PROVE  CalmJobs'
<1> SUFFICES ASSUME NEW j \in Jobs, j \notin contested', jobs'[j] # None PROVE Calm(j)'
  BY DEF CalmJobs
<1>1. TInv
  BY DEF OInv, IInv
<1>2. ASSUME NEW r \in Requests, NEW i \in Jobs, NEW d \in Descriptions,
             NEW skills \in SUBSET {"asked"}, CreateJob(r, i, d, skills)
      PROVE  Calm(j)'
  <2>1. CASE i = j
    BY <1>2, <2>1, CreateStep
  <2>2. CASE i # j
    <3> DEFINE row == [status |-> "draft", description |-> d,
                       structured_content |-> None, extracted_keywords |-> None,
                       required_skills |-> skills]
               x == [op |-> "create", job |-> i, patch |-> None, step |-> "refresh", row |-> row]
    <3>1. x.op # "publish" /\ x.step # "start"
      OBVIOUS
    <3>2. /\ request' = [request EXCEPT ![r] = x] /\ jobs' = [jobs EXCEPT ![i] = row]
          /\ UNCHANGED <<workflow, attempt, contested>>
      BY <1>2 DEF CreateJob
    <3> HIDE DEF row, x
    <3>3. QuietRequests(j)
      BY <1>1, <3>1, <3>2 DEF QuietRequests, TInv, TypeOK
    <3>4. jobs'[j] = jobs[j]
      BY <1>1, <2>2, <3>2 DEF TInv, TypeOK
    <3>5. QuietRow(j) /\ jobs[j] # None /\ Calm(j)
      BY <3>2, <3>4 DEF QuietRow, OInv, CalmJobs
    <3> QED
      BY <1>1, <3>2, <3>3, <3>5, RequestOnly
  <2> QED
    BY <2>1, <2>2
<1>3. CASE ~ \E r \in Requests, i \in Jobs, d \in Descriptions, s \in SUBSET {"asked"} :
               CreateJob(r, i, d, s)
  <2>1. jobs[j] # None
    <3>1. ~ \E i \in Jobs : Created(i)
      BY <1>3
      DEF Created, Next, ReceiveCall, Api, LoadJob, CommitJob, DeleteJob, RefreshJob, AnnounceJob,
          StartWorkflow, StartFails, Schedule, Advance, LoadActivity, CommitActivity,
          AnnounceActivity, ActivityFails, Timeout, Vanish, Crash, apiOthers, workerOthers, vars
    <3> QED
      BY <1>1, <3>1, JobsCases DEF Saved, Flushed, Flush, TInv, TypeOK
  <2>2. j \notin contested
    BY <1>1, ContestCases
  <2>3. Calm(j)
    BY <2>1, <2>2 DEF OInv, CalmJobs
  <2>4. ASSUME NEW r \in Requests, NEW i \in Jobs, ReceiveCall(r, i) PROVE Calm(j)'
    <3>1. \A q \in Requests : request'[q] = request[q] \/ request'[q].step = "load"
      BY <1>1, <2>4 DEF ReceiveCall, Receive, TInv, TypeOK
    <3>2. QuietRequests(j) /\ QuietRow(j) /\ UNCHANGED <<workflow, attempt>>
      BY <2>4, <3>1 DEF QuietRequests, QuietRow, ReceiveCall, apiOthers
    <3> QED
      BY <1>1, <2>3, <3>2, RequestOnly
  <2>5. ASSUME NEW a \in Attempts, NEW i \in Jobs, Schedule(a, i) PROVE Calm(j)'
    <3>1. /\ attempt[a] = None /\ attempt'[a].step = "load" /\ attempt'[a].awaited
          /\ \A b \in Attempts : b # a => attempt'[b] = attempt[b]
      BY <1>1, <2>5 DEF Schedule, TInv, TypeOK
    <3>2. UNCHANGED <<jobs, request, workflow>>
      BY <2>5 DEF Schedule, workerOthers
    <3>3. QuietAttempts(j)
      BY <3>1 DEF QuietAttempts, On
    <3>4. QuietRequests(j) /\ QuietRow(j) /\ QuietRun(j)
      BY <3>2 DEF QuietRequests, QuietRow, QuietRun
    <3> QED
      BY <1>1, <2>3, <3>3, <3>4, QuietStep
  <2>6. CASE Crash \/ UNCHANGED vars
    <3>1. QuietRequests(j) /\ QuietRow(j) /\ UNCHANGED <<workflow, attempt>>
      BY <2>6 DEF Crash, vars, apiOthers, QuietRequests, QuietRow, On
    <3> QED
      BY <1>1, <2>3, <3>1, RequestOnly
  <2> QED
    BY <1>1, <1>3, <2>1, <2>3, <2>4, <2>5, <2>6, ApiSteps, ActivitySteps DEF Next
<1> QED
  BY <1>2, <1>3

\* A row the step flushed: its status is the one it had, or the one written.
LEMMA FlushedStatus ==
    ASSUME TInv, NEW j \in Jobs, NEW row \in Rows, NEW new \in Rows, Flush(j, row, new)
    PROVE  /\ \A i \in Jobs : i # j => jobs'[i] = jobs[i]
           /\ jobs[j] = None => jobs'[j] = None
           /\ jobs[j] # None =>
                 /\ jobs'[j] # None
                 /\ jobs'[j].status = Written(jobs[j].status, row.status, new.status)
<1>1. jobs'[j] = IF jobs[j] = None THEN None ELSE Merge(jobs[j], row, new)
  BY DEF Flush, TInv, TypeOK
<1>2. jobs[j] # None => Merge(jobs[j], row, new) \in Rows
  BY MergeIsRow DEF TInv, TypeOK
<1>3. Merge(jobs[j], row, new).status = Written(jobs[j].status, row.status, new.status)
  BY DEF Merge
<1> QED
  BY <1>1, <1>2, <1>3, NoneAssumption DEF Flush, TInv, TypeOK

\* What requests and attempts write into the status.
LEMMA SavedStatus ==
    ASSUME TInv, NEW r \in Requests, Saved(r)
    PROVE  /\ request[r].job \in Jobs /\ request[r] # None
           /\ \E row, new \in Rows :
                 /\ Flush(request[r].job, row, new)
                 /\ \/ new.status = row.status
                    \/ /\ PastLoad(r, request[r].job) /\ request[r].step = "commit"
                       /\ new.status = "processing"
<1>1. request[r] # None /\ request[r].step = "commit" /\ request[r].row \in Rows /\ request[r].job \in Jobs
  BY RequestType DEF Saved, At, TInv, RowsAtHand
<1> QED
  BY <1>1 DEF Saved, PastLoad, Publishing

LEMMA ProcessedStatus ==
    ASSUME TInv, NEW a \in Attempts, Flushed(a)
    PROVE  /\ attempt[a].job \in Jobs /\ attempt[a] # None /\ attempt[a].step = "commit"
           /\ \E row, new \in Rows :
                 /\ Flush(attempt[a].job, row, new)
                 /\ \/ new.status = row.status
                    \/ attempt[a].activity \in Marks /\ new.status \in {"ready", "failed"}
<1>1. /\ attempt[a] # None /\ attempt[a].step = "commit" /\ attempt[a].row \in Rows
      /\ attempt[a].job \in Jobs /\ attempt[a].activity \in Activities
  BY AttemptType DEF Flushed, AttemptAt
<1>2. /\ Processed(attempt[a].activity, attempt[a].row) \in Rows
      /\ \/ Processed(attempt[a].activity, attempt[a].row).status = attempt[a].row.status
         \/ /\ attempt[a].activity \in Marks
            /\ Processed(attempt[a].activity, attempt[a].row).status \in {"ready", "failed"}
  BY <1>1, ProcessedIsRow DEF Processed, Activities, Marks, Rows
<1> QED
  BY <1>1, <1>2 DEF Flushed

LEMMA CreatedRow ==
    ASSUME TInv, NEW j \in Jobs, Created(j)
    PROVE  /\ jobs'[j] # None /\ jobs'[j].status = "draft"
           /\ \A i \in Jobs : i # j => jobs'[i] = jobs[i]
<1>1. PICK row \in Rows : row.status = "draft" /\ jobs' = [jobs EXCEPT ![j] = row]
  BY DEF Created
<1>2. jobs'[j] = row /\ row # None
  BY <1>1, NoneAssumption DEF TInv, TypeOK
<1> QED
  BY <1>1, <1>2 DEF TInv, TypeOK

LEMMA LiveNext ==
    ASSUME OInv, [Next]_vars
    PROVE  LiveRows'
<1> SUFFICES ASSUME NEW i \in Jobs, jobs'[i] # None PROVE jobs'[i].status \in Promise!Live
  BY DEF LiveRows
<1>1. TInv /\ (jobs[i] # None => jobs[i].status \in Promise!Live)
  BY DEF OInv, IInv, LiveRows
<1>2. ASSUME NEW j \in Jobs, NEW row \in Rows, NEW new \in Rows, Flush(j, row, new),
             new.status = row.status \/ new.status \in Promise!Live
      PROVE  jobs'[i].status \in Promise!Live
  BY <1>1, <1>2, FlushedStatus DEF Written
<1>3. ASSUME NEW r \in Requests, Saved(r) PROVE jobs'[i].status \in Promise!Live
  BY <1>1, <1>2, <1>3, SavedStatus DEF Promise!Live
<1>4. ASSUME NEW a \in Attempts, Flushed(a) PROVE jobs'[i].status \in Promise!Live
  BY <1>1, <1>2, <1>4, ProcessedStatus DEF Promise!Live
<1>5. ASSUME NEW j \in Jobs, Created(j) PROVE jobs'[i].status \in Promise!Live
  BY <1>1, <1>5, CreatedRow DEF Promise!Live
<1>6. ASSUME NEW j \in Jobs, jobs' = [jobs EXCEPT ![j] = None]
      PROVE  jobs'[i].status \in Promise!Live
  BY <1>1, <1>6 DEF TInv, TypeOK
<1> QED
  BY <1>1, <1>3, <1>4, <1>5, <1>6, JobsCases

LEMMA OutcomeInvariant == Spec => []OInv
<1>1. Init => OInv
  BY ReadyInit DEF Init, OInv, LiveRows, CalmJobs
<1>2. OInv /\ [Next]_vars => OInv'
  BY ReadyStep, LiveNext, CalmNext DEF OInv
<1> QED
  BY <1>1, <1>2, PTL DEF Spec

-----------------------------------------------------------------------------
(* The theorems.                                                           *)

\* A job is ready exactly when its last run returned "ready", but for the
\* moment in which mark_ready is returning.  No failure, retry, late output,
\* update, restart or overlap lets the status of a job and its run disagree for
\* good, unless two publishes met on the job, or mark_ready or mark_failed was
\* given up or raised after its commit (activities.py mark_job_ready,
\* service.py request_publish).
THEOREM ReadyMeansReturned == Spec => []ReadyIffReturned
<1>1. ASSUME OInv, NEW j \in Jobs, j \notin contested, jobs[j] # None, ~Marked(j)
      PROVE  jobs[j].status = "ready" <=> workflow[j].stage = "ready"
  <2>1. TInv /\ FollowsRun(j)
    BY <1>1 DEF OInv, IInv, CalmJobs, Calm
  <2> QED
    BY <1>1, <2>1, StagesOfARun DEF FollowsRun
<1>2. OInv => ReadyIffReturned
  BY <1>1 DEF ReadyIffReturned
<1> QED
  BY <1>2, OutcomeInvariant, PTL

\* What JobLifecycle sees.
Status == [j \in Jobs |-> StatusOf(j)]

LEMMA LifecycleInit == Init => Promise!Init
BY DEF Init, Promise!Init, StatusOf

\* A step that concerns one job turns its status, or leaves it.
LEMMA StatusTurns ==
    ASSUME NEW j \in Jobs, UNCHANGED used,
           \A i \in Jobs : i # j => jobs'[i] = jobs[i]
    PROVE  Status' = [Status EXCEPT ![j] = Status'[j]]
BY DEF Status, StatusOf

LEMMA UsedCases ==
    ASSUME [Next]_vars
    PROVE  UNCHANGED used \/ \E j \in Jobs : Created(j)
<1>1. ASSUME NEW r \in Requests, NEW j \in Jobs, NEW d \in Descriptions,
             NEW skills \in SUBSET {"asked"}, CreateJob(r, j, d, skills)
      PROVE  Created(j)
  <2> DEFINE row == [status |-> "draft", description |-> d,
                     structured_content |-> None, extracted_keywords |-> None,
                     required_skills |-> skills]
  <2>1. row \in Rows /\ row.status = "draft"
    BY DEF Rows, JobStatus, Skills
  <2>2. jobs' = [jobs EXCEPT ![j] = row]
    BY <1>1 DEF CreateJob
  <2> HIDE DEF row
  <2> QED
    BY <1>1, <2>1, <2>2 DEF CreateJob, Created
<1> QED
  BY <1>1
  DEF Next, ReceiveCall, Api, LoadJob, CommitJob, DeleteJob, RefreshJob, AnnounceJob,
      StartWorkflow, StartFails, Schedule, Advance, LoadActivity, CommitActivity,
      AnnounceActivity, ActivityFails, Timeout, Vanish, Crash, apiOthers, workerOthers, vars

\* A flush turns the status as the lifecycle says, or contests the job.
LEMMA FlushTurns ==
    ASSUME OInv, NEW j \in Jobs, NEW row \in Rows, NEW new \in Rows, Flush(j, row, new),
           UNCHANGED used,
           new.status = row.status \/ new.status \in {"processing", "ready", "failed"},
           contested' = contested \/ contested' = contested \cup {j},
           jobs[j] # None /\ new.status # row.status /\ j \notin contested' =>
              \/ jobs[j].status \in {"draft", "failed"} /\ new.status = "processing"
              \/ jobs[j].status = "processing" /\ new.status \in {"ready", "failed"}
    PROVE  [Promise!Next]_<<Status, contested>>
<1>1. TInv
  BY DEF OInv, IInv
<1>2. /\ jobs[j] = None => jobs'[j] = None
      /\ jobs[j] # None =>
            /\ jobs'[j] # None
            /\ jobs'[j].status = Written(jobs[j].status, row.status, new.status)
  BY <1>1, FlushedStatus
<1>3. Status' = [Status EXCEPT ![j] = Status'[j]]
  BY <1>1, FlushedStatus, StatusTurns
<1>4. CASE Status'[j] = Status[j]
  <2>1. UNCHANGED Status
    BY <1>3, <1>4 DEF Status
  <2> QED
    BY <2>1 DEF Promise!Next, Promise!Contest, Status
<1>5. CASE Status'[j] # Status[j]
  <2>1. /\ jobs[j] # None /\ Status[j] = jobs[j].status /\ Status[j] \in Promise!Live
        /\ Status'[j] = new.status /\ new.status # row.status
    BY <1>2, <1>5 DEF Status, StatusOf, Written, OInv, LiveRows
  <2>2. Status'[j] \in Promise!Live
    BY <2>1 DEF Promise!Live
  <2>3. CASE contested' = contested \cup {j}
    BY <1>3, <2>1, <2>2, <2>3 DEF Promise!Next, Promise!Contest, Status
  <2>4. CASE contested' = contested /\ j \notin contested
    <3>1. CASE jobs[j].status \in {"draft", "failed"} /\ new.status = "processing"
      BY <1>3, <2>1, <2>4, <3>1 DEF Promise!Next, Promise!Publish, Promise!Turn, Status
    <3>2. CASE jobs[j].status = "processing" /\ new.status \in {"ready", "failed"}
      BY <1>3, <2>1, <2>4, <3>2 DEF Promise!Next, Promise!Finish, Promise!Turn, Status
    <3> QED
      BY <2>1, <2>4, <3>1, <3>2
  <2> QED
    BY <2>3, <2>4
<1> QED
  BY <1>4, <1>5

LEMMA LifecycleNext ==
    ASSUME OInv, [Next]_vars
    PROVE  [Promise!Next]_<<Status, contested>>
<1>1. TInv /\ KnownJobs
  BY DEF OInv, IInv
<1>2. ASSUME NEW j \in Jobs, Created(j), UNCHANGED contested
      PROVE  [Promise!Next]_<<Status, contested>>
  <2>1. jobs[j] = None /\ j \notin used /\ used' = used \cup {j}
    BY <1>1, <1>2 DEF Created, KnownJobs
  <2>2. /\ jobs'[j] # None /\ jobs'[j].status = "draft"
        /\ \A i \in Jobs : i # j => jobs'[i] = jobs[i]
    BY <1>1, <1>2, CreatedRow
  <2>3. Status[j] = "unused" /\ Status' = [Status EXCEPT ![j] = "draft"]
    BY <2>1, <2>2 DEF Status, StatusOf
  <2> QED
    BY <1>2, <2>3 DEF Promise!Next, Promise!Create, Promise!Turn, Status
<1>3. ASSUME NEW j \in Jobs, jobs' = [jobs EXCEPT ![j] = None], UNCHANGED <<used, contested>>
      PROVE  [Promise!Next]_<<Status, contested>>
  <2>1. jobs'[j] = None /\ \A i \in Jobs : i # j => jobs'[i] = jobs[i]
    BY <1>1, <1>3 DEF TInv, TypeOK
  <2>2. CASE jobs[j] = None
    BY <1>3, <2>1, <2>2 DEF Status, StatusOf
  <2>3. CASE jobs[j] # None
    <3>1. Status[j] \in Promise!Live
      BY <2>3 DEF Status, StatusOf, OInv, LiveRows
    <3>2. Status'[j] = "gone"
      BY <1>1, <1>3, <2>1, <2>3 DEF Status, StatusOf, KnownJobs
    <3>3. Status' = [Status EXCEPT ![j] = Status'[j]]
      BY <1>3, <2>1, StatusTurns
    <3> QED
      BY <1>3, <3>1, <3>2, <3>3 DEF Promise!Next, Promise!Delete, Promise!Turn, Status
  <2> QED
    BY <2>2, <2>3
<1>4. ASSUME NEW r \in Requests, Saved(r), UNCHANGED <<used, contested>>
      PROVE  [Promise!Next]_<<Status, contested>>
  <2> DEFINE j == request[r].job
  <2>1. PICK row \in Rows, new \in Rows :
           /\ Flush(j, row, new)
           /\ \/ new.status = row.status
              \/ /\ PastLoad(r, j) /\ request[r].step = "commit"
                 /\ new.status = "processing"
    BY <1>1, <1>4, SavedStatus
  <2>2. j \in Jobs /\ request[r] # None
    BY <1>1, <1>4, SavedStatus
  <2>3. ASSUME jobs[j] # None, new.status # row.status, j \notin contested'
        PROVE  jobs[j].status \in {"draft", "failed"} /\ new.status = "processing"
    BY <1>4, <2>1, <2>2, <2>3
    DEF OInv, CalmJobs, Calm, PublishStands, Publishable, PastLoad, Publishing, On
  <2> QED
    BY <1>4, <2>1, <2>2, <2>3, FlushTurns
<1>5. ASSUME NEW a \in Attempts, Flushed(a), UNCHANGED used,
             contested' = contested \/ contested' = contested \cup {attempt[a].job}
      PROVE  [Promise!Next]_<<Status, contested>>
  <2> DEFINE j == attempt[a].job
  <2>1. PICK row \in Rows, new \in Rows :
           /\ Flush(j, row, new)
           /\ \/ new.status = row.status
              \/ attempt[a].activity \in Marks /\ new.status \in {"ready", "failed"}
    BY <1>1, <1>5, ProcessedStatus
  <2>2. j \in Jobs /\ attempt[a] # None /\ attempt[a].step = "commit"
    BY <1>1, <1>5, ProcessedStatus
  <2>3. ASSUME jobs[j] # None, new.status # row.status, j \notin contested'
        PROVE  jobs[j].status = "processing" /\ new.status \in {"ready", "failed"}
    <3>1. Calm(j) /\ On(attempt[a], j) /\ attempt[a].activity \in Marks
      BY <1>5, <2>1, <2>2, <2>3 DEF OInv, CalmJobs, On
    <3> QED
      BY <1>1, <2>1, <2>2, <2>3, <3>1, MarkGoesOn
  <2> QED
    BY <1>5, <2>1, <2>2, <2>3, FlushTurns
<1>6. ASSUME NEW i \in Jobs, contested' = contested \cup {i}, UNCHANGED <<jobs, used>>
      PROVE  [Promise!Next]_<<Status, contested>>
  <2>1. UNCHANGED Status
    BY <1>6 DEF Status, StatusOf
  <2> QED
    BY <1>6, <2>1 DEF Promise!Next, Promise!Contest, Status
<1>7. CASE UNCHANGED <<jobs, used, contested>>
  BY <1>7 DEF Status, StatusOf
<1>8. CASE ~UNCHANGED contested
  BY <1>1, <1>5, <1>6, <1>8, ContestCases
<1>9. CASE UNCHANGED contested /\ \E j \in Jobs : Created(j)
  BY <1>2, <1>9
<1>10. CASE UNCHANGED <<used, contested>> /\ ~UNCHANGED jobs /\ ~ \E j \in Jobs : Created(j)
  BY <1>1, <1>3, <1>4, <1>5, <1>10, JobsCases
<1> QED
  BY <1>7, <1>8, <1>9, <1>10, UsedCases

\* The status column, written by any number of recruiters and by a workflow
\* from copies of their own, moves as one writer would move it: draft or failed
\* to processing, processing to ready or failed, and nothing else, until two
\* writers of it meet on the job.  Then, too, a deleted job stays deleted, and
\* the status is one of the four that the service writes.
THEOREM OutcomeImplementsLifecycle == Spec => ImplementsLifecycle
<1>1. OInv /\ [Next]_vars =>
        [Promise!Next]_<<[j \in Jobs |-> StatusOf(j)], contested>>
  BY LifecycleNext DEF Status
<1> QED
  BY <1>1, LifecycleInit, OutcomeInvariant, PTL DEF Spec, ImplementsLifecycle, Promise!Spec

=============================================================================
