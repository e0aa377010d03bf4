--------------------------- MODULE JobPublishing ---------------------------
(***************************************************************************)
(* The jobs service: the recruiters' API, the table of jobs, and the       *)
(* Temporal workflow that turns a draft into a ready job.                  *)
(*                                                                         *)
(* Three kinds of process share a row: API requests, the workflow (at most *)
(* one run per job, Temporal sees to it by the workflow id), and attempts  *)
(* of activities in the worker.  Each of them loads the row, computes on   *)
(* its copy and flushes the columns it changed; everything else can happen *)
(* in between.  Temporal stops waiting for an attempt at its               *)
(* start-to-close timeout and schedules the next, but nothing stops the    *)
(* attempt itself: it goes on behind the workflow's back.                  *)
(***************************************************************************)
EXTENDS Integers, FiniteSets

CONSTANTS
    Jobs,          \* job ids
    Requests,      \* slots for API requests in flight
    Attempts,      \* slots for activity attempts running in the worker
    MaxAttempts,   \* _RETRY.maximum_attempts
    Descriptions,  \* job texts, each naming one known skill: itself
    Patches,       \* the updates recruiters send
    Faults,        \* the kinds of fault that occur
    MaxFaults,     \* how many activity errors and timeouts occur
    None           \* no row, no process in the slot, a value not set

FaultKinds == {"api", "temporal", "activity", "timeout", "kafka"}

JobStatus == {"draft", "published", "processing", "ready", "failed"}

\* "asked" stands for what the recruiter typed in.
Skills == Descriptions \cup {"asked"}

\* A row.  The outputs of the workflow are abstracted to the description they
\* were derived from; None while there is none.
Rows == [status: JobStatus, description: Descriptions,
         structured_content: Descriptions \cup {None},
         extracted_keywords: Descriptions \cup {None},
         required_skills: SUBSET Skills]

\* What a PATCH sets; None for a field the payload leaves out.
AllPatches == [description: Descriptions \cup {None},
               required_skills: (SUBSET {"asked"}) \cup {None}]

ASSUME MaxAttemptsAssumption == MaxAttempts \in Nat \ {0}
ASSUME MaxFaultsAssumption   == MaxFaults \in Nat
ASSUME FaultsAssumption      == Faults \subseteq FaultKinds
ASSUME PatchesAssumption     == Patches \subseteq AllPatches
ASSUME NoneAssumption        == None \notin Descriptions /\ None \notin Rows

VARIABLES
    jobs,       \* the table: job -> row, None when there is none
    used,       \* the ids ever given to a job (uuid4: none is given twice)
    request,    \* the API requests in flight
    workflow,   \* per job, the latest run of its workflow
    attempt,    \* the activity attempts running in the worker
    lastEvent,  \* per job, what the last job.* event on the topic says
    faults,     \* activity errors and timeouts so far
    contested   \* history variable: the jobs whose status was, or may yet be,
                \* written by two writers that did not see each other

vars == <<jobs, used, request, workflow, attempt, lastEvent, faults, contested>>

Activities == {"breakdown", "extract", "mark_ready", "mark_failed"}

\* The stages of a run that has returned "ready" or raised.
Ended == {"ready", "raised"}

Init ==
    /\ jobs = [j \in Jobs |-> None]
    /\ used = {}
    /\ request = [r \in Requests |-> None]
    /\ workflow = [j \in Jobs |-> [stage |-> "none", failures |-> 0]]
    /\ attempt = [a \in Attempts |-> None]
    /\ lastEvent = [j \in Jobs |-> None]
    /\ faults = 0
    /\ contested = {}

-----------------------------------------------------------------------------
(* A session's flush, and the topic.                                       *)

\* A column is written if its value differs from the loaded one.
Written(current, old, new) == IF new # old THEN new ELSE current

Merge(current, row, new) ==
    [status |-> Written(current.status, row.status, new.status),
     description |-> Written(current.description, row.description, new.description),
     structured_content |->
        Written(current.structured_content, row.structured_content, new.structured_content),
     extracted_keywords |->
        Written(current.extracted_keywords, row.extracted_keywords, new.extracted_keywords),
     required_skills |->
        Written(current.required_skills, row.required_skills, new.required_skills)]

\* Without a change no UPDATE is sent; with one, the row must still be there.
CanFlush(j, row, new) == new = row \/ jobs[j] # None

\* Mutant: the whole row is written.
FlushAll(j, row, new) == jobs' = [jobs EXCEPT ![j] = IF @ = None THEN None ELSE new]

Flush(j, row, new) ==
    jobs' = [jobs EXCEPT ![j] = IF @ = None THEN None ELSE Merge(@, row, new)]

\* publish: fail-soft, the event may be dropped.
Announce(j, what) ==
    \/ lastEvent' = [lastEvent EXCEPT ![j] = what]
    \/ "kafka" \in Faults /\ UNCHANGED lastEvent

-----------------------------------------------------------------------------
(* API requests.                                                           *)

apiOthers == <<used, workflow, attempt, faults, contested>>

Step(r, step) == request' = [request EXCEPT ![r].step = step]

AnswerTo(r) == request' = [request EXCEPT ![r] = None]

At(r, step) == request[r] # None /\ request[r].step = step

Receive(r, op, j, patch, step) ==
    /\ request[r] = None
    /\ request' = [request EXCEPT ![r] =
          [op |-> op, job |-> j, patch |-> patch, step |-> step, row |-> None]]

\* create_job: the id is new, the INSERT always succeeds.
CreateJob(r, j, description, skills) ==
    LET row == [status |-> "draft", description |-> description,
                structured_content |-> None, extracted_keywords |-> None,
                required_skills |-> skills] IN
    /\ request[r] = None
    /\ j \notin used
    /\ used' = used \cup {j}
    /\ jobs' = [jobs EXCEPT ![j] = row]
    /\ request' = [request EXCEPT ![r] =
          [op |-> "create", job |-> j, patch |-> None, step |-> "refresh", row |-> row]]
    /\ UNCHANGED <<workflow, attempt, lastEvent, faults, contested>>

ReceiveCall(r, j) ==
    /\ \/ \E patch \in Patches : Receive(r, "update", j, patch, "load")
       \/ \E op \in {"publish", "delete"} : Receive(r, op, j, None, "load")
    /\ UNCHANGED <<jobs, lastEvent, apiOthers>>

\* Mutant: any job can be published.
PublishAny(row) == TRUE

\* Only draft or failed jobs can be published.
Publishable(row) == row.status \in {"draft", "failed"}

\* The row each operation flushes, computed from the row it loaded.
Updated(row, patch) ==
    [row EXCEPT
        !.description = IF patch.description = None THEN @ ELSE patch.description,
        !.required_skills = IF patch.required_skills = None THEN @ ELSE patch.required_skills]

\* A publish request that has found j publishable and not committed yet.
AboutToPublish(q, j) ==
    At(q, "commit") /\ request[q].op = "publish" /\ request[q].job = j

LoadJob(r) ==
    LET j == request[r].job
        row == jobs[j]
        publish == request[r].op = "publish"
        goesOn == row # None /\ (publish => Publishable(row)) IN
    /\ At(r, "load")
    /\ \/ ~goesOn /\ AnswerTo(r) /\ UNCHANGED contested      \* 404, 422
       \/ /\ goesOn
          /\ request' = [request EXCEPT ![r].row = row, ![r].step = "commit"]
          /\ contested' = IF publish /\ \E q \in Requests : AboutToPublish(q, j)
                          THEN contested \cup {j} ELSE contested
    /\ UNCHANGED <<jobs, used, workflow, attempt, lastEvent, faults>>

CommitJob(r) ==
    LET j == request[r].job
        row == request[r].row
        new == IF request[r].op = "publish"
               THEN [row EXCEPT !.status = "processing"]
               ELSE Updated(row, request[r].patch) IN
    /\ At(r, "commit") /\ request[r].op # "delete"
    /\ \/ CanFlush(j, row, new) /\ Flush(j, row, new) /\ Step(r, "refresh")
       \/ ~CanFlush(j, row, new) /\ AnswerTo(r) /\ UNCHANGED jobs   \* 500
    /\ UNCHANGED <<lastEvent, apiOthers>>

\* DELETE of a row that is gone already is no error.
DeleteJob(r) ==
    /\ At(r, "commit") /\ request[r].op = "delete"
    /\ jobs' = [jobs EXCEPT ![request[r].job] = None]
    /\ Step(r, "announce")
    /\ UNCHANGED <<lastEvent, apiOthers>>

RefreshJob(r) ==
    LET row == jobs[request[r].job] IN
    /\ At(r, "refresh")
    /\ IF row = None THEN AnswerTo(r)                        \* 500
       ELSE request' = [request EXCEPT ![r].row = row, ![r].step = "announce"]
    /\ UNCHANGED <<jobs, lastEvent, apiOthers>>

AnnounceJob(r) ==
    /\ At(r, "announce")
    /\ Announce(request[r].job,
                IF request[r].op = "delete" THEN "deleted" ELSE request[r].row.status)
    /\ IF request[r].op = "publish" THEN Step(r, "start") ELSE AnswerTo(r)
    /\ UNCHANGED <<jobs, apiOthers>>

\* TemporalPublisher.start: refused while a run with the same id is open.
StartWorkflow(r) ==
    LET j == request[r].job IN
    /\ At(r, "start")
    /\ workflow' = IF workflow[j].stage \in Activities THEN workflow
                   ELSE [workflow EXCEPT ![j] = [stage |-> "breakdown", failures |-> 0]]
    /\ AnswerTo(r)
    /\ UNCHANGED <<jobs, used, attempt, lastEvent, faults, contested>>

\* Temporal cannot be reached: 500, after `processing` was committed.
StartFails(r) ==
    /\ "temporal" \in Faults
    /\ At(r, "start")
    /\ AnswerTo(r)
    /\ UNCHANGED <<jobs, lastEvent, apiOthers>>

\* The API process stops and restarts.
Crash ==
    /\ "api" \in Faults
    /\ request' = [r \in Requests |-> None]
    /\ UNCHANGED <<jobs, lastEvent, apiOthers>>

-----------------------------------------------------------------------------
(* The workflow, driven by the results of its activities.                  *)

\* Mutant: the job is marked ready before its skills are extracted.
EarlyReady(stage) ==
    CASE stage = "breakdown"   -> "mark_ready"
      [] stage = "extract"     -> "ready"
      [] stage = "mark_ready"  -> "extract"
      [] stage = "mark_failed" -> "raised"

\* Mutant: the workflow does not raise after mark_failed.
NeverRaise(stage) ==
    CASE stage = "breakdown"   -> "extract"
      [] stage = "extract"     -> "mark_ready"
      [] stage = "mark_ready"  -> "ready"
      [] stage = "mark_failed" -> stage

AfterSuccess(stage) ==
    CASE stage = "breakdown"   -> "extract"
      [] stage = "extract"     -> "mark_ready"
      [] stage = "mark_ready"  -> "ready"
      [] stage = "mark_failed" -> "raised"

\* Mutant: one attempt too many.
OneMoreAttempt(run) ==
    IF run.stage = "mark_failed" THEN run
    ELSE IF run.failures < MaxAttempts THEN [run EXCEPT !.failures = @ + 1]
    ELSE [stage |-> "mark_failed", failures |-> 0]

\* _RETRY for the first three; mark_failed is called without a retry policy
\* and Temporal's default retries it without limit.
AfterFailure(run) ==
    IF run.stage = "mark_failed" THEN run
    ELSE IF run.failures + 1 < MaxAttempts THEN [run EXCEPT !.failures = @ + 1]
    ELSE [stage |-> "mark_failed", failures |-> 0]

Succeeded(j) ==
    workflow' = [workflow EXCEPT
        ![j] = [stage |-> AfterSuccess(workflow[j].stage), failures |-> 0]]

FailedOnce(j) == workflow' = [workflow EXCEPT ![j] = AfterFailure(workflow[j])]

-----------------------------------------------------------------------------
(* Activity attempts.  `awaited`: the workflow still waits for this one.   *)

workerOthers == <<used, request, contested>>

AttemptAt(a, step) == attempt[a] # None /\ attempt[a].step = step

\* Temporal schedules one attempt at a time of a job's current activity.
Schedule(a, j) ==
    /\ attempt[a] = None
    /\ workflow[j].stage \in Activities
    /\ \A b \in Attempts : attempt[b] # None => ~(attempt[b].job = j /\ attempt[b].awaited)
    /\ attempt' = [attempt EXCEPT ![a] =
          [job |-> j, activity |-> workflow[j].stage, step |-> "load",
           row |-> None, awaited |-> TRUE]]
    /\ UNCHANGED <<jobs, workflow, lastEvent, faults, workerOthers>>

\* What an attempt's end means to the workflow: nothing, if it timed out.
End(a) == attempt' = [attempt EXCEPT ![a] = None]

EndWell(a) ==
    /\ End(a)
    /\ IF attempt[a].awaited THEN Succeeded(attempt[a].job) ELSE UNCHANGED workflow

EndBadly(a) ==
    /\ End(a)
    /\ IF attempt[a].awaited THEN FailedOnce(attempt[a].job) ELSE UNCHANGED workflow

\* _load: a missing job is a ValueError.
LoadActivity(a) ==
    LET row == jobs[attempt[a].job] IN
    /\ AttemptAt(a, "load")
    /\ \/ row = None /\ EndBadly(a)
       \/ /\ row # None
          /\ attempt' = [attempt EXCEPT ![a].row = row, ![a].step = "commit"]
          /\ UNCHANGED workflow
    /\ UNCHANGED <<jobs, lastEvent, faults, workerOthers>>

Processed(activity, row) ==
    CASE activity = "breakdown"   -> [row EXCEPT !.structured_content = row.description]
      [] activity = "extract"     -> [row EXCEPT
                                        !.required_skills = @ \cup {row.description},
                                        !.extracted_keywords = row.description]
      [] activity = "mark_ready"  -> [row EXCEPT !.status = "ready"]
      [] activity = "mark_failed" -> [row EXCEPT !.status = "failed"]

CommitActivity(a) ==
    LET j == attempt[a].job
        row == attempt[a].row
        new == Processed(attempt[a].activity, row) IN
    /\ AttemptAt(a, "commit")
    /\ \/ ~CanFlush(j, row, new) /\ EndBadly(a) /\ UNCHANGED jobs
       \/ /\ CanFlush(j, row, new)
          /\ Flush(j, row, new)
          /\ IF attempt[a].activity \in {"mark_ready", "mark_failed"}
             THEN /\ attempt' = [attempt EXCEPT ![a].row = new, ![a].step = "announce"]
                  /\ UNCHANGED workflow
             ELSE EndWell(a)
    /\ UNCHANGED <<lastEvent, faults, workerOthers>>

AnnounceActivity(a) ==
    /\ AttemptAt(a, "announce")
    /\ Announce(attempt[a].job, attempt[a].row.status)
    /\ EndWell(a)
    /\ UNCHANGED <<jobs, faults, workerOthers>>

\* What an attempt wrote, or may yet write, the workflow does not know.
OutOfSight(a) ==
    contested' = IF attempt[a].activity \in {"mark_ready", "mark_failed"}
                 THEN contested \cup {attempt[a].job} ELSE contested

\* The attempt raises: the database is away.  An error at the commit leaves
\* open whether the server has committed.
ActivityFails(a) ==
    LET j == attempt[a].job
        row == attempt[a].row
        new == Processed(attempt[a].activity, row) IN
    /\ "activity" \in Faults /\ faults < MaxFaults
    /\ \/ attempt[a] # None /\ attempt[a].step # "announce"
          /\ UNCHANGED <<jobs, contested>>
       \/ AttemptAt(a, "commit") /\ CanFlush(j, row, new)
          /\ Flush(j, row, new) /\ OutOfSight(a)
    /\ EndBadly(a)
    /\ faults' = faults + 1
    /\ UNCHANGED <<lastEvent, used, request>>

\* The start-to-close timeout: the workflow gives the attempt up, the attempt
\* goes on.
Timeout(a) ==
    /\ "timeout" \in Faults /\ faults < MaxFaults
    /\ attempt[a] # None /\ attempt[a].awaited
    /\ FailedOnce(attempt[a].job)
    /\ attempt' = [attempt EXCEPT ![a].awaited = FALSE]
    /\ faults' = faults + 1
    /\ OutOfSight(a)
    /\ UNCHANGED <<jobs, lastEvent, used, request>>

\* An attempt that was given up dies with its worker.
Vanish(a) ==
    /\ attempt[a] # None /\ ~attempt[a].awaited
    /\ End(a)
    /\ UNCHANGED <<jobs, workflow, lastEvent, faults, workerOthers>>

-----------------------------------------------------------------------------

Api(r) ==
    \/ LoadJob(r) \/ CommitJob(r) \/ DeleteJob(r) \/ RefreshJob(r) \/ AnnounceJob(r)
    \/ StartWorkflow(r) \/ StartFails(r)

Advance(a) == LoadActivity(a) \/ CommitActivity(a) \/ AnnounceActivity(a)

Next ==
    \/ \E r \in Requests :
          \/ \E j \in Jobs, d \in Descriptions, s \in SUBSET {"asked"} : CreateJob(r, j, d, s)
          \/ \E j \in Jobs : ReceiveCall(r, j)
          \/ Api(r)
    \/ \E a \in Attempts :
          \/ \E j \in Jobs : Schedule(a, j)
          \/ Advance(a) \/ ActivityFails(a) \/ Timeout(a) \/ Vanish(a)
    \/ Crash

Spec == Init /\ [][Next]_vars

\* A worker is up, its event loop runs on and Temporal hands it the attempts
\* that are due.  Nothing makes recruiters act or the API finish a request; the
\* faults that count are finitely many.
FairSpec ==
    /\ Spec
    /\ \A a \in Attempts : WF_vars(Advance(a))
    /\ \A j \in Jobs : WF_vars(\E a \in Attempts : Schedule(a, j))

-----------------------------------------------------------------------------
(* Properties.                                                             *)

ApiRequests ==
    [op: {"create", "update", "publish", "delete"}, job: Jobs,
     patch: AllPatches \cup {None},
     step: {"load", "commit", "refresh", "announce", "start"}, row: Rows \cup {None}]

ActivityAttempts ==
    [job: Jobs, activity: Activities, step: {"load", "commit", "announce"},
     row: Rows \cup {None}, awaited: BOOLEAN]

ASSUME FreeSlotAssumption == None \notin ActivityAttempts

TypeOK ==
    /\ jobs \in [Jobs -> Rows \cup {None}]
    /\ used \subseteq Jobs
    /\ request \in [Requests -> ApiRequests \cup {None}]
    /\ workflow \in [Jobs -> [stage: Activities \cup Ended \cup {"none"},
                             failures: 0..(MaxAttempts - 1)]]
    /\ attempt \in [Attempts -> ActivityAttempts \cup {None}]
    /\ lastEvent \in [Jobs -> JobStatus \cup {"deleted", None}]
    /\ faults \in 0..MaxFaults
    /\ contested \subseteq Jobs

\* architecture.md: "a partial failure ends as `failed`, never a half-written
\* `ready`".  A ready job has both outputs of the workflow, whatever attempts
\* were retried, given up, or still run, and whatever recruiters did meanwhile.
ReadyIsComplete ==
    \A j \in Jobs : jobs[j] # None /\ jobs[j].status = "ready" =>
        /\ jobs[j].structured_content # None
        /\ jobs[j].extracted_keywords # None

\* mark_ready or mark_failed has written the status and not returned yet.
Marked(j) ==
    \E a \in Attempts : attempt[a] # None /\ attempt[a].job = j /\ attempt[a].step = "announce"

\* A job is ready exactly when its last run returned "ready", but for the moment
\* in which mark_ready is returning: a run that raises leaves no ready job
\* behind and nothing else makes one or takes it away.  Updates in flight,
\* overlapping requests, outputs written late by attempts that were given up
\* and lost commits of theirs included; excepted is only a job on which two
\* publishes met, or on which mark_ready or mark_failed was given up or raised
\* after its commit (activities.py mark_job_ready, service.py request_publish).
ReadyIffReturned ==
    \A j \in Jobs \ contested : jobs[j] # None /\ ~Marked(j) =>
        (jobs[j].status = "ready" <=> workflow[j].stage = "ready")

\* A run ends, well or badly, as long as the job is still there.
RunsEnd ==
    \A j \in Jobs : workflow[j].stage \in Activities ~>
        workflow[j].stage \in Ended \/ jobs[j] = None

-----------------------------------------------------------------------------
(* What the documentation promises and the code does not always keep.      *)

StatusOf(j) ==
    IF jobs[j] # None THEN jobs[j].status
    ELSE IF j \in used THEN "gone" ELSE "unused"

Promise == INSTANCE JobLifecycle WITH status <- [j \in Jobs |-> StatusOf(j)]

\* architecture.md: the status is the lifecycle of the job.  Any number of
\* writers flush it from copies of their own, and yet the column only moves as
\* if one of them had acted at once, until two of them meet on a job: what is
\* left then is that a deleted job stays deleted (service.py, activities.py).
ImplementsLifecycle == Promise!Spec

Documented == INSTANCE JobLifecycle
              WITH status <- [j \in Jobs |-> StatusOf(j)], contested <- {}

\* week-2-implementation.md: "only `draft` or `failed` may publish".  No two
\* writers ever meet on a job.
DocumentedLifecycle == Documented!Spec

Publishing(r, j) ==
    request[r] # None /\ request[r].op = "publish" /\ request[r].job = j

\* week-2-implementation.md: a failed job may be published again.  So that one
\* is always possible, somebody is at work on a job that is `processing`.
NeverStranded ==
    \A j \in Jobs : jobs[j] # None /\ jobs[j].status = "processing" =>
        \/ workflow[j].stage \in Activities
        \/ \E r \in Requests : Publishing(r, j)

=============================================================================
