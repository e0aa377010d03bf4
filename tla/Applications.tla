---------------------------- MODULE Applications ----------------------------
(***************************************************************************)
(* The applications service: candidates apply to jobs, recruiters move an  *)
(* application along the pipeline, candidates withdraw.                    *)
(*                                                                         *)
(* Every request is a coroutine of one asyncio process with a database     *)
(* session of its own, so other requests and the read-model consumer run   *)
(* at each of its awaits.  An action is the code between two awaits.       *)
(* Postgres runs at READ COMMITTED: a step sees the latest committed row,  *)
(* and an ORM UPDATE writes the columns computed from the row the session  *)
(* loaded, whatever was committed since.                                   *)
(***************************************************************************)
EXTENDS Integers, Sequences, FiniteSets

CONSTANTS
    Jobs,           \* job ids
    Candidates,     \* candidate ids
    Requests,       \* slots for requests in flight at the same time
    MaxActive,      \* settings.max_active_applications
    Targets,        \* the statuses recruiters ask for
    EventStatuses,  \* the job statuses that job.upserted events carry
    None            \* no request in the slot

ApplicationStatus ==
    {"applied", "screening", "interview", "offer", "hired", "rejected", "withdrawn"}

JobStatus == {"draft", "published", "processing", "ready", "failed"}

ACTIVE_APPLICATION_STATUSES == {"applied", "screening", "interview", "offer"}

ASSUME RequestsAssumption  == IsFiniteSet(Requests) /\ Requests # {}
ASSUME JobsAssumption      == IsFiniteSet(Jobs)
ASSUME MaxActiveAssumption == MaxActive \in Nat
ASSUME TargetsAssumption   == Targets \subseteq ApplicationStatus
ASSUME EventsAssumption    == EventStatuses \subseteq JobStatus

VARIABLES
    applications,   \* the table, keyed by its UNIQUE (job_id, candidate_id)
    jobRefs,        \* read model: job -> status, "none" when there is no row
    candidateRefs,  \* read model: the candidates that have a row
    pc,             \* per request: the await it is at
    call,           \* per request: what was asked
    loaded,         \* per request: the row its session holds
    response,       \* per request slot: the last answer given
    announced,      \* the application.* events ever appended to the topic
    committed,      \* history variable: statuses ever committed, per pair
    raced,          \* history variable: the pairs that two requests were
                    \* deciding about at once
    crowd           \* history variable: per candidate, how many of its requests
                    \* were ever about to write at once

vars == <<applications, jobRefs, candidateRefs, pc, call, loaded, response,
          announced, committed, raced, crowd>>

Pairs == Jobs \X Candidates

\* What a request asks for; `target` is the status it wants the row to have.
Calls == [op: {"apply", "advance", "withdraw"}, pair: Pairs,
          target: ApplicationStatus, idempotent: BOOLEAN]

ASSUME NoneAssumption == None \notin Calls

\* What a row's absence is: no status, no history.
NoRow == [status |-> "none", history |-> <<>>]

APPLICATION_TRANSITIONS ==
    [from \in ApplicationStatus |->
        {to \in ApplicationStatus : <<from, to>> \in
            {<<"applied", "screening">>, <<"applied", "rejected">>,
             <<"screening", "interview">>, <<"screening", "rejected">>,
             <<"interview", "offer">>, <<"interview", "rejected">>,
             <<"offer", "hired">>, <<"offer", "rejected">>}}]

\* The states `withdraw` refuses.
Terminal == {"hired", "rejected", "withdrawn"}

\* Job statuses open for applications.
Applyable == {"published", "ready"}

\* What count_active_for_candidate counts.
ActiveJobs(c) ==
    {j \in Jobs : applications[<<j, c>>].status \in ACTIVE_APPLICATION_STATUSES}

Init ==
    /\ applications = [p \in Pairs |-> NoRow]
    /\ jobRefs = [j \in Jobs |-> "none"]
    /\ candidateRefs = {}
    /\ pc = [r \in Requests |-> "idle"]
    /\ call = [r \in Requests |-> None]
    /\ loaded = [r \in Requests |-> NoRow]
    /\ response = [r \in Requests |-> "none"]
    /\ announced = {}
    /\ committed = {}
    /\ raced = {}
    /\ crowd = [c \in Candidates |-> 0]

-----------------------------------------------------------------------------
(* Helpers of the request actions.                                         *)

rows == <<applications, jobRefs, candidateRefs, announced, committed>>

tables == <<rows, raced, crowd>>

\* The requests that have checked the row of p and not written it yet.
Deciding(p) ==
    {q \in Requests : pc[q] \in {"limit", "insert", "commit"} /\ call[q].pair = p}

\* The requests on candidate c that have passed every check.
Writing(c) ==
    {q \in Requests : pc[q] \in {"insert", "commit"} /\ call[q].pair[2] = c}

\* A request that has found the row as it wants it may not be the only one.
NoteRace(r, ok) ==
    raced' = IF ok /\ Deciding(call[r].pair) # {} THEN raced \cup {call[r].pair} ELSE raced

NoteCrowd(r, ok) ==
    LET c == call[r].pair[2]
        n == Cardinality(Writing(c)) + 1 IN
    crowd' = IF ok /\ n > crowd[c] THEN [crowd EXCEPT ![c] = n] ELSE crowd

Goto(r, label) == pc' = [pc EXCEPT ![r] = label]

\* The request ends: the slot is free again and the caller has its answer.
Answer(r, status) ==
    /\ Goto(r, "idle")
    /\ call' = [call EXCEPT ![r] = None]
    /\ loaded' = [loaded EXCEPT ![r] = NoRow]
    /\ response' = [response EXCEPT ![r] = status]

\* Mutant: the refused request runs on.
CheckAndGoOn(r, ok, label, status) ==
    \/ ok /\ Goto(r, label) /\ UNCHANGED <<call, loaded, response>>
    \/ /\ ~ok
       /\ Goto(r, label)
       /\ call' = [call EXCEPT ![r] = None]
       /\ response' = [response EXCEPT ![r] = status]
       /\ UNCHANGED loaded

\* A check that lets the request go on to `label` or answers `status`.
CheckOr(r, ok, label, status) ==
    \/ ok /\ Goto(r, label) /\ UNCHANGED <<call, loaded, response>>
    \/ ~ok /\ Answer(r, status)

Receive(r, request, label) ==
    /\ pc[r] = "idle"
    /\ Goto(r, label)
    /\ call' = [call EXCEPT ![r] = request]
    /\ response' = [response EXCEPT ![r] = "none"]
    /\ UNCHANGED <<loaded, tables>>

-----------------------------------------------------------------------------
(* POST /applications                                                      *)

ReceiveApply(r, p, idempotent) ==
    Receive(r, [op |-> "apply", pair |-> p, target |-> "applied",
                idempotent |-> idempotent], "candidate")

CheckCandidate(r) ==
    /\ pc[r] = "candidate"
    /\ CheckOr(r, call[r].pair[2] \in candidateRefs, "job", "unprocessable")
    /\ UNCHANGED tables

\* Mutant: a job is enough, whatever its status.
SkipJob(r) ==
    /\ pc[r] = "job"
    /\ CheckOr(r, jobRefs[call[r].pair[1]] # "none", "pair", "unprocessable")
    /\ UNCHANGED tables

CheckJob(r) ==
    /\ pc[r] = "job"
    /\ CheckOr(r, jobRefs[call[r].pair[1]] \in Applyable, "pair", "unprocessable")
    /\ UNCHANGED tables

\* Mutant: no duplicate check before the INSERT.
SkipPair(r) == pc[r] = "pair" /\ Goto(r, "limit") /\ UNCHANGED <<call, loaded, response, tables>>

CheckPair(r) ==
    LET free == applications[call[r].pair] = NoRow IN
    /\ pc[r] = "pair"
    /\ CheckOr(r, free, "limit", IF call[r].idempotent THEN "created" ELSE "conflict")
    /\ NoteRace(r, free)
    /\ UNCHANGED <<rows, crowd>>

\* Mutant: the comparison off by one.
AtMostLimit(c) == Cardinality(ActiveJobs(c)) <= MaxActive

UnderLimit(c) == Cardinality(ActiveJobs(c)) < MaxActive

CheckLimit(r) ==
    /\ pc[r] = "limit"
    /\ CheckOr(r, UnderLimit(call[r].pair[2]), "insert", "unprocessable")
    /\ NoteCrowd(r, UnderLimit(call[r].pair[2]))
    /\ UNCHANGED <<rows, raced>>

\* Mutant: no UNIQUE constraint on the pair.
InsertAgain(r) ==
    LET p == call[r].pair IN
    /\ pc[r] = "insert"
    /\ applications' = [applications EXCEPT
          ![p] = [status |-> "applied", history |-> <<"applied">>]]
    /\ committed' = committed \cup {<<p, "applied">>}
    /\ Goto(r, "refresh")
    /\ UNCHANGED <<jobRefs, candidateRefs, call, loaded, response, announced, raced, crowd>>

\* The INSERT either violates the UNIQUE constraint, which no handler
\* catches, or commits the new row.
Insert(r) ==
    LET p == call[r].pair IN
    /\ pc[r] = "insert"
    /\ \/ /\ applications[p] # NoRow
          /\ Answer(r, "integrity_error")
          /\ UNCHANGED <<applications, committed>>
       \/ /\ applications[p] = NoRow
          /\ applications' = [applications EXCEPT
                ![p] = [status |-> "applied", history |-> <<"applied">>]]
          /\ committed' = committed \cup {<<p, "applied">>}
          /\ Goto(r, "refresh")
          /\ UNCHANGED <<call, loaded, response>>
    /\ UNCHANGED <<jobRefs, candidateRefs, announced, raced, crowd>>

-----------------------------------------------------------------------------
(* PATCH /applications/{id}/stage and POST /applications/{id}/withdraw     *)

ReceiveAdvance(r, p, target) ==
    Receive(r, [op |-> "advance", pair |-> p, target |-> target,
                idempotent |-> FALSE], "load")

ReceiveWithdraw(r, p) ==
    Receive(r, [op |-> "withdraw", pair |-> p, target |-> "withdrawn",
                idempotent |-> FALSE], "load")

\* Mutant: withdraw refuses only what is withdrawn already.
LateWithdraw(request, status) ==
    \/ request.op = "advance" /\ request.target \in APPLICATION_TRANSITIONS[status]
    \/ request.op = "withdraw" /\ status # "withdrawn"

\* What each operation demands of the status it has just loaded.
MayMove(request, status) ==
    \/ request.op = "advance" /\ request.target \in APPLICATION_TRANSITIONS[status]
    \/ request.op = "withdraw" /\ status \notin Terminal

Load(r) ==
    LET row == applications[call[r].pair]
        ok == row # NoRow /\ MayMove(call[r], row.status) IN
    /\ pc[r] = "load"
    /\ \/ row = NoRow /\ Answer(r, "not_found")
       \/ row # NoRow /\ ~ok /\ Answer(r, "unprocessable")
       \/ /\ ok
          /\ loaded' = [loaded EXCEPT ![r] = row]
          /\ Goto(r, "commit")
          /\ UNCHANGED <<call, response>>
    /\ NoteRace(r, ok)
    /\ NoteCrowd(r, ok)
    /\ UNCHANGED rows

\* Mutant: the history is read again when it is written.
FreshHistory(r) ==
    [status |-> call[r].target,
     history |-> Append(applications[call[r].pair].history, call[r].target)]

\* Mutant: the status is written without its entry in the history.
StatusOnly(r) == [status |-> call[r].target, history |-> loaded[r].history]

\* Mutant: the history is replaced.
ResetHistory(r) == [status |-> call[r].target, history |-> <<"applied", call[r].target>>]

\* What the session flushes: both columns, computed from the loaded row.
Moved(r) ==
    [status |-> call[r].target, history |-> Append(loaded[r].history, call[r].target)]

\* Mutant: the event is published before the session commits.
PublishFirst(r) ==
    /\ pc[r] = "commit"
    /\ loaded' = [loaded EXCEPT ![r] = Moved(r)]
    /\ Goto(r, "publish")
    /\ UNCHANGED <<call, response, tables>>

CommitMove(r) ==
    LET p == call[r].pair IN
    /\ pc[r] = "commit"
    /\ applications' = [applications EXCEPT ![p] = Moved(r)]
    /\ committed' = committed \cup {<<p, call[r].target>>}
    /\ Goto(r, "refresh")
    /\ UNCHANGED <<jobRefs, candidateRefs, call, loaded, response, announced, raced, crowd>>

-----------------------------------------------------------------------------
(* The tail of all three: refresh, publish fail-soft, answer.              *)

Refresh(r) ==
    /\ pc[r] = "refresh"
    /\ loaded' = [loaded EXCEPT ![r] = applications[call[r].pair]]
    /\ Goto(r, "publish")
    /\ UNCHANGED <<call, response, tables>>

EventOf(op) ==
    CASE op = "apply"    -> "application.created"
      [] op = "advance"  -> "application.stage_changed"
      [] op = "withdraw" -> "application.withdrawn"

Publish(r) ==
    LET event == [type |-> EventOf(call[r].op), pair |-> call[r].pair,
                  status |-> loaded[r].status] IN
    /\ pc[r] = "publish"
    /\ \/ announced' = announced \cup {event}
       \/ UNCHANGED announced               \* Kafka is away: dropped
    /\ Answer(r, IF call[r].op = "apply" THEN "created" ELSE "ok")
    /\ UNCHANGED <<applications, jobRefs, candidateRefs, committed, raced, crowd>>

\* The database connection breaks at the step the request is at.
DatabaseFails(r) ==
    /\ pc[r] \notin {"idle", "publish"}
    /\ Answer(r, "unavailable")
    /\ UNCHANGED tables

\* The process stops and restarts: nobody gets an answer.
Crash ==
    /\ pc' = [r \in Requests |-> "idle"]
    /\ call' = [r \in Requests |-> None]
    /\ loaded' = [r \in Requests |-> NoRow]
    /\ response' = [r \in Requests |-> "none"]
    /\ UNCHANGED tables

-----------------------------------------------------------------------------
(* handle_event: the read-model consumer, for any event the bus delivers.  *)

others == <<applications, pc, call, loaded, response, announced, committed, raced, crowd>>

JobUpserted(j, status) ==
    /\ jobRefs' = [jobRefs EXCEPT ![j] = status]
    /\ UNCHANGED <<candidateRefs, others>>

JobDeleted(j) ==
    /\ jobRefs' = [jobRefs EXCEPT ![j] = "none"]
    /\ UNCHANGED <<candidateRefs, others>>

CandidateUpserted(c) ==
    /\ candidateRefs' = candidateRefs \cup {c}
    /\ UNCHANGED <<jobRefs, others>>

CandidateDeleted(c) ==
    /\ candidateRefs' = candidateRefs \ {c}
    /\ UNCHANGED <<jobRefs, others>>

-----------------------------------------------------------------------------

Step(r) ==
    \/ CheckCandidate(r) \/ CheckJob(r) \/ CheckPair(r) \/ CheckLimit(r)
    \/ Insert(r) \/ Load(r) \/ CommitMove(r) \/ Refresh(r) \/ Publish(r)
    \/ DatabaseFails(r)

Arrive(r) ==
    \E p \in Pairs :
        \/ \E idempotent \in BOOLEAN : ReceiveApply(r, p, idempotent)
        \/ \E target \in Targets : ReceiveAdvance(r, p, target)
        \/ ReceiveWithdraw(r, p)

HandleEvent ==
    \/ \E j \in Jobs : JobDeleted(j) \/ \E s \in EventStatuses : JobUpserted(j, s)
    \/ \E c \in Candidates : CandidateUpserted(c) \/ CandidateDeleted(c)

Next ==
    \/ \E r \in Requests : Arrive(r) \/ Step(r)
    \/ HandleEvent
    \/ Crash

Spec == Init /\ [][Next]_vars

-----------------------------------------------------------------------------
(* Properties.                                                             *)

Rows == [status: ApplicationStatus, history: Seq(ApplicationStatus)] \cup {NoRow}

Labels == {"idle", "candidate", "job", "pair", "limit", "insert", "load",
           "commit", "refresh", "publish"}

Responses == {"none", "created", "ok", "not_found", "conflict", "unprocessable",
              "integrity_error", "unavailable"}

EventTypes == {"application.created", "application.stage_changed",
               "application.withdrawn"}

\* The values every variable takes; a request past "idle" has its call, and
\* only apply goes through the apply checks.
TypeOK ==
    /\ applications \in [Pairs -> Rows]
    /\ jobRefs \in [Jobs -> JobStatus \cup {"none"}]
    /\ candidateRefs \subseteq Candidates
    /\ pc \in [Requests -> Labels]
    /\ call \in [Requests -> Calls \cup {None}]
    /\ loaded \in [Requests -> Rows]
    /\ response \in [Requests -> Responses]
    /\ announced \subseteq [type: EventTypes, pair: Pairs, status: ApplicationStatus]
    /\ committed \subseteq (Pairs \X ApplicationStatus)
    /\ raced \subseteq Pairs
    /\ crowd \in [Candidates -> Nat]
    /\ \A r \in Requests : pc[r] # "idle" => call[r] \in Calls

-----------------------------------------------------------------------------
(* What holds of every interleaving.                                       *)

Pipeline == <<"applied", "screening", "interview", "offer", "hired">>

\* One move a recruiter or a candidate may make, stated from the pipeline
\* and not from the code's table.
LegalStep(from, to) ==
    /\ from \in ACTIVE_APPLICATION_STATUSES
    /\ \/ to \in {"rejected", "withdrawn"}
       \/ \E i \in 1..4 : Pipeline[i] = from /\ Pipeline[i + 1] = to

LegalRow(row) ==
    \/ row = NoRow
    \/ LET h == row.history IN
       /\ Len(h) > 0
       /\ h[1] = "applied"
       /\ \A i \in 1..(Len(h) - 1) : LegalStep(h[i], h[i + 1])
       /\ row.status = h[Len(h)]

\* However the writes of racing requests overwrite each other, the stored
\* stage_history starts at "applied", makes only legal moves and ends in the
\* stored status (service.py advance_stage and withdraw write the two columns
\* together, from one snapshot of the row).
HistoryIsLegalWalk == \A p \in Pairs : LegalRow(applications[p])

\* The cap on active applications: the count is read one await before the
\* INSERT, so every other request of the candidate that was about to write at
\* that moment may slip in once.  The cap is exceeded by no more than that,
\* withdrawals undone by stale writes included, and it is exact for a candidate
\* whose requests never came that close (service.py apply).
BoundedOvershoot ==
    \A c \in Candidates :
        Cardinality(ActiveJobs(c)) <= MaxActive + (IF crowd[c] = 0 THEN 0 ELSE crowd[c] - 1)

\* producer.py: "state is committed to the service DB first, then the event
\* is emitted".  No event announces a status that was never in the table, even
\* when another request commits between this one's commit and its refresh.
EventsAfterCommit ==
    [][\A e \in announced' \ announced : <<e.pair, e.status>> \in committed]_vars

Creating(r, p) ==
    /\ pc[r] \in {"refresh", "publish"}
    /\ call[r].op = "apply"
    /\ call[r].pair = p

\* An application is announced as created at most once, whatever is retried,
\* raced or restarted: of the requests that apply for a pair at most one is
\* past its INSERT, and none is once application.created is on the topic.
CreatedOnce ==
    \A r \in Requests, p \in Pairs :
        Creating(r, p) =>
            /\ \A q \in Requests \ {r} : ~Creating(q, p)
            /\ \A e \in announced :
                  ~(e.type = "application.created" /\ e.pair = p)

-----------------------------------------------------------------------------
(* What the documentation promises, of every pair that no two requests     *)
(* were ever deciding about at once, whatever overlaps on other pairs.     *)

\* enums.py: hired, rejected and withdrawn have no way out, not even for a
\* request that read the row before it got there.
TerminalIsFinal ==
    [][\A p \in Pairs \ raced : applications[p].status \in Terminal =>
            applications'[p].status = applications[p].status]_vars

\* architecture.md: every transition is appended to stage_history, so what was
\* recorded stays recorded.
HistoryAppendOnly ==
    [][\A p \in Pairs \ raced :
            LET old == applications[p].history
                new == applications'[p].history IN
            Len(old) <= Len(new) /\ SubSeq(new, 1, Len(old)) = old]_vars

\* architecture.md: the unique pair and the Idempotency-Key make a repeated
\* apply a no-op or a 409.  It is a server error only if two applies for the
\* pair had both found it free.
DuplicateIsAnswered ==
    [][\A r \in Requests : call[r] # None /\ response'[r] = "integrity_error" =>
            call[r].pair \in raced]_vars

Promise == INSTANCE ApplicationPipeline
           WITH walk <- [p \in Pairs |-> applications[p].history]

\* service.py as its documents tell it: the row by row writes of apply,
\* advance_stage and withdraw, with their checks an await or more earlier, add
\* up to atomic steps along the pipeline under the cap; a race on a pair, or
\* requests of a candidate that crowd, loosen that for this pair, or this
\* candidate, alone and only as far as the pipeline says.
ImplementsPipeline == Promise!Spec

\* service.py apply: the checks of the read model and the INSERT are several
\* awaits apart, and the read model moves in between; still, nobody applies to
\* a job that was never open or before the candidate was ever heard of.
EligibleOnce ==
    \A p \in Pairs :
        /\ [](jobRefs[p[1]] \notin Applyable) => [](applications[p] = NoRow)
        /\ [](p[2] \notin candidateRefs) => [](applications[p] = NoRow)

=============================================================================
