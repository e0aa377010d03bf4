# SmartHire in TLA+

TLA+ models of the SmartHire services, the TLC runs that check them on small
instances, and theorems about them proved with TLAPS for every instance. Paths
are relative to `src/`; `PROJECT.json` maps every definition to the lines it
models and lists the hazards and findings.

    tlc -workers 2 -config apps_overlap.cfg MCApplications.tla   # a run
    tlapm ApplicationsProofs.tla                                 # the proofs

## 1. The system

SmartHire is six processes, and Kafka with one topic per publishing service.
Every HTTP service is one
asyncio process with its own Postgres database; `make_get_db`
(`libs/smarthire_common/.../database.py`) gives each request a session of its
own. Between two awaits a coroutine runs alone; at every await any other
coroutine of the process, the consumer, or another process may run.

| Component | State it keeps | Operations | What must hold |
|---|---|---|---|
| **applications service** (`services/applications/app`) | `applications`, unique on (job, candidate), with `status` and `stage_history` | apply, advance stage, withdraw, get, list | stored histories are legal; terminal states are final; cap on active applications; a repeated apply is answered; events tell only what was committed |
| **applications read model** (`consumers.py`) | `job_refs`, `candidate_refs` | four event handlers | eventually says what jobs and candidates say |
| **jobs API** (`services/jobs/app`) | `jobs` | create, update, publish, delete, get, list | only a draft or failed job is published; a published job does not get stuck |
| **publishing workflow** (`services/jobs/app/publishing`, `worker.py`) | the run (in Temporal), activity attempts (in the worker) | breakdown, extract, mark ready, mark failed | a ready job is complete; every run ends; the status says how |
| **gateway breakers and proxy** (`services/gateway/app/circuit.py`, `proxy.py`) | per upstream `_failures`, `_opened_at`; one shared `httpx.AsyncClient` pool | forward | opens on a streak, re-opens on failure, closes again, isolated per upstream |
| **gateway rate limiter** (`ratelimit.py`) | counters with expiry in Redis | `allow` | at most the limit per caller and minute; nobody pays for others; no counter lives for ever; fail-open |
| **candidates service** (`services/candidates/app`) | `candidates`, `candidate_profiles` | register, update, delete, upsert profile | unique e-mail, one profile each, events that agree with the table |
| **auth service** (`services/auth/app`, `smarthire_common/security.py`) | `users`; the tokens in circulation | register, login, refresh, check of a token | who was told 201 owns the account; an accepted token is true; a deactivation takes effect |
| **event bus** (`smarthire_common/events`) | the topics, the producer of each service, the consumer group's offset | start, publish (fail-soft), consume | commit first, then emit; redelivery is safe; a consumer catches up |
| **content extraction** (`publishing/content.py`) | the loop over a text; the columns its results go to | split a text, find skills, rank keywords, store | every line in its section; skills merged once; the keywords are the most frequent |

How they interact. The gateway proxies every request. Jobs and candidates
publish `job.*` and `candidate.*` after each commit; the applications consumer
folds them into the read model that `apply` checks. `POST /jobs/{id}/publish`
commits `processing` and starts a Temporal workflow, whose activities run in
the jobs worker and write the same table. Applications publishes
`application.*`, which nobody consumes yet.

What is hard:

- **load - await - write.** All services load a row, compute on the copy, and
  write at a later await, without locks or version columns. The ORM writes the
  columns that changed and no others.
- **check - await - act.** The cap, the duplicate check and the eligibility
  check are statements of their own before the INSERT.
- **commit, then tell.** Publishing an event and starting a workflow come after
  the commit and may fail or be overtaken by another request's.
- **a timeout that does not stop anything.** Temporal stops waiting for an
  attempt at its start-to-close timeout; the coroutine in the worker goes on
  and may write after its retry, or after the run is over.
- **calls in flight across state changes of a breaker**, and a pool that all
  upstreams share.
- **two commands where one is meant**: INCR and EXPIRE, with an outage, a lost
  answer or the end of the minute in between.
- **decisions that outlive what they were taken from**: a token is accepted
  from its signature alone, by services that never see the account again.
- **restarts** of any process between any two of these steps.

## 2. The modules

| Module | Models | Proofs |
|---|---|---|
| `ApplicationPipeline` | what the applications service promises: walks along the pipeline under a cap, and what is left of this where requests meet | |
| `Applications` | applications service and the handlers of its read model; implements `ApplicationPipeline` | `ApplicationsProofs` |
| `Breaker` | the circuit breaker as its docstring has it: one trial leads out of half-open | |
| `Gateway` | breakers, proxied calls, the shared pool, upstreams, the clock | `GatewayProofs` |
| `GatewayTrials` | `Gateway` with a record of its trials, against `Breaker`, which it does not implement | |
| `RateLimiter` | `allow` at its commands, the counters in Redis, minutes, outages | `RateLimiterProofs` |
| `JobLifecycle` | what the jobs service promises of a job's status, and what is left of this where two writers of it meet | |
| `JobPublishing` | jobs API, workflow runs, activity attempts, flushes; implements `JobLifecycle` | `JobPublishingProofs`, `JobPublishingOutcome` |
| `Content` | splitting a description, skills, keywords, and their storing and retrying | `ContentProofs` |
| `EventBus` | publisher, topic, consumer loop with its committed offset | |
| `CandidateSync` | candidates service with profiles, and its read model, at the two ends of `EventBus` | `CandidateSyncProofs` |
| `Accounts` | registration, login, refresh, tokens and their expiry, deactivation | `AccountsProofs` |

`MC<Module>` extends a module with the symmetry sets, views and inputs its runs
use and changes nothing of it; `Gateway` and `GatewayTrials` need none.
Definitions headed "Mutant:" are not part of any specification: each is the form
a plausible bug would give the definition that follows it, and some property
fails under it.

### Applications

A request slot is at an await, named by `pc`: `candidate`, `job`, `pair`,
`limit`, `insert` for apply; `load`, `commit` for the moves; `refresh` and
`publish` at the tail of all three. One action is the code from one await to
the next:

| Code | Actions |
|---|---|
| `router.py` routes | `ReceiveApply`, `ReceiveAdvance`, `ReceiveWithdraw` |
| `service.py` `apply` | `CheckCandidate`, `CheckJob`, `CheckPair`, `CheckLimit`, `Insert` |
| `service.py` `advance_stage`, `withdraw` | `Load` (with the guard `MayMove`), `CommitMove` |
| `repository.py` `create`, `save` | `Insert`, `CommitMove`, `Refresh` |
| `_publish` | `Publish`: the event, or nothing |
| `consumers.py` `handle_event` | `JobUpserted`, `JobDeleted`, `CandidateUpserted`, `CandidateDeleted` |
| a broken connection; a restart | `DatabaseFails`, `Crash` |

`loaded` is the ORM object. A move writes both columns as computed from it
(`Moved`), so a commit that came in between is overwritten, just as the UPDATE
does it. The INSERT fails on the unique constraint; `IntegrityError` has no
handler and the caller gets a 500 (`integrity_error`). The bus may deliver any
job or candidate event at any time: this includes late, lost and repeated
ones, so what is shown here does not depend on the order of delivery. The
consumer is one coroutine and the only writer of the read model, so a handler
is one action. Routes that only read, and the checks of roles and ownership,
are left out; an ownership check reads the row `Load` reads.

Three history variables say what the properties rest on. `committed` has the
statuses that ever were in the table. `raced` has the pairs on which two
requests had both passed the check of the row and not written it yet
(`NoteRace`): exactly there a write can be computed from a row that another
write replaces. `crowd` is, per candidate, the largest number of requests that
had passed every check and not written at one time (`NoteCrowd`). Nothing
limits what overlaps; the documented rules are claimed per pair and per
candidate: `TerminalIsFinal`, `HistoryAppendOnly` and `DuplicateIsAnswered` of
every pair outside `raced`, the exact cap of every candidate whose `crowd` never
passed one. A stale read elsewhere, on another pair or an await earlier, is no
excuse.

`ApplicationPipeline` knows nothing of requests: an application is a sequence
of stages that starts with `applied` below the cap (`Apply`) and is extended by
the next stage or by `rejected` or `withdrawn` (`Move`). It is told where requests
met (`Meet`): there, and only there, a walk may be replaced by another legal
walk (`Rewrite`), and the cap is wider by the requests in the crowd beyond the
first. `Promise` instantiates it with the stored histories. The steps that read,
answer and announce are stutters; the INSERT is `Apply` although the checks it
rests on were made up to four awaits earlier, and the UPDATE is `Move` or, on a
raced pair, `Rewrite`.

### Gateway

Per upstream the counter `failures` (it stops at `FailMax`, only `>=` is ever
asked) and `openedAge`, the time since `_opened_at`, which stops at
`ResetTicks`. A call is admitted unless the breaker is open (`Admit`: `state`
is a property of the clock, and nothing marks a trial), waits for a connection
(`Connect`, `PoolTimeout`), and ends in a response of any status code
(`Succeed`) or a connection error or timeout (`Fail`). `on_success` and
`on_failure` run when the call ends, whatever the breaker has become by then.
A call fails only if its upstream was down at some time while it was sent. A
refused call (503) changes nothing and is no step. `outcomes` (the last
`FailMax` results, with failures for want of a connection told apart) and
`troubled` (the upstreams that were ever down) are history variables.

`Breaker` is the state machine of the docstring (`circuit.py:3-5`): a closed
breaker lets every call through, a half-open one lets one trial through, and
only the trial closes it. `GatewayTrials` adds to `Gateway` which calls a
half-open breaker let in, and maps `state` and the calls in flight to `Breaker`.
The code is not such a machine, as `gw_trial` shows; what it does keep is
`TripsOnStreak`, `ReopensAfresh` and `Recovers`, which hold with any number of
trials and late outcomes. "One failing service trips only its own breaker"
(`proxy.py:3`) holds of the failures themselves but not of the pool, which all
upstreams share. `CutOffForCause` says both: an upstream that never failed is cut
off by nothing but `FailMax` calls in a row that found no connection.

### RateLimiter

| Code | Actions |
|---|---|
| `main.py` `gateway_proxy`, up to the call of `allow` | `Arrive` |
| `ratelimit.py` `allow` | `Incr` (with `WithinLimit`, `FirstSets`), `Expire`, `FailOpen` |
| Redis | `Tick` (a key at the end of its life vanishes), `Stop`, `Return` |
| an answer that is lost; a restart of the gateway | `AnswerLost`, `Restart` |

The minute is read once, in `Arrive`; what happens to the counter of that
minute happens when the commands arrive. Time is the minute and the ticks into
it, and the life a key has left is counted down. EXPIRE on a key that is gone
does nothing. Redis may come back with its keys or without. `arrived`,
`admitted`, `late` and `refused` are history variables: what came in a minute,
and what became of it; `admitted` starts afresh when Redis loses its memory.

### JobPublishing

The table, requests of the API, one run per job, and attempts in the worker. A
row holds its status, its description (a model value), what its
`structured_content` and `extracted_keywords` were derived from, and its
skills. `Merge` is the flush of the ORM: a column is written if its value
differs from the loaded one. A flush without a change sends nothing; one that
finds the row gone raises `StaleDataError` (`CanFlush`).

| Code | Actions |
|---|---|
| `service.py` `create_job`, `update_job`, `request_publish`, `delete_job` | `CreateJob`, `ReceiveCall`, `LoadJob`, `CommitJob`, `DeleteJob`, `RefreshJob`, `AnnounceJob` |
| `temporal_client.py` `start` | `StartWorkflow`, `StartFails` |
| `workflows.py` `run`, `_RETRY` | `AfterSuccess`, `AfterFailure` |
| `activities.py` | `LoadActivity`, `CommitActivity` (with `Processed`), `AnnounceActivity`, `ActivityFails` |
| Temporal's server and the worker | `Schedule`, `Timeout`, `EndWell`, `EndBadly`, `Vanish` |
| a restart of the API | `Crash` |

`awaited` says whether the workflow still waits for an attempt. `Timeout`
clears it and counts a failure; the attempt stays and goes on. An activity that
raises at its commit may have committed (`ActivityFails`). Job ids are UUIDs:
`used` keeps an id from being given twice.

`contested` is a history variable: the jobs on which two requests had both found
the status publishable before either wrote it, and those of which a `mark_ready`
or `mark_failed` was given up, or raised after its commit, so that the workflow
does not know what it wrote or may yet write. All other overlaps, and all faults,
are inside the properties.

`JobLifecycle` is the status alone: created as a draft, published from draft or
failed, finished as ready or failed, deleted from anywhere; a contested job may
have any status a job can have until it is deleted. `Promise` instantiates it
with the status column and says `gone` of a deleted row; `Documented` does the
same with no job ever contested.

### Content

| Code | Definitions |
|---|---|
| `content.py` `_match_section`, `breakdown_description` | `_match_section`, `Heading`, `ReadLine` |
| `content.py` `extract_skills`, `extract_keywords` | the operators of these names, with `Kept`, `Keyword`, `counts`, `Before`, `Ranked` |
| `activities.py` `breakdown_job` | `BreakDown`; run again from the start, `Retry` |
| `activities.py` `extract_job_skills_keywords` | `Extract`, with `Merged` |

A description is a sequence of lines, a line is what stands before its first
colon and after it, and a word is a number in alphabetical order with a mark for
the punctuation that the keyword pattern keeps (`sql.`). Letters, case and
bullets are left out. The text that is searched is the title and then the lines.
What the code filters and sorts is `Kept` and `Sorted`, which need no recursion:
the n-th element is the one with n - 1 before it. The properties compare what is
stored with definitions of their own: the section of a line is that of the last
heading above it, a keyword is among the most frequent. `JobPublishing` models
the same activities for their races and abstracts a result to the text it came
from.

### EventBus and CandidateSync

`EventBus` has the two halves of `smarthire_common/events` and the log between
them; the extending module has the handler and the publishing service. A
publisher that finds Kafka away when its service starts has no `producer` until
the next start (`start`); one that cannot send drops the event (`publish`). The
consumer's `position` moves when a message is handed to the loop (`Read`),
before `Handled`; the background commit (`AutoCommit`) and the one on leaving
the loop (`LeaveLoop`) take that position, so that a message in the handler may
be skipped or read again. The topic has one partition.

`CandidateSync` extends it with both ends:

| Code | Actions |
|---|---|
| `router.py` routes | `ReceiveRegister`, `ReceiveCall` |
| `service.py` `register_candidate` | `LookUp`, `Insert`, `Refresh`, `Announce` |
| `service.py` `update_candidate` | `Load`, `CommitUpdate`, `Refresh`, `Announce` |
| `service.py` `delete_candidate` | `Load`, `CommitDelete`, `Announce` |
| `service.py` `upsert_profile` | `Load`, `CreateProfile` or `CommitUpdate`, `Refresh` |
| `consumer.py` `run_consumer` | `Connect`, `Read`, `AutoCommit`, `Handled`, `HandlerFails`, `LeaveLoop` |
| `consumers.py` `handle_event` | `handle_event` |
| Kafka; the database; a restart | `Outage`, `Recovery`; `DatabaseFails`; `Restart` |

A row is its e-mail, the one column something depends on: an update, which
cannot change it, leaves `table` alone. Of profiles only their number is kept: a
request that found none inserts one, and the database refuses a second one
(UNIQUE) or one without a candidate (foreign key); deleting a candidate deletes
his (CASCADE). Nothing is announced of a profile. A second `DELETE` of a row
that is gone is a warning of the ORM and announced again, an `UPDATE` of one is
an error. `skipped`, `lost` and `raced` are history variables: messages that
were read last without being handled, candidates whose last creation or deletion
was not announced, and candidates on whom requests overlapped.

### Accounts

| Code | Actions |
|---|---|
| `service.py` `register` | `ReceiveRegister`, `LookUp`, `Insert`, `Created` |
| `service.py` `login`, `refresh` | `ReceiveLogin`, `ReceiveRefresh`, `Load`, `Use` (with `Granted`) |
| `service.py` `_issue_tokens`, `security.py` `create_access_token`, `create_refresh_token` | `_issue_tokens` |
| `security.py` `hash_password`, `verify_password`, `decode_token`, `get_current_identity`, `require_role` | the operators of these names |
| an error, a restart; an operator; time | `Fail`, `Restart`; `SetActive`; `Tick` |

A token is what it says and the ticks it has left; every token ever signed
stays in `tokens`, since nobody can take one back. A hash is known by the
password it verifies. The e-mail of a registration is normalised (`EmailStr`),
the user name of a login is not. No route writes `is_active`, so an operator
does; `MaxDelay` bounds how long a request may sit on the row it read, which
`RevocationTakesEffect` needs and the server's timeouts provide. `told` and
`inactiveFor` are history variables.

## 3. The runs

| Run | Question | Result |
|---|---|---|
| `apps_overlap` | with two overlapping requests on one application, events dropped, failures and restarts: are histories legal, only committed statuses announced, and a creation once? Is a terminal status left, an entry lost or a duplicate answered by a 500 only on a raced pair? Is nobody taken who was never eligible? | holds |
| `apps_cap` | by how much do overlapping applies exceed the cap, and is the table an `ApplicationPipeline`? | by at most the crowd beyond the first; yes |
| `gw_breakers` | with calls ending in any order and a pool that runs out: does a breaker trip exactly on a streak, does a failure start the whole cool-down, what can cut off an upstream that never failed, and does a breaker close for good once its upstream is back for good? | holds |
| `gw_trial` | does one trial decide about a half-open breaker? | **violated**: two calls pass it, and a late success closes an open one |
| `limiter` | with outages, lost answers, restarts and minutes that end between two commands: is the limit kept, is nobody refused for what others did, and is a counter without expiry the trace of a fault? | holds |
| `jobs_faults` | with failing activities, and attempts that outlive their timeout, is a ready job complete, and does every run end? | holds |
| `jobs_outcome` | with two recruiters and two attempts at a time, failing activities and commits, timeouts, restarts and Temporal away: is a job ready exactly when its run returned `ready`, and is the status column a `JobLifecycle`? | holds |
| `jobs_overlap` | does the status follow the documented life cycle when two requests publish the job? | **violated**: the later commit takes a ready job back to `processing` |
| `jobs_stranded` | is a job in `processing` always worked on? | **violated**: the start failed after the commit |
| `content` | is every line stored in its section, are skills merged once however often the activity runs, and are the keywords the most frequent words? | holds |
| `sync_faults` | with redelivery, skipped messages, outages and restarts, does the read model follow the topic, and the topic the table? Does the consumer catch up? Has a candidate one profile at most? | holds; a deletion that overlaps an update is excepted |
| `accounts` | with overlapping registrations, logins and refreshes, and accounts deactivated at any time: does a registration stand, is an accepted token true, and does a deactivation take effect? | holds |

The violated ones are the findings of `PROJECT.json`, each with the sentence of
the documentation it contradicts.

**Bounds.** The races in this code are between two requests on one row, so two
slots show each of them; the proofs then cover any number where they exist.
`apps_overlap` has one pair, the targets `screening` and `rejected`, which are
enough for two moves in a row and for two terminal ones, and job events that
open and close the job. `apps_cap` has two jobs, which exceed a cap of one when
two requests crowd. `gw_breakers` has three calls, two upstreams, a threshold of
two and a pool of two, so that the pool runs out behind a hanging upstream and a
streak can be mixed with successes; a cool-down of one tick separates "just
opened" from "half open". `gw_trial` needs one upstream that trips at once and
two calls. `jobs_faults` has two attempt slots, so that an attempt that was
given up runs beside its retry, and three faults, one more than it takes to
exhaust an activity at two attempts (the code has three; the control is the
same). `MaxFaults` bounds activity errors and timeouts only. `jobs_outcome` has
two of each slot, which is what it takes for two publishes to meet and for a
late `mark_failed` to meet a later run, and two faults: one to give an attempt
up and one more for its retry. `jobs_overlap` and `jobs_stranded` need nothing
but their two publishes, or one that cannot reach Temporal. `sync_faults` has
two candidates and one e-mail, so that a registration can meet the other's row
and the e-mail of a deleted one can be taken again; `MaxEvents` of three admits
a registration, an update and a deletion, or two candidates; `MaxFaults` of two
bounds all outages, restarts and errors together, enough for one at each end.
`MaxEvents` is a guard on new requests, not on announcements. `limiter` has two
callers, two requests in flight, a limit of one, two minutes of two ticks, two
requests of each caller in a minute, and one fault: enough for a request over
the limit, for one that reaches Redis a minute late, and for a count in either
half of a minute. `MaxWindow` ends time, so that run may stop and does not check
deadlock. `accounts` has one address in two spellings, two passwords and two
roles, so that overlapping registrations differ in all that the winner keeps,
and lifetimes of two and four ticks with a delay of one, so that a refresh token
outlives an access token and a refresh may overlap a deactivation. `content`
takes every description of at most four lines of seven kinds (blank; a bare
colon; headings with and without colon or text after it; a line with a known
skill; one with a colon that is no heading), which puts each heading before,
between and after others, two keywords out of more words with ties, and two runs
of the activity. TLC needs no state constraint.

**Views and symmetry.** Slots, and in `apps_cap` the jobs, in `limiter` the
callers and in `accounts` passwords and roles, are permuted in `apps_cap`,
`jobs_outcome`, `limiter` and `accounts`, which check invariants and conditions on
single steps that treat them alike; never in `gw_breakers`, `jobs_faults` and
`sync_faults`, which check liveness. `RowView` (`apps_cap`) leaves the topic, the
answers and `committed` out of the fingerprint, `StatusView` (`jobs_outcome`) the
topic, the skills and the copies of rows that have been written: no action that
moves what the properties of these runs are about reads them.

**Fairness.** Safety needs none. `Gateway!FairSpec`: the event loop runs on, a
waiting call gets a connection that stays free, and httpx ends every call that
was sent (its timeouts are per operation, so an upstream that trickles bytes for
ever could in principle hold one; the read timeout ends one that is silent); the
clock advances while a breaker is open; and traffic keeps coming (`SF` of
`Admit` per upstream), since a breaker only closes by a call that succeeds:
without requests there is nothing to recover for. Upstreams are under no
obligation: `Recovers` is about those that come back for good, in a gateway that
in the end has no more calls in flight than connections (`Uncrowded`).
`JobPublishing!FairSpec`: a worker is up, its loop runs on, and Temporal
schedules what is due. Nothing makes recruiters act or API requests finish, and
faults are finitely many; with faults for ever `mark_failed`, which has no retry
limit, would never end. For the same reason `RunsEnd` excepts a job that was
deleted: there `mark_failed` cannot succeed. `CandidateSync!FairSpec`: the
consumer's loop connects when it can, reads what there is, and its handler
returns. Kafka is under no obligation: `CatchesUp` is about a broker that stays
reachable, and about finitely many faults, since a consumer that is stopped for
ever never reads to the end.

## 4. The proofs

All by induction, from the named assumptions of the modules (finite sets of
slots, positive thresholds, distinct model values) and nothing else: no theorem
about requests, calls or attempts limits how many of them overlap or fail.

- **Types** (`TypeCorrect` and its like, one for each module). Alone,
  typing is not inductive where a request uses a row it should have: an event
  carries the status of the loaded row. `Held` and `RowsAtHand` say what a
  process knows at each await; `OneAwaited` says the workflow waits for at most
  one attempt per job and that it is one of the current activity, without which
  a stale result would send the run anywhere.
- **`HistoryStaysLegal`.** `LegalRows`: also the copies in flight are legal
  rows. Then a stale write is a legal row too, though not the next one.
- **`AnnouncedWasCommitted`.** `Recorded`: every status in the table or in a
  copy taken from it was committed.
- **`CreatedAtMostOnce`.** `CreatedWithRow`: a request past its INSERT, and a
  creation that was announced, have a row in the table, and rows never leave
  it; so there is no second INSERT.
- **`OvershootIsBounded`.** The count itself is not inductive: a stale move revives
  an application that was withdrawn. `Spots` collects for each candidate the
  active applications and those that a request about to write may make active;
  a request that passes its last check finds room for one, and each of the others
  in the crowd holds at most one spot more. `Crowded`: the requests about to write
  are never more than `crowd` says. For a candidate whose requests never crowd the
  bound is the cap.
- **`NeverEligibleNeverApplied`.** A request past its first check is for a
  candidate the read model has known, past its second for a job that was open.
- **`ServiceImplementsPipeline`**, and with it `TerminalStaysFinal`,
  `HistoryOnlyGrows` and `DuplicatesAreAnswered`, for any overlap. `ReadsStand`: on a
  pair outside `raced` at most one request has checked the row and not written it,
  and what it has read is still so; a second one would have put the pair in
  `raced` when it checked, and a writer leaves when it writes (`WriterLeaves`). So
  its INSERT is the abstract `Apply` and its UPDATE the abstract `Move`. On a raced
  pair the UPDATE is `Rewrite`, by `LegalRows`. That an INSERT finds room under the
  cap of the pipeline is `SpotsBounded` (`RoomBeforeInsert`), raced or not. A check
  that records a meeting is `Meet`, and all other steps stutter.
- **`BreakerTripsOnStreak`, `FailureReopens`.** `Streak` ties the counter to the
  trailing failures in `outcomes`: whoever ends a call, and in whatever state of
  the breaker, the counter is full exactly when the last `FailMax` outcomes are
  failures.
- **`BreakersAreIsolated`**, for every pool and any number of callers. `OwnTrouble`:
  every lost call and every `failure` on record belongs to a troubled upstream. So
  a streak on record for one that is not consists of calls that found no
  connection.
- **`ReadyHasBothOutputs`.** `OutputsStay`: no flush empties a filled output,
  however old its copy, because unchanged columns are not written. `Progress`:
  what a stage of a run stands for has been written, and so have the outputs
  that any attempt holds in its copy; hence a flush that "changes nothing"
  finds the output there. `KnownJobs`: nobody is at work on an id that was
  never given, so a new row inherits no attempts.

- **`RedeliveryIsSafe`, `RegisteredBecomesKnown`, `DeletedBecomesForgotten`.**
  `RefsInv` is about the reader: what the handler is through with (`done`) is
  reflected unless it was skipped, and reading again only lowers `done`. It
  also says that a candidate of whom no deletion is in the topic is known from
  the first event that was handled; this spares an argument about which event
  is the last. `ServiceInv` is about the service: what the topic says of a
  candidate agrees with the table, or a request is about to tell, or the news
  was lost. `InOrder` says what a request may rely on at each await, `Unused`
  that a fresh id has no past.

- **`ReadyMeansReturned`, `OutcomeImplementsLifecycle`**, for any number of
  recruiters, attempts, timeouts and faults. On a job that is not contested
  `FollowsRun` ties the status to the stage of the run, with `Marked` for the
  moment between the commit of `mark_ready` or `mark_failed` and its return;
  `MarkStands` and `PublishStands` say that whoever is about to write the status
  holds the value it overwrites, and `OnePublish` that one publish at a time is past
  its check. Attempts of the other activities may be given up and write late: they
  leave the status alone, because unchanged columns are not written. The one
  overlap of status writers that is left, a job published again before its failed
  run is closed, is the case `processing` with the stage `mark_failed`. On a contested
  job `LiveRows` is all there is, and a deleted job stays deleted.
- **`ProfilesAreOneToOne`.** The constraints of the database are enough: a
  profile is counted only with its candidate.
- **`LimitIsKept`, `NobodyPaysForOthers`, `LeaksAreBounded`.** `LivesItsMinute`:
  a key that has an expiry has at least the rest of its minute to live, so no
  count is forgotten within the minute. `CountedArrived`: the counter and the
  requests that have yet to reach it are no more than those that arrived.
  `LateWereInFlight`: nobody counts late who was not in flight when the minute
  ended. For leaks, each fault is charged with the requests it may strike.
- **`RegistrationsAreKept`, `AcceptedIdentityIsTrue`, `RevocationIsBounded`.**
  Rows never go and roles never change, so what a request or a token says of an
  account stays true; `RowsFresh` and `TokensDie` add up the time since a
  deactivation with the age of a row in use, or with the life a token has left.

- **`DescriptionIsKept`**, for every description and all triggers of which no
  word starts headings of two sections. `LoopInv` is the loop invariant of
  `breakdown_description`: `InSection` says that `current` is the section the
  lines read so far end in, `Filled` that the buckets hold what these lines say.
  `FilledBySilence` and `FilledByAppend` are its two steps. The activity may
  start over at any line: what it stores is filled to the last line or not there.
- **`KeywordsAreRanked`.** `Ranking`: in a finite set with a strict total order
  the numbers of elements before each are all different and without gaps, since
  an injection between finite sets of one size is onto. So `Sorted` lists every
  element once, in order, whatever the set and the order; `BeforeIsOrder` and
  `TextIsFinite` are what it takes to use it for keywords.
- **`SkillsAreMergedOnce`.** `MergedOnce`: merging what was found into the
  recruiter's list or into the result of an earlier merge gives one and the same
  set in one and the same order (`InTurn`), for every list and text, which is
  what makes the activity idempotent. It rests on `KeptValues` and
  `DistinctValues`, the latter on every value having a first occurrence
  (`LeastNumber`).

Every invariant and every action property that a run checks is proved. Liveness
(`Recovers`, `RunsEnd`, `CatchesUp`) is beyond the prover and model-checked
only. `NeverStranded`, `DocumentedLifecycle` and `ImplementsBreaker` are false.

## 5. Assumptions

- Postgres at its default READ COMMITTED; a commit is atomic and durable.
- One process per service, as `docker-compose.yml` starts them. More replicas
  of applications or jobs are more slots; more gateways are more breakers.
- Kafka keeps the order of a partition and loses nothing it has acknowledged.
- Temporal keeps its promises: one open run per workflow id, one attempt at a
  time per activity, results of attempts that were given up are ignored.
- `StaleDataError` and `IntegrityError` reach the default handler (500); only
  `SmartHireError` has one of its own.

## 6. Also seen in the models

Three more places where the documentation promises more than the code keeps. The
properties say exactly how far it does keep them, and the runs reach the rest:

- A terminal status is not final where requests race
  (`services/applications/app/service.py:113`, although `enums.py:33-35` lets
  nothing follow one): a stage
  change that loaded the row before a withdrawal committed overwrites it, and
  drops the entry the withdrawal made in the history. This is the `Rewrite` of
  `ApplicationPipeline`, reached in `apps_overlap` and `apps_cap` on raced pairs.
- "One failing service trips only its own breaker" (`proxy.py:3`) needs a
  connection for every call: all upstreams share one pool (`proxy.py:25`), and
  calls that wait for a connection behind a hanging upstream fail with
  `PoolTimeout`, which counts against theirs. `gw_breakers` reaches this, and
  `CutOffForCause` says that it takes `FailMax` such calls in a row.
- The last `job.*` event may carry an old status (`services/jobs/app/service.py:64`):
  an update refreshes the row and announces it two awaits later, when
  `mark_job_ready` may have announced `ready` already.

Reachable as well:
a response of status 500 is a success to the breaker; an update that overlaps a
deletion announces the candidate after it is gone, who then stays in the read
model; with overlapping applies the cap is exceeded, and a duplicate can end in
a 500;
a publish between `mark_job_failed`'s commit and the end of the run is refused
by Temporal and strands the job; a `mark_job_failed` that was given up can
take back a ready job; `extract` overwrites an update of `required_skills`; a
retried apply with an Idempotency-Key is refused once the job is no longer
open; a job that was edited is ready with outputs of its old text; of two first
upserts of a profile the second is a 500, as is the second of two overlapping
registrations with one e-mail; the user name of a login is compared as it is
written, while a registration stores the normal form; a heading without a colon
is dropped with the rest of its own line; a stop word with a full stop attached
(`team.`) counts as a keyword.

## 7. Not modelled, and why

- `job.*` through the bus: `Applications` takes its events in any order, and
  the loop that delivers them is the one `CandidateSync` is about.
- Routes that only read, the checks of roles and ownership (pure predicates on
  the token and the loaded row; `require_role` is in `Accounts`), settings,
  pagination, logging, health checks and metrics: no state that a property
  relates.
- The characters of words, dates and e-mails; which HTTP status an error has,
  unless a property tells them apart.
- Keys and signatures: a token that verifies was signed by the auth service.
- Migrations, Docker files and tests: their constraints (UNIQUE, foreign keys,
  CASCADE) are in the models, they themselves run once or not at all.
- Temporal, Kafka, Redis and Postgres, beyond what section 5 says of them.

## 8. Plan

1. `JobSync`: `job.*` through `EventBus`, where the event carries a status and
   the order of the announcements is not that of the commits. What holds:
   without overlapping updates the read model converges to the table.
2. `SmartHire`: jobs, bus and applications composed. Every application's job
   was open and its candidate registered at some earlier time.
3. One more abstract specification: a read model as a prefix of a log
   (implemented by `CandidateSync` as far as no message is skipped).
4. `ReadyIffReturned` on contested jobs: which late attempts can take a ready job
   back, and for how long.

Runs stay few, one per question.
