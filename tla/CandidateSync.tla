--------------------------- MODULE CandidateSync ---------------------------
(***************************************************************************)
(* The candidates service, the bus, and the candidate_refs that the        *)
(* applications service keeps from candidate.* events.                     *)
(*                                                                         *)
(* As in the other services, a request is a coroutine with a session of    *)
(* its own, an action is the code between two awaits, and the event        *)
(* follows the commit.  The read model is told only that a candidate       *)
(* exists or was deleted; nothing is told of profiles.                     *)
(***************************************************************************)
EXTENDS EventBus, FiniteSets

CONSTANTS
    Candidates,  \* candidate ids
    Emails,
    Requests,    \* slots for requests in flight
    MaxEvents,   \* no request starts that might send more than this
    None         \* no row, no request in the slot

ASSUME MaxEventsAssumption == MaxEvents \in Nat
ASSUME NoneAssumption      == None \notin Emails

VARIABLES
    table,    \* candidates: id -> e-mail, None when there is no row
    profiles, \* candidate_profiles: how many rows there are with each id
    used,     \* the ids ever drawn (uuid4: none twice)
    request,  \* the requests in flight
    refs,     \* candidate_refs
    lost,     \* history variable: candidates whose last news was not sent
    raced     \* history variable: candidates with overlapping requests

busVars == <<logVars, readVars, faults>>
vars == <<table, profiles, used, request, refs, lost, raced, busVars>>

Events == [type: {"candidate.upserted", "candidate.deleted"}, id: Candidates]

ASSUME NoMessageAssumption == NoMessage \notin Events

Calls == [op: {"register", "update", "delete", "profile"}, id: Candidates,
          email: Emails \cup {None},
          step: {"lookup", "insert", "load", "create", "commit", "refresh", "announce"}]

ASSUME NoCallAssumption == None \notin Calls

Init ==
    /\ BusInit
    /\ table = [c \in Candidates |-> None]
    /\ profiles = [c \in Candidates |-> 0]
    /\ used = {}
    /\ request = [r \in Requests |-> None]
    /\ refs = {}
    /\ lost = {}
    /\ raced = {}

-----------------------------------------------------------------------------
(* Requests.                                                               *)

InFlight(c) == {r \in Requests : request[r] # None /\ request[r].id = c}

At(r, step) == request[r] # None /\ request[r].step = step

Step(r, step) == request' = [request EXCEPT ![r].step = step]

AnswerTo(r) == request' = [request EXCEPT ![r] = None]

Taken(email) == \E c \in Candidates : table[c] = email

Receive(r, call) ==
    /\ request[r] = None
    /\ Len(topic) + Cardinality({q \in Requests : request[q] # None}) < MaxEvents
    /\ request' = [request EXCEPT ![r] = call]
    /\ UNCHANGED <<table, profiles, refs, lost, busVars>>

ReceiveRegister(r, c, email) ==
    /\ c \notin used
    /\ used' = used \cup {c}
    /\ Receive(r, [op |-> "register", id |-> c, email |-> email, step |-> "lookup"])
    /\ UNCHANGED raced

\* A call on an id without a row is answered 404 and left out.
ReceiveCall(r, c, op) ==
    /\ table[c] # None
    /\ Receive(r, [op |-> op, id |-> c, email |-> None, step |-> "load"])
    /\ raced' = IF InFlight(c) # {} THEN raced \cup {c} ELSE raced
    /\ UNCHANGED used

readOnly == <<table, profiles, used, refs, lost, raced, busVars>>

LookUp(r) ==
    /\ At(r, "lookup")
    /\ IF Taken(request[r].email) THEN AnswerTo(r)           \* 409
       ELSE Step(r, "insert")
    /\ UNCHANGED readOnly

Insert(r) ==
    LET call == request[r] IN
    /\ At(r, "insert")
    /\ IF Taken(call.email)
       THEN AnswerTo(r) /\ UNCHANGED table                   \* 500, UNIQUE
       ELSE Step(r, "refresh") /\ table' = [table EXCEPT ![call.id] = call.email]
    /\ UNCHANGED <<profiles, used, refs, lost, raced, busVars>>

\* Mutant: the deletion is announced and not committed.
AnnounceFirst(r) ==
    /\ At(r, "load")
    /\ IF table[request[r].id] = None THEN AnswerTo(r)
       ELSE Step(r, IF request[r].op = "delete" THEN "announce" ELSE "commit")
    /\ UNCHANGED readOnly

\* _get_or_404; the profile is loaded with the candidate.
Load(r) ==
    LET call == request[r] IN
    /\ At(r, "load")
    /\ IF table[call.id] = None THEN AnswerTo(r)             \* 404
       ELSE Step(r, IF call.op = "profile" /\ profiles[call.id] = 0
                    THEN "create" ELSE "commit")
    /\ UNCHANGED readOnly

\* Mutant: candidate_id is not UNIQUE.
AnyNumber(c) == table[c] # None

\* candidate_id REFERENCES candidates, and is UNIQUE.
MayHaveProfile(c) == table[c] # None /\ profiles[c] = 0

\* The INSERT of a profile by a request that found none.
CreateProfile(r) ==
    LET c == request[r].id IN
    /\ At(r, "create")
    /\ \/ ~MayHaveProfile(c) /\ AnswerTo(r) /\ UNCHANGED profiles       \* 500
       \/ /\ MayHaveProfile(c)
          /\ profiles' = [profiles EXCEPT ![c] = @ + 1]
          /\ Step(r, "refresh")
    /\ UNCHANGED <<table, used, refs, lost, raced, busVars>>

\* An UPDATE of a candidate or profile that is gone is an error; one that
\* changes nothing is not sent.
CommitUpdate(r) ==
    /\ At(r, "commit") /\ request[r].op # "delete"
    /\ \/ table[request[r].id] = None /\ AnswerTo(r)         \* 500
       \/ Step(r, "refresh")
    /\ UNCHANGED readOnly

\* Mutant: nothing is announced.
DeleteQuietly(r) ==
    /\ At(r, "commit") /\ request[r].op = "delete"
    /\ table' = [table EXCEPT ![request[r].id] = None]
    /\ profiles' = [profiles EXCEPT ![request[r].id] = 0]
    /\ AnswerTo(r)
    /\ UNCHANGED <<used, refs, lost, raced, busVars>>

\* The profile goes too: ON DELETE CASCADE.
CommitDelete(r) ==
    /\ At(r, "commit") /\ request[r].op = "delete"
    /\ table' = [table EXCEPT ![request[r].id] = None]
    /\ profiles' = [profiles EXCEPT ![request[r].id] = 0]
    /\ Step(r, "announce")
    /\ UNCHANGED <<used, refs, lost, raced, busVars>>

Refresh(r) ==
    /\ At(r, "refresh")
    /\ IF table[request[r].id] = None \/ request[r].op = "profile"
       THEN AnswerTo(r)                                      \* 500; 200
       ELSE Step(r, "announce")
    /\ UNCHANGED readOnly

\* A registration or deletion that was committed and not announced yet: news
\* for the read model, which an update has not.
HasNews(r) ==
    /\ request[r] # None /\ request[r].op \in {"register", "delete"}
    /\ request[r].step \in {"refresh", "announce"}

Upserted(c) == [type |-> "candidate.upserted", id |-> c]

Deleted(c) == [type |-> "candidate.deleted", id |-> c]

Announce(r) ==
    LET c == request[r].id IN
    /\ At(r, "announce")
    /\ publish(IF request[r].op = "delete" THEN Deleted(c) ELSE Upserted(c))
    /\ lost' = IF CanSend THEN lost \ {c} ELSE IF HasNews(r) THEN lost \cup {c} ELSE lost
    /\ AnswerTo(r)
    /\ UNCHANGED <<table, profiles, used, refs, raced, broker, producer, faults, readVars>>

\* The connection to the database breaks at the step the request is at.  For a
\* deletion that may be the answer to a commit that went through.
DatabaseFails(r) ==
    /\ request[r] # None
    /\ request[r].step = "announce" => request[r].op = "delete"
    /\ lost' = IF HasNews(r) THEN lost \cup {request[r].id} ELSE lost
    /\ AnswerTo(r)
    /\ Fault
    /\ UNCHANGED <<table, profiles, used, refs, raced, logVars, readVars>>

\* The candidates service stops and starts again.
Restart ==
    /\ start
    /\ request' = [r \in Requests |-> None]
    /\ lost' = lost \cup {request[r].id : r \in {q \in Requests : HasNews(q)}}
    /\ Fault
    /\ UNCHANGED <<table, profiles, used, refs, raced, broker, topic, readVars>>

-----------------------------------------------------------------------------
(* handle_event, in the applications service.                              *)

handle_event ==
    /\ Handled
    /\ refs' = IF handling.type = "candidate.upserted"
               THEN refs \cup {handling.id} ELSE refs \ {handling.id}
    /\ UNCHANGED <<table, profiles, used, request, lost, raced>>

-----------------------------------------------------------------------------

Request(r) ==
    \/ LookUp(r) \/ Insert(r) \/ Load(r) \/ CreateProfile(r) \/ CommitUpdate(r)
    \/ CommitDelete(r) \/ Refresh(r) \/ Announce(r) \/ DatabaseFails(r)

Next ==
    \/ \E r \in Requests, c \in Candidates :
          \/ \E email \in Emails : ReceiveRegister(r, c, email)
          \/ \E op \in {"update", "delete", "profile"} : ReceiveCall(r, c, op)
    \/ \E r \in Requests : Request(r)
    \/ Restart
    \/ Bus /\ UNCHANGED <<table, profiles, used, request, refs, lost, raced>>
    \/ handle_event

Spec == Init /\ [][Next]_vars

\* The loop of run_consumer never ends and its handler returns.  Kafka is under
\* no obligation, and nothing makes a request arrive or finish.
FairSpec ==
    /\ Spec
    /\ WF_vars(Connect /\ UNCHANGED <<table, profiles, used, request, refs, lost, raced>>)
    /\ WF_vars(Read /\ UNCHANGED <<table, profiles, used, request, refs, lost, raced>>)
    /\ WF_vars(handle_event)

-----------------------------------------------------------------------------
(* Properties.                                                             *)

TypeOK ==
    /\ BusTypeOK(Events)
    /\ table \in [Candidates -> Emails \cup {None}]
    /\ profiles \in [Candidates -> Nat]
    /\ used \subseteq Candidates
    /\ request \in [Requests -> Calls \cup {None}]
    /\ refs \subseteq Candidates
    /\ lost \subseteq Candidates
    /\ raced \subseteq Candidates

About(i, c) == topic[i].id = c

LastAbout(i, c) ==
    About(i, c) /\ \A k \in 1..Len(topic) : About(k, c) => k <= i

\* consumers.py: "Handlers are idempotent, so redelivered events are safe".
\* Whatever is delivered again after a restart, a consumer that has caught up
\* holds what the last event of each candidate says, unless just that event was
\* read last without being handled.
RefsFollowTopic ==
    CaughtUp => \A c \in Candidates :
        /\ \A i \in 1..Len(topic) : LastAbout(i, c) /\ i \notin skipped =>
              (c \in refs <=> topic[i].type = "candidate.upserted")
        /\ (\A i \in 1..Len(topic) : ~About(i, c)) => c \notin refs

\* No request is at work on c, its news was sent, and none of it was skipped by
\* the consumer, which has caught up.
Settled(c) ==
    /\ InFlight(c) = {}
    /\ c \notin lost
    /\ CaughtUp
    /\ \A i \in skipped : ~About(i, c)

\* IMPLEMENTATION.md: events are published on create, update and delete, "so
\* the applications read-model stays current".  Whatever overlaps, a candidate
\* who is registered is known to the applications service once things settle.
RegisteredIsKnown ==
    \A c \in Candidates : Settled(c) /\ table[c] # None => c \in refs

\* A deleted candidate is forgotten once things settle.  That takes requests on
\* one candidate that do not overlap: the event of an update or registration
\* may be sent after the one of a deletion that was committed later.
DeletedIsForgotten ==
    \A c \in Candidates : Settled(c) /\ c \notin raced /\ table[c] = None => c \notin refs

\* IMPLEMENTATION.md: candidate_profiles is 1:1.  The upsert looks for a profile
\* and inserts one an await later; neither two of them nor a deletion in
\* between leaves a candidate with two profiles, or a profile on its own.
OneProfile == \A c \in Candidates : profiles[c] <= IF table[c] = None THEN 0 ELSE 1

\* consumer.py: "a consumer can start before Kafka is ready and catch up once
\* it is".
CatchesUp == <>[]broker => <>[]CaughtUp

=============================================================================
