------------------------- MODULE ApplicationsProofs -------------------------
(***************************************************************************)
(* Proofs about Applications, for every set of jobs, candidates and        *)
(* request slots and every cap.                                            *)
(*                                                                         *)
(* TypeOK is not inductive: an event carries the status of the row the     *)
(* request holds, so a request must be known to hold a row when it         *)
(* publishes.  Held says what a request knows at each await; the other     *)
(* invariants are proved relative to it.                                   *)
(***************************************************************************)
EXTENDS Applications, FiniteSetTheorems, TLAPS

\* What a request past a check may still rely on, whatever others commit.
Held ==
    \A r \in Requests :
        /\ pc[r] = "load" =>
              /\ call[r].op # "apply"
              /\ call[r].op = "withdraw" => call[r].target = "withdrawn"
        /\ pc[r] = "commit" =>
              /\ call[r].op # "apply"
              /\ loaded[r] # NoRow
              /\ LegalStep(loaded[r].status, call[r].target)
        /\ pc[r] = "refresh" => applications[call[r].pair] # NoRow
        /\ pc[r] = "publish" =>
              loaded[r] # NoRow /\ applications[call[r].pair] # NoRow
        /\ loaded[r] # NoRow => pc[r] \in {"commit", "refresh", "publish"}

TInv == TypeOK /\ Held

-----------------------------------------------------------------------------
(* The state machine of enums.py.                                          *)

\* Everything advance_stage and withdraw let through is a legal move.
LEMMA MayMoveIsLegal ==
    ASSUME NEW request \in Calls, NEW status \in ApplicationStatus,
           request.op = "withdraw" => request.target = "withdrawn",
           MayMove(request, status)
    PROVE  LegalStep(status, request.target)
<1>1. CASE request.op = "withdraw"
  BY <1>1 DEF MayMove, LegalStep, Terminal, ACTIVE_APPLICATION_STATUSES, ApplicationStatus
<1>2. CASE request.op = "advance"
  <2>1. request.target \in APPLICATION_TRANSITIONS[status]
    BY <1>2 DEF MayMove
  <2>2. \/ status = "applied" /\ request.target \in {"screening", "rejected"}
        \/ status = "screening" /\ request.target \in {"interview", "rejected"}
        \/ status = "interview" /\ request.target \in {"offer", "rejected"}
        \/ status = "offer" /\ request.target \in {"hired", "rejected"}
    BY <2>1 DEF APPLICATION_TRANSITIONS, ApplicationStatus
  <2>3. /\ Pipeline[1] = "applied" /\ Pipeline[2] = "screening"
        /\ Pipeline[3] = "interview" /\ Pipeline[4] = "offer" /\ Pipeline[5] = "hired"
        /\ 1 \in 1..4 /\ 2 \in 1..4 /\ 3 \in 1..4 /\ 4 \in 1..4
        /\ 1 + 1 = 2 /\ 2 + 1 = 3 /\ 3 + 1 = 4 /\ 4 + 1 = 5
    BY DEF Pipeline
  <2> QED
    BY <2>2, <2>3 DEF LegalStep, ACTIVE_APPLICATION_STATUSES
<1> QED
  BY <1>1, <1>2 DEF MayMove

\* Appending a legal move to a legal row gives a legal row.
LEMMA LegalAppend ==
    ASSUME NEW row \in Rows, row # NoRow, LegalRow(row),
           NEW target \in ApplicationStatus, LegalStep(row.status, target)
    PROVE  LegalRow([status |-> target, history |-> Append(row.history, target)])
<1> DEFINE h == row.history
           g == Append(h, target)
<1>1. h \in Seq(ApplicationStatus) /\ target \in ApplicationStatus
  BY DEF Rows
<1>2. /\ Len(h) > 0 /\ h[1] = "applied" /\ row.status = h[Len(h)]
      /\ \A i \in 1..(Len(h) - 1) : LegalStep(h[i], h[i + 1])
  BY DEF LegalRow
<1>3. /\ Len(g) = Len(h) + 1 /\ g[Len(h) + 1] = target
      /\ \A i \in 1..Len(h) : g[i] = h[i]
  BY <1>1
<1>4. Len(g) > 0 /\ g[1] = "applied" /\ target = g[Len(g)]
  BY <1>1, <1>2, <1>3
<1>5. ASSUME NEW i \in 1..(Len(g) - 1) PROVE LegalStep(g[i], g[i + 1])
  <2>1. CASE i = Len(h)
    BY <2>1, <1>1, <1>2, <1>3
  <2>2. CASE i # Len(h)
    <3>1. i \in 1..(Len(h) - 1) /\ i \in 1..Len(h) /\ i + 1 \in 1..Len(h)
      BY <2>2, <1>1, <1>3
    <3> QED
      BY <3>1, <1>2, <1>3
  <2> QED
    BY <2>1, <2>2
<1> QED
  BY <1>4, <1>5 DEF LegalRow

-----------------------------------------------------------------------------
(* Type correctness.                                                       *)

\* The history variables keep their types and only ever grow.
Noted ==
    /\ raced' \subseteq Pairs /\ raced \subseteq raced'
    /\ crowd' \in [Candidates -> Nat]
    /\ \A c \in Candidates : crowd[c] <= crowd'[c]

LEMMA WritingFinite ==
    ASSUME NEW c \in Candidates
    PROVE  IsFiniteSet(Writing(c)) /\ Cardinality(Writing(c)) \in Nat
<1>1. Writing(c) \subseteq Requests
  BY DEF Writing
<1> QED
  BY <1>1, RequestsAssumption, FS_Subset, FS_CardinalityType

LEMMA NotedNext == TypeOK /\ [Next]_vars => Noted
<1> SUFFICES ASSUME TypeOK, [Next]_vars PROVE Noted
  OBVIOUS
<1>1. raced \subseteq Pairs /\ crowd \in [Candidates -> Nat]
  BY DEF TypeOK
<1>2. CASE UNCHANGED <<raced, crowd>>
  BY <1>1, <1>2 DEF Noted
<1>3. ASSUME NEW r \in Requests, NEW ok \in BOOLEAN, call[r] \in Calls,
             NoteRace(r, ok) \/ UNCHANGED raced, NoteCrowd(r, ok) \/ UNCHANGED crowd
      PROVE  Noted
  <2>1. call[r].pair \in Pairs /\ call[r].pair[2] \in Candidates
    BY <1>3 DEF Calls, Pairs
  <2>2. Cardinality(Writing(call[r].pair[2])) \in Nat
    BY <2>1, WritingFinite
  <2>3. raced' \subseteq Pairs /\ raced \subseteq raced'
    BY <1>1, <1>3, <2>1 DEF NoteRace
  <2>4. crowd' \in [Candidates -> Nat] /\ \A c \in Candidates : crowd[c] <= crowd'[c]
    BY <1>1, <1>3, <2>1, <2>2 DEF NoteCrowd
  <2> QED
    BY <2>3, <2>4 DEF Noted
<1>4. ASSUME NEW r \in Requests, Step(r) PROVE Noted
  <2>1. CASE CheckPair(r)
    BY <2>1, <1>3 DEF CheckPair, TypeOK
  <2>2. CASE CheckLimit(r)
    <3>1. UnderLimit(call[r].pair[2]) \in BOOLEAN
      BY DEF UnderLimit
    <3>2. /\ call[r] \in Calls /\ UNCHANGED raced
          /\ NoteCrowd(r, UnderLimit(call[r].pair[2]))
      BY <2>2 DEF CheckLimit, TypeOK
    <3> QED
      BY <3>1, <3>2, <1>3
  <2>3. CASE Load(r)
    <3>1. PICK ok \in BOOLEAN : NoteRace(r, ok) /\ NoteCrowd(r, ok)
      BY <2>3 DEF Load
    <3>2. call[r] \in Calls
      BY <2>3 DEF Load, TypeOK
    <3> QED
      BY <3>1, <3>2, <1>3
  <2> QED
    BY <1>4, <1>2, <2>1, <2>2, <2>3
    DEF Step, CheckCandidate, CheckJob, Insert, CommitMove, Refresh, Publish,
        DatabaseFails, tables
<1>5. CASE \E r \in Requests : Arrive(r)
  BY <1>5, <1>2 DEF Arrive, ReceiveApply, ReceiveAdvance, ReceiveWithdraw, Receive, tables
<1>6. CASE HandleEvent
  BY <1>6, <1>2 DEF HandleEvent, JobUpserted, JobDeleted, CandidateUpserted,
                    CandidateDeleted, others
<1>7. CASE Crash \/ UNCHANGED vars
  BY <1>7, <1>2 DEF Crash, tables, vars
<1> QED
  BY <1>4, <1>5, <1>6, <1>7 DEF Next

LEMMA TypeInit == Init => TInv
BY NoneAssumption DEF Init, TInv, TypeOK, Held, Rows, NoRow, Labels, Responses

\* A request that ends leaves the invariant alone, as long as the tables only
\* change in type-correct ways and no row disappears.
LEMMA AnswerKeepsType ==
    ASSUME TInv, NEW r \in Requests, NEW status \in Responses,
           Answer(r, status), UNCHANGED <<applications, jobRefs, candidateRefs, committed>>,
           Noted,
           announced' \subseteq [type: EventTypes, pair: Pairs, status: ApplicationStatus]
    PROVE  TInv'
<1>1. TypeOK'
  BY DEF TInv, TypeOK, Answer, Goto, Rows, Labels, Noted
<1>2. Held'
  BY NoneAssumption DEF TInv, TypeOK, Held, Answer, Goto
<1> QED
  BY <1>1, <1>2 DEF TInv

\* So does a check that lets the request go on.
LEMMA CheckKeepsType ==
    ASSUME TInv, NEW r \in Requests, NEW status \in Responses,
           NEW label \in {"job", "pair", "limit", "insert"},
           pc[r] \in {"candidate", "job", "pair", "limit"},
           \/ Goto(r, label) /\ UNCHANGED <<call, loaded, response>>
           \/ Answer(r, status),
           UNCHANGED rows, Noted
    PROVE  TInv'
<1>1. CASE Answer(r, status)
  BY <1>1, AnswerKeepsType DEF TInv, TypeOK, rows
<1>2. CASE Goto(r, label) /\ UNCHANGED <<call, loaded, response>>
  <2>1. TypeOK'
    BY <1>2 DEF TInv, TypeOK, Goto, rows, Labels, Noted
  <2>2. Held'
    BY <1>2 DEF TInv, TypeOK, Held, Goto, rows
  <2> QED
    BY <2>1, <2>2 DEF TInv
<1> QED
  BY <1>1, <1>2

LEMMA ReceiveKeepsType ==
    ASSUME TInv, NEW r \in Requests, NEW request \in Calls,
           NEW label \in {"candidate", "load"},
           label = "load" =>
              /\ request.op # "apply"
              /\ request.op = "withdraw" => request.target = "withdrawn",
           Receive(r, request, label)
    PROVE  TInv'
<1>1. TypeOK'
  BY DEF TInv, TypeOK, Receive, Goto, tables, rows, Labels, Responses
<1>2. Held'
  BY DEF TInv, TypeOK, Held, Receive, Goto, tables, rows
<1> QED
  BY <1>1, <1>2 DEF TInv

LEMMA TypeNext == TInv /\ [Next]_vars => TInv'
<1> SUFFICES ASSUME TInv, [Next]_vars PROVE TInv'
  OBVIOUS
<1> Noted
  BY NotedNext DEF TInv
<1>1. ASSUME NEW r \in Requests, Arrive(r) PROVE TInv'
  <2>1. PICK p \in Pairs :
            \/ \E idempotent \in BOOLEAN : ReceiveApply(r, p, idempotent)
            \/ \E target \in Targets : ReceiveAdvance(r, p, target)
            \/ ReceiveWithdraw(r, p)
    BY <1>1 DEF Arrive
  <2>2. ASSUME NEW idempotent \in BOOLEAN, ReceiveApply(r, p, idempotent) PROVE TInv'
    <3> DEFINE request == [op |-> "apply", pair |-> p, target |-> "applied",
                           idempotent |-> idempotent]
    <3>1. request \in Calls
      BY DEF Calls, ApplicationStatus
    <3>2. Receive(r, request, "candidate")
      BY <2>2 DEF ReceiveApply
    <3> HIDE DEF request
    <3> QED
      BY <3>1, <3>2, ReceiveKeepsType
  <2>3. ASSUME NEW target \in Targets, ReceiveAdvance(r, p, target) PROVE TInv'
    <3> DEFINE request == [op |-> "advance", pair |-> p, target |-> target,
                           idempotent |-> FALSE]
    <3>1. request \in Calls /\ request.op = "advance"
      BY TargetsAssumption DEF Calls
    <3>2. Receive(r, request, "load")
      BY <2>3 DEF ReceiveAdvance
    <3> HIDE DEF request
    <3> QED
      BY <3>1, <3>2, ReceiveKeepsType
  <2>4. CASE ReceiveWithdraw(r, p)
    <3> DEFINE request == [op |-> "withdraw", pair |-> p, target |-> "withdrawn",
                           idempotent |-> FALSE]
    <3>1. request \in Calls /\ request.op = "withdraw" /\ request.target = "withdrawn"
      BY DEF Calls, ApplicationStatus
    <3>2. Receive(r, request, "load")
      BY <2>4 DEF ReceiveWithdraw
    <3> HIDE DEF request
    <3> QED
      BY <3>1, <3>2, ReceiveKeepsType
  <2> QED
    BY <2>1, <2>2, <2>3, <2>4
<1>2. ASSUME NEW r \in Requests, Step(r) PROVE TInv'
  <2>1. CASE CheckCandidate(r)
    BY <2>1, CheckKeepsType DEF CheckCandidate, CheckOr, Responses, tables
  <2>2. CASE CheckJob(r)
    BY <2>2, CheckKeepsType DEF CheckJob, CheckOr, Responses, tables
  <2>3. CASE CheckPair(r)
    BY <2>3, CheckKeepsType DEF CheckPair, CheckOr, Responses
  <2>4. CASE CheckLimit(r)
    BY <2>4, CheckKeepsType DEF CheckLimit, CheckOr, UnderLimit, Responses
  <2>5. CASE Insert(r)
    <3>1. call[r].pair \in Pairs
      BY <2>5 DEF Insert, TInv, TypeOK, Calls
    <3>2. CASE Answer(r, "integrity_error") /\ UNCHANGED <<applications, committed>>
      BY <2>5, <3>2, AnswerKeepsType DEF Insert, TInv, TypeOK, Responses
    <3>3. CASE /\ applications' = [applications EXCEPT
                      ![call[r].pair] = [status |-> "applied", history |-> <<"applied">>]]
               /\ committed' = committed \cup {<<call[r].pair, "applied">>}
               /\ Goto(r, "refresh")
               /\ UNCHANGED <<call, loaded, response>>
      <4>1. [status |-> "applied", history |-> <<"applied">>] \in Rows \ {NoRow}
        BY DEF Rows, NoRow, ApplicationStatus
      <4>2. TypeOK'
        BY <2>5, <3>1, <3>3, <4>1 DEF Insert, TInv, TypeOK, Goto, Labels, ApplicationStatus
      <4>3. Held'
        BY <2>5, <3>1, <3>3, <4>1 DEF Insert, TInv, TypeOK, Held, Goto
      <4> QED
        BY <4>2, <4>3 DEF TInv
    <3> QED
      BY <2>5, <3>2, <3>3 DEF Insert
  <2>6. CASE Load(r)
    <3> DEFINE row == applications[call[r].pair]
    <3>1. call[r] \in Calls /\ call[r].pair \in Pairs
      BY <2>6 DEF Load, TInv, TypeOK, Calls
    <3>2. CASE Answer(r, "not_found") \/ Answer(r, "unprocessable")
      BY <2>6, <3>2, AnswerKeepsType DEF Load, rows, TInv, TypeOK, Responses
    <3>3. CASE /\ row # NoRow /\ MayMove(call[r], row.status)
               /\ loaded' = [loaded EXCEPT ![r] = row]
               /\ Goto(r, "commit")
               /\ UNCHANGED <<call, response>>
      <4>1. row \in Rows /\ row.status \in ApplicationStatus
        BY <3>1, <3>3 DEF TInv, TypeOK, Rows
      <4>2. LegalStep(row.status, call[r].target)
        BY <2>6, <3>1, <3>3, <4>1, MayMoveIsLegal DEF Load, TInv, Held
      <4>3. TypeOK'
        BY <2>6, <3>1, <3>3, <4>1 DEF Load, rows, TInv, TypeOK, Goto, Labels, Noted
      <4>4. Held'
        BY <2>6, <3>1, <3>3, <4>2 DEF Load, rows, TInv, TypeOK, Held, Goto
      <4> QED
        BY <4>3, <4>4 DEF TInv
    <3> QED
      BY <2>6, <3>2, <3>3 DEF Load
  <2>7. CASE CommitMove(r)
    <3>1. call[r] \in Calls /\ call[r].pair \in Pairs /\ call[r].target \in ApplicationStatus
      BY <2>7 DEF CommitMove, TInv, TypeOK, Calls
    <3>2. loaded[r] \in Rows /\ loaded[r] # NoRow
      BY <2>7 DEF CommitMove, TInv, TypeOK, Held
    <3>3. Moved(r) \in Rows /\ Moved(r) # NoRow
      BY <3>1, <3>2 DEF Moved, Rows, NoRow, ApplicationStatus
    <3>4. TypeOK'
      BY <2>7, <3>1, <3>3 DEF CommitMove, TInv, TypeOK, Goto, Labels
    <3>5. Held'
      BY <2>7, <3>1, <3>3 DEF CommitMove, TInv, TypeOK, Held, Goto
    <3> QED
      BY <3>4, <3>5 DEF TInv
  <2>8. CASE Refresh(r)
    <3>1. call[r].pair \in Pairs
      BY <2>8 DEF Refresh, TInv, TypeOK, Calls
    <3>2. TypeOK'
      BY <2>8, <3>1 DEF Refresh, tables, rows, TInv, TypeOK, Goto, Labels
    <3>3. Held'
      BY <2>8, <3>1 DEF Refresh, tables, rows, TInv, TypeOK, Held, Goto
    <3> QED
      BY <3>2, <3>3 DEF TInv
  <2>9. CASE Publish(r)
    <3>1. call[r].pair \in Pairs /\ EventOf(call[r].op) \in EventTypes
      BY <2>9 DEF Publish, TInv, TypeOK, Calls, EventOf, EventTypes
    <3>2. loaded[r].status \in ApplicationStatus
      BY <2>9 DEF Publish, TInv, TypeOK, Held, Rows
    <3> QED
      BY <2>9, <3>1, <3>2, AnswerKeepsType DEF Publish, TInv, TypeOK, Responses
  <2>10. CASE DatabaseFails(r)
    BY <2>10, AnswerKeepsType DEF DatabaseFails, tables, rows, TInv, TypeOK, Responses
  <2> QED
    BY <1>2, <2>1, <2>2, <2>3, <2>4, <2>5, <2>6, <2>7, <2>8, <2>9, <2>10 DEF Step
<1>3. CASE HandleEvent
  BY <1>3, EventsAssumption
  DEF HandleEvent, JobUpserted, JobDeleted, CandidateUpserted, CandidateDeleted,
      others, TInv, TypeOK, Held
<1>4. CASE Crash
  BY <1>4 DEF Crash, tables, rows, TInv, TypeOK, Held, Labels, Rows, Responses
<1>5. CASE UNCHANGED vars
  BY <1>5 DEF vars, TInv, TypeOK, Held
<1> QED
  BY <1>1, <1>2, <1>3, <1>4, <1>5 DEF Next

LEMMA TypeInvariant == Spec => []TInv
BY TypeInit, TypeNext, PTL DEF Spec

\* Every variable keeps its type: in particular a request past "idle" knows
\* its call, and a published event carries a status the row really had.
THEOREM TypeCorrect == Spec => []TypeOK
<1>1. TInv => TypeOK
  BY DEF TInv
<1> QED
  BY <1>1, TypeInvariant, PTL

-----------------------------------------------------------------------------
(* What a step can do to the rows: the only writers of the table are       *)
(* INSERT and the flush of a move, the only readers that keep a copy are   *)
(* the load and the refresh.                                               *)

\* The cap lets a request through.
Admitted(r) ==
    /\ pc[r] = "limit"
    /\ UnderLimit(call[r].pair[2])
    /\ Goto(r, "insert")
    /\ UNCHANGED call

\* Every other step leaves the table, the topic and the history variable as
\* they are and at most drops copies.
Quiet ==
    /\ UNCHANGED <<applications, announced, committed>>
    /\ \A r \in Requests :
          \/ loaded'[r] = NoRow
          \/ loaded'[r] = loaded[r] /\ call'[r] = call[r]
    /\ \A r \in Requests :
          pc'[r] \in {"refresh", "publish"} => pc'[r] = pc[r] /\ call'[r] = call[r]
    /\ \A r \in Requests :
          pc'[r] \in {"insert", "commit"} =>
              \/ pc'[r] = pc[r] /\ call'[r] = call[r]
              \/ Admitted(r)

Inserted(r) ==
    /\ pc[r] = "insert"
    /\ applications[call[r].pair] = NoRow
    /\ applications' = [applications EXCEPT
          ![call[r].pair] = [status |-> "applied", history |-> <<"applied">>]]
    /\ committed' = committed \cup {<<call[r].pair, "applied">>}
    /\ Goto(r, "refresh")
    /\ UNCHANGED <<call, loaded, announced>>

Copied(r) ==
    /\ loaded' = [loaded EXCEPT ![r] = applications[call[r].pair]]
    /\ \/ pc[r] = "load" /\ Goto(r, "commit")
       \/ pc[r] = "refresh" /\ Goto(r, "publish")
    /\ UNCHANGED <<applications, call, announced, committed>>

\* Every step of the service is one of these; the cases of all later proofs.
LEMMA StepCases ==
    ASSUME TInv, [Next]_vars
    PROVE  \/ Quiet
           \/ \E r \in Requests : Inserted(r) \/ CommitMove(r) \/ Copied(r) \/ Publish(r)
<1> USE DEF Goto
<1>1. ASSUME NEW r \in Requests, NEW status \in Responses, Answer(r, status),
             UNCHANGED <<applications, announced, committed>>
      PROVE  Quiet
  BY <1>1 DEF Quiet, Answer, TInv, TypeOK
<1>2. ASSUME NEW r \in Requests, Arrive(r) PROVE Quiet
  BY <1>2 DEF Quiet, Arrive, ReceiveApply, ReceiveAdvance, ReceiveWithdraw, Receive,
              tables, rows, TInv, TypeOK, Held
<1>3. ASSUME NEW r \in Requests, NEW label \in {"job", "pair", "limit"},
             NEW status \in Responses,
             \/ Goto(r, label) /\ UNCHANGED <<call, loaded, response>>
             \/ Answer(r, status),
             UNCHANGED rows
      PROVE  Quiet
  <2>1. CASE Answer(r, status)
    BY <1>1, <1>3, <2>1 DEF rows
  <2>2. CASE Goto(r, label) /\ UNCHANGED <<call, loaded, response>>
    BY <1>3, <2>2 DEF Quiet, rows, TInv, TypeOK
  <2> QED
    BY <1>3, <2>1, <2>2
<1>4. ASSUME NEW r \in Requests, Step(r)
      PROVE  Quiet \/ Inserted(r) \/ CommitMove(r) \/ Copied(r) \/ Publish(r)
  <2>1. CASE CheckCandidate(r)
    BY <2>1, <1>3 DEF CheckCandidate, CheckOr, tables, Responses
  <2>2. CASE CheckJob(r)
    BY <2>2, <1>3 DEF CheckJob, CheckOr, tables, Responses
  <2>3. CASE CheckPair(r)
    BY <2>3, <1>3 DEF CheckPair, CheckOr, Responses
  <2>4. CASE CheckLimit(r)
    <3>1. CASE Answer(r, "unprocessable")
      BY <2>4, <3>1, <1>1 DEF CheckLimit, rows, Responses
    <3>2. CASE /\ UnderLimit(call[r].pair[2])
               /\ Goto(r, "insert")
               /\ UNCHANGED <<call, loaded, response>>
      BY <2>4, <3>2 DEF CheckLimit, Quiet, Admitted, rows, TInv, TypeOK
    <3> QED
      BY <2>4, <3>1, <3>2 DEF CheckLimit, CheckOr
  <2>5. CASE Insert(r)
    BY <2>5, <1>1 DEF Insert, Inserted, Responses
  <2>6. CASE Load(r)
    BY <2>6, <1>1 DEF Load, Copied, rows, Responses
  <2>7. CASE Refresh(r)
    BY <2>7 DEF Refresh, Copied, tables, rows
  <2>8. CASE DatabaseFails(r)
    BY <2>8, <1>1 DEF DatabaseFails, tables, rows, Responses
  <2> QED
    BY <1>4, <2>1, <2>2, <2>3, <2>4, <2>5, <2>6, <2>7, <2>8 DEF Step
<1>5. CASE HandleEvent
  BY <1>5 DEF HandleEvent, JobUpserted, JobDeleted, CandidateUpserted,
              CandidateDeleted, others, Quiet
<1>6. CASE Crash
  BY <1>6 DEF Crash, tables, rows, Quiet
<1>7. CASE UNCHANGED vars
  BY <1>7 DEF vars, Quiet
<1> QED
  BY <1>2, <1>4, <1>5, <1>6, <1>7 DEF Next

-----------------------------------------------------------------------------
(* The stored history is a legal walk.  Not inductive alone: a racing      *)
(* request writes a row computed from the copy it loaded, so the copies    *)
(* must be legal too, and the move it is about to make legal from there.   *)

LegalRows ==
    /\ HistoryIsLegalWalk
    /\ \A r \in Requests : LegalRow(loaded[r])

LEMMA LegalNext ==
    ASSUME TInv, LegalRows, [Next]_vars
    PROVE  LegalRows'
<1>1. CASE Quiet
  BY <1>1 DEF Quiet, LegalRows, HistoryIsLegalWalk, LegalRow
<1>2. ASSUME NEW r \in Requests, Inserted(r) PROVE LegalRows'
  <2> DEFINE row == [status |-> "applied", history |-> <<"applied">>]
  <2>1. LegalRow(row)
    BY DEF LegalRow
  <2>2. call[r].pair \in Pairs
    BY <1>2 DEF Inserted, TInv, TypeOK, Calls
  <2>3. \A p \in Pairs : applications'[p] = applications[p] \/ applications'[p] = row
    BY <1>2, <2>2 DEF Inserted, TInv, TypeOK
  <2>4. HistoryIsLegalWalk'
    BY <2>1, <2>3 DEF LegalRows, HistoryIsLegalWalk, LegalRow
  <2> QED
    BY <1>2, <2>4 DEF Inserted, LegalRows, LegalRow
<1>3. ASSUME NEW r \in Requests, CommitMove(r) PROVE LegalRows'
  <2>1. /\ loaded[r] \in Rows /\ loaded[r] # NoRow /\ LegalRow(loaded[r])
        /\ call[r].target \in ApplicationStatus
        /\ LegalStep(loaded[r].status, call[r].target)
    BY <1>3 DEF CommitMove, LegalRows, TInv, TypeOK, Held, Calls
  <2>2. LegalRow(Moved(r))
    BY <2>1, LegalAppend DEF Moved
  <2>3. \A p \in Pairs : applications'[p] = applications[p] \/ applications'[p] = Moved(r)
    BY <1>3 DEF CommitMove, TInv, TypeOK, Calls
  <2>4. HistoryIsLegalWalk'
    BY <2>2, <2>3 DEF LegalRows, HistoryIsLegalWalk, LegalRow
  <2> QED
    BY <1>3, <2>4 DEF CommitMove, LegalRows, LegalRow
<1>4. ASSUME NEW r \in Requests, Copied(r) PROVE LegalRows'
  <2>1. call[r].pair \in Pairs
    BY <1>4 DEF Copied, TInv, TypeOK, Calls
  <2>2. \A q \in Requests :
          loaded'[q] = loaded[q] \/ loaded'[q] = applications[call[r].pair]
    BY <1>4 DEF Copied, TInv, TypeOK
  <2> QED
    BY <1>4, <2>1, <2>2 DEF Copied, LegalRows, HistoryIsLegalWalk, LegalRow
<1>5. ASSUME NEW r \in Requests, Publish(r) PROVE LegalRows'
  <2>1. \A q \in Requests : loaded'[q] = loaded[q] \/ loaded'[q] = NoRow
    BY <1>5 DEF Publish, Answer, TInv, TypeOK
  <2> QED
    BY <1>5, <2>1 DEF Publish, LegalRows, HistoryIsLegalWalk, LegalRow
<1> QED
  BY <1>1, <1>2, <1>3, <1>4, <1>5, StepCases

\* However many requests race on a row and whichever of them overwrite each
\* other, its stage_history is a walk along the pipeline ending in its status.
THEOREM HistoryStaysLegal == Spec => []HistoryIsLegalWalk
<1>1. Init => LegalRows
  BY DEF Init, LegalRows, HistoryIsLegalWalk, LegalRow
<1>2. TInv /\ LegalRows /\ [Next]_vars => LegalRows'
  BY LegalNext
<1>3. LegalRows => HistoryIsLegalWalk
  BY DEF LegalRows
<1> QED
  BY <1>1, <1>2, <1>3, TypeInvariant, PTL DEF Spec


-----------------------------------------------------------------------------
(* An event never runs ahead of the database: the row a request publishes  *)
(* is one its session read back, and what is read back was committed.      *)

Recorded ==
    /\ \A p \in Pairs :
          applications[p] # NoRow => <<p, applications[p].status>> \in committed
    /\ \A r \in Requests :
          loaded[r] # NoRow => <<call[r].pair, loaded[r].status>> \in committed

LEMMA RecordedNext ==
    ASSUME TInv, Recorded, [Next]_vars
    PROVE  Recorded'
<1>1. CASE Quiet
  BY <1>1 DEF Quiet, Recorded
<1>2. ASSUME NEW r \in Requests, Inserted(r) PROVE Recorded'
  <2>1. call[r].pair \in Pairs
    BY <1>2 DEF Inserted, TInv, TypeOK, Calls
  <2> QED
    BY <1>2, <2>1 DEF Inserted, Recorded, TInv, TypeOK
<1>3. ASSUME NEW r \in Requests, CommitMove(r) PROVE Recorded'
  <2>1. call[r].pair \in Pairs
    BY <1>3 DEF CommitMove, TInv, TypeOK, Calls
  <2>2. Moved(r).status = call[r].target
    BY DEF Moved
  <2> QED
    BY <1>3, <2>1, <2>2 DEF CommitMove, Recorded, TInv, TypeOK
<1>4. ASSUME NEW r \in Requests, Copied(r) PROVE Recorded'
  <2>1. call[r].pair \in Pairs
    BY <1>4 DEF Copied, TInv, TypeOK, Calls
  <2> QED
    BY <1>4, <2>1 DEF Copied, Recorded, TInv, TypeOK
<1>5. ASSUME NEW r \in Requests, Publish(r) PROVE Recorded'
  BY <1>5 DEF Publish, Answer, Recorded, TInv, TypeOK
<1> QED
  BY <1>1, <1>2, <1>3, <1>4, <1>5, StepCases

\* producer.py's ordering: whatever the races, losses and restarts, the topic
\* never announces a status the database did not hold.
THEOREM AnnouncedWasCommitted == Spec => EventsAfterCommit
<1>1. Init => Recorded
  BY DEF Init, Recorded
<1>2. TInv /\ Recorded /\ [Next]_vars => Recorded'
  BY RecordedNext
<1>3. ASSUME TInv, Recorded, [Next]_vars, NEW e \in announced' \ announced
      PROVE  <<e.pair, e.status>> \in committed
  <2>1. PICK r \in Requests : Publish(r)
    BY <1>3, StepCases DEF Quiet, Inserted, CommitMove, Copied
  <2>2. <<call[r].pair, loaded[r].status>> \in committed
    BY <1>3, <2>1 DEF Publish, Recorded, TInv, Held
  <2>3. e.pair = call[r].pair /\ e.status = loaded[r].status
    BY <1>3, <2>1 DEF Publish
  <2> QED
    BY <2>2, <2>3
<1>4. TInv /\ Recorded /\ [Next]_vars =>
        [\A e \in announced' \ announced : <<e.pair, e.status>> \in committed]_vars
  BY <1>3
<1> QED
  BY <1>1, <1>2, <1>4, TypeInvariant, PTL DEF Spec, EventsAfterCommit

-----------------------------------------------------------------------------
(* One application.created per pair.  The UNIQUE constraint is what makes  *)
(* it true: only the INSERT that finds no row gets to publish one, and the *)
(* row never goes away again.                                              *)

CreatedWithRow ==
    /\ CreatedOnce
    /\ \A e \in announced :
          e.type = "application.created" => applications[e.pair] # NoRow

LEMMA CreatedNext ==
    ASSUME TInv, CreatedWithRow, [Next]_vars
    PROVE  CreatedWithRow'
<1>1. CASE Quiet
  BY <1>1 DEF Quiet, CreatedWithRow, CreatedOnce, Creating
<1>2. ASSUME NEW r \in Requests, Inserted(r) PROVE CreatedWithRow'
  <2> DEFINE p == call[r].pair
  <2>1. p \in Pairs
    BY <1>2 DEF Inserted, TInv, TypeOK, Calls
  <2>2. /\ \A q \in Requests : ~Creating(q, p)
        /\ \A e \in announced : ~(e.type = "application.created" /\ e.pair = p)
    BY <1>2 DEF Inserted, Creating, CreatedWithRow, TInv, Held
  <2>3. \A q \in Requests, o \in Pairs :
          Creating(q, o)' => Creating(q, o) \/ (q = r /\ o = p)
    BY <1>2 DEF Inserted, Creating, Goto, TInv, TypeOK
  <2>4. CreatedOnce'
    BY <1>2, <2>1, <2>2, <2>3 DEF Inserted, CreatedWithRow, CreatedOnce
  <2>5. \A o \in Pairs : applications[o] # NoRow => applications'[o] # NoRow
    BY <1>2, <2>1 DEF Inserted, NoRow, TInv, TypeOK
  <2> QED
    BY <1>2, <2>4, <2>5 DEF Inserted, CreatedWithRow, TInv, TypeOK
<1>3. ASSUME NEW r \in Requests, CommitMove(r) PROVE CreatedWithRow'
  <2>1. call[r].op # "apply"
    BY <1>3 DEF CommitMove, TInv, Held
  <2>2. \A q \in Requests, o \in Pairs : Creating(q, o)' => Creating(q, o)
    BY <1>3, <2>1 DEF CommitMove, Creating, Goto, TInv, TypeOK
  <2>3. CreatedOnce'
    BY <1>3, <2>2 DEF CommitMove, CreatedWithRow, CreatedOnce
  <2>4. Moved(r) # NoRow
    BY <1>3 DEF CommitMove, Moved, NoRow, TInv, TypeOK, Calls, ApplicationStatus
  <2>5. \A o \in Pairs : applications[o] # NoRow => applications'[o] # NoRow
    BY <1>3, <2>4 DEF CommitMove, TInv, TypeOK
  <2> QED
    BY <1>3, <2>3, <2>5 DEF CommitMove, CreatedWithRow, TInv, TypeOK
<1>4. ASSUME NEW r \in Requests, Copied(r) PROVE CreatedWithRow'
  <2>1. \A q \in Requests, o \in Pairs : Creating(q, o)' => Creating(q, o)
    BY <1>4 DEF Copied, Creating, Goto, TInv, TypeOK
  <2> QED
    BY <1>4, <2>1 DEF Copied, CreatedWithRow, CreatedOnce
<1>5. ASSUME NEW r \in Requests, Publish(r) PROVE CreatedWithRow'
  <2> DEFINE event == [type |-> EventOf(call[r].op), pair |-> call[r].pair,
                       status |-> loaded[r].status]
  <2>1. call[r] \in Calls /\ pc[r] = "publish"
    BY <1>5 DEF Publish, TInv, TypeOK
  <2>2. event.type = "application.created" => Creating(r, event.pair)
    BY <2>1 DEF Calls, EventOf, Creating
  <2>3. event.pair \in Pairs /\ applications[event.pair] # NoRow
    BY <2>1 DEF Calls, TInv, Held
  <2>4. announced' \subseteq announced \cup {event} /\ applications' = applications
    BY <1>5 DEF Publish
  <2>5. \A q \in Requests, o \in Pairs : Creating(q, o)' => Creating(q, o) /\ q # r
    BY <1>5 DEF Publish, Answer, Goto, Creating, TInv, TypeOK
  <2>6. \A q \in Requests, o \in Pairs :
          Creating(q, o)' => ~(event.type = "application.created" /\ event.pair = o)
    BY <2>2, <2>5 DEF CreatedWithRow, CreatedOnce
  <2> HIDE DEF event
  <2>7. CreatedOnce'
    BY <2>4, <2>5, <2>6 DEF CreatedWithRow, CreatedOnce
  <2> QED
    BY <2>3, <2>4, <2>7 DEF CreatedWithRow
<1> QED
  BY <1>1, <1>2, <1>3, <1>4, <1>5, StepCases

\* Retries, races and restarts never announce the creation of one application
\* twice.
THEOREM CreatedAtMostOnce == Spec => []CreatedOnce
<1>1. Init => CreatedWithRow
  BY DEF Init, CreatedWithRow, CreatedOnce, Creating
<1>2. TInv /\ CreatedWithRow /\ [Next]_vars => CreatedWithRow'
  BY CreatedNext
<1>3. CreatedWithRow => CreatedOnce
  BY DEF CreatedWithRow
<1> QED
  BY <1>1, <1>2, <1>3, TypeInvariant, PTL DEF Spec


-----------------------------------------------------------------------------
(* What a step can do to the history variables: they change only when a    *)
(* check lets a request go on to decide about a pair or to write.          *)

Checked(r) ==
    /\ UNCHANGED <<applications, call>>
    /\ \/ /\ pc[r] = "pair" /\ applications[call[r].pair] = NoRow
          /\ Goto(r, "limit") /\ NoteRace(r, TRUE)
          /\ UNCHANGED <<loaded, crowd>>
       \/ /\ pc[r] = "limit"
          /\ Goto(r, "insert") /\ NoteCrowd(r, TRUE)
          /\ UNCHANGED <<loaded, raced>>
       \/ /\ pc[r] = "load"
          /\ Goto(r, "commit") /\ NoteRace(r, TRUE) /\ NoteCrowd(r, TRUE)
          /\ loaded' = [loaded EXCEPT ![r] = applications[call[r].pair]]

\* Nobody goes on, though requests that have gone on may stop.
NobodyChecked ==
    /\ UNCHANGED <<raced, crowd>>
    /\ \A r \in Requests :
          pc'[r] \in {"limit", "insert", "commit"} =>
              pc'[r] = pc[r] /\ call'[r] = call[r] /\ loaded'[r] = loaded[r]

LEMMA CheckedCases ==
    ASSUME TInv, [Next]_vars
    PROVE  NobodyChecked \/ \E r \in Requests : Checked(r)
<1> USE DEF Goto
<1>1. ASSUME NEW r \in Requests, NEW status, Answer(r, status), UNCHANGED <<raced, crowd>>
      PROVE  NobodyChecked
  BY <1>1 DEF NobodyChecked, Answer, TInv, TypeOK
<1>2. ASSUME NEW r \in Requests, Arrive(r) PROVE NobodyChecked
  BY <1>2 DEF NobodyChecked, Arrive, ReceiveApply, ReceiveAdvance, ReceiveWithdraw,
              Receive, tables, TInv, TypeOK
<1>3. ASSUME NEW r \in Requests, Step(r) PROVE NobodyChecked \/ Checked(r)
  <2>1. CASE CheckCandidate(r)
    BY <2>1, <1>1 DEF CheckCandidate, CheckOr, NobodyChecked, tables, TInv, TypeOK
  <2>2. CASE CheckJob(r)
    BY <2>2, <1>1 DEF CheckJob, CheckOr, NobodyChecked, tables, TInv, TypeOK
  <2>3. CASE CheckPair(r)
    BY <2>3, <1>1 DEF CheckPair, CheckOr, NoteRace, Checked, rows
  <2>4. CASE CheckLimit(r)
    <3>1. CASE UnderLimit(call[r].pair[2])
      BY <2>4, <3>1 DEF CheckLimit, CheckOr, NoteCrowd, Checked, rows
    <3>2. CASE ~UnderLimit(call[r].pair[2])
      <4>1. Answer(r, "unprocessable") /\ UNCHANGED <<raced, crowd>>
        BY <2>4, <3>2 DEF CheckLimit, CheckOr, NoteCrowd
      <4> QED
        BY <4>1, <1>1
    <3> QED
      BY <3>1, <3>2
  <2>5. CASE Insert(r)
    BY <2>5, <1>1 DEF Insert, NobodyChecked, TInv, TypeOK
  <2>6. CASE Load(r)
    <3> DEFINE row == applications[call[r].pair]
               ok == row # NoRow /\ MayMove(call[r], row.status)
    <3>1. CASE ok
      BY <2>6, <3>1 DEF Load, NoteRace, NoteCrowd, Checked, rows
    <3>2. CASE ~ok
      <4>1. (Answer(r, "not_found") \/ Answer(r, "unprocessable")) /\ UNCHANGED <<raced, crowd>>
        BY <2>6, <3>2 DEF Load, NoteRace, NoteCrowd
      <4> QED
        BY <4>1, <1>1
    <3> QED
      BY <3>1, <3>2
  <2>7. CASE CommitMove(r)
    BY <2>7 DEF CommitMove, NobodyChecked, TInv, TypeOK
  <2>8. CASE Refresh(r)
    BY <2>8 DEF Refresh, NobodyChecked, tables, TInv, TypeOK
  <2>9. CASE Publish(r)
    BY <2>9, <1>1 DEF Publish
  <2>10. CASE DatabaseFails(r)
    BY <2>10, <1>1 DEF DatabaseFails, tables
  <2> QED
    BY <1>3, <2>1, <2>2, <2>3, <2>4, <2>5, <2>6, <2>7, <2>8, <2>9, <2>10 DEF Step
<1>4. CASE HandleEvent
  BY <1>4 DEF HandleEvent, JobUpserted, JobDeleted, CandidateUpserted,
              CandidateDeleted, others, NobodyChecked
<1>5. CASE Crash
  BY <1>5 DEF Crash, tables, NobodyChecked
<1>6. CASE UNCHANGED vars
  BY <1>6 DEF vars, NobodyChecked
<1> QED
  BY <1>2, <1>3, <1>4, <1>5, <1>6 DEF Next

\* No more requests of a candidate are about to write than its crowd counts.
Crowded == \A c \in Candidates : Cardinality(Writing(c)) <= crowd[c]

\* One more request of c is about to write.
LEMMA OneMoreWrites ==
    ASSUME TInv, Crowded, NEW r \in Requests, NoteCrowd(r, TRUE), pc[r] \in {"limit", "load"},
           NEW label \in {"insert", "commit"}, Goto(r, label), UNCHANGED call
    PROVE  /\ Crowded'
           /\ crowd'[call[r].pair[2]] >= 1
           /\ \/ UNCHANGED crowd
              \/ crowd' = [crowd EXCEPT ![call[r].pair[2]] = crowd[call[r].pair[2]] + 1]
<1> DEFINE d == call[r].pair[2]
           n == Cardinality(Writing(d)) + 1
<1>1. d \in Candidates /\ crowd \in [Candidates -> Nat]
  BY DEF TInv, TypeOK, Calls, Pairs
<1>2. IsFiniteSet(Writing(d)) /\ Cardinality(Writing(d)) \in Nat
  BY <1>1, WritingFinite
<1>3. Cardinality(Writing(d)) <= crowd[d] /\ crowd[d] \in Nat
  BY <1>1 DEF Crowded
<1>4. crowd' = IF n > crowd[d] THEN [crowd EXCEPT ![d] = n] ELSE crowd
  BY DEF NoteCrowd
<1>5. n > crowd[d] => n = crowd[d] + 1
  BY <1>2, <1>3
<1>6. crowd'[d] >= n /\ crowd'[d] >= 1 /\ crowd'[d] \in Nat
  BY <1>1, <1>2, <1>3, <1>4
<1>7. ASSUME NEW c \in Candidates PROVE Cardinality(Writing(c))' <= crowd'[c]
  <2>1. CASE c = d
    <3>1. Writing(d)' = Writing(d) \cup {r} /\ r \notin Writing(d)
      BY DEF Writing, Goto, TInv, TypeOK
    <3>2. Cardinality(Writing(d) \cup {r}) = n
      BY <1>2, <3>1, FS_AddElement
    <3> QED
      BY <1>6, <2>1, <3>1, <3>2
  <2>2. CASE c # d
    <3>1. Writing(c)' = Writing(c)
      BY <2>2 DEF Writing, Goto, TInv, TypeOK
    <3>2. crowd'[c] = crowd[c]
      BY <1>1, <1>4, <2>2
    <3> QED
      BY <3>1, <3>2 DEF Crowded
  <2> QED
    BY <2>1, <2>2
<1> QED
  BY <1>4, <1>5, <1>6, <1>7 DEF Crowded

LEMMA FewerWrite ==
    ASSUME Crowded, TInv, UNCHANGED crowd, \A c \in Candidates : Writing(c)' \subseteq Writing(c)
    PROVE  Crowded'
<1>1. ASSUME NEW c \in Candidates PROVE Cardinality(Writing(c))' <= crowd'[c]
  <2>1. IsFiniteSet(Writing(c)) /\ Writing(c)' \subseteq Writing(c)
    BY WritingFinite
  <2>2. /\ Cardinality(Writing(c)') <= Cardinality(Writing(c))
        /\ Cardinality(Writing(c)') \in Nat /\ Cardinality(Writing(c)) \in Nat
    BY <2>1, FS_Subset, FS_CardinalityType
  <2>3. Cardinality(Writing(c)) <= crowd[c] /\ crowd[c] \in Nat /\ crowd'[c] = crowd[c]
    BY DEF Crowded, TInv, TypeOK
  <2> QED
    BY <2>2, <2>3
<1> QED
  BY <1>1 DEF Crowded

LEMMA CrowdedNext ==
    ASSUME TInv, Crowded, [Next]_vars
    PROVE  Crowded'
<1>1. CASE NobodyChecked
  <2>1. \A c \in Candidates : Writing(c)' \subseteq Writing(c)
    BY <1>1 DEF NobodyChecked, Writing
  <2> QED
    BY <1>1, <2>1, FewerWrite DEF NobodyChecked
<1>2. ASSUME NEW r \in Requests, Checked(r) PROVE Crowded'
  <2>1. CASE pc[r] = "pair"
    <3>1. \A c \in Candidates : Writing(c)' \subseteq Writing(c)
      BY <1>2, <2>1 DEF Checked, Goto, Writing, TInv, TypeOK
    <3> QED
      BY <1>2, <2>1, <3>1, FewerWrite DEF Checked
  <2>2. CASE pc[r] \in {"limit", "load"}
    BY <1>2, <2>2, OneMoreWrites DEF Checked
  <2> QED
    BY <1>2, <2>1, <2>2 DEF Checked
<1> QED
  BY <1>1, <1>2, CheckedCases

-----------------------------------------------------------------------------
(* The cap.  Counting only what is active is not inductive: a request past *)
(* the check, or about to write an active status over whatever is there,   *)
(* has a spot already.  No step but the check itself adds a spot, and when *)
(* the check passes the active jobs are below the cap, so the spots are at *)
(* most MaxActive - 1 plus one for each request of the crowd.              *)

Claims(r, c) ==
    /\ pc[r] \in {"insert", "commit"}
    /\ pc[r] = "commit" => call[r].target \in ACTIVE_APPLICATION_STATUSES
    /\ call[r].pair[2] = c

Claimed(c) == {call[r].pair[1] : r \in {q \in Requests : Claims(q, c)}}

Spots(c) == ActiveJobs(c) \cup Claimed(c)

Room(c) == MaxActive + (IF crowd[c] = 0 THEN 0 ELSE crowd[c] - 1)

SpotsBounded == \A c \in Candidates : Cardinality(Spots(c)) <= Room(c)

LEMMA SpotsFinite ==
    ASSUME TInv, NEW c \in Candidates
    PROVE  /\ IsFiniteSet(ActiveJobs(c)) /\ IsFiniteSet(Claimed(c)) /\ IsFiniteSet(Spots(c))
           /\ Cardinality(Claimed(c)) <= Cardinality(Writing(c))
           /\ Cardinality(ActiveJobs(c)) \in Nat /\ Cardinality(Claimed(c)) \in Nat
           /\ Cardinality(Spots(c)) \in Nat
           /\ Cardinality(Spots(c)) <= Cardinality(ActiveJobs(c)) + Cardinality(Claimed(c))
           /\ Cardinality(ActiveJobs(c)) <= Cardinality(Spots(c))
<1> DEFINE A == ActiveJobs(c)
           Q == {q \in Requests : Claims(q, c)}
           C == {call[r].pair[1] : r \in Q}
<1>1. IsFiniteSet(A) /\ Cardinality(A) \in Nat
  <2>1. A \subseteq Jobs
    BY DEF ActiveJobs
  <2> QED
    BY <2>1, JobsAssumption, FS_Subset, FS_CardinalityType
<1>2. /\ IsFiniteSet(Q) /\ Cardinality(Q) <= Cardinality(Writing(c))
      /\ Cardinality(Writing(c)) \in Nat
  <2>1. Q \subseteq Writing(c)
    BY DEF Claims, Writing
  <2> HIDE DEF Q
  <2> QED
    BY <2>1, WritingFinite, FS_Subset, FS_CardinalityType
<1>3. IsFiniteSet(C) /\ Cardinality(C) <= Cardinality(Q) /\ Cardinality(C) \in Nat
  <2> DEFINE f == [r \in Q |-> call[r].pair[1]]
  <2>1. f \in Surjection(Q, C)
    BY DEF Surjection
  <2> HIDE DEF Q, C, f
  <2> QED
    BY <1>2, <2>1, FS_Surjection, FS_CardinalityType
<1>4. Cardinality(Q) \in Nat
  BY <1>2, FS_CardinalityType
<1>5. C = Claimed(c) /\ Spots(c) = A \cup C
  BY DEF Claimed, Spots
<1> HIDE DEF A, Q, C
<1>6. /\ IsFiniteSet(A \cup C)
      /\ Cardinality(A \cup C) = Cardinality(A) + Cardinality(C) - Cardinality(A \cap C)
      /\ Cardinality(A \cap C) \in Nat
  <2>1. IsFiniteSet(A \cap C) /\ Cardinality(A \cap C) \in Nat
    BY <1>1, FS_Intersection, FS_CardinalityType
  <2> QED
    BY <2>1, <1>1, <1>3, FS_Union
<1>7. Cardinality(A) <= Cardinality(A \cup C) /\ Cardinality(A \cup C) \in Nat
  BY <1>6, FS_Subset, FS_CardinalityType
<1> QED
  BY <1>1, <1>2, <1>3, <1>4, <1>5, <1>6, <1>7 DEF A

\* A step that gives candidate c no new spot keeps its bound.
LEMMA NoNewSpot ==
    ASSUME TInv, TInv', Noted, SpotsBounded, NEW c \in Candidates, Spots(c)' \subseteq Spots(c)
    PROVE  Cardinality(Spots(c)') <= Room(c)'
<1>1. IsFiniteSet(Spots(c))
  BY SpotsFinite
<1>2. /\ Cardinality(Spots(c)') <= Cardinality(Spots(c))
      /\ Cardinality(Spots(c)') \in Nat /\ Cardinality(Spots(c)) \in Nat
  BY <1>1, FS_Subset, FS_CardinalityType
<1>3. Cardinality(Spots(c)) <= Room(c)
  BY DEF SpotsBounded
<1>4. crowd[c] \in Nat /\ crowd'[c] \in Nat /\ crowd[c] <= crowd'[c]
  BY DEF Noted, TInv, TypeOK
<1> QED
  BY <1>2, <1>3, <1>4, MaxActiveAssumption DEF Room

\* The check that passes: c's active jobs are below the cap right now, and the
\* request itself is in the crowd.
LEMMA AdmittedHasRoom ==
    ASSUME TInv, TInv', Crowded', NEW c \in Candidates, UnderLimit(c),
           ActiveJobs(c)' = ActiveJobs(c), crowd'[c] >= 1
    PROVE  Cardinality(Spots(c)') <= Room(c)'
<1>1. /\ Cardinality(Spots(c)') <= Cardinality(ActiveJobs(c)') + Cardinality(Claimed(c)')
      /\ Cardinality(Claimed(c)') <= Cardinality(Writing(c)')
      /\ Cardinality(Claimed(c)') \in Nat /\ Cardinality(Spots(c)') \in Nat
  <2>1. (/\ Cardinality(Spots(c)) <= Cardinality(ActiveJobs(c)) + Cardinality(Claimed(c))
         /\ Cardinality(Claimed(c)) <= Cardinality(Writing(c))
         /\ Cardinality(Claimed(c)) \in Nat /\ Cardinality(Spots(c)) \in Nat)'
    BY SpotsFinite, PTL
  <2> QED
    BY <2>1
<1>2. Cardinality(ActiveJobs(c)) < MaxActive /\ Cardinality(ActiveJobs(c)) \in Nat
  BY SpotsFinite DEF UnderLimit
<1>3. Cardinality(Writing(c)') <= crowd'[c] /\ crowd'[c] \in Nat
  BY DEF Crowded, TInv, TypeOK
<1>4. Cardinality(Writing(c)') \in Nat
  <2>1. (Cardinality(Writing(c)) \in Nat)'
    BY WritingFinite, PTL
  <2> QED
    BY <2>1
<1>5. Cardinality(Spots(c)') <= MaxActive + (crowd'[c] - 1)
  BY <1>1, <1>2, <1>3, <1>4, MaxActiveAssumption
<1> QED
  BY <1>3, <1>5 DEF Room

\* A step after which every active job and every claim had a spot before.
LEMMA SpotsShrink ==
    ASSUME NEW c \in Candidates,
           \A j \in Jobs :
               applications'[<<j, c>>].status \in ACTIVE_APPLICATION_STATUSES =>
                   j \in Spots(c),
           \A q \in Requests : Claims(q, c)' => call'[q].pair[1] \in Spots(c)
    PROVE  Spots(c)' \subseteq Spots(c)
<1>1. ActiveJobs(c)' \subseteq Spots(c)
  BY DEF ActiveJobs
<1>2. Claimed(c)' \subseteq Spots(c)
  BY DEF Claimed
<1>3. Spots(c)' = ActiveJobs(c)' \cup Claimed(c)'
  BY DEF Spots
<1> QED
  BY <1>1, <1>2, <1>3

LEMMA SpotsNext ==
    ASSUME TInv, TInv', Crowded, Crowded', SpotsBounded, [Next]_vars
    PROVE  SpotsBounded'
<1> SUFFICES ASSUME NEW c \in Candidates
             PROVE  Cardinality(Spots(c)') <= Room(c)'
  BY DEF SpotsBounded
<1> Noted
  BY NotedNext DEF TInv
<1>1. /\ \A j \in Jobs :
            applications[<<j, c>>].status \in ACTIVE_APPLICATION_STATUSES => j \in Spots(c)
      /\ \A q \in Requests : Claims(q, c) => call[q].pair[1] \in Spots(c)
  BY DEF Spots, ActiveJobs, Claimed
<1>2. CASE Quiet
  <2>1. CASE \E r \in Requests : Admitted(r) /\ call[r].pair[2] = c
    <3>1. PICK r \in Requests : Admitted(r) /\ call[r].pair[2] = c
      BY <2>1
    <3>2. ActiveJobs(c)' = ActiveJobs(c)
      BY <1>2 DEF Quiet, ActiveJobs
    <3>3. Checked(r)
      <4>1. pc[r] = "limit" /\ pc'[r] = "insert"
        BY <3>1 DEF Admitted, Goto, TInv, TypeOK
      <4>2. PICK q \in Requests : Checked(q)
        BY <4>1, CheckedCases DEF NobodyChecked
      <4>3. q = r
        BY <4>1, <4>2 DEF Checked, Goto, TInv, TypeOK
      <4> QED
        BY <4>2, <4>3
    <3>4. NoteCrowd(r, TRUE) /\ Goto(r, "insert") /\ UNCHANGED call /\ pc[r] = "limit"
      BY <3>1, <3>3 DEF Checked, Admitted
    <3>5. crowd'[c] >= 1
      BY <3>1, <3>4, OneMoreWrites
    <3> QED
      BY <3>1, <3>2, <3>5, AdmittedHasRoom DEF Admitted
  <2>2. CASE ~\E r \in Requests : Admitted(r) /\ call[r].pair[2] = c
    <3>1. ASSUME NEW q \in Requests, Claims(q, c)' PROVE call'[q].pair[1] \in Spots(c)
      <4>1. pc'[q] \in {"insert", "commit"} /\ call'[q].pair[2] = c
        BY <3>1 DEF Claims
      <4>2. pc'[q] = pc[q] /\ call'[q] = call[q]
        BY <1>2, <2>2, <4>1 DEF Quiet, Admitted
      <4>3. Claims(q, c)
        BY <3>1, <4>2 DEF Claims
      <4> QED
        BY <4>2, <4>3, <1>1
    <3>2. applications' = applications
      BY <1>2 DEF Quiet
    <3>3. Spots(c)' \subseteq Spots(c)
      BY <1>1, <3>1, <3>2, SpotsShrink
    <3> QED
      BY <3>3, NoNewSpot
  <2> QED
    BY <2>1, <2>2
<1>3. ASSUME NEW r \in Requests, Inserted(r) \/ CommitMove(r) \/ Copied(r) \/ Publish(r)
      PROVE  Spots(c)' \subseteq Spots(c)
  <2>1. call[r] \in Calls /\ call[r].pair \in Pairs
    BY <1>3 DEF Inserted, CommitMove, Copied, Publish, TInv, TypeOK, Calls
  <2>2. \A q \in Requests \ {r} : Claims(q, c)' => Claims(q, c) /\ call'[q] = call[q]
    BY <1>3 DEF Inserted, CommitMove, Copied, Publish, Answer, Goto, Claims, TInv, TypeOK
  <2>3. CASE Inserted(r)
    <3>1. ASSUME NEW j \in Jobs,
                 applications'[<<j, c>>].status \in ACTIVE_APPLICATION_STATUSES
          PROVE  j \in Spots(c)
      <4>1. CASE <<j, c>> = call[r].pair
        BY <2>3, <4>1, <1>1 DEF Inserted, Claims
      <4>2. CASE <<j, c>> # call[r].pair
        BY <2>3, <4>2, <3>1, <1>1 DEF Inserted, TInv, TypeOK, Pairs
      <4> QED
        BY <4>1, <4>2
    <3>2. ~Claims(r, c)'
      BY <2>3 DEF Inserted, Goto, Claims, TInv, TypeOK
    <3> QED
      BY <2>2, <3>1, <3>2, <1>1, SpotsShrink
  <2>4. CASE CommitMove(r)
    <3>1. ASSUME NEW j \in Jobs,
                 applications'[<<j, c>>].status \in ACTIVE_APPLICATION_STATUSES
          PROVE  j \in Spots(c)
      <4>1. CASE <<j, c>> = call[r].pair
        <5>1. applications'[<<j, c>>] = Moved(r)
          BY <2>1, <2>4, <4>1 DEF CommitMove, TInv, TypeOK
        <5>2. call[r].target \in ACTIVE_APPLICATION_STATUSES
          BY <3>1, <5>1 DEF Moved
        <5> QED
          BY <2>4, <4>1, <5>2, <1>1 DEF CommitMove, Claims
      <4>2. CASE <<j, c>> # call[r].pair
        BY <2>4, <4>2, <3>1, <1>1 DEF CommitMove, TInv, TypeOK, Pairs
      <4> QED
        BY <4>1, <4>2
    <3>2. ~Claims(r, c)'
      BY <2>4 DEF CommitMove, Goto, Claims, TInv, TypeOK
    <3> QED
      BY <2>2, <3>1, <3>2, <1>1, SpotsShrink
  <2>5. CASE Copied(r)
    <3>1. applications' = applications /\ call' = call
      BY <2>5 DEF Copied
    <3>2. Claims(r, c)' => call[r].pair[1] \in Spots(c)
      <4>1. SUFFICES ASSUME Claims(r, c)' PROVE call[r].pair[1] \in Spots(c)
        OBVIOUS
      <4>2. pc'[r] = "commit" /\ call[r].pair[2] = c
        BY <2>5, <3>1, <4>1 DEF Copied, Goto, Claims, TInv, TypeOK
      <4>3. applications[call[r].pair].status \in ACTIVE_APPLICATION_STATUSES
        BY <2>5, <4>2, <3>1 DEF Copied, Goto, TInv, TypeOK, Held, LegalStep
      <4>4. call[r].pair = <<call[r].pair[1], c>> /\ call[r].pair[1] \in Jobs
        BY <2>1, <4>2 DEF Pairs
      <4> QED
        BY <4>3, <4>4, <1>1
    <3> QED
      BY <2>2, <3>1, <3>2, <1>1, SpotsShrink
  <2>6. CASE Publish(r)
    <3>1. applications' = applications
      BY <2>6 DEF Publish
    <3>2. ~Claims(r, c)'
      BY <2>6 DEF Publish, Answer, Goto, Claims, TInv, TypeOK
    <3> QED
      BY <2>2, <3>1, <3>2, <1>1, SpotsShrink
  <2> QED
    BY <1>3, <2>3, <2>4, <2>5, <2>6
<1> QED
  BY <1>2, <1>3, StepCases, NoNewSpot

LEMMA CapInit == Init => SpotsBounded /\ Crowded
<1>1. SUFFICES ASSUME Init, NEW c \in Candidates
               PROVE  /\ Cardinality(Spots(c)) <= Room(c)
                      /\ Cardinality(Writing(c)) <= crowd[c]
  BY DEF SpotsBounded, Crowded
<1>2. Spots(c) = {} /\ Writing(c) = {} /\ crowd[c] = 0
  BY <1>1 DEF Init, Spots, ActiveJobs, Claimed, Claims, Writing, Pairs, NoRow,
              ACTIVE_APPLICATION_STATUSES
<1> QED
  BY <1>2, FS_EmptySet, MaxActiveAssumption DEF Room

\* However many requests overlap, the cap is exceeded by at most the number of
\* requests of the candidate that ever crowded, beyond the first; it is exact
\* for a candidate whose requests never did.
THEOREM OvershootIsBounded == Spec => []BoundedOvershoot
<1>1. Init => SpotsBounded /\ Crowded
  BY CapInit
<1>2. TInv /\ SpotsBounded => BoundedOvershoot
  <2>1. SUFFICES ASSUME TInv, SpotsBounded, NEW c \in Candidates
                 PROVE  Cardinality(ActiveJobs(c)) <= Room(c)
    BY DEF BoundedOvershoot, Room
  <2>2. /\ Cardinality(ActiveJobs(c)) <= Cardinality(Spots(c))
        /\ Cardinality(ActiveJobs(c)) \in Nat /\ Cardinality(Spots(c)) \in Nat
    BY <2>1, SpotsFinite
  <2>3. Cardinality(Spots(c)) <= Room(c) /\ Room(c) \in Int
    BY <2>1, MaxActiveAssumption DEF SpotsBounded, Room, TInv, TypeOK
  <2> QED
    BY <2>2, <2>3
<1>3. TInv /\ Crowded /\ [Next]_vars => Crowded'
  BY CrowdedNext
<1>4. TInv /\ TInv' /\ Crowded /\ Crowded' /\ SpotsBounded /\ [Next]_vars => SpotsBounded'
  BY SpotsNext
<1> QED
  BY <1>1, <1>2, <1>3, <1>4, TypeInvariant, PTL DEF Spec

-----------------------------------------------------------------------------
(* Eligibility.  A request carries what its checks found across awaits; as *)
(* long as a job has never been open, no request for it is past the check, *)
(* and without a row there is nothing to load and move either.             *)

\* No request for p is at one of these awaits and p has no row.
Untouched(p, labels) ==
    /\ applications[p] = NoRow
    /\ \A r \in Requests : pc[r] \in labels => call[r].pair # p

PastJob == {"pair", "limit", "insert", "commit"}

PastCandidate == {"job", "pair", "limit", "insert", "commit"}

LEMMA UntouchedNext ==
    ASSUME TInv, [Next]_vars, NEW p \in Pairs,
           NEW labels, labels \in {PastJob, PastCandidate}, Untouched(p, labels),
           \A r \in Requests : call[r].pair = p =>
               /\ labels = PastJob => ~(CheckJob(r) /\ Goto(r, "pair"))
               /\ labels = PastCandidate => ~(CheckCandidate(r) /\ Goto(r, "job"))
    PROVE  Untouched(p, labels)'
<1> USE DEF Goto, PastJob, PastCandidate, Untouched, rows
<1>1. ASSUME NEW r \in Requests, NEW status, Answer(r, status), UNCHANGED applications
      PROVE  Untouched(p, labels)'
  BY <1>1 DEF Answer, TInv, TypeOK
<1>2. ASSUME NEW r \in Requests, Arrive(r) PROVE Untouched(p, labels)'
  BY <1>2 DEF Arrive, ReceiveApply, ReceiveAdvance, ReceiveWithdraw, Receive, tables,
              TInv, TypeOK
<1>3. ASSUME NEW r \in Requests, Step(r) PROVE Untouched(p, labels)'
  <2>1. CASE CheckCandidate(r)
    BY <2>1, <1>1 DEF CheckCandidate, CheckOr, tables, TInv, TypeOK
  <2>2. CASE CheckJob(r)
    BY <2>2, <1>1 DEF CheckJob, CheckOr, tables, TInv, TypeOK
  <2>3. CASE CheckPair(r)
    BY <2>3, <1>1 DEF CheckPair, CheckOr, tables, TInv, TypeOK
  <2>4. CASE CheckLimit(r)
    BY <2>4, <1>1 DEF CheckLimit, CheckOr, tables, TInv, TypeOK
  <2>5. CASE Insert(r)
    BY <2>5, <1>1 DEF Insert, TInv, TypeOK
  <2>6. CASE Load(r)
    BY <2>6, <1>1 DEF Load, tables, TInv, TypeOK
  <2>7. CASE CommitMove(r)
    BY <2>7 DEF CommitMove, TInv, TypeOK
  <2>8. CASE Refresh(r)
    BY <2>8 DEF Refresh, tables, TInv, TypeOK
  <2>9. CASE Publish(r)
    BY <2>9, <1>1 DEF Publish
  <2>10. CASE DatabaseFails(r)
    BY <2>10, <1>1 DEF DatabaseFails, tables
  <2> QED
    BY <1>3, <2>1, <2>2, <2>3, <2>4, <2>5, <2>6, <2>7, <2>8, <2>9, <2>10 DEF Step
<1>4. CASE HandleEvent
  BY <1>4 DEF HandleEvent, JobUpserted, JobDeleted, CandidateUpserted,
              CandidateDeleted, others
<1>5. CASE Crash
  BY <1>5 DEF Crash, tables
<1>6. CASE UNCHANGED vars
  BY <1>6 DEF vars
<1> QED
  BY <1>2, <1>3, <1>4, <1>5, <1>6 DEF Next

\* However many requests and however the read model moves between the checks
\* and the INSERT: no row for a job that was never open, nor for a candidate
\* the service never heard of.
THEOREM NeverEligibleNeverApplied == Spec => EligibleOnce
<1>1. ASSUME NEW p \in Pairs
      PROVE  Spec => /\ [](jobRefs[p[1]] \notin Applyable) => [](applications[p] = NoRow)
                     /\ [](p[2] \notin candidateRefs) => [](applications[p] = NoRow)
  <2>1. Init => Untouched(p, PastJob) /\ Untouched(p, PastCandidate)
    BY DEF Init, Untouched, PastJob, PastCandidate
  <2>2. ASSUME TInv, [Next]_vars, Untouched(p, PastJob), jobRefs[p[1]] \notin Applyable
        PROVE  Untouched(p, PastJob)'
    <3>1. \A r \in Requests : call[r].pair = p => ~(CheckJob(r) /\ Goto(r, "pair"))
      BY <2>2 DEF CheckJob, CheckOr, Answer, Goto, TInv, TypeOK
    <3>2. PastJob # PastCandidate
      BY DEF PastJob, PastCandidate
    <3> QED
      BY <2>2, <3>1, <3>2, UntouchedNext
  <2>3. ASSUME TInv, [Next]_vars, Untouched(p, PastCandidate), p[2] \notin candidateRefs
        PROVE  Untouched(p, PastCandidate)'
    <3>1. \A r \in Requests : call[r].pair = p => ~(CheckCandidate(r) /\ Goto(r, "job"))
      BY <2>3 DEF CheckCandidate, CheckOr, Answer, Goto, TInv, TypeOK
    <3>2. PastJob # PastCandidate
      BY DEF PastJob, PastCandidate
    <3> QED
      BY <2>3, <3>1, <3>2, UntouchedNext
  <2>4. \A labels : Untouched(p, labels) => applications[p] = NoRow
    BY DEF Untouched
  <2>5. Untouched(p, PastJob) => applications[p] = NoRow
    BY <2>4
  <2>6. Untouched(p, PastCandidate) => applications[p] = NoRow
    BY <2>4
  <2> QED
    BY <2>1, <2>2, <2>3, <2>5, <2>6, TypeInvariant, PTL DEF Spec
<1> QED
  BY <1>1 DEF EligibleOnce

-----------------------------------------------------------------------------
(***************************************************************************)
(* What stands between a check and the write it allows.  Any number of     *)
(* requests overlap, on one pair or on many, with every fault and restart. *)
(* On a pair that no two requests were ever deciding about at once, what a *)
(* request has read is still so when it writes, so its checks and its      *)
(* write act as one step.  A second request that meets the first takes the *)
(* pair out of this invariant in the very step it goes on.                 *)
(***************************************************************************)

ReadsStand ==
    \A p \in Pairs \ raced : \A r \in Deciding(p) :
        /\ \A q \in Deciding(p) : q = r
        /\ pc[r] \in {"limit", "insert"} => applications[p] = NoRow
        /\ pc[r] = "commit" => loaded[r] = applications[p]

\* A write to p ends the deciding of the request that makes it.
LEMMA WriterLeaves ==
    ASSUME TInv, [Next]_vars, NEW p \in Pairs, applications'[p] # applications[p]
    PROVE  \E r \in Deciding(p) : pc'[r] = "refresh"
<1>1. PICK r \in Requests : Inserted(r) \/ CommitMove(r)
  BY StepCases DEF Quiet, Copied, Publish
<1>2. call[r].pair = p
  BY <1>1 DEF Inserted, CommitMove, TInv, TypeOK
<1>3. pc'[r] = "refresh" /\ pc[r] \in {"insert", "commit"}
  BY <1>1 DEF Inserted, CommitMove, Goto, TInv, TypeOK
<1> QED
  BY <1>2, <1>3 DEF Deciding

LEMMA ReadsStandNext ==
    ASSUME TInv, ReadsStand, [Next]_vars
    PROVE  ReadsStand'
<1> SUFFICES ASSUME NEW p \in Pairs \ raced', NEW r \in Deciding(p)'
             PROVE  /\ \A q \in Deciding(p)' : q = r
                    /\ pc'[r] \in {"limit", "insert"} => applications'[p] = NoRow
                    /\ pc'[r] = "commit" => loaded'[r] = applications'[p]
  BY DEF ReadsStand
<1>1. p \in Pairs /\ p \notin raced /\ r \in Requests
  BY NotedNext DEF Noted, TInv, Deciding
<1>2. CASE NobodyChecked
  <2>1. Deciding(p)' \subseteq Deciding(p)
    BY <1>2 DEF NobodyChecked, Deciding
  <2>2. r \in Deciding(p) /\ pc'[r] = pc[r] /\ loaded'[r] = loaded[r]
    BY <1>1, <1>2, <2>1 DEF NobodyChecked, Deciding
  <2>3. \A q \in Deciding(p) : q = r
    BY <1>1, <2>2 DEF ReadsStand
  <2>4. applications'[p] = applications[p]
    BY <1>1, <2>2, <2>3, WriterLeaves DEF Deciding
  <2> QED
    BY <1>1, <2>1, <2>2, <2>3, <2>4 DEF ReadsStand
<1>3. ASSUME NEW s \in Requests, Checked(s)
      PROVE  /\ \A q \in Deciding(p)' : q = r
             /\ pc'[r] \in {"limit", "insert"} => applications'[p] = NoRow
             /\ pc'[r] = "commit" => loaded'[r] = applications'[p]
  <2>1. applications' = applications /\ call' = call
    BY <1>3 DEF Checked
  <2>2. \A q \in Requests \ {s} : pc'[q] = pc[q] /\ loaded'[q] = loaded[q]
    BY <1>3 DEF Checked, Goto, TInv, TypeOK
  <2>3. CASE call[s].pair # p
    <3>1. Deciding(p)' = Deciding(p) /\ r # s
      BY <2>1, <2>2, <2>3 DEF Deciding
    <3> QED
      BY <1>1, <2>1, <2>2, <3>1 DEF ReadsStand
  <2>4. CASE call[s].pair = p /\ pc[s] = "limit"
    <3>1. /\ Deciding(p)' = Deciding(p) /\ s \in Deciding(p)
          /\ pc'[s] = "insert"
      BY <1>3, <2>1, <2>2, <2>4 DEF Checked, Goto, Deciding, TInv, TypeOK
    <3>2. r = s /\ \A q \in Deciding(p) : q = r
      BY <1>1, <3>1 DEF ReadsStand
    <3> QED
      BY <1>1, <2>1, <2>4, <3>1, <3>2 DEF ReadsStand
  <2>5. CASE call[s].pair = p /\ pc[s] \in {"pair", "load"}
    <3>1. Deciding(p) = {}
      BY <1>1, <1>3, <2>5 DEF Checked, NoteRace
    <3>2. Deciding(p)' \subseteq {s}
      BY <2>1, <2>2, <3>1 DEF Deciding
    <3>3. r = s /\ pc'[s] \in {"limit", "commit"}
      BY <1>3, <2>5, <3>2 DEF Checked, Goto, TInv, TypeOK
    <3>4. /\ pc'[s] = "limit" => applications[p] = NoRow
          /\ pc'[s] = "commit" => loaded'[s] = applications[p]
      BY <1>3, <2>5 DEF Checked, Goto, TInv, TypeOK
    <3> QED
      BY <2>1, <3>2, <3>3, <3>4
  <2> QED
    BY <1>3, <2>3, <2>4, <2>5 DEF Checked
<1> QED
  BY <1>2, <1>3, CheckedCases

\* A caller that has an answer is not waiting for one.
Answered == \A r \in Requests : call[r] # None => response[r] # "integrity_error"

\* The only server error of apply is the INSERT that finds a row.
LEMMA ErrorCases ==
    ASSUME TInv, Answered, [Next]_vars, NEW r \in Requests, response'[r] = "integrity_error"
    PROVE  /\ call'[r] = None
           /\ \/ call[r] = None
              \/ pc[r] = "insert" /\ applications[call[r].pair] # NoRow
<1> USE DEF Goto
<1>1. CASE call'[r] = call[r] /\ response'[r] = response[r]
  BY <1>1 DEF Answered
<1>2. ASSUME NEW q \in Requests, NEW status, status # "integrity_error", Answer(q, status)
      PROVE  call'[r] = call[r] /\ response'[r] = response[r]
  BY <1>2 DEF Answer, TInv, TypeOK
<1>3. ASSUME NEW q \in Requests, Arrive(q)
      PROVE  call'[r] = call[r] /\ response'[r] = response[r]
  BY <1>3 DEF Arrive, ReceiveApply, ReceiveAdvance, ReceiveWithdraw, Receive, TInv, TypeOK
<1>4. ASSUME NEW q \in Requests, Step(q), ~Insert(q)
      PROVE  call'[r] = call[r] /\ response'[r] = response[r]
  <2>1. CASE CheckCandidate(q)
    BY <2>1, <1>2 DEF CheckCandidate, CheckOr
  <2>2. CASE CheckJob(q)
    BY <2>2, <1>2 DEF CheckJob, CheckOr
  <2>3. CASE CheckPair(q)
    BY <2>3, <1>2 DEF CheckPair, CheckOr
  <2>4. CASE CheckLimit(q)
    BY <2>4, <1>2 DEF CheckLimit, CheckOr
  <2>5. CASE Load(q)
    BY <2>5, <1>2 DEF Load
  <2>6. CASE CommitMove(q)
    BY <2>6 DEF CommitMove
  <2>7. CASE Refresh(q)
    BY <2>7 DEF Refresh
  <2>8. CASE Publish(q)
    BY <2>8, <1>2 DEF Publish
  <2>9. CASE DatabaseFails(q)
    BY <2>9, <1>2 DEF DatabaseFails
  <2> QED
    BY <1>4, <2>1, <2>2, <2>3, <2>4, <2>5, <2>6, <2>7, <2>8, <2>9 DEF Step
<1>5. ASSUME NEW q \in Requests, Insert(q)
      PROVE  \/ call'[r] = call[r] /\ response'[r] = response[r]
             \/ /\ call'[r] = None
                /\ pc[r] = "insert" /\ applications[call[r].pair] # NoRow
  BY <1>5 DEF Insert, Answer, TInv, TypeOK
<1>6. CASE HandleEvent
  BY <1>1, <1>6 DEF HandleEvent, JobUpserted, JobDeleted, CandidateUpserted,
                    CandidateDeleted, others
<1>7. ~Crash
  BY DEF Crash
<1>8. CASE UNCHANGED vars
  BY <1>1, <1>8 DEF vars
<1> QED
  BY <1>1, <1>3, <1>4, <1>5, <1>6, <1>7, <1>8 DEF Next

LEMMA AnsweredNext ==
    ASSUME TInv, Answered, [Next]_vars
    PROVE  Answered'
<1>1. \A r \in Requests : response'[r] = "integrity_error" => call'[r] = None
  BY ErrorCases
<1> QED
  BY <1>1 DEF Answered

\* The invariant of the rest of this module.
SInv ==
    /\ TInv /\ LegalRows /\ Crowded /\ SpotsBounded
    /\ ReadsStand /\ Answered

LEMMA StandingInvariant == Spec => []SInv
<1>1. Init => LegalRows /\ ReadsStand /\ Answered
  BY DEF Init, LegalRows, HistoryIsLegalWalk, LegalRow, ReadsStand, Deciding, Answered
<1>2. Init => SpotsBounded /\ Crowded
  BY CapInit
<1>3. SInv /\ [Next]_vars => SInv'
  <2>1. TInv /\ [Next]_vars => TInv'
    BY TypeNext
  <2>2. TInv /\ LegalRows /\ [Next]_vars => LegalRows'
    BY LegalNext
  <2>3. TInv /\ Crowded /\ [Next]_vars => Crowded'
    BY CrowdedNext
  <2>4. TInv /\ TInv' /\ Crowded /\ Crowded' /\ SpotsBounded /\ [Next]_vars => SpotsBounded'
    BY SpotsNext
  <2>5. TInv /\ ReadsStand /\ [Next]_vars => ReadsStand'
    BY ReadsStandNext
  <2>6. TInv /\ Answered /\ [Next]_vars => Answered'
    BY AnsweredNext
  <2> QED
    BY <2>1, <2>2, <2>3, <2>4, <2>5, <2>6 DEF SInv
<1>4. Init => SInv
  BY <1>1, <1>2, TypeInit DEF SInv
<1> QED
  BY <1>3, <1>4, PTL DEF Spec

\* A repeated apply is a server error only where two applies for the pair had
\* both found it free: otherwise the check sees what the INSERT will see.
THEOREM DuplicatesAreAnswered == Spec => DuplicateIsAnswered
<1>1. ASSUME SInv, [Next]_vars, NEW r \in Requests, call[r] # None,
             response'[r] = "integrity_error"
      PROVE  call[r].pair \in raced
  <2>1. pc[r] = "insert" /\ applications[call[r].pair] # NoRow
    BY <1>1, ErrorCases DEF SInv
  <2>2. call[r].pair \in Pairs /\ r \in Deciding(call[r].pair)
    BY <1>1, <2>1 DEF SInv, TInv, TypeOK, Calls, Deciding
  <2> QED
    BY <1>1, <2>1, <2>2 DEF SInv, ReadsStand
<1>2. SInv /\ [Next]_vars =>
        [\A r \in Requests : call[r] # None /\ response'[r] = "integrity_error" =>
            call[r].pair \in raced]_vars
  BY <1>1
<1> QED
  BY <1>2, StandingInvariant, PTL DEF Spec, DuplicateIsAnswered

-----------------------------------------------------------------------------
(* The refinement.                                                         *)

Walk == [p \in Pairs |-> applications[p].history]

\* The last stage of a stored history is the stored status.
LEMMA StageIsStatus ==
    ASSUME TInv, LegalRows, NEW p \in Pairs
    PROVE  /\ Promise!StageOf(applications[p].history) = applications[p].status
           /\ applications[p].history = <<>> <=> applications[p] = NoRow
<1>1. applications[p] \in Rows /\ LegalRow(applications[p])
  BY DEF TInv, TypeOK, LegalRows, HistoryIsLegalWalk
<1>2. CASE applications[p] = NoRow
  BY <1>2 DEF NoRow, Promise!StageOf
<1>3. CASE applications[p] # NoRow
  <2>1. /\ applications[p].history \in Seq(ApplicationStatus)
        /\ Len(applications[p].history) > 0
        /\ applications[p].status = applications[p].history[Len(applications[p].history)]
    BY <1>1, <1>3 DEF Rows, LegalRow
  <2>2. applications[p].history # <<>>
    BY <2>1
  <2> QED
    BY <1>3, <2>1, <2>2 DEF Promise!StageOf
<1> QED
  BY <1>2, <1>3

LEMMA OrderIsPipeline ==
    Promise!Order = Pipeline /\ Promise!InProgress = ACTIVE_APPLICATION_STATUSES
<1>1. Promise!Order = Pipeline
  BY DEF Promise!Order, Pipeline
<1>2. /\ Pipeline[1] = "applied" /\ Pipeline[2] = "screening"
      /\ Pipeline[3] = "interview" /\ Pipeline[4] = "offer"
  BY DEF Pipeline
<1>3. 1..4 = {1, 2, 3, 4}
  OBVIOUS
<1> QED
  BY <1>1, <1>2, <1>3 DEF Promise!InProgress, ACTIVE_APPLICATION_STATUSES

\* ApplicationPipeline counts with its own instance of the operator.
LEMMA SameCardinality == \A S : Promise!Cardinality(S) = Cardinality(S)
BY DEF Promise!Cardinality, Cardinality

LEMMA PipelineInit == Init => Promise!Init
BY DEF Init, Promise!Init, NoRow, Pairs

LEMMA RoomIsCap == \A c \in Candidates : Promise!Cap(c) = Room(c)
BY DEF Promise!Cap, Room

\* The job about to be inserted has its spot and is not active yet.
LEMMA RoomBeforeInsert ==
    ASSUME TInv, SpotsBounded, NEW r \in Requests, NEW j \in Jobs, NEW c \in Candidates,
           Inserted(r), call[r].pair = <<j, c>>
    PROVE  Cardinality(ActiveJobs(c)) < Room(c)
<1>1. j \in Spots(c) /\ ActiveJobs(c) \subseteq Spots(c)
  BY DEF Inserted, Spots, Claimed, Claims
<1>2. j \notin ActiveJobs(c)
  BY DEF Inserted, NoRow, ActiveJobs, ACTIVE_APPLICATION_STATUSES
<1>3. /\ IsFiniteSet(Spots(c)) /\ Cardinality(Spots(c)) \in Nat
      /\ IsFiniteSet(ActiveJobs(c)) /\ Cardinality(ActiveJobs(c)) \in Nat
  BY SpotsFinite
<1>4. Cardinality(ActiveJobs(c) \cup {j}) = Cardinality(ActiveJobs(c)) + 1
  BY <1>2, <1>3, FS_AddElement
<1>5. Cardinality(ActiveJobs(c) \cup {j}) <= Cardinality(Spots(c))
  <2>1. ActiveJobs(c) \cup {j} \subseteq Spots(c)
    BY <1>1
  <2> QED
    BY <2>1, <1>3, FS_Subset
<1>6. Cardinality(Spots(c)) <= Room(c) /\ Room(c) \in Int
  BY MaxActiveAssumption DEF SpotsBounded, Room, TInv, TypeOK
<1> QED
  BY <1>3, <1>4, <1>5, <1>6

\* An INSERT that succeeds is the abstract Apply.
LEMMA InsertIsApply ==
    ASSUME SInv, NEW r \in Requests, Inserted(r), UNCHANGED <<raced, crowd>>
    PROVE  \E j \in Jobs, c \in Candidates : Promise!Apply(j, c)
<1> DEFINE p == call[r].pair
<1>1. PICK j \in Jobs, c \in Candidates : p = <<j, c>>
  BY DEF Inserted, SInv, TInv, TypeOK, Calls, Pairs
<1>2. p \in Pairs /\ Pairs = Jobs \X Candidates /\ p[2] = c
  BY <1>1 DEF Pairs
<1>3. Walk[p] = <<>>
  BY <1>2 DEF Walk, Inserted, NoRow
<1>4. Cardinality({k \in Jobs : Promise!StageOf(Walk[<<k, c>>]) \in Promise!InProgress})
        < Promise!Cap(c)
  <2>1. Cardinality(ActiveJobs(c)) < Room(c)
    BY <1>1, RoomBeforeInsert DEF SInv
  <2>2. \A k \in Jobs : <<k, c>> \in Pairs
    BY DEF Pairs
  <2>3. \A k \in Jobs :
          Promise!StageOf(Walk[<<k, c>>]) = applications[<<k, c>>].status
    BY <2>2, StageIsStatus DEF SInv, Walk
  <2>4. {k \in Jobs : Promise!StageOf(Walk[<<k, c>>]) \in Promise!InProgress} = ActiveJobs(c)
    BY <2>3, OrderIsPipeline DEF ActiveJobs
  <2> QED
    BY <2>1, <2>4, RoomIsCap
<1>5. Walk' = [Walk EXCEPT ![p] = Append(Walk[p], "applied")]
  <2>1. \A o \in Pairs : applications'[o].history =
                            IF o = p THEN <<"applied">> ELSE applications[o].history
    BY <1>2 DEF Inserted, SInv, TInv, TypeOK
  <2>2. Append(Walk[p], "applied") = <<"applied">>
    BY <1>3
  <2> QED
    BY <1>2, <2>1, <2>2 DEF Walk
<1>6. Promise!Extend(<<j, c>>, "applied")
  BY <1>1, <1>5 DEF Promise!Extend, Walk, Inserted
<1>7. Promise!Apply(j, c)
  <2>1. Walk[<<j, c>>] = <<>>
    BY <1>1, <1>3
  <2> QED
    BY <1>4, <1>6, <2>1, SameCardinality DEF Promise!Apply, Walk
<1> QED
  BY <1>7

\* On a pair where no requests met, the flush of a move is the abstract Move:
\* the row it was computed from is the row it overwrites.
LEMMA CommitIsMove ==
    ASSUME SInv, NEW r \in Requests, CommitMove(r), call[r].pair \notin raced
    PROVE  \E p \in Jobs \X Candidates : Promise!Move(p)
<1>0. /\ call[r].pair \in Pairs /\ Pairs = Jobs \X Candidates
      /\ call[r].target \in ApplicationStatus
  BY DEF CommitMove, SInv, TInv, TypeOK, Calls, Pairs
<1>1. PICK p \in Pairs, to \in ApplicationStatus : p = call[r].pair /\ to = call[r].target
  BY <1>0
<1>2. loaded[r] = applications[p] /\ LegalStep(applications[p].status, to)
  BY <1>1 DEF CommitMove, SInv, ReadsStand, Deciding, TInv, Held
<1>3. Walk' = [Walk EXCEPT ![p] = Append(Walk[p], to)]
  <2>1. \A o \in Pairs : applications'[o].history =
          IF o = p THEN Append(applications[p].history, to) ELSE applications[o].history
    BY <1>1, <1>2 DEF CommitMove, Moved, SInv, TInv, TypeOK
  <2> QED
    BY <1>1, <2>1 DEF Walk
<1> UNCHANGED <<raced, crowd>>
  BY DEF CommitMove
<1>4. Promise!StageOf(Walk[p]) = applications[p].status
  BY <1>1, StageIsStatus DEF SInv, Walk
<1>5. Promise!Onward(Promise!StageOf(Walk[p]), to)
  BY <1>2, <1>4, OrderIsPipeline DEF LegalStep, Promise!Onward
<1>6. to \in {Promise!Order[i] : i \in 2..5} \cup {"rejected", "withdrawn"}
  <2>1. CASE \E i \in 1..4 : Pipeline[i + 1] = to
    <3>1. PICK i \in 1..4 : Pipeline[i + 1] = to
      BY <2>1
    <3>2. i + 1 \in 2..5
      OBVIOUS
    <3> QED
      BY <3>1, <3>2, OrderIsPipeline
  <2> QED
    BY <1>2, <2>1 DEF LegalStep
<1>7. Promise!Extend(p, to)
  BY <1>3 DEF Promise!Extend, Walk
<1>8. Promise!Move(p)
  BY <1>5, <1>6, <1>7 DEF Promise!Move, Walk
<1> QED
  BY <1>0, <1>8

\* On a pair where requests met, it replaces the walk by a legal one.
LEMMA CommitIsRewrite ==
    ASSUME SInv, SInv', NEW r \in Requests, CommitMove(r), call[r].pair \in raced
    PROVE  \E p \in Jobs \X Candidates : Promise!Rewrite(p)
<1>0. call[r].pair \in Pairs /\ Pairs = Jobs \X Candidates
  BY DEF CommitMove, SInv, TInv, TypeOK, Calls, Pairs
<1>1. PICK p \in Pairs : p = call[r].pair
  BY <1>0
<1>2. applications'[p] = Moved(r) /\ applications'[p] # NoRow
  <2>1. loaded[r] \in Rows /\ loaded[r] # NoRow /\ call[r].target \in ApplicationStatus
    BY DEF CommitMove, SInv, TInv, TypeOK, Held, Calls
  <2>2. Moved(r) # NoRow
    BY <2>1 DEF Moved, NoRow, ApplicationStatus
  <2> QED
    BY <1>1, <2>2 DEF CommitMove, SInv, TInv, TypeOK
<1>3. Walk' = [Walk EXCEPT ![p] = Walk'[p]]
  <2>1. \A o \in Pairs : o # p => applications'[o].history = applications[o].history
    BY <1>1 DEF CommitMove, SInv, TInv, TypeOK
  <2> QED
    BY <1>1, <2>1 DEF Walk
<1>4. Promise!LegalWalk(Walk'[p])
  <2>1. LegalRow(applications'[p])
    BY <1>1 DEF SInv, LegalRows, HistoryIsLegalWalk, LegalRow
  <2>2. Walk'[p] = applications'[p].history
    BY <1>1 DEF Walk
  <2>3. \A from, to : LegalStep(from, to) => Promise!Onward(from, to)
    BY OrderIsPipeline DEF LegalStep, Promise!Onward
  <2> QED
    BY <1>2, <2>1, <2>2, <2>3 DEF LegalRow, Promise!LegalWalk
<1>5. UNCHANGED <<raced, crowd>>
  BY DEF CommitMove
<1>6. Promise!Rewrite(p)
  BY <1>1, <1>3, <1>4, <1>5 DEF Promise!Rewrite, Walk
<1> QED
  BY <1>0, <1>6

\* A check that lets a request go on is where requests meet.
LEMMA CheckIsMeet ==
    ASSUME SInv, NEW r \in Requests, Checked(r)
    PROVE  \E p \in Jobs \X Candidates : Promise!Meet(p)
<1> DEFINE p == call[r].pair
<1>1. p \in Jobs \X Candidates /\ p[2] \in Candidates
  BY DEF Checked, SInv, TInv, TypeOK, Calls, Pairs
<1>2. raced' \in {raced, raced \cup {p}}
  BY DEF Checked, NoteRace
<1>3. crowd' \in {crowd, [crowd EXCEPT ![p[2]] = crowd[p[2]] + 1]}
  <2>1. CASE pc[r] = "pair"
    BY <2>1 DEF Checked
  <2>2. CASE pc[r] \in {"limit", "load"}
    BY <2>2, OneMoreWrites DEF Checked, SInv
  <2> QED
    BY <2>1, <2>2 DEF Checked
<1>4. Walk' = Walk
  BY DEF Checked, Walk
<1>5. Promise!Meet(p)
  BY <1>2, <1>3, <1>4 DEF Promise!Meet, Walk
<1> QED
  BY <1>1, <1>5

LEMMA PipelineNext ==
    ASSUME SInv, SInv', [Next]_vars
    PROVE  [Promise!Next]_<<Walk, raced, crowd>>
<1>1. CASE UNCHANGED <<applications, raced, crowd>>
  BY <1>1 DEF Walk
<1>2. CASE \E r \in Requests : Checked(r)
  BY <1>2, CheckIsMeet DEF Promise!Next
<1>3. ASSUME UNCHANGED <<raced, crowd>>, NEW r \in Requests, Inserted(r)
      PROVE  Promise!Next
  BY <1>3, InsertIsApply DEF Promise!Next
<1>4. ASSUME NEW r \in Requests, CommitMove(r)
      PROVE  Promise!Next
  BY <1>4, CommitIsMove, CommitIsRewrite DEF Promise!Next
<1> QED
  BY <1>1, <1>2, <1>3, <1>4, StepCases, CheckedCases
  DEF SInv, NobodyChecked, Quiet, Copied, Publish

\* However many requests overlap: the service is an atomic walk along the
\* pipeline under the cap, whatever fails or restarts in the middle of a
\* request; only where requests meet on a pair or crowd for a candidate is it
\* the looser promise ApplicationPipeline makes of that pair or candidate.
THEOREM ServiceImplementsPipeline == Spec => ImplementsPipeline
<1>1. Init => Promise!Init
  BY PipelineInit
<1>2. SInv /\ SInv' /\ [Next]_vars =>
        [Promise!Next]_<<[p \in Pairs |-> applications[p].history], raced, crowd>>
  BY PipelineNext DEF Walk
<1> QED
  BY <1>1, <1>2, StandingInvariant, PTL DEF Spec, ImplementsPipeline, Promise!Spec

-----------------------------------------------------------------------------
(* The documented rules about one step.                                    *)

\* A step leaves a row alone, creates it, or appends a legal move to it.
LEMMA RowStep ==
    ASSUME SInv, [Next]_vars, NEW p \in Pairs \ raced
    PROVE  \/ applications'[p] = applications[p]
           \/ applications[p] = NoRow
           \/ \E to \in ApplicationStatus :
                 /\ applications[p].status \in ACTIVE_APPLICATION_STATUSES
                 /\ applications[p] \in Rows /\ applications[p] # NoRow
                 /\ applications'[p].history = Append(applications[p].history, to)
<1>1. CASE UNCHANGED applications
  BY <1>1
<1>2. ASSUME NEW r \in Requests, Inserted(r)
      PROVE  applications'[p] = applications[p] \/ applications[p] = NoRow
  BY <1>2 DEF Inserted, SInv, TInv, TypeOK
<1>3. ASSUME NEW r \in Requests, CommitMove(r), p = call[r].pair
      PROVE  \E to \in ApplicationStatus :
                 /\ applications[p].status \in ACTIVE_APPLICATION_STATUSES
                 /\ applications[p] \in Rows /\ applications[p] # NoRow
                 /\ applications'[p].history = Append(applications[p].history, to)
  <2>1. /\ loaded[r] = applications[p] /\ loaded[r] # NoRow
        /\ LegalStep(applications[p].status, call[r].target)
        /\ call[r].target \in ApplicationStatus
    BY <1>3 DEF CommitMove, SInv, ReadsStand, Deciding, TInv, Held, TypeOK, Calls
  <2>2. applications'[p].history = Append(applications[p].history, call[r].target)
    BY <1>3, <2>1 DEF CommitMove, Moved, SInv, TInv, TypeOK
  <2> QED
    BY <2>1, <2>2 DEF LegalStep, SInv, TInv, TypeOK
<1>4. ASSUME NEW r \in Requests, CommitMove(r), p # call[r].pair
      PROVE  applications'[p] = applications[p]
  BY <1>4 DEF CommitMove, SInv, TInv, TypeOK
<1> QED
  BY <1>1, <1>2, <1>3, <1>4, StepCases DEF SInv, Quiet, Copied, Publish

\* hired, rejected and withdrawn are final for every pair on which no requests
\* met, whatever overlaps elsewhere and however long a request was under way.
THEOREM TerminalStaysFinal == Spec => TerminalIsFinal
<1>1. ASSUME SInv, [Next]_vars, NEW p \in Pairs \ raced, applications[p].status \in Terminal
      PROVE  applications'[p].status = applications[p].status
  BY <1>1, RowStep DEF Terminal, NoRow, ACTIVE_APPLICATION_STATUSES
<1>2. SInv /\ [Next]_vars =>
        [\A p \in Pairs \ raced : applications[p].status \in Terminal =>
            applications'[p].status = applications[p].status]_vars
  BY <1>1
<1> QED
  BY <1>2, StandingInvariant, PTL DEF Spec, TerminalIsFinal

\* What stage_history has recorded stays recorded for every such pair.
THEOREM HistoryOnlyGrows == Spec => HistoryAppendOnly
<1>1. ASSUME SInv, [Next]_vars, NEW p \in Pairs \ raced,
             NEW old, NEW new, old = applications[p].history, new = applications'[p].history
      PROVE  Len(old) <= Len(new) /\ SubSeq(new, 1, Len(old)) = old
  <2>1. applications[p] \in Rows /\ applications'[p] \in Rows
    BY <1>1, TypeNext DEF SInv, TInv, TypeOK
  <2>2. old \in Seq(ApplicationStatus) /\ new \in Seq(ApplicationStatus)
    <3>1. NoRow.history = <<>> /\ <<>> \in Seq(ApplicationStatus)
      BY DEF NoRow
    <3>2. \A row \in Rows : row = NoRow \/ row.history \in Seq(ApplicationStatus)
      BY DEF Rows
    <3> QED
      BY <1>1, <2>1, <3>1, <3>2
  <2>3. CASE new = old
    BY <2>2, <2>3
  <2>4. CASE old = <<>>
    BY <2>2, <2>4
  <2>5. CASE \E to \in ApplicationStatus : new = Append(old, to)
    BY <2>2, <2>5
  <2> QED
    BY <1>1, <2>3, <2>4, <2>5, RowStep DEF NoRow
<1>2. SInv /\ [Next]_vars =>
        [\A p \in Pairs \ raced : LET old == applications[p].history
                              new == applications'[p].history IN
            Len(old) <= Len(new) /\ SubSeq(new, 1, Len(old)) = old]_vars
  BY <1>1
<1> QED
  BY <1>2, StandingInvariant, PTL DEF Spec, HistoryAppendOnly

=============================================================================
