------------------------ MODULE CandidateSyncProofs ------------------------
(***************************************************************************)
(* Proofs about CandidateSync, for any number of candidates, requests and  *)
(* faults.                                                                 *)
(*                                                                         *)
(* The two ends are argued about apart.  The reader (RefsInv): what the    *)
(* handler is through with is reflected in refs, except what it skipped;   *)
(* reading again only takes back how far that is.  The service             *)
(* (ServiceInv): what the topic says of a candidate is what the table      *)
(* says, or a request is about to tell, or the news was lost.  Once things *)
(* settle the two meet: the handler is through with the whole topic.       *)
(* Profiles are apart from both: their constraints alone keep them 1:1.    *)
(***************************************************************************)
EXTENDS CandidateSync, TLAPS

\* A message in the handler is the one read last.
HandledIsRead ==
    handling # NoMessage =>
        consumer = "up" /\ position > 0 /\ handling = topic[position]

TInv == TypeOK /\ HandledIsRead

-----------------------------------------------------------------------------
(* The bus.                                                                *)

\* Publishing appends the message or leaves the topic alone.
LEMMA PublishAppends ==
    ASSUME topic \in Seq(Events), NEW m \in Events, publish(m)
    PROVE  /\ topic' \in Seq(Events)
           /\ Len(topic') = IF CanSend THEN Len(topic) + 1 ELSE Len(topic)
           /\ \A i \in 1..Len(topic) : topic'[i] = topic[i]
           /\ CanSend => topic'[Len(topic')] = m
BY DEF publish

\* What the publisher does to the log keeps the type of the reader's variables.
LEMMA LogGrowsKeepsType ==
    ASSUME TInv, topic' \in Seq(Events), Len(topic') >= Len(topic),
           \A i \in 1..Len(topic) : topic'[i] = topic[i],
           broker' \in BOOLEAN, producer' \in BOOLEAN, faults' \in 0..MaxFaults,
           UNCHANGED readVars
    PROVE  BusTypeOK(Events)' /\ HandledIsRead'
BY DEF TInv, TypeOK, BusTypeOK, HandledIsRead, readVars

\* Every step of the loop or of Kafka.
LEMMA BusKeepsType ==
    ASSUME TInv, Bus \/ Handled
    PROVE  BusTypeOK(Events)' /\ HandledIsRead'
<1> USE DEF TInv, TypeOK, BusTypeOK, HandledIsRead, logVars, readVars
<1>1. CASE Outage
  <2>1. broker' \in BOOLEAN /\ producer' \in BOOLEAN
    BY <1>1, Zenon DEF Outage
  <2> QED
    BY <1>1, <2>1, LogGrowsKeepsType, MaxFaultsAssumption DEF Outage, Fault
<1>2. CASE Recovery
  <2>1. broker' \in BOOLEAN /\ producer' \in BOOLEAN
    BY <1>2, Zenon DEF Recovery
  <2> QED
    BY <1>2, <2>1, LogGrowsKeepsType DEF Recovery
<1>3. CASE Connect
  BY <1>3 DEF Connect
<1>4. CASE Read
  BY <1>4 DEF Read
<1>5. CASE AutoCommit
  BY <1>5 DEF AutoCommit
<1>6. CASE HandlerFails
  BY <1>6, MaxFaultsAssumption DEF HandlerFails, Fault
<1>7. CASE LeaveLoop
  BY <1>7, MaxFaultsAssumption DEF LeaveLoop, Fault
<1>8. CASE Handled
  BY <1>8 DEF Handled
<1> QED
  BY <1>1, <1>2, <1>3, <1>4, <1>5, <1>6, <1>7, <1>8 DEF Bus

-----------------------------------------------------------------------------
(* Type correctness.                                                       *)

Steps == {"lookup", "insert", "load", "create", "commit", "refresh", "announce"}

\* What a step makes of the call in its slot: the next step of it, or nothing.
Moves(r) ==
    \/ request' = [request EXCEPT ![r] = None]
    \/ \E step \in Steps : request' = [request EXCEPT ![r].step = step]

\* The sets and tables around the bus.
TablesOK ==
    /\ table \in [Candidates -> Emails \cup {None}]
    /\ profiles \in [Candidates -> Nat]
    /\ used \subseteq Candidates
    /\ refs \subseteq Candidates
    /\ lost \subseteq Candidates
    /\ raced \subseteq Candidates

LEMMA CallInFlight ==
    ASSUME TInv, NEW r \in Requests, request[r] # None
    PROVE  request[r] \in Calls
BY DEF TInv, TypeOK

LEMMA MovesKeepsType ==
    ASSUME TInv, NEW r \in Requests, request[r] # None, Moves(r)
    PROVE  request' \in [Requests -> Calls \cup {None}]
<1>1. request[r] \in Calls
  BY CallInFlight
<1>2. \A step \in Steps : [request[r] EXCEPT !.step = step] \in Calls
  BY <1>1 DEF Calls, Steps
<1>3. CASE request' = [request EXCEPT ![r] = None]
  BY <1>3 DEF TInv, TypeOK
<1>4. ASSUME NEW step \in Steps, request' = [request EXCEPT ![r].step = step]
      PROVE  request' \in [Requests -> Calls \cup {None}]
  <2>1. request' = [request EXCEPT ![r] = [request[r] EXCEPT !.step = step]]
    BY <1>4
  <2> QED
    BY <2>1, <1>2 DEF TInv, TypeOK
<1> QED
  BY <1>3, <1>4 DEF Moves

\* A step of a request, whatever it does, keeps every type but the bus's.
LEMMA RequestKeepsType ==
    ASSUME TInv, NEW r \in Requests, Request(r)
    PROVE  TablesOK' /\ Moves(r) /\ request[r] # None
<1>1. request[r] # None
  BY DEF Request, LookUp, Insert, Load, CreateProfile, CommitUpdate, CommitDelete, Refresh, Announce,
         DatabaseFails, At
<1>2. request[r] \in Calls
  BY <1>1, CallInFlight
<1>3. request[r].id \in Candidates /\ request[r].email \in Emails \cup {None}
  BY <1>2 DEF Calls
<1> USE <1>1, <1>3 DEF Moves, Steps, TablesOK, TInv, TypeOK, AnswerTo, Step, readOnly
<1>4. CASE LookUp(r)
  BY <1>4 DEF LookUp
<1>5. CASE Insert(r)
  BY <1>5 DEF Insert
<1>6. CASE Load(r)
  BY <1>6 DEF Load
<1>7. CASE CommitUpdate(r)
  BY <1>7 DEF CommitUpdate
<1>8. CASE CommitDelete(r)
  BY <1>8 DEF CommitDelete
<1>9. CASE Refresh(r)
  BY <1>9 DEF Refresh
<1>10. CASE Announce(r)
  BY <1>10 DEF Announce
<1>11. CASE DatabaseFails(r)
  BY <1>11 DEF DatabaseFails
<1>12. CASE CreateProfile(r)
  BY <1>12 DEF CreateProfile
<1> QED
  BY <1>4, <1>5, <1>6, <1>7, <1>8, <1>9, <1>10, <1>11, <1>12 DEF Request

\* The event that a request announces.
EventOf(r) ==
    IF request[r].op = "delete" THEN Deleted(request[r].id) ELSE Upserted(request[r].id)

\* Of the steps of a request only Announce touches the topic, and none the
\* reader.
LEMMA RequestAndBus ==
    ASSUME TInv, NEW r \in Requests, Request(r)
    PROVE  /\ UNCHANGED <<readVars, broker, producer, refs>>
           /\ faults' \in 0..MaxFaults
           /\ \/ UNCHANGED topic
              \/ Announce(r) /\ publish(EventOf(r)) /\ EventOf(r) \in Events
<1> USE DEF TInv, TypeOK, BusTypeOK, readOnly, busVars, logVars
<1>1. CASE Announce(r)
  <2>1. EventOf(r) \in Events
    BY <1>1, CallInFlight DEF EventOf, Upserted, Deleted, Events, Calls, Announce, At
  <2>2. publish(EventOf(r))
    BY <1>1 DEF Announce, EventOf
  <2> QED
    BY <1>1, <2>1, <2>2 DEF Announce
<1>2. CASE DatabaseFails(r)
  BY <1>2, MaxFaultsAssumption DEF DatabaseFails, Fault
<1>3. CASE \/ LookUp(r) \/ Insert(r) \/ Load(r) \/ CreateProfile(r)
           \/ CommitUpdate(r) \/ CommitDelete(r) \/ Refresh(r)
  BY <1>3 DEF LookUp, Insert, Load, CreateProfile, CommitUpdate, CommitDelete, Refresh
<1> QED
  BY <1>1, <1>2, <1>3 DEF Request

\* Every variable stays within its type.
LEMMA TInvStep ==
    ASSUME TInv, [Next]_vars
    PROVE  TInv'
<1>0. TablesOK /\ request \in [Requests -> Calls \cup {None}] /\ BusTypeOK(Events)
  BY DEF TInv, TypeOK, TablesOK
<1>s. ASSUME TablesOK', request' \in [Requests -> Calls \cup {None}],
             BusTypeOK(Events)', HandledIsRead'
      PROVE  TInv'
  BY <1>s DEF TInv, TypeOK, TablesOK
<1>1. ASSUME UNCHANGED busVars PROVE BusTypeOK(Events)' /\ HandledIsRead'
  BY <1>1 DEF TInv, TypeOK, BusTypeOK, HandledIsRead, busVars, logVars, readVars
<1>2. ASSUME NEW r \in Requests, NEW c \in Candidates, NEW email \in Emails,
             ReceiveRegister(r, c, email)
      PROVE  TInv'
  <2>1. [op |-> "register", id |-> c, email |-> email, step |-> "lookup"] \in Calls
    BY DEF Calls
  <2> QED
    BY <1>2, <1>0, <1>1, <2>1, <1>s DEF ReceiveRegister, Receive, TablesOK
<1>3. ASSUME NEW r \in Requests, NEW c \in Candidates, NEW op \in {"update", "delete", "profile"},
             ReceiveCall(r, c, op)
      PROVE  TInv'
  <2>1. [op |-> op, id |-> c, email |-> None, step |-> "load"] \in Calls
    BY DEF Calls
  <2> QED
    BY <1>3, <1>0, <1>1, <2>1, <1>s DEF ReceiveCall, Receive, TablesOK
<1>4. ASSUME NEW r \in Requests, Request(r)
      PROVE  TInv'
  <2>1. TablesOK' /\ Moves(r) /\ request[r] # None
    BY <1>4, RequestKeepsType
  <2>2. request' \in [Requests -> Calls \cup {None}]
    BY <2>1, MovesKeepsType
  <2>3. topic' \in Seq(Events) /\ Len(topic') >= Len(topic)
        /\ \A i \in 1..Len(topic) : topic'[i] = topic[i]
    <3>1. topic \in Seq(Events)
      BY <1>0 DEF BusTypeOK
    <3>2. CASE UNCHANGED topic
      BY <3>1, <3>2
    <3>3. CASE publish(EventOf(r)) /\ EventOf(r) \in Events
      BY <3>1, <3>3, PublishAppends
    <3> QED
      BY <1>4, RequestAndBus, <3>2, <3>3
  <2>4. BusTypeOK(Events)' /\ HandledIsRead'
    BY <1>0, <1>4, <2>3, RequestAndBus, LogGrowsKeepsType DEF BusTypeOK
  <2> QED
    BY <2>1, <2>2, <2>4, <1>s
<1>5. CASE Restart
  <2>1. lost' \subseteq Candidates
    BY <1>5, <1>0, CallInFlight DEF Restart, HasNews, TablesOK, Calls
  <2>2. BusTypeOK(Events)' /\ HandledIsRead'
    BY <1>0, <1>5, LogGrowsKeepsType, MaxFaultsAssumption
       DEF Restart, start, Fault, BusTypeOK, readVars
  <2> QED
    BY <1>5, <1>0, <2>1, <2>2, <1>s DEF Restart, TablesOK
<1>6. CASE Bus /\ UNCHANGED <<table, profiles, used, request, refs, lost, raced>>
  BY <1>6, <1>0, BusKeepsType, <1>s DEF TablesOK
<1>7. CASE handle_event
  <2>1. handling \in Events
    BY <1>7, <1>0 DEF handle_event, Handled, BusTypeOK
  <2> QED
    BY <1>7, <1>0, <2>1, BusKeepsType, <1>s DEF handle_event, TablesOK, Events
<1>8. CASE UNCHANGED vars
  BY <1>8, <1>0, <1>1, <1>s DEF vars, TablesOK
<1> QED
  BY <1>2, <1>3, <1>4, <1>5, <1>6, <1>7, <1>8 DEF Next

LEMMA TInvInit == Init => TInv
BY MaxFaultsAssumption
   DEF Init, BusInit, TInv, TypeOK, BusTypeOK, HandledIsRead

\* The services, the topic and the reader keep their types.
THEOREM SyncTypeCorrect == Spec => []TypeOK
<1>1. TInv /\ [Next]_vars => TInv'
  BY TInvStep
<1>2. TInv => TypeOK
  BY DEF TInv
<1> QED
  BY TInvInit, <1>1, <1>2, PTL DEF Spec

-----------------------------------------------------------------------------
(* The read model.                                                         *)

\* How many messages the handler is through with.
done == IF handling = NoMessage THEN position ELSE position - 1

NoDeletion(c) == \A i \in 1..Len(topic) : About(i, c) => topic[i].type = "candidate.upserted"

\* refs agree with the last event on c, if the handler is through with it, and
\* hold no candidate there was no event about.
Reflected(c) ==
    /\ \A i \in 1..done : LastAbout(i, c) /\ i \notin skipped =>
          (c \in refs <=> topic[i].type = "candidate.upserted")
    /\ c \in refs => \E i \in 1..Len(topic) : About(i, c)

\* As long as no deletion is in the topic one event is enough to be known.
Learned(c) ==
    NoDeletion(c) /\ (\E i \in 1..done : About(i, c) /\ i \notin skipped) => c \in refs

RefsInv == \A c \in Candidates : Reflected(c) /\ Learned(c)

\* The handler's view changes with the topic no further than it has read.
LEMMA LogGrowsKeepsRefs ==
    ASSUME TInv, RefsInv, topic' \in Seq(Events), Len(topic') >= Len(topic),
           \A i \in 1..Len(topic) : topic'[i] = topic[i],
           UNCHANGED <<readVars, refs>>
    PROVE  RefsInv'
<1>1. done' = done /\ done \in Int /\ done <= Len(topic) /\ Len(topic) \in Nat
      /\ Len(topic') \in Nat
  BY DEF done, readVars, TInv, TypeOK, BusTypeOK, HandledIsRead
<1>2. refs' = refs /\ skipped' = skipped
  BY DEF readVars
<1> SUFFICES ASSUME NEW c \in Candidates PROVE Reflected(c)' /\ Learned(c)'
  BY DEF RefsInv
<1>3. \A i \in 1..Len(topic) : About(i, c)' <=> About(i, c)
  BY DEF About
<1>4. \A i \in 1..Len(topic) : LastAbout(i, c)' => LastAbout(i, c)
  BY <1>1, <1>3 DEF LastAbout
<1>5. NoDeletion(c)' => NoDeletion(c)
  BY <1>1, <1>3 DEF NoDeletion
<1>6. Reflected(c)'
  BY <1>1, <1>2, <1>3, <1>4 DEF Reflected, RefsInv
<1>7. Learned(c)'
  BY <1>1, <1>2, <1>3, <1>5 DEF Learned, RefsInv
<1> QED
  BY <1>6, <1>7

\* Going back, or ahead over what is recorded as skipped, changes nothing.
LEMMA RereadKeepsRefs ==
    ASSUME RefsInv, UNCHANGED <<topic, refs>>, skipped \subseteq skipped',
           \A i \in 1..done' : i \in 1..done \/ i \in skipped'
    PROVE  RefsInv'
<1> SUFFICES ASSUME NEW c \in Candidates PROVE Reflected(c)' /\ Learned(c)'
  BY DEF RefsInv
<1>1. \A i \in 1..Len(topic) : (About(i, c)' <=> About(i, c)) /\ topic'[i] = topic[i]
  BY DEF About
<1>2. \A i : LastAbout(i, c)' <=> LastAbout(i, c)
  BY DEF LastAbout, About
<1>3. Reflected(c)'
  BY <1>2 DEF Reflected, RefsInv, About
<1>4. Learned(c)'
  BY DEF Learned, RefsInv, NoDeletion, About
<1> QED
  BY <1>3, <1>4

\* No step of the loop or of Kafka outdates what the handler is through with.
LEMMA BusKeepsRefs ==
    ASSUME TInv, RefsInv, Bus, UNCHANGED refs
    PROVE  RefsInv'
<1>1. topic \in Seq(Events) /\ Len(topic) \in Nat /\ offset \in 0..position
      /\ position \in 0..Len(topic)
  BY DEF TInv, TypeOK, BusTypeOK
<1>2. UNCHANGED topic
  BY DEF Bus, Outage, Recovery, Connect, Read, AutoCommit, HandlerFails, LeaveLoop,
         logVars
<1>3. skipped \subseteq skipped' /\ \A i \in 1..done' : i \in 1..done \/ i \in skipped'
  <2>1. CASE Outage \/ Recovery \/ AutoCommit
    BY <1>1, <2>1 DEF Outage, Recovery, AutoCommit, done, readVars
  <2>2. CASE Connect
    BY <1>1, <2>2 DEF Connect, done, TInv, HandledIsRead
  <2>3. CASE Read
    <3>1. topic[position + 1] \in Events
      BY <1>1, <2>3 DEF Read
    <3> QED
      BY <1>1, <2>3, <3>1, NoMessageAssumption DEF Read, done
  <2>4. CASE HandlerFails
    BY <1>1, <2>4 DEF HandlerFails, done
  <2>5. CASE LeaveLoop
    BY <1>1, <2>5 DEF LeaveLoop, done
  <2> QED
    BY <2>1, <2>2, <2>3, <2>4, <2>5 DEF Bus
<1> QED
  BY <1>2, <1>3, RereadKeepsRefs

\* The handler brings refs up to the message it has handled.
LEMMA HandlingKeepsRefs ==
    ASSUME TInv, RefsInv, handle_event
    PROVE  RefsInv'
<1> DEFINE p == position
<1>1. topic \in Seq(Events) /\ p \in 1..Len(topic) /\ handling = topic[p]
      /\ handling \in Events /\ done = p - 1 /\ done' = p
  BY DEF handle_event, Handled, done, TInv, TypeOK, BusTypeOK, HandledIsRead
<1>2. topic' = topic /\ skipped' = skipped \ {p}
  BY DEF handle_event, Handled, logVars
<1>3. handling.type \in {"candidate.upserted", "candidate.deleted"}
  BY <1>1 DEF Events
<1>4. refs' = IF handling.type = "candidate.upserted"
              THEN refs \cup {handling.id} ELSE refs \ {handling.id}
  BY DEF handle_event
<1> HIDE DEF p
<1> SUFFICES ASSUME NEW c \in Candidates PROVE Reflected(c)' /\ Learned(c)'
  BY DEF RefsInv
<1>5. About(p, c) <=> handling.id = c
  BY <1>1 DEF About
<1>6. \A i : (About(i, c)' <=> About(i, c)) /\ (LastAbout(i, c)' <=> LastAbout(i, c))
  BY <1>2 DEF About, LastAbout
<1>7. ASSUME NEW i \in 1..p, LastAbout(i, c), i \notin skipped'
      PROVE  c \in refs' <=> topic[i].type = "candidate.upserted"
  <2>1. CASE i = p
    BY <1>1, <1>3, <1>4, <1>5, <1>7, <2>1 DEF LastAbout
  <2>2. CASE i # p
    <3>1. ~About(p, c)
      BY <1>1, <1>7, <2>2 DEF LastAbout
    <3>2. i \in 1..done /\ i \notin skipped
      BY <1>1, <1>2, <1>7, <2>2
    <3> QED
      BY <1>4, <1>5, <1>7, <3>1, <3>2 DEF RefsInv, Reflected
  <2> QED
    BY <2>1, <2>2
<1>8. c \in refs' => \E i \in 1..Len(topic) : About(i, c)
  BY <1>1, <1>4, <1>5 DEF RefsInv, Reflected
<1>9. Reflected(c)'
  BY <1>1, <1>2, <1>6, <1>7, <1>8 DEF Reflected
<1>10. Learned(c)'
  <2> SUFFICES ASSUME NoDeletion(c), NEW i \in 1..p, About(i, c), i \notin skipped'
               PROVE  c \in refs'
    BY <1>1, <1>2, <1>6 DEF Learned, NoDeletion
  <2>1. handling.id = c => handling.type = "candidate.upserted"
    BY <1>1, <1>5 DEF NoDeletion
  <2>2. CASE i = p
    BY <1>4, <1>5, <2>1, <2>2
  <2>3. CASE i # p
    BY <1>1, <1>2, <1>4, <2>1, <2>3 DEF RefsInv, Learned
  <2> QED
    BY <2>2, <2>3
<1> QED
  BY <1>9, <1>10

LEMMA RefsInvInit == Init => RefsInv
BY DEF Init, BusInit, RefsInv, Reflected, Learned, done

LEMMA RefsInvStep ==
    ASSUME TInv, RefsInv, [Next]_vars
    PROVE  RefsInv'
<1>0. topic \in Seq(Events)
  BY DEF TInv, TypeOK, BusTypeOK
<1>1. ASSUME UNCHANGED <<topic, readVars, refs>> PROVE RefsInv'
  BY <1>0, <1>1, LogGrowsKeepsRefs
<1>2. ASSUME NEW r \in Requests, NEW call, Receive(r, call)
      PROVE  RefsInv'
  BY <1>1, <1>2 DEF Receive, busVars, logVars
<1>3. ASSUME NEW r \in Requests, Request(r)
      PROVE  RefsInv'
  <2>1. CASE UNCHANGED topic
    BY <1>1, <1>3, <2>1, RequestAndBus
  <2>2. CASE publish(EventOf(r)) /\ EventOf(r) \in Events
    <3>1. topic' \in Seq(Events) /\ Len(topic') >= Len(topic)
          /\ \A i \in 1..Len(topic) : topic'[i] = topic[i]
      BY <1>0, <2>2, PublishAppends
    <3> QED
      BY <1>3, <3>1, RequestAndBus, LogGrowsKeepsRefs
  <2> QED
    BY <1>3, <2>1, <2>2, RequestAndBus
<1>4. CASE Restart
  BY <1>1, <1>4 DEF Restart
<1>5. CASE Bus /\ UNCHANGED <<table, profiles, used, request, refs, lost, raced>>
  BY <1>5, BusKeepsRefs
<1>6. CASE handle_event
  BY <1>6, HandlingKeepsRefs
<1>7. CASE UNCHANGED vars
  BY <1>1, <1>7 DEF vars, busVars, logVars
<1> QED
  BY <1>2, <1>3, <1>4, <1>5, <1>6, <1>7 DEF Next, ReceiveRegister, ReceiveCall

\* consumers.py: "Handlers are idempotent, so redelivered events are safe".
\* However often messages are delivered again, a consumer that has caught up
\* holds what the last event on each candidate says.
THEOREM RedeliveryIsSafe == Spec => []RefsFollowTopic
<1>1. TInv /\ RefsInv => RefsFollowTopic
  BY DEF TInv, TypeOK, BusTypeOK, RefsInv, Reflected, RefsFollowTopic, CaughtUp, done
<1>2. Init => TInv /\ RefsInv
  BY TInvInit, RefsInvInit
<1>3. TInv /\ RefsInv /\ [Next]_vars => TInv' /\ RefsInv'
  BY TInvStep, RefsInvStep
<1> QED
  BY <1>1, <1>2, <1>3, PTL DEF Spec

-----------------------------------------------------------------------------
(* The candidates service.                                                 *)

Quiet(c) == \A i \in 1..Len(topic) : ~About(i, c)

\* The last event on c, if there was any, says that it was deleted.
SaidGone(c) ==
    Quiet(c) \/ \E i \in 1..Len(topic) : LastAbout(i, c) /\ topic[i].type = "candidate.deleted"

\* Some request still has to tell of c.
NewsPending(c) == \E r \in Requests : HasNews(r) /\ request[r].id = c

Alone(r) ==
    \A q \in Requests : request[q] # None /\ request[q].id = request[r].id => q = r

\* An id that was never drawn is nowhere.
Unused(c) ==
    c \notin used =>
        /\ table[c] = None
        /\ Quiet(c)
        /\ \A r \in Requests : request[r] # None => request[r].id # c

\* What a request at its step can rely on.
InOrder(r) ==
    request[r] # None =>
        /\ request[r].step \in {"lookup", "insert"} =>
              /\ request[r].op = "register" /\ request[r].email # None
              /\ table[request[r].id] = None
              /\ Quiet(request[r].id)
              /\ Alone(r)
        /\ request[r].op = "delete" =>
              /\ request[r].step \in {"load", "commit", "announce"}
              /\ request[r].step = "announce" => table[request[r].id] = None
        /\ request[r].id \notin raced =>
              /\ Alone(r)
              /\ request[r].op # "delete" /\ request[r].step \in {"commit", "refresh", "announce"} =>
                    table[request[r].id] # None

\* What the topic tells of c, or a request will.
Told(c) ==
    /\ table[c] # None => NoDeletion(c)
    /\ table[c] # None /\ Quiet(c) => c \in lost \/ NewsPending(c)
    /\ table[c] = None /\ c \notin raced => c \in lost \/ NewsPending(c) \/ SaidGone(c)

ServiceInv ==
    /\ \A c \in Candidates : Unused(c)
    /\ \A r \in Requests : InOrder(r)
    /\ \A c \in Candidates : Told(c)

LEMMA ServiceInvInit == Init => ServiceInv
BY DEF Init, BusInit, ServiceInv, Unused, InOrder, Told, Quiet, NoDeletion, SaidGone

\* The request in r goes on, or is answered; the others are where they were.
GoesOn(r, step) ==
    /\ request'[r] # None
    /\ request'[r].id = request[r].id
    /\ request'[r].op = request[r].op
    /\ request'[r].email = request[r].email
    /\ request'[r].step = step
    /\ \A q \in Requests : q # r => request'[q] = request[q]

Answered(r) ==
    /\ request'[r] = None
    /\ \A q \in Requests : q # r => request'[q] = request[q]

LEMMA StepGoesOn ==
    ASSUME TInv, NEW r \in Requests, request[r] # None, NEW step \in Steps, Step(r, step)
    PROVE  GoesOn(r, step)
<1>1. request[r] \in Calls
  BY CallInFlight
<1>2. request' = [request EXCEPT ![r] = [request[r] EXCEPT !.step = step]]
  BY DEF Step
<1>3. [request[r] EXCEPT !.step = step] \in Calls
  BY <1>1 DEF Calls, Steps
<1> QED
  BY <1>1, <1>2, <1>3, NoCallAssumption DEF GoesOn, TInv, TypeOK, Calls

LEMMA AnswerEnds ==
    ASSUME TInv, NEW r \in Requests, AnswerTo(r)
    PROVE  Answered(r)
BY DEF AnswerTo, Answered, TInv, TypeOK

\* A step on nothing but its own slot.
LEMMA QuietStepKeepsService ==
    ASSUME TInv, ServiceInv, NEW r \in Requests, request[r] # None,
           UNCHANGED <<table, used, raced, topic>>,
           \/ /\ lost' = lost
              /\ HasNews(r) =>
                    HasNews(r)' \/ (table[request[r].id] = None /\ request[r].id \in raced)
           \/ lost' = lost \cup {request[r].id},
           \/ Answered(r)
           \/ \E step \in Steps : GoesOn(r, step) /\ InOrder(r)'
    PROVE  ServiceInv'
<1>1. \A q \in Requests : request'[q] # None =>
         request[q] # None /\ request'[q].id = request[q].id
  BY DEF Answered, GoesOn
<1>2. \A c : (Quiet(c)' <=> Quiet(c)) /\ (NoDeletion(c)' <=> NoDeletion(c))
             /\ (SaidGone(c)' <=> SaidGone(c))
  BY DEF Quiet, NoDeletion, SaidGone, About, LastAbout
<1>3. \A c \in Candidates : Unused(c)'
  BY <1>1, <1>2 DEF ServiceInv, Unused
<1>4. \A q \in Requests : InOrder(q)'
  <2> SUFFICES ASSUME NEW q \in Requests, q # r, request'[q] # None PROVE InOrder(q)'
    BY DEF InOrder, Answered
  <2>1. request'[q] = request[q]
    BY DEF Answered, GoesOn
  <2>2. Alone(q) => Alone(q)'
    BY <1>1, <2>1 DEF Alone
  <2> QED
    BY <1>2, <2>1, <2>2 DEF ServiceInv, InOrder
<1>5. \A c \in Candidates : Told(c)'
  <2> SUFFICES ASSUME NEW c \in Candidates, c \notin lost', NewsPending(c),
                      ~(table[c] = None /\ c \in raced)
               PROVE  NewsPending(c)'
    BY <1>2 DEF ServiceInv, Told
  <2>1. PICK q \in Requests : HasNews(q) /\ request[q].id = c
    BY DEF NewsPending
  <2>2. CASE q # r
    <3>1. request'[q] = request[q]
      BY <2>2 DEF Answered, GoesOn
    <3> QED
      BY <2>1, <3>1 DEF NewsPending, HasNews
  <2>3. CASE q = r
    <3>1. HasNews(r)'
      BY <2>1, <2>3
    <3>2. request'[r] # None /\ request'[r].id = c
      BY <1>1, <2>1, <2>3, <3>1 DEF HasNews
    <3> QED
      BY <3>1, <3>2 DEF NewsPending
  <2> QED
    BY <2>2, <2>3
<1> QED
  BY <1>3, <1>4, <1>5 DEF ServiceInv

\* One lemma per action of the service.
LEMMA LookUpKeepsService ==
    ASSUME TInv, ServiceInv, NEW r \in Requests, LookUp(r)
    PROVE  ServiceInv'
<1>1. request[r] # None /\ request[r].step = "lookup" /\ ~HasNews(r)
  BY DEF LookUp, At, HasNews
<1>2. UNCHANGED <<table, used, raced, lost, topic>>
  BY DEF LookUp, readOnly, busVars, logVars
<1>3. CASE AnswerTo(r)
  BY <1>1, <1>2, <1>3, AnswerEnds, QuietStepKeepsService
<1>4. CASE Step(r, "insert")
  <2>1. GoesOn(r, "insert")
    BY <1>1, <1>4, StepGoesOn DEF Steps
  <2>2. InOrder(r)'
    BY <1>1, <1>2, <2>1 DEF ServiceInv, InOrder, GoesOn, Alone, Quiet, About
  <2> QED
    BY <1>1, <1>2, <2>1, <2>2, QuietStepKeepsService DEF Steps
<1> QED
  BY <1>3, <1>4 DEF LookUp

LEMMA LoadKeepsService ==
    ASSUME TInv, ServiceInv, NEW r \in Requests, Load(r)
    PROVE  ServiceInv'
<1>1. request[r] # None /\ request[r].step = "load" /\ ~HasNews(r)
  BY DEF Load, At, HasNews
<1>2. UNCHANGED <<table, used, raced, lost, topic>>
  BY DEF Load, readOnly, busVars, logVars
<1>3. CASE AnswerTo(r)
  BY <1>1, <1>2, <1>3, AnswerEnds, QuietStepKeepsService
<1>4. ASSUME NEW step \in {"create", "commit"}, Step(r, step), table[request[r].id] # None,
             step = "create" => request[r].op = "profile"
      PROVE  ServiceInv'
  <2>1. GoesOn(r, step)
    BY <1>1, <1>4, StepGoesOn DEF Steps
  <2>2. InOrder(r)'
    BY <1>1, <1>2, <1>4, <2>1 DEF ServiceInv, InOrder, GoesOn, Alone
  <2> QED
    BY <1>1, <1>2, <2>1, <2>2, QuietStepKeepsService DEF Steps
<1> QED
  BY <1>3, <1>4 DEF Load

LEMMA CreateProfileKeepsService ==
    ASSUME TInv, ServiceInv, NEW r \in Requests, CreateProfile(r)
    PROVE  ServiceInv'
<1>1. request[r] # None /\ request[r].step = "create" /\ ~HasNews(r)
  BY DEF CreateProfile, At, HasNews
<1>2. UNCHANGED <<table, used, raced, lost, topic>>
  BY DEF CreateProfile, busVars, logVars
<1>3. CASE AnswerTo(r)
  BY <1>1, <1>2, <1>3, AnswerEnds, QuietStepKeepsService
<1>4. CASE Step(r, "refresh") /\ MayHaveProfile(request[r].id)
  <2>1. GoesOn(r, "refresh")
    BY <1>1, <1>4, StepGoesOn DEF Steps
  <2>2. InOrder(r)'
    BY <1>1, <1>2, <1>4, <2>1 DEF ServiceInv, InOrder, GoesOn, Alone, MayHaveProfile
  <2> QED
    BY <1>1, <1>2, <2>1, <2>2, QuietStepKeepsService DEF Steps
<1> QED
  BY <1>3, <1>4 DEF CreateProfile

LEMMA CommitUpdateKeepsService ==
    ASSUME TInv, ServiceInv, NEW r \in Requests, CommitUpdate(r)
    PROVE  ServiceInv'
<1>1. request[r] # None /\ request[r].step = "commit" /\ request[r].op # "delete"
      /\ ~HasNews(r)
  BY DEF CommitUpdate, At, HasNews
<1>2. UNCHANGED <<table, used, raced, lost, topic>>
  BY DEF CommitUpdate, readOnly, busVars, logVars
<1>3. CASE AnswerTo(r)
  BY <1>1, <1>2, <1>3, AnswerEnds, QuietStepKeepsService
<1>4. CASE Step(r, "refresh")
  <2>1. GoesOn(r, "refresh")
    BY <1>1, <1>4, StepGoesOn DEF Steps
  <2>2. InOrder(r)'
    BY <1>1, <1>2, <1>4, <2>1 DEF ServiceInv, InOrder, GoesOn, Alone
  <2> QED
    BY <1>1, <1>2, <2>1, <2>2, QuietStepKeepsService DEF Steps
<1> QED
  BY <1>3, <1>4 DEF CommitUpdate

LEMMA RefreshKeepsService ==
    ASSUME TInv, ServiceInv, NEW r \in Requests, Refresh(r)
    PROVE  ServiceInv'
<1>1. request[r] # None /\ request[r].step = "refresh"
  BY DEF Refresh, At
<1>2. UNCHANGED <<table, used, raced, lost, topic>>
  BY DEF Refresh, readOnly, busVars, logVars
<1>3. request[r].op # "delete"
  BY <1>1 DEF ServiceInv, InOrder
<1>4. CASE AnswerTo(r) /\ (table[request[r].id] = None \/ request[r].op = "profile")
  <2>1. HasNews(r) => table[request[r].id] = None /\ request[r].id \in raced
    BY <1>1, <1>3, <1>4 DEF ServiceInv, InOrder, HasNews
  <2> QED
    BY <1>1, <1>2, <1>4, <2>1, AnswerEnds, QuietStepKeepsService
<1>5. CASE Step(r, "announce")
  <2>1. GoesOn(r, "announce")
    BY <1>1, <1>5, StepGoesOn DEF Steps
  <2>2. InOrder(r)'
    BY <1>1, <1>2, <1>3, <2>1 DEF ServiceInv, InOrder, GoesOn, Alone
  <2>3. HasNews(r) => HasNews(r)'
    BY <2>1 DEF GoesOn, HasNews
  <2> QED
    BY <1>1, <1>2, <2>1, <2>2, <2>3, QuietStepKeepsService DEF Steps
<1> QED
  BY <1>4, <1>5 DEF Refresh

LEMMA DatabaseFailsKeepsService ==
    ASSUME TInv, ServiceInv, NEW r \in Requests, DatabaseFails(r)
    PROVE  ServiceInv'
<1>1. request[r] # None /\ Answered(r)
  BY AnswerEnds DEF DatabaseFails
<1>2. UNCHANGED <<table, used, raced, topic>>
  BY DEF DatabaseFails, logVars
<1>3. \/ lost' = lost /\ ~HasNews(r)
      \/ lost' = lost \cup {request[r].id}
  BY DEF DatabaseFails
<1> QED
  BY <1>1, <1>2, <1>3, QuietStepKeepsService

LEMMA InsertKeepsService ==
    ASSUME TInv, ServiceInv, NEW r \in Requests, Insert(r)
    PROVE  ServiceInv'
<1>a. PICK c0 : c0 = request[r].id
  OBVIOUS
<1> USE <1>a
<1>1. request[r] # None /\ request[r].step = "insert" /\ ~HasNews(r)
  BY DEF Insert, At, HasNews
<1>2. UNCHANGED <<used, raced, lost, topic>>
  BY DEF Insert, busVars, logVars
<1>3. /\ request[r].op = "register" /\ request[r].email # None
      /\ table[c0] = None /\ Quiet(c0) /\ Alone(r)
  BY <1>1 DEF ServiceInv, InOrder
<1>4. c0 \in Candidates
  BY <1>1, CallInFlight DEF Calls
<1>5. CASE AnswerTo(r) /\ UNCHANGED table
  BY <1>1, <1>2, <1>5, AnswerEnds, QuietStepKeepsService
<1>6. CASE Step(r, "refresh") /\ table' = [table EXCEPT ![c0] = request[r].email]
  <2>1. GoesOn(r, "refresh")
    BY <1>1, <1>6, StepGoesOn DEF Steps
  <2>2. table'[c0] # None /\ \A c \in Candidates : c # c0 => table'[c] = table[c]
    BY <1>3, <1>4, <1>6 DEF TInv, TypeOK
  <2>3. \A c : (Quiet(c)' <=> Quiet(c)) /\ (NoDeletion(c)' <=> NoDeletion(c))
               /\ (SaidGone(c)' <=> SaidGone(c))
    BY <1>2 DEF Quiet, NoDeletion, SaidGone, About, LastAbout
  <2>4. \A c \in Candidates : Unused(c)'
    BY <1>1, <1>2, <1>4, <2>1, <2>2, <2>3 DEF ServiceInv, Unused, GoesOn
  <2>5. InOrder(r)'
    BY <1>2, <1>3, <2>1, <2>2 DEF InOrder, GoesOn, Alone
  <2>6. ASSUME NEW q \in Requests, q # r PROVE InOrder(q)'
    <3> SUFFICES ASSUME request[q] # None PROVE InOrder(q)'
      BY <2>1, <2>6 DEF InOrder, GoesOn
    <3>1. request'[q] = request[q] /\ request[q].id \in Candidates /\ request[q].id # c0
      BY <1>3, <2>1, <2>6, CallInFlight DEF GoesOn, Alone, Calls
    <3>2. Alone(q) => Alone(q)'
      BY <2>1, <3>1 DEF Alone, GoesOn
    <3> QED
      BY <1>2, <2>2, <2>3, <3>1, <3>2 DEF ServiceInv, InOrder
  <2>7. NewsPending(c0)'
    BY <1>3, <2>1 DEF NewsPending, HasNews, GoesOn
  <2>8. ASSUME NEW c \in Candidates, NewsPending(c) PROVE NewsPending(c)'
    BY <1>1, <2>1, <2>8 DEF NewsPending, HasNews, GoesOn
  <2>9. \A c \in Candidates : Told(c)'
    BY <1>2, <1>3, <2>2, <2>3, <2>7, <2>8 DEF ServiceInv, Told, Quiet, NoDeletion
  <2> QED
    BY <2>4, <2>5, <2>6, <2>9 DEF ServiceInv
<1> QED
  BY <1>5, <1>6 DEF Insert

LEMMA CommitDeleteKeepsService ==
    ASSUME TInv, ServiceInv, NEW r \in Requests, CommitDelete(r)
    PROVE  ServiceInv'
<1>a. PICK c0 : c0 = request[r].id
  OBVIOUS
<1> USE <1>a
<1>1. request[r] # None /\ request[r].step = "commit" /\ request[r].op = "delete"
      /\ ~HasNews(r)
  BY DEF CommitDelete, At, HasNews
<1>2. UNCHANGED <<used, raced, lost, topic>>
  BY DEF CommitDelete, busVars, logVars
<1>3. GoesOn(r, "announce")
  BY <1>1, StepGoesOn DEF CommitDelete, Steps
<1>4. c0 \in Candidates
  BY <1>1, CallInFlight DEF Calls
<1>5. table'[c0] = None /\ \A c \in Candidates : c # c0 => table'[c] = table[c]
  BY <1>4 DEF CommitDelete, TInv, TypeOK
<1>6. \A c : (Quiet(c)' <=> Quiet(c)) /\ (NoDeletion(c)' <=> NoDeletion(c))
             /\ (SaidGone(c)' <=> SaidGone(c))
  BY <1>2 DEF Quiet, NoDeletion, SaidGone, About, LastAbout
<1>7. \A c \in Candidates : Unused(c)'
  BY <1>1, <1>2, <1>3, <1>5, <1>6 DEF ServiceInv, Unused, GoesOn
<1>8. InOrder(r)'
  BY <1>1, <1>2, <1>3, <1>5 DEF ServiceInv, InOrder, GoesOn, Alone
<1>9. ASSUME NEW q \in Requests, q # r PROVE InOrder(q)'
  <2> SUFFICES ASSUME request[q] # None PROVE InOrder(q)'
    BY <1>3, <1>9 DEF InOrder, GoesOn
  <2>1. request'[q] = request[q] /\ request[q].id \in Candidates
    BY <1>3, <1>9, CallInFlight DEF GoesOn, Calls
  <2>2. Alone(q) => Alone(q)' /\ request[q].id # c0
    BY <1>1, <1>3, <1>9, <2>1 DEF Alone, GoesOn
  <2> QED
    BY <1>2, <1>5, <1>6, <2>1, <2>2 DEF ServiceInv, InOrder
<1>10. NewsPending(c0)'
  BY <1>1, <1>3 DEF NewsPending, HasNews, GoesOn
<1>11. ASSUME NEW c \in Candidates, NewsPending(c) PROVE NewsPending(c)'
  BY <1>1, <1>3, <1>11 DEF NewsPending, HasNews, GoesOn
<1>12. \A c \in Candidates : Told(c)'
  BY <1>2, <1>5, <1>6, <1>10, <1>11 DEF ServiceInv, Told
<1> QED
  BY <1>7, <1>8, <1>9, <1>12 DEF ServiceInv

LEMMA AnnounceKeepsService ==
    ASSUME TInv, ServiceInv, NEW r \in Requests, Announce(r)
    PROVE  ServiceInv'
<1>a. PICK c0 : c0 = request[r].id
  OBVIOUS
<1>b. PICK new : new = Len(topic) + 1
  OBVIOUS
<1> USE <1>a, <1>b
<1>1. request[r] # None /\ request[r].step = "announce" /\ Answered(r)
  BY AnswerEnds DEF Announce, At
<1>2. UNCHANGED <<table, used, raced>> /\ topic \in Seq(Events) /\ Len(topic) \in Nat
  BY DEF Announce, TInv, TypeOK, BusTypeOK
<1>3. EventOf(r) \in Events /\ publish(EventOf(r)) /\ c0 \in Candidates
  BY <1>1, CallInFlight DEF EventOf, Upserted, Deleted, Events, Calls, Announce
<1>4. CASE ~CanSend
  <2>1. UNCHANGED topic
    BY <1>4 DEF Announce, publish
  <2>2. \/ lost' = lost /\ ~HasNews(r)
        \/ lost' = lost \cup {c0}
    BY <1>4 DEF Announce
  <2> QED
    BY <1>1, <1>2, <2>1, <2>2, QuietStepKeepsService
<1>5. CASE CanSend
  <2>1. lost' = lost \ {c0}
    BY <1>5 DEF Announce
  <2>2. Len(topic') = new /\ topic'[new] = EventOf(r)
        /\ \A i \in 1..Len(topic) : topic'[i] = topic[i]
    BY <1>2, <1>3, <1>5, PublishAppends
  <2>3. About(new, c0)' /\ \A i \in 1..Len(topic) : \A c : About(i, c)' <=> About(i, c)
    BY <2>2 DEF About, EventOf, Upserted, Deleted
  <2>4. \A c : c # c0 => ~About(new, c)'
    BY <2>2 DEF About, EventOf, Upserted, Deleted
  <2>5. ASSUME NEW c, c # c0
        PROVE  (Quiet(c)' <=> Quiet(c)) /\ (NoDeletion(c)' <=> NoDeletion(c))
               /\ (SaidGone(c) => SaidGone(c)')
    <3>1. \A i \in 1..Len(topic) : LastAbout(i, c) => LastAbout(i, c)'
      BY <1>2, <2>2, <2>3, <2>4, <2>5 DEF LastAbout
    <3>2. (Quiet(c)' <=> Quiet(c)) /\ (NoDeletion(c)' <=> NoDeletion(c))
      BY <1>2, <2>2, <2>3, <2>4, <2>5 DEF Quiet, NoDeletion
    <3> QED
      BY <1>2, <2>2, <3>1, <3>2 DEF SaidGone
  <2>6. \A c \in Candidates : Unused(c)'
    <3>1. c0 \in used
      BY <1>1, <1>3 DEF ServiceInv, Unused
    <3> QED
      BY <1>1, <1>2, <2>5, <3>1 DEF ServiceInv, Unused, Answered
  <2>7. ASSUME NEW q \in Requests PROVE InOrder(q)'
    <3> SUFFICES ASSUME request[q] # None, q # r PROVE InOrder(q)'
      BY <1>1 DEF InOrder, Answered
    <3>1. request'[q] = request[q]
      BY <1>1 DEF Answered
    <3>2. Alone(q) => Alone(q)' /\ request[q].id # c0
      BY <1>1, <3>1 DEF Alone, Answered
    <3> QED
      BY <1>2, <2>5, <3>1, <3>2 DEF ServiceInv, InOrder
  <2>8. ASSUME NEW c \in Candidates, c # c0 PROVE Told(c)'
    <3>1. NewsPending(c) => NewsPending(c)'
      BY <1>1, <2>8 DEF NewsPending, HasNews, Answered
    <3> QED
      BY <1>2, <2>1, <2>5, <2>8, <3>1 DEF ServiceInv, Told
  <2>9. Told(c0)'
    <3>1. table[c0] # None => NoDeletion(c0)'
      <4> SUFFICES ASSUME table[c0] # None, NEW i \in 1..new, About(i, c0)'
                   PROVE  topic'[i].type = "candidate.upserted"
        BY <2>2 DEF NoDeletion
      <4>1. request[r].op # "delete"
        BY <1>1 DEF ServiceInv, InOrder
      <4>2. CASE i = new
        BY <2>2, <4>1, <4>2 DEF EventOf, Upserted, Deleted
      <4>3. CASE i # new
        BY <1>2, <1>3, <2>2, <2>3, <4>3 DEF ServiceInv, Told, NoDeletion
      <4> QED
        BY <4>2, <4>3
    <3>2. ~Quiet(c0)'
      BY <1>2, <2>2, <2>3 DEF Quiet
    <3>3. table[c0] = None /\ c0 \notin raced => SaidGone(c0)'
      <4> SUFFICES ASSUME table[c0] = None, c0 \notin raced PROVE SaidGone(c0)'
        OBVIOUS
      <4>1. request[r].op = "delete"
        BY <1>1 DEF ServiceInv, InOrder
      <4>2. topic'[new].type = "candidate.deleted"
        BY <2>2, <4>1 DEF EventOf, Upserted, Deleted
      <4>3. LastAbout(new, c0)'
        BY <1>2, <2>2, <2>3 DEF LastAbout
      <4> QED
        BY <1>2, <2>2, <4>2, <4>3 DEF SaidGone
    <3> QED
      BY <1>2, <3>1, <3>2, <3>3 DEF Told
  <2> QED
    BY <2>6, <2>7, <2>8, <2>9 DEF ServiceInv
<1> QED
  BY <1>4, <1>5

LEMMA ReceiveRegisterKeepsService ==
    ASSUME TInv, ServiceInv, NEW r \in Requests, NEW c \in Candidates, NEW email \in Emails,
           ReceiveRegister(r, c, email)
    PROVE  ServiceInv'
<1> DEFINE call == [op |-> "register", id |-> c, email |-> email, step |-> "lookup"]
<1>1. request[r] = None /\ c \notin used /\ used' = used \cup {c}
      /\ UNCHANGED <<table, raced, lost, topic>>
  BY DEF ReceiveRegister, Receive, busVars, logVars
<1>2. call \in Calls
  BY DEF Calls
<1>3. request'[r] = call /\ \A q \in Requests : q # r => request'[q] = request[q]
  BY DEF ReceiveRegister, Receive, TInv, TypeOK
<1>4. table[c] = None /\ Quiet(c) /\ \A q \in Requests : request[q] # None => request[q].id # c
  BY <1>1 DEF ServiceInv, Unused
<1>5. \A d : (Quiet(d)' <=> Quiet(d)) /\ (NoDeletion(d)' <=> NoDeletion(d))
             /\ (SaidGone(d)' <=> SaidGone(d))
  BY <1>1 DEF Quiet, NoDeletion, SaidGone, About, LastAbout
<1>6. \A d \in Candidates : Unused(d)'
  BY <1>1, <1>3, <1>5 DEF ServiceInv, Unused
<1>7. InOrder(r)'
  BY <1>1, <1>3, <1>4, <1>5, NoneAssumption DEF InOrder, Alone
<1>8. ASSUME NEW q \in Requests, q # r PROVE InOrder(q)'
  <2> SUFFICES ASSUME request[q] # None PROVE InOrder(q)'
    BY <1>3, <1>8 DEF InOrder
  <2>1. request'[q] = request[q] /\ request[q].id # c
    BY <1>3, <1>4, <1>8
  <2>2. Alone(q) => Alone(q)'
    BY <1>3, <2>1 DEF Alone
  <2> QED
    BY <1>1, <1>5, <2>1, <2>2 DEF ServiceInv, InOrder
<1>9. ASSUME NEW d \in Candidates PROVE Told(d)'
  <2>1. NewsPending(d) => NewsPending(d)'
    BY <1>1, <1>3 DEF NewsPending, HasNews
  <2> QED
    BY <1>1, <1>5, <2>1 DEF ServiceInv, Told
<1> QED
  BY <1>6, <1>7, <1>8, <1>9 DEF ServiceInv

LEMMA ReceiveCallKeepsService ==
    ASSUME TInv, ServiceInv, NEW r \in Requests, NEW c \in Candidates,
           NEW op \in {"update", "delete", "profile"}, ReceiveCall(r, c, op)
    PROVE  ServiceInv'
<1> DEFINE call == [op |-> op, id |-> c, email |-> None, step |-> "load"]
<1>1. request[r] = None /\ table[c] # None
      /\ UNCHANGED <<table, used, lost, topic>> /\ raced \subseteq raced'
  BY DEF ReceiveCall, Receive, busVars, logVars
<1>2. call \in Calls
  BY DEF Calls
<1>3. request'[r] = call /\ \A q \in Requests : q # r => request'[q] = request[q]
  BY DEF ReceiveCall, Receive, TInv, TypeOK
<1>4. c \notin raced' => \A q \in Requests : request[q] # None => request[q].id # c
  BY DEF ReceiveCall, InFlight
<1>5. \A d : (Quiet(d)' <=> Quiet(d)) /\ (NoDeletion(d)' <=> NoDeletion(d))
             /\ (SaidGone(d)' <=> SaidGone(d))
  BY <1>1 DEF Quiet, NoDeletion, SaidGone, About, LastAbout
<1>6. \A d \in Candidates : Unused(d)'
  BY <1>1, <1>3, <1>5 DEF ServiceInv, Unused
<1>7. InOrder(r)'
  BY <1>3, <1>4 DEF InOrder, Alone
<1>8. ASSUME NEW q \in Requests, q # r PROVE InOrder(q)'
  <2> SUFFICES ASSUME request[q] # None PROVE InOrder(q)'
    BY <1>3, <1>8 DEF InOrder
  <2>1. request'[q] = request[q]
    BY <1>3, <1>8
  <2>2. Alone(q) /\ request[q].id # c => Alone(q)'
    BY <1>3, <2>1 DEF Alone
  <2> QED
    BY <1>1, <1>4, <1>5, <2>1, <2>2 DEF ServiceInv, InOrder
<1>9. ASSUME NEW d \in Candidates PROVE Told(d)'
  <2>1. NewsPending(d) => NewsPending(d)'
    BY <1>1, <1>3 DEF NewsPending, HasNews
  <2> QED
    BY <1>1, <1>5, <2>1 DEF ServiceInv, Told
<1> QED
  BY <1>6, <1>7, <1>8, <1>9 DEF ServiceInv

LEMMA RestartKeepsService ==
    ASSUME TInv, ServiceInv, Restart
    PROVE  ServiceInv'
<1>1. UNCHANGED <<table, used, raced, topic>> /\ \A r \in Requests : request'[r] = None
  BY DEF Restart
<1>2. \A c : (Quiet(c)' <=> Quiet(c)) /\ (NoDeletion(c)' <=> NoDeletion(c))
             /\ (SaidGone(c)' <=> SaidGone(c))
  BY <1>1 DEF Quiet, NoDeletion, SaidGone, About, LastAbout
<1>3. \A c : c \in lost \/ NewsPending(c) => c \in lost'
  BY DEF Restart, NewsPending
<1> QED
  BY <1>1, <1>2, <1>3 DEF ServiceInv, Unused, InOrder, Told

LEMMA ElsewhereKeepsService ==
    ASSUME ServiceInv, UNCHANGED <<table, used, request, lost, raced, topic>>
    PROVE  ServiceInv'
<1>1. \A c : (Quiet(c)' <=> Quiet(c)) /\ (NoDeletion(c)' <=> NoDeletion(c))
             /\ (SaidGone(c)' <=> SaidGone(c)) /\ (NewsPending(c)' <=> NewsPending(c))
  BY DEF Quiet, NoDeletion, SaidGone, About, LastAbout, NewsPending, HasNews
<1> QED
  BY <1>1 DEF ServiceInv, Unused, InOrder, Told, Alone

LEMMA ServiceInvStep ==
    ASSUME TInv, ServiceInv, [Next]_vars
    PROVE  ServiceInv'
<1>1. ASSUME NEW r \in Requests, Request(r)
      PROVE  ServiceInv'
  BY <1>1, LookUpKeepsService, InsertKeepsService, LoadKeepsService,
     CreateProfileKeepsService, CommitUpdateKeepsService,
     CommitDeleteKeepsService, RefreshKeepsService, AnnounceKeepsService,
     DatabaseFailsKeepsService DEF Request
<1>2. CASE Bus /\ UNCHANGED <<table, profiles, used, request, refs, lost, raced>>
  <2>1. UNCHANGED topic
    BY <1>2 DEF Bus, Outage, Recovery, Connect, Read, AutoCommit, HandlerFails, LeaveLoop,
                logVars
  <2> QED
    BY <1>2, <2>1, ElsewhereKeepsService
<1>3. CASE handle_event
  BY <1>3, ElsewhereKeepsService DEF handle_event, Handled, logVars
<1>4. CASE UNCHANGED vars
  BY <1>4, ElsewhereKeepsService DEF vars, busVars, logVars
<1> QED
  BY <1>1, <1>2, <1>3, <1>4, ReceiveRegisterKeepsService, ReceiveCallKeepsService,
     RestartKeepsService DEF Next

-----------------------------------------------------------------------------
(* What the applications service knows.                                    *)

IInv == TInv /\ RefsInv /\ ServiceInv

\* The reader's half and the service's half of the invariant hold throughout.
THEOREM SyncInvariant == Spec => []IInv
<1>1. Init => IInv
  BY TInvInit, RefsInvInit, ServiceInvInit DEF IInv
<1>2. IInv /\ [Next]_vars => IInv'
  BY TInvStep, RefsInvStep, ServiceInvStep DEF IInv
<1> QED
  BY <1>1, <1>2, PTL DEF Spec

\* Once things settle there is nothing left to tell, and all of the topic was
\* handled.
LEMMA WhenSettled ==
    ASSUME IInv, NEW c \in Candidates, Settled(c)
    PROVE  /\ c \notin lost /\ ~NewsPending(c)
           /\ done = Len(topic)
           /\ \A i \in 1..Len(topic) : About(i, c) => i \notin skipped
BY DEF Settled, CaughtUp, done, NewsPending, HasNews, InFlight

\* Whatever overlaps or breaks off, the applications service knows a registered
\* candidate once things settle, unless its news was lost on the way.
THEOREM RegisteredBecomesKnown == Spec => []RegisteredIsKnown
<1>1. IInv => RegisteredIsKnown
  <2> SUFFICES ASSUME IInv, NEW c \in Candidates, Settled(c), table[c] # None
               PROVE  c \in refs
    BY DEF RegisteredIsKnown
  <2>1. NoDeletion(c) /\ ~Quiet(c)
    BY WhenSettled DEF IInv, ServiceInv, Told
  <2>2. PICK i \in 1..Len(topic) : About(i, c)
    BY <2>1 DEF Quiet
  <2>3. i \in 1..done /\ i \notin skipped
    BY <2>2, WhenSettled
  <2> QED
    BY <2>1, <2>2, <2>3 DEF IInv, RefsInv, Learned
<1> QED
  BY <1>1, SyncInvariant, PTL

\* It has forgotten a deleted one on whom no two requests overlapped.
THEOREM DeletedBecomesForgotten == Spec => []DeletedIsForgotten
<1>1. IInv => DeletedIsForgotten
  <2> SUFFICES ASSUME IInv, NEW c \in Candidates, Settled(c), c \notin raced,
                      table[c] = None, c \in refs
               PROVE  FALSE
    BY DEF DeletedIsForgotten
  <2>1. ~Quiet(c)
    BY DEF IInv, RefsInv, Reflected, Quiet
  <2>2. SaidGone(c)
    BY WhenSettled DEF IInv, ServiceInv, Told
  <2>3. PICK i \in 1..Len(topic) : LastAbout(i, c) /\ topic[i].type = "candidate.deleted"
    BY <2>1, <2>2 DEF SaidGone
  <2>4. i \in 1..done /\ i \notin skipped
    BY <2>3, WhenSettled DEF LastAbout
  <2> QED
    BY <2>3, <2>4 DEF IInv, RefsInv, Reflected
<1> QED
  BY <1>1, SyncInvariant, PTL

-----------------------------------------------------------------------------
(* Profiles.                                                               *)

\* A registration inserts a candidate whose id was nowhere, so no profile waits
\* for it; the constraints see to the rest.
LEMMA OneProfileStep ==
    ASSUME IInv, OneProfile, [Next]_vars
    PROVE  OneProfile'
<1>1. CASE UNCHANGED <<table, profiles>>
  BY <1>1 DEF OneProfile
<1>2. ASSUME NEW r \in Requests, Insert(r), table' = [table EXCEPT ![request[r].id] = request[r].email],
             request[r] # None, request[r].step = "insert"
      PROVE  OneProfile'
  <2>1. request[r].email # None
    BY <1>2 DEF IInv, ServiceInv, InOrder
  <2>2. request[r].id \in Candidates
    BY <1>2, CallInFlight DEF IInv, Calls
  <2>3. \A c \in Candidates : table'[c] = None => table[c] = None
    BY <1>2, <2>1, <2>2 DEF IInv, TInv, TypeOK
  <2> QED
    BY <1>2, <2>3 DEF OneProfile, Insert, IInv, TInv, TypeOK
<1>3. ASSUME NEW r \in Requests, CreateProfile(r), request[r] # None
      PROVE  OneProfile'
  <2>1. request[r].id \in Candidates
    BY <1>3, CallInFlight DEF IInv, Calls
  <2> QED
    BY <1>3, <2>1 DEF OneProfile, CreateProfile, MayHaveProfile, IInv, TInv, TypeOK
<1>4. ASSUME NEW r \in Requests, CommitDelete(r), request[r] # None
      PROVE  OneProfile'
  <2>1. request[r].id \in Candidates
    BY <1>4, CallInFlight DEF IInv, Calls
  <2> QED
    BY <1>4, <2>1 DEF OneProfile, CommitDelete, IInv, TInv, TypeOK
<1>5. ASSUME NEW r \in Requests, Request(r)
      PROVE  OneProfile'
  <2>1. request[r] # None
    BY <1>5, RequestKeepsType DEF IInv
  <2>2. CASE \/ LookUp(r) \/ Load(r) \/ CommitUpdate(r) \/ Refresh(r) \/ Announce(r)
             \/ DatabaseFails(r)
    BY <1>1, <2>2 DEF LookUp, Load, CommitUpdate, Refresh, Announce, DatabaseFails, readOnly
  <2>3. CASE Insert(r)
    BY <1>1, <1>2, <2>1, <2>3 DEF Insert, At
  <2> QED
    BY <1>3, <1>4, <1>5, <2>1, <2>2, <2>3 DEF Request
<1>6. CASE UNCHANGED vars
  BY <1>1, <1>6 DEF vars
<1>7. CASE Restart \/ handle_event
  BY <1>1, <1>7 DEF Restart, handle_event
<1>8. ASSUME NEW r \in Requests, NEW c \in Candidates,
             \/ \E email \in Emails : ReceiveRegister(r, c, email)
             \/ \E op \in {"update", "delete", "profile"} : ReceiveCall(r, c, op)
      PROVE  OneProfile'
  BY <1>1, <1>8 DEF ReceiveRegister, ReceiveCall, Receive
<1> QED
  BY <1>1, <1>5, <1>6, <1>7, <1>8 DEF Next

\* However upserts and deletions overlap, a candidate has at most one profile,
\* and a profile has its candidate.
THEOREM ProfilesAreOneToOne == Spec => []OneProfile
<1>1. Init => OneProfile
  BY DEF Init, OneProfile
<1>2. IInv /\ OneProfile /\ [Next]_vars => OneProfile'
  BY OneProfileStep
<1> QED
  BY <1>1, <1>2, SyncInvariant, PTL DEF Spec

=============================================================================
