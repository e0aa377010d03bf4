------------------------- MODULE RateLimiterProofs -------------------------
(***************************************************************************)
(* What holds of RateLimiter for any limit, any number of callers and any  *)
(* number of requests in flight.  The inductive invariant ties a counter   *)
(* to the requests that have yet to reach it, and the life of a key to     *)
(* what is left of its minute.                                             *)
(***************************************************************************)
EXTENDS RateLimiter, FiniteSetTheorems, TLAPS

\* The requests that have yet to count themselves under k.
Waits(req, k) ==
    {r \in Requests : req[r] # None /\ req[r].step = "incr" /\ req[r].key = k}

KeysAreOld == \A r \in Requests : request[r] # None => request[r].key[2] <= window

FutureIsEmpty == \A k \in Keys : k[2] > window => count[k] = 0 /\ ttl[k] = None

\* A key lives as long as its minute.
LivesItsMinute ==
    \A k \in Keys : k[2] = window /\ ttl[k] # None => ttl[k] >= WindowTicks - ticks

AdmittedAreCounted == \A k \in Keys : k[2] >= window => admitted[k] <= count[k]

CountedArrived ==
    \A k \in Keys : count[k] + Cardinality(Waits(request, k)) <= arrived[k]

LateWereInFlight ==
    \A k \in Keys :
        /\ k[2] >= window => late[k] = 0
        /\ k[2] < window =>
              late[k] + Cardinality(Waits(request, k)) <= Cardinality(Requests)

WithinBounds == \A k \in Keys : admitted[k] <= Limit

IInv ==
    /\ TypeOK /\ KeysAreOld /\ FutureIsEmpty /\ LivesItsMinute /\ AdmittedAreCounted
    /\ CountedArrived /\ LateWereInFlight /\ WithinBounds /\ RefusalsAreEarned

-----------------------------------------------------------------------------

LEMMA KeyFacts ==
  /\ \A k \in Keys : k[2] \in Nat /\ k[2] \in 0..MaxWindow
  /\ \A c \in Callers, w \in 0..MaxWindow : <<c, w>> \in Keys /\ <<c, w>>[2] = w
  BY BoundsAssumption DEF Keys

LEMMA WaitsFinite ==
  ASSUME NEW req, NEW k
  PROVE  /\ IsFiniteSet(Waits(req, k))
         /\ Cardinality(Waits(req, k)) \in Nat
         /\ Cardinality(Waits(req, k)) <= Cardinality(Requests)
         /\ Cardinality(Requests) \in Nat
<1>1. Waits(req, k) \subseteq Requests
  BY DEF Waits
<1> QED
  BY <1>1, RequestsAssumption, FS_Subset, FS_CardinalityType

\* Requests that left, or went on, no longer wait.
LEMMA WaitsFewer ==
  ASSUME NEW req, NEW new, NEW k,
         \A r \in Requests : new[r] = req[r] \/ new[r] = None \/ new[r].step # "incr"
  PROVE  Cardinality(Waits(new, k)) <= Cardinality(Waits(req, k))
<1>1. Waits(new, k) \subseteq Waits(req, k)
  BY DEF Waits
<1> QED
  BY <1>1, WaitsFinite, FS_Subset

LEMMA InitIInv == Init => IInv
<1> SUFFICES ASSUME Init PROVE IInv
  OBVIOUS
<1>1. TypeOK
  BY TicksAssumption, BoundsAssumption DEF Init, TypeOK
<1>2. ASSUME NEW k \in Keys PROVE Cardinality(Waits(request, k)) = 0
  <2>1. Waits(request, k) = {}
    BY DEF Init, Waits
  <2> QED
    BY <2>1, FS_EmptySet
<1>3. CountedArrived
  BY <1>2 DEF Init, CountedArrived
<1>4. LateWereInFlight
  BY <1>2, RequestsAssumption, FS_CardinalityType DEF Init, LateWereInFlight
<1> QED
  BY <1>1, <1>3, <1>4, LimitAssumption DEF Init, IInv, KeysAreOld, FutureIsEmpty, LivesItsMinute,
     AdmittedAreCounted, WithinBounds, RefusalsAreEarned

-----------------------------------------------------------------------------
(* Types.                                                                  *)

LEMMA NextType == TypeOK /\ [Next]_vars => TypeOK'
<1> SUFFICES ASSUME TypeOK, [Next]_vars PROVE TypeOK'
  OBVIOUS
<1> USE DEF clock, redis, history, vars
<1>1. ASSUME NEW r \in Requests, NEW c \in Callers, Arrive(r, c) PROVE TypeOK'
  <2>1. KeyOf(c) \in Keys
    BY KeyFacts DEF KeyOf, TypeOK
  <2>2. [key |-> KeyOf(c), step |-> "incr"] \in InFlight
    BY <2>1 DEF InFlight
  <2>3. request' \in [Requests -> InFlight \cup {None}]
    BY <1>1, <2>2 DEF Arrive, TypeOK
  <2>4. arrived' \in [Keys -> Nat]
    BY <1>1, KeyFacts DEF Arrive, TypeOK
  <2> QED
    BY <1>1, <2>3, <2>4 DEF Arrive, TypeOK
<1>2. ASSUME NEW r \in Requests, Incr(r) PROVE TypeOK'
  <2>1. request[r] \in InFlight /\ request[r].key \in Keys
    BY <1>2, NoneAssumption DEF Incr, At, TypeOK, InFlight
  <2>2. [request[r] EXCEPT !.step = "expire"] \in InFlight
    BY <2>1 DEF InFlight
  <2>3. request' \in [Requests -> InFlight \cup {None}]
    BY <1>2, <2>2 DEF Incr, Leave, TypeOK
  <2>4. count' \in [Keys -> Nat]
    BY <1>2, <2>1 DEF Incr, TypeOK
  <2>5. admitted' \in [Keys -> Nat] /\ late' \in [Keys -> Nat] /\ refused' \subseteq Keys
    BY <1>2, <2>1 DEF Incr, Record, TypeOK
  <2> QED
    BY <1>2, <2>3, <2>4, <2>5 DEF Incr, Record, TypeOK
<1>3. ASSUME NEW k \in Keys, SetLife(k)
      PROVE ttl' \in [Keys -> 1..WindowTicks \cup {None}]
  BY <1>3, TicksAssumption DEF SetLife, Life, TypeOK
<1>4. ASSUME NEW r \in Requests, Leave(r)
      PROVE request' \in [Requests -> InFlight \cup {None}]
  BY <1>4 DEF Leave, TypeOK
<1>5. ASSUME NEW r \in Requests, request[r] # None PROVE request[r].key \in Keys
  BY <1>5 DEF TypeOK, InFlight
<1>6. ASSUME NEW r \in Requests, Expire(r) PROVE TypeOK'
  BY <1>3, <1>4, <1>5, <1>6 DEF Expire, At, TypeOK
<1>7. ASSUME NEW r \in Requests, FailOpen(r) PROVE TypeOK'
  BY <1>4, <1>7 DEF FailOpen, TypeOK
<1>8. ASSUME Fault PROVE faults' \in 0..MaxFaults
  BY <1>8, BoundsAssumption DEF Fault, TypeOK
<1>9. ASSUME NEW r \in Requests, AnswerLost(r) PROVE TypeOK'
  <2>1. count' \in [Keys -> Nat]
    BY <1>5, <1>9 DEF AnswerLost, At, TypeOK
  <2>2. ttl' \in [Keys -> 1..WindowTicks \cup {None}]
    BY <1>3, <1>5, <1>9 DEF AnswerLost, At, TypeOK
  <2> QED
    BY <1>4, <1>8, <1>9, <2>1, <2>2 DEF AnswerLost, TypeOK
<1>10. CASE Stop
  BY <1>8, <1>10 DEF Stop, TypeOK
<1>11. CASE Return
  BY <1>11 DEF Return, TypeOK
<1>12. CASE Restart
  BY <1>8, <1>12 DEF Restart, TypeOK
<1>13. CASE Tick
  <2>1. window' \in 0..MaxWindow /\ ticks' \in 0..(WindowTicks - 1)
    BY <1>13, TicksAssumption, BoundsAssumption DEF Tick, TypeOK
  <2>2. ttl' \in [Keys -> 1..WindowTicks \cup {None}]
    BY <1>13, TicksAssumption DEF Tick, TypeOK
  <2>3. count' \in [Keys -> Nat]
    BY <1>13 DEF Tick, TypeOK
  <2> QED
    BY <1>13, <2>1, <2>2, <2>3 DEF Tick, TypeOK
<1>14. CASE UNCHANGED vars
  BY <1>14 DEF TypeOK
<1> QED
  BY <1>1, <1>2, <1>6, <1>7, <1>9, <1>10, <1>11, <1>12, <1>13, <1>14 DEF Next

-----------------------------------------------------------------------------
(* Counters and requests.                                                  *)

\* Steps after which no request waits that did not wait before, and a key is
\* as it was, expires later, or was lost.
Quiet ==
    /\ UNCHANGED <<window, ticks, arrived, late, refused>>
    /\ \A r \in Requests :
          request'[r] = request[r] \/ request'[r] = None
    /\ \A k \in Keys :
          /\ \/ count'[k] = count[k] /\ admitted'[k] = admitted[k]
             \/ count'[k] = 0 /\ admitted'[k] = 0
          /\ \/ ttl'[k] \in {ttl[k], None}
             \/ ttl'[k] = WindowTicks /\ count[k] > 0

LEMMA LeaveIsQuiet ==
  ASSUME TypeOK, NEW r \in Requests, Leave(r)
  PROVE  \A q \in Requests : request'[q] = request[q] \/ request'[q] = None
  BY DEF Leave, TypeOK

LEMMA SetLifeIsQuiet ==
  ASSUME TypeOK, NEW j \in Keys, SetLife(j), NEW k \in Keys
  PROVE  ttl'[k] \in {ttl[k], None} \/ (ttl'[k] = WindowTicks /\ count[k] > 0)
  BY DEF SetLife, Life, TypeOK

LEMMA NextCases ==
  ASSUME TypeOK, [Next]_vars
  PROVE  \/ Quiet
         \/ \E r \in Requests :
               \/ \E c \in Callers : Arrive(r, c)
               \/ Incr(r)
               \/ At(r, "incr") /\ AnswerLost(r)
         \/ Tick
<1> USE DEF clock, redis, history, vars
<1>1. ASSUME NEW r \in Requests, request[r] # None PROVE request[r].key \in Keys
  BY <1>1 DEF TypeOK, InFlight
<1>2. ASSUME NEW r \in Requests, Expire(r) PROVE Quiet
  BY <1>1, <1>2, LeaveIsQuiet, SetLifeIsQuiet DEF Expire, At, Quiet
<1>3. ASSUME NEW r \in Requests, FailOpen(r) PROVE Quiet
  BY <1>3, LeaveIsQuiet DEF FailOpen, Quiet
<1>4. ASSUME NEW r \in Requests, AnswerLost(r), ~At(r, "incr") PROVE Quiet
  BY <1>1, <1>4, LeaveIsQuiet, SetLifeIsQuiet DEF AnswerLost, At, Quiet
<1>5. CASE Stop
  BY <1>5 DEF Stop, Quiet
<1>6. CASE Return
  BY <1>6 DEF Return, Quiet
<1>7. CASE Restart
  BY <1>7 DEF Restart, Quiet
<1>8. CASE UNCHANGED vars
  BY <1>8 DEF Quiet
<1> QED
  BY <1>2, <1>3, <1>4, <1>5, <1>6, <1>7, <1>8 DEF Next

LEMMA QuietKeeps ==
  ASSUME IInv, TypeOK', Quiet
  PROVE  IInv'
<1>1. TypeOK
  BY DEF IInv
<1>2. ASSUME NEW k \in Keys
      PROVE /\ Cardinality(Waits(request', k)) <= Cardinality(Waits(request, k))
            /\ Cardinality(Waits(request', k)) \in Nat /\ Cardinality(Waits(request, k)) \in Nat
            /\ Cardinality(Requests) \in Nat
  <2>1. \A r \in Requests : \/ request'[r] = request[r] \/ request'[r] = None
                            \/ request'[r].step # "incr"
    BY DEF Quiet
  <2> QED
    BY <2>1, WaitsFewer, WaitsFinite
<1>3. KeysAreOld' /\ FutureIsEmpty'
  BY DEF Quiet, IInv, KeysAreOld, FutureIsEmpty
<1>4. LivesItsMinute'
  <2> SUFFICES ASSUME NEW k \in Keys, k[2] = window, ttl'[k] # None
               PROVE  ttl'[k] >= WindowTicks - ticks
    BY DEF Quiet, LivesItsMinute
  <2>1. ttl'[k] = ttl[k] \/ ttl'[k] = WindowTicks
    BY DEF Quiet
  <2> QED
    BY <1>1, <2>1, TicksAssumption DEF IInv, LivesItsMinute, TypeOK
<1>5. AdmittedAreCounted'
  BY DEF Quiet, IInv, AdmittedAreCounted
<1>6. CountedArrived'
  <2> SUFFICES ASSUME NEW k \in Keys
               PROVE  count'[k] + Cardinality(Waits(request', k)) <= arrived[k]
    BY DEF Quiet, CountedArrived
  <2>1. count'[k] <= count[k] /\ count'[k] \in Nat /\ count[k] \in Nat /\ arrived[k] \in Nat
    BY <1>1 DEF Quiet, TypeOK
  <2> QED
    BY <1>2, <2>1 DEF IInv, CountedArrived
<1>7. LateWereInFlight'
  <2> SUFFICES ASSUME NEW k \in Keys
               PROVE  /\ k[2] >= window => late[k] = 0
                      /\ k[2] < window => late[k] + Cardinality(Waits(request', k))
                                            <= Cardinality(Requests)
    BY DEF Quiet, LateWereInFlight
  <2>1. late[k] \in Nat
    BY <1>1 DEF TypeOK
  <2> QED
    BY <1>2, <2>1 DEF IInv, LateWereInFlight
<1>8. WithinBounds' /\ RefusalsAreEarned'
  BY LimitAssumption DEF Quiet, IInv, WithinBounds, RefusalsAreEarned, TypeOK
<1> QED
  BY <1>3, <1>4, <1>5, <1>6, <1>7, <1>8 DEF IInv

LEMMA ArriveKeeps ==
  ASSUME IInv, TypeOK', NEW r \in Requests, NEW c \in Callers, Arrive(r, c)
  PROVE  IInv'
<1> USE DEF clock, redis, history
<1> DEFINE key == <<c, window>>
<1>1. TypeOK /\ key \in Keys /\ key[2] = window /\ window \in Nat
  BY KeyFacts, BoundsAssumption DEF IInv, TypeOK
<1>2. request' = [request EXCEPT ![r] = [key |-> key, step |-> "incr"]] /\ request[r] = None
  BY DEF Arrive, KeyOf
<1>3. ASSUME NEW k \in Keys
      PROVE Waits(request', k) = IF k = key THEN Waits(request, k) \cup {r} ELSE Waits(request, k)
  BY <1>1, <1>2, NoneAssumption DEF Waits, TypeOK, InFlight
<1>4. r \notin Waits(request, key)
  BY <1>2 DEF Waits
<1>5. ASSUME NEW k \in Keys
      PROVE /\ Cardinality(Waits(request', k)) =
                  Cardinality(Waits(request, k)) + (IF k = key THEN 1 ELSE 0)
            /\ Cardinality(Waits(request, k)) \in Nat
  BY <1>3, <1>4, WaitsFinite, FS_AddElement
<1>6. KeysAreOld'
  BY <1>1, <1>2 DEF Arrive, IInv, KeysAreOld, TypeOK
<1>7. FutureIsEmpty' /\ LivesItsMinute' /\ AdmittedAreCounted' /\ WithinBounds'
  BY DEF Arrive, IInv, FutureIsEmpty, LivesItsMinute, AdmittedAreCounted, WithinBounds
<1>8. ASSUME NEW k \in Keys
      PROVE arrived'[k] = arrived[k] + (IF k = key THEN 1 ELSE 0) /\ arrived[k] \in Nat
  BY <1>1 DEF Arrive, TypeOK
<1>9. CountedArrived'
  <2> SUFFICES ASSUME NEW k \in Keys
               PROVE  count[k] + Cardinality(Waits(request', k)) <= arrived'[k]
    BY DEF Arrive, CountedArrived
  <2>1. count[k] \in Nat
    BY <1>1 DEF TypeOK
  <2> QED
    BY <1>5, <1>8, <2>1 DEF IInv, CountedArrived
<1>10. LateWereInFlight'
  <2> SUFFICES ASSUME NEW k \in Keys
               PROVE  /\ k[2] >= window => late[k] = 0
                      /\ k[2] < window => late[k] + Cardinality(Waits(request', k))
                                            <= Cardinality(Requests)
    BY DEF Arrive, LateWereInFlight
  <2>1. k[2] < window => k # key
    BY <1>1
  <2> QED
    BY <1>3, <2>1 DEF IInv, LateWereInFlight
<1>11. RefusalsAreEarned'
  BY <1>1, <1>8, LimitAssumption DEF Arrive, IInv, RefusalsAreEarned, TypeOK
<1> QED
  BY <1>6, <1>7, <1>9, <1>10, <1>11 DEF IInv

\* A request that has counted itself no longer waits.
LEMMA WaitsOneLess ==
  ASSUME TypeOK, NEW r \in Requests, At(r, "incr"),
         \A q \in Requests \ {r} : request'[q] = request[q],
         request'[r] = None \/ request'[r].step # "incr",
         NEW k \in Keys
  PROVE  /\ Cardinality(Waits(request', k)) =
               Cardinality(Waits(request, k)) - (IF k = request[r].key THEN 1 ELSE 0)
         /\ Cardinality(Waits(request, k)) \in Nat
         /\ Cardinality(Waits(request', k)) \in Nat
<1>1. Waits(request', k) = Waits(request, k) \ {r}
  BY DEF Waits
<1>2. r \in Waits(request, k) <=> k = request[r].key
  BY DEF Waits, At
<1>3. /\ Cardinality(Waits(request, k) \ {r}) =
            IF r \in Waits(request, k) THEN Cardinality(Waits(request, k)) - 1
                                      ELSE Cardinality(Waits(request, k))
      /\ Cardinality(Waits(request, k)) \in Nat
      /\ Cardinality(Waits(request', k)) \in Nat
  BY WaitsFinite, FS_RemoveElement
<1> QED
  BY <1>1, <1>2, <1>3

LEMMA AnswerLostKeeps ==
  ASSUME IInv, TypeOK', NEW r \in Requests, At(r, "incr"), AnswerLost(r)
  PROVE  IInv'
<1> USE DEF clock, redis, history
<1> DEFINE key == request[r].key
<1>1. TypeOK /\ key \in Keys /\ key[2] \in Nat /\ key[2] <= window /\ window \in Nat
  BY KeyFacts, BoundsAssumption DEF IInv, TypeOK, KeysAreOld, At, InFlight
<1>2. ASSUME NEW k \in Keys
      PROVE count'[k] = count[k] + (IF k = key THEN 1 ELSE 0) /\ count[k] \in Nat
  BY <1>1 DEF AnswerLost, At, TypeOK
<1>3. /\ UNCHANGED ttl
      /\ request' = [request EXCEPT ![r] = None]
  BY DEF AnswerLost, At, Leave
<1>4. ASSUME NEW k \in Keys
      PROVE /\ Cardinality(Waits(request', k)) =
                  Cardinality(Waits(request, k)) - (IF k = key THEN 1 ELSE 0)
            /\ Cardinality(Waits(request, k)) \in Nat
            /\ Cardinality(Waits(request', k)) \in Nat
  BY <1>1, <1>3, WaitsOneLess DEF TypeOK
<1>5. KeysAreOld'
  BY <1>1, <1>3 DEF AnswerLost, IInv, KeysAreOld, TypeOK
<1>6. FutureIsEmpty'
  BY <1>1, <1>2, <1>3 DEF AnswerLost, IInv, FutureIsEmpty
<1>7. LivesItsMinute' /\ WithinBounds' /\ RefusalsAreEarned'
  BY <1>3 DEF AnswerLost, IInv, LivesItsMinute, WithinBounds, RefusalsAreEarned
<1>8. AdmittedAreCounted'
  BY <1>1, <1>2 DEF AnswerLost, IInv, AdmittedAreCounted, TypeOK
<1>9. CountedArrived'
  BY <1>1, <1>2, <1>4 DEF AnswerLost, IInv, CountedArrived, TypeOK
<1>10. LateWereInFlight'
  <2> SUFFICES ASSUME NEW k \in Keys
               PROVE  /\ k[2] >= window => late[k] = 0
                      /\ k[2] < window => late[k] + Cardinality(Waits(request', k))
                                            <= Cardinality(Requests)
    BY DEF AnswerLost, LateWereInFlight
  <2>1. late[k] \in Nat /\ Cardinality(Requests) \in Nat
    BY <1>1, WaitsFinite DEF TypeOK
  <2> QED
    BY <1>4, <2>1 DEF IInv, LateWereInFlight
<1> QED
  BY <1>5, <1>6, <1>7, <1>8, <1>9, <1>10 DEF IInv

LEMMA IncrKeeps ==
  ASSUME IInv, TypeOK', NEW r \in Requests, Incr(r)
  PROVE  IInv'
<1> USE DEF clock, redis, history
<1> DEFINE key == request[r].key
<1> DEFINE n == count[key] + 1
<1>1. /\ TypeOK /\ At(r, "incr") /\ request[r] \in InFlight
      /\ key \in Keys /\ key[2] \in Nat /\ key[2] <= window /\ window \in Nat
  BY KeyFacts, BoundsAssumption, NoneAssumption DEF IInv, TypeOK, KeysAreOld, At, InFlight, Incr
<1>2. ASSUME NEW k \in Keys
      PROVE /\ count'[k] = count[k] + (IF k = key THEN 1 ELSE 0) /\ count[k] \in Nat
            /\ arrived[k] \in Nat /\ admitted[k] \in Nat /\ late[k] \in Nat
  BY <1>1 DEF Incr, TypeOK
<1>3. /\ \A q \in Requests \ {r} : request'[q] = request[q]
      /\ request'[r] = None \/ (request'[r].step = "expire" /\ request'[r].key = key)
  BY <1>1 DEF Incr, Leave, TypeOK, InFlight
<1>4. ASSUME NEW k \in Keys
      PROVE /\ Cardinality(Waits(request', k)) =
                  Cardinality(Waits(request, k)) - (IF k = key THEN 1 ELSE 0)
            /\ Cardinality(Waits(request, k)) \in Nat
            /\ Cardinality(Waits(request', k)) \in Nat
  BY <1>1, <1>3, WaitsOneLess
<1>5. /\ UNCHANGED <<clock, ttl, arrived>>
      /\ admitted' = IF n <= Limit /\ key[2] = window
                      THEN [admitted EXCEPT ![key] = @ + 1] ELSE admitted
      /\ late' = IF n <= Limit /\ key[2] # window THEN [late EXCEPT ![key] = @ + 1] ELSE late
      /\ refused' = IF n <= Limit THEN refused ELSE refused \cup {key}
  BY DEF Incr, Record, WithinLimit
<1> HIDE DEF key
<1>6. KeysAreOld'
  BY <1>1, <1>3, <1>5 DEF IInv, KeysAreOld
<1>7. FutureIsEmpty'
  BY <1>1, <1>2, <1>5 DEF IInv, FutureIsEmpty
<1>8. LivesItsMinute'
  BY <1>5 DEF IInv, LivesItsMinute
<1>9. AdmittedAreCounted' /\ WithinBounds'
  <2> SUFFICES ASSUME NEW k \in Keys
               PROVE  /\ k[2] >= window => admitted'[k] <= count'[k]
                      /\ admitted'[k] <= Limit
    BY <1>5 DEF AdmittedAreCounted, WithinBounds
  <2>1. /\ k[2] >= window => admitted[k] <= count[k]
        /\ admitted[k] <= Limit
    BY DEF IInv, AdmittedAreCounted, WithinBounds
  <2>2. CASE n <= Limit /\ key[2] = window /\ k = key
    <3>1. admitted'[k] = admitted[k] + 1
      BY <1>1, <1>5, <2>2 DEF TypeOK
    <3> QED
      BY <1>1, <1>2, <2>1, <2>2, <3>1, LimitAssumption
  <2>3. CASE ~(n <= Limit /\ key[2] = window /\ k = key)
    <3>1. admitted'[k] = admitted[k]
      BY <1>1, <1>5, <2>3 DEF TypeOK
    <3> QED
      BY <1>2, <2>1, <3>1, LimitAssumption
  <2> QED
    BY <2>2, <2>3
<1>10. CountedArrived'
  <2> SUFFICES ASSUME NEW k \in Keys
               PROVE  count'[k] + Cardinality(Waits(request', k)) <= arrived[k]
    BY <1>5 DEF CountedArrived
  <2>1. count[k] + Cardinality(Waits(request, k)) <= arrived[k]
    BY DEF IInv, CountedArrived
  <2> QED
    BY <1>2, <1>4, <2>1
<1>11. LateWereInFlight'
  <2> SUFFICES ASSUME NEW k \in Keys
               PROVE  /\ k[2] >= window => late'[k] = 0
                      /\ k[2] < window => late'[k] + Cardinality(Waits(request', k))
                                            <= Cardinality(Requests)
    BY <1>5 DEF LateWereInFlight
  <2>1. /\ k[2] >= window => late[k] = 0
        /\ k[2] < window => late[k] + Cardinality(Waits(request, k)) <= Cardinality(Requests)
        /\ Cardinality(Requests) \in Nat
    BY WaitsFinite DEF IInv, LateWereInFlight
  <2>2. CASE n <= Limit /\ key[2] # window /\ k = key
    <3>1. late'[k] = late[k] + 1 /\ k[2] < window
      BY <1>1, <1>5, <2>2 DEF TypeOK
    <3> QED
      BY <1>1, <1>2, <1>4, <2>1, <2>2, <3>1
  <2>3. CASE ~(n <= Limit /\ key[2] # window /\ k = key)
    <3>1. late'[k] = late[k]
      BY <1>1, <1>5, <2>3 DEF TypeOK
    <3> QED
      BY <1>2, <1>4, <2>1, <3>1
  <2> QED
    BY <2>2, <2>3
<1>12. RefusalsAreEarned'
  <2> SUFFICES ASSUME NEW k \in refused' PROVE arrived[k] > Limit
    BY <1>5 DEF RefusalsAreEarned
  <2>1. CASE k \in refused
    BY <2>1 DEF IInv, RefusalsAreEarned
  <2>2. CASE k = key /\ ~(n <= Limit)
    <3>1. Cardinality(Waits(request, key)) # 0
      <4>1. r \in Waits(request, key)
        BY <1>1 DEF Waits, At, key
      <4> QED
        BY <4>1, WaitsFinite, FS_EmptySet
    <3>2. count[key] + Cardinality(Waits(request, key)) <= arrived[key]
      BY <1>1 DEF IInv, CountedArrived
    <3> QED
      BY <1>1, <1>2, <1>4, <2>2, <3>1, <3>2, LimitAssumption
  <2> QED
    BY <1>5, <2>1, <2>2
<1> QED
  BY <1>6, <1>7, <1>8, <1>9, <1>10, <1>11, <1>12 DEF IInv

LEMMA TickKeeps ==
  ASSUME IInv, TypeOK', Tick
  PROVE  IInv'
<1> USE DEF history
<1>1. TypeOK /\ window \in Nat /\ ticks \in Nat /\ window' \in {window, window + 1}
  BY BoundsAssumption, TicksAssumption DEF IInv, TypeOK, Tick
<1>2. UNCHANGED <<up, request, faults, arrived, admitted, late, refused>>
  BY DEF Tick
<1>3. ASSUME NEW k \in Keys
      PROVE /\ count'[k] = IF ttl[k] = 1 THEN 0 ELSE count[k]
            /\ ttl'[k] = IF ttl[k] \in {None, 1} THEN None ELSE ttl[k] - 1
            /\ count[k] \in Nat /\ k[2] \in Nat
            /\ ttl[k] # None => ttl[k] \in 1..WindowTicks
  BY <1>1, KeyFacts DEF Tick, TypeOK
<1>4. KeysAreOld'
  <2> SUFFICES ASSUME NEW r \in Requests, request[r] # None PROVE request[r].key[2] <= window'
    BY <1>2 DEF KeysAreOld
  <2>1. request[r].key \in Keys /\ request[r].key[2] <= window
    BY <1>1 DEF IInv, KeysAreOld, TypeOK, InFlight
  <2> QED
    BY <1>1, <2>1, KeyFacts
<1>5. FutureIsEmpty'
  BY <1>1, <1>3 DEF IInv, FutureIsEmpty
<1>6. LivesItsMinute'
  <2> SUFFICES ASSUME NEW k \in Keys, k[2] = window', ttl'[k] # None
               PROVE  ttl'[k] >= WindowTicks - ticks'
    BY DEF LivesItsMinute
  <2>1. ttl[k] # None /\ ttl'[k] = ttl[k] - 1 /\ ttl[k] \in 1..WindowTicks
    BY <1>3
  <2>2. window' = window
    BY <1>1, <1>3, <2>1 DEF IInv, FutureIsEmpty
  <2>3. ticks' = ticks + 1
    BY <1>1, <2>2 DEF Tick
  <2>4. ttl[k] >= WindowTicks - ticks
    BY <2>1, <2>2 DEF IInv, LivesItsMinute
  <2> QED
    BY <1>1, <2>1, <2>3, <2>4, TicksAssumption
<1>7. AdmittedAreCounted'
  <2> SUFFICES ASSUME NEW k \in Keys, k[2] >= window' PROVE admitted[k] <= count'[k]
    BY <1>2 DEF AdmittedAreCounted
  <2>1. k[2] >= window /\ admitted[k] <= count[k]
    BY <1>1, <1>3 DEF IInv, AdmittedAreCounted
  <2>2. CASE k[2] > window
    BY <1>3, <2>1, <2>2, NoneAssumption DEF IInv, FutureIsEmpty
  <2>3. CASE k[2] = window
    <3>1. ticks + 1 < WindowTicks
      BY <1>1, <2>3 DEF Tick
    <3>2. ttl[k] # 1
      BY <1>1, <1>3, <2>3, <3>1, TicksAssumption, NoneAssumption DEF IInv, LivesItsMinute
    <3> QED
      BY <1>3, <2>1, <3>2
  <2> QED
    BY <1>1, <1>3, <2>1, <2>2, <2>3
<1>8. CountedArrived'
  <2> SUFFICES ASSUME NEW k \in Keys
               PROVE  count'[k] + Cardinality(Waits(request, k)) <= arrived[k]
    BY <1>2 DEF CountedArrived
  <2>1. count[k] + Cardinality(Waits(request, k)) <= arrived[k]
        /\ Cardinality(Waits(request, k)) \in Nat /\ arrived[k] \in Nat
    BY <1>1, WaitsFinite DEF IInv, CountedArrived, TypeOK
  <2> QED
    BY <1>3, <2>1
<1>9. LateWereInFlight'
  <2> SUFFICES ASSUME NEW k \in Keys
               PROVE  /\ k[2] >= window' => late[k] = 0
                      /\ k[2] < window' => late[k] + Cardinality(Waits(request, k))
                                             <= Cardinality(Requests)
    BY <1>2 DEF LateWereInFlight
  <2>1. Cardinality(Waits(request, k)) \in Nat /\ Cardinality(Requests) \in Nat
        /\ Cardinality(Waits(request, k)) <= Cardinality(Requests)
    BY WaitsFinite
  <2> QED
    BY <1>1, <1>3, <2>1 DEF IInv, LateWereInFlight
<1>10. WithinBounds' /\ RefusalsAreEarned'
  BY <1>2 DEF IInv, WithinBounds, RefusalsAreEarned
<1> QED
  BY <1>4, <1>5, <1>6, <1>7, <1>8, <1>9, <1>10 DEF IInv

-----------------------------------------------------------------------------
(* The theorems.                                                           *)

LEMMA NextIInv == IInv /\ [Next]_vars => IInv'
<1> SUFFICES ASSUME IInv, [Next]_vars PROVE IInv'
  OBVIOUS
<1>1. TypeOK /\ TypeOK'
  BY NextType DEF IInv
<1> QED
  BY <1>1, NextCases, QuietKeeps, ArriveKeeps, AnswerLostKeeps, IncrKeeps, TickKeeps

LEMMA SpecIInv == Spec => []IInv
  BY InitIInv, NextIInv, PTL DEF Spec

\* Counters, lives and requests stay well typed, and no key is given a life of
\* more than a minute (ratelimit.py allow).
THEOREM LimiterTypeCorrect == Spec => []TypeOK
<1>1. IInv => TypeOK
  BY DEF IInv
<1> QED
  BY <1>1, SpecIInv, PTL

\* ratelimit.py: in a minute the count of a caller lets at most the limit in,
\* however its requests overlap and whenever the EXPIRE arrives; what a late
\* INCR adds is at most what was then in flight.
THEOREM LimitIsKept == Spec => []LimitPerMinute
<1>1. IInv => LimitPerMinute
  <2> SUFFICES ASSUME IInv, NEW k \in Keys
               PROVE  admitted[k] <= Limit /\ late[k] <= Cardinality(Requests)
    BY DEF LimitPerMinute
  <2>1. late[k] \in Nat /\ window \in Nat /\ k[2] \in Nat
    BY KeyFacts, BoundsAssumption DEF IInv, TypeOK
  <2>2. Cardinality(Waits(request, k)) \in Nat /\ Cardinality(Requests) \in Nat
    BY WaitsFinite
  <2> QED
    BY <2>1, <2>2 DEF IInv, WithinBounds, LateWereInFlight
<1> QED
  BY <1>1, SpecIInv, PTL

\* ratelimit.py: a 429 is earned by the caller's own requests of that minute,
\* whatever faults and whichever other callers there are.
THEOREM NobodyPaysForOthers == Spec => []RefusalsAreEarned
<1>1. IInv => RefusalsAreEarned
  BY DEF IInv
<1> QED
  BY <1>1, SpecIInv, PTL

-----------------------------------------------------------------------------
(* Keys without an expiry.  While Redis is down, every request about to    *)
(* send its EXPIRE is a leak to come; the fault has paid for them all.     *)

Expiring(req) == {r \in Requests : req[r] # None /\ req[r].step = "expire"}

ToCome == IF up THEN 0 ELSE Cardinality(Expiring(request))

LeaksPaid ==
    /\ IsFiniteSet(Leaked)
    /\ Cardinality(Leaked) + ToCome <= faults * Cardinality(Requests)

LEMMA ExpiringFinite ==
  ASSUME NEW req
  PROVE  /\ IsFiniteSet(Expiring(req))
         /\ Cardinality(Expiring(req)) \in Nat
         /\ Cardinality(Expiring(req)) <= Cardinality(Requests)
         /\ Cardinality(Requests) \in Nat
<1>1. Expiring(req) \subseteq Requests
  BY DEF Expiring
<1> QED
  BY <1>1, RequestsAssumption, FS_Subset, FS_CardinalityType

\* A fault pays for as many leaks as there are requests.
LEMMA Payment ==
  ASSUME NEW f \in Nat, NEW n \in Nat
  PROVE  (f + 1) * n = f * n + n /\ f * n \in Nat
  OBVIOUS

\* The steps that leak nothing.
LEMMA NoLeak ==
  ASSUME TypeOK, [Next]_vars,
         ~Restart,
         \A r \in Requests : ~FailOpen(r) /\ ~(At(r, "incr") /\ AnswerLost(r))
  PROVE  Leaked' \subseteq Leaked
<1> USE DEF clock, redis, history, vars
<1>1. ASSUME NEW r \in Requests, request[r] # None
      PROVE request[r] \in InFlight /\ request[r].key \in Keys
  BY <1>1 DEF TypeOK, InFlight
<1>2. ASSUME NEW r \in Requests, NEW c \in Callers, Arrive(r, c) PROVE Leaked' \subseteq Leaked
  BY <1>2 DEF Arrive, Leaked, At, TypeOK
<1>3. ASSUME NEW r \in Requests, Incr(r) PROVE Leaked' \subseteq Leaked
  <2> DEFINE key == request[r].key
  <2>1. key \in Keys /\ request[r] \in InFlight /\ request[r].step = "incr" /\ request[r] # None
    BY <1>1, <1>3 DEF Incr, At
  <2>2. count' = [count EXCEPT ![key] = count[key] + 1] /\ ttl' = ttl
    BY <1>3 DEF Incr
  <2>3. CASE count[key] = 0
    <3>1. request' = [request EXCEPT ![r].step = "expire"]
      BY <1>3, <2>3 DEF Incr, FirstSets
    <3>2. request'[r].step = "expire" /\ request'[r].key = key /\ request'[r] # None
      BY <2>1, <3>1, NoneAssumption DEF TypeOK, InFlight
    <3>3. key \notin Leaked'
      BY <3>2 DEF Leaked, At
    <3>4. \A q \in Requests : q # r => request'[q] = request[q]
      BY <3>1 DEF TypeOK
    <3>5. \A k \in Keys : k # key => count'[k] = count[k]
      BY <2>2 DEF TypeOK
    <3> QED
      BY <2>1, <2>2, <3>3, <3>4, <3>5 DEF Leaked, At
  <2>4. CASE count[key] # 0
    <3>1. request' = [request EXCEPT ![r] = None]
      BY <1>3, <2>1, <2>4 DEF Incr, FirstSets, Leave, TypeOK
    <3>2. \A k \in Keys : count'[k] > 0 => count[k] > 0
      BY <2>1, <2>2, <2>4 DEF TypeOK
    <3>3. \A q \in Requests : q # r => request'[q] = request[q]
      BY <3>1 DEF TypeOK
    <3> QED
      BY <2>1, <2>2, <3>2, <3>3 DEF Leaked, At
  <2> QED
    BY <2>3, <2>4
<1>4. ASSUME NEW r \in Requests, At(r, "expire"), SetLife(request[r].key), Leave(r), UNCHANGED count
      PROVE Leaked' \subseteq Leaked
  <2>1. \A q \in Requests : q # r => request'[q] = request[q]
    BY <1>4 DEF Leave, TypeOK
  <2>2. \A k \in Keys : k # request[r].key => ttl'[k] = ttl[k]
    BY <1>4 DEF SetLife, TypeOK
  <2>3. request[r].key \notin Leaked'
    BY <1>1, <1>4, NoneAssumption, TicksAssumption DEF SetLife, Life, Leaked, At, TypeOK
  <2> QED
    BY <1>4, <2>1, <2>2, <2>3 DEF Leaked, At
<1>5. ASSUME NEW r \in Requests, Expire(r) \/ AnswerLost(r) PROVE Leaked' \subseteq Leaked
  BY <1>4, <1>5 DEF Expire, AnswerLost
<1>6. CASE Stop \/ UNCHANGED vars
  BY <1>6 DEF Stop, Leaked, At
<1>7. CASE Return
  BY <1>7 DEF Return, Leaked, At
<1>8. CASE Tick
  BY <1>8, NoneAssumption DEF Tick, Leaked, At, TypeOK
<1> QED
  BY <1>2, <1>3, <1>5, <1>6, <1>7, <1>8 DEF Next

\* The steps that leak at most the key of one request.
LEMMA OneLeak ==
  ASSUME TypeOK, NEW r \in Requests, request[r] # None, Leave(r), UNCHANGED ttl,
         \A k \in Keys : k # request[r].key => count'[k] = count[k]
  PROVE  Leaked' \subseteq Leaked \cup {request[r].key}
<1>1. \A q \in Requests : q # r => request'[q] = request[q]
  BY DEF Leave, TypeOK
<1> QED
  BY <1>1 DEF Leaked, At

LEMMA RestartLeaks ==
  ASSUME TypeOK, Restart, IsFiniteSet(Leaked)
  PROVE  /\ IsFiniteSet(Leaked')
         /\ Cardinality(Leaked') <= Cardinality(Leaked) + Cardinality(Requests)
<1> DEFINE Lost == {request[r].key : r \in Expiring(request)}
<1> DEFINE f == [r \in Expiring(request) |-> request[r].key]
<1>1. f \in Surjection(Expiring(request), Lost)
  BY DEF Surjection
<1>2. IsFiniteSet(Lost) /\ Cardinality(Lost) <= Cardinality(Requests) /\ Cardinality(Lost) \in Nat
  BY <1>1, ExpiringFinite, FS_Surjection, FS_CardinalityType
<1>3. Leaked' \subseteq Leaked \cup Lost
  BY DEF Restart, redis, Leaked, At, Expiring
<1>4. /\ IsFiniteSet(Leaked \cup Lost)
      /\ Cardinality(Leaked \cup Lost) =
             Cardinality(Leaked) + Cardinality(Lost) - Cardinality(Leaked \cap Lost)
      /\ Cardinality(Leaked) \in Nat /\ Cardinality(Leaked \cap Lost) \in Nat
  BY <1>2, FS_Union, FS_Intersection, FS_CardinalityType
<1>5. /\ IsFiniteSet(Leaked') /\ Cardinality(Leaked') \in Nat
      /\ Cardinality(Leaked') <= Cardinality(Leaked \cup Lost)
  BY <1>3, <1>4, FS_Subset, FS_CardinalityType
<1>6. Cardinality(Requests) \in Nat
  BY ExpiringFinite
<1> QED
  BY <1>2, <1>4, <1>5, <1>6

LEMMA NextPaid == TypeOK /\ LeaksPaid /\ [Next]_vars => LeaksPaid'
<1> SUFFICES ASSUME TypeOK, LeaksPaid, [Next]_vars PROVE LeaksPaid'
  OBVIOUS
<1> USE DEF clock, redis, history, vars
<1> DEFINE n == Cardinality(Requests)
<1>1. /\ IsFiniteSet(Leaked) /\ Cardinality(Leaked) \in Nat /\ n \in Nat /\ faults \in Nat
      /\ Cardinality(Leaked) + ToCome <= faults * n
      /\ ToCome = IF up THEN 0 ELSE Cardinality(Expiring(request))
      /\ up \in BOOLEAN
  <2>1. IsFiniteSet(Leaked) /\ Cardinality(Leaked) \in Nat
    BY FS_CardinalityType DEF LeaksPaid
  <2>2. n \in Nat
    BY ExpiringFinite
  <2> QED
    BY <2>1, <2>2, BoundsAssumption DEF TypeOK, LeaksPaid, ToCome
<1>2. /\ Cardinality(Expiring(request)) \in Nat /\ Cardinality(Expiring(request)) <= n
      /\ Cardinality(Expiring(request')) \in Nat /\ Cardinality(Expiring(request')) <= n
      /\ ToCome' = IF up' THEN 0 ELSE Cardinality(Expiring(request'))
      /\ IsFiniteSet(Expiring(request))
  BY ExpiringFinite DEF ToCome
<1>3. /\ (faults + 1) * n = faults * n + n
      /\ faults * n \in Nat
  BY <1>1, Payment
<1>4. ASSUME Leaked' \subseteq Leaked
      PROVE IsFiniteSet(Leaked') /\ Cardinality(Leaked') <= Cardinality(Leaked)
            /\ Cardinality(Leaked') \in Nat
  BY <1>1, <1>4, FS_Subset, FS_CardinalityType
<1>5. ASSUME NEW k, Leaked' \subseteq Leaked \cup {k}
      PROVE IsFiniteSet(Leaked') /\ Cardinality(Leaked') <= Cardinality(Leaked) + 1
            /\ Cardinality(Leaked') \in Nat
  <2>1. IsFiniteSet(Leaked \cup {k}) /\ Cardinality(Leaked \cup {k}) <= Cardinality(Leaked) + 1
        /\ Cardinality(Leaked \cup {k}) \in Nat
    <3>1. /\ IsFiniteSet(Leaked \cup {k})
          /\ Cardinality(Leaked \cup {k}) = IF k \in Leaked THEN Cardinality(Leaked)
                                                         ELSE Cardinality(Leaked) + 1
      BY <1>1, FS_AddElement
    <3> QED
      BY <1>1, <3>1
  <2>2. IsFiniteSet(Leaked') /\ Cardinality(Leaked') <= Cardinality(Leaked \cup {k})
    BY <1>5, <2>1, FS_Subset
  <2>3. Cardinality(Leaked') \in Nat
    BY <2>2, FS_CardinalityType
  <2> QED
    BY <1>1, <2>1, <2>2, <2>3
<1>6. ASSUME NEW r \in Requests, At(r, "incr") /\ AnswerLost(r) PROVE LeaksPaid'
  <2>1. Leaked' \subseteq Leaked \cup {request[r].key}
    <3>1. Leave(r) /\ request[r] # None /\ UNCHANGED ttl
      BY <1>6 DEF AnswerLost, At
    <3>2. \A k \in Keys : k # request[r].key => count'[k] = count[k]
      BY <1>6 DEF AnswerLost, At, TypeOK
    <3> QED
      BY <3>1, <3>2, OneLeak
  <2>2. up /\ up' /\ faults' = faults + 1
    BY <1>6 DEF AnswerLost, Fault
  <2>3. n >= 1
    BY <1>1, RequestsAssumption, FS_EmptySet
  <2>4. /\ IsFiniteSet(Leaked') /\ Cardinality(Leaked') <= Cardinality(Leaked) + 1
        /\ Cardinality(Leaked') \in Nat
    BY <1>5, <2>1
  <2>5. ToCome' = 0 /\ ToCome = 0
    BY <1>1, <1>2, <2>2
  <2> QED
    BY <1>1, <1>3, <2>2, <2>3, <2>4, <2>5 DEF LeaksPaid
<1>7. CASE Restart
  <2>1. IsFiniteSet(Leaked') /\ Cardinality(Leaked') <= Cardinality(Leaked) + n
    BY <1>1, <1>7, RestartLeaks
  <2>2. Cardinality(Leaked') \in Nat
    BY <2>1, FS_CardinalityType
  <2>3. Expiring(request') = {}
    BY <1>7 DEF Restart, Expiring
  <2>4. ToCome' = 0 /\ ToCome \in Nat /\ faults' = faults + 1
    BY <1>1, <1>2, <1>7, <2>3, FS_EmptySet DEF Restart, Fault
  <2> QED
    BY <1>1, <1>3, <2>1, <2>2, <2>4 DEF LeaksPaid
<1>8. ASSUME NEW r \in Requests, FailOpen(r) PROVE LeaksPaid'
  <2>1. ~up /\ ~up' /\ faults' = faults /\ UNCHANGED <<count, ttl>> /\ Leave(r) /\ request[r] # None
    BY <1>8 DEF FailOpen
  <2>2. \A q \in Requests : q # r => request'[q] = request[q]
    BY <2>1 DEF Leave, TypeOK
  <2>3. Expiring(request') = Expiring(request) \ {r}
    BY <2>1 DEF Expiring, Leave, TypeOK
  <2>4. /\ Cardinality(Expiring(request')) =
              IF r \in Expiring(request) THEN Cardinality(Expiring(request)) - 1
                                         ELSE Cardinality(Expiring(request))
    BY <1>2, <2>3, FS_RemoveElement
  <2>5. CASE r \in Expiring(request)
    <3>1. Leaked' \subseteq Leaked \cup {request[r].key}
      BY <2>1, OneLeak
    <3>2. /\ IsFiniteSet(Leaked') /\ Cardinality(Leaked') <= Cardinality(Leaked) + 1
          /\ Cardinality(Leaked') \in Nat
      BY <1>5, <3>1
    <3>3. ToCome = Cardinality(Expiring(request)) /\ ToCome' = ToCome - 1
      BY <1>1, <1>2, <2>1, <2>4, <2>5
    <3> QED
      BY <1>1, <1>2, <1>3, <2>1, <3>2, <3>3 DEF LeaksPaid
  <2>6. CASE r \notin Expiring(request)
    <3>1. Leaked' \subseteq Leaked
      BY <2>1, <2>2, <2>6 DEF Leaked, At, Expiring
    <3> QED
      BY <1>1, <1>2, <1>3, <1>4, <2>1, <2>4, <2>6, <3>1 DEF LeaksPaid
  <2> QED
    BY <2>5, <2>6
<1>9. ASSUME ~Restart, \A r \in Requests : ~FailOpen(r) /\ ~(At(r, "incr") /\ AnswerLost(r))
      PROVE LeaksPaid'
  <2>1. Leaked' \subseteq Leaked
    BY <1>9, NoLeak
  <2>2. \/ faults' = faults /\ ToCome' <= ToCome
        \/ faults' = faults + 1
    <3>1. ASSUME NEW r \in Requests, NEW c \in Callers, Arrive(r, c)
          PROVE faults' = faults /\ ToCome' <= ToCome
      <4>1. request[r] = None /\ request'[r].step = "incr"
        BY <3>1 DEF Arrive, TypeOK
      <4>2. \A q \in Requests : q # r => request'[q] = request[q]
        BY <3>1 DEF Arrive, TypeOK
      <4>3. Expiring(request') = Expiring(request)
        BY <4>1, <4>2 DEF Expiring
      <4> QED
        BY <3>1, <4>3, <1>1, <1>2 DEF Arrive
    <3>2. ASSUME NEW r \in Requests, Incr(r) \/ Expire(r)
          PROVE faults' = faults /\ ToCome' <= ToCome
      BY <1>1, <1>2, <3>2 DEF Incr, Expire
    <3>3. CASE Return
      <4>1. faults' = faults /\ up' = TRUE
        BY <3>3 DEF Return
      <4>2. ToCome' = 0 /\ ToCome >= 0
        BY <1>1, <1>2, <4>1
      <4> QED
        BY <4>1, <4>2
    <3>4. CASE Tick \/ UNCHANGED vars
      <4>1. faults' = faults /\ UNCHANGED <<up, request>>
        BY <3>4 DEF Tick
      <4> QED
        BY <4>1, <1>1, <1>2
    <3>5. CASE Stop \/ \E r \in Requests : AnswerLost(r)
      BY <3>5 DEF Stop, AnswerLost, Fault
    <3> QED
      BY <1>9, <3>1, <3>2, <3>3, <3>4, <3>5 DEF Next
  <2>3. faults' = faults + 1 => ToCome \in Nat /\ ToCome' \in Nat /\ ToCome' <= n
    BY <1>1, <1>2
  <2> QED
    BY <1>1, <1>2, <1>3, <1>4, <2>1, <2>2, <2>3 DEF LeaksPaid
<1> QED
  BY <1>6, <1>7, <1>8, <1>9

\* ratelimit.py allow: INCR and EXPIRE are two commands; what fails between
\* them leaves at most one key per request and fault behind, for any number.
THEOREM LeaksAreBounded == Spec => []LeaksAreFaults
<1>1. Init => LeaksPaid
  <2> SUFFICES ASSUME Init PROVE LeaksPaid
    OBVIOUS
  <2>1. Leaked = {} /\ ToCome = 0
    BY DEF Init, Leaked, ToCome
  <2>2. Cardinality(Requests) \in Nat /\ faults = 0
    BY ExpiringFinite DEF Init
  <2> QED
    BY <2>1, <2>2, FS_EmptySet DEF LeaksPaid
<1>2. TypeOK /\ LeaksPaid => LeaksAreFaults
  <2> SUFFICES ASSUME TypeOK, LeaksPaid
               PROVE  Cardinality(Leaked) <= faults * Cardinality(Requests)
    BY DEF LeaksAreFaults
  <2>1. Cardinality(Expiring(request)) \in Nat /\ Cardinality(Leaked) \in Nat
        /\ Cardinality(Requests) \in Nat /\ faults \in Nat
    BY ExpiringFinite, FS_CardinalityType, BoundsAssumption DEF LeaksPaid, TypeOK
  <2>2. ToCome \in Nat /\ faults * Cardinality(Requests) \in Nat
    BY <2>1, Payment DEF ToCome
  <2> QED
    BY <2>1, <2>2 DEF LeaksPaid
<1> QED
  BY <1>1, <1>2, NextPaid, LimiterTypeCorrect, PTL DEF Spec

=============================================================================
