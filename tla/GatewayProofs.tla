---------------------------- MODULE GatewayProofs ----------------------------
(***************************************************************************)
(* Proofs about Gateway, for every set of upstreams and callers, every     *)
(* FailMax, cool-down and pool.                                            *)
(*                                                                         *)
(* The breaker keeps a number and a time; TripsOnStreak speaks of the      *)
(* order in which outcomes arrived.  Streak connects the two: the counter  *)
(* is the length of the run of failures that ends the recorded outcomes.   *)
(***************************************************************************)
EXTENDS Gateway, TLAPS

\* What a breaker is told at the end of a call.
Verdicts == {"success", "failure", "crowded"}

\* The last failures[u] outcomes are failures and the one before, if any is
\* recorded, is a success; the breaker is open once the counter is full.
Streak ==
    \A u \in Upstreams :
        LET o == outcomes[u] IN
        /\ failures[u] <= Len(o) /\ Len(o) <= FailMax
        /\ \A i \in 1..Len(o) : i > Len(o) - failures[u] => o[i] # "success"
        /\ failures[u] < Len(o) => o[Len(o) - failures[u]] = "success"
        /\ openedAge[u] # None <=> failures[u] = FailMax

Inv == TypeOK /\ Streak

-----------------------------------------------------------------------------
(* How a step can touch a breaker: the end of a call records one outcome,  *)
(* the clock ages the open ones, everything else leaves them alone.        *)

Idle == UNCHANGED <<failures, openedAge, outcomes>>

Ends(c) ==
    /\ call[c] \in Calls
    /\ Finish(c)
    /\ \/ on_success(call[c].upstream)
       \/ \E why \in Verdicts \ {"success"} : on_failure(call[c].upstream, why)

\* The cases of the proofs about breakers.
LEMMA BreakerCases ==
    ASSUME TypeOK, [Next]_vars
    PROVE  Idle \/ Tick \/ \E c \in Callers : Ends(c)
<1>1. ASSUME NEW c \in Callers, NEW u \in Upstreams, Admit(c, u) PROVE Idle
  BY <1>1 DEF Admit, Idle
<1>2. ASSUME NEW c \in Callers,
             Connect(c) \/ PoolTimeout(c) \/ Succeed(c) \/ Fail(c)
      PROVE  Idle \/ Ends(c)
  BY <1>2 DEF Connect, PoolTimeout, Succeed, Fail, Sent, Ends, Idle, TypeOK, Verdicts
<1>3. ASSUME NEW u \in Upstreams, GoDown(u) \/ ComeUp(u) PROVE Idle
  BY <1>3 DEF GoDown, ComeUp, Idle
<1>4. CASE UNCHANGED vars
  BY <1>4 DEF vars, Idle
<1> QED
  BY <1>1, <1>2, <1>3, <1>4 DEF Next

-----------------------------------------------------------------------------
(* Type correctness.                                                       *)

LEMMA TypeInit == Init => TypeOK
BY FailMaxAssumption DEF Init, TypeOK

\* Recording an outcome keeps the breaker's variables in their types.
LEMMA RecordKeepsType ==
    ASSUME TypeOK, NEW u \in Upstreams,
           on_success(u) \/ \E why \in Verdicts : on_failure(u, why)
    PROVE  /\ failures' \in [Upstreams -> 0..FailMax]
           /\ openedAge' \in [Upstreams -> 0..ResetTicks \cup {None}]
           /\ outcomes' \in [Upstreams -> Seq(Verdicts)]
<1>1. ASSUME NEW outcome \in Verdicts
      PROVE  Recorded(u, outcome) \in Seq(Verdicts)
  <2>1. Append(outcomes[u], outcome) \in Seq(Verdicts)
    BY DEF TypeOK, Verdicts
  <2>2. Len(Append(outcomes[u], outcome)) > FailMax =>
            Tail(Append(outcomes[u], outcome)) \in Seq(Verdicts)
    BY <2>1, FailMaxAssumption
  <2> QED
    BY <2>1, <2>2 DEF Recorded
<1>2. CountUp(failures[u]) \in 0..FailMax
  BY FailMaxAssumption DEF CountUp, TypeOK
<1>3. CASE on_success(u)
  BY <1>1, <1>3, FailMaxAssumption DEF on_success, TypeOK, Verdicts
<1>4. ASSUME NEW why \in Verdicts, on_failure(u, why)
      PROVE  /\ failures' \in [Upstreams -> 0..FailMax]
             /\ openedAge' \in [Upstreams -> 0..ResetTicks \cup {None}]
             /\ outcomes' \in [Upstreams -> Seq(Verdicts)]
  <2>1. failures' \in [Upstreams -> 0..FailMax]
    BY <1>2, <1>4 DEF on_failure, TypeOK
  <2>2. openedAge' \in [Upstreams -> 0..ResetTicks \cup {None}]
    BY <1>4, ResetAssumption DEF on_failure, TypeOK
  <2>3. outcomes' \in [Upstreams -> Seq(Verdicts)]
    BY <1>1, <1>4 DEF on_failure, TypeOK, Verdicts
  <2> QED
    BY <2>1, <2>2, <2>3
<1> QED
  BY <1>3, <1>4

LEMMA TypeNext == TypeOK /\ [Next]_vars => TypeOK'
<1> SUFFICES ASSUME TypeOK, [Next]_vars PROVE TypeOK'
  OBVIOUS
<1>1. ASSUME NEW c \in Callers, NEW u \in Upstreams, Admit(c, u) PROVE TypeOK'
  BY <1>1 DEF Admit, TypeOK, Calls
<1>2. ASSUME NEW c \in Callers, Connect(c) PROVE TypeOK'
  <2>1. call[c] \in Calls
    BY <1>2 DEF Connect, TypeOK
  <2>2. up[call[c].upstream] \in BOOLEAN
    BY <2>1 DEF Calls, TypeOK
  <2>3. [call[c] EXCEPT !.phase = "sent", !.lost = ~up[call[c].upstream]] \in Calls
    BY <2>1, <2>2 DEF Calls
  <2>4. call' = [call EXCEPT ![c] =
            [call[c] EXCEPT !.phase = "sent", !.lost = ~up[call[c].upstream]]]
    BY <1>2, <2>1 DEF Connect, TypeOK, Calls
  <2>5. call' \in [Callers -> Calls \cup {None}]
    BY <2>3, <2>4 DEF TypeOK
  <2> QED
    BY <1>2, <2>5 DEF Connect, TypeOK
<1>3. ASSUME NEW c \in Callers, Ends(c) PROVE TypeOK'
  <2>1. call[c].upstream \in Upstreams
    BY <1>3 DEF Ends, Calls
  <2> QED
    BY <1>3, <2>1, RecordKeepsType DEF Ends, Finish, TypeOK, Verdicts
<1>4. ASSUME NEW c \in Callers, PoolTimeout(c) \/ Succeed(c) \/ Fail(c) PROVE TypeOK'
  BY <1>3, <1>4 DEF PoolTimeout, Succeed, Fail, Sent, Ends, TypeOK, Verdicts
<1>5. ASSUME NEW u \in Upstreams, GoDown(u) PROVE TypeOK'
  <2>1. \A c \in Callers : call[c] \in Calls => [call[c] EXCEPT !.lost = TRUE] \in Calls
    BY DEF Calls
  <2>2. \A c \in Sent : call[c] \in Calls
    BY DEF Sent, TypeOK
  <2>3. call' \in [Callers -> Calls \cup {None}]
    BY <1>5, <2>1, <2>2 DEF GoDown, TypeOK
  <2> QED
    BY <1>5, <2>3 DEF GoDown, TypeOK
<1>6. ASSUME NEW u \in Upstreams, ComeUp(u) PROVE TypeOK'
  BY <1>6 DEF ComeUp, TypeOK
<1>7. CASE Tick
  <2>1. \A u \in Upstreams : state(u) = "open" => openedAge[u] + 1 \in 0..ResetTicks
    BY ResetAssumption DEF state, TypeOK
  <2> QED
    BY <1>7, <2>1 DEF Tick, TypeOK
<1>8. CASE UNCHANGED vars
  BY <1>8 DEF vars, TypeOK
<1> QED
  BY <1>1, <1>2, <1>4, <1>5, <1>6, <1>7, <1>8 DEF Next

\* Every variable keeps its type: the counter stays within FailMax and the
\* age of an open breaker within its cool-down.
THEOREM GatewayTypeCorrect == Spec => []TypeOK
BY TypeInit, TypeNext, PTL DEF Spec

-----------------------------------------------------------------------------
(* The streak.                                                             *)

\* What one more outcome makes of the recorded ones.
LEMMA RecordedIs ==
    ASSUME TypeOK, NEW u \in Upstreams, Len(outcomes[u]) <= FailMax,
           NEW outcome \in Verdicts
    PROVE  LET o == outcomes[u]
               n == Recorded(u, outcome)
               shift == IF Len(o) = FailMax THEN 1 ELSE 0 IN
           /\ Len(n) = Len(o) + 1 - shift
           /\ n[Len(n)] = outcome
           /\ \A i \in 1..(Len(n) - 1) : n[i] = o[i + shift]
<1> DEFINE o == outcomes[u]
           all == Append(o, outcome)
<1>1. /\ o \in Seq(Verdicts) /\ all \in Seq(Verdicts)
      /\ Len(o) \in Nat /\ Len(all) = Len(o) + 1
      /\ all[Len(o) + 1] = outcome
      /\ \A i \in 1..Len(o) : all[i] = o[i]
  BY DEF TypeOK, Verdicts
<1>2. CASE Len(o) = FailMax
  <2>1. Recorded(u, outcome) = Tail(all)
    BY <1>1, <1>2, FailMaxAssumption DEF Recorded
  <2>2. /\ Len(Tail(all)) = Len(o)
        /\ \A i \in 1..Len(o) : Tail(all)[i] = all[i + 1]
    BY <1>1
  <2>3. Len(o) \in 1..Len(o)
    BY <1>1, <1>2, FailMaxAssumption
  <2>4. Tail(all)[Len(o)] = outcome
    BY <1>1, <2>2, <2>3
  <2>5. ASSUME NEW i \in 1..(Len(o) - 1) PROVE Tail(all)[i] = o[i + 1]
    <3>1. i \in 1..Len(o) /\ i + 1 \in 1..Len(o)
      BY <1>1
    <3> QED
      BY <1>1, <2>2, <3>1
  <2>6. LET n == Recorded(u, outcome) IN
        /\ Len(n) = Len(o) /\ n[Len(n)] = outcome
        /\ \A i \in 1..(Len(n) - 1) : n[i] = o[i + 1]
    BY <2>1, <2>2, <2>4, <2>5
  <2>7. Len(o) = Len(o) + 1 - 1
    BY <1>1
  <2> QED
    BY <1>2, <2>6, <2>7
<1>3. CASE Len(o) # FailMax
  <2>1. Recorded(u, outcome) = all
    BY <1>1, <1>3, FailMaxAssumption DEF Recorded
  <2> HIDE DEF all
  <2> QED
    BY <1>1, <1>3, <2>1
<1> QED
  BY <1>2, <1>3

\* Nothing else is recorded.
LEMMA RecordedFrom ==
    ASSUME TypeOK, NEW u \in Upstreams, Len(outcomes[u]) <= FailMax,
           NEW outcome \in Verdicts, NEW i \in 1..Len(Recorded(u, outcome)),
           \A k \in 1..Len(outcomes[u]) : outcomes[u][k] # "failure",
           outcome # "failure"
    PROVE  Recorded(u, outcome)[i] # "failure"
<1> DEFINE o == outcomes[u]
           n == Recorded(u, outcome)
           shift == IF Len(o) = FailMax THEN 1 ELSE 0
<1>1. /\ Len(n) = Len(o) + 1 - shift
      /\ n[Len(n)] = outcome
      /\ \A k \in 1..(Len(n) - 1) : n[k] = o[k + shift]
  BY RecordedIs
<1>2. Len(o) \in Nat
  BY DEF TypeOK
<1> HIDE DEF o, n
<1>3. CASE i = Len(n)
  BY <1>1, <1>3 DEF n
<1>4. CASE i # Len(n)
  <2>1. i \in 1..(Len(n) - 1) /\ i + shift \in 1..Len(o)
    BY <1>1, <1>2, <1>4 DEF n
  <2> QED
    BY <1>1, <2>1 DEF n, o
<1> QED
  BY <1>3, <1>4

LEMMA StreakInit == Init => Streak
BY FailMaxAssumption DEF Init, Streak

\* The end of a call keeps the streak, whichever call it is.
LEMMA StreakEnds ==
    ASSUME Inv, NEW c \in Callers, Ends(c)
    PROVE  Streak'
<1> DEFINE u == call[c].upstream
           o == outcomes[u]
           n == outcomes'[u]
           shift == IF Len(o) = FailMax THEN 1 ELSE 0
<1>1. u \in Upstreams
  BY DEF Ends, Calls
<1>2. /\ o \in Seq(Verdicts) /\ Len(o) \in Nat
      /\ failures[u] \in 0..FailMax /\ FailMax \in Nat \ {0}
      /\ failures[u] <= Len(o) /\ Len(o) <= FailMax
      /\ \A i \in 1..Len(o) : i > Len(o) - failures[u] => o[i] # "success"
      /\ failures[u] < Len(o) => o[Len(o) - failures[u]] = "success"
      /\ openedAge[u] # None <=> failures[u] = FailMax
  BY <1>1, FailMaxAssumption DEF Inv, TypeOK, Streak, Verdicts
<1>3. ASSUME NEW v \in Upstreams, v # u
      PROVE  /\ failures'[v] = failures[v]
             /\ openedAge'[v] = openedAge[v]
             /\ outcomes'[v] = outcomes[v]
  BY <1>3 DEF Ends, on_success, on_failure, Inv, TypeOK
<1>4. /\ failures'[u] <= Len(n) /\ Len(n) <= FailMax
      /\ \A i \in 1..Len(n) : i > Len(n) - failures'[u] => n[i] # "success"
      /\ failures'[u] < Len(n) => n[Len(n) - failures'[u]] = "success"
      /\ openedAge'[u] # None <=> failures'[u] = FailMax
  <2>1. CASE on_success(u)
    <3>1. failures'[u] = 0 /\ openedAge'[u] = None /\ n = Recorded(u, "success")
      BY <1>1, <2>1 DEF on_success, Inv, TypeOK
    <3>2. Len(n) = Len(o) + 1 - shift /\ n[Len(n)] = "success"
      BY <1>1, <1>2, <3>1, RecordedIs DEF Inv, Verdicts
    <3> HIDE DEF n, o, u
    <3> QED
      BY <1>2, <3>1, <3>2
  <2>2. ASSUME NEW why \in Verdicts \ {"success"}, on_failure(u, why)
        PROVE  /\ failures'[u] <= Len(n) /\ Len(n) <= FailMax
               /\ \A i \in 1..Len(n) : i > Len(n) - failures'[u] => n[i] # "success"
               /\ failures'[u] < Len(n) => n[Len(n) - failures'[u]] = "success"
               /\ openedAge'[u] # None <=> failures'[u] = FailMax
    <3>1. /\ failures'[u] = CountUp(failures[u])
          /\ openedAge'[u] = IF failures'[u] >= FailMax THEN 0 ELSE openedAge[u]
          /\ n = Recorded(u, why)
      BY <1>1, <2>2 DEF on_failure, Inv, TypeOK
    <3>2. /\ Len(n) = Len(o) + 1 - shift /\ n[Len(n)] = why
          /\ \A i \in 1..(Len(n) - 1) : n[i] = o[i + shift]
      <4>1. why \in Verdicts
        OBVIOUS
      <4>2. TypeOK /\ Len(o) <= FailMax
        BY <1>2 DEF Inv
      <4> HIDE DEF u
      <4>3. LET m == Recorded(u, why) IN
            /\ Len(m) = Len(o) + 1 - shift /\ m[Len(m)] = why
            /\ \A i \in 1..(Len(m) - 1) : m[i] = o[i + shift]
        BY <1>1, <4>1, <4>2, RecordedIs
      <4> HIDE DEF n, o
      <4> QED
        BY <3>1, <4>3
    <3>3. failures'[u] = IF failures[u] < FailMax THEN failures[u] + 1 ELSE failures[u]
      BY <3>1 DEF CountUp
    <3>4. openedAge'[u] # None <=> failures'[u] = FailMax
      BY <1>2, <3>1, <3>3, NoneAssumption
    <3> HIDE DEF n, o, u
    <3>5. failures'[u] <= Len(n) /\ Len(n) <= FailMax /\ Len(n) \in Nat
      BY <1>2, <3>2, <3>3
    <3>6. ASSUME NEW i \in 1..Len(n), i > Len(n) - failures'[u] PROVE n[i] # "success"
      <4>1. CASE i = Len(n)
        BY <2>2, <3>2, <4>1
      <4>2. CASE i # Len(n)
        <5>1. i \in 1..(Len(n) - 1) /\ i + shift \in 1..Len(o)
              /\ i + shift > Len(o) - failures[u]
          BY <1>2, <3>2, <3>3, <3>5, <3>6, <4>2
        <5> QED
          BY <1>2, <3>2, <5>1
      <4> QED
        BY <4>1, <4>2
    <3>7. failures'[u] < Len(n) => n[Len(n) - failures'[u]] = "success"
      <4> SUFFICES ASSUME failures'[u] < Len(n) PROVE n[Len(n) - failures'[u]] = "success"
        OBVIOUS
      <4>1. /\ Len(n) - failures'[u] \in 1..(Len(n) - 1)
            /\ Len(n) - failures'[u] + shift = Len(o) - failures[u]
            /\ failures[u] < Len(o)
        BY <1>2, <3>2, <3>3, <3>5
      <4> QED
        BY <1>2, <3>2, <4>1
    <3> QED
      BY <3>4, <3>5, <3>6, <3>7
  <2> QED
    BY <2>1, <2>2 DEF Ends
<1> HIDE DEF u, n, o
<1> QED
  BY <1>3, <1>4 DEF Streak, Inv, n

LEMMA StreakNext == Inv /\ [Next]_vars => Streak'
<1> SUFFICES ASSUME Inv, [Next]_vars PROVE Streak'
  OBVIOUS
<1>1. CASE Idle
  BY <1>1 DEF Idle, Inv, Streak
<1>2. CASE Tick
  <2>1. \A u \in Upstreams : openedAge'[u] # None <=> openedAge[u] # None
    BY <1>2, NoneAssumption DEF Tick, state, Inv, TypeOK
  <2> QED
    BY <1>2, <2>1 DEF Tick, Inv, Streak
<1>3. ASSUME NEW c \in Callers, Ends(c) PROVE Streak'
  BY <1>3, StreakEnds
<1> QED
  BY <1>1, <1>2, <1>3, BreakerCases DEF Inv

LEMMA BreakerInvariant == Spec => []Inv
<1>1. Init => Inv
  BY TypeInit, StreakInit DEF Inv
<1>2. Inv /\ [Next]_vars => Inv'
  BY TypeNext, StreakNext DEF Inv
<1> QED
  BY <1>1, <1>2, PTL DEF Spec

LEMMA StreakTrips == Inv => TripsOnStreak
<1> SUFFICES ASSUME Inv, NEW u \in Upstreams
             PROVE  openedAge[u] # None <=>
                      /\ Len(outcomes[u]) = FailMax
                      /\ \A i \in 1..FailMax : outcomes[u][i] # "success"
  BY DEF TripsOnStreak
<1> DEFINE o == outcomes[u]
<1>1. /\ Len(o) \in Nat /\ failures[u] \in 0..FailMax /\ FailMax \in Nat \ {0}
      /\ failures[u] <= Len(o) /\ Len(o) <= FailMax
      /\ \A i \in 1..Len(o) : i > Len(o) - failures[u] => o[i] # "success"
      /\ failures[u] < Len(o) => o[Len(o) - failures[u]] = "success"
      /\ openedAge[u] # None <=> failures[u] = FailMax
  BY FailMaxAssumption DEF Inv, TypeOK, Streak
<1> HIDE DEF o
<1>2. failures[u] = FailMax =>
          Len(o) = FailMax /\ \A i \in 1..FailMax : o[i] # "success"
  BY <1>1
<1>3. ASSUME failures[u] # FailMax, Len(o) = FailMax
      PROVE  \E i \in 1..FailMax : o[i] = "success"
  <2>1. Len(o) - failures[u] \in 1..FailMax /\ failures[u] < Len(o)
    BY <1>1, <1>3
  <2> QED
    BY <1>1, <2>1
<1> QED
  BY <1>1, <1>2, <1>3 DEF o

\* A breaker is out of "closed" exactly when its last FailMax outcomes are
\* failures, in whatever order the calls in flight ended (circuit.py
\* _on_success, _on_failure).
THEOREM BreakerTripsOnStreak == Spec => []TripsOnStreak
BY BreakerInvariant, StreakTrips, PTL

-----------------------------------------------------------------------------
(* The cool-down.                                                          *)

\* At the end of any call, on whatever breaker state it was let in by, the
\* breaker is closed or at the start of its cool-down (circuit.py _on_failure):
\* an open breaker's counter is full, so that no failure passes below FailMax.
THEOREM FailureReopens == Spec => ReopensAfresh
<1> DEFINE Reopen == \A c \in Callers :
               LET u == call[c].upstream IN
               (call[c] # None /\ call'[c] = None /\ openedAge'[u] # None)
                  => openedAge'[u] = 0
<1>1. Inv /\ [Next]_vars => [Reopen]_vars
  <2> SUFFICES ASSUME Inv, Next, NEW c \in Callers, call[c] # None, call'[c] = None,
                      openedAge'[call[c].upstream] # None
               PROVE  openedAge'[call[c].upstream] = 0
    OBVIOUS
  <2> DEFINE u == call[c].upstream
  <2>1. call[c] \in Calls /\ u \in Upstreams
    BY DEF Inv, TypeOK, Calls
  <2>2. PoolTimeout(c) \/ Succeed(c) \/ Fail(c)
    <3>1. ASSUME NEW d \in Callers, NEW v \in Upstreams, Admit(d, v) PROVE FALSE
      BY <2>1, <3>1, NoneAssumption DEF Admit, Inv, TypeOK, Calls
    <3>2. ASSUME NEW d \in Callers, Connect(d) PROVE FALSE
      BY <2>1, <3>2, NoneAssumption DEF Connect, Inv, TypeOK, Calls
    <3>3. ASSUME NEW v \in Upstreams, GoDown(v) \/ ComeUp(v) PROVE FALSE
      <4>1. [call[c] EXCEPT !.lost = TRUE] \in Calls
        BY <2>1 DEF Calls
      <4>2. call'[c] \in Calls
        BY <2>1, <3>3, <4>1 DEF GoDown, ComeUp, Inv, TypeOK
      <4> QED
        BY <4>2, NoneAssumption
    <3>4. ASSUME NEW d \in Callers, d # c, PoolTimeout(d) \/ Succeed(d) \/ Fail(d) PROVE FALSE
      BY <3>4 DEF PoolTimeout, Succeed, Fail, Finish, Inv, TypeOK
    <3>5. ~Tick
      BY DEF Tick
    <3> QED
      BY <3>1, <3>2, <3>3, <3>4, <3>5 DEF Next
  <2>3. CASE on_success(u)
    BY <2>1, <2>3 DEF on_success, Inv, TypeOK
  <2>4. ASSUME NEW why, on_failure(u, why) PROVE openedAge'[u] = 0
    <3>1. openedAge'[u] = IF failures'[u] >= FailMax THEN 0 ELSE openedAge[u]
      BY <2>1, <2>4 DEF on_failure, Inv, TypeOK
    <3>2. failures[u] = FailMax => failures'[u] >= FailMax
      BY <2>1, <2>4, FailMaxAssumption DEF on_failure, CountUp, Inv, TypeOK
    <3> QED
      BY <2>1, <3>1, <3>2 DEF Inv, Streak
  <2> QED
    BY <2>2, <2>3, <2>4 DEF PoolTimeout, Succeed, Fail
<1>2. Spec => [][Reopen]_vars
  BY <1>1, BreakerInvariant, PTL DEF Spec
<1> QED
  BY <1>2 DEF ReopensAfresh

-----------------------------------------------------------------------------
(* Isolation.                                                              *)

\* An upstream's failures, other than for want of a connection, stem from
\* trouble of its own.
OwnTrouble ==
    /\ \A u \in Upstreams : ~up[u] => u \in troubled
    /\ \A c \in Sent : call[c].lost => call[c].upstream \in troubled
    /\ \A u \in Upstreams \ troubled : \A i \in 1..Len(outcomes[u]) :
          outcomes[u][i] # "failure"

LEMMA OwnTroubleNext ==
    ASSUME Inv, OwnTrouble, [Next]_vars
    PROVE  OwnTrouble'
<1>1. ASSUME NEW c \in Callers, NEW u \in Upstreams, Admit(c, u) PROVE OwnTrouble'
  BY <1>1 DEF Admit, Inv, TypeOK, OwnTrouble, Sent
<1>2. ASSUME NEW c \in Callers, Connect(c) PROVE OwnTrouble'
  <2>1. call[c] \in Calls /\ call[c].upstream \in Upstreams
    BY <1>2 DEF Connect, Inv, TypeOK, Calls
  <2>2. call'[c].upstream = call[c].upstream /\ call'[c].lost = ~up[call[c].upstream]
    BY <1>2, <2>1 DEF Connect, Inv, TypeOK, Calls
  <2>3. troubled \subseteq troubled'
    BY <1>2 DEF Connect
  <2>4. \A d \in Callers : d # c => call'[d] = call[d]
    BY <1>2 DEF Connect, Inv, TypeOK
  <2>5. ASSUME NEW d \in Sent', call'[d].lost PROVE call'[d].upstream \in troubled'
    <3>1. CASE d = c
      BY <2>1, <2>2, <2>3, <2>5, <3>1 DEF OwnTrouble, Inv, TypeOK
    <3>2. CASE d # c
      BY <2>3, <2>4, <2>5, <3>2 DEF OwnTrouble, Sent
    <3> QED
      BY <3>1, <3>2
  <2> QED
    BY <1>2, <2>3, <2>5 DEF Connect, OwnTrouble
<1>3. ASSUME NEW c \in Callers, PoolTimeout(c) \/ Succeed(c) \/ Fail(c) PROVE OwnTrouble'
  <2> DEFINE u == call[c].upstream
  <2>1. call[c] \in Calls /\ u \in Upstreams
    BY <1>3 DEF PoolTimeout, Succeed, Fail, Sent, Inv, TypeOK, Calls
  <2>2. PICK outcome \in Verdicts :
           /\ outcomes' = [outcomes EXCEPT ![u] = Recorded(u, outcome)]
           /\ outcome = "failure" => u \in troubled
    BY <1>3 DEF PoolTimeout, Succeed, Fail, on_success, on_failure, OwnTrouble, Verdicts
  <2>3. \A v \in Upstreams \ troubled : \A i \in 1..Len(outcomes'[v]) :
            outcomes'[v][i] # "failure"
    <3> SUFFICES ASSUME NEW v \in Upstreams \ troubled, NEW i \in 1..Len(outcomes'[v])
                 PROVE  outcomes'[v][i] # "failure"
      OBVIOUS
    <3>1. CASE v # u
      BY <2>2, <3>1 DEF OwnTrouble, Inv, TypeOK
    <3>2. CASE v = u
      <4>1. outcomes'[v] = Recorded(v, outcome) /\ outcome # "failure"
        BY <2>1, <2>2, <3>2 DEF Inv, TypeOK
      <4>2. Len(outcomes[v]) <= FailMax /\ outcomes[v] \in Seq(Verdicts)
        BY DEF Inv, TypeOK, Streak, Verdicts
      <4> QED
        BY <4>1, <4>2, RecordedFrom DEF OwnTrouble, Inv
    <3> QED
      BY <3>1, <3>2
  <2>4. \A d \in Sent' : d \in Sent /\ call'[d] = call[d]
    BY <1>3 DEF PoolTimeout, Succeed, Fail, Finish, Sent, Inv, TypeOK
  <2> QED
    BY <1>3, <2>3, <2>4 DEF PoolTimeout, Succeed, Fail, Finish, OwnTrouble
<1>4. ASSUME NEW u \in Upstreams, GoDown(u) PROVE OwnTrouble'
  <2>1. \A c \in Sent : call[c] \in Calls
    BY DEF Sent, Inv, TypeOK
  <2>2. \A c \in Sent' : c \in Sent /\ call'[c].upstream = call[c].upstream
                         /\ (call[c].upstream # u => call'[c] = call[c])
    BY <1>4, <2>1 DEF GoDown, Sent, Inv, TypeOK, Calls
  <2>3. u \in troubled' /\ troubled \subseteq troubled'
    BY <1>4 DEF GoDown
  <2>4. \A v \in Upstreams : ~up'[v] => v \in troubled'
    BY <1>4, <2>3 DEF GoDown, OwnTrouble, Inv, TypeOK
  <2>5. \A c \in Sent' : call'[c].lost => call'[c].upstream \in troubled'
    BY <2>2, <2>3 DEF OwnTrouble
  <2>6. \A v \in Upstreams \ troubled' : \A i \in 1..Len(outcomes'[v]) :
            outcomes'[v][i] # "failure"
    BY <1>4, <2>3 DEF GoDown, OwnTrouble
  <2> QED
    BY <2>4, <2>5, <2>6 DEF OwnTrouble
<1>5. ASSUME NEW u \in Upstreams, ComeUp(u) PROVE OwnTrouble'
  BY <1>5 DEF ComeUp, OwnTrouble, Sent, Inv, TypeOK
<1>6. CASE Tick
  BY <1>6 DEF Tick, OwnTrouble, Sent
<1>7. CASE UNCHANGED vars
  BY <1>7 DEF vars, OwnTrouble, Sent
<1> QED
  BY <1>1, <1>2, <1>3, <1>4, <1>5, <1>6, <1>7 DEF Next

\* Behind one client for all upstreams (proxy.py:25), whatever the size of its
\* pool and the number of requests: an upstream that never failed is cut off only
\* for want of a connection, FailMax times in a row, and never by the failures
\* of another.
THEOREM BreakersAreIsolated == Spec => []CutOffForCause
<1>1. Init => OwnTrouble
  BY NoneAssumption DEF Init, OwnTrouble, Sent
<1>2. Inv /\ OwnTrouble /\ [Next]_vars => OwnTrouble'
  BY OwnTroubleNext
<1>3. Inv /\ OwnTrouble => CutOffForCause
  <2> SUFFICES ASSUME Inv, OwnTrouble, NEW u \in Upstreams \ troubled, openedAge[u] # None,
                      NEW i \in 1..FailMax
               PROVE  outcomes[u][i] = "crowded"
    BY DEF CutOffForCause
  <2>1. Len(outcomes[u]) = FailMax /\ outcomes[u][i] # "success"
    BY StreakTrips DEF TripsOnStreak
  <2>2. outcomes[u][i] \in Verdicts
    BY <2>1 DEF Inv, TypeOK, Verdicts
  <2> QED
    BY <2>1, <2>2 DEF OwnTrouble, Verdicts
<1> QED
  BY <1>1, <1>2, <1>3, BreakerInvariant, PTL DEF Spec

=============================================================================
