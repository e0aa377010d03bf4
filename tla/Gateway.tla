------------------------------ MODULE Gateway ------------------------------
(***************************************************************************)
(* The gateway's fault isolation: one circuit breaker per upstream         *)
(* (circuit.py) and one HTTP client shared by all of them (proxy.py).      *)
(*                                                                         *)
(* The breaker's methods are synchronous, but `call` awaits the upstream   *)
(* between its state check and the recording of the outcome: any number of *)
(* calls are in flight at once and their outcomes arrive in any order.     *)
(* A gateway that restarts is back in Init, whatever the upstreams do.     *)
(***************************************************************************)
EXTENDS Integers, Sequences, FiniteSets

CONSTANTS
    Upstreams,     \* the services behind the gateway
    Callers,       \* slots for proxied requests in flight
    FailMax,       \* settings.breaker_fail_max
    ResetTicks,    \* settings.breaker_reset_seconds, in ticks of the clock
    PoolSize,      \* connections of the shared httpx client
    None           \* no call in the slot; the breaker was never opened

ASSUME FailMaxAssumption == FailMax \in Nat \ {0}
ASSUME ResetAssumption   == ResetTicks \in Nat \ {0}
ASSUME PoolAssumption    == PoolSize \in Nat \ {0}
ASSUME CallersAssumption == IsFiniteSet(Callers)

VARIABLES
    failures,      \* per breaker: _failures, counted up to FailMax
    openedAge,     \* per breaker: ticks since _opened_at, up to ResetTicks
    call,          \* per slot: the call in flight
    up,            \* per upstream: whether it answers
    troubled,      \* history variable: the upstreams that were ever down
    outcomes       \* history variable: per breaker, its last FailMax outcomes:
                   \* "crowded" is a failure for want of a connection

vars == <<failures, openedAge, call, up, troubled, outcomes>>

\* `lost`: the upstream was down at some moment since the request was sent.
Calls == [upstream: Upstreams, phase: {"waiting", "sent"}, lost: BOOLEAN]

ASSUME NoneAssumption == None \notin Calls \cup Upstreams /\ None \notin Nat

Init ==
    /\ failures = [u \in Upstreams |-> 0]
    /\ openedAge = [u \in Upstreams |-> None]
    /\ call = [c \in Callers |-> None]
    /\ up \in [Upstreams -> BOOLEAN]
    /\ troubled = {u \in Upstreams : ~up[u]}
    /\ outcomes = [u \in Upstreams |-> <<>>]

-----------------------------------------------------------------------------
(* The breaker.                                                            *)

state(u) ==
    IF openedAge[u] = None THEN "closed"
    ELSE IF openedAge[u] >= ResetTicks THEN "half_open" ELSE "open"

\* The last FailMax outcomes of u's breaker once `outcome` is known.
Recorded(u, outcome) ==
    LET all == Append(outcomes[u], outcome) IN
    IF Len(all) > FailMax THEN Tail(all) ELSE all

\* Mutant: the counter is not reset.
KeepCounting(u) ==
    /\ openedAge' = [openedAge EXCEPT ![u] = None]
    /\ outcomes' = [outcomes EXCEPT ![u] = Recorded(u, "success")]
    /\ UNCHANGED failures

\* Mutant: _opened_at is not cleared.
StayOpen(u) ==
    /\ failures' = [failures EXCEPT ![u] = 0]
    /\ outcomes' = [outcomes EXCEPT ![u] = Recorded(u, "success")]
    /\ UNCHANGED openedAge

on_success(u) ==
    /\ failures' = [failures EXCEPT ![u] = 0]
    /\ openedAge' = [openedAge EXCEPT ![u] = None]
    /\ outcomes' = [outcomes EXCEPT ![u] = Recorded(u, "success")]

\* Mutant: the count runs on.
CountOn(n) == n + 1

\* Only `>= fail_max` is ever asked of the counter, so it stops there.
CountUp(n) == IF n < FailMax THEN n + 1 ELSE n

\* Mutant: an open breaker keeps its first _opened_at.
OpenOnce(u, why) ==
    /\ failures' = [failures EXCEPT ![u] = CountUp(failures[u])]
    /\ openedAge' = [openedAge EXCEPT
          ![u] = IF failures'[u] >= FailMax /\ openedAge[u] = None THEN 0 ELSE openedAge[u]]
    /\ outcomes' = [outcomes EXCEPT ![u] = Recorded(u, why)]

\* Mutant: one breaker for all upstreams.
SharedBreaker(u, why) ==
    /\ failures' = [v \in Upstreams |-> CountUp(failures[v])]
    /\ openedAge' = [v \in Upstreams |->
          IF failures'[v] >= FailMax THEN 0 ELSE openedAge[v]]
    /\ outcomes' = [v \in Upstreams |-> Recorded(v, why)]

on_failure(u, why) ==
    /\ failures' = [failures EXCEPT ![u] = CountUp(failures[u])]
    /\ openedAge' = [openedAge EXCEPT
          ![u] = IF failures'[u] >= FailMax THEN 0 ELSE openedAge[u]]
    /\ outcomes' = [outcomes EXCEPT ![u] = Recorded(u, why)]

-----------------------------------------------------------------------------
(* Proxied requests: forward, and the shared client's connection pool.     *)

Sent == {c \in Callers : call[c] # None /\ call[c].phase = "sent"}

\* forward reaches breaker.call; an open circuit answers 503 and changes
\* nothing, so only the admitted calls are steps.
Admit(c, u) ==
    /\ call[c] = None
    /\ state(u) # "open"
    /\ call' = [call EXCEPT ![c] =
          [upstream |-> u, phase |-> "waiting", lost |-> FALSE]]
    /\ UNCHANGED <<failures, openedAge, up, troubled, outcomes>>

Connect(c) ==
    /\ call[c] # None /\ call[c].phase = "waiting"
    /\ Cardinality(Sent) < PoolSize
    /\ call' = [call EXCEPT ![c].phase = "sent", ![c].lost = ~up[call[c].upstream]]
    /\ UNCHANGED <<failures, openedAge, up, troubled, outcomes>>

Finish(c) == call' = [call EXCEPT ![c] = None] /\ UNCHANGED <<up, troubled>>

\* httpx.PoolTimeout: no connection came free in time.
PoolTimeout(c) ==
    /\ call[c] # None /\ call[c].phase = "waiting"
    /\ Cardinality(Sent) >= PoolSize
    /\ on_failure(call[c].upstream, "crowded")
    /\ Finish(c)

\* Any HTTP response is a success to the breaker, a 5xx too.
Succeed(c) ==
    /\ c \in Sent
    /\ up[call[c].upstream]
    /\ on_success(call[c].upstream)
    /\ Finish(c)

\* The connection is refused, breaks, or times out.
Fail(c) ==
    /\ c \in Sent
    /\ call[c].lost
    /\ on_failure(call[c].upstream, "failure")
    /\ Finish(c)

-----------------------------------------------------------------------------
(* The environment: upstreams stop and recover, time passes.               *)

GoDown(u) ==
    /\ up[u]
    /\ up' = [up EXCEPT ![u] = FALSE]
    /\ troubled' = troubled \cup {u}
    /\ call' = [c \in Callers |->
          IF c \in Sent /\ call[c].upstream = u
          THEN [call[c] EXCEPT !.lost = TRUE] ELSE call[c]]
    /\ UNCHANGED <<failures, openedAge, outcomes>>

ComeUp(u) ==
    /\ ~up[u]
    /\ up' = [up EXCEPT ![u] = TRUE]
    /\ UNCHANGED <<failures, openedAge, call, troubled, outcomes>>

Tick ==
    /\ \E u \in Upstreams : state(u) = "open"
    /\ openedAge' = [u \in Upstreams |->
          IF state(u) = "open" THEN openedAge[u] + 1 ELSE openedAge[u]]
    /\ UNCHANGED <<failures, call, up, troubled, outcomes>>

Next ==
    \/ \E c \in Callers :
          \/ \E u \in Upstreams : Admit(c, u)
          \/ Connect(c) \/ PoolTimeout(c) \/ Succeed(c) \/ Fail(c)
    \/ \E u \in Upstreams : GoDown(u) \/ ComeUp(u)
    \/ Tick

Spec == Init /\ [][Next]_vars

\* The event loop runs on, httpx ends every call it has sent, the clock ticks
\* and requests for each upstream keep coming.  Nothing makes upstreams recover.
Fairness ==
    /\ \A c \in Callers : WF_vars(Connect(c)) /\ WF_vars(Succeed(c) \/ Fail(c))
    /\ \A u \in Upstreams : SF_vars(\E c \in Callers : Admit(c, u))
    /\ WF_vars(Tick)

FairSpec == Spec /\ Fairness

-----------------------------------------------------------------------------
(* Properties.                                                             *)

TypeOK ==
    /\ failures \in [Upstreams -> 0..FailMax]
    /\ openedAge \in [Upstreams -> 0..ResetTicks \cup {None}]
    /\ call \in [Callers -> Calls \cup {None}]
    /\ up \in [Upstreams -> BOOLEAN]
    /\ troubled \subseteq Upstreams
    /\ outcomes \in [Upstreams -> Seq({"success", "failure", "crowded"})]

\* circuit.py: "OPEN (fail fast) after `fail_max` consecutive failures".  The
\* breaker is out of "closed" exactly when its last FailMax outcomes, in the
\* order they arrived, are all failures, whichever calls they belong to.
TripsOnStreak ==
    \A u \in Upstreams :
        openedAge[u] # None <=>
            /\ Len(outcomes[u]) = FailMax
            /\ \A i \in 1..FailMax : outcomes[u][i] # "success"

\* circuit.py:51-53, "OPEN on failure": whatever state the breaker let a call in
\* by, and however late the call ends, at its end the breaker is closed or begins
\* the whole cool-down: no failure leaves an open period that is half over.
ReopensAfresh ==
    [][\A c \in Callers :
          LET u == call[c].upstream IN
          (call[c] # None /\ call'[c] = None /\ openedAge'[u] # None)
             => openedAge'[u] = 0]_vars

\* proxy.py:3, "one failing service trips only its own breaker", as far as it goes
\* behind the one client of proxy.py:25: the failures of an upstream count against
\* no other one.  It can still hold the pool that all share until it fails; an
\* upstream that never failed is cut off, if at all, after FailMax calls in a
\* row that found no connection.
CutOffForCause ==
    \A u \in Upstreams :
        openedAge[u] # None /\ u \notin troubled
            => \A i \in 1..FailMax : outcomes[u][i] = "crowded"

\* An upstream that comes back for good, in a gateway no longer overloaded, is
\* reached again for good: no late failure and no interplay of open periods
\* keeps its breaker from closing.
Uncrowded == Cardinality({c \in Callers : call[c] # None}) <= PoolSize

Recovers ==
    \A u \in Upstreams : (<>[](up[u] /\ Uncrowded)) => <>[](openedAge[u] = None)

=============================================================================
