---------------------------- MODULE RateLimiter ----------------------------
(***************************************************************************)
(* The gateway's fixed-window rate limiter (ratelimit.py), which sits in   *)
(* front of every proxied request, and the counters it keeps in Redis.     *)
(*                                                                         *)
(* `allow` reads the clock once and then sends one or two commands: INCR   *)
(* of the caller's key for that minute, and EXPIRE if it is the first.     *)
(* Requests of all callers run between the two, the minute may end, Redis  *)
(* may stop, come back without its memory, or lose an answer on the way.   *)
(* Time is kept as the minute and the ticks into it, and the life a key    *)
(* has left is counted down, as Redis does.                                *)
(***************************************************************************)
EXTENDS Integers, FiniteSets

CONSTANTS
    Callers,       \* client addresses
    Requests,      \* slots for requests in the gateway
    Limit,         \* settings.rate_limit_per_minute
    WindowTicks,   \* ticks in a minute
    MaxWindow,     \* the last minute that is looked at
    MaxArrivals,   \* requests a caller sends in a minute
    MaxFaults,     \* outages, losses and restarts
    None           \* no request in the slot; a key without an expiry

ASSUME RequestsAssumption == IsFiniteSet(Requests)
ASSUME LimitAssumption    == Limit \in Nat
ASSUME TicksAssumption    == WindowTicks \in Nat \ {0}
ASSUME BoundsAssumption   == MaxWindow \in Nat /\ MaxArrivals \in Nat /\ MaxFaults \in Nat

\* f"rl:{identifier}:{window}"
Keys == Callers \X (0..MaxWindow)

InFlight == [key: Keys, step: {"incr", "expire"}]

ASSUME NoneAssumption == None \notin InFlight /\ None \notin Nat

VARIABLES
    window,     \* int(time.time() // 60)
    ticks,      \* how far into the minute
    count,      \* Redis: the value of each key, 0 when there is none
    ttl,        \* Redis: the ticks each key has left, None without an expiry
    up,         \* whether Redis can be reached
    request,    \* the requests inside `allow`
    faults,     \* outages, losses and restarts so far
    arrived,    \* history variable: per key, the requests that came
    admitted,   \* history variable: per key, those let in by a count taken in
                \* its minute, since Redis last lost its memory
    late,       \* history variable: per key, those let in by a later count
    refused     \* history variable: the keys that were answered 429

redis == <<count, ttl>>
clock == <<window, ticks>>
history == <<arrived, admitted, late, refused>>
vars == <<clock, redis, up, request, faults, history>>

Init ==
    /\ window = 0 /\ ticks = 0
    /\ count = [k \in Keys |-> 0]
    /\ ttl = [k \in Keys |-> None]
    /\ up = TRUE
    /\ request = [r \in Requests |-> None]
    /\ faults = 0
    /\ arrived = [k \in Keys |-> 0]
    /\ admitted = [k \in Keys |-> 0]
    /\ late = [k \in Keys |-> 0]
    /\ refused = {}

-----------------------------------------------------------------------------
(* gateway_proxy and allow.                                                *)

\* Mutant: one counter for all callers.
SharedKey(c) == <<CHOOSE d \in Callers : TRUE, window>>

KeyOf(c) == <<c, window>>

At(r, step) == request[r] # None /\ request[r].step = step

\* A route that exists; the others are answered 404 before.
Arrive(r, c) ==
    /\ request[r] = None
    /\ arrived[<<c, window>>] < MaxArrivals
    /\ request' = [request EXCEPT ![r] = [key |-> KeyOf(c), step |-> "incr"]]
    /\ arrived' = [arrived EXCEPT ![<<c, window>>] = @ + 1]
    /\ UNCHANGED <<clock, redis, up, faults, admitted, late, refused>>

Leave(r) == request' = [request EXCEPT ![r] = None]

\* Mutant: one too many.
OnePlus(n) == n <= Limit + 1

WithinLimit(n) == n <= Limit

\* What INCR's answer means for the caller: forwarded, or 429.
Record(k, n) ==
    /\ admitted' = IF WithinLimit(n) /\ k[2] = window
                   THEN [admitted EXCEPT ![k] = @ + 1] ELSE admitted
    /\ late' = IF WithinLimit(n) /\ k[2] # window THEN [late EXCEPT ![k] = @ + 1] ELSE late
    /\ refused' = IF WithinLimit(n) THEN refused ELSE refused \cup {k}
    /\ UNCHANGED arrived

\* Mutant: the expiry is set by the second request.
SecondSets(n) == n = 2

FirstSets(n) == n = 1

Incr(r) ==
    LET k == request[r].key
        n == count[k] + 1 IN
    /\ At(r, "incr") /\ up
    /\ count' = [count EXCEPT ![k] = n]
    /\ IF FirstSets(n) THEN request' = [request EXCEPT ![r].step = "expire"] ELSE Leave(r)
    /\ Record(k, n)
    /\ UNCHANGED <<clock, ttl, up, faults>>

\* Mutant: a tick too many.
LongLife == WindowTicks + 1

Life == WindowTicks

SetLife(k) == ttl' = [ttl EXCEPT ![k] = IF count[k] > 0 THEN Life ELSE None]

Expire(r) ==
    /\ At(r, "expire") /\ up
    /\ SetLife(request[r].key)
    /\ Leave(r)
    /\ UNCHANGED <<clock, count, up, faults, history>>

\* An exception of either command: the request is let through, uncounted.
FailOpen(r) ==
    /\ request[r] # None /\ ~up
    /\ Leave(r)
    /\ UNCHANGED <<clock, redis, up, faults, history>>

-----------------------------------------------------------------------------
(* Faults, and time.                                                       *)

Fault == faults < MaxFaults /\ faults' = faults + 1

\* Redis has executed the command, but the answer is lost: fail-open again.
AnswerLost(r) ==
    LET k == request[r].key IN
    /\ Fault
    /\ request[r] # None /\ up
    /\ \/ At(r, "incr") /\ count' = [count EXCEPT ![k] = @ + 1] /\ UNCHANGED ttl
       \/ At(r, "expire") /\ SetLife(k) /\ UNCHANGED count
    /\ Leave(r)
    /\ UNCHANGED <<clock, up, history>>

Stop ==
    /\ Fault /\ up
    /\ up' = FALSE
    /\ UNCHANGED <<clock, redis, request, history>>

\* Redis is back, with its keys or, if its container is new, without.
Return ==
    /\ ~up
    /\ up' = TRUE
    /\ \/ UNCHANGED <<redis, admitted>>
       \/ /\ count' = [k \in Keys |-> 0]
          /\ ttl' = [k \in Keys |-> None]
          /\ admitted' = [k \in Keys |-> 0]
    /\ UNCHANGED <<clock, request, faults, arrived, late, refused>>

\* The gateway restarts; its requests are gone.
Restart ==
    /\ Fault
    /\ request' = [r \in Requests |-> None]
    /\ UNCHANGED <<clock, redis, up, history>>

\* A key at the end of its life vanishes.
Tick ==
    /\ window < MaxWindow \/ ticks + 1 < WindowTicks
    /\ IF ticks + 1 < WindowTicks
       THEN ticks' = ticks + 1 /\ UNCHANGED window
       ELSE ticks' = 0 /\ window' = window + 1
    /\ ttl' = [k \in Keys |-> IF ttl[k] \in {None, 1} THEN None ELSE ttl[k] - 1]
    /\ count' = [k \in Keys |-> IF ttl[k] = 1 THEN 0 ELSE count[k]]
    /\ UNCHANGED <<up, request, faults, history>>

Next ==
    \/ \E r \in Requests :
          \/ \E c \in Callers : Arrive(r, c)
          \/ Incr(r) \/ Expire(r) \/ FailOpen(r) \/ AnswerLost(r)
    \/ Stop \/ Return \/ Restart \/ Tick

Spec == Init /\ [][Next]_vars

-----------------------------------------------------------------------------
(* Properties.                                                             *)

TypeOK ==
    /\ window \in 0..MaxWindow
    /\ ticks \in 0..(WindowTicks - 1)
    /\ count \in [Keys -> Nat]
    /\ ttl \in [Keys -> 1..WindowTicks \cup {None}]
    /\ up \in BOOLEAN
    /\ request \in [Requests -> InFlight \cup {None}]
    /\ faults \in 0..MaxFaults
    /\ arrived \in [Keys -> Nat]
    /\ admitted \in [Keys -> Nat]
    /\ late \in [Keys -> Nat]
    /\ refused \subseteq Keys

\* ratelimit.py: "under the per-minute limit".  The counter of a minute lives
\* as long as the minute does, whenever its EXPIRE arrives, so as long as Redis
\* keeps its memory at most Limit are let in by count.  Those that read the
\* clock before the minute ended and reach Redis after it may meet a fresh
\* counter; they are at most the requests then in flight.
LimitPerMinute ==
    \A k \in Keys :
        /\ admitted[k] <= Limit
        /\ late[k] <= Cardinality(Requests)

\* main.py: the limit is per client.  Whoever is refused has sent more than
\* Limit requests in that minute himself: neither other callers, nor minutes
\* gone by, nor a counter that lost its expiry, are held against him.
RefusalsAreEarned == \A k \in refused : arrived[k] > Limit

\* The keys that will stay in Redis for ever.
Leaked ==
    {k \in Keys : /\ count[k] > 0 /\ ttl[k] = None
                  /\ ~\E r \in Requests : At(r, "expire") /\ request[r].key = k}

\* ratelimit.py allow: INCR and EXPIRE are two commands.  A key is left without
\* an expiry only by a fault, and a fault leaves at most one per request.
LeaksAreFaults == Cardinality(Leaked) <= faults * Cardinality(Requests)

=============================================================================
