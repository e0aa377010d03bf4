------------------------------ MODULE Breaker ------------------------------
(***************************************************************************)
(* The circuit breaker as the docstring of circuit.py describes it:        *)
(*     CLOSED -> OPEN after `fail_max` consecutive failures                *)
(*     -> HALF_OPEN (one trial) after `reset_seconds`                      *)
(*     -> CLOSED on success / OPEN on failure.                             *)
(* It is left open which call of a closed breaker trips it: the counting   *)
(* of consecutive failures is TripsOnStreak of Gateway.  An outcome that   *)
(* comes late, of a call let in before the breaker opened, moves nothing   *)
(* but a failure's cool-down: only the one trial leads out of HALF_OPEN.   *)
(***************************************************************************)
CONSTANTS
    Upstreams,    \* the services behind the gateway
    Callers,      \* slots for calls in flight
    None          \* no call in the slot

VARIABLES
    status,       \* per breaker, its state
    calling,      \* per slot, the upstream of the call in flight
    trials        \* the slots whose call is the trial of a half-open breaker

Init ==
    /\ status = [u \in Upstreams |-> "closed"]
    /\ calling = [c \in Callers |-> None]
    /\ trials = {}

\* A closed breaker lets every call through.
Call(c, u) ==
    /\ calling[c] = None
    /\ status[u] = "closed"
    /\ calling' = [calling EXCEPT ![c] = u]
    /\ UNCHANGED <<status, trials>>

\* A half-open one lets one through, the trial.
Try(c, u) ==
    /\ calling[c] = None
    /\ status[u] = "half_open"
    /\ \A d \in trials : calling[d] # u
    /\ calling' = [calling EXCEPT ![c] = u]
    /\ trials' = trials \cup {c}
    /\ UNCHANGED status

End(c, u) ==
    /\ calling[c] = u
    /\ calling' = [calling EXCEPT ![c] = None]
    /\ trials' = trials \ {c}

\* Only the trial's success closes a breaker that has opened.
Succeed(c, u) ==
    /\ End(c, u)
    /\ status' = [status EXCEPT ![u] =
          IF @ = "half_open" /\ c \in trials THEN "closed" ELSE @]

\* A failure may trip a closed breaker, and keeps or makes any other open.
Fail(c, u) ==
    /\ End(c, u)
    /\ \/ status' = [status EXCEPT ![u] = "open"]
       \/ status[u] = "closed" /\ UNCHANGED status

\* `reset_seconds` have passed, for some of the open breakers.
WaitOut ==
    /\ \E U \in SUBSET {u \in Upstreams : status[u] = "open"} :
          status' = [u \in Upstreams |-> IF u \in U THEN "half_open" ELSE status[u]]
    /\ UNCHANGED <<calling, trials>>

Next ==
    \/ \E c \in Callers, u \in Upstreams :
          Call(c, u) \/ Try(c, u) \/ Succeed(c, u) \/ Fail(c, u)
    \/ WaitOut

Spec == Init /\ [][Next]_<<status, calling, trials>>

=============================================================================
