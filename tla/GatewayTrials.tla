--------------------------- MODULE GatewayTrials ---------------------------
(***************************************************************************)
(* Gateway against the state machine its breaker documents.  Which calls   *)
(* are trials is not in the breaker's state: a history variable keeps the  *)
(* calls that a half-open breaker let in.                                  *)
(***************************************************************************)
EXTENDS Gateway

VARIABLE trials    \* history variable: the slots with such a call in flight

\* How `trials` follows a step of the gateway.
Follow == trials' = {c \in Callers :
    /\ call'[c] # None
    /\ c \in trials \/ (call[c] = None /\ state(call'[c].upstream) = "half_open")}

TrialsSpec ==
    /\ Init /\ trials = {}
    /\ [][Next /\ Follow]_<<vars, trials>>
    /\ Fairness

-----------------------------------------------------------------------------
Calling == [c \in Callers |-> IF call[c] = None THEN None ELSE call[c].upstream]

Documented == INSTANCE Breaker WITH
    status <- [u \in Upstreams |-> state(u)], calling <- Calling

\* circuit.py:3-5: "HALF_OPEN (one trial) ... CLOSED on success / OPEN on
\* failure".  The code does not keep this: `call` lets every call of a half-open
\* breaker through, and a late success closes an open one.
ImplementsBreaker == Documented!Spec

=============================================================================
