------------------------ MODULE ApplicationPipeline ------------------------
(***************************************************************************)
(* What the applications service promises, without requests, sessions and  *)
(* events: each application is a walk along the recruitment pipeline that  *)
(* only ever grows, and a new one starts only below the candidate's cap.   *)
(* As long as no two requests meet, `raced` stays empty and `crowd` within *)
(* one, and this is what the documents say.  Where they do meet, a walk on *)
(* a raced pair may be replaced by another legal one, and the cap of a     *)
(* candidate gives way by the requests that crowd beyond the first.        *)
(***************************************************************************)
EXTENDS Integers, Sequences, FiniteSets

CONSTANTS
    Jobs,         \* job ids
    Candidates,   \* candidate ids
    MaxActive     \* settings.max_active_applications

VARIABLES
    walk,         \* per (job, candidate), the stages so far; empty before it applies
    raced,        \* the pairs on which requests have met
    crowd         \* per candidate, how many requests have met

Order == <<"applied", "screening", "interview", "offer", "hired">>

InProgress == {Order[i] : i \in 1..4}

StageOf(w) == IF w = <<>> THEN "none" ELSE w[Len(w)]

Init ==
    /\ walk = [p \in Jobs \X Candidates |-> <<>>]
    /\ raced = {}
    /\ crowd = [c \in Candidates |-> 0]

Extend(p, stage) ==
    /\ walk' = [walk EXCEPT ![p] = Append(@, stage)]
    /\ UNCHANGED <<raced, crowd>>

Cap(c) == MaxActive + (IF crowd[c] = 0 THEN 0 ELSE crowd[c] - 1)

Apply(j, c) ==
    /\ walk[<<j, c>>] = <<>>
    /\ Cardinality({k \in Jobs : StageOf(walk[<<k, c>>]) \in InProgress}) < Cap(c)
    /\ Extend(<<j, c>>, "applied")

\* One stage to the next, or out.
Onward(from, to) ==
    \/ \E i \in 1..4 : from = Order[i] /\ to = Order[i + 1]
    \/ from \in InProgress /\ to \in {"rejected", "withdrawn"}

Move(p) ==
    \E stage \in {Order[i] : i \in 2..5} \cup {"rejected", "withdrawn"} :
        Onward(StageOf(walk[p]), stage) /\ Extend(p, stage)

LegalWalk(w) ==
    /\ Len(w) > 0 /\ w[1] = "applied"
    /\ \A i \in 1..(Len(w) - 1) : Onward(w[i], w[i + 1])

\* The later of two requests that met on p overwrites what the other wrote.
Rewrite(p) ==
    /\ p \in raced
    /\ walk' = [walk EXCEPT ![p] = walk'[p]]
    /\ LegalWalk(walk'[p])
    /\ UNCHANGED <<raced, crowd>>

\* Requests meet on p, or one more request of its candidate joins the crowd.
Meet(p) ==
    /\ raced' \in {raced, raced \cup {p}}
    /\ crowd' \in {crowd, [crowd EXCEPT ![p[2]] = @ + 1]}
    /\ UNCHANGED walk

Next ==
    \/ \E j \in Jobs, c \in Candidates : Apply(j, c)
    \/ \E p \in Jobs \X Candidates : Move(p) \/ Rewrite(p) \/ Meet(p)

Spec == Init /\ [][Next]_<<walk, raced, crowd>>

=============================================================================
