------------------------------ MODULE JobLease ------------------------------
(***************************************************************************)
(* What the provisioning_jobs queue promises its callers, whatever the     *)
(* processes that drain it do: a posted job is taken at most MaxAttempts   *)
(* times, is given back or given up after each take, and is never taken    *)
(* again once it is settled.  A job already taken may be settled at any    *)
(* moment, by a holder that has lost its claim too.                        *)
(***************************************************************************)
EXTENDS Naturals

CONSTANTS Jobs, MaxAttempts

VARIABLES state, takes
leaseVars == <<state, takes>>

Init ==
    /\ state = [j \in Jobs |-> "absent"]
    /\ takes = [j \in Jobs |-> 0]

Post(js) ==
    /\ \A j \in js : state[j] = "absent"
    /\ state' = [j \in Jobs |-> IF j \in js THEN "pending" ELSE state[j]]
    /\ UNCHANGED takes

Take(j) ==
    /\ state[j] = "pending"
    /\ takes[j] < MaxAttempts
    /\ state' = [state EXCEPT ![j] = "claimed"]
    /\ takes' = [takes EXCEPT ![j] = @ + 1]

(* Abandoned claims go back to the queue while an attempt is left.         *)
GiveBack(js) ==
    /\ \A j \in js : state[j] = "claimed"
    /\ state' = [j \in Jobs |->
                   IF j \notin js THEN state[j]
                   ELSE IF takes[j] < MaxAttempts THEN "pending"
                   ELSE "settled"]
    /\ UNCHANGED takes

Settle(j) ==
    /\ takes[j] > 0
    /\ state' = [state EXCEPT ![j] = "settled"]
    /\ UNCHANGED takes

Next ==
    \/ \E js \in SUBSET Jobs : Post(js) \/ GiveBack(js)
    \/ \E j \in Jobs : Take(j) \/ Settle(j)

Spec == Init /\ [][Next]_leaseVars
=============================================================================
