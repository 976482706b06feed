---------------------------- MODULE DecidedOutcome ----------------------------
(***************************************************************************)
(* What the execution journal promises the callers of a tool: an execution *)
(* intent (an idempotency key) gets one outcome, once, and every caller    *)
(* that is told how the execution ended is told that outcome.              *)
(***************************************************************************)
CONSTANTS Keys, Outcomes, Undecided

VARIABLES
    outcome,   \* the outcome of every execution intent
    told       \* the outcomes its callers were told

vars == <<outcome, told>>

Init ==
    /\ outcome = [k \in Keys |-> Undecided]
    /\ told = [k \in Keys |-> {}]

Decide(k) ==
    /\ outcome[k] = Undecided
    /\ outcome'[k] \in Outcomes
    /\ outcome' = [outcome EXCEPT ![k] = outcome'[k]]
    /\ UNCHANGED told

Tell(k) ==
    /\ outcome[k] # Undecided
    /\ told' = [told EXCEPT ![k] = @ \cup {outcome[k]}]
    /\ UNCHANGED outcome

Next == \E k \in Keys : Decide(k) \/ Tell(k)

Spec == Init /\ [][Next]_vars
===============================================================================
