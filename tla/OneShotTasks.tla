----------------------------- MODULE OneShotTasks -----------------------------
(***************************************************************************)
(* What the durable task store promises to the code that submits work: a   *)
(* submitted task is decided at most once, and the decision is never       *)
(* revised -- however many workers tried it, lost their lease or came back *)
(* late.  Several tasks may move at once (lease recovery decides all that  *)
(* have used up their attempts).                                           *)
(***************************************************************************)
CONSTANTS Tasks,      \* task keys (run_id, task_id)
          Decisions   \* terminal statuses

VARIABLE outcome      \* per task: "absent", "open" or its decision

Init == outcome = [t \in Tasks |-> "absent"]

Submit(t) == outcome[t] = "absent" /\ outcome'[t] = "open"

Decide(t) == outcome[t] = "open" /\ outcome'[t] \in Decisions

Next ==
    /\ outcome' \in [Tasks -> {"absent", "open"} \cup Decisions]
    /\ \A t \in Tasks : Submit(t) \/ Decide(t) \/ outcome'[t] = outcome[t]

Spec == Init /\ [][Next]_outcome
===============================================================================
