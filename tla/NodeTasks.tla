------------------------------- MODULE NodeTasks -------------------------------
(***************************************************************************)
(* The durable worker protocol: clients submit tasks to a shared state     *)
(* store and wait with a deadline; worker processes recover expired        *)
(* leases, claim tasks, keep their lease alive from a heartbeat thread,    *)
(* run the handler and complete the task under the fencing token (owner,   *)
(* generation) of their claim.                                             *)
(*                                                                         *)
(* The store is MemoryRuntimeStateStore: every method is one lock region,  *)
(* hence one step here.  Workers and clients are interleaved between any   *)
(* two of their store calls; a worker may stall for any time or crash.     *)
(*                                                                         *)
(* Abstractions: time is a flag per lease (expired or not) and the         *)
(* client's freedom to reach its deadline; a run has one task, so          *)
(* cancelling the run is per task; "partial" is a "completed"; a result    *)
(* artifact is the generation that wrote it.                               *)
(***************************************************************************)
EXTENDS Naturals, FiniteSets

CONSTANTS
    Tasks,
    Workers,       \* worker processes
    Owners,        \* worker ids; a restarted process may reuse one
    OwnerOf,       \* the worker id each process runs under
    NoOwner,       \* lease_owner = ""
    MaxAttempts,   \* distributed_worker_max_attempts
    Isolated,      \* TRUE: the process backend, FALSE: the inline backend
    MaxCrashes     \* bound: worker crashes explored

ASSUME NodeTasksConstants ==
    /\ OwnerOf \in [Workers -> Owners]
    /\ NoOwner \notin Owners
    /\ MaxAttempts \in Nat \ {0}
    /\ Isolated \in BOOLEAN
    /\ MaxCrashes \in Nat

VARIABLES
    task,      \* NodeTaskState of every task
    canceled,  \* tasks whose run is in _cancellations
    worker,    \* where every worker process stands
    client,    \* where the waiting client of every task stands
    crashes

vars == <<task, canceled, worker, client, crashes>>

Terminal == {"completed", "failed", "timeout", "canceled"}   \* TERMINAL_TASK_STATUSES

\* mutant: a recovered task is not offered again
Claimable_QueuedOnly == {"queued"}

Claimable == {"queued", "retry"}   \* the store never keeps "pending"

TaskStates ==
    [status   : {"absent", "queued", "running", "retry"} \cup Terminal,
     owner    : Owners \cup {NoOwner},   \* lease_owner
     gen      : Nat,                     \* lease_generation
     attempts : Nat,
     expired  : BOOLEAN,                 \* lease_until has passed
     result   : Nat]                     \* generation of resultArtifactUri, 0: none

WorkerStates ==
    [pc   : {"down", "idle", "recovered", "claimed", "running", "publishing",
             "failing", "expiring"},
     task : Tasks,
     gen  : Nat,
     beat : BOOLEAN]                     \* the heartbeat thread is alive

ClientStates ==
    [pc     : {"idle", "waiting", "reading", "fencing", "rechecking", "done"},
     seen   : Nat,                       \* the generation read before fencing
     answer : {"none"} \cup Terminal]

NewTask == [status |-> "absent", owner |-> NoOwner, gen |-> 0, attempts |-> 0,
            expired |-> FALSE, result |-> 0]

Init ==
    /\ task = [t \in Tasks |-> NewTask]
    /\ canceled = {}
    /\ \E t \in Tasks :
          worker = [w \in Workers |-> [pc |-> "idle", task |-> t, gen |-> 0,
                                       beat |-> FALSE]]
    /\ client = [t \in Tasks |-> [pc |-> "idle", seen |-> 0, answer |-> "none"]]
    /\ crashes = 0

-------------------------------------------------------------------------------
(* The store *)

\* mutants: the generation of the claim, the whole token, or all but the
\* generation is not compared
FenceMatches_OwnerOnly(t, w) ==
    task[t].status = "running" /\ task[t].owner = OwnerOf[w]

FenceMatches_AnyRunning(t, w) == task[t].status = "running"

FenceMatches_GenerationOnly(t, w) == task[t].gen = worker[w].gen

\* node_task_fence_matches for the claim worker w holds
FenceMatches(t, w) ==
    /\ task[t].status = "running"
    /\ task[t].owner = OwnerOf[w]
    /\ task[t].gen = worker[w].gen
    /\ worker[w].gen > 0

\* claim_node_task: the claimed record
Claimed(s, o) ==
    [s EXCEPT !.status = "running", !.attempts = @ + 1, !.owner = o,
              !.gen = @ + 1, !.expired = FALSE]

\* mutant: one attempt too many
Recovered_OneMore(s) ==
    IF s.status = "running" /\ s.expired
    THEN [s EXCEPT !.status = IF s.attempts <= MaxAttempts THEN "retry" ELSE "failed",
                   !.owner = NoOwner, !.expired = FALSE]
    ELSE s

\* recover_expired_node_tasks: the generation is not changed
Recovered(s) ==
    IF s.status = "running" /\ s.expired
    THEN [s EXCEPT !.status = IF s.attempts < MaxAttempts THEN "retry" ELSE "failed",
                   !.owner = NoOwner, !.expired = FALSE]
    ELSE s

\* complete_node_task of a running task under its fence
Completed(s, v, g) == [s EXCEPT !.status = v, !.expired = FALSE, !.result = g]

\* mutant: a decided task is fenced like any other
Fenced_Always(s, v) ==
    [s EXCEPT !.status = v, !.gen = @ + 1, !.owner = NoOwner, !.expired = FALSE]

\* fence_node_task: a decided task stays as it is
Fenced(s, v) ==
    IF s.status \in Terminal THEN s
    ELSE [s EXCEPT !.status = v, !.gen = @ + 1, !.owner = NoOwner,
                   !.expired = FALSE]

\* assert_expected_generation: 0 stands for "whatever it is now"
GenerationAsExpected(t, expected) == expected = 0 \/ task[t].gen = expected

-------------------------------------------------------------------------------
(* A worker process *)

Step(w, pc) == worker' = [worker EXCEPT ![w].pc = pc]

\* run_once, first call: recover every expired lease
Recover(w) ==
    /\ worker[w].pc = "idle"
    /\ task' = [t \in Tasks |-> Recovered(task[t])]
    /\ Step(w, "recovered")
    /\ UNCHANGED <<canceled, client, crashes>>

\* run_once, second call: claim the next claimable task
ClaimNext(w) ==
    /\ worker[w].pc = "recovered"
    /\ \E t \in Tasks :
          /\ task[t].status \in Claimable
          /\ task' = [task EXCEPT ![t] = Claimed(@, OwnerOf[w])]
          /\ worker' = [worker EXCEPT ![w] =
                [pc |-> "claimed", task |-> t, gen |-> task[t].gen + 1,
                 beat |-> FALSE]]
    /\ UNCHANGED <<canceled, client, crashes>>

NothingToClaim(w) ==
    /\ worker[w].pc = "recovered"
    /\ \A t \in Tasks : task[t].status \notin Claimable
    /\ Step(w, "idle")
    /\ UNCHANGED <<task, canceled, client, crashes>>

\* _complete_claimed: a stale fence is swallowed; the worker is free again
CompleteClaimed(w, v, g) ==
    LET t == worker[w].task
    IN  /\ task' = IF FenceMatches(t, w)
                   THEN [task EXCEPT ![t] = Completed(@, v, g)] ELSE task
        /\ worker' = [worker EXCEPT ![w].pc = "idle", ![w].beat = FALSE]
        /\ UNCHANGED <<canceled, client, crashes>>

\* the run was cancelled before the handler started
CanceledBeforeRun(w) ==
    /\ worker[w].pc = "claimed"
    /\ worker[w].task \in canceled
    /\ CompleteClaimed(w, "canceled", 0)

\* start the heartbeat thread and the handler
StartHandler(w) ==
    /\ worker[w].pc = "claimed"
    /\ worker[w].task \notin canceled
    /\ worker' = [worker EXCEPT ![w].pc = "running", ![w].beat = TRUE]
    /\ UNCHANGED <<task, canceled, client, crashes>>

\* _heartbeat_loop: extend the lease, expired or not, or stop for good
Heartbeat(w) ==
    LET t == worker[w].task
    IN  /\ worker[w].beat
        /\ IF FenceMatches(t, w)
           THEN /\ task' = [task EXCEPT ![t].expired = FALSE]
                /\ UNCHANGED worker
           ELSE /\ worker' = [worker EXCEPT ![w].beat = FALSE]
                /\ UNCHANGED task
        /\ UNCHANGED <<canceled, client, crashes>>

\* _task_canceled
TaskCanceled(w) ==
    worker[w].task \in canceled \/ ~FenceMatches(worker[w].task, w)

\* the handler returns and the task is still ours: write the result artifact
HandlerReturns(w) ==
    /\ worker[w].pc = "running"
    /\ ~TaskCanceled(w)
    /\ Step(w, "publishing")
    /\ UNCHANGED <<task, canceled, client, crashes>>

\* complete the task with the artifact that was written, whatever the handler
\* says of its outcome
Publish(w) ==
    /\ worker[w].pc = "publishing"
    /\ \E v \in {"completed", "failed"} : CompleteClaimed(w, v, worker[w].gen)

\* the handler returned and the task is no longer ours: nothing is completed and
\* the lease, if it is still held, is left to expire
DropResult(w) ==
    /\ worker[w].pc = "running"
    /\ TaskCanceled(w)
    /\ worker' = [worker EXCEPT ![w].pc = "idle", ![w].beat = FALSE]
    /\ UNCHANGED <<task, canceled, client, crashes>>

\* process backend: the child is terminated while it runs
Terminate(w) ==
    /\ worker[w].pc = "running" /\ Isolated
    /\ TaskCanceled(w)
    /\ Step(w, "failing")
    /\ UNCHANGED <<task, canceled, client, crashes>>

\* the handler raises, or its result cannot be written
HandlerFails(w) ==
    /\ worker[w].pc \in {"running", "publishing"}
    /\ Step(w, "failing")
    /\ UNCHANGED <<task, canceled, client, crashes>>

\* process backend: the child runs past timeoutSeconds
HandlerExpires(w) ==
    /\ worker[w].pc = "running" /\ Isolated
    /\ Step(w, "expiring")
    /\ UNCHANGED <<task, canceled, client, crashes>>

ReportFailure(w) ==
    \/ worker[w].pc = "failing" /\ CompleteClaimed(w, "failed", 0)
    \/ worker[w].pc = "expiring" /\ CompleteClaimed(w, "timeout", 0)

\* the process dies (also when the request artifact cannot be read)
Crash(w) ==
    /\ worker[w].pc # "down"
    /\ crashes < MaxCrashes
    /\ crashes' = crashes + 1
    /\ worker' = [worker EXCEPT ![w].pc = "down", ![w].beat = FALSE]
    /\ UNCHANGED <<task, canceled, client>>

Restart(w) ==
    /\ worker[w].pc = "down"
    /\ Step(w, "idle")
    /\ UNCHANGED <<task, canceled, client, crashes>>

\* a lease runs out, whether its holder is dead or only slow
LeaseExpires(t) ==
    /\ task[t].status = "running" /\ ~task[t].expired
    /\ task' = [task EXCEPT ![t].expired = TRUE]
    /\ UNCHANGED <<canceled, worker, client, crashes>>

-------------------------------------------------------------------------------
(* The client of a task *)

\* submit: enqueue_node_task keeps an existing task; a client may come back
Submit(t) ==
    /\ client[t].pc \in {"idle", "done"}
    /\ task' = IF task[t].status = "absent"
               THEN [task EXCEPT ![t].status = "queued"] ELSE task
    /\ client' = [client EXCEPT ![t].pc = "waiting", ![t].answer = "none"]
    /\ UNCHANGED <<canceled, worker, crashes>>

Answer(t, v) ==
    client' = [client EXCEPT ![t].pc = "done", ![t].answer = v, ![t].seen = 0]

\* wait, one poll: is the run cancelled?
Poll(t) ==
    /\ client[t].pc = "waiting"
    /\ IF t \in canceled THEN Answer(t, "canceled")
       ELSE client' = [client EXCEPT ![t].pc = "reading"]
    /\ UNCHANGED <<task, canceled, worker, crashes>>

\* then: is the task decided?
Read(t) ==
    /\ client[t].pc = "reading"
    /\ IF task[t].status \in Terminal THEN Answer(t, task[t].status)
       ELSE client' = [client EXCEPT ![t].pc = "waiting"]
    /\ UNCHANGED <<task, canceled, worker, crashes>>

\* wait: the deadline passes, the current record is read
Deadline(t) ==
    /\ client[t].pc = "waiting"
    /\ client' = [client EXCEPT ![t].pc = "fencing", ![t].seen = task[t].gen]
    /\ UNCHANGED <<task, canceled, worker, crashes>>

\* fence_node_task(timeout, expected_generation = the generation just read)
Fence(t) ==
    /\ client[t].pc = "fencing"
    /\ IF GenerationAsExpected(t, client[t].seen)
       THEN /\ task' = [task EXCEPT ![t] = Fenced(@, "timeout")]
            /\ Answer(t, Fenced(task[t], "timeout").status)
       ELSE /\ client' = [client EXCEPT ![t].pc = "rechecking"]
            /\ UNCHANGED task
    /\ UNCHANGED <<canceled, worker, crashes>>

\* StaleNodeTaskFence: read again; a task that is not decided is reported as
\* timed out all the same
Recheck(t) ==
    /\ client[t].pc = "rechecking"
    /\ Answer(t, IF task[t].status \in Terminal THEN task[t].status
                 ELSE "timeout")
    /\ UNCHANGED <<task, canceled, worker, crashes>>

CancelRun(t) ==
    /\ t \notin canceled
    /\ canceled' = canceled \cup {t}
    /\ UNCHANGED <<task, worker, client, crashes>>

-------------------------------------------------------------------------------
WorkerStep(w) ==
    \/ Recover(w) \/ ClaimNext(w) \/ NothingToClaim(w)
    \/ CanceledBeforeRun(w) \/ StartHandler(w)
    \/ HandlerReturns(w) \/ Publish(w) \/ DropResult(w) \/ Terminate(w)
    \/ HandlerFails(w) \/ HandlerExpires(w) \/ ReportFailure(w)
    \/ Restart(w)

ClientStep(t) ==
    \/ Submit(t) \/ Poll(t) \/ Read(t) \/ Deadline(t) \/ Fence(t) \/ Recheck(t)

Next ==
    \/ \E w \in Workers : WorkerStep(w) \/ Heartbeat(w) \/ Crash(w)
    \/ \E t \in Tasks : ClientStep(t) \/ LeaseExpires(t) \/ CancelRun(t)

Spec == Init /\ [][Next]_vars

\* a lease nobody extends any more
Abandoned(t) == \A w \in Workers : ~(worker[w].beat /\ FenceMatches(t, w))

\* Workers keep running (the handler returns or its process is terminated at
\* timeoutSeconds, a crashed worker is started again), and time passes for an
\* abandoned lease.  Nothing is assumed of the clients.
FairSpec ==
    /\ Spec
    /\ \A w \in Workers : WF_vars(WorkerStep(w))
    /\ \A t \in Tasks : WF_vars(Abandoned(t) /\ LeaseExpires(t))

-------------------------------------------------------------------------------
(* Properties *)

\* Every record keeps its range; in particular a task that is recovered, fenced
\* or completed never falls back to a status that the claim does not offer.
TypeOK ==
    /\ task \in [Tasks -> TaskStates]
    /\ canceled \subseteq Tasks
    /\ worker \in [Workers -> WorkerStates]
    /\ client \in [Tasks -> ClientStates]
    /\ crashes \in 0 .. MaxCrashes

\* worker w holds the fencing token of t
Holds(w, t) == worker[w].task = t /\ FenceMatches(t, w)

\* node_task_fence_matches: of all the processes that ever claimed a task --
\* stalled, restarted, or sharing a worker id -- at most one can still extend its
\* lease or complete it.
OneLease ==
    \A t \in Tasks, v, w \in Workers : Holds(v, t) /\ Holds(w, t) => v = w

\* complete_node_task: the result artifact of a decided task is the one written
\* by its newest claim; a worker whose lease was taken over cannot publish over
\* the winner.
ResultOfNewestClaim ==
    \A t \in Tasks :
        task[t].result # 0 => /\ task[t].result = task[t].gen
                              /\ task[t].status \in {"completed", "failed"}

\* recover_expired_node_tasks: no crash, stall or fence makes a task run more
\* often than distributed_worker_max_attempts allows.
AttemptsBounded == \A t \in Tasks : task[t].attempts <= MaxAttempts

\* DistributedSubAgentClient.wait: an answer a client got from the store stays
\* true in the store, whatever late workers do.
AnswerStands ==
    \A t \in Tasks :
        client[t].answer \in {"completed", "failed"}
            => task[t].status = client[t].answer

Outcome(s) == IF s.status \in Terminal \cup {"absent"} THEN s.status ELSE "open"

Promise == INSTANCE OneShotTasks
               WITH Decisions <- Terminal,
                    outcome   <- [t \in Tasks |-> Outcome(task[t])]

\* The store, the workers and the clients implement the one-shot task: a task
\* is decided once and keeps its decision.
DecidedOnce == Promise!Spec

\* Every submitted task is decided although workers crash, stall and lose their
\* leases, and even if no client ever gives up on it.
EventuallyDecided ==
    \A t \in Tasks : task[t].status = "queued" ~> task[t].status \in Terminal
===============================================================================
