---------------------------- MODULE NodeTasksProofs ----------------------------
(***************************************************************************)
(* Proofs about NodeTasks for every set of tasks, workers and worker ids,  *)
(* any attempt bound and any number of crashes.                            *)
(*                                                                         *)
(* A task record changes in eight ways only (TaskMove), and none of them   *)
(* touches a decided task (DecidedStays); TaskMoves proves it once, and    *)
(* the invariants about tasks rest on it.  The invariant about leases is   *)
(* that every claim mints a generation no worker has seen (Tokens).        *)
(***************************************************************************)
EXTENDS NodeTasks, TLAPS

-------------------------------------------------------------------------------
(* What the store operations return *)

\* claim_node_task counts the attempt and mints the next generation
LEMMA ClaimedFields ==
  ASSUME NEW s \in TaskStates, NEW o \in Owners
  PROVE  /\ Claimed(s, o) \in TaskStates
         /\ Claimed(s, o).status = "running"
         /\ Claimed(s, o).gen = s.gen + 1
         /\ Claimed(s, o).attempts = s.attempts + 1
         /\ Claimed(s, o).result = s.result
<1> DEFINE a == s.attempts + 1
           g == s.gen + 1
<1>1. a \in Nat /\ g \in Nat
  BY DEF TaskStates
<1>2. Claimed(s, o) = [s EXCEPT !.status = "running", !.attempts = a,
                                !.owner = o, !.gen = g, !.expired = FALSE]
  BY DEF Claimed, TaskStates
<1> HIDE DEF a, g
<1>3. /\ Claimed(s, o) \in TaskStates
      /\ Claimed(s, o).status = "running"
      /\ Claimed(s, o).gen = g
      /\ Claimed(s, o).attempts = a
      /\ Claimed(s, o).result = s.result
  BY <1>1, <1>2 DEF TaskStates
<1> QED
  BY <1>3 DEF a, g

\* recovery keeps generation, attempts and result
LEMMA RecoveredFields ==
  ASSUME NEW s \in TaskStates
  PROVE  /\ Recovered(s) \in TaskStates
         /\ Recovered(s).gen = s.gen
         /\ Recovered(s).attempts = s.attempts
         /\ Recovered(s).result = s.result
         /\ s.status # "running" => Recovered(s) = s
         /\ Recovered(s) # s =>
               Recovered(s).status = IF s.attempts < MaxAttempts THEN "retry"
                                     ELSE "failed"
BY DEF Recovered, TaskStates, Terminal

LEMMA CompletedFields ==
  ASSUME NEW s \in TaskStates, NEW v \in Terminal, NEW g \in Nat
  PROVE  /\ Completed(s, v, g) \in TaskStates
         /\ Completed(s, v, g).status = v
         /\ Completed(s, v, g).gen = s.gen
         /\ Completed(s, v, g).attempts = s.attempts
         /\ Completed(s, v, g).result = g
BY DEF Completed, TaskStates

LEMMA FencedFields ==
  ASSUME NEW s \in TaskStates, NEW v \in Terminal
  PROVE  /\ Fenced(s, v) \in TaskStates
         /\ s.status \in Terminal => Fenced(s, v) = s
         /\ s.status \notin Terminal => /\ Fenced(s, v).status = v
                                        /\ Fenced(s, v).gen = s.gen + 1
         /\ Fenced(s, v).attempts = s.attempts
         /\ Fenced(s, v).result = s.result
<1>1. CASE s.status \in Terminal
  BY <1>1 DEF Fenced
<1>2. CASE s.status \notin Terminal
  <2> DEFINE g == s.gen + 1
  <2>1. g \in Nat
    BY DEF TaskStates
  <2>2. Fenced(s, v) = [s EXCEPT !.status = v, !.gen = g, !.owner = NoOwner,
                                 !.expired = FALSE]
    BY <1>2 DEF Fenced, TaskStates
  <2> HIDE DEF g
  <2>3. /\ Fenced(s, v) \in TaskStates
        /\ Fenced(s, v).status = v
        /\ Fenced(s, v).gen = g
        /\ Fenced(s, v).attempts = s.attempts
        /\ Fenced(s, v).result = s.result
    BY <2>1, <2>2 DEF TaskStates
  <2> QED
    BY <1>2, <2>3 DEF g
<1> QED
  BY <1>1, <1>2

-------------------------------------------------------------------------------
(* How a task record changes *)

\* the ways a step may change the record of t
TaskMove(t) ==
    \/ task'[t] = task[t]
    \/ task'[t] = Recovered(task[t])
    \/ /\ task[t].status \in Claimable
       /\ \E w \in Workers : /\ task'[t] = Claimed(task[t], OwnerOf[w])
                             /\ worker'[w].task = t
                             /\ worker'[w].gen = task[t].gen + 1
    \/ \E w \in Workers :
          /\ worker[w].task = t
          /\ FenceMatches(t, w)
          /\ \E v \in Terminal, g \in {0, worker[w].gen} :
                /\ g # 0 => v \in {"completed", "failed"}
                /\ task'[t] = Completed(task[t], v, g)
    \/ /\ task[t].status = "running"
       /\ \E x \in BOOLEAN : task'[t] = [task[t] EXCEPT !.expired = x]
    \/ /\ task[t].status = "absent"
       /\ task'[t] = [task[t] EXCEPT !.status = "queued"]
    \/ client[t].pc = "fencing" /\ task'[t] = Fenced(task[t], "timeout")

LEMMA CompleteMoves ==
  ASSUME TypeOK, NEW w \in Workers, NEW v \in Terminal,
         NEW g \in {0, worker[w].gen}, g # 0 => v \in {"completed", "failed"},
         CompleteClaimed(w, v, g)
  PROVE  \A t \in Tasks : TaskMove(t)
<1> SUFFICES ASSUME NEW t \in Tasks PROVE TaskMove(t)
  OBVIOUS
<1>1. CASE FenceMatches(worker[w].task, w) /\ t = worker[w].task
  <2>1. task'[t] = Completed(task[t], v, g)
    BY <1>1 DEF CompleteClaimed, TypeOK
  <2> QED
    BY <1>1, <2>1 DEF TaskMove
<1>2. CASE ~(FenceMatches(worker[w].task, w) /\ t = worker[w].task)
  BY <1>2 DEF CompleteClaimed, TypeOK, TaskMove, WorkerStates
<1> QED
  BY <1>1, <1>2

\* Every step changes a task record in one of the ways of TaskMove.
LEMMA TaskMoves ==
  ASSUME TypeOK, [Next]_vars
  PROVE  \A t \in Tasks : TaskMove(t)
<1>1. CASE UNCHANGED task
  BY <1>1 DEF TaskMove
<1>2. ASSUME NEW w \in Workers, WorkerStep(w)
      PROVE  \A t \in Tasks : TaskMove(t)
  <2>1. CASE Recover(w)
    BY <2>1 DEF Recover, TaskMove
  <2>2. CASE ClaimNext(w)
    <3>1. PICK u \in Tasks :
             /\ task[u].status \in Claimable
             /\ task' = [task EXCEPT ![u] = Claimed(@, OwnerOf[w])]
             /\ worker' = [worker EXCEPT ![w] =
                   [pc |-> "claimed", task |-> u, gen |-> task[u].gen + 1,
                    beat |-> FALSE]]
      BY <2>2 DEF ClaimNext
    <3>2. worker'[w].task = u /\ worker'[w].gen = task[u].gen + 1
      BY <3>1 DEF TypeOK
    <3>3. task'[u] = Claimed(task[u], OwnerOf[w])
      BY <3>1 DEF TypeOK
    <3>4. \A t \in Tasks \ {u} : task'[t] = task[t]
      BY <3>1 DEF TypeOK
    <3> QED
      BY <3>1, <3>2, <3>3, <3>4 DEF TaskMove
  <2>3. CASE CanceledBeforeRun(w)
    BY <2>3, CompleteMoves DEF CanceledBeforeRun, Terminal
  <2>4. CASE Publish(w)
    BY <2>4, CompleteMoves DEF Publish, Terminal
  <2>5. CASE ReportFailure(w)
    BY <2>5, CompleteMoves DEF ReportFailure, Terminal
  <2>6. CASE \/ NothingToClaim(w) \/ StartHandler(w) \/ HandlerReturns(w)
             \/ DropResult(w) \/ Terminate(w) \/ HandlerFails(w)
             \/ HandlerExpires(w) \/ Restart(w)
    BY <2>6, <1>1 DEF NothingToClaim, StartHandler, HandlerReturns, DropResult,
                      Terminate, HandlerFails, HandlerExpires, Restart
  <2> QED
    BY <1>2, <2>1, <2>2, <2>3, <2>4, <2>5, <2>6 DEF WorkerStep
<1>3. ASSUME NEW w \in Workers, Heartbeat(w)
      PROVE  \A t \in Tasks : TaskMove(t)
  <2> DEFINE u == worker[w].task
  <2>1. CASE FenceMatches(u, w)
    <3>1. task' = [task EXCEPT ![u].expired = FALSE] /\ task[u].status = "running"
      BY <1>3, <2>1 DEF Heartbeat, FenceMatches
    <3>2. u \in Tasks
      BY DEF TypeOK, WorkerStates
    <3> QED
      BY <3>1, <3>2 DEF TaskMove, TypeOK
  <2>2. CASE ~FenceMatches(u, w)
    BY <1>1, <1>3, <2>2 DEF Heartbeat
  <2> QED
    BY <2>1, <2>2
<1>4. ASSUME NEW w \in Workers, Crash(w)
      PROVE  \A t \in Tasks : TaskMove(t)
  BY <1>1, <1>4 DEF Crash
<1>5. ASSUME NEW u \in Tasks, ClientStep(u)
      PROVE  \A t \in Tasks : TaskMove(t)
  <2>1. CASE Submit(u)
    BY <2>1 DEF Submit, TaskMove, TypeOK
  <2>2. CASE Fence(u)
    BY <2>2 DEF Fence, TaskMove, TypeOK
  <2>3. CASE Poll(u) \/ Read(u) \/ Deadline(u) \/ Recheck(u)
    BY <1>1, <2>3 DEF Poll, Read, Deadline, Recheck
  <2> QED
    BY <1>5, <2>1, <2>2, <2>3 DEF ClientStep
<1>6. ASSUME NEW u \in Tasks, LeaseExpires(u) \/ CancelRun(u)
      PROVE  \A t \in Tasks : TaskMove(t)
  BY <1>1, <1>6 DEF LeaseExpires, CancelRun, TaskMove, TypeOK
<1> QED
  BY <1>1, <1>2, <1>3, <1>4, <1>5, <1>6 DEF Next, vars

\* A record stays a record, a decided task stays as it is, and a generation
\* never decreases.
LEMMA MoveFacts ==
  ASSUME TypeOK, NEW t \in Tasks, TaskMove(t)
  PROVE  /\ task'[t] \in TaskStates
         /\ task[t].status \in Terminal => task'[t] = task[t]
         /\ task'[t].gen >= task[t].gen
<1> task[t] \in TaskStates /\ task[t].gen \in Nat
  BY DEF TypeOK, TaskStates
<1>1. CASE task'[t] = task[t]
  BY <1>1
<1>2. CASE task'[t] = Recovered(task[t])
  BY <1>2, RecoveredFields DEF Terminal
<1>3. ASSUME NEW w \in Workers, task[t].status \in Claimable,
             task'[t] = Claimed(task[t], OwnerOf[w])
      PROVE  /\ task'[t] \in TaskStates
             /\ task[t].status \notin Terminal
             /\ task'[t].gen >= task[t].gen
  BY <1>3, ClaimedFields, NodeTasksConstants DEF Claimable, Terminal
<1>4. ASSUME NEW w \in Workers, NEW v \in Terminal, NEW g \in {0, worker[w].gen},
             FenceMatches(t, w), task'[t] = Completed(task[t], v, g)
      PROVE  /\ task'[t] \in TaskStates
             /\ task[t].status \notin Terminal
             /\ task'[t].gen >= task[t].gen
  <2>1. g \in Nat
    BY DEF TypeOK, WorkerStates
  <2>2. task[t].status = "running"
    BY <1>4 DEF FenceMatches
  <2>3. task'[t] \in TaskStates /\ task'[t].gen = task[t].gen
    BY <1>4, <2>1, CompletedFields
  <2> QED
    BY <2>2, <2>3 DEF Terminal
<1>5. ASSUME NEW x \in BOOLEAN, task[t].status = "running",
             task'[t] = [task[t] EXCEPT !.expired = x]
      PROVE  /\ task'[t] \in TaskStates
             /\ task[t].status \notin Terminal
             /\ task'[t].gen >= task[t].gen
  BY <1>5 DEF TaskStates, Terminal
<1>6. CASE /\ task[t].status = "absent"
           /\ task'[t] = [task[t] EXCEPT !.status = "queued"]
  BY <1>6 DEF TaskStates, Terminal
<1>7. CASE task'[t] = Fenced(task[t], "timeout")
  <2>1. "timeout" \in Terminal
    BY DEF Terminal
  <2> QED
    BY <1>7, <2>1, FencedFields
<1> QED
  BY <1>1, <1>2, <1>3, <1>4, <1>5, <1>6, <1>7 DEF TaskMove

-------------------------------------------------------------------------------
(* Type correctness *)

LEMMA InitType == Init => TypeOK
BY NodeTasksConstants
DEF Init, TypeOK, NewTask, TaskStates, WorkerStates, ClientStates, Terminal

\* the worker records of a step
LEMMA WorkerType ==
  ASSUME TypeOK, [Next]_vars
  PROVE  worker' \in [Workers -> WorkerStates]
<1>1. CASE UNCHANGED worker
  BY <1>1 DEF TypeOK
<1>2. ASSUME NEW w \in Workers, WorkerStep(w)
      PROVE  worker' \in [Workers -> WorkerStates]
  <2>1. CASE ClaimNext(w)
    <3>1. PICK u \in Tasks :
             worker' = [worker EXCEPT ![w] =
                   [pc |-> "claimed", task |-> u, gen |-> task[u].gen + 1,
                    beat |-> FALSE]]
      BY <2>1 DEF ClaimNext
    <3>2. task[u].gen + 1 \in Nat
      BY DEF TypeOK, TaskStates
    <3> DEFINE g == task[u].gen + 1
    <3>3. [pc |-> "claimed", task |-> u, gen |-> g, beat |-> FALSE] \in WorkerStates
      BY <3>2 DEF WorkerStates
    <3> QED
      BY <3>1, <3>3 DEF TypeOK
  <2>2. CASE \/ CanceledBeforeRun(w) \/ Publish(w) \/ ReportFailure(w)
    BY <2>2 DEF CanceledBeforeRun, Publish, ReportFailure, CompleteClaimed,
                TypeOK, WorkerStates
  <2>3. CASE StartHandler(w)
    BY <2>3 DEF StartHandler, TypeOK, WorkerStates
  <2>4. CASE DropResult(w)
    BY <2>4 DEF DropResult, TypeOK, WorkerStates
  <2>5. CASE Recover(w)
    BY <2>5 DEF Recover, Step, TypeOK, WorkerStates
  <2>6. CASE NothingToClaim(w) \/ Restart(w)
    BY <2>6 DEF NothingToClaim, Restart, Step, TypeOK, WorkerStates
  <2>7. CASE \/ HandlerReturns(w) \/ Terminate(w) \/ HandlerFails(w)
             \/ HandlerExpires(w)
    BY <2>7 DEF HandlerReturns, Terminate, HandlerFails, HandlerExpires, Step,
                TypeOK, WorkerStates
  <2> QED
    BY <1>2, <2>1, <2>2, <2>3, <2>4, <2>5, <2>6, <2>7 DEF WorkerStep
<1>3. ASSUME NEW w \in Workers, Heartbeat(w) \/ Crash(w)
      PROVE  worker' \in [Workers -> WorkerStates]
  <2>1. CASE worker' = [worker EXCEPT ![w].beat = FALSE]
    BY <2>1 DEF TypeOK, WorkerStates
  <2>2. CASE worker' = [worker EXCEPT ![w].pc = "down", ![w].beat = FALSE]
    BY <2>2 DEF TypeOK, WorkerStates
  <2> QED
    BY <1>1, <1>3, <2>1, <2>2 DEF Heartbeat, Crash
<1>4. ASSUME NEW t \in Tasks, ClientStep(t) \/ LeaseExpires(t) \/ CancelRun(t)
      PROVE  worker' \in [Workers -> WorkerStates]
  BY <1>1, <1>4 DEF ClientStep, Submit, Poll, Read, Deadline, Fence, Recheck,
                    LeaseExpires, CancelRun
<1> QED
  BY <1>1, <1>2, <1>3, <1>4 DEF Next, vars

\* the client records of a step
LEMMA ClientType ==
  ASSUME TypeOK, [Next]_vars
  PROVE  client' \in [Tasks -> ClientStates]
<1>1. CASE UNCHANGED client
  BY <1>1 DEF TypeOK
<1>2. ASSUME NEW t \in Tasks, ClientStep(t)
      PROVE  client' \in [Tasks -> ClientStates]
  <2>1. task[t] \in TaskStates /\ task[t].gen \in Nat
    BY DEF TypeOK, TaskStates
  <2>2. ASSUME NEW v \in {"none"} \cup Terminal, Answer(t, v)
        PROVE  client' \in [Tasks -> ClientStates]
    BY <2>2 DEF Answer, TypeOK, ClientStates
  <2>3. CASE Submit(t)
    BY <2>3 DEF Submit, TypeOK, ClientStates
  <2>4. CASE Deadline(t)
    <3> DEFINE g == task[t].gen
    <3>1. client' = [client EXCEPT ![t].pc = "fencing", ![t].seen = g]
      BY <2>4 DEF Deadline
    <3> HIDE DEF g
    <3> QED
      BY <2>1, <3>1 DEF TypeOK, ClientStates, g
  <2>5. CASE Poll(t) \/ Read(t) \/ Recheck(t)
    <3>1. CASE client' = [client EXCEPT ![t].pc = "reading"]
      BY <3>1 DEF TypeOK, ClientStates
    <3>2. CASE client' = [client EXCEPT ![t].pc = "waiting"]
      BY <3>2 DEF TypeOK, ClientStates
    <3>3. {"canceled", "timeout"} \subseteq Terminal
      BY DEF Terminal
    <3>4. CASE \E v \in Terminal : Answer(t, v)
      BY <2>2, <3>4
    <3> QED
      BY <2>5, <3>1, <3>2, <3>3, <3>4 DEF Poll, Read, Recheck
  <2>6. CASE Fence(t)
    <3>1. CASE client' = [client EXCEPT ![t].pc = "rechecking"]
      BY <3>1 DEF TypeOK, ClientStates
    <3>2. CASE Answer(t, Fenced(task[t], "timeout").status)
      <4>1. Fenced(task[t], "timeout").status \in Terminal
        BY <2>1, FencedFields DEF Terminal
      <4> QED
        BY <2>2, <3>2, <4>1
    <3> QED
      BY <2>6, <3>1, <3>2 DEF Fence
  <2> QED
    BY <1>2, <2>3, <2>4, <2>5, <2>6 DEF ClientStep
<1>3. ASSUME NEW w \in Workers, WorkerStep(w) \/ Heartbeat(w) \/ Crash(w)
      PROVE  UNCHANGED client
  BY <1>3 DEF WorkerStep, Recover, ClaimNext, NothingToClaim, CanceledBeforeRun,
              StartHandler, HandlerReturns, Publish, DropResult, Terminate,
              HandlerFails, HandlerExpires, ReportFailure, CompleteClaimed,
              Restart, Heartbeat, Crash
<1>4. ASSUME NEW t \in Tasks, LeaseExpires(t) \/ CancelRun(t)
      PROVE  UNCHANGED client
  BY <1>4 DEF LeaseExpires, CancelRun
<1> QED
  BY <1>1, <1>2, <1>3, <1>4 DEF Next, vars

LEMMA RestType ==
  ASSUME TypeOK, [Next]_vars
  PROVE  canceled' \subseteq Tasks /\ crashes' \in 0 .. MaxCrashes
<1> USE DEF TypeOK
<1>1. CASE UNCHANGED <<canceled, crashes>>
  BY <1>1
<1>2. ASSUME NEW w \in Workers, Crash(w)
      PROVE  UNCHANGED canceled /\ crashes' \in 0 .. MaxCrashes
  BY <1>2, NodeTasksConstants DEF Crash
<1>3. ASSUME NEW t \in Tasks, CancelRun(t)
      PROVE  canceled' \subseteq Tasks /\ UNCHANGED crashes
  BY <1>3 DEF CancelRun
<1>4. ASSUME NEW w \in Workers, WorkerStep(w) \/ Heartbeat(w)
      PROVE  UNCHANGED <<canceled, crashes>>
  BY <1>4 DEF WorkerStep, Recover, ClaimNext, NothingToClaim, CanceledBeforeRun,
              StartHandler, HandlerReturns, Publish, DropResult, Terminate,
              HandlerFails, HandlerExpires, ReportFailure, CompleteClaimed,
              Restart, Heartbeat
<1>5. ASSUME NEW t \in Tasks, ClientStep(t) \/ LeaseExpires(t)
      PROVE  UNCHANGED <<canceled, crashes>>
  BY <1>5 DEF ClientStep, Submit, Poll, Read, Deadline, Fence, Recheck,
              LeaseExpires
<1> QED
  BY <1>1, <1>2, <1>3, <1>4, <1>5 DEF Next, vars

LEMMA TaskType ==
  ASSUME TypeOK, [Next]_vars
  PROVE  task' \in [Tasks -> TaskStates]
<1>1. \A t \in Tasks : task'[t] \in TaskStates
  BY TaskMoves, MoveFacts
<1>2. task' = [t \in Tasks |-> task'[t]]
  BY DEF TypeOK, Next, vars, WorkerStep, Recover, ClaimNext, NothingToClaim,
         CanceledBeforeRun, StartHandler, HandlerReturns, Publish, DropResult,
         Terminate, HandlerFails, HandlerExpires, ReportFailure,
         CompleteClaimed, Restart, Heartbeat, Crash, ClientStep, Submit, Poll,
         Read, Deadline, Fence, Recheck, LeaseExpires, CancelRun
<1> QED
  BY <1>1, <1>2

LEMMA NextType == TypeOK /\ [Next]_vars => TypeOK'
BY TaskType, WorkerType, ClientType, RestType DEF TypeOK

\* Every task, lease, worker and client record keeps its type whatever the
\* workers, crashes and clients do (the store methods of runtime_state.py).
THEOREM TypeCorrect == Spec => []TypeOK
BY InitType, NextType, PTL DEF Spec

-------------------------------------------------------------------------------
(* Leases *)

\* no worker holds a generation the store has not handed out
Minted == \A w \in Workers : worker[w].gen <= task[worker[w].task].gen

\* no two workers hold the same generation of a task
Distinct ==
    \A v, w \in Workers :
        /\ worker[v].task = worker[w].task
        /\ worker[v].gen = worker[w].gen
        /\ worker[v].gen > 0
        => v = w

Tokens == Minted /\ Distinct

SameToken(w) == worker'[w].task = worker[w].task /\ worker'[w].gen = worker[w].gen

\* Only a claim gives a worker another token.
LEMMA TokenMoves ==
  ASSUME TypeOK, [Next]_vars
  PROVE  \/ \A w \in Workers : SameToken(w)
         \/ \E w \in Workers, u \in Tasks :
               /\ worker'[w].task = u
               /\ worker'[w].gen = task[u].gen + 1
               /\ task'[u].gen = task[u].gen + 1
               /\ \A v \in Workers \ {w} : SameToken(v)
<1>1. CASE UNCHANGED worker
  BY <1>1 DEF SameToken
<1>2. ASSUME NEW w \in Workers, WorkerStep(w), ~ClaimNext(w)
      PROVE  \A v \in Workers : SameToken(v)
  BY <1>2 DEF WorkerStep, Recover, NothingToClaim, CanceledBeforeRun,
              StartHandler, HandlerReturns, Publish, DropResult, Terminate,
              HandlerFails, HandlerExpires, ReportFailure, CompleteClaimed,
              Restart, Step, SameToken, TypeOK, WorkerStates
<1>3. ASSUME NEW w \in Workers, ClaimNext(w)
      PROVE  \E u \in Tasks :
               /\ worker'[w].task = u
               /\ worker'[w].gen = task[u].gen + 1
               /\ task'[u].gen = task[u].gen + 1
               /\ \A v \in Workers \ {w} : SameToken(v)
  <2>1. PICK u \in Tasks :
           /\ task' = [task EXCEPT ![u] = Claimed(@, OwnerOf[w])]
           /\ worker' = [worker EXCEPT ![w] =
                 [pc |-> "claimed", task |-> u, gen |-> task[u].gen + 1,
                  beat |-> FALSE]]
    BY <1>3 DEF ClaimNext
  <2>2. worker'[w].task = u /\ worker'[w].gen = task[u].gen + 1
    BY <2>1 DEF TypeOK
  <2>3. \A v \in Workers \ {w} : worker'[v] = worker[v]
    BY <2>1 DEF TypeOK
  <2>4. task'[u] = Claimed(task[u], OwnerOf[w])
    BY <2>1 DEF TypeOK
  <2>5. task'[u].gen = task[u].gen + 1
    BY <2>4, ClaimedFields, NodeTasksConstants DEF TypeOK
  <2> QED
    BY <2>2, <2>3, <2>5 DEF SameToken
<1>4. ASSUME NEW w \in Workers, Heartbeat(w) \/ Crash(w)
      PROVE  \A v \in Workers : SameToken(v)
  <2>1. CASE worker' = [worker EXCEPT ![w].beat = FALSE]
    BY <2>1 DEF TypeOK, WorkerStates, SameToken
  <2>2. CASE worker' = [worker EXCEPT ![w].pc = "down", ![w].beat = FALSE]
    BY <2>2 DEF TypeOK, WorkerStates, SameToken
  <2>3. \/ worker' = [worker EXCEPT ![w].beat = FALSE]
        \/ worker' = [worker EXCEPT ![w].pc = "down", ![w].beat = FALSE]
        \/ UNCHANGED worker
    BY <1>4 DEF Heartbeat, Crash
  <2>4. CASE UNCHANGED worker
    BY <2>4 DEF SameToken
  <2> QED
    BY <2>1, <2>2, <2>3, <2>4
<1>5. ASSUME NEW t \in Tasks, ClientStep(t) \/ LeaseExpires(t) \/ CancelRun(t)
      PROVE  UNCHANGED worker
  BY <1>5 DEF ClientStep, Submit, Poll, Read, Deadline, Fence, Recheck,
              LeaseExpires, CancelRun
<1> QED
  BY <1>1, <1>2, <1>3, <1>4, <1>5 DEF Next, vars

LEMMA InitTokens == Init => Tokens
BY DEF Init, Tokens, Minted, Distinct, NewTask

LEMMA NextTokens == TypeOK /\ Tokens /\ [Next]_vars => Tokens'
<1> SUFFICES ASSUME TypeOK, Tokens, [Next]_vars PROVE Tokens'
  OBVIOUS
<1>1. /\ \A t \in Tasks : /\ task[t].gen \in Nat
                           /\ task'[t].gen \in Nat
                           /\ task'[t].gen >= task[t].gen
      /\ \A w \in Workers : worker[w].gen \in Nat /\ worker[w].task \in Tasks
  BY TaskMoves, MoveFacts DEF TypeOK, TaskStates, WorkerStates
<1>2. CASE \A w \in Workers : SameToken(w)
  BY <1>1, <1>2 DEF Tokens, Minted, Distinct, SameToken
<1>3. ASSUME NEW w \in Workers, NEW u \in Tasks,
             worker'[w].task = u,
             worker'[w].gen = task[u].gen + 1,
             task'[u].gen = task[u].gen + 1,
             \A v \in Workers \ {w} : SameToken(v)
      PROVE  Tokens'
  <2>1. Minted'
    <3>1. worker'[w].gen <= task'[worker'[w].task].gen
      BY <1>1, <1>3
    <3>2. ASSUME NEW v \in Workers \ {w}
          PROVE  worker'[v].gen <= task'[worker'[v].task].gen
      <4>1. worker[v].gen <= task[worker[v].task].gen
        BY DEF Tokens, Minted
      <4>2. worker'[v].gen = worker[v].gen /\ worker'[v].task = worker[v].task
        BY <1>3 DEF SameToken
      <4> QED
        BY <1>1, <4>1, <4>2
    <3> QED
      BY <3>1, <3>2 DEF Minted
  <2>2. \A v \in Workers \ {w} : worker'[v].task = u => worker'[v].gen < worker'[w].gen
    BY <1>1, <1>3 DEF Tokens, Minted, SameToken
  <2>3. Distinct'
    <3>1. ASSUME NEW v \in Workers, NEW x \in Workers,
                 worker'[v].task = worker'[x].task,
                 worker'[v].gen = worker'[x].gen, worker'[v].gen > 0
          PROVE  v = x
      <4>1. CASE v # w /\ x # w
        BY <1>3, <3>1, <4>1 DEF Tokens, Distinct, SameToken
      <4>2. CASE v = w \/ x = w
        BY <1>1, <1>3, <2>2, <3>1, <4>2 DEF SameToken
      <4> QED
        BY <4>1, <4>2
    <3> QED
      BY <3>1 DEF Distinct
  <2> QED
    BY <2>1, <2>3 DEF Tokens
<1> QED
  BY <1>2, <1>3, TokenMoves

\* At most one process can extend the lease of a task or complete it, however
\* many processes claimed it and whichever worker ids they run under
\* (node_task_fence_matches).
THEOREM LeaseIsExclusive == Spec => []OneLease
<1>1. TypeOK /\ Tokens => OneLease
  <2> SUFFICES ASSUME TypeOK, Distinct, NEW t \in Tasks, NEW v \in Workers, NEW w \in Workers,
                      Holds(v, t), Holds(w, t)
               PROVE  v = w
    BY DEF Tokens, OneLease
  <2>1. /\ worker[v].task = t /\ worker[v].gen = task[t].gen /\ worker[v].gen > 0
        /\ worker[w].task = t /\ worker[w].gen = task[t].gen
    BY DEF Holds, FenceMatches
  <2> QED
    BY <2>1 DEF Distinct
<1> QED
  BY <1>1, InitType, NextType, InitTokens, NextTokens, PTL DEF Spec

-------------------------------------------------------------------------------
(* Tasks *)

\* a task that may still be claimed has an attempt left
AttemptsLeft ==
    \A t \in Tasks :
        /\ task[t].attempts <= MaxAttempts
        /\ task[t].status \in Claimable \cup {"absent"}
              => task[t].attempts < MaxAttempts

LEMMA NextAttempts == TypeOK /\ AttemptsLeft /\ [Next]_vars => AttemptsLeft'
<1> SUFFICES ASSUME TypeOK, AttemptsLeft, [Next]_vars, NEW t \in Tasks
             PROVE  /\ task'[t].attempts <= MaxAttempts
                    /\ task'[t].status \in Claimable \cup {"absent"}
                          => task'[t].attempts < MaxAttempts
  BY DEF AttemptsLeft
<1>1. /\ task[t] \in TaskStates
      /\ task[t].attempts \in Nat
      /\ MaxAttempts \in Nat
      /\ task[t].attempts <= MaxAttempts
      /\ task[t].status \in Claimable \cup {"absent"}
            => task[t].attempts < MaxAttempts
  BY NodeTasksConstants DEF TypeOK, TaskStates, AttemptsLeft
<1>2. CASE task'[t] = task[t]
  BY <1>1, <1>2
<1>3. CASE task'[t] = Recovered(task[t])
  BY <1>1, <1>3, RecoveredFields DEF Claimable
<1>4. ASSUME NEW w \in Workers, task[t].status \in Claimable,
             task'[t] = Claimed(task[t], OwnerOf[w])
      PROVE  /\ task'[t].attempts <= MaxAttempts
             /\ task'[t].status = "running"
  BY <1>1, <1>4, ClaimedFields, NodeTasksConstants
<1>5. ASSUME NEW w \in Workers, NEW v \in Terminal, NEW g \in {0, worker[w].gen},
             task'[t] = Completed(task[t], v, g)
      PROVE  /\ task'[t].attempts = task[t].attempts
             /\ task'[t].status \in Terminal
  <2>1. g \in Nat
    BY DEF TypeOK, WorkerStates
  <2> QED
    BY <1>1, <1>5, <2>1, CompletedFields
<1>6. ASSUME NEW x \in BOOLEAN, task[t].status = "running",
             task'[t] = [task[t] EXCEPT !.expired = x]
      PROVE  /\ task'[t].attempts = task[t].attempts
             /\ task'[t].status = "running"
  BY <1>1, <1>6 DEF TaskStates
<1>7. CASE /\ task[t].status = "absent"
           /\ task'[t] = [task[t] EXCEPT !.status = "queued"]
  BY <1>1, <1>7 DEF TaskStates
<1>8. CASE task'[t] = Fenced(task[t], "timeout")
  <2>1. "timeout" \in Terminal
    BY DEF Terminal
  <2>2. /\ task'[t].attempts = task[t].attempts
        /\ task'[t].status \in Terminal
    BY <1>1, <1>8, <2>1, FencedFields
  <2> QED
    BY <1>1, <2>2 DEF Terminal, Claimable
<1>9. "running" \notin Claimable \cup {"absent"}
      /\ Terminal \cap (Claimable \cup {"absent"}) = {}
  BY DEF Claimable, Terminal
<1>10. TaskMove(t)
  BY TaskMoves
<1>11. \/ task'[t] = task[t]
       \/ task'[t] = Recovered(task[t])
       \/ /\ task[t].status = "absent"
          /\ task'[t] = [task[t] EXCEPT !.status = "queued"]
       \/ task'[t] = Fenced(task[t], "timeout")
       \/ task'[t].attempts <= MaxAttempts /\ task'[t].status = "running"
       \/ /\ task'[t].attempts = task[t].attempts
          /\ task'[t].status \in Terminal \cup {"running"}
  BY <1>4, <1>5, <1>6, <1>10 DEF TaskMove
<1> QED
  BY <1>1, <1>2, <1>3, <1>7, <1>8, <1>9, <1>11

\* No task is run more often than distributed_worker_max_attempts, whatever
\* recover_expired_node_tasks meets.
THEOREM AttemptsStayBounded == Spec => []AttemptsBounded
<1>1. Init => AttemptsLeft
  BY NodeTasksConstants DEF Init, AttemptsLeft, NewTask
<1>2. AttemptsLeft => AttemptsBounded
  BY DEF AttemptsLeft, AttemptsBounded
<1> QED
  BY <1>1, <1>2, InitType, NextType, NextAttempts, PTL DEF Spec

\* Only a claimed task gets a result, from the holder of its newest generation.
LEMMA NextResult ==
  TypeOK /\ ResultOfNewestClaim /\ [Next]_vars => ResultOfNewestClaim'
<1> SUFFICES ASSUME TypeOK, ResultOfNewestClaim, [Next]_vars, NEW t \in Tasks,
                    task'[t].result # 0
             PROVE  /\ task'[t].result = task'[t].gen
                    /\ task'[t].status \in {"completed", "failed"}
  BY DEF ResultOfNewestClaim
<1>1. /\ task[t] \in TaskStates
      /\ task[t].status \in Terminal => task'[t] = task[t]
  BY TaskMoves, MoveFacts DEF TypeOK
<1>2. CASE task[t].result # 0
  BY <1>1, <1>2 DEF ResultOfNewestClaim, Terminal
<1>3. CASE task[t].result = 0
  <2>1. ASSUME NEW w \in Workers, FenceMatches(t, w), worker[w].task = t,
               NEW v \in Terminal, NEW g \in {0, worker[w].gen},
               g # 0 => v \in {"completed", "failed"},
               task'[t] = Completed(task[t], v, g)
        PROVE  /\ task'[t].result = task'[t].gen
               /\ task'[t].status \in {"completed", "failed"}
    <3>1. g \in Nat
      BY DEF TypeOK, WorkerStates
    <3>2. /\ task'[t].result = g
          /\ task'[t].gen = task[t].gen
          /\ task'[t].status = v
      BY <1>1, <2>1, <3>1, CompletedFields
    <3>3. task[t].gen = worker[w].gen
      BY <2>1 DEF FenceMatches
    <3> QED
      BY <2>1, <3>2, <3>3
  <2>2. CASE \E w \in Workers : task'[t] = Claimed(task[t], OwnerOf[w])
    BY <1>1, <1>3, <2>2, ClaimedFields, NodeTasksConstants
  <2>3. CASE task'[t] = Recovered(task[t])
    BY <1>1, <1>3, <2>3, RecoveredFields
  <2>4. CASE task'[t] = Fenced(task[t], "timeout")
    <3>1. "timeout" \in Terminal
      BY DEF Terminal
    <3> QED
      BY <1>1, <1>3, <2>4, <3>1, FencedFields
  <2>5. CASE \/ task'[t] = task[t]
             \/ \E x \in BOOLEAN : task'[t] = [task[t] EXCEPT !.expired = x]
             \/ task'[t] = [task[t] EXCEPT !.status = "queued"]
    BY <1>1, <1>3, <2>5 DEF TaskStates
  <2> QED
    BY <2>1, <2>2, <2>3, <2>4, <2>5, TaskMoves DEF TaskMove
<1> QED
  BY <1>2, <1>3

\* A worker whose lease was taken over or fenced cannot publish its result: the
\* artifact of a decided task is that of its newest claim (complete_node_task).
THEOREM ResultIsOfNewestClaim == Spec => []ResultOfNewestClaim
<1>1. Init => ResultOfNewestClaim
  BY DEF Init, ResultOfNewestClaim, NewTask
<1> QED
  BY <1>1, InitType, NextType, NextResult, PTL DEF Spec

-------------------------------------------------------------------------------
(* Clients and the abstract task *)

\* An answer that changes in a step is what the store then says, or one the
\* client makes up itself.
LEMMA ClientMoves ==
  ASSUME TypeOK, [Next]_vars, NEW t \in Tasks
  PROVE  client'[t].answer \in
            {client[t].answer, "none", "canceled", "timeout", task'[t].status}
<1>1. CASE UNCHANGED client
  BY <1>1
<1>2. ASSUME NEW u \in Tasks, ClientStep(u)
      PROVE  client'[t].answer \in
                {client[t].answer, "none", "canceled", "timeout", task'[t].status}
  <2>1. ASSUME NEW v, Answer(u, v)
        PROVE  client'[t].answer = IF t = u THEN v ELSE client[t].answer
    BY <2>1 DEF Answer, TypeOK, ClientStates
  <2>2. CASE Submit(u)
    BY <2>2 DEF Submit, TypeOK, ClientStates
  <2>3. CASE Deadline(u)
    BY <2>3 DEF Deadline, TypeOK, ClientStates
  <2>4. ASSUME NEW p \in {"reading", "waiting", "rechecking"},
               client' = [client EXCEPT ![u].pc = p]
        PROVE  client'[t].answer = client[t].answer
    BY <2>4 DEF TypeOK, ClientStates
  <2>5. CASE Poll(u)
    BY <2>1, <2>4, <2>5 DEF Poll
  <2>6. CASE Read(u) \/ Recheck(u)
    <3>1. UNCHANGED task
      BY <2>6 DEF Read, Recheck
    <3>2. \/ Answer(u, task[u].status)
          \/ Answer(u, "timeout")
          \/ client' = [client EXCEPT ![u].pc = "waiting"]
      BY <2>6 DEF Read, Recheck
    <3> QED
      BY <2>1, <2>4, <3>1, <3>2
  <2>7. CASE Fence(u)
    <3>1. \/ client' = [client EXCEPT ![u].pc = "rechecking"]
          \/ /\ Answer(u, Fenced(task[u], "timeout").status)
             /\ task' = [task EXCEPT ![u] = Fenced(@, "timeout")]
      BY <2>7 DEF Fence
    <3>2. CASE client' = [client EXCEPT ![u].pc = "rechecking"]
      BY <2>4, <3>2
    <3>3. CASE /\ Answer(u, Fenced(task[u], "timeout").status)
               /\ task' = [task EXCEPT ![u] = Fenced(@, "timeout")]
      <4>1. task'[u] = Fenced(task[u], "timeout")
        BY <3>3 DEF TypeOK
      <4> QED
        BY <2>1, <3>3, <4>1
    <3> QED
      BY <3>1, <3>2, <3>3
  <2> QED
    BY <1>2, <2>2, <2>3, <2>5, <2>6, <2>7 DEF ClientStep
<1>3. ASSUME NEW w \in Workers, WorkerStep(w) \/ Heartbeat(w) \/ Crash(w)
      PROVE  UNCHANGED client
  BY <1>3 DEF WorkerStep, Recover, ClaimNext, NothingToClaim, CanceledBeforeRun,
              StartHandler, HandlerReturns, Publish, DropResult, Terminate,
              HandlerFails, HandlerExpires, ReportFailure, CompleteClaimed,
              Restart, Heartbeat, Crash
<1>4. ASSUME NEW u \in Tasks, LeaseExpires(u) \/ CancelRun(u)
      PROVE  UNCHANGED client
  BY <1>4 DEF LeaseExpires, CancelRun
<1> QED
  BY <1>1, <1>2, <1>3, <1>4 DEF Next, vars

\* What wait returned for a task stays what the store says of it.
THEOREM AnswersStand == Spec => []AnswerStands
<1>1. Init => AnswerStands
  BY DEF Init, AnswerStands
<1>2. TypeOK /\ AnswerStands /\ [Next]_vars => AnswerStands'
  <2> SUFFICES ASSUME TypeOK, AnswerStands, [Next]_vars, NEW t \in Tasks,
                      client'[t].answer \in {"completed", "failed"}
               PROVE  task'[t].status = client'[t].answer
    BY DEF AnswerStands
  <2>1. task[t].status \in Terminal => task'[t] = task[t]
    BY TaskMoves, MoveFacts
  <2>2. client'[t].answer \in {client[t].answer, task'[t].status}
    BY ClientMoves
  <2> QED
    BY <2>1, <2>2 DEF AnswerStands, Terminal
<1> QED
  BY <1>1, <1>2, InitType, NextType, PTL DEF Spec

\* nobody waits for a task that was never submitted
Submitted == \A t \in Tasks : task[t].status = "absent" => client[t].pc = "idle"

\* No step forgets a task, and only a submission creates one.
LEMMA AbsentMoves ==
  ASSUME TypeOK, Submitted, [Next]_vars, NEW t \in Tasks
  PROVE  /\ task'[t].status = "absent" => task[t].status = "absent"
         /\ task[t].status = "absent" => task'[t].status \in {"absent", "queued"}
<1>1. /\ task[t] \in TaskStates
      /\ task[t].status = "absent" => client[t].pc # "fencing"
      /\ "timeout" \in Terminal
  BY DEF TypeOK, Submitted, Terminal
<1>2. CASE task'[t] = task[t]
  BY <1>1, <1>2
<1>3. CASE task'[t] = Recovered(task[t])
  BY <1>1, <1>3, RecoveredFields
<1>4. ASSUME NEW w \in Workers, task[t].status \in Claimable,
             task'[t] = Claimed(task[t], OwnerOf[w])
      PROVE  task'[t].status # "absent" /\ task[t].status # "absent"
  BY <1>1, <1>4, ClaimedFields, NodeTasksConstants DEF Claimable
<1>5. ASSUME NEW w \in Workers, FenceMatches(t, w), NEW v \in Terminal,
             NEW g \in {0, worker[w].gen}, task'[t] = Completed(task[t], v, g)
      PROVE  task'[t].status # "absent" /\ task[t].status # "absent"
  <2>1. g \in Nat
    BY DEF TypeOK, WorkerStates
  <2> QED
    <3>1. task'[t].status = v /\ task[t].status = "running"
      BY <1>1, <1>5, <2>1, CompletedFields DEF FenceMatches
    <3> QED
      BY <3>1 DEF Terminal
<1>6. ASSUME NEW x \in BOOLEAN, task[t].status = "running",
             task'[t] = [task[t] EXCEPT !.expired = x]
      PROVE  task'[t].status # "absent" /\ task[t].status # "absent"
  BY <1>1, <1>6 DEF TaskStates
<1>7. CASE /\ task[t].status = "absent"
           /\ task'[t] = [task[t] EXCEPT !.status = "queued"]
  BY <1>1, <1>7 DEF TaskStates
<1>8. CASE client[t].pc = "fencing" /\ task'[t] = Fenced(task[t], "timeout")
  BY <1>1, <1>8, FencedFields
<1> QED
  BY <1>2, <1>3, <1>4, <1>5, <1>6, <1>7, <1>8, TaskMoves DEF TaskMove

LEMMA NextSubmitted == TypeOK /\ Submitted /\ [Next]_vars => Submitted'
<1> SUFFICES ASSUME TypeOK, Submitted, [Next]_vars, NEW t \in Tasks,
                    task'[t].status = "absent"
             PROVE  client'[t].pc = "idle"
  BY DEF Submitted
<1>1. task[t].status = "absent" /\ client[t].pc = "idle"
  BY AbsentMoves DEF Submitted
<1>2. CASE UNCHANGED client
  BY <1>1, <1>2
<1>3. ASSUME NEW u \in Tasks, ClientStep(u)
      PROVE  client'[t].pc = "idle"
  <2>1. CASE Submit(u)
    <3>1. CASE u = t
      <4>1. task' = [task EXCEPT ![t].status = "queued"]
        BY <1>1, <2>1, <3>1 DEF Submit
      <4>2. task'[t].status = "queued"
        BY <4>1 DEF TypeOK, TaskStates
      <4> QED
        BY <4>2
    <3>2. CASE u # t
      BY <1>1, <2>1, <3>2 DEF Submit, TypeOK
    <3> QED
      BY <3>1, <3>2
  <2>2. CASE Poll(u) \/ Read(u) \/ Deadline(u) \/ Fence(u) \/ Recheck(u)
    <3>1. client[u].pc # "idle"
      BY <2>2 DEF Poll, Read, Deadline, Fence, Recheck
    <3>2. client'[t] = client[t]
      BY <1>1, <2>2, <3>1 DEF Poll, Read, Deadline, Fence, Recheck, Answer, TypeOK
    <3> QED
      BY <1>1, <3>2
  <2> QED
    BY <1>3, <2>1, <2>2 DEF ClientStep
<1>4. ASSUME NEW w \in Workers, WorkerStep(w) \/ Heartbeat(w) \/ Crash(w)
      PROVE  UNCHANGED client
  BY <1>4 DEF WorkerStep, Recover, ClaimNext, NothingToClaim, CanceledBeforeRun,
              StartHandler, HandlerReturns, Publish, DropResult, Terminate,
              HandlerFails, HandlerExpires, ReportFailure, CompleteClaimed,
              Restart, Heartbeat, Crash
<1>5. ASSUME NEW u \in Tasks, LeaseExpires(u) \/ CancelRun(u)
      PROVE  UNCHANGED client
  BY <1>5 DEF LeaseExpires, CancelRun
<1> QED
  BY <1>2, <1>3, <1>4, <1>5 DEF Next, vars

\* The store, its workers and its clients implement OneShotTasks: a submitted
\* task is decided at most once and never revised.
THEOREM Refinement == Spec => DecidedOnce
<1> DEFINE out == [t \in Tasks |-> Outcome(task[t])]
<1>1. Init => Promise!Init
  BY DEF Init, Promise!Init, NewTask, Outcome
<1>2. TypeOK /\ Submitted /\ [Next]_vars => [Promise!Next]_out
  <2> SUFFICES ASSUME TypeOK, Submitted, [Next]_vars PROVE Promise!Next
    OBVIOUS
  <2>1. ASSUME NEW t \in Tasks
        PROVE  Outcome(task'[t]) \in {"absent", "open"} \cup Terminal
    BY DEF Outcome
  <2>2. ASSUME NEW t \in Tasks
        PROVE  \/ Outcome(task[t]) = "absent" /\ Outcome(task'[t]) = "open"
               \/ Outcome(task[t]) = "open" /\ Outcome(task'[t]) \in Terminal
               \/ Outcome(task'[t]) = Outcome(task[t])
    <3>1. CASE task[t].status \in Terminal
      BY <3>1, TaskMoves, MoveFacts
    <3>2. CASE task[t].status \notin Terminal \cup {"absent"}
      BY <3>2, AbsentMoves DEF Outcome
    <3>3. CASE task[t].status = "absent"
      BY <3>3, AbsentMoves DEF Outcome, Terminal
    <3> QED
      BY <3>1, <3>2, <3>3
  <2> QED
    BY <2>1, <2>2 DEF Promise!Next, Promise!Submit, Promise!Decide
<1>3. Init => Submitted
  BY DEF Init, Submitted
<1> QED
  BY <1>1, <1>2, <1>3, InitType, NextType, NextSubmitted, PTL
  DEF Spec, DecidedOnce, Promise!Spec
===============================================================================
