----------------------------- MODULE GraphRevision -----------------------------
(***************************************************************************)
(* The revision of the execution graph of a run, when population gates are *)
(* enforced: GroundedGraphRevisionTransactionJournal and the two callers   *)
(* of it, revise_grounded_execution_graph and the recovery every mutating  *)
(* tool and every bootstrap begins with.  A revision is made in three      *)
(* places: the journal, the population gate's checkpoint and the graph of  *)
(* the session.  The first two are files of the workspace and survive a    *)
(* crash; the session does not and is built again from the base checkpoint *)
(* of a pending revision.                                                  *)
(*                                                                         *)
(* A journal entry is a claim of its base (base_claim_*.json, one per      *)
(* base), records (record_n_*.json) and a head (head.json) that names the  *)
(* newest record; each file is created or replaced atomically, in this     *)
(* order, under a lock of the entry.                                       *)
(*                                                                         *)
(* Abstractions: a graph is the sequence of the proposals that led to it,  *)
(* so a transaction is named by its revised graph and has the base         *)
(* Front(graph); a proposal stands for its trigger evidence and payload;   *)
(* a status is its ordinal (1 PREPARED, 2 POPULATION_COMMITTED,            *)
(* 3 EXECUTION_COMMITTED) and equals the revision of its record; the gate  *)
(* has authorised a node, so it has a graph; one process at a time works   *)
(* on a workspace.                                                         *)
(***************************************************************************)
EXTENDS Naturals, Sequences, SequencesExt

CONSTANTS
    MaxCalls,       \* bound: calls the agent makes in one turn
    Proposals,      \* what the agent may propose
    MaxRevisions,   \* execution_graph_max_revision_count
    MaxFaults,      \* bound: crashes, file errors, refusals of the gate
    NoGraph

ASSUME GraphRevisionConstants ==
    /\ MaxRevisions \in Nat \ {0}
    /\ MaxFaults \in Nat
    /\ MaxCalls \in Nat \ {0}

VARIABLES
    claims,        \* the transactions whose base claim file exists
    records,       \* the record files: <<transaction, status>>
    head,          \* the status each head file names, 0: no head file
    gate,          \* the graph of the population gate's checkpoint
    session,       \* the graph of the session
    redeclared,    \* the session's graph was declared anew after a restart
    sessionLock,   \* who holds session.lock through a revision
    base,          \* the graph the agent saw when it made its calls
    calls,         \* the tool calls
    faults

Threads == 1..MaxCalls   \* one tool thread per call of a turn
NoThread == 0

journal == <<claims, records, head>>
vars == <<journal, gate, session, redeclared, sessionLock, base, calls, faults>>

\* a trigger is used once
Graphs == {g \in UNION {[1..n -> Proposals] : n \in 0..MaxRevisions} : IsInjective(g)}
Transactions == Graphs \ {<<>>}

ASSUME NoGraphIsNoGraph == NoGraph \notin Graphs

Base(tx) == Front(tx)

Calls ==
    [pc     : {"idle", "discover", "propose", "claim", "prepare", "population",
               "commit", "reload", "install", "finish", "done", "publish"},
     kind   : {"none", "revise", "mutate", "boot"},
     tx     : Graphs,                        \* the transaction in work
     seen   : 0..3,                          \* the status of the record in hand
     next   : 0..3,                          \* the status being published
     after  : {"discover", "population", "reload", "install", "done"},
     todo   : SUBSET Transactions,           \* claims still to be looked at
     found  : SUBSET (Transactions \X (1..2)),  \* pending revisions as they were read
     rolled : BOOLEAN]                       \* a revision was rolled forward

Idle == [pc |-> "idle", kind |-> "none", tx |-> <<>>, seen |-> 0, next |-> 0,
         after |-> "done", todo |-> {}, found |-> {}, rolled |-> FALSE]

Init ==
    /\ claims = {} /\ records = {} /\ head = [tx \in Transactions |-> 0]
    /\ gate = <<>> /\ session = <<>> /\ redeclared = FALSE
    /\ sessionLock = NoThread
    /\ base = <<>>
    /\ calls = [t \in Threads |-> Idle]
    /\ faults = 0

-------------------------------------------------------------------------------
(* The journal *)

At(t, pc) == calls[t].pc = pc

Set(t, call) == calls' = [calls EXCEPT ![t] = call]

Goto(t, pc) == Set(t, [calls[t] EXCEPT !.pc = pc])

\* the call is the one that holds session.lock: it revises, it does not recover
Revising(t) == sessionLock = t

\* flock of the entry: nobody is between its record and its head
Unlocked(tx) == \A u \in Threads : At(u, "publish") => calls[u].tx # tx

\* _publish_record_locked, first half: the record file
PublishRecord(t, tx, status, after) ==
    /\ records' = records \cup {<<tx, status>>}
    /\ Set(t, [calls[t] EXCEPT !.pc = "publish", !.tx = tx, !.next = status, !.after = after])

\* second half: the head file
PublishHead(t) ==
    /\ At(t, "publish")
    /\ head' = [head EXCEPT ![calls[t].tx] = calls[t].next]
    /\ Set(t, [calls[t] EXCEPT !.pc = calls[t].after, !.seen = calls[t].next,
                               !.found = IF calls[t].after = "discover"
                                         THEN @ \cup {<<calls[t].tx, 1>>} ELSE @])
    /\ UNCHANGED <<claims, records, gate, session, redeclared, sessionLock, base, faults>>

\* what advance does with the record in hand and the target status: nothing
\* because it was done from that record before, one step, or a conflict
AlreadyAdvanced(t, target) == target <= head[calls[t].tx] /\ target = calls[t].seen + 1
MayAdvance(t, target) == target = head[calls[t].tx] + 1 /\ head[calls[t].tx] = calls[t].seen

-------------------------------------------------------------------------------
(* Calls *)

Return(t) == Set(t, Idle) /\ sessionLock' = IF Revising(t) THEN NoThread ELSE sessionLock

\* the call raises; a bootstrap that raises ends the run, whose graph is lost
Break(t) ==
    /\ Return(t)
    /\ session' = IF calls[t].kind = "boot" THEN NoGraph ELSE session

\* mutant: only the other tools recover first
Turn_NoRecovery ==
    /\ session # NoGraph
    /\ \A t \in Threads : At(t, "idle")
    /\ \E r, m \in 0..MaxCalls :
          /\ r + m \in Threads
          /\ calls' = [t \in Threads |->
                IF t <= r + m
                THEN [Idle EXCEPT !.pc = "discover", !.todo = IF t <= r THEN {} ELSE claims,
                                  !.kind = IF t <= r THEN "revise" ELSE "mutate"]
                ELSE Idle]
    /\ base' = session
    /\ UNCHANGED <<journal, gate, session, redeclared, sessionLock, faults>>

\* the agent makes r calls that revise and m others that mutate; they run in
\* parallel
Turn ==
    /\ session # NoGraph
    /\ \A t \in Threads : At(t, "idle")
    /\ \E r, m \in 0..MaxCalls :
          /\ r + m \in Threads
          /\ calls' = [t \in Threads |->
                IF t <= r + m
                THEN [Idle EXCEPT !.pc = "discover", !.todo = claims,
                                  !.kind = IF t <= r THEN "revise" ELSE "mutate"]
                ELSE Idle]
    /\ base' = session
    /\ UNCHANGED <<journal, gate, session, redeclared, sessionLock, faults>>

\* mutant: a new process begins anew
Boot_Anew ==
    /\ session = NoGraph
    /\ \A t \in Threads : At(t, "idle")
    /\ Set(1, [Idle EXCEPT !.pc = "discover", !.kind = "boot"])
    /\ UNCHANGED <<journal, gate, session, redeclared, sessionLock, base, faults>>

\* a new process bootstraps the run
Boot ==
    /\ session = NoGraph
    /\ \A t \in Threads : At(t, "idle")
    /\ Set(1, [Idle EXCEPT !.pc = "discover", !.kind = "boot", !.todo = claims])
    /\ UNCHANGED <<journal, gate, session, redeclared, sessionLock, base, faults>>

-------------------------------------------------------------------------------
(* _recover_pending_graph_revisions *)

\* mutant: the claim is published whatever the head says
Materialize_Always(t) ==
    /\ At(t, "discover")
    /\ \E tx \in calls[t].todo :
          /\ Unlocked(tx)
          /\ records' = records \cup {<<tx, 1>>}
          /\ Set(t, [calls[t] EXCEPT !.todo = @ \ {tx}, !.pc = "publish", !.tx = tx,
                                     !.next = 1, !.after = "discover"])
    /\ UNCHANGED <<claims, head, gate, session, redeclared, sessionLock, base, faults>>

\* discover_pending materialises every claim
Materialize(t) ==
    /\ At(t, "discover")
    /\ \E tx \in calls[t].todo :
          /\ Unlocked(tx)
          /\ \/ /\ head[tx] = 0
                /\ records' = records \cup {<<tx, 1>>}
                /\ Set(t, [calls[t] EXCEPT !.todo = @ \ {tx}, !.pc = "publish", !.tx = tx,
                                           !.next = 1, !.after = "discover"])
             \/ /\ head[tx] # 0
                /\ Set(t, [calls[t] EXCEPT !.todo = @ \ {tx},
                           !.found = IF head[tx] < 3 THEN @ \cup {<<tx, head[tx]>>} ELSE @])
                /\ UNCHANGED records
    /\ UNCHANGED <<claims, head, gate, session, redeclared, sessionLock, base, faults>>

Discovered(t) == At(t, "discover") /\ calls[t].todo = {}

\* mutant: recovery installs what is only prepared
Ensure_Installs(t) ==
    /\ Discovered(t)
    /\ sessionLock = NoThread
    /\ \E f \in calls[t].found :
          /\ session \in {NoGraph, Base(f[1]), f[1]}
          /\ session' = IF session = NoGraph THEN Base(f[1]) ELSE session
          /\ Set(t, [calls[t] EXCEPT !.found = @ \ {f}, !.tx = f[1], !.seen = f[2],
                                     !.pc = "install"])
    /\ UNCHANGED <<journal, gate, redeclared, sessionLock, base, faults>>

\* _ensure_graph_revision_base_session
Ensure(t) ==
    /\ Discovered(t)
    /\ sessionLock = NoThread
    /\ \E f \in calls[t].found :
          /\ session \in {NoGraph, Base(f[1]), f[1]}
          /\ session' = IF session = NoGraph THEN Base(f[1]) ELSE session
          /\ Set(t, [calls[t] EXCEPT !.found = @ \ {f}, !.tx = f[1], !.seen = f[2],
                                     !.pc = IF f[2] = 1 THEN "population" ELSE "install"])
    /\ UNCHANGED <<journal, gate, redeclared, sessionLock, base, faults>>

\* GRAPH_REVISION_RECOVERY_EXECUTION_BASE_MISMATCH
EnsureRaises(t) ==
    /\ Discovered(t)
    /\ sessionLock = NoThread
    /\ \E f \in calls[t].found : session \notin {NoGraph, Base(f[1]), f[1]}
    /\ Break(t)
    /\ UNCHANGED <<journal, gate, redeclared, base, faults>>

\* nothing is pending any more: a call that rolled something forward tells
\* so and ends, a new process without a graph declares one
Recovered(t) ==
    /\ Discovered(t)
    /\ calls[t].found = {}
    /\ IF calls[t].kind = "revise" /\ ~calls[t].rolled
       THEN Goto(t, "propose") ELSE Set(t, Idle)
    /\ IF session = NoGraph
       THEN session' = <<>> /\ redeclared' = TRUE
       ELSE UNCHANGED <<session, redeclared>>
    /\ UNCHANGED <<journal, gate, sessionLock, base, faults>>

\* load_recovery after the population is committed
Reload(t) ==
    /\ At(t, "reload")
    /\ Unlocked(calls[t].tx)
    /\ Set(t, [calls[t] EXCEPT !.seen = head[calls[t].tx],
                               !.pc = IF head[calls[t].tx] = 2 THEN "install" ELSE "discover"])
    /\ UNCHANGED <<journal, gate, session, redeclared, sessionLock, base, faults>>

\* mutant: the graph is installed whatever the session runs
Installable_Always(t) == TRUE

\* the session still runs the base
Installable(t) == session = Base(calls[t].tx)

\* _install_recovered_execution_graph_revision
Install(t) ==
    /\ At(t, "install")
    /\ ~Revising(t) /\ sessionLock = NoThread
    /\ session = calls[t].tx \/ Installable(t)
    /\ session' = calls[t].tx
    /\ Goto(t, "finish")
    /\ UNCHANGED <<journal, gate, redeclared, sessionLock, base, faults>>

InstallRaises(t) ==
    /\ At(t, "install")
    /\ ~Revising(t) /\ sessionLock = NoThread
    /\ session # calls[t].tx /\ ~Installable(t)
    /\ Break(t)
    /\ UNCHANGED <<journal, gate, redeclared, base, faults>>

-------------------------------------------------------------------------------
(* revise_grounded_execution_graph *)

\* the trigger is not in execution_graph_used_replan_fingerprints
Fresh(p) == p \notin ToSet(session)

\* the proposal is based on the session's graph and its trigger is new; the
\* lock is held until the call ends
Propose(t) ==
    /\ At(t, "propose")
    /\ sessionLock = NoThread
    /\ session = base
    /\ Len(session) < MaxRevisions
    /\ \E p \in Proposals :
          /\ Fresh(p)
          /\ sessionLock' = t
          /\ Set(t, [calls[t] EXCEPT !.pc = "claim", !.tx = Append(session, p), !.seen = 0])
    /\ UNCHANGED <<journal, gate, session, redeclared, base, faults>>

ProposeRefused(t) ==
    /\ At(t, "propose")
    /\ sessionLock = NoThread
    /\ Return(t)
    /\ UNCHANGED <<journal, gate, session, redeclared, base, faults>>

\* mutant: whoever comes later shares the base
Claimable_Shared(tx) == TRUE

\* the claim file of the base is missing or the transaction's own
Claimable(tx) == \A other \in claims : Base(other) = Base(tx) => other = tx

\* _claim_base
Claim(t) ==
    /\ At(t, "claim")
    /\ Claimable(calls[t].tx)
    /\ claims' = claims \cup {calls[t].tx}
    /\ Goto(t, "prepare")
    /\ UNCHANGED <<records, head, gate, session, redeclared, sessionLock, base, faults>>

\* mutant: a claimed base is waited for
ClaimRefused_Waits(t) ==
    /\ At(t, "claim")
    /\ ~Claimable(calls[t].tx)
    /\ UNCHANGED vars

\* GRAPH_REVISION_BASE_ALREADY_CLAIMED
ClaimRefused(t) ==
    /\ At(t, "claim")
    /\ ~Claimable(calls[t].tx)
    /\ Return(t)
    /\ UNCHANGED <<journal, gate, session, redeclared, base, faults>>

\* the rest of prepare
Prepare(t) ==
    /\ At(t, "prepare")
    /\ Unlocked(calls[t].tx)
    /\ \/ /\ head[calls[t].tx] = 0
          /\ PublishRecord(t, calls[t].tx, 1, "population")
       \/ /\ head[calls[t].tx] # 0
          /\ Set(t, [calls[t] EXCEPT !.seen = head[calls[t].tx], !.pc = "population"])
          /\ UNCHANGED records
    /\ UNCHANGED <<claims, head, gate, session, redeclared, sessionLock, base, faults>>

-------------------------------------------------------------------------------
(* Both *)

\* mutant: the checkpoint is written, not compared
CommitPopulation_Unchecked(t) ==
    /\ At(t, "population")
    /\ gate' = calls[t].tx
    /\ Goto(t, "commit")
    /\ UNCHANGED <<journal, session, redeclared, sessionLock, base, faults>>

\* revise_graph of the population gate: a compare-and-swap of its checkpoint
CommitPopulation(t) ==
    /\ At(t, "population")
    /\ gate \in {calls[t].tx, Base(calls[t].tx)}
    /\ gate' = calls[t].tx
    /\ Goto(t, "commit")
    /\ UNCHANGED <<journal, session, redeclared, sessionLock, base, faults>>

\* POPULATION_GRAPH_REVISION_STALE
PopulationStale(t) ==
    /\ At(t, "population")
    /\ gate \notin {calls[t].tx, Base(calls[t].tx)}
    /\ Break(t)
    /\ UNCHANGED <<journal, gate, redeclared, base, faults>>

\* advance to POPULATION_COMMITTED or EXECUTION_COMMITTED
Advance(t, pc, target, after) ==
    /\ At(t, pc)
    /\ Unlocked(calls[t].tx)
    /\ \/ /\ AlreadyAdvanced(t, target)
          /\ Set(t, [calls[t] EXCEPT !.pc = after, !.seen = head[calls[t].tx]])
          /\ UNCHANGED records
       \/ /\ MayAdvance(t, target)
          /\ PublishRecord(t, calls[t].tx, target, after)
    /\ UNCHANGED <<claims, head, gate, session, redeclared, sessionLock, base, faults>>

PopulationCommitted(t) ==
    Advance(t, "commit", 2, IF Revising(t) THEN "install" ELSE "reload")

\* the revising call switches the session under its lock
Switch(t) ==
    /\ At(t, "install")
    /\ Revising(t)
    /\ session' = calls[t].tx
    /\ Goto(t, "finish")
    /\ UNCHANGED <<journal, gate, redeclared, sessionLock, base, faults>>

ExecutionCommitted(t) == Advance(t, "finish", 3, "done")

\* GRAPH_REVISION_JOURNAL_CAS_CONFLICT
AdvanceRaises(t) ==
    /\ \E target \in {2, 3} :
          /\ At(t, IF target = 2 THEN "commit" ELSE "finish")
          /\ Unlocked(calls[t].tx)
          /\ ~AlreadyAdvanced(t, target) /\ ~MayAdvance(t, target)
    /\ Break(t)
    /\ UNCHANGED <<journal, gate, redeclared, base, faults>>

Done(t) ==
    /\ At(t, "done")
    /\ IF Revising(t)
       THEN Return(t)
       ELSE /\ Set(t, [calls[t] EXCEPT !.pc = "discover", !.rolled = TRUE])
            /\ UNCHANGED sessionLock
    /\ UNCHANGED <<journal, gate, session, redeclared, base, faults>>

-------------------------------------------------------------------------------
(* Faults *)

\* a file operation or the gate fails, the budget is exhausted
Fault(t) ==
    /\ ~At(t, "idle")
    /\ faults < MaxFaults
    /\ faults' = faults + 1
    /\ Break(t)
    /\ UNCHANGED <<journal, gate, redeclared, base>>

\* the process dies; files stay, locks are released
Crash ==
    /\ faults < MaxFaults
    /\ faults' = faults + 1
    /\ session' = NoGraph /\ redeclared' = FALSE /\ sessionLock' = NoThread
    /\ calls' = [t \in Threads |-> Idle]
    /\ UNCHANGED <<journal, gate, base>>

Recover(t) ==
    \/ Materialize(t) \/ Ensure(t) \/ EnsureRaises(t) \/ Recovered(t)
    \/ Reload(t) \/ Install(t) \/ InstallRaises(t)

Revise(t) ==
    \/ Propose(t) \/ ProposeRefused(t) \/ Claim(t) \/ ClaimRefused(t) \/ Prepare(t)
    \/ Switch(t)

Commit(t) ==
    \/ CommitPopulation(t) \/ PopulationStale(t) \/ PopulationCommitted(t)
    \/ ExecutionCommitted(t) \/ AdvanceRaises(t) \/ PublishHead(t) \/ Done(t)

Proceed(t) == Recover(t) \/ Revise(t) \/ Commit(t)

Next == Turn \/ Boot \/ Crash \/ \E t \in Threads : Proceed(t) \/ Fault(t)

Spec == Init /\ [][Next]_vars

\* A call that is not blocked goes on.  A run whose process died is claimed by
\* another one when its lease expires; nothing obliges the agent to make calls.
FairSpec == Spec /\ WF_vars(Boot) /\ \A t \in Threads : WF_vars(Proceed(t))

-------------------------------------------------------------------------------
(* Properties *)

\* Every field keeps its range; in particular no graph is revised more often
\* than the budget allows or twice for one trigger, whatever was recovered.
TypeOK ==
    /\ claims \subseteq Transactions
    /\ records \subseteq Transactions \X (1..3)
    /\ head \in [Transactions -> 0..3]
    /\ gate \in Graphs
    /\ session \in Graphs \cup {NoGraph}
    /\ redeclared \in BOOLEAN
    /\ sessionLock \in Threads \cup {NoThread}
    /\ base \in Graphs
    /\ calls \in [Threads -> Calls]
    /\ faults \in 0..MaxFaults

\* Every revision the population gate ever accepted is in the journal, and no
\* other revision of the same base is: prepare comes before revise_graph, and
\* the claim of the base decides between rivals, across crashes.
GateIsClaimed ==
    \A n \in 1..Len(gate) :
        \A tx \in claims \cup {SubSeq(gate, 1, n)} :
            Base(tx) = SubSeq(gate, 1, n - 1) => tx = SubSeq(gate, 1, n) /\ tx \in claims

\* The session never runs a graph the gate has not accepted, nor does the
\* journal say committed of one: a half-made revision is never executed.
SessionNotAhead ==
    /\ session # NoGraph => IsPrefix(session, gate)
    /\ \A tx \in Transactions : head[tx] >= 2 => IsPrefix(tx, gate)

\* Whatever is pending can be rolled forward from where the session is.
PendingRecoverable ==
    \A tx \in claims : head[tx] < 3 => session \in {NoGraph, Base(tx), tx}

\* When no call runs and nothing is pending, session and gate run the same
\* graph, unless a new process declared its graph anew because its
\* predecessor's revision was complete.
SettledAgree ==
    /\ \A t \in Threads : At(t, "idle")
    /\ \A tx \in claims : head[tx] = 3
    /\ session # NoGraph
    /\ ~redeclared
    => session = gate

\* A journal entry goes through its statuses one by one and never back, and
\* its head names a record that exists, whichever thread publishes and
\* whichever of the two writes a crash or an error came between.
HeadAdvances ==
    [][\A tx \in Transactions :
          /\ head'[tx] \in {head[tx], head[tx] + 1}
          /\ head'[tx] # 0 => <<tx, head'[tx]>> \in records']_vars

Log == INSTANCE RevisionLog WITH accepted <- gate, executed <- session

\* Gate and session implement the abstract log of revisions: revise_graph
\* accepts a revision only on top of the graph the session runs, however many
\* calls revise and recover at once, and whatever a crash left half made, the
\* session is at most one revision behind or declared anew.
ImplementsRevisionLog == Log!Spec

\* All calls of a turn return: no thread waits for ever for session.lock or
\* the lock of an entry.
CallsReturn == []<>(\A t \in Threads : At(t, "idle"))

\* What a dead process left pending its successor completes, once faults end.
SuccessorCompletes ==
    (session = NoGraph) ~> (session # NoGraph /\ \A tx \in claims : head[tx] = 3)
===============================================================================
