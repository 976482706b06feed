------------------------------ MODULE QueryBatch ------------------------------
(***************************************************************************)
(* The online query_batch tool of the grounded DeepAgent runtime.          *)
(*                                                                         *)
(* One call prepares a set of declared, mutually independent query         *)
(* branches, runs every prepared branch in its own thread (bounded SQL     *)
(* repair loop, Doris reservation, execution, evidence verification) and   *)
(* lets every branch adopt its verified artifact into the parent session   *)
(* with an optimistic compare-and-set: the parent is read under the lock,  *)
(* result files are published outside it, and the commit re-checks the     *)
(* parent under the lock.                                                  *)
(*                                                                         *)
(* Each branch session is touched only by the thread that executes it, so  *)
(* branch steps are atomic; the shared state is the parent session, the    *)
(* branch registry and the run's Doris budget.                             *)
(*                                                                         *)
(* Abstractions: a contract is "the one already active" or "a revised      *)
(* one"; a SQL text is a value whose verdict by the (deterministic)        *)
(* validator is fixed by GoodSql; a run result is the number of the Doris  *)
(* reservation that produced it.  Calls of query_batch do not overlap and  *)
(* their branches have no dependencies.                                    *)
(***************************************************************************)
EXTENDS Naturals, FiniteSets

CONSTANTS
    Queries,             \* declared query ids
    CoreSql,             \* those whose contract is CORE_SQL_REQUIRED
    Sqls,                \* SQL texts Core or the repair worker may author
    GoodSql,             \* the texts the candidate validator accepts
    NoSql,               \* a request without a SQL candidate
    Compiled,            \* the identity of a deterministic, compiled plan
    MaxWorkers,          \* max_batch_workers of GovernedQueryService
    MaxRepairs,          \* max_internal_repairs of GovernedQueryService
    MaxSubmissions,      \* SQL candidates per contract generation
    BranchContractLimit, \* max_contract_attempts of one branch
    BranchDorisLimit,    \* max_doris_queries of one branch
    DorisLimit,          \* max_doris_queries of the run
    MaxCalls             \* bound: query_batch calls explored

ASSUME QueryBatchConstants ==
    /\ CoreSql \subseteq Queries
    /\ GoodSql \subseteq Sqls
    /\ NoSql \notin Sqls
    /\ Compiled \notin Sqls \cup {NoSql}
    /\ MaxWorkers \in Nat \ {0}
    /\ {MaxRepairs, MaxSubmissions, BranchContractLimit, BranchDorisLimit,
        DorisLimit, MaxCalls} \subseteq Nat

VARIABLES
    calls,    \* query_batch calls made so far
    batch,    \* query ids of the call in progress, {} between calls
    pc,       \* where the thread of a query stands
    reg,      \* keys of deep_session.parallel_branches
    ctx,      \* GroundedQueryBranchContext.status
    br,       \* the branch sessions and their branch budgets
    sqlOf,    \* the SQL candidate of the current attempt of a query
    repairs,  \* internal repairs spent in the current call
    verdict,  \* what the thread will report for the query
    snap,     \* the parent snapshot an adoption compares against
    todo,     \* adopted artifacts whose goals are still to be attached
    doris,    \* Doris queries reserved by the run
    failure,  \* deep_session.operational_failure
    phase,    \* phase of the parent session
    gen,      \* active_generation of the parent session
    rev,      \* revision of the parent session
    ledger,   \* verified_query_ledger of the parent session
    proved    \* history: every execution whose evidence passed

vars == <<calls, batch, pc, reg, ctx, br, sqlOf, repairs, verdict, snap, todo,
          doris, failure, phase, gen, rev, ledger, proved>>

parentVars == <<failure, phase, gen, rev, ledger>>

-------------------------------------------------------------------------------
(* Values *)

Plans == Sqls \cup {Compiled}

ArtifactIds == [query : Queries, gen : Nat, sql : Plans]

\* An artifact of the parent ledger: exe is the execution whose evidence was
\* verified, rows the execution whose rows the artifact carries.
Artifacts == [query : Queries, gen : Nat, sql : Plans, exe : Nat, rows : Nat,
              goals : BOOLEAN]

BranchArtifacts == [gen : Nat, sql : Plans, exe : Nat,
                    status : {"PENDING", "PUBLISHED"}]

Statuses == {"DECLARED", "PREPARED", "EXECUTING", "VERIFIED", "FAILED",
             "CONTRACT_GAPPED", "TERMINAL_BLOCKED", "BUDGET_BLOCKED"}

Branches ==
    [gen       : Nat,                   \* active_generation
     cand      : Plans \cup {NoSql},    \* the executable candidate or plan
     tried     : [Sqls -> {"new", "ACCEPTED", "SQL_GAP", "BINDING_GAP"}],
     tries     : Nat,                   \* SQL candidate attempts, this generation
     exhausted : BOOLEAN,               \* contract in repair_exhausted_...
     executed  : SUBSET Sqls,           \* executed_sql_candidate_fingerprints
     authority : Nat,                   \* publication authority, 0 for none
     pending   : Nat,                   \* pending publication, 0 for none
     evidence  : {"none", "passed", "gapped"},
     arts      : SUBSET BranchArtifacts,
     latest    : Plans \cup {NoSql},    \* plan of the last ledger entry
     contracts : Nat,                   \* contract attempts consumed
     doris     : Nat]                   \* Doris queries consumed

IdOf(a) == [query |-> a.query, gen |-> a.gen, sql |-> a.sql]

LedgerIds == {IdOf(a) : a \in ledger}

ParentNow == [gen |-> gen, rev |-> rev, ids |-> LedgerIds]

IdleSnap == [gen |-> 0, rev |-> 0, ids |-> {}]

NewBranch ==
    [gen |-> 0, cand |-> NoSql, tried |-> [s \in Sqls |-> "new"], tries |-> 0,
     exhausted |-> FALSE, executed |-> {}, authority |-> 0, pending |-> 0,
     evidence |-> "none", arts |-> {}, latest |-> NoSql, contracts |-> 0,
     doris |-> 0]

\* _clear_active_sql_candidate with _reset_publication_state
Cleared(b) == [b EXCEPT !.cand = NoSql, !.authority = 0, !.pending = 0,
                        !.evidence = "none"]

\* activate_contract on a changed contract: _activate_scope, or the atomic
\* switch to the compiled plan
Activated(q, b) ==
    [Cleared(b) EXCEPT !.gen = @ + 1,
                       !.cand = IF q \in CoreSql THEN NoSql ELSE Compiled,
                       !.tried = [s \in Sqls |-> "new"], !.tries = 0,
                       !.exhausted = FALSE, !.executed = {}]

\* artifacts of the branch's active generation, the ones an adoption takes
Current(b) == {a \in b.arts : a.gen = b.gen}

\* the branch artifact that holds the publication authority after verification
AuthorityOf(b) ==
    {a \in Current(b) : a.sql = b.latest /\ a.status = "PENDING"}
-------------------------------------------------------------------------------
Init ==
    /\ calls = 0
    /\ batch = {}
    /\ pc = [q \in Queries |-> "idle"]
    /\ reg = {}
    /\ ctx = [q \in Queries |-> "DECLARED"]
    /\ br = [q \in Queries |-> NewBranch]
    /\ sqlOf = [q \in Queries |-> NoSql]
    /\ repairs = [q \in Queries |-> 0]
    /\ verdict = [q \in Queries |-> "none"]
    /\ snap = [q \in Queries |-> IdleSnap]
    /\ todo = [q \in Queries |-> {}]
    /\ doris = 0
    /\ failure = "none"
    /\ phase = "IDLE"
    /\ gen = 0
    /\ rev = 0
    /\ ledger = {}
    /\ proved = {}

-------------------------------------------------------------------------------
(* The call: prepare every branch, then hand the prepared ones to the pool *)

\* prepare_declared_branch: what one contract proposal may lead to
Outcome(q, choice) ==
    IF br[q].contracts >= BranchContractLimit THEN "BUDGET_BLOCKED"
    ELSE IF choice = "gap" THEN "CONTRACT_GAPPED"
    ELSE IF choice = "error" THEN "FAILED" ELSE "PREPARED"

PreparedBranch(q, choice) ==
    LET b == [br[q] EXCEPT !.contracts = @ + 1]
    IN  IF br[q].contracts >= BranchContractLimit THEN br[q]
        ELSE IF choice = "revise" \/ (choice = "reuse" /\ b.gen = 0)
             THEN Activated(q, b)
             ELSE b

Call(B, choice, sql) ==
    LET ready == {q \in B : Outcome(q, choice[q]) = "PREPARED"}
    IN  /\ batch = {}
        /\ calls < MaxCalls
        /\ failure = "none"          \* a failed run offers Core no tools
        /\ calls' = calls + 1
        /\ batch' = B
        /\ br' = [q \in Queries |->
                     IF q \in B THEN PreparedBranch(q, choice[q]) ELSE br[q]]
        /\ ctx' = [q \in Queries |->
                     IF q \in B THEN Outcome(q, choice[q]) ELSE ctx[q]]
        /\ reg' = reg \cup ready
        /\ pc' = [q \in Queries |-> IF q \in ready THEN "queued"
                                    ELSE IF q \in B THEN "done" ELSE pc[q]]
        /\ verdict' = [q \in Queries |->
                     IF q \in B \ ready THEN "NEEDS_REASONING" ELSE verdict[q]]
        /\ sqlOf' = [q \in Queries |->
                     IF q \in B \cap CoreSql THEN sql[q] ELSE sqlOf[q]]
        /\ UNCHANGED <<repairs, snap, todo, doris, proved, parentVars>>

\* mutant: a finished thread keeps its slot
Busy_SlotNeverFreed == {q \in batch : pc[q] # "queued"}

\* threads of the pool that are still working
Busy == {q \in batch : pc[q] \notin {"queued", "done"}}

\* a pool thread picks the branch up
Start(q) ==
    /\ pc[q] = "queued"
    /\ Cardinality(Busy) < MaxWorkers
    /\ pc' = [pc EXCEPT ![q] = "attempt"]
    /\ UNCHANGED <<calls, batch, reg, ctx, br, sqlOf, repairs, verdict, snap,
                   todo, doris, proved, parentVars>>

\* the thread of q stops with verdict v
Settle(q, v) ==
    /\ pc' = [pc EXCEPT ![q] = "done"]
    /\ verdict' = [verdict EXCEPT ![q] = v]

-------------------------------------------------------------------------------
(* One attempt of the repair loop: submit the candidate *)

\* no candidate for a CORE_SQL_REQUIRED contract, or the branch is no longer
\* registered: the attempt ends without touching the branch
NothingToRun(q) ==
    /\ pc[q] = "attempt"
    /\ (q \in CoreSql /\ sqlOf[q] = NoSql) \/ q \notin reg
    /\ Settle(q, "NEEDS_REASONING")
    /\ UNCHANGED <<calls, batch, reg, ctx, br, sqlOf, repairs, snap, todo,
                   doris, proved, parentVars>>

BeginCompiled(q) ==
    /\ pc[q] = "attempt" /\ q \in reg /\ q \notin CoreSql
    /\ ctx' = [ctx EXCEPT ![q] = "EXECUTING"]
    /\ pc' = [pc EXCEPT ![q] = "reserve"]
    /\ UNCHANGED <<calls, batch, reg, br, sqlOf, repairs, verdict, snap, todo,
                   doris, proved, parentVars>>

\* submit_sql_candidate returned: the branch becomes b, the thread goes on to
\* the Doris reservation or closes the attempt with verdict v
Submitted(q, b, next, v) ==
    /\ ctx' = [ctx EXCEPT ![q] = "EXECUTING"]
    /\ br' = [br EXCEPT ![q] = b]
    /\ pc' = [pc EXCEPT ![q] = next]
    /\ verdict' = [verdict EXCEPT ![q] = v]
    /\ UNCHANGED <<calls, batch, reg, sqlOf, repairs, snap, todo, doris, proved,
                   parentVars>>

\* the contract's repair budget is spent: REPAIR_EXHAUSTED, REVISE_BINDINGS
SubmitExhausted(q) ==
    LET b == br[q]
    IN  /\ b.exhausted \/ b.tries >= MaxSubmissions
        /\ Submitted(q,
               IF b.exhausted THEN b
               ELSE [Cleared(b) EXCEPT !.exhausted = TRUE, !.tries = @ + 1],
               "close", "NEEDS_REASONING")

Fresh(q) == ~br[q].exhausted /\ br[q].tries < MaxSubmissions

\* the accepted candidate that is still active is handed back unchanged
SubmitReused(q) ==
    /\ Fresh(q)
    /\ br[q].tried[sqlOf[q]] = "ACCEPTED" /\ br[q].cand = sqlOf[q]
    /\ Submitted(q, br[q], "reserve", "none")

\* only a gap in the SQL itself is handed to the internal repair worker
AfterGap(gap) == IF gap = "BINDING_GAP" THEN "NEEDS_REASONING" ELSE "repair"

\* the same text again, without the candidate being active: NO_PROGRESS
SubmitNoProgress(q) ==
    /\ Fresh(q)
    /\ br[q].tried[sqlOf[q]] # "new"
    /\ ~(br[q].tried[sqlOf[q]] = "ACCEPTED" /\ br[q].cand = sqlOf[q])
    /\ Submitted(q, [Cleared(br[q]) EXCEPT !.tries = @ + 1], "close",
                 AfterGap(br[q].tried[sqlOf[q]]))

\* REJECTED for a gap of the SQL or of the bindings; PREPARATION_FAILED of a
\* valid text asks for revised bindings
SubmitRejected(q) ==
    /\ Fresh(q)
    /\ br[q].tried[sqlOf[q]] = "new"
    /\ \E gap \in {"SQL_GAP", "BINDING_GAP"} :
          /\ gap = "SQL_GAP" => sqlOf[q] \notin GoodSql
          /\ Submitted(q, [Cleared(br[q]) EXCEPT !.tries = @ + 1,
                                                 !.tried[sqlOf[q]] = gap],
                       "close", AfterGap(gap))

SubmitAccepted(q) ==
    /\ Fresh(q)
    /\ br[q].tried[sqlOf[q]] = "new" /\ sqlOf[q] \in GoodSql
    /\ Submitted(q, [Cleared(br[q]) EXCEPT !.tries = @ + 1, !.cand = sqlOf[q],
                                           !.tried[sqlOf[q]] = "ACCEPTED"],
                 "reserve", "none")

\* the validator itself fails: STOP_INTERNAL
SubmitBroken(q) ==
    /\ Fresh(q)
    /\ Submitted(q, [Cleared(br[q]) EXCEPT !.tries = @ + 1], "close", "FAILED")

Submit(q) ==
    /\ pc[q] = "attempt" /\ q \in reg /\ q \in CoreSql /\ sqlOf[q] # NoSql
    /\ \/ SubmitExhausted(q) \/ SubmitReused(q) \/ SubmitNoProgress(q)
       \/ SubmitRejected(q) \/ SubmitAccepted(q) \/ SubmitBroken(q)

\* execute_query_batch of an attempt that verified nothing: the adoption of no
\* branch is a no-op, and the branch leaves the registry whatever its status
Close(q) ==
    /\ pc[q] = "close"
    /\ reg' = reg \ {q}
    /\ IF verdict[q] = "repair" /\ repairs[q] < MaxRepairs
       THEN pc' = [pc EXCEPT ![q] = "repair"] /\ UNCHANGED verdict
       ELSE Settle(q, IF verdict[q] = "repair" THEN "NEEDS_REASONING"
                      ELSE verdict[q])
    /\ UNCHANGED <<calls, batch, ctx, br, sqlOf, repairs, snap, todo, doris,
                   proved, parentVars>>

\* _repair_query_sql_candidate: a changed SQL text, or none
Repair(q) ==
    /\ pc[q] = "repair"
    /\ \/ \E s \in Sqls \ {sqlOf[q]} :
             /\ sqlOf' = [sqlOf EXCEPT ![q] = s]
             /\ repairs' = [repairs EXCEPT ![q] = @ + 1]
             /\ pc' = [pc EXCEPT ![q] = "attempt"]
             /\ verdict' = [verdict EXCEPT ![q] = "none"]
       \/ Settle(q, "NEEDS_REASONING") /\ UNCHANGED <<sqlOf, repairs>>
    /\ UNCHANGED <<calls, batch, reg, ctx, br, snap, todo, doris, proved,
                   parentVars>>
-------------------------------------------------------------------------------
(* Doris reservation, execution, evidence *)

\* consume_doris_query of the branch, then of the run, before the query runs
Reserve(q) ==
    /\ pc[q] = "reserve"
    /\ br[q].doris < BranchDorisLimit
    /\ doris < DorisLimit
    /\ br' = [br EXCEPT ![q].doris = @ + 1]
    /\ doris' = doris + 1
    /\ pc' = [pc EXCEPT ![q] = "execute"]
    /\ UNCHANGED <<calls, batch, reg, ctx, sqlOf, repairs, verdict, snap, todo,
                   proved, parentVars>>

\* the branch budget is an operational terminal failure of the batch
ReserveBranchDenied(q) ==
    /\ pc[q] = "reserve"
    /\ br[q].doris >= BranchDorisLimit
    /\ ctx' = [ctx EXCEPT ![q] = "BUDGET_BLOCKED"]
    /\ verdict' = [verdict EXCEPT ![q] = "FAILED"]
    /\ pc' = [pc EXCEPT ![q] = "terminal"]
    /\ UNCHANGED <<calls, batch, reg, br, sqlOf, repairs, snap, todo, doris,
                   proved, parentVars>>

\* the run budget raises through execute_query_batch: the branch stays
\* registered and execute_batch reports QUERY_BATCH_BRANCH_INTERNAL_ERROR
ReserveRunDenied(q) ==
    /\ pc[q] = "reserve"
    /\ br[q].doris < BranchDorisLimit
    /\ doris >= DorisLimit
    /\ Settle(q, "FAILED")
    /\ UNCHANGED <<calls, batch, reg, ctx, br, sqlOf, repairs, snap, todo,
                   doris, proved, parentVars>>

\* execute_active raises: the candidate was already executed in this
\* generation (SQL_EXECUTION_NO_PROGRESS), or the executor itself failed
ExecuteRaises(q) ==
    /\ pc[q] = "execute"
    /\ ctx' = [ctx EXCEPT ![q] = "TERMINAL_BLOCKED"]
    /\ \E v \in {"DENIED", "FAILED"} : verdict' = [verdict EXCEPT ![q] = v]
    /\ pc' = [pc EXCEPT ![q] = "terminal"]
    /\ UNCHANGED <<calls, batch, reg, br, sqlOf, repairs, snap, todo, doris,
                   proved, parentVars>>

\* execute_active commits a run result: a new authority and pending receipt
Executed(b) ==
    [b EXCEPT !.executed = IF b.cand \in Sqls THEN @ \cup {b.cand} ELSE @,
              !.authority = b.doris, !.pending = b.doris, !.evidence = "none"]

\* the result is usable, recoverable, denied by the ACL or an outage
Execute(q) ==
    /\ pc[q] = "execute"
    /\ br[q].cand \notin br[q].executed
    /\ br' = [br EXCEPT ![q] = Executed(br[q])]
    /\ \/ pc' = [pc EXCEPT ![q] = "verify"] /\ UNCHANGED <<ctx, verdict>>
       \/ /\ pc' = [pc EXCEPT ![q] = "close"]
          /\ ctx' = [ctx EXCEPT ![q] = "FAILED"]
          /\ verdict' = [verdict EXCEPT ![q] = "NEEDS_REASONING"]
       \/ /\ pc' = [pc EXCEPT ![q] = "terminal"]
          /\ ctx' = [ctx EXCEPT ![q] = "TERMINAL_BLOCKED"]
          /\ \E v \in {"DENIED", "FAILED"} : verdict' = [verdict EXCEPT ![q] = v]
    /\ UNCHANGED <<calls, batch, reg, sqlOf, repairs, snap, todo, doris, proved,
                   parentVars>>

\* execute_query_batch sees a terminal result: the run fails, one lock region
Terminal(q) ==
    /\ pc[q] = "terminal"
    /\ failure' = IF verdict[q] = "DENIED" THEN "SECURITY" ELSE "OPERATIONAL"
    /\ phase' = IF verdict[q] = "DENIED" THEN "SECURITY_BLOCKED"
                ELSE "OPERATIONAL_FAILURE"
    /\ ctx' = [ctx EXCEPT ![q] = "TERMINAL_BLOCKED"]
    /\ reg' = reg \ {q}
    /\ pc' = [pc EXCEPT ![q] = "done"]
    /\ UNCHANGED <<calls, batch, br, sqlOf, repairs, verdict, snap, todo, doris,
                   proved, gen, rev, ledger>>

\* _record_verified_query_artifact: the entry of this generation and plan is
\* kept if there is one, otherwise a PENDING artifact is appended
WithArtifact(b) ==
    IF \E a \in b.arts : a.gen = b.gen /\ a.sql = b.cand THEN b
    ELSE [b EXCEPT !.arts = @ \cup {[gen |-> b.gen, sql |-> b.cand,
                                     exe |-> b.authority, status |-> "PENDING"]},
                   !.latest = b.cand]

VerifyPassed(q) ==
    /\ pc[q] = "verify"
    /\ br' = [br EXCEPT ![q] = [WithArtifact(br[q]) EXCEPT !.evidence = "passed",
                                                           !.authority = 0]]
    /\ proved' = proved \cup {[query |-> q, gen |-> br[q].gen,
                               sql |-> br[q].cand, exe |-> br[q].authority]}
    /\ pc' = [pc EXCEPT ![q] = "snapshot"]
    /\ UNCHANGED <<calls, batch, reg, ctx, sqlOf, repairs, verdict, snap, todo,
                   doris, parentVars>>

VerifyGapped(q) ==
    /\ pc[q] = "verify"
    /\ br' = [br EXCEPT ![q].evidence = "gapped", ![q].authority = 0,
                        ![q].pending = 0]
    /\ ctx' = [ctx EXCEPT ![q] = "CONTRACT_GAPPED"]
    /\ verdict' = [verdict EXCEPT ![q] = "NEEDS_REASONING"]
    /\ pc' = [pc EXCEPT ![q] = "close"]
    /\ UNCHANGED <<calls, batch, reg, sqlOf, repairs, snap, todo, doris, proved,
                   parentVars>>

-------------------------------------------------------------------------------
(* adopt_verified_branches: snapshot, publication outside the lock, commit *)

\* an exception leaves execute_query_batch before the registry is cleaned up
AdoptionRaises(q, v) ==
    /\ Settle(q, v)
    /\ UNCHANGED <<calls, batch, reg, ctx, br, sqlOf, repairs, snap, todo,
                   doris, proved, parentVars>>

\* first lock region: remember the parent; QUERY_RESULT_PUBLICATION_STATE_REQUIRED
\* when no unpublished artifact holds the authority
Snapshot(q) ==
    /\ pc[q] = "snapshot"
    /\ AuthorityOf(br[q]) # {}
    /\ snap' = [snap EXCEPT ![q] = ParentNow]
    /\ pc' = [pc EXCEPT ![q] = "commit"]
    /\ UNCHANGED <<calls, batch, reg, ctx, br, sqlOf, repairs, verdict, todo,
                   doris, proved, parentVars>>

SnapshotRaises(q) ==
    /\ pc[q] = "snapshot"
    /\ AuthorityOf(br[q]) = {}
    /\ AdoptionRaises(q, "FAILED")

\* the pending receipt is that of the execution the authority artifact holds
Publishable(q) ==
    \E a \in AuthorityOf(br[q]) : br[q].pending # 0 /\ a.exe = br[q].pending

ParentUnchanged(q) == snap[q] = ParentNow

\* VERIFIED_BRANCH_ARTIFACT_PUBLICATION_FAILED: the receipt does not match the
\* authority, or writing the result files failed
PublishRaises(q) ==
    /\ pc[q] = "commit"
    /\ AdoptionRaises(q, "FAILED")

\* PARENT_VERIFIED_LEDGER_STALE
CommitStale(q) ==
    /\ pc[q] = "commit"
    /\ Publishable(q)
    /\ ~ParentUnchanged(q)
    /\ AdoptionRaises(q, "STALE")

\* mutant: no test for artifacts the parent already holds
Adopted_Again(q) ==
    {[query |-> q, gen |-> a.gen, sql |-> a.sql, exe |-> a.exe,
      rows |-> br[q].pending, goals |-> FALSE] : a \in Current(br[q])}

\* what the commit adds: the generation's artifacts that are not there yet, all
\* of them with the run result that was just published
Adopted(q) ==
    {a \in {[query |-> q, gen |-> a.gen, sql |-> a.sql, exe |-> a.exe,
             rows |-> br[q].pending, goals |-> FALSE] : a \in Current(br[q])} :
        IdOf(a) \notin LedgerIds}

\* mutant: the ledger read with the snapshot is written back, unchecked
Commit_LastWriterWins(q) ==
    /\ pc[q] = "commit"
    /\ br[q].evidence = "passed"
    /\ Publishable(q)
    /\ ledger' = {a \in ledger : IdOf(a) \in snap[q].ids} \cup Adopted(q)
    /\ todo' = [todo EXCEPT ![q] = {IdOf(a) : a \in Adopted(q)}]
    /\ pc' = [pc EXCEPT ![q] = "record"]
    /\ UNCHANGED <<calls, batch, reg, ctx, br, sqlOf, repairs, verdict, snap,
                   doris, proved, failure, phase, gen, rev>>

Commit(q) ==
    /\ pc[q] = "commit"
    /\ br[q].evidence = "passed"
    /\ Publishable(q)
    /\ ParentUnchanged(q)
    /\ br' = [br EXCEPT ![q].arts = {[a EXCEPT !.status = "PUBLISHED"] :
                                        a \in Current(br[q])},
                        ![q].authority = 0, ![q].pending = 0]
    /\ ledger' = ledger \cup Adopted(q)
    /\ IF Adopted(q) = {}
       THEN UNCHANGED <<gen, rev, phase>>
       ELSE /\ gen' = gen + 1
            /\ rev' = rev + 1
            /\ phase' = "PARALLEL_BRANCHES_ADOPTED"
    /\ todo' = [todo EXCEPT ![q] = {IdOf(a) : a \in Adopted(q)}]
    /\ snap' = [snap EXCEPT ![q] = IdleSnap]
    /\ pc' = [pc EXCEPT ![q] = "record"]
    /\ UNCHANGED <<calls, batch, reg, ctx, sqlOf, repairs, verdict, doris,
                   proved, failure>>

LatestId(q) == [query |-> q, gen |-> br[q].gen, sql |-> br[q].latest]

\* session lock: goals of the reported artifact, context, registry
Record(q) ==
    /\ pc[q] = "record"
    /\ ctx' = IF LatestId(q) \in todo[q]
              THEN [ctx EXCEPT ![q] = "VERIFIED"] ELSE ctx
    /\ reg' = reg \ {q}
    /\ verdict' = [verdict EXCEPT ![q] = "VERIFIED"]
    /\ pc' = [pc EXCEPT ![q] = IF todo[q] = {} THEN "done" ELSE "attach"]
    /\ UNCHANGED <<calls, batch, br, sqlOf, repairs, snap, todo, doris, proved,
                   parentVars>>

\* mutant: every adopted artifact is given the goals of the reported one
Attach_GoalsToAll(q) ==
    /\ pc[q] = "attach"
    /\ \E id \in todo[q] :
          /\ ledger' = {IF IdOf(a) = id THEN [a EXCEPT !.goals = TRUE] ELSE a :
                            a \in ledger}
          /\ rev' = rev + 1
          /\ todo' = [todo EXCEPT ![q] = @ \ {id}]
          /\ pc' = [pc EXCEPT ![q] = IF todo[q] = {id} THEN "done" ELSE "attach"]
    /\ UNCHANGED <<calls, batch, reg, ctx, br, sqlOf, repairs, verdict, snap,
                   doris, proved, failure, phase, gen>>

\* attach_verified_artifact_goals, one artifact at a time: only the reported
\* artifact was given goals, and every call is a new parent revision
Attach(q) ==
    /\ pc[q] = "attach"
    /\ \E id \in todo[q] :
          /\ ledger' = {IF IdOf(a) = id
                        THEN [a EXCEPT !.goals = (id = LatestId(q))] ELSE a :
                            a \in ledger}
          /\ rev' = rev + 1
          /\ todo' = [todo EXCEPT ![q] = @ \ {id}]
          /\ pc' = [pc EXCEPT ![q] = IF todo[q] = {id} THEN "done" ELSE "attach"]
    /\ UNCHANGED <<calls, batch, reg, ctx, br, sqlOf, repairs, verdict, snap,
                   doris, proved, failure, phase, gen>>

-------------------------------------------------------------------------------
\* _record_governed_query_branch_outcome of every branch, then the tool returns
StatusOf(v, s) ==
    CASE v = "VERIFIED"        -> "VERIFIED"
      [] v = "NEEDS_REASONING" -> "CONTRACT_GAPPED"
      [] v = "DENIED"          -> "TERMINAL_BLOCKED"
      [] v \in {"FAILED", "STALE"} -> "FAILED"
      [] OTHER                 -> s

Return ==
    /\ batch # {}
    /\ \A q \in batch : pc[q] = "done"
    /\ ctx' = [q \in Queries |->
                  IF q \in batch THEN StatusOf(verdict[q], ctx[q]) ELSE ctx[q]]
    /\ batch' = {}
    /\ pc' = [q \in Queries |-> "idle"]
    /\ verdict' = [q \in Queries |-> "none"]
    /\ repairs' = [q \in Queries |-> 0]
    /\ sqlOf' = [q \in Queries |-> NoSql]
    /\ snap' = [q \in Queries |-> IdleSnap]
    /\ UNCHANGED <<calls, reg, br, todo, doris, proved, parentVars>>

Thread(q) ==
    \/ Start(q) \/ NothingToRun(q) \/ BeginCompiled(q) \/ Submit(q)
    \/ Close(q) \/ Repair(q)
    \/ Reserve(q) \/ ReserveBranchDenied(q) \/ ReserveRunDenied(q)
    \/ ExecuteRaises(q) \/ Execute(q) \/ Terminal(q)
    \/ VerifyPassed(q) \/ VerifyGapped(q)
    \/ Snapshot(q) \/ SnapshotRaises(q)
    \/ PublishRaises(q) \/ CommitStale(q) \/ Commit(q)
    \/ Record(q) \/ Attach(q)

Core ==
    \E B \in (SUBSET Queries) \ {{}} :
        \E choice \in [B -> {"reuse", "revise", "gap", "error"}],
           sql \in [B \cap CoreSql -> Sqls \cup {NoSql}] :
              Call(B, choice, sql)

Next == Core \/ Return \/ \E q \in Queries : Thread(q)

Spec == Init /\ [][Next]_vars

\* Every pool thread keeps running and the tool call joins them; Core need not
\* call again.
FairSpec == Spec /\ WF_vars(Return) /\ \A q \in Queries : WF_vars(Thread(q))

-------------------------------------------------------------------------------
(* Properties *)

\* Every variable keeps its range.  The context status in particular is written
\* by five functions, among them _record_governed_query_branch_outcome, which
\* translates outcomes into statuses.
TypeOK ==
    /\ calls \in 0 .. MaxCalls
    /\ batch \subseteq Queries
    /\ pc \in [Queries -> {"idle", "queued", "attempt", "close", "repair",
                           "reserve", "execute", "terminal", "verify",
                           "snapshot", "commit", "record", "attach", "done"}]
    /\ reg \subseteq Queries
    /\ ctx \in [Queries -> Statuses]
    /\ br \in [Queries -> Branches]
    /\ sqlOf \in [Queries -> Sqls \cup {NoSql}]
    /\ repairs \in [Queries -> Nat]
    /\ verdict \in [Queries -> {"none", "repair", "VERIFIED", "NEEDS_REASONING",
                                "DENIED", "FAILED", "STALE"}]
    /\ snap \in [Queries -> [gen : Nat, rev : Nat, ids : SUBSET ArtifactIds]]
    /\ todo \in [Queries -> SUBSET ArtifactIds]
    /\ doris \in 0 .. DorisLimit
    /\ failure \in {"none", "SECURITY", "OPERATIONAL"}
    /\ phase \in {"IDLE", "SECURITY_BLOCKED", "OPERATIONAL_FAILURE",
                  "PARALLEL_BRANCHES_ADOPTED"}
    /\ gen \in Nat /\ rev \in Nat
    /\ ledger \subseteq Artifacts
    /\ proved \subseteq [query : Queries, gen : Nat, sql : Plans, exe : Nat]

\* the execution an entry of the parent ledger was verified with
ResultOf(a) == [query |-> a.query, gen |-> a.gen, sql |-> a.sql, exe |-> a.exe]

\* adopt_verified_branches: whatever was interleaved, every entry of the parent
\* ledger rests on evidence that passed for that very execution, and no artifact
\* is in the ledger twice.
LedgerSound ==
    /\ \A a \in ledger : ResultOf(a) \in proved
    /\ \A a, c \in ledger : IdOf(a) = IdOf(c) => a = c

Promise == INSTANCE VerifiedLedger
               WITH published <- {ResultOf(a) : a \in ledger}

\* The parent ledger implements the abstract one: adoption of a branch and the
\* later attachment of goals never lose, replace or repeat an entry that a
\* concurrent sibling added between a snapshot and the commit.
ImplementsVerifiedLedger == Promise!Spec

\* execute_query_batch with attach_verified_artifact_goals: an artifact that
\* covers goals carries the rows its evidence was verified on, although others
\* that are adopted with it may carry the rows of a later execution.
GoalsOnVerifiedRows == \A a \in ledger : a.goals => a.rows = a.exe

\* execute_batch joins all its threads: a query_batch call that started returns
\* to Core, however the branches fail, repair or collide.
BatchReturns == batch # {} ~> batch = {}

\* adopt_verified_branches merges "successful independent branches into the
\* parent": no branch with verified evidence is refused because the parent moved.
NoVerifiedBranchLost == \A q \in Queries : verdict[q] # "STALE"

\* An internally repaired candidate is tried on the branch it repairs: when the
\* repair loop of execute_batch comes round, the branch is still registered.
RepairReachesBranch ==
    \A q \in Queries : (pc[q] = "attempt" /\ repairs[q] > 0) => q \in reg

\* An artifact of the parent ledger carries the rows its evidence was verified
\* on: the run result copied into it at adoption is the verified one.
RowsAreVerified == \A a \in ledger : a.rows = a.exe
===============================================================================
