----------------------------- MODULE QuerySession -----------------------------
(***************************************************************************)
(* Concurrent query_data calls on one runtime session.                     *)
(*                                                                         *)
(* The tool calls of one model turn run in parallel threads over the same  *)
(* GroundedRuntimeSession.  Every kernel operation locks the session only  *)
(* for short regions: activation, the two regions of submit_sql_candidate  *)
(* around the validator, those of execute_active around Doris and those of *)
(* verify_active around the verifier.  Each action here is one lock region *)
(* with the unlocked work that precedes it.                                *)
(*                                                                         *)
(* Abstractions: a contract stands for its fingerprint, a SQL text for its *)
(* AST fingerprint, a goal assignment for the call that made it, a run     *)
(* result for the number of its Doris statement.  The REPAIR_EXHAUSTED     *)
(* marker is not kept among the attempts but in exhausted and top.  The    *)
(* population gate is not enforced and results are not written to files.   *)
(***************************************************************************)
EXTENDS Naturals, Sequences, FiniteSets

CONSTANTS
    Calls,           \* query_data calls of the run
    Contracts,       \* READY contracts the calls propose
    CoreSql,         \* those that need a SQL text authored by Core
    Sqls, GoodSql,   \* SQL texts, and those the validator accepts
    NoSql,           \* a request without a SQL candidate
    Compiled,        \* the plan of a deterministic contract
    None,            \* no contract, no call
    MaxRepairs,      \* max_internal_repairs of GovernedQueryService
    MaxSubmissions,  \* SQL candidates per contract generation
    DorisLimit       \* max_doris_queries of the run

ASSUME QuerySessionConstants ==
    /\ IsFiniteSet(Calls)
    /\ CoreSql \subseteq Contracts
    /\ GoodSql \subseteq Sqls
    /\ NoSql \notin Sqls
    /\ Compiled \notin Nat \cup Sqls
    /\ None \notin Calls \cup Contracts
    /\ MaxSubmissions \in Nat \ {0}
    /\ {MaxRepairs, DorisLimit} \subseteq Nat

VARIABLES
    gen,        \* active_generation
    contract,   \* active_contract
    attempts,   \* sql_candidate_attempts of the active generation
    top,        \* the newest attempt, 0 when it is a REPAIR_EXHAUSTED marker
    live,       \* active_sql_validation with active_pack: attempt or Compiled
    prep,       \* active_preparation: an attempt or Compiled, 0 for none
    executed,   \* executed_sql_candidate_fingerprints
    exhausted,  \* repair_exhausted_contract_fingerprints
    run,        \* run_result, 0 for none
    auth,       \* publication_authority_run_result, 0 for none
    guard,      \* terminal_guard_code is set
    ledger,     \* verified_query_ledger
    goals,      \* active_goal_ids of the deep session
    failed,     \* operational_failure of the deep session
    doris,      \* Doris queries reserved by the run
    ran,        \* history: the statements sent to Doris
    pc,         \* where the thread of a call stands
    want,       \* the contract the call proposes
    sql,        \* the SQL candidate of its current attempt
    repairs,    \* its internal repairs so far
    pgen,       \* generation of its prepared contract
    at,         \* generation the kernel operation in progress started from
    prior,      \* number of attempts its submission saw
    mark,       \* SQL execution fingerprint its execution will record
    hold,       \* preparation its execution took
    saw,        \* the run result its execution or verification works on
    art,        \* index of the ledger artifact the call reports
    outcome     \* status of the QueryOutcome

scopeVars == <<gen, contract>>
sqlVars   == <<attempts, top, live, prep, exhausted>>
runVars   == <<executed, run, auth, guard, ran>>
deepVars  == <<ledger, goals, failed, doris>>
session   == <<scopeVars, sqlVars, runVars, deepVars>>
locals    == <<want, sql, repairs, pgen, at, prior, mark, hold, saw, art>>
vars      == <<session, pc, locals, outcome>>

-------------------------------------------------------------------------------
(* Values *)

Plans == Sqls \cup {Compiled}

Fingerprints == Nat \X Plans

NoMark == <<0, Compiled>>

Attempts ==
    [sql : Sqls,
     status : {"ACCEPTED", "SQL_GAP", "BINDING_GAP", "NO_PROGRESS", "BROKEN"}]

\* a statement sent to Doris
Statements == [gen : Nat, contract : Contracts, sql : Plans]

\* exe is the run result the evidence was verified on, rows the one whose rows
\* the artifact carries; ast: the SQL identity is that of a validated candidate
Artifacts == [gen : Nat, contract : Contracts, sql : Plans, ast : BOOLEAN,
              exe : Nat, rows : Nat, goals : Calls \cup {None}]

Labels == {"idle", "activate", "seal", "route", "submit", "validate", "repair",
           "reserve", "check", "take", "doris", "error", "denied", "broken",
           "verify", "evidence", "report", "attach", "done"}

\* a NEEDS_REASONING at stage CONTRACT is REVISE_CONTRACT: no call can resume it
Outcomes == {"none", "VERIFIED", "NEEDS_REASONING", "REVISE_CONTRACT", "DENIED",
             "FAILED", "BUDGET"}

PlanOf(p) == IF p = Compiled THEN Compiled ELSE attempts[p].sql

\* the call returns with status o and its local state is gone
Return(t, o) ==
    /\ pc' = [pc EXCEPT ![t] = "done"]
    /\ outcome' = [outcome EXCEPT ![t] = o]
    /\ sql' = [sql EXCEPT ![t] = NoSql]
    /\ repairs' = [repairs EXCEPT ![t] = 0]
    /\ at' = [at EXCEPT ![t] = 0]
    /\ prior' = [prior EXCEPT ![t] = 0]
    /\ mark' = [mark EXCEPT ![t] = NoMark]
    /\ hold' = [hold EXCEPT ![t] = 0]
    /\ saw' = [saw EXCEPT ![t] = 0]
    /\ UNCHANGED <<want, pgen, art>>

Goto(t, label) ==
    /\ pc' = [pc EXCEPT ![t] = label]
    /\ UNCHANGED outcome

Init ==
    /\ gen = 0 /\ contract = None
    /\ attempts = <<>> /\ top = 0 /\ live = 0 /\ prep = 0 /\ exhausted = {}
    /\ executed = {} /\ run = 0 /\ auth = 0 /\ guard = FALSE /\ ran = <<>>
    /\ ledger = <<>> /\ goals = None /\ failed = FALSE /\ doris = 0
    /\ pc = [t \in Calls |-> "idle"]
    /\ want = [t \in Calls |-> None]
    /\ sql = [t \in Calls |-> NoSql]
    /\ repairs = [t \in Calls |-> 0]
    /\ pgen = [t \in Calls |-> 0]
    /\ at = [t \in Calls |-> 0]
    /\ prior = [t \in Calls |-> 0]
    /\ mark = [t \in Calls |-> NoMark]
    /\ hold = [t \in Calls |-> 0]
    /\ saw = [t \in Calls |-> 0]
    /\ art = [t \in Calls |-> 0]
    /\ outcome = [t \in Calls |-> "none"]

-------------------------------------------------------------------------------
(* prepare_query_contract *)

\* the call arrives with contract c and SQL candidate s
Request(t, c, s) ==
    /\ pc[t] = "idle"
    /\ ~failed                       \* a failed run offers Core no tools
    /\ s \in IF c \in CoreSql THEN Sqls \cup {NoSql} ELSE {NoSql}
    /\ want' = [want EXCEPT ![t] = c]
    /\ sql' = [sql EXCEPT ![t] = s]

\* propose_contract builds a READY contract
Propose(t, c, s) ==
    /\ Request(t, c, s)
    /\ ~guard
    /\ Goto(t, "activate")
    /\ UNCHANGED <<session, repairs, pgen, at, prior, mark, hold, saw, art>>

\* TERMINAL_GUARD or an exception stops the call, an unresolved gap returns it
\* to Core
ProposeBlocked(t) ==
    /\ pc[t] = "idle" /\ ~failed
    /\ \E o \in {"FAILED", "REVISE_CONTRACT"} : (guard => o = "FAILED") /\ Return(t, o)
    /\ UNCHANGED session

\* a repairReceipt, which may name no contract, resumes the active one: neither
\* proposed nor activated
Resume(t, c, s) ==
    /\ Request(t, c, s)
    /\ gen > 0 /\ contract = c
    /\ \E u \in Calls : outcome[u] = "NEEDS_REASONING"
    /\ pgen' = [pgen EXCEPT ![t] = gen]
    /\ Goto(t, "route")
    /\ UNCHANGED <<session, repairs, at, prior, mark, hold, saw, art>>

\* activate_contract of another contract than the active one
Activated(c) ==
    /\ gen' = gen + 1
    /\ contract' = c
    /\ attempts' = <<>> /\ top' = 0
    /\ live' = IF c \in CoreSql THEN 0 ELSE Compiled
    /\ prep' = IF c \in CoreSql THEN 0 ELSE Compiled
    /\ run' = 0 /\ auth' = 0
    /\ UNCHANGED <<executed, exhausted, guard, ran>>

Activate(t) ==
    /\ pc[t] = "activate"
    /\ IF gen > 0 /\ contract = want[t]
       THEN UNCHANGED <<scopeVars, sqlVars, runVars>>
       ELSE Activated(want[t])
    /\ pgen' = [pgen EXCEPT ![t] = gen']
    /\ Goto(t, "seal")
    /\ UNCHANGED <<deepVars, want, sql, repairs, at, prior, mark, hold, saw,
                   art>>

\* a deterministic contract that does not compile is not activated
NotActivated(t) ==
    /\ pc[t] = "activate"
    /\ want[t] \notin CoreSql /\ contract # want[t]
    /\ Return(t, "REVISE_CONTRACT")
    /\ UNCHANGED session

\* seal_semantic_activation raises: the contract stays active
SealRaises(t) ==
    /\ pc[t] = "seal"
    /\ \E o \in {"FAILED", "REVISE_CONTRACT"} : Return(t, o)
    /\ UNCHANGED session

AssignGoals(t) ==
    /\ pc[t] = "seal"
    /\ goals' = t
    /\ Goto(t, "route")
    /\ UNCHANGED <<scopeVars, sqlVars, runVars, ledger, failed, doris, locals>>

\* execute_attempt: a CORE_SQL_REQUIRED contract needs a candidate
Route(t) ==
    /\ pc[t] = "route"
    /\ \/ want[t] \notin CoreSql /\ Goto(t, "reserve") /\ UNCHANGED locals
       \/ want[t] \in CoreSql /\ sql[t] # NoSql /\ Goto(t, "submit")
          /\ UNCHANGED locals
       \/ want[t] \in CoreSql /\ sql[t] = NoSql /\ Return(t, "NEEDS_REASONING")
    /\ UNCHANGED session

-------------------------------------------------------------------------------
(* submit_sql_candidate: read the attempts, validate, append *)

\* CORE_SQL_NOT_AUTHORIZED, SQL_CANDIDATE_STALE_CONTRACT, repair exhausted, or
\* TERMINAL_GUARD
SubmitRefused(t) ==
    /\ pc[t] = "submit"
    /\ guard \/ contract \notin CoreSql \/ pgen[t] # gen \/ contract \in exhausted
    /\ Return(t, IF guard THEN "FAILED" ELSE "NEEDS_REASONING")
    /\ UNCHANGED session

ReadAttempts(t) ==
    /\ pc[t] = "submit"
    /\ ~guard /\ contract \in CoreSql /\ pgen[t] = gen /\ contract \notin exhausted
    /\ at' = [at EXCEPT ![t] = gen]
    /\ prior' = [prior EXCEPT ![t] = Len(attempts)]
    /\ Goto(t, "validate")
    /\ UNCHANGED <<session, want, sql, repairs, pgen, mark, hold, saw, art>>

\* _require_generation: the contract changed while the validator ran
SubmitDiscarded(t) ==
    /\ pc[t] = "validate" /\ at[t] # gen
    /\ Return(t, "NEEDS_REASONING")
    /\ UNCHANGED session

\* mutant: one candidate more than the limit
Judged_OneMore(t) == pc[t] = "validate" /\ at[t] = gen /\ prior[t] <= MaxSubmissions

\* the submission saw room for another candidate of the active generation
Judged(t) == pc[t] = "validate" /\ at[t] = gen /\ prior[t] < MaxSubmissions

\* _clear_active_sql_candidate
Clear == live' = 0 /\ prep' = 0 /\ run' = 0 /\ auth' = 0

\* the attempt limit is reached: a marker is appended, the contract is marked
Exhaust(t) ==
    /\ pc[t] = "validate" /\ at[t] = gen /\ prior[t] >= MaxSubmissions
    /\ exhausted' = exhausted \cup {contract}
    /\ top' = 0
    /\ Clear
    /\ Return(t, "NEEDS_REASONING")
    /\ UNCHANGED <<scopeVars, attempts, executed, guard, ran, deepVars>>

\* attempts the submission saw with the same progress fingerprint
SeenBefore(t) ==
    {i \in 1..prior[t] : attempts[i].sql = sql[t] /\ attempts[i].status # "BROKEN"}

FirstSeen(t) == CHOOSE i \in SeenBefore(t) : \A j \in SeenBefore(t) : i <= j

\* an attempt that leaves no executable candidate
Refuse(t, status) ==
    /\ attempts' = Append(attempts, [sql |-> sql[t], status |-> status])
    /\ top' = Len(attempts) + 1
    /\ Clear
    /\ UNCHANGED <<scopeVars, exhausted, executed, guard, ran, deepVars>>

\* only a gap in the SQL itself is handed to the internal repair worker
AfterGap(t, gap) ==
    IF gap = "BINDING_GAP" THEN Return(t, "NEEDS_REASONING")
    ELSE Goto(t, "repair") /\ UNCHANGED locals

\* VALIDATOR_INTERNAL_ERROR
SubmitBroken(t) ==
    /\ Judged(t)
    /\ Refuse(t, "BROKEN")
    /\ Return(t, "FAILED")

StillActive(i) == attempts[i].status = "ACCEPTED" /\ prep = i /\ live # 0

\* the accepted candidate is still active and is handed back
SubmitReused(t) ==
    /\ Judged(t)
    /\ SeenBefore(t) # {} /\ StillActive(FirstSeen(t))
    /\ Goto(t, "reserve")
    /\ UNCHANGED <<session, locals>>

SubmitNoProgress(t) ==
    /\ Judged(t)
    /\ SeenBefore(t) # {} /\ ~StillActive(FirstSeen(t))
    /\ Refuse(t, "NO_PROGRESS")
    /\ AfterGap(t, attempts[FirstSeen(t)].status)

\* REJECTED; a valid text whose preparation fails asks for revised bindings
SubmitRejected(t) ==
    /\ Judged(t) /\ SeenBefore(t) = {}
    /\ \E gap \in {"SQL_GAP", "BINDING_GAP"} :
          /\ gap = "SQL_GAP" => sql[t] \notin GoodSql
          /\ Refuse(t, gap)
          /\ AfterGap(t, gap)

SubmitAccepted(t) ==
    /\ Judged(t) /\ SeenBefore(t) = {} /\ sql[t] \in GoodSql
    /\ attempts' = Append(attempts, [sql |-> sql[t], status |-> "ACCEPTED"])
    /\ top' = Len(attempts) + 1
    /\ live' = Len(attempts) + 1 /\ prep' = Len(attempts) + 1
    /\ run' = 0 /\ auth' = 0
    /\ Goto(t, "reserve")
    /\ UNCHANGED <<scopeVars, exhausted, executed, guard, ran, deepVars, locals>>

\* mutant: the repair budget is checked one repair late
Repair_OneMore(t) ==
    /\ pc[t] = "repair"
    /\ repairs[t] <= MaxRepairs
    /\ \E s \in Sqls \ {sql[t]} : sql' = [sql EXCEPT ![t] = s]
    /\ repairs' = [repairs EXCEPT ![t] = @ + 1]
    /\ Goto(t, "submit")
    /\ UNCHANGED <<session, want, pgen, at, prior, mark, hold, saw, art>>

\* _repair_query_sql_candidate: a changed SQL text, within the repair budget
Repair(t) ==
    /\ pc[t] = "repair"
    /\ repairs[t] < MaxRepairs
    /\ \E s \in Sqls \ {sql[t]} : sql' = [sql EXCEPT ![t] = s]
    /\ repairs' = [repairs EXCEPT ![t] = @ + 1]
    /\ Goto(t, "submit")
    /\ UNCHANGED <<session, want, pgen, at, prior, mark, hold, saw, art>>

\* the budget is spent, or the worker has nothing to offer
RepairGivenUp(t) ==
    /\ pc[t] = "repair"
    /\ Return(t, "NEEDS_REASONING")
    /\ UNCHANGED session

-------------------------------------------------------------------------------
(* execute_query_contract: reserve, execute_active *)

Reserve(t) ==
    /\ pc[t] = "reserve" /\ doris < DorisLimit
    /\ doris' = doris + 1
    /\ Goto(t, "check")
    /\ UNCHANGED <<scopeVars, sqlVars, runVars, ledger, goals, failed, locals>>

\* GroundedRuntimeBudgetExceeded leaves the tool
ReserveDenied(t) ==
    /\ pc[t] = "reserve" /\ doris >= DorisLimit
    /\ Return(t, "BUDGET")
    /\ UNCHANGED session

\* the newest attempt is the accepted, active candidate
CandidateReady ==
    /\ top # 0 /\ prep = top
    /\ attempts[top].status = "ACCEPTED"

\* active_sql_execution_fingerprint of the candidate that is active now
MarkNow == IF live \in {0, Compiled} THEN NoMark ELSE <<gen, PlanOf(live)>>

MayExecute ==
    contract \in CoreSql => CandidateReady /\ MarkNow \notin executed

\* execute_active, first region: nothing ties the call to the contract it
\* prepared
Check(t) ==
    /\ pc[t] = "check" /\ MayExecute
    /\ mark' = [mark EXCEPT ![t] = MarkNow]
    /\ Goto(t, "take")
    /\ UNCHANGED <<session, want, sql, repairs, pgen, at, prior, hold, saw, art>>

\* CORE_SQL_REQUIRED or SQL_EXECUTION_NO_PROGRESS
CheckRaises(t) ==
    /\ pc[t] = "check" /\ ~MayExecute
    /\ Return(t, "NEEDS_REASONING")
    /\ UNCHANGED session

\* the snapshot the statement is built from, up to the seal's generation check
Take(t) ==
    /\ pc[t] = "take"
    /\ live # 0 /\ prep # 0
    /\ at' = [at EXCEPT ![t] = gen]
    /\ hold' = [hold EXCEPT ![t] = prep]
    /\ ran' = Append(ran, [gen |-> gen, contract |-> contract,
                           sql |-> PlanOf(prep)])
    /\ saw' = [saw EXCEPT ![t] = Len(ran) + 1]
    /\ Goto(t, "doris")
    /\ UNCHANGED <<scopeVars, sqlVars, executed, run, auth, guard, deepVars,
                   want, sql, repairs, pgen, prior, mark, art>>

TakeRaises(t) ==
    /\ pc[t] = "take"
    /\ live = 0 \/ prep = 0
    /\ Return(t, "NEEDS_REASONING")
    /\ UNCHANGED session

\* the result of a contract that is no longer active is discarded
ResultDiscarded(t) ==
    /\ pc[t] = "doris" /\ at[t] # gen
    /\ Return(t, "NEEDS_REASONING")
    /\ UNCHANGED session

\* the result becomes the session's run result and publication authority
Commit(t) ==
    /\ executed' = executed \cup ({mark[t]} \ {NoMark})
    /\ prep' = hold[t]
    /\ run' = saw[t] /\ auth' = saw[t]
    /\ UNCHANGED <<scopeVars, attempts, top, live, exhausted, ran, deepVars>>

\* mutant: the result is committed without _require_generation
Executed_AnyGeneration(t) ==
    /\ pc[t] = "doris"
    /\ Commit(t)
    /\ Goto(t, "verify")
    /\ UNCHANGED <<guard, locals>>

Executed(t) ==
    /\ pc[t] = "doris" /\ at[t] = gen
    /\ Commit(t)
    /\ Goto(t, "verify")
    /\ UNCHANGED <<guard, locals>>

\* a failed result is committed too; an access denial sets the terminal guard
ExecutedWithError(t, fault) ==
    /\ pc[t] = "doris" /\ at[t] = gen
    /\ Commit(t)
    /\ guard' = (guard \/ fault = "denied")
    /\ Goto(t, fault)
    /\ UNCHANGED locals

\* an exception of the seal, the executor or the verifier: a RuntimeError asks for
\* other bindings, an exceeded budget leaves the tool
Breaks(t) ==
    /\ pc[t] \in {"take", "doris", "evidence"}
    /\ \E o \in {"FAILED", "NEEDS_REASONING", "BUDGET"} : Return(t, o)
    /\ UNCHANGED session

\* the run fails: access denied, or an error that is not recoverable
Terminal(t) ==
    /\ pc[t] \in {"denied", "broken"}
    /\ failed' = TRUE
    /\ Return(t, IF pc[t] = "denied" THEN "DENIED" ELSE "FAILED")
    /\ UNCHANGED <<scopeVars, sqlVars, runVars, ledger, goals, doris>>

\* _core_sql_execution_failure_review of a recoverable failure: it looks at the
\* contract that is active now and at the attempts made for it
Review(t) ==
    /\ pc[t] = "error"
    /\ \/ /\ contract \in CoreSql /\ Len(attempts) < MaxSubmissions
          /\ Goto(t, "repair") /\ UNCHANGED <<exhausted, locals>>
       \/ /\ contract \in CoreSql /\ Len(attempts) >= MaxSubmissions
          /\ exhausted' = exhausted \cup {contract}
          /\ Return(t, "NEEDS_REASONING")
       \/ Return(t, "NEEDS_REASONING") /\ UNCHANGED exhausted
    /\ UNCHANGED <<scopeVars, attempts, top, live, prep, runVars, deepVars>>

-------------------------------------------------------------------------------
(* verify_active, and what the call reports *)

\* first region: whatever result is the authority now is verified
Verify(t) ==
    /\ pc[t] = "verify"
    /\ live # 0 /\ run # 0 /\ auth # 0
    /\ at' = [at EXCEPT ![t] = gen]
    /\ saw' = [saw EXCEPT ![t] = auth]
    /\ Goto(t, "evidence")
    /\ UNCHANGED <<session, want, sql, repairs, pgen, prior, mark, hold, art>>

\* mutant: a verification whose result is gone waits for the next one
VerifyRaises_Waits(t) ==
    /\ pc[t] = "verify"
    /\ live = 0 \/ run = 0
    /\ Return(t, "NEEDS_REASONING")
    /\ UNCHANGED session

\* no active plan, or QUERY_RESULT_PUBLICATION_AUTHORITY_REQUIRED
VerifyRaises(t) ==
    /\ pc[t] = "verify"
    /\ live = 0 \/ run = 0 \/ auth = 0
    /\ Return(t, "NEEDS_REASONING")
    /\ UNCHANGED session

\* the contract changed, or QUERY_RESULT_PUBLICATION_STATE_STALE
EvidenceDiscarded(t) ==
    /\ pc[t] = "evidence"
    /\ at[t] # gen \/ run = 0 \/ auth = 0
    /\ Return(t, "NEEDS_REASONING")
    /\ UNCHANGED session

\* _record_verified_query_artifact: contract and SQL of now, evidence of the
\* result that was verified, rows of the authority of now
NewArtifact(t) ==
    [gen |-> at[t], contract |-> contract,
     sql |-> IF live = 0 THEN ran[auth].sql ELSE PlanOf(live),
     ast |-> live \notin {0, Compiled},
     exe |-> saw[t], rows |-> auth, goals |-> None]

SameArtifact(a, b) ==
    a.gen = b.gen /\ a.contract = b.contract /\ a.sql = b.sql /\ a.ast = b.ast

Recorded(t) ==
    IF \E i \in DOMAIN ledger : SameArtifact(ledger[i], NewArtifact(t))
    THEN ledger ELSE Append(ledger, NewArtifact(t))

\* mutant: the recorded result stays the publication authority
EvidencePassed_KeepsAuthority(t) ==
    /\ pc[t] = "evidence"
    /\ at[t] = gen /\ run # 0 /\ auth # 0
    /\ ledger' = Recorded(t)
    /\ Goto(t, "report")
    /\ UNCHANGED <<scopeVars, sqlVars, executed, run, auth, guard, ran, goals,
                   failed, doris, locals>>

EvidencePassed(t) ==
    /\ pc[t] = "evidence"
    /\ at[t] = gen /\ run # 0 /\ auth # 0
    /\ ledger' = Recorded(t)
    /\ auth' = 0
    /\ Goto(t, "report")
    /\ UNCHANGED <<scopeVars, sqlVars, executed, run, guard, ran, goals, failed,
                   doris, locals>>

EvidenceGapped(t) ==
    /\ pc[t] = "evidence"
    /\ at[t] = gen /\ run # 0 /\ auth # 0
    /\ auth' = 0
    /\ Return(t, "NEEDS_REASONING")
    /\ UNCHANGED <<scopeVars, sqlVars, executed, run, guard, ran, deepVars>>

\* mutant: the first artifact of the ledger
Latest_First(t) ==
    /\ pc[t] = "report"
    /\ art' = [art EXCEPT ![t] = 1]
    /\ Goto(t, "attach")
    /\ UNCHANGED <<session, want, sql, repairs, pgen, at, prior, mark, hold, saw>>

\* latest_verified_query_artifact
Latest(t) ==
    /\ pc[t] = "report"
    /\ art' = [art EXCEPT ![t] = Len(ledger)]
    /\ Goto(t, "attach")
    /\ UNCHANGED <<session, want, sql, repairs, pgen, at, prior, mark, hold, saw>>

\* attach_verified_artifact_goals with the goals that are active now
Attach(t) ==
    /\ pc[t] = "attach"
    /\ ledger' = [ledger EXCEPT ![art[t]].goals = goals]
    /\ Return(t, "VERIFIED")
    /\ UNCHANGED <<scopeVars, sqlVars, runVars, goals, failed, doris>>

-------------------------------------------------------------------------------
Prepare(t) ==
    \/ \E c \in Contracts, s \in Sqls \cup {NoSql} : Propose(t, c, s) \/ Resume(t, c, s)
    \/ ProposeBlocked(t) \/ Activate(t) \/ NotActivated(t) \/ SealRaises(t)
    \/ AssignGoals(t) \/ Route(t)

Submit(t) ==
    \/ SubmitRefused(t) \/ ReadAttempts(t) \/ SubmitDiscarded(t) \/ Exhaust(t)
    \/ SubmitBroken(t) \/ SubmitReused(t) \/ SubmitNoProgress(t)
    \/ SubmitRejected(t) \/ SubmitAccepted(t) \/ Repair(t) \/ RepairGivenUp(t)

Execute(t) ==
    \/ Reserve(t) \/ ReserveDenied(t) \/ Check(t) \/ CheckRaises(t)
    \/ Take(t) \/ TakeRaises(t) \/ ResultDiscarded(t) \/ Executed(t)
    \/ \E fault \in {"error", "denied", "broken"} : ExecutedWithError(t, fault)
    \/ Breaks(t) \/ Terminal(t) \/ Review(t)

Evidence(t) ==
    \/ Verify(t) \/ VerifyRaises(t) \/ EvidenceDiscarded(t)
    \/ EvidencePassed(t) \/ EvidenceGapped(t) \/ Latest(t) \/ Attach(t)

Step(t) == Submit(t) \/ Execute(t) \/ Evidence(t)

Next == \E t \in Calls : Prepare(t) \/ Step(t)

Spec == Init /\ [][Next]_vars

\* a thread that has received its call keeps running
Running(t) == pc[t] # "idle" /\ (Prepare(t) \/ Step(t))

FairSpec == Spec /\ \A t \in Calls : WF_vars(Running(t))

-------------------------------------------------------------------------------
(* Properties *)

SessionTypeOK ==
    /\ gen \in Nat /\ contract \in Contracts \cup {None}
    /\ attempts \in Seq(Attempts) /\ top \in Nat
    /\ live \in Nat \cup {Compiled} /\ prep \in Nat \cup {Compiled}
    /\ executed \subseteq Fingerprints /\ exhausted \subseteq Contracts
    /\ run \in Nat /\ auth \in Nat /\ guard \in BOOLEAN
    /\ ran \in Seq(Statements) /\ ledger \in Seq(Artifacts)
    /\ goals \in Calls \cup {None} /\ failed \in BOOLEAN
    /\ doris \in 0..DorisLimit

LocalTypeOK ==
    /\ pc \in [Calls -> Labels] /\ outcome \in [Calls -> Outcomes]
    /\ want \in [Calls -> Contracts \cup {None}]
    /\ sql \in [Calls -> Sqls \cup {NoSql}]
    /\ repairs \in [Calls -> 0..MaxRepairs]
    /\ pgen \in [Calls -> Nat] /\ at \in [Calls -> Nat]
    /\ prior \in [Calls -> Nat] /\ mark \in [Calls -> Fingerprints]
    /\ hold \in [Calls -> Nat \cup {Compiled}] /\ saw \in [Calls -> Nat]
    /\ art \in [Calls -> Nat]

\* Types of the session fields and of the threads' local values; the run never
\* reserves more Doris queries than its budget, a call never repairs more often
\* than query_data allows.
TypeOK == SessionTypeOK /\ LocalTypeOK

\* However the calls interleave, a contract generation never receives more SQL
\* candidates than submit_sql_candidate allows plus one for every other call
\* that read the attempts before them.
SubmissionsBounded == Len(attempts) < MaxSubmissions + Cardinality(Calls)

\* Evidence and rows of a ledger artifact come from statements of the contract
\* generation it is recorded for: nothing executed for a replaced contract is
\* ever presented under the new one.
LedgerOfContract ==
    \A i \in DOMAIN ledger :
        LET a == ledger[i]
        IN  /\ {a.exe, a.rows} \subseteq DOMAIN ran
            /\ \A e \in {a.exe, a.rows} :
                  ran[e].gen = a.gen /\ ran[e].contract = a.contract

\* Rows the ledger carries are spent: they are never the publication authority
\* again and never carried twice, also when two calls verify the same result.
RowsOnce ==
    /\ \A i \in DOMAIN ledger : ledger[i].rows # auth
    /\ \A i, j \in DOMAIN ledger : ledger[i].rows = ledger[j].rows => i = j

\* A call never reports an artifact of a contract older than the one it
\* prepared, although it takes whatever is last in the ledger.
ReportNotOlder ==
    \A t \in Calls : art[t] # 0 =>
        art[t] \in DOMAIN ledger /\ ledger[art[t]].gen >= pgen[t]

\* Every call returns, whatever the other calls do to the session meanwhile.
CallsReturn == \A t \in Calls : pc[t] # "idle" ~> pc[t] = "done"
===============================================================================
