-------------------------- MODULE QuerySessionProofs --------------------------
(***************************************************************************)
(* What concurrent query_data calls can never do to their session, proved  *)
(* for any number of calls, contracts and SQL texts and any limits; and    *)
(* what a call is spared as long as no other one is under way.             *)
(***************************************************************************)
EXTENDS QuerySession, FiniteSetTheorems, TLAPS

-------------------------------------------------------------------------------
(* The inductive invariant *)

\* e is a statement sent for generation g, which is not newer than the active
\* one
Of(e, g) ==
    /\ e \in DOMAIN ran
    /\ ran[e].gen = g
    /\ g <= gen
    /\ g = gen => ran[e].contract = contract

\* a reference to an attempt of the active generation, or to its compiled plan
Points(p) == p = Compiled \/ p \in 1..Len(attempts)

Pointers ==
    /\ top = 0 \/ top \in 1..Len(attempts)
    /\ live = 0 \/ Points(live)
    /\ live # 0 => contract \in Contracts
    /\ prep = 0 \/ Points(prep)
    /\ run # 0 => Of(run, gen)
    /\ auth # 0 => Of(auth, gen)

\* what a thread between two lock regions may rely on
Thread(t) ==
    /\ at[t] <= gen
    /\ pc[t] = "activate" => want[t] \in Contracts
    /\ pc[t] \in {"submit", "validate"} => sql[t] \in Sqls
    /\ pc[t] \in {"doris", "evidence"} => Of(saw[t], at[t])
    /\ pc[t] = "doris" /\ at[t] = gen => Points(hold[t])
    /\ pc[t] = "validate" /\ at[t] = gen => contract \in Contracts

Inv == TypeOK /\ Pointers /\ LedgerOfContract /\ \A t \in Calls : Thread(t)

\* submissions that saw room for one more candidate of the active generation
Pending == {t \in Calls : Judged(t)}

Room == Len(attempts) + Cardinality(Pending) < MaxSubmissions + Cardinality(Calls)

\* only the thread of t moves
Only(t) ==
    \A u \in Calls \ {t} :
        /\ pc'[u] = pc[u] /\ at'[u] = at[u] /\ saw'[u] = saw[u]
        /\ hold'[u] = hold[u] /\ want'[u] = want[u] /\ sql'[u] = sql[u]
        /\ prior'[u] = prior[u] /\ pgen'[u] = pgen[u] /\ art'[u] = art[u]
        /\ outcome'[u] = outcome[u] /\ repairs'[u] = repairs[u]

\* the active contract stays; attempts and statements are only appended to
Grows ==
    /\ gen' = gen /\ contract' = contract
    /\ Len(attempts) <= Len(attempts')
    /\ \A e \in DOMAIN ran : e \in DOMAIN ran' /\ ran'[e] = ran[e]

\* what a step has to establish for the session
SessionKept == SessionTypeOK' /\ Pointers' /\ LedgerOfContract' /\ Grows

-------------------------------------------------------------------------------
(* Locals, and threads that do not move *)

\* The empty mark is a fingerprint.
LEMMA NoMarkType == NoMark \in Fingerprints
BY DEF NoMark, Fingerprints, Plans

\* A returning call leaves well-typed locals behind and relies on nothing.
LEMMA ReturnLocals ==
    ASSUME TypeOK, NEW t \in Calls, NEW o \in Outcomes, Return(t, o), gen' \in Nat
    PROVE  LocalTypeOK' /\ Only(t) /\ Thread(t)'
<1> USE QuerySessionConstants, NoMarkType DEF TypeOK
<1>1. sql' \in [Calls -> Sqls \cup {NoSql}]
  BY DEF LocalTypeOK, Return
<1>2. repairs' \in [Calls -> 0..MaxRepairs]
  BY DEF LocalTypeOK, Return
<1>3. at' \in [Calls -> Nat] /\ prior' \in [Calls -> Nat] /\ saw' \in [Calls -> Nat]
  BY DEF LocalTypeOK, Return
<1>4. mark' \in [Calls -> Fingerprints]
  BY DEF LocalTypeOK, Return
<1>5. hold' \in [Calls -> Nat \cup {Compiled}]
  BY DEF LocalTypeOK, Return
<1>6. pc' \in [Calls -> Labels] /\ outcome' \in [Calls -> Outcomes]
  BY DEF LocalTypeOK, Return, Labels
<1>7. want' \in [Calls -> Contracts \cup {None}] /\ pgen' \in [Calls -> Nat]
      /\ art' \in [Calls -> Nat]
  BY DEF LocalTypeOK, Return
<1>8. LocalTypeOK'
  BY <1>1, <1>2, <1>3, <1>4, <1>5, <1>6, <1>7 DEF LocalTypeOK
<1>9. Only(t)
  BY DEF LocalTypeOK, Return, Only
<1>10. pc'[t] = "done" /\ at'[t] = 0
  BY DEF LocalTypeOK, Return
<1>11. Thread(t)'
  BY <1>10 DEF Thread
<1> QED
  BY <1>8, <1>9, <1>11

\* A thread that only moves on to a label that relies on nothing.
LEMMA GotoLocals ==
    ASSUME Inv, NEW t \in Calls, gen' = gen, UNCHANGED locals,
           NEW label \in Labels \ {"activate", "submit", "validate", "doris",
                                   "evidence"},
           Goto(t, label)
    PROVE  LocalTypeOK' /\ Only(t) /\ Thread(t)'
<1>1. LocalTypeOK' /\ Only(t) /\ pc'[t] = label /\ at'[t] = at[t]
  BY DEF Inv, TypeOK, LocalTypeOK, Goto, Only, locals
<1> QED
  BY <1>1 DEF Inv, Thread

\* The other threads keep what they rely on when the session only grows.
LEMMA OthersStay ==
    ASSUME Inv, NEW t \in Calls, NEW u \in Calls \ {t}, Only(t), Grows,
           SessionTypeOK'
    PROVE  Thread(u)'
<1>1. pc'[u] = pc[u] /\ at'[u] = at[u] /\ saw'[u] = saw[u] /\ hold'[u] = hold[u]
      /\ want'[u] = want[u] /\ sql'[u] = sql[u]
  BY DEF Only
<1>2. Thread(u)
  BY DEF Inv
<1>3. Of(saw[u], at[u]) => Of(saw[u], at[u])'
  BY <1>1 DEF Of, Grows
<1>4. Points(hold[u]) => Points(hold[u])'
  BY <1>1 DEF Points, Grows, Inv, TypeOK, SessionTypeOK
<1> QED
  BY <1>1, <1>2, <1>3, <1>4 DEF Thread, Grows

\* A session that stays is kept.
LEMMA QuietSession ==
    ASSUME Inv, UNCHANGED session
    PROVE  SessionKept /\ gen' = gen
<1>1. SessionTypeOK'
  BY DEF Inv, TypeOK, SessionTypeOK, session, scopeVars, sqlVars, runVars, deepVars
<1>2. Pointers' /\ LedgerOfContract'
  BY DEF Inv, Pointers, LedgerOfContract, Points, Of, session, scopeVars, sqlVars,
         runVars, deepVars
<1>3. Grows
  BY DEF Inv, TypeOK, SessionTypeOK, Grows, session, scopeVars, sqlVars, runVars
<1> QED
  BY <1>1, <1>2, <1>3 DEF SessionKept, Grows

-------------------------------------------------------------------------------
(* The forms a step takes *)

\* One thread moves, the session is kept.
LEMMA KeepStep ==
    ASSUME Inv, NEW t \in Calls, SessionKept, LocalTypeOK', Only(t), Thread(t)'
    PROVE  Inv'
BY OthersStay DEF Inv, TypeOK, SessionKept

\* A call returns, the session is kept.
LEMMA KeepReturn ==
    ASSUME Inv, NEW t \in Calls, NEW o \in Outcomes, Return(t, o), SessionKept
    PROVE  Inv'
<1>1. gen' \in Nat
  BY DEF SessionKept, SessionTypeOK
<1> QED
  BY <1>1, ReturnLocals, KeepStep DEF Inv

\* A call returns and the session stays.
LEMMA QuietReturn ==
    ASSUME Inv, NEW t \in Calls, NEW o \in Outcomes, Return(t, o), UNCHANGED session
    PROVE  Inv'
BY QuietSession, KeepReturn

\* A thread moves on, the session is kept.
LEMMA KeepGoto ==
    ASSUME Inv, NEW t \in Calls, UNCHANGED locals, SessionKept,
           NEW label \in Labels \ {"activate", "submit", "validate", "doris",
                                   "evidence"},
           Goto(t, label)
    PROVE  Inv'
BY GotoLocals, KeepStep DEF SessionKept, Grows

-------------------------------------------------------------------------------
(* The steps of prepare_query_contract *)

\* Activating another contract keeps the invariant: what the threads of the
\* replaced one hold belongs to an older generation.
LEMMA ActivatedInv ==
    ASSUME Inv, NEW t \in Calls, Activate(t), ~(gen > 0 /\ contract = want[t])
    PROVE  Inv'
<1> USE QuerySessionConstants
<1>1. gen \in Nat /\ want[t] \in Contracts
  BY DEF Inv, TypeOK, SessionTypeOK, Thread, Activate
<1>2. Activated(want[t]) /\ UNCHANGED deepVars /\ Goto(t, "seal")
      /\ pgen' = [pgen EXCEPT ![t] = gen']
      /\ UNCHANGED <<want, sql, repairs, at, prior, mark, hold, saw, art>>
  BY DEF Activate
<1>3. gen' = gen + 1 /\ gen' \in Nat /\ contract' = want[t] /\ attempts' = <<>>
      /\ ran' = ran /\ run' = 0 /\ auth' = 0 /\ top' = 0
  BY <1>1, <1>2 DEF Activated
<1>4. live' \in {0, Compiled} /\ prep' \in {0, Compiled}
  BY <1>2 DEF Activated
<1>5. SessionTypeOK'
  <2>1. attempts' \in Seq(Attempts)
    BY <1>3
  <2>2. contract' \in Contracts /\ executed' = executed /\ exhausted' = exhausted
        /\ guard' = guard /\ ledger' = ledger /\ goals' = goals
        /\ failed' = failed /\ doris' = doris
    BY <1>1, <1>2, <1>3 DEF Activated, deepVars
  <2> QED
    BY <1>3, <1>4, <2>1, <2>2 DEF Inv, TypeOK, SessionTypeOK
<1>6. Pointers'
  BY <1>1, <1>3, <1>4 DEF Pointers, Points
<1>7. LedgerOfContract'
  BY <1>2, <1>3 DEF Inv, LedgerOfContract, deepVars
<1>8. LocalTypeOK' /\ Only(t) /\ pc'[t] = "seal" /\ at' = at
  BY <1>2, <1>3 DEF Inv, TypeOK, LocalTypeOK, Goto, Only, Labels
<1>9. ASSUME NEW u \in Calls
      PROVE  Thread(u)'
  <2>1. at'[u] = at[u] /\ at[u] \in Nat /\ at[u] <= gen /\ at'[u] < gen'
    <3>1. Thread(u) /\ at[u] \in Nat
      BY DEF Inv, TypeOK, LocalTypeOK
    <3> QED
      BY <1>1, <1>3, <1>8, <3>1 DEF Thread
  <2>2. CASE u = t
    BY <1>3, <1>8, <2>1, <2>2 DEF Thread
  <2>3. CASE u # t
    <3>1. pc'[u] = pc[u] /\ saw'[u] = saw[u] /\ want'[u] = want[u]
          /\ sql'[u] = sql[u]
      BY <1>8, <2>3 DEF Only
    <3>2. Of(saw[u], at[u]) => Of(saw[u], at[u])'
      BY <1>1, <1>3, <2>1, <3>1 DEF Of
    <3> QED
      BY <2>1, <3>1, <3>2, <1>3 DEF Inv, Thread
  <2> QED
    BY <2>2, <2>3
<1> QED
  BY <1>5, <1>6, <1>7, <1>8, <1>9 DEF Inv, TypeOK

\* Preparing a call keeps the invariant.
LEMMA PrepareInv ==
    ASSUME Inv, NEW t \in Calls, Prepare(t)
    PROVE  Inv'
<1> USE QuerySessionConstants
<1>1. ASSUME NEW c \in Contracts, NEW s \in Sqls \cup {NoSql}, Propose(t, c, s)
      PROVE  Inv'
  <2>1. want' = [want EXCEPT ![t] = c] /\ sql' = [sql EXCEPT ![t] = s]
        /\ pc' = [pc EXCEPT ![t] = "activate"]
    BY <1>1 DEF Propose, Request, Goto
  <2>2. LocalTypeOK' /\ Only(t) /\ pc'[t] = "activate" /\ at' = at
        /\ want'[t] = c
    BY <1>1, <2>1 DEF Inv, TypeOK, LocalTypeOK, Propose, Goto, Only, Labels
  <2>3. SessionKept /\ gen' = gen
    BY <1>1, QuietSession DEF Propose
  <2>4. Thread(t)'
    BY <2>2, <2>3 DEF Inv, Thread
  <2> QED
    BY <2>2, <2>3, <2>4, KeepStep
<1>2. ASSUME NEW c \in Contracts, NEW s \in Sqls \cup {NoSql}, Resume(t, c, s)
      PROVE  Inv'
  <2>1. want' = [want EXCEPT ![t] = c] /\ sql' = [sql EXCEPT ![t] = s]
        /\ pc' = [pc EXCEPT ![t] = "route"] /\ pgen' = [pgen EXCEPT ![t] = gen]
    BY <1>2 DEF Resume, Request, Goto
  <2>2. gen \in Nat /\ LocalTypeOK
        /\ UNCHANGED <<repairs, at, prior, mark, hold, saw, art, outcome>>
    BY <1>2 DEF Inv, TypeOK, SessionTypeOK, Resume, Goto
  <2>3. LocalTypeOK' /\ Only(t) /\ pc'[t] = "route" /\ at' = at
    BY <2>1, <2>2 DEF LocalTypeOK, Only, Labels
  <2>4. SessionKept /\ gen' = gen
    BY <1>2, QuietSession DEF Resume
  <2>5. Thread(t)'
    BY <2>3, <2>4 DEF Inv, Thread
  <2> QED
    BY <2>3, <2>4, <2>5, KeepStep
<1>3. ASSUME ProposeBlocked(t)
      PROVE  Inv'
  BY <1>3, QuietReturn DEF ProposeBlocked, Outcomes
<1>4. ASSUME Activate(t)
      PROVE  Inv'
  <2>1. CASE gen > 0 /\ contract = want[t]
    <3>1. UNCHANGED session
      BY <1>4, <2>1 DEF Activate, session
    <3>2. SessionKept /\ gen' = gen /\ gen \in Nat
      BY <3>1, QuietSession DEF Inv, TypeOK, SessionTypeOK
    <3>3. LocalTypeOK' /\ Only(t) /\ pc'[t] = "seal" /\ at' = at
      BY <1>4, <3>2 DEF Inv, TypeOK, LocalTypeOK, Activate, Goto, Only, Labels
    <3>4. Thread(t)'
      BY <3>2, <3>3 DEF Inv, Thread
    <3> QED
      BY <3>2, <3>3, <3>4, KeepStep
  <2>2. CASE ~(gen > 0 /\ contract = want[t])
    BY <1>4, <2>2, ActivatedInv
  <2> QED
    BY <2>1, <2>2
<1>5. ASSUME SealRaises(t)
      PROVE  Inv'
  BY <1>5, QuietReturn DEF SealRaises, Outcomes
<1>6. ASSUME AssignGoals(t)
      PROVE  Inv'
  <2>1. SessionTypeOK'
    BY <1>6 DEF Inv, TypeOK, SessionTypeOK, AssignGoals, scopeVars, sqlVars, runVars
  <2>2. Pointers' /\ LedgerOfContract'
    BY <1>6 DEF Inv, Pointers, LedgerOfContract, Points, Of, AssignGoals, scopeVars,
                sqlVars, runVars
  <2>3. Grows
    BY <1>6 DEF Inv, TypeOK, SessionTypeOK, Grows, AssignGoals, scopeVars, sqlVars,
                runVars
  <2> QED
    BY <1>6, <2>1, <2>2, <2>3, KeepGoto DEF SessionKept, AssignGoals, Labels
<1>7. ASSUME NotActivated(t)
      PROVE  Inv'
  BY <1>7, QuietReturn DEF NotActivated, Outcomes
<1>8. ASSUME Route(t)
      PROVE  Inv'
  <2>1. SessionKept /\ gen' = gen
    BY <1>8, QuietSession DEF Route
  <2>2. CASE want[t] \notin CoreSql
    BY <1>8, <2>1, <2>2, KeepGoto DEF Route, Labels
  <2>3. CASE want[t] \in CoreSql /\ sql[t] # NoSql
    <3>1. LocalTypeOK' /\ Only(t) /\ pc'[t] = "submit" /\ at' = at /\ sql' = sql
      BY <1>8, <2>3 DEF Inv, TypeOK, LocalTypeOK, Route, Goto, Only, Labels, locals
    <3>2. sql'[t] \in Sqls
      BY <2>3, <3>1 DEF Inv, TypeOK, LocalTypeOK
    <3>3. Thread(t)'
      BY <2>1, <3>1, <3>2 DEF Inv, Thread
    <3> QED
      BY <2>1, <3>1, <3>3, KeepStep
  <2>4. CASE want[t] \in CoreSql /\ sql[t] = NoSql
    BY <1>8, <2>4, QuietReturn DEF Route, Outcomes
  <2> QED
    BY <2>2, <2>3, <2>4
<1> QED
  BY <1>1, <1>2, <1>3, <1>4, <1>5, <1>6, <1>7, <1>8 DEF Prepare

-------------------------------------------------------------------------------
(* The steps of submit_sql_candidate *)

\* Appending an attempt that leaves no candidate keeps the session.
LEMMA RefusedSession ==
    ASSUME Inv, NEW t \in Calls, pc[t] = "validate",
           NEW status \in {"SQL_GAP", "BINDING_GAP", "NO_PROGRESS", "BROKEN"},
           Refuse(t, status)
    PROVE  SessionKept
<1> DEFINE a == [sql |-> sql[t], status |-> status]
<1>1. a \in Attempts
  BY DEF Inv, Thread, Attempts
<1>2. attempts \in Seq(Attempts) /\ attempts' = Append(attempts, a)
  BY DEF Inv, TypeOK, SessionTypeOK, Refuse
<1> HIDE DEF a
<1>3. attempts' \in Seq(Attempts) /\ Len(attempts') = Len(attempts) + 1
      /\ Len(attempts) \in Nat
  BY <1>1, <1>2
<1>4. top' = Len(attempts')
  <2>1. top' = Len(attempts) + 1
    BY DEF Refuse
  <2> QED
    BY <1>3, <2>1
<1>5. SessionTypeOK'
  BY <1>3, <1>4 DEF Inv, TypeOK, SessionTypeOK, Refuse, Clear, scopeVars, deepVars
<1>6. Pointers' /\ LedgerOfContract'
  BY <1>3, <1>4 DEF Inv, Pointers, LedgerOfContract, Refuse, Clear, scopeVars,
                    deepVars
<1>7. Grows
  BY <1>3 DEF Inv, TypeOK, SessionTypeOK, Grows, Refuse, scopeVars
<1> QED
  BY <1>5, <1>6, <1>7 DEF SessionKept

\* Where a refused submission goes keeps the invariant.
LEMMA AfterGapInv ==
    ASSUME Inv, NEW t \in Calls, SessionKept, NEW gap, AfterGap(t, gap)
    PROVE  Inv'
<1>1. CASE gap = "BINDING_GAP"
  BY <1>1, KeepReturn DEF AfterGap, Outcomes
<1>2. CASE gap # "BINDING_GAP"
  BY <1>2, KeepGoto DEF AfterGap, Labels
<1> QED
  BY <1>1, <1>2

\* Submitting a candidate keeps the invariant.
LEMMA SubmitInv ==
    ASSUME Inv, NEW t \in Calls, Submit(t)
    PROVE  Inv'
<1> USE QuerySessionConstants
<1>1. ASSUME SubmitRefused(t)
      PROVE  Inv'
  BY <1>1, QuietReturn DEF SubmitRefused, Outcomes
<1>2. ASSUME ReadAttempts(t)
      PROVE  Inv'
  <2>1. SessionKept /\ gen' = gen /\ contract' = contract
    BY <1>2, QuietSession DEF ReadAttempts, SessionKept, Grows
  <2>2. gen \in Nat /\ Len(attempts) \in Nat /\ contract \in Contracts
    BY <1>2 DEF Inv, TypeOK, SessionTypeOK, ReadAttempts
  <2>3. LocalTypeOK' /\ Only(t) /\ pc'[t] = "validate" /\ at'[t] = gen
        /\ sql'[t] = sql[t]
    BY <1>2, <2>2 DEF Inv, TypeOK, LocalTypeOK, ReadAttempts, Goto, Only, Labels
  <2>4. Thread(t)'
    BY <1>2, <2>1, <2>2, <2>3 DEF Inv, Thread, ReadAttempts
  <2> QED
    BY <2>1, <2>3, <2>4, KeepStep
<1>3. ASSUME SubmitDiscarded(t)
      PROVE  Inv'
  BY <1>3, QuietReturn DEF SubmitDiscarded, Outcomes
<1>4. ASSUME Exhaust(t)
      PROVE  Inv'
  <2>1. contract \in Contracts
    BY <1>4 DEF Inv, Thread, Exhaust
  <2>2. SessionTypeOK'
    BY <1>4, <2>1 DEF Inv, TypeOK, SessionTypeOK, Exhaust, Clear, scopeVars, deepVars
  <2>3. Pointers' /\ LedgerOfContract'
    BY <1>4 DEF Inv, Pointers, LedgerOfContract, Exhaust, Clear, scopeVars, deepVars
  <2>4. Grows
    BY <1>4 DEF Inv, TypeOK, SessionTypeOK, Grows, Exhaust, scopeVars
  <2> QED
    BY <1>4, <2>2, <2>3, <2>4, KeepReturn DEF SessionKept, Exhaust, Outcomes
<1>5. ASSUME SubmitBroken(t)
      PROVE  Inv'
  BY <1>5, RefusedSession, KeepReturn DEF SubmitBroken, Judged, Outcomes
<1>6. ASSUME SubmitReused(t)
      PROVE  Inv'
  BY <1>6, QuietSession, KeepGoto DEF SubmitReused, Labels
<1>7. ASSUME SubmitNoProgress(t)
      PROVE  Inv'
  BY <1>7, RefusedSession, AfterGapInv DEF SubmitNoProgress, Judged
<1>8. ASSUME SubmitRejected(t)
      PROVE  Inv'
  BY <1>8, RefusedSession, AfterGapInv DEF SubmitRejected, Judged
<1>9. ASSUME SubmitAccepted(t)
      PROVE  Inv'
  <2> DEFINE a == [sql |-> sql[t], status |-> "ACCEPTED"]
  <2>1. a \in Attempts /\ contract \in Contracts
    BY <1>9 DEF Inv, Thread, Attempts, SubmitAccepted, Judged
  <2>2. attempts \in Seq(Attempts) /\ attempts' = Append(attempts, a)
    BY <1>9 DEF Inv, TypeOK, SessionTypeOK, SubmitAccepted
  <2> HIDE DEF a
  <2>3. attempts' \in Seq(Attempts) /\ Len(attempts') = Len(attempts) + 1
        /\ Len(attempts) \in Nat
    BY <2>1, <2>2
  <2>4. top' = Len(attempts') /\ live' = Len(attempts') /\ prep' = Len(attempts')
    BY <1>9, <2>3 DEF SubmitAccepted
  <2>5. SessionTypeOK'
    BY <1>9, <2>3, <2>4 DEF Inv, TypeOK, SessionTypeOK, SubmitAccepted, scopeVars,
                            deepVars
  <2>6. Pointers' /\ LedgerOfContract'
    BY <1>9, <2>1, <2>3, <2>4 DEF Inv, Pointers, Points, LedgerOfContract,
                                  SubmitAccepted, scopeVars, deepVars
  <2>7. Grows
    BY <1>9, <2>3 DEF Inv, TypeOK, SessionTypeOK, Grows, SubmitAccepted, scopeVars
  <2> QED
    BY <1>9, <2>5, <2>6, <2>7, KeepGoto DEF SessionKept, SubmitAccepted, Labels
<1>10. ASSUME Repair(t)
       PROVE  Inv'
  <2>1. SessionKept /\ gen' = gen
    BY <1>10, QuietSession DEF Repair
  <2>2. PICK s \in Sqls : sql' = [sql EXCEPT ![t] = s]
    BY <1>10 DEF Repair
  <2>3. repairs' \in [Calls -> 0..MaxRepairs]
    <3> DEFINE n == repairs[t] + 1
    <3>1. n \in 0..MaxRepairs
      BY <1>10 DEF Inv, TypeOK, LocalTypeOK, Repair
    <3>2. repairs' = [repairs EXCEPT ![t] = n]
      BY <1>10 DEF Repair
    <3> HIDE DEF n
    <3> QED
      BY <3>1, <3>2 DEF Inv, TypeOK, LocalTypeOK
  <2>4. LocalTypeOK' /\ Only(t) /\ pc'[t] = "submit" /\ at' = at /\ sql'[t] = s
    BY <1>10, <2>2, <2>3 DEF Inv, TypeOK, LocalTypeOK, Repair, Goto, Only, Labels
  <2>5. Thread(t)'
    BY <2>1, <2>2, <2>4 DEF Inv, Thread
  <2> QED
    BY <2>1, <2>4, <2>5, KeepStep
<1>11. ASSUME RepairGivenUp(t)
       PROVE  Inv'
  BY <1>11, QuietReturn DEF RepairGivenUp, Outcomes
<1> QED
  BY <1>1, <1>2, <1>3, <1>4, <1>5, <1>6, <1>7, <1>8, <1>9, <1>10, <1>11 DEF Submit

-------------------------------------------------------------------------------
(* The steps of execute_query_contract *)

\* The plan behind a reference of the session is a plan.
LEMMA PlanType ==
    ASSUME Inv, NEW p, Points(p)
    PROVE  PlanOf(p) \in Plans
<1>1. CASE p = Compiled
  BY <1>1 DEF PlanOf, Plans
<1>2. CASE p # Compiled
  <2>1. attempts[p] \in Attempts
    BY <1>2 DEF Inv, TypeOK, SessionTypeOK, Points
  <2> QED
    BY <1>2, <2>1 DEF PlanOf, Plans, Attempts
<1> QED
  BY <1>1, <1>2

\* The fingerprint of the active candidate is one.
LEMMA MarkType == ASSUME Inv PROVE MarkNow \in Fingerprints
<1>1. CASE live \in {0, Compiled}
  BY <1>1, NoMarkType DEF MarkNow
<1>2. CASE live \notin {0, Compiled}
  BY <1>2, PlanType DEF Inv, TypeOK, SessionTypeOK, Pointers, MarkNow, Fingerprints
<1> QED
  BY <1>1, <1>2

\* Building a statement appends it to what was sent to Doris.
LEMMA TakeInv ==
    ASSUME Inv, NEW t \in Calls, Take(t)
    PROVE  Inv'
<1> DEFINE st == [gen |-> gen, contract |-> contract, sql |-> PlanOf(prep)]
<1>1. Points(prep) /\ PlanOf(prep) \in Plans
  BY PlanType DEF Inv, Pointers, Take
<1>2. contract \in Contracts /\ gen \in Nat
  BY DEF Inv, TypeOK, SessionTypeOK, Pointers, Take
<1>3. st \in Statements /\ st.gen = gen /\ st.contract = contract
  BY <1>1, <1>2 DEF Statements
<1>4. ran \in Seq(Statements) /\ ran' = Append(ran, st)
      /\ saw' = [saw EXCEPT ![t] = Len(ran) + 1]
  BY DEF Inv, TypeOK, SessionTypeOK, Take
<1> HIDE DEF st
<1>5. ran' \in Seq(Statements) /\ Len(ran) \in Nat /\ Len(ran') = Len(ran) + 1
      /\ DOMAIN ran' = 1..(Len(ran) + 1) /\ DOMAIN ran = 1..Len(ran)
      /\ ran'[Len(ran) + 1] = st /\ \A e \in DOMAIN ran : ran'[e] = ran[e]
  BY <1>3, <1>4
<1>6. /\ UNCHANGED <<scopeVars, sqlVars, executed, run, auth, guard, deepVars>>
      /\ UNCHANGED <<want, sql, repairs, pgen, prior, mark, art>>
      /\ at' = [at EXCEPT ![t] = gen] /\ hold' = [hold EXCEPT ![t] = prep]
      /\ Goto(t, "doris")
  BY DEF Take
<1>7. SessionTypeOK'
  BY <1>5, <1>6 DEF Inv, TypeOK, SessionTypeOK, scopeVars, sqlVars, deepVars
<1>8. gen' = gen /\ contract' = contract /\ attempts' = attempts /\ top' = top
      /\ live' = live /\ prep' = prep /\ run' = run /\ auth' = auth
  BY <1>6 DEF scopeVars, sqlVars
<1>9. Pointers'
  <2>1. (run' # 0 => Of(run, gen)') /\ (auth' # 0 => Of(auth, gen)')
    BY <1>5, <1>8 DEF Inv, Pointers, Of
  <2> QED
    BY <1>8, <2>1 DEF Inv, Pointers, Points
<1>10. LedgerOfContract'
  <2>1. ledger' = ledger /\ \A e \in DOMAIN ran : e \in DOMAIN ran' /\ ran'[e] = ran[e]
    BY <1>5, <1>6 DEF deepVars
  <2> QED
    BY <2>1 DEF Inv, LedgerOfContract
<1>11. Grows
  BY <1>5, <1>6 DEF Inv, TypeOK, SessionTypeOK, Grows, scopeVars, sqlVars
<1>12. LocalTypeOK' /\ Only(t) /\ pc'[t] = "doris" /\ at'[t] = gen
       /\ saw'[t] = Len(ran) + 1 /\ hold'[t] = prep
  <2>1. LocalTypeOK /\ prep \in Nat \cup {Compiled} /\ Len(ran) + 1 \in Nat
    BY <1>5 DEF Inv, TypeOK, SessionTypeOK
  <2>2. LocalTypeOK'
    BY <1>2, <1>4, <1>6, <2>1 DEF LocalTypeOK, Goto, Labels
  <2>3. Only(t)
    BY <1>4, <1>6, <2>1 DEF LocalTypeOK, Goto, Only
  <2> QED
    BY <1>4, <1>6, <2>1, <2>2, <2>3 DEF LocalTypeOK, Goto
<1>13. Of(saw[t], at[t])'
  BY <1>2, <1>3, <1>5, <1>8, <1>12 DEF Of
<1>14. Thread(t)'
  BY <1>1, <1>2, <1>8, <1>12, <1>13 DEF Thread, Points
<1> QED
  BY <1>7, <1>9, <1>10, <1>11, <1>12, <1>14, KeepStep DEF SessionKept

\* Committing a result of the active generation keeps the session.
LEMMA CommitSession ==
    ASSUME Inv, NEW t \in Calls, pc[t] = "doris", at[t] = gen, Commit(t),
           guard' \in BOOLEAN
    PROVE  SessionKept
<1>1. Of(saw[t], gen) /\ Points(hold[t]) /\ mark[t] \in Fingerprints
      /\ saw[t] \in Nat /\ hold[t] \in Nat \cup {Compiled}
  BY DEF Inv, TypeOK, LocalTypeOK, Thread
<1>2. SessionTypeOK'
  BY <1>1 DEF Inv, TypeOK, SessionTypeOK, Commit, scopeVars, deepVars
<1>3. Pointers' /\ LedgerOfContract'
  BY <1>1 DEF Inv, Pointers, Points, Of, LedgerOfContract, Commit, scopeVars, deepVars
<1>4. Grows
  BY DEF Inv, TypeOK, SessionTypeOK, Grows, Commit, scopeVars
<1> QED
  BY <1>2, <1>3, <1>4 DEF SessionKept

\* Executing a contract keeps the invariant.
LEMMA ExecuteInv ==
    ASSUME Inv, NEW t \in Calls, Execute(t)
    PROVE  Inv'
<1> USE QuerySessionConstants
<1>1. ASSUME Reserve(t)
      PROVE  Inv'
  <2>1. doris' \in 0..DorisLimit
    BY <1>1 DEF Inv, TypeOK, SessionTypeOK, Reserve
  <2>2. SessionTypeOK'
    BY <1>1, <2>1 DEF Inv, TypeOK, SessionTypeOK, Reserve, scopeVars, sqlVars, runVars
  <2>3. Pointers' /\ LedgerOfContract'
    BY <1>1 DEF Inv, Pointers, LedgerOfContract, Points, Of, Reserve, scopeVars,
                sqlVars, runVars
  <2>4. Grows
    BY <1>1 DEF Inv, TypeOK, SessionTypeOK, Grows, Reserve, scopeVars, sqlVars, runVars
  <2> QED
    BY <1>1, <2>2, <2>3, <2>4, KeepGoto DEF SessionKept, Reserve, Labels
<1>2. ASSUME ReserveDenied(t)
      PROVE  Inv'
  BY <1>2, QuietReturn DEF ReserveDenied, Outcomes
<1>3. ASSUME Check(t)
      PROVE  Inv'
  <2>1. SessionKept /\ gen' = gen
    BY <1>3, QuietSession DEF Check
  <2>2. LocalTypeOK' /\ Only(t) /\ pc'[t] = "take" /\ at' = at
    BY <1>3, MarkType DEF Inv, TypeOK, LocalTypeOK, Check, Goto, Only, Labels
  <2>3. Thread(t)'
    BY <2>1, <2>2 DEF Inv, Thread
  <2> QED
    BY <2>1, <2>2, <2>3, KeepStep
<1>4. ASSUME CheckRaises(t)
      PROVE  Inv'
  BY <1>4, QuietReturn DEF CheckRaises, Outcomes
<1>5. ASSUME Take(t)
      PROVE  Inv'
  BY <1>5, TakeInv
<1>6. ASSUME TakeRaises(t)
      PROVE  Inv'
  BY <1>6, QuietReturn DEF TakeRaises, Outcomes
<1>7. ASSUME ResultDiscarded(t)
      PROVE  Inv'
  BY <1>7, QuietReturn DEF ResultDiscarded, Outcomes
<1>8. ASSUME Executed(t)
      PROVE  Inv'
  <2>1. SessionKept
    BY <1>8, CommitSession DEF Executed, Inv, TypeOK, SessionTypeOK
  <2> QED
    BY <1>8, <2>1, KeepGoto DEF Executed, Labels
<1>9. ASSUME NEW fault \in {"error", "denied", "broken"}, ExecutedWithError(t, fault)
      PROVE  Inv'
  <2>1. guard' \in BOOLEAN
    BY <1>9 DEF ExecutedWithError
  <2>2. SessionKept
    BY <1>9, <2>1, CommitSession DEF ExecutedWithError
  <2> QED
    BY <1>9, <2>2, KeepGoto DEF ExecutedWithError, Labels
<1>10. ASSUME Breaks(t)
       PROVE  Inv'
  BY <1>10, QuietReturn DEF Breaks, Outcomes
<1>11. ASSUME Terminal(t)
       PROVE  Inv'
  <2>1. SessionTypeOK'
    BY <1>11 DEF Inv, TypeOK, SessionTypeOK, Terminal, scopeVars, sqlVars, runVars
  <2>2. Pointers' /\ LedgerOfContract'
    BY <1>11 DEF Inv, Pointers, LedgerOfContract, Points, Of, Terminal, scopeVars,
                 sqlVars, runVars
  <2>3. Grows
    BY <1>11 DEF Inv, TypeOK, SessionTypeOK, Grows, Terminal, scopeVars, sqlVars,
                 runVars
  <2> QED
    BY <1>11, <2>1, <2>2, <2>3, KeepReturn DEF SessionKept, Terminal, Outcomes
<1>12. ASSUME Review(t)
       PROVE  Inv'
  <2>1. exhausted' \subseteq Contracts
    BY <1>12 DEF Inv, TypeOK, SessionTypeOK, Review
  <2>2. SessionTypeOK'
    BY <1>12, <2>1 DEF Inv, TypeOK, SessionTypeOK, Review, scopeVars, runVars, deepVars
  <2>3. Pointers' /\ LedgerOfContract'
    BY <1>12 DEF Inv, Pointers, LedgerOfContract, Points, Of, Review, scopeVars,
                 runVars, deepVars
  <2>4. Grows
    BY <1>12 DEF Inv, TypeOK, SessionTypeOK, Grows, Review, scopeVars, runVars
  <2>5. SessionKept
    BY <2>2, <2>3, <2>4 DEF SessionKept
  <2>6. \/ Goto(t, "repair") /\ UNCHANGED locals
        \/ Return(t, "NEEDS_REASONING")
    BY <1>12 DEF Review
  <2> QED
    BY <2>5, <2>6, KeepGoto, KeepReturn DEF Labels, Outcomes
<1> QED
  BY <1>1, <1>2, <1>3, <1>4, <1>5, <1>6, <1>7, <1>8, <1>9, <1>10, <1>11, <1>12
     DEF Execute

-------------------------------------------------------------------------------
(* The steps of verify_active *)

\* The artifact a passing verification records is of the contract its evidence
\* and its rows were executed for.
LEMMA NewArtifactOfContract ==
    ASSUME Inv, NEW t \in Calls, pc[t] = "evidence", at[t] = gen, auth # 0
    PROVE  /\ NewArtifact(t) \in Artifacts
           /\ NewArtifact(t).gen = gen
           /\ NewArtifact(t).exe = saw[t] /\ NewArtifact(t).rows = auth
           /\ \A e \in {saw[t], auth} :
                 /\ e \in DOMAIN ran /\ ran[e].gen = gen
                 /\ ran[e].contract = NewArtifact(t).contract
<1>1. Of(saw[t], gen) /\ Of(auth, gen)
  BY DEF Inv, Thread, Pointers
<1>2. ran[auth] \in Statements /\ ran[auth].contract = contract
  BY <1>1 DEF Inv, TypeOK, SessionTypeOK, Of
<1>3. contract \in Contracts /\ ran[auth].sql \in Plans /\ gen \in Nat
      /\ saw[t] \in Nat /\ auth \in Nat
  BY <1>2 DEF Statements, Inv, TypeOK, SessionTypeOK, LocalTypeOK
<1> DEFINE plan == IF live = 0 THEN ran[auth].sql ELSE PlanOf(live)
           ast == live \notin {0, Compiled}
<1>4. plan \in Plans
  BY <1>3, PlanType DEF Inv, Pointers
<1>5. ast \in BOOLEAN
  OBVIOUS
<1>6. NewArtifact(t) = [gen |-> gen, contract |-> contract, sql |-> plan,
                        ast |-> ast, exe |-> saw[t], rows |-> auth, goals |-> None]
  BY DEF NewArtifact
<1> HIDE DEF plan, ast
<1>7. NewArtifact(t) \in Artifacts
  BY <1>3, <1>4, <1>5, <1>6 DEF Artifacts
<1> QED
  BY <1>1, <1>2, <1>6, <1>7 DEF Of

\* Recording a passing verification keeps the session.
LEMMA RecordSession ==
    ASSUME Inv, NEW t \in Calls, EvidencePassed(t)
    PROVE  SessionKept
<1>1. pc[t] = "evidence" /\ at[t] = gen /\ auth # 0 /\ auth' = 0
      /\ ledger' = Recorded(t)
      /\ UNCHANGED <<scopeVars, sqlVars, executed, run, guard, ran, goals, failed, doris>>
  BY DEF EvidencePassed
<1> DEFINE a == NewArtifact(t)
<1>2. /\ a \in Artifacts /\ a.gen = gen /\ a.exe = saw[t] /\ a.rows = auth
      /\ \A e \in {saw[t], auth} : /\ e \in DOMAIN ran /\ ran[e].gen = gen
                                   /\ ran[e].contract = a.contract
  BY <1>1, NewArtifactOfContract
<1>3. ledger \in Seq(Artifacts) /\ (ledger' = ledger \/ ledger' = Append(ledger, a))
  BY <1>1 DEF Inv, TypeOK, SessionTypeOK, Recorded
<1> HIDE DEF a
<1>4. /\ ledger' \in Seq(Artifacts)
      /\ \A i \in DOMAIN ledger' :
            ledger'[i] = a \/ (i \in DOMAIN ledger /\ ledger'[i] = ledger[i])
  <2>1. CASE ledger' = ledger
    BY <1>3, <2>1
  <2>2. CASE ledger' = Append(ledger, a)
    BY <1>2, <1>3, <2>2
  <2> QED
    BY <1>3, <2>1, <2>2
<1>5. SessionTypeOK'
  BY <1>1, <1>4 DEF Inv, TypeOK, SessionTypeOK, scopeVars, sqlVars
<1>6. Pointers'
  BY <1>1 DEF Inv, Pointers, Points, Of, scopeVars, sqlVars
<1>7. LedgerOfContract'
  BY <1>1, <1>2, <1>4 DEF Inv, LedgerOfContract
<1>8. Grows
  BY <1>1 DEF Inv, TypeOK, SessionTypeOK, Grows, scopeVars, sqlVars
<1> QED
  BY <1>5, <1>6, <1>7, <1>8 DEF SessionKept

\* Writing goals onto an artifact changes nothing else of the ledger.
LEMMA AttachLedger ==
    ASSUME Inv, NEW t \in Calls, Attach(t)
    PROVE  /\ ledger' \in Seq(Artifacts) /\ Len(ledger') = Len(ledger)
           /\ DOMAIN ledger' = DOMAIN ledger
           /\ \A i \in DOMAIN ledger :
                 /\ ledger'[i].gen = ledger[i].gen
                 /\ ledger'[i].contract = ledger[i].contract
                 /\ ledger'[i].exe = ledger[i].exe
                 /\ ledger'[i].rows = ledger[i].rows
<1> DEFINE a == [ledger[art[t]] EXCEPT !.goals = goals]
<1>1. ledger \in Seq(Artifacts) /\ goals \in Calls \cup {None}
  BY DEF Inv, TypeOK, SessionTypeOK
<1>2. ledger' = [ledger EXCEPT ![art[t]] = a]
  BY DEF Attach
<1>3. art[t] \in DOMAIN ledger =>
         /\ a \in Artifacts
         /\ a.gen = ledger[art[t]].gen /\ a.contract = ledger[art[t]].contract
         /\ a.exe = ledger[art[t]].exe /\ a.rows = ledger[art[t]].rows
  <2> SUFFICES ASSUME art[t] \in DOMAIN ledger
               PROVE  /\ a \in Artifacts
                      /\ a.gen = ledger[art[t]].gen
                      /\ a.contract = ledger[art[t]].contract
                      /\ a.exe = ledger[art[t]].exe /\ a.rows = ledger[art[t]].rows
    OBVIOUS
  <2>1. ledger[art[t]] \in Artifacts
    BY <1>1
  <2> QED
    BY <1>1, <2>1 DEF Artifacts
<1> HIDE DEF a
<1>4. CASE art[t] \in DOMAIN ledger
  <2>1. ledger' \in Seq(Artifacts) /\ Len(ledger') = Len(ledger)
        /\ DOMAIN ledger' = DOMAIN ledger
    BY <1>1, <1>2, <1>3, <1>4
  <2>2. \A i \in DOMAIN ledger : ledger'[i] = IF i = art[t] THEN a ELSE ledger[i]
    BY <1>1, <1>2, <1>4
  <2> QED
    BY <1>3, <1>4, <2>1, <2>2
<1>5. CASE art[t] \notin DOMAIN ledger
  <2>1. ledger' = ledger
    BY <1>1, <1>2, <1>5
  <2> QED
    BY <1>1, <2>1
<1> QED
  BY <1>4, <1>5

\* Verifying a result and reporting an artifact keeps the invariant.
LEMMA EvidenceInv ==
    ASSUME Inv, NEW t \in Calls, Evidence(t)
    PROVE  Inv'
<1> USE QuerySessionConstants
<1>1. ASSUME Verify(t)
      PROVE  Inv'
  <2>1. SessionKept /\ gen' = gen /\ contract' = contract /\ ran' = ran
    BY <1>1, QuietSession
       DEF Verify, session, scopeVars, runVars
  <2>2. Of(auth, gen) /\ gen \in Nat /\ auth \in Nat
    BY <1>1 DEF Inv, TypeOK, SessionTypeOK, Pointers, Verify
  <2>3. LocalTypeOK' /\ Only(t) /\ pc'[t] = "evidence" /\ at'[t] = gen
        /\ saw'[t] = auth
    BY <1>1, <2>2 DEF Inv, TypeOK, LocalTypeOK, Verify, Goto, Only, Labels
  <2>4. Of(saw[t], at[t])'
    BY <2>1, <2>2, <2>3 DEF Of
  <2>5. Thread(t)'
    BY <2>1, <2>2, <2>3, <2>4 DEF Thread
  <2> QED
    BY <2>1, <2>3, <2>5, KeepStep
<1>2. ASSUME VerifyRaises(t)
      PROVE  Inv'
  BY <1>2, QuietReturn DEF VerifyRaises, Outcomes
<1>3. ASSUME EvidenceDiscarded(t)
      PROVE  Inv'
  BY <1>3, QuietReturn DEF EvidenceDiscarded, Outcomes
<1>4. ASSUME EvidencePassed(t)
      PROVE  Inv'
  BY <1>4, RecordSession, KeepGoto DEF EvidencePassed, Labels
<1>5. ASSUME EvidenceGapped(t)
      PROVE  Inv'
  <2>1. SessionTypeOK'
    BY <1>5 DEF Inv, TypeOK, SessionTypeOK, EvidenceGapped, scopeVars, sqlVars, deepVars
  <2>2. Pointers' /\ LedgerOfContract'
    BY <1>5 DEF Inv, Pointers, LedgerOfContract, Points, Of, EvidenceGapped, scopeVars,
                sqlVars, deepVars
  <2>3. Grows
    BY <1>5 DEF Inv, TypeOK, SessionTypeOK, Grows, EvidenceGapped, scopeVars, sqlVars
  <2> QED
    BY <1>5, <2>1, <2>2, <2>3, KeepReturn DEF SessionKept, EvidenceGapped, Outcomes
<1>6. ASSUME Latest(t)
      PROVE  Inv'
  <2>1. SessionKept /\ gen' = gen
    BY <1>6, QuietSession DEF Latest
  <2>2. Len(ledger) \in Nat
    BY DEF Inv, TypeOK, SessionTypeOK
  <2>3. LocalTypeOK' /\ Only(t) /\ pc'[t] = "attach" /\ at' = at
    BY <1>6, <2>2 DEF Inv, TypeOK, LocalTypeOK, Latest, Goto, Only, Labels
  <2>4. Thread(t)'
    BY <2>1, <2>3 DEF Inv, Thread
  <2> QED
    BY <2>1, <2>3, <2>4, KeepStep
<1>7. ASSUME Attach(t)
      PROVE  Inv'
  <2>1. UNCHANGED <<scopeVars, sqlVars, runVars, goals, failed, doris>>
    BY <1>7 DEF Attach
  <2>2. SessionTypeOK'
    BY <1>7, <2>1, AttachLedger DEF Inv, TypeOK, SessionTypeOK, scopeVars, sqlVars,
                                    runVars
  <2>3. Pointers'
    BY <2>1 DEF Inv, Pointers, Points, Of, scopeVars, sqlVars, runVars
  <2>4. LedgerOfContract'
    BY <1>7, <2>1, AttachLedger DEF Inv, LedgerOfContract, runVars
  <2>5. Grows
    BY <2>1 DEF Inv, TypeOK, SessionTypeOK, Grows, scopeVars, sqlVars, runVars
  <2> QED
    BY <1>7, <2>2, <2>3, <2>4, <2>5, KeepReturn DEF SessionKept, Attach, Outcomes
<1> QED
  BY <1>1, <1>2, <1>3, <1>4, <1>5, <1>6, <1>7 DEF Evidence

-------------------------------------------------------------------------------
(* The invariant *)

\* A new session satisfies the invariant.
LEMMA InitInv == Init => Inv
<1> SUFFICES ASSUME Init PROVE Inv
  OBVIOUS
<1> USE QuerySessionConstants
<1>1. SessionTypeOK
  <2>1. attempts \in Seq(Attempts) /\ ran \in Seq(Statements)
        /\ ledger \in Seq(Artifacts)
    BY DEF Init
  <2>2. doris \in 0..DorisLimit
    BY DEF Init
  <2> QED
    BY <2>1, <2>2 DEF Init, SessionTypeOK
<1>2. LocalTypeOK
  BY NoMarkType DEF Init, LocalTypeOK, Labels, Outcomes
<1>3. Pointers /\ LedgerOfContract /\ \A t \in Calls : Thread(t)
  BY DEF Init, Pointers, LedgerOfContract, Thread
<1> QED
  BY <1>1, <1>2, <1>3 DEF Inv, TypeOK

\* Every step keeps the invariant.
LEMMA StepInv == Inv /\ [Next]_vars => Inv'
<1> SUFFICES ASSUME Inv, [Next]_vars PROVE Inv'
  OBVIOUS
<1>1. CASE Next
  BY <1>1, PrepareInv, SubmitInv, ExecuteInv, EvidenceInv DEF Next, Step
<1>2. CASE UNCHANGED vars
  <2>1. SessionKept /\ gen' = gen /\ UNCHANGED <<pc, locals, outcome>>
    BY <1>2, QuietSession DEF vars
  <2>2. contract' = contract /\ attempts' = attempts /\ ran' = ran
    BY <1>2 DEF vars, session, scopeVars, sqlVars, runVars
  <2>3. LocalTypeOK'
    BY <2>1 DEF Inv, TypeOK, LocalTypeOK, locals
  <2>4. \A t \in Calls : Thread(t)'
    BY <2>1, <2>2 DEF Inv, Thread, Of, Points, locals
  <2> QED
    BY <2>1, <2>3, <2>4 DEF Inv, TypeOK, SessionKept
<1> QED
  BY <1>1, <1>2

\* The invariant holds throughout.
LEMMA InvHolds == Spec => []Inv
BY InitInv, StepInv, PTL DEF Spec

\* Session fields and thread locals keep their types; the Doris budget and the
\* repair budget of a call are never exceeded.
THEOREM TypeCorrect == Spec => []TypeOK
<1>1. Inv => TypeOK
  BY DEF Inv
<1> QED
  BY <1>1, InvHolds, PTL

\* Evidence and rows in the ledger were executed for the contract generation
\* they are recorded under, however many calls run and however they interleave.
THEOREM LedgerStaysOfContract == Spec => []LedgerOfContract
<1>1. Inv => LedgerOfContract
  BY DEF Inv
<1> QED
  BY <1>1, InvHolds, PTL

-------------------------------------------------------------------------------
(* What a step changes *)

\* t arrives at a lock region, or reports, only by the step that leads there
Arrives(t) ==
    /\ pc[t] # "done"
    /\ pc[t] = "idle" => pc'[t] \in {"activate", "done"} \/ \E c, s : Resume(t, c, s)
    /\ pc[t] = "activate" => pc'[t] = "done" \/ Activate(t)
    /\ pc'[t] = "evidence" => Verify(t)
    /\ pc'[t] = "attach" => Latest(t)
    /\ pc'[t] = "validate" => ReadAttempts(t)
    /\ pc'[t] = "doris" => Take(t)
    /\ pc'[t] = "report" => EvidencePassed(t)
    /\ pc'[t] = "activate" => pc[t] = "idle"
    /\ pc'[t] # "idle"
    /\ art'[t] # art[t] => Latest(t)
    /\ pgen'[t] # pgen[t] => Activate(t) \/ \E c, s : Resume(t, c, s)
    /\ want'[t] # want[t] => pc[t] = "idle"
    /\ outcome'[t] # outcome[t] => pc'[t] = "done"
    /\ outcome'[t] = "VERIFIED" => Attach(t) \/ outcome[t] = "VERIFIED"

\* A returning call arrives nowhere.
LEMMA ReturnArrives ==
    ASSUME Inv, NEW t \in Calls, pc[t] # "done",
           NEW o, o = "VERIFIED" => Attach(t), Return(t, o)
    PROVE  Only(t) /\ Arrives(t)
BY DEF Inv, TypeOK, LocalTypeOK, Return, Only, Arrives

\* A thread that only moves on arrives at its label.
LEMMA GotoArrives ==
    ASSUME Inv, NEW t \in Calls, UNCHANGED locals,
           NEW label,
           label \notin {"idle", "activate", "validate", "doris", "evidence", "report",
                         "attach"},
           pc[t] \notin {"idle", "activate", "done"}, Goto(t, label)
    PROVE  Only(t) /\ Arrives(t)
BY DEF Inv, TypeOK, LocalTypeOK, Goto, Only, Arrives, locals

\* No step moves another thread, and none arrives by surprise.
LEMMA Arrivals ==
    ASSUME Inv, NEW t \in Calls, Prepare(t) \/ Step(t)
    PROVE  Only(t) /\ Arrives(t)
<1>1. ASSUME NEW c, NEW s, Propose(t, c, s)
      PROVE  Only(t) /\ Arrives(t)
  BY <1>1 DEF Inv, TypeOK, LocalTypeOK, Propose, Request, Goto, Only, Arrives
<1>2. ASSUME NEW c, NEW s, Resume(t, c, s)
      PROVE  Only(t) /\ Arrives(t)
  <2>1. want' = [want EXCEPT ![t] = c] /\ sql' = [sql EXCEPT ![t] = s]
        /\ pc' = [pc EXCEPT ![t] = "route"] /\ pgen' = [pgen EXCEPT ![t] = gen]
        /\ UNCHANGED <<repairs, at, prior, mark, hold, saw, art, outcome>>
        /\ pc[t] = "idle"
    BY <1>2 DEF Resume, Request, Goto
  <2>2. \E k, r : Resume(t, k, r)
    BY <1>2
  <2>3. pc'[t] = "route" /\ Only(t)
    BY <2>1 DEF Inv, TypeOK, LocalTypeOK, Only
  <2> QED
    BY <2>1, <2>2, <2>3 DEF Inv, TypeOK, LocalTypeOK, Arrives
<1>3. ASSUME \/ ProposeBlocked(t) \/ NotActivated(t) \/ SealRaises(t)
             \/ AssignGoals(t) \/ Route(t)
      PROVE  Only(t) /\ Arrives(t)
  BY <1>3, ReturnArrives, GotoArrives
     DEF ProposeBlocked, NotActivated, SealRaises, AssignGoals, Route
<1>4. ASSUME Activate(t)
      PROVE  Only(t) /\ Arrives(t)
  BY <1>4 DEF Inv, TypeOK, LocalTypeOK, Activate, Goto, Only, Arrives
<1>5. ASSUME Submit(t), ~ReadAttempts(t), ~Repair(t)
      PROVE  Only(t) /\ Arrives(t)
  <2>1. CASE SubmitRefused(t) \/ SubmitDiscarded(t) \/ Exhaust(t) \/ SubmitBroken(t)
             \/ RepairGivenUp(t)
    BY <2>1, ReturnArrives DEF SubmitRefused, SubmitDiscarded, Exhaust, SubmitBroken,
                               RepairGivenUp, Judged
  <2>2. CASE SubmitReused(t) \/ SubmitAccepted(t)
    BY <2>2, GotoArrives DEF SubmitReused, SubmitAccepted, Judged
  <2>3. CASE SubmitNoProgress(t) \/ SubmitRejected(t)
    <3>1. PICK gap : AfterGap(t, gap) /\ pc[t] = "validate"
      BY <2>3 DEF SubmitNoProgress, SubmitRejected, Judged
    <3> QED
      BY <3>1, ReturnArrives, GotoArrives DEF AfterGap
  <2> QED
    BY <1>5, <2>1, <2>2, <2>3 DEF Submit
<1>6. ASSUME ReadAttempts(t) \/ Repair(t)
      PROVE  Only(t) /\ Arrives(t)
  <2>1. CASE ReadAttempts(t)
    BY <2>1 DEF Inv, TypeOK, LocalTypeOK, ReadAttempts, Goto, Only, Arrives
  <2>2. CASE Repair(t)
    BY <2>2 DEF Inv, TypeOK, LocalTypeOK, Repair, Goto, Only, Arrives
  <2> QED
    BY <1>6, <2>1, <2>2
<1>7. ASSUME Execute(t), ~Check(t), ~Take(t)
      PROVE  Only(t) /\ Arrives(t)
  <2>1. CASE ReserveDenied(t) \/ CheckRaises(t) \/ TakeRaises(t) \/ ResultDiscarded(t)
             \/ Breaks(t) \/ Terminal(t)
    BY <2>1, ReturnArrives DEF ReserveDenied, CheckRaises, TakeRaises, ResultDiscarded,
                               Breaks, Terminal
  <2>2. CASE Reserve(t) \/ Executed(t)
    BY <2>2, GotoArrives DEF Reserve, Executed
  <2>3. CASE \E fault \in {"error", "denied", "broken"} : ExecutedWithError(t, fault)
    BY <2>3, GotoArrives DEF ExecutedWithError
  <2>4. CASE Review(t)
    BY <2>4, ReturnArrives, GotoArrives DEF Review
  <2> QED
    BY <1>7, <2>1, <2>2, <2>3, <2>4 DEF Execute
<1>8. ASSUME Check(t)
      PROVE  Only(t) /\ Arrives(t)
  BY <1>8 DEF Inv, TypeOK, LocalTypeOK, Check, Goto, Only, Arrives
<1>9. ASSUME Take(t)
      PROVE  Only(t) /\ Arrives(t)
  BY <1>9 DEF Inv, TypeOK, LocalTypeOK, Take, Goto, Only, Arrives
<1>10. ASSUME VerifyRaises(t) \/ EvidenceDiscarded(t) \/ EvidenceGapped(t) \/ Attach(t)
       PROVE  Only(t) /\ Arrives(t)
  BY <1>10, ReturnArrives DEF VerifyRaises, EvidenceDiscarded, EvidenceGapped, Attach
<1>11. ASSUME EvidencePassed(t)
       PROVE  Only(t) /\ Arrives(t)
  BY <1>11 DEF Inv, TypeOK, LocalTypeOK, EvidencePassed, Goto, Only, Arrives, locals
<1>12. ASSUME Verify(t)
       PROVE  Only(t) /\ Arrives(t)
  BY <1>12 DEF Inv, TypeOK, LocalTypeOK, Verify, Goto, Only, Arrives
<1>13. ASSUME Latest(t)
       PROVE  Only(t) /\ Arrives(t)
  BY <1>13 DEF Inv, TypeOK, LocalTypeOK, Latest, Goto, Only, Arrives
<1>14. CASE Prepare(t)
  BY <1>14, <1>1, <1>2, <1>3, <1>4 DEF Prepare
<1>15. CASE Submit(t)
  BY <1>15, <1>5, <1>6
<1>16. CASE Execute(t)
  BY <1>16, <1>7, <1>8, <1>9
<1>17. CASE Evidence(t)
  BY <1>17, <1>10, <1>11, <1>12, <1>13 DEF Evidence
<1> QED
  BY <1>14, <1>15, <1>16, <1>17 DEF Step

\* how a step changes the attempts: not at all, as a submission that saw room,
\* or by a new generation
AttemptsMove(t) ==
    \/ attempts' = attempts /\ gen' = gen
    \/ Judged(t) /\ gen' = gen /\ \E a : attempts' = Append(attempts, a)
    \/ attempts' = <<>>

\* the authority is kept, cleared, or the result the thread brought from Doris
AuthMove(t) == auth' \in {auth, 0} \/ (pc[t] = "doris" /\ auth' = saw[t])

\* which steps change the session
Changes(t) ==
    /\ AttemptsMove(t)
    /\ AuthMove(t)
    /\ Take(t) \/ ran' = ran
    /\ EvidencePassed(t) \/ Attach(t) \/ ledger' = ledger
    /\ gen' \in {gen, gen + 1}
    /\ Activate(t) \/ UNCHANGED scopeVars
    /\ pc[t] = "idle" => UNCHANGED session

\* A step that leaves the session alone changes nothing.
LEMMA QuietChanges ==
    ASSUME UNCHANGED session, NEW t
    PROVE  Changes(t)
BY DEF Changes, AttemptsMove, AuthMove, session, scopeVars, sqlVars, runVars, deepVars

\* Only the steps named above change the session.
LEMMA SessionChanges ==
    ASSUME NEW t, Prepare(t) \/ Step(t)
    PROVE  Changes(t)
<1> USE DEF Changes, AttemptsMove, AuthMove, scopeVars, sqlVars, runVars, deepVars
<1>1. CASE Prepare(t)
  <2>1. ASSUME Activate(t)
        PROVE  Changes(t)
    BY <2>1 DEF Activate, Activated
  <2>2. ASSUME AssignGoals(t)
        PROVE  Changes(t)
    BY <2>2 DEF AssignGoals
  <2>3. ASSUME Prepare(t), ~Activate(t), ~AssignGoals(t)
        PROVE  Changes(t)
    BY <2>3, QuietChanges DEF Prepare, Propose, Resume, ProposeBlocked, NotActivated,
                              SealRaises, Route
  <2> QED
    BY <1>1, <2>1, <2>2, <2>3
<1>2. CASE Submit(t)
  <2>1. ASSUME NEW status, Judged(t), Refuse(t, status)
        PROVE  Changes(t)
    BY <2>1 DEF Judged, Refuse, Clear
  <2>2. ASSUME SubmitBroken(t) \/ SubmitNoProgress(t) \/ SubmitRejected(t)
        PROVE  Changes(t)
    BY <2>1, <2>2 DEF SubmitBroken, SubmitNoProgress, SubmitRejected
  <2>3. ASSUME Exhaust(t)
        PROVE  Changes(t)
    BY <2>3 DEF Exhaust, Clear
  <2>4. ASSUME SubmitAccepted(t)
        PROVE  Changes(t)
    BY <2>4 DEF Judged, SubmitAccepted
  <2>5. ASSUME SubmitRefused(t) \/ ReadAttempts(t) \/ SubmitDiscarded(t)
               \/ SubmitReused(t) \/ Repair(t) \/ RepairGivenUp(t)
        PROVE  Changes(t)
    BY <2>5, QuietChanges DEF SubmitRefused, ReadAttempts, SubmitDiscarded, SubmitReused,
                              Repair, RepairGivenUp
  <2> QED
    BY <1>2, <2>2, <2>3, <2>4, <2>5 DEF Submit
<1>3. CASE Execute(t)
  <2>1. ASSUME ReserveDenied(t) \/ Check(t) \/ CheckRaises(t) \/ TakeRaises(t)
               \/ ResultDiscarded(t) \/ Breaks(t)
        PROVE  Changes(t)
    BY <2>1, QuietChanges DEF ReserveDenied, Check, CheckRaises, TakeRaises,
                              ResultDiscarded, Breaks
  <2>2. ASSUME Reserve(t) \/ Terminal(t) \/ Review(t)
        PROVE  Changes(t)
    BY <2>2 DEF Reserve, Terminal, Review
  <2>3. ASSUME Take(t)
        PROVE  Changes(t)
    BY <2>3 DEF Take
  <2>4. ASSUME Executed(t) \/ \E fault \in {"error", "denied", "broken"} :
                                  ExecutedWithError(t, fault)
        PROVE  Changes(t)
    BY <2>4 DEF Executed, ExecutedWithError, Commit
  <2> QED
    BY <1>3, <2>1, <2>2, <2>3, <2>4 DEF Execute
<1>4. CASE Evidence(t)
  <2>1. ASSUME Verify(t) \/ VerifyRaises(t) \/ EvidenceDiscarded(t) \/ Latest(t)
        PROVE  Changes(t)
    BY <2>1, QuietChanges DEF Verify, VerifyRaises, EvidenceDiscarded, Latest
  <2>2. ASSUME EvidencePassed(t) \/ EvidenceGapped(t) \/ Attach(t)
        PROVE  Changes(t)
    BY <2>2 DEF EvidencePassed, EvidenceGapped, Attach
  <2> QED
    BY <1>4, <2>1, <2>2 DEF Evidence
<1> QED
  BY <1>1, <1>2, <1>3, <1>4 DEF Step

-------------------------------------------------------------------------------
(* Bounded submissions *)

\* Submissions that saw room are finitely many.
LEMMA PendingFinite ==
    /\ IsFiniteSet(Calls) /\ Cardinality(Calls) \in Nat
    /\ \A S \in SUBSET Calls : /\ IsFiniteSet(S) /\ Cardinality(S) \in Nat
                                /\ Cardinality(S) <= Cardinality(Calls)
BY QuerySessionConstants, FS_Subset, FS_CardinalityType

\* Room for the attempts of the submissions that saw some is kept: a submission
\* joins them only when there is room for all calls, and leaves them with the
\* attempt it appends.
LEMMA RoomStep ==
    ASSUME Inv, Room, NEW t \in Calls, Prepare(t) \/ Step(t)
    PROVE  Room'
<1>1. Only(t) /\ Arrives(t) /\ AttemptsMove(t) /\ SessionTypeOK /\ pc \in [Calls -> Labels]
  BY Arrivals, SessionChanges DEF Changes, Inv, TypeOK, LocalTypeOK
<1>2. Pending \subseteq Calls /\ Pending' \subseteq Calls /\ MaxSubmissions \in Nat \ {0}
      /\ Len(attempts) \in Nat
  BY <1>1, QuerySessionConstants DEF Pending, SessionTypeOK
<1>3. CASE attempts' = <<>>
  <2>1. Len(attempts') = 0
    BY <1>3
  <2> QED
    BY <1>2, <2>1, PendingFinite DEF Room
<1>4. CASE attempts' = attempts /\ gen' = gen
  <2>1. CASE ReadAttempts(t) /\ Len(attempts) < MaxSubmissions
    BY <1>2, <1>4, <2>1, PendingFinite DEF Room
  <2>2. CASE ~(ReadAttempts(t) /\ Len(attempts) < MaxSubmissions)
    <3>1. ~Judged(t)'
      <4>1. CASE ReadAttempts(t)
        <5>1. prior'[t] = Len(attempts)
          BY <4>1 DEF Inv, TypeOK, LocalTypeOK, ReadAttempts
        <5> QED
          BY <1>2, <2>2, <4>1, <5>1 DEF Judged
      <4>2. CASE ~ReadAttempts(t)
        BY <1>1, <4>2 DEF Arrives, Judged
      <4> QED
        BY <4>1, <4>2
    <3>2. Pending' \subseteq Pending
      BY <1>1, <1>4, <3>1 DEF Pending, Judged, Only
    <3>3. Cardinality(Pending') <= Cardinality(Pending)
      BY <1>2, <3>2, PendingFinite, FS_Subset
    <3> QED
      BY <1>2, <1>4, <3>3, PendingFinite DEF Room
  <2> QED
    BY <2>1, <2>2
<1>5. CASE Judged(t) /\ gen' = gen /\ \E a : attempts' = Append(attempts, a)
  <2>1. Len(attempts') = Len(attempts) + 1
    BY <1>1, <1>5 DEF SessionTypeOK
  <2>2. ~Judged(t)'
    BY <1>1, <1>5 DEF Arrives, ReadAttempts, Judged
  <2>3. Pending' \subseteq Pending \ {t} /\ t \in Pending
    BY <1>1, <1>5, <2>2 DEF Pending, Judged, Only
  <2>4. Cardinality(Pending \ {t}) = Cardinality(Pending) - 1
    BY <1>2, <2>3, PendingFinite, FS_RemoveElement
  <2>5. Cardinality(Pending') <= Cardinality(Pending \ {t})
    BY <1>2, <2>3, PendingFinite, FS_Subset
  <2> QED
    BY <1>2, <2>1, <2>4, <2>5, PendingFinite DEF Room
<1> QED
  BY <1>1, <1>3, <1>4, <1>5 DEF AttemptsMove

\* However many calls submit SQL texts at once, a contract generation receives
\* at most one text per call beyond the limit of submit_sql_candidate, less one.
THEOREM SubmissionsStayBounded == Spec => []SubmissionsBounded
<1>1. Init => Room
  <2> SUFFICES ASSUME Init PROVE Room
    OBVIOUS
  <2>1. Pending = {} /\ Len(attempts) = 0
    BY DEF Init, Pending, Judged
  <2> QED
    BY <2>1, PendingFinite, FS_EmptySet, QuerySessionConstants DEF Room
<1>2. Inv /\ Room /\ [Next]_vars => Room'
  <2> SUFFICES ASSUME Inv, Room, [Next]_vars PROVE Room'
    OBVIOUS
  <2>1. CASE Next
    BY <2>1, RoomStep DEF Next
  <2>2. CASE UNCHANGED vars
    BY <2>2 DEF vars, session, scopeVars, sqlVars, locals, Room, Pending, Judged
  <2> QED
    BY <2>1, <2>2
<1>3. Inv /\ Room => SubmissionsBounded
  <2> SUFFICES ASSUME Inv, Room PROVE SubmissionsBounded
    OBVIOUS
  <2>1. Cardinality(Pending) \in Nat /\ Cardinality(Calls) \in Nat
        /\ Len(attempts) \in Nat /\ MaxSubmissions \in Nat
    BY PendingFinite, QuerySessionConstants DEF Pending, Inv, TypeOK, SessionTypeOK
  <2> QED
    BY <2>1 DEF Room, SubmissionsBounded
<1> QED
  BY <1>1, <1>2, <1>3, InvHolds, PTL DEF Spec

-------------------------------------------------------------------------------
(* Rows are spent once *)

Spent(e) == \E i \in DOMAIN ledger : ledger[i].rows = e

\* results on their way from Doris are new to the session and to each other
Fresh ==
    \A t \in Calls : pc[t] = "doris" =>
        /\ ~Spent(saw[t]) /\ saw[t] # auth
        /\ \A u \in Calls \ {t} : pc[u] = "doris" => saw[u] # saw[t]

\* What a passing verification does to the ledger.
LEMMA RecordedLedger ==
    ASSUME Inv, NEW t \in Calls, EvidencePassed(t)
    PROVE  \/ /\ ledger' = ledger
              /\ \E i \in DOMAIN ledger : ledger[i].gen = gen
           \/ /\ DOMAIN ledger' = 1..(Len(ledger) + 1) /\ Len(ledger') = Len(ledger) + 1
              /\ \A i \in DOMAIN ledger : ledger'[i] = ledger[i]
              /\ ledger'[Len(ledger) + 1].rows = auth
              /\ ledger'[Len(ledger) + 1].gen = gen
              /\ ledger'[Len(ledger) + 1].contract = contract
              /\ ledger'[Len(ledger) + 1].exe = saw[t]
<1> DEFINE a == NewArtifact(t)
<1>1. pc[t] = "evidence" /\ at[t] = gen /\ auth # 0 /\ ledger' = Recorded(t)
  BY DEF EvidencePassed
<1>2. a \in Artifacts /\ a.gen = gen /\ a.rows = auth
  BY <1>1, NewArtifactOfContract
<1>7. a.contract = contract /\ a.exe = saw[t]
  BY DEF NewArtifact
<1>3. ledger \in Seq(Artifacts)
  BY DEF Inv, TypeOK, SessionTypeOK
<1>4. \/ ledger' = ledger /\ \E i \in DOMAIN ledger : SameArtifact(ledger[i], a)
      \/ ledger' = Append(ledger, a)
  BY <1>1 DEF Recorded
<1> HIDE DEF a
<1>5. CASE ledger' = ledger /\ \E i \in DOMAIN ledger : SameArtifact(ledger[i], a)
  BY <1>2, <1>5 DEF SameArtifact
<1>6. CASE ledger' = Append(ledger, a)
  BY <1>2, <1>3, <1>6, <1>7
<1> QED
  BY <1>4, <1>5, <1>6

\* A ledger whose rows stay, and an authority that is kept or cleared, disturb
\* nothing unless a new result arrives.
LEMMA RowsStay ==
    ASSUME Inv, RowsOnce, Fresh, NEW t \in Calls, Only(t), Arrives(t), ~Take(t),
           auth' \in {auth, 0} \/ (pc[t] = "doris" /\ auth' = saw[t]),
           DOMAIN ledger' = DOMAIN ledger,
           \A i \in DOMAIN ledger : ledger'[i].rows = ledger[i].rows
    PROVE  RowsOnce' /\ Fresh'
<1>1. pc'[t] # "doris"
  BY DEF Arrives
<1>2. \A e : Spent(e)' <=> Spent(e)
  BY DEF Spent
<1>3. ~Spent(0)
  BY DEF Inv, TypeOK, SessionTypeOK, LedgerOfContract, Spent
<1>4. ~Spent(auth)
  BY DEF RowsOnce, Spent
<1>5. ~Spent(auth')
  BY <1>3, <1>4 DEF Fresh
<1>6. RowsOnce'
  <2>1. \A i \in DOMAIN ledger' : ledger'[i].rows # auth'
    BY <1>5 DEF Spent
  <2>2. \A i, j \in DOMAIN ledger' : ledger'[i].rows = ledger'[j].rows => i = j
    BY DEF RowsOnce
  <2> QED
    BY <2>1, <2>2 DEF RowsOnce
<1>7. ASSUME NEW u \in Calls, pc'[u] = "doris"
      PROVE  /\ ~Spent(saw[u])' /\ saw'[u] # auth'
             /\ \A v \in Calls \ {u} : pc'[v] = "doris" => saw'[v] # saw'[u]
  <2>1. u # t /\ pc[u] = "doris" /\ saw'[u] = saw[u]
    BY <1>1, <1>7 DEF Only
  <2>2. saw[u] # 0
    BY <2>1 DEF Inv, Thread, Of, TypeOK, SessionTypeOK
  <2>3. ~Spent(saw[u])'
    BY <2>1 DEF Fresh, Spent
  <2>4. saw'[u] # auth'
    BY <2>1, <2>2 DEF Fresh
  <2>5. \A v \in Calls \ {u} : pc'[v] = "doris" => saw'[v] # saw'[u]
    BY <1>1, <2>1 DEF Only, Fresh
  <2> QED
    BY <2>3, <2>4, <2>5
<1> QED
  BY <1>6, <1>7 DEF Fresh

\* Rows stay spent, and results from Doris stay fresh.
LEMMA RowsStep ==
    ASSUME Inv, RowsOnce, Fresh, NEW t \in Calls, Prepare(t) \/ Step(t)
    PROVE  RowsOnce' /\ Fresh'
<1>1. Only(t) /\ Arrives(t) /\ Changes(t)
  BY Arrivals, SessionChanges
<1>2. CASE Take(t)
  <2>1. ledger' = ledger /\ auth' = auth /\ saw' = [saw EXCEPT ![t] = Len(ran) + 1]
    BY <1>2 DEF Take, deepVars
  <2>2. DOMAIN ran = 1..Len(ran) /\ Len(ran) \in Nat /\ saw'[t] = Len(ran) + 1
        /\ Len(ran) + 1 \notin DOMAIN ran
    <3>1. ran \in Seq(Statements) /\ saw \in [Calls -> Nat]
      BY DEF Inv, TypeOK, SessionTypeOK, LocalTypeOK
    <3>2. DOMAIN ran = 1..Len(ran) /\ Len(ran) \in Nat
      BY <3>1
    <3>3. Len(ran) + 1 \notin DOMAIN ran
      BY <3>2
    <3> QED
      BY <2>1, <3>1, <3>2, <3>3
  <2>3. ~Spent(Len(ran) + 1)
    BY <2>2 DEF Inv, LedgerOfContract, Spent
  <2>4. auth # Len(ran) + 1
    BY <2>2 DEF Inv, Pointers, Of
  <2>5. \A u \in Calls \ {t} : pc'[u] = "doris" =>
            pc[u] = "doris" /\ saw'[u] = saw[u] /\ saw[u] # Len(ran) + 1
    BY <1>1, <2>2 DEF Only, Inv, Thread, Of
  <2>6. RowsOnce'
    BY <2>1 DEF RowsOnce
  <2>7. ASSUME NEW u \in Calls, pc'[u] = "doris"
        PROVE  /\ ~Spent(saw[u])' /\ saw'[u] # auth'
               /\ \A v \in Calls \ {u} : pc'[v] = "doris" => saw'[v] # saw'[u]
    <3>1. CASE u = t
      BY <2>1, <2>2, <2>3, <2>4, <2>5, <3>1 DEF Spent
    <3>2. CASE u # t
      BY <2>1, <2>2, <2>5, <2>7, <3>2 DEF Fresh, Spent
    <3> QED
      BY <3>1, <3>2
  <2> QED
    BY <2>6, <2>7 DEF Fresh
<1>3. CASE EvidencePassed(t)
  <2>1. auth' = 0 /\ auth # 0 /\ pc[t] = "evidence"
    BY <1>3 DEF EvidencePassed
  <2>2. ~Take(t)
    BY <2>1 DEF Take
  <2>3. CASE ledger' = ledger
    BY <1>1, <2>1, <2>2, <2>3, RowsStay
  <2>4. CASE /\ DOMAIN ledger' = 1..(Len(ledger) + 1) /\ Len(ledger') = Len(ledger) + 1
             /\ \A i \in DOMAIN ledger : ledger'[i] = ledger[i]
             /\ ledger'[Len(ledger) + 1].rows = auth
    <3>1. DOMAIN ledger = 1..Len(ledger) /\ Len(ledger) \in Nat
      BY DEF Inv, TypeOK, SessionTypeOK
    <3>2. \A e : Spent(e)' <=> Spent(e) \/ e = auth
      BY <2>4, <3>1 DEF Spent
    <3>3. ~Spent(0) /\ ~Spent(auth)
      BY DEF Inv, TypeOK, SessionTypeOK, LedgerOfContract, RowsOnce, Spent
    <3>4. RowsOnce'
      <4>1. \A i \in DOMAIN ledger' : ledger'[i].rows # auth'
        BY <2>1, <2>4, <3>1, <3>3 DEF Spent
      <4>2. \A i, j \in DOMAIN ledger' : ledger'[i].rows = ledger'[j].rows => i = j
        BY <2>4, <3>1, <3>3 DEF RowsOnce, Spent
      <4> QED
        BY <4>1, <4>2 DEF RowsOnce
    <3>5. ASSUME NEW u \in Calls, pc'[u] = "doris"
          PROVE  /\ ~Spent(saw[u])' /\ saw'[u] # auth'
                 /\ \A v \in Calls \ {u} : pc'[v] = "doris" => saw'[v] # saw'[u]
      <4>1. \A v \in Calls : pc'[v] = "doris" =>
                v # t /\ pc[v] = "doris" /\ saw'[v] = saw[v]
        BY <1>1, <2>2 DEF Arrives, Only
      <4>2. saw[u] # 0 /\ ~Spent(saw[u]) /\ saw[u] # auth
        BY <3>5, <4>1 DEF Inv, Thread, Of, TypeOK, SessionTypeOK, Fresh
      <4>3. ~Spent(saw[u])'
        BY <2>4, <3>1, <3>5, <4>1, <4>2 DEF Spent
      <4> QED
        BY <2>1, <3>5, <4>1, <4>2, <4>3 DEF Fresh
    <3> QED
      BY <3>4, <3>5 DEF Fresh
  <2> QED
    BY <1>3, <2>3, <2>4, RecordedLedger
<1>4. CASE ~Take(t) /\ ~EvidencePassed(t)
  <2>1. DOMAIN ledger' = DOMAIN ledger
        /\ \A i \in DOMAIN ledger : ledger'[i].rows = ledger[i].rows
    BY <1>1, <1>4, AttachLedger DEF Changes
  <2> QED
    BY <1>1, <1>4, <2>1, RowsStay DEF Changes, AuthMove
<1> QED
  BY <1>2, <1>3, <1>4

\* The rows of one Doris statement enter the ledger once, and never again become
\* the publication authority, also when several calls verify the same result.
THEOREM RowsSpentOnce == Spec => []RowsOnce
<1>1. Init => RowsOnce /\ Fresh
  BY DEF Init, RowsOnce, Fresh
<1>2. Inv /\ RowsOnce /\ Fresh /\ [Next]_vars => (RowsOnce /\ Fresh)'
  <2> SUFFICES ASSUME Inv, RowsOnce, Fresh, [Next]_vars PROVE RowsOnce' /\ Fresh'
    OBVIOUS
  <2>1. CASE Next
    BY <2>1, RowsStep DEF Next
  <2>2. CASE UNCHANGED vars
    BY <2>2 DEF vars, session, runVars, deepVars, locals, RowsOnce, Fresh, Spent
  <2> QED
    BY <2>1, <2>2
<1> QED
  BY <1>1, <1>2, InvHolds, PTL DEF Spec

-------------------------------------------------------------------------------
(* Reports are not older than the contract of the call *)

\* the ledger is in the order of its generations
Ordered ==
    \A i, j \in DOMAIN ledger : i <= j => ledger[i].gen <= ledger[j].gen

\* a call at its report finds an artifact at the end of the ledger; what it has
\* reported is not older than the contract it prepared
Report(t) ==
    /\ pgen[t] <= gen
    /\ pc[t] = "report" =>
          Len(ledger) \in DOMAIN ledger /\ pgen[t] <= ledger[Len(ledger)].gen
    /\ art[t] # 0 =>
          /\ pc[t] \notin {"idle", "activate"}
          /\ art[t] \in DOMAIN ledger /\ pgen[t] <= ledger[art[t]].gen

ReportInv == Ordered /\ \A t \in Calls : Report(t)

\* how the ledger grows: artifacts keep their place and generation, a new one is
\* of the active generation
LedgerGrows ==
    /\ Len(ledger') \in Nat /\ Len(ledger) <= Len(ledger')
    /\ DOMAIN ledger' = 1..Len(ledger')
    /\ \A i \in DOMAIN ledger : ledger'[i].gen = ledger[i].gen
    /\ \A i \in DOMAIN ledger' : i \in DOMAIN ledger \/ ledger'[i].gen = gen

\* Generations of artifacts are numbers up to the active one.
LEMMA LedgerGens ==
    ASSUME Inv
    PROVE  /\ gen \in Nat /\ Len(ledger) \in Nat /\ DOMAIN ledger = 1..Len(ledger)
           /\ \A i \in DOMAIN ledger : ledger[i].gen \in Nat
<1>1. gen \in Nat /\ ledger \in Seq(Artifacts)
  BY DEF Inv, TypeOK, SessionTypeOK
<1>2. \A i \in DOMAIN ledger : ledger[i] \in Artifacts
  BY <1>1
<1> QED
  BY <1>1, <1>2 DEF Artifacts

\* No step does anything else to the ledger.
LEMMA LedgerStep ==
    ASSUME Inv, NEW t \in Calls, Changes(t)
    PROVE  LedgerGrows
<1>1. CASE EvidencePassed(t)
  BY <1>1, RecordedLedger, LedgerGens DEF LedgerGrows
<1>2. CASE Attach(t)
  BY <1>2, AttachLedger, LedgerGens DEF LedgerGrows
<1>3. CASE ledger' = ledger
  BY <1>3, LedgerGens DEF LedgerGrows
<1> QED
  BY <1>1, <1>2, <1>3 DEF Changes

\* No artifact is of a later generation than the active one.
GensBelow == \A i \in DOMAIN ledger : ledger[i].gen <= gen

\* The order of the ledger is kept.
LEMMA OrderStep ==
    ASSUME Inv, Ordered, GensBelow, NEW t \in Calls, Changes(t)
    PROVE  Ordered' /\ GensBelow' /\ gen' \in Nat /\ gen <= gen'
<1>1. LedgerGrows /\ gen' \in Nat /\ gen <= gen'
  BY LedgerStep, LedgerGens DEF Changes
<1>2. GensBelow'
  BY <1>1, LedgerGens DEF LedgerGrows, GensBelow
<1>3. ASSUME NEW i \in DOMAIN ledger', NEW j \in DOMAIN ledger', i <= j
      PROVE  ledger'[i].gen <= ledger'[j].gen
  <2>1. CASE j \in DOMAIN ledger
    <3>1. i \in DOMAIN ledger
      BY <1>1, <1>3, <2>1, LedgerGens DEF LedgerGrows
    <3> QED
      BY <1>1, <1>3, <2>1, <3>1 DEF LedgerGrows, Ordered
  <2>2. CASE j \notin DOMAIN ledger
    <3>1. ledger'[j].gen = gen
      BY <1>1, <1>3, <2>2 DEF LedgerGrows
    <3>2. ledger'[i].gen <= gen
      BY <1>1, <1>3, LedgerGens DEF LedgerGrows, GensBelow
    <3> QED
      BY <3>1, <3>2
  <2> QED
    BY <2>1, <2>2
<1> QED
  BY <1>1, <1>2, <1>3 DEF Ordered

\* A call that does not move keeps its report.
LEMMA ReportStays ==
    ASSUME Inv, Ordered, GensBelow, NEW t \in Calls, Changes(t),
           NEW u \in Calls, Report(u), pc'[u] = "report" => pc[u] = "report",
           pc'[u] \in {"idle", "activate"} => pc[u] \in {"idle", "activate"},
           art'[u] = art[u], pgen'[u] = pgen[u]
    PROVE  Report(u)'
<1>1. LedgerGrows /\ gen' \in Nat /\ gen <= gen' /\ Ordered'
  BY LedgerStep, OrderStep
<1>2. pgen[u] \in Nat /\ pgen[u] <= gen /\ pgen[u] <= gen'
  <2>1. pgen[u] \in Nat /\ pgen[u] <= gen
    BY DEF Inv, TypeOK, LocalTypeOK, Report
  <2> QED
    BY <1>1, <2>1, LedgerGens
<1>3. ASSUME pc[u] = "report"
      PROVE  Len(ledger') \in DOMAIN ledger' /\ pgen[u] <= ledger'[Len(ledger')].gen
  <2>1. Len(ledger) \in DOMAIN ledger /\ pgen[u] <= ledger[Len(ledger)].gen
    BY <1>3 DEF Report
  <2>2. Len(ledger') \in Nat
    BY <1>1 DEF LedgerGrows
  <2>3. Len(ledger') \in DOMAIN ledger'
    BY <1>1, <2>1, <2>2, LedgerGens DEF LedgerGrows
  <2>4. CASE Len(ledger') \in DOMAIN ledger
    <3> DEFINE n == Len(ledger')
               m == Len(ledger)
    <3>1. n \in 1..m /\ m <= n /\ m \in Nat
      BY <1>1, <2>4, LedgerGens DEF LedgerGrows
    <3>2. n = m /\ m \in DOMAIN ledger /\ pgen[u] <= ledger[m].gen
      BY <2>1, <3>1
    <3>3. ledger'[m].gen = ledger[m].gen
      BY <1>1, <3>2 DEF LedgerGrows
    <3> QED
      BY <2>3, <3>2, <3>3
  <2>5. CASE Len(ledger') \notin DOMAIN ledger
    BY <1>1, <1>2, <2>3, <2>5 DEF LedgerGrows
  <2> QED
    BY <2>4, <2>5
<1>4. ASSUME art[u] # 0
      PROVE  art[u] \in DOMAIN ledger' /\ pgen[u] <= ledger'[art[u]].gen
  <2>1. art[u] \in DOMAIN ledger /\ pgen[u] <= ledger[art[u]].gen
    BY <1>4 DEF Report
  <2> QED
    BY <1>1, <2>1, LedgerGens DEF LedgerGrows
<1> QED
  BY <1>2, <1>3, <1>4 DEF Report

\* Every step keeps the order of the ledger and the reports.
LEMMA ReportStep ==
    ASSUME Inv, ReportInv, GensBelow, NEW t \in Calls, Prepare(t) \/ Step(t)
    PROVE  (ReportInv /\ GensBelow)'
<1>1. Only(t) /\ Arrives(t) /\ Changes(t)
  BY Arrivals, SessionChanges
<1>2. Ordered' /\ GensBelow' /\ gen' \in Nat /\ gen <= gen'
  BY <1>1, OrderStep DEF ReportInv
<1>3. \A u \in Calls \ {t} : Report(u)'
  BY <1>1, ReportStays DEF ReportInv, Only
<1>4. Report(t) /\ Ordered /\ pgen[t] \in Nat /\ pgen \in [Calls -> Nat]
      /\ pc \in [Calls -> Labels] /\ art \in [Calls -> Nat]
  BY DEF ReportInv, Inv, TypeOK, LocalTypeOK
<1>5. Report(t)'
  <2>1. CASE pgen'[t] # pgen[t]
    <3>1. Activate(t) \/ \E c, s : Resume(t, c, s)
      BY <1>1, <2>1 DEF Arrives
    <3>2. pgen'[t] = gen' /\ pc'[t] \in {"seal", "route"} /\ art'[t] = art[t]
          /\ pc[t] \in {"idle", "activate"}
      <4>1. CASE Activate(t)
        BY <1>4, <4>1 DEF Activate, Goto
      <4>2. CASE \E c, s : Resume(t, c, s)
        <5>1. PICK c, s : Resume(t, c, s)
          BY <4>2
        <5>2. UNCHANGED session /\ pgen' = [pgen EXCEPT ![t] = gen]
              /\ pc' = [pc EXCEPT ![t] = "route"] /\ art' = art /\ pc[t] = "idle"
          BY <5>1 DEF Resume, Request, Goto
        <5> QED
          BY <1>4, <5>2 DEF session, scopeVars
      <4> QED
        BY <3>1, <4>1, <4>2
    <3> QED
      BY <1>2, <1>4, <3>2 DEF Report
  <2>2. CASE Latest(t)
    <3>1. art'[t] = Len(ledger) /\ pc'[t] = "attach" /\ pgen'[t] = pgen[t]
          /\ UNCHANGED session /\ pc[t] = "report"
      BY <1>4, <2>2 DEF Latest, Goto
    <3>2. ledger' = ledger /\ gen' = gen
      BY <3>1 DEF session, deepVars, scopeVars
    <3> QED
      BY <1>4, <3>1, <3>2 DEF Report
  <2>3. CASE EvidencePassed(t)
    <3>1. pc'[t] = "report" /\ pgen'[t] = pgen[t] /\ art'[t] = art[t] /\ gen' = gen
          /\ pc[t] = "evidence"
      BY <1>4, <2>3 DEF EvidencePassed, Goto, locals, scopeVars
    <3>2. Len(ledger') \in DOMAIN ledger' /\ ledger'[Len(ledger')].gen = gen
      <4>1. CASE ledger' = ledger /\ \E i \in DOMAIN ledger : ledger[i].gen = gen
        <5>1. PICK i \in DOMAIN ledger : ledger[i].gen = gen
          BY <4>1
        <5>2. Len(ledger) \in DOMAIN ledger /\ i <= Len(ledger)
          BY <5>1, LedgerGens
        <5>3. gen <= ledger[Len(ledger)].gen /\ ledger[Len(ledger)].gen <= gen
          BY <1>4, <5>1, <5>2 DEF Ordered, GensBelow
        <5> QED
          BY <4>1, <5>2, <5>3, LedgerGens
      <4>2. CASE /\ DOMAIN ledger' = 1..(Len(ledger) + 1) /\ Len(ledger') = Len(ledger) + 1
                 /\ ledger'[Len(ledger) + 1].gen = gen
        BY <4>2, LedgerGens
      <4> QED
        BY <2>3, <4>1, <4>2, RecordedLedger
    <3>3. art[t] # 0 => art[t] \in DOMAIN ledger' /\ pgen[t] <= ledger'[art[t]].gen
      BY <1>1, <1>4, <3>2, LedgerStep, LedgerGens DEF LedgerGrows, Report
    <3> QED
      BY <1>4, <3>1, <3>2, <3>3 DEF Report
  <2>4. CASE pgen'[t] = pgen[t] /\ ~Latest(t) /\ ~EvidencePassed(t)
    <3>1. pc'[t] # "report" /\ art'[t] = art[t]
      BY <1>1, <2>4 DEF Arrives
    <3>2. pc'[t] \in {"idle", "activate"} => pc[t] \in {"idle", "activate"}
      BY <1>1 DEF Arrives
    <3> QED
      BY <1>1, <1>4, <2>4, <3>1, <3>2, ReportStays
  <2> QED
    BY <2>1, <2>2, <2>3, <2>4
<1> QED
  BY <1>2, <1>3, <1>5 DEF ReportInv

\* What a call reports was recorded for a contract at least as recent as the one
\* it prepared, although it takes whatever is last in the ledger.
THEOREM ReportsNotOlder == Spec => []ReportNotOlder
<1>1. Init => ReportInv /\ GensBelow
  BY DEF Init, ReportInv, GensBelow, Ordered, Report
<1>2. Inv /\ ReportInv /\ GensBelow /\ [Next]_vars => (ReportInv /\ GensBelow)'
  <2> SUFFICES ASSUME Inv, ReportInv, GensBelow, [Next]_vars
               PROVE  (ReportInv /\ GensBelow)'
    OBVIOUS
  <2>1. CASE Next
    BY <2>1, ReportStep DEF Next
  <2>2. CASE UNCHANGED vars
    BY <2>2 DEF vars, session, scopeVars, deepVars, locals, ReportInv, GensBelow,
                Ordered, Report
  <2> QED
    BY <2>1, <2>2
<1>3. Inv /\ ReportInv => ReportNotOlder
  BY LedgerGens DEF ReportInv, Report, ReportNotOlder, Inv, TypeOK, LocalTypeOK
<1> QED
  BY <1>1, <1>2, <1>3, InvHolds, PTL DEF Spec

-------------------------------------------------------------------------------
(***************************************************************************)
(* What the overlap of calls costs.  A call that answers VERIFIED may      *)
(* report the artifact of another contract, and an artifact the rows of    *)
(* another execution.  Both need two calls at a time.                      *)
(***************************************************************************)

Active(t) == pc[t] \notin {"idle", "done"}

\* Core sends its query_data calls one after the other
OneAtATime == \A t, u \in Calls : Active(t) /\ Active(u) => t = u

\* A call that answers VERIFIED reports an artifact of the contract it prepared,
\* with the rows its evidence was verified on.
AnswersOwn ==
    \A t \in Calls : outcome[t] = "VERIFIED" =>
        LET a == ledger[art[t]]
        IN  a.gen = pgen[t] /\ a.contract = want[t] /\ a.exe = a.rows

\* the ledger has one contract for the active generation, and no foreign rows
Pure ==
    \A i \in DOMAIN ledger :
        /\ ledger[i].exe = ledger[i].rows
        /\ ledger[i].gen = gen => ledger[i].contract = contract

\* the artifact a call reports is its own
ReportsOwn(t) ==
    /\ art[t] \in DOMAIN ledger
    /\ ledger[art[t]].gen = pgen[t] /\ ledger[art[t]].contract = want[t]

\* a call that runs alone finds the session as it left it
Own(t) ==
    /\ pc[t] \notin {"idle", "activate", "done"} => gen = pgen[t] /\ contract = want[t]
    /\ pc[t] = "evidence" => saw[t] = auth
    /\ pc[t] = "attach" \/ outcome[t] = "VERIFIED" => ReportsOwn(t)
    /\ pc[t] # "done" => outcome[t] = "none"

OwnInv == Pure /\ \A t \in Calls : Own(t)

\* Artifacts keep their place, and all but their goals.
LEMMA LedgerKept ==
    ASSUME Inv, NEW t \in Calls, Changes(t)
    PROVE  \A i \in DOMAIN ledger :
              /\ i \in DOMAIN ledger'
              /\ ledger'[i].gen = ledger[i].gen
              /\ ledger'[i].contract = ledger[i].contract
              /\ ledger'[i].exe = ledger[i].exe
              /\ ledger'[i].rows = ledger[i].rows
<1>1. CASE EvidencePassed(t)
  BY <1>1, RecordedLedger, LedgerGens
<1>2. CASE Attach(t)
  BY <1>2, AttachLedger
<1>3. CASE ledger' = ledger
  BY <1>3
<1> QED
  BY <1>1, <1>2, <1>3 DEF Changes

\* The ledger stays pure when the call that records an artifact is the one that
\* brought its rows.
LEMMA PureStep ==
    ASSUME Inv, GensBelow, Pure, NEW t \in Calls, Own(t), Changes(t)
    PROVE  Pure'
<1>1. CASE EvidencePassed(t)
  <2>1. saw[t] = auth /\ UNCHANGED scopeVars
    BY <1>1 DEF EvidencePassed, Own
  <2> QED
    BY <1>1, <2>1, RecordedLedger, LedgerGens DEF Pure, scopeVars
<1>2. CASE ~EvidencePassed(t)
  <2>1. DOMAIN ledger' = DOMAIN ledger
    BY <1>2, AttachLedger DEF Changes
  <2>2. CASE UNCHANGED scopeVars
    BY <2>1, <2>2, LedgerKept DEF Pure, scopeVars
  <2>3. CASE Activated(want[t])
    <3>1. gen' = gen + 1 /\ gen \in Nat
      BY <2>3, LedgerGens DEF Activated
    <3>2. \A i \in DOMAIN ledger : ledger'[i].gen # gen'
      BY <3>1, LedgerKept, LedgerGens DEF GensBelow
    <3> QED
      BY <2>1, <3>2, LedgerKept DEF Pure
  <2> QED
    BY <2>2, <2>3 DEF Changes, Activate, scopeVars
<1> QED
  BY <1>1, <1>2

\* A call that does not move keeps what is its own: if it is under way, the one
\* that moves is not.
LEMMA OwnStays ==
    ASSUME Inv, OneAtATime, NEW t \in Calls, NEW u \in Calls \ {t}, Own(u),
           Only(t), Arrives(t), Changes(t)
    PROVE  Own(u)'
<1>1. /\ pc'[u] = pc[u] /\ outcome'[u] = outcome[u] /\ saw'[u] = saw[u]
      /\ pgen'[u] = pgen[u] /\ want'[u] = want[u] /\ art'[u] = art[u]
  BY DEF Only
<1>2. ReportsOwn(u) => ReportsOwn(u)'
  BY <1>1, LedgerKept DEF ReportsOwn
<1>3. CASE Active(u)
  <2>1. pc[t] = "idle"
    BY <1>3 DEF OneAtATime, Active, Arrives
  <2>2. gen' = gen /\ contract' = contract /\ auth' = auth
    BY <2>1 DEF Changes, session, scopeVars, runVars
  <2> QED
    BY <1>1, <1>2, <2>2 DEF Own
<1>4. CASE ~Active(u)
  BY <1>1, <1>2, <1>4 DEF Own, Active
<1> QED
  BY <1>3, <1>4

\* The call that moves keeps its contract, its result and its artifact.
LEMMA OwnMoves ==
    ASSUME Inv, ReportInv, GensBelow, OwnInv, NEW t \in Calls, Prepare(t) \/ Step(t)
    PROVE  Own(t)'
<1>1. Only(t) /\ Arrives(t) /\ Changes(t) /\ Own(t)
  BY Arrivals, SessionChanges DEF OwnInv
<1>2. /\ pgen \in [Calls -> Nat] /\ want \in [Calls -> Contracts \cup {None}]
      /\ saw \in [Calls -> Nat] /\ art \in [Calls -> Nat]
      /\ pc \in [Calls -> Labels]
  BY DEF Inv, TypeOK, LocalTypeOK
<1>3. pc'[t] \notin {"idle", "activate", "done"} => gen' = pgen'[t] /\ contract' = want'[t]
  <2>1. CASE Activate(t)
    BY <1>2, <2>1 DEF Activate, Activated, scopeVars
  <2>2. ASSUME NEW c, NEW s, Resume(t, c, s)
        PROVE  gen' = pgen'[t] /\ contract' = want'[t]
    <3>1. /\ want' = [want EXCEPT ![t] = c] /\ pgen' = [pgen EXCEPT ![t] = gen]
          /\ contract = c /\ UNCHANGED session
      BY <2>2 DEF Resume, Request
    <3> QED
      BY <1>2, <3>1 DEF session, scopeVars
  <2>3. CASE ~Activate(t) /\ ~\E c, s : Resume(t, c, s)
    <3>1. pgen'[t] = pgen[t] /\ gen' = gen /\ contract' = contract
      BY <1>1, <2>3 DEF Arrives, Changes, scopeVars
    <3>2. ASSUME pc'[t] \notin {"idle", "activate", "done"}
          PROVE  pc[t] \notin {"idle", "activate", "done"} /\ want'[t] = want[t]
      BY <1>1, <2>3, <3>2 DEF Arrives
    <3> QED
      BY <1>1, <3>1, <3>2 DEF Own
  <2> QED
    BY <2>1, <2>2, <2>3
<1>4. pc'[t] = "evidence" => saw'[t] = auth'
  BY <1>1, <1>2 DEF Arrives, Verify, session, runVars
<1>5. pc'[t] = "attach" => ReportsOwn(t)'
  <2> SUFFICES ASSUME Latest(t) PROVE ReportsOwn(t)'
    BY <1>1 DEF Arrives
  <2>1. /\ pc[t] = "report" /\ art'[t] = Len(ledger) /\ ledger' = ledger
        /\ pgen' = pgen /\ want' = want
    BY <1>2 DEF Latest, session, deepVars
  <2>2. Len(ledger) \in DOMAIN ledger /\ pgen[t] <= ledger[Len(ledger)].gen
    BY <2>1 DEF ReportInv, Report
  <2>3. gen = pgen[t] /\ contract = want[t]
    BY <1>1, <2>1 DEF Own
  <2>4. ledger[Len(ledger)].gen = gen
    BY <2>2, <2>3, LedgerGens DEF GensBelow
  <2> QED
    BY <2>1, <2>2, <2>3, <2>4 DEF ReportsOwn, OwnInv, Pure
<1>6. outcome'[t] = "VERIFIED" => ReportsOwn(t)'
  <2>1. outcome[t] = "none"
    BY <1>1 DEF Own, Arrives
  <2> SUFFICES ASSUME Attach(t) PROVE ReportsOwn(t)'
    BY <1>1, <2>1 DEF Arrives
  <2>2. ReportsOwn(t) /\ UNCHANGED <<want, pgen, art>>
    BY <1>1 DEF Attach, Return, Own
  <2> QED
    BY <1>1, <2>2, LedgerKept DEF ReportsOwn
<1>7. pc'[t] # "done" => outcome'[t] = "none"
  BY <1>1 DEF Own, Arrives
<1> QED
  BY <1>3, <1>4, <1>5, <1>6, <1>7 DEF Own

\* If Core sends its query_data calls one after the other, each VERIFIED answer is
\* an artifact of the call's own contract with the rows that were verified: what
\* execute_query_contract, verify_active and latest_verified_query_artifact leave
\* unchecked can only go wrong between two calls.
THEOREM SerialCallsAnswerOwn == Spec /\ []OneAtATime => []AnswersOwn
<1>1. Init => ReportInv /\ GensBelow /\ OwnInv
  <2> SUFFICES ASSUME Init PROVE ReportInv /\ GensBelow /\ OwnInv
    OBVIOUS
  <2>1. ReportInv /\ GensBelow
    BY DEF Init, ReportInv, GensBelow, Ordered, Report
  <2>2. OwnInv
    BY DEF Init, OwnInv, Pure, Own
  <2> QED
    BY <2>1, <2>2
<1>2. Inv /\ ReportInv /\ GensBelow /\ OwnInv /\ OneAtATime /\ [Next]_vars
         => (ReportInv /\ GensBelow /\ OwnInv)'
  <2> SUFFICES ASSUME Inv, ReportInv, GensBelow, OwnInv, OneAtATime, [Next]_vars
               PROVE  (ReportInv /\ GensBelow)' /\ OwnInv'
    OBVIOUS
  <2>1. CASE Next
    <3>1. PICK t \in Calls : Prepare(t) \/ Step(t)
      BY <2>1 DEF Next
    <3>2. Only(t) /\ Arrives(t) /\ Changes(t) /\ Own(t) /\ Pure
      BY <3>1, Arrivals, SessionChanges DEF OwnInv
    <3>3. Pure'
      BY <3>2, PureStep
    <3>4. \A u \in Calls \ {t} : Own(u)'
      BY <3>2, OwnStays DEF OwnInv
    <3>5. Own(t)'
      BY <3>1, OwnMoves
    <3> QED
      BY <3>1, <3>3, <3>4, <3>5, ReportStep DEF OwnInv
  <2>2. CASE UNCHANGED vars
    <3>1. (ReportInv /\ GensBelow)'
      BY <2>2 DEF vars, session, scopeVars, deepVars, locals, ReportInv, GensBelow,
                  Ordered, Report
    <3>2. OwnInv'
      BY <2>2 DEF vars, session, scopeVars, runVars, deepVars, locals, OwnInv, Pure, Own,
                  ReportsOwn
    <3> QED
      BY <3>1, <3>2
  <2> QED
    BY <2>1, <2>2
<1>3. OwnInv => AnswersOwn
  BY DEF OwnInv, Pure, Own, ReportsOwn, AnswersOwn
<1> QED
  BY <1>1, <1>2, <1>3, InvHolds, PTL DEF Spec

-------------------------------------------------------------------------------
(* Every call comes nearer to its end *)

\* the order of the places of a call without repairs
Rank(p) ==
    IF p = "idle" THEN 18
    ELSE IF p = "activate" THEN 17
    ELSE IF p = "seal" THEN 16
    ELSE IF p = "route" THEN 15
    ELSE IF p = "submit" THEN 14
    ELSE IF p = "validate" THEN 13
    ELSE IF p = "reserve" THEN 12
    ELSE IF p = "check" THEN 11
    ELSE IF p = "take" THEN 10
    ELSE IF p = "doris" THEN 9
    ELSE IF p = "verify" THEN 8
    ELSE IF p = "evidence" THEN 7
    ELSE IF p = "report" THEN 6
    ELSE IF p = "attach" THEN 5
    ELSE IF p \in {"error", "denied", "broken"} THEN 4
    ELSE IF p = "repair" THEN 1
    ELSE 0

\* a bound on the steps the call has left: each repair starts at submit again
StepsLeft(t) ==
    IF pc[t] = "done" THEN 0 ELSE Rank(pc[t]) + 18 * (MaxRepairs - repairs[t])

\* Every step, whatever the other calls did to the session, brings the call that
\* takes it nearer to its end and no other call further from it.
CallsAdvance ==
    \E t \in Calls : /\ StepsLeft(t)' < StepsLeft(t)
                     /\ \A u \in Calls \ {t} : StepsLeft(u)' = StepsLeft(u)

\* Ranks are small, and positive before the end.
LEMMA RankRange ==
    /\ \A p : Rank(p) \in 0..18
    /\ \A p \in Labels : p # "done" => Rank(p) > 0
BY DEF Rank, Labels

\* A call that returns has no step left.
LEMMA ReturnFalls ==
    ASSUME TypeOK, NEW t \in Calls, NEW o, Return(t, o), pc[t] # "done"
    PROVE  StepsLeft(t)' < StepsLeft(t)
<1>1. pc'[t] = "done" /\ repairs[t] \in 0..MaxRepairs /\ pc[t] \in Labels
  BY DEF TypeOK, LocalTypeOK, Return
<1>2. StepsLeft(t)' = 0
  BY <1>1 DEF StepsLeft
<1>3. Rank(pc[t]) \in 1..18 /\ MaxRepairs - repairs[t] \in Nat
  BY <1>1, RankRange, QuerySessionConstants
<1> QED
  BY <1>2, <1>3 DEF StepsLeft

\* A call that moves to a place of a lower rank has fewer steps left.
LEMMA GotoFalls ==
    ASSUME TypeOK, NEW t \in Calls, NEW label, Goto(t, label), repairs' = repairs,
           label # "done", pc[t] # "done", Rank(label) < Rank(pc[t])
    PROVE  StepsLeft(t)' < StepsLeft(t)
<1>1. pc'[t] = label /\ repairs[t] \in 0..MaxRepairs
  BY DEF TypeOK, LocalTypeOK, Goto
<1> QED
  BY <1>1, RankRange, QuerySessionConstants DEF StepsLeft

\* Each step of a call lowers what it has left.
LEMMA StepFalls ==
    ASSUME Inv, NEW t \in Calls, Prepare(t) \/ Step(t)
    PROVE  StepsLeft(t)' < StepsLeft(t)
<1> USE DEF Rank
<1>0. TypeOK
  BY DEF Inv
<1>1. CASE \E c, s : Propose(t, c, s) \/ Resume(t, c, s)
  BY <1>0, <1>1, GotoFalls DEF Propose, Resume, Request
<1>2. CASE ProposeBlocked(t) \/ NotActivated(t) \/ SealRaises(t)
  BY <1>0, <1>2, ReturnFalls DEF ProposeBlocked, NotActivated, SealRaises
<1>3. CASE Activate(t) \/ AssignGoals(t)
  BY <1>0, <1>3, GotoFalls DEF Activate, AssignGoals, locals
<1>4. CASE Route(t)
  BY <1>0, <1>4, GotoFalls, ReturnFalls DEF Route, locals
<1>5. CASE SubmitRefused(t) \/ SubmitDiscarded(t) \/ Exhaust(t) \/ SubmitBroken(t)
           \/ RepairGivenUp(t)
  BY <1>0, <1>5, ReturnFalls DEF SubmitRefused, SubmitDiscarded, Exhaust, SubmitBroken,
                                 RepairGivenUp, Judged
<1>6. CASE ReadAttempts(t) \/ SubmitReused(t) \/ SubmitAccepted(t)
  BY <1>0, <1>6, GotoFalls DEF ReadAttempts, SubmitReused, SubmitAccepted, Judged, locals
<1>7. CASE SubmitNoProgress(t) \/ SubmitRejected(t)
  <2>1. PICK gap : AfterGap(t, gap) /\ pc[t] = "validate"
    BY <1>7 DEF SubmitNoProgress, SubmitRejected, Judged
  <2> QED
    BY <1>0, <2>1, GotoFalls, ReturnFalls DEF AfterGap, locals
<1>8. CASE Repair(t)
  <2>1. /\ pc[t] = "repair" /\ pc'[t] = "submit" /\ repairs[t] \in 0..MaxRepairs
        /\ repairs'[t] = repairs[t] + 1
    BY <1>0, <1>8 DEF Repair, Goto, TypeOK, LocalTypeOK
  <2> QED
    BY <2>1, QuerySessionConstants DEF StepsLeft
<1>9. CASE ReserveDenied(t) \/ CheckRaises(t) \/ TakeRaises(t) \/ ResultDiscarded(t)
           \/ Breaks(t) \/ Terminal(t)
  BY <1>0, <1>9, ReturnFalls DEF ReserveDenied, CheckRaises, TakeRaises, ResultDiscarded,
                                 Breaks, Terminal
<1>10. CASE Reserve(t) \/ Check(t) \/ Take(t) \/ Executed(t)
  BY <1>0, <1>10, GotoFalls DEF Reserve, Check, Take, Executed, locals
<1>11. CASE \E fault \in {"error", "denied", "broken"} : ExecutedWithError(t, fault)
  BY <1>0, <1>11, GotoFalls DEF ExecutedWithError, locals
<1>12. CASE Review(t)
  BY <1>0, <1>12, GotoFalls, ReturnFalls DEF Review, locals
<1>13. CASE VerifyRaises(t) \/ EvidenceDiscarded(t) \/ EvidenceGapped(t) \/ Attach(t)
  BY <1>0, <1>13, ReturnFalls DEF VerifyRaises, EvidenceDiscarded, EvidenceGapped, Attach
<1>14. CASE Verify(t) \/ EvidencePassed(t) \/ Latest(t)
  BY <1>0, <1>14, GotoFalls DEF Verify, EvidencePassed, Latest, locals
<1> QED
  BY <1>1, <1>2, <1>3, <1>4, <1>5, <1>6, <1>7, <1>8, <1>9, <1>10, <1>11, <1>12, <1>13, <1>14
     DEF Prepare, Step, Submit, Execute, Evidence

\* Why query_data returns, for any number of calls and repairs: a call repairs at
\* most max_internal_repairs times, and no call sends another one back.  So a
\* call ends after at most 18 * (MaxRepairs + 1) steps of its own.
THEOREM CallsComeNearer == Spec => [][CallsAdvance]_vars
<1>1. Inv /\ [Next]_vars => [CallsAdvance]_vars
  <2> SUFFICES ASSUME Inv, Next PROVE CallsAdvance
    BY DEF CallsAdvance
  <2>1. PICK t \in Calls : Prepare(t) \/ Step(t)
    BY DEF Next
  <2>2. Only(t)
    BY <2>1, Arrivals
  <2>3. \A u \in Calls \ {t} : StepsLeft(u)' = StepsLeft(u)
    BY <2>2 DEF Only, StepsLeft
  <2> QED
    BY <2>1, <2>3, StepFalls DEF CallsAdvance
<1> QED
  BY <1>1, InvHolds, PTL DEF Spec
===============================================================================
