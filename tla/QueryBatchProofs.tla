--------------------------- MODULE QueryBatchProofs ---------------------------
(***************************************************************************)
(* Proofs about QueryBatch for every number of queries, texts and workers  *)
(* and every budget: the ledger of the parent session is sound, and the    *)
(* query_batch call implements VerifiedLedger.                             *)
(***************************************************************************)
EXTENDS QueryBatch, FiniteSetTheorems, TLAPS

\* the execution an artifact of the branch of q was verified with
BranchResult(q, a) == [query |-> q, gen |-> a.gen, sql |-> a.sql, exe |-> a.exe]

\* the branch ledgers hold proved results only ...
BranchLedgersProved ==
    \A q \in Queries : \A a \in br[q].arts : BranchResult(q, a) \in proved

\* ... and one artifact for a generation and a plan
BranchLedgersOnce ==
    \A q \in Queries : \A a, c \in br[q].arts :
        a.gen = c.gen /\ a.sql = c.sql => a = c

\* a registered branch is activated, a compiled branch keeps its plan, and what
\* is reserved, executed and verified is a candidate
Ready ==
    /\ \A q \in reg : br[q].gen > 0
    /\ \A q \in Queries \ CoreSql : br[q].gen > 0 => br[q].cand = Compiled
    /\ \A q \in Queries :
          pc[q] \in {"reserve", "execute", "verify"} => br[q].cand \in Plans

\* the inductive invariant
IInv == TypeOK /\ Ready /\ LedgerSound /\ BranchLedgersProved /\ BranchLedgersOnce

-------------------------------------------------------------------------------
(* What the operations on a branch session preserve *)

LEMMA NewBranchType == NewBranch \in Branches
BY DEF NewBranch, Branches, Plans

LEMMA ClearedType ==
    ASSUME NEW b \in Branches
    PROVE  Cleared(b) \in Branches /\ Cleared(b).arts = b.arts
BY DEF Cleared, Branches, Plans

LEMMA ActivatedType ==
    ASSUME NEW q \in Queries, NEW b \in Branches
    PROVE  Activated(q, b) \in Branches /\ Activated(q, b).arts = b.arts
<1> DEFINE c == Cleared(b)
           untried == [s \in Sqls |-> "new"]
           first == IF q \in CoreSql THEN NoSql ELSE Compiled
           next == c.gen + 1
           d == [c EXCEPT !.gen = next, !.cand = first, !.tried = untried,
                          !.tries = 0, !.exhausted = FALSE, !.executed = {}]
<1>1. c \in Branches /\ c.arts = b.arts
  BY ClearedType
<1>2. untried \in [Sqls -> {"new", "ACCEPTED", "SQL_GAP", "BINDING_GAP"}]
  OBVIOUS
<1>3. first \in Plans \cup {NoSql}
  BY DEF Plans
<1>4. Activated(q, b) = d
  BY DEF Activated
<1> HIDE DEF c, untried, first
<1>n. next \in Nat
  BY <1>1 DEF Branches
<1> HIDE DEF next
<1>5. d \in Branches
  BY <1>1, <1>2, <1>3, <1>n DEF Branches
<1>6. d.arts = c.arts
  BY <1>1 DEF Branches
<1> QED
  BY <1>1, <1>4, <1>5, <1>6

LEMMA ExecutedType ==
    ASSUME NEW b \in Branches
    PROVE  Executed(b) \in Branches /\ Executed(b).arts = b.arts
BY DEF Executed, Branches, Plans

\* one more artifact, proved by the execution the authority stands for
LEMMA WithArtifactType ==
    ASSUME NEW b \in Branches, b.cand \in Plans
    PROVE  /\ WithArtifact(b) \in Branches
           /\ WithArtifact(b).arts \subseteq
                 b.arts \cup {[gen |-> b.gen, sql |-> b.cand,
                               exe |-> b.authority, status |-> "PENDING"]}
           /\ \/ WithArtifact(b).arts = b.arts
              \/ ~\E a \in b.arts : a.gen = b.gen /\ a.sql = b.cand
<1> DEFINE a == [gen |-> b.gen, sql |-> b.cand, exe |-> b.authority,
                 status |-> "PENDING"]
           arts == b.arts \cup {a}
           cand == b.cand
<1>1. a \in BranchArtifacts
  BY DEF Branches, BranchArtifacts
<1>2. arts \in SUBSET BranchArtifacts
  BY <1>1 DEF Branches
<1>3. cand \in Plans \cup {NoSql}
  OBVIOUS
<1>4. WithArtifact(b) = b \/ WithArtifact(b) = [b EXCEPT !.arts = arts,
                                                         !.latest = cand]
  BY DEF WithArtifact
<1>5. WithArtifact(b) = b \/ ~\E x \in b.arts : x.gen = b.gen /\ x.sql = b.cand
  BY DEF WithArtifact
<1> HIDE DEF arts, cand
<1>6. CASE WithArtifact(b) = b
  BY <1>6
<1>7. CASE /\ WithArtifact(b) = [b EXCEPT !.arts = arts, !.latest = cand]
           /\ ~\E x \in b.arts : x.gen = b.gen /\ x.sql = b.cand
  <2> DEFINE d == [b EXCEPT !.arts = arts, !.latest = cand]
  <2>1. d \in Branches /\ d.arts = arts
    BY <1>2, <1>3 DEF Branches
  <2> HIDE DEF d
  <2> QED
    BY <2>1, <1>7 DEF arts, d
<1> QED
  BY <1>4, <1>5, <1>6, <1>7

-------------------------------------------------------------------------------
(* Type correctness *)

LEMMA InitType == Init => TypeOK
<1>1. NewBranch \in Branches
  BY NewBranchType
<1> QED
  BY <1>1, QueryBatchConstants
     DEF Init, TypeOK, Statuses, IdleSnap, ArtifactIds, Artifacts

\* the actions that leave the branch sessions and the parent alone
LEMMA ControlType ==
    ASSUME TypeOK, NEW q \in Queries,
           \/ Start(q) \/ NothingToRun(q) \/ BeginCompiled(q) \/ Close(q)
           \/ Repair(q) \/ ReserveBranchDenied(q) \/ ReserveRunDenied(q)
           \/ ExecuteRaises(q) \/ Terminal(q) \/ SnapshotRaises(q)
           \/ PublishRaises(q) \/ CommitStale(q)
    PROVE  TypeOK'
<1> USE DEF TypeOK, Statuses, parentVars, Settle
<1>1. CASE Start(q)
  BY <1>1 DEF Start
<1>2. CASE NothingToRun(q)
  BY <1>2 DEF NothingToRun
<1>3. CASE BeginCompiled(q)
  BY <1>3 DEF BeginCompiled
<1>4. CASE Close(q)
  BY <1>4 DEF Close
<1>5. CASE Repair(q)
  <2>1. CASE Settle(q, "NEEDS_REASONING") /\ UNCHANGED <<sqlOf, repairs>>
    BY <1>5, <2>1 DEF Repair
  <2>2. CASE \E s \in Sqls \ {sqlOf[q]} :
               /\ sqlOf' = [sqlOf EXCEPT ![q] = s]
               /\ repairs' = [repairs EXCEPT ![q] = @ + 1]
               /\ pc' = [pc EXCEPT ![q] = "attempt"]
               /\ verdict' = [verdict EXCEPT ![q] = "none"]
    <3>1. repairs[q] + 1 \in Nat
      OBVIOUS
    <3>2. repairs' \in [Queries -> Nat]
      BY <2>2, <3>1
    <3>3. /\ sqlOf' \in [Queries -> Sqls \cup {NoSql}]
          /\ pc' = [pc EXCEPT ![q] = "attempt"]
          /\ verdict' = [verdict EXCEPT ![q] = "none"]
      BY <2>2
    <3> QED
      BY <1>5, <3>2, <3>3 DEF Repair
  <2> QED
    BY <1>5, <2>1, <2>2 DEF Repair
<1>6. CASE ReserveBranchDenied(q)
  BY <1>6 DEF ReserveBranchDenied
<1>7. CASE ReserveRunDenied(q)
  BY <1>7 DEF ReserveRunDenied
<1>8. CASE ExecuteRaises(q)
  BY <1>8 DEF ExecuteRaises
<1>9. CASE Terminal(q)
  BY <1>9 DEF Terminal
<1>10. CASE SnapshotRaises(q)
  BY <1>10 DEF SnapshotRaises, AdoptionRaises
<1>11. CASE PublishRaises(q)
  BY <1>11 DEF PublishRaises, AdoptionRaises
<1>12. CASE CommitStale(q)
  BY <1>12 DEF CommitStale, AdoptionRaises
<1> QED
  BY <1>1, <1>2, <1>3, <1>4, <1>5, <1>6, <1>7, <1>8, <1>9, <1>10, <1>11, <1>12

LEMMA CallType ==
    ASSUME TypeOK, NEW B \in SUBSET Queries,
           NEW choice \in [B -> {"reuse", "revise", "gap", "error"}],
           NEW sql \in [B \cap CoreSql -> Sqls \cup {NoSql}],
           Call(B, choice, sql)
    PROVE  /\ TypeOK'
           /\ \A q \in Queries : br'[q].arts = br[q].arts
<1>1. \A q \in Queries : Outcome(q, choice[q]) \in Statuses
  BY DEF Outcome, Statuses
<1>2. ASSUME NEW q \in Queries
      PROVE  /\ PreparedBranch(q, choice[q]) \in Branches
             /\ PreparedBranch(q, choice[q]).arts = br[q].arts
  <2> DEFINE n == br[q].contracts + 1
             b == [br[q] EXCEPT !.contracts = n]
  <2>1. br[q] \in Branches
    BY DEF TypeOK
  <2>2. n \in Nat
    BY <2>1 DEF Branches
  <2> HIDE DEF n
  <2>3. b \in Branches /\ b.arts = br[q].arts
    BY <2>1, <2>2 DEF Branches
  <2>4. Activated(q, b) \in Branches /\ Activated(q, b).arts = b.arts
    BY <2>3, ActivatedType
  <2>5. PreparedBranch(q, choice[q]) \in {br[q], b, Activated(q, b)}
    BY DEF PreparedBranch, n
  <2> QED
    BY <2>1, <2>3, <2>4, <2>5
<1>3. /\ br' \in [Queries -> Branches]
      /\ \A q \in Queries : br'[q].arts = br[q].arts
  BY <1>2 DEF Call, TypeOK
<1>4. ctx' \in [Queries -> Statuses]
  BY <1>1 DEF Call, TypeOK
<1> QED
  BY <1>3, <1>4, QueryBatchConstants DEF Call, TypeOK, parentVars

LEMMA ReturnType ==
    ASSUME TypeOK, Return
    PROVE  TypeOK'
<1>1. \A q \in Queries : StatusOf(verdict[q], ctx[q]) \in Statuses
  BY DEF StatusOf, TypeOK, Statuses
<1>2. ctx' \in [Queries -> Statuses]
  BY <1>1 DEF Return, TypeOK
<1> QED
  BY <1>2 DEF Return, TypeOK, parentVars, IdleSnap

\* submitting a candidate changes the branch, but not its artifacts
LEMMA SubmitType ==
    ASSUME TypeOK, NEW q \in Queries, Submit(q)
    PROVE  TypeOK' /\ \A p \in Queries : br'[p].arts = br[p].arts
<1> DEFINE b == br[q]
           n == b.tries + 1
           s == sqlOf[q]
<1>1. b \in Branches /\ Cleared(b) \in Branches /\ Cleared(b).arts = b.arts
  BY ClearedType DEF TypeOK
<1>2. n \in Nat /\ Cleared(b).tries + 1 = n
  BY <1>1 DEF Branches, Cleared
<1>3. s \in Sqls
  BY DEF TypeOK, Submit
<1>4. ASSUME NEW c \in Branches, c.arts = b.arts, NEW next, NEW v,
             next \in {"reserve", "close"},
             v \in {"none", "repair", "NEEDS_REASONING", "FAILED"},
             Submitted(q, c, next, v)
      PROVE  TypeOK' /\ \A p \in Queries : br'[p].arts = br[p].arts
  BY <1>4 DEF Submitted, TypeOK, Statuses, parentVars
<1> DEFINE c == Cleared(b)
<1> HIDE DEF n, c, b
<1>5. CASE SubmitExhausted(q)
  <2> DEFINE d == [c EXCEPT !.exhausted = TRUE, !.tries = n]
  <2>1. d \in Branches /\ d.arts = b.arts
    BY <1>1, <1>2 DEF Branches, c
  <2>2. \/ Submitted(q, b, "close", "NEEDS_REASONING")
        \/ Submitted(q, d, "close", "NEEDS_REASONING")
    BY <1>2, <1>5 DEF SubmitExhausted, c, b
  <2> HIDE DEF d
  <2> QED
    BY <1>1, <1>4, <2>1, <2>2
<1>6. CASE SubmitReused(q)
  BY <1>1, <1>4, <1>6 DEF SubmitReused, b
<1>7. CASE SubmitNoProgress(q)
  <2> DEFINE d == [c EXCEPT !.tries = n]
  <2>1. d \in Branches /\ d.arts = b.arts
    BY <1>1, <1>2 DEF Branches, c
  <2>2. AfterGap(b.tried[s]) \in {"NEEDS_REASONING", "repair"}
    BY DEF AfterGap
  <2>3. Submitted(q, d, "close", AfterGap(b.tried[s]))
    BY <1>2, <1>7 DEF SubmitNoProgress, c, b
  <2> HIDE DEF d
  <2> QED
    BY <1>4, <2>1, <2>2, <2>3
<1>8. CASE SubmitRejected(q)
  <2>1. PICK gap \in {"SQL_GAP", "BINDING_GAP"} :
           Submitted(q, [c EXCEPT !.tries = n, !.tried[s] = gap], "close",
                     AfterGap(gap))
    BY <1>2, <1>8 DEF SubmitRejected, c, b
  <2> DEFINE tried == [c.tried EXCEPT ![s] = gap]
             d == [c EXCEPT !.tries = n, !.tried = tried]
  <2>2. tried \in [Sqls -> {"new", "ACCEPTED", "SQL_GAP", "BINDING_GAP"}]
    BY <1>1, <1>3 DEF Branches, c
  <2>3. [c EXCEPT !.tries = n, !.tried[s] = gap] = d
    BY <1>1 DEF Branches, c
  <2> HIDE DEF tried
  <2>4. d \in Branches /\ d.arts = b.arts
    BY <1>1, <1>2, <2>2 DEF Branches, c
  <2>5. AfterGap(gap) \in {"NEEDS_REASONING", "repair"}
    BY DEF AfterGap
  <2> HIDE DEF d
  <2>6. Submitted(q, d, "close", AfterGap(gap))
    BY <2>1, <2>3 DEF Submitted
  <2> QED
    BY <1>4, <2>4, <2>5, <2>6
<1>9. CASE SubmitAccepted(q)
  <2> DEFINE tried == [c.tried EXCEPT ![s] = "ACCEPTED"]
             d == [c EXCEPT !.tries = n, !.cand = s, !.tried = tried]
  <2>1. Submitted(q, [c EXCEPT !.tries = n, !.cand = s,
                               !.tried[s] = "ACCEPTED"], "reserve", "none")
    BY <1>2, <1>9 DEF SubmitAccepted, c, b
  <2>2. tried \in [Sqls -> {"new", "ACCEPTED", "SQL_GAP", "BINDING_GAP"}]
    BY <1>1, <1>3 DEF Branches, c
  <2>3. [c EXCEPT !.tries = n, !.cand = s, !.tried[s] = "ACCEPTED"] = d
    BY <1>1 DEF Branches, c
  <2>4. s \in Plans \cup {NoSql}
    BY <1>3 DEF Plans
  <2> HIDE DEF tried, s
  <2>5. d \in Branches /\ d.arts = b.arts
    BY <1>1, <1>2, <2>2, <2>4 DEF Branches, c
  <2> HIDE DEF d
  <2>6. Submitted(q, d, "reserve", "none")
    BY <2>1, <2>3 DEF Submitted
  <2> QED
    BY <1>4, <2>5, <2>6
<1>10. CASE SubmitBroken(q)
  <2> DEFINE d == [c EXCEPT !.tries = n]
  <2>1. d \in Branches /\ d.arts = b.arts
    BY <1>1, <1>2 DEF Branches, c
  <2>2. Submitted(q, d, "close", "FAILED")
    BY <1>2, <1>10 DEF SubmitBroken, c, b
  <2> HIDE DEF d
  <2> QED
    BY <1>4, <2>1, <2>2
<1> QED
  BY <1>5, <1>6, <1>7, <1>8, <1>9, <1>10 DEF Submit

\* reservation and execution keep the artifacts and the active candidate
LEMMA RunType ==
    ASSUME TypeOK, NEW q \in Queries, Reserve(q) \/ Execute(q) \/ VerifyGapped(q)
    PROVE  /\ TypeOK'
           /\ \A p \in Queries : /\ br'[p].arts = br[p].arts
                                 /\ br'[p].gen = br[p].gen
                                 /\ br'[p].cand = br[p].cand
<1> DEFINE b == br[q]
           Same(c) == c.arts = b.arts /\ c.gen = b.gen /\ c.cand = b.cand
<1>1. b \in Branches
  BY DEF TypeOK
<1>2. ASSUME NEW c \in Branches, Same(c), br' = [br EXCEPT ![q] = c]
      PROVE  /\ br' \in [Queries -> Branches]
             /\ \A p \in Queries : /\ br'[p].arts = br[p].arts
                                   /\ br'[p].gen = br[p].gen
                                   /\ br'[p].cand = br[p].cand
  BY <1>2 DEF TypeOK
<1>3. CASE Reserve(q)
  <2> DEFINE n == b.doris + 1
             c == [b EXCEPT !.doris = n]
  <2>1. n \in Nat
    BY <1>1 DEF Branches
  <2>2. br' = [br EXCEPT ![q] = c]
    BY <1>3 DEF Reserve, TypeOK
  <2> HIDE DEF n, b
  <2>3. c \in Branches /\ Same(c)
    BY <1>1, <2>1 DEF Branches
  <2>4. br' \in [Queries -> Branches]
    BY <1>2, <2>2, <2>3
  <2>5. doris' \in 0 .. DorisLimit
    BY <1>3, QueryBatchConstants DEF Reserve, TypeOK
  <2>6. TypeOK'
    BY <1>3, <2>4, <2>5 DEF Reserve, TypeOK, parentVars
  <2> QED
    BY <1>2, <2>2, <2>3, <2>6
<1>4. CASE Execute(q)
  <2> DEFINE c == Executed(b)
  <2>1. c \in Branches /\ c.arts = b.arts
    BY <1>1, ExecutedType
  <2>2. c.gen = b.gen /\ c.cand = b.cand
    BY <1>1 DEF Executed, Branches
  <2>3. br' = [br EXCEPT ![q] = c]
    BY <1>4 DEF Execute
  <2> HIDE DEF c
  <2>4. br' \in [Queries -> Branches]
    BY <1>2, <2>1, <2>2, <2>3
  <2>5. \E p \in {"verify", "close", "terminal"} : pc' = [pc EXCEPT ![q] = p]
    BY <1>4 DEF Execute
  <2>6. ctx' \in [Queries -> Statuses]
    <3>1. ctx \in [Queries -> Statuses]
      BY DEF TypeOK
    <3>2. "FAILED" \in Statuses /\ "TERMINAL_BLOCKED" \in Statuses
      BY DEF Statuses
    <3>3. \/ ctx' = ctx
          \/ \E s \in {"FAILED", "TERMINAL_BLOCKED"} : ctx' = [ctx EXCEPT ![q] = s]
      BY <1>4 DEF Execute
    <3> QED
      BY <3>1, <3>2, <3>3
  <2>7. verdict' \in [Queries -> {"none", "repair", "VERIFIED", "NEEDS_REASONING", "DENIED",
                                  "FAILED", "STALE"}]
    BY <1>4 DEF Execute, TypeOK
  <2>8. TypeOK'
    BY <1>4, <2>4, <2>5, <2>6, <2>7 DEF Execute, TypeOK, parentVars
  <2> QED
    BY <1>2, <2>1, <2>2, <2>3, <2>8
<1>5. CASE VerifyGapped(q)
  <2> DEFINE c == [b EXCEPT !.evidence = "gapped", !.authority = 0,
                            !.pending = 0]
  <2>1. br' = [br EXCEPT ![q] = c]
    BY <1>5 DEF VerifyGapped, TypeOK
  <2> HIDE DEF b
  <2>2. c \in Branches /\ Same(c)
    BY <1>1 DEF Branches
  <2>3. br' \in [Queries -> Branches]
    BY <1>2, <2>1, <2>2
  <2>4. TypeOK'
    BY <1>5, <2>3 DEF VerifyGapped, TypeOK, Statuses, parentVars
  <2> QED
    BY <1>2, <2>1, <2>2, <2>4
<1> QED
  BY <1>3, <1>4, <1>5

\* a passed verification adds at most the artifact it proved
LEMMA VerifyPassedType ==
    ASSUME TypeOK, Ready, NEW q \in Queries, VerifyPassed(q)
    PROVE  /\ TypeOK'
           /\ \A p \in Queries \ {q} : br'[p] = br[p]
           /\ br'[q].arts = WithArtifact(br[q]).arts
           /\ br'[q].gen = br[q].gen /\ br'[q].cand = br[q].cand
<1> DEFINE b == br[q]
           w == WithArtifact(b)
           c == [w EXCEPT !.evidence = "passed", !.authority = 0]
           r == [query |-> q, gen |-> b.gen, sql |-> b.cand,
                 exe |-> b.authority]
<1>1. b \in Branches /\ b.cand \in Plans
  BY DEF TypeOK, Ready, VerifyPassed
<1>2. w \in Branches
  BY <1>1, WithArtifactType
<1>3. w.gen = b.gen /\ w.cand = b.cand
  BY <1>1 DEF WithArtifact, Branches
<1>4. r \in [query : Queries, gen : Nat, sql : Plans, exe : Nat]
  BY <1>1 DEF Branches
<1>5. br' = [br EXCEPT ![q] = c] /\ proved' = proved \cup {r}
  BY DEF VerifyPassed
<1> HIDE DEF w, b, r
<1>6. c \in Branches /\ c.arts = w.arts /\ c.gen = w.gen /\ c.cand = w.cand
  BY <1>2 DEF Branches
<1> HIDE DEF c
<1>7. br' \in [Queries -> Branches]
  BY <1>5, <1>6 DEF TypeOK
<1>8. proved' \subseteq [query : Queries, gen : Nat, sql : Plans, exe : Nat]
  BY <1>4, <1>5 DEF TypeOK
<1>9. TypeOK'
  BY <1>7, <1>8 DEF VerifyPassed, TypeOK, parentVars
<1> QED
  BY <1>3, <1>5, <1>6, <1>9 DEF TypeOK, w, b

LEMMA LedgerIdsType ==
    ASSUME TypeOK
    PROVE  LedgerIds \in SUBSET ArtifactIds
BY DEF TypeOK, LedgerIds, IdOf, Artifacts, ArtifactIds

LEMMA SnapshotType ==
    ASSUME TypeOK, NEW q \in Queries, Snapshot(q) \/ Record(q)
    PROVE  TypeOK'
<1>1. CASE Snapshot(q)
  <2>1. ParentNow \in [gen : Nat, rev : Nat, ids : SUBSET ArtifactIds]
    BY LedgerIdsType DEF ParentNow, TypeOK
  <2> QED
    BY <1>1, <2>1 DEF Snapshot, TypeOK, parentVars
<1>2. CASE Record(q)
  BY <1>2 DEF Record, TypeOK, Statuses, parentVars
<1> QED
  BY <1>1, <1>2

\* what an adoption publishes
LEMMA AdoptedType ==
    ASSUME TypeOK, NEW q \in Queries
    PROVE  /\ Adopted(q) \subseteq Artifacts
           /\ {IdOf(a) : a \in Adopted(q)} \in SUBSET ArtifactIds
<1>1. br[q] \in Branches
  BY DEF TypeOK
<1>2. br[q].pending \in Nat /\ br[q].arts \subseteq BranchArtifacts
  BY <1>1 DEF Branches
<1>3. ASSUME NEW a \in Current(br[q])
      PROVE  [query |-> q, gen |-> a.gen, sql |-> a.sql, exe |-> a.exe,
              rows |-> br[q].pending, goals |-> FALSE] \in Artifacts
  BY <1>2 DEF Current, BranchArtifacts, Artifacts
<1>4. Adopted(q) \subseteq Artifacts
  BY <1>3 DEF Adopted
<1> QED
  BY <1>4 DEF IdOf, Artifacts, ArtifactIds

LEMMA CommitType ==
    ASSUME TypeOK, NEW q \in Queries, Commit(q)
    PROVE  /\ TypeOK'
           /\ \A p \in Queries \ {q} : br'[p] = br[p]
           /\ br'[q].arts =
                 {[a EXCEPT !.status = "PUBLISHED"] : a \in Current(br[q])}
           /\ br'[q].gen = br[q].gen /\ br'[q].cand = br[q].cand
<1> DEFINE b == br[q]
           arts == {[a EXCEPT !.status = "PUBLISHED"] : a \in Current(b)}
           c == [b EXCEPT !.arts = arts, !.authority = 0, !.pending = 0]
<1>1. b \in Branches
  BY DEF TypeOK
<1>2. arts \in SUBSET BranchArtifacts
  BY <1>1 DEF Current, Branches, BranchArtifacts
<1>3. br' = [br EXCEPT ![q] = c]
  BY DEF Commit, TypeOK
<1> HIDE DEF arts, b
<1>4. c \in Branches /\ c.arts = arts /\ c.gen = b.gen /\ c.cand = b.cand
  BY <1>1, <1>2 DEF Branches
<1> HIDE DEF c
<1>5. br' \in [Queries -> Branches]
  BY <1>3, <1>4 DEF TypeOK
<1>6. /\ ledger' \subseteq Artifacts
      /\ todo' \in [Queries -> SUBSET ArtifactIds]
  BY AdoptedType DEF Commit, TypeOK
<1>7. snap' \in [Queries -> [gen : Nat, rev : Nat, ids : SUBSET ArtifactIds]]
  BY DEF Commit, TypeOK, IdleSnap
<1>8. /\ gen' \in Nat /\ rev' \in Nat
      /\ phase' \in {"IDLE", "SECURITY_BLOCKED", "OPERATIONAL_FAILURE",
                     "PARALLEL_BRANCHES_ADOPTED"}
  <2>1. CASE Adopted(q) = {}
    BY <2>1 DEF Commit, TypeOK
  <2>2. CASE Adopted(q) # {}
    <3>1. gen' = gen + 1 /\ rev' = rev + 1
      BY <2>2 DEF Commit
    <3>2. phase' = "PARALLEL_BRANCHES_ADOPTED"
      BY <2>2 DEF Commit
    <3> QED
      BY <3>1, <3>2 DEF TypeOK
  <2> QED
    BY <2>1, <2>2
<1>9. TypeOK'
  BY <1>5, <1>6, <1>7, <1>8 DEF Commit, TypeOK
<1> QED
  BY <1>3, <1>4, <1>9 DEF TypeOK, arts, b

LEMMA AttachType ==
    ASSUME TypeOK, NEW q \in Queries, Attach(q)
    PROVE  TypeOK'
<1>1. PICK id \in todo[q] :
         /\ ledger' = {IF IdOf(a) = id
                       THEN [a EXCEPT !.goals = (id = LatestId(q))] ELSE a :
                           a \in ledger}
         /\ rev' = rev + 1
         /\ todo' = [todo EXCEPT ![q] = @ \ {id}]
         /\ pc' = [pc EXCEPT ![q] = IF todo[q] = {id} THEN "done" ELSE "attach"]
  BY DEF Attach
<1> DEFINE given == (id = LatestId(q))
<1>2. given \in BOOLEAN
  OBVIOUS
<1> HIDE DEF given
<1>3. ASSUME NEW a \in ledger
      PROVE  (IF IdOf(a) = id THEN [a EXCEPT !.goals = given] ELSE a)
                \in Artifacts
  <2>1. a \in Artifacts
    BY DEF TypeOK
  <2>2. [a EXCEPT !.goals = given] \in Artifacts
    BY <2>1, <1>2 DEF Artifacts
  <2> QED
    BY <2>1, <2>2
<1>4. ledger' \subseteq Artifacts
  BY <1>1, <1>3 DEF given
<1>5. /\ todo' \in [Queries -> SUBSET ArtifactIds]
      /\ rev' \in Nat
  BY <1>1 DEF TypeOK
<1> QED
  BY <1>1, <1>4, <1>5 DEF Attach, TypeOK

-------------------------------------------------------------------------------
(* Every step *)

\* the actions of a thread, grouped by what they touch
Quiet(q) ==
    \/ Start(q) \/ NothingToRun(q) \/ BeginCompiled(q) \/ Close(q)
    \/ Repair(q) \/ ReserveBranchDenied(q) \/ ReserveRunDenied(q)
    \/ ExecuteRaises(q) \/ Terminal(q) \/ SnapshotRaises(q)
    \/ PublishRaises(q) \/ CommitStale(q) \/ Snapshot(q) \/ Record(q)

LEMMA QuietStep ==
    ASSUME NEW q \in Queries, Quiet(q)
    PROVE  UNCHANGED <<br, ledger, proved>>
BY DEF Quiet, Start, NothingToRun, BeginCompiled, Close, Repair,
       ReserveBranchDenied, ReserveRunDenied, ExecuteRaises, Terminal,
       SnapshotRaises, PublishRaises, CommitStale, Snapshot, Record,
       AdoptionRaises, parentVars

LEMMA ThreadCases ==
    ASSUME NEW q \in Queries, Thread(q)
    PROVE  \/ Quiet(q) \/ Submit(q) \/ Reserve(q) \/ Execute(q)
           \/ VerifyGapped(q) \/ VerifyPassed(q) \/ Commit(q) \/ Attach(q)
BY DEF Thread, Quiet

LEMMA TypeStep == TypeOK /\ Ready /\ [Next]_vars => TypeOK'
<1> SUFFICES ASSUME TypeOK, Ready, [Next]_vars PROVE TypeOK'
  OBVIOUS
<1>1. CASE Core
  <2>1. PICK B \in (SUBSET Queries) \ {{}} :
           \E choice \in [B -> {"reuse", "revise", "gap", "error"}],
              sql \in [B \cap CoreSql -> Sqls \cup {NoSql}] :
                 Call(B, choice, sql)
    BY <1>1 DEF Core
  <2> QED
    BY <2>1, CallType
<1>2. CASE Return
  BY <1>2, ReturnType
<1>3. ASSUME NEW q \in Queries, Thread(q) PROVE TypeOK'
  BY <1>3, ThreadCases, ControlType, SnapshotType, SubmitType, RunType,
     VerifyPassedType, CommitType, AttachType DEF Quiet
<1>4. CASE UNCHANGED vars
  BY <1>4 DEF vars, TypeOK
<1> QED
  BY <1>1, <1>2, <1>3, <1>4 DEF Next

\* no thread other than that of q touches the branch and the place of q
LEMMA ReadyStep == TypeOK /\ Ready /\ [Next]_vars => Ready'
<1> SUFFICES ASSUME TypeOK, Ready, [Next]_vars PROVE Ready'
  OBVIOUS
<1>1. CASE Core
  <2>1. PICK B \in (SUBSET Queries) \ {{}} :
           \E choice \in [B -> {"reuse", "revise", "gap", "error"}],
              sql \in [B \cap CoreSql -> Sqls \cup {NoSql}] :
                 Call(B, choice, sql)
    BY <1>1 DEF Core
  <2>2. PICK choice \in [B -> {"reuse", "revise", "gap", "error"}],
             sql \in [B \cap CoreSql -> Sqls \cup {NoSql}] :
                Call(B, choice, sql)
    BY <2>1
  <2>3. ASSUME NEW q \in B
        PROVE  /\ PreparedBranch(q, choice[q]).gen \in Nat
               /\ PreparedBranch(q, choice[q]).gen >= br[q].gen
               /\ Outcome(q, choice[q]) = "PREPARED"
                     => PreparedBranch(q, choice[q]).gen > 0
               /\ q \notin CoreSql /\ PreparedBranch(q, choice[q]).gen > 0
                     => PreparedBranch(q, choice[q]).cand = Compiled
    <3> DEFINE n == br[q].contracts + 1
               b == [br[q] EXCEPT !.contracts = n]
    <3>1. br[q] \in Branches
      BY DEF TypeOK
    <3>2. n \in Nat
      BY <3>1 DEF Branches
    <3> HIDE DEF n
    <3>3. b \in Branches /\ b.gen = br[q].gen /\ b.cand = br[q].cand
      BY <3>1, <3>2 DEF Branches
    <3>4. b.gen \in Nat /\ br[q].gen \in Nat
      BY <3>1, <3>3 DEF Branches
    <3>5. q \notin CoreSql /\ br[q].gen > 0 => br[q].cand = Compiled
      BY DEF Ready
    <3>6. /\ Activated(q, b).gen = b.gen + 1
          /\ q \notin CoreSql => Activated(q, b).cand = Compiled
      BY <3>3 DEF Activated, Cleared, Branches
    <3>7. /\ br[q].contracts >= BranchContractLimit
             => /\ PreparedBranch(q, choice[q]) = br[q]
                /\ Outcome(q, choice[q]) = "BUDGET_BLOCKED"
          /\ ~(br[q].contracts >= BranchContractLimit)
             /\ (choice[q] = "revise" \/ (choice[q] = "reuse" /\ b.gen = 0))
             => PreparedBranch(q, choice[q]) = Activated(q, b)
          /\ ~(br[q].contracts >= BranchContractLimit)
             /\ ~(choice[q] = "revise" \/ (choice[q] = "reuse" /\ b.gen = 0))
             => PreparedBranch(q, choice[q]) = b
          /\ Outcome(q, choice[q]) = "PREPARED"
             => choice[q] = "revise" \/ choice[q] = "reuse"
      BY DEF PreparedBranch, Outcome, n
    <3> HIDE DEF b
    <3> QED
      BY <3>3, <3>4, <3>5, <3>6, <3>7
  <2>4. /\ reg' = reg \cup {q \in B : Outcome(q, choice[q]) = "PREPARED"}
        /\ \A q \in B : br'[q] = PreparedBranch(q, choice[q])
        /\ \A q \in Queries \ B : br'[q] = br[q]
        /\ \A q \in B : pc'[q] \in {"queued", "done", pc[q]}
        /\ \A q \in Queries \ B : pc'[q] = pc[q]
    BY <2>2 DEF Call, TypeOK
  <2>5. \A q \in reg' : br'[q].gen > 0
    <3>1. \A q \in Queries : br[q].gen \in Nat
      BY DEF TypeOK, Branches
    <3> QED
      BY <2>3, <2>4, <3>1 DEF Ready, TypeOK
  <2>6. \A q \in B : pc'[q] \in {"queued", "done"}
    BY <2>2 DEF Call, TypeOK
  <2> QED
    BY <2>3, <2>4, <2>5, <2>6 DEF Ready
<1>2. CASE Return
  BY <1>2 DEF Return, Ready
<1>3. ASSUME NEW q \in Queries, Thread(q) PROVE Ready'
  <2>1. \A p \in Queries : br[p] \in Branches
    BY DEF TypeOK
  <2>2. CASE Quiet(q)
    <3>1. br' = br
      BY <2>2, QuietStep
    <3>2. reg' \subseteq reg
      BY <2>2 DEF Quiet, Start, NothingToRun, BeginCompiled, Close, Repair,
         ReserveBranchDenied, ReserveRunDenied, ExecuteRaises, Terminal,
         SnapshotRaises, PublishRaises, CommitStale, Snapshot, Record,
         AdoptionRaises
    <3>3. ASSUME NEW p \in Queries,
                 pc'[p] \in {"reserve", "execute", "verify"}
          PROVE  br[p].cand \in Plans
      <4>1. CASE BeginCompiled(q)
        <5>1. br[q].cand = Compiled
          BY <4>1 DEF BeginCompiled, Ready
        <5>2. pc' = [pc EXCEPT ![q] = "reserve"]
          BY <4>1 DEF BeginCompiled
        <5> QED
          BY <3>3, <5>1, <5>2 DEF Ready, TypeOK, Plans
      <4>2. CASE ~BeginCompiled(q)
        <5>1. pc'[p] = pc[p]
          BY <2>2, <3>3, <4>2 DEF Quiet, Start, NothingToRun, Close,
             Repair, ReserveBranchDenied, ReserveRunDenied, ExecuteRaises,
             Terminal, SnapshotRaises, PublishRaises, CommitStale, Snapshot,
             Record, AdoptionRaises, Settle, TypeOK
        <5> QED
          BY <3>3, <5>1 DEF Ready
      <4> QED
        BY <4>1, <4>2
    <3> QED
      BY <3>1, <3>2, <3>3 DEF Ready
  <2>3. CASE Submit(q)
    <3>1. /\ br'[q].gen = br[q].gen
          /\ pc'[q] = "reserve" => br'[q].cand \in Plans
      <4>1. /\ Cleared(br[q]).gen = br[q].gen
            /\ Cleared(br[q]) \in Branches
        <5>1. br[q] \in Branches
          BY <2>1
        <5>2. Cleared(br[q]).gen = br[q].gen
          BY <5>1 DEF Cleared, Branches
        <5> QED
          BY <5>1, <5>2, ClearedType
      <4>2. sqlOf[q] \in Plans
        BY <2>3 DEF Submit, TypeOK, Plans
      <4>3. CASE SubmitExhausted(q)
        BY <4>1, <4>3 DEF SubmitExhausted, Submitted, TypeOK, Branches
      <4>4. CASE SubmitReused(q)
        BY <4>2, <4>4 DEF SubmitReused, Submitted, TypeOK
      <4>5. CASE SubmitNoProgress(q)
        BY <4>1, <4>5 DEF SubmitNoProgress, Submitted, TypeOK, Branches
      <4>6. CASE SubmitRejected(q)
        <5>1. PICK gap \in {"SQL_GAP", "BINDING_GAP"} :
                 /\ br' = [br EXCEPT ![q] = [Cleared(br[q]) EXCEPT
                                               !.tries = @ + 1, !.tried[sqlOf[q]] = gap]]
                 /\ pc' = [pc EXCEPT ![q] = "close"]
          BY <4>6 DEF SubmitRejected, Submitted
        <5>2. br'[q].gen = Cleared(br[q]).gen
          BY <4>1, <5>1 DEF TypeOK, Branches
        <5> QED
          BY <4>1, <5>1, <5>2 DEF TypeOK
      <4>7. CASE SubmitAccepted(q)
        BY <4>1, <4>2, <4>7 DEF SubmitAccepted, Submitted, TypeOK, Branches
      <4>8. CASE SubmitBroken(q)
        BY <4>1, <4>8 DEF SubmitBroken, Submitted, TypeOK, Branches
      <4> QED
        BY <2>3, <4>3, <4>4, <4>5, <4>6, <4>7, <4>8 DEF Submit
    <3>2. /\ q \in CoreSql /\ reg' = reg
          /\ pc'[q] \in {"reserve", "close"}
          /\ \A p \in Queries \ {q} : br'[p] = br[p] /\ pc'[p] = pc[p]
      BY <2>3 DEF Submit, SubmitExhausted, SubmitReused, SubmitNoProgress,
         SubmitRejected, SubmitAccepted, SubmitBroken, Submitted, TypeOK
    <3> QED
      BY <3>1, <3>2 DEF Ready, TypeOK
  <2>4. CASE Reserve(q) \/ Execute(q) \/ VerifyGapped(q)
    <3>1. \A p \in Queries : br'[p].gen = br[p].gen /\ br'[p].cand = br[p].cand
      BY <2>4, RunType
    <3>2. /\ reg' = reg
          /\ \A p \in Queries \ {q} : pc'[p] = pc[p]
          /\ pc'[q] \in {"execute", "verify"} => pc[q] \in {"reserve", "execute"}
          /\ pc'[q] # "reserve"
      BY <2>4 DEF Reserve, Execute, VerifyGapped, TypeOK
    <3> QED
      BY <3>1, <3>2 DEF Ready, TypeOK
  <2>5. CASE VerifyPassed(q) \/ Commit(q)
    <3>1. \A p \in Queries : br'[p].gen = br[p].gen /\ br'[p].cand = br[p].cand
      BY <2>5, VerifyPassedType, CommitType
    <3>2. /\ reg' = reg
          /\ \A p \in Queries \ {q} : pc'[p] = pc[p]
          /\ pc'[q] \in {"snapshot", "record"}
      BY <2>5 DEF VerifyPassed, Commit, TypeOK
    <3> QED
      BY <3>1, <3>2 DEF Ready, TypeOK
  <2>6. CASE Attach(q)
    <3>1. /\ br' = br /\ reg' = reg
          /\ \A p \in Queries \ {q} : pc'[p] = pc[p]
          /\ pc'[q] \in {"done", "attach"}
      BY <2>6 DEF Attach, TypeOK
    <3> QED
      BY <3>1 DEF Ready, TypeOK
  <2> QED
    BY <1>3, <2>2, <2>3, <2>4, <2>5, <2>6, ThreadCases
<1>4. CASE UNCHANGED vars
  BY <1>4 DEF vars, Ready
<1> QED
  BY <1>1, <1>2, <1>3, <1>4 DEF Next

-------------------------------------------------------------------------------
(* The ledger *)

Sound == LedgerSound /\ BranchLedgersProved /\ BranchLedgersOnce

\* an artifact that is given goals stays the same artifact and result
LEMMA AttachKeeps ==
    ASSUME TypeOK, NEW q \in Queries, Attach(q)
    PROVE  \E id : ledger' = {IF IdOf(a) = id
                              THEN [a EXCEPT !.goals = (id = LatestId(q))]
                              ELSE a : a \in ledger}
<1>1. PICK id \in todo[q] :
         ledger' = {IF IdOf(a) = id
                    THEN [a EXCEPT !.goals = (id = LatestId(q))] ELSE a : a \in ledger}
  BY Zenon DEF Attach
<1> QED
  BY <1>1, Zenon

LEMMA GoalsKeepResult ==
    ASSUME NEW a \in Artifacts, NEW g
    PROVE  /\ ResultOf([a EXCEPT !.goals = g]) = ResultOf(a)
           /\ IdOf([a EXCEPT !.goals = g]) = IdOf(a)
BY DEF Artifacts, ResultOf, IdOf

\* where an adopted artifact comes from
LEMMA AdoptedFrom ==
    ASSUME NEW q \in Queries, NEW x \in Adopted(q)
    PROVE  /\ IdOf(x) \notin LedgerIds
           /\ \E a \in br[q].arts :
                 /\ x = [query |-> q, gen |-> a.gen, sql |-> a.sql,
                         exe |-> a.exe, rows |-> br[q].pending,
                         goals |-> FALSE]
                 /\ ResultOf(x) = BranchResult(q, a)
                 /\ IdOf(x) = [query |-> q, gen |-> a.gen, sql |-> a.sql]
<1>1. PICK a \in Current(br[q]) :
         x = [query |-> q, gen |-> a.gen, sql |-> a.sql, exe |-> a.exe,
              rows |-> br[q].pending, goals |-> FALSE]
  BY DEF Adopted
<1>2. a \in br[q].arts
  BY DEF Current
<1>3. IdOf(x) \notin LedgerIds
  BY DEF Adopted
<1> QED
  BY <1>1, <1>2, <1>3 DEF ResultOf, BranchResult, IdOf

LEMMA CommitSound ==
    ASSUME TypeOK, Sound, NEW q \in Queries, Commit(q)
    PROVE  Sound'
<1>1. /\ ledger' = ledger \cup Adopted(q) /\ proved' = proved
      /\ \A p \in Queries \ {q} : br'[p] = br[p]
      /\ br'[q].arts =
            {[a EXCEPT !.status = "PUBLISHED"] : a \in Current(br[q])}
  BY CommitType DEF Commit
<1>2. \A a \in ledger' : ResultOf(a) \in proved'
  BY <1>1, AdoptedFrom DEF Sound, LedgerSound, BranchLedgersProved
<1>3. ASSUME NEW a \in ledger', NEW c \in ledger', IdOf(a) = IdOf(c)
      PROVE  a = c
  <2>1. CASE a \in ledger /\ c \in ledger
    BY <1>3, <2>1 DEF Sound, LedgerSound
  <2>2. CASE a \in Adopted(q) /\ c \in ledger
    BY <1>3, <2>2, AdoptedFrom DEF LedgerIds
  <2>3. CASE a \in ledger /\ c \in Adopted(q)
    BY <1>3, <2>3, AdoptedFrom DEF LedgerIds
  <2>4. CASE a \in Adopted(q) /\ c \in Adopted(q)
    <3>1. PICK x \in br[q].arts :
             /\ a = [query |-> q, gen |-> x.gen, sql |-> x.sql, exe |-> x.exe,
                     rows |-> br[q].pending, goals |-> FALSE]
             /\ IdOf(a) = [query |-> q, gen |-> x.gen, sql |-> x.sql]
      BY <2>4, AdoptedFrom
    <3>2. PICK y \in br[q].arts :
             /\ c = [query |-> q, gen |-> y.gen, sql |-> y.sql, exe |-> y.exe,
                     rows |-> br[q].pending, goals |-> FALSE]
             /\ IdOf(c) = [query |-> q, gen |-> y.gen, sql |-> y.sql]
      BY <2>4, AdoptedFrom
    <3>3. x.gen = y.gen /\ x.sql = y.sql
      <4>1. a.gen = x.gen /\ a.sql = x.sql /\ c.gen = y.gen /\ c.sql = y.sql
        BY <3>1, <3>2
      <4>2. a.gen = c.gen /\ a.sql = c.sql
        BY <1>3 DEF IdOf
      <4> QED
        BY <4>1, <4>2
    <3>4. x = y
      BY <3>3 DEF Sound, BranchLedgersOnce
    <3> QED
      BY <3>1, <3>2, <3>4
  <2> QED
    BY <1>1, <2>1, <2>2, <2>3, <2>4
<1>4. ASSUME NEW a \in br[q].arts
      PROVE  LET u == [a EXCEPT !.status = "PUBLISHED"]
             IN  u.gen = a.gen /\ u.sql = a.sql /\ u.exe = a.exe
  BY DEF TypeOK, Branches, BranchArtifacts
<1>5. BranchLedgersProved'
  <2>1. ASSUME NEW a \in br'[q].arts PROVE BranchResult(q, a) \in proved
    <3>1. PICK x \in br[q].arts : a = [x EXCEPT !.status = "PUBLISHED"]
      BY <1>1 DEF Current
    <3>2. BranchResult(q, a) = BranchResult(q, x)
      BY <1>4, <3>1 DEF BranchResult
    <3> QED
      BY <3>2 DEF Sound, BranchLedgersProved
  <2> QED
    BY <1>1, <2>1 DEF Sound, BranchLedgersProved, BranchResult
<1>6. BranchLedgersOnce'
  <2>1. ASSUME NEW a \in br'[q].arts, NEW c \in br'[q].arts,
               a.gen = c.gen, a.sql = c.sql
        PROVE  a = c
    <3>1. PICK x \in br[q].arts : a = [x EXCEPT !.status = "PUBLISHED"]
      BY <1>1 DEF Current
    <3>2. PICK y \in br[q].arts : c = [y EXCEPT !.status = "PUBLISHED"]
      BY <1>1 DEF Current
    <3>3. x.gen = y.gen /\ x.sql = y.sql
      BY <1>4, <2>1, <3>1, <3>2
    <3>4. x = y
      BY <3>3 DEF Sound, BranchLedgersOnce
    <3> QED
      BY <3>1, <3>2, <3>4
  <2> QED
    BY <1>1, <2>1 DEF Sound, BranchLedgersOnce
<1> QED
  BY <1>2, <1>3, <1>5, <1>6 DEF Sound, LedgerSound

LEMMA VerifyPassedSound ==
    ASSUME TypeOK, Ready, Sound, NEW q \in Queries, VerifyPassed(q)
    PROVE  Sound'
<1> DEFINE b == br[q]
           new == [gen |-> b.gen, sql |-> b.cand, exe |-> b.authority,
                   status |-> "PENDING"]
<1>1. /\ ledger' = ledger
      /\ proved' = proved \cup {BranchResult(q, new)}
  BY DEF VerifyPassed, BranchResult, parentVars
<1>2. b \in Branches /\ b.cand \in Plans
  BY DEF TypeOK, Ready, VerifyPassed
<1>3. /\ \A p \in Queries \ {q} : br'[p] = br[p]
      /\ br'[q].arts \subseteq b.arts \cup {new}
      /\ \/ br'[q].arts = b.arts
         \/ ~\E a \in b.arts : a.gen = b.gen /\ a.sql = b.cand
  BY <1>2, VerifyPassedType, WithArtifactType
<1>4. LedgerSound'
  BY <1>1 DEF Sound, LedgerSound, ResultOf, IdOf
<1>5. BranchLedgersProved'
  BY <1>1, <1>3 DEF Sound, BranchLedgersProved, BranchResult
<1>6. BranchLedgersOnce'
  <2>1. new.gen = b.gen /\ new.sql = b.cand
    OBVIOUS
  <2> HIDE DEF new, b
  <2>2. ASSUME NEW a \in br'[q].arts, NEW c \in br'[q].arts,
               a.gen = c.gen, a.sql = c.sql
        PROVE  a = c
    BY <1>3, <2>1, <2>2 DEF Sound, BranchLedgersOnce, b
  <2> QED
    BY <1>3, <2>2 DEF Sound, BranchLedgersOnce
<1> QED
  BY <1>4, <1>5, <1>6 DEF Sound

LEMMA AttachSound ==
    ASSUME TypeOK, Sound, NEW q \in Queries, Attach(q)
    PROVE  Sound' /\ {ResultOf(a) : a \in ledger'} = {ResultOf(a) : a \in ledger}
<1>1. PICK id : ledger' = {IF IdOf(a) = id
                           THEN [a EXCEPT !.goals = (id = LatestId(q))]
                           ELSE a : a \in ledger}
  BY AttachKeeps
<1> DEFINE f(a) == IF IdOf(a) = id
                   THEN [a EXCEPT !.goals = (id = LatestId(q))] ELSE a
<1>2. ASSUME NEW a \in ledger
      PROVE  ResultOf(f(a)) = ResultOf(a) /\ IdOf(f(a)) = IdOf(a)
  BY GoalsKeepResult DEF TypeOK
<1>3. ledger' = {f(a) : a \in ledger}
  BY <1>1
<1>4. UNCHANGED <<br, proved>>
  BY DEF Attach
<1> HIDE DEF f
<1>5. LedgerSound'
  <2>1. ASSUME NEW a \in ledger' PROVE ResultOf(a) \in proved
    BY <1>2, <1>3 DEF Sound, LedgerSound
  <2>2. ASSUME NEW a \in ledger', NEW c \in ledger', IdOf(a) = IdOf(c)
        PROVE  a = c
    <3>1. PICK x \in ledger : a = f(x)
      BY <1>3
    <3>2. PICK y \in ledger : c = f(y)
      BY <1>3
    <3>3. x = y
      BY <1>2, <2>2, <3>1, <3>2 DEF Sound, LedgerSound
    <3> QED
      BY <3>1, <3>2, <3>3
  <2> QED
    BY <1>4, <2>1, <2>2 DEF LedgerSound
<1>6. {ResultOf(a) : a \in ledger'} = {ResultOf(a) : a \in ledger}
  BY <1>2, <1>3
<1> QED
  BY <1>4, <1>5, <1>6
     DEF Sound, BranchLedgersProved, BranchLedgersOnce, BranchResult

LEMMA CoreStep ==
    ASSUME TypeOK, Core
    PROVE  /\ \A q \in Queries : br'[q].arts = br[q].arts
           /\ UNCHANGED <<ledger, proved>>
<1>1. PICK B \in (SUBSET Queries) \ {{}} :
         \E choice \in [B -> {"reuse", "revise", "gap", "error"}],
            sql \in [B \cap CoreSql -> Sqls \cup {NoSql}] :
               Call(B, choice, sql)
  BY DEF Core
<1> QED
  BY <1>1, CallType DEF Call, parentVars

\* every step but a verification and an adoption leaves the ledgers as they are
LEMMA SoundStep == TypeOK /\ Ready /\ Sound /\ [Next]_vars => Sound'
<1> SUFFICES ASSUME TypeOK, Ready, Sound, [Next]_vars PROVE Sound'
  OBVIOUS
<1>1. ASSUME \A q \in Queries : br'[q].arts = br[q].arts,
             UNCHANGED <<ledger, proved>>
      PROVE  Sound'
  BY <1>1 DEF Sound, LedgerSound, BranchLedgersProved, BranchLedgersOnce,
             BranchResult, ResultOf, IdOf
<1>2. CASE Core
  BY <1>1, <1>2, CoreStep
<1>3. CASE Return
  BY <1>1, <1>3 DEF Return, parentVars
<1>4. ASSUME NEW q \in Queries, Thread(q) PROVE Sound'
  <2>1. CASE Quiet(q)
    BY <1>1, <2>1, QuietStep
  <2>2. CASE Submit(q)
    <3>1. UNCHANGED <<ledger, proved>>
      BY <2>2 DEF Submit, SubmitExhausted, SubmitReused, SubmitNoProgress,
         SubmitRejected, SubmitAccepted, SubmitBroken, Submitted, parentVars
    <3> QED
      BY <1>1, <2>2, <3>1, SubmitType
  <2>3. CASE Reserve(q) \/ Execute(q) \/ VerifyGapped(q)
    <3>1. UNCHANGED <<ledger, proved>>
      BY <2>3 DEF Reserve, Execute, VerifyGapped, parentVars
    <3> QED
      BY <1>1, <2>3, <3>1, RunType
  <2>4. CASE VerifyPassed(q)
    BY <2>4, VerifyPassedSound
  <2>5. CASE Commit(q)
    BY <2>5, CommitSound
  <2>6. CASE Attach(q)
    BY <2>6, AttachSound
  <2> QED
    BY <1>4, <2>1, <2>2, <2>3, <2>4, <2>5, <2>6, ThreadCases
<1>5. CASE UNCHANGED vars
  BY <1>1, <1>5 DEF vars
<1> QED
  BY <1>2, <1>3, <1>4, <1>5 DEF Next

-------------------------------------------------------------------------------
(* The theorems *)

LEMMA InitInvariant == Init => TypeOK /\ Ready /\ Sound
<1>1. Init => Ready /\ Sound
  BY DEF Init, Ready, Sound, LedgerSound, BranchLedgersProved,
         BranchLedgersOnce, NewBranch
<1> QED
  BY <1>1, InitType

LEMMA Invariance == Spec => [](TypeOK /\ Ready /\ Sound)
<1>1. TypeOK /\ Ready /\ Sound /\ [Next]_vars => (TypeOK /\ Ready /\ Sound)'
  BY TypeStep, ReadyStep, SoundStep
<1> QED
  BY InitInvariant, <1>1, PTL DEF Spec

\* Every variable of a query_batch session keeps its range; an artifact always
\* names the plan that was executed for it.
THEOREM TypeCorrect == Spec => []TypeOK
BY Invariance, PTL

\* adopt_verified_branches, for every number of branches, workers, calls and
\* repairs: every entry of the parent ledger rests on evidence that passed for
\* its execution, and no artifact is adopted twice.
THEOREM LedgerIsSound == Spec => []LedgerSound
<1>1. Sound => LedgerSound
  BY DEF Sound
<1> QED
  BY Invariance, <1>1, PTL

\* The parent ledger of query_batch implements the abstract verified ledger:
\* whatever siblings adopt between a snapshot and a commit, entries are proved
\* before they are published, and are never lost, replaced or repeated.
THEOREM Refinement == Spec => ImplementsVerifiedLedger
<1> DEFINE P == {ResultOf(a) : a \in ledger}
<1>1. Init => Promise!Init
  BY DEF Init, Promise!Init
<1>2. ASSUME TypeOK, Ready, Sound, Sound', [Next]_vars
      PROVE  [Promise!Next]_(Promise!ledgerVars)
  <2>1. ASSUME UNCHANGED <<ledger, proved>>
        PROVE  UNCHANGED Promise!ledgerVars
    BY <2>1 DEF Promise!ledgerVars, ResultOf
  <2>2. CASE Core
    BY <1>2, <2>1, <2>2, CoreStep
  <2>3. CASE Return
    BY <2>1, <2>3 DEF Return, parentVars
  <2>4. ASSUME NEW q \in Queries, Thread(q)
        PROVE  [Promise!Next]_(Promise!ledgerVars)
    <3>1. CASE Quiet(q)
      BY <2>1, <3>1, QuietStep
    <3>2. CASE Submit(q)
      BY <2>1, <3>2 DEF Submit, SubmitExhausted, SubmitReused,
         SubmitNoProgress, SubmitRejected, SubmitAccepted, SubmitBroken,
         Submitted, parentVars
    <3>3. CASE Reserve(q) \/ Execute(q) \/ VerifyGapped(q)
      BY <2>1, <3>3 DEF Reserve, Execute, VerifyGapped, parentVars
    <3>4. CASE VerifyPassed(q)
      <4>1. proved \subseteq proved' /\ ledger' = ledger
        BY <3>4 DEF VerifyPassed, parentVars
      <4>2. P' = P
        BY <4>1 DEF ResultOf
      <4> QED
        BY <4>1, <4>2 DEF Promise!Next, Promise!Prove
    <3>5. CASE Commit(q)
      <4>1. ledger \subseteq ledger' /\ proved' = proved
        BY <3>5 DEF Commit
      <4>2. P \subseteq P'
        BY <4>1 DEF ResultOf
      <4>3. P' \subseteq proved
        BY <1>2, <4>1 DEF Sound, LedgerSound
      <4>4. ASSUME NEW r \in P', NEW s \in P', Promise!SameArtifact(r, s)
            PROVE  r = s
        <5>1. PICK a \in ledger' : r = ResultOf(a)
          BY DEF ResultOf
        <5>2. PICK c \in ledger' : s = ResultOf(c)
          BY DEF ResultOf
        <5>3. IdOf(a) = IdOf(c)
          BY <4>4, <5>1, <5>2 DEF Promise!SameArtifact, ResultOf, IdOf
        <5>4. a = c
          BY <1>2, <5>3 DEF Sound, LedgerSound, IdOf
        <5> QED
          BY <5>1, <5>2, <5>4
      <4>5. Promise!OncePerArtifact(P')
        BY <4>4 DEF Promise!OncePerArtifact
      <4> QED
        BY <4>1, <4>2, <4>3, <4>5 DEF Promise!Next, Promise!Publish
    <3>6. CASE Attach(q)
      <4>1. P' = P
        BY <1>2, <3>6, AttachSound DEF ResultOf
      <4>2. proved' = proved
        BY <3>6 DEF Attach
      <4> QED
        BY <4>1, <4>2 DEF Promise!ledgerVars
    <3> QED
      BY <2>4, <3>1, <3>2, <3>3, <3>4, <3>5, <3>6, ThreadCases
  <2>5. CASE UNCHANGED vars
    BY <2>1, <2>5 DEF vars
  <2> QED
    BY <1>2, <2>2, <2>3, <2>4, <2>5 DEF Next
<1> QED
  BY <1>1, <1>2, Invariance, PTL DEF Spec, ImplementsVerifiedLedger, Promise!Spec

-------------------------------------------------------------------------------
(* What one step of a thread may touch *)

\* the places a thread may go to from where it stands
After(p) ==
    IF p = "queued"   THEN {"attempt"}
    ELSE IF p = "attempt"  THEN {"reserve", "close", "done"}
    ELSE IF p = "close"    THEN {"repair", "done"}
    ELSE IF p = "repair"   THEN {"attempt", "done"}
    ELSE IF p = "reserve"  THEN {"execute", "terminal", "done"}
    ELSE IF p = "execute"  THEN {"verify", "close", "terminal"}
    ELSE IF p = "terminal" THEN {"done"}
    ELSE IF p = "verify"   THEN {"snapshot", "close"}
    ELSE IF p = "snapshot" THEN {"commit", "done"}
    ELSE IF p = "commit"   THEN {"record", "done"}
    ELSE IF p = "record"   THEN {"attach", "done"}
    ELSE IF p = "attach"   THEN {"attach", "done"}
    ELSE {}

\* everything that is kept for another query
Apart(p) ==
    /\ pc'[p] = pc[p] /\ todo'[p] = todo[p] /\ snap'[p] = snap[p]
    /\ repairs'[p] = repairs[p] /\ verdict'[p] = verdict[p]

\* A thread moves along, and leaves the other threads and the call alone.
LEMMA ThreadFrame ==
    ASSUME TypeOK, NEW q \in Queries, Thread(q)
    PROVE  /\ pc'[q] \in After(pc[q])
           /\ \A p \in Queries \ {q} : Apart(p)
           /\ UNCHANGED <<calls, batch>>
           /\ reg' \subseteq reg
<1> USE DEF TypeOK, Apart, After, Settle, AdoptionRaises, Submitted
<1>1. CASE Start(q)
  BY <1>1 DEF Start
<1>2. CASE NothingToRun(q)
  BY <1>2 DEF NothingToRun
<1>3. CASE BeginCompiled(q)
  BY <1>3 DEF BeginCompiled
<1>4. CASE Submit(q)
  BY <1>4 DEF Submit, SubmitExhausted, SubmitReused, SubmitNoProgress, SubmitRejected,
     SubmitAccepted, SubmitBroken
<1>5. CASE Close(q)
  BY <1>5 DEF Close
<1>6. CASE Repair(q)
  BY <1>6 DEF Repair
<1>7. CASE Reserve(q)
  BY <1>7 DEF Reserve
<1>8. CASE ReserveBranchDenied(q)
  BY <1>8 DEF ReserveBranchDenied
<1>9. CASE ReserveRunDenied(q)
  BY <1>9 DEF ReserveRunDenied
<1>10. CASE ExecuteRaises(q)
  BY <1>10 DEF ExecuteRaises
<1>11. CASE Execute(q)
  BY <1>11 DEF Execute
<1>12. CASE Terminal(q)
  BY <1>12 DEF Terminal
<1>13. CASE VerifyPassed(q)
  BY <1>13 DEF VerifyPassed
<1>14. CASE VerifyGapped(q)
  BY <1>14 DEF VerifyGapped
<1>15. CASE Snapshot(q)
  BY <1>15 DEF Snapshot
<1>16. CASE SnapshotRaises(q)
  BY <1>16 DEF SnapshotRaises
<1>17. CASE PublishRaises(q)
  BY <1>17 DEF PublishRaises
<1>18. CASE CommitStale(q)
  BY <1>18 DEF CommitStale
<1>19. CASE Commit(q)
  BY <1>19 DEF Commit
<1>20. CASE Record(q)
  BY <1>20 DEF Record
<1>21. CASE Attach(q)
  BY <1>21 DEF Attach
<1> QED
  BY <1>1, <1>2, <1>3, <1>4, <1>5, <1>6, <1>7, <1>8, <1>9, <1>10, <1>11, <1>12, <1>13,
     <1>14, <1>15, <1>16, <1>17, <1>18, <1>19, <1>20, <1>21 DEF Thread

\* Only a query of the call in progress has a thread.
Placed == \A q \in Queries : pc[q] # "idle" => q \in batch

LEMMA PlacedStep == TypeOK /\ Placed /\ [Next]_vars => Placed'
<1> SUFFICES ASSUME TypeOK, Placed, [Next]_vars PROVE Placed'
  OBVIOUS
<1>1. CASE Core
  BY <1>1 DEF Core, Call, Placed, TypeOK
<1>2. CASE Return
  BY <1>2 DEF Return, Placed
<1>3. ASSUME NEW q \in Queries, Thread(q) PROVE Placed'
  <2>1. pc[q] # "idle"
    BY <1>3, ThreadFrame DEF After
  <2> QED
    BY <1>3, <2>1, ThreadFrame DEF Placed, Apart
<1>4. CASE UNCHANGED vars
  BY <1>4 DEF vars, Placed
<1> QED
  BY <1>1, <1>2, <1>3, <1>4 DEF Next

-------------------------------------------------------------------------------
(* The repair loop *)

\* A branch whose candidate was repaired has left the registry, and its thread
\* can only give up.
RepairsIdle ==
    \A q \in Queries : repairs[q] > 0 => pc[q] \in {"attempt", "done"} /\ q \notin reg

\* the registry is left before the repair worker is asked
Leaves ==
    /\ \A q \in Queries : pc[q] = "repair" => q \notin reg
    /\ RepairsIdle

LEMMA LeavesStep == TypeOK /\ Placed /\ Leaves /\ [Next]_vars => Leaves'
<1> SUFFICES ASSUME TypeOK, Placed, Leaves, [Next]_vars PROVE Leaves'
  OBVIOUS
<1>0. \A q \in Queries : repairs[q] \in Nat
  BY DEF TypeOK
<1>1. CASE Core
  <2>1. /\ \A q \in Queries : pc[q] = "idle" /\ ~(repairs[q] > 0)
        /\ repairs' = repairs
    BY <1>1 DEF Core, Call, Placed, Leaves, RepairsIdle
  <2>2. \A q \in Queries : pc'[q] \in {"queued", "done", "idle"}
    BY <1>1, <2>1 DEF Core, Call, TypeOK
  <2> QED
    BY <2>1, <2>2 DEF Leaves, RepairsIdle
<1>2. CASE Return
  BY <1>2 DEF Return, Leaves, RepairsIdle
<1>3. ASSUME NEW q \in Queries, Thread(q) PROVE Leaves'
  <2>1. /\ pc'[q] \in After(pc[q]) /\ reg' \subseteq reg
        /\ \A p \in Queries \ {q} : pc'[p] = pc[p] /\ repairs'[p] = repairs[p]
    BY <1>3, ThreadFrame DEF Apart
  <2>2. CASE Repair(q)
    <3>1. /\ pc[q] = "repair" /\ pc'[q] \in {"attempt", "done"} /\ reg' = reg
      BY <2>1, <2>2 DEF Repair, After
    <3> QED
      BY <2>1, <3>1 DEF Leaves, RepairsIdle
  <2>3. CASE ~Repair(q)
    <3>1. repairs' = repairs
      BY <1>3, <2>3 DEF Thread, Start, NothingToRun, BeginCompiled, Submit, SubmitExhausted,
         SubmitReused, SubmitNoProgress, SubmitRejected, SubmitAccepted, SubmitBroken,
         Submitted, Close, Reserve, ReserveBranchDenied, ReserveRunDenied, ExecuteRaises,
         Execute, Terminal, VerifyPassed, VerifyGapped, Snapshot, SnapshotRaises,
         PublishRaises, CommitStale, Commit, Record, Attach, AdoptionRaises
    <3>2. pc'[q] = "repair" => q \notin reg'
      <4>1. pc'[q] = "repair" => Close(q)
        BY <1>3, <2>1, <2>3 DEF Thread, After, Start, NothingToRun, BeginCompiled, Submit,
           Reserve, ReserveBranchDenied, ReserveRunDenied, ExecuteRaises,
           Execute, Terminal, VerifyPassed, VerifyGapped, Snapshot, SnapshotRaises,
           PublishRaises, CommitStale, Commit, Record, Attach
      <4> QED
        BY <4>1 DEF Close
    <3>3. repairs[q] > 0 => pc'[q] = "done"
      <4>1. repairs[q] > 0 => pc[q] = "attempt" /\ q \notin reg
        BY <2>1 DEF Leaves, RepairsIdle, After
      <4>2. repairs[q] > 0 => NothingToRun(q)
        BY <1>3, <2>3, <4>1 DEF Thread, Start, BeginCompiled, Submit, Close,
           Reserve, ReserveBranchDenied, ReserveRunDenied, ExecuteRaises,
           Execute, Terminal, VerifyPassed, VerifyGapped, Snapshot, SnapshotRaises,
           PublishRaises, CommitStale, Commit, Record, Attach
      <4> QED
        BY <4>2 DEF NothingToRun, Settle, TypeOK
    <3> QED
      BY <2>1, <3>1, <3>2, <3>3 DEF Leaves, RepairsIdle
  <2> QED
    BY <2>2, <2>3
<1>4. CASE UNCHANGED vars
  BY <1>4 DEF vars, Leaves, RepairsIdle
<1> QED
  BY <1>1, <1>2, <1>3, <1>4 DEF Next

LEMMA Loop == Spec => [](TypeOK /\ Ready /\ Sound /\ Placed /\ Leaves)
<1>1. Init => Placed /\ Leaves
  BY DEF Init, Placed, Leaves, RepairsIdle
<1>2. TypeOK /\ Placed /\ Leaves /\ [Next]_vars => Placed' /\ Leaves'
  BY PlacedStep, LeavesStep
<1> QED
  BY Invariance, <1>1, <1>2, PTL DEF Spec

\* The internal repair of execute_batch has no effect, for any number of repairs
\* allowed: execute_query_batch has taken the branch out of parallel_branches, so
\* a repaired candidate is never submitted, reserved or executed.
THEOREM RepairsNeverRun == Spec => []RepairsIdle
<1>1. Leaves => RepairsIdle
  BY DEF Leaves
<1> QED
  BY Loop, <1>1, PTL

-------------------------------------------------------------------------------
(* One pool thread *)

\* While one thread works no other is between its snapshot and its commit.
OneThread ==
    /\ \A p, q \in Busy : p = q
    /\ \A q \in Queries : pc[q] = "commit" => ParentUnchanged(q)
    /\ NoVerifiedBranchLost

LEMMA OneThreadStep ==
    ASSUME MaxWorkers = 1, IsFiniteSet(Queries)
    PROVE  TypeOK /\ Placed /\ OneThread /\ [Next]_vars => OneThread'
<1> SUFFICES ASSUME TypeOK, Placed, OneThread, [Next]_vars PROVE OneThread'
  OBVIOUS
<1>0. batch \subseteq Queries
  BY DEF TypeOK
<1>1. CASE Core
  <2>1. \A q \in Queries : pc'[q] \in {"queued", "done", "idle"}
    BY <1>1 DEF Core, Call, Placed, TypeOK
  <2>2. \A q \in Queries : verdict'[q] # "STALE"
    BY <1>1 DEF Core, Call, OneThread, NoVerifiedBranchLost, TypeOK
  <2>3. \A q \in batch' : pc'[q] \in {"queued", "done"}
    BY <1>1 DEF Core, Call, TypeOK
  <2> QED
    BY <2>1, <2>2, <2>3 DEF OneThread, NoVerifiedBranchLost, Busy
<1>2. CASE Return
  BY <1>2 DEF Return, OneThread, NoVerifiedBranchLost, Busy
<1>3. ASSUME NEW q \in Queries, Thread(q) PROVE OneThread'
  <2>1. /\ pc'[q] \in After(pc[q]) /\ batch' = batch
        /\ \A p \in Queries \ {q} : /\ pc'[p] = pc[p] /\ snap'[p] = snap[p]
                                    /\ verdict'[p] = verdict[p]
    BY <1>3, ThreadFrame DEF Apart
  <2>2. pc[q] # "idle" /\ q \in batch
    BY <2>1 DEF After, Placed
  <2>3. \A p \in Busy : p = q
    <3>1. CASE pc[q] = "queued"
      <4>1. Cardinality(Busy) < 1
        BY <1>3, <3>1 DEF Thread, Start, NothingToRun, BeginCompiled, Submit, Close, Repair,
           Reserve, ReserveBranchDenied, ReserveRunDenied, ExecuteRaises,
           Execute, Terminal, VerifyPassed, VerifyGapped, Snapshot, SnapshotRaises,
           PublishRaises, CommitStale, Commit, Record, Attach
      <4>2. IsFiniteSet(Busy)
        BY <1>0, FS_Subset DEF Busy
      <4>3. Cardinality(Busy) = 0
        BY <4>1, <4>2, FS_CardinalityType
      <4>4. Busy = {}
        BY <4>2, <4>3, FS_EmptySet
      <4> QED
        BY <4>4
    <3>2. CASE pc[q] # "queued"
      <4>1. q \in Busy
        BY <2>1, <2>2, <3>2 DEF Busy, After
      <4> QED
        BY <4>1 DEF OneThread
    <3> QED
      BY <3>1, <3>2
  <2>4. \A p \in Busy' : p = q
    BY <1>0, <2>1, <2>3 DEF Busy
  <2>5. \A p \in Queries \ {q} : pc'[p] # "commit"
    <3>1. ASSUME NEW p \in Queries \ {q}, pc[p] = "commit"
          PROVE  FALSE
      <4>1. p \in Busy
        BY <3>1 DEF Placed, Busy
      <4> QED
        BY <2>3, <4>1
    <3> QED
      BY <2>1, <3>1
  <2>6. pc'[q] = "commit" => ParentUnchanged(q)'
    <3>1. pc'[q] = "commit" => Snapshot(q)
      <4>1. pc'[q] = "commit" => pc[q] = "snapshot"
        BY <2>1 DEF After
      <4>2. pc[q] = "snapshot" => Snapshot(q) \/ SnapshotRaises(q)
        BY <1>3 DEF Thread, Start, NothingToRun, BeginCompiled, Submit, Close,
           Repair, Reserve, ReserveBranchDenied, ReserveRunDenied, ExecuteRaises,
           Execute, Terminal, VerifyPassed, VerifyGapped,
           PublishRaises, CommitStale, Commit, Record, Attach
      <4>3. SnapshotRaises(q) => pc'[q] = "done"
        BY DEF SnapshotRaises, AdoptionRaises, Settle, TypeOK
      <4> QED
        BY <4>1, <4>2, <4>3
    <3>2. Snapshot(q) => snap'[q] = ParentNow /\ UNCHANGED <<gen, rev, ledger>>
      BY DEF Snapshot, parentVars, TypeOK
    <3> QED
      BY <3>1, <3>2 DEF ParentUnchanged, ParentNow, LedgerIds
  <2>7. verdict'[q] # "STALE"
    <3>1. ~CommitStale(q)
      BY DEF CommitStale, OneThread
    <3>2. AfterGap("SQL_GAP") # "STALE" /\ AfterGap("BINDING_GAP") # "STALE"
          /\ \A gap : AfterGap(gap) # "STALE"
      BY DEF AfterGap
    <3>3. verdict[q] # "STALE"
      BY DEF OneThread, NoVerifiedBranchLost
    <3>4. CASE Submit(q)
      BY <3>2, <3>3, <3>4 DEF Submit, SubmitExhausted, SubmitReused, SubmitNoProgress,
         SubmitRejected, SubmitAccepted, SubmitBroken, Submitted, TypeOK
    <3>5. CASE ~Submit(q)
      BY <1>3, <3>1, <3>3, <3>5 DEF Thread, Start, NothingToRun, BeginCompiled, Close, Repair,
         Reserve, ReserveBranchDenied, ReserveRunDenied, ExecuteRaises,
         Execute, Terminal, VerifyPassed, VerifyGapped, Snapshot, SnapshotRaises,
         PublishRaises, Commit, Record, Attach, AdoptionRaises, Settle, TypeOK
    <3> QED
      BY <3>4, <3>5
  <2> QED
    BY <2>1, <2>4, <2>5, <2>6, <2>7 DEF OneThread, NoVerifiedBranchLost
<1>4. CASE UNCHANGED vars
  BY <1>4 DEF vars, OneThread, NoVerifiedBranchLost, Busy, ParentUnchanged, ParentNow,
     LedgerIds
<1> QED
  BY <1>1, <1>2, <1>3, <1>4 DEF Next

\* With max_batch_workers = 1 no branch is refused as PARENT_VERIFIED_LEDGER_STALE:
\* the conflict that batch_stale shows needs two branches in adoption at a time.
THEOREM SerialPoolLosesNothing ==
    ASSUME MaxWorkers = 1, IsFiniteSet(Queries)
    PROVE  Spec => []NoVerifiedBranchLost
<1>1. Init => OneThread
  BY DEF Init, OneThread, NoVerifiedBranchLost, Busy
<1>2. TypeOK /\ Placed /\ OneThread /\ [Next]_vars => OneThread'
  BY OneThreadStep
<1>3. OneThread => NoVerifiedBranchLost
  BY DEF OneThread
<1> QED
  BY Loop, <1>1, <1>2, <1>3, PTL DEF Spec

-------------------------------------------------------------------------------
(* The rows of artifacts that cover goals *)

\* While the goals of an adoption are being attached, the reported artifact is
\* one whose rows are the verified ones.
Attaching ==
    /\ \A q \in Queries : todo[q] # {} => pc[q] \in {"record", "attach"}
    /\ \A q \in Queries : LatestId(q) \in todo[q] =>
          \A a \in ledger : IdOf(a) = LatestId(q) => a.rows = a.exe
    /\ \A q \in Queries : \A id \in todo[q] : id.query = q

\* what is adopted now, with the rows of the execution that was published
LEMMA AdoptedRows ==
    ASSUME TypeOK, Sound, NEW q \in Queries, Publishable(q), NEW x \in Adopted(q)
    PROVE  /\ x.goals = FALSE /\ IdOf(x).query = q /\ IdOf(x) \notin LedgerIds
           /\ IdOf(x) = LatestId(q) => x.rows = x.exe
<1>1. PICK a \in br[q].arts :
         /\ x = [query |-> q, gen |-> a.gen, sql |-> a.sql, exe |-> a.exe,
                 rows |-> br[q].pending, goals |-> FALSE]
         /\ IdOf(x) = [query |-> q, gen |-> a.gen, sql |-> a.sql]
  BY AdoptedFrom
<1>2. PICK c \in br[q].arts : c.gen = br[q].gen /\ c.sql = br[q].latest /\ c.exe = br[q].pending
  BY DEF Publishable, AuthorityOf, Current
<1>3. IdOf(x) = LatestId(q) => a.gen = c.gen /\ a.sql = c.sql
  BY <1>1, <1>2 DEF LatestId
<1>4. IdOf(x) = LatestId(q) => a = c
  BY <1>3 DEF Sound, BranchLedgersOnce
<1>5. IdOf(x) \notin LedgerIds
  BY AdoptedFrom
<1> QED
  BY <1>1, <1>2, <1>4, <1>5

LEMMA CommitRows ==
    ASSUME TypeOK, Sound, GoalsOnVerifiedRows, Attaching, NEW q \in Queries, Commit(q)
    PROVE  GoalsOnVerifiedRows' /\ Attaching'
<1>1. /\ ledger' = ledger \cup Adopted(q) /\ Publishable(q)
      /\ todo' = [todo EXCEPT ![q] = {IdOf(a) : a \in Adopted(q)}]
      /\ pc' = [pc EXCEPT ![q] = "record"]
  BY DEF Commit
<1>2. \A x \in Adopted(q) : /\ x.goals = FALSE /\ IdOf(x).query = q /\ IdOf(x) \notin LedgerIds
                            /\ IdOf(x) = LatestId(q) => x.rows = x.exe
  BY <1>1, AdoptedRows
<1>3. GoalsOnVerifiedRows'
  BY <1>1, <1>2 DEF GoalsOnVerifiedRows
<1>4. /\ \A p \in Queries : LatestId(p)' = LatestId(p)
      /\ \A p \in Queries : LatestId(p).query = p
  <2>1. br[q] \in Branches
    BY DEF TypeOK
  <2>2. br'[q].gen = br[q].gen /\ br'[q].latest = br[q].latest
    BY <2>1 DEF Commit, TypeOK, Branches
  <2>3. \A p \in Queries \ {q} : br'[p] = br[p]
    BY CommitType
  <2> QED
    BY <2>2, <2>3 DEF LatestId
<1>5. ASSUME NEW p \in Queries, LatestId(p) \in todo'[p], NEW a \in ledger',
             IdOf(a) = LatestId(p)
      PROVE  a.rows = a.exe
  <2>1. CASE p = q
    <3>1. PICK x \in Adopted(q) : LatestId(q) = IdOf(x)
      BY <1>1, <1>5, <2>1 DEF TypeOK
    <3>2. LatestId(q) \notin LedgerIds
      BY <1>2, <3>1
    <3>3. a \in Adopted(q)
      BY <1>1, <1>5, <2>1, <3>2 DEF LedgerIds
    <3> QED
      BY <1>2, <1>5, <2>1, <3>3
  <2>2. CASE p # q
    <3>1. LatestId(p) \in todo[p]
      BY <1>1, <1>5, <2>2 DEF TypeOK
    <3>2. a \notin Adopted(q)
      BY <1>2, <1>4, <1>5, <2>2
    <3> QED
      BY <1>1, <1>5, <3>1, <3>2 DEF Attaching
  <2> QED
    BY <2>1, <2>2
<1>6. \A p \in Queries : todo'[p] # {} => pc'[p] \in {"record", "attach"}
  BY <1>1 DEF Attaching, TypeOK
<1>7. \A p \in Queries : \A id \in todo'[p] : id.query = p
  BY <1>1, <1>2 DEF Attaching, TypeOK
<1>8. Attaching'
  <2> SUFFICES ASSUME NEW p \in Queries, LatestId(p)' \in todo'[p], NEW a \in ledger',
                      IdOf(a) = LatestId(p)'
               PROVE  a.rows = a.exe
    BY <1>6, <1>7 DEF Attaching, IdOf
  <2> QED
    BY <1>4, <1>5
<1> QED
  BY <1>3, <1>8

LEMMA AttachRows ==
    ASSUME TypeOK, GoalsOnVerifiedRows, Attaching, NEW q \in Queries, Attach(q)
    PROVE  GoalsOnVerifiedRows' /\ Attaching'
<1>1. PICK id \in todo[q] :
         /\ ledger' = {IF IdOf(a) = id
                       THEN [a EXCEPT !.goals = (id = LatestId(q))] ELSE a : a \in ledger}
         /\ todo' = [todo EXCEPT ![q] = @ \ {id}]
         /\ pc' = [pc EXCEPT ![q] = IF todo[q] = {id} THEN "done" ELSE "attach"]
  BY DEF Attach
<1> DEFINE given == (id = LatestId(q))
<1>2. ASSUME NEW a \in ledger'
      PROVE  \E x \in ledger :
                /\ IdOf(a) = IdOf(x) /\ a.rows = x.rows /\ a.exe = x.exe
                /\ a.goals => x.goals \/ (IdOf(x) = id /\ id = LatestId(q))
  <2>1. PICK x \in ledger : a = IF IdOf(x) = id THEN [x EXCEPT !.goals = given] ELSE x
    BY <1>1
  <2>2. x \in Artifacts
    BY DEF TypeOK
  <2>3. CASE IdOf(x) = id
    <3>1. a = [x EXCEPT !.goals = given]
      BY <2>1, <2>3
    <3>2. a.rows = x.rows /\ a.exe = x.exe /\ a.goals = given /\ IdOf(a) = IdOf(x)
      BY <2>2, <3>1 DEF Artifacts, IdOf
    <3> QED
      BY <2>3, <3>2
  <2>4. CASE IdOf(x) # id
    BY <2>1, <2>4
  <2> QED
    BY <2>3, <2>4
<1>3. GoalsOnVerifiedRows'
  <2> SUFFICES ASSUME NEW a \in ledger', a.goals PROVE a.rows = a.exe
    BY DEF GoalsOnVerifiedRows
  <2> QED
    BY <1>1, <1>2 DEF GoalsOnVerifiedRows, Attaching
<1>4. \A p \in Queries : LatestId(p)' = LatestId(p)
  BY DEF Attach, LatestId
<1>5. \A p \in Queries : todo'[p] \subseteq todo[p]
  BY <1>1 DEF TypeOK
<1>6. Attaching'
  <2>1. \A p \in Queries : todo'[p] # {} => pc'[p] \in {"record", "attach"}
    BY <1>1 DEF Attaching, TypeOK
  <2>2. ASSUME NEW p \in Queries, LatestId(p) \in todo'[p], NEW a \in ledger',
               IdOf(a) = LatestId(p)
        PROVE  a.rows = a.exe
    BY <1>2, <1>5, <2>2 DEF Attaching
  <2>3. \A p \in Queries : \A i \in todo'[p] : i.query = p
    BY <1>5 DEF Attaching
  <2> SUFFICES ASSUME NEW p \in Queries, LatestId(p)' \in todo'[p], NEW a \in ledger',
                      IdOf(a) = LatestId(p)'
               PROVE  a.rows = a.exe
    BY <2>1, <2>3 DEF Attaching, IdOf
  <2> QED
    BY <1>4, <2>2
<1> QED
  BY <1>3, <1>6

LEMMA RowsStep ==
    TypeOK /\ Ready /\ Sound /\ Placed /\ GoalsOnVerifiedRows /\ Attaching /\ [Next]_vars
        => GoalsOnVerifiedRows' /\ Attaching'
<1> SUFFICES ASSUME TypeOK, Ready, Sound, Placed, GoalsOnVerifiedRows, Attaching, [Next]_vars
             PROVE  GoalsOnVerifiedRows' /\ Attaching'
  OBVIOUS
<1>0. ASSUME UNCHANGED <<todo, ledger>>,
             \A p \in Queries : todo[p] # {} => pc'[p] \in {"record", "attach"},
             \A p \in Queries : todo[p] # {} => LatestId(p)' = LatestId(p)
      PROVE  GoalsOnVerifiedRows' /\ Attaching'
  <2>1. GoalsOnVerifiedRows'
    BY <1>0 DEF GoalsOnVerifiedRows
  <2>2. ASSUME NEW p \in Queries, LatestId(p)' \in todo[p], NEW a \in ledger,
               IdOf(a) = LatestId(p)'
        PROVE  a.rows = a.exe
    BY <1>0, <2>2 DEF Attaching
  <2> QED
    BY <1>0, <2>1, <2>2 DEF Attaching, IdOf
<1>1. CASE Core
  <2>1. \A p \in Queries : todo[p] = {}
    BY <1>1 DEF Core, Call, Placed, Attaching
  <2>2. UNCHANGED <<todo, ledger>>
    BY <1>1 DEF Core, Call, parentVars
  <2> QED
    BY <1>0, <2>1, <2>2
<1>2. CASE Return
  <2>1. \A p \in Queries : todo[p] = {}
    BY <1>2 DEF Return, Placed, Attaching
  <2>2. UNCHANGED <<todo, ledger>>
    BY <1>2 DEF Return, parentVars
  <2> QED
    BY <1>0, <2>1, <2>2
<1>3. ASSUME NEW q \in Queries, Thread(q), ~Commit(q), ~Attach(q)
      PROVE  GoalsOnVerifiedRows' /\ Attaching'
  <2>1. /\ \A p \in Queries \ {q} : pc'[p] = pc[p]
        /\ pc'[q] \in After(pc[q])
    BY <1>3, ThreadFrame DEF Apart
  <2>2. UNCHANGED <<todo, ledger>>
    BY <1>3 DEF Thread, Start, NothingToRun, BeginCompiled, Submit, SubmitExhausted,
       SubmitReused, SubmitNoProgress, SubmitRejected, SubmitAccepted, SubmitBroken,
       Submitted, Close, Repair, Reserve, ReserveBranchDenied, ReserveRunDenied,
       ExecuteRaises, Execute, Terminal, VerifyPassed, VerifyGapped, Snapshot,
       SnapshotRaises, PublishRaises, CommitStale, Record, AdoptionRaises, parentVars
  <2>3. \A p \in Queries \ {q} : br'[p] = br[p]
    <3>1. CASE Quiet(q)
      BY <3>1, QuietStep
    <3>2. CASE Submit(q)
      BY <3>2 DEF Submit, SubmitExhausted, SubmitReused, SubmitNoProgress, SubmitRejected,
         SubmitAccepted, SubmitBroken, Submitted, TypeOK
    <3>3. CASE Reserve(q) \/ Execute(q) \/ VerifyGapped(q) \/ VerifyPassed(q)
      BY <3>3 DEF Reserve, Execute, VerifyGapped, VerifyPassed, TypeOK
    <3> QED
      BY <1>3, <3>1, <3>2, <3>3, ThreadCases
  <2>4. CASE todo[q] = {}
    <3>1. \A p \in Queries : todo[p] # {} => p # q
      BY <2>4
    <3> QED
      BY <1>0, <2>1, <2>2, <2>3, <3>1 DEF Attaching, LatestId
  <2>5. CASE todo[q] # {}
    <3>1. Record(q)
      <4>1. pc[q] \in {"record", "attach"}
        BY <2>5 DEF Attaching
      <4> QED
        BY <1>3, <4>1 DEF Thread, Start, NothingToRun, BeginCompiled, Submit, Close,
           Repair, Reserve, ReserveBranchDenied, ReserveRunDenied, ExecuteRaises,
           Execute, Terminal, VerifyPassed, VerifyGapped, Snapshot, SnapshotRaises,
           PublishRaises, CommitStale
    <3>2. br' = br /\ pc'[q] = "attach"
      BY <2>5, <3>1 DEF Record, TypeOK
    <3> QED
      BY <1>0, <2>1, <2>2, <3>2 DEF Attaching, LatestId
  <2> QED
    BY <2>4, <2>5
<1>4. CASE UNCHANGED vars
  BY <1>0, <1>4 DEF vars, Attaching, LatestId
<1>5. ASSUME NEW q \in Queries, Commit(q) \/ Attach(q)
      PROVE  GoalsOnVerifiedRows' /\ Attaching'
  BY <1>5, CommitRows, AttachRows
<1> QED
  BY <1>1, <1>2, <1>3, <1>4, <1>5 DEF Next

\* adopt_verified_branches copies one run result into all artifacts it adopts, so
\* some carry rows they were not verified on; an artifact that covers goals never
\* does: goals go to the artifact that held the publication authority.
THEOREM GoalsRestOnVerifiedRows == Spec => []GoalsOnVerifiedRows
<1>1. Init => GoalsOnVerifiedRows /\ Attaching
  BY DEF Init, GoalsOnVerifiedRows, Attaching
<1> QED
  BY Loop, <1>1, RowsStep, PTL DEF Spec

-------------------------------------------------------------------------------
(* A call comes to its end *)

\* how far a thread is from the end of its attempt
Rank(p) ==
    IF p = "queued"   THEN 13
    ELSE IF p = "attempt"  THEN 12
    ELSE IF p = "reserve"  THEN 11
    ELSE IF p = "execute"  THEN 10
    ELSE IF p = "terminal" THEN 9
    ELSE IF p = "verify"   THEN 8
    ELSE IF p = "snapshot" THEN 7
    ELSE IF p = "commit"   THEN 6
    ELSE IF p = "record"   THEN 5
    ELSE IF p = "attach"   THEN 4
    ELSE IF p = "close"    THEN 3
    ELSE IF p = "repair"   THEN 2
    ELSE 0

\* how far the thread of q is from its end: the attempt after a repair is the last
Remaining(q) == IF pc[q] = "attempt" /\ repairs[q] > 0 THEN 1 ELSE Rank(pc[q])

\* one goal less to attach
AttachesOne(q) ==
    /\ pc[q] = "attach" /\ pc'[q] = "attach"
    /\ \E id \in todo[q] : todo'[q] = todo[q] \ {id}

\* Every step of a call in progress brings the thread that takes it nearer to its
\* end and no other thread further from it.
CallAdvances ==
    batch # {} /\ batch' = batch =>
        \E q \in batch : /\ Remaining(q)' < Remaining(q) \/ AttachesOne(q)
                         /\ \A p \in batch \ {q} : Remaining(p)' = Remaining(p)

\* wherever a thread goes next is nearer to the end
LEMMA RankFalls ==
    ASSUME NEW p, NEW r \in After(p), ~(p = r), ~(p = "repair" /\ r = "attempt")
    PROVE  Rank(r) < Rank(p)
<1> USE DEF After, Rank
<1>1. CASE p \in {"queued", "attempt", "close", "repair"}
  BY <1>1
<1>2. CASE p \in {"reserve", "execute", "terminal", "verify"}
  BY <1>2
<1>3. CASE p \in {"snapshot", "commit", "record", "attach"}
  BY <1>3
<1> QED
  BY <1>1, <1>2, <1>3

LEMMA ThreadAdvances ==
    ASSUME TypeOK, Placed, Leaves, NEW q \in Queries, Thread(q)
    PROVE  q \in batch /\ (Remaining(q)' < Remaining(q) \/ AttachesOne(q))
<1>1. pc'[q] \in After(pc[q])
  BY ThreadFrame
<1>2. q \in batch
  BY <1>1 DEF After, Placed
<1>3. /\ repairs[q] \in Nat
      /\ repairs[q] > 0 => pc[q] \in {"attempt", "done"} /\ q \notin reg
  BY DEF TypeOK, Leaves, RepairsIdle
<1>4. CASE Repair(q)
  <2>1. /\ pc[q] = "repair"
        /\ pc'[q] = "done" \/ (pc'[q] = "attempt" /\ repairs'[q] = repairs[q] + 1)
    BY <1>4 DEF Repair, Settle, TypeOK
  <2> QED
    BY <1>2, <1>3, <2>1 DEF Remaining, Rank
<1>5. CASE ~Repair(q)
  <2>1. repairs' = repairs
    BY <1>5 DEF Thread, Start, NothingToRun, BeginCompiled, Submit, SubmitExhausted,
       SubmitReused, SubmitNoProgress, SubmitRejected, SubmitAccepted, SubmitBroken,
       Submitted, Close, Reserve, ReserveBranchDenied, ReserveRunDenied, ExecuteRaises,
       Execute, Terminal, VerifyPassed, VerifyGapped, Snapshot, SnapshotRaises,
       PublishRaises, CommitStale, Commit, Record, Attach, AdoptionRaises
  <2>2. CASE repairs[q] > 0
    <3>1. pc[q] = "attempt" /\ q \notin reg
      BY <1>1, <1>3, <2>2 DEF After
    <3>2. NothingToRun(q)
      BY <1>5, <3>1 DEF Thread, Start, BeginCompiled, Submit, Close, Reserve,
         ReserveBranchDenied, ReserveRunDenied, ExecuteRaises, Execute, Terminal,
         VerifyPassed, VerifyGapped, Snapshot, SnapshotRaises, PublishRaises,
         CommitStale, Commit, Record, Attach
    <3>3. pc'[q] = "done"
      BY <3>2 DEF NothingToRun, Settle, TypeOK
    <3> QED
      BY <1>2, <2>2, <3>1, <3>3 DEF Remaining, Rank
  <2>3. CASE ~(repairs[q] > 0) /\ pc[q] = "attach" /\ pc'[q] = "attach"
    <3>1. Attach(q)
      BY <2>3 DEF Thread, Start, NothingToRun, BeginCompiled, Submit, Close, Repair,
         Reserve, ReserveBranchDenied, ReserveRunDenied, ExecuteRaises, Execute,
         Terminal, VerifyPassed, VerifyGapped, Snapshot, SnapshotRaises,
         PublishRaises, CommitStale, Commit, Record
    <3> QED
      BY <1>2, <2>3, <3>1 DEF Attach, AttachesOne, TypeOK
  <2>4. CASE ~(repairs[q] > 0) /\ ~(pc[q] = "attach" /\ pc'[q] = "attach")
    <3>1. Remaining(q) = Rank(pc[q]) /\ Remaining(q)' = Rank(pc'[q])
      BY <2>1, <2>4 DEF Remaining, Rank
    <3>2. pc'[q] # pc[q]
      BY <1>1, <2>4 DEF After
    <3>3. ~(pc[q] = "repair" /\ pc'[q] = "attempt")
      BY <1>5 DEF Thread, Start, NothingToRun, BeginCompiled, Submit, Close, Reserve,
         ReserveBranchDenied, ReserveRunDenied, ExecuteRaises, Execute, Terminal,
         VerifyPassed, VerifyGapped, Snapshot, SnapshotRaises, PublishRaises,
         CommitStale, Commit, Record, Attach
    <3>4. Rank(pc'[q]) < Rank(pc[q])
      BY <1>1, <3>2, <3>3, RankFalls
    <3> QED
      BY <1>2, <3>1, <3>4
  <2> QED
    BY <2>2, <2>3, <2>4
<1> QED
  BY <1>4, <1>5

\* execute_batch joins its threads; this is why the join ends: a thread only moves
\* towards the end of its attempt, a repair leads to one more attempt that gives up,
\* and no thread sends another one back.
THEOREM BatchAdvances == Spec => [][CallAdvances]_vars
<1>1. TypeOK /\ Placed /\ Leaves /\ [Next]_vars => [CallAdvances]_vars
  <2> SUFFICES ASSUME TypeOK, Placed, Leaves, Next, batch # {}, batch' = batch
               PROVE  \E q \in batch : /\ Remaining(q)' < Remaining(q) \/ AttachesOne(q)
                                       /\ \A p \in batch \ {q} : Remaining(p)' = Remaining(p)
    BY DEF CallAdvances
  <2>1. ~Core /\ ~Return
    BY DEF Core, Call, Return
  <2>2. PICK q \in Queries : Thread(q)
    BY <2>1 DEF Next
  <2>3. \A p \in Queries \ {q} : Remaining(p)' = Remaining(p)
    BY <2>2, ThreadFrame DEF Apart, Remaining, Rank
  <2>4. batch \subseteq Queries
    BY DEF TypeOK
  <2> QED
    BY <2>2, <2>3, <2>4, ThreadAdvances
<1> QED
  BY <1>1, Loop, PTL DEF Spec
===============================================================================
