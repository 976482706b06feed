---------------------------- MODULE VerifiedLedger ----------------------------
(***************************************************************************)
(* What the verified query ledger of a session promises to the answer and  *)
(* coverage gates, whatever the branches, threads and repairs behind it    *)
(* do: a result enters the ledger only after its own evidence passed, at   *)
(* most once, and never leaves it or changes.                              *)
(*                                                                         *)
(* A result is a record [query, gen, sql, exe]: the first three name the   *)
(* artifact (artifact_id hashes them), exe the execution behind its rows.  *)
(***************************************************************************)
VARIABLES
    proved,     \* results whose evidence passed
    published   \* results the parent ledger holds

ledgerVars == <<proved, published>>

SameArtifact(r, s) == r.query = s.query /\ r.gen = s.gen /\ r.sql = s.sql

OncePerArtifact(S) == \A r, s \in S : SameArtifact(r, s) => r = s

Init == proved = {} /\ published = {}

\* evidence of further executions passes
Prove ==
    /\ proved \subseteq proved'
    /\ UNCHANGED published

\* proved results become visible together
Publish ==
    /\ published \subseteq published'
    /\ published' \subseteq proved
    /\ OncePerArtifact(published')
    /\ UNCHANGED proved

Next == Prove \/ Publish

Spec == Init /\ [][Next]_ledgerVars
===============================================================================
