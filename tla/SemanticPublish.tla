---------------------------- MODULE SemanticPublish ----------------------------
(***************************************************************************)
(* The publication of a reviewed semantic asset:                           *)
(* SemanticPublishCoordinator.publish_approved advances the active files,  *)
(* the governance records, the search index and its manifest from one      *)
(* content to the next, with compensation when a step fails; a rebuild of  *)
(* the index takes the same lock.  The candidate lies in the pending       *)
(* directory, which an editor may change at any time.                      *)
(*                                                                         *)
(* Elasticsearch is external: a request may fail before or after it took   *)
(* effect, and a query may fail.  A process may die at any step; its lock  *)
(* is released, its transaction record stays.                              *)
(*                                                                         *)
(* Abstractions: one table; a content is the number of the edit that made  *)
(* it, so no edit restores an earlier content; the transaction record and  *)
(* the one of the index manager are one state; publication_transaction     *)
(* admits one transaction, whose local state is txn.                       *)
(***************************************************************************)
EXTENDS Naturals

CONSTANTS
    Indexes,    \* names of physical indexes
    MaxEdits,   \* bound: edits of the candidate
    NoIndex,    \* a name that no index has
    Torn        \* a directory that was written or restored in part

ASSUME SemanticPublishConstants ==
    /\ MaxEdits \in Nat
    /\ Torn \notin Nat
    /\ NoIndex \notin Nat \cup {Torn}

VARIABLES
    pending,     \* content of the pending directory
    files,       \* content of the active table, manifest and relationships
    governance,  \* content of the governance directory
    manifest,    \* content the recall index manifest describes
    alias,       \* the index the search alias points to
    indexes,     \* the documents of every physical index
    txn,         \* the transaction that holds the publication lock
    record,      \* state of the newest publication's record
    doubtful     \* a doubtful record was left since the last ACTIVE one

surfaces == <<files, governance, manifest, alias, indexes>>
vars == <<pending, files, governance, manifest, alias, indexes, txn, record, doubtful>>

Contents == Nat \cup {Torn}

\* the record of an ended transaction in these states tells that nothing
\* changed: it ended, or its process died, before the active files were
\* touched, or everything was put back
Harmless == {"CANDIDATE_BUILD_FAILED", "PREFLIGHT_STALE", "PENDING_INDEX_RETRY",
             "PREPARING_CANDIDATE", "PREPARING_INDEX", "ES_STAGED"}

\* these do not
Doubtful == {"INDEX_STAGED", "FILESYSTEM_STAGED", "ACTIVATION_VERIFIED", "COMMITTING",
             "ALIAS_UNCERTAIN", "COMPENSATION_FAILED"}

RecordStates == Harmless \cup Doubtful \cup {"ACTIVE"}

Transactions ==
    [pc        : {"none", "building", "built", "preparing", "staged",
                  "publishing", "writing", "written", "governing", "governed",
                  "verifying", "swapping", "reconciling", "replacing",
                  "unstaging", "restoring"},
     rebuild   : BOOLEAN,             \* rebuild, not publish_approved
     hash      : Nat,                 \* the content that was reviewed
     docs      : Contents,            \* candidate documents
     index     : Indexes \cup {NoIndex},   \* es_stage["physicalIndex"]
     previous  : Indexes \cup {NoIndex},             \* es_stage["previousState"]
     committed : BOOLEAN,             \* es_stage["committed"]
     certain   : BOOLEAN,             \* the error code leaves no doubt about the alias
     oldFiles  : Contents,            \* the backup in the work directory
     oldGov    : Contents]

\* no transaction; the last publication was of content h
Ended(h) ==
    [pc |-> "none", rebuild |-> FALSE, hash |-> h, docs |-> 0,
     index |-> NoIndex, previous |-> NoIndex, committed |-> FALSE,
     certain |-> TRUE, oldFiles |-> 0, oldGov |-> 0]

Init ==
    /\ pending = 0 /\ files = 0 /\ governance = 0 /\ manifest = 0
    /\ alias \in Indexes
    /\ indexes = [i \in Indexes |-> IF i = alias THEN 0 ELSE NoIndex]
    /\ txn = Ended(0)
    /\ record = "ACTIVE"
    /\ doubtful = FALSE

-------------------------------------------------------------------------------
(* Steps of a transaction *)

Goto(pc) == txn' = [txn EXCEPT !.pc = pc]

\* _write_state of a publication; the index manager keeps a record of a rebuild
Note(state) == record' = IF txn.rebuild THEN record ELSE state

\* the transaction ends in a record of the given state and releases the lock
End(state) ==
    /\ txn' = Ended(txn.hash)
    /\ Note(state)
    /\ doubtful' = (doubtful \/ state \in Doubtful)

\* what a failed commit is recorded as
FailureState == IF txn.certain THEN "PENDING_INDEX_RETRY" ELSE "ALIAS_UNCERTAIN"

KeepRecord == UNCHANGED <<record, doubtful>>

\* mutant: the pending directory is not compared with the preflight again
Bound_Assumed == TRUE

\* _validate_preflight_binding: the candidate is still the reviewed content
Bound == pending = txn.hash

-------------------------------------------------------------------------------
(* publish_approved up to the staged index *)

\* the submitted and the authoritative preflight agree with the candidate
Begin ==
    /\ txn.pc = "none"
    /\ txn' = [txn EXCEPT !.pc = "building", !.hash = pending]
    /\ record' = "PREPARING_CANDIDATE"
    /\ UNCHANGED <<pending, surfaces, doubtful>>

\* a preflight of an earlier content is refused before anything is recorded
BeginStale ==
    /\ txn.pc = "none"
    /\ pending > 0
    /\ UNCHANGED vars

\* _candidate_documents reads the pending directory as it is now
Build ==
    /\ txn.pc = "building"
    /\ txn' = [txn EXCEPT !.pc = "built", !.docs = pending]
    /\ KeepRecord
    /\ UNCHANGED <<pending, surfaces>>

BuildFails ==
    /\ txn.pc = "building"
    /\ End("CANDIDATE_BUILD_FAILED")
    /\ UNCHANGED <<pending, surfaces>>

BindCandidate ==
    /\ txn.pc = "built"
    /\ Bound
    /\ Goto("preparing")
    /\ Note("PREPARING_INDEX")
    /\ UNCHANGED <<pending, surfaces, doubtful>>

CandidateStale ==
    /\ txn.pc = "built"
    /\ ~Bound
    /\ End("PREFLIGHT_STALE")
    /\ UNCHANGED <<pending, surfaces>>

\* prepare_rebuild: a new index beside the one the alias points to
Stage ==
    /\ txn.pc = "preparing"
    /\ \E i \in Indexes :
          /\ indexes[i] = NoIndex
          /\ indexes' = [indexes EXCEPT ![i] = txn.docs]
          /\ txn' = [txn EXCEPT !.pc = IF txn.rebuild THEN "swapping" ELSE "staged",
                                !.index = i, !.previous = alias]
    /\ KeepRecord
    /\ UNCHANGED <<pending, files, governance, manifest, alias>>

StageFails ==
    /\ txn.pc = "preparing"
    /\ End("PENDING_INDEX_RETRY")
    /\ UNCHANGED <<pending, surfaces>>

\* the candidate is still bound: the active files are backed up
Snapshot ==
    /\ txn.pc = "staged"
    /\ Bound
    /\ txn' = [txn EXCEPT !.pc = "publishing", !.oldFiles = files, !.oldGov = governance]
    /\ Note("INDEX_STAGED")
    /\ UNCHANGED <<pending, surfaces, doubtful>>

\* _index_has_aliases is asked before an index is deleted
Deletable(i) == alias # i

\* abort_stage deletes the staged index, or fails to
Unstage ==
    \/ /\ Deletable(txn.index)
       /\ indexes' = [indexes EXCEPT ![txn.index] = NoIndex]
    \/ UNCHANGED indexes

StagedStale ==
    /\ txn.pc = "staged"
    /\ ~Bound
    /\ Unstage
    /\ End("PREFLIGHT_STALE")
    /\ UNCHANGED <<pending, files, governance, manifest, alias>>

-------------------------------------------------------------------------------
(* publish_approved: the active files *)

\* TopicAssetService.publish writes the files of the table one by one
WriteFiles ==
    /\ txn.pc = "publishing"
    /\ files' = Torn
    /\ Goto("writing")
    /\ KeepRecord
    /\ UNCHANGED <<pending, governance, manifest, alias, indexes>>

\* the last file is written; a candidate that changed meanwhile may have been
\* copied in part before and in part after the change
FilesWritten ==
    /\ txn.pc = "writing"
    /\ files' = pending \/ (~Bound /\ UNCHANGED files)
    /\ Goto("written")
    /\ KeepRecord
    /\ UNCHANGED <<pending, governance, manifest, alias, indexes>>

\* the live binding
BindLive ==
    /\ txn.pc = "written"
    /\ Bound
    /\ Goto("governing")
    /\ Note("FILESYSTEM_STAGED")
    /\ UNCHANGED <<pending, surfaces, doubtful>>

\* after_publish and its release gate
Govern ==
    /\ txn.pc = "governing"
    /\ governance' = files
    /\ Goto("governed")
    /\ KeepRecord
    /\ UNCHANGED <<pending, files, manifest, alias, indexes>>

\* the final binding
BindFinal ==
    /\ txn.pc = "governed"
    /\ Bound
    /\ Goto("verifying")
    /\ KeepRecord
    /\ UNCHANGED <<pending, surfaces>>

\* the activation verifier of the caller accepts, or there is none
Verify ==
    /\ txn.pc = "verifying"
    /\ Goto("swapping")
    /\ Note("ACTIVATION_VERIFIED") \/ UNCHANGED record
    /\ UNCHANGED <<pending, surfaces, doubtful>>

\* one of these steps raises, or finds the candidate changed; the
\* governance directory may have been written in part
PublishFails ==
    /\ \/ txn.pc \in {"publishing", "writing", "verifying"} /\ UNCHANGED governance
       \/ txn.pc \in {"written", "governed"} /\ ~Bound /\ UNCHANGED governance
       \/ txn.pc = "governing" /\ governance' \in {governance, Torn}
    /\ Unstage
    /\ Goto("restoring")
    /\ KeepRecord
    /\ UNCHANGED <<pending, files, manifest, alias>>

-------------------------------------------------------------------------------
(* commit_prepared *)

\* the alias is moved in one request
Swap ==
    /\ txn.pc = "swapping"
    /\ alias' = txn.index
    /\ txn' = [txn EXCEPT !.pc = "replacing", !.committed = TRUE]
    /\ KeepRecord
    /\ UNCHANGED <<pending, files, governance, manifest, indexes>>

\* mutant: an answer that did not come is taken for a success
SwapFails_Ignored ==
    /\ txn.pc = "swapping"
    /\ alias' \in {alias, txn.index}
    /\ txn' = [txn EXCEPT !.pc = "replacing", !.committed = TRUE]
    /\ KeepRecord
    /\ UNCHANGED <<pending, files, governance, manifest, indexes>>

\* the request raises, done or not
SwapFails ==
    /\ txn.pc = "swapping"
    /\ alias' \in {alias, txn.index}
    /\ Goto("reconciling")
    /\ KeepRecord
    /\ UNCHANGED <<pending, files, governance, manifest, indexes>>

\* rollback_stage: the alias goes back to where it was
RollBack == alias' = txn.previous

\* the request or the query before it raises
RollBackFails == alias' \in {alias, txn.previous}

\* mutant: the request is repeated until it is answered
Reconcile_Retries ==
    /\ txn.pc = "reconciling"
    /\ Goto("swapping")
    /\ KeepRecord
    /\ UNCHANGED <<pending, surfaces>>

\* commit_stage asks where the alias points and takes it back
Reconcile ==
    /\ txn.pc = "reconciling"
    /\ \/ /\ alias # txn.index
          /\ Goto("unstaging")
          /\ UNCHANGED alias
       \/ /\ alias = txn.index
          /\ RollBack
          /\ Goto("unstaging")
       \/ /\ alias = txn.index
          /\ RollBackFails
          /\ txn' = [txn EXCEPT !.pc = "unstaging", !.committed = TRUE, !.certain = FALSE]
       \/ /\ UNCHANGED alias          \* the query raises
          /\ txn' = [txn EXCEPT !.pc = "unstaging", !.certain = FALSE]
    /\ KeepRecord
    /\ UNCHANGED <<pending, files, governance, manifest, indexes>>

\* a failed commit ends; publish_approved restores its files first
AfterFailedCommit ==
    IF txn.rebuild
    THEN End(FailureState)
    ELSE Goto("restoring") /\ KeepRecord

\* mutant: the staged index is deleted whatever the alias points to
AbortStage_Unasked ==
    /\ txn.pc = "unstaging"
    /\ IF txn.committed THEN RollBack ELSE UNCHANGED alias
    /\ indexes' = [indexes EXCEPT ![txn.index] = NoIndex]
    /\ AfterFailedCommit
    /\ UNCHANGED <<pending, files, governance, manifest>>

\* abort_stage; a stage that is still committed is rolled back first
AbortStage ==
    /\ txn.pc = "unstaging"
    /\ IF txn.committed THEN RollBack ELSE UNCHANGED alias
    /\ \/ /\ alias' # txn.index
          /\ indexes' = [indexes EXCEPT ![txn.index] = NoIndex]
       \/ UNCHANGED indexes
    /\ AfterFailedCommit
    /\ UNCHANGED <<pending, files, governance, manifest>>

AbortStageFails ==
    /\ txn.pc = "unstaging"
    /\ txn.committed
    /\ RollBackFails
    /\ AfterFailedCommit
    /\ UNCHANGED <<pending, files, governance, manifest, indexes>>

\* os.replace, then finalize_stage deletes the index the alias left, or fails to
Replace ==
    /\ txn.pc = "replacing"
    /\ manifest' = txn.docs
    /\ \/ /\ Deletable(txn.previous)
          /\ indexes' = [indexes EXCEPT ![txn.previous] = NoIndex]
       \/ UNCHANGED indexes
    /\ txn' = Ended(txn.hash)
    /\ Note("ACTIVE")
    /\ doubtful' = (txn.rebuild /\ doubtful)
    /\ UNCHANGED <<pending, files, governance, alias>>

\* os.replace raises and the alias goes back
ReplaceFails ==
    /\ txn.pc = "replacing"
    /\ RollBack
    /\ txn' = [txn EXCEPT !.pc = "unstaging", !.committed = FALSE]
    /\ KeepRecord
    /\ UNCHANGED <<pending, files, governance, manifest, indexes>>

\* ACTIVE_MANIFEST_COMMIT_AND_ES_ROLLBACK_FAILED: the stage is left alone
ReplaceAndRollBackFail ==
    /\ txn.pc = "replacing"
    /\ RollBackFails
    /\ IF txn.rebuild
       THEN End("ALIAS_UNCERTAIN")
       ELSE txn' = [txn EXCEPT !.pc = "restoring", !.certain = FALSE] /\ KeepRecord
    /\ UNCHANGED <<pending, files, governance, manifest, indexes>>

-------------------------------------------------------------------------------
(* Compensation *)

\* mutant: the governance directory is not restored
Restore_FilesOnly ==
    /\ txn.pc = "restoring"
    /\ files' = txn.oldFiles
    /\ End(FailureState)
    /\ UNCHANGED <<pending, governance, manifest, alias, indexes>>

\* _restore_active_filesystem; the error code keeps the doubt about the alias
Restore ==
    /\ txn.pc = "restoring"
    /\ files' = txn.oldFiles
    /\ governance' = txn.oldGov
    /\ End(FailureState)
    /\ UNCHANGED <<pending, manifest, alias, indexes>>

RestoreFails ==
    /\ txn.pc = "restoring"
    /\ files' \in {Torn, txn.oldFiles}
    /\ governance' \in {governance, Torn}
    /\ End("COMPENSATION_FAILED")
    /\ UNCHANGED <<pending, manifest, alias, indexes>>

-------------------------------------------------------------------------------
(* Rebuild, the editor, crashes *)

\* rebuild of the index from the active files, under the same lock
BeginRebuild ==
    /\ txn.pc = "none"
    /\ txn' = [txn EXCEPT !.pc = "preparing", !.rebuild = TRUE, !.docs = files]
    /\ KeepRecord
    /\ UNCHANGED <<pending, surfaces>>

Edit ==
    /\ pending < MaxEdits
    /\ pending' = pending + 1
    /\ KeepRecord
    /\ UNCHANGED <<surfaces, txn>>

\* the record a dead transaction leaves
RecordLeft ==
    IF ~txn.rebuild THEN record
    ELSE IF txn.pc = "preparing" THEN "ES_STAGED" ELSE "COMMITTING"

\* the process dies; flock is released with it and nothing reads the record
Crash ==
    /\ txn.pc # "none"
    /\ txn' = Ended(txn.hash)
    /\ doubtful' = (doubtful \/ RecordLeft \in Doubtful)
    /\ UNCHANGED <<pending, surfaces, record>>

Proceed ==
    \/ Build \/ BuildFails \/ BindCandidate \/ CandidateStale
    \/ Stage \/ StageFails \/ Snapshot \/ StagedStale
    \/ WriteFiles \/ FilesWritten \/ BindLive \/ Govern \/ BindFinal \/ Verify \/ PublishFails
    \/ Swap \/ SwapFails \/ Reconcile \/ AbortStage \/ AbortStageFails
    \/ Replace \/ ReplaceFails \/ ReplaceAndRollBackFail
    \/ Restore \/ RestoreFails

Next == Begin \/ BeginStale \/ BeginRebuild \/ Proceed \/ Edit \/ Crash

Spec == Init /\ [][Next]_vars

\* Requests to Elasticsearch carry a timeout and file operations end, so a
\* transaction goes on.
FairSpec == Spec /\ WF_vars(Proceed)

-------------------------------------------------------------------------------
(* Properties *)

\* Every field keeps its range.
TypeOK ==
    /\ pending \in Nat
    /\ files \in Contents /\ governance \in Contents /\ manifest \in Contents
    /\ alias \in Indexes
    /\ indexes \in [Indexes -> Contents \cup {NoIndex}]
    /\ txn \in Transactions
    /\ record \in RecordStates
    /\ doubtful \in BOOLEAN

\* Files, governance, search index and manifest show the content v.
AllShow(v) == files = v /\ governance = v /\ manifest = v /\ indexes[alias] = v

\* While no transaction runs, a record that says ACTIVE is true: what was
\* reviewed is what files, governance, manifest and search show, although
\* publish_approved read the candidate three times while it could change.
ActiveAsReviewed == record = "ACTIVE" /\ txn.pc = "none" => AllShow(txn.hash)

\* The records tell whether the active surfaces agree: if no transaction that
\* ended since the last ACTIVE one, or died, left a doubtful record, then
\* they do, whatever failed and was compensated in between.
RecordsTell == txn.pc = "none" /\ ~doubtful => AllShow(files)

\* The search alias never points to an index that abort_stage or
\* finalize_stage has deleted.
AliasAlive == indexes[alias] # NoIndex

\* The manifest advances only to what the alias already serves, whatever
\* became of the answers of Elasticsearch.
ManifestFollowsAlias == [][manifest' # manifest => indexes[alias] = manifest']_vars

\* A transaction gives the publication lock back.
LockReleased == txn.pc # "none" ~> txn.pc = "none"
===============================================================================
