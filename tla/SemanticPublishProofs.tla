-------------------------- MODULE SemanticPublishProofs --------------------------
(***************************************************************************)
(* What holds of the semantic publication for any number of physical       *)
(* indexes and edits.                                                      *)
(*                                                                         *)
(* Three facts carry the proof.  The candidate only moves forward, so a    *)
(* binding that holds at its last check held at every earlier one, and     *)
(* what was read in between is the reviewed content.  While a stage is     *)
(* open the alias points to the staged index or to the recorded previous   *)
(* one, to the latter whenever the error code leaves no doubt.  And the    *)
(* manifest is the last thing a commit writes: until then it still names   *)
(* the content everything is put back to.                                  *)
(***************************************************************************)
EXTENDS SemanticPublish, TLAPS

USE SemanticPublishConstants

Closed == {"none", "building", "built", "preparing"}     \* no index is staged

Unswapped ==
    {"staged", "publishing", "writing", "written", "governing", "governed", "verifying",
     "swapping"}

Staged == Unswapped \cup {"reconciling", "replacing", "unstaging", "restoring"}

\* publish_approved has begun to change the active files
Publishing == Staged \ {"staged"}

\* The candidate moves forward; what was read of it lies between the reviewed
\* and the present content.
Candidate ==
    /\ txn.hash <= pending
    /\ ~txn.rebuild =>
          /\ txn.pc = "built" => txn.docs \in Nat /\ txn.hash <= txn.docs /\ txn.docs <= pending
          /\ txn.pc \in {"preparing"} \cup Staged => txn.docs = txn.hash
          /\ txn.pc = "written" /\ Bound => files = txn.hash
          /\ txn.pc \in {"governing", "governed", "verifying", "swapping", "reconciling",
                         "replacing"} => files = txn.hash
          /\ txn.pc \in {"governed", "verifying", "swapping", "reconciling", "replacing"} =>
                governance = txn.hash

\* The stage: two indexes, and the alias points to one of them.
Stages ==
    /\ indexes[alias] # NoIndex
    /\ txn.pc \in {"none", "building", "built"} => txn.pc = "none" \/ ~txn.rebuild
    /\ txn.pc \in Closed => txn.certain /\ ~txn.committed
    /\ txn.pc \in Staged =>
          /\ txn.index \in Indexes /\ txn.previous \in Indexes
          /\ txn.index # txn.previous
          /\ indexes[txn.previous] # NoIndex
          /\ alias \in {txn.index, txn.previous}
          /\ alias = txn.index => indexes[txn.index] = txn.docs
          /\ txn.pc # "restoring" => indexes[txn.index] = txn.docs
    /\ txn.pc \in Unswapped => alias = txn.previous /\ txn.certain /\ ~txn.committed
    /\ txn.pc = "reconciling" => txn.certain /\ ~txn.committed
    /\ txn.pc = "replacing" => alias = txn.index /\ txn.certain
    /\ txn.pc = "unstaging" /\ txn.certain => alias = txn.previous /\ ~txn.committed
    /\ txn.pc = "restoring" /\ txn.certain => alias = txn.previous
    /\ txn.rebuild =>
          txn.pc \in {"preparing", "swapping", "reconciling", "replacing", "unstaging"}

\* The record of a publication that is under way.
Recording ==
    ~txn.rebuild =>
        /\ txn.pc \in {"building", "built"} => record = "PREPARING_CANDIDATE"
        /\ txn.pc \in {"preparing", "staged"} => record = "PREPARING_INDEX"
        /\ txn.pc \in Publishing => record \in Doubtful \ {"COMMITTING"}

\* Files, governance and manifest show v, and so does the index the alias
\* points to when nothing is staged, the previous one when something is.
Backed(v) ==
    /\ manifest = v
    /\ txn.pc \in Closed => indexes[alias] = v
    /\ txn.pc \in Staged => indexes[txn.previous] = v
    /\ IF txn.rebuild \/ txn.pc \in Closed \cup {"staged"}
       THEN files = v /\ governance = v
       ELSE txn.oldFiles = v /\ txn.oldGov = v
    /\ txn.rebuild => txn.docs = v

\* Unless a doubtful record was left there is a content to go back to; after
\* an ACTIVE record it is the one that was published.
Base ==
    /\ ~doubtful => Backed(manifest)
    /\ record = "ACTIVE" /\ (txn.pc = "none" \/ txn.rebuild) => Backed(txn.hash)

IInv == TypeOK /\ Candidate /\ Stages /\ Recording /\ Base

-------------------------------------------------------------------------------
\* The initial state.
LEMMA InitInv ==
    ASSUME Init
    PROVE  IInv
  <1>1. /\ Ended(0) \in Transactions
        /\ Ended(0).pc = "none" /\ Ended(0).hash = 0 /\ Ended(0).rebuild = FALSE
        /\ Ended(0).certain = TRUE /\ Ended(0).committed = FALSE
    BY DEF Ended, Transactions, Contents
  <1>2. TypeOK
    BY <1>1 DEF Init, TypeOK, Contents, RecordStates
  <1>3. indexes[alias] = 0
    BY DEF Init
  <1> QED
    BY <1>1, <1>2, <1>3
    DEF Init, IInv, Candidate, Stages, Recording, Base, Backed, Closed, Staged, Unswapped,
        Publishing, Bound

\* A transaction that has ended.
LEMMA EndedFacts ==
    ASSUME NEW h \in Nat
    PROVE  /\ Ended(h) \in Transactions
           /\ Ended(h).pc = "none" /\ Ended(h).hash = h /\ Ended(h).rebuild = FALSE
           /\ Ended(h).certain = TRUE /\ Ended(h).committed = FALSE
  BY DEF Ended, Transactions, Contents

\* The end of a transaction that leaves no doubt, or tells of it.
LEMMA Ending ==
    ASSUME IInv, NEW s \in RecordStates, End(s),
           UNCHANGED pending,
           files' \in Contents, governance' \in Contents, UNCHANGED manifest,
           alias' \in Indexes, indexes' \in [Indexes -> Contents \cup {NoIndex}],
           indexes'[alias'] # NoIndex,
           s # "ACTIVE",
           ~doubtful /\ s \in Harmless =>
              files' = manifest /\ governance' = manifest /\ indexes'[alias'] = manifest,
           txn.rebuild /\ record = "ACTIVE" =>
              files' = txn.hash /\ governance' = txn.hash /\ indexes'[alias'] = txn.hash
    PROVE  IInv'
  <1>1. txn.hash \in Nat /\ txn' = Ended(txn.hash)
    BY DEF IInv, TypeOK, Transactions, End
  <1>2. /\ txn' \in Transactions
        /\ txn'.pc = "none" /\ txn'.hash = txn.hash /\ txn'.rebuild = FALSE
        /\ txn'.certain = TRUE /\ txn'.committed = FALSE
    BY <1>1, EndedFacts
  <1>3. /\ record' = IF txn.rebuild THEN record ELSE s
        /\ doubtful' = (doubtful \/ s \in Doubtful)
    BY DEF End, Note
  <1>4. TypeOK'
    BY <1>2, <1>3 DEF IInv, TypeOK, RecordStates
  <1>5. Candidate' /\ Stages' /\ Recording'
    BY <1>2 DEF IInv, Candidate, Stages, Recording, Closed, Staged, Unswapped, Publishing
  <1>6. s \in Harmless \/ s \in Doubtful
    BY DEF RecordStates
  <1>7. ~doubtful' => Backed(manifest)'
    BY <1>2, <1>3, <1>6 DEF Backed, Closed, Staged, Unswapped
  <1>8. record' = "ACTIVE" => Backed(txn.hash)'
    BY <1>2, <1>3 DEF IInv, Base, Backed, Closed, Staged, Unswapped
  <1> QED
    BY <1>2, <1>4, <1>5, <1>7, <1>8 DEF IInv, Base

-------------------------------------------------------------------------------
\* What a transaction holds.
LEMMA TxnFacts ==
    ASSUME IInv
    PROVE  /\ txn.docs \in Contents /\ txn.docs # NoIndex
           /\ txn.hash \in Nat /\ txn.rebuild \in BOOLEAN /\ txn.certain \in BOOLEAN
           /\ txn.oldFiles \in Contents /\ txn.oldGov \in Contents
           /\ txn.pc \in Staged => txn.index \in Indexes /\ txn.previous \in Indexes
  BY DEF IInv, TypeOK, Transactions, Contents, Stages

\* One lemma for every action that does not end the transaction.

\* The preflight is accepted.
LEMMA BeginStep ==
    ASSUME IInv, Begin
    PROVE  IInv'
  <1>1. /\ txn' \in Transactions /\ txn'.pc = "building"
        /\ txn'.rebuild = txn.rebuild /\ txn'.hash = pending /\ txn'.docs = txn.docs
        /\ txn'.index = txn.index /\ txn'.previous = txn.previous
        /\ txn'.committed = txn.committed /\ txn'.certain = txn.certain
        /\ txn'.oldFiles = txn.oldFiles /\ txn'.oldGov = txn.oldGov
    BY DEF IInv, TypeOK, Transactions, Contents, Goto, Begin
  <1>2. TypeOK'
    BY <1>1 DEF IInv, TypeOK, RecordStates, Doubtful, Harmless, Contents, Note, KeepRecord,
       surfaces, Begin
  <1>3. Candidate'
    BY <1>1 DEF IInv, TypeOK, Contents, Candidate, Staged, Unswapped, Bound, surfaces, Begin
  <1>4. Stages'
    BY <1>1 DEF IInv, TypeOK, Contents, Candidate, Stages, Closed, Staged, Unswapped, surfaces,
       Begin
  <1>5. Recording'
    BY <1>1 DEF IInv, Recording, Publishing, Staged, Unswapped, Doubtful, Note, KeepRecord,
       surfaces, Begin
  <1>6. Base'
    BY <1>1 DEF IInv, TypeOK, Candidate, Stages, Recording, Base, Backed, Closed, Staged,
       Unswapped, Publishing, Doubtful, Note, KeepRecord, surfaces, Begin
  <1> QED
    BY <1>2, <1>3, <1>4, <1>5, <1>6 DEF IInv

\* A rebuild begins.
LEMMA BeginRebuildStep ==
    ASSUME IInv, BeginRebuild
    PROVE  IInv'
  <1>1. /\ txn' \in Transactions /\ txn'.pc = "preparing" /\ txn'.rebuild = TRUE
        /\ txn'.hash = txn.hash /\ txn'.docs = files /\ txn'.index = txn.index
        /\ txn'.previous = txn.previous /\ txn'.committed = txn.committed
        /\ txn'.certain = txn.certain /\ txn'.oldFiles = txn.oldFiles
        /\ txn'.oldGov = txn.oldGov
    BY DEF IInv, TypeOK, Transactions, Contents, Goto, BeginRebuild
  <1>2. TypeOK'
    BY <1>1 DEF IInv, TypeOK, RecordStates, Doubtful, Harmless, Contents, Note, KeepRecord,
       surfaces, BeginRebuild
  <1>3. Candidate'
    BY <1>1 DEF IInv, TypeOK, Contents, Candidate, Staged, Unswapped, Bound, surfaces,
       BeginRebuild
  <1>4. Stages'
    BY <1>1 DEF IInv, TypeOK, Contents, Candidate, Stages, Closed, Staged, Unswapped, surfaces,
       BeginRebuild
  <1>5. Recording'
    BY <1>1 DEF IInv, Recording, Publishing, Staged, Unswapped, Doubtful, Note, KeepRecord,
       surfaces, BeginRebuild
  <1>6. Base'
    BY <1>1 DEF IInv, TypeOK, Candidate, Stages, Recording, Base, Backed, Closed, Staged,
       Unswapped, Publishing, Doubtful, Note, KeepRecord, surfaces, BeginRebuild
  <1> QED
    BY <1>2, <1>3, <1>4, <1>5, <1>6 DEF IInv

\* The candidate is read.
LEMMA BuildStep ==
    ASSUME IInv, Build
    PROVE  IInv'
  <1>1. /\ txn' \in Transactions /\ txn'.pc = "built" /\ txn'.rebuild = txn.rebuild
        /\ txn'.hash = txn.hash /\ txn'.docs = pending /\ txn'.index = txn.index
        /\ txn'.previous = txn.previous /\ txn'.committed = txn.committed
        /\ txn'.certain = txn.certain /\ txn'.oldFiles = txn.oldFiles
        /\ txn'.oldGov = txn.oldGov
    BY DEF IInv, TypeOK, Transactions, Contents, Goto, Build
  <1>2. TypeOK'
    BY <1>1 DEF IInv, TypeOK, RecordStates, Doubtful, Harmless, Contents, Note, KeepRecord,
       surfaces, Build
  <1>3. Candidate'
    BY <1>1 DEF IInv, TypeOK, Contents, Candidate, Staged, Unswapped, Bound, surfaces, Build
  <1>4. Stages'
    BY <1>1 DEF IInv, TypeOK, Contents, Candidate, Stages, Closed, Staged, Unswapped, surfaces,
       Build
  <1>5. Recording'
    BY <1>1 DEF IInv, Recording, Publishing, Staged, Unswapped, Doubtful, Note, KeepRecord,
       surfaces, Build
  <1>6. Base'
    BY <1>1 DEF IInv, TypeOK, Candidate, Stages, Recording, Base, Backed, Closed, Staged,
       Unswapped, Publishing, Doubtful, Note, KeepRecord, surfaces, Build
  <1> QED
    BY <1>2, <1>3, <1>4, <1>5, <1>6 DEF IInv

\* The candidate did not change.
LEMMA BindCandidateStep ==
    ASSUME IInv, BindCandidate
    PROVE  IInv'
  <1>1. /\ txn' \in Transactions /\ txn'.pc = "preparing"
        /\ txn'.rebuild = txn.rebuild /\ txn'.hash = txn.hash /\ txn'.docs = txn.docs
        /\ txn'.index = txn.index /\ txn'.previous = txn.previous
        /\ txn'.committed = txn.committed /\ txn'.certain = txn.certain
        /\ txn'.oldFiles = txn.oldFiles /\ txn'.oldGov = txn.oldGov
    BY DEF IInv, TypeOK, Transactions, Contents, Goto, BindCandidate
  <1>2. TypeOK'
    BY <1>1 DEF IInv, TypeOK, RecordStates, Doubtful, Harmless, Contents, Note, KeepRecord,
       surfaces, BindCandidate
  <1>3. Candidate'
    BY <1>1 DEF IInv, TypeOK, Contents, Candidate, Staged, Unswapped, Bound, surfaces,
       BindCandidate
  <1>4. Stages'
    BY <1>1 DEF IInv, TypeOK, Contents, Candidate, Stages, Closed, Staged, Unswapped, surfaces,
       BindCandidate
  <1>5. Recording'
    BY <1>1 DEF IInv, Recording, Publishing, Staged, Unswapped, Doubtful, Note, KeepRecord,
       surfaces, BindCandidate
  <1>6. Base'
    BY <1>1 DEF IInv, TypeOK, Candidate, Stages, Recording, Base, Backed, Closed, Staged,
       Unswapped, Publishing, Doubtful, Note, KeepRecord, surfaces, BindCandidate
  <1> QED
    BY <1>2, <1>3, <1>4, <1>5, <1>6 DEF IInv

\* An index is staged.
LEMMA StageStep ==
    ASSUME IInv, Stage
    PROVE  IInv'
  <1>1. /\ txn' \in Transactions
        /\ txn'.pc = (IF txn.rebuild THEN "swapping" ELSE "staged")
        /\ txn'.rebuild = txn.rebuild /\ txn'.hash = txn.hash /\ txn'.docs = txn.docs
        /\ txn'.previous = alias /\ txn'.committed = txn.committed
        /\ txn'.certain = txn.certain /\ txn'.oldFiles = txn.oldFiles
        /\ txn'.oldGov = txn.oldGov
    <2>1. PICK i \in Indexes :
             txn' = [txn EXCEPT !.pc = IF txn.rebuild THEN "swapping" ELSE "staged",
                                !.index = i, !.previous = alias]
      BY DEF Stage
    <2>2. txn \in Transactions /\ alias \in Indexes
      BY DEF IInv, TypeOK
    <2> QED
      BY <2>1, <2>2 DEF Transactions
  <1>2. TypeOK'
    BY <1>1, TxnFacts DEF Staged, Unswapped, IInv, TypeOK, RecordStates, Doubtful, Harmless,
       Contents, Note, KeepRecord, surfaces, Stage
  <1>3. Candidate'
    BY <1>1 DEF IInv, TypeOK, Contents, Candidate, Staged, Unswapped, Bound, surfaces, Stage
  <1>4. Stages'
    BY <1>1, TxnFacts DEF IInv, TypeOK, Contents, Candidate, Stages, Closed, Staged, Unswapped,
       surfaces, Stage
  <1>5. Recording'
    BY <1>1 DEF IInv, Recording, Publishing, Staged, Unswapped, Doubtful, Note, KeepRecord,
       surfaces, Stage
  <1>6. Base'
    BY <1>1 DEF IInv, TypeOK, Candidate, Stages, Recording, Base, Backed, Closed, Staged,
       Unswapped, Publishing, Doubtful, Note, KeepRecord, surfaces, Stage
  <1> QED
    BY <1>2, <1>3, <1>4, <1>5, <1>6 DEF IInv

\* The files are backed up.
LEMMA SnapshotStep ==
    ASSUME IInv, Snapshot
    PROVE  IInv'
  <1>1. /\ txn' \in Transactions /\ txn'.pc = "publishing"
        /\ txn'.rebuild = txn.rebuild /\ txn'.hash = txn.hash /\ txn'.docs = txn.docs
        /\ txn'.index = txn.index /\ txn'.previous = txn.previous
        /\ txn'.committed = txn.committed /\ txn'.certain = txn.certain
        /\ txn'.oldFiles = files /\ txn'.oldGov = governance
    BY DEF IInv, TypeOK, Transactions, Contents, Goto, Snapshot
  <1>2. TypeOK'
    BY <1>1 DEF IInv, TypeOK, RecordStates, Doubtful, Harmless, Contents, Note, KeepRecord,
       surfaces, Snapshot
  <1>3. Candidate'
    BY <1>1 DEF IInv, TypeOK, Contents, Candidate, Staged, Unswapped, Bound, surfaces, Snapshot
  <1>4. Stages'
    BY <1>1 DEF IInv, TypeOK, Contents, Candidate, Stages, Closed, Staged, Unswapped, surfaces,
       Snapshot
  <1>5. Recording'
    BY <1>1 DEF IInv, Recording, Publishing, Staged, Unswapped, Doubtful, Note, KeepRecord,
       surfaces, Snapshot
  <1>6. Base'
    BY <1>1 DEF IInv, TypeOK, Candidate, Stages, Recording, Base, Backed, Closed, Staged,
       Unswapped, Publishing, Doubtful, Note, KeepRecord, surfaces, Snapshot
  <1> QED
    BY <1>2, <1>3, <1>4, <1>5, <1>6 DEF IInv

\* The first file is written.
LEMMA WriteFilesStep ==
    ASSUME IInv, WriteFiles
    PROVE  IInv'
  <1>1. /\ txn' \in Transactions /\ txn'.pc = "writing" /\ txn'.rebuild = txn.rebuild
        /\ txn'.hash = txn.hash /\ txn'.docs = txn.docs /\ txn'.index = txn.index
        /\ txn'.previous = txn.previous /\ txn'.committed = txn.committed
        /\ txn'.certain = txn.certain /\ txn'.oldFiles = txn.oldFiles
        /\ txn'.oldGov = txn.oldGov
    BY DEF IInv, TypeOK, Transactions, Contents, Goto, WriteFiles
  <1>2. TypeOK'
    BY <1>1 DEF IInv, TypeOK, RecordStates, Doubtful, Harmless, Contents, Note, KeepRecord,
       surfaces, WriteFiles
  <1>3. Candidate'
    BY <1>1 DEF IInv, TypeOK, Contents, Candidate, Staged, Unswapped, Bound, surfaces,
       WriteFiles
  <1>4. Stages'
    BY <1>1 DEF IInv, TypeOK, Contents, Candidate, Stages, Closed, Staged, Unswapped, surfaces,
       WriteFiles
  <1>5. Recording'
    BY <1>1 DEF IInv, Recording, Publishing, Staged, Unswapped, Doubtful, Note, KeepRecord,
       surfaces, WriteFiles
  <1>6. Base'
    BY <1>1 DEF IInv, TypeOK, Candidate, Stages, Recording, Base, Backed, Closed, Staged,
       Unswapped, Publishing, Doubtful, Note, KeepRecord, surfaces, WriteFiles
  <1> QED
    BY <1>2, <1>3, <1>4, <1>5, <1>6 DEF IInv

\* The last file is written.
LEMMA FilesWrittenStep ==
    ASSUME IInv, FilesWritten
    PROVE  IInv'
  <1>1. /\ txn' \in Transactions /\ txn'.pc = "written" /\ txn'.rebuild = txn.rebuild
        /\ txn'.hash = txn.hash /\ txn'.docs = txn.docs /\ txn'.index = txn.index
        /\ txn'.previous = txn.previous /\ txn'.committed = txn.committed
        /\ txn'.certain = txn.certain /\ txn'.oldFiles = txn.oldFiles
        /\ txn'.oldGov = txn.oldGov
    BY DEF IInv, TypeOK, Transactions, Contents, Goto, FilesWritten
  <1>2. TypeOK'
    BY <1>1 DEF IInv, TypeOK, RecordStates, Doubtful, Harmless, Contents, Note, KeepRecord,
       surfaces, FilesWritten
  <1>3. Candidate'
    BY <1>1 DEF IInv, TypeOK, Contents, Candidate, Staged, Unswapped, Bound, surfaces,
       FilesWritten
  <1>4. Stages'
    BY <1>1 DEF IInv, TypeOK, Contents, Candidate, Stages, Closed, Staged, Unswapped, surfaces,
       FilesWritten
  <1>5. Recording'
    BY <1>1 DEF IInv, Recording, Publishing, Staged, Unswapped, Doubtful, Note, KeepRecord,
       surfaces, FilesWritten
  <1>6. Base'
    BY <1>1 DEF IInv, TypeOK, Candidate, Stages, Recording, Base, Backed, Closed, Staged,
       Unswapped, Publishing, Doubtful, Note, KeepRecord, surfaces, FilesWritten
  <1> QED
    BY <1>2, <1>3, <1>4, <1>5, <1>6 DEF IInv

\* The candidate did not change while it was copied.
LEMMA BindLiveStep ==
    ASSUME IInv, BindLive
    PROVE  IInv'
  <1>1. /\ txn' \in Transactions /\ txn'.pc = "governing"
        /\ txn'.rebuild = txn.rebuild /\ txn'.hash = txn.hash /\ txn'.docs = txn.docs
        /\ txn'.index = txn.index /\ txn'.previous = txn.previous
        /\ txn'.committed = txn.committed /\ txn'.certain = txn.certain
        /\ txn'.oldFiles = txn.oldFiles /\ txn'.oldGov = txn.oldGov
    BY DEF IInv, TypeOK, Transactions, Contents, Goto, BindLive
  <1>2. TypeOK'
    BY <1>1 DEF IInv, TypeOK, RecordStates, Doubtful, Harmless, Contents, Note, KeepRecord,
       surfaces, BindLive
  <1>3. Candidate'
    BY <1>1 DEF IInv, TypeOK, Contents, Candidate, Staged, Unswapped, Bound, surfaces, BindLive
  <1>4. Stages'
    BY <1>1 DEF IInv, TypeOK, Contents, Candidate, Stages, Closed, Staged, Unswapped, surfaces,
       BindLive
  <1>5. Recording'
    BY <1>1 DEF IInv, Recording, Publishing, Staged, Unswapped, Doubtful, Note, KeepRecord,
       surfaces, BindLive
  <1>6. Base'
    BY <1>1 DEF IInv, TypeOK, Candidate, Stages, Recording, Base, Backed, Closed, Staged,
       Unswapped, Publishing, Doubtful, Note, KeepRecord, surfaces, BindLive
  <1> QED
    BY <1>2, <1>3, <1>4, <1>5, <1>6 DEF IInv

\* The governance records follow.
LEMMA GovernStep ==
    ASSUME IInv, Govern
    PROVE  IInv'
  <1>1. /\ txn' \in Transactions /\ txn'.pc = "governed"
        /\ txn'.rebuild = txn.rebuild /\ txn'.hash = txn.hash /\ txn'.docs = txn.docs
        /\ txn'.index = txn.index /\ txn'.previous = txn.previous
        /\ txn'.committed = txn.committed /\ txn'.certain = txn.certain
        /\ txn'.oldFiles = txn.oldFiles /\ txn'.oldGov = txn.oldGov
    BY DEF IInv, TypeOK, Transactions, Contents, Goto, Govern
  <1>2. TypeOK'
    BY <1>1 DEF IInv, TypeOK, RecordStates, Doubtful, Harmless, Contents, Note, KeepRecord,
       surfaces, Govern
  <1>3. Candidate'
    BY <1>1 DEF IInv, TypeOK, Contents, Candidate, Staged, Unswapped, Bound, surfaces, Govern
  <1>4. Stages'
    BY <1>1 DEF IInv, TypeOK, Contents, Candidate, Stages, Closed, Staged, Unswapped, surfaces,
       Govern
  <1>5. Recording'
    BY <1>1 DEF IInv, Recording, Publishing, Staged, Unswapped, Doubtful, Note, KeepRecord,
       surfaces, Govern
  <1>6. Base'
    BY <1>1 DEF IInv, TypeOK, Candidate, Stages, Recording, Base, Backed, Closed, Staged,
       Unswapped, Publishing, Doubtful, Note, KeepRecord, surfaces, Govern
  <1> QED
    BY <1>2, <1>3, <1>4, <1>5, <1>6 DEF IInv

\* The candidate still did not change.
LEMMA BindFinalStep ==
    ASSUME IInv, BindFinal
    PROVE  IInv'
  <1>1. /\ txn' \in Transactions /\ txn'.pc = "verifying"
        /\ txn'.rebuild = txn.rebuild /\ txn'.hash = txn.hash /\ txn'.docs = txn.docs
        /\ txn'.index = txn.index /\ txn'.previous = txn.previous
        /\ txn'.committed = txn.committed /\ txn'.certain = txn.certain
        /\ txn'.oldFiles = txn.oldFiles /\ txn'.oldGov = txn.oldGov
    BY DEF IInv, TypeOK, Transactions, Contents, Goto, BindFinal
  <1>2. TypeOK'
    BY <1>1 DEF IInv, TypeOK, RecordStates, Doubtful, Harmless, Contents, Note, KeepRecord,
       surfaces, BindFinal
  <1>3. Candidate'
    BY <1>1 DEF IInv, TypeOK, Contents, Candidate, Staged, Unswapped, Bound, surfaces, BindFinal
  <1>4. Stages'
    BY <1>1 DEF IInv, TypeOK, Contents, Candidate, Stages, Closed, Staged, Unswapped, surfaces,
       BindFinal
  <1>5. Recording'
    BY <1>1 DEF IInv, Recording, Publishing, Staged, Unswapped, Doubtful, Note, KeepRecord,
       surfaces, BindFinal
  <1>6. Base'
    BY <1>1 DEF IInv, TypeOK, Candidate, Stages, Recording, Base, Backed, Closed, Staged,
       Unswapped, Publishing, Doubtful, Note, KeepRecord, surfaces, BindFinal
  <1> QED
    BY <1>2, <1>3, <1>4, <1>5, <1>6 DEF IInv

\* The verifier accepts.
LEMMA VerifyStep ==
    ASSUME IInv, Verify
    PROVE  IInv'
  <1>1. /\ txn' \in Transactions /\ txn'.pc = "swapping"
        /\ txn'.rebuild = txn.rebuild /\ txn'.hash = txn.hash /\ txn'.docs = txn.docs
        /\ txn'.index = txn.index /\ txn'.previous = txn.previous
        /\ txn'.committed = txn.committed /\ txn'.certain = txn.certain
        /\ txn'.oldFiles = txn.oldFiles /\ txn'.oldGov = txn.oldGov
    BY DEF IInv, TypeOK, Transactions, Contents, Goto, Verify
  <1>2. TypeOK'
    BY <1>1 DEF IInv, TypeOK, RecordStates, Doubtful, Harmless, Contents, Note, KeepRecord,
       surfaces, Verify
  <1>3. Candidate'
    BY <1>1 DEF IInv, TypeOK, Contents, Candidate, Staged, Unswapped, Bound, surfaces, Verify
  <1>4. Stages'
    BY <1>1 DEF IInv, TypeOK, Contents, Candidate, Stages, Closed, Staged, Unswapped, surfaces,
       Verify
  <1>5. Recording'
    BY <1>1 DEF IInv, Recording, Publishing, Staged, Unswapped, Doubtful, Note, KeepRecord,
       surfaces, Verify
  <1>6. Base'
    BY <1>1 DEF IInv, TypeOK, Candidate, Stages, Recording, Base, Backed, Closed, Staged,
       Unswapped, Publishing, Doubtful, Note, KeepRecord, surfaces, Verify
  <1> QED
    BY <1>2, <1>3, <1>4, <1>5, <1>6 DEF IInv

\* A step of the publication fails.
LEMMA PublishFailsStep ==
    ASSUME IInv, PublishFails
    PROVE  IInv'
  <1>1. /\ txn' \in Transactions /\ txn'.pc = "restoring"
        /\ txn'.rebuild = txn.rebuild /\ txn'.hash = txn.hash /\ txn'.docs = txn.docs
        /\ txn'.index = txn.index /\ txn'.previous = txn.previous
        /\ txn'.committed = txn.committed /\ txn'.certain = txn.certain
        /\ txn'.oldFiles = txn.oldFiles /\ txn'.oldGov = txn.oldGov
    BY DEF IInv, TypeOK, Transactions, Contents, Goto, PublishFails, Unstage, Deletable
  <1>2. TypeOK'
    BY <1>1 DEF IInv, TypeOK, RecordStates, Doubtful, Harmless, Contents, Note, KeepRecord,
       surfaces, PublishFails, Unstage, Deletable
  <1>3. Candidate'
    BY <1>1 DEF IInv, TypeOK, Contents, Candidate, Staged, Unswapped, Bound, surfaces,
       PublishFails, Unstage, Deletable
  <1>4. Stages'
    BY <1>1 DEF IInv, TypeOK, Contents, Candidate, Stages, Closed, Staged, Unswapped, surfaces,
       PublishFails, Unstage, Deletable
  <1>5. Recording'
    BY <1>1 DEF IInv, Recording, Publishing, Staged, Unswapped, Doubtful, Note, KeepRecord,
       surfaces, PublishFails, Unstage, Deletable
  <1>6. Base'
    BY <1>1 DEF IInv, TypeOK, Candidate, Stages, Recording, Base, Backed, Closed, Staged,
       Unswapped, Publishing, Doubtful, Note, KeepRecord, surfaces, PublishFails, Unstage,
       Deletable
  <1> QED
    BY <1>2, <1>3, <1>4, <1>5, <1>6 DEF IInv

\* The alias moves.
LEMMA SwapStep ==
    ASSUME IInv, Swap
    PROVE  IInv'
  <1>1. /\ txn' \in Transactions /\ txn'.pc = "replacing"
        /\ txn'.rebuild = txn.rebuild /\ txn'.hash = txn.hash /\ txn'.docs = txn.docs
        /\ txn'.index = txn.index /\ txn'.previous = txn.previous
        /\ txn'.committed = TRUE /\ txn'.certain = txn.certain
        /\ txn'.oldFiles = txn.oldFiles /\ txn'.oldGov = txn.oldGov
    BY DEF IInv, TypeOK, Transactions, Contents, Goto, Swap
  <1>2. TypeOK'
    BY <1>1, TxnFacts DEF Staged, Unswapped, IInv, TypeOK, RecordStates, Doubtful, Harmless,
       Contents, Note, KeepRecord, surfaces, Swap
  <1>3. Candidate'
    BY <1>1 DEF IInv, TypeOK, Contents, Candidate, Staged, Unswapped, Bound, surfaces, Swap
  <1>4. Stages'
    BY <1>1, TxnFacts DEF IInv, TypeOK, Contents, Candidate, Stages, Closed, Staged, Unswapped,
       surfaces, Swap
  <1>5. Recording'
    BY <1>1 DEF IInv, Recording, Publishing, Staged, Unswapped, Doubtful, Note, KeepRecord,
       surfaces, Swap
  <1>6. Base'
    BY <1>1 DEF IInv, TypeOK, Candidate, Stages, Recording, Base, Backed, Closed, Staged,
       Unswapped, Publishing, Doubtful, Note, KeepRecord, surfaces, Swap
  <1> QED
    BY <1>2, <1>3, <1>4, <1>5, <1>6 DEF IInv

\* The answer of the alias request is missing.
LEMMA SwapFailsStep ==
    ASSUME IInv, SwapFails
    PROVE  IInv'
  <1>1. /\ txn' \in Transactions /\ txn'.pc = "reconciling"
        /\ txn'.rebuild = txn.rebuild /\ txn'.hash = txn.hash /\ txn'.docs = txn.docs
        /\ txn'.index = txn.index /\ txn'.previous = txn.previous
        /\ txn'.committed = txn.committed /\ txn'.certain = txn.certain
        /\ txn'.oldFiles = txn.oldFiles /\ txn'.oldGov = txn.oldGov
    BY DEF IInv, TypeOK, Transactions, Contents, Goto, SwapFails
  <1>2. TypeOK'
    BY <1>1, TxnFacts DEF Staged, Unswapped, IInv, TypeOK, RecordStates, Doubtful, Harmless,
       Contents, Note, KeepRecord, surfaces, SwapFails
  <1>3. Candidate'
    BY <1>1 DEF IInv, TypeOK, Contents, Candidate, Staged, Unswapped, Bound, surfaces, SwapFails
  <1>4. Stages'
    BY <1>1, TxnFacts DEF IInv, TypeOK, Contents, Candidate, Stages, Closed, Staged, Unswapped,
       surfaces, SwapFails
  <1>5. Recording'
    BY <1>1 DEF IInv, Recording, Publishing, Staged, Unswapped, Doubtful, Note, KeepRecord,
       surfaces, SwapFails
  <1>6. Base'
    BY <1>1 DEF IInv, TypeOK, Candidate, Stages, Recording, Base, Backed, Closed, Staged,
       Unswapped, Publishing, Doubtful, Note, KeepRecord, surfaces, SwapFails
  <1> QED
    BY <1>2, <1>3, <1>4, <1>5, <1>6 DEF IInv

\* The manifest cannot be replaced and the alias goes back.
LEMMA ReplaceFailsStep ==
    ASSUME IInv, ReplaceFails
    PROVE  IInv'
  <1>1. /\ txn' \in Transactions /\ txn'.pc = "unstaging"
        /\ txn'.rebuild = txn.rebuild /\ txn'.hash = txn.hash /\ txn'.docs = txn.docs
        /\ txn'.index = txn.index /\ txn'.previous = txn.previous
        /\ txn'.committed = FALSE /\ txn'.certain = txn.certain
        /\ txn'.oldFiles = txn.oldFiles /\ txn'.oldGov = txn.oldGov
    BY DEF IInv, TypeOK, Transactions, Contents, Goto, ReplaceFails, RollBack
  <1>2. TypeOK'
    BY <1>1, TxnFacts DEF Staged, Unswapped, IInv, TypeOK, RecordStates, Doubtful, Harmless,
       Contents, Note, KeepRecord, surfaces, ReplaceFails, RollBack
  <1>3. Candidate'
    BY <1>1 DEF IInv, TypeOK, Contents, Candidate, Staged, Unswapped, Bound, surfaces,
       ReplaceFails, RollBack
  <1>4. Stages'
    BY <1>1, TxnFacts DEF IInv, TypeOK, Contents, Candidate, Stages, Closed, Staged, Unswapped,
       surfaces, ReplaceFails, RollBack
  <1>5. Recording'
    BY <1>1 DEF IInv, Recording, Publishing, Staged, Unswapped, Doubtful, Note, KeepRecord,
       surfaces, ReplaceFails, RollBack
  <1>6. Base'
    BY <1>1 DEF IInv, TypeOK, Candidate, Stages, Recording, Base, Backed, Closed, Staged,
       Unswapped, Publishing, Doubtful, Note, KeepRecord, surfaces, ReplaceFails, RollBack
  <1> QED
    BY <1>2, <1>3, <1>4, <1>5, <1>6 DEF IInv

-------------------------------------------------------------------------------
\* The actions that end a publication.

\* The candidate cannot be read.
LEMMA BuildFailsStep ==
    ASSUME IInv, BuildFails
    PROVE  IInv'
  <1>1. /\ "CANDIDATE_BUILD_FAILED" \in RecordStates
        /\ "CANDIDATE_BUILD_FAILED" # "ACTIVE"
    BY DEF RecordStates, Harmless, Doubtful
  <1>2. /\ UNCHANGED <<pending, manifest>> /\ End("CANDIDATE_BUILD_FAILED")
        /\ files' \in Contents /\ governance' \in Contents
        /\ alias' \in Indexes /\ indexes' \in [Indexes -> Contents \cup {NoIndex}]
    BY TxnFacts DEF IInv, TypeOK, Contents, Staged, Unswapped, surfaces, BuildFails
  <1>3. indexes'[alias'] # NoIndex
    BY TxnFacts DEF IInv, TypeOK, Stages, Closed, Staged, Unswapped, surfaces, BuildFails
  <1>4. ~doubtful /\ "CANDIDATE_BUILD_FAILED" \in Harmless =>
           files' = manifest /\ governance' = manifest /\ indexes'[alias'] = manifest
    BY TxnFacts DEF IInv, TypeOK, Stages, Base, Backed, Harmless, Closed, Staged, Unswapped,
       surfaces,
       BuildFails
  <1>5. txn.rebuild /\ record = "ACTIVE" =>
           files' = txn.hash /\ governance' = txn.hash /\ indexes'[alias'] = txn.hash
    BY TxnFacts DEF IInv, TypeOK, Stages, Base, Backed, Closed, Staged, Unswapped, surfaces,
       BuildFails
  <1> QED
    BY <1>1, <1>2, <1>3, <1>4, <1>5, Ending

\* The candidate changed before it was read.
LEMMA CandidateStaleStep ==
    ASSUME IInv, CandidateStale
    PROVE  IInv'
  <1>1. /\ "PREFLIGHT_STALE" \in RecordStates
        /\ "PREFLIGHT_STALE" # "ACTIVE"
    BY DEF RecordStates, Harmless, Doubtful
  <1>2. /\ UNCHANGED <<pending, manifest>> /\ End("PREFLIGHT_STALE")
        /\ files' \in Contents /\ governance' \in Contents
        /\ alias' \in Indexes /\ indexes' \in [Indexes -> Contents \cup {NoIndex}]
    BY TxnFacts DEF IInv, TypeOK, Contents, Staged, Unswapped, surfaces, CandidateStale, Bound
  <1>3. indexes'[alias'] # NoIndex
    BY TxnFacts DEF IInv, TypeOK, Stages, Closed, Staged, Unswapped, surfaces, CandidateStale,
       Bound
  <1>4. ~doubtful /\ "PREFLIGHT_STALE" \in Harmless =>
           files' = manifest /\ governance' = manifest /\ indexes'[alias'] = manifest
    BY TxnFacts DEF IInv, TypeOK, Stages, Base, Backed, Harmless, Closed, Staged, Unswapped,
       surfaces,
       CandidateStale, Bound
  <1>5. txn.rebuild /\ record = "ACTIVE" =>
           files' = txn.hash /\ governance' = txn.hash /\ indexes'[alias'] = txn.hash
    BY TxnFacts DEF IInv, TypeOK, Stages, Base, Backed, Closed, Staged, Unswapped, surfaces,
       CandidateStale, Bound
  <1> QED
    BY <1>1, <1>2, <1>3, <1>4, <1>5, Ending

\* No index can be staged.
LEMMA StageFailsStep ==
    ASSUME IInv, StageFails
    PROVE  IInv'
  <1>1. /\ "PENDING_INDEX_RETRY" \in RecordStates
        /\ "PENDING_INDEX_RETRY" # "ACTIVE"
    BY DEF RecordStates, Harmless, Doubtful
  <1>2. /\ UNCHANGED <<pending, manifest>> /\ End("PENDING_INDEX_RETRY")
        /\ files' \in Contents /\ governance' \in Contents
        /\ alias' \in Indexes /\ indexes' \in [Indexes -> Contents \cup {NoIndex}]
    BY TxnFacts DEF IInv, TypeOK, Contents, Staged, Unswapped, surfaces, StageFails
  <1>3. indexes'[alias'] # NoIndex
    BY TxnFacts DEF IInv, TypeOK, Stages, Closed, Staged, Unswapped, surfaces, StageFails
  <1>4. ~doubtful /\ "PENDING_INDEX_RETRY" \in Harmless =>
           files' = manifest /\ governance' = manifest /\ indexes'[alias'] = manifest
    BY TxnFacts DEF IInv, TypeOK, Stages, Base, Backed, Harmless, Closed, Staged, Unswapped,
       surfaces,
       StageFails
  <1>5. txn.rebuild /\ record = "ACTIVE" =>
           files' = txn.hash /\ governance' = txn.hash /\ indexes'[alias'] = txn.hash
    BY TxnFacts DEF IInv, TypeOK, Stages, Base, Backed, Closed, Staged, Unswapped, surfaces,
       StageFails
  <1> QED
    BY <1>1, <1>2, <1>3, <1>4, <1>5, Ending

\* The candidate changed while the index was built.
LEMMA StagedStaleStep ==
    ASSUME IInv, StagedStale
    PROVE  IInv'
  <1>1. /\ "PREFLIGHT_STALE" \in RecordStates
        /\ "PREFLIGHT_STALE" # "ACTIVE"
    BY DEF RecordStates, Harmless, Doubtful
  <1>2. /\ UNCHANGED <<pending, manifest>> /\ End("PREFLIGHT_STALE")
        /\ files' \in Contents /\ governance' \in Contents
        /\ alias' \in Indexes /\ indexes' \in [Indexes -> Contents \cup {NoIndex}]
    BY TxnFacts DEF IInv, TypeOK, Contents, Staged, Unswapped, surfaces, StagedStale, Bound,
       Unstage, Deletable
  <1>3. indexes'[alias'] # NoIndex
    BY TxnFacts DEF IInv, TypeOK, Stages, Closed, Staged, Unswapped, surfaces, StagedStale,
       Bound, Unstage, Deletable
  <1>4. ~doubtful /\ "PREFLIGHT_STALE" \in Harmless =>
           files' = manifest /\ governance' = manifest /\ indexes'[alias'] = manifest
    BY TxnFacts DEF IInv, TypeOK, Stages, Base, Backed, Harmless, Closed, Staged, Unswapped,
       surfaces,
       StagedStale, Bound, Unstage, Deletable
  <1>5. txn.rebuild /\ record = "ACTIVE" =>
           files' = txn.hash /\ governance' = txn.hash /\ indexes'[alias'] = txn.hash
    BY TxnFacts DEF IInv, TypeOK, Stages, Base, Backed, Closed, Staged, Unswapped, surfaces,
       StagedStale, Bound, Unstage, Deletable
  <1> QED
    BY <1>1, <1>2, <1>3, <1>4, <1>5, Ending

\* Everything is put back.
LEMMA RestoreStep ==
    ASSUME IInv, Restore
    PROVE  IInv'
  <1>1. /\ FailureState \in RecordStates
        /\ FailureState # "ACTIVE"
    BY DEF FailureState, RecordStates, Harmless, Doubtful
  <1>2. /\ UNCHANGED <<pending, manifest>> /\ End(FailureState)
        /\ files' \in Contents /\ governance' \in Contents
        /\ alias' \in Indexes /\ indexes' \in [Indexes -> Contents \cup {NoIndex}]
    BY TxnFacts DEF IInv, TypeOK, Contents, Staged, Unswapped, surfaces, Restore, Publishing
  <1>3. indexes'[alias'] # NoIndex
    BY TxnFacts DEF IInv, TypeOK, Stages, Closed, Staged, Unswapped, surfaces, Restore,
       Publishing
  <1>4. ~doubtful /\ FailureState \in Harmless =>
           files' = manifest /\ governance' = manifest /\ indexes'[alias'] = manifest
    BY TxnFacts DEF IInv, TypeOK, Stages, Base, Backed, FailureState, Harmless, Closed, Staged,
       Unswapped,
       surfaces,
       Restore, Publishing
  <1>5. txn.rebuild /\ record = "ACTIVE" =>
           files' = txn.hash /\ governance' = txn.hash /\ indexes'[alias'] = txn.hash
    BY TxnFacts DEF IInv, TypeOK, Stages, Base, Backed, Closed, Staged, Unswapped, surfaces,
       Restore, Publishing
  <1> QED
    BY <1>1, <1>2, <1>3, <1>4, <1>5, Ending

\* Not everything can be put back.
LEMMA RestoreFailsStep ==
    ASSUME IInv, RestoreFails
    PROVE  IInv'
  <1>1. /\ "COMPENSATION_FAILED" \in RecordStates
        /\ "COMPENSATION_FAILED" # "ACTIVE"
    BY DEF RecordStates, Harmless, Doubtful
  <1>2. /\ UNCHANGED <<pending, manifest>> /\ End("COMPENSATION_FAILED")
        /\ files' \in Contents /\ governance' \in Contents
        /\ alias' \in Indexes /\ indexes' \in [Indexes -> Contents \cup {NoIndex}]
    BY TxnFacts DEF IInv, TypeOK, Contents, Staged, Unswapped, surfaces, RestoreFails
  <1>3. indexes'[alias'] # NoIndex
    BY TxnFacts DEF IInv, TypeOK, Stages, Closed, Staged, Unswapped, surfaces, RestoreFails
  <1>4. ~doubtful /\ "COMPENSATION_FAILED" \in Harmless =>
           files' = manifest /\ governance' = manifest /\ indexes'[alias'] = manifest
    BY TxnFacts DEF IInv, TypeOK, Stages, Base, Backed, Harmless, Closed, Staged, Unswapped,
       surfaces,
       RestoreFails
  <1>5. txn.rebuild /\ record = "ACTIVE" =>
           files' = txn.hash /\ governance' = txn.hash /\ indexes'[alias'] = txn.hash
    BY TxnFacts DEF IInv, TypeOK, Stages, Base, Backed, Closed, Staged, Unswapped, surfaces,
       RestoreFails
  <1> QED
    BY <1>1, <1>2, <1>3, <1>4, <1>5, Ending

-------------------------------------------------------------------------------
\* The actions that end a rebuild and send a publication to its compensation.

\* The staged index is deleted, if the alias does not point to it.
LEMMA AbortStageStep ==
    ASSUME IInv, AbortStage
    PROVE  IInv'
  <1>1. CASE txn.rebuild
    <2>1. /\ FailureState \in RecordStates
          /\ FailureState # "ACTIVE"
      BY DEF FailureState, RecordStates, Harmless, Doubtful
    <2>2. /\ UNCHANGED <<pending, files, governance, manifest>> /\ End(FailureState)
          /\ files \in Contents /\ governance \in Contents
          /\ alias' \in Indexes /\ indexes' \in [Indexes -> Contents \cup {NoIndex}]
      BY <1>1, TxnFacts DEF IInv, TypeOK, Staged, Unswapped, AbortStage, AfterFailedCommit,
         RollBack
    <2>3. indexes'[alias'] # NoIndex
      BY <1>1, TxnFacts DEF IInv, TypeOK, Stages, Staged, Unswapped, AbortStage,
         AfterFailedCommit, RollBack
    <2>4. ~doubtful /\ FailureState \in Harmless =>
             files' = manifest /\ governance' = manifest /\ indexes'[alias'] = manifest
      BY <1>1, TxnFacts DEF IInv, TypeOK, Stages, Base, Backed, FailureState, Harmless, Closed,
         Staged,
         Unswapped,
         AbortStage, AfterFailedCommit, RollBack
    <2>5. record = "ACTIVE" =>
             files' = txn.hash /\ governance' = txn.hash /\ indexes'[alias'] = txn.hash
      BY <1>1, TxnFacts DEF IInv, TypeOK, Stages, Base, Backed, Closed, Staged, Unswapped,
         AbortStage, AfterFailedCommit, RollBack
    <2> QED
      BY <2>1, <2>2, <2>3, <2>4, <2>5, Ending
  <1>2. CASE ~txn.rebuild
    <2>1. /\ txn' \in Transactions
          /\ txn'.pc = "restoring" /\ txn'.rebuild = txn.rebuild /\ txn'.hash = txn.hash
          /\ txn'.docs = txn.docs /\ txn'.index = txn.index
          /\ txn'.previous = txn.previous /\ txn'.certain = txn.certain
          /\ txn'.oldFiles = txn.oldFiles /\ txn'.oldGov = txn.oldGov
      BY <1>2 DEF IInv, TypeOK, Transactions, Contents, Goto, AbortStage, AfterFailedCommit,
         RollBack
    <2>2. /\ UNCHANGED <<pending, files, governance, manifest, record, doubtful>>
          /\ alias' \in Indexes /\ indexes' \in [Indexes -> Contents \cup {NoIndex}]
      BY <1>2, TxnFacts DEF IInv, TypeOK, Staged, Unswapped, KeepRecord, AbortStage,
         AfterFailedCommit, RollBack
    <2>3. TypeOK'
      BY <2>1, <2>2 DEF IInv, TypeOK
    <2>4. Candidate'
      BY <1>2, <2>1, <2>2 DEF IInv, Candidate, Staged, Unswapped, Bound, AbortStage
    <2>5. Stages'
      BY <1>2, <2>1, <2>2, TxnFacts DEF IInv, TypeOK, Stages, Closed, Staged, Unswapped,
         AbortStage, AfterFailedCommit, RollBack
    <2>6. Recording'
      BY <1>2, <2>1, <2>2 DEF IInv, Recording, Publishing, Staged, Unswapped, AbortStage
    <2>7. Base'
      BY <1>2, <2>1, <2>2, TxnFacts
      DEF IInv, TypeOK, Stages, Recording, Base, Backed, Closed, Staged, Unswapped, Publishing,
         Doubtful,
          AbortStage, AfterFailedCommit, RollBack
    <2> QED
      BY <2>3, <2>4, <2>5, <2>6, <2>7 DEF IInv
  <1> QED
    BY <1>1, <1>2

\* The stage cannot be rolled back.
LEMMA AbortStageFailsStep ==
    ASSUME IInv, AbortStageFails
    PROVE  IInv'
  <1>1. CASE txn.rebuild
    <2>1. /\ FailureState \in RecordStates
          /\ FailureState # "ACTIVE"
      BY DEF FailureState, RecordStates, Harmless, Doubtful
    <2>2. /\ UNCHANGED <<pending, files, governance, manifest>> /\ End(FailureState)
          /\ files \in Contents /\ governance \in Contents
          /\ alias' \in Indexes /\ indexes' \in [Indexes -> Contents \cup {NoIndex}]
      BY <1>1, TxnFacts DEF IInv, TypeOK, Staged, Unswapped, AbortStageFails,
         AfterFailedCommit, RollBackFails
    <2>3. indexes'[alias'] # NoIndex
      BY <1>1, TxnFacts DEF IInv, TypeOK, Stages, Staged, Unswapped, AbortStageFails,
         AfterFailedCommit, RollBackFails
    <2>4. ~doubtful /\ FailureState \in Harmless =>
             files' = manifest /\ governance' = manifest /\ indexes'[alias'] = manifest
      BY <1>1, TxnFacts DEF IInv, TypeOK, Stages, Base, Backed, FailureState, Harmless, Closed,
         Staged,
         Unswapped,
         AbortStageFails, AfterFailedCommit, RollBackFails
    <2>5. record = "ACTIVE" =>
             files' = txn.hash /\ governance' = txn.hash /\ indexes'[alias'] = txn.hash
      BY <1>1, TxnFacts DEF IInv, TypeOK, Stages, Base, Backed, Closed, Staged, Unswapped,
         AbortStageFails, AfterFailedCommit, RollBackFails
    <2> QED
      BY <2>1, <2>2, <2>3, <2>4, <2>5, Ending
  <1>2. CASE ~txn.rebuild
    <2>1. /\ txn' \in Transactions
          /\ txn'.pc = "restoring" /\ txn'.rebuild = txn.rebuild /\ txn'.hash = txn.hash
          /\ txn'.docs = txn.docs /\ txn'.index = txn.index
          /\ txn'.previous = txn.previous /\ txn'.certain = txn.certain
          /\ txn'.oldFiles = txn.oldFiles /\ txn'.oldGov = txn.oldGov
      BY <1>2 DEF IInv, TypeOK, Transactions, Contents, Goto, AbortStageFails,
         AfterFailedCommit, RollBackFails
    <2>2. /\ UNCHANGED <<pending, files, governance, manifest, record, doubtful>>
          /\ alias' \in Indexes /\ indexes' \in [Indexes -> Contents \cup {NoIndex}]
      BY <1>2, TxnFacts DEF IInv, TypeOK, Staged, Unswapped, KeepRecord, AbortStageFails,
         AfterFailedCommit, RollBackFails
    <2>3. TypeOK'
      BY <2>1, <2>2 DEF IInv, TypeOK
    <2>4. Candidate'
      BY <1>2, <2>1, <2>2 DEF IInv, Candidate, Staged, Unswapped, Bound, AbortStageFails
    <2>5. Stages'
      BY <1>2, <2>1, <2>2, TxnFacts DEF IInv, TypeOK, Stages, Closed, Staged, Unswapped,
         AbortStageFails, AfterFailedCommit, RollBackFails
    <2>6. Recording'
      BY <1>2, <2>1, <2>2 DEF IInv, Recording, Publishing, Staged, Unswapped, AbortStageFails
    <2>7. Base'
      BY <1>2, <2>1, <2>2, TxnFacts
      DEF IInv, TypeOK, Stages, Recording, Base, Backed, Closed, Staged, Unswapped, Publishing,
         Doubtful,
          AbortStageFails, AfterFailedCommit, RollBackFails
    <2> QED
      BY <2>3, <2>4, <2>5, <2>6, <2>7 DEF IInv
  <1> QED
    BY <1>1, <1>2

\* Neither the manifest nor the alias can be put right.
LEMMA ReplaceAndRollBackFailStep ==
    ASSUME IInv, ReplaceAndRollBackFail
    PROVE  IInv'
  <1>1. CASE txn.rebuild
    <2>1. /\ "ALIAS_UNCERTAIN" \in RecordStates
          /\ "ALIAS_UNCERTAIN" # "ACTIVE"
      BY DEF RecordStates, Harmless, Doubtful
    <2>2. /\ UNCHANGED <<pending, files, governance, manifest>> /\ End("ALIAS_UNCERTAIN")
          /\ files \in Contents /\ governance \in Contents
          /\ alias' \in Indexes /\ indexes' \in [Indexes -> Contents \cup {NoIndex}]
      BY <1>1, TxnFacts DEF IInv, TypeOK, Staged, Unswapped, ReplaceAndRollBackFail,
         RollBackFails
    <2>3. indexes'[alias'] # NoIndex
      BY <1>1, TxnFacts DEF IInv, TypeOK, Stages, Staged, Unswapped, ReplaceAndRollBackFail,
         RollBackFails
    <2>4. ~doubtful /\ "ALIAS_UNCERTAIN" \in Harmless =>
             files' = manifest /\ governance' = manifest /\ indexes'[alias'] = manifest
      BY <1>1, TxnFacts DEF IInv, TypeOK, Stages, Base, Backed, Harmless, Closed, Staged,
         Unswapped,
         ReplaceAndRollBackFail, RollBackFails
    <2>5. record = "ACTIVE" =>
             files' = txn.hash /\ governance' = txn.hash /\ indexes'[alias'] = txn.hash
      BY <1>1, TxnFacts DEF IInv, TypeOK, Stages, Base, Backed, Closed, Staged, Unswapped,
         ReplaceAndRollBackFail, RollBackFails
    <2> QED
      BY <2>1, <2>2, <2>3, <2>4, <2>5, Ending
  <1>2. CASE ~txn.rebuild
    <2>1. /\ txn' \in Transactions
          /\ txn'.pc = "restoring" /\ txn'.rebuild = txn.rebuild /\ txn'.hash = txn.hash
          /\ txn'.docs = txn.docs /\ txn'.index = txn.index
          /\ txn'.previous = txn.previous /\ txn'.certain = FALSE
          /\ txn'.oldFiles = txn.oldFiles /\ txn'.oldGov = txn.oldGov
      <3>1. txn' = [txn EXCEPT !.pc = "restoring", !.certain = FALSE]
        BY <1>2 DEF ReplaceAndRollBackFail
      <3>2. txn \in Transactions
        BY DEF IInv, TypeOK
      <3> QED
        BY <3>1, <3>2 DEF Transactions
    <2>2. /\ UNCHANGED <<pending, files, governance, manifest, record, doubtful>>
          /\ alias' \in Indexes /\ indexes' \in [Indexes -> Contents \cup {NoIndex}]
      BY <1>2, TxnFacts DEF IInv, TypeOK, Staged, Unswapped, KeepRecord,
         ReplaceAndRollBackFail, RollBackFails
    <2>3. TypeOK'
      BY <2>1, <2>2 DEF IInv, TypeOK
    <2>4. Candidate'
      BY <1>2, <2>1, <2>2 DEF IInv, Candidate, Staged, Unswapped, Bound, ReplaceAndRollBackFail
    <2>5. Stages'
      BY <1>2, <2>1, <2>2, TxnFacts DEF IInv, TypeOK, Stages, Closed, Staged, Unswapped,
         ReplaceAndRollBackFail, RollBackFails
    <2>6. Recording'
      BY <1>2, <2>1, <2>2 DEF IInv, Recording, Publishing, Staged, Unswapped,
         ReplaceAndRollBackFail
    <2>7. Base'
      BY <1>2, <2>1, <2>2, TxnFacts
      DEF IInv, TypeOK, Stages, Recording, Base, Backed, Closed, Staged, Unswapped, Publishing,
         Doubtful,
          ReplaceAndRollBackFail, RollBackFails
    <2> QED
      BY <2>3, <2>4, <2>5, <2>6, <2>7 DEF IInv
  <1> QED
    BY <1>1, <1>2

\* The commit fails and the alias is asked for.
LEMMA ReconcileStep ==
    ASSUME IInv, Reconcile
    PROVE  IInv'
  <1>1. /\ txn' \in Transactions
        /\ txn'.pc = "unstaging" /\ txn'.rebuild = txn.rebuild /\ txn'.hash = txn.hash
        /\ txn'.docs = txn.docs /\ txn'.index = txn.index /\ txn'.previous = txn.previous
        /\ txn'.oldFiles = txn.oldFiles /\ txn'.oldGov = txn.oldGov
    <2>1. txn \in Transactions
      BY DEF IInv, TypeOK
    <2>2. CASE txn' = [txn EXCEPT !.pc = "unstaging"]
      BY <2>1, <2>2 DEF Transactions
    <2>3. CASE txn' = [txn EXCEPT !.pc = "unstaging", !.committed = TRUE, !.certain = FALSE]
      BY <2>1, <2>3 DEF Transactions
    <2>4. CASE txn' = [txn EXCEPT !.pc = "unstaging", !.certain = FALSE]
      BY <2>1, <2>4 DEF Transactions
    <2> QED
      BY <2>2, <2>3, <2>4 DEF Reconcile, Goto
  <1>2. /\ UNCHANGED <<pending, files, governance, manifest, indexes, record, doubtful>>
        /\ txn.pc = "reconciling"
        /\ alias' \in {txn.index, txn.previous}
    BY DEF IInv, Stages, Staged, Unswapped, KeepRecord, Reconcile, RollBack, RollBackFails
  <1>3. txn'.certain => alias' = txn.previous /\ ~txn'.committed
    BY DEF IInv, TypeOK, Transactions, Stages, Staged, Unswapped, Goto, Reconcile, RollBack
  <1>4. TypeOK'
    BY <1>1, <1>2, TxnFacts DEF IInv, TypeOK, Staged, Unswapped
  <1>5. Candidate'
    BY <1>1, <1>2 DEF IInv, Candidate, Staged, Unswapped, Bound
  <1>6. Stages'
    BY <1>1, <1>2, <1>3, TxnFacts DEF IInv, TypeOK, Stages, Closed, Staged, Unswapped
  <1>7. Recording'
    BY <1>1, <1>2 DEF IInv, Recording, Publishing, Staged, Unswapped
  <1>8. Base'
    BY <1>1, <1>2 DEF IInv, Base, Backed, Closed, Staged, Unswapped
  <1> QED
    BY <1>4, <1>5, <1>6, <1>7, <1>8 DEF IInv

\* The manifest follows: everything shows what was published.
LEMMA ReplaceStep ==
    ASSUME IInv, Replace
    PROVE  IInv'
  <1>1. txn.hash \in Nat /\ txn' = Ended(txn.hash)
    BY TxnFacts DEF Replace
  <1>2. /\ txn' \in Transactions
        /\ txn'.pc = "none" /\ txn'.hash = txn.hash /\ txn'.rebuild = FALSE
        /\ txn'.certain = TRUE /\ txn'.committed = FALSE
    BY <1>1, EndedFacts
  <1>3. /\ UNCHANGED <<pending, files, governance, alias>>
        /\ manifest' = txn.docs
        /\ indexes' \in [Indexes -> Contents \cup {NoIndex}]
        /\ indexes'[alias] = txn.docs
        /\ record' = IF txn.rebuild THEN record ELSE "ACTIVE"
        /\ doubtful' = (txn.rebuild /\ doubtful)
        /\ txn.pc = "replacing"
    BY TxnFacts DEF IInv, TypeOK, Stages, Staged, Unswapped, Replace, Deletable, Note
  <1>4. TypeOK'
    BY <1>2, <1>3, TxnFacts DEF IInv, TypeOK, RecordStates
  <1>5. Candidate' /\ Stages' /\ Recording'
    BY <1>2, <1>3, TxnFacts
    DEF IInv, Candidate, Stages, Recording, Closed, Staged, Unswapped, Publishing
  <1>6. Base'
    BY <1>2, <1>3 DEF IInv, Candidate, Base, Backed, Closed, Staged, Unswapped
  <1> QED
    BY <1>4, <1>5, <1>6 DEF IInv

\* The candidate is edited.
LEMMA EditStep ==
    ASSUME IInv, Edit
    PROVE  IInv'
  <1>1. /\ pending' = pending + 1 /\ pending \in Nat
        /\ UNCHANGED <<files, governance, manifest, alias, indexes, txn, record, doubtful>>
    BY DEF IInv, TypeOK, Edit, KeepRecord, surfaces
  <1>2. TypeOK'
    BY <1>1 DEF IInv, TypeOK
  <1>3. Candidate'
    BY <1>1, TxnFacts DEF IInv, Candidate, Bound
  <1>4. Stages' /\ Recording' /\ Base'
    BY <1>1 DEF IInv, Stages, Recording, Base, Backed
  <1> QED
    BY <1>2, <1>3, <1>4 DEF IInv

\* The process dies; its record tells how far it came.
LEMMA CrashStep ==
    ASSUME IInv, Crash
    PROVE  IInv'
  <1>1. txn.hash \in Nat /\ txn' = Ended(txn.hash)
    BY TxnFacts DEF Crash
  <1>2. /\ txn' \in Transactions
        /\ txn'.pc = "none" /\ txn'.hash = txn.hash /\ txn'.rebuild = FALSE
        /\ txn'.certain = TRUE /\ txn'.committed = FALSE
    BY <1>1, EndedFacts
  <1>3. /\ UNCHANGED <<pending, files, governance, manifest, alias, indexes, record>>
        /\ doubtful' = (doubtful \/ RecordLeft \in Doubtful)
        /\ txn.pc # "none" /\ txn.pc \in Closed \cup Staged
    BY DEF IInv, TypeOK, Transactions, Crash, surfaces, Closed, Staged, Unswapped
  <1>4. TypeOK'
    BY <1>2, <1>3 DEF IInv, TypeOK
  <1>5. Candidate' /\ Stages' /\ Recording'
    BY <1>2, <1>3 DEF IInv, Candidate, Stages, Recording, Closed, Staged, Unswapped, Publishing
  <1>6. ~doubtful' => Backed(manifest)'
    BY <1>2, <1>3
    DEF IInv, Stages, Recording, Base, Backed, Closed, Staged, Unswapped, Publishing, Doubtful,
       RecordLeft
  <1>7. record' = "ACTIVE" => Backed(txn.hash)'
    BY <1>2, <1>3
    DEF IInv, Stages, Recording, Base, Backed, Closed, Staged, Unswapped, Publishing, Doubtful
  <1> QED
    BY <1>2, <1>4, <1>5, <1>6, <1>7 DEF IInv, Base

-------------------------------------------------------------------------------
\* The invariant is inductive.
LEMMA StepInv ==
    ASSUME IInv, [Next]_vars
    PROVE  IInv'
  <1>1. CASE Begin
    BY <1>1, BeginStep
  <1>2. CASE BeginStale \/ UNCHANGED vars
    BY <1>2 DEF BeginStale, vars, surfaces, IInv, TypeOK, Candidate, Stages, Recording, Base,
       Backed, Bound
  <1>3. CASE BeginRebuild
    BY <1>3, BeginRebuildStep
  <1>4. CASE Proceed
    BY <1>4, BuildStep, BuildFailsStep, BindCandidateStep, CandidateStaleStep, StageStep,
       StageFailsStep,
       SnapshotStep, StagedStaleStep, WriteFilesStep, FilesWrittenStep, BindLiveStep,
       GovernStep,
       BindFinalStep, VerifyStep, PublishFailsStep, SwapStep, SwapFailsStep, ReconcileStep,
       AbortStageStep,
       AbortStageFailsStep, ReplaceStep, ReplaceFailsStep, ReplaceAndRollBackFailStep,
       RestoreStep,
       RestoreFailsStep
    DEF Proceed
  <1>5. CASE Edit
    BY <1>5, EditStep
  <1>6. CASE Crash
    BY <1>6, CrashStep
  <1> QED
    BY <1>1, <1>2, <1>3, <1>4, <1>5, <1>6 DEF Next

\* The invariant holds in every reachable state.
LEMMA Invariance == Spec => []IInv
  <1>1. Init => IInv
    BY InitInv
  <1>2. IInv /\ [Next]_vars => IInv'
    BY StepInv
  <1> QED
    BY <1>1, <1>2, PTL DEF Spec

-------------------------------------------------------------------------------
\* Every field of the state keeps its range.
THEOREM TypeCorrect == Spec => []TypeOK
  <1>1. IInv => TypeOK
    BY DEF IInv
  <1> QED
    BY <1>1, Invariance, PTL

\* After a publication that ended ACTIVE, files, governance, manifest and the
\* search show the content that was reviewed, however often the candidate
\* changed while publish_approved read it.
THEOREM ActiveIsReviewed == Spec => []ActiveAsReviewed
  <1>1. IInv => ActiveAsReviewed
    BY DEF IInv, Stages, Base, Backed, ActiveAsReviewed, AllShow, Closed
  <1> QED
    BY <1>1, Invariance, PTL

\* Without a doubtful record the active surfaces agree, whatever failed, was
\* compensated or died in between.
THEOREM RecordsTellTheTruth == Spec => []RecordsTell
  <1>1. IInv => RecordsTell
    BY DEF IInv, Stages, Base, Backed, RecordsTell, AllShow, Closed
  <1> QED
    BY <1>1, Invariance, PTL

\* The search alias points to an index that exists.
THEOREM AliasStaysAlive == Spec => []AliasAlive
  <1>1. IInv => AliasAlive
    BY DEF IInv, Stages, AliasAlive
  <1> QED
    BY <1>1, Invariance, PTL

\* The manifest never runs ahead of the search alias.
THEOREM ManifestFollows == Spec => ManifestFollowsAlias
  <1>1. ASSUME IInv, [Next]_vars
        PROVE  [manifest' # manifest => indexes[alias] = manifest']_vars
    <2>1. CASE Replace
      BY <1>1, <2>1 DEF Replace, IInv, Stages, Staged, Unswapped
    <2>2. CASE ~Replace
      <3>1. UNCHANGED manifest
        BY <1>1, <2>2
        DEF Next, Proceed, vars, surfaces, Begin, BeginStale, BeginRebuild, Edit, Crash,
            Build, BuildFails, BindCandidate, CandidateStale, Stage, StageFails, Snapshot,
            StagedStale,
            WriteFiles, FilesWritten, BindLive, Govern, BindFinal, Verify, PublishFails, Swap,
            SwapFails,
            Reconcile, AbortStage, AbortStageFails, ReplaceFails, ReplaceAndRollBackFail,
            Restore,
            RestoreFails
      <3> QED
        BY <3>1
    <2> QED
      BY <2>1, <2>2
  <1> QED
    BY <1>1, Invariance, PTL DEF Spec, ManifestFollowsAlias

-------------------------------------------------------------------------------
(* A transaction comes nearer to its end *)

\* the order of the places of a transaction, of a failure behind what it undoes
Rank(p) ==
    IF p = "building" THEN 15
    ELSE IF p = "built" THEN 14
    ELSE IF p = "preparing" THEN 13
    ELSE IF p = "staged" THEN 12
    ELSE IF p = "publishing" THEN 11
    ELSE IF p = "writing" THEN 10
    ELSE IF p = "written" THEN 9
    ELSE IF p = "governing" THEN 8
    ELSE IF p = "governed" THEN 7
    ELSE IF p = "verifying" THEN 6
    ELSE IF p = "swapping" THEN 5
    ELSE IF p \in {"reconciling", "replacing"} THEN 4
    ELSE IF p = "unstaging" THEN 3
    ELSE IF p = "restoring" THEN 2
    ELSE 0

\* Nothing that fails, and no edit, sends the transaction that holds the lock back;
\* and while it is under way no other one begins.
TransactionAdvances ==
    txn.pc # "none" => txn' = txn \/ Rank(txn'.pc) < Rank(txn.pc)

\* A step along the publication.
LEMMA Forward ==
    ASSUME TypeOK, Build \/ BindCandidate \/ Snapshot \/ WriteFiles \/ FilesWritten
                   \/ BindLive \/ Govern \/ BindFinal \/ Verify
    PROVE  <<txn.pc, txn'.pc>> \in {<<"building", "built">>, <<"built", "preparing">>,
               <<"staged", "publishing">>, <<"publishing", "writing">>,
               <<"writing", "written">>, <<"written", "governing">>,
               <<"governing", "governed">>, <<"governed", "verifying">>,
               <<"verifying", "swapping">>}
  <1>1. txn \in Transactions
    BY DEF TypeOK
  <1>2. CASE Build \/ Snapshot
    BY <1>1, <1>2 DEF Build, Snapshot, Transactions
  <1>3. CASE BindCandidate \/ WriteFiles \/ FilesWritten \/ BindLive
    BY <1>1, <1>3 DEF BindCandidate, WriteFiles, FilesWritten, BindLive, Goto, Transactions
  <1>4. CASE Govern \/ BindFinal \/ Verify
    BY <1>1, <1>4 DEF Govern, BindFinal, Verify, Goto, Transactions
  <1> QED
    BY <1>2, <1>3, <1>4

\* Each step of a transaction lowers the rank of its place.
LEMMA ProceedFalls ==
    ASSUME TypeOK, Proceed
    PROVE  Rank(txn'.pc) < Rank(txn.pc)
  <1> USE DEF Rank
  <1>1. txn \in Transactions /\ \A h : Ended(h).pc = "none"
    BY DEF TypeOK, Ended
  <1>2. CASE BuildFails \/ CandidateStale \/ StageFails \/ StagedStale \/ Replace
             \/ Restore \/ RestoreFails
    <2>1. /\ txn'.pc = "none"
          /\ txn.pc \in {"building", "built", "preparing", "staged", "replacing", "restoring"}
      BY <1>1, <1>2 DEF BuildFails, CandidateStale, StageFails, StagedStale, Replace, Restore,
                        RestoreFails, End
    <2> QED
      BY <2>1
  <1>3. CASE Build \/ BindCandidate \/ Snapshot \/ WriteFiles \/ FilesWritten \/ BindLive
             \/ Govern \/ BindFinal \/ Verify
    BY <1>3, Forward
  <1>4. CASE Stage
    <2>1. txn.pc = "preparing" /\ txn'.pc \in {"swapping", "staged"}
      BY <1>1, <1>4 DEF Stage, Transactions
    <2> QED
      BY <2>1
  <1>5. CASE PublishFails
    <2>1. /\ txn.pc \in {"publishing", "writing", "written", "governing", "governed",
                         "verifying"}
          /\ txn'.pc = "restoring"
      BY <1>1, <1>5 DEF PublishFails, Goto, Transactions
    <2> QED
      BY <2>1
  <1>6. CASE Swap \/ SwapFails \/ ReplaceFails
    <2>1. \/ txn.pc = "swapping" /\ txn'.pc \in {"reconciling", "replacing"}
          \/ txn.pc = "replacing" /\ txn'.pc = "unstaging"
      BY <1>1, <1>6 DEF Swap, SwapFails, ReplaceFails, Goto, Transactions
    <2> QED
      BY <2>1
  <1>7. CASE Reconcile
    <2>1. txn.pc = "reconciling" /\ txn'.pc = "unstaging"
      BY <1>1, <1>7 DEF Reconcile, Goto, Transactions
    <2> QED
      BY <2>1
  <1>8. CASE AbortStage \/ AbortStageFails
    <2>1. txn.pc = "unstaging" /\ txn'.pc \in {"none", "restoring"}
      BY <1>1, <1>8 DEF AbortStage, AbortStageFails, AfterFailedCommit, End, Goto, Transactions
    <2> QED
      BY <2>1
  <1>9. CASE ReplaceAndRollBackFail
    <2>1. txn.pc = "replacing" /\ txn'.pc \in {"none", "restoring"}
      BY <1>1, <1>9 DEF ReplaceAndRollBackFail, End, Transactions
    <2> QED
      BY <2>1
  <1> QED
    BY <1>2, <1>3, <1>4, <1>5, <1>6, <1>7, <1>8, <1>9 DEF Proceed

\* Why publish_approved and a rebuild give the lock back: a transaction takes at
\* most 15 steps, whatever fails and however often the candidate is edited.
THEOREM TransactionComesNearer == Spec => [][TransactionAdvances]_vars
  <1>1. TypeOK /\ [Next]_vars => [TransactionAdvances]_vars
    <2> SUFFICES ASSUME TypeOK, Next PROVE TransactionAdvances
      BY DEF TransactionAdvances
    <2>1. CASE Proceed
      BY <2>1, ProceedFalls DEF TransactionAdvances
    <2>2. CASE Crash
      <3>1. txn'.pc = "none" /\ txn.pc # "none"
        BY <2>2 DEF Crash, Ended
      <3> QED
        BY <3>1 DEF TransactionAdvances, Rank, TypeOK, Transactions
    <2>3. CASE Begin \/ BeginStale \/ BeginRebuild \/ Edit
      BY <2>3 DEF Begin, BeginStale, BeginRebuild, Edit, TransactionAdvances, vars
    <2> QED
      BY <2>1, <2>2, <2>3 DEF Next
  <1> QED
    BY <1>1, TypeCorrect, PTL DEF Spec
===============================================================================
