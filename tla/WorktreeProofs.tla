--------------------------- MODULE WorktreeProofs ---------------------------
(***************************************************************************)
(* Theorems about Worktree, for every set of clients, paths and edits,     *)
(* every environment and every bound.                                      *)
(***************************************************************************)
EXTENDS Worktree, TLAPS

(* The conjunct of TypeOK that Record, and the end of a run, change.       *)
BlobsType == blobs \subseteq Content /\ spoiled \subseteq blobs
USE DEF BlobsType

-----------------------------------------------------------------------------
(* The empty tree, ledger and tombstone table are well typed.              *)
LEMMA NoTreeType == NoTree \in Tree /\ NoTree \in Files /\ NoTree \in Tombs
  BY DEF NoTree, Tree, Files, Tombs, Maybe

(* A run in progress has a job.                                            *)
LEMMA JobType == TypeOK /\ pc # "idle" => job \in Job
  BY DEF TypeOK, Maybe

(* L is a content or None.                                                 *)
LEMMA LType == ASSUME TypeOK, NEW p \in Path PROVE L(p) \in Maybe(Content)
  BY DEF TypeOK, L, Files, FileEntry, Maybe

(* Record and RecordTombstone keep the run's tables well typed.            *)
LEMMA RecordType ==
  ASSUME TypeOK, NEW p \in Path, NEW u \in Content, Record(p, u)
  PROVE  files' \in Files /\ stones' \in Tombs /\ BlobsType'
  <1>1. [hash |-> u, gen |-> gen + 1] \in FileEntry
    BY DEF TypeOK, FileEntry
  <1>2. files' \in Files
    BY <1>1 DEF Record, TypeOK, Files, Maybe
  <1>3. stones' \in Tombs
    BY DEF Record, TypeOK, Tombs, Maybe
  <1> QED
    BY <1>2, <1>3 DEF Record, TypeOK

LEMMA RecordTombstoneType ==
  ASSUME TypeOK, NEW p \in Path, RecordTombstone(p)
  PROVE  files' \in Files /\ stones' \in Tombs
  <1>1. [last |-> L(p)] \in Tombstone
    BY LType DEF Tombstone
  <1>2. files' \in Files
    BY DEF RecordTombstone, TypeOK, Files, Maybe
  <1> QED
    BY <1>1, <1>2 DEF RecordTombstone, TypeOK, Tombs, Maybe

(* Writing one file of one replica.                                        *)
LEMMA WriteType ==
  ASSUME TypeOK, NEW r \in Replica, NEW p \in Path, NEW u \in Maybe(Content),
         tree' = [tree EXCEPT ![r][p] = u]
  PROVE  tree' \in [Replica -> Tree]
  BY DEF TypeOK, Tree

LEMMA InitType == Init => TypeOK
  BY NoTreeType, NoneAssumption DEF Init, TypeOK, Phase, Maybe, Tree

(* The end of a run, and the start of one.                                 *)
LEMMA EndRunType ==
  ASSUME TypeOK, EndRun, UNCHANGED <<gen, base, tombs, cursor, made, dropped,
                                     removed>>,
         tree' \in [Replica -> Tree], BlobsType'
  PROVE  TypeOK'
  BY NoTreeType DEF TypeOK, EndRun, ForgetRun, Phase, Maybe

LEMMA BeginType == ASSUME TypeOK, NEW c \in Client, Begin(c) PROVE TypeOK'
  <1>1. PICK dry \in Choice("dryrun"), allow \in Choice("massdelete"),
             hl \in Unseen(c), hh \in Unseen(Hub) :
          /\ job' = [client |-> c, dryRun |-> dry, allowed |-> allow,
                     local |-> Scan(c, hl), hub |-> Scan(Hub, hh)]
          /\ todo' \subseteq Path
          /\ touched' = hl \cup hh
    BY DEF Begin, UnionPaths
  <1>a. dry \in BOOLEAN /\ allow \in BOOLEAN
    BY DEF Choice
  <1>b. hl \in SUBSET Path /\ hh \in SUBSET Path
    BY DEF Unseen, Present
  <1>2. \A r \in Replica, h \in SUBSET Path : Scan(r, h) \in Tree
    BY DEF Scan, Tree, TypeOK, Maybe
  <1>3. job' \in Job
    BY <1>1, <1>2, <1>a, <1>b DEF Job, Replica
  <1> QED
    BY <1>1, <1>3, <1>b, NoneAssumption
    DEF Begin, TypeOK, Phase, Maybe, ledgerVars, blobVars, writeVars,
        peopleVars

LEMMA RemoveType ==
  ASSUME TypeOK, NEW r \in Replica, NEW p \in Path, Deciding(p), Remove(r, p),
         wiped' \subseteq Path
  PROVE  TypeOK'
  <1>1. tree' \in [Replica -> Tree]
    BY WriteType DEF Remove, Maybe
  <1>2. files' \in Files /\ stones' \in Tombs
    BY RecordTombstoneType DEF Remove
  <1>3. removed' \in Tree
    BY DEF Remove, TypeOK, Tree, Maybe
  <1> QED
    BY <1>1, <1>2, <1>3
    DEF Remove, TypeOK, ledgerVars, blobVars, writeVars, peopleVars, Deciding

LEMMA CopyType ==
  ASSUME TypeOK, NEW from \in Replica, NEW to \in Replica, NEW p \in Path,
         Copy(from, to, p)
  PROVE  /\ tree' \in [Replica -> Tree]
         /\ files' \in Files /\ stones' \in Tombs /\ BlobsType'
  <1>1. tree[from][p] \in Content
    BY DEF Copy, TypeOK, Tree, Maybe
  <1>2. tree' \in [Replica -> Tree]
    BY <1>1, WriteType DEF Copy, Maybe
  <1> QED
    BY <1>1, <1>2, RecordType DEF Copy

LEMMA DecideType == ASSUME TypeOK, NEW p \in Path, Decide(p) PROVE TypeOK'
  <1> USE DEF Deciding
  <1>j. job \in Job /\ pc = "reconcile"
    BY JobType DEF Decide, Settle, RecordSame, DeleteLocal, DeleteRemote,
                   CopyToLocal, CopyToRemote, MergePath, Quarantine, DryPath
  <1>c. job.client \in Replica /\ Hub \in Replica
    BY <1>j DEF Job, Replica
  <1>1. CASE Settle(p)
    <2>1. files' \in Files
      BY <1>1 DEF Settle, EntryCleared, TypeOK, Files, Maybe
    <2> QED
      BY <1>1, <2>1 DEF Settle, TypeOK, ledgerVars, blobVars, writeVars,
                        historyVars
  <1>2. CASE RecordSame(p)
    <2>1. tree[Hub][p] \in Content
      BY <1>2, <1>c DEF RecordSame, TypeOK, Tree, Maybe
    <2>2. files' \in Files /\ stones' \in Tombs /\ BlobsType'
      BY <1>2, <2>1, RecordType DEF RecordSame
    <2> QED
      BY <1>2, <2>2 DEF RecordSame, TypeOK, ledgerVars, blobVars, writeVars,
                        historyVars
  <1>3. CASE DeleteLocal(p)
    BY <1>3, <1>c, RemoveType DEF DeleteLocal, TypeOK
  <1>4. CASE DeleteRemote(p)
    BY <1>4, <1>c, RemoveType DEF DeleteRemote, TypeOK
  <1>5. CASE CopyToLocal(p)
    <2>1. /\ tree' \in [Replica -> Tree]
          /\ files' \in Files /\ stones' \in Tombs /\ BlobsType'
      BY <1>5, <1>c, CopyType DEF CopyToLocal
    <2> QED
      BY <1>5, <2>1 DEF CopyToLocal, Copy, FlagIf, TypeOK, ledgerVars,
                        blobVars, writeVars, historyVars
  <1>6. CASE CopyToRemote(p)
    <2>1. /\ tree' \in [Replica -> Tree]
          /\ files' \in Files /\ stones' \in Tombs /\ BlobsType'
      BY <1>6, <1>c, CopyType DEF CopyToRemote
    <2> QED
      BY <1>6, <2>1 DEF CopyToRemote, Copy, FlagIf, TypeOK, ledgerVars,
                        blobVars, writeVars, historyVars
  <1>7. CASE MergePath(p)
    <2>1. val' \in Content
      BY <1>7, <1>c, LType
      DEF MergePath, Merged, TypeOK, Tree, Maybe, Content
    <2> QED
      BY <1>7, <1>j, <2>1, NoneAssumption
      DEF MergePath, TypeOK, Phase, Maybe, ledgerVars, blobVars, memoryVars,
          historyVars
  <1>8. CASE Quarantine(p)
    <2>1. val' \in Content
      BY <1>8, <1>c DEF Quarantine, LocalVersion, TypeOK, Tree, Maybe
    <2>2. target' \in Sidecar[p]
      BY <1>8 DEF Quarantine
    <2>3. target' \in Path
      BY <2>2, PathAssumption
    <2> QED
      BY <1>8, <1>j, <2>1, <2>3, NoneAssumption
      DEF Quarantine, TypeOK, Phase, Maybe, ledgerVars, blobVars, memoryVars,
          historyVars
  <1>9. CASE DryPath(p)
    BY <1>9 DEF DryPath, FlagIf, TypeOK, ledgerVars, blobVars, memoryVars,
                writeVars, historyVars
  <1> QED
    BY <1>1, <1>2, <1>3, <1>4, <1>5, <1>6, <1>7, <1>8, <1>9 DEF Decide

LEMMA WriteStepType == ASSUME TypeOK, Write PROVE TypeOK'
  <1>j. job \in Job /\ job.client \in Replica /\ Hub \in Replica
    BY JobType DEF Write, WriteBothLocal, WriteBothHub, AlignLocal, Job,
                   Replica
  <1>1. CASE WriteBothLocal
    <2>1. tree' \in [Replica -> Tree]
      BY <1>1, <1>j, WriteType DEF WriteBothLocal, TypeOK, Maybe
    <2> QED
      BY <1>1, <1>j, <2>1 DEF WriteBothLocal, TypeOK, Phase, ledgerVars,
                              blobVars, memoryVars, writeVars, historyVars
  <1>2. CASE WriteBothHub
    <2>1. target \in Path /\ cur \in Path /\ val \in Content
      BY <1>2 DEF WriteBothHub, TypeOK, Maybe
    <2>2. tree' \in [Replica -> Tree]
      BY <1>2, <1>j, <2>1, WriteType DEF WriteBothHub, Maybe
    <2>3. files' \in Files /\ stones' \in Tombs /\ BlobsType'
      BY <1>2, <2>1, RecordType DEF WriteBothHub
    <2> QED
      BY <1>2, <1>j, <2>1, <2>2, <2>3
      DEF WriteBothHub, TypeOK, Phase, Maybe, ledgerVars, blobVars, historyVars
  <1>3. CASE AlignLocal
    <2>1. cur \in Path
      BY <1>3 DEF AlignLocal, TypeOK, Maybe
    <2>2. /\ tree' \in [Replica -> Tree]
          /\ files' \in Files /\ stones' \in Tombs /\ BlobsType'
      BY <1>3, <1>j, <2>1, CopyType DEF AlignLocal
    <2> QED
      BY <1>3, <1>j, <2>1, <2>2
      DEF AlignLocal, Copy, TypeOK, Phase, Maybe, ledgerVars, blobVars,
          historyVars
  <1> QED
    BY <1>1, <1>2, <1>3 DEF Write

LEMMA FinishType == ASSUME TypeOK, Finish PROVE TypeOK'
  <1>1. CASE Save
    <2>1. job \in Job
      BY <1>1, JobType DEF Save
    <2>2. gen' \in Nat /\ cursor' \in [Client -> Nat]
      BY <1>1, <2>1 DEF Save, TypeOK, Job
    <2> QED
      BY <1>1, <2>1, <2>2 DEF Save, TypeOK, Phase, blobVars, memoryVars,
                              writeVars, historyVars
  <1>2. CASE CollectBlobs
    <2>1. BlobsType'
      BY <1>2 DEF CollectBlobs, TypeOK
    <2>2. tree' \in [Replica -> Tree]
      BY <1>2 DEF CollectBlobs, TypeOK
    <2> QED
      BY <1>2, <2>1, <2>2, EndRunType DEF CollectBlobs, ledgerVars, blobVars,
                                          peopleVars
  <1>3. CASE EndDryRun
    <2>1. BlobsType' /\ tree' \in [Replica -> Tree]
      BY <1>3 DEF EndDryRun, TypeOK, blobVars
    <2> QED
      BY <1>3, <2>1, EndRunType DEF EndDryRun, ledgerVars, blobVars, peopleVars
  <1> QED
    BY <1>1, <1>2, <1>3 DEF Finish

LEMMA FailureType == ASSUME TypeOK, Failure PROVE TypeOK'
  <1>1. CASE Stop
    <2>1. BlobsType' /\ tree' \in [Replica -> Tree]
      BY <1>1 DEF Stop, TypeOK, blobVars
    <2> QED
      BY <1>1, <2>1, EndRunType DEF Stop, ledgerVars, blobVars, peopleVars
  <1>2. CASE Tear
    <2>1. job.client \in Replica /\ Hub \in Replica
      BY <1>2, JobType DEF Tear, Job, Replica
    <2>2. ASSUME TearFile PROVE tree' \in [Replica -> Tree]
      <3>1. PICK f \in InFlight : tree' = [tree EXCEPT ![f[1]][f[2]] = Torn]
        BY <2>2 DEF TearFile
      <3>2. f[1] \in Replica /\ f[2] \in Path
        <4>1. CASE pc \in {"writeLocal", "writeHub", "align"}
          BY <2>1, <3>1, <4>1 DEF InFlight, TypeOK, Maybe
        <4>2. CASE pc = "reconcile"
          <5>1. InFlight = ({job.client} \X {p \in todo : ShouldPull(p)})
                             \cup ({Hub} \X {p \in todo : ShouldPush(p)})
            BY <4>2 DEF InFlight
          <5>2. todo \subseteq Path
            BY DEF TypeOK
          <5> QED
            BY <2>1, <3>1, <5>1, <5>2
        <4> QED
          BY <3>1, <4>1, <4>2 DEF InFlight
      <3>3. Torn \in Maybe(Content)
        BY DEF Torn, Content, Maybe
      <3> QED
        BY <2>2, <3>1, <3>2, <3>3, WriteType DEF TearFile
    <2>3. ASSUME TearBlob PROVE tree' \in [Replica -> Tree]
      BY <2>3 DEF TearBlob, TypeOK
    <2>4. tree' \in [Replica -> Tree]
      BY <1>2, <2>2, <2>3 DEF Tear
    <2>5. BlobsType'
      BY <1>2 DEF Tear, TearFile, TearBlob, TypeOK
    <2> QED
      BY <1>2, <2>4, <2>5, EndRunType DEF Tear, ledgerVars, blobVars,
                                          peopleVars
  <1> QED
    BY <1>1, <1>2 DEF Failure

(* What people do changes one replica, the history of edits and touched.   *)
LEMMA PeopleType == ASSUME TypeOK, People PROVE TypeOK'
  <1> USE DEF RunUnchanged, TouchIfRunning, ledgerVars, blobVars, memoryVars,
              writeVars, peopleVars
  <1>1. CASE \E r \in Author, p \in Path, e \in Edit : UserEdit(r, p, e)
    <2>1. PICK r \in Author, p \in Path, e \in Edit : UserEdit(r, p, e)
      BY <1>1
    <2>2. r \in Replica
      BY AuthorAssumption
    <2>3. (IF tree[r][p] = None THEN {} ELSE tree[r][p]) \cup {e} \in Content
      BY <2>2 DEF TypeOK, Tree, Maybe, Content
    <2>4. tree' \in [Replica -> Tree]
      BY <2>1, <2>2, <2>3, WriteType DEF UserEdit, Maybe
    <2> QED
      BY <2>1, <2>4 DEF UserEdit, TypeOK
  <1>2. CASE \E r \in Author, p \in Path : UserDelete(r, p)
    <2>1. PICK r \in Author, p \in Path : UserDelete(r, p)
      BY <1>2
    <2>2. r \in Replica
      BY AuthorAssumption
    <2>3. tree' \in [Replica -> Tree]
      BY <2>1, <2>2, WriteType DEF UserDelete, Maybe
    <2>4. tree[r][p] \subseteq Edit
      BY <2>1, <2>2 DEF UserDelete, TypeOK, Tree, Maybe, Content
    <2> QED
      BY <2>1, <2>3, <2>4 DEF UserDelete, TypeOK
  <1>3. CASE \E p \in Path : UserRestore(p)
    <2>1. PICK p \in Path : UserRestore(p)
      BY <1>3
    <2>2. removed[p] \in Maybe(Content)
      BY DEF TypeOK, Tree
    <2>3. tree' \in [Replica -> Tree]
      BY <2>1, <2>2, WriteType DEF UserRestore, Replica
    <2> QED
      BY <2>1, <2>3 DEF UserRestore, TypeOK
  <1>4. CASE \E c \in Client : UserReset(c)
    <2>1. tree' \in [Replica -> Tree]
      BY <1>4, NoTreeType DEF UserReset, TypeOK, Replica
    <2> QED
      BY <1>4, <2>1 DEF UserReset, TypeOK
  <1> QED
    BY <1>1, <1>2, <1>3, <1>4 DEF People

LEMMA StepType == TypeOK /\ [Next]_vars => TypeOK'
  <1> SUFFICES ASSUME TypeOK, [Next]_vars PROVE TypeOK'
    OBVIOUS
  <1>1. CASE Run
    BY <1>1, BeginType, DecideType, WriteStepType, FinishType DEF Run
  <1>2. CASE Failure
    BY <1>2, FailureType
  <1>3. CASE People
    BY <1>3, PeopleType
  <1>4. CASE UNCHANGED vars
    BY <1>4 DEF vars, TypeOK
  <1> QED
    BY <1>1, <1>2, <1>3, <1>4 DEF Next

(* Type correctness: every step leaves every variable in its type.         *)
THEOREM TypeCorrect == Spec => []TypeOK
  BY InitType, StepType, PTL DEF Spec

-----------------------------------------------------------------------------
(* Convergence.  ReconcileInv says what a run has achieved after each of   *)
(* its steps; at Save nothing is left to do, and it becomes                *)
(* SavedMeansConverged.                                                    *)

Here == job.client

(* A step that finishes the decision of p, and leaves p the same on both   *)
(* sides and in the run's table.                                           *)
LEMMA PathDone ==
  ASSUME TypeOK, ReconcileInv, ~job.dryRun, NEW p \in Path, Deciding(p),
         UNCHANGED <<base, tombs, pc, job, cur, touched>>,
         todo' = todo \ {p},
         \A q \in Path \ {p} : /\ tree'[Here][q] = tree[Here][q]
                               /\ tree'[Hub][q] = tree[Hub][q]
                               /\ files'[q] = files[q],
         p \notin touched => Converged(p)'
  PROVE  ReconcileInv'
  <1> USE DEF Deciding, Here
  <1>1. /\ \A q \in todo : Worthwhile(q)
        /\ \A q \in todo \ (touched \cup {cur}) : AsScanned(q)
        /\ \A q \in Path \ (touched \cup todo) : Converged(q)
        /\ cur = None
    BY DEF ReconcileInv, TypeOK, Phase, HalfWritten
  <1>2. \A q \in todo' : Worthwhile(q)'
    BY <1>1 DEF Worthwhile, A, B
  <1>3. \A q \in todo' \ (touched' \cup {cur'}) : AsScanned(q)'
    BY <1>1 DEF AsScanned, A, B, TypeOK
  <1>4. \A q \in Path \ (touched' \cup todo') : Converged(q)'
    BY <1>1 DEF Converged, L
  <1> QED
    BY <1>1, <1>2, <1>3, <1>4 DEF ReconcileInv, Phase, HalfWritten

(* What a deciding run knows of p.                                         *)
LEMMA Deciding_p ==
  ASSUME TypeOK, ReconcileInv, NEW p \in Path, Deciding(p)
  PROVE  /\ job \in Job /\ Here \in Replica /\ Hub \in Replica /\ Here # Hub
         /\ (~job.dryRun /\ p \notin touched) => AsScanned(p)
  <1>1. job \in Job
    BY JobType DEF Deciding
  <1>2. Here \in Client
    BY <1>1 DEF Job, Here
  <1>3. (~job.dryRun /\ p \notin touched) => AsScanned(p)
    <2>1. pc \in Phase \ {"idle", "gc"}
      BY DEF Deciding, Phase
    <2>2. p \in todo /\ p # None
      BY NoneAssumption DEF Deciding
    <2>3. cur = None
      BY DEF TypeOK, Deciding
    <2> QED
      BY <2>1, <2>2, <2>3 DEF ReconcileInv
  <1> QED
    BY <1>1, <1>2, <1>3, HubAssumption DEF Replica

(* Recording u at p, where both sides hold u.                              *)
LEMMA RecordConverges ==
  ASSUME TypeOK, job' = job, NEW p \in Path, NEW u \in Content, Record(p, u),
         tree'[Here][p] = u, tree'[Hub][p] = u
  PROVE  Converged(p)'
  <1>1. files'[p] = [hash |-> u, gen |-> gen + 1]
    BY DEF Record, TypeOK, Files
  <1>2. files'[p] # None
    BY <1>1, NoneAssumption DEF FileEntry, TypeOK
  <1> QED
    BY <1>1, <1>2 DEF Converged, L, Here

(* Removing p from one side, where the other side lacks it.                *)
LEMMA RemoveConverges ==
  ASSUME TypeOK, NEW r \in Replica, NEW p \in Path, Remove(r, p),
         Here \in Replica, Hub \in Replica,
         r = Here => tree[Hub][p] = None,
         r = Hub => tree[Here][p] = None,
         r \in {Here, Hub}
  PROVE  Converged(p)'
  <1>1. tree'[Here][p] = None /\ tree'[Hub][p] = None
    BY DEF Remove, TypeOK, Tree
  <1>2. files'[p] = None
    BY DEF Remove, RecordTombstone, TypeOK, Files
  <1> QED
    BY <1>1, <1>2 DEF Converged, L, Here, Remove

LEMMA DecideReconcile ==
  ASSUME TypeOK, ReconcileInv, ~job.dryRun, NEW p \in Path, Decide(p)
  PROVE  ReconcileInv'
  <1> USE DEF Here
  <1>d. Deciding(p)
    BY DEF Decide, Settle, RecordSame, DeleteLocal, DeleteRemote,
           CopyToLocal, CopyToRemote, MergePath, Quarantine, DryPath
  <1>k. /\ job \in Job /\ Here \in Replica /\ Hub \in Replica /\ Here # Hub
        /\ p \notin touched => AsScanned(p)
    BY <1>d, Deciding_p
  <1>1. CASE Settle(p)
    <2>1. p \notin touched => Converged(p)'
      <3>1. CASE A(p) = None
        <4>1. files'[p] = None
          BY <1>1, <3>1 DEF Settle, EntryCleared, TypeOK, Files
        <4> QED
          BY <1>1, <1>k, <3>1, <4>1
          DEF Settle, InStep, AsScanned, Converged, L
      <3>2. CASE A(p) # None
        BY <1>1, <1>k, <3>2
        DEF Settle, InStep, EntryCleared, AsScanned, Converged, L
      <3> QED
        BY <3>1, <3>2
    <2>2. \A q \in Path \ {p} : files'[q] = files[q]
      BY <1>1 DEF Settle, EntryCleared, TypeOK, Files
    <2> QED
      BY <1>1, <1>d, <2>1, <2>2, PathDone
      DEF Settle, ledgerVars, blobVars, writeVars, historyVars
  <1>2. CASE RecordSame(p)
    <2>1. tree[Hub][p] \in Content
      BY <1>2, <1>k DEF RecordSame, TypeOK, Tree, Maybe
    <2>2. p \notin touched => Converged(p)'
      BY <1>2, <1>k, <2>1, RecordConverges DEF RecordSame, AsScanned
    <2>3. \A q \in Path \ {p} : files'[q] = files[q]
      BY <1>2 DEF RecordSame, Record, TypeOK, Files
    <2> QED
      BY <1>2, <1>d, <2>2, <2>3, PathDone
      DEF RecordSame, ledgerVars, blobVars, writeVars, historyVars
  <1>3. CASE DeleteLocal(p)
    <2>1. B(p) = None
      BY <1>3 DEF DeleteLocal, ShouldDeleteLocal, StaleLocal
    <2>2. p \notin touched => Converged(p)'
      BY <1>3, <1>k, <2>1, RemoveConverges DEF DeleteLocal, AsScanned
    <2>3. \A q \in Path \ {p} : /\ tree'[Here][q] = tree[Here][q]
                                /\ tree'[Hub][q] = tree[Hub][q]
                                /\ files'[q] = files[q]
      BY <1>3, <1>k DEF DeleteLocal, Remove, RecordTombstone, TypeOK, Files,
                        Tree
    <2> QED
      BY <1>3, <1>d, <2>2, <2>3, PathDone
      DEF DeleteLocal, Remove, ledgerVars, blobVars, writeVars, peopleVars
  <1>4. CASE DeleteRemote(p)
    <2>1. A(p) = None
      BY <1>4 DEF DeleteRemote, ShouldDeleteRemote, StaleHub
    <2>2. p \notin touched => Converged(p)'
      BY <1>4, <1>k, <2>1, RemoveConverges DEF DeleteRemote, AsScanned
    <2>3. \A q \in Path \ {p} : /\ tree'[Here][q] = tree[Here][q]
                                /\ tree'[Hub][q] = tree[Hub][q]
                                /\ files'[q] = files[q]
      BY <1>4, <1>k DEF DeleteRemote, Remove, RecordTombstone, TypeOK, Files,
                        Tree
    <2> QED
      BY <1>4, <1>d, <2>2, <2>3, PathDone
      DEF DeleteRemote, Remove, ledgerVars, blobVars, writeVars, peopleVars
  <1>5. CASE CopyToLocal(p)
    <2>1. tree[Hub][p] \in Content
      BY <1>5, <1>k DEF CopyToLocal, Copy, TypeOK, Tree, Maybe
    <2>2. /\ tree'[Here][p] = tree[Hub][p]
          /\ tree'[Hub][p] = tree[Hub][p]
      BY <1>5, <1>k DEF CopyToLocal, Copy, TypeOK, Tree
    <2>3. Converged(p)'
      BY <1>5, <2>1, <2>2, RecordConverges DEF CopyToLocal, Copy
    <2>4. \A q \in Path \ {p} : /\ tree'[Here][q] = tree[Here][q]
                                /\ tree'[Hub][q] = tree[Hub][q]
                                /\ files'[q] = files[q]
      BY <1>5, <1>k DEF CopyToLocal, Copy, Record, TypeOK, Files, Tree
    <2> QED
      BY <1>5, <1>d, <2>3, <2>4, PathDone
      DEF CopyToLocal, Copy, ledgerVars, blobVars, writeVars, historyVars
  <1>6. CASE CopyToRemote(p)
    <2>1. tree[Here][p] \in Content
      BY <1>6, <1>k DEF CopyToRemote, Copy, TypeOK, Tree, Maybe
    <2>2. /\ tree'[Here][p] = tree[Here][p]
          /\ tree'[Hub][p] = tree[Here][p]
      BY <1>6, <1>k DEF CopyToRemote, Copy, TypeOK, Tree
    <2>3. Converged(p)'
      BY <1>6, <2>1, <2>2, RecordConverges DEF CopyToRemote, Copy
    <2>4. \A q \in Path \ {p} : /\ tree'[Here][q] = tree[Here][q]
                                /\ tree'[Hub][q] = tree[Hub][q]
                                /\ files'[q] = files[q]
      BY <1>6, <1>k DEF CopyToRemote, Copy, Record, TypeOK, Files, Tree
    <2> QED
      BY <1>6, <1>d, <2>3, <2>4, PathDone
      DEF CopyToRemote, Copy, ledgerVars, blobVars, writeVars, historyVars
  <1>i. /\ \A q \in todo : Worthwhile(q)
        /\ \A q \in todo \ touched : AsScanned(q)
        /\ \A q \in Path \ (touched \cup todo) : Converged(q)
    <2>1. /\ pc \in Phase \ {"idle", "gc"}
          /\ HalfWritten = {}
          /\ None \notin todo
      BY <1>d, NoneAssumption DEF Deciding, Phase, HalfWritten, TypeOK
    <2>2. cur = None
      BY <1>d DEF TypeOK, Deciding
    <2> QED
      BY <2>1, <2>2 DEF ReconcileInv
  <1>7. CASE MergePath(p)
    <2> USE <1>7 DEF MergePath, ledgerVars, blobVars, memoryVars, historyVars
    <2>1. \A q \in todo' : Worthwhile(q)'
      BY <1>i DEF Worthwhile, A, B
    <2>2. \A q \in todo' \ (touched' \cup {cur'}) : AsScanned(q)'
      BY <1>i DEF AsScanned, A, B
    <2>3. \A q \in Path \ (touched' \cup todo') : Converged(q)'
      BY <1>i DEF Converged, L
    <2>4. p \in todo
      BY <1>d DEF Deciding
    <2> QED
      BY <2>1, <2>2, <2>3, <2>4 DEF ReconcileInv, HalfWritten
  <1>8. CASE Quarantine(p)
    <2> USE DEF ledgerVars, blobVars, memoryVars, historyVars
    <2>1. \A q \in todo' : Worthwhile(q)'
      BY <1>8, <1>i DEF Quarantine, Worthwhile, A, B
    <2>2. \A q \in todo' \ (touched' \cup {cur'}) : AsScanned(q)'
      BY <1>8, <1>i DEF Quarantine, AsScanned, A, B
    <2>3. \A q \in Path \ (touched' \cup todo') : Converged(q)'
      BY <1>8, <1>i DEF Quarantine, Converged, L
    <2>4. NewName(target')
      BY <1>8 DEF Quarantine
    <2>5. target' \notin todo
      BY <2>4, <1>i DEF NewName, Worthwhile
    <2>6. p \in todo
      BY <1>d DEF Deciding
    <2> QED
      BY <1>8, <2>1, <2>2, <2>3, <2>5, <2>6
      DEF Quarantine, ReconcileInv, HalfWritten
  <1>9. CASE DryPath(p)
    BY <1>9 DEF DryPath
  <1> QED
    BY <1>1, <1>2, <1>3, <1>4, <1>5, <1>6, <1>7, <1>8, <1>9 DEF Decide

LEMMA WriteReconcile ==
  ASSUME TypeOK, ReconcileInv, ~job.dryRun, Write
  PROVE  ReconcileInv'
  <1> USE DEF Here
  <1>k. /\ Here \in Replica /\ Hub \in Replica /\ Here # Hub
        /\ pc \in {"writeLocal", "writeHub", "align"}
        /\ pc \in Phase \ {"idle", "gc"}
        /\ cur \in Path /\ cur # None
    BY JobType, HubAssumption
    DEF Write, WriteBothLocal, WriteBothHub, AlignLocal, Job, Replica, Phase,
        TypeOK, Maybe
  <1>i. /\ \A q \in todo : Worthwhile(q)
        /\ \A q \in todo \ (touched \cup {cur}) : AsScanned(q)
        /\ cur \in todo
    BY <1>k DEF ReconcileInv
  <1>1. CASE WriteBothLocal
    <2> USE <1>1 DEF WriteBothLocal, ledgerVars, blobVars, memoryVars,
                     writeVars, historyVars
    <2>1. target \in Path
      BY DEF TypeOK
    <2>2. /\ \A q \in Path : tree'[Hub][q] = tree[Hub][q]
          /\ \A q \in Path \ {target} : tree'[Here][q] = tree[Here][q]
          /\ tree'[Here][target] = val
      BY <1>k, <2>1 DEF TypeOK, Tree
    <2>3. \A q \in todo' : Worthwhile(q)'
      BY <1>i DEF Worthwhile, A, B
    <2>4. \A q \in todo' \ (touched' \cup {cur'}) : AsScanned(q)'
      <3>1. target = cur \/ target \notin todo
        BY <1>k DEF ReconcileInv
      <3> QED
        BY <1>i, <2>2, <3>1 DEF AsScanned, A, B, TypeOK
    <2>5. \A q \in Path \ (touched' \cup todo' \cup {target}) : Converged(q)'
      <3>1. \A q \in Path \ (touched \cup todo) : Converged(q)
        BY <1>k DEF ReconcileInv, HalfWritten
      <3> QED
        BY <2>2, <3>1 DEF Converged, L
    <2> QED
      BY <1>k, <1>i, <2>2, <2>3, <2>4, <2>5 DEF ReconcileInv, HalfWritten
  <1>2. CASE WriteBothHub
    <2> USE DEF ledgerVars, blobVars, historyVars
    <2>1. target \in Path /\ val \in Content /\ pc = "writeHub"
      BY <1>2 DEF WriteBothHub, TypeOK
    <2>2. /\ \A q \in Path : tree'[Here][q] = tree[Here][q]
          /\ \A q \in Path \ {target} : /\ tree'[Hub][q] = tree[Hub][q]
                                        /\ files'[q] = files[q]
          /\ tree'[Hub][target] = val
      BY <1>2, <1>k, <2>1 DEF WriteBothHub, Record, TypeOK, Tree, Files
    <2>t. PICK t \in Path : t = target
      BY <2>1
    <2>3. t \notin touched => Converged(t)'
      <3>1. target \notin touched => tree'[Here][target] = val
        BY <1>k, <2>1, <2>2 DEF ReconcileInv
      <3> QED
        BY <1>2, <2>1, <2>2, <2>t, <3>1, RecordConverges DEF WriteBothHub
    <2>4. \A q \in Path \ (touched \cup todo) : Converged(q)'
      <3>1. \A q \in Path \ (touched \cup todo \cup {t}) : Converged(q)
        BY <1>k, <2>1, <2>t DEF ReconcileInv, HalfWritten
      <3>2. \A q \in Path \ (touched \cup todo \cup {t}) : Converged(q)'
        BY <1>2, <2>2, <2>t, <3>1 DEF WriteBothHub, Converged, L
      <3> QED
        BY <2>3, <3>2
    <2>5. \A q \in todo : Worthwhile(q)'
      BY <1>2, <1>i DEF WriteBothHub, Worthwhile, A, B
    <2>6. \A q \in todo \ (touched \cup {cur, t}) : AsScanned(q)'
      BY <1>2, <1>i, <2>2, <2>t DEF WriteBothHub, AsScanned, A, B, TypeOK
    <2>7. CASE target = cur
      <3>1. todo' = todo \ {t} /\ cur' = None /\ pc' = "reconcile"
            /\ touched' = touched
        BY <1>2, <2>t, <2>7 DEF WriteBothHub, WritesSidecar
      <3>2. \A q \in Path \ (touched' \cup todo') : Converged(q)'
        BY <2>3, <2>4, <3>1
      <3>3. \A q \in todo' \ (touched' \cup {cur'}) : AsScanned(q)'
        BY <2>6, <2>7, <2>t, <3>1
      <3>4. \A q \in todo' : Worthwhile(q)'
        BY <2>5, <3>1
      <3> QED
        BY <3>1, <3>2, <3>3, <3>4 DEF ReconcileInv
    <2>8. CASE target # cur
      <3>1. t \notin todo
        BY <1>k, <2>1, <2>8, <2>t DEF ReconcileInv
      <3>2. todo' = todo /\ cur' = cur /\ pc' = "align" /\ touched' = touched
        BY <1>2, <2>8 DEF WriteBothHub, WritesSidecar
      <3>3. \A q \in todo' \ (touched' \cup {cur'}) : AsScanned(q)'
        BY <2>6, <3>1, <3>2
      <3> QED
        BY <1>i, <2>4, <2>5, <3>2, <3>3 DEF ReconcileInv
    <2> QED
      BY <2>7, <2>8
  <1>3. CASE AlignLocal
    <2> USE DEF ledgerVars, blobVars, historyVars
    <2>1. pc = "align" /\ tree[Hub][cur] \in Content
      BY <1>3, <1>k DEF AlignLocal, Copy, TypeOK, Tree, Maybe
    <2>2. /\ \A q \in Path : tree'[Hub][q] = tree[Hub][q]
          /\ \A q \in Path \ {cur} : /\ tree'[Here][q] = tree[Here][q]
                                     /\ files'[q] = files[q]
          /\ tree'[Here][cur] = tree[Hub][cur]
      BY <1>3, <1>k DEF AlignLocal, Copy, Record, TypeOK, Tree, Files
    <2>t. PICK t \in Path : t = cur
      BY <1>k
    <2>3. Converged(t)'
      BY <1>3, <1>k, <2>1, <2>2, <2>t, RecordConverges DEF AlignLocal, Copy
    <2>4. \A q \in Path \ (touched \cup (todo \ {t})) : Converged(q)'
      <3>1. \A q \in Path \ (touched \cup todo) : Converged(q)
        BY <1>k, <2>1 DEF ReconcileInv, HalfWritten
      <3>2. \A q \in Path \ (touched \cup todo \cup {t}) : Converged(q)'
        BY <1>3, <2>2, <2>t, <3>1 DEF AlignLocal, Copy, Converged, L
      <3> QED
        BY <2>3, <3>2
    <2>5. \A q \in todo : Worthwhile(q)'
      BY <1>3, <1>i DEF AlignLocal, Copy, Worthwhile, A, B
    <2>6. \A q \in todo \ (touched \cup {t}) : AsScanned(q)'
      BY <1>3, <1>i, <2>2, <2>t DEF AlignLocal, Copy, AsScanned, A, B, TypeOK
    <2>7. todo' = todo \ {t} /\ cur' = None /\ pc' = "reconcile"
          /\ touched' = touched
      BY <1>3, <2>t DEF AlignLocal, Copy
    <2>8. \A q \in Path \ (touched' \cup todo') : Converged(q)'
      BY <2>4, <2>7
    <2>9. \A q \in todo' \ (touched' \cup {cur'}) : AsScanned(q)'
      BY <2>6, <2>7
    <2> QED
      BY <2>5, <2>7, <2>8, <2>9 DEF ReconcileInv
  <1> QED
    BY <1>1, <1>2, <1>3 DEF Write

LEMMA BeginReconcile ==
  ASSUME TypeOK, ReconcileInv, NEW c \in Client, Begin(c)
  PROVE  ReconcileInv'
  <1>1. PICK dry \in Choice("dryrun"), allow \in Choice("massdelete"),
             hl \in Unseen(c), hh \in Unseen(Hub) :
          /\ job' = [client |-> c, dryRun |-> dry, allowed |-> allow,
                     local |-> Scan(c, hl), hub |-> Scan(Hub, hh)]
          /\ todo' = { p \in Path : \/ base[p] # None \/ tombs[p] # None
                                    \/ Scan(c, hl)[p] # None
                                    \/ Scan(Hub, hh)[p] # None }
          /\ touched' = hl \cup hh
    BY DEF Begin, UnionPaths
  <1>2. /\ pc = "idle" /\ pc' = "reconcile"
        /\ files' = base /\ UNCHANGED <<tree, base, tombs, cur>>
    BY DEF Begin, ledgerVars, blobVars, writeVars
  <1>3. cur = None
    BY <1>2 DEF TypeOK
  <1> QED
    BY <1>1, <1>2, <1>3
    DEF ReconcileInv, HalfWritten, Worthwhile, AsScanned, Converged, A, B, L,
        Scan

ConvergenceInv == TypeOK /\ ReconcileInv /\ SavedMeansConverged

(* Any step that ends the run, or that no writing run is concerned with.   *)
LEMMA IdleReconcile ==
  ASSUME pc' = "idle" PROVE ReconcileInv' /\ SavedMeansConverged'
  BY DEF ReconcileInv, SavedMeansConverged

LEMMA DryReconcile ==
  ASSUME job.dryRun, UNCHANGED job PROVE ReconcileInv'
  BY DEF ReconcileInv

LEMMA SaveConverges ==
  ASSUME ConvergenceInv, Save PROVE ReconcileInv' /\ SavedMeansConverged'
  <1>1. \A p \in Path \ touched : Converged(p)
    BY DEF ConvergenceInv, ReconcileInv, HalfWritten, Save, Phase
  <1>2. \A p \in Path \ touched' :
          /\ tree'[job'.client][p] = tree'[Hub][p]
          /\ tree'[Hub][p] = IF base'[p] = None THEN None ELSE base'[p].hash
    BY <1>1 DEF Converged, L, Save, memoryVars, historyVars
  <1>3. pc' = "gc"
    BY DEF Save
  <1> QED
    BY <1>2, <1>3 DEF SavedMeansConverged, ReconcileInv

(* A step that leaves the run alone, and the trees at untouched paths.     *)
LEMMA OutsideConverges ==
  ASSUME ConvergenceInv,
         UNCHANGED <<base, tombs, pc, job, files, todo, cur, target, val>>,
         touched \subseteq touched',
         Running => \A r \in Replica, q \in Path \ touched' :
                      tree'[r][q] = tree[r][q]
  PROVE  ReconcileInv' /\ SavedMeansConverged'
  <1>1. CASE pc = "idle"
    BY <1>1, IdleReconcile
  <1>2. CASE pc # "idle"
    <2>1. job.client \in Replica /\ Hub \in Replica
      BY <1>2, JobType DEF ConvergenceInv, Job, Replica
    <2>2. \A q \in Path \ touched' :
            /\ tree'[job.client][q] = tree[job.client][q]
            /\ tree'[Hub][q] = tree[Hub][q]
      BY <1>2, <2>1 DEF Running
    <2>3. SavedMeansConverged'
      BY <2>2 DEF ConvergenceInv, SavedMeansConverged
    <2>4. \A q \in todo' : Worthwhile(q) => Worthwhile(q)'
      BY DEF Worthwhile, A, B
    <2>5. \A q \in Path \ touched' : /\ AsScanned(q) => AsScanned(q)'
                                     /\ Converged(q) => Converged(q)'
      BY <2>2 DEF AsScanned, Converged, A, B, L
    <2>6. todo \subseteq Path /\ HalfWritten' = HalfWritten
      BY DEF ConvergenceInv, TypeOK, HalfWritten
    <2>7. (pc = "writeHub" /\ target \notin touched') =>
            tree'[job.client][target] = tree[job.client][target]
      BY <2>2 DEF ConvergenceInv, TypeOK
    <2>8. ReconcileInv'
      BY <2>4, <2>5, <2>6, <2>7 DEF ConvergenceInv, ReconcileInv
    <2> QED
      BY <2>3, <2>8
  <1> QED
    BY <1>1, <1>2

LEMMA PeopleConverges ==
  ASSUME ConvergenceInv, People PROVE ReconcileInv' /\ SavedMeansConverged'
  <1> USE DEF RunUnchanged, TouchIfRunning, ledgerVars, blobVars, memoryVars,
              writeVars, peopleVars
  <1>t. tree \in [Replica -> Tree]
    BY DEF ConvergenceInv, TypeOK
  <1>1. CASE \E r \in Author, p \in Path, e \in Edit : UserEdit(r, p, e)
    BY <1>1, <1>t, OutsideConverges DEF UserEdit, Tree
  <1>2. CASE \E r \in Author, p \in Path : UserDelete(r, p)
    BY <1>2, <1>t, OutsideConverges DEF UserDelete, Tree
  <1>3. CASE \E p \in Path : UserRestore(p)
    BY <1>3, <1>t, OutsideConverges DEF UserRestore, Tree
  <1>4. CASE \E c \in Client : UserReset(c)
    BY <1>4, OutsideConverges DEF UserReset
  <1> QED
    BY <1>1, <1>2, <1>3, <1>4 DEF People

LEMMA InitConverges == Init => ReconcileInv /\ SavedMeansConverged
  BY DEF Init, ReconcileInv, SavedMeansConverged

LEMMA StepConverges ==
  ASSUME ConvergenceInv, [Next]_vars
  PROVE  ReconcileInv' /\ SavedMeansConverged'
  <1> USE DEF ConvergenceInv
  <1>1. CASE \E c \in Client : Begin(c)
    <2>1. pc' = "reconcile"
      BY <1>1 DEF Begin
    <2> QED
      BY <1>1, <2>1, BeginReconcile DEF SavedMeansConverged
  <1>2. CASE \E p \in Path : Decide(p)
    <2>1. pc' \in {"reconcile", "writeLocal"} /\ UNCHANGED job
      BY <1>2 DEF Decide, Deciding, Settle, RecordSame, DeleteLocal,
                  DeleteRemote, Remove, CopyToLocal, CopyToRemote, Copy,
                  MergePath, Quarantine, DryPath, memoryVars
    <2>2. CASE job.dryRun
      BY <2>1, <2>2, DryReconcile DEF SavedMeansConverged
    <2>3. CASE ~job.dryRun
      BY <1>2, <2>1, <2>3, DecideReconcile DEF SavedMeansConverged
    <2> QED
      BY <2>2, <2>3
  <1>3. CASE Write
    <2>1. pc' \in {"writeHub", "align", "reconcile"} /\ UNCHANGED job
      BY <1>3 DEF Write, WriteBothLocal, WriteBothHub, AlignLocal, Copy,
                  memoryVars
    <2>2. CASE job.dryRun
      BY <2>1, <2>2, DryReconcile DEF SavedMeansConverged
    <2>3. CASE ~job.dryRun
      BY <1>3, <2>1, <2>3, WriteReconcile DEF SavedMeansConverged
    <2> QED
      BY <2>2, <2>3
  <1>4. CASE Finish
    <2>1. CASE Save
      BY <2>1, SaveConverges
    <2>2. CASE CollectBlobs \/ EndDryRun
      BY <2>2, IdleReconcile DEF CollectBlobs, EndDryRun, EndRun
    <2> QED
      BY <1>4, <2>1, <2>2 DEF Finish
  <1>5. CASE Failure
    BY <1>5, IdleReconcile DEF Failure, Stop, Tear, EndRun
  <1>6. CASE People
    BY <1>6, PeopleConverges
  <1>7. CASE UNCHANGED vars
    BY <1>7, OutsideConverges DEF vars
  <1> QED
    BY <1>1, <1>2, <1>3, <1>4, <1>5, <1>6, <1>7 DEF Next, Run

LEMMA ConvergenceHolds == Spec => []ConvergenceInv
  <1>1. Init => ConvergenceInv
    BY InitType, InitConverges DEF ConvergenceInv
  <1>2. ConvergenceInv /\ [Next]_vars => ConvergenceInv'
    BY StepType, StepConverges DEF ConvergenceInv
  <1> QED
    BY <1>1, <1>2, PTL DEF Spec

(* At every step of a run that writes, each path is as it was scanned, or  *)
(* the same on both sides and in the run's table; only what writeBoth has  *)
(* half written, and what somebody touched, is exempt.                     *)
THEOREM ReconcileKept == Spec => []ReconcileInv
  <1>1. ConvergenceInv => ReconcileInv
    BY DEF ConvergenceInv
  <1> QED
    BY <1>1, ConvergenceHolds, PTL

(* Whatever the clients, the paths, the failures and the interruptions:    *)
(* once a run has saved the ledger, every path it saw, and that nobody     *)
(* touched since, is the same on both sides and in the ledger.             *)
THEOREM SavedConverged == Spec => []SavedMeansConverged
  <1>1. ConvergenceInv => SavedMeansConverged
    BY DEF ConvergenceInv
  <1> QED
    BY <1>1, ConvergenceHolds, PTL

-----------------------------------------------------------------------------
(* Merge bases.  A run that writes puts each blob in the store before the  *)
(* entry that names it gets into its table; at Save the table becomes the  *)
(* ledger, and the collection that follows spares what the ledger names.   *)

BlobsCoverTable ==
    (Running /\ ~job.dryRun) =>
      \A p \in Path : files[p] # None => files[p].hash \in blobs

BlobInv == TypeOK /\ BlobsCoverLedger /\ BlobsCoverTable

(* Steps that do not touch the ledger, and only add blobs.                 *)
LEMMA BlobsGrow ==
  ASSUME BlobsCoverLedger, UNCHANGED base, blobs \subseteq blobs'
  PROVE  BlobsCoverLedger'
  BY DEF BlobsCoverLedger, Referenced, Tracked

LEMMA RecordCovers ==
  ASSUME BlobInv, Running, UNCHANGED job, NEW p \in Path, NEW u \in Content,
         Record(p, u)
  PROVE  BlobsCoverTable' /\ blobs \subseteq blobs'
  BY DEF Record, BlobInv, BlobsCoverTable, TypeOK, Files

LEMMA FewerEntriesCover ==
  ASSUME BlobInv, UNCHANGED <<job, blobs>>, Running,
         \A p \in Path : files'[p] = files[p] \/ files'[p] = None
  PROVE  BlobsCoverTable'
  BY DEF BlobInv, BlobsCoverTable

LEMMA DecideCovers ==
  ASSUME BlobInv, NEW p \in Path, Decide(p)
  PROVE  BlobsCoverLedger' /\ BlobsCoverTable'
  <1> USE DEF BlobInv
  <1>r. Running /\ UNCHANGED <<base, job>>
    BY DEF Decide, Deciding, Running, Settle, RecordSame, DeleteLocal,
           DeleteRemote, Remove, CopyToLocal, CopyToRemote, Copy, MergePath,
           Quarantine, DryPath, ledgerVars, blobVars, memoryVars
  <1>t. job.client \in Replica /\ Hub \in Replica
    BY <1>r, JobType DEF Running, Job, Replica
  <1>1. CASE RecordSame(p) \/ CopyToLocal(p) \/ CopyToRemote(p)
    <2>1. PICK r \in Replica : tree[r][p] # None /\ Record(p, tree[r][p])
      BY <1>1, <1>t DEF RecordSame, CopyToLocal, CopyToRemote, Copy
    <2>2. tree[r][p] \in Content
      BY <2>1 DEF TypeOK, Tree, Maybe
    <2> QED
      BY <1>r, <2>1, <2>2, RecordCovers, BlobsGrow
  <1>2. CASE \/ Settle(p) \/ DeleteLocal(p) \/ DeleteRemote(p)
             \/ MergePath(p) \/ Quarantine(p) \/ DryPath(p)
    <2>1. UNCHANGED blobs
      BY <1>2 DEF Settle, DeleteLocal, DeleteRemote, Remove, MergePath,
                  Quarantine, DryPath, blobVars
    <2>2. \A q \in Path : files'[q] = files[q] \/ files'[q] = None
      BY <1>2 DEF Settle, EntryCleared, DeleteLocal, DeleteRemote, Remove,
                  RecordTombstone, MergePath, Quarantine, DryPath, memoryVars,
                  TypeOK, Files
    <2> QED
      BY <1>r, <2>1, <2>2, FewerEntriesCover, BlobsGrow
  <1> QED
    BY <1>1, <1>2 DEF Decide

LEMMA WriteCovers ==
  ASSUME BlobInv, Write PROVE BlobsCoverLedger' /\ BlobsCoverTable'
  <1> USE DEF BlobInv
  <1>r. Running /\ UNCHANGED <<base, job>>
    BY DEF Write, Running, WriteBothLocal, WriteBothHub, AlignLocal, Copy,
           ledgerVars, blobVars, memoryVars
  <1>1. CASE WriteBothLocal
    BY <1>1, <1>r, BlobsGrow, FewerEntriesCover
    DEF WriteBothLocal, blobVars, memoryVars
  <1>2. CASE WriteBothHub
    <2>1. target \in Path /\ val \in Content
      BY <1>2 DEF WriteBothHub, TypeOK
    <2> QED
      BY <1>2, <1>r, <2>1, RecordCovers, BlobsGrow DEF WriteBothHub
  <1>3. CASE AlignLocal
    <2>1. cur \in Path /\ Hub \in Replica
      BY <1>3 DEF AlignLocal, TypeOK, Maybe, Replica
    <2>2. tree[Hub][cur] \in Content
      BY <1>3, <2>1 DEF AlignLocal, Copy, TypeOK, Tree, Maybe
    <2> QED
      BY <1>3, <1>r, <2>1, <2>2, RecordCovers, BlobsGrow DEF AlignLocal, Copy
  <1> QED
    BY <1>1, <1>2, <1>3 DEF Write

LEMMA StepCovers ==
  ASSUME BlobInv, [Next]_vars PROVE BlobsCoverLedger' /\ BlobsCoverTable'
  <1> USE DEF BlobInv
  <1>1. CASE \E c \in Client : Begin(c)
    BY <1>1, BlobsGrow
    DEF Begin, BlobsCoverTable, BlobsCoverLedger, Referenced, Tracked,
        ledgerVars, blobVars
  <1>2. CASE \E p \in Path : Decide(p)
    BY <1>2, DecideCovers
  <1>3. CASE Write
    BY <1>3, WriteCovers
  <1>4. CASE Save
    BY <1>4
    DEF Save, BlobsCoverTable, BlobsCoverLedger, Referenced, Tracked, Running,
        blobVars, memoryVars
  <1>5. CASE CollectBlobs
    <2>1. BlobsCoverLedger'
      BY <1>5 DEF CollectBlobs, BlobsCoverLedger, Referenced, Tracked,
                  ledgerVars, blobVars
    <2> QED
      BY <1>5, <2>1 DEF CollectBlobs, EndRun, BlobsCoverTable, Running
  <1>6. CASE EndDryRun \/ Failure
    BY <1>6, BlobsGrow DEF EndDryRun, Failure, Stop, Tear, EndRun,
                           BlobsCoverTable, Running, ledgerVars, blobVars
  <1>7. CASE People
    <2>1. UNCHANGED <<base, blobs, files, job, pc>>
      BY <1>7 DEF People, UserEdit, UserDelete, UserRestore, UserReset,
                  RunUnchanged, ledgerVars, blobVars, memoryVars
    <2> QED
      BY <2>1, BlobsGrow DEF BlobsCoverTable, Running
  <1>8. CASE UNCHANGED vars
    BY <1>8, BlobsGrow DEF vars, BlobsCoverTable, Running
  <1> QED
    BY <1>1, <1>2, <1>3, <1>4, <1>5, <1>6, <1>7, <1>8 DEF Next, Run, Finish

(* The base of every later merge is there: no stop, no torn write and no   *)
(* partial collection leaves the ledger naming a blob that is gone.        *)
THEOREM BlobsSafe == Spec => []BlobsCoverLedger
  <1>1. Init => BlobInv
    BY InitType DEF Init, BlobInv, BlobsCoverLedger, BlobsCoverTable,
                    Referenced, Tracked, Running, NoTree
  <1>2. BlobInv /\ [Next]_vars => BlobInv'
    BY StepType, StepCovers DEF BlobInv
  <1>3. BlobInv => BlobsCoverLedger
    BY DEF BlobInv
  <1> QED
    BY <1>1, <1>2, <1>3, PTL DEF Spec

-----------------------------------------------------------------------------
(* Where contents come from.  Every file, ledger entry, tombstone and      *)
(* pending write is made of edits that were made, in any surroundings.     *)

Text(r, p)     == IF tree[r][p] = None THEN {} ELSE tree[r][p]
Recorded(t, p) == IF t[p] = None THEN {} ELSE t[p].hash

(* The version a tombstone of the table t names.                           *)
Named(t, p) == IF t[p] = None \/ t[p].last = None THEN {} ELSE t[p].last

MadeInv ==
    /\ \A r \in Replica, p \in Path : Text(r, p) \subseteq made
    /\ \A p \in Path : /\ Recorded(base, p) \subseteq made
                       /\ Recorded(files, p) \subseteq made
                       /\ Named(tombs, p) \subseteq made
                       /\ Named(stones, p) \subseteq made
                       /\ removed[p] # None => removed[p] \subseteq made
    /\ val # None => val \subseteq made

LEMMA RunReplicas ==
  ASSUME TypeOK, Running
  PROVE  Here \in Client /\ Here \in Replica /\ Hub \in Replica
  BY JobType DEF Running, Here, Job, Replica

(* Writing u at p of replica r.                                            *)
LEMMA WriteText ==
  ASSUME TypeOK, NEW r \in Replica, NEW p \in Path, NEW u \in Maybe(Content),
         tree' = [tree EXCEPT ![r][p] = u]
  PROVE  /\ Text(r, p)' = IF u = None THEN {} ELSE u
         /\ \A s \in Replica, q \in Path :
              s # r \/ q # p => Text(s, q)' = Text(s, q)
  BY DEF TypeOK, Tree, Text

(* Recording u at p.                                                       *)
LEMMA RecordTable ==
  ASSUME TypeOK, NEW p \in Path, NEW u, Record(p, u)
  PROVE  /\ \A q \in Path \ {p} : files'[q] = files[q]
         /\ files'[p] = [hash |-> u, gen |-> gen + 1]
  BY DEF TypeOK, Files, Record

LEMMA RemoveTable ==
  ASSUME TypeOK, NEW p \in Path, RecordTombstone(p)
  PROVE  /\ \A q \in Path \ {p} : files'[q] = files[q]
         /\ files'[p] = None
  BY DEF TypeOK, Files, RecordTombstone

(* What is written, and what is recorded, was made.                        *)
LEMMA PutMade ==
  ASSUME TypeOK, MadeInv,
         NEW r \in Replica, NEW p \in Path, NEW u \in Maybe(Content),
         tree' = [tree EXCEPT ![r][p] = u], u # None => u \subseteq made'
  PROVE  made \subseteq made' =>
           \A s \in Replica, q \in Path : Text(s, q)' \subseteq made'
  <1>1. /\ Text(r, p)' = IF u = None THEN {} ELSE u
        /\ \A s \in Replica, q \in Path :
             s # r \/ q # p => Text(s, q)' = Text(s, q)
    BY WriteText
  <1> QED
    BY <1>1 DEF MadeInv

LEMMA RecordMade ==
  ASSUME TypeOK, MadeInv, NEW p \in Path, NEW u \in SUBSET made, Record(p, u)
  PROVE  \A q \in Path : /\ Recorded(files, q)' \subseteq made
                         /\ Named(stones, q)' \subseteq made
  <1>1. /\ \A q \in Path \ {p} : files'[q] = files[q]
        /\ files'[p] = [hash |-> u, gen |-> gen + 1]
    BY RecordTable
  <1>2. \A q \in Path : stones'[q] \in {stones[q], None}
    BY DEF Record, TypeOK, Tombs
  <1> QED
    BY <1>1, <1>2 DEF MadeInv, Recorded, Named

LEMMA RemoveMade ==
  ASSUME TypeOK, MadeInv, NEW p \in Path, RecordTombstone(p)
  PROVE  \A q \in Path : /\ Recorded(files, q)' \subseteq made
                         /\ Named(stones, q)' \subseteq made
  <1>1. /\ \A q \in Path \ {p} : files'[q] = files[q]
        /\ files'[p] = None
    BY RemoveTable
  <1>2. stones' = [stones EXCEPT ![p] = [last |-> L(p)]]
    BY DEF RecordTombstone
  <1>3. L(p) # None => L(p) \subseteq made
    BY DEF MadeInv, Recorded, L
  <1> QED
    BY <1>1, <1>2, <1>3 DEF MadeInv, Recorded, Named, TypeOK, Tombs

LEMMA TreeMade ==
  ASSUME TypeOK, MadeInv, NEW r \in Replica, NEW p \in Path, tree[r][p] # None
  PROVE  tree[r][p] \in SUBSET made /\ tree[r][p] \in Maybe(Content)
  <1>1. Text(r, p) = tree[r][p]
    BY DEF Text
  <1>2. Text(r, p) \subseteq made
    BY DEF MadeInv
  <1> QED
    BY <1>1, <1>2 DEF TypeOK, Tree

LEMMA CopyMade ==
  ASSUME TypeOK, MadeInv, NEW p \in Path,
         NEW from \in Replica, NEW to \in Replica, Copy(from, to, p)
  PROVE  /\ \A s \in Replica, q \in Path : Text(s, q)' \subseteq made
         /\ \A q \in Path : /\ Recorded(files, q)' \subseteq made
                            /\ Named(stones, q)' \subseteq made
  <1>1. /\ tree[from][p] # None /\ made' = made
        /\ tree' = [tree EXCEPT ![to][p] = tree[from][p]]
        /\ Record(p, tree[from][p])
    BY DEF Copy, historyVars
  <1>2. tree[from][p] \in SUBSET made /\ tree[from][p] \in Maybe(Content)
    BY <1>1, TreeMade
  <1> QED
    BY <1>1, <1>2, PutMade, RecordMade

LEMMA DecideMade ==
  ASSUME TypeOK, MadeInv, NEW p \in Path, Decide(p) PROVE MadeInv'
  <1>1. /\ Deciding(p) /\ UNCHANGED <<made, base, tombs>>
    BY DEF Decide, Settle, RecordSame, DeleteLocal, DeleteRemote, Remove,
           CopyToLocal, CopyToRemote, Copy, MergePath, Quarantine, DryPath,
           ledgerVars, memoryVars, historyVars, peopleVars
  <1>2. Here \in Replica /\ Hub \in Replica
    BY <1>1, RunReplicas DEF Deciding, Running
  <1>3. /\ \A q \in Path : /\ Recorded(base, q)' = Recorded(base, q)
                           /\ Named(tombs, q)' = Named(tombs, q)
    BY <1>1 DEF Recorded, Named
  <1>4. CASE CopyToLocal(p) \/ CopyToRemote(p)
    <2>1. PICK from \in {Here, Hub}, to \in {Here, Hub} : Copy(from, to, p)
      BY <1>4 DEF CopyToLocal, CopyToRemote, Here
    <2>2. from \in Replica /\ to \in Replica
      BY <1>2
    <2>3. /\ \A s \in Replica, q \in Path : Text(s, q)' \subseteq made
          /\ \A q \in Path : /\ Recorded(files, q)' \subseteq made
                             /\ Named(stones, q)' \subseteq made
      BY <2>1, <2>2, CopyMade
    <2>4. UNCHANGED <<removed, val>>
      BY <1>4 DEF CopyToLocal, CopyToRemote, Copy, writeVars, historyVars
    <2> QED
      BY <1>1, <1>3, <2>3, <2>4 DEF MadeInv
  <1>5. CASE DeleteLocal(p) \/ DeleteRemote(p)
    <2>1. PICK r \in {Here, Hub} : Remove(r, p)
      BY <1>5 DEF DeleteLocal, DeleteRemote, Here
    <2>2. r \in Replica /\ None \in Maybe(Content)
      BY <1>2 DEF Maybe
    <2>3. \A s \in Replica, q \in Path : Text(s, q)' \subseteq made
      BY <1>1, <2>1, <2>2, PutMade DEF Remove
    <2>4. \A q \in Path : /\ Recorded(files, q)' \subseteq made
                          /\ Named(stones, q)' \subseteq made
      BY <2>1, RemoveMade DEF Remove
    <2>5. tree[r][p] # None => tree[r][p] \subseteq made
      BY <2>2, TreeMade
    <2>6. \A q \in Path : removed'[q] # None => removed'[q] \subseteq made
      BY <2>1, <2>5 DEF Remove, MadeInv, TypeOK, Tree
    <2>7. val' = val
      BY <2>1 DEF Remove, writeVars
    <2> QED
      BY <1>1, <1>3, <2>3, <2>4, <2>6, <2>7 DEF MadeInv
  <1>6. CASE RecordSame(p)
    <2>1. tree[Hub][p] \in SUBSET made
      BY <1>2, <1>6, TreeMade DEF RecordSame
    <2>2. \A q \in Path : /\ Recorded(files, q)' \subseteq made
                          /\ Named(stones, q)' \subseteq made
      BY <1>6, <2>1, RecordMade DEF RecordSame
    <2> QED
      BY <1>1, <1>3, <1>6, <2>2
      DEF MadeInv, RecordSame, writeVars, historyVars, Text
  <1>7. CASE Settle(p)
    <2>1. \A q \in Path : files'[q] \in {files[q], None}
      BY <1>7 DEF Settle, EntryCleared, TypeOK, Files
    <2>2. \A q \in Path : Recorded(files, q)' \subseteq Recorded(files, q)
      BY <2>1 DEF Recorded
    <2> QED
      BY <1>1, <1>3, <1>7, <2>2
      DEF MadeInv, Settle, writeVars, historyVars, Text, Named
  <1>8. CASE MergePath(p) \/ Quarantine(p)
    <2>1. /\ tree[Here][p] \in SUBSET made /\ tree[Hub][p] \in SUBSET made
          /\ UNCHANGED <<tree, files, stones, removed>>
      BY <1>2, <1>8, TreeMade
      DEF MergePath, Quarantine, Here, memoryVars, historyVars
    <2>2. val' \subseteq made
      BY <1>8, <2>1 DEF MergePath, Quarantine, Merged, LocalVersion, Here
    <2> QED
      BY <1>1, <1>3, <2>1, <2>2 DEF MadeInv, Text, Recorded, Named
  <1>9. CASE DryPath(p)
    BY <1>1, <1>3, <1>9
    DEF MadeInv, DryPath, memoryVars, writeVars, historyVars, Text, Recorded,
        Named
  <1> QED
    BY <1>4, <1>5, <1>6, <1>7, <1>8, <1>9 DEF Decide

LEMMA WriteMade ==
  ASSUME TypeOK, MadeInv, Write PROVE MadeInv'
  <1>1. /\ UNCHANGED <<made, base, tombs, removed>>
        /\ pc \in {"writeLocal", "writeHub", "align"}
    BY DEF Write, WriteBothLocal, WriteBothHub, AlignLocal, Copy, ledgerVars,
           historyVars
  <1>2. /\ Here \in Replica /\ Hub \in Replica /\ cur \in Path
        /\ \A q \in Path : /\ Recorded(base, q)' = Recorded(base, q)
                           /\ Named(tombs, q)' = Named(tombs, q)
    BY <1>1, RunReplicas DEF Running, Recorded, Named, TypeOK, Maybe
  <1>3. CASE AlignLocal
    <2>1. Copy(Hub, Here, cur) /\ val' = val
      BY <1>3 DEF AlignLocal, Here
    <2>2. /\ \A s \in Replica, q \in Path : Text(s, q)' \subseteq made
          /\ \A q \in Path : /\ Recorded(files, q)' \subseteq made
                             /\ Named(stones, q)' \subseteq made
      BY <1>2, <2>1, CopyMade
    <2> QED
      BY <1>1, <1>2, <2>1, <2>2 DEF MadeInv
  <1>4. CASE WriteBothLocal \/ WriteBothHub
    <2>1. PICK r \in {Here, Hub}, t \in Path, u \in SUBSET made :
            /\ tree' = [tree EXCEPT ![r][t] = u]
            /\ u = val /\ t = target /\ u \in Maybe(Content)
      <3>1. /\ target \in Path /\ val \in Content /\ val \in Maybe(Content)
        BY <1>4 DEF WriteBothLocal, WriteBothHub, TypeOK
      <3>2. val \subseteq made
        BY <3>1, NoneAssumption DEF MadeInv
      <3> QED
        BY <1>4, <3>1, <3>2 DEF WriteBothLocal, WriteBothHub, Here
    <2>2. r \in Replica
      BY <1>2
    <2>3. \A s \in Replica, q \in Path : Text(s, q)' \subseteq made
      BY <1>1, <2>1, <2>2, PutMade
    <2>4. \A q \in Path : /\ Recorded(files, q)' \subseteq made
                          /\ Named(stones, q)' \subseteq made
      <3>1. CASE WriteBothHub
        BY <2>1, <3>1, RecordMade DEF WriteBothHub
      <3>2. CASE WriteBothLocal
        BY <3>2 DEF WriteBothLocal, memoryVars, MadeInv, Recorded, Named
      <3> QED
        BY <1>4, <3>1, <3>2
    <2>5. val' \in {val, None}
      BY <1>4 DEF WriteBothLocal, WriteBothHub, writeVars
    <2> QED
      BY <1>1, <1>2, <2>3, <2>4, <2>5 DEF MadeInv
  <1> QED
    BY <1>3, <1>4 DEF Write

LEMMA BeginMade ==
  ASSUME TypeOK, MadeInv, NEW c \in Client, Begin(c) PROVE MadeInv'
  <1>1. /\ UNCHANGED <<tree, base, tombs, made, removed, val>>
        /\ files' = base /\ stones' = tombs
    BY DEF Begin, ledgerVars, writeVars, peopleVars
  <1> QED
    BY <1>1 DEF MadeInv, Text, Recorded, Named

LEMMA EndMade ==
  ASSUME TypeOK, MadeInv, Finish \/ Failure PROVE MadeInv'
  <1>1. CASE Save
    <2>1. /\ UNCHANGED <<tree, files, stones, made, removed, val>>
          /\ base' = files /\ tombs' = stones
      BY <1>1 DEF Save, memoryVars, writeVars, historyVars
    <2> QED
      BY <2>1 DEF MadeInv, Text, Recorded, Named
  <1>2. CASE EndRun
    <2>1. /\ UNCHANGED <<base, tombs, made, removed>>
          /\ files' = NoTree /\ stones' = NoTree /\ val' = None
      BY <1>2
      DEF Finish, Failure, Save, CollectBlobs, EndDryRun, Stop, Tear, EndRun,
          ForgetRun, ledgerVars, peopleVars, memoryVars
    <2>2. \A r \in Replica, q \in Path : tree'[r][q] \in {tree[r][q], Torn}
      <3>1. CASE UNCHANGED tree
        BY <3>1
      <3>2. CASE \E f \in InFlight : tree' = [tree EXCEPT ![f[1]][f[2]] = Torn]
        <4>1. PICK f : tree' = [tree EXCEPT ![f[1]][f[2]] = Torn]
          BY <3>2
        <4>2. PICK a, b : a = f[1] /\ b = f[2]
          OBVIOUS
        <4>3. tree' = [tree EXCEPT ![a][b] = Torn]
          BY <4>1, <4>2
        <4> QED
          BY <4>3 DEF TypeOK, Tree
      <3> QED
        BY <3>1, <3>2
        DEF Finish, Failure, Save, CollectBlobs, EndDryRun, Stop, Tear,
            TearFile, TearBlob
    <2>3. \A r \in Replica, q \in Path : Text(r, q)' \subseteq made
      BY <2>2 DEF MadeInv, Text, Torn
    <2> QED
      BY <2>1, <2>3 DEF MadeInv, Recorded, Named, NoTree
  <1> QED
    BY <1>1, <1>2 DEF Finish, Failure, CollectBlobs, EndDryRun, Stop, Tear

LEMMA PeopleMade ==
  ASSUME TypeOK, MadeInv, People PROVE MadeInv'
  <1>1. /\ UNCHANGED <<base, tombs, files, stones, removed, val>>
        /\ made \subseteq made'
    BY DEF People, UserEdit, UserDelete, UserRestore, UserReset, RunUnchanged,
           ledgerVars, memoryVars, writeVars, peopleVars
  <1>2. \A r \in Replica, q \in Path : Text(r, q)' \subseteq made'
    <2>1. CASE \E r \in Author, p \in Path, e \in Edit : UserEdit(r, p, e)
      <3>1. PICK r \in Replica, p \in Path, e \in Edit : UserEdit(r, p, e)
        BY <2>1, AuthorAssumption
      <3>2. tree[r][p] \in Maybe(Content)
        BY DEF TypeOK, Tree
      <3>3. PICK u \in Maybe(Content) : u = Text(r, p) \cup {e}
        BY <3>2 DEF Text, Maybe, Content
      <3>4. /\ tree' = [tree EXCEPT ![r][p] = u] /\ made' = made \cup {e}
        BY <3>1, <3>3 DEF UserEdit, Text
      <3>5. u \subseteq made'
        BY <3>3, <3>4 DEF MadeInv
      <3> QED
        BY <1>1, <3>4, <3>5, PutMade
    <2>2. CASE \E r \in Author, p \in Path : UserDelete(r, p)
      <3>1. PICK r \in Replica, p \in Path : tree' = [tree EXCEPT ![r][p] = None]
        BY <2>2, AuthorAssumption DEF UserDelete
      <3>2. None \in Maybe(Content)
        BY DEF Maybe
      <3> QED
        BY <1>1, <3>1, <3>2, PutMade
    <2>3. CASE \E p \in Path : UserRestore(p)
      <3>1. PICK p \in Path : UserRestore(p)
        BY <2>3
      <3>2. /\ tree' = [tree EXCEPT ![Hub][p] = removed[p]]
            /\ Hub \in Replica /\ removed[p] \in Maybe(Content)
            /\ removed[p] \subseteq made'
        BY <1>1, <3>1 DEF UserRestore, Replica, TypeOK, Tree, MadeInv
      <3> QED
        BY <1>1, <3>2, PutMade
    <2>4. CASE \E c \in Client : UserReset(c)
      <3>1. \A r \in Replica, q \in Path : tree'[r][q] \in {tree[r][q], None}
        BY <2>4 DEF UserReset, NoTree, TypeOK, Tree
      <3> QED
        BY <1>1, <3>1 DEF MadeInv, Text
    <2> QED
      BY <2>1, <2>2, <2>3, <2>4 DEF People
  <1> QED
    BY <1>1, <1>2 DEF MadeInv, Recorded, Named

LEMMA InitMade == Init => MadeInv
  BY DEF Init, MadeInv, Text, Recorded, Named, NoTree

LEMMA StepMade == TypeOK /\ MadeInv /\ [Next]_vars => MadeInv'
  <1> SUFFICES ASSUME TypeOK, MadeInv, [Next]_vars PROVE MadeInv'
    OBVIOUS
  <1>1. CASE UNCHANGED vars
    BY <1>1 DEF vars, MadeInv, Text, Recorded, Named
  <1> QED
    BY <1>1, BeginMade, DecideMade, WriteMade, EndMade, PeopleMade DEF Next, Run

-----------------------------------------------------------------------------
(* What a run saw.  Where nothing is overlooked and nobody writes under a  *)
(* run, the paths to be decided are as they were scanned, whatever else    *)
(* happens, and whether the run writes or not.                             *)

Undisturbed == Env \cap {"unseen", "midrun"} = {}

(* Only one machine runs the job.                                          *)
Alone == \E c \in Client : Client = {c}

(* A dry run writes nothing, and what it has not decided is as scanned.    *)
DryInv == (Running /\ job.dryRun) =>
            pc = "reconcile" /\ \A p \in todo : AsScanned(p)

SeenInv == touched = {} /\ DryInv

(* A path to be decided is as it was scanned.                              *)
LEMMA AsSeen ==
  ASSUME ConvergenceInv, SeenInv, NEW p \in Path, Deciding(p)
  PROVE  /\ Running /\ cur = None
         /\ tree[Here][p] = A(p) /\ tree[Hub][p] = B(p)
  <1>1. Running /\ cur = None
    BY DEF Deciding, Running, ConvergenceInv, TypeOK
  <1>2. CASE job.dryRun
    BY <1>1, <1>2 DEF SeenInv, DryInv, Deciding, AsScanned, Here
  <1>3. CASE ~job.dryRun
    BY <1>1, <1>3, Deciding_p DEF ConvergenceInv, SeenInv, AsScanned, Here
  <1> QED
    BY <1>1, <1>2, <1>3

LEMMA DecideSeen ==
  ASSUME ConvergenceInv, SeenInv, NEW p \in Path, Decide(p) PROVE SeenInv'
  <1>1. /\ Deciding(p) /\ UNCHANGED <<job, touched>> /\ Here' = Here
    BY DEF Decide, Deciding, Settle, RecordSame, DeleteLocal, DeleteRemote,
           Remove, CopyToLocal, CopyToRemote, Copy, MergePath, Quarantine,
           DryPath, memoryVars, historyVars, Here
  <1>2. Here \in Replica /\ Hub \in Replica
    BY <1>1, RunReplicas DEF Deciding, Running, ConvergenceInv
  <1>3. ASSUME job.dryRun
        PROVE  /\ pc' = "reconcile" /\ todo' = todo \ {p}
               /\ \A q \in Path \ {p} : /\ tree'[Here][q] = tree[Here][q]
                                        /\ tree'[Hub][q] = tree[Hub][q]
    <2>1. pc' = pc /\ todo' = todo \ {p}
      BY <1>3 DEF Decide, Settle, RecordSame, DeleteLocal, DeleteRemote, Remove,
                  CopyToLocal, CopyToRemote, MergePath, Quarantine, DryPath
    <2>2. CASE UNCHANGED tree
      BY <1>1, <2>1, <2>2 DEF Deciding
    <2>3. CASE DeleteLocal(p) \/ DeleteRemote(p)
      <3>1. PICK r \in {Here, Hub} : tree' = [tree EXCEPT ![r][p] = None]
        BY <2>3 DEF DeleteLocal, DeleteRemote, Remove, Here
      <3> QED
        BY <1>1, <1>2, <2>1, <3>1
        DEF Deciding, ConvergenceInv, TypeOK, Tree
    <2> QED
      BY <1>3, <2>2, <2>3
      DEF Decide, Settle, RecordSame, CopyToLocal, CopyToRemote, MergePath,
          Quarantine, DryPath
  <1>4. DryInv'
    <2>1. SUFFICES ASSUME job.dryRun, NEW q \in todo' PROVE AsScanned(q)'
      BY <1>1, <1>3 DEF DryInv
    <2>2. q \in Path \ {p} /\ q \in todo
      BY <1>3, <2>1 DEF ConvergenceInv, TypeOK
    <2>3. AsScanned(q)
      BY <1>1, <2>1, <2>2 DEF SeenInv, DryInv, Deciding, Running
    <2> QED
      BY <1>1, <1>3, <2>1, <2>2, <2>3 DEF AsScanned, A, B, Here
  <1> QED
    BY <1>1, <1>4 DEF SeenInv

LEMMA PeopleSeen ==
  ASSUME Undisturbed, People PROVE ~Running /\ UNCHANGED <<pc, touched>>
  BY DEF Undisturbed, People, PeopleMayAct, UserEdit, UserDelete, UserRestore,
         UserReset, RunUnchanged, TouchIfRunning

LEMMA BeginSeen ==
  ASSUME Undisturbed, NEW c \in Client, Begin(c)
  PROVE  /\ job'.client = c /\ touched' = {} /\ pc' = "reconcile"
         /\ \A p \in Path : A(p)' = tree[c][p] /\ B(p)' = tree[Hub][p]
         /\ SeenInv'
  <1>1. PICK dry \in Choice("dryrun"), allow \in Choice("massdelete") :
          /\ job' = [client |-> c, dryRun |-> dry, allowed |-> allow,
                     local |-> Scan(c, {}), hub |-> Scan(Hub, {})]
          /\ touched' = {}
    BY DEF Begin, Unseen, Undisturbed
  <1>2. /\ tree' = tree /\ pc' = "reconcile" /\ todo' \subseteq Path
    BY DEF Begin, UnionPaths
  <1>3. \A p \in Path : A(p)' = tree[c][p] /\ B(p)' = tree[Hub][p]
    BY <1>1 DEF A, B, Scan
  <1> QED
    BY <1>1, <1>2, <1>3 DEF SeenInv, DryInv, AsScanned

LEMMA StepSeen ==
  ASSUME Undisturbed, ConvergenceInv, SeenInv, [Next]_vars PROVE SeenInv'
  <1>1. CASE \E p \in Path : Decide(p)
    BY <1>1, DecideSeen
  <1>2. CASE Write
    <2>1. UNCHANGED <<touched, job>> /\ pc \in {"writeLocal", "writeHub", "align"}
      BY <1>2 DEF Write, WriteBothLocal, WriteBothHub, AlignLocal, Copy,
                  memoryVars, historyVars
    <2> QED
      BY <2>1 DEF SeenInv, DryInv, Running
  <1>3. CASE Save
    BY <1>3 DEF Save, SeenInv, DryInv, memoryVars, historyVars
  <1>4. CASE EndRun
    BY <1>4 DEF EndRun, ForgetRun, SeenInv, DryInv, Running
  <1>5. CASE People
    BY <1>5, PeopleSeen DEF SeenInv, DryInv, Running
  <1>6. CASE UNCHANGED vars
    BY <1>6 DEF vars, SeenInv, DryInv, Running, AsScanned, A, B
  <1> QED
    BY <1>1, <1>2, <1>3, <1>4, <1>5, <1>6, BeginSeen
    DEF Next, Run, Finish, Failure, CollectBlobs, EndDryRun, Stop, Tear
=============================================================================
