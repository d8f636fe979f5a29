------------------------ MODULE WorktreeGuardProofs ------------------------
(***************************************************************************)
(* What a run announces is what it does.  Theorems about Worktree: the     *)
(* forecast of the mass-delete guard covers every removal from the hub, a  *)
(* reported conflict is one, and a deletion that is recorded stands.       *)
(***************************************************************************)
EXTENDS WorktreeProofs, FiniteSetTheorems

(* A path is decided once, and up to then the run's table has what the     *)
(* ledger has.                                                             *)
Underway == pc \notin {"idle", "gc"}

TableInv ==
    Underway =>
      /\ job.dryRun => pc = "reconcile"
      /\ \A p \in todo : files[p] = base[p] /\ stones[p] = tombs[p]

(* Which paths a step decides, and what becomes of the table elsewhere.    *)
LEMMA DecideTable ==
  ASSUME TypeOK, TableInv, NEW p \in Path, Decide(p)
  PROVE  /\ Deciding(p) /\ UNCHANGED <<base, tombs, gen, cursor, job>>
         /\ pc' \in {"reconcile", "writeLocal"}
         /\ \A q \in Path \ {p} : files'[q] = files[q] /\ stones'[q] = stones[q]
         /\ todo' = todo \ {p} \/ UNCHANGED <<todo, files, stones>>
         /\ TableInv'
  <1>1. /\ Deciding(p) /\ UNCHANGED <<base, tombs, gen, cursor, job>>
        /\ pc' \in {"reconcile", "writeLocal"}
    BY DEF Decide, Deciding, Settle, RecordSame, DeleteLocal, DeleteRemote,
           Remove, CopyToLocal, CopyToRemote, Copy, MergePath, Quarantine,
           DryPath, ledgerVars, memoryVars, historyVars
  <1>2. todo' = todo \ {p} \/ UNCHANGED <<todo, files, stones>>
    BY DEF Decide, Settle, RecordSame, DeleteLocal, DeleteRemote, Remove,
           CopyToLocal, CopyToRemote, MergePath, Quarantine, DryPath, memoryVars
  <1>3. \A q \in Path \ {p} : files'[q] = files[q] /\ stones'[q] = stones[q]
    BY DEF Decide, Settle, EntryCleared, RecordSame, DeleteLocal, DeleteRemote,
           Remove, CopyToLocal, CopyToRemote, Copy, Record, RecordTombstone,
           MergePath, Quarantine, DryPath, memoryVars, TypeOK, Files, Tombs
  <1>4. job.dryRun => pc' = "reconcile"
    BY <1>1 DEF Decide, Deciding, Settle, RecordSame, DeleteLocal, DeleteRemote,
                Remove, CopyToLocal, CopyToRemote, MergePath, Quarantine, DryPath
  <1>5. TableInv'
    BY <1>1, <1>2, <1>3, <1>4 DEF TableInv, Underway, Deciding, TypeOK
  <1> QED
    BY <1>1, <1>2, <1>3, <1>5

(* writeBoth writes the path in hand, which it then takes off the list, or *)
(* a sidecar, which is not on it.                                          *)
LEMMA WriteTable ==
  ASSUME ConvergenceInv, TableInv, Write
  PROVE  /\ Running /\ ~job.dryRun
         /\ UNCHANGED <<base, tombs, gen, cursor, job, wiped>>
         /\ pc' \in {"writeHub", "align", "reconcile"}
         /\ TableInv'
  <1>1. /\ UNCHANGED <<base, tombs, gen, cursor, job, wiped>>
        /\ pc \in {"writeLocal", "writeHub", "align"}
        /\ pc' \in {"writeHub", "align", "reconcile"}
    BY DEF Write, WriteBothLocal, WriteBothHub, AlignLocal, Copy, ledgerVars,
           memoryVars, historyVars
  <1>2. Running /\ ~job.dryRun
    BY <1>1 DEF Running, TableInv, Underway
  <1>3. WriteBothLocal => TableInv'
    BY <1>1 DEF WriteBothLocal, memoryVars, TableInv, Underway
  <1>4. ASSUME WriteBothHub PROVE TableInv'
    <2>1. target \in Path /\ (target # cur => target \notin todo)
      BY <1>2, <1>4
      DEF WriteBothHub, ConvergenceInv, TypeOK, ReconcileInv, Running, Phase
    <2>2. \A q \in Path \ {target} : /\ files'[q] = files[q]
                                     /\ stones'[q] = stones[q]
      BY <1>4, <2>1 DEF WriteBothHub, Record, ConvergenceInv, TypeOK, Files, Tombs
    <2>3. todo' \subseteq todo /\ target \notin todo'
      BY <1>4, <2>1 DEF WriteBothHub, WritesSidecar
    <2> QED
      BY <1>1, <1>4, <2>2, <2>3
      DEF TableInv, Underway, ConvergenceInv, TypeOK, WriteBothHub
  <1>5. ASSUME AlignLocal PROVE TableInv'
    <2>1. \A q \in Path \ {cur} : files'[q] = files[q] /\ stones'[q] = stones[q]
      BY <1>5 DEF AlignLocal, Copy, Record, ConvergenceInv, TypeOK, Files, Tombs
    <2>2. todo' = todo \ {cur}
      BY <1>5 DEF AlignLocal
    <2> QED
      BY <1>1, <1>5, <2>1, <2>2
      DEF TableInv, Underway, ConvergenceInv, TypeOK, AlignLocal
  <1> QED
    BY <1>1, <1>2, <1>3, <1>4, <1>5 DEF Write

LEMMA StepTable ==
  ASSUME ConvergenceInv, TableInv, [Next]_vars
  PROVE  TableInv'
  <1>1. CASE \E c \in Client : Begin(c)
    BY <1>1 DEF Begin, TableInv, ledgerVars
  <1>2. CASE \E p \in Path : Decide(p)
    BY <1>2, DecideTable DEF ConvergenceInv
  <1>3. CASE Write
    BY <1>3, WriteTable
  <1>4. CASE Finish \/ Failure
    BY <1>4 DEF Finish, Save, CollectBlobs, EndDryRun, Failure, Stop, Tear,
                EndRun, TableInv, Underway
  <1>5. CASE People
    BY <1>5 DEF People, UserEdit, UserDelete, UserRestore, UserReset,
                RunUnchanged, ledgerVars, memoryVars, TableInv, Underway
  <1>6. CASE UNCHANGED vars
    BY <1>6 DEF vars, TableInv, Underway
  <1> QED
    BY <1>1, <1>2, <1>3, <1>4, <1>5, <1>6 DEF Next, Run

-----------------------------------------------------------------------------
(* The mass-delete guard.  The forecast reads the ledger's entries only,   *)
(* while decide also removes what a tombstone names; so the guard rests on *)
(* the hub never holding a version whose deletion the ledger records.      *)
(* A restored backup, a file emptied by a torn write and a hub file that a *)
(* scan left out each break that.  People who write under the run do not:  *)
(* what they make is new.  Nor does what the scan of a client leaves out:  *)
(* it makes the forecast as large as the removals.                         *)

Foreseen == /\ Env \cap {"torn", "restore"} = {}
            /\ Hub \in LocalFS => Env \cap {"unseen", "midrun"} = {}

(* The hub's p is not the version that tombstone of the table t, s names.  *)
Free(t, s, p) == (t[p] = None /\ s[p] # None /\ s[p].last # None) =>
                   tree[Hub][p] # s[p].last
StaleFree(t, s) == \A p \in Path : Free(t, s, p)

Forecast == PlannedRemoteDeletes(job.client, job.local, job.hub)

ForecastInv ==
    Underway => /\ wiped \subseteq Forecast
                /\ \/ job.allowed
                   \/ ~MassDelete(Cardinality(Forecast), Cardinality(Tracked))

(* writeBoth writes no path whose deletion the ledger records.             *)
TargetInv == pc \in {"writeLocal", "writeHub"} =>
               base[target] # None \/ tombs[target] = None

(* The versions of p that a tombstone can come to name in this run.        *)
Old(p) == Recorded(base, p) \cup Named(tombs, p)

(* Replica r has p as scanned, u, or not at all, or with something new.    *)
AsKnown(r, u, p) == tree[r][p] \in {None, u} \/ ~(tree[r][p] \subseteq Old(p))

(* The scan of the client says so of what it lists.                        *)
HereKnown(p) == A(p) # None => AsKnown(Here, A(p), p)

(* The hub's scan does not have the version that a tombstone names.        *)
Unburied(p) ==
    (base[p] = None /\ tombs[p] # None /\ tombs[p].last # None) =>
      B(p) # tombs[p].last

ScanInv ==
    Underway => /\ \A p \in todo \ {cur} : /\ HereKnown(p)
                                          /\ AsKnown(Hub, B(p), p)
                /\ \A p \in todo : Unburied(p)

GuardInv == /\ ConvergenceInv /\ MadeInv /\ TableInv /\ ScanInv
            /\ StaleFree(base, tombs) /\ StaleFree(files, stones)
            /\ pc = "idle" => wiped = {}
            /\ ForecastInv /\ TargetInv

(* What decide can rely on.                                                *)
LEMMA InHand ==
  ASSUME GuardInv, NEW p \in Path, Deciding(p)
  PROVE  /\ Running /\ Underway /\ cur = None
         /\ files[p] = base[p] /\ stones[p] = tombs[p]
         /\ HereKnown(p) /\ AsKnown(Hub, B(p), p) /\ Unburied(p)
  <1>1. Running /\ Underway /\ cur = None
    BY NoneAssumption
    DEF Deciding, Running, Underway, GuardInv, ConvergenceInv, TypeOK
  <1> QED
    BY <1>1, NoneAssumption
    DEF GuardInv, TableInv, ScanInv, Deciding, ConvergenceInv, TypeOK

(* decide removes from the hub only what was forecast.                     *)
LEMMA WipedForeseen ==
  ASSUME GuardInv, NEW p \in Path, Deciding(p), ShouldDeleteRemote(p)
  PROVE  p \in Forecast
  <1>1. files[p] = base[p] /\ stones[p] = tombs[p] /\ Unburied(p)
    BY InHand
  <1>2. ~StaleHub(p)
    BY <1>1 DEF Unburied, StaleHub, Buried
  <1>3. Differ(p) /\ A(p) # L(p) /\ B(p) = L(p) /\ A(p) = None /\ ~NeverReceived(p)
    BY <1>2 DEF ShouldDeleteRemote, LocalChanged, HubChanged
  <1>4. L(p) = IF base[p] = None THEN None ELSE base[p].hash
    BY <1>1 DEF L
  <1>5. ~(base[p] # None /\ base[p].gen > cursor[job.client])
    BY <1>1, <1>3 DEF NeverReceived
  <1> QED
    BY <1>3, <1>4, <1>5 DEF Forecast, PlannedRemoteDeletes, Differ, A, B

(* The forecast is made from what a run does not change.                   *)
LEMMA ForecastKept ==
  ASSUME ForecastInv, UNCHANGED <<base, cursor, job>>, Underway' => Underway,
         wiped' \subseteq wiped \cup Forecast
  PROVE  ForecastInv'
  <1>1. Forecast' = Forecast /\ Tracked' = Tracked
    BY DEF Forecast, PlannedRemoteDeletes, Tracked
  <1> QED
    BY <1>1 DEF ForecastInv

(* decide changes the trees at p only.                                     *)
LEMMA DecideTrees ==
  ASSUME TypeOK, NEW p \in Path, Decide(p)
  PROVE  \A r \in Replica, q \in Path \ {p} : tree'[r][q] = tree[r][q]
  <1>1. Here \in Replica /\ Hub \in Replica /\ tree \in [Replica -> Tree]
    BY RunReplicas
    DEF Running, TypeOK, Decide, Deciding, Settle, RecordSame, DeleteLocal,
        DeleteRemote, CopyToLocal, CopyToRemote, MergePath, Quarantine, DryPath
  <1> QED
    BY <1>1
    DEF Decide, Settle, RecordSame, DeleteLocal, DeleteRemote, Remove,
        CopyToLocal, CopyToRemote, Copy, MergePath, Quarantine, DryPath, Tree,
        Here

LEMMA DecideScan ==
  ASSUME GuardInv, NEW p \in Path, Decide(p)
  PROVE  ScanInv'
  <1>1. /\ Deciding(p) /\ UNCHANGED <<base, tombs, job>>
        /\ \/ todo' = todo \ {p}
           \/ UNCHANGED <<todo, tree>>
    BY DecideTable
    DEF GuardInv, ConvergenceInv, Decide, Settle, RecordSame, DeleteLocal,
        DeleteRemote, Remove, CopyToLocal, CopyToRemote, MergePath, Quarantine,
        DryPath
  <1>2. /\ Here \in Replica /\ Hub \in Replica
        /\ Underway /\ cur = None /\ todo \subseteq Path
    BY <1>1, InHand, RunReplicas DEF GuardInv, ConvergenceInv, TypeOK
  <1>3. \A q \in todo : /\ HereKnown(q) /\ AsKnown(Hub, B(q), q)
                        /\ Unburied(q)
    <2> SUFFICES ASSUME NEW q \in todo
                 PROVE  /\ HereKnown(q) /\ AsKnown(Hub, B(q), q)
                        /\ Unburied(q)
      OBVIOUS
    <2>1. q \in Path /\ Deciding(q)
      BY <1>1, <1>2 DEF Deciding
    <2> QED
      BY <2>1, InHand
  <1>4. \A q \in todo' : Unburied(q)'
    BY <1>1, <1>3 DEF Unburied, B
  <1>5. \A q \in todo' : q # p \/ UNCHANGED tree =>
          HereKnown(q)' /\ AsKnown(Hub, B(q), q)'
    <2>1. \A q \in todo' : q # p \/ UNCHANGED tree =>
            /\ tree'[Here][q] = tree[Here][q] /\ tree'[Hub][q] = tree[Hub][q]
            /\ q \in todo
      BY <1>1, <1>2, DecideTrees DEF GuardInv, ConvergenceInv
    <2>2. Here' = Here
      BY <1>1 DEF Here
    <2> QED
      BY <1>1, <1>3, <2>1, <2>2 DEF HereKnown, AsKnown, Old, Recorded, Named, A, B
  <1> QED
    BY <1>1, <1>4, <1>5 DEF ScanInv

LEMMA DecideGuard ==
  ASSUME GuardInv, NEW p \in Path, Decide(p)
  PROVE  /\ StaleFree(base, tombs)' /\ StaleFree(files, stones)'
         /\ ForecastInv' /\ TargetInv'
  <1>1. /\ Deciding(p) /\ UNCHANGED <<base, tombs, gen, cursor, job>>
        /\ pc' \in {"reconcile", "writeLocal"}
        /\ \A q \in Path \ {p} : files'[q] = files[q] /\ stones'[q] = stones[q]
    BY DecideTable DEF GuardInv, ConvergenceInv
  <1>2. /\ Running /\ files[p] = base[p] /\ stones[p] = tombs[p]
        /\ HereKnown(p) /\ AsKnown(Hub, B(p), p)
    BY <1>1, InHand
  <1>3. /\ Here \in Replica /\ Hub \in Replica /\ Here # Hub
        /\ tree \in [Replica -> Tree]
        /\ files \in Files /\ stones \in Tombs /\ gen \in Nat
    BY <1>2, RunReplicas, HubAssumption DEF GuardInv, ConvergenceInv, TypeOK
  <1>4. \A q \in Path \ {p} : tree'[Hub][q] = tree[Hub][q]
    BY <1>3, DecideTrees DEF GuardInv, ConvergenceInv
  <1>5. Free(base, tombs, p)' /\ Free(files, stones, p)'
    <2>1. CASE CopyToRemote(p)
      <3>1. tree'[Hub][p] = tree[Here][p] /\ tree[Here][p] # None
        BY <1>3, <2>1 DEF CopyToRemote, Copy, Here, Tree
      <3>2. files'[p] # None
        BY <1>3, <2>1, NoneAssumption
        DEF CopyToRemote, Copy, Record, Files, FileEntry, TypeOK, GuardInv,
            ConvergenceInv, Maybe, Tree, Here
      <3>3. Free(base, tombs, p)'
        <4>1. SUFFICES ASSUME base[p] = None, tombs[p] # None,
                              tombs[p].last # None
                       PROVE  tree[Here][p] # tombs[p].last
          BY <1>1, <3>1 DEF Free
        <4>2. Buried(p) /\ L(p) = None
          BY <1>2, <4>1 DEF Buried, L
        <4>3. Differ(p) /\ B(p) = None
          BY <2>1, <4>2 DEF CopyToRemote, ShouldPush, HubChanged
        <4>4. A(p) # tombs[p].last
          BY <1>2, <4>2, <4>3 DEF Differ, StaleLocal
        <4> QED
          BY <1>2, <3>1, <4>1, <4>3, <4>4 DEF Differ, HereKnown, AsKnown, Old, Named
      <3> QED
        BY <3>2, <3>3 DEF Free
    <2>2. CASE DeleteRemote(p)
      <3>1. tree'[Hub][p] = None
        BY <1>3, <2>2 DEF DeleteRemote, Remove, Tree
      <3> QED
        BY <3>1 DEF Free
    <2>6. CASE DeleteLocal(p)
      <3>1. /\ tree'[Hub][p] = tree[Hub][p]
            /\ stones' = [stones EXCEPT ![p] = [last |-> L(p)]]
        BY <1>3, <2>6 DEF DeleteLocal, Remove, RecordTombstone, Here
      <3>2. L(p) # None => tree[Hub][p] # L(p)
        <4>1. SUFFICES ASSUME L(p) # None PROVE tree[Hub][p] # L(p)
          OBVIOUS
        <4>2. B(p) = None
          BY <2>6, <4>1
          DEF DeleteLocal, ShouldDeleteLocal, StaleLocal, Buried, L
        <4>3. L(p) = Recorded(base, p)
          BY <1>2, <4>1 DEF L, Recorded
        <4> QED
          BY <1>2, <4>1, <4>2, <4>3 DEF AsKnown, Old
      <3>3. stones'[p].last = L(p)
        BY <1>3, <3>1 DEF Tombs
      <3> QED
        BY <1>1, <3>1, <3>2, <3>3 DEF Free, GuardInv, StaleFree
    <2>3. CASE CopyToLocal(p) \/ RecordSame(p)
      <3>1. tree'[Hub][p] = tree[Hub][p] /\ tree[Hub][p] # None
        BY <1>3, <2>3 DEF CopyToLocal, RecordSame, Copy, Here
      <3>2. files'[p] # None
        BY <1>3, <2>3, <3>1, NoneAssumption
        DEF CopyToLocal, RecordSame, Copy, Record, Files, FileEntry, Maybe, Tree
      <3> QED
        BY <1>1, <3>1, <3>2 DEF Free, GuardInv, StaleFree
    <2>4. CASE Settle(p)
      <3>1. tree' = tree /\ stones' = stones
        BY <2>4 DEF Settle
      <3>2. files' = files \/ B(p) = None
        BY <2>4 DEF Settle, EntryCleared, InStep
      <3>3. B(p) = None /\ stones[p] # None /\ stones[p].last # None =>
              tree[Hub][p] # stones[p].last
        BY <1>2 DEF AsKnown, Old, Named
      <3> QED
        BY <1>1, <3>1, <3>2, <3>3 DEF Free, GuardInv, StaleFree
    <2>5. CASE MergePath(p) \/ Quarantine(p) \/ DryPath(p)
      BY <1>1, <2>5
      DEF MergePath, Quarantine, DryPath, memoryVars, Free, GuardInv, StaleFree
    <2> QED
      BY <2>1, <2>2, <2>3, <2>4, <2>5, <2>6 DEF Decide
  <1>6. StaleFree(base, tombs)' /\ StaleFree(files, stones)'
    <2>1. ASSUME NEW q \in Path
          PROVE  Free(base, tombs, q)' /\ Free(files, stones, q)'
      <3>1. CASE q = p
        BY <1>5, <3>1
      <3>2. CASE q # p
        BY <1>1, <1>4, <3>2 DEF Free, GuardInv, StaleFree
      <3> QED
        BY <3>1, <3>2
    <2> QED
      BY <2>1 DEF StaleFree
  <1>7. ForecastInv'
    <2>1. wiped' \subseteq wiped \cup Forecast
      <3>1. CASE DeleteRemote(p)
        BY <1>1, <3>1, WipedForeseen DEF DeleteRemote
      <3>2. CASE UNCHANGED wiped
        BY <3>2
      <3> QED
        BY <3>1, <3>2
        DEF Decide, Settle, RecordSame, DeleteLocal, CopyToLocal, CopyToRemote,
            Copy, MergePath, Quarantine, DryPath, historyVars
    <2> QED
      BY <1>1, <2>1, ForecastKept DEF GuardInv, Underway, Deciding
  <1>8. TargetInv'
    <2>1. CASE MergePath(p)
      <3>1. base[p] # None
        BY <1>2, <2>1 DEF MergePath, L
      <3> QED
        BY <1>1, <2>1, <3>1 DEF MergePath, TargetInv
    <2>2. CASE Quarantine(p)
      <3>1. NewName(target')
        BY <2>2 DEF Quarantine
      <3> QED
        BY <1>1, <3>1 DEF NewName, TargetInv
    <2>3. CASE pc' = pc
      BY <1>1, <2>3 DEF Deciding, TargetInv
    <2> QED
      BY <2>1, <2>2, <2>3
      DEF Decide, Settle, RecordSame, DeleteLocal, DeleteRemote, Remove,
          CopyToLocal, CopyToRemote, DryPath
  <1> QED
    BY <1>6, <1>7, <1>8

(* writeBoth writes the path in hand, or one that is not to be decided.    *)
LEMMA WriteScan ==
  ASSUME GuardInv, Write
  PROVE  ScanInv'
  <1>1. /\ Running /\ ~job.dryRun /\ pc \in {"writeLocal", "writeHub", "align"}
        /\ UNCHANGED <<base, tombs, job>>
    BY WriteTable DEF GuardInv, Write, WriteBothLocal, WriteBothHub, AlignLocal
  <1>2. /\ Here \in Replica /\ Hub \in Replica /\ todo \subseteq Path
        /\ tree \in [Replica -> Tree] /\ cur \in Path /\ Underway
    BY <1>1, RunReplicas DEF GuardInv, ConvergenceInv, TypeOK, Maybe, Underway
  <1>3. /\ \A q \in todo \ {cur} : HereKnown(q) /\ AsKnown(Hub, B(q), q)
        /\ \A q \in todo : Unburied(q)
    BY <1>2 DEF GuardInv, ScanInv
  <1>4. PICK t \in Path : /\ t = cur \/ t \notin todo
                          /\ \A r \in Replica, q \in Path \ {t} :
                               tree'[r][q] = tree[r][q]
    <2>1. CASE WriteBothLocal \/ WriteBothHub
      <3>1. PICK t \in Path : t = target
        BY <2>1 DEF WriteBothLocal, WriteBothHub, GuardInv, ConvergenceInv, TypeOK
      <3>2. t = cur \/ t \notin todo
        BY <1>1, <2>1, <3>1
        DEF WriteBothLocal, WriteBothHub, GuardInv, ConvergenceInv, ReconcileInv,
            Phase
      <3>3. \A r \in Replica, q \in Path \ {t} : tree'[r][q] = tree[r][q]
        BY <1>2, <2>1, <3>1 DEF WriteBothLocal, WriteBothHub, Tree, Here
      <3> QED
        BY <3>2, <3>3
    <2>2. CASE AlignLocal
      <3>1. PICK t \in Path : t = cur
        BY <1>2
      <3>2. \A r \in Replica, q \in Path \ {t} : tree'[r][q] = tree[r][q]
        BY <1>2, <2>2, <3>1 DEF AlignLocal, Copy, Tree, Here
      <3> QED
        BY <3>1, <3>2
    <2> QED
      BY <2>1, <2>2 DEF Write
  <1>5. todo' \ {cur'} \subseteq todo \ {cur} /\ todo' \subseteq todo
    BY <1>2, NoneAssumption
    DEF Write, WriteBothLocal, WriteBothHub, AlignLocal, writeVars
  <1>6. \A q \in todo' : Unburied(q)'
    BY <1>1, <1>3, <1>5 DEF Unburied, B
  <1>7. \A q \in todo' \ {cur'} :
          HereKnown(q)' /\ AsKnown(Hub, B(q), q)'
    <2>1. \A q \in todo' \ {cur'} : /\ tree'[Here][q] = tree[Here][q]
                                    /\ tree'[Hub][q] = tree[Hub][q]
                                    /\ q \in todo \ {cur}
      BY <1>2, <1>4, <1>5
    <2>2. Here' = Here
      BY <1>1 DEF Here
    <2> QED
      BY <1>1, <1>3, <2>1, <2>2 DEF HereKnown, AsKnown, Old, Recorded, Named, A, B
  <1> QED
    BY <1>6, <1>7 DEF ScanInv

LEMMA WriteGuard ==
  ASSUME GuardInv, Write
  PROVE  /\ StaleFree(base, tombs)' /\ StaleFree(files, stones)'
         /\ ForecastInv' /\ TargetInv'
  <1>1. /\ Running /\ pc \in {"writeLocal", "writeHub", "align"}
        /\ UNCHANGED <<base, tombs, gen, cursor, job, wiped>>
        /\ pc' \in {"writeHub", "align", "reconcile"}
    BY WriteTable DEF GuardInv, Write, WriteBothLocal, WriteBothHub, AlignLocal
  <1>2. /\ Here \in Replica /\ Hub \in Replica /\ Here # Hub
        /\ tree \in [Replica -> Tree]
        /\ files \in Files /\ stones \in Tombs /\ gen \in Nat
    BY <1>1, RunReplicas, HubAssumption DEF GuardInv, ConvergenceInv, TypeOK
  <1>3. ForecastInv'
    BY <1>1, ForecastKept DEF GuardInv, Underway
  <1>4. TargetInv'
    BY <1>1 DEF Write, WriteBothLocal, WriteBothHub, AlignLocal, writeVars,
                GuardInv, TargetInv
  <1>5. CASE WriteBothLocal
    <2>1. UNCHANGED <<files, stones>> /\ \A q \in Path : tree'[Hub][q] = tree[Hub][q]
      BY <1>2, <1>5 DEF WriteBothLocal, memoryVars, Here
    <2> QED
      BY <1>1, <1>3, <1>4, <2>1 DEF GuardInv, StaleFree, Free
  <1>6. CASE WriteBothHub
    <2>1. PICK t \in Path, u \in Content : t = target /\ u = val
      BY <1>6 DEF WriteBothHub, GuardInv, ConvergenceInv, TypeOK
    <2>2. /\ \A q \in Path \ {t} : /\ tree'[Hub][q] = tree[Hub][q]
                                   /\ files'[q] = files[q]
                                   /\ stones'[q] = stones[q]
          /\ files'[t] # None
      BY <1>2, <1>6, <2>1, NoneAssumption
      DEF WriteBothHub, Record, Files, Tombs, FileEntry, Tree
    <2>3. base[t] # None \/ tombs[t] = None
      BY <1>6, <2>1 DEF WriteBothHub, GuardInv, TargetInv
    <2> QED
      BY <1>1, <1>3, <1>4, <2>2, <2>3 DEF GuardInv, StaleFree, Free
  <1>7. CASE AlignLocal
    <2>1. cur \in Path /\ tree[Hub][cur] \in Content
      BY <1>2, <1>7 DEF AlignLocal, Copy, GuardInv, ConvergenceInv, TypeOK,
                        Maybe, Tree
    <2>2. /\ \A q \in Path : tree'[Hub][q] = tree[Hub][q]
          /\ \A q \in Path \ {cur} : files'[q] = files[q] /\ stones'[q] = stones[q]
          /\ files'[cur] # None
      BY <1>2, <1>7, <2>1, NoneAssumption
      DEF AlignLocal, Copy, Record, Files, Tombs, FileEntry, Here
    <2> QED
      BY <1>1, <1>3, <1>4, <2>2 DEF GuardInv, StaleFree, Free
  <1> QED
    BY <1>5, <1>6, <1>7 DEF Write

LEMMA BeginGuard ==
  ASSUME Foreseen, GuardInv, NEW c \in Client, Begin(c)
  PROVE  /\ StaleFree(base, tombs)' /\ StaleFree(files, stones)'
         /\ ForecastInv' /\ TargetInv' /\ ScanInv'
  <1>1. /\ UNCHANGED <<tree, base, tombs, cursor, wiped>> /\ pc = "idle"
        /\ files' = base /\ stones' = tombs /\ pc' = "reconcile"
    BY DEF Begin, ledgerVars
  <1>2. PICK dry \in Choice("dryrun"), allow \in Choice("massdelete"),
             hl \in Unseen(c), hh \in Unseen(Hub) :
          /\ \/ allow
             \/ ~MassDelete(Cardinality(PlannedRemoteDeletes(c, Scan(c, hl), Scan(Hub, hh))),
                            Cardinality(Tracked))
          /\ job' = [client |-> c, dryRun |-> dry, allowed |-> allow,
                     local |-> Scan(c, hl), hub |-> Scan(Hub, hh)]
    BY DEF Begin
  <1>3. /\ Forecast' = PlannedRemoteDeletes(c, Scan(c, hl), Scan(Hub, hh))
        /\ Tracked' = Tracked
    BY <1>1, <1>2 DEF Forecast, PlannedRemoteDeletes, Tracked
  <1>4. ForecastInv'
    BY <1>1, <1>2, <1>3 DEF ForecastInv, GuardInv
  <1>5. ScanInv'
    <2>0. hh = {}
      <3>1. CASE Hub \in LocalFS
        BY <3>1 DEF Foreseen, Unseen
      <3>2. CASE Hub \notin LocalFS
        BY <3>2 DEF Unseen
      <3> QED
        BY <3>1, <3>2
    <2>1. /\ Here' = c
          /\ \A q \in Path : /\ A(q)' # None => A(q)' = tree[c][q]
                             /\ B(q)' = tree[Hub][q]
      BY <1>2, <2>0 DEF Scan, A, B, Here
    <2>2. todo' \subseteq Path
      BY DEF Begin, UnionPaths
    <2>3. \A q \in todo' : Unburied(q)'
      BY <1>1, <2>1, <2>2 DEF Unburied, GuardInv, StaleFree, Free
    <2>4. \A q \in todo' : HereKnown(q)' /\ AsKnown(Hub, B(q), q)'
      BY <1>1, <2>1, <2>2 DEF HereKnown, AsKnown
    <2> QED
      BY <2>3, <2>4 DEF ScanInv
  <1> QED
    BY <1>1, <1>4, <1>5 DEF GuardInv, StaleFree, Free, TargetInv

(* People take away, or make what there was not.                           *)
LEMMA PeopleMakeNew ==
  ASSUME "restore" \notin Env, TypeOK, People
  PROVE  \A r \in Replica, q \in Path :
           tree'[r][q] \in {tree[r][q], None} \/ ~(tree'[r][q] \subseteq made)
  <1>1. CASE \E r \in Author, p \in Path, e \in Edit : UserEdit(r, p, e)
    <2>1. PICK r \in Author, p \in Path, e \in Edit : UserEdit(r, p, e)
      BY <1>1
    <2>2. r \in Replica /\ e \notin made
      BY <2>1, AuthorAssumption DEF UserEdit
    <2>3. PICK u : u = (IF tree[r][p] = None THEN {} ELSE tree[r][p]) \cup {e}
      OBVIOUS
    <2>4. tree' = [tree EXCEPT ![r][p] = u] /\ ~(u \subseteq made)
      BY <2>1, <2>2, <2>3 DEF UserEdit
    <2> QED
      BY <2>2, <2>4 DEF TypeOK, Tree
  <1>2. CASE \E r \in Author, p \in Path : UserDelete(r, p)
    BY <1>2 DEF UserDelete, TypeOK, Tree
  <1>3. CASE \E p \in Path : UserRestore(p)
    BY <1>3 DEF UserRestore
  <1>4. CASE \E c \in Client : UserReset(c)
    BY <1>4 DEF UserReset, NoTree, TypeOK, Tree
  <1> QED
    BY <1>1, <1>2, <1>3, <1>4 DEF People

(* A new edit makes a version that no tombstone names or will name.        *)
LEMMA PeopleGuard ==
  ASSUME Foreseen, GuardInv, People
  PROVE  /\ StaleFree(base, tombs)' /\ StaleFree(files, stones)'
         /\ ForecastInv' /\ TargetInv' /\ ScanInv' /\ pc' = pc /\ wiped' = wiped
  <1>1. UNCHANGED <<base, tombs, cursor, files, stones, pc, job, todo, cur, target,
                    wiped>>
    BY DEF People, UserEdit, UserDelete, UserRestore, UserReset, RunUnchanged,
           ledgerVars, memoryVars, writeVars
  <1>2. \A r \in Replica, q \in Path :
          tree'[r][q] \in {tree[r][q], None} \/ ~(tree'[r][q] \subseteq made)
    BY PeopleMakeNew DEF Foreseen, GuardInv, ConvergenceInv
  <1>3. \A q \in Path : /\ Named(tombs, q) \subseteq made
                        /\ Named(stones, q) \subseteq made
                        /\ Old(q) \subseteq made
    BY DEF GuardInv, MadeInv, Old
  <1>4. ASSUME NEW q \in Path
        PROVE  Free(base, tombs, q)' /\ Free(files, stones, q)'
    BY <1>1, <1>2, <1>3 DEF Free, GuardInv, StaleFree, Named, Replica
  <1>5. ForecastInv'
    BY <1>1, ForecastKept DEF GuardInv, Underway
  <1>6. ScanInv'
    <2>1. SUFFICES ASSUME Underway PROVE ScanInv'
      BY <1>1 DEF ScanInv, Underway
    <2>2. /\ Here \in Replica /\ Hub \in Replica /\ todo \subseteq Path
          /\ Here' = Here
      BY <1>1, <2>1, RunReplicas
      DEF GuardInv, ConvergenceInv, TypeOK, Underway, Running, Here
    <2>3. \A q \in todo' : Unburied(q)'
      BY <1>1, <2>1 DEF GuardInv, ScanInv, Unburied, B
    <2>4. \A q \in todo \ {cur} : HereKnown(q) /\ AsKnown(Hub, B(q), q)
      BY <2>1 DEF GuardInv, ScanInv
    <2>5. ASSUME NEW q \in todo \ {cur}
          PROVE  HereKnown(q)' /\ AsKnown(Hub, B(q), q)'
      <3>1. q \in Path /\ A(q)' = A(q) /\ B(q)' = B(q) /\ Old(q)' = Old(q)
        BY <1>1, <2>2 DEF A, B, Old, Recorded, Named
      <3>2. Old(q) \subseteq made
        BY <1>3, <3>1
      <3>3. HereKnown(q)'
        BY <1>2, <2>2, <2>4, <3>1, <3>2 DEF HereKnown, AsKnown
      <3>4. AsKnown(Hub, B(q), q)'
        BY <1>2, <2>2, <2>4, <3>1, <3>2 DEF AsKnown
      <3> QED
        BY <3>3, <3>4
    <2> QED
      BY <1>1, <2>3, <2>5 DEF ScanInv
  <1> QED
    BY <1>1, <1>4, <1>5, <1>6 DEF StaleFree, GuardInv, TargetInv

LEMMA StepGuard == Foreseen /\ GuardInv /\ [Next]_vars => GuardInv'
  <1> SUFFICES ASSUME Foreseen, GuardInv, [Next]_vars PROVE GuardInv'
    OBVIOUS
  <1>1. ConvergenceInv' /\ MadeInv' /\ TableInv'
    BY StepType, StepConverges, StepMade, StepTable DEF GuardInv, ConvergenceInv
  <1>2. CASE \E c \in Client : Begin(c)
    BY <1>1, <1>2, BeginGuard DEF GuardInv, Begin
  <1>3. CASE \E p \in Path : Decide(p)
    <2>1. pc' # "idle"
      BY <1>3, DecideTable DEF GuardInv, ConvergenceInv
    <2> QED
      BY <1>1, <1>3, <2>1, DecideGuard, DecideScan DEF GuardInv
  <1>4. CASE Write
    <2>1. pc' # "idle"
      BY <1>4, WriteTable DEF GuardInv
    <2> QED
      BY <1>1, <1>4, <2>1, WriteGuard, WriteScan DEF GuardInv
  <1>5. CASE Save
    <2>1. /\ UNCHANGED <<tree, files, stones>> /\ base' = files /\ tombs' = stones
          /\ pc' = "gc"
      BY <1>5 DEF Save, memoryVars
    <2> QED
      BY <1>1, <2>1 DEF GuardInv, StaleFree, Free, ForecastInv, Underway, TargetInv,
                        ScanInv
  <1>6. CASE CollectBlobs \/ EndDryRun \/ Failure
    <2>1. /\ UNCHANGED <<tree, base, tombs>> /\ pc' = "idle" /\ wiped' = {}
          /\ files' = NoTree /\ stones' = NoTree
      BY <1>6 DEF CollectBlobs, EndDryRun, Failure, Stop, Tear, Foreseen, EndRun,
                  ForgetRun, ledgerVars
    <2> QED
      BY <1>1, <2>1 DEF GuardInv, StaleFree, Free, ForecastInv, Underway,
                        TargetInv, NoTree, ScanInv
  <1>7. CASE People
    BY <1>1, <1>7, PeopleGuard DEF GuardInv
  <1>8. CASE UNCHANGED vars
    BY <1>1, <1>8 DEF vars, GuardInv, StaleFree, Free, ForecastInv, Underway,
                      TargetInv, Forecast, PlannedRemoteDeletes, Tracked,
                      ScanInv, HereKnown, AsKnown, Unburied, Old, Recorded, Named, A, B, Here
  <1> QED
    BY <1>2, <1>3, <1>4, <1>5, <1>6, <1>7, <1>8 DEF Next, Run, Finish

LEMMA InitGuard == Init => GuardInv
  <1> SUFFICES ASSUME Init PROVE GuardInv
    OBVIOUS
  <1>1. ConvergenceInv /\ MadeInv
    BY InitType, InitConverges, InitMade DEF ConvergenceInv
  <1> QED
    BY <1>1 DEF Init, GuardInv, TableInv, Underway, StaleFree, Free, NoTree,
                ForecastInv, TargetInv, ScanInv

(* Fewer removals, in a finite set of paths.                               *)
LEMMA FewerNotMass ==
  ASSUME NEW S \in SUBSET Path, NEW T \in SUBSET S, NEW n \in Nat,
         ~MassDelete(Cardinality(S), n)
  PROVE  ~MassDelete(Cardinality(T), n)
  <1>1. IsFiniteSet(S)
    BY PathAssumption, FS_Subset
  <1>2. /\ Cardinality(S) \in Nat /\ Cardinality(T) \in Nat
        /\ Cardinality(T) <= Cardinality(S)
    BY <1>1, FS_Subset, FS_CardinalityType
  <1> QED
    BY <1>2, BoundAssumption DEF MassDelete

(* Without -allow-mass-delete, the files a run has removed from the hub    *)
(* never are a large share of those tracked, however the run was started,  *)
(* stopped, overtaken by people, or preceded by the loss of a client's     *)
(* whole tree.                                                             *)
THEOREM GuardHolds == Foreseen => (Spec => []MassDeleteGuard)
  <1>1. GuardInv => MassDeleteGuard
    <2> SUFFICES ASSUME GuardInv, Underway, ~job.allowed
                 PROVE  ~MassDelete(Cardinality(wiped), Cardinality(Tracked))
      BY DEF MassDeleteGuard, Underway
    <2>1. /\ wiped \subseteq Forecast
          /\ ~MassDelete(Cardinality(Forecast), Cardinality(Tracked))
      BY DEF GuardInv, ForecastInv
    <2>2. Forecast \subseteq Path /\ Tracked \subseteq Path
      BY DEF Forecast, PlannedRemoteDeletes, Tracked
    <2>3. Cardinality(Tracked) \in Nat
      BY <2>2, PathAssumption, FS_Subset, FS_CardinalityType
    <2> QED
      BY <2>1, <2>2, <2>3, FewerNotMass
  <1>2. Init => GuardInv
    BY InitGuard
  <1>3. ASSUME Foreseen PROVE Spec => []MassDeleteGuard
    <2>1. GuardInv /\ [Next]_vars => GuardInv'
      BY <1>3, StepGuard
    <2> QED
      BY <1>1, <1>2, <2>1, PTL DEF Spec
  <1> QED
    BY <1>3

-----------------------------------------------------------------------------
(* Genuine conflicts.  After a completed run of the only client, each      *)
(* replica has of a path what the ledger has, or nothing, or something     *)
(* made since; so two changed sides have each what the other one lacks.    *)

Secluded == Alone /\ Env \cap {"stop", "torn", "restore", "unseen", "midrun"} = {}

LEMMA SecludedQuiet == Secluded => Undisturbed
  BY DEF Secluded, Undisturbed

Entry(p) == IF base[p] = None THEN None ELSE base[p].hash

(* u is the recorded version l, or has an edit that neither l nor v has.   *)
Lacks(v, e)    == v = None \/ e \notin v
Fresh(u, v, l) == u = None \/ u = l \/ \E e \in u : Lacks(v, e) /\ Lacks(l, e)
Apart(x, y, p) == Fresh(x[p], y[p], Entry(p)) /\ Fresh(y[p], x[p], Entry(p))

TreesApart == \A c \in Client, p \in Path : Apart(tree[c], tree[Hub], p)
ScansApart == \A p \in Path : Apart(job.local, job.hub, p)

ApartInv == /\ (~Underway \/ job.dryRun) => TreesApart
            /\ Underway => ScansApart

SplitInv == /\ ConvergenceInv /\ SeenInv /\ MadeInv /\ TableInv
            /\ ApartInv /\ GenuineConflicts
            /\ pc = "idle" => flagged = {}

LEMMA BeginApart ==
  ASSUME Secluded, SplitInv, NEW c \in Client, Begin(c)
  PROVE  ApartInv' /\ flagged' = {}
  <1>1. /\ UNCHANGED <<tree, base, flagged>> /\ pc = "idle" /\ pc' = "reconcile"
    BY DEF Begin, ledgerVars
  <1>2. \A p \in Path : A(p)' = tree[c][p] /\ B(p)' = tree[Hub][p]
    BY BeginSeen, SecludedQuiet
  <1>3. TreesApart
    BY <1>1 DEF SplitInv, ApartInv, Underway
  <1>4. \A p : Entry(p)' = Entry(p)
    BY <1>1 DEF Entry
  <1>5. TreesApart'
    BY <1>1, <1>3, <1>4 DEF TreesApart, Apart
  <1>6. ScansApart'
    BY <1>2, <1>3, <1>4 DEF TreesApart, ScansApart, Apart, A, B
  <1> QED
    BY <1>1, <1>5, <1>6 DEF ApartInv, SplitInv

(* A path that decide takes for divergent is.                              *)
LEMMA DivergedGenuine ==
  ASSUME SplitInv, NEW p \in Path, Deciding(p), Diverged(p)
  PROVE  ~(A(p) \subseteq B(p)) /\ ~(B(p) \subseteq A(p))
  <1>1. files[p] = base[p] /\ Apart(job.local, job.hub, p)
    BY DEF Deciding, SplitInv, TableInv, ApartInv, Underway, ScansApart
  <1>2. L(p) = Entry(p)
    BY <1>1 DEF L, Entry
  <1>3. /\ Fresh(A(p), B(p), L(p)) /\ Fresh(B(p), A(p), L(p))
    BY <1>1, <1>2 DEF Apart, A, B
  <1>4. A(p) # None /\ B(p) # None /\ A(p) # L(p) /\ B(p) # L(p)
    BY DEF Diverged, BothChanged, LocalChanged, HubChanged
  <1> QED
    BY <1>3, <1>4 DEF Fresh, Lacks

LEMMA DecideApart ==
  ASSUME Secluded, SplitInv, NEW p \in Path, Decide(p)
  PROVE  ApartInv' /\ GenuineConflicts'
  <1>1. /\ Deciding(p) /\ UNCHANGED <<base, job>>
        /\ pc' \in {"reconcile", "writeLocal"}
    BY DecideTable DEF SplitInv, ConvergenceInv
  <1>2. /\ Running /\ tree[Here][p] = A(p) /\ tree[Hub][p] = B(p)
        /\ Here \in Client /\ Here \in Replica /\ Hub \in Replica
    BY <1>1, AsSeen, RunReplicas DEF SplitInv, ConvergenceInv
  <1>3. \A q : Entry(q)' = Entry(q) /\ A(q)' = A(q) /\ B(q)' = B(q)
    BY <1>1 DEF Entry, A, B
  <1>4. ScansApart'
    BY <1>1, <1>3 DEF SplitInv, ApartInv, Underway, Deciding, ScansApart, Apart
  <1>5. job.dryRun => TreesApart'
    <2>1. CASE DeleteLocal(p) \/ DeleteRemote(p)
      <3>1. PICK r \in {Here, Hub} : tree' = [tree EXCEPT ![r][p] = None]
        BY <2>1 DEF DeleteLocal, DeleteRemote, Remove, Here
      <3>2. tree'[Here][p] = None /\ tree'[Hub][p] = None
        BY <1>2, <2>1
        DEF DeleteLocal, DeleteRemote, Remove, ShouldDeleteLocal,
            ShouldDeleteRemote, StaleLocal, StaleHub, Here, SplitInv,
            ConvergenceInv, TypeOK, Tree
      <3>3. \A q \in Path \ {p} : /\ tree'[Here][q] = tree[Here][q]
                                  /\ tree'[Hub][q] = tree[Hub][q]
        BY <1>2, <3>1 DEF SplitInv, ConvergenceInv, TypeOK, Tree
      <3>4. Client = {Here}
        BY <1>2 DEF Secluded, Alone
      <3>5. job.dryRun => TreesApart
        BY DEF SplitInv, ApartInv
      <3> QED
        BY <1>3, <3>2, <3>3, <3>4, <3>5 DEF TreesApart, Apart, Fresh
    <2>2. CASE UNCHANGED tree
      BY <1>3, <2>2 DEF SplitInv, ApartInv, TreesApart, Apart
    <2> QED
      BY <2>1, <2>2
      DEF Decide, Settle, RecordSame, CopyToLocal, CopyToRemote, MergePath,
          Quarantine, DryPath
  <1>6. flagged' \in {flagged, flagged \cup {p}}
    BY DEF Decide, Settle, RecordSame, DeleteLocal, DeleteRemote, Remove,
           CopyToLocal, CopyToRemote, FlagIf, MergePath, Quarantine, DryPath
  <1>7. flagged' # flagged =>
          \/ A(p) = None \/ B(p) = None
          \/ ~(A(p) \subseteq B(p)) /\ ~(B(p) \subseteq A(p))
    <2>1. SUFFICES ASSUME flagged' # flagged
                   PROVE  A(p) = None \/ B(p) = None \/ Diverged(p)
      BY <1>1, DivergedGenuine
    <2>2. \/ BothChanged(p) /\ (ShouldPull(p) \/ ShouldPush(p))
          \/ Diverged(p)
      BY <2>1 DEF Decide, Settle, RecordSame, DeleteLocal, DeleteRemote, Remove,
                  CopyToLocal, CopyToRemote, FlagIf, MergePath, Quarantine,
                  DryPath
    <2> QED
      BY <2>2 DEF BothChanged, ShouldPull, ShouldPush
  <1>8. GenuineConflicts'
    BY <1>3, <1>6, <1>7 DEF SplitInv, GenuineConflicts
  <1> QED
    BY <1>1, <1>4, <1>5, <1>8 DEF ApartInv, Underway

LEMMA SaveApart ==
  ASSUME Secluded, SplitInv, Save PROVE ApartInv' /\ GenuineConflicts'
  <1>1. /\ UNCHANGED <<tree, files, job, flagged>> /\ base' = files /\ pc' = "gc"
        /\ ~job.dryRun
    BY DEF Save, memoryVars
  <1>2. \A p \in Path : Converged(p)
    BY DEF SplitInv, SeenInv, ConvergenceInv, ReconcileInv, HalfWritten, Save,
           Phase
  <1>3. Client = {Here}
    <2>1. Here \in Client
      BY RunReplicas DEF SplitInv, ConvergenceInv, Save, Running
    <2> QED
      BY <2>1 DEF Secluded, Alone
  <1>4. \A p \in Path : Entry(p)' = L(p)
    BY <1>1 DEF Entry, L
  <1>5. TreesApart'
    BY <1>1, <1>2, <1>3, <1>4 DEF TreesApart, Apart, Fresh, Converged, Here
  <1> QED
    BY <1>1, <1>5 DEF ApartInv, Underway, SplitInv, GenuineConflicts, A, B

LEMMA PeopleApart ==
  ASSUME Secluded, SplitInv, People
  PROVE  TreesApart' /\ pc' = "idle" /\ flagged' = {}
  <1>1. /\ pc = "idle" /\ flagged = {} /\ UNCHANGED <<base, pc, flagged>>
    BY SecludedQuiet, PeopleSeen
    DEF Running, SplitInv, People, UserEdit, UserDelete, UserRestore, UserReset,
        RunUnchanged, ledgerVars
  <1>2. /\ TreesApart /\ \A p : Entry(p)' = Entry(p)
    BY <1>1 DEF SplitInv, ApartInv, Underway, Entry
  <1>3. /\ tree \in [Replica -> Tree] /\ Client \subseteq Replica
        /\ Hub \in Replica /\ Hub \notin Client
    BY HubAssumption DEF SplitInv, ConvergenceInv, TypeOK, Replica
  <1>4. CASE \E r \in Author, p \in Path, e \in Edit : UserEdit(r, p, e)
    <2>1. PICK r \in Replica, p \in Path, e \in Edit : UserEdit(r, p, e)
      BY <1>4, AuthorAssumption
    <2>2. PICK u : u = (IF tree[r][p] = None THEN {} ELSE tree[r][p]) \cup {e}
      OBVIOUS
    <2>3. tree' = [tree EXCEPT ![r][p] = u] /\ e \notin made
      BY <2>1, <2>2 DEF UserEdit
    <2>4. /\ tree'[r][p] = u
          /\ \A s \in Replica, q \in Path :
               s # r \/ q # p => tree'[s][q] = tree[s][q]
      BY <1>3, <2>3 DEF Tree
    <2>5. ASSUME NEW v \in Maybe(Content), v = None \/ v \subseteq made,
                 Fresh(v, tree[r][p], Entry(p)), Fresh(tree[r][p], v, Entry(p))
          PROVE  Fresh(v, u, Entry(p)) /\ Fresh(u, v, Entry(p))
      <3>1. Lacks(Entry(p), e) /\ Lacks(v, e)
        BY <2>3, <2>5 DEF Entry, Lacks, SplitInv, MadeInv, Recorded
      <3>2. Fresh(u, v, Entry(p))
        BY <2>2, <3>1 DEF Fresh
      <3>3. \A f \in made : Lacks(tree[r][p], f) => Lacks(u, f)
        BY <2>2, <2>3 DEF Lacks
      <3>4. Fresh(v, u, Entry(p))
        BY <2>5, <3>3 DEF Fresh
      <3> QED
        BY <3>2, <3>4
    <2>6. \A s \in Replica, q \in Path :
            /\ tree[s][q] \in Maybe(Content)
            /\ tree[s][q] = None \/ tree[s][q] \subseteq made
      BY <1>3 DEF Tree, SplitInv, MadeInv, Text
    <2>7. ASSUME NEW c \in Client, NEW q \in Path
          PROVE  Apart(tree[c], tree[Hub], q)'
      <3>1. CASE q = p /\ r \in {c, Hub}
        BY <1>2, <1>3, <2>4, <2>5, <2>6, <3>1 DEF TreesApart, Apart
      <3>2. CASE ~(q = p /\ r \in {c, Hub})
        <4>1. tree'[c][q] = tree[c][q] /\ tree'[Hub][q] = tree[Hub][q]
          BY <1>3, <2>4, <3>2
        <4> QED
          BY <1>2, <4>1 DEF TreesApart, Apart
      <3> QED
        BY <3>1, <3>2
    <2> QED
      BY <1>1, <2>7 DEF TreesApart
  <1>5. CASE \E r \in Author, p \in Path : UserDelete(r, p)
    <2>1. \A s \in Replica, q \in Path : tree'[s][q] \in {tree[s][q], None}
      BY <1>3, <1>5 DEF UserDelete, Tree
    <2> QED
      BY <1>1, <1>2, <1>3, <2>1 DEF TreesApart, Apart, Fresh, Lacks
  <1>6. CASE \E p \in Path : UserRestore(p)
    BY <1>6 DEF UserRestore, Secluded
  <1>7. CASE \E c \in Client : UserReset(c)
    <2>1. \A s \in Replica, q \in Path : tree'[s][q] \in {tree[s][q], None}
      BY <1>3, <1>7 DEF UserReset, NoTree
    <2> QED
      BY <1>1, <1>2, <1>3, <2>1 DEF TreesApart, Apart, Fresh, Lacks
  <1> QED
    BY <1>4, <1>5, <1>6, <1>7 DEF People

LEMMA StepSplit == Secluded /\ SplitInv /\ [Next]_vars => SplitInv'
  <1> SUFFICES ASSUME Secluded, SplitInv, [Next]_vars PROVE SplitInv'
    OBVIOUS
  <1>1. ConvergenceInv' /\ SeenInv' /\ MadeInv' /\ TableInv'
    BY StepType, StepConverges, StepSeen, StepMade, StepTable, SecludedQuiet
    DEF SplitInv, ConvergenceInv
  <1>2. CASE \E c \in Client : Begin(c)
    BY <1>1, <1>2, BeginApart DEF SplitInv, GenuineConflicts
  <1>3. CASE \E p \in Path : Decide(p)
    <2>1. pc' # "idle"
      BY <1>3, DecideTable DEF SplitInv, ConvergenceInv
    <2> QED
      BY <1>1, <1>3, <2>1, DecideApart DEF SplitInv
  <1>4. CASE Write
    <2>1. /\ UNCHANGED <<base, job, flagged>> /\ ~job.dryRun
          /\ pc \in {"writeLocal", "writeHub", "align"}
          /\ pc' \in {"writeHub", "align", "reconcile"}
      BY <1>4, WriteTable
      DEF SplitInv, Write, WriteBothLocal, WriteBothHub, AlignLocal
    <2> QED
      BY <1>1, <2>1 DEF SplitInv, ApartInv, Underway, ScansApart, Apart, Entry,
                        GenuineConflicts, A, B
  <1>5. CASE Save
    <2>1. pc' # "idle"
      BY <1>5 DEF Save
    <2> QED
      BY <1>1, <1>5, <2>1, SaveApart DEF SplitInv
  <1>6. CASE CollectBlobs \/ EndDryRun \/ Failure
    <2>1. /\ UNCHANGED <<tree, base>> /\ pc' = "idle" /\ flagged' = {}
          /\ pc = "gc" \/ job.dryRun
      BY <1>6 DEF CollectBlobs, EndDryRun, Failure, Stop, Tear, Secluded, EndRun,
                  ForgetRun, ledgerVars
    <2>2. TreesApart
      BY <2>1 DEF SplitInv, ApartInv, Underway
    <2>3. TreesApart'
      BY <2>1, <2>2 DEF TreesApart, Apart, Entry
    <2> QED
      BY <1>1, <2>1, <2>3 DEF SplitInv, ApartInv, Underway, GenuineConflicts
  <1>7. CASE People
    BY <1>1, <1>7, PeopleApart DEF SplitInv, ApartInv, Underway, GenuineConflicts
  <1>8. CASE UNCHANGED vars
    BY <1>1, <1>8 DEF vars, SplitInv, ApartInv, Underway, TreesApart, ScansApart,
                      Apart, Entry, GenuineConflicts, A, B
  <1> QED
    BY <1>2, <1>3, <1>4, <1>5, <1>6, <1>7, <1>8 DEF Next, Run, Finish

LEMMA InitSplit == Init => SplitInv
  <1> SUFFICES ASSUME Init PROVE SplitInv
    OBVIOUS
  <1>1. ConvergenceInv /\ MadeInv
    BY InitType, InitConverges, InitMade DEF ConvergenceInv
  <1>2. \A c \in Client : tree[c] = NoTree
    BY DEF Init, Replica
  <1> QED
    BY <1>1, <1>2
    DEF Init, SplitInv, SeenInv, DryInv, Running, TableInv, Underway, ApartInv,
        TreesApart, Apart, Fresh, NoTree, GenuineConflicts, Replica

(* With one client whose runs complete: a conflict that is reported is     *)
(* one, in a dry run and after the loss of the client's tree as well.      *)
(* Each side has an edit that the other one lacks, or one side is gone.    *)
THEOREM ConflictsGenuine == Secluded => (Spec => []GenuineConflicts)
  <1>1. SplitInv => GenuineConflicts
    BY DEF SplitInv
  <1>2. Init => SplitInv
    BY InitSplit
  <1>3. ASSUME Secluded PROVE Spec => []GenuineConflicts
    <2>1. SplitInv /\ [Next]_vars => SplitInv'
      BY <1>3, StepSplit
    <2> QED
      BY <1>1, <1>2, <2>1, PTL DEF Spec
  <1> QED
    BY <1>3

-----------------------------------------------------------------------------
(* The tombstone guard.  With two clients whose runs complete, and nobody  *)
(* but them writing, a version that was removed and is still held is named *)
(* by a tombstone, and is held by one client only: the other is the one    *)
(* whose run removed it.  The holder's next run finds the tombstone and    *)
(* uses it up.  With a third client a second holder would come too late.   *)

Paired == /\ Hub \notin Author
          /\ \A c, d, e \in Client : c = d \/ c = e \/ d = e
          /\ Env \cap {"stop", "torn", "restore", "unseen", "midrun", "dryrun"} = {}

LEMMA PairedQuiet == Paired => Undisturbed
  BY DEF Paired, Undisturbed

(* What the tables t and s know of the version last removed at p.          *)
LaidToRest(t, s, p) ==
  /\ (s[p] # None /\ s[p].last # None) => s[p].last = removed[p]
  /\ (removed[p] # None /\ tree[Hub][p] = None) =>
       \/ \A c \in Client : tree[c][p] # removed[p]
       \/ /\ t[p] = None /\ s[p] # None /\ s[p].last = removed[p]
          /\ \E c \in Client : tree[c][p] # removed[p]

(* The hub holds what the ledger says, or the run's table, of a path that  *)
(* is not decided yet: so no path is in divergence.                        *)
RestInv ==
  /\ ~Underway => \A p \in Path : /\ LaidToRest(base, tombs, p)
                                  /\ tree[Hub][p] = Entry(p)
  /\ Underway  => /\ pc = "reconcile" /\ ~job.dryRun
                  /\ \A p \in Path : LaidToRest(files, stones, p)
                  /\ \A p \in todo : B(p) = L(p)

GraveInv == ConvergenceInv /\ SeenInv /\ MadeInv /\ RestInv

(* A step of the run at p that leaves p well leaves all paths well.        *)
LEMMA RestFrame ==
  ASSUME GraveInv, NEW p \in Path, Deciding(p),
         UNCHANGED <<base, tombs, pc, job>>, todo' = todo \ {p},
         \A q \in Path \ {p} : /\ \A r \in Replica : tree'[r][q] = tree[r][q]
                               /\ files'[q] = files[q] /\ stones'[q] = stones[q]
                               /\ removed'[q] = removed[q],
         LaidToRest(files, stones, p)'
  PROVE  RestInv'
  <1>1. Underway /\ Underway' /\ ~job'.dryRun /\ pc' = "reconcile"
    BY DEF Deciding, Underway, GraveInv, RestInv
  <1>2. ASSUME NEW q \in Path \ {p} PROVE LaidToRest(files, stones, q)'
    <2>1. LaidToRest(files, stones, q)
      BY <1>1 DEF GraveInv, RestInv
    <2> QED
      BY <1>2, <2>1 DEF LaidToRest, Replica
  <1>3. ASSUME NEW q \in todo' PROVE B(q)' = L(q)'
    <2>1. q \in todo /\ q \in Path \ {p}
      BY <1>3 DEF GraveInv, ConvergenceInv, TypeOK
    <2> QED
      BY <1>1, <2>1 DEF GraveInv, RestInv, A, B, L
  <1> QED
    BY <1>1, <1>2, <1>3 DEF RestInv

(* The hub equals the run's table where the run has to decide.  So a run   *)
(* merges nothing, and it copies to the hub what differs from the version  *)
(* that was removed there: otherwise the tombstone guard would have ended  *)
(* the decision.                                                           *)
LEMMA DecideRest ==
  ASSUME Paired, GraveInv, NEW p \in Path, Decide(p)
  PROVE  /\ RestInv'
         /\ \A q \in Path : (tree[Hub][q] = None /\ removed[q] # None) =>
                              tree'[Hub][q] # removed[q]
  <1>1. Deciding(p)
    BY DEF Decide, Settle, RecordSame, DeleteLocal, DeleteRemote, CopyToLocal,
           CopyToRemote, MergePath, Quarantine, DryPath
  <1>2. /\ Underway /\ ~job.dryRun /\ LaidToRest(files, stones, p) /\ B(p) = L(p)
        /\ tree[Here][p] = A(p) /\ tree[Hub][p] = B(p)
    BY <1>1, AsSeen DEF GraveInv, RestInv, Deciding, Underway
  <1>3. /\ TypeOK /\ Here \in Client /\ Here \in Replica /\ Hub \in Replica /\ Here # Hub
    BY <1>1, RunReplicas, HubAssumption DEF GraveInv, ConvergenceInv, Deciding, Running
  <1>4. /\ L(p) \in Maybe(Content) /\ (L(p) = None <=> files[p] = None)
    BY <1>3, LType, NoneAssumption DEF L, TypeOK, Files, Maybe, FileEntry
  <1>5. CASE Settle(p)
    <2>1. A(p) = B(p) /\ files' = EntryCleared(p)
      BY <1>5 DEF Settle, InStep
    <2>2. files' = files
      <3>1. CASE A(p) = None
        <4>1. files[p] = None
          BY <1>2, <1>4, <2>1, <3>1
        <4> QED
          BY <1>3, <2>1, <3>1, <4>1 DEF EntryCleared, TypeOK, Files
      <3>2. CASE A(p) # None
        BY <2>1, <3>2 DEF EntryCleared
      <3> QED
        BY <3>1, <3>2
    <2>3. UNCHANGED <<tree, stones, removed, base, tombs, pc, job>> /\ todo' = todo \ {p}
      BY <1>5 DEF Settle, ledgerVars, historyVars
    <2>4. LaidToRest(files, stones, p)'
      BY <1>2, <2>2, <2>3 DEF LaidToRest
    <2> QED
      BY <1>1, <2>2, <2>3, <2>4, RestFrame
  <1>6. CASE RecordSame(p)
    BY <1>2, <1>6 DEF RecordSame
  <1>7. CASE MergePath(p) \/ Quarantine(p)
    BY <1>2, <1>7 DEF MergePath, Quarantine, Diverged, BothChanged, HubChanged
  <1>8. CASE DryPath(p)
    BY <1>2, <1>8 DEF DryPath
  <1>9. CASE DeleteLocal(p)
    <2>1. StaleLocal(p)
      BY <1>2, <1>9 DEF DeleteLocal, ShouldDeleteLocal, Differ, LocalChanged
    <2>2. /\ files[p] = None /\ stones[p] # None /\ A(p) # None
          /\ A(p) = stones[p].last /\ B(p) = None /\ L(p) = None
      BY <1>4, <2>1 DEF StaleLocal, Buried
    <2>3. /\ Remove(Here, p) /\ RecordTombstone(p)
          /\ tree' = [tree EXCEPT ![Here][p] = None]
          /\ removed' = [removed EXCEPT ![p] = tree[Here][p]]
          /\ UNCHANGED <<base, tombs, pc, job>> /\ todo' = todo \ {p}
      BY <1>2, <1>9, <2>2 DEF DeleteLocal, Remove, Here, ledgerVars
    <2>4. removed[p] = A(p) /\ removed'[p] = A(p)
      BY <1>2, <1>3, <2>2, <2>3 DEF LaidToRest, TypeOK, Tree
    <2>5. /\ stones' = [stones EXCEPT ![p] = [last |-> None]]
          /\ files' = [files EXCEPT ![p] = None]
      BY <2>2, <2>3 DEF RecordTombstone
    <2>6. stones'[p].last = None
      BY <1>3, <2>5 DEF TypeOK, Tombs
    <2>7. \A c \in Client : tree'[c][p] # removed'[p]
      <3>1. PICK d \in Client : tree[d][p] # removed[p]
        BY <1>2, <1>3, <2>2, <2>4 DEF LaidToRest
      <3>2. d # Here
        BY <1>2, <2>4, <3>1
      <3>3. \A c \in Client : c = Here \/ c = d
        BY <1>3, <3>2 DEF Paired
      <3>4. tree'[Here][p] = None /\ tree'[d][p] = tree[d][p]
        BY <1>3, <2>3, <3>2 DEF TypeOK, Tree, Replica
      <3> QED
        BY <2>2, <2>4, <3>1, <3>3, <3>4
    <2>8. LaidToRest(files, stones, p)'
      BY <2>6, <2>7 DEF LaidToRest
    <2>9. \A q \in Path \ {p} : /\ \A r \in Replica : tree'[r][q] = tree[r][q]
                                /\ files'[q] = files[q] /\ stones'[q] = stones[q]
                                /\ removed'[q] = removed[q]
      BY <1>3, <2>3, <2>5 DEF TypeOK, Tree, Files, Tombs
    <2>10. \A q \in Path : tree'[Hub][q] = tree[Hub][q]
      BY <1>3, <2>3 DEF TypeOK, Tree
    <2> QED
      BY <1>1, <2>3, <2>8, <2>9, <2>10, RestFrame
  <1>10. CASE DeleteRemote(p)
    <2>1. ~StaleHub(p)
      BY <1>2, <1>4 DEF StaleHub, Buried
    <2>2. A(p) = None /\ B(p) # None
      BY <1>10, <2>1 DEF DeleteRemote, ShouldDeleteRemote, Differ
    <2>3. /\ RecordTombstone(p)
          /\ tree' = [tree EXCEPT ![Hub][p] = None]
          /\ removed' = [removed EXCEPT ![p] = tree[Hub][p]]
          /\ UNCHANGED <<base, tombs, pc, job>> /\ todo' = todo \ {p}
      BY <1>2, <1>10, <2>2 DEF DeleteRemote, Remove, ledgerVars
    <2>4. /\ stones' = [stones EXCEPT ![p] = [last |-> B(p)]]
          /\ files' = [files EXCEPT ![p] = None]
      BY <1>2, <2>3 DEF RecordTombstone
    <2>5. removed'[p] = B(p) /\ tree'[Here][p] = None /\ tree'[Hub][p] = None
      BY <1>2, <1>3, <2>2, <2>3 DEF TypeOK, Tree
    <2>6. /\ stones'[p] = [last |-> B(p)] /\ stones'[p] # None /\ files'[p] = None
      <3>1. stones'[p] = [last |-> B(p)] /\ files'[p] = None
        BY <1>3, <2>4 DEF TypeOK, Files, Tombs
      <3>2. stones'[p] \in Tombstone
        BY <1>2, <1>4, <3>1 DEF Tombstone
      <3> QED
        BY <3>1, <3>2, NoneAssumption
    <2>7. LaidToRest(files, stones, p)'
      BY <1>3, <2>2, <2>5, <2>6 DEF LaidToRest
    <2>8. \A q \in Path \ {p} : /\ \A r \in Replica : tree'[r][q] = tree[r][q]
                                /\ files'[q] = files[q] /\ stones'[q] = stones[q]
                                /\ removed'[q] = removed[q]
      BY <1>3, <2>3, <2>4 DEF TypeOK, Tree, Files, Tombs
    <2>9. \A q \in Path : tree'[Hub][q] = tree[Hub][q] \/ tree'[Hub][q] = None
      BY <1>3, <2>3 DEF TypeOK, Tree
    <2> QED
      BY <1>1, <2>3, <2>7, <2>8, <2>9, RestFrame
  <1>11. CASE CopyToLocal(p) \/ CopyToRemote(p)
    <2>1. PICK from \in {Here, Hub}, to \in {Here, Hub} :
             /\ from # to /\ tree[from][p] # None
             /\ to = Here => CopyToLocal(p)
             /\ to = Hub => CopyToRemote(p)
             /\ tree' = [tree EXCEPT ![to][p] = tree[from][p]]
             /\ Record(p, tree[from][p])
             /\ UNCHANGED <<base, tombs, pc, job, removed>> /\ todo' = todo \ {p}
      BY <1>3, <1>11 DEF CopyToLocal, CopyToRemote, Copy, Here, ledgerVars, historyVars
    <2>2. /\ tree'[Hub][p] # None
          /\ \A q \in Path \ {p} : \A r \in Replica : tree'[r][q] = tree[r][q]
      BY <1>3, <2>1 DEF TypeOK, Tree
    <2>3. /\ stones'[p] = None
          /\ \A q \in Path \ {p} : files'[q] = files[q] /\ stones'[q] = stones[q]
      BY <1>3, <2>1 DEF Record, TypeOK, Files, Tombs
    <2>4. LaidToRest(files, stones, p)'
      BY <2>2, <2>3 DEF LaidToRest
    <2>5. ASSUME tree[Hub][p] = None, removed[p] # None, tree'[Hub][p] = removed[p]
          PROVE  FALSE
      <3>1. to = Hub /\ from = Here
        BY <1>3, <2>1, <2>5
      <3>2. A(p) = removed[p] /\ A(p) # None
        BY <1>2, <1>3, <2>1, <2>5, <3>1 DEF TypeOK, Tree
      <3>3. stones[p] # None /\ files[p] = None /\ stones[p].last = removed[p]
        BY <1>2, <1>3, <2>5, <3>2 DEF LaidToRest
      <3>4. StaleLocal(p)
        BY <1>2, <2>5, <3>2, <3>3 DEF StaleLocal, Buried
      <3> QED
        BY <2>1, <3>1, <3>4 DEF CopyToRemote, ShouldPush, Differ
    <2>6. \A q \in Path : (tree[Hub][q] = None /\ removed[q] # None) =>
                            tree'[Hub][q] # removed[q]
      BY <1>3, <2>2, <2>5
    <2> QED
      BY <1>1, <2>1, <2>2, <2>3, <2>4, <2>6, RestFrame
  <1> QED
    BY <1>5, <1>6, <1>7, <1>8, <1>9, <1>10, <1>11 DEF Decide

(* People write on the clients only, and what they write is new.           *)
LEMMA PeopleRest ==
  ASSUME Paired, GraveInv, People PROVE RestInv'
  <1>1. /\ ~Underway /\ ~Underway'
        /\ UNCHANGED <<base, tombs, pc, removed>>
    BY PeopleSeen, PairedQuiet
    DEF People, UserEdit, UserDelete, UserRestore, UserReset, RunUnchanged,
        ledgerVars, Underway, Running
  <1>2. tree'[Hub] = tree[Hub]
    <2>1. TypeOK /\ Hub \in Replica
      BY DEF GraveInv, ConvergenceInv, Replica
    <2>2. ~(\E p \in Path : UserRestore(p))
      BY DEF Paired, UserRestore
    <2> QED
      BY <2>1, <2>2, HubAssumption, AuthorAssumption
      DEF People, UserEdit, UserDelete, UserReset, Paired, TypeOK
  <1>3. \A r \in Replica, q \in Path :
          tree'[r][q] \in {tree[r][q], None} \/ ~(tree'[r][q] \subseteq made)
    BY PeopleMakeNew DEF Paired, GraveInv, ConvergenceInv
  <1>4. ASSUME NEW p \in Path, NEW c \in Client, removed[p] # None,
               tree[c][p] # removed[p]
        PROVE  tree'[c][p] # removed'[p]
    BY <1>1, <1>3, <1>4 DEF GraveInv, MadeInv, Replica
  <1>5. ASSUME NEW p \in Path PROVE LaidToRest(base, tombs, p)'
    <2>1. LaidToRest(base, tombs, p)
      BY <1>1 DEF GraveInv, RestInv
    <2> QED
      BY <1>1, <1>2, <1>4, <2>1 DEF LaidToRest
  <1> QED
    BY <1>1, <1>2, <1>5 DEF RestInv, GraveInv, Entry

LEMMA SaveRest ==
  ASSUME Paired, GraveInv, Save PROVE RestInv'
  <1>1. /\ pc = "reconcile" /\ todo = {} /\ ~job.dryRun
        /\ base' = files /\ tombs' = stones /\ pc' = "gc"
        /\ UNCHANGED <<tree, removed>>
    BY DEF Save, historyVars
  <1>2. \A p \in Path : LaidToRest(files, stones, p)
    BY <1>1 DEF GraveInv, RestInv, Underway
  <1>3. \A p \in Path : tree[Hub][p] = L(p)
    BY <1>1 DEF GraveInv, ConvergenceInv, ReconcileInv, SeenInv, HalfWritten,
                Converged, Phase
  <1> QED
    BY <1>1, <1>2, <1>3 DEF RestInv, Underway, LaidToRest, Entry, L

LEMMA BeginRest ==
  ASSUME Paired, GraveInv, NEW c \in Client, Begin(c) PROVE RestInv'
  <1>1. /\ ~Underway /\ pc' = "reconcile" /\ files' = base /\ stones' = tombs
        /\ UNCHANGED <<tree, removed>> /\ todo' \subseteq Path
    BY DEF Begin, Underway, UnionPaths
  <1>2. ~job'.dryRun
    <2>1. PICK dry, allow, a, b :
            /\ dry \in Choice("dryrun")
            /\ job' = [client |-> c, dryRun |-> dry, allowed |-> allow,
                       local |-> a, hub |-> b]
      BY DEF Begin
    <2> QED
      BY <2>1 DEF Choice, Paired
  <1>3. \A p \in Path : B(p)' = tree[Hub][p]
    BY BeginSeen, PairedQuiet
  <1>4. \A p \in Path : LaidToRest(base, tombs, p) /\ tree[Hub][p] = Entry(p)
    BY <1>1 DEF GraveInv, RestInv
  <1>5. \A p \in todo' : B(p)' = L(p)'
    BY <1>1, <1>3, <1>4 DEF L, Entry
  <1> QED
    BY <1>1, <1>2, <1>4, <1>5 DEF RestInv, Underway, LaidToRest

LEMMA StepGrave == Paired /\ GraveInv /\ [Next]_vars => GraveInv'
  <1> SUFFICES ASSUME Paired, GraveInv, [Next]_vars PROVE GraveInv'
    OBVIOUS
  <1>1. ConvergenceInv' /\ SeenInv' /\ MadeInv'
    BY StepType, StepConverges, StepSeen, StepMade, PairedQuiet
    DEF GraveInv, ConvergenceInv
  <1>2. CASE Write
    BY <1>2 DEF Write, WriteBothLocal, WriteBothHub, AlignLocal, GraveInv, RestInv,
                Underway
  <1>3. CASE CollectBlobs
    <2>1. ~Underway /\ ~Underway' /\ UNCHANGED <<tree, base, tombs, removed>>
      BY <1>3 DEF CollectBlobs, Underway, EndRun, ledgerVars
    <2> QED
      BY <1>1, <2>1 DEF GraveInv, RestInv, LaidToRest, Entry
  <1>4. ~EndDryRun /\ ~Failure
    BY DEF EndDryRun, Failure, Stop, Tear, Paired, GraveInv, RestInv, Underway
  <1>5. CASE UNCHANGED vars
    BY <1>1, <1>5 DEF vars, GraveInv, RestInv, LaidToRest, Entry, Underway, A, B, L
  <1> QED
    BY <1>1, <1>2, <1>3, <1>4, <1>5, BeginRest, DecideRest, SaveRest, PeopleRest
    DEF Next, Run, Finish, GraveInv

LEMMA InitGrave == Init => GraveInv
  <1> SUFFICES ASSUME Init PROVE GraveInv
    OBVIOUS
  <1>1. ConvergenceInv /\ MadeInv
    BY InitType, InitConverges, InitMade DEF ConvergenceInv
  <1> QED
    BY <1>1
    DEF Init, GraveInv, SeenInv, DryInv, Running, RestInv, Underway, LaidToRest,
        Entry, NoTree, Replica

(* With two clients whose runs complete, a deletion stands: once a run has *)
(* removed a version from the hub, no run brings that version back from    *)
(* the client that still holds it.                                         *)
THEOREM DeletionsStand == Paired => (Spec => NoResurrection)
  <1> SUFFICES ASSUME Paired PROVE Spec => NoResurrection
    OBVIOUS
  <1>1. GraveInv /\ [Next]_vars => GraveInv'
    BY StepGrave
  <1>2. ASSUME GraveInv, [Next]_vars, Running, NEW p \in Path,
               tree[Hub][p] = None, removed[p] # None
        PROVE  tree'[Hub][p] # removed[p]
    <2>1. CASE Write
      BY <1>2, <2>1 DEF Write, WriteBothLocal, WriteBothHub, AlignLocal, GraveInv,
                  RestInv, Underway
    <2>2. CASE People
      BY <1>2, <2>2, PeopleSeen, PairedQuiet
    <2>3. CASE Failure
      BY <2>3 DEF Failure, Stop, Tear, Paired
    <2>4. CASE Finish \/ (\E c \in Client : Begin(c)) \/ UNCHANGED vars
      <3>1. UNCHANGED tree
        BY <2>4 DEF Finish, Save, CollectBlobs, EndDryRun, Begin, vars
      <3> QED
        BY <1>2, <3>1
    <2>5. CASE \E q \in Path : Decide(q)
      <3>1. PICK q \in Path : Decide(q)
        BY <2>5
      <3>2. \A x \in Path : (tree[Hub][x] = None /\ removed[x] # None) =>
                                tree'[Hub][x] # removed[x]
        BY <1>2, <3>1, DecideRest
      <3> QED
        BY <1>2, <3>2
    <2> QED
      BY <1>2, <2>1, <2>2, <2>3, <2>4, <2>5 DEF Next, Run
  <1>3. GraveInv /\ [Next]_vars =>
          [Running => \A p \in Path :
             (tree[Hub][p] = None /\ removed[p] # None) =>
               tree'[Hub][p] # removed[p]]_vars
    BY <1>2
  <1> QED
    BY <1>1, <1>3, InitGrave, PTL DEF Spec, NoResurrection
=============================================================================
