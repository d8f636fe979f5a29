------------------------------ MODULE Worktree ------------------------------
(***************************************************************************)
(* The `worktree` job of yggsync: the three-way reconciliation of a local  *)
(* tree with the hub, driven by the ledger kept on the hub                 *)
(* (internal/runner/worktree.go, internal/ledger).                         *)
(*                                                                         *)
(* One step of this module is one I/O operation of a run, one decision     *)
(* that does no I/O, or one act of a person on a tree.  A run is the life  *)
(* of one call of runWorktree; pc says how far it has come.                *)
(*                                                                         *)
(* Simplifications:                                                        *)
(*  - at most one run is active: the hub lock and the per-machine lock are *)
(*    meant to ensure it, and HubLock examines whether they do;            *)
(*  - a file's content is the set of the edits it incorporates, and its    *)
(*    hash is the content itself (SHA-256 does not collide here);          *)
(*  - ledger.Save is one step; LedgerStore examines its five file          *)
(*    operations;                                                          *)
(*  - paths are settled in any order, where the code sorts their names;    *)
(*  - modes, times, sizes, directories and the conflict report play no     *)
(*    part in any decision of this job and are left out.                   *)
(***************************************************************************)
EXTENDS Integers, FiniteSets

CONSTANTS
    Client,     \* the machines that run the job
    Hub,        \* the remote replica they share
    Path,       \* the file names that can exist
    Note,       \* those of them people write; the others are sidecar names
    Author,     \* the replicas on which people write
    Edit,       \* the changes people can make, each of them once
    None,       \* no file, no ledger entry, no tombstone, no run
    Sidecar,    \* Sidecar[p]: the names p.mergefail.<time> can take
    LocalFS,    \* the replicas that are a directory; the others are on SMB
    Rank,       \* Rank[p]: where p comes in the order Walk goes in
    Env,        \* what may happen around a run, see EnvKind
    MaxGen,     \* bound: the last generation the ledger reaches
    MassFloor   \* deletions a run may always make; 10 in massDelete

Replica == Client \cup {Hub}
Content == SUBSET Edit

(* What is left of a file whose writing was cut short: os.O_TRUNC has      *)
(* emptied it, and none of the new bytes arrived.                          *)
Torn == {}

Maybe(S) == {None} \cup S

Tree      == [Path -> Maybe(Content)]
FileEntry == [hash : Content, gen : Nat]
Tombstone == [last : Maybe(Content)]
Files     == [Path -> Maybe(FileEntry)]
Tombs     == [Path -> Maybe(Tombstone)]
Job       == [client : Client, dryRun : BOOLEAN, allowed : BOOLEAN,
              local : Tree, hub : Tree]

EnvKind ==
    { "stop",       \* a run ends early: I/O error, timeout, killed process
      "torn",       \* and it may do so in the middle of a WriteFile
      "unseen",     \* unreadable entries and dangling links in a directory
      "restore",    \* a file a run removed comes back to the hub
      "reset",      \* a client's tree is emptied, and its name kept
      "midrun",     \* people write, and files vanish, while a run is under way
      "dryrun",     \* runs may be given -dry-run
      "massdelete"  \* runs may be given -allow-mass-delete
    }

ASSUME HubAssumption       == Hub \notin Client
ASSUME PathAssumption      == /\ IsFiniteSet(Path)
                              /\ Note \subseteq Path
                              /\ Sidecar \in [Path -> SUBSET (Path \ Note)]
ASSUME AuthorAssumption    == Author \subseteq Replica
ASSUME WalkAssumption      == /\ LocalFS \subseteq Replica
                              /\ Rank \in [Path -> Nat]
ASSUME NoneAssumption      == /\ \A u \in Content : u # None
                              /\ None \notin Path
                              /\ None \notin FileEntry
                              /\ None \notin Tombstone
                              /\ None \notin Job
ASSUME EnvAssumption       == Env \subseteq EnvKind
ASSUME BoundAssumption     == MaxGen \in Nat /\ MassFloor \in Nat

-----------------------------------------------------------------------------
VARIABLES
    \* what survives a run: the replicas and the hub's .yggsync directory
    tree,       \* tree[r][p]: the content of p on replica r, or None
    gen,        \* Ledger.Generation
    base,       \* Ledger.Files: the version all are believed to share
    tombs,      \* Ledger.Tombstones
    cursor,     \* Ledger.Clients[c].LastGen
    blobs,      \* the hashes the blob store has a file for
    spoiled,    \* those of them whose file does not hold the content
    \* the memory of the active run (wtReconciler)
    pc,         \* how far the run is
    job,        \* its client, flags and the two snapshots
    files,      \* its copy of Ledger.Files
    stones,     \* its copy of Ledger.Tombstones
    todo,       \* the paths still to decide
    cur,        \* the path in hand while writeBoth is under way, or None
    target,     \* the path writeBoth writes: cur, or a sidecar of cur
    val,        \* and the content it writes there
    flagged,    \* conflicts: the paths reported to the person
    \* history, read by the properties only
    made,       \* the edits made so far
    dropped,    \* the edits a person deleted a file with
    removed,    \* removed[p]: the last content a run removed at path p
    wiped,      \* the paths the active run removed from the hub
    touched     \* the paths that changed, or were not seen, under the run

ledgerVars  == <<gen, base, tombs, cursor>>
blobVars    == <<blobs, spoiled>>
memoryVars  == <<job, files, stones>>
writeVars   == <<cur, target, val>>
peopleVars  == <<made, dropped>>
historyVars == <<made, dropped, removed, wiped, touched>>
vars == <<tree, gen, base, tombs, cursor, blobs, spoiled,
          pc, job, files, stones, todo, cur, target, val, flagged,
          made, dropped, removed, wiped, touched>>

Phase     == {"idle", "reconcile", "writeLocal", "writeHub", "align", "gc"}

NoTree  == [p \in Path |-> None]
Running == pc # "idle"

TypeOK ==
    /\ tree   \in [Replica -> Tree]
    /\ gen    \in Nat
    /\ base   \in Files
    /\ tombs  \in Tombs
    /\ cursor \in [Client -> Nat]
    /\ blobs  \subseteq Content
    /\ spoiled \subseteq blobs
    /\ pc     \in Phase
    /\ job    \in Maybe(Job)
    /\ (job = None) <=> (pc = "idle")
    /\ files  \in Files
    /\ stones \in Tombs
    /\ todo   \subseteq Path
    /\ cur    \in Maybe(Path)
    /\ target \in Maybe(Path)
    /\ val    \in Maybe(Content)
    /\ pc \in {"writeLocal", "writeHub"} => target \in Path /\ val \in Content
    /\ (cur = None) <=> pc \in {"idle", "reconcile", "gc"}
    /\ flagged \subseteq Path
    /\ made    \subseteq Edit
    /\ dropped \subseteq Edit
    /\ removed \in Tree
    /\ wiped   \subseteq Path
    /\ touched \subseteq Path

Init ==
    /\ tree   = [r \in Replica |-> NoTree]
    /\ gen    = 0
    /\ base   = NoTree
    /\ tombs  = NoTree
    /\ cursor = [c \in Client |-> 0]
    /\ blobs  = {}
    /\ spoiled = {}
    /\ pc     = "idle"
    /\ job    = None
    /\ files  = NoTree
    /\ stones = NoTree
    /\ todo   = {}
    /\ cur    = None
    /\ target = None
    /\ val    = None
    /\ flagged = {}
    /\ made    = {}
    /\ dropped = {}
    /\ removed = NoTree
    /\ wiped   = {}
    /\ touched = {}

-----------------------------------------------------------------------------
(* The decision for one path, from the three hashes of worktree.decide.    *)

A(p) == job.local[p]
B(p) == job.hub[p]
L(p) == IF files[p] = None THEN None ELSE files[p].hash

(* The tombstone guard: a recorded deletion, one side gone, the other side *)
(* still at the version that was deleted.                                  *)
Buried(p)     == stones[p] # None /\ files[p] = None
(* Mutant: any local file is stale where a deletion is recorded.           *)
StaleWhateverItHolds(p) == Buried(p) /\ A(p) # None /\ B(p) = None

StaleLocal(p) == /\ Buried(p)
                 /\ A(p) # None /\ A(p) = stones[p].last
                 /\ B(p) = None
StaleHub(p)   == /\ Buried(p)
                 /\ B(p) # None /\ B(p) = stones[p].last
                 /\ A(p) = None

(* The sides differ, and the tombstone guard does not settle the matter.   *)
Differ(p) == A(p) # B(p) /\ ~StaleLocal(p) /\ ~StaleHub(p)

LocalChanged(p) == A(p) # L(p)
HubChanged(p)   == B(p) # L(p)
BothChanged(p)  == LocalChanged(p) /\ HubChanged(p)

(* Mutant: absence is always read as a deletion.                           *)
AlwaysReceived(p) == FALSE

(* The client's last completed run is older than the entry: its tree lacks *)
(* the file because it never got it, not because somebody deleted it.      *)
NeverReceived(p) == files[p] # None /\ files[p].gen > cursor[job.client]

ShouldDeleteLocal(p) ==
    \/ StaleLocal(p)
    \/ Differ(p) /\ ~LocalChanged(p) /\ B(p) = None

(* Mutant: the hub's own change is not looked at before its deletion.      *)
DeleteWhenAbsent(p) ==
    \/ StaleHub(p)
    \/ /\ Differ(p) /\ LocalChanged(p)
       /\ A(p) = None /\ ~NeverReceived(p)

ShouldDeleteRemote(p) ==
    \/ StaleHub(p)
    \/ /\ Differ(p) /\ LocalChanged(p) /\ ~HubChanged(p)
       /\ A(p) = None /\ ~NeverReceived(p)

ShouldPull(p) ==
    /\ Differ(p) /\ B(p) # None
    /\ \/ ~LocalChanged(p)
       \/ A(p) = None /\ (HubChanged(p) \/ NeverReceived(p))

(* Mutant: the hub's own change is not looked at before its overwriting.   *)
PushWhenChanged(p) == Differ(p) /\ LocalChanged(p) /\ A(p) # None

ShouldPush(p) ==
    /\ Differ(p) /\ LocalChanged(p) /\ A(p) # None
    /\ ~HubChanged(p) \/ B(p) = None

(* Mutant: a change on one side is taken for a divergence.                 *)
DivergedWhenLocalChanged(p) ==
    Differ(p) /\ LocalChanged(p) /\ A(p) # None /\ B(p) # None

Diverged(p) ==
    /\ Differ(p) /\ BothChanged(p)
    /\ A(p) # None /\ B(p) # None

(* diff3: a chunk only one side changed takes that side's text.            *)
Merged(l, a, b) == (a \cap b) \cup (a \ l) \cup (b \ l)

(* Mutant: a deletion made by the latest generation is not counted.        *)
PlannedOlderDeletes(c, a, b) ==
    { p \in Path : /\ a[p] = None /\ base[p] # None
                   /\ b[p] = base[p].hash
                   /\ base[p].gen < cursor[c] }

(* plannedRemoteDeletes and massDelete.                                    *)
PlannedRemoteDeletes(c, a, b) ==
    { p \in Path :
        LET l == IF base[p] = None THEN None ELSE base[p].hash
        IN  /\ a[p] # b[p] /\ a[p] # l
            /\ b[p] = l /\ a[p] = None
            /\ ~(base[p] # None /\ base[p].gen > cursor[c]) }

MassDelete(deletes, tracked) ==
    deletes > MassFloor /\ tracked > 0 /\ deletes * 2 > tracked

Tracked == { p \in Path : base[p] # None }

-----------------------------------------------------------------------------
(* The start of a run: ledger.Load, the two scans, the mass-delete guard.  *)
(* A refused run returns an error and changes nothing, so it is no step.   *)

(* What the scan of a directory leaves out.  Walk skips an entry it cannot *)
(* read, and ends without an error at a file that is gone when it is to be *)
(* hashed: one that vanished after its directory was listed, or a dangling *)
(* link.  All that comes later is not seen.  On SMB such errors fail it.   *)
Present(r) == { p \in Path : tree[r][p] # None }
From(r, q) == { p \in Present(r) : Rank[p] >= Rank[q] }

Unseen(r) ==
    {{}} \cup
    { hidden \in SUBSET Present(r) :
        /\ r \in LocalFS
        /\ \/ "unseen" \in Env
           \/ "midrun" \in Env /\ \E q \in Path : hidden = From(r, q) }

Scan(r, hidden) == [p \in Path |-> IF p \in hidden THEN None ELSE tree[r][p]]
Choice(env)     == IF env \in Env THEN BOOLEAN ELSE {FALSE}

(* The paths that the ledger or a scan knows, each decided once.           *)
UnionPaths(a, b) ==
    { p \in Path : \/ base[p] # None \/ tombs[p] # None
                   \/ a[p] # None \/ b[p] # None }

Begin(c) ==
    /\ pc = "idle"
    /\ gen < MaxGen
    /\ \E dry \in Choice("dryrun"), allow \in Choice("massdelete"),
          hl \in Unseen(c), hh \in Unseen(Hub) :
         LET a == Scan(c, hl)
             b == Scan(Hub, hh)
         IN  /\ \/ allow
                \/ ~MassDelete(Cardinality(PlannedRemoteDeletes(c, a, b)),
                               Cardinality(Tracked))
             /\ job' = [client |-> c, dryRun |-> dry, allowed |-> allow,
                        local |-> a, hub |-> b]
             /\ todo' = UnionPaths(a, b)
             /\ touched' = hl \cup hh
    /\ files' = base
    /\ stones' = tombs
    /\ pc' = "reconcile"
    /\ UNCHANGED <<tree, ledgerVars, blobVars, writeVars, flagged, peopleVars,
                   removed, wiped>>

-----------------------------------------------------------------------------
(* The primitives of the reconciler: record, recordTombstone, flag.        *)
(* PutBlob leaves a blob that is there as it is, spoiled or not.           *)

Record(p, u) ==
    /\ blobs'  = IF job.dryRun THEN blobs ELSE blobs \cup {u}
    /\ spoiled' = spoiled
    /\ files'  = [files EXCEPT ![p] = [hash |-> u, gen |-> gen + 1]]
    /\ stones' = [stones EXCEPT ![p] = None]

(* Mutant: the version that is deleted is not recorded.                    *)
ForgetfulTombstone(p) ==
    /\ stones' = [stones EXCEPT ![p] = [last |-> None]]
    /\ files'  = [files EXCEPT ![p] = None]

RecordTombstone(p) ==
    /\ stones' = [stones EXCEPT ![p] = [last |-> L(p)]]
    /\ files'  = [files EXCEPT ![p] = None]

Deciding(p) == pc = "reconcile" /\ p \in todo

FlagIf(p, conflict) ==
    flagged' = IF conflict THEN flagged \cup {p} ELSE flagged

(* Mutant: a path the client left alone is in step, whatever the hub has.  *)
Untouched(p) == ~LocalChanged(p)

(* Both sides agree with each other, and with the ledger or on the file    *)
(* being gone.                                                             *)
InStep(p) == A(p) = B(p) /\ A(p) \in {None, L(p)}

(* Mutant: the entry of a file that is gone on both sides is kept.         *)
EntryKept(p) == files

EntryCleared(p) == IF A(p) = None THEN [files EXCEPT ![p] = None] ELSE files

(* decide and decideConverged, when no I/O follows.                        *)
Settle(p) ==
    /\ Deciding(p)
    /\ InStep(p)
    /\ files' = EntryCleared(p)
    /\ todo' = todo \ {p}
    /\ UNCHANGED <<tree, ledgerVars, blobVars, pc, job, stones, writeVars,
                   flagged, historyVars>>

(* decideConverged: the same new content on both sides is recorded.        *)
RecordSame(p) ==
    /\ Deciding(p)
    /\ A(p) = B(p) /\ A(p) # None /\ A(p) # L(p)
    /\ tree[Hub][p] # None
    /\ Record(p, tree[Hub][p])
    /\ todo' = todo \ {p}
    /\ UNCHANGED <<tree, ledgerVars, pc, job, writeVars, flagged, historyVars>>

(* deleteLocal and deleteRemote.  Neither looks at dryRun.                 *)
Remove(r, p) ==
    /\ tree' = [tree EXCEPT ![r][p] = None]
    /\ RecordTombstone(p)
    /\ removed' = [removed EXCEPT ![p] = IF tree[r][p] = None THEN @
                                                              ELSE tree[r][p]]
    /\ todo' = todo \ {p}
    /\ UNCHANGED <<ledgerVars, blobVars, pc, job, writeVars, flagged,
                   peopleVars, touched>>

DeleteLocal(p) ==
    /\ Deciding(p)
    /\ ShouldDeleteLocal(p)
    /\ Remove(job.client, p)
    /\ UNCHANGED wiped

DeleteRemote(p) ==
    /\ Deciding(p)
    /\ ShouldDeleteRemote(p)
    /\ Remove(Hub, p)
    /\ wiped' = wiped \cup {p}

(* copyToLocal and copyToRemote: the content is read now, not at the scan. *)
Copy(from, to, p) ==
    /\ tree[from][p] # None
    /\ tree' = [tree EXCEPT ![to][p] = tree[from][p]]
    /\ Record(p, tree[from][p])
    /\ UNCHANGED <<ledgerVars, job, historyVars>>

CopyToLocal(p) ==
    /\ Deciding(p)
    /\ ShouldPull(p)
    /\ ~job.dryRun
    /\ Copy(Hub, job.client, p)
    /\ FlagIf(p, BothChanged(p))
    /\ todo' = todo \ {p}
    /\ UNCHANGED <<pc, writeVars>>

CopyToRemote(p) ==
    /\ Deciding(p)
    /\ ShouldPush(p)
    /\ ~job.dryRun
    /\ Copy(job.client, Hub, p)
    /\ FlagIf(p, BothChanged(p))
    /\ todo' = todo \ {p}
    /\ UNCHANGED <<pc, writeVars>>

(* GetBlob does not compare what it reads with the hash.                   *)
BaseText(l) == IF l \in spoiled THEN Torn ELSE l

(* resolveDivergence, the clean merge.  Whether diff3 is clean depends on  *)
(* the texts (and on no_merge); it needs the base the ledger names.        *)
MergePath(p) ==
    /\ Deciding(p)
    /\ Diverged(p)
    /\ ~job.dryRun
    /\ L(p) # None /\ L(p) \in blobs
    /\ tree[job.client][p] # None /\ tree[Hub][p] # None
    /\ cur' = p
    /\ target' = p
    /\ val' = Merged(BaseText(L(p)), tree[job.client][p], tree[Hub][p])
    /\ pc' = "writeLocal"
    /\ UNCHANGED <<tree, ledgerVars, blobVars, memoryVars, todo, flagged,
                   historyVars>>

(* Mutant: the sidecar gets the hub's version, which stays live anyway.    *)
HubVersion(p) == tree[Hub][p]

LocalVersion(p) == tree[job.client][p]

(* resolveDivergence, no clean merge: the local version is to be kept in a *)
(* sidecar.  The time in its name makes the name a new one.                *)
NewName(s) ==
    /\ \A r \in Replica : tree[r][s] = None
    /\ A(s) = None /\ B(s) = None
    /\ base[s] = None /\ tombs[s] = None
    /\ files[s] = None /\ stones[s] = None

Quarantine(p) ==
    /\ Deciding(p)
    /\ Diverged(p)
    /\ ~job.dryRun
    /\ tree[job.client][p] # None /\ tree[Hub][p] # None
    /\ \E s \in Sidecar[p] : NewName(s)
    /\ cur' = p
    /\ target' = CHOOSE s \in Sidecar[p] : NewName(s)
    /\ val' = LocalVersion(p)
    /\ pc' = "writeLocal"
    /\ flagged' = flagged \cup {p}
    /\ UNCHANGED <<tree, ledgerVars, blobVars, memoryVars, todo, historyVars>>

(* writeBoth: the local file, then the hub's, then the record.             *)
WriteBothLocal ==
    /\ pc = "writeLocal"
    /\ tree' = [tree EXCEPT ![job.client][target] = val]
    /\ pc' = "writeHub"
    /\ UNCHANGED <<ledgerVars, blobVars, memoryVars, todo, writeVars, flagged,
                   historyVars>>

(* Mutant: a quarantined path is not aligned with the hub.                 *)
NeverSidecar == FALSE

WritesSidecar == target # cur

WriteBothHub ==
    /\ pc = "writeHub"
    /\ tree' = [tree EXCEPT ![Hub][target] = val]
    /\ Record(target, val)
    /\ IF WritesSidecar
       THEN /\ pc' = "align"
            /\ UNCHANGED <<todo, cur>>
       ELSE /\ pc' = "reconcile"
            /\ todo' = todo \ {cur}
            /\ cur' = None
    /\ target' = None
    /\ val' = None
    /\ UNCHANGED <<ledgerVars, job, flagged, historyVars>>

(* The end of a quarantine: copyToLocal aligns the path with the hub.      *)
AlignLocal ==
    /\ pc = "align"
    /\ Copy(Hub, job.client, cur)
    /\ pc' = "reconcile"
    /\ todo' = todo \ {cur}
    /\ cur' = None
    /\ UNCHANGED <<target, val, flagged>>

(* -dry-run: a copy, a write or a merge is only logged.                    *)
DryPath(p) ==
    /\ Deciding(p)
    /\ job.dryRun
    /\ ShouldPull(p) \/ ShouldPush(p) \/ Diverged(p)
    /\ \/ FlagIf(p, BothChanged(p))
       \/ /\ Diverged(p) /\ L(p) # None /\ L(p) \in blobs
          /\ UNCHANGED flagged
    /\ todo' = todo \ {p}
    /\ UNCHANGED <<tree, ledgerVars, blobVars, pc, memoryVars, writeVars,
                   historyVars>>

-----------------------------------------------------------------------------
(* The end of a run.                                                       *)

ForgetRun ==
    /\ files' = NoTree
    /\ stones' = NoTree
    /\ todo' = {}
    /\ cur' = None
    /\ target' = None
    /\ val' = None
    /\ flagged' = {}
    /\ wiped' = {}
    /\ touched' = {}

(* Mutant: the run's snapshots outlive it.                                 *)
EndRunKeepingJob == pc' = "idle" /\ ForgetRun /\ UNCHANGED job

EndRun == pc' = "idle" /\ ForgetRun /\ job' = None

Save ==
    /\ pc = "reconcile" /\ todo = {}
    /\ ~job.dryRun
    /\ gen' = gen + 1
    /\ base' = files
    /\ tombs' = stones
    /\ cursor' = [cursor EXCEPT ![job.client] = gen + 1]
    /\ pc' = "gc"
    /\ UNCHANGED <<tree, blobVars, memoryVars, todo, writeVars, flagged,
                   historyVars>>

(* GCBlobs.  It stops at its first error, and the run goes on to its end:  *)
(* any part of the unreferenced blobs may be gone.                         *)
Referenced == { base[p].hash : p \in Tracked }

(* Mutant: only the blobs recorded by this run count as referenced.        *)
CollectOldBlobs ==
    /\ pc = "gc"
    /\ blobs' = blobs \cap { base[p].hash : p \in {q \in Tracked :
                                                    base[q].gen = gen} }
    /\ spoiled' = spoiled \cap blobs'
    /\ EndRun
    /\ UNCHANGED <<tree, ledgerVars, peopleVars, removed>>

CollectBlobs ==
    /\ pc = "gc"
    /\ \E gone \in SUBSET (blobs \ Referenced) :
         /\ blobs' = blobs \ gone
         /\ spoiled' = spoiled \ gone
    /\ EndRun
    /\ UNCHANGED <<tree, ledgerVars, peopleVars, removed>>

EndDryRun ==
    /\ pc = "reconcile" /\ todo = {}
    /\ job.dryRun
    /\ EndRun
    /\ UNCHANGED <<tree, ledgerVars, blobVars, peopleVars, removed>>

(* A run that does not reach Save: an error return of any I/O operation,   *)
(* an expired context, a killed process.  Only its memory is lost.         *)
Stop ==
    /\ Env \cap {"stop", "midrun"} # {}
    /\ pc \in Phase \ {"idle", "gc"}
    /\ EndRun
    /\ UNCHANGED <<tree, ledgerVars, blobVars, peopleVars, removed>>

(* The same in the middle of a WriteFile.                                  *)
InFlight ==
    CASE pc = "writeLocal" -> {<<job.client, target>>}
      [] pc = "writeHub"   -> {<<Hub, target>>}
      [] pc = "align"      -> {<<job.client, cur>>}
      [] pc = "reconcile" ->
              ({job.client} \X {p \in todo : ShouldPull(p)})
                \cup ({Hub} \X {p \in todo : ShouldPush(p)})
      [] OTHER -> {}

TearFile ==
    /\ \E f \in InFlight : tree' = [tree EXCEPT ![f[1]][f[2]] = Torn]
    /\ UNCHANGED spoiled

(* Nor is a blob synced: one that the ledger does not name yet may turn    *)
(* out to be truncated.                                                    *)
TearBlob ==
    /\ \E p \in Path :
         /\ files[p] # None /\ files[p].gen = gen + 1
         /\ files[p].hash \in blobs \ Referenced
         /\ spoiled' = spoiled \cup {files[p].hash}
    /\ UNCHANGED tree

Tear ==
    /\ "torn" \in Env
    /\ pc \in Phase \ {"idle", "gc"} /\ ~job.dryRun
    /\ TearFile \/ TearBlob
    /\ EndRun
    /\ UNCHANGED <<ledgerVars, blobs, peopleVars, removed>>

-----------------------------------------------------------------------------
(* People.  They write between runs, and during one if Env says so.  They  *)
(* stop before the bound stops the runs, so a run can follow every change. *)

PeopleMayAct   == gen < MaxGen /\ (Running => "midrun" \in Env)
TouchIfRunning(p) == touched' = IF Running THEN touched \cup {p} ELSE touched
RunUnchanged   == UNCHANGED <<ledgerVars, blobVars, pc, memoryVars, todo,
                              writeVars, flagged, removed, wiped>>

(* Creates p, or adds an edit to what p holds.                             *)
UserEdit(r, p, e) ==
    /\ PeopleMayAct
    /\ p \in Note /\ e \notin made
    /\ tree' = [tree EXCEPT ![r][p] =
                  (IF tree[r][p] = None THEN {} ELSE tree[r][p]) \cup {e}]
    /\ made' = made \cup {e}
    /\ TouchIfRunning(p)
    /\ RunUnchanged
    /\ UNCHANGED dropped

(* Deletes p, a sidecar among them: what p held is given up on purpose.    *)
UserDelete(r, p) ==
    /\ PeopleMayAct
    /\ tree[r][p] # None
    /\ tree' = [tree EXCEPT ![r][p] = None]
    /\ dropped' = dropped \cup tree[r][p]
    /\ TouchIfRunning(p)
    /\ RunUnchanged
    /\ UNCHANGED made

(* Puts back on the hub what a run had removed (a backup, a bin).          *)
UserRestore(p) ==
    /\ PeopleMayAct
    /\ "restore" \in Env
    /\ tree[Hub][p] = None /\ removed[p] # None
    /\ tree' = [tree EXCEPT ![Hub][p] = removed[p]]
    /\ TouchIfRunning(p)
    /\ RunUnchanged
    /\ UNCHANGED peopleVars

(* Empties a client's tree (a new phone, a reinstalled app): nothing in it *)
(* is given up.  The client keeps its client_id, and so its cursor.        *)
UserReset(c) ==
    /\ PeopleMayAct /\ ~Running
    /\ "reset" \in Env
    /\ tree' = [tree EXCEPT ![c] = NoTree]
    /\ RunUnchanged
    /\ UNCHANGED <<peopleVars, touched>>

-----------------------------------------------------------------------------
Decide(p) ==
    \/ Settle(p) \/ RecordSame(p)
    \/ DeleteLocal(p) \/ DeleteRemote(p)
    \/ CopyToLocal(p) \/ CopyToRemote(p)
    \/ MergePath(p) \/ Quarantine(p)
    \/ DryPath(p)

Write == WriteBothLocal \/ WriteBothHub \/ AlignLocal

Finish == Save \/ CollectBlobs \/ EndDryRun

Run == (\E c \in Client : Begin(c)) \/ (\E p \in Path : Decide(p))
         \/ Write \/ Finish

Failure == Stop \/ Tear

People ==
    \/ \E r \in Author, p \in Path, e \in Edit : UserEdit(r, p, e)
    \/ \E r \in Author, p \in Path : UserDelete(r, p)
    \/ \E p \in Path : UserRestore(p)
    \/ \E c \in Client : UserReset(c)

Next == Run \/ Failure \/ People

Spec == Init /\ [][Next]_vars

(* A timer starts the job again and again, and every I/O operation ends,   *)
(* if only by the job's deadline.  Nothing obliges people to write.        *)
FairSpec == Spec /\ WF_vars(Run)

-----------------------------------------------------------------------------
(* Safety.                                                                 *)

(* The edits some file of some replica incorporates.                       *)
Kept == { e \in Edit : \E r \in Replica, p \in Path :
                          tree[r][p] # None /\ e \in tree[r][p] }

(* No edit is ever lost: whatever a person wrote, and did not delete, is   *)
(* in some file of some replica, at every moment of a run.                 *)
NoLostEdit == made \ dropped \subseteq Kept

(* A run removes a file only if people gave up all of its edits.           *)
NoUnwantedDelete ==
    [][Running => \A r \in Replica, p \in Path :
         (tree[r][p] # None /\ tree'[r][p] = None) =>
           tree[r][p] \subseteq dropped']_vars

(* No silent overwrite: what replaces a version on the hub incorporates    *)
(* every edit of it that nobody gave up.                                   *)
NoSilentOverwrite ==
    [][\A p \in Path :
         (tree[Hub][p] # None /\ tree'[Hub][p] # None) =>
           tree[Hub][p] \ dropped' \subseteq tree'[Hub][p]]_vars

(* A deletion stands: once a run has removed a version, no run brings that *)
(* version back to the hub from a client that still holds it.              *)
NoResurrection ==
    [][Running => \A p \in Path :
         (tree[Hub][p] = None /\ removed[p] # None) =>
           tree'[Hub][p] # removed[p]]_vars

(* Every version the ledger names as a merge base is in the blob store.    *)
BlobsCoverLedger == Referenced \subseteq blobs

(* And it holds the content it is named for.                               *)
BlobsIntact == Referenced \cap spoiled = {}

(* When a run has saved the ledger, each path it saw and nobody touched    *)
(* since is the same on both sides, and that is what the ledger says.      *)
SavedMeansConverged ==
    pc = "gc" =>
      \A p \in Path \ touched :
        /\ tree[job.client][p] = tree[Hub][p]
        /\ tree[Hub][p] = IF base[p] = None THEN None ELSE base[p].hash

(* Why that is so, at every step of a run that writes.  A path still to be *)
(* decided is as it was scanned; every other one is the same on both sides *)
(* and in the run's table.                                                 *)
AsScanned(p)  == /\ tree[job.client][p] = A(p)
                 /\ tree[Hub][p] = B(p)
Converged(p)  == /\ tree[job.client][p] = tree[Hub][p]
                 /\ tree[Hub][p] = L(p)
Worthwhile(p) == \/ base[p] # None \/ tombs[p] # None
                 \/ A(p) # None \/ B(p) # None
HalfWritten   == IF pc = "writeHub" THEN {target} ELSE {}

(* At every step of a run that writes, each path is as it was scanned or   *)
(* has converged.  What writeBoth has begun is exempt until it is done,    *)
(* and so are the paths that somebody touched, as in SavedMeansConverged.  *)
ReconcileInv ==
    (pc \in Phase \ {"idle", "gc"} /\ ~job.dryRun) =>
      /\ \A p \in todo : Worthwhile(p)
      /\ \A p \in todo \ (touched \cup {cur}) : AsScanned(p)
      /\ \A p \in Path \ (touched \cup todo \cup HalfWritten) : Converged(p)
      /\ cur # None => cur \in todo
      /\ (pc \in {"writeLocal", "writeHub"} /\ target # cur) =>
           target \notin todo
      /\ pc = "writeHub" =>
           target \in touched \/ tree[job.client][target] = val

(* No unconfirmed run removes a large share of the hub's tracked files,    *)
(* whichever branch of decide each removal comes from.                     *)
MassDeleteGuard ==
    (pc \notin {"idle", "gc"} /\ ~job.allowed) =>
      ~MassDelete(Cardinality(wiped), Cardinality(Tracked))

(* A reported conflict is a genuine one: neither side holds all that the   *)
(* other one holds, or one side is a deletion.                             *)
GenuineConflicts ==
    \A p \in flagged :
      \/ A(p) = None \/ B(p) = None
      \/ ~(A(p) \subseteq B(p)) /\ ~(B(p) \subseteq A(p))

(* A dry run leaves the replicas as they are.                              *)
DryRunIsReadOnly ==
    [][(Running /\ job.dryRun /\ Running') => UNCHANGED tree]_vars

-----------------------------------------------------------------------------
(* Liveness.                                                               *)

(* With one client, once people leave the files alone, runs bring the two  *)
(* replicas together for good.                                             *)
EventuallyInSync == \A c \in Client : <>[](tree[c] = tree[Hub])
=============================================================================
