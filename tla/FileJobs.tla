------------------------------ MODULE FileJobs ------------------------------
(***************************************************************************)
(* The one-way file jobs of yggsync: `copy`, `sync` and `retained_copy`    *)
(* (runCopy and runRetainedCopy in internal/runner/runner.go).             *)
(*                                                                         *)
(* A run scans the local tree and the remote one, copies what differs by   *)
(* size or time, and then, by its kind, deletes on the remote what the     *)
(* local scan lacks, or deletes locally what is old and on the remote.     *)
(* One step is a scan, one file operation, or an act of a person.          *)
(*                                                                         *)
(* Simplifications:                                                        *)
(*  - a file is its body and its time; Size tells the size of a body;      *)
(*  - the two scans are one step: what changes between them counts as a    *)
(*    change right after them;                                             *)
(*  - directories, modes and dry runs, which only log, are left out;       *)
(*  - the paths are worked through in any order, where the code sorts      *)
(*    them;                                                                *)
(*  - the source tree is missing, or comes back, only between runs.        *)
(***************************************************************************)
EXTENDS Filter, Integers, FiniteSets

CONSTANTS
    Path,       \* the paths that can exist on either side
    Body,       \* what people put into files
    Size,       \* Size[b]: how long body b is
    Torn,       \* what a WriteFile that is cut short leaves, shorter than any body
    None,       \* no file
    Jobs,       \* the jobs a configuration can have, see Job
    Window,     \* times this far apart count as equal; 2 seconds in sameTime
    Stamp,      \* Stamp[t]: the time a remote file given time t has then
    Env,        \* what may happen around a run, see EnvKind
    MaxTime,    \* bound: the clock
    MaxWrites   \* bound: how often people write

Whole   == Body \cup {Torn}
Time    == 0 .. MaxTime
File    == [body : Whole, time : Time]
Maybe(S) == S \cup {None}
Tree    == [Path -> Maybe(File)]

IsSequence(s) == s \in Seq({ s[n] : n \in DOMAIN s })

(* source tells whether the local side is a directory or, named by a       *)
(* target, a share; filter is of the kind Filter's Covers reads; retention *)
(* 0 stands for no local_retention_days; keep is the set of the            *)
(* keep_latest rules.                                                      *)
IsJob(j) ==
    /\ j.kind \in {"copy", "sync", "retained_copy"}
    /\ j.source \in {"directory", "smb"}
    /\ IsSequence(j.filter.rules)
    /\ j.retention \in Nat
    /\ IsFiniteSet(j.keep)
    /\ \A rule \in j.keep : rule.keep \in Nat

EnvKind ==
    { "stop",       \* I/O errors, timeouts, killed processes: runs end early
      "cut",        \* and it may do so in the middle of a WriteFile
      "midrun",     \* people write while a run is under way
      "gone",       \* the local tree may be missing
      "unseen",     \* Walk skips an entry of a directory it cannot read
      "hasty"       \* people write again within the window, at the same size
    }

ASSUME NoneAssumption == /\ None \notin File
                         /\ None \notin Whole
ASSUME BodyAssumption == /\ Torn \notin Body
                         /\ Size \in [Whole -> Nat]
                         /\ \A b \in Body : Size[b] > Size[Torn]
ASSUME PathAssumption == /\ IsFiniteSet(Path)
                         /\ \A p \in Path : IsSequence(p) /\ p # << >>
ASSUME JobAssumption  == \A j \in Jobs : IsJob(j)
(* File systems that keep times coarsely round them down, by 2 s at most.  *)
ASSUME TimeAssumption == /\ Window \in Nat
                         /\ Stamp \in [Time -> Time]
                         /\ \A t \in Time : Stamp[t] <= t /\ t - Stamp[t] <= Window
ASSUME EnvAssumption   == Env \subseteq EnvKind
ASSUME BoundAssumption == MaxTime \in Nat /\ MaxWrites \in Nat

-----------------------------------------------------------------------------
VARIABLES
    job,        \* the job, the same at all times
    local,      \* its two sides
    remote,
    root,       \* whether the local tree is there
    now,        \* the clock
    writes,     \* how often people have written
    \* the memory of the active run
    pc,         \* how far it is
    lsnap,      \* the two snapshots
    rsnap,
    todo,       \* the paths still to work through in this phase
    \* history, read by the properties only
    touched,    \* the paths that changed, or were not seen, under the run
    edited,     \* those of them that changed on the local side
    settled     \* settled[p]: the body a completed run left on the remote

runVars     == <<pc, lsnap, rsnap, todo>>
peopleVars  == <<now, writes>>
historyVars == <<touched, edited, settled>>
vars == <<job, local, remote, root, now, writes, pc, lsnap, rsnap, todo,
          touched, edited, settled>>

NoFiles == [p \in Path |-> None]
Running == pc # "idle"

TypeOK ==
    /\ job \in Jobs
    /\ local \in Tree /\ remote \in Tree
    /\ root \in {"there", "gone"}
    /\ now \in Time /\ writes \in Nat
    /\ pc \in {"idle", "copy", "mirror", "prune", "finish"}
    /\ lsnap \in Tree /\ rsnap \in Tree
    /\ todo \subseteq Path
    /\ touched \subseteq Path
    /\ edited \subseteq touched
    /\ settled \in [Path -> Maybe(Body)]
    /\ pc \in {"idle", "finish"} => todo = {}
    /\ pc = "idle" => lsnap = NoFiles /\ touched = {}
    /\ pc = "mirror" => job.kind = "sync"
    /\ pc = "prune" => job.kind = "retained_copy"

Init ==
    /\ job \in Jobs
    /\ local = NoFiles /\ remote = NoFiles
    /\ root = "there"
    /\ now = 0 /\ writes = 0
    /\ pc = "idle"
    /\ lsnap = NoFiles /\ rsnap = NoFiles
    /\ todo = {}
    /\ touched = {} /\ edited = {}
    /\ settled = NoFiles

-----------------------------------------------------------------------------
(* When two files count as the same.  No hash is taken in these jobs.      *)

Apart(s, t) == IF s >= t THEN s - t ELSE t - s

(* Mutant: the times must be equal.                                        *)
SameTimeExactly(s, t) == s = t

SameTime(s, t) == Apart(s, t) <= Window

(* Mutant: the size is enough.                                             *)
SameSize(f, g) == Size[f.body] = Size[g.body]

SameFile(f, g) == Size[f.body] = Size[g.body] /\ SameTime(f.time, g.time)

-----------------------------------------------------------------------------
(* The scans: scanFS and scanDest.                                         *)

Covered == { p \in Path : Covers(job.filter, p) }

Scan(tree, hidden) ==
    [p \in Path |-> IF p \in Covered \ hidden THEN tree[p] ELSE None]

(* What the scan of the source leaves out.                                 *)
Source == { p \in Covered : local[p] # None }
Unseen ==
    { hidden \in SUBSET Source :
        \/ root = "gone" /\ hidden = Source
        \/ root = "there" /\ hidden = {}
        \/ root = "there" /\ "unseen" \in Env /\ job.source = "directory" }

(* Mutant: the remote is scanned whole.                                    *)
ScanEverything(tree) == tree

ScanDest(tree) == Scan(tree, {})

(* Mutant: a missing source is empty, as a missing destination is.         *)
SourceScanAsDest(hidden) == lsnap' = Scan(local, hidden)

(* A missing directory fails the run, which then changes nothing; a share  *)
(* without the path is listed as empty.                                    *)
SourceScan(hidden) ==
    /\ root = "there" \/ job.source = "smb"
    /\ lsnap' = Scan(local, hidden)

Listed(snap) == { p \in Path : snap[p] # None }

Begin ==
    /\ pc = "idle"
    /\ \E hidden \in Unseen :
         /\ SourceScan(hidden)
         /\ touched' = hidden
    /\ rsnap' = ScanDest(remote)
    /\ todo' = Listed(lsnap')
    /\ pc' = "copy"
    /\ UNCHANGED <<job, local, remote, root, peopleVars, edited, settled>>

-----------------------------------------------------------------------------
(* copyMissingOrChanged.                                                   *)

UpToDate(p) == rsnap[p] # None /\ SameFile(lsnap[p], rsnap[p])

SkipCopy(p) ==
    /\ pc = "copy" /\ p \in todo
    /\ UpToDate(p)
    /\ todo' = todo \ {p}
    /\ UNCHANGED <<job, local, remote, root, peopleVars, pc, lsnap, rsnap,
                   historyVars>>

(* The content is read now; the time is the one of the snapshot.           *)
CopyFile(p) ==
    /\ pc = "copy" /\ p \in todo
    /\ ~UpToDate(p)
    /\ local[p] # None
    /\ remote' = [remote EXCEPT ![p] = [body |-> local[p].body,
                                        time |-> Stamp[lsnap[p].time]]]
    /\ todo' = todo \ {p}
    /\ UNCHANGED <<job, local, root, peopleVars, pc, lsnap, rsnap, historyVars>>

(* Mutant: the snapshots and the history of the run are kept.              *)
EndRunOnly ==
    pc' = "idle" /\ todo' = {} /\ UNCHANGED <<lsnap, rsnap, touched, edited>>

EndRun ==
    /\ pc' = "idle"
    /\ lsnap' = NoFiles /\ rsnap' = NoFiles
    /\ todo' = {}
    /\ touched' = {} /\ edited' = {}

(* A file that was scanned is not there any more: the run returns an error.*)
CopyFails(p) ==
    /\ pc = "copy" /\ p \in todo
    /\ ~UpToDate(p)
    /\ local[p] = None
    /\ EndRun
    /\ UNCHANGED <<job, local, remote, root, peopleVars, settled>>

-----------------------------------------------------------------------------
(* What follows the copies: deleteMissingRemote in a `sync` job, and       *)
(* safeDeleteIfRemoteExists in a `retained_copy` one.                      *)

(* retentionCandidates.                                                    *)
Old == { p \in Listed(lsnap) :
           job.retention > 0 /\ lsnap[p].time < now - job.retention }

(* keepLatestCandidates, for one rule.  Files of the same time are sorted  *)
(* in any order.  filepath.Match knows no `**` and keeps within a name.    *)
InGlob(glob, p) == /\ Len(glob) = Len(p)
                   /\ \A n \in DOMAIN glob : p[n] \in glob[n]
UnderRule(rule) == { p \in Listed(lsnap) : InGlob(rule.glob, p) }

(* Mutant: the oldest files are the ones that stay.                        *)
KeptOldest(rule, kept) ==
    /\ \/ Cardinality(kept) = rule.keep
       \/ kept = UnderRule(rule) /\ Cardinality(kept) < rule.keep
    /\ \A p \in kept, q \in UnderRule(rule) \ kept :
         lsnap[p].time <= lsnap[q].time

Kept(rule, kept) ==
    /\ \/ Cardinality(kept) = rule.keep
       \/ kept = UnderRule(rule) /\ Cardinality(kept) < rule.keep
    /\ \A p \in kept, q \in UnderRule(rule) \ kept :
         lsnap[p].time >= lsnap[q].time

Surplus(rule) ==
    IF rule.keep < 1 THEN {{}}
    ELSE { UnderRule(rule) \ kept :
             kept \in { k \in SUBSET UnderRule(rule) : Kept(rule, k) } }

(* The candidates for deletion under each of the rules at once.            *)
Candidates(doomed) ==
    \E pick \in [job.keep -> SUBSET Path] :
      /\ \A rule \in job.keep : pick[rule] \in Surplus(rule)
      /\ doomed = Old \cup UNION { pick[rule] : rule \in job.keep }

CopyDone ==
    /\ pc = "copy" /\ todo = {}
    /\ CASE job.kind = "copy" ->
              pc' = "finish" /\ UNCHANGED todo
         [] job.kind = "sync" ->
              pc' = "mirror" /\ todo' = Listed(rsnap) \ Listed(lsnap)
         [] job.kind = "retained_copy" ->
              pc' = "prune" /\ \E doomed \in SUBSET Listed(lsnap) :
                                 Candidates(doomed) /\ todo' = doomed
    /\ UNCHANGED <<job, local, remote, root, peopleVars, lsnap, rsnap,
                   historyVars>>

DeleteMissingRemote(p) ==
    /\ pc = "mirror" /\ p \in todo
    /\ remote' = [remote EXCEPT ![p] = None]
    /\ todo' = todo \ {p}
    /\ UNCHANGED <<job, local, root, peopleVars, pc, lsnap, rsnap, historyVars>>

(* Mutant: that the remote has the name is enough.                         *)
ConfirmedByName(p) == remote[p] # None

(* The remote is looked at again; the local side is as it was scanned.     *)
(* When the look fails, the file stays.                                    *)
Confirmed(p) == remote[p] # None /\ SameFile(lsnap[p], remote[p])

Prune(p) ==
    /\ pc = "prune" /\ p \in todo
    /\ \/ Confirmed(p) /\ local' = [local EXCEPT ![p] = None]
       \/ (~Confirmed(p) \/ "stop" \in Env) /\ UNCHANGED local
    /\ todo' = todo \ {p}
    /\ UNCHANGED <<job, remote, root, peopleVars, pc, lsnap, rsnap, historyVars>>

RunDone ==
    /\ pc \in {"mirror", "prune"} /\ todo = {}
    /\ pc' = "finish"
    /\ UNCHANGED <<job, local, remote, root, peopleVars, lsnap, rsnap, todo,
                   historyVars>>

(* The run returns without an error.                                       *)
Finish ==
    /\ pc = "finish"
    /\ settled' = [p \in Path |->
                     IF p \in Covered \ touched /\ local[p] # None
                     THEN local[p].body ELSE settled[p]]
    /\ EndRun
    /\ UNCHANGED <<job, local, remote, root, peopleVars>>

-----------------------------------------------------------------------------
(* Runs that do not finish.                                                *)

Stop ==
    /\ "stop" \in Env
    /\ pc \in {"copy", "mirror", "prune"}
    /\ EndRun
    /\ UNCHANGED <<job, local, remote, root, peopleVars, settled>>

(* In the middle of a WriteFile, or after its last byte and before Chtimes:*)
(* the file has the time of the writing.                                   *)
Cut(p) ==
    /\ "cut" \in Env
    /\ pc = "copy" /\ p \in todo
    /\ ~UpToDate(p)
    /\ local[p] # None
    /\ \E b \in {Torn, local[p].body} :
         remote' = [remote EXCEPT ![p] = [body |-> b, time |-> Stamp[now]]]
    /\ EndRun
    /\ UNCHANGED <<job, local, root, peopleVars, settled>>

-----------------------------------------------------------------------------
(* People, on both sides, and what befalls the local tree.                 *)

PeopleMayAct == Running => "midrun" \in Env
Touch(p) ==
    /\ touched' = IF Running THEN touched \cup {p} ELSE touched
    /\ settled' = [settled EXCEPT ![p] = None]

ChangeLocal(p, f) ==
    /\ root = "there"
    /\ local' = [local EXCEPT ![p] = f]
    /\ edited' = IF Running THEN edited \cup {p} ELSE edited
    /\ UNCHANGED remote

ChangeRemote(p, f) ==
    /\ remote' = [remote EXCEPT ![p] = f]
    /\ UNCHANGED <<local, edited>>

(* Neither side's p is as long as b and of a time within the window of t.  *)
ToldApart(p, b, t) ==
    \A f \in {local[p], remote[p]} \ {None} :
      Size[f.body] # Size[b] \/ Apart(f.time, t) > Window

UserWrite(p, b) ==
    /\ PeopleMayAct
    /\ writes < MaxWrites
    /\ (/\ ToldApart(p, b, now)
        /\ ToldApart(p, b, Stamp[now])) \/ "hasty" \in Env
    /\ \/ ChangeLocal(p, [body |-> b, time |-> now])
       \/ ChangeRemote(p, [body |-> b, time |-> Stamp[now]])
    /\ writes' = writes + 1
    /\ Touch(p)
    /\ UNCHANGED <<job, root, now, runVars>>

UserDelete(p) ==
    /\ PeopleMayAct
    /\ \/ local[p] # None /\ ChangeLocal(p, None)
       \/ remote[p] # None /\ ChangeRemote(p, None)
    /\ Touch(p)
    /\ UNCHANGED <<job, root, peopleVars, runVars>>

(* An unmounted card, a renamed folder.                                    *)
RootChanges ==
    /\ "gone" \in Env
    /\ ~Running
    /\ root' = IF root = "there" THEN "gone" ELSE "there"
    /\ UNCHANGED <<job, local, remote, peopleVars, runVars, historyVars>>

Tick ==
    /\ now < MaxTime
    /\ now' = now + 1
    /\ UNCHANGED <<job, local, remote, root, writes, runVars, historyVars>>

-----------------------------------------------------------------------------
Run == \/ Begin
       \/ \E p \in Path : SkipCopy(p) \/ CopyFile(p) \/ CopyFails(p)
       \/ CopyDone
       \/ \E p \in Path : DeleteMissingRemote(p) \/ Prune(p)
       \/ RunDone \/ Finish

Failure == Stop \/ \E p \in Path : Cut(p)

People == \/ \E p \in Path, b \in Body : UserWrite(p, b)
          \/ \E p \in Path : UserDelete(p)
          \/ RootChanges

Next == Run \/ Failure \/ People \/ Tick

Spec == Init /\ [][Next]_vars

-----------------------------------------------------------------------------
(* Safety.                                                                 *)

(* A retained_copy run deletes a local file only if the remote holds what  *)
(* it holds, whatever happens to the remote under the run, unless somebody *)
(* changes the local file meanwhile.                                       *)
PrunedIsOnRemote ==
    [][Running /\ Running' =>
         \A p \in Path \ edited' :
           (local[p] # None /\ local'[p] = None) =>
             remote[p] # None /\ remote[p].body = local[p].body]_vars

(* When keep_latest deletes a file, as many others of its rule as the rule *)
(* keeps are still there, and none of them is older: if no other rule, nor *)
(* the retention time, applies and nobody touched anything under the run.  *)
KeepLatestHolds ==
    [][(/\ Running /\ Running' /\ touched' = {}
        /\ job.retention = 0 /\ Cardinality(job.keep) = 1) =>
         \A p \in Path, rule \in job.keep :
           (local[p] # None /\ local'[p] = None) =>
             Cardinality({ q \in Covered \ {p} :
                             /\ InGlob(rule.glob, q) /\ local'[q] # None
                             /\ local'[q].time >= local[p].time }) >= rule.keep]_vars

(* When a run is over, the remote holds every file that the job covers and *)
(* nobody touched; after a sync run it holds no other file.                *)
RunMeansCopied ==
    pc = "finish" =>
      \A p \in Covered \ touched :
        /\ local[p] # None =>
             remote[p] # None /\ remote[p].body = local[p].body
        /\ (job.kind = "sync" /\ remote[p] # None) => local[p] # None

(* What a completed run has put on the remote stays there, through failed  *)
(* runs, missing sources and local pruning, until a person touches it.     *)
ConfirmedStays ==
    \A p \in Path :
      settled[p] # None => remote[p] # None /\ remote[p].body = settled[p]

CONSTANT Private    \* the name of a directory the filter is to keep out
ASSUME PrivateAssumption == {Private} # Deep

(* Nothing below a private directory is copied or deleted, at the root of  *)
(* the job or deeper.                                                      *)
IsPrivate(p) == \E n \in 1 .. Len(p) - 1 : p[n] = Private
PrivateStaysOut ==
    [][Running => \A p \in Path :
         (IsPrivate(p) /\ (remote'[p] # remote[p] \/ local'[p] # local[p]))
           => p \in touched']_vars
=============================================================================
