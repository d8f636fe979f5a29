--------------------------- MODULE FileJobsProofs ---------------------------
(***************************************************************************)
(* Proofs about FileJobs: for any set of paths, bodies and jobs, what a    *)
(* retained_copy run deletes locally is on the remote, a run that finishes *)
(* has copied what it covers, what it has copied stays, keep_latest keeps  *)
(* what it says, and what a filter hides is left alone.                    *)
(*                                                                         *)
(* The first three rest on Told: as long as nobody writes a file of the    *)
(* same size within the window, two sides that count as the same are the   *)
(* same.                                                                   *)
(***************************************************************************)
EXTENDS FileJobs, FiniteSetTheorems, WellFoundedInduction, TLAPS

Patient == "hasty" \notin Env

(* No scan leaves a file out: no entry is skipped, and a job whose source  *)
(* can be missing and is then listed as empty does not mirror it.          *)
Seen ==
    /\ "unseen" \notin Env
    /\ "gone" \in Env =>
         \A j \in Jobs : j.source = "directory" \/ j.kind # "sync"

-----------------------------------------------------------------------------
(* Times.                                                                  *)

LEMMA StampIsSameTime ==
    ASSUME NEW t \in Time
    PROVE  Stamp[t] \in Time /\ SameTime(t, Stamp[t])
<1>1. Stamp[t] \in Time /\ Stamp[t] <= t /\ t - Stamp[t] <= Window
  BY TimeAssumption
<1> QED BY <1>1, BoundAssumption DEF Time, SameTime, Apart

LEMMA SameTimeReflexive ==
    ASSUME NEW t \in Time
    PROVE  SameTime(t, t)
BY TimeAssumption, BoundAssumption DEF Time, SameTime, Apart

-----------------------------------------------------------------------------
(* Type correctness.                                                       *)

(* A run reads whole bodies on the local side: people write no others.     *)
LocalWhole == \A p \in Path : local[p] # None => local[p].body \in Body

(* Every path a phase works through is in the snapshot it is read from.    *)
TodoInv ==
    /\ pc \in {"copy", "prune"} => todo \subseteq Listed(lsnap)
    /\ pc = "mirror" => todo \subseteq Listed(rsnap) \ Listed(lsnap)
    /\ Listed(lsnap) \subseteq Covered
    /\ Listed(rsnap) \subseteq Covered

Typed == TypeOK /\ LocalWhole /\ TodoInv

LEMMA NoFilesType ==
    /\ NoFiles \in Tree /\ NoFiles \in [Path -> Maybe(Body)]
    /\ Listed(NoFiles) = {}
BY DEF NoFiles, Tree, Maybe, Listed

LEMMA ScanType ==
    ASSUME NEW tree \in Tree, NEW hidden
    PROVE  /\ Scan(tree, hidden) \in Tree
           /\ Listed(Scan(tree, hidden)) \subseteq Covered
BY DEF Scan, Tree, Maybe, Listed

LEMMA FileType ==
    ASSUME NEW b \in Whole, NEW t \in Time
    PROVE  /\ [body |-> b, time |-> t] \in File
           /\ [body |-> b, time |-> t] # None
BY NoneAssumption DEF File

LEMMA FileParts ==
    ASSUME NEW tree \in Tree, NEW p \in Path, tree[p] # None
    PROVE  tree[p] \in File /\ tree[p].body \in Whole /\ tree[p].time \in Time
BY DEF Tree, Maybe, File

LEMMA TreeUpdate ==
    ASSUME NEW tree \in Tree, NEW p \in Path, NEW f \in Maybe(File)
    PROVE  [tree EXCEPT ![p] = f] \in Tree
BY DEF Tree

LEMMA InitTyped == Init => Typed
BY NoFilesType, BoundAssumption
   DEF Init, Typed, TypeOK, Time, LocalWhole, TodoInv, NoFiles

(* The end of a run, however it comes about.                               *)
LEMMA EndRunTyped ==
    ASSUME Typed, EndRun, UNCHANGED <<job, local, root, now, writes>>,
           remote' \in Tree, settled' \in [Path -> Maybe(Body)]
    PROVE  Typed'
<1>1. TypeOK'
  BY NoFilesType DEF Typed, TypeOK, EndRun
<1>2. LocalWhole'
  BY DEF Typed, LocalWhole
<1>3. TodoInv'
  BY NoFilesType DEF TodoInv, EndRun, Listed
<1> QED BY <1>1, <1>2, <1>3 DEF Typed

LEMMA NextTyped == Typed /\ [Next]_vars => Typed'
<1> SUFFICES ASSUME Typed, [Next]_vars PROVE Typed'
  OBVIOUS
<1>1. CASE Begin
  <2>1. PICK hidden \in Unseen : SourceScan(hidden) /\ touched' = hidden
    BY <1>1 DEF Begin
  <2>2. touched' \subseteq Path
    BY <2>1 DEF Unseen, Source, Covered
  <2>3. /\ lsnap' \in Tree /\ rsnap' \in Tree
        /\ Listed(lsnap') \subseteq Covered /\ Listed(rsnap') \subseteq Covered
    BY <1>1, <2>1, ScanType DEF Begin, SourceScan, ScanDest, Typed, TypeOK
  <2>4. /\ pc' = "copy" /\ todo' = Listed(lsnap')
        /\ UNCHANGED <<job, local, remote, root, now, writes, edited, settled>>
    BY <1>1 DEF Begin, peopleVars
  <2>5. edited = {}
    BY <1>1 DEF Begin, Typed, TypeOK
  <2>6. TypeOK'
    BY <2>2, <2>3, <2>4, <2>5 DEF Typed, TypeOK, Listed
  <2> QED BY <2>3, <2>4, <2>6 DEF Typed, LocalWhole, TodoInv, Listed, Covered
<1>2. ASSUME NEW p \in Path, SkipCopy(p) PROVE Typed'
  BY <1>2 DEF SkipCopy, peopleVars, historyVars, Typed, TypeOK, LocalWhole,
              TodoInv, Listed, Covered
<1>3. ASSUME NEW p \in Path, CopyFile(p) PROVE Typed'
  <2>1. lsnap[p] # None /\ local[p] # None
    BY <1>3 DEF CopyFile, Typed, TodoInv, Listed
  <2>2. lsnap[p].time \in Time /\ local[p].body \in Whole
    BY <2>1, FileParts DEF Typed, TypeOK
  <2>3. [body |-> local[p].body, time |-> Stamp[lsnap[p].time]] \in Maybe(File)
    BY <2>2, StampIsSameTime, FileType DEF Maybe
  <2>4. remote' \in Tree
    BY <1>3, <2>3, TreeUpdate DEF CopyFile, Typed, TypeOK
  <2> QED BY <1>3, <2>4 DEF CopyFile, peopleVars, historyVars, Typed, TypeOK,
                LocalWhole, TodoInv, Listed, Covered
<1>4. ASSUME NEW p \in Path, CopyFails(p) PROVE Typed'
  BY <1>4, EndRunTyped DEF CopyFails, peopleVars, Typed, TypeOK
<1>5. CASE CopyDone
  <2>1. /\ pc = "copy" /\ todo = {}
        /\ UNCHANGED <<job, local, remote, root, now, writes, lsnap, rsnap,
                       touched, edited, settled>>
    BY <1>5 DEF CopyDone, peopleVars, historyVars
  <2>2. \/ pc' = "finish" /\ todo' = {}
        \/ job.kind = "sync" /\ pc' = "mirror"
             /\ todo' = Listed(rsnap) \ Listed(lsnap)
        \/ job.kind = "retained_copy" /\ pc' = "prune"
             /\ todo' \subseteq Listed(lsnap)
    <3>1. job.kind \in {"copy", "sync", "retained_copy"}
      BY JobAssumption DEF Typed, TypeOK, IsJob
    <3> QED BY <1>5, <2>1, <3>1 DEF CopyDone
  <2> QED BY <2>1, <2>2 DEF Typed, TypeOK, LocalWhole, TodoInv, Listed, Covered
<1>6. ASSUME NEW p \in Path, DeleteMissingRemote(p) PROVE Typed'
  <2>1. remote' \in Tree
    BY <1>6, TreeUpdate DEF DeleteMissingRemote, Typed, TypeOK, Maybe
  <2> QED BY <1>6, <2>1 DEF DeleteMissingRemote, peopleVars, historyVars, Typed,
                TypeOK, LocalWhole, TodoInv, Listed, Covered
<1>7. ASSUME NEW p \in Path, Prune(p) PROVE Typed'
  <2>1. local' \in Tree
    BY <1>7, TreeUpdate DEF Prune, Typed, TypeOK, Maybe
  <2>2. LocalWhole'
    BY <1>7 DEF Prune, Typed, TypeOK, Tree, LocalWhole
  <2> QED BY <1>7, <2>1, <2>2 DEF Prune, peopleVars, historyVars, Typed,
                TypeOK, TodoInv, Listed, Covered
<1>8. CASE RunDone
  BY <1>8 DEF RunDone, peopleVars, historyVars, Typed, TypeOK, LocalWhole,
              TodoInv, Listed, Covered
<1>9. CASE Finish
  <2>1. settled' \in [Path -> Maybe(Body)]
    BY <1>9 DEF Finish, Typed, TypeOK, LocalWhole, Maybe
  <2> QED BY <1>9, <2>1, EndRunTyped DEF Finish, peopleVars, Typed, TypeOK
<1>10. CASE Stop
  BY <1>10, EndRunTyped DEF Stop, peopleVars, Typed, TypeOK
<1>11. ASSUME NEW p \in Path, Cut(p) PROVE Typed'
  <2>1. local[p] # None
    BY <1>11 DEF Cut
  <2>2. local[p].body \in Whole
    BY <2>1, FileParts DEF Typed, TypeOK
  <2>3. PICK b \in {Torn, local[p].body} :
           remote' = [remote EXCEPT ![p] = [body |-> b, time |-> Stamp[now]]]
    BY <1>11 DEF Cut
  <2>4. [body |-> b, time |-> Stamp[now]] \in Maybe(File)
    BY <2>2, StampIsSameTime, FileType DEF Maybe, Whole, Typed, TypeOK
  <2>5. remote' \in Tree
    BY <2>3, <2>4, TreeUpdate DEF Typed, TypeOK
  <2> QED BY <1>11, <2>5, EndRunTyped DEF Cut, peopleVars, Typed, TypeOK
<1>12. ASSUME NEW p \in Path, NEW b \in Body, UserWrite(p, b) PROVE Typed'
  <2>1. /\ [body |-> b, time |-> now] \in Maybe(File)
        /\ [body |-> b, time |-> Stamp[now]] \in Maybe(File)
    BY StampIsSameTime, FileType DEF Maybe, Whole, Typed, TypeOK
  <2>2. /\ settled' \in [Path -> Maybe(Body)]
        /\ touched' \subseteq Path /\ touched \subseteq touched'
        /\ Running => p \in touched'
        /\ ~Running => touched' = touched
    BY <1>12 DEF UserWrite, Touch, Typed, TypeOK, Maybe
  <2>3. /\ UNCHANGED <<job, root, now, pc, lsnap, rsnap, todo>>
        /\ writes' = writes + 1
    BY <1>12 DEF UserWrite, runVars
  <2>4. /\ local' \in Tree /\ remote' \in Tree /\ LocalWhole'
        /\ edited' \subseteq touched'
    <3>1. CASE ChangeLocal(p, [body |-> b, time |-> now])
      <4>1. local' \in Tree /\ remote' \in Tree /\ edited' \subseteq touched'
        BY <2>1, <2>2, <3>1, TreeUpdate DEF ChangeLocal, Typed, TypeOK
      <4>2. LocalWhole'
        BY <3>1 DEF ChangeLocal, Typed, TypeOK, Tree, LocalWhole
      <4> QED BY <4>1, <4>2
    <3>2. CASE ChangeRemote(p, [body |-> b, time |-> Stamp[now]])
      BY <2>1, <2>2, <3>2, TreeUpdate
         DEF ChangeRemote, Typed, TypeOK, LocalWhole
    <3> QED BY <1>12, <3>1, <3>2 DEF UserWrite
  <2>5. TypeOK'
    BY <2>2, <2>3, <2>4 DEF Typed, TypeOK, Running
  <2> QED BY <2>3, <2>4, <2>5 DEF Typed, TodoInv, Listed, Covered
<1>13. ASSUME NEW p \in Path, UserDelete(p) PROVE Typed'
  <2>2. /\ settled' \in [Path -> Maybe(Body)]
        /\ touched' \subseteq Path /\ touched \subseteq touched'
        /\ Running => p \in touched'
        /\ ~Running => touched' = touched
    BY <1>13 DEF UserDelete, Touch, Typed, TypeOK, Maybe
  <2>3. UNCHANGED <<job, root, now, writes, pc, lsnap, rsnap, todo>>
    BY <1>13 DEF UserDelete, runVars, peopleVars
  <2>4. /\ local' \in Tree /\ remote' \in Tree /\ LocalWhole'
        /\ edited' \subseteq touched'
    <3>1. CASE ChangeLocal(p, None)
      <4>1. local' \in Tree /\ remote' \in Tree /\ edited' \subseteq touched'
        BY <2>2, <3>1, TreeUpdate DEF ChangeLocal, Typed, TypeOK, Maybe
      <4>2. LocalWhole'
        BY <3>1 DEF ChangeLocal, Typed, TypeOK, Tree, LocalWhole
      <4> QED BY <4>1, <4>2
    <3>2. CASE ChangeRemote(p, None)
      BY <2>2, <3>2, TreeUpdate
         DEF ChangeRemote, Typed, TypeOK, LocalWhole, Maybe
    <3> QED BY <1>13, <3>1, <3>2 DEF UserDelete
  <2>5. TypeOK'
    BY <2>2, <2>3, <2>4 DEF Typed, TypeOK, Running
  <2> QED BY <2>3, <2>4, <2>5 DEF Typed, TodoInv, Listed, Covered
<1>14. CASE RootChanges
  BY <1>14 DEF RootChanges, peopleVars, runVars, historyVars, Typed, TypeOK,
               LocalWhole, TodoInv, Listed, Covered
<1>15. CASE Tick
  BY <1>15, BoundAssumption DEF Tick, runVars, historyVars, Typed, TypeOK,
               Time, LocalWhole, TodoInv, Listed, Covered
<1>16. CASE UNCHANGED vars
  BY <1>16 DEF vars, Typed, TypeOK, LocalWhole, TodoInv, Listed, Covered
<1> QED
  BY <1>1, <1>2, <1>3, <1>4, <1>5, <1>6, <1>7, <1>8, <1>9, <1>10, <1>11,
     <1>12, <1>13, <1>14, <1>15, <1>16 DEF Next, Run, Failure, People

(* The type invariant: a run in progress has its snapshots, each phase     *)
(* belongs to one kind of job, and a stopped run leaves nothing behind.    *)
THEOREM FileTypeCorrect == Spec => []TypeOK
<1>1. Typed => TypeOK
  BY DEF Typed
<1> QED BY <1>1, InitTyped, NextTyped, PTL DEF Spec

-----------------------------------------------------------------------------
(* Two sides that count as the same are the same.                          *)

Told == \A p \in Path :
          (/\ local[p] # None /\ remote[p] # None
           /\ SameFile(local[p], remote[p])) => remote[p].body = local[p].body

(* What a step does to the two sides, other than what people do.           *)
LEMMA NextTold ==
    ASSUME Patient, Typed, Typed', Told, [Next]_vars
    PROVE  Told'
<1>1. ASSUME UNCHANGED <<local, remote>> PROVE Told'
  BY <1>1 DEF Told
<1>2. ASSUME NEW p \in Path, CopyFile(p) \/ Cut(p) PROVE Told'
  <2>1. local[p] # None /\ local' = local
    BY <1>2 DEF CopyFile, Cut
  <2>2. local[p].body \in Body /\ local[p].body # Torn
    BY <2>1, BodyAssumption DEF Typed, LocalWhole
  <2>3. PICK b \in {Torn, local[p].body},
             t \in {Stamp[lsnap[p].time], Stamp[now]} :
           remote' = [remote EXCEPT ![p] = [body |-> b, time |-> t]]
    BY <1>2 DEF CopyFile, Cut
  <2>4. SUFFICES ASSUME NEW q \in Path, local[q] # None, remote'[q] # None,
                        SameFile(local[q], remote'[q])
                 PROVE  remote'[q].body = local[q].body
    BY <2>1 DEF Told
  <2>5. CASE q = p
    <3>1. remote'[q].body = b
      BY <2>3, <2>5 DEF Typed, TypeOK, Tree
    <3>2. b # Torn
      <4>1. Size[b] = Size[local[p].body]
        BY <2>4, <2>5, <3>1 DEF SameFile
      <4>2. Size[local[p].body] > Size[Torn] /\ Size[Torn] \in Nat
        BY <2>2, BodyAssumption DEF Whole
      <4> QED BY <4>1, <4>2
    <3> QED BY <2>5, <3>1, <3>2
  <2>6. CASE q # p
    <3>1. remote'[q] = remote[q]
      BY <2>3, <2>6 DEF Typed, TypeOK, Tree
    <3> QED BY <2>4, <3>1 DEF Told
  <2> QED BY <2>5, <2>6
<1>3. ASSUME NEW p \in Path, DeleteMissingRemote(p) PROVE Told'
  BY <1>3 DEF DeleteMissingRemote, Told, Typed, TypeOK, Tree
<1>4. ASSUME NEW p \in Path, Prune(p) PROVE Told'
  BY <1>4 DEF Prune, Told, Typed, TypeOK, Tree
<1>5. ASSUME NEW p \in Path, NEW b \in Body, UserWrite(p, b) PROVE Told'
  <2>1. ToldApart(p, b, now) /\ ToldApart(p, b, Stamp[now])
    BY <1>5 DEF UserWrite, Patient
  <2>2. now \in Time /\ Stamp[now] \in Time
    BY StampIsSameTime DEF Typed, TypeOK
  <2>3. ASSUME NEW f \in {local[p], remote[p]} \ {None}, NEW t \in {now, Stamp[now]}
        PROVE  /\ ~SameFile(f, [body |-> b, time |-> t])
               /\ ~SameFile([body |-> b, time |-> t], f)
    <3>1. Size[f.body] # Size[b] \/ Apart(f.time, t) > Window
      BY <2>1, <2>3 DEF ToldApart
    <3>2. f.time \in Time
      BY FileParts DEF Typed, TypeOK
    <3>3. Apart(f.time, t) = Apart(t, f.time) /\ Apart(f.time, t) \in Int
      BY <2>2, <3>2, BoundAssumption DEF Apart, Time
    <3> QED BY <3>1, <3>3, TimeAssumption DEF SameFile, SameTime
  <2>4. CASE ChangeLocal(p, [body |-> b, time |-> now])
    BY <2>3, <2>4 DEF ChangeLocal, Told, Typed, TypeOK, Tree
  <2>5. CASE ChangeRemote(p, [body |-> b, time |-> Stamp[now]])
    BY <2>3, <2>5 DEF ChangeRemote, Told, Typed, TypeOK, Tree
  <2> QED BY <1>5, <2>4, <2>5 DEF UserWrite
<1>6. ASSUME NEW p \in Path, UserDelete(p) PROVE Told'
  BY <1>6 DEF UserDelete, ChangeLocal, ChangeRemote, Told, Typed, TypeOK, Tree
<1>7. ASSUME NEW p \in Path, SkipCopy(p) \/ CopyFails(p) PROVE UNCHANGED <<local, remote>>
  BY <1>7 DEF SkipCopy, CopyFails
<1>8. Begin \/ CopyDone \/ RunDone \/ Finish \/ Stop \/ RootChanges \/ Tick
        \/ UNCHANGED vars => UNCHANGED <<local, remote>>
  BY DEF Begin, CopyDone, RunDone, Finish, Stop, RootChanges, Tick, vars
<1> QED
  BY <1>1, <1>2, <1>3, <1>4, <1>5, <1>6, <1>7, <1>8
     DEF Next, Run, Failure, People

-----------------------------------------------------------------------------
(* What a run knows of the two sides.                                      *)

OnRemote(p) == /\ remote[p] # None
               /\ SameFile(lsnap[p], remote[p])
               /\ remote[p].body = lsnap[p].body

(* The local side is as it was scanned, but for what the run pruned.       *)
LocalInv ==
    pc # "idle" =>
      /\ \A p \in Path \ edited :
           lsnap[p] # None =>
             \/ local[p] = lsnap[p]
             \/ /\ pc \in {"prune", "finish"} /\ job.kind = "retained_copy"
                /\ local[p] = None
      /\ \A p \in Covered \ touched : lsnap[p] = None => local[p] = None

(* The remote side is as it was scanned, or as the run means it to be.     *)
RemoteInv ==
    /\ pc = "copy" =>
         \A p \in Covered \ touched :
           (p \in todo \/ lsnap[p] = None) => remote[p] = rsnap[p]
    /\ pc # "idle" =>
         \A p \in Covered \ touched :
           (lsnap[p] # None /\ (pc = "copy" => p \notin todo)) => OnRemote(p)
    /\ (pc = "mirror" \/ (pc = "finish" /\ job.kind = "sync")) =>
         \A p \in Covered \ touched :
           (lsnap[p] = None /\ p \notin todo) => remote[p] = None

RunInv == LocalInv /\ RemoteInv

LEMMA InitRunInv == Init => Told /\ RunInv
BY DEF Init, Told, NoFiles, RunInv, LocalInv, RemoteInv

LEMMA BeginRunInv ==
    ASSUME Typed, Begin
    PROVE  RunInv'
<1>1. PICK hidden \in Unseen : SourceScan(hidden) /\ touched' = hidden
  BY DEF Begin
<1>2. /\ lsnap' = Scan(local, hidden) /\ rsnap' = Scan(remote, {})
      /\ todo' = Listed(lsnap') /\ pc' = "copy"
      /\ UNCHANGED <<job, local, remote>>
  BY <1>1 DEF Begin, SourceScan, ScanDest
<1>3. Covered' = Covered /\ Covered \subseteq Path
  BY <1>2 DEF Covered
<1>4. /\ \A p \in Path : lsnap'[p] = IF p \in Covered \ hidden THEN local[p] ELSE None
      /\ \A p \in Path : rsnap'[p] = IF p \in Covered THEN remote[p] ELSE None
  BY <1>2 DEF Scan
<1>5. LocalInv'
  BY <1>1, <1>2, <1>3, <1>4 DEF LocalInv
<1>6. RemoteInv'
  BY <1>1, <1>2, <1>3, <1>4 DEF RemoteInv, Listed
<1> QED BY <1>5, <1>6 DEF RunInv

LEMMA SkipCopyRunInv ==
    ASSUME Typed, Told, RunInv, NEW p \in Path, SkipCopy(p)
    PROVE  RunInv'
<1>1. /\ pc = "copy" /\ p \in todo /\ UpToDate(p) /\ todo' = todo \ {p}
      /\ UNCHANGED <<job, local, remote, pc, lsnap, rsnap, touched, edited>>
  BY DEF SkipCopy, historyVars
<1>2. p \in Covered /\ lsnap[p] # None
  BY <1>1 DEF Typed, TodoInv, Listed
<1>3. p \notin touched => OnRemote(p)
  <2>1. SUFFICES ASSUME p \notin touched PROVE OnRemote(p)
    OBVIOUS
  <2>2. p \notin edited
    BY <2>1 DEF Typed, TypeOK
  <2>3. remote[p] = rsnap[p] /\ local[p] = lsnap[p]
    BY <1>1, <1>2, <2>1, <2>2 DEF RunInv, RemoteInv, LocalInv
  <2> QED BY <1>1, <1>2, <2>3 DEF UpToDate, Told, OnRemote
<1>4. Covered' = Covered
  BY <1>1 DEF Covered
<1>5. LocalInv'
  BY <1>1, <1>4 DEF RunInv, LocalInv
<1>6. RemoteInv'
  BY <1>1, <1>3, <1>4 DEF RunInv, RemoteInv, OnRemote
<1> QED BY <1>5, <1>6 DEF RunInv

LEMMA CopyFileRunInv ==
    ASSUME Typed, RunInv, NEW p \in Path, CopyFile(p)
    PROVE  RunInv'
<1>1. /\ pc = "copy" /\ p \in todo /\ local[p] # None /\ todo' = todo \ {p}
      /\ remote' = [remote EXCEPT ![p] = [body |-> local[p].body,
                                          time |-> Stamp[lsnap[p].time]]]
      /\ UNCHANGED <<job, local, pc, lsnap, rsnap, touched, edited>>
  BY DEF CopyFile, historyVars
<1>2. p \in Covered /\ lsnap[p] # None /\ lsnap[p].time \in Time
  BY <1>1, FileParts DEF Typed, TodoInv, Listed, TypeOK
<1>3. p \notin touched => OnRemote(p)'
  <2>1. SUFFICES ASSUME p \notin touched PROVE OnRemote(p)'
    OBVIOUS
  <2>2. local[p] = lsnap[p]
    BY <1>1, <1>2, <2>1 DEF RunInv, LocalInv, Typed, TypeOK
  <2>3. remote'[p] = [body |-> lsnap[p].body, time |-> Stamp[lsnap[p].time]]
    BY <1>1, <2>2 DEF Typed, TypeOK, Tree
  <2>4. remote'[p] # None
    BY <1>1, <1>2, <2>2, <2>3, FileParts, StampIsSameTime, FileType DEF Typed, TypeOK
  <2> QED BY <1>1, <1>2, <2>3, <2>4, StampIsSameTime DEF OnRemote, SameFile
<1>4. Covered' = Covered
  BY <1>1 DEF Covered
<1>5. LocalInv'
  BY <1>1, <1>4 DEF RunInv, LocalInv
<1>6. \A q \in Path : q # p => remote'[q] = remote[q]
  BY <1>1 DEF Typed, TypeOK, Tree
<1>7. RemoteInv'
  BY <1>1, <1>2, <1>3, <1>4, <1>6 DEF RunInv, RemoteInv, OnRemote, Covered
<1> QED BY <1>5, <1>7 DEF RunInv

LEMMA CopyDoneRunInv ==
    ASSUME Typed, RunInv, CopyDone
    PROVE  RunInv'
<1>1. /\ pc = "copy" /\ todo = {}
      /\ UNCHANGED <<job, local, remote, lsnap, rsnap, touched, edited>>
      /\ pc' \in {"mirror", "prune", "finish"}
      /\ pc' = "finish" => job.kind = "copy"
      /\ pc' = "mirror" => todo' = Listed(rsnap) \ Listed(lsnap)
  <2>1. job.kind \in {"copy", "sync", "retained_copy"}
    BY JobAssumption DEF Typed, TypeOK, IsJob
  <2> QED BY <2>1 DEF CopyDone, historyVars
<1>2. Covered' = Covered /\ Covered \subseteq Path
  BY <1>1 DEF Covered
<1>3. LocalInv'
  BY <1>1, <1>2 DEF RunInv, LocalInv
<1>4. RemoteInv'
  BY <1>1, <1>2 DEF RunInv, RemoteInv, OnRemote, Listed
<1> QED BY <1>3, <1>4 DEF RunInv

LEMMA DeleteMissingRemoteRunInv ==
    ASSUME Typed, RunInv, NEW p \in Path, DeleteMissingRemote(p)
    PROVE  RunInv'
<1>1. /\ pc = "mirror" /\ p \in todo /\ todo' = todo \ {p}
      /\ remote' = [remote EXCEPT ![p] = None]
      /\ UNCHANGED <<job, local, pc, lsnap, rsnap, touched, edited>>
  BY DEF DeleteMissingRemote, historyVars
<1>2. lsnap[p] = None
  BY <1>1 DEF Typed, TodoInv, Listed
<1>3. Covered' = Covered /\ Covered \subseteq Path
  BY <1>1 DEF Covered
<1>4. /\ remote'[p] = None
      /\ \A q \in Path : q # p => remote'[q] = remote[q]
  BY <1>1 DEF Typed, TypeOK, Tree
<1>5. LocalInv'
  BY <1>1, <1>3 DEF RunInv, LocalInv
<1>6. RemoteInv'
  BY <1>1, <1>2, <1>3, <1>4 DEF RunInv, RemoteInv, OnRemote
<1> QED BY <1>5, <1>6 DEF RunInv

LEMMA PruneRunInv ==
    ASSUME Typed, RunInv, NEW p \in Path, Prune(p)
    PROVE  RunInv'
<1>1. /\ pc = "prune" /\ job.kind = "retained_copy"
      /\ UNCHANGED <<job, remote, pc, lsnap, rsnap, touched, edited>>
  BY DEF Prune, historyVars, Typed, TypeOK
<1>2. \A q \in Path : local'[q] = local[q] \/ local'[q] = None
  BY DEF Prune, Typed, TypeOK, Tree
<1>3. Covered' = Covered /\ Covered \subseteq Path
  BY <1>1 DEF Covered
<1>4. LocalInv'
  BY <1>1, <1>2, <1>3 DEF RunInv, LocalInv
<1>5. RemoteInv'
  BY <1>1, <1>3 DEF RunInv, RemoteInv, OnRemote
<1> QED BY <1>4, <1>5 DEF RunInv

(* An act of a person on p exempts p, and leaves the other paths alone.    *)
LEMMA PersonRunInv ==
    ASSUME Typed, RunInv, NEW p \in Path, NEW f, NEW g, Touch(p),
           ChangeLocal(p, f) \/ ChangeRemote(p, g),
           UNCHANGED <<job, pc, lsnap, rsnap, todo>>
    PROVE  RunInv'
<1>1. CASE ~Running
  BY <1>1 DEF Running, RunInv, LocalInv, RemoteInv
<1>2. CASE Running
  <2>1. touched' = touched \cup {p}
    BY <1>2 DEF Touch
  <2>2. Covered' = Covered /\ Covered \subseteq Path
    BY DEF Covered
  <2>3. \A q \in Path : q # p => remote'[q] = remote[q] /\ local'[q] = local[q]
    BY DEF ChangeLocal, ChangeRemote, Typed, TypeOK, Tree
  <2>4. \/ edited' = edited \cup {p}
        \/ edited' = edited /\ local' = local
    BY <1>2 DEF ChangeLocal, ChangeRemote
  <2>5. LocalInv'
    BY <2>1, <2>2, <2>3, <2>4 DEF RunInv, LocalInv
  <2>6. RemoteInv'
    BY <2>1, <2>2, <2>3 DEF RunInv, RemoteInv, OnRemote
  <2> QED BY <2>5, <2>6 DEF RunInv
<1> QED BY <1>1, <1>2

LEMMA NextRunInv ==
    ASSUME Typed, Told, RunInv, [Next]_vars
    PROVE  RunInv'
<1>1. ASSUME pc' = "idle" PROVE RunInv'
  BY <1>1 DEF RunInv, LocalInv, RemoteInv
<1>2. ASSUME NEW p \in Path, CopyFails(p) \/ Cut(p) PROVE pc' = "idle"
  BY <1>2 DEF CopyFails, Cut, EndRun
<1>3. Finish \/ Stop => pc' = "idle"
  BY DEF Finish, Stop, EndRun
<1>4. CASE RunDone
  <2>1. /\ pc \in {"mirror", "prune"} /\ todo = {} /\ pc' = "finish"
        /\ UNCHANGED <<job, local, remote, lsnap, rsnap, todo, touched, edited>>
    BY <1>4 DEF RunDone, historyVars
  <2>2. pc = "prune" => job.kind # "sync"
    BY DEF Typed, TypeOK
  <2> QED BY <2>1, <2>2 DEF RunInv, LocalInv, RemoteInv, OnRemote, Covered
<1>5. ASSUME NEW p \in Path, NEW b \in Body, UserWrite(p, b) PROVE RunInv'
  BY <1>5, PersonRunInv DEF UserWrite, runVars
<1>6. ASSUME NEW p \in Path, UserDelete(p) PROVE RunInv'
  BY <1>6, PersonRunInv DEF UserDelete, runVars
<1>7. ASSUME UNCHANGED <<job, local, remote, pc, lsnap, rsnap, todo, touched, edited>>
      PROVE  RunInv'
  BY <1>7 DEF RunInv, LocalInv, RemoteInv, OnRemote, Covered
<1>8. RootChanges \/ Tick \/ UNCHANGED vars =>
        UNCHANGED <<job, local, remote, pc, lsnap, rsnap, todo, touched, edited>>
  BY DEF RootChanges, Tick, vars, runVars, historyVars
<1> QED
  BY <1>1, <1>2, <1>3, <1>4, <1>5, <1>6, <1>7, <1>8, BeginRunInv,
     SkipCopyRunInv, CopyFileRunInv, CopyDoneRunInv,
     DeleteMissingRemoteRunInv, PruneRunInv
     DEF Next, Run, Failure, People

-----------------------------------------------------------------------------
(* The first two results.                                                  *)

CopyInv == Typed /\ Told /\ RunInv

LEMMA CopyInvHolds == Patient => (Spec => []CopyInv)
<1> SUFFICES ASSUME Patient PROVE Spec => []CopyInv
  OBVIOUS
<1>1. Init => CopyInv
  BY InitTyped, InitRunInv DEF CopyInv
<1>2. CopyInv /\ [Next]_vars => CopyInv'
  BY NextTyped, NextTold, NextRunInv DEF CopyInv
<1> QED BY <1>1, <1>2, PTL DEF Spec

(* What retained_copy deletes locally, the remote holds: a size and a time *)
(* read again are enough evidence, as long as nobody writes a file of the  *)
(* same size within the window.                                            *)
THEOREM PrunedSafe == Patient => (Spec => PrunedIsOnRemote)
<1> SUFFICES ASSUME Patient PROVE Spec => PrunedIsOnRemote
  OBVIOUS
<1>1. ASSUME CopyInv, [Next]_vars, Running, Running',
             NEW p \in Path \ edited', local[p] # None, local'[p] = None
      PROVE  remote[p] # None /\ remote[p].body = local[p].body
  <2>1. ASSUME NEW q \in Path, Prune(q)
        PROVE  remote[p] # None /\ remote[p].body = local[p].body
    <3>0. /\ pc = "prune" /\ q \in todo /\ edited' = edited
          /\ local' # local => Confirmed(q) /\ local' = [local EXCEPT ![q] = None]
      BY <2>1 DEF Prune, historyVars
    <3>1. /\ p = q /\ Confirmed(p) /\ pc = "prune" /\ p \in todo
          /\ p \notin edited
      BY <1>1, <3>0 DEF CopyInv, Typed, TypeOK, Tree
    <3>2. lsnap[p] # None
      BY <1>1, <3>1 DEF CopyInv, Typed, TodoInv, Listed
    <3>3. local[p] = lsnap[p]
      BY <1>1, <3>1, <3>2 DEF CopyInv, RunInv, LocalInv
    <3> QED BY <1>1, <3>1, <3>3 DEF Confirmed, CopyInv, Told
  <2>2. ASSUME NEW q \in Path,
               ChangeLocal(q, None) \/ \E f \in File : ChangeLocal(q, f)
        PROVE  FALSE
    <3>1. PICK f : ChangeLocal(q, f)
      BY <2>2
    <3>2. local' = [local EXCEPT ![q] = f] /\ edited' = edited \cup {q}
      BY <1>1, <3>1 DEF ChangeLocal
    <3>3. p # q
      BY <1>1, <3>2
    <3>4. local'[p] = local[p]
      BY <1>1, <3>2, <3>3 DEF CopyInv, Typed, TypeOK, Tree
    <3> QED BY <1>1, <3>4
  <2>3. ASSUME NEW q \in Path, NEW b \in Body, UserWrite(q, b)
        PROVE  \/ local' = local
               \/ ChangeLocal(q, None) \/ \E f \in File : ChangeLocal(q, f)
    <3>1. [body |-> b, time |-> now] \in File
      BY <1>1, FileType DEF CopyInv, Typed, TypeOK, Whole
    <3> QED BY <2>3, <3>1 DEF UserWrite, ChangeRemote
  <2>4. ASSUME NEW q \in Path, UserDelete(q)
        PROVE  local' = local \/ ChangeLocal(q, None)
    BY <2>4 DEF UserDelete, ChangeRemote
  <2>5. ASSUME NEW q \in Path,
               SkipCopy(q) \/ CopyFile(q) \/ CopyFails(q)
                 \/ DeleteMissingRemote(q) \/ Cut(q)
        PROVE  local' = local
    BY <2>5 DEF SkipCopy, CopyFile, CopyFails, DeleteMissingRemote, Cut
  <2>6. (Begin \/ CopyDone \/ RunDone \/ Finish \/ Stop \/ RootChanges \/ Tick
           \/ UNCHANGED vars) => local' = local
    BY DEF Begin, CopyDone, RunDone, Finish, Stop, RootChanges, Tick, vars
  <2> QED
    BY <1>1, <2>1, <2>2, <2>3, <2>4, <2>5, <2>6 DEF Next, Run, Failure, People
<1>2. CopyInv /\ [Next]_vars =>
        [Running /\ Running' =>
           \A p \in Path \ edited' :
             (local[p] # None /\ local'[p] = None) =>
               remote[p] # None /\ remote[p].body = local[p].body]_vars
  BY <1>1
<1> QED BY <1>2, CopyInvHolds, PTL DEF Spec, PrunedIsOnRemote

(* A run that returns without an error has copied every file its job       *)
(* covers, and a sync run has left no other on the remote.                 *)
THEOREM CopiedSafe == Patient => (Spec => []RunMeansCopied)
<1> SUFFICES ASSUME Patient PROVE Spec => []RunMeansCopied
  OBVIOUS
<1>1. ASSUME CopyInv, pc = "finish", NEW p \in Covered \ touched
      PROVE  /\ local[p] # None =>
                  remote[p] # None /\ remote[p].body = local[p].body
             /\ (job.kind = "sync" /\ remote[p] # None) => local[p] # None
  <2>1. p \in Path /\ p \notin edited /\ todo = {}
    BY <1>1 DEF Covered, CopyInv, Typed, TypeOK
  <2>2. CASE lsnap[p] = None
    BY <1>1, <2>1, <2>2 DEF CopyInv, RunInv, LocalInv, RemoteInv
  <2>3. CASE lsnap[p] # None
    <3>1. OnRemote(p)
      BY <1>1, <2>3 DEF CopyInv, RunInv, RemoteInv
    <3>2. local[p] = lsnap[p] \/ (local[p] = None /\ job.kind # "sync")
      BY <1>1, <2>1, <2>3 DEF CopyInv, RunInv, LocalInv
    <3> QED BY <2>3, <3>1, <3>2 DEF OnRemote
  <2> QED BY <2>2, <2>3
<1>2. CopyInv => RunMeansCopied
  BY <1>1 DEF RunMeansCopied
<1> QED BY <1>2, CopyInvHolds, PTL

-----------------------------------------------------------------------------
(* What a completed run has left on the remote stays: no later run has a   *)
(* reason to write or delete it again.                                     *)

SettledInv ==
    /\ \A p \in Path : settled[p] # None =>
         /\ remote[p] # None /\ remote[p].body = settled[p]
         /\ local[p] # None => SameFile(local[p], remote[p])
         /\ job.kind = "sync" => local[p] # None
    /\ \A p \in touched :
         settled[p] = None \/ (job.kind # "sync" /\ p \notin Listed(lsnap))
    /\ root = "gone" => "gone" \in Env

(* The run goes on with what it has scanned, or is over.                   *)
SameRun == \/ touched' = touched /\ lsnap' = lsnap
           \/ touched' = {}

(* The step changes neither the two sides nor what is settled.             *)
LEMMA SettledSame ==
    ASSUME SettledInv, SameRun, UNCHANGED <<job, local, remote, root, settled>>
    PROVE  SettledInv'
BY DEF SettledInv, SameRun, Listed

LEMMA PersonSettled ==
    ASSUME Typed, SettledInv, NEW p \in Path, NEW f, NEW g, Touch(p),
           UNCHANGED <<job, root, lsnap>>,
           ChangeLocal(p, f) \/ ChangeRemote(p, g)
    PROVE  SettledInv'
<1>1. /\ settled'[p] = None
      /\ \A q \in Path : q # p => settled'[q] = settled[q]
  BY DEF Touch, Typed, TypeOK
<1>2. \A q \in Path : q # p => remote'[q] = remote[q] /\ local'[q] = local[q]
  BY DEF ChangeLocal, ChangeRemote, Typed, TypeOK, Tree
<1>3. touched' \subseteq touched \cup {p} /\ touched \subseteq Path
  BY DEF Touch, Typed, TypeOK
<1>4. ASSUME NEW q \in Path, settled'[q] # None
      PROVE  /\ remote'[q] # None /\ remote'[q].body = settled'[q]
             /\ local'[q] # None => SameFile(local'[q], remote'[q])
             /\ job'.kind = "sync" => local'[q] # None
  BY <1>1, <1>2, <1>4 DEF SettledInv
<1>5. ASSUME NEW q \in touched'
      PROVE  settled'[q] = None \/ (job'.kind # "sync" /\ q \notin Listed(lsnap)')
  BY <1>1, <1>3, <1>5 DEF SettledInv, Listed
<1> QED BY <1>4, <1>5 DEF SettledInv

(* A file that is settled is up to date: the run does not copy it again.   *)
LEMMA SettledIsUpToDate ==
    ASSUME Typed, RunInv, SettledInv, NEW p \in Path, settled[p] # None,
           pc = "copy", p \in todo
    PROVE  UpToDate(p)
<1>1. lsnap[p] # None /\ p \in Listed(lsnap) /\ p \in Covered
  BY DEF Typed, TodoInv, Listed
<1>2. p \notin touched /\ p \notin edited
  BY <1>1 DEF SettledInv, Typed, TypeOK
<1>3. local[p] = lsnap[p] /\ remote[p] = rsnap[p]
  BY <1>1, <1>2 DEF RunInv, LocalInv, RemoteInv
<1> QED BY <1>1, <1>3 DEF SettledInv, UpToDate

LEMMA NextSettled ==
    ASSUME Seen, CopyInv, SettledInv, [Next]_vars
    PROVE  SettledInv'
<1> USE DEF CopyInv
<1>1. CASE Begin
  <2>1. PICK hidden \in Unseen : SourceScan(hidden) /\ touched' = hidden
    BY <1>1 DEF Begin
  <2>2. UNCHANGED <<job, local, remote, root, settled>>
    BY <1>1 DEF Begin
  <2>3. CASE hidden = {}
    BY <2>1, <2>2, <2>3, SettledSame DEF SameRun
  <2>4. CASE root = "gone" /\ hidden = Source
    <3>1. job.source = "smb" /\ lsnap' = Scan(local, Source)
      BY <2>1, <2>4 DEF SourceScan
    <3>2. job.kind # "sync"
      BY <2>4, <3>1 DEF Seen, SettledInv, Typed, TypeOK
    <3>3. Listed(lsnap') = {}
      BY <3>1 DEF Listed, Scan, Source
    <3> QED BY <2>2, <3>2, <3>3 DEF SettledInv, Listed
  <2> QED BY <2>1, <2>3, <2>4 DEF Unseen, Seen
<1>2. ASSUME NEW p \in Path, CopyFile(p) \/ Cut(p) PROVE SettledInv'
  <2>1. /\ pc = "copy" /\ p \in todo /\ ~UpToDate(p) /\ SameRun
        /\ UNCHANGED <<job, local, root, settled>>
    BY <1>2 DEF CopyFile, Cut, EndRun, historyVars, SameRun
  <2>2. settled[p] = None
    BY <2>1, SettledIsUpToDate
  <2>3. \A q \in Path : q # p => remote'[q] = remote[q]
    BY <1>2 DEF CopyFile, Cut, Typed, TypeOK, Tree
  <2> QED BY <2>1, <2>2, <2>3 DEF SettledInv, SameRun, Listed
<1>3. ASSUME NEW p \in Path, DeleteMissingRemote(p) PROVE SettledInv'
  <2>1. /\ pc = "mirror" /\ p \in todo
        /\ remote' = [remote EXCEPT ![p] = None]
        /\ UNCHANGED <<job, local, root, lsnap, touched, settled>>
    BY <1>3 DEF DeleteMissingRemote, historyVars
  <2>2. lsnap[p] = None /\ p \in Covered /\ job.kind = "sync"
    BY <2>1 DEF Typed, TypeOK, TodoInv, Listed
  <2>3. p \notin touched => local[p] = None
    BY <2>1, <2>2 DEF RunInv, LocalInv
  <2>4. settled[p] = None
    BY <2>2, <2>3 DEF SettledInv
  <2>5. \A q \in Path : q # p => remote'[q] = remote[q]
    BY <2>1 DEF Typed, TypeOK, Tree
  <2> QED BY <2>1, <2>4, <2>5 DEF SettledInv, Listed
<1>4. ASSUME NEW p \in Path, Prune(p) PROVE SettledInv'
  <2>1. /\ job.kind = "retained_copy"
        /\ UNCHANGED <<job, remote, root, lsnap, touched, settled>>
    BY <1>4 DEF Prune, historyVars, Typed, TypeOK
  <2>2. \A q \in Path : local'[q] = local[q] \/ local'[q] = None
    BY <1>4 DEF Prune, Typed, TypeOK, Tree
  <2> QED BY <2>1, <2>2 DEF SettledInv, Listed
<1>5. CASE Finish
  <2>1. /\ pc = "finish" /\ touched' = {} /\ UNCHANGED <<job, local, remote, root>>
        /\ settled' = [p \in Path |->
                         IF p \in Covered \ touched /\ local[p] # None
                         THEN local[p].body ELSE settled[p]]
    BY <1>5 DEF Finish, EndRun
  <2>2. ASSUME NEW p \in Path, p \in Covered \ touched, local[p] # None
        PROVE  /\ remote[p] # None /\ remote[p].body = local[p].body
               /\ SameFile(local[p], remote[p])
    <3>1. lsnap[p] # None
      BY <2>1, <2>2 DEF RunInv, LocalInv
    <3>2. local[p] = lsnap[p] /\ OnRemote(p)
      BY <2>1, <2>2, <3>1 DEF RunInv, LocalInv, RemoteInv, Typed, TypeOK
    <3> QED BY <3>2 DEF OnRemote
  <2>3. ASSUME NEW p \in Path, settled'[p] # None
        PROVE  /\ remote'[p] # None /\ remote'[p].body = settled'[p]
               /\ local'[p] # None => SameFile(local'[p], remote'[p])
               /\ job'.kind = "sync" => local'[p] # None
    <3>1. CASE p \in Covered \ touched /\ local[p] # None
      BY <2>1, <2>2, <3>1
    <3>2. CASE ~(p \in Covered \ touched /\ local[p] # None)
      BY <2>1, <2>3, <3>2 DEF SettledInv
    <3> QED BY <3>1, <3>2
  <2> QED BY <2>1, <2>3 DEF SettledInv
<1>6. ASSUME NEW p \in Path, NEW b \in Body, UserWrite(p, b) PROVE SettledInv'
  BY <1>6, PersonSettled DEF UserWrite, runVars
<1>7. ASSUME NEW p \in Path, UserDelete(p) PROVE SettledInv'
  BY <1>7, PersonSettled DEF UserDelete, runVars
<1>8. ASSUME NEW p \in Path, SkipCopy(p) \/ CopyFails(p)
      PROVE  SameRun /\ UNCHANGED <<job, local, remote, root, settled>>
  BY <1>8 DEF SkipCopy, CopyFails, EndRun, historyVars, SameRun
<1>9. CopyDone \/ RunDone \/ Stop \/ Tick \/ UNCHANGED vars =>
        SameRun /\ UNCHANGED <<job, local, remote, root, settled>>
  BY DEF CopyDone, RunDone, Stop, EndRun, Tick, vars, runVars, historyVars, SameRun
<1>10. CASE RootChanges
  <2>1. /\ "gone" \in Env
        /\ UNCHANGED <<job, local, remote, lsnap, touched, settled>>
    BY <1>10 DEF RootChanges, runVars, historyVars
  <2> QED BY <2>1 DEF SettledInv, Listed
<1> QED
  BY <1>1, <1>2, <1>3, <1>4, <1>5, <1>6, <1>7, <1>8, <1>9, <1>10, SettledSame
     DEF Next, Run, Failure, People

(* What a completed run has put on the remote stays there until a person   *)
(* touches it, if people are not hasty and the scan of the source leaves   *)
(* nothing out that a sync job would then delete on the remote.            *)
THEOREM ConfirmedSafe == Patient /\ Seen => (Spec => []ConfirmedStays)
<1> SUFFICES ASSUME Patient, Seen PROVE Spec => []ConfirmedStays
  OBVIOUS
<1>1. Init => SettledInv
  BY DEF Init, SettledInv, NoFiles
<1>2. CopyInv /\ SettledInv /\ [Next]_vars => SettledInv'
  BY NextSettled
<1>3. SettledInv => ConfirmedStays
  BY DEF SettledInv, ConfirmedStays
<1> QED BY <1>1, <1>2, <1>3, CopyInvHolds, PTL DEF Spec

-----------------------------------------------------------------------------
(* keep_latest.  Until something is touched under the run, what stays and  *)
(* what is to go are both as they were scanned; so what is kept is there,  *)
(* and at least as new, when one of the others goes.                       *)

(* What the run does to its rule's files: kept stay, those of todo go.     *)
Sorted(rule, kept) ==
    /\ rule.keep >= 1
    /\ kept \subseteq UnderRule(rule) /\ Kept(rule, kept)
    /\ todo \subseteq UnderRule(rule) \ kept
    /\ \A p \in kept \cup todo : local[p] = lsnap[p]

LatestInv ==
    touched = {} =>
      /\ pc = "copy" => \A p \in Listed(lsnap) : local[p] = lsnap[p]
      /\ (pc = "prune" /\ job.retention = 0) =>
           \A rule : job.keep = {rule} =>
             todo = {} \/ \E kept : Sorted(rule, kept)

LEMMA NextLatest ==
    ASSUME Typed, LatestInv, [Next]_vars
    PROVE  LatestInv'
<1>1. ASSUME pc' \notin {"copy", "prune"} \/ touched' # {} PROVE LatestInv'
  BY <1>1 DEF LatestInv
<1>2. CASE Begin
  <2>1. PICK hidden : touched' = hidden /\ SourceScan(hidden)
    BY <1>2 DEF Begin
  <2>2. pc' = "copy" /\ local' = local /\ lsnap' = Scan(local, touched')
    BY <1>2, <2>1 DEF Begin, SourceScan
  <2>3. \A p \in Listed(lsnap)' : local'[p] = lsnap'[p]
    BY <2>2 DEF Listed, Scan
  <2> QED BY <2>2, <2>3 DEF LatestInv
<1>3. ASSUME NEW p \in Path, SkipCopy(p) \/ CopyFile(p) PROVE LatestInv'
  <2>1. pc = "copy" /\ UNCHANGED <<local, pc, lsnap, touched>>
    BY <1>3 DEF SkipCopy, CopyFile, historyVars
  <2> QED BY <2>1 DEF LatestInv, Listed
<1>4. CASE CopyDone
  <2>1. SUFFICES ASSUME touched = {}, pc' = "prune", job.retention = 0,
                        NEW rule, job.keep = {rule}, todo' # {}
                 PROVE  \E kept : Sorted(rule, kept)'
    BY <1>4 DEF LatestInv, CopyDone, historyVars
  <2>2. /\ pc = "copy" /\ UNCHANGED <<job, local, lsnap, touched, now>>
        /\ \A p \in Listed(lsnap) : local[p] = lsnap[p]
    BY <1>4, <2>1 DEF CopyDone, historyVars, peopleVars, LatestInv
  <2>3. PICK pick \in [job.keep -> SUBSET Path] :
          /\ \A r \in job.keep : pick[r] \in Surplus(r)
          /\ todo' = Old \cup UNION { pick[r] : r \in job.keep }
    <3>1. job.kind = "retained_copy"
      BY <1>4, <2>1, JobAssumption DEF CopyDone, Typed, TypeOK, IsJob
    <3> QED BY <1>4, <3>1 DEF CopyDone, Candidates
  <2>4. Old = {}
    BY <2>1 DEF Old
  <2>5. todo' = pick[rule] /\ pick[rule] \in Surplus(rule)
    BY <2>1, <2>3, <2>4
  <2>6. rule.keep \in Nat
    BY <2>1, JobAssumption DEF IsJob, Typed, TypeOK
  <2>7. rule.keep >= 1
    BY <2>1, <2>5, <2>6 DEF Surplus
  <2>8. PICK kept \in SUBSET UnderRule(rule) :
          Kept(rule, kept) /\ todo' = UnderRule(rule) \ kept
    BY <2>5, <2>6, <2>7 DEF Surplus
  <2>9. UnderRule(rule) \subseteq Listed(lsnap)
    BY DEF UnderRule
  <2>10. UnderRule(rule)' = UnderRule(rule) /\ Kept(rule, kept)' = Kept(rule, kept)
    BY <2>2 DEF UnderRule, Kept, Listed
  <2>11. \A p \in kept \cup todo' : local'[p] = lsnap'[p]
    BY <2>2, <2>8, <2>9
  <2> QED BY <2>7, <2>8, <2>10, <2>11 DEF Sorted
<1>5. ASSUME NEW p \in Path, Prune(p) PROVE LatestInv'
  <2>1. /\ pc = "prune" /\ p \in todo /\ todo' = todo \ {p}
        /\ UNCHANGED <<job, pc, lsnap, touched>>
        /\ \A q \in Path : q # p => local'[q] = local[q]
    BY <1>5 DEF Prune, historyVars, Typed, TypeOK, Tree
  <2>2. SUFFICES ASSUME touched = {}, job.retention = 0, NEW rule, job.keep = {rule}
                 PROVE  \E kept : Sorted(rule, kept)'
    BY <2>1 DEF LatestInv
  <2>3. PICK kept : Sorted(rule, kept)
    BY <2>1, <2>2 DEF LatestInv
  <2>4. UnderRule(rule)' = UnderRule(rule) /\ Kept(rule, kept)' = Kept(rule, kept)
    BY <2>1 DEF UnderRule, Kept, Listed
  <2>5. UnderRule(rule) \subseteq Path
    BY DEF UnderRule, Listed
  <2>6. ASSUME NEW q \in kept \cup todo' PROVE local'[q] = lsnap'[q]
    <3>1. q \in Path /\ q # p /\ q \in kept \cup todo
      BY <2>1, <2>3, <2>5, <2>6 DEF Sorted
    <3> QED BY <2>1, <2>3, <3>1 DEF Sorted
  <2> QED BY <2>1, <2>3, <2>4, <2>6 DEF Sorted
<1>6. ASSUME NEW p \in Path, NEW b \in Body, UserWrite(p, b) PROVE LatestInv'
  BY <1>1, <1>6 DEF UserWrite, Touch, Running, runVars
<1>7. ASSUME NEW p \in Path, UserDelete(p) PROVE LatestInv'
  BY <1>1, <1>7 DEF UserDelete, Touch, Running, runVars
<1>8. ASSUME NEW p \in Path, CopyFails(p) \/ Cut(p) \/ DeleteMissingRemote(p)
      PROVE  pc' \notin {"copy", "prune"}
  BY <1>8 DEF CopyFails, Cut, EndRun, DeleteMissingRemote
<1>9. RunDone \/ Finish \/ Stop => pc' \notin {"copy", "prune"}
  BY DEF RunDone, Finish, Stop, EndRun
<1>10. ASSUME UNCHANGED <<job, local, pc, lsnap, todo, touched>> PROVE LatestInv'
  BY <1>10 DEF LatestInv, Sorted, Kept, UnderRule, Listed
<1>11. RootChanges \/ Tick \/ UNCHANGED vars =>
         UNCHANGED <<job, local, pc, lsnap, todo, touched>>
  BY DEF RootChanges, Tick, vars, runVars, historyVars
<1> QED
  BY <1>1, <1>2, <1>3, <1>4, <1>5, <1>6, <1>7, <1>8, <1>9, <1>10, <1>11
     DEF Next, Run, Failure, People

(* The files of the rule that the tree holds, other than p and not older.  *)
Others(tree, rule, p) ==
    { q \in Covered \ {p} : /\ InGlob(rule.glob, q) /\ tree[q] # None
                            /\ tree[q].time >= local[p].time }

(* When a file goes, the kept ones are as many others of its rule as the   *)
(* rule keeps: were they fewer, they would be all there are.               *)
LEMMA KeptAreEnough ==
    ASSUME Typed, NEW rule, NEW kept, Sorted(rule, kept), NEW p \in Path, p \in todo,
           rule.keep \in Nat, NEW tree,
           \A q \in kept : tree[q] = local[q]
    PROVE  Cardinality(Others(tree, rule, p)) >= rule.keep
<1>1. p \in UnderRule(rule) \ kept /\ local[p] = lsnap[p]
  BY DEF Sorted
<1>2. ASSUME NEW q \in kept PROVE q \in Others(tree, rule, p)
  <2>1. q \in UnderRule(rule) /\ q # p /\ tree[q] = lsnap[q]
    BY <1>1, <1>2 DEF Sorted
  <2>2. q \in Covered /\ lsnap[q] # None /\ InGlob(rule.glob, q)
    BY <2>1 DEF UnderRule, Listed, Typed, TodoInv
  <2>3. lsnap[q].time >= lsnap[p].time
    BY <1>1, <1>2 DEF Sorted, Kept
  <2> QED BY <1>1, <2>1, <2>2, <2>3 DEF Others
<1>3. IsFiniteSet(Others(tree, rule, p)) /\ kept \in SUBSET Others(tree, rule, p)
  <2>1. Others(tree, rule, p) \in SUBSET Path
    BY DEF Covered, Others
  <2> QED BY <1>2, <2>1, PathAssumption, FS_Subset
<1>4. /\ Cardinality(kept) <= Cardinality(Others(tree, rule, p))
      /\ Cardinality(kept) \in Nat
      /\ Cardinality(Others(tree, rule, p)) \in Nat
  BY <1>3, FS_Subset, FS_CardinalityType
<1>5. Cardinality(kept) = rule.keep
  BY <1>1 DEF Sorted, Kept
<1> QED BY <1>4, <1>5

(* keep_latest deletes the surplus and nothing else: of the files of its   *)
(* rule, as many as it keeps are there, and none of them is older than the *)
(* one that goes.                                                          *)
THEOREM LatestKept == Spec => KeepLatestHolds
<1>1. Init => LatestInv
  BY DEF Init, LatestInv
<1>2. ASSUME Typed, LatestInv, [Next]_vars, Running, Running', touched' = {},
             job.retention = 0, Cardinality(job.keep) = 1,
             NEW p \in Path, NEW rule \in job.keep,
             local[p] # None, local'[p] = None
      PROVE  Cardinality(Others(local', rule, p)) >= rule.keep
  <2>1. ASSUME NEW q \in Path, Prune(q)
        PROVE  /\ p = q /\ p \in todo /\ pc = "prune" /\ touched = {}
               /\ \A r \in Path : r # p => local'[r] = local[r]
    BY <1>2, <2>1 DEF Prune, historyVars, Typed, TypeOK, Tree
  <2>2. ASSUME NEW q \in Path, Prune(q)
        PROVE  Cardinality(Others(local', rule, p)) >= rule.keep
    <3>1. job.keep = {rule}
      <4>1. IsFiniteSet(job.keep)
        BY <1>2, JobAssumption DEF IsJob, Typed, TypeOK
      <4>2. \E x : job.keep = {x}
        BY <1>2, <4>1, FS_Singleton
      <4> QED BY <1>2, <4>2
    <3>2. PICK kept : Sorted(rule, kept)
      BY <1>2, <2>1, <2>2, <3>1 DEF LatestInv
    <3>3. \A r \in kept : local'[r] = local[r]
      BY <2>1, <2>2, <3>2 DEF Sorted, UnderRule, Listed
    <3>4. rule.keep \in Nat
      BY <1>2, JobAssumption DEF IsJob, Typed, TypeOK
    <3>5. p \in todo
      BY <2>1, <2>2
    <3> QED BY <1>2, <3>2, <3>3, <3>4, <3>5, KeptAreEnough
  <2>3. ASSUME NEW q \in Path, UserDelete(q) \/ \E b \in Body : UserWrite(q, b)
        PROVE  FALSE
    BY <1>2, <2>3 DEF UserWrite, UserDelete, Touch
  <2>4. ASSUME NEW q \in Path,
               SkipCopy(q) \/ CopyFile(q) \/ CopyFails(q)
                 \/ DeleteMissingRemote(q) \/ Cut(q)
        PROVE  local' = local
    BY <2>4 DEF SkipCopy, CopyFile, CopyFails, DeleteMissingRemote, Cut
  <2>5. (Begin \/ CopyDone \/ RunDone \/ Finish \/ Stop \/ RootChanges \/ Tick
           \/ UNCHANGED vars) => local' = local
    BY DEF Begin, CopyDone, RunDone, Finish, Stop, RootChanges, Tick, vars
  <2> QED
    BY <1>2, <2>2, <2>3, <2>4, <2>5 DEF Next, Run, Failure, People
<1>3. Typed /\ LatestInv /\ [Next]_vars =>
        [(/\ Running /\ Running' /\ touched' = {}
          /\ job.retention = 0 /\ Cardinality(job.keep) = 1) =>
           \A p \in Path, rule \in job.keep :
             (local[p] # None /\ local'[p] = None) =>
               Cardinality({ q \in Covered \ {p} :
                               /\ InGlob(rule.glob, q) /\ local'[q] # None
                               /\ local'[q].time >= local[p].time }) >= rule.keep]_vars
  BY <1>2 DEF Others
<1>4. Typed /\ LatestInv /\ [Next]_vars => LatestInv'
  BY NextLatest
<1> QED BY <1>1, <1>3, <1>4, InitTyped, NextTyped, PTL DEF Spec, KeepLatestHolds

-----------------------------------------------------------------------------
(* The filter keeps a directory out.  A filter hides it if the pattern     *)
(* `**/name/**` is excluded, or is a rule that excludes and after which no *)
(* rule includes anything below such a directory.                          *)

PrivateDir == <<Deep, {Private}, Deep>>

Hides(filter) ==
    \/ filter.rules = << >> /\ PrivateDir \in filter.exclude
    \/ \E n \in DOMAIN filter.rules :
         /\ filter.rules[n].pattern = PrivateDir
         /\ ~filter.rules[n].include
         /\ \A k \in n + 1 .. Len(filter.rules), p \in Path :
              (IsPrivate(p) /\ filter.rules[k].include) =>
                ~Matches(filter.rules[k].pattern, p)

Guarded == \A j \in Jobs : Hides(j.filter)

LEMMA LastOf ==
    ASSUME NEW n \in Nat, NEW S, S \subseteq 1 .. n, S # {}
    PROVE  \E last \in S : \A k \in S : k <= last
<1> DEFINE F == { k .. n : k \in S }
           R == StrictSubsetOrdering(Nat)
<1>1. F \subseteq FiniteSubsetsOf(Nat)
  BY FS_Interval DEF FiniteSubsetsOf
<1>2. IsWellFoundedOn(R, FiniteSubsetsOf(Nat))
  BY FS_StrictSubsetOrderingWellFounded
<1>3. F # {}
  OBVIOUS
<1> HIDE DEF F, R
<1>4. PICK x \in F : \A y \in F : <<y, x>> \notin R
  BY <1>1, <1>2, <1>3, WFMin
<1>5. PICK last \in S : x = last .. n
  BY DEF F
<1>6. ASSUME NEW k \in S, last < k PROVE FALSE
  <2>1. k .. n \in F
    BY DEF F
  <2>2. k .. n \subseteq x /\ last \in x /\ last \notin k .. n
    BY <1>5, <1>6
  <2>3. x \subseteq Nat /\ k .. n \subseteq Nat
    BY <1>5
  <2>4. <<k .. n, x>> \in R
    BY <2>2, <2>3 DEF R, StrictSubsetOrdering
  <2> QED BY <1>4, <2>1, <2>4
<1> QED BY <1>6

Cells(pattern, path) == (1 .. Len(pattern) + 1) \X (1 .. Len(path) + 1)

(* The cell at i and j of the table of MatchesWhole, from the cells of m.  *)
CellOf(m, pattern, path, i, j) ==
    IF i > Len(pattern) THEN j > Len(path)
    ELSE IF pattern[i] # Deep
         THEN /\ j <= Len(path) /\ path[j] \in pattern[i]
              /\ m[<<i + 1, j + 1>>]
    ELSE IF i = Len(pattern) THEN j <= Len(path)
    ELSE \E k \in PassOver(j, path) : m[<<i + 1, k>>]

IsTable(m, pattern, path) ==
    m = [c \in Cells(pattern, path) |-> CellOf(m, pattern, path, c[1], c[2])]

(* What remains of the path from its jth name on matches `**/name/**` if   *)
(* it has the name before its end, and `name/**` if it begins with it.     *)
PrivateFrom(path, i, j) ==
    CASE i = 1 -> \E k \in j .. Len(path) - 1 : path[k] = Private
      [] i = 2 -> j < Len(path) /\ path[j] = Private
      [] i = 3 -> j <= Len(path)
      [] i = 4 -> j > Len(path)

PrivateTable(path) ==
    [c \in Cells(PrivateDir, path) |-> PrivateFrom(path, c[1], c[2])]

LEMMA PrivateParts ==
    /\ Len(PrivateDir) = 3 /\ PrivateDir[1] = Deep /\ PrivateDir[3] = Deep
    /\ PrivateDir[2] = {Private} /\ PrivateDir[2] # Deep
    /\ \A p : Cells(PrivateDir, p) = (1 .. 4) \X (1 .. Len(p) + 1)
BY PrivateAssumption DEF PrivateDir, Cells

LEMMA PathLength ==
    ASSUME NEW p \in Path
    PROVE  Len(p) \in Nat
<1>1. p \in Seq({ p[n] : n \in DOMAIN p })
  BY PathAssumption DEF IsSequence
<1> QED BY <1>1

(* What the four rows of the table say, by the table m.                    *)
LEMMA PrivateCells ==
    ASSUME NEW p \in Path, NEW m, NEW j \in 1 .. Len(p) + 1
    PROVE  /\ CellOf(m, PrivateDir, p, 4, j) <=> j > Len(p)
           /\ CellOf(m, PrivateDir, p, 3, j) <=> j <= Len(p)
           /\ CellOf(m, PrivateDir, p, 2, j) <=>
                (j <= Len(p) /\ p[j] = Private /\ m[<<3, j + 1>>])
           /\ CellOf(m, PrivateDir, p, 1, j) <=>
                \E k \in j .. Len(p) + 1 : m[<<2, k>>]
<1>1. CellOf(m, PrivateDir, p, 4, j) <=> j > Len(p)
  BY PrivateParts DEF CellOf
<1>2. CellOf(m, PrivateDir, p, 3, j) <=> j <= Len(p)
  BY PrivateParts DEF CellOf
<1>3. CellOf(m, PrivateDir, p, 2, j) <=>
        (j <= Len(p) /\ p[j] = Private /\ m[<<3, j + 1>>])
  <2>1. 2 <= Len(PrivateDir) /\ 2 + 1 = 3 /\ ~(2 > Len(PrivateDir))
    BY PrivateParts
  <2>2. CellOf(m, PrivateDir, p, 2, j) <=>
          (j <= Len(p) /\ p[j] \in PrivateDir[2] /\ m[<<2 + 1, j + 1>>])
    BY <2>1, PrivateParts, Zenon DEF CellOf
  <2> QED BY <2>1, <2>2, PrivateParts, Zenon
<1>4. CellOf(m, PrivateDir, p, 1, j) <=>
        \E k \in j .. Len(p) + 1 : m[<<2, k>>]
  <2>1. 1 # Len(PrivateDir) /\ 1 + 1 = 2 /\ ~(1 > Len(PrivateDir))
    BY PrivateParts
  <2>2. CellOf(m, PrivateDir, p, 1, j) <=>
          \E k \in PassOver(j, p) : m[<<1 + 1, k>>]
    BY <2>1, PrivateParts, Zenon DEF CellOf
  <2> QED BY <2>1, <2>2, Zenon DEF PassOver
<1> QED BY <1>1, <1>2, <1>3, <1>4, Zenon

LEMMA PrivateTableIsTable ==
    ASSUME NEW p \in Path
    PROVE  IsTable(PrivateTable(p), PrivateDir, p)
<1> DEFINE m == PrivateTable(p)
<1>1. ASSUME NEW i \in 1 .. 4, NEW j \in 1 .. Len(p) + 1
      PROVE  m[<<i, j>>] = PrivateFrom(p, i, j)
  <2>1. <<i, j>> \in Cells(PrivateDir, p)
    BY PrivateParts
  <2> QED BY <2>1 DEF PrivateTable
<1>2. DOMAIN m = Cells(PrivateDir, p) /\ m = [c \in DOMAIN m |-> m[c]]
  BY DEF PrivateTable
<1> HIDE DEF m
<1>3. ASSUME NEW j \in 1 .. Len(p) + 1
      PROVE  \A i \in {1, 2, 3, 4} :
               PrivateFrom(p, i, j) = CellOf(m, PrivateDir, p, i, j)
  <2>0. Len(p) \in Nat
    BY PathLength
  <2>1. PrivateFrom(p, 4, j) = CellOf(m, PrivateDir, p, 4, j)
    BY <2>0, PrivateParts DEF PrivateFrom, CellOf
  <2>2. PrivateFrom(p, 3, j) = CellOf(m, PrivateDir, p, 3, j)
    BY <2>0, PrivateParts DEF PrivateFrom, CellOf
  <2>3. PrivateFrom(p, 2, j) = CellOf(m, PrivateDir, p, 2, j)
    <3>1. j <= Len(p) => m[<<3, j + 1>>] = PrivateFrom(p, 3, j + 1)
      BY <1>1, <2>0
    <3>2. PrivateFrom(p, 3, j + 1) <=> j + 1 <= Len(p)
      BY DEF PrivateFrom
    <3>3. PrivateFrom(p, 2, j) = (j < Len(p) /\ p[j] = Private)
      BY DEF PrivateFrom
    <3>4. j < Len(p) <=> j <= Len(p) /\ j + 1 <= Len(p)
      BY <2>0
    <3>5. CellOf(m, PrivateDir, p, 2, j) =
            (j <= Len(p) /\ p[j] \in PrivateDir[2] /\ m[<<2 + 1, j + 1>>])
      <4>1. ~(2 > Len(PrivateDir))
        BY PrivateParts
      <4> QED BY <4>1, PrivateParts, Zenon DEF CellOf
    <3>6. p[j] \in PrivateDir[2] <=> p[j] = Private
      BY PrivateParts
    <3>7. 2 + 1 = 3
      OBVIOUS
    <3> QED BY <3>1, <3>2, <3>3, <3>4, <3>5, <3>6, <3>7, Zenon
  <2>4. PrivateFrom(p, 1, j) = CellOf(m, PrivateDir, p, 1, j)
    <3>1. ASSUME NEW k \in j .. Len(p) + 1
          PROVE  m[<<2, k>>] = PrivateFrom(p, 2, k)
      BY <1>1, <2>0
    <3>2. \A k : PrivateFrom(p, 2, k) <=> k < Len(p) /\ p[k] = Private
      BY DEF PrivateFrom
    <3>3. PrivateFrom(p, 1, j) = (\E k \in j .. Len(p) - 1 : p[k] = Private)
      BY DEF PrivateFrom
    <3>4. CellOf(m, PrivateDir, p, 1, j) =
            (\E k \in j .. Len(p) + 1 : m[<<1 + 1, k>>])
      <4>1. ~(1 > Len(PrivateDir)) /\ 1 # Len(PrivateDir)
        BY PrivateParts
      <4> QED BY <4>1, PrivateParts, Zenon DEF CellOf, PassOver
    <3>5. \A k : k \in j .. Len(p) - 1 <=> k \in j .. Len(p) + 1 /\ k < Len(p)
      BY <2>0
    <3>6. 1 + 1 = 2
      OBVIOUS
    <3> QED BY <3>1, <3>2, <3>3, <3>4, <3>5, <3>6, Zenon
  <2> QED BY <2>1, <2>2, <2>3, <2>4
<1>4. ASSUME NEW c \in Cells(PrivateDir, p)
      PROVE  m[c] = CellOf(m, PrivateDir, p, c[1], c[2])
  <2>1. /\ c = <<c[1], c[2]>> /\ c[1] \in 1 .. 4 /\ c[1] \in {1, 2, 3, 4}
        /\ c[2] \in 1 .. Len(p) + 1
    BY <1>4, PrivateParts
  <2> QED BY <1>1, <1>3, <2>1
<1> QED BY <1>2, <1>4, Zenon DEF IsTable, m

(* `**/` may stand for nothing: a private directory matches at any depth,  *)
(* the root of the job included.                                           *)
LEMMA PrivateMatches ==
    ASSUME NEW p \in Path, IsPrivate(p)
    PROVE  Matches(PrivateDir, p)
<1> DEFINE m == CHOOSE m : IsTable(m, PrivateDir, p)
<1>1. MatchesWhole(PrivateDir, p) = m[<<1, 1>>]
  BY DEF MatchesWhole, IsTable, CellOf, Cells
<1>2. IsTable(m, PrivateDir, p)
  BY PrivateTableIsTable
<1> HIDE DEF m
<1>3. ASSUME NEW i \in 1 .. 4, NEW j \in 1 .. Len(p) + 1
      PROVE  m[<<i, j>>] = CellOf(m, PrivateDir, p, i, j)
  <2>1. <<i, j>> \in Cells(PrivateDir, p)
    BY PrivateParts
  <2> QED BY <1>2, <2>1 DEF IsTable
<1>4. PICK n \in 1 .. Len(p) - 1 : p[n] = Private
  BY DEF IsPrivate
<1>5. /\ n \in 1 .. Len(p) + 1 /\ n + 1 \in 1 .. Len(p) + 1 /\ 1 \in 1 .. Len(p) + 1
      /\ n + 1 <= Len(p) /\ n <= Len(p)
      /\ 1 \in 1 .. 4 /\ 2 \in 1 .. 4 /\ 3 \in 1 .. 4
  BY PathLength
<1>6. m[<<3, n + 1>>]
  <2>1. CellOf(m, PrivateDir, p, 3, n + 1)
    BY <1>5, PrivateCells, Zenon
  <2> QED BY <1>3, <1>5, <2>1, Zenon
<1>7. m[<<2, n>>]
  <2>1. CellOf(m, PrivateDir, p, 2, n)
    BY <1>4, <1>5, <1>6, PrivateCells, Zenon
  <2> QED BY <1>3, <1>5, <2>1, Zenon
<1>8. m[<<1, 1>>]
  <2>1. CellOf(m, PrivateDir, p, 1, 1)
    BY <1>5, <1>7, PrivateCells, Zenon
  <2> QED BY <1>3, <1>5, <2>1, Zenon
<1> QED BY <1>1, <1>8, PrivateParts, Zenon DEF Matches

LEMMA PrivateNotCovered ==
    ASSUME NEW j \in Jobs, Hides(j.filter), NEW p \in Path, IsPrivate(p)
    PROVE  ~Covers(j.filter, p)
<1> DEFINE rules == j.filter.rules
<1>1. Matches(PrivateDir, p)
  BY PrivateMatches
<1>2. rules \in Seq({ rules[n] : n \in DOMAIN rules })
  BY JobAssumption DEF IsJob, IsSequence
<1>3. Len(rules) \in Nat /\ DOMAIN rules = 1 .. Len(rules)
  BY <1>2
<1>4. CASE rules = << >> /\ PrivateDir \in j.filter.exclude
  BY <1>1, <1>4 DEF Covers
<1>5. CASE \E n \in DOMAIN rules :
             /\ rules[n].pattern = PrivateDir /\ ~rules[n].include
             /\ \A k \in n + 1 .. Len(rules), q \in Path :
                  (IsPrivate(q) /\ rules[k].include) => ~Matches(rules[k].pattern, q)
  <2>1. PICK n \in 1 .. Len(rules) :
             /\ rules[n].pattern = PrivateDir /\ ~rules[n].include
             /\ \A k \in n + 1 .. Len(rules) :
                  rules[k].include => ~Matches(rules[k].pattern, p)
    BY <1>3, <1>5
  <2> DEFINE S == { k \in 1 .. Len(rules) : Matches(rules[k].pattern, p) }
  <2>2. n \in S /\ S \subseteq 1 .. Len(rules)
    BY <1>1, <2>1
  <2> HIDE DEF S
  <2>3. PICK last \in S : \A k \in S : k <= last
    BY <1>3, <2>2, LastOf
  <2>4. /\ last \in 1 .. Len(rules) /\ Matches(rules[last].pattern, p)
        /\ \A k \in last + 1 .. Len(rules) : ~Matches(rules[k].pattern, p)
    BY <1>3, <2>3 DEF S
  <2>5. n <= last
    BY <2>2, <2>3
  <2>6. ~rules[last].include
    BY <1>3, <2>1, <2>4, <2>5
  <2>7. last \in LastMatch(rules, p)
    BY <1>3, <2>4 DEF LastMatch
  <2>8. rules # << >>
    BY <1>3, <2>1
  <2> QED BY <2>6, <2>7, <2>8 DEF Covers
<1> QED BY <1>4, <1>5 DEF Hides

(* With such a filter, a run neither copies nor deletes anything below a   *)
(* private directory, on either side and at whatever depth.                *)
THEOREM PrivateKeptOut == Guarded => (Spec => PrivateStaysOut)
<1> SUFFICES ASSUME Guarded PROVE Spec => PrivateStaysOut
  OBVIOUS
<1>1. ASSUME Typed, [Next]_vars, Running, NEW p \in Path, IsPrivate(p),
             remote'[p] # remote[p] \/ local'[p] # local[p]
      PROVE  p \in touched'
  <2>1. p \notin Covered
    BY <1>1, PrivateNotCovered DEF Guarded, Covered, Typed, TypeOK
  <2>2. ASSUME NEW q \in Path,
               CopyFile(q) \/ Cut(q) \/ DeleteMissingRemote(q) \/ Prune(q)
        PROVE  FALSE
    <3>1. q \in Covered
      BY <1>1, <2>2
         DEF CopyFile, Cut, DeleteMissingRemote, Prune, Typed, TodoInv
    <3>2. \A r \in Path : r # q => remote'[r] = remote[r] /\ local'[r] = local[r]
      BY <1>1, <2>2
         DEF CopyFile, Cut, DeleteMissingRemote, Prune, Typed, TypeOK, Tree
    <3> QED BY <1>1, <2>1, <3>1, <3>2
  <2>3. ASSUME NEW q \in Path, NEW f, Touch(q),
               ChangeRemote(q, f) \/ \E g : ChangeLocal(q, g)
        PROVE  p \in touched'
    BY <1>1, <2>3 DEF Touch, ChangeRemote, ChangeLocal, Typed, TypeOK, Tree
  <2>4. ASSUME NEW q \in Path, NEW b \in Body, UserWrite(q, b)
        PROVE  p \in touched'
    BY <2>3, <2>4 DEF UserWrite
  <2>5. ASSUME NEW q \in Path, UserDelete(q)
        PROVE  p \in touched'
    BY <2>3, <2>5 DEF UserDelete
  <2>6. ASSUME NEW q \in Path, SkipCopy(q) \/ CopyFails(q)
        PROVE  UNCHANGED <<local, remote>>
    BY <2>6 DEF SkipCopy, CopyFails
  <2>7. (Begin \/ CopyDone \/ RunDone \/ Finish \/ Stop \/ RootChanges \/ Tick
           \/ UNCHANGED vars) => UNCHANGED <<local, remote>>
    BY DEF Begin, CopyDone, RunDone, Finish, Stop, RootChanges, Tick, vars
  <2> QED
    BY <1>1, <2>2, <2>4, <2>5, <2>6, <2>7 DEF Next, Run, Failure, People
<1>2. Typed /\ [Next]_vars =>
        [Running => \A p \in Path :
           (IsPrivate(p) /\ (remote'[p] # remote[p] \/ local'[p] # local[p]))
             => p \in touched']_vars
  BY <1>1
<1> QED BY <1>2, InitTyped, NextTyped, PTL DEF Spec, PrivateStaysOut
=============================================================================
