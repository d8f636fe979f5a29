------------------------- MODULE WorktreeEditProofs -------------------------
(***************************************************************************)
(* What people wrote survives.  Theorems about Worktree, for every set of  *)
(* clients, paths and edits and every bound, about any sequence of runs.   *)
(*                                                                         *)
(* The argument.  A client's copy of a path is only given up for one that  *)
(* has all of it, so an edit that reached a client stays on one; an edit   *)
(* that did not is on the hub, and the ledger does not have it yet, which  *)
(* makes a run take it along.  Both hold up to what people deleted.        *)
(***************************************************************************)
EXTENDS WorktreeProofs

(* The surroundings the theorems assume.  Nothing is written by halves,    *)
(* overlooked, emptied, or changed under a run; and a run may stop half    *)
(* way only if no second client is there to take what it left for a        *)
(* deliberate change.  Each part is needed: see the README.                *)
Calm  == /\ Env \cap {"torn", "unseen", "reset", "midrun"} = {}
         /\ "stop" \in Env => Alone

-----------------------------------------------------------------------------
(* The inductive invariant.                                                *)

(* Client c has completed a run since the table t got its entry for p.     *)
Received(t, c, p) == Alone \/ (t[p] # None /\ t[p].gen <= cursor[c])

(* The saved ledger describes the replicas; while a run writes, its own    *)
(* table does, and if it cannot stop the ledger is of no account.          *)
LedgerCounts == pc \in {"idle", "gc"} \/ job.dryRun \/ Alone

QuietInv == /\ SeenInv /\ spoiled = {}
            /\ \A c \in Client : cursor[c] <= gen

(* The version a tombstone names was given up.                             *)
GivenUp(t) == \A p \in Path :
                (t[p] # None /\ t[p].last # None) => t[p].last \subseteq dropped
TombInv == GivenUp(tombs) /\ GivenUp(stones)

(* Up to what was given up, the hub has what the ledger records of a path. *)
HubHas(t) == \A p \in Path : Recorded(t, p) \subseteq Text(Hub, p) \cup dropped
HubInv == HubHas(files) /\ (LedgerCounts => HubHas(base))

(* And so does every client that received it.                              *)
ClientHas(t, c) == \A p \in Path :
    Received(t, c, p) => Recorded(t, p) \subseteq Text(c, p) \cup dropped
ClientInv == \A c \in Client : /\ ClientHas(files, c)
                               /\ LedgerCounts => ClientHas(base, c)

(* Where an edit that nobody gave up is.                                   *)
OnClient(e) == \E c \in Client, p \in Path : e \in Text(c, p)
NewOnHub(e) == \E p \in Path :
                 /\ e \in Text(Hub, p) \ Recorded(files, p)
                 /\ LedgerCounts => e \notin Recorded(base, p)
PlaceInv == \A e \in made \ dropped : OnClient(e) \/ NewOnHub(e)

(* What writeBoth writes replaces less than it has.                        *)
WriteInv ==
    pc \in {"writeLocal", "writeHub"} =>
      /\ Text(job.client, target) \subseteq val \cup dropped
      /\ Text(Hub, target) \ Recorded(files, target) \subseteq val \cup dropped
      /\ Received(files, job.client, target) =>
           Recorded(files, target) \subseteq val \cup dropped
      /\ Alone => Recorded(base, target) \cup Text(Hub, target)
                    \subseteq val \cup dropped
      /\ target # cur => Text(job.client, cur) \subseteq val \cup dropped
      /\ pc = "writeHub" => tree[job.client][target] = val

(* Before a quarantined path is aligned, its sidecar has what it holds.    *)
AlignInv ==
    pc = "align" =>
      \E s \in Path \ {cur} :
        Text(job.client, cur) \subseteq Text(job.client, s) \cup dropped

EditInv == /\ ConvergenceInv
           /\ QuietInv /\ MadeInv /\ TombInv
           /\ HubInv /\ ClientInv /\ PlaceInv
           /\ WriteInv /\ AlignInv

-----------------------------------------------------------------------------
(* What the invariant says of a path in hand.                              *)

LEMMA EditType == EditInv => TypeOK /\ ConvergenceInv /\ SeenInv
  BY DEF EditInv, ConvergenceInv, QuietInv

LEMMA RunParts ==
  ASSUME EditInv, Running
  PROVE  /\ job \in Job /\ Here \in Client
         /\ Here \in Replica /\ Hub \in Replica /\ Here # Hub
  <1>1. job \in Job
    BY JobType DEF EditInv, ConvergenceInv, Running
  <1> QED
    BY <1>1, HubAssumption DEF Here, Job, Replica

(* L, which decide reads, is what the table records.                       *)
LEMMA LIsRecorded ==
  ASSUME NEW p \in Path
  PROVE  /\ L(p) # None => L(p) = Recorded(files, p) /\ files[p] # None
         /\ files[p] = None => L(p) = None /\ Recorded(files, p) = {}
  BY DEF L, Recorded

(* What decide removes from a replica, and what the tombstone then names,  *)
(* was given up.                                                           *)
LEMMA LocalGivenUp ==
  ASSUME EditInv, NEW p \in Path, Deciding(p), ShouldDeleteLocal(p)
  PROVE  /\ Text(Here, p) \subseteq dropped
         /\ L(p) # None => L(p) \subseteq dropped
         /\ tree[Hub][p] = None
  <1>1. tree[Here][p] = A(p) /\ tree[Hub][p] = B(p)
    BY AsSeen, EditType
  <1>2. CASE StaleLocal(p)
    <2>1. A(p) \subseteq dropped
      BY <1>2 DEF StaleLocal, Buried, EditInv, TombInv, GivenUp
    <2>2. L(p) = None
      BY <1>2 DEF StaleLocal, Buried, L
    <2> QED
      BY <1>1, <1>2, <2>1, <2>2 DEF StaleLocal, Text
  <1>3. CASE ~StaleLocal(p)
    <2>1. A(p) = L(p) /\ B(p) = None /\ L(p) # None
      BY <1>3 DEF ShouldDeleteLocal, Differ, LocalChanged
    <2>2. L(p) \subseteq Text(Hub, p) \cup dropped
      BY <2>1, LIsRecorded DEF EditInv, HubInv, HubHas
    <2>3. L(p) \subseteq dropped
      BY <1>1, <2>1, <2>2 DEF Text
    <2> QED
      BY <1>1, <2>1, <2>3 DEF Text
  <1> QED
    BY <1>2, <1>3

LEMMA RemoteGivenUp ==
  ASSUME EditInv, NEW p \in Path, Deciding(p), ShouldDeleteRemote(p)
  PROVE  /\ Text(Hub, p) \subseteq dropped
         /\ L(p) # None => L(p) \subseteq dropped
         /\ tree[Here][p] = None
  <1>1. Running /\ tree[Here][p] = A(p) /\ tree[Hub][p] = B(p)
    BY AsSeen, EditType
  <1>2. CASE StaleHub(p)
    <2>1. B(p) \subseteq dropped
      BY <1>2 DEF StaleHub, Buried, EditInv, TombInv, GivenUp
    <2>2. L(p) = None
      BY <1>2 DEF StaleHub, Buried, L
    <2> QED
      BY <1>1, <1>2, <2>1, <2>2 DEF StaleHub, Text
  <1>3. CASE ~StaleHub(p)
    <2>1. /\ A(p) = None /\ B(p) = L(p) /\ L(p) # None
          /\ ~NeverReceived(p)
      BY <1>3 DEF ShouldDeleteRemote, LocalChanged, HubChanged
    <2>2. files[p] # None /\ L(p) = Recorded(files, p)
      BY <2>1, LIsRecorded
    <2>3. Here \in Client
      BY <1>1, RunParts
    <2>4. files[p].gen \in Nat /\ cursor[Here] \in Nat
      BY <2>2, <2>3 DEF EditInv, ConvergenceInv, TypeOK, Files, Maybe, FileEntry
    <2>5. Received(files, Here, p)
      BY <2>1, <2>2, <2>4 DEF NeverReceived, Received, Here
    <2>6. L(p) \subseteq Text(Here, p) \cup dropped
      BY <2>2, <2>3, <2>5 DEF EditInv, ClientInv, ClientHas
    <2>7. L(p) \subseteq dropped
      BY <1>1, <2>1, <2>6 DEF Text
    <2> QED
      BY <1>1, <2>1, <2>7 DEF Text
  <1> QED
    BY <1>2, <1>3

-----------------------------------------------------------------------------
(* Three kinds of step, by what they do to the trees and the table, and    *)
(* the part of the invariant that is about both.                           *)

HoldInv == HubInv /\ ClientInv /\ PlaceInv

(* The ledger is left alone, and does not come to count.                   *)
SameLedger == /\ UNCHANGED <<base, gen, cursor, made, dropped>>
              /\ LedgerCounts' => LedgerCounts

(* Both sides get u at p, and the table records it.                        *)
LEMMA AgreeHolds ==
  ASSUME EditInv, Running, SameLedger, NEW p \in Path, NEW u \in Content,
         Here' = Here,
         \A r \in Replica, q \in Path :
           Text(r, q)' = IF q = p /\ r \in {Here, Hub} THEN u ELSE Text(r, q),
         \A q \in Path \ {p} : files'[q] = files[q],
         files'[p] = [hash |-> u, gen |-> gen + 1],
         \A e \in Text(Here, p) \ dropped :
           e \in u \/ \E s \in Path \ {p} : e \in Text(Here, s),
         Text(Hub, p) \ Recorded(files, p) \subseteq u \cup dropped,
         LedgerCounts => Recorded(base, p) \subseteq u \cup dropped
  PROVE  HoldInv'
  <1> USE DEF SameLedger
  <1>1. /\ Here \in Client /\ Hub \in Replica /\ Here # Hub
        /\ Client \subseteq Replica /\ Hub \notin Client
    BY RunParts, HubAssumption DEF Replica
  <1>2. /\ \A q \in Path \ {p} : Recorded(files, q)' = Recorded(files, q)
        /\ Recorded(files, p)' = u
        /\ \A q \in Path : Recorded(base, q)' = Recorded(base, q)
    <2>1. gen \in Nat
      BY DEF EditInv, ConvergenceInv, TypeOK
    <2>2. files'[p] # None
      BY <2>1, NoneAssumption DEF FileEntry
    <2> QED
      BY <2>2 DEF Recorded
  <1>3. HubInv'
    BY <1>1, <1>2 DEF EditInv, HubInv, HubHas
  <1>4. ASSUME NEW c \in Client
        PROVE  ClientHas(files, c)' /\ (LedgerCounts' => ClientHas(base, c)')
    <2>1. /\ ClientHas(files, c)
          /\ LedgerCounts => ClientHas(base, c)
          /\ cursor[c] <= gen /\ cursor[c] \in Nat /\ gen \in Nat
      BY DEF EditInv, ClientInv, QuietInv, ConvergenceInv, TypeOK
    <2>2. \A q \in Path \ {p} : /\ Received(files, c, q)' = Received(files, c, q)
                                /\ Received(base, c, q)' = Received(base, c, q)
      BY DEF Received
    <2>3. Received(base, c, p)' = Received(base, c, p)
      BY DEF Received
    <2>4. Received(files, c, p)' => Alone
      BY <2>1 DEF Received
    <2>5. Alone => c = Here
      BY <1>1 DEF Alone
    <2>6. CASE c = Here
      BY <1>1, <1>2, <2>1, <2>2, <2>3, <2>6 DEF ClientHas
    <2>7. CASE c # Here
      BY <1>1, <1>2, <2>1, <2>2, <2>3, <2>4, <2>5, <2>7 DEF ClientHas
    <2> QED
      BY <2>6, <2>7
  <1>5. ClientInv'
    BY <1>4 DEF ClientInv
  <1>6. ASSUME NEW e \in made \ dropped PROVE OnClient(e)' \/ NewOnHub(e)'
    <2>1. ASSUME NEW c \in Client, NEW q \in Path, e \in Text(c, q)
          PROVE  OnClient(e)'
      <3>1. CASE c = Here /\ q = p
        BY <1>1, <2>1, <3>1 DEF OnClient
      <3>2. CASE ~(c = Here /\ q = p)
        <4>1. Text(c, q)' = Text(c, q)
          BY <1>1, <3>2
        <4> QED
          BY <2>1, <4>1 DEF OnClient
      <3> QED
        BY <3>1, <3>2
    <2>2. ASSUME NEW q \in Path, e \in Text(Hub, q) \ Recorded(files, q),
                 LedgerCounts => e \notin Recorded(base, q)
          PROVE  OnClient(e)' \/ NewOnHub(e)'
      <3>1. CASE q = p
        BY <1>1, <2>2, <3>1 DEF OnClient
      <3>2. CASE q # p
        BY <1>1, <1>2, <2>2, <3>2 DEF NewOnHub
      <3> QED
        BY <3>1, <3>2
    <2> QED
      BY <2>1, <2>2 DEF EditInv, PlaceInv, OnClient, NewOnHub
  <1>7. PlaceInv'
    BY <1>6 DEF PlaceInv
  <1> QED
    BY <1>3, <1>5, <1>7 DEF HoldInv

(* Replica r loses p, which was given up, and the table its entry.         *)
LEMMA GoneHolds ==
  ASSUME EditInv, SameLedger, NEW p \in Path, NEW r \in Replica,
         \A s \in Replica, q \in Path :
           Text(s, q)' = IF s = r /\ q = p THEN {} ELSE Text(s, q),
         \A q \in Path \ {p} : files'[q] = files[q],
         files'[p] = None,
         Text(r, p) \subseteq dropped
  PROVE  HoldInv'
  <1> USE DEF SameLedger
  <1>1. Client \subseteq Replica /\ Hub \in Replica
    BY DEF Replica
  <1>2. /\ \A q \in Path \ {p} : Recorded(files, q)' = Recorded(files, q)
        /\ Recorded(files, p)' = {}
        /\ \A q \in Path : Recorded(base, q)' = Recorded(base, q)
    BY DEF Recorded
  <1>3. \A s \in Replica, q \in Path :
          Text(s, q) \subseteq Text(s, q)' \cup dropped
    OBVIOUS
  <1>4. HubInv'
    BY <1>1, <1>2, <1>3 DEF EditInv, HubInv, HubHas
  <1>5. ClientInv'
    <2>1. \A c \in Client, q \in Path \ {p} :
            Received(files, c, q)' = Received(files, c, q)
      BY DEF Received
    <2>2. \A c \in Client, q \in Path :
            Received(base, c, q)' = Received(base, c, q)
      BY DEF Received
    <2> QED
      BY <1>1, <1>2, <1>3, <2>1, <2>2 DEF EditInv, ClientInv, ClientHas
  <1>6. PlaceInv'
    <2>1. \A e : OnClient(e) /\ e \notin dropped => OnClient(e)'
      BY <1>1, <1>3 DEF OnClient
    <2>2. \A e : NewOnHub(e) /\ e \notin dropped => NewOnHub(e)'
      BY <1>1, <1>2, <1>3 DEF NewOnHub
    <2> QED
      BY <2>1, <2>2 DEF EditInv, PlaceInv
  <1> QED
    BY <1>4, <1>5, <1>6 DEF HoldInv

(* Nothing happens to the trees; the table may lose entries.               *)
LEMMA SameHolds ==
  ASSUME EditInv, SameLedger, UNCHANGED tree,
         \A q \in Path : files'[q] \in {files[q], None}
  PROVE  HoldInv'
  <1> USE DEF SameLedger
  <1>1. /\ \A q \in Path : /\ Recorded(files, q)' \subseteq Recorded(files, q)
                           /\ Recorded(base, q)' = Recorded(base, q)
        /\ \A s \in Replica, q \in Path : Text(s, q)' = Text(s, q)
    BY DEF Recorded, Text
  <1>2. Client \subseteq Replica /\ Hub \in Replica
    BY DEF Replica
  <1>3. HubInv'
    BY <1>1, <1>2 DEF EditInv, HubInv, HubHas
  <1>4. ClientInv'
    <2>1. \A c \in Client, q \in Path :
            /\ Received(files, c, q)' => Received(files, c, q)
            /\ Received(base, c, q)' => Received(base, c, q)
      BY DEF Received
    <2> QED
      BY <1>1, <1>2, <2>1 DEF EditInv, ClientInv, ClientHas
  <1>5. PlaceInv'
    BY <1>1, <1>2 DEF EditInv, PlaceInv, OnClient, NewOnHub
  <1> QED
    BY <1>3, <1>4, <1>5 DEF HoldInv

-----------------------------------------------------------------------------
(* The steps of a run, in these terms.                                     *)

LEMMA DecideFrame ==
  ASSUME NEW p \in Path, Decide(p)
  PROVE  /\ Deciding(p)
         /\ UNCHANGED <<gen, base, tombs, cursor, job, made, dropped, touched>>
         /\ Here' = Here
         /\ pc' \in {"reconcile", "writeLocal"}
         /\ SameLedger
  <1>1. /\ Deciding(p)
        /\ UNCHANGED <<gen, base, tombs, cursor, job, made, dropped, touched>>
        /\ pc' \in {"reconcile", "writeLocal"}
    BY DEF Decide, Deciding, Settle, RecordSame, DeleteLocal, DeleteRemote,
           Remove, CopyToLocal, CopyToRemote, Copy, MergePath, Quarantine,
           DryPath, ledgerVars, memoryVars, historyVars, peopleVars
  <1> QED
    BY <1>1 DEF Here, SameLedger, LedgerCounts

(* The version that replaces another, on either side.                      *)
LEMMA CopyHolds ==
  ASSUME EditInv, NEW p \in Path, NEW from \in {Here, Hub},
         NEW to \in {Here, Hub}, from # to, Running,
         SameLedger, Here' = Here, Copy(from, to, p),
         \A e \in Text(Here, p) \ dropped :
           \/ e \in tree[from][p]
           \/ \E s \in Path \ {p} : e \in Text(Here, s),
         Text(Hub, p) \ Recorded(files, p) \subseteq tree[from][p] \cup dropped,
         LedgerCounts => Alone
  PROVE  HoldInv'
  <1>1. Here \in Client /\ Here \in Replica /\ Hub \in Replica /\ Here # Hub
    BY RunParts
  <1>2. PICK u \in Content : u = tree[from][p] /\ u # None
    BY <1>1 DEF Copy, EditInv, ConvergenceInv, TypeOK, Tree, Maybe
  <1>3. \A s \in Replica, q \in Path :
          Text(s, q)' = IF q = p /\ s \in {Here, Hub} THEN u ELSE Text(s, q)
    <2>1. tree' = [tree EXCEPT ![to][p] = u]
      BY <1>2 DEF Copy
    <2>2. u \in Maybe(Content)
      BY <1>2 DEF Maybe
    <2>3. \A s \in Replica, q \in Path :
            Text(s, q)' = IF s = to /\ q = p THEN u ELSE Text(s, q)
      <3>1. to \in Replica
        BY <1>1
      <3>2. /\ Text(to, p)' = IF u = None THEN {} ELSE u
            /\ \A s \in Replica, q \in Path :
                 s # to \/ q # p => Text(s, q)' = Text(s, q)
        BY <2>1, <2>2, <3>1, WriteText, EditType
      <3> QED
        BY <1>2, <3>2
    <2>4. Text(from, p) = u
      BY <1>2 DEF Text
    <2> QED
      BY <1>1, <2>3, <2>4
  <1>4. /\ \A q \in Path \ {p} : files'[q] = files[q]
        /\ files'[p] = [hash |-> u, gen |-> gen + 1]
    BY <1>2, RecordTable, EditType DEF Copy
  <1>5. LedgerCounts => Recorded(base, p) \subseteq u \cup dropped
    <2>1. SUFFICES ASSUME LedgerCounts, Alone
                   PROVE  Recorded(base, p) \subseteq u \cup dropped
      OBVIOUS
    <2>2. Recorded(base, p) \subseteq Text(Hub, p) \cup dropped
      BY <2>1 DEF EditInv, HubInv, HubHas
    <2>3. Recorded(base, p) \subseteq Text(Here, p) \cup dropped
      BY <1>1, <2>1 DEF EditInv, ClientInv, ClientHas, Received
    <2>4. Text(from, p) = u
      BY <1>2 DEF Text
    <2> QED
      BY <2>2, <2>3, <2>4
  <1> QED
    BY <1>2, <1>3, <1>4, <1>5, AgreeHolds

LEMMA CopyToLocalHolds ==
  ASSUME EditInv, NEW p \in Path, CopyToLocal(p) PROVE HoldInv'
  <1>1. /\ Deciding(p) /\ ShouldPull(p) /\ ~job.dryRun /\ Copy(Hub, Here, p)
        /\ SameLedger /\ Here' = Here
    BY DecideFrame DEF CopyToLocal, Decide, Here
  <1>2. /\ Running /\ tree[Here][p] = A(p) /\ tree[Hub][p] = B(p)
        /\ Here # Hub
    BY <1>1, AsSeen, EditType, RunParts
  <1>3. B(p) # None /\ (A(p) = L(p) \/ A(p) = None)
    BY <1>1 DEF ShouldPull, LocalChanged
  <1>4. Text(Here, p) \subseteq tree[Hub][p] \cup dropped
    <2>1. CASE A(p) = None
      BY <1>2, <2>1 DEF Text
    <2>2. CASE A(p) # None
      <3>1. Text(Here, p) = Recorded(files, p)
        BY <1>2, <1>3, <2>2, LIsRecorded DEF Text
      <3> QED
        BY <1>2, <1>3, <3>1 DEF EditInv, HubInv, HubHas, Text
    <2> QED
      BY <2>1, <2>2
  <1>5. Text(Hub, p) = tree[Hub][p]
    BY <1>2, <1>3 DEF Text
  <1>6. LedgerCounts => Alone
    BY <1>1 DEF LedgerCounts, Deciding
  <1> QED
    BY <1>1, <1>2, <1>4, <1>5, <1>6, CopyHolds

LEMMA CopyToRemoteHolds ==
  ASSUME EditInv, NEW p \in Path, CopyToRemote(p) PROVE HoldInv'
  <1>1. /\ Deciding(p) /\ ShouldPush(p) /\ ~job.dryRun /\ Copy(Here, Hub, p)
        /\ SameLedger /\ Here' = Here
    BY DecideFrame DEF CopyToRemote, Decide, Here
  <1>2. /\ Running /\ tree[Here][p] = A(p) /\ tree[Hub][p] = B(p)
        /\ Here # Hub
    BY <1>1, AsSeen, EditType, RunParts
  <1>3. A(p) # None /\ (B(p) = L(p) \/ B(p) = None)
    BY <1>1 DEF ShouldPush, HubChanged
  <1>4. Text(Hub, p) \ Recorded(files, p) = {}
    BY <1>2, <1>3, LIsRecorded DEF Text
  <1>5. Text(Here, p) = tree[Here][p]
    BY <1>2, <1>3 DEF Text
  <1>6. LedgerCounts => Alone
    BY <1>1 DEF LedgerCounts, Deciding
  <1> QED
    BY <1>1, <1>2, <1>4, <1>5, <1>6, CopyHolds

LEMMA DeleteHolds ==
  ASSUME EditInv, NEW p \in Path, DeleteLocal(p) \/ DeleteRemote(p)
  PROVE  HoldInv'
  <1>1. Deciding(p) /\ SameLedger
    BY DecideFrame DEF Decide
  <1>2. Here \in Replica /\ Hub \in Replica
    BY <1>1, AsSeen, EditType, RunParts
  <1>3. PICK r \in {Here, Hub} : Remove(r, p) /\ Text(r, p) \subseteq dropped
    BY <1>1, LocalGivenUp, RemoteGivenUp DEF DeleteLocal, DeleteRemote, Here
  <1>4. tree' = [tree EXCEPT ![r][p] = None] /\ RecordTombstone(p)
    BY <1>3 DEF Remove
  <1>5. None \in Maybe(Content)
    BY DEF Maybe
  <1>6. \A s \in Replica, q \in Path :
          Text(s, q)' = IF s = r /\ q = p THEN {} ELSE Text(s, q)
    <2>1. r \in Replica
      BY <1>2
    <2>2. /\ Text(r, p)' = {}
          /\ \A s \in Replica, q \in Path :
               s # r \/ q # p => Text(s, q)' = Text(s, q)
      BY <1>4, <1>5, <2>1, WriteText, EditType
    <2> QED
      BY <2>2
  <1> QED
    BY <1>1, <1>2, <1>3, <1>4, <1>6, RemoveTable, EditType, GoneHolds

LEMMA RecordSameHolds ==
  ASSUME EditInv, NEW p \in Path, RecordSame(p) PROVE HoldInv'
  <1>1. /\ Deciding(p) /\ SameLedger /\ Here' = Here
        /\ A(p) = B(p) /\ A(p) # None /\ Record(p, tree[Hub][p])
        /\ tree' = tree
    BY DecideFrame DEF RecordSame, Decide
  <1>2. /\ Running /\ tree[Here][p] = A(p) /\ tree[Hub][p] = B(p)
        /\ Here \in Client /\ Here \in Replica /\ Hub \in Replica
    BY <1>1, AsSeen, EditType, RunParts
  <1>3. PICK u \in Content : u = tree[Hub][p] /\ u # None
    BY <1>1, <1>2 DEF EditInv, ConvergenceInv, TypeOK, Tree, Maybe
  <1>4. Text(Here, p) = u /\ Text(Hub, p) = u
    BY <1>1, <1>2, <1>3 DEF Text
  <1>5. \A s \in Replica, q \in Path :
          Text(s, q)' = IF q = p /\ s \in {Here, Hub} THEN u ELSE Text(s, q)
    BY <1>1, <1>4 DEF Text
  <1>6. /\ \A q \in Path \ {p} : files'[q] = files[q]
        /\ files'[p] = [hash |-> u, gen |-> gen + 1]
    BY <1>1, <1>3, RecordTable, EditType
  <1>7. LedgerCounts => Recorded(base, p) \subseteq u \cup dropped
    BY <1>4 DEF EditInv, HubInv, HubHas
  <1> QED
    BY <1>1, <1>2, <1>4, <1>5, <1>6, <1>7, AgreeHolds

LEMMA DecideHolds ==
  ASSUME EditInv, NEW p \in Path, Decide(p) PROVE HoldInv'
  <1>1. SameLedger
    BY DecideFrame
  <1>2. CASE Settle(p)
    <2>1. \A q \in Path : files'[q] \in {files[q], None}
      BY <1>2 DEF Settle, EntryCleared, EditInv, ConvergenceInv, TypeOK, Files
    <2> QED
      BY <1>1, <1>2, <2>1, SameHolds DEF Settle
  <1>3. CASE MergePath(p) \/ Quarantine(p) \/ DryPath(p)
    BY <1>1, <1>3, SameHolds DEF MergePath, Quarantine, DryPath, memoryVars
  <1> QED
    BY <1>2, <1>3, CopyToLocalHolds, CopyToRemoteHolds, DeleteHolds,
       RecordSameHolds DEF Decide

-----------------------------------------------------------------------------
(* writeBoth.  A run that writes is not a dry one, so that the ledger      *)
(* counts only where there is one client.                                  *)

LEMMA WriteFrame ==
  ASSUME EditInv, Write
  PROVE  /\ UNCHANGED <<gen, base, tombs, cursor, job, made, dropped, touched>>
         /\ Here' = Here /\ SameLedger
         /\ Running /\ ~job.dryRun /\ (LedgerCounts => Alone)
         /\ pc' \in {"writeHub", "align", "reconcile"}
         /\ cur \in Path
  <1>1. /\ UNCHANGED <<gen, base, tombs, cursor, job, made, dropped, touched>>
        /\ pc \in {"writeLocal", "writeHub", "align"}
        /\ pc' \in {"writeHub", "align", "reconcile"}
    BY DEF Write, WriteBothLocal, WriteBothHub, AlignLocal, Copy, ledgerVars,
           memoryVars, historyVars, peopleVars
  <1>2. Running /\ ~job.dryRun
    BY <1>1 DEF Running, EditInv, QuietInv, SeenInv, DryInv
  <1>3. cur \in Path
    BY <1>1 DEF EditInv, ConvergenceInv, TypeOK, Maybe
  <1> QED
    BY <1>1, <1>2, <1>3 DEF Here, SameLedger, LedgerCounts

LEMMA WriteBothLocalHolds ==
  ASSUME EditInv, WriteBothLocal PROVE HoldInv'
  <1>1. /\ SameLedger /\ Here' = Here /\ (LedgerCounts => Alone)
        /\ Here \in Client /\ Here \in Replica /\ Hub \in Replica /\ Here # Hub
        /\ Client \subseteq Replica
    BY WriteFrame, RunParts DEF Write, Replica
  <1>2. PICK h \in Client, t \in Path, u \in Content :
          h = Here /\ t = target /\ u = val
    BY <1>1 DEF WriteBothLocal, EditInv, ConvergenceInv, TypeOK
  <1>w. pc = "writeLocal" /\ files' = files
    BY DEF WriteBothLocal, memoryVars
  <1>3. /\ Text(h, t)' = u
        /\ \A s \in Replica, q \in Path :
             s # h \/ q # t => Text(s, q)' = Text(s, q)
    <2>1. tree' = [tree EXCEPT ![h][t] = u]
      BY <1>2 DEF WriteBothLocal, Here
    <2>2. u \in Maybe(Content) /\ u # None
      BY NoneAssumption DEF Maybe
    <2>3. h \in Replica
      BY <1>1
    <2> QED
      BY <2>1, <2>2, <2>3, WriteText, EditType
  <1>4. /\ Text(h, t) \subseteq u \cup dropped
        /\ Received(files, h, t) => Recorded(files, t) \subseteq u \cup dropped
        /\ Alone => Recorded(base, t) \subseteq u \cup dropped
    BY <1>2, <1>w DEF EditInv, WriteInv, Here
  <1>5. \A q \in Path : /\ Recorded(files, q)' = Recorded(files, q)
                        /\ Recorded(base, q)' = Recorded(base, q)
    BY <1>1, <1>w DEF Recorded, SameLedger
  <1>6. HubInv'
    BY <1>1, <1>2, <1>3, <1>5 DEF EditInv, HubInv, HubHas, SameLedger
  <1>7. ClientInv'
    <2>1. \A c \in Client, q \in Path :
            /\ Received(files, c, q)' = Received(files, c, q)
            /\ Received(base, c, q)' = Received(base, c, q)
      BY <1>1, <1>w DEF Received, SameLedger
    <2>2. ASSUME NEW c \in Client PROVE ClientHas(files, c)'
      <3>1. CASE c = h
        BY <1>1, <1>3, <1>4, <1>5, <2>1, <3>1
        DEF EditInv, ClientInv, ClientHas, SameLedger
      <3>2. CASE c # h
        BY <1>1, <1>3, <1>5, <2>1, <3>2
        DEF EditInv, ClientInv, ClientHas, SameLedger
      <3> QED
        BY <3>1, <3>2
    <2>3. ASSUME NEW c \in Client, LedgerCounts' PROVE ClientHas(base, c)'
      <3>1. Alone /\ LedgerCounts
        BY <1>1, <2>3 DEF SameLedger
      <3>2. CASE c = h
        BY <1>1, <1>3, <1>4, <1>5, <2>1, <3>1, <3>2
        DEF EditInv, ClientInv, ClientHas, SameLedger
      <3>3. CASE c # h
        BY <1>1, <1>3, <1>5, <2>1, <3>1, <3>3
        DEF EditInv, ClientInv, ClientHas, SameLedger
      <3> QED
        BY <3>2, <3>3
    <2> QED
      BY <2>2, <2>3 DEF ClientInv
  <1>8. PlaceInv'
    <2>1. ASSUME NEW e \in made \ dropped, OnClient(e) PROVE OnClient(e)'
      <3>1. PICK c \in Client, q \in Path : e \in Text(c, q)
        BY <2>1 DEF OnClient
      <3>2. e \in Text(c, q)'
        BY <1>1, <1>3, <1>4, <2>1, <3>1
      <3> QED
        BY <3>2 DEF OnClient
    <2>2. \A e : NewOnHub(e) => NewOnHub(e)'
      BY <1>1, <1>2, <1>3, <1>5 DEF NewOnHub, SameLedger
    <2> QED
      BY <1>1, <2>1, <2>2 DEF EditInv, PlaceInv, SameLedger
  <1> QED
    BY <1>6, <1>7, <1>8 DEF HoldInv

LEMMA WriteBothHubHolds ==
  ASSUME EditInv, WriteBothHub PROVE HoldInv'
  <1>1. /\ SameLedger /\ Here' = Here /\ (LedgerCounts => Alone) /\ Running
        /\ Here \in Client /\ Here \in Replica /\ Hub \in Replica /\ Here # Hub
    BY WriteFrame, RunParts DEF Write
  <1>2. PICK t \in Path, u \in Content : t = target /\ u = val
    BY DEF WriteBothHub, EditInv, ConvergenceInv, TypeOK
  <1>3. u # None /\ u \in Maybe(Content)
    BY NoneAssumption DEF Maybe
  <1>4. /\ Text(Here, t) = u
        /\ Text(Hub, t) \ Recorded(files, t) \subseteq u \cup dropped
        /\ Alone => Recorded(base, t) \subseteq u \cup dropped
    BY <1>2, <1>3 DEF WriteBothHub, EditInv, WriteInv, Here, Text
  <1>5. \A s \in Replica, q \in Path :
          Text(s, q)' = IF q = t /\ s \in {Here, Hub} THEN u ELSE Text(s, q)
    <2>1. tree' = [tree EXCEPT ![Hub][t] = u]
      BY <1>2 DEF WriteBothHub
    <2>2. /\ Text(Hub, t)' = u
          /\ \A s \in Replica, q \in Path :
               s # Hub \/ q # t => Text(s, q)' = Text(s, q)
      BY <1>1, <1>3, <2>1, WriteText, EditType
    <2> QED
      BY <1>1, <1>4, <2>2
  <1>6. /\ \A q \in Path \ {t} : files'[q] = files[q]
        /\ files'[t] = [hash |-> u, gen |-> gen + 1]
    BY <1>2, RecordTable, EditType DEF WriteBothHub
  <1> QED
    BY <1>1, <1>4, <1>5, <1>6, AgreeHolds

LEMMA AlignLocalHolds ==
  ASSUME EditInv, AlignLocal PROVE HoldInv'
  <1>1. /\ SameLedger /\ Here' = Here /\ (LedgerCounts => Alone) /\ Running
        /\ Here # Hub
    BY WriteFrame, RunParts DEF Write
  <1>2. PICK t \in Path : t = cur
    BY WriteFrame DEF Write
  <1>3. Copy(Hub, Here, t) /\ pc = "align"
    BY <1>2 DEF AlignLocal, Here
  <1>4. \A e \in Text(Here, t) \ dropped :
          \E s \in Path \ {t} : e \in Text(Here, s)
    BY <1>2, <1>3 DEF EditInv, AlignInv, Here
  <1>5. Text(Hub, t) = tree[Hub][t]
    BY <1>3 DEF Copy, Text
  <1> QED
    BY <1>1, <1>3, <1>4, <1>5, CopyHolds

LEMMA WriteHolds ==
  ASSUME EditInv, Write PROVE HoldInv'
  BY WriteBothLocalHolds, WriteBothHubHolds, AlignLocalHolds DEF Write

-----------------------------------------------------------------------------
(* The steps at either end of a run, and those of people.                  *)

LEMMA BeginHolds ==
  ASSUME EditInv, NEW c \in Client, Begin(c) PROVE HoldInv'
  <1>1. /\ UNCHANGED <<tree, base, gen, cursor, made, dropped>>
        /\ files' = base /\ LedgerCounts
    BY DEF Begin, ledgerVars, peopleVars, LedgerCounts
  <1>2. /\ \A q \in Path : /\ Recorded(files, q)' = Recorded(base, q)
                           /\ Recorded(base, q)' = Recorded(base, q)
        /\ \A s, q : Text(s, q)' = Text(s, q)
    BY <1>1 DEF Recorded, Text
  <1>3. HubInv'
    BY <1>1, <1>2 DEF EditInv, HubInv, HubHas
  <1>4. ClientInv'
    <2>1. \A d \in Client, q \in Path :
            /\ Received(files, d, q)' = Received(base, d, q)
            /\ Received(base, d, q)' = Received(base, d, q)
      BY <1>1 DEF Received
    <2> QED
      BY <1>1, <1>2, <2>1 DEF EditInv, ClientInv, ClientHas
  <1>5. PlaceInv'
    BY <1>1, <1>2 DEF EditInv, PlaceInv, OnClient, NewOnHub
  <1> QED
    BY <1>3, <1>4, <1>5 DEF HoldInv

(* A run that forgets its table leaves the ledger as it is.                *)
LEMMA ForgetHolds ==
  ASSUME EditInv, LedgerCounts, files' = NoTree,
         UNCHANGED <<tree, base, gen, cursor, made, dropped>>
  PROVE  HoldInv'
  <1>1. /\ \A q \in Path : /\ Recorded(files, q)' = {}
                           /\ Recorded(base, q)' = Recorded(base, q)
        /\ \A s, q : Text(s, q)' = Text(s, q)
    BY DEF Recorded, Text, NoTree
  <1>2. HubInv'
    BY <1>1 DEF EditInv, HubInv, HubHas
  <1>3. ClientInv'
    <2>1. \A d \in Client, q \in Path :
            Received(base, d, q)' = Received(base, d, q)
      BY DEF Received
    <2> QED
      BY <1>1, <2>1 DEF EditInv, ClientInv, ClientHas
  <1>4. PlaceInv'
    BY <1>1 DEF EditInv, PlaceInv, OnClient, NewOnHub
  <1> QED
    BY <1>2, <1>3, <1>4 DEF HoldInv

(* At Save each path has converged.                                        *)
LEMMA SaveConverged ==
  ASSUME EditInv, Save
  PROVE  \A p \in Path : /\ Text(Here, p) = Recorded(files, p)
                         /\ Text(Hub, p) = Recorded(files, p)
  <1>1. \A p \in Path : Converged(p)
    BY DEF EditInv, QuietInv, SeenInv, ConvergenceInv, ReconcileInv,
           HalfWritten, Save, Phase
  <1> QED
    BY <1>1, NoneAssumption
    DEF Converged, L, Text, Recorded, Here, EditInv, ConvergenceInv, TypeOK,
        Files, Maybe, FileEntry

LEMMA SaveHolds ==
  ASSUME EditInv, Save PROVE HoldInv'
  <1>1. /\ UNCHANGED <<tree, files, job, made, dropped>>
        /\ base' = files /\ cursor' = [cursor EXCEPT ![Here] = gen + 1]
        /\ Here' = Here
    BY DEF Save, memoryVars, historyVars, Here
  <1>2. /\ \A q \in Path : /\ Recorded(files, q)' = Recorded(files, q)
                           /\ Recorded(base, q)' = Recorded(files, q)
        /\ \A s, q : Text(s, q)' = Text(s, q)
    BY <1>1 DEF Recorded, Text
  <1>3. HubInv'
    BY <1>1, <1>2 DEF EditInv, HubInv, HubHas
  <1>4. ASSUME NEW c \in Client
        PROVE  ClientHas(files, c)' /\ ClientHas(base, c)'
    <2>1. CASE c = Here
      BY <1>1, <1>2, <2>1, SaveConverged DEF ClientHas
    <2>2. CASE c # Here
      <3>1. cursor'[c] = cursor[c]
        BY <1>1, <2>2 DEF EditInv, ConvergenceInv, TypeOK
      <3>2. \A q \in Path :
              /\ Received(files, c, q)' = Received(files, c, q)
              /\ Received(base, c, q)' = Received(files, c, q)
        BY <1>1, <3>1 DEF Received
      <3> QED
        BY <1>1, <1>2, <3>2 DEF EditInv, ClientInv, ClientHas
    <2> QED
      BY <2>1, <2>2
  <1>5. PlaceInv'
    BY <1>1, <1>2 DEF EditInv, PlaceInv, OnClient, NewOnHub
  <1> QED
    BY <1>3, <1>4, <1>5 DEF HoldInv, ClientInv

(* Nothing is taken away that is not given up.                             *)
LEMMA GrowHolds ==
  ASSUME EditInv, UNCHANGED <<files, base, gen, cursor, pc, job>>,
         dropped \subseteq dropped',
         \A r \in Replica, q \in Path :
           Text(r, q) \subseteq Text(r, q)' \cup dropped',
         \A e \in made' \ made : OnClient(e)' \/ NewOnHub(e)'
  PROVE  HoldInv'
  <1>1. /\ \A q \in Path : /\ Recorded(files, q)' = Recorded(files, q)
                           /\ Recorded(base, q)' = Recorded(base, q)
        /\ LedgerCounts' = LedgerCounts
    BY DEF Recorded, LedgerCounts
  <1>2. Client \subseteq Replica /\ Hub \in Replica
    BY DEF Replica
  <1>3. HubInv'
    BY <1>1, <1>2 DEF EditInv, HubInv, HubHas
  <1>4. ClientInv'
    <2>1. \A d \in Client, q \in Path :
            /\ Received(files, d, q)' = Received(files, d, q)
            /\ Received(base, d, q)' = Received(base, d, q)
      BY DEF Received
    <2> QED
      BY <1>1, <1>2, <2>1 DEF EditInv, ClientInv, ClientHas
  <1>5. PlaceInv'
    <2>1. \A e : OnClient(e) /\ e \notin dropped' => OnClient(e)'
      BY <1>2 DEF OnClient
    <2>2. \A e : NewOnHub(e) /\ e \notin dropped' => NewOnHub(e)'
      BY <1>1, <1>2 DEF NewOnHub
    <2> QED
      BY <2>1, <2>2 DEF EditInv, PlaceInv
  <1> QED
    BY <1>3, <1>4, <1>5 DEF HoldInv

(* In calm surroundings people act between runs.                           *)
LEMMA PeopleCalm ==
  ASSUME Calm, EditInv, People
  PROVE  /\ ~Running
         /\ UNCHANGED <<files, base, gen, tombs, cursor, spoiled, pc, job,
                        stones, todo, cur, target, val, removed, touched>>
         /\ \/ \E r \in Author, p \in Path, e \in Edit : UserEdit(r, p, e)
            \/ \E r \in Author, p \in Path : UserDelete(r, p)
            \/ \E p \in Path : UserRestore(p)
  BY DEF Calm, People, PeopleMayAct, UserEdit, UserDelete, UserRestore,
         UserReset, RunUnchanged, TouchIfRunning, ledgerVars, blobVars,
         memoryVars, writeVars

LEMMA UserEditHolds ==
  ASSUME EditInv, UNCHANGED <<files, base, gen, cursor, pc, job>>,
         NEW r \in Author, NEW p \in Path, NEW e \in Edit, UserEdit(r, p, e)
  PROVE  /\ \A s \in Replica, q \in Path :
              Text(s, q)' = IF s = r /\ q = p THEN Text(s, q) \cup {e}
                                              ELSE Text(s, q)
         /\ HoldInv'
  <1>1. r \in Replica
    BY AuthorAssumption
  <1>2. PICK u \in Content : u = Text(r, p) \cup {e}
    <2>1. tree[r][p] \in Maybe(Content)
      BY <1>1 DEF EditInv, ConvergenceInv, TypeOK, Tree
    <2>2. Text(r, p) \in Content
      BY <2>1 DEF Text, Maybe, Content
    <2> QED
      BY <2>2 DEF Content
  <1>3. tree' = [tree EXCEPT ![r][p] = u]
    BY <1>2 DEF UserEdit, Text
  <1>4. \A s \in Replica, q \in Path :
          Text(s, q)' = IF s = r /\ q = p THEN Text(s, q) \cup {e}
                                          ELSE Text(s, q)
    <2>1. u \in Maybe(Content) /\ u # None
      BY NoneAssumption DEF Maybe
    <2>2. /\ Text(r, p)' = u
          /\ \A s \in Replica, q \in Path :
               s # r \/ q # p => Text(s, q)' = Text(s, q)
      BY <1>1, <1>3, <2>1, WriteText, EditType
    <2> QED
      BY <1>2, <2>2
  <1>5. /\ e \notin made /\ made' = made \cup {e} /\ dropped' = dropped
    BY DEF UserEdit
  <1>6. e \in Text(r, p)'
    BY <1>1, <1>4
  <1>7. OnClient(e)' \/ NewOnHub(e)'
    <2>1. CASE r \in Client
      BY <1>6, <2>1 DEF OnClient
    <2>2. CASE r = Hub
      <3>1. e \notin Recorded(files, p) /\ e \notin Recorded(base, p)
        BY <1>5 DEF EditInv, MadeInv
      <3>2. e \notin Recorded(files, p)' /\ e \notin Recorded(base, p)'
        BY <3>1 DEF Recorded
      <3> QED
        BY <1>6, <2>2, <3>2 DEF NewOnHub
    <2> QED
      BY <1>1, <2>1, <2>2 DEF Replica
  <1>8. HoldInv'
    BY <1>4, <1>5, <1>7, GrowHolds
  <1> QED
    BY <1>4, <1>8

LEMMA UserDeleteHolds ==
  ASSUME EditInv, UNCHANGED <<files, base, gen, cursor, pc, job>>,
         NEW r \in Author, NEW p \in Path, UserDelete(r, p)
  PROVE  /\ \A s \in Replica, q \in Path :
              Text(s, q)' = IF s = r /\ q = p THEN {} ELSE Text(s, q)
         /\ HoldInv'
  <1>1. r \in Replica /\ None \in Maybe(Content)
    BY AuthorAssumption DEF Maybe
  <1>2. \A s \in Replica, q \in Path :
          Text(s, q)' = IF s = r /\ q = p THEN {} ELSE Text(s, q)
    <2>1. tree' = [tree EXCEPT ![r][p] = None]
      BY DEF UserDelete
    <2>2. /\ Text(r, p)' = {}
          /\ \A s \in Replica, q \in Path :
               s # r \/ q # p => Text(s, q)' = Text(s, q)
      BY <1>1, <2>1, WriteText, EditType
    <2> QED
      BY <2>2
  <1>3. /\ dropped' = dropped \cup Text(r, p) /\ made' = made
    BY DEF UserDelete, Text
  <1>4. HoldInv'
    BY <1>2, <1>3, GrowHolds
  <1> QED
    BY <1>2, <1>4

LEMMA UserRestoreHolds ==
  ASSUME EditInv, UNCHANGED <<files, base, gen, cursor, pc, job>>,
         NEW p \in Path, UserRestore(p)
  PROVE  /\ \A s \in Replica, q \in Path :
              Text(s, q)' = IF s = Hub /\ q = p THEN removed[p] ELSE Text(s, q)
         /\ HoldInv'
  <1>1. /\ Hub \in Replica
        /\ removed[p] \in Maybe(Content) /\ removed[p] # None
    BY DEF Replica, UserRestore, EditInv, ConvergenceInv, TypeOK, Tree
  <1>2. \A s \in Replica, q \in Path :
          Text(s, q)' = IF s = Hub /\ q = p THEN removed[p] ELSE Text(s, q)
    <2>1. tree' = [tree EXCEPT ![Hub][p] = removed[p]]
      BY DEF UserRestore
    <2>2. /\ Text(Hub, p)' = removed[p]
          /\ \A s \in Replica, q \in Path :
               s # Hub \/ q # p => Text(s, q)' = Text(s, q)
      BY <1>1, <2>1, WriteText, EditType
    <2> QED
      BY <2>2
  <1>3. Text(Hub, p) = {} /\ UNCHANGED <<made, dropped>>
    BY DEF UserRestore, Text, peopleVars
  <1>4. HoldInv'
    BY <1>2, <1>3, GrowHolds
  <1> QED
    BY <1>2, <1>4

-----------------------------------------------------------------------------
(* The rest of the invariant.                                              *)

RestInv == QuietInv /\ TombInv /\ WriteInv /\ AlignInv

(* Tombstones.                                                             *)
LEMMA StonesGone ==
  ASSUME EditInv, NEW p \in Path, NEW u, Record(p, u), dropped' = dropped
  PROVE  GivenUp(stones)'
  <1>1. \A q \in Path : stones'[q] \in {stones[q], None}
    BY DEF Record, EditInv, ConvergenceInv, TypeOK, Tombs
  <1> QED
    BY <1>1 DEF EditInv, TombInv, GivenUp

LEMMA DecideTombs ==
  ASSUME EditInv, NEW p \in Path, Decide(p) PROVE TombInv'
  <1>1. /\ Deciding(p) /\ UNCHANGED <<tombs, dropped>>
    BY DecideFrame
  <1>2. GivenUp(tombs)'
    BY <1>1 DEF EditInv, TombInv, GivenUp
  <1>3. CASE \E u : Record(p, u)
    BY <1>1, <1>2, <1>3, StonesGone DEF TombInv
  <1>4. CASE DeleteLocal(p) \/ DeleteRemote(p)
    <2>1. L(p) # None => L(p) \subseteq dropped
      BY <1>1, <1>4, LocalGivenUp, RemoteGivenUp DEF DeleteLocal, DeleteRemote
    <2>2. stones' = [stones EXCEPT ![p] = [last |-> L(p)]]
      BY <1>4 DEF DeleteLocal, DeleteRemote, Remove, RecordTombstone
    <2>3. GivenUp(stones)'
      BY <1>1, <2>1, <2>2 DEF EditInv, TombInv, GivenUp, ConvergenceInv, TypeOK,
                              Tombs
    <2> QED
      BY <1>2, <2>3 DEF TombInv
  <1>5. CASE UNCHANGED stones
    BY <1>1, <1>5 DEF EditInv, TombInv, GivenUp
  <1> QED
    BY <1>3, <1>4, <1>5
    DEF Decide, Settle, RecordSame, CopyToLocal, CopyToRemote, Copy, MergePath,
        Quarantine, DryPath, memoryVars

LEMMA WriteTombs ==
  ASSUME EditInv, Write PROVE TombInv'
  <1>1. UNCHANGED <<tombs, dropped>> /\ cur \in Path
    BY WriteFrame
  <1>2. CASE \E q \in Path : \E u : Record(q, u)
    BY <1>1, <1>2, StonesGone DEF EditInv, TombInv, GivenUp
  <1>3. CASE UNCHANGED stones
    BY <1>1, <1>3 DEF EditInv, TombInv, GivenUp
  <1>4. WriteBothHub => target \in Path
    BY DEF WriteBothHub, EditInv, ConvergenceInv, TypeOK
  <1> QED
    BY <1>1, <1>2, <1>3, <1>4
    DEF Write, WriteBothLocal, WriteBothHub, AlignLocal, Copy, memoryVars

LEMMA DecideQuiet ==
  ASSUME EditInv, NEW p \in Path, Decide(p) PROVE QuietInv'
  <1>1. UNCHANGED <<gen, cursor, spoiled>>
    BY DEF Decide, Settle, RecordSame, DeleteLocal, DeleteRemote, Remove,
           CopyToLocal, CopyToRemote, Copy, Record, MergePath, Quarantine,
           DryPath, ledgerVars, blobVars
  <1>2. SeenInv'
    BY DecideSeen, EditType
  <1> QED
    BY <1>1, <1>2 DEF EditInv, QuietInv

LEMMA WriteQuiet ==
  ASSUME EditInv, Write PROVE QuietInv'
  <1>1. UNCHANGED <<gen, cursor, job, touched>> /\ ~job.dryRun
    BY WriteFrame
  <1>2. spoiled' = spoiled
    BY DEF Write, WriteBothLocal, WriteBothHub, AlignLocal, Copy, Record, blobVars
  <1> QED
    BY <1>1, <1>2 DEF EditInv, QuietInv, SeenInv, DryInv

(* The merge of a and b over l has all of a and b that l does not have,    *)
(* and of l what both have.                                                *)
LEMMA MergeKeeps ==
  ASSUME NEW l, NEW a, NEW b, NEW d, l \subseteq b \cup d
  PROVE  /\ a \subseteq Merged(l, a, b) \cup d
         /\ b \ l \subseteq Merged(l, a, b)
         /\ l \subseteq a \cup d => /\ l \subseteq Merged(l, a, b) \cup d
                                    /\ b \subseteq Merged(l, a, b) \cup d
  BY DEF Merged

LEMMA MergeWrite ==
  ASSUME EditInv, NEW p \in Path, MergePath(p) PROVE WriteInv'
  <1>1. /\ Deciding(p) /\ ~job.dryRun
        /\ tree[Here][p] # None /\ tree[Hub][p] # None /\ L(p) # None
        /\ target' = p /\ cur' = p /\ pc' = "writeLocal"
        /\ UNCHANGED <<tree, files, base, gen, cursor, job, dropped>>
    BY DEF MergePath, Here, memoryVars, historyVars, ledgerVars
  <1>2. /\ L(p) = Recorded(files, p) /\ Text(Here, p) = tree[Here][p]
        /\ Text(Hub, p) = tree[Hub][p]
    BY <1>1, LIsRecorded DEF Text
  <1>3. val' = Merged(Recorded(files, p), Text(Here, p), Text(Hub, p))
    BY <1>2 DEF MergePath, BaseText, EditInv, QuietInv, Here
  <1>4. Here \in Client /\ Here' = Here
    BY <1>1, AsSeen, EditType, RunParts DEF Here
  <1>5. Recorded(files, p) \subseteq Text(Hub, p) \cup dropped
    BY DEF EditInv, HubInv, HubHas
  <1>6. Received(files, Here, p) =>
          Recorded(files, p) \subseteq Text(Here, p) \cup dropped
    BY <1>4 DEF EditInv, ClientInv, ClientHas
  <1>7. Alone => Recorded(base, p) \subseteq Text(Hub, p) \cup dropped
    BY DEF EditInv, HubInv, HubHas, LedgerCounts
  <1>8. /\ Text(Here, p) \subseteq val' \cup dropped
        /\ Text(Hub, p) \ Recorded(files, p) \subseteq val' \cup dropped
        /\ Received(files, Here, p) =>
             Recorded(files, p) \cup Text(Hub, p) \subseteq val' \cup dropped
    BY <1>3, <1>5, <1>6, MergeKeeps
  <1>9. Alone => Received(files, Here, p)
    BY DEF Received
  <1>10. /\ Text(Here, p)' = Text(Here, p) /\ Text(Hub, p)' = Text(Hub, p)
         /\ Recorded(files, p)' = Recorded(files, p)
         /\ Recorded(base, p)' = Recorded(base, p)
         /\ Received(files, Here, p)' = Received(files, Here, p)
    BY <1>1, <1>4 DEF Text, Recorded, Received
  <1>11. Alone => Recorded(base, p) \cup Text(Hub, p) \subseteq val' \cup dropped
    BY <1>7, <1>8, <1>9
  <1> QED
    BY <1>1, <1>4, <1>8, <1>10, <1>11 DEF WriteInv, Here

LEMMA QuarantineWrite ==
  ASSUME EditInv, NEW p \in Path, Quarantine(p) PROVE WriteInv'
  <1>1. /\ Deciding(p) /\ tree[Here][p] # None
        /\ val' = tree[Here][p] /\ cur' = p /\ pc' = "writeLocal"
        /\ target' = CHOOSE s \in Sidecar[p] : NewName(s)
        /\ \E s \in Sidecar[p] : NewName(s)
        /\ UNCHANGED <<tree, files, base, gen, cursor, job, dropped>>
    BY DEF Quarantine, Here, LocalVersion, memoryVars, historyVars, ledgerVars
  <1>2. target' \in Sidecar[p] /\ NewName(target')
    BY <1>1
  <1>3. PICK t \in Path : t = target' /\ NewName(t)
    BY <1>2, PathAssumption
  <1>4. Here \in Replica /\ Hub \in Replica /\ Here' = Here
    BY <1>1, AsSeen, EditType, RunParts DEF Here
  <1>5. /\ Text(Here, t)' = {} /\ Text(Hub, t)' = {}
        /\ Recorded(files, t)' = {} /\ Recorded(base, t)' = {}
        /\ Text(Here, p)' = val'
    BY <1>1, <1>3, <1>4 DEF NewName, Text, Recorded
  <1>6. /\ Text(Here, target)' = {} /\ Text(Hub, target)' = {}
        /\ Recorded(files, target)' = {} /\ Recorded(base, target)' = {}
        /\ Text(Here, cur)' = val'
    BY <1>1, <1>3, <1>5 DEF Text, Recorded
  <1> QED
    BY <1>1, <1>4, <1>6 DEF WriteInv, Here

LEMMA DecideWrite ==
  ASSUME EditInv, NEW p \in Path, Decide(p) PROVE WriteInv' /\ AlignInv'
  <1>1. /\ pc' \in {"reconcile", "writeLocal"}
        /\ pc' = "reconcile" \/ MergePath(p) \/ Quarantine(p)
    <2>1. Deciding(p) /\ pc' \in {"reconcile", "writeLocal"}
      BY DecideFrame
    <2> QED
      BY <2>1 DEF Decide, Deciding, Settle, RecordSame, DeleteLocal,
                  DeleteRemote, Remove, CopyToLocal, CopyToRemote, DryPath
  <1> QED
    BY <1>1, MergeWrite, QuarantineWrite DEF WriteInv, AlignInv

LEMMA WriteWrite ==
  ASSUME EditInv, Write PROVE WriteInv' /\ AlignInv'
  <1>1. /\ UNCHANGED <<base, gen, cursor, job, dropped>> /\ Here' = Here
        /\ Here \in Replica /\ Hub \in Replica /\ Here # Hub /\ cur \in Path
    BY WriteFrame, RunParts
  <1>2. CASE WriteBothLocal
    <2>1. PICK h \in Replica, t \in Path, u \in Content, k \in Path :
            h = Here /\ t = target /\ u = val /\ k = cur
      BY <1>1, <1>2 DEF WriteBothLocal, EditInv, ConvergenceInv, TypeOK
    <2>2. /\ pc' = "writeHub" /\ tree' = [tree EXCEPT ![h][t] = u]
          /\ UNCHANGED <<files, cur, target, val>> /\ pc = "writeLocal"
      BY <1>2, <2>1 DEF WriteBothLocal, memoryVars, writeVars, Here
    <2>3. /\ Text(h, t)' = u
          /\ \A s \in Replica, q \in Path :
               s # h \/ q # t => Text(s, q)' = Text(s, q)
          /\ tree'[h][t] = u
      <3>1. u \in Maybe(Content) /\ u # None
        BY NoneAssumption DEF Maybe
      <3>2. /\ Text(h, t)' = u
            /\ \A s \in Replica, q \in Path :
                 s # h \/ q # t => Text(s, q)' = Text(s, q)
        BY <2>2, <3>1, WriteText, EditType
      <3> QED
        BY <2>2, <3>2 DEF EditInv, ConvergenceInv, TypeOK, Tree
    <2>4. /\ Recorded(files, t)' = Recorded(files, t)
          /\ Recorded(base, t)' = Recorded(base, t)
          /\ Received(files, h, t)' = Received(files, h, t)
      BY <1>1, <2>2 DEF Recorded, Received
    <2>5. /\ Text(Hub, t) \ Recorded(files, t) \subseteq u \cup dropped
          /\ Received(files, h, t) => Recorded(files, t) \subseteq u \cup dropped
          /\ Alone => Recorded(base, t) \cup Text(Hub, t) \subseteq u \cup dropped
          /\ t # k => Text(h, k) \subseteq u \cup dropped
      BY <2>1, <2>2 DEF EditInv, WriteInv, Here
    <2>6. Text(Hub, t)' = Text(Hub, t) /\ (t # k => Text(h, k)' = Text(h, k))
      BY <1>1, <2>1, <2>3
    <2>7. /\ Text(h, t)' \subseteq u \cup dropped
          /\ (Text(Hub, t) \ Recorded(files, t))' \subseteq u \cup dropped
          /\ Received(files, h, t)' => Recorded(files, t)' \subseteq u \cup dropped
          /\ Alone => (Recorded(base, t) \cup Text(Hub, t))'
                        \subseteq u \cup dropped
          /\ t # k => Text(h, k)' \subseteq u \cup dropped
      BY <2>3, <2>4, <2>5, <2>6
    <2>8. /\ h = job'.client /\ t = target' /\ k = cur' /\ u = val'
          /\ dropped' = dropped
      BY <1>1, <2>1, <2>2 DEF Here
    <2>9. /\ Text(h, t)' = Text(job.client, target)'
          /\ Text(Hub, t)' = Text(Hub, target)'
          /\ Recorded(files, t)' = Recorded(files, target)'
          /\ Recorded(base, t)' = Recorded(base, target)'
          /\ Received(files, h, t)' = Received(files, job.client, target)'
          /\ Text(h, k)' = Text(job.client, cur)'
      BY <2>8 DEF Text, Recorded, Received
    <2>10. WriteInv'
      BY <2>3, <2>7, <2>8, <2>9 DEF WriteInv
    <2> QED
      BY <2>2, <2>10 DEF AlignInv
  <1>3. CASE WriteBothHub
    <2>1. PICK h \in Replica, t \in Path, k \in Path :
            h = Here /\ t = target /\ k = cur
      BY <1>1, <1>3 DEF WriteBothHub, EditInv, ConvergenceInv, TypeOK
    <2>2. /\ tree' = [tree EXCEPT ![Hub][t] = val] /\ pc = "writeHub"
          /\ pc' = IF t # k THEN "align" ELSE "reconcile"
          /\ pc' = "align" => cur' = cur
          /\ val \in Maybe(Content) /\ val # None
      BY <1>3, <2>1, NoneAssumption
      DEF WriteBothHub, WritesSidecar, Maybe, EditInv, ConvergenceInv, TypeOK
    <2>3. WriteInv'
      BY <2>2 DEF WriteInv
    <2>4. SUFFICES ASSUME t # k PROVE AlignInv'
      BY <2>2, <2>3 DEF AlignInv
    <2>5. Text(h, t) = val /\ Text(h, k) \subseteq val \cup dropped
      BY <2>1, <2>2, <2>4 DEF EditInv, WriteInv, Text, Here
    <2>6. Text(h, t)' = Text(h, t) /\ Text(h, k)' = Text(h, k)
      BY <1>1, <2>1, <2>2 DEF EditInv, ConvergenceInv, TypeOK, Tree, Text
    <2>7. Text(h, k)' \subseteq Text(h, t)' \cup dropped'
      BY <1>1, <2>5, <2>6
    <2>8. h = job'.client /\ k = cur'
      BY <1>1, <2>1, <2>2, <2>4 DEF Here
    <2>9. /\ Text(h, k)' = Text(job.client, cur)'
          /\ Text(h, t)' = Text(job.client, t)'
      BY <2>8 DEF Text
    <2> QED
      BY <2>1, <2>4, <2>7, <2>8, <2>9 DEF AlignInv
  <1>4. CASE AlignLocal
    BY <1>4 DEF AlignLocal, WriteInv, AlignInv
  <1> QED
    BY <1>2, <1>3, <1>4 DEF Write

LEMMA DecideRest ==
  ASSUME EditInv, NEW p \in Path, Decide(p) PROVE RestInv'
  BY DecideQuiet, DecideTombs, DecideWrite DEF RestInv

LEMMA WriteRest ==
  ASSUME EditInv, Write PROVE RestInv'
  BY WriteQuiet, WriteTombs, WriteWrite DEF RestInv

LEMMA BeginRest ==
  ASSUME Calm, EditInv, NEW c \in Client, Begin(c) PROVE RestInv'
  <1>1. /\ UNCHANGED <<gen, tombs, cursor, dropped, spoiled>>
        /\ stones' = tombs /\ pc' = "reconcile"
    BY DEF Begin, ledgerVars, blobVars, peopleVars
  <1>2. QuietInv'
    BY <1>1, BeginSeen DEF Calm, Undisturbed, EditInv, QuietInv
  <1>3. TombInv'
    BY <1>1 DEF EditInv, TombInv, GivenUp
  <1> QED
    BY <1>1, <1>2, <1>3 DEF RestInv, WriteInv, AlignInv

(* The end of a run.                                                       *)
LEMMA EndRest ==
  ASSUME EditInv, EndRun, spoiled' = {},
         UNCHANGED <<tree, base, gen, tombs, cursor, made, dropped, removed>>
  PROVE  RestInv'
  <1>1. /\ pc' = "idle" /\ files' = NoTree /\ stones' = NoTree /\ val' = None
        /\ touched' = {}
    BY DEF EndRun, ForgetRun
  <1>2. QuietInv'
    BY <1>1 DEF EditInv, QuietInv, SeenInv, DryInv, Running
  <1>3. TombInv'
    BY <1>1 DEF EditInv, TombInv, GivenUp, NoTree
  <1> QED
    BY <1>1, <1>2, <1>3 DEF RestInv, WriteInv, AlignInv

LEMMA SaveRest ==
  ASSUME EditInv, Save PROVE RestInv'
  <1>1. /\ UNCHANGED <<tree, files, stones, job, made, dropped, removed, val,
                       touched, spoiled>>
        /\ base' = files /\ tombs' = stones /\ gen' = gen + 1
        /\ cursor' = [cursor EXCEPT ![Here] = gen + 1]
        /\ pc' = "gc" /\ ~job.dryRun
    BY DEF Save, memoryVars, historyVars, blobVars, writeVars, Here
  <1>2. QuietInv'
    <2>1. gen \in Nat /\ cursor \in [Client -> Nat]
      BY DEF EditInv, ConvergenceInv, TypeOK
    <2> QED
      BY <1>1, <2>1 DEF EditInv, QuietInv, SeenInv, DryInv
  <1>3. TombInv'
    BY <1>1 DEF EditInv, TombInv, GivenUp
  <1> QED
    BY <1>1, <1>2, <1>3 DEF RestInv, WriteInv, AlignInv

LEMMA PeopleRest ==
  ASSUME Calm, EditInv, People PROVE RestInv' /\ HoldInv'
  <1>1. /\ ~Running
        /\ UNCHANGED <<files, base, gen, tombs, cursor, spoiled, pc, job,
                       stones, todo, cur, target, val, removed, touched>>
        /\ \/ \E r \in Author, p \in Path, e \in Edit : UserEdit(r, p, e)
           \/ \E r \in Author, p \in Path : UserDelete(r, p)
           \/ \E p \in Path : UserRestore(p)
    BY PeopleCalm
  <1>2. HoldInv' /\ dropped \subseteq dropped'
    <2>1. CASE \E r \in Author, p \in Path, e \in Edit : UserEdit(r, p, e)
      <3>1. PICK r \in Author, p \in Path, e \in Edit : UserEdit(r, p, e)
        BY <2>1
      <3>2. dropped' = dropped
        BY <3>1 DEF UserEdit
      <3> QED
        BY <1>1, <3>1, <3>2, UserEditHolds
    <2>2. CASE \E r \in Author, p \in Path : UserDelete(r, p)
      <3>1. PICK r \in Author, p \in Path : UserDelete(r, p)
        BY <2>2
      <3>2. dropped \subseteq dropped'
        BY <3>1 DEF UserDelete
      <3> QED
        BY <1>1, <3>1, <3>2, UserDeleteHolds
    <2>3. CASE \E p \in Path : UserRestore(p)
      <3>1. PICK p \in Path : UserRestore(p)
        BY <2>3
      <3>2. dropped' = dropped
        BY <3>1 DEF UserRestore, peopleVars
      <3> QED
        BY <1>1, <3>1, <3>2, UserRestoreHolds
    <2> QED
      BY <1>1, <2>1, <2>2, <2>3
  <1>3. QuietInv'
    BY <1>1 DEF EditInv, QuietInv, SeenInv, DryInv, Running
  <1>4. TombInv'
    BY <1>1, <1>2 DEF EditInv, TombInv, GivenUp
  <1> QED
    BY <1>1, <1>2, <1>3, <1>4 DEF RestInv, WriteInv, AlignInv, Running

-----------------------------------------------------------------------------
(* The invariant holds throughout.                                         *)

LEMMA InitEdit == Init => EditInv
  <1> SUFFICES ASSUME Init PROVE EditInv
    OBVIOUS
  <1>1. ConvergenceInv
    BY InitType, InitConverges DEF ConvergenceInv
  <1>2. /\ \A r \in Replica, p \in Path : Text(r, p) = {}
        /\ \A p \in Path : Recorded(files, p) = {} /\ Recorded(base, p) = {}
    BY DEF Init, Text, Recorded, NoTree
  <1>3. HubInv /\ ClientInv
    BY <1>2 DEF HubInv, HubHas, ClientInv, ClientHas
  <1>4. QuietInv /\ MadeInv /\ TombInv
    BY <1>2, InitMade
    DEF Init, QuietInv, SeenInv, DryInv, Running, TombInv, GivenUp, NoTree
  <1>5. PlaceInv /\ WriteInv /\ AlignInv
    BY DEF Init, PlaceInv, WriteInv, AlignInv
  <1> QED
    BY <1>1, <1>3, <1>4, <1>5 DEF EditInv

LEMMA StepEdit == Calm /\ EditInv /\ [Next]_vars => EditInv'
  <1> SUFFICES ASSUME Calm, EditInv, [Next]_vars PROVE EditInv'
    OBVIOUS
  <1>1. ConvergenceInv'
    BY StepType, StepConverges DEF EditInv, ConvergenceInv
  <1>2. HoldInv' /\ RestInv'
    <2>1. CASE \E c \in Client : Begin(c)
      BY <2>1, BeginHolds, BeginRest
    <2>2. CASE \E p \in Path : Decide(p)
      BY <2>2, DecideHolds, DecideRest
    <2>3. CASE Write
      BY <2>3, WriteHolds, WriteRest
    <2>4. CASE Save
      BY <2>4, SaveHolds, SaveRest
    <2>5. CASE CollectBlobs \/ EndDryRun \/ Failure
      <3>1. /\ EndRun /\ spoiled' = {} /\ LedgerCounts
            /\ UNCHANGED <<tree, base, gen, tombs, cursor, made, dropped,
                           removed>>
        BY <2>5 DEF Failure, CollectBlobs, EndDryRun, Stop, Tear, Calm, EditInv,
                    QuietInv, LedgerCounts, ledgerVars, blobVars, peopleVars
      <3> QED
        BY <3>1, ForgetHolds, EndRest DEF EndRun, ForgetRun
    <2>6. CASE People
      BY <2>6, PeopleRest
    <2>7. CASE UNCHANGED vars
      <3>1. UNCHANGED <<files, base, gen, cursor, pc, job, made, dropped, tree>>
        BY <2>7 DEF vars
      <3>2. HoldInv'
        BY <3>1, GrowHolds DEF Text
      <3>3. RestInv'
        BY <2>7 DEF vars, EditInv, RestInv, QuietInv, SeenInv, DryInv,
                    AsScanned, A, B,
                    Running, Text, Recorded, TombInv, GivenUp,
                    WriteInv, Received, AlignInv
      <3> QED
        BY <3>2, <3>3
    <2> QED
      BY <2>1, <2>2, <2>3, <2>4, <2>5, <2>6, <2>7 DEF Next, Run, Finish
  <1>3. MadeInv'
    BY StepMade, EditType DEF EditInv
  <1> QED
    BY <1>1, <1>2, <1>3 DEF EditInv, HoldInv, RestInv

LEMMA EditInvHolds == Calm => (Spec => []EditInv)
  <1>1. Init => EditInv
    BY InitEdit
  <1>2. Calm /\ EditInv /\ [Next]_vars => EditInv'
    BY StepEdit
  <1>3. ASSUME Calm PROVE Spec => []EditInv
    <2>1. EditInv /\ [Next]_vars => EditInv'
      BY <1>2, <1>3
    <2> QED
      BY <1>1, <2>1, PTL DEF Spec
  <1> QED
    BY <1>3

(* No edit is lost, whatever the number of clients and of runs: what       *)
(* somebody wrote and nobody deleted is in some file of some replica at    *)
(* every moment.                                                           *)
THEOREM EditsSurvive == Calm => (Spec => []NoLostEdit)
  <1>1. EditInv => NoLostEdit
    <2> SUFFICES ASSUME EditInv, NEW e \in made \ dropped PROVE e \in Kept
      BY DEF NoLostEdit
    <2>1. e \in Edit
      BY DEF EditInv, ConvergenceInv, TypeOK
    <2>2. \E r \in Replica, p \in Path : e \in Text(r, p)
      BY DEF EditInv, PlaceInv, OnClient, NewOnHub, Replica
    <2> QED
      BY <2>1, <2>2 DEF Kept, Text
  <1>2. ASSUME Calm PROVE Spec => []NoLostEdit
    <2>1. Spec => []EditInv
      BY <1>2, EditInvHolds
    <2> QED
      BY <1>1, <2>1, PTL
  <1> QED
    BY <1>2

-----------------------------------------------------------------------------
(* What a step takes away.                                                 *)

(* What one step of a run does to the trees.                               *)
LEMMA RunWrites ==
  ASSUME Calm, EditInv, Running, Next
  PROVE  \/ UNCHANGED tree
         \/ \E p \in Path : DeleteLocal(p) \/ DeleteRemote(p)
         \/ \E p \in Path : CopyToLocal(p) \/ CopyToRemote(p)
         \/ Write
  BY PeopleCalm
  DEF Next, Run, Begin, Running, Decide, Settle, RecordSame, MergePath,
      Quarantine, DryPath, Finish, Save, CollectBlobs, EndDryRun, Failure,
      Stop, Tear, Calm

LEMMA WriteFills ==
  ASSUME EditInv, Write
  PROVE  \A r \in Replica, p \in Path :
           tree'[r][p] = tree[r][p] \/ tree'[r][p] # None
  <1>1. /\ tree \in [Replica -> Tree]
        /\ val # None \/ AlignLocal
    BY NoneAssumption
    DEF Write, WriteBothLocal, WriteBothHub, EditInv, ConvergenceInv, TypeOK
  <1> QED
    BY <1>1 DEF Write, WriteBothLocal, WriteBothHub, AlignLocal, Copy, EditInv,
                ConvergenceInv, TypeOK, Tree

(* A run removes a file from a replica only if people gave up, on this or  *)
(* another replica, every edit that the file incorporates.                 *)
THEOREM DeletesWanted == Calm => (Spec => NoUnwantedDelete)
  <1>1. ASSUME Calm, EditInv, Next, Running,
               NEW r \in Replica, NEW p \in Path,
               tree[r][p] # None, tree'[r][p] = None
        PROVE  tree[r][p] \subseteq dropped'
    <2>1. CASE UNCHANGED tree
      BY <1>1, <2>1
    <2>2. CASE \E q \in Path : DeleteLocal(q) \/ DeleteRemote(q)
      <3>1. PICK q \in Path : DeleteLocal(q) \/ DeleteRemote(q)
        BY <2>2
      <3>2. /\ Deciding(q) /\ dropped' = dropped
        BY <1>1, <3>1, DecideFrame DEF Decide
      <3>3. PICK s \in {Here, Hub} :
              /\ tree' = [tree EXCEPT ![s][q] = None]
              /\ Text(s, q) \subseteq dropped
        BY <1>1, <3>1, <3>2, LocalGivenUp, RemoteGivenUp
        DEF DeleteLocal, DeleteRemote, Remove, Here
      <3>4. r = s /\ p = q
        BY <1>1, <3>3 DEF EditInv, ConvergenceInv, TypeOK, Tree
      <3> QED
        BY <1>1, <3>2, <3>3, <3>4 DEF Text
    <2>3. CASE \E q \in Path : CopyToLocal(q) \/ CopyToRemote(q)
      <3>1. PICK q \in Path, s \in {Here, Hub}, t \in {Here, Hub} :
              Copy(s, t, q)
        BY <2>3 DEF CopyToLocal, CopyToRemote, Here
      <3>2. FALSE
        BY <1>1, <3>1 DEF Copy, EditInv, ConvergenceInv, TypeOK, Tree
      <3> QED
        BY <3>2
    <2>4. CASE Write
      BY <1>1, <2>4, WriteFills
    <2> QED
      BY <1>1, <2>1, <2>2, <2>3, <2>4, RunWrites
  <1>2. ASSUME Calm PROVE Spec => NoUnwantedDelete
    <2>1. EditInv /\ [Next]_vars =>
            [Running => \A r \in Replica, p \in Path :
               (tree[r][p] # None /\ tree'[r][p] = None) =>
                 tree[r][p] \subseteq dropped']_vars
      BY <1>1, <1>2
    <2>2. Spec => []EditInv
      BY <1>2, EditInvHolds
    <2> QED
      BY <2>1, <2>2, PTL DEF Spec, NoUnwantedDelete
  <1> QED
    BY <1>2

(* With one client: what replaces a version on the hub has every edit of   *)
(* that version which nobody gave up.  (With two clients it does not, see  *)
(* StaleOverwrite: a client may hold an older version with a change.)      *)
THEOREM OverwritesTell == Calm /\ Alone => (Spec => NoSilentOverwrite)
  <1>1. ASSUME Calm, Alone, EditInv, Next, NEW p \in Path,
               tree[Hub][p] # None, tree'[Hub][p] # None
        PROVE  tree[Hub][p] \ dropped' \subseteq tree'[Hub][p]
    <2>0. /\ Hub \in Replica /\ Client \subseteq Replica /\ Hub \notin Client
          /\ tree \in [Replica -> Tree]
          /\ Text(Hub, p) = tree[Hub][p]
      BY <1>1, HubAssumption DEF Replica, EditInv, ConvergenceInv, TypeOK, Text
    <2>1. CASE tree'[Hub][p] = tree[Hub][p]
      BY <2>1
    <2>2. CASE People
      <3>1. tree[Hub][p] \subseteq tree'[Hub][p]
        BY <1>1, <2>0, <2>2, PeopleCalm, AuthorAssumption
        DEF UserEdit, UserDelete, UserRestore, Tree
      <3> QED
        BY <3>1
    <2>3. CASE Running /\ ~People
      <3>1. Here \in Client /\ Here # Hub
        BY <1>1, <2>3, RunParts
      <3>2. CASE \E q \in Path : DeleteLocal(q) \/ DeleteRemote(q)
        <4>1. PICK q \in Path, s \in {Here, Hub} :
                tree' = [tree EXCEPT ![s][q] = None]
          BY <3>2 DEF DeleteLocal, DeleteRemote, Remove, Here
        <4> QED
          BY <1>1, <2>0, <2>1, <3>1, <4>1 DEF Tree
      <3>3. CASE \E q \in Path : CopyToLocal(q)
        BY <2>0, <2>1, <3>1, <3>3 DEF CopyToLocal, Copy, Here
      <3>4. CASE \E q \in Path : CopyToRemote(q)
        <4>1. PICK q \in Path : CopyToRemote(q)
          BY <3>4
        <4>2. CASE q # p
          BY <2>0, <2>1, <4>1, <4>2 DEF CopyToRemote, Copy, Tree
        <4>3. CASE q = p
          <5>1. /\ Deciding(p) /\ ShouldPush(p)
                /\ tree' = [tree EXCEPT ![Hub][p] = tree[Here][p]]
                /\ tree[Here][p] # None
            BY <4>1, <4>3 DEF CopyToRemote, Copy, Here
          <5>2. tree[Hub][p] = B(p)
            BY <1>1, <5>1, AsSeen, EditType
          <5>3. B(p) = L(p) /\ L(p) # None
            BY <1>1, <5>1, <5>2 DEF ShouldPush, HubChanged
          <5>4. tree[Hub][p] = Recorded(files, p)
            BY <5>2, <5>3, LIsRecorded
          <5>5. Recorded(files, p) \subseteq Text(Here, p) \cup dropped
            BY <1>1, <3>1 DEF EditInv, ClientInv, ClientHas, Received
          <5>6. tree'[Hub][p] = Text(Here, p)
            BY <2>0, <5>1 DEF Tree, Text
          <5>7. dropped' = dropped
            BY <1>1, <4>1, <4>3, DecideFrame DEF Decide
          <5> QED
            BY <5>4, <5>5, <5>6, <5>7
        <4> QED
          BY <4>2, <4>3
      <3>5. CASE WriteBothLocal \/ AlignLocal
        BY <2>0, <2>1, <3>1, <3>5 DEF WriteBothLocal, AlignLocal, Copy, Here
      <3>6. CASE WriteBothHub
        <4>1. PICK t \in Path : t = target
          BY <1>1, <3>6 DEF WriteBothHub, EditInv, ConvergenceInv, TypeOK
        <4>2. /\ tree' = [tree EXCEPT ![Hub][t] = val] /\ dropped' = dropped
          BY <3>6, <4>1 DEF WriteBothHub, historyVars
        <4>3. Text(Hub, t) \subseteq val \cup dropped
          BY <1>1, <3>6, <4>1 DEF WriteBothHub, EditInv, WriteInv
        <4> QED
          BY <2>0, <2>1, <4>2, <4>3 DEF Tree
      <3> QED
        BY <1>1, <2>1, <2>3, <3>2, <3>3, <3>4, <3>5, <3>6, RunWrites DEF Write
    <2>4. CASE ~Running /\ ~People
      <3>1. UNCHANGED tree
        BY <1>1, <2>4, WriteFrame
        DEF Next, Run, Begin, Decide, Settle, RecordSame, DeleteLocal,
            DeleteRemote, CopyToLocal, CopyToRemote, MergePath, Quarantine,
            DryPath, Deciding, Running, Finish, Save, CollectBlobs, EndDryRun,
            Failure, Stop, Tear
      <3> QED
        BY <3>1
    <2> QED
      BY <2>2, <2>3, <2>4
  <1>2. ASSUME Calm, Alone PROVE Spec => NoSilentOverwrite
    <2>1. EditInv /\ [Next]_vars =>
            [\A p \in Path :
               (tree[Hub][p] # None /\ tree'[Hub][p] # None) =>
                 tree[Hub][p] \ dropped' \subseteq tree'[Hub][p]]_vars
      BY <1>1, <1>2
    <2>2. Spec => []EditInv
      BY <1>2, EditInvHolds
    <2> QED
      BY <2>1, <2>2, PTL DEF Spec, NoSilentOverwrite
  <1> QED
    BY <1>2
=============================================================================
