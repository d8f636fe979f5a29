---------------------------- MODULE LedgerStore ----------------------------
(***************************************************************************)
(* How internal/ledger keeps ledger.json on the hub: Load with its         *)
(* fallback to ledger.bak, and Save as the file operations it makes, each  *)
(* of which may be the last one of its run.                                *)
(*                                                                         *)
(* Simplifications:                                                        *)
(*  - one run at a time, as in module Worktree;                            *)
(*  - a ledger is its generation and an opaque body;                       *)
(*  - a file that does not decode is Corrupt, whatever is in it;           *)
(*  - MkdirAll, and what a run does between Load and Save, are left out;   *)
(*  - a Load that returns an error ends its run and changes nothing, so it *)
(*    is no step.                                                          *)
(***************************************************************************)
EXTENDS Naturals

CONSTANTS
    Body,           \* what a ledger can say
    Blank,          \* what an empty ledger says (New)
    None,           \* no file, or no ledger loaded
    Corrupt,        \* a file that cannot be read or decoded
    RenameReplaces, \* os.Rename replaces its target, SMB's rename refuses to
    Fault,          \* what may go wrong, see FaultKind
    MaxGen          \* bound: the last generation that is saved

Ledger == [gen : Nat, body : Body]
Empty  == [gen |-> 0, body |-> Blank]

Name  == {"primary", "bak", "tmp"}
File  == Ledger \cup {None, Corrupt}

FaultKind ==
    { "stop",       \* a run ends early: I/O error, timeout, killed process
      "read",       \* a read fails, for another reason than a missing file
      "ignored",    \* Stat or Remove fails, and Save goes on
      "power"       \* the hub loses power: what was not synced is lost
    }

ASSUME BodyAssumption  == Blank \in Body
ASSUME MarkAssumption  == None \notin Ledger /\ Corrupt \notin Ledger
                            /\ None # Corrupt
ASSUME FaultAssumption == Fault \subseteq FaultKind
ASSUME FlagAssumption  == RenameReplaces \in BOOLEAN
ASSUME MaxGenAssumption == MaxGen \in Nat

VARIABLES
    store,      \* store[f]: the content of ledger.json, .bak and .json.tmp
    dirty,      \* the files whose content has not reached the disk
    pc,         \* the next file operation of the active run
    held,       \* the ledger it has loaded, or None
    latest,     \* history: the ledger committed last, Empty before
    previous    \* history: the one committed before it

vars == <<store, dirty, pc, held, latest, previous>>

Saving == {"stat", "removeBak", "rotate", "commit"}

TypeOK ==
    /\ store \in [Name -> File]
    /\ dirty \subseteq Name
    /\ pc \in {"idle", "loaded"} \cup Saving
    /\ held \in Ledger \cup {None}
    /\ (held = None) <=> (pc = "idle")
    /\ latest \in Ledger
    /\ previous \in Ledger

Init ==
    /\ store = [f \in Name |-> None]
    /\ dirty = {}
    /\ pc = "idle"
    /\ held = None
    /\ latest = Empty
    /\ previous = Empty

-----------------------------------------------------------------------------
(* Load.                                                                   *)

(* What readLedger may find in a file: Corrupt is any error but NotExist.  *)
Read(f) == {store[f]} \cup (IF "read" \in Fault THEN {Corrupt} ELSE {})

(* Mutant: a backup is only looked for when the primary does not decode.   *)
LoadedOnlyIfCorrupt(p, b) ==
    IF p \in Ledger THEN p
    ELSE IF p = None THEN Empty
    ELSE IF b \in Ledger THEN b ELSE None

(* What Load makes of it; None is an error.                                *)
Loaded(p, b) ==
    IF p \in Ledger THEN p
    ELSE IF b \in Ledger THEN b
    ELSE IF p = None THEN Empty ELSE None

Load ==
    /\ pc = "idle"
    /\ \E p \in Read("primary"), b \in Read("bak") :
         /\ Loaded(p, b) # None
         /\ held' = Loaded(p, b)
    /\ pc' = "loaded"
    /\ UNCHANGED <<store, dirty, latest, previous>>

-----------------------------------------------------------------------------
(* Save: one action per file operation.                                    *)

(* os.Rename and SMB's rename; no sync anywhere.                           *)
Renamed(from, to) ==
    /\ store' = [store EXCEPT ![to] = store[from], ![from] = None]
    /\ dirty' = (dirty \ {from, to})
                  \cup (IF from \in dirty THEN {to} ELSE {})

Lands(to) == RenameReplaces \/ store[to] = None

WriteTmp(b) ==
    /\ pc = "loaded"
    /\ held.gen < MaxGen
    /\ store' = [store EXCEPT !["tmp"] = [gen |-> held.gen + 1, body |-> b]]
    /\ dirty' = dirty \cup {"tmp"}
    /\ pc' = "stat"
    /\ UNCHANGED <<held, latest, previous>>

(* Mutant: a backup that is there already is not renewed.                  *)
StatBackup ==
    /\ pc = "stat"
    /\ \/ store["primary"] # None /\ store["bak"] = None /\ pc' = "removeBak"
       \/ /\ store["primary"] = None \/ store["bak"] # None
          /\ pc' = "commit"
    /\ UNCHANGED <<store, dirty, held, latest, previous>>

StatPrimary ==
    /\ pc = "stat"
    /\ \/ store["primary"] # None /\ pc' = "removeBak"
       \/ store["primary"] = None /\ pc' = "commit"
       \/ "ignored" \in Fault /\ pc' = "commit"
    /\ UNCHANGED <<store, dirty, held, latest, previous>>

(* Mutant: the old backup is left for the rename to replace.               *)
KeepBak ==
    /\ pc = "removeBak"
    /\ pc' = "rotate"
    /\ UNCHANGED <<store, dirty, held, latest, previous>>

RemoveBak ==
    /\ pc = "removeBak"
    /\ \/ /\ store' = [store EXCEPT !["bak"] = None]
          /\ dirty' = dirty \ {"bak"}
       \/ /\ "ignored" \in Fault
          /\ UNCHANGED <<store, dirty>>
    /\ pc' = "rotate"
    /\ UNCHANGED <<held, latest, previous>>

(* Mutant: the current ledger is dropped where it should be rotated.       *)
DropPrimary ==
    /\ pc = "rotate"
    /\ store' = [store EXCEPT !["primary"] = None]
    /\ dirty' = dirty \ {"primary"}
    /\ pc' = "commit"
    /\ UNCHANGED <<held, latest, previous>>

Rotate ==
    /\ pc = "rotate"
    /\ Lands("bak")
    /\ Renamed("primary", "bak")
    /\ pc' = "commit"
    /\ UNCHANGED <<held, latest, previous>>

Commit ==
    /\ pc = "commit"
    /\ Lands("primary")
    /\ Renamed("tmp", "primary")
    /\ pc' = "idle"
    /\ held' = None
    /\ latest' = store["tmp"]
    /\ previous' = latest

-----------------------------------------------------------------------------
(* Ends of a run without a commit.                                         *)

(* Mutant: the loaded ledger outlives its run.                             *)
ForgetPcOnly == pc' = "idle" /\ UNCHANGED <<held, latest, previous>>

Forget == pc' = "idle" /\ held' = None /\ UNCHANGED <<latest, previous>>

(* A rename that finds its target where the server does not replace it.    *)
Refused ==
    /\ \/ pc = "rotate" /\ ~Lands("bak")
       \/ pc = "commit" /\ ~Lands("primary")
    /\ Forget
    /\ UNCHANGED <<store, dirty>>

(* An error, a timeout or a kill; in the middle of WriteFile it leaves a   *)
(* truncated ledger.json.tmp.                                              *)
Stop ==
    /\ "stop" \in Fault
    /\ pc # "idle"
    /\ \/ UNCHANGED <<store, dirty>>
       \/ /\ pc = "loaded"
          /\ store' = [store EXCEPT !["tmp"] = Corrupt]
          /\ dirty' = dirty \cup {"tmp"}
    /\ Forget

(* The page cache reaches the disk.                                        *)
Sync ==
    /\ "power" \in Fault
    /\ dirty # {}
    /\ dirty' = {}
    /\ UNCHANGED <<store, pc, held, latest, previous>>

(* The hub loses power: any of the files that were not synced is damaged.  *)
PowerLoss ==
    /\ "power" \in Fault
    /\ dirty # {}
    /\ \E lost \in SUBSET dirty :
         store' = [f \in Name |-> IF f \in lost THEN Corrupt ELSE store[f]]
    /\ dirty' = {}
    /\ Forget

-----------------------------------------------------------------------------
Save == \/ \E b \in Body : WriteTmp(b)
        \/ StatPrimary \/ RemoveBak \/ Rotate \/ Commit

Next == Load \/ Save \/ Refused \/ Stop \/ Sync \/ PowerLoss

Spec == Init /\ [][Next]_vars

-----------------------------------------------------------------------------
(* Properties.                                                             *)

(* The ledger that a Load without read errors finds now.                   *)
Recovered == Loaded(store["primary"], store["bak"])

Register == INSTANCE AtomicLedger WITH ledger <- Recovered, held <- held

(* Save replaces the ledger at once or not at all, wherever it ends.       *)
SaveIsAtomic == Register!ASpec

(* A ledger that was committed can be loaded at any later moment.          *)
Recoverable == latest # Empty => Recovered \in Ledger \ {Empty}

(* No operation of Save finds its target in the way: each rename lands,    *)
(* even where renames do not replace, and whatever earlier runs left.      *)
RenamesLand ==
    /\ pc = "rotate" => store["bak"] = None
    /\ pc = "commit" => store["primary"] = None

(* Even if reads fail, a run starts from the ledger committed last or from *)
(* the one before it, unless it takes the hub for a fresh one.             *)
AtMostOneBehind == held # None => held \in {latest, previous, Empty}

(* An empty ledger means a fresh hub: nothing has ever been committed.     *)
EmptyMeansFresh == held = Empty => latest = Empty

(* The generation grows with every commit.                                 *)
GenerationGrows == [][latest' # latest => latest'.gen > latest.gen]_vars
=============================================================================
