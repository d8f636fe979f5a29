------------------------- MODULE LedgerStoreProofs -------------------------
(***************************************************************************)
(* Theorems about LedgerStore, for every set of ledger bodies, both kinds  *)
(* of rename and every bound.                                              *)
(***************************************************************************)
EXTENDS LedgerStore, TLAPS

(* No read fails but for a missing file, and no file is damaged: what may  *)
(* happen is that a run stops anywhere, and that Stat or Remove fails.     *)
NoDamage == "read" \notin Fault /\ "power" \notin Fault

(* The inductive invariant.  What a Load would find is the last commit; a  *)
(* run that saves still holds it, and its ledger.json.tmp is the next one; *)
(* and the backup is only removed while the primary is there.              *)
StoreInv ==
    /\ TypeOK
    /\ store["primary"] # Corrupt /\ store["bak"] # Corrupt
    /\ Recovered = latest
    /\ held # None => held = latest
    /\ pc \in Saving => \E b \in Body :
                          store["tmp"] = [gen |-> held.gen + 1, body |-> b]
    /\ pc \in {"removeBak", "rotate"} => store["primary"] # None

-----------------------------------------------------------------------------
LEMMA InitStore == Init => StoreInv
  BY BodyAssumption, MarkAssumption
  DEF Init, StoreInv, TypeOK, Recovered, Loaded, Empty, Ledger, Name, File,
      Saving

(* A step that leaves the primary and the backup alone.                    *)
LEMMA SameRecovered ==
  ASSUME UNCHANGED <<store["primary"], store["bak"]>>
  PROVE  Recovered' = Recovered
  BY DEF Recovered

(* A run that ends without a commit keeps the invariant.                   *)
LEMMA ForgetKeeps ==
  ASSUME StoreInv, Forget, store' \in [Name -> File], dirty' \subseteq Name,
         UNCHANGED <<store["primary"], store["bak"]>>
  PROVE  StoreInv'
  BY SameRecovered DEF StoreInv, TypeOK, Forget, Saving

LEMMA LoadKeeps == ASSUME NoDamage, StoreInv, Load PROVE StoreInv'
  <1>1. held' = Recovered
    BY DEF NoDamage, Load, Read, Recovered
  <1>2. Recovered' = Recovered
    BY SameRecovered DEF Load
  <1>3. latest \in Ledger /\ latest # None
    BY MarkAssumption DEF StoreInv, TypeOK
  <1> QED
    BY <1>1, <1>2, <1>3 DEF StoreInv, TypeOK, Load, Saving

LEMMA WriteTmpKeeps ==
  ASSUME StoreInv, NEW b \in Body, WriteTmp(b) PROVE StoreInv'
  <1>1. held \in Ledger
    BY DEF StoreInv, TypeOK, WriteTmp
  <1>2. [gen |-> held.gen + 1, body |-> b] \in Ledger
    BY <1>1 DEF Ledger
  <1>3. store' \in [Name -> File] /\ dirty' \subseteq Name
    BY <1>2 DEF StoreInv, TypeOK, WriteTmp, File, Name
  <1>4. UNCHANGED <<store["primary"], store["bak"]>>
    BY DEF StoreInv, TypeOK, WriteTmp, Name
  <1>5. store'["tmp"] = [gen |-> held.gen + 1, body |-> b]
    BY DEF StoreInv, TypeOK, WriteTmp, Name
  <1> QED
    BY <1>1, <1>3, <1>4, <1>5, SameRecovered
    DEF StoreInv, TypeOK, WriteTmp, Saving

LEMMA StatKeeps == ASSUME StoreInv, StatPrimary PROVE StoreInv'
  BY SameRecovered DEF StoreInv, TypeOK, StatPrimary, Saving

(* The backup goes while the primary holds the ledger.                     *)
LEMMA RemoveBakKeeps == ASSUME StoreInv, RemoveBak PROVE StoreInv'
  <1>1. store["primary"] \in Ledger
    BY DEF StoreInv, TypeOK, RemoveBak, Name, File
  <1>2. /\ store' \in [Name -> File] /\ dirty' \subseteq Name
        /\ UNCHANGED <<store["primary"], store["tmp"]>>
        /\ store'["bak"] \in {store["bak"], None}
    BY DEF StoreInv, TypeOK, RemoveBak, Name, File
  <1>3. Recovered' = Recovered
    BY <1>1, <1>2 DEF Recovered, Loaded
  <1> QED
    BY <1>2, <1>3, MarkAssumption
    DEF StoreInv, TypeOK, RemoveBak, Saving

(* The primary becomes the backup: a Load finds the same ledger there.     *)
LEMMA RotateKeeps == ASSUME StoreInv, Rotate PROVE StoreInv'
  <1>1. store["primary"] \in Ledger
    BY DEF StoreInv, TypeOK, Rotate, Name, File
  <1>2. /\ store' \in [Name -> File] /\ dirty' \subseteq Name
        /\ store'["primary"] = None
        /\ store'["bak"] = store["primary"]
        /\ store'["tmp"] = store["tmp"]
    BY DEF StoreInv, TypeOK, Rotate, Renamed, Name, File
  <1>3. Recovered' = Recovered
    BY <1>1, <1>2, MarkAssumption DEF Recovered, Loaded
  <1> QED
    BY <1>1, <1>2, <1>3, MarkAssumption
    DEF StoreInv, TypeOK, Rotate, Saving

(* What a commit puts in place.                                            *)
LEMMA CommitTakes ==
  ASSUME StoreInv, Commit
  PROVE  /\ held \in Ledger /\ held = latest
         /\ \E b \in Body : latest' = [gen |-> held.gen + 1, body |-> b]
         /\ latest' \in Ledger
         /\ store'["primary"] = latest'
         /\ Recovered' = latest'
  <1>1. held \in Ledger /\ held = latest
    BY MarkAssumption DEF StoreInv, TypeOK, Commit
  <1>2. PICK b \in Body : store["tmp"] = [gen |-> held.gen + 1, body |-> b]
    BY DEF StoreInv, Commit, Saving
  <1>3. store["tmp"] \in Ledger
    BY <1>1, <1>2 DEF Ledger
  <1>4. latest' = store["tmp"] /\ store'["primary"] = store["tmp"]
    BY DEF Commit, Renamed, StoreInv, TypeOK, Name
  <1>5. Recovered' = latest'
    BY <1>3, <1>4 DEF Recovered, Loaded
  <1> QED
    BY <1>1, <1>2, <1>3, <1>4, <1>5

LEMMA CommitKeeps == ASSUME StoreInv, Commit PROVE StoreInv'
  <1>1. /\ store' \in [Name -> File] /\ dirty' \subseteq Name
        /\ store'["bak"] = store["bak"]
    BY DEF Commit, Renamed, StoreInv, TypeOK, Name, File
  <1> QED
    BY <1>1, CommitTakes, MarkAssumption
    DEF StoreInv, TypeOK, Commit, Saving

LEMMA StopKeeps == ASSUME StoreInv, Stop PROVE StoreInv'
  <1>1. /\ store' \in [Name -> File] /\ dirty' \subseteq Name
        /\ UNCHANGED <<store["primary"], store["bak"]>>
    BY DEF Stop, StoreInv, TypeOK, Name, File
  <1> QED
    BY <1>1, ForgetKeeps DEF Stop

LEMMA StepStore == NoDamage /\ StoreInv /\ [Next]_vars => StoreInv'
  <1> SUFFICES ASSUME NoDamage, StoreInv, [Next]_vars PROVE StoreInv'
    OBVIOUS
  <1>1. CASE Load
    BY <1>1, LoadKeeps
  <1>2. CASE Save
    BY <1>2, WriteTmpKeeps, StatKeeps, RemoveBakKeeps, RotateKeeps,
       CommitKeeps DEF Save
  <1>3. CASE Refused
    BY <1>3, ForgetKeeps DEF Refused, StoreInv, TypeOK
  <1>4. CASE Stop
    BY <1>4, StopKeeps
  <1>5. CASE Sync \/ PowerLoss
    BY <1>5 DEF NoDamage, Sync, PowerLoss
  <1>6. CASE UNCHANGED vars
    BY <1>6, SameRecovered DEF vars, StoreInv, TypeOK
  <1> QED
    BY <1>1, <1>2, <1>3, <1>4, <1>5, <1>6 DEF Next

LEMMA StoreInvariant == ASSUME NoDamage PROVE Spec => []StoreInv
  BY InitStore, StepStore, PTL DEF Spec

-----------------------------------------------------------------------------
(* Each step of a run is a step of the register, or leaves it as it is.    *)
LEMMA StepRefines ==
  ASSUME NoDamage, StoreInv, StoreInv', [Next]_vars
  PROVE  [Register!ANext]_(Register!avars)
  <1> USE DEF Register!ANext, Register!avars, Register!Take,
              Register!Replace, Register!Abandon
  <1>r. Recovered = latest /\ Recovered' = latest'
    BY DEF StoreInv
  <1>1. CASE Load
    BY <1>1, <1>r DEF Load, Read, NoDamage, Recovered, StoreInv, TypeOK
  <1>2. CASE \/ \E b \in Body : WriteTmp(b)
             \/ StatPrimary \/ RemoveBak \/ Rotate
    BY <1>2, <1>r DEF WriteTmp, StatPrimary, RemoveBak, Rotate
  <1>3. CASE Commit
    <2>1. held # None /\ held' = None
      BY <1>3 DEF Commit, StoreInv, TypeOK
    <2> QED
      BY <1>3, <1>r, <2>1, CommitTakes
  <1>4. CASE Refused \/ Stop
    <2>1. held # None /\ Forget
      BY <1>4 DEF Refused, Stop, StoreInv, TypeOK
    <2> QED
      BY <1>r, <2>1 DEF Forget
  <1>5. CASE Sync \/ PowerLoss
    BY <1>5 DEF NoDamage, Sync, PowerLoss
  <1>6. CASE UNCHANGED vars
    BY <1>6, <1>r DEF vars
  <1> QED
    BY <1>1, <1>2, <1>3, <1>4, <1>5, <1>6 DEF Next, Save

(* Save is atomic: unless files are damaged or reads fail, ledger.json and *)
(* its backup implement a register that a run replaces at once or not at   *)
(* all, whichever operation of Save is its last, and whether or not the    *)
(* hub's rename replaces its target.                                       *)
THEOREM AtomicSave == ASSUME NoDamage PROVE Spec => SaveIsAtomic
  <1>1. Init => Register!AInit
    BY MarkAssumption
    DEF Init, Register!AInit, Recovered, Loaded, Name, Empty, Register!Empty,
        Ledger, Register!Ledger
  <1>2. StoreInv /\ StoreInv' /\ [Next]_vars
          => [Register!ANext]_(Register!avars)
    BY StepRefines
  <1> QED
    BY <1>1, <1>2, StoreInvariant, PTL
    DEF Spec, SaveIsAtomic, Register!ASpec

(* The generation grows by one with every commit, in the same conditions.  *)
THEOREM Generations == ASSUME NoDamage PROVE Spec => GenerationGrows
  <1>1. StoreInv /\ [Next]_vars
          => [latest' # latest => latest'.gen > latest.gen]_vars
    <2> SUFFICES ASSUME StoreInv, [Next]_vars, latest' # latest
                 PROVE  latest'.gen > latest.gen
      OBVIOUS
    <2>1. Commit
      BY DEF Next, Load, Save, WriteTmp, StatPrimary, RemoveBak, Rotate,
             Refused, Stop, Sync, PowerLoss, Forget, vars
    <2>2. PICK b \in Body : latest' = [gen |-> latest.gen + 1, body |-> b]
      BY <2>1, CommitTakes
    <2>3. latest.gen \in Nat
      BY DEF StoreInv, TypeOK, Ledger
    <2> QED
      BY <2>2, <2>3
  <1> QED
    BY <1>1, StoreInvariant, PTL DEF Spec, GenerationGrows

-----------------------------------------------------------------------------
(* Under every fault: types, for which a commit must find its temporary    *)
(* file whole, and the claim on renames.                                   *)

TmpWritten == pc \in Saving => store["tmp"] \in Ledger
TypeInv    == TypeOK /\ TmpWritten

LEMMA InitType == Init => TypeInv /\ RenamesLand
  BY BodyAssumption, MarkAssumption
  DEF Init, TypeInv, TmpWritten, TypeOK, Empty, Ledger, Name, File, Saving,
      RenamesLand

LEMMA RenamedType ==
  ASSUME TypeOK, NEW from \in Name, NEW to \in Name, Renamed(from, to)
  PROVE  store' \in [Name -> File] /\ dirty' \subseteq Name
  BY DEF TypeOK, Renamed, File

LEMMA LoadType == ASSUME TypeOK, Load PROVE TypeInv'
  <1>1. held' \in Ledger
    BY BodyAssumption DEF Load, Loaded, Empty, Ledger
  <1> QED
    BY <1>1, MarkAssumption DEF Load, TypeOK, TypeInv, TmpWritten, Saving

LEMMA ForgetType ==
  ASSUME TypeOK, Forget, store' \in [Name -> File], dirty' \subseteq Name
  PROVE  TypeInv'
  BY DEF TypeOK, Forget, TypeInv, TmpWritten, Saving

LEMMA SaveType == ASSUME TypeInv, Save PROVE TypeInv'
  <1> USE DEF TypeInv, TmpWritten
  <1>n. "primary" \in Name /\ "bak" \in Name /\ "tmp" \in Name
    BY DEF Name
  <1>1. CASE \E b \in Body : WriteTmp(b)
    <2>1. PICK b \in Body : WriteTmp(b)
      BY <1>1
    <2>2. [gen |-> held.gen + 1, body |-> b] \in Ledger
      BY <2>1 DEF WriteTmp, TypeOK, Ledger
    <2> QED
      BY <1>n, <2>1, <2>2 DEF WriteTmp, TypeOK, File, Saving
  <1>2. CASE StatPrimary
    BY <1>2 DEF StatPrimary, TypeOK, Saving
  <1>3. CASE RemoveBak
    BY <1>3, <1>n DEF RemoveBak, TypeOK, Saving, File
  <1>4. CASE Rotate
    <2>1. store'["tmp"] = store["tmp"]
      BY <1>4, <1>n DEF Rotate, Renamed, TypeOK
    <2> QED
      BY <1>4, <1>n, <2>1, RenamedType DEF Rotate, TypeOK, Saving
  <1>5. CASE Commit
    BY <1>5, <1>n, RenamedType DEF Commit, TypeOK, Saving
  <1> QED
    BY <1>1, <1>2, <1>3, <1>4, <1>5 DEF Save

LEMMA StepType == TypeInv /\ [Next]_vars => TypeInv'
  <1> SUFFICES ASSUME TypeInv, [Next]_vars PROVE TypeInv'
    OBVIOUS
  <1>1. CASE Load
    BY <1>1, LoadType DEF TypeInv
  <1>2. CASE Save
    BY <1>2, SaveType
  <1>3. CASE Refused \/ Stop \/ PowerLoss
    <2>1. store' \in [Name -> File] /\ dirty' \subseteq Name /\ Forget
      BY <1>3 DEF Refused, Stop, PowerLoss, TypeInv, TypeOK, Name, File
    <2> QED
      BY <2>1, ForgetType DEF TypeInv
  <1>4. CASE Sync
    BY <1>4 DEF Sync, TypeInv, TypeOK, TmpWritten
  <1>5. CASE UNCHANGED vars
    BY <1>5 DEF vars, TypeInv, TypeOK, TmpWritten
  <1> QED
    BY <1>1, <1>2, <1>3, <1>4, <1>5 DEF Next

(* Type correctness of the store, under every fault.                       *)
THEOREM StoreTypeCorrect == Spec => []TypeOK
  <1>1. TypeInv => TypeOK
    BY DEF TypeInv
  <1> QED
    BY <1>1, InitType, StepType, PTL DEF Spec

(* No rename of Save finds its target in the way, whatever stopped earlier *)
(* runs and in whatever state they left the three files, as long as no     *)
(* error of Stat or Remove is passed over.                                 *)
THEOREM Renames == ASSUME "ignored" \notin Fault PROVE Spec => []RenamesLand
  <1>1. TypeOK /\ RenamesLand /\ [Next]_vars => RenamesLand'
    <2> SUFFICES ASSUME TypeOK, RenamesLand, [Next]_vars
                 PROVE  RenamesLand'
      OBVIOUS
    <2>1. CASE StatPrimary
      BY <2>1 DEF StatPrimary, RenamesLand
    <2>2. CASE RemoveBak
      BY <2>2 DEF RemoveBak, RenamesLand, TypeOK, Name
    <2>3. CASE Rotate
      BY <2>3 DEF Rotate, Renamed, RenamesLand, TypeOK, Name
    <2>4. CASE Sync \/ UNCHANGED vars
      BY <2>4 DEF Sync, vars, RenamesLand
    <2>5. CASE \/ Load \/ Commit \/ Refused \/ Stop \/ PowerLoss
               \/ \E b \in Body : WriteTmp(b)
      <3>1. pc' \notin {"rotate", "commit"}
        BY <2>5 DEF Load, Commit, Refused, Stop, PowerLoss, WriteTmp, Forget
      <3> QED
        BY <3>1 DEF RenamesLand
    <2> QED
      BY <2>1, <2>2, <2>3, <2>4, <2>5 DEF Next, Save
  <1> QED
    BY <1>1, InitType, StoreTypeCorrect, PTL DEF Spec

-----------------------------------------------------------------------------
(* How old a ledger can be when files are damaged and reads fail.  The     *)
(* primary is never an old one.  The backup may be, but not while the      *)
(* primary is missing: then the run that moved it away has just made it    *)
(* the backup.  So a commit never leaves a backup older than its           *)
(* predecessor.                                                            *)
AgeInv ==
    /\ store["primary"] \in {latest, None, Corrupt}
    /\ store["bak"] \in {latest, previous, None, Corrupt}
    /\ store["primary"] = None => store["bak"] \in {latest, None, Corrupt}
    /\ pc = "commit" => store["primary"] = None
    /\ AtMostOneBehind

LEMMA LoadAge == ASSUME TypeOK, AgeInv, Load PROVE AgeInv'
  <1>1. PICK p \in Read("primary"), b \in Read("bak") :
          Loaded(p, b) # None /\ held' = Loaded(p, b)
    BY DEF Load
  <1>2. p \in {latest, None, Corrupt} /\ b \in {latest, previous, None, Corrupt}
    BY DEF AgeInv, Read
  <1>3. held' \in {latest, previous, Empty}
    BY <1>1, <1>2, MarkAssumption DEF Loaded
  <1> QED
    BY <1>3 DEF Load, AgeInv, AtMostOneBehind

LEMMA SaveAge ==
  ASSUME "ignored" \notin Fault, TypeInv, AgeInv, Save PROVE AgeInv'
  <1> USE DEF AgeInv, AtMostOneBehind, TypeInv
  <1>n. "primary" \in Name /\ "bak" \in Name /\ "tmp" \in Name
    BY DEF Name
  <1>1. CASE \E b \in Body : WriteTmp(b)
    BY <1>1, <1>n DEF WriteTmp, TypeOK
  <1>2. CASE StatPrimary
    BY <1>2 DEF StatPrimary
  <1>3. CASE RemoveBak
    BY <1>3, <1>n DEF RemoveBak, TypeOK
  <1>4. CASE Rotate
    BY <1>4, <1>n DEF Rotate, Renamed, TypeOK
  <1>5. CASE Commit
    <2>1. /\ store'["primary"] = latest'
          /\ store'["bak"] = store["bak"]
          /\ previous' = latest /\ held' = None /\ pc' = "idle"
      BY <1>5, <1>n DEF Commit, Renamed, TypeOK
    <2>3. store["bak"] \in {latest, None, Corrupt}
      BY <1>5 DEF Commit
    <2>2. latest' \in Ledger
      BY <1>5, <1>n DEF Commit, TmpWritten, Saving
    <2> QED
      BY <2>1, <2>2, <2>3, MarkAssumption
  <1> QED
    BY <1>1, <1>2, <1>3, <1>4, <1>5 DEF Save

LEMMA StepAge ==
  ASSUME "ignored" \notin Fault, TypeInv, AgeInv, [Next]_vars
  PROVE  AgeInv'
  <1>1. CASE Load
    BY <1>1, LoadAge DEF TypeInv
  <1>2. CASE Save
    BY <1>2, SaveAge
  <1>3. CASE Refused \/ Stop
    BY <1>3 DEF Refused, Stop, Forget, TypeInv, TypeOK, Name, AgeInv,
                AtMostOneBehind
  <1>4. CASE PowerLoss
    BY <1>4, MarkAssumption DEF PowerLoss, Forget, Name, AgeInv,
                                AtMostOneBehind
  <1>5. CASE Sync \/ UNCHANGED vars
    BY <1>5 DEF Sync, vars, AgeInv, AtMostOneBehind
  <1> QED
    BY <1>1, <1>2, <1>3, <1>4, <1>5 DEF Next

(* Under stops, failed reads and losses of power, a run starts from the    *)
(* last committed ledger, from its predecessor or from an empty one, and   *)
(* never from an older generation.                                         *)
THEOREM NeverOlder ==
  ASSUME "ignored" \notin Fault PROVE Spec => []AtMostOneBehind
  <1>1. Init => AgeInv
    BY DEF Init, AgeInv, AtMostOneBehind, Name
  <1>2. TypeInv /\ AgeInv /\ [Next]_vars => AgeInv'
    BY StepAge
  <1>3. AgeInv => AtMostOneBehind
    BY DEF AgeInv
  <1> QED
    BY <1>1, <1>2, <1>3, InitType, StepType, PTL DEF Spec
=============================================================================
