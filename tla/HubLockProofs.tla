--------------------------- MODULE HubLockProofs ---------------------------
(***************************************************************************)
(* Theorems about HubLock, for every set of processes, machines and        *)
(* clients, every environment and any number of faults.                    *)
(***************************************************************************)
EXTENDS HubLock, TLAPS

(* A process takes the machine's lock before anything else and keeps it    *)
(* until it is idle again; TypeOK says so, and that is inductive.          *)

LEMMA MachineType == \A p \in Process : Machine[p] \in Machines
  BY DEF Machines

LEMMA InitType == Init => TypeOK
  <1> SUFFICES ASSUME Init PROVE TypeOK
    OBVIOUS
  <1>1. exposed \in BOOLEAN
    BY DEF Init
  <1>2. faults \in 0..MaxFault
    BY FaultAssumption DEF Init
  <1> QED
    BY <1>1, <1>2 DEF Init, TypeOK, Phase

(* A process moves on without letting go of its machine.                   *)
LEMMA GotoType ==
  ASSUME TypeOK, NEW p \in Process, NEW from \in Phase \ {"idle"},
         NEW to \in Phase, Goto(p, from, to),
         UNCHANGED flock, faults' \in 0..MaxFault, exposed' \in BOOLEAN,
         lock' \in LockInfo \cup {None, Garbled}
  PROVE  TypeOK'
  BY DEF TypeOK, Goto

LEMMA StepType == ASSUME TypeOK, NEW p \in Process, Step(p) PROVE TypeOK'
  <1> USE DEF Phase
  <1>f. faults \in 0..MaxFault /\ (Fail => faults' \in 0..MaxFault)
    BY FaultAssumption DEF Fail, TypeOK
  <1>t. lock \in LockInfo \cup {None, Garbled} /\ exposed \in BOOLEAN
    BY DEF TypeOK
  <1>1. CASE ReadLock(p)
    <2>1. exposed' \in BOOLEAN
      BY <1>1 DEF ReadLock, Pass, TypeOK
    <2> QED
      BY <1>1, <2>1, <1>f, <1>t, GotoType DEF ReadLock, Pass
  <1>2. CASE TruncateLock(p)
    BY <1>2, <1>f, <1>t, GotoType DEF TruncateLock
  <1>3. CASE FillLock(p)
    <2>1. [client |-> Client[p], old |-> FALSE, run |-> p] \in LockInfo
      BY DEF LockInfo
    <2> QED
      BY <1>3, <2>1, <1>f, <1>t, GotoType DEF FillLock
  <1>4. CASE WriteFails(p)
    BY <1>4, <1>f, <1>t, GotoType DEF WriteFails
  <1>5. CASE Work(p)
    BY <1>5, <1>f, <1>t, GotoType DEF Work
  <1>6. CASE Release(p)
    BY <1>6, <1>f, <1>t, GotoType DEF Release
  <1>7. CASE Unlock(p)
    BY <1>7, MachineType DEF Unlock, Goto, TypeOK
  <1> QED
    BY <1>1, <1>2, <1>3, <1>4, <1>5, <1>6, <1>7 DEF Step

LEMMA NextType == TypeOK /\ [Next]_vars => TypeOK'
  <1> SUFFICES ASSUME TypeOK, [Next]_vars PROVE TypeOK'
    OBVIOUS
  <1>1. CASE \E p \in Process : Start(p)
    <2>1. PICK p \in Process : Start(p)
      BY <1>1
    <2>2. \A q \in Process \ {p} : pc[q] # "idle" => Machine[q] # Machine[p]
      BY <2>1, NobodyAssumption DEF Start, TypeOK
    <2> QED
      BY <2>1, <2>2, MachineType DEF Start, Goto, TypeOK, Phase
  <1>2. CASE \E p \in Process : Step(p)
    BY <1>2, StepType
  <1>3. CASE \E p \in Process : Notified(p)
    BY <1>3, GotoType DEF Notified, TypeOK, Phase
  <1>4. CASE \E p \in Process : Crash(p)
    <2>1. PICK p \in Process : Crash(p)
      BY <1>4
    <2>2. faults' \in 0..MaxFault
      BY <2>1, FaultAssumption DEF Crash, TypeOK
    <2> QED
      BY <2>1, <2>2, MachineType DEF Crash, TypeOK, Phase
  <1>5. CASE Age
    <2>1. lock' \in LockInfo /\ exposed' \in BOOLEAN
      BY <1>5 DEF Age, LockInfo, TypeOK
    <2> QED
      BY <1>5, <2>1 DEF Age, TypeOK
  <1>6. CASE UNCHANGED vars
    BY <1>6 DEF vars, TypeOK
  <1> QED
    BY <1>1, <1>2, <1>3, <1>4, <1>5, <1>6 DEF Next

(* Type correctness, with the hold of each active process on its machine.  *)
THEOREM LockTypeCorrect == Spec => []TypeOK
  BY InitType, NextType, PTL DEF Spec

(* The machine's lock does what the hub's lock does not: of the processes  *)
(* of one machine, never more than one is in the body of a job, however    *)
(* slow they are, whichever are killed, and whatever is in the lock file.  *)
THEOREM MachineExclusion == Spec => []OneRunPerMachine
  <1>1. TypeOK => OneRunPerMachine
    BY DEF TypeOK, OneRunPerMachine, Inside
  <1> QED
    BY <1>1, LockTypeCorrect, PTL

-----------------------------------------------------------------------------
(* The hub's lock.  Until it is exposed, at most one process is past its   *)
(* look at the lock, and once that one has written the file, the file says *)
(* so and stays fresh.                                                     *)

OneMachinePerClient ==
  \A p, q \in Process : Client[p] = Client[q] => Machine[p] = Machine[q]

Writes(p)  == pc[p] \in {"truncate", "fill"}
LockOf(p)  == [client |-> Client[p], old |-> FALSE, run |-> p]

LockInv ==
  ~exposed =>
    /\ \A p, q \in Process :
         (Writes(p) \/ Holds(p)) /\ (Writes(q) \/ Holds(q)) => p = q
    /\ \A p \in Process : Holds(p) => lock = LockOf(p)

LEMMA LockOfParts ==
  \A p \in Process : LockOf(p) \in LockInfo /\ LockOf(p).client = Client[p]
                     /\ ~LockOf(p).old /\ LockOf(p).run = p
  BY DEF LockOf, LockInfo

(* Another process of the same client is shut out by the machine's lock.   *)
LEMMA OthersAreElsewhere ==
  ASSUME OneMachinePerClient, TypeOK, NEW p \in Process, NEW q \in Process,
         p # q, pc[p] # "idle", pc[q] # "idle"
  PROVE  Client[p] # Client[q]
  BY DEF OneMachinePerClient, TypeOK

LEMMA NextLock ==
  OneMachinePerClient /\ TypeOK /\ LockInv /\ [Next]_vars => LockInv'
  <1> SUFFICES ASSUME OneMachinePerClient, TypeOK, LockInv, [Next]_vars,
                      ~exposed'
               PROVE  LockInv'
    BY DEF LockInv
  <1> USE DEF Writes, Holds
  <1>1. ASSUME NEW p \in Process, Pass(p), lock' = lock PROVE LockInv'
    <2>1. /\ pc[p] = "read" /\ pc' = [pc EXCEPT ![p] = "truncate"]
          /\ ~exposed /\ Free(p) /\ ~Contended(p)
      BY <1>1 DEF Pass, Goto, TypeOK
    <2>2. ASSUME NEW q \in Process \ {p}, Writes(q) \/ Holds(q) PROVE FALSE
      <3>1. Client[q] # Client[p]
        BY <2>1, <2>2, OthersAreElsewhere
      <3>2. CASE Writes(q)
        BY <2>1, <3>1, <3>2 DEF Contended
      <3>3. CASE Holds(q)
        <4>1. lock = LockOf(q)
          BY <2>1, <3>3 DEF LockInv
        <4> QED
          BY <2>1, <3>1, <4>1, LockOfParts DEF Free
      <3> QED
        BY <2>2, <3>2, <3>3
    <2> QED
      BY <1>1, <2>1, <2>2 DEF LockInv, TypeOK
  <1>2. ASSUME NEW p \in Process, TruncateLock(p) PROVE LockInv'
    <2>1. /\ pc[p] = "truncate" /\ pc' = [pc EXCEPT ![p] = "fill"]
          /\ ~exposed
      BY <1>2 DEF TruncateLock, Goto
    <2> QED
      BY <2>1 DEF LockInv, TypeOK
  <1>3. ASSUME NEW p \in Process, FillLock(p) PROVE LockInv'
    <2>1. /\ pc[p] = "fill" /\ pc' = [pc EXCEPT ![p] = "work"]
          /\ ~exposed /\ lock' = LockOf(p)
      BY <1>3 DEF FillLock, Goto, LockOf
    <2> QED
      BY <2>1 DEF LockInv, TypeOK
  <1>4. ASSUME NEW p \in Process, Work(p) \/ Notified(p) PROVE LockInv'
    <2>1. /\ pc[p] \in {"work", "notify"} /\ ~exposed /\ lock' = lock
          /\ \E to \in {"notify", "release"} : pc' = [pc EXCEPT ![p] = to]
      BY <1>4 DEF Work, Notified, Goto
    <2> QED
      BY <2>1 DEF LockInv, TypeOK
  <1>5. ASSUME NEW p \in Process, Release(p) PROVE LockInv'
    <2>1. /\ pc[p] = "release" /\ pc' = [pc EXCEPT ![p] = "unlock"]
          /\ ~exposed
      BY <1>5 DEF Release, Goto
    <2> QED
      BY <2>1 DEF LockInv, TypeOK
  (* A process that leaves, or never came to the lock, changes nothing.    *)
  <1>6. ASSUME NEW p \in Process, lock' = lock, ~exposed,
               NEW to \in {"read", "unlock", "idle"},
               pc' = [pc EXCEPT ![p] = to]
        PROVE  LockInv'
    BY <1>6 DEF LockInv, TypeOK
  <1>7. ASSUME NEW p \in Process,
               \/ Start(p) \/ WriteFails(p) \/ Unlock(p) \/ Crash(p)
               \/ ReadLock(p) /\ ~Pass(p)
        PROVE  LockInv'
    <2>1. /\ lock' = lock /\ ~exposed
          /\ \E to \in {"read", "unlock", "idle"} : pc' = [pc EXCEPT ![p] = to]
      BY <1>7 DEF Start, WriteFails, Unlock, Crash, ReadLock, Goto
    <2> QED
      BY <1>6, <2>1
  <1>8. CASE Age
    <2>1. ~exposed /\ ~Holds(lock.run) /\ pc' = pc
      BY <1>8 DEF Age, TypeOK
    <2>2. \A p \in Process : ~Holds(p)
      BY <2>1, LockOfParts DEF LockInv
    <2> QED
      BY <2>1, <2>2 DEF LockInv
  <1>9. CASE UNCHANGED vars
    BY <1>9 DEF vars, LockInv
  <1> QED
    BY <1>1, <1>2, <1>3, <1>4, <1>5, <1>7, <1>8, <1>9
       DEF Next, Step, ReadLock

(* Two runs are together in the body of a job only after the hub's lock    *)
(* has failed in one of the three ways known: a look at it while another   *)
(* client writes its own, an unreadable lock, a run of more than half an   *)
(* hour.  Kills, failed writes and takeovers of old locks are not enough,  *)
(* if no two machines use the same client_id; and they never let two runs  *)
(* of one machine in.                                                      *)
THEOREM OverlapExplained ==
  OneMachinePerClient => (Spec => []OverlapIsExplained)
  <1> SUFFICES ASSUME OneMachinePerClient PROVE Spec => []OverlapIsExplained
    OBVIOUS
  <1>1. Init => LockInv
    BY DEF Init, LockInv, Writes, Holds
  <1>2. TypeOK /\ LockInv /\ [Next]_vars => LockInv'
    BY NextLock
  <1>3. LockInv => (NoOverlap \/ exposed)
    BY DEF LockInv, NoOverlap, Inside, Holds
  <1>4. LockInv /\ OneRunPerMachine => OverlapIsExplained
    BY <1>3 DEF OverlapIsExplained
  <1> QED
    BY <1>1, <1>2, <1>4, LockTypeCorrect, MachineExclusion, PTL DEF Spec
=============================================================================
