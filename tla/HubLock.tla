------------------------------ MODULE HubLock ------------------------------
(***************************************************************************)
(* The two locks a worktree run holds: the flock of its machine            *)
(* (runner.acquireLock, around RunJobs) and the lock file on the hub       *)
(* (ledger.AcquireLock, around the body of runWorktree), with the          *)
(* notification the run sends before it lets go of either.                 *)
(*                                                                         *)
(* Simplifications:                                                        *)
(*  - a run has one job, a worktree job of the same hub for all;           *)
(*  - time is reduced to whether the stamp in the lock file is older than  *)
(*    the 30 minutes runWorktree passes as staleAfter;                     *)
(*  - what runs do to the hub is in module Worktree.                       *)
(***************************************************************************)
EXTENDS Naturals

CONSTANTS
    Process,    \* the processes that may run yggsync
    Machine,    \* Machine[p]: the lock_file process p locks
    Client,     \* Client[p]: the client_id it runs under
    None,       \* nobody, no lock file
    Garbled,    \* a lock file that does not decode
    Env,        \* what may happen, see EnvKind
    MaxFault    \* bound: how often a run is killed, or a write fails

EnvKind ==
    { "read",   \* the lock file cannot be read, for whatever reason
      "fail",   \* writing or removing it fails
      "slow",   \* a run may take longer than 30 minutes
      "hang"    \* a notification command may never return
    }

LockInfo == [client : {Client[p] : p \in Process},  \* lockInfo.Client
             old    : BOOLEAN,                      \* from lockInfo.At
             run    : Process]                      \* history: who wrote it

ASSUME NobodyAssumption == /\ None \notin Process
                           /\ None \notin LockInfo
                           /\ Garbled \notin LockInfo
                           /\ None # Garbled
ASSUME LockEnvAssumption == Env \subseteq EnvKind
ASSUME FaultAssumption == MaxFault \in Nat

VARIABLES
    flock,      \* flock[m]: the process that holds the lock of machine m
    lock,       \* the lock file on the hub
    pc,         \* pc[p]: what process p does next
    faults,     \* how often that has happened
    \* history, read by the properties only
    exposed     \* whether the hub's lock has failed in one of the ways known

vars == <<flock, lock, pc, faults, exposed>>

Machines == {Machine[p] : p \in Process}

Phase == {"idle", "read", "truncate", "fill", "work", "notify", "release",
          "unlock"}

TypeOK ==
    /\ flock \in [Machines -> Process \cup {None}]
    /\ lock \in LockInfo \cup {None, Garbled}
    /\ pc \in [Process -> Phase]
    /\ faults \in 0..MaxFault
    /\ exposed \in BOOLEAN
    /\ \A p \in Process : pc[p] # "idle" => flock[Machine[p]] = p

Init ==
    /\ flock = [m \in Machines |-> None]
    /\ lock = None
    /\ pc = [p \in Process |-> "idle"]
    /\ faults = 0
    /\ exposed = FALSE

Goto(p, from, to) == pc[p] = from /\ pc' = [pc EXCEPT ![p] = to]

-----------------------------------------------------------------------------
(* Mutant: the machine's lock is tested, and not taken.                    *)
StartUnlocked(p) ==
    /\ Goto(p, "idle", "read")
    /\ flock[Machine[p]] = None
    /\ UNCHANGED <<flock, lock, faults, exposed>>

(* acquireLock.  A process that finds the lock taken gives up at once.     *)
Start(p) ==
    /\ Goto(p, "idle", "read")
    /\ flock[Machine[p]] = None
    /\ flock' = [flock EXCEPT ![Machine[p]] = p]
    /\ UNCHANGED <<lock, faults, exposed>>

(* Mutant: a lock file that does not decode is taken for a fresh lock.     *)
FreeIfReadable(p) ==
    \/ lock = None
    \/ lock \in LockInfo /\ (lock.client = Client[p] \/ lock.old)

(* AcquireLock takes what it cannot read for no lock.                      *)
Free(p) ==
    lock \in LockInfo => lock.client = Client[p] \/ lock.old

(* A run of another client is between its look at the lock and the last    *)
(* byte of its own lock file.                                              *)
Contended(p) ==
    \E q \in Process : Client[q] # Client[p] /\ pc[q] \in {"truncate", "fill"}

Pass(p) ==
    /\ Goto(p, "read", "truncate")
    /\ Free(p) \/ "read" \in Env
    /\ exposed' = (exposed \/ ~Free(p) \/ Contended(p))

(* Mutant: a run that finds the lock held, or cannot read it, waits.       *)
AwaitLock(p) == Free(p) /\ Pass(p) /\ UNCHANGED <<flock, lock, faults>>

(* Mutant: a run that finds the lock held removes it on its way out.       *)
DeferRelease(p) ==
    /\ \/ Pass(p)
       \/ Goto(p, "read", "release") /\ ~Free(p) /\ UNCHANGED exposed
    /\ UNCHANGED <<flock, lock, faults>>

ReadLock(p) ==
    /\ \/ Pass(p)
       \/ Goto(p, "read", "unlock") /\ ~Free(p) /\ UNCHANGED exposed
    /\ UNCHANGED <<flock, lock, faults>>

(* WriteFile: os.O_TRUNC empties the file, then the new content arrives.   *)
TruncateLock(p) ==
    /\ Goto(p, "truncate", "fill")
    /\ lock' = Garbled
    /\ UNCHANGED <<flock, faults, exposed>>

FillLock(p) ==
    /\ Goto(p, "fill", "work")
    /\ lock' = [client |-> Client[p], old |-> FALSE, run |-> p]
    /\ UNCHANGED <<flock, faults, exposed>>

Fail == "fail" \in Env /\ faults < MaxFault /\ faults' = faults + 1

(* MkdirAll or WriteFile returns an error.                                 *)
WriteFails(p) ==
    /\ Fail
    /\ \/ Goto(p, "read", "unlock")
       \/ Goto(p, "truncate", "unlock")
       \/ Goto(p, "fill", "unlock")
    /\ UNCHANGED <<flock, lock, exposed>>

(* The body of runWorktree ends, with conflicts to report or without.      *)
Work(p) ==
    /\ Goto(p, "work", "notify") \/ Goto(p, "work", "release")
    /\ UNCHANGED <<flock, lock, faults, exposed>>

(* notifyConflicts waits for the command it starts.                        *)
Notified(p) ==
    /\ Goto(p, "notify", "release")
    /\ UNCHANGED <<flock, lock, faults, exposed>>

(* The release function removes the file, whoever wrote it.                *)
Release(p) ==
    /\ Goto(p, "release", "unlock")
    /\ \/ lock' = None /\ UNCHANGED faults
       \/ Fail /\ UNCHANGED lock
    /\ UNCHANGED <<flock, exposed>>

Unlock(p) ==
    /\ Goto(p, "unlock", "idle")
    /\ flock' = [flock EXCEPT ![Machine[p]] = None]
    /\ UNCHANGED <<lock, faults, exposed>>

(* A killed process: the kernel drops its flock, the lock file stays.      *)
Crash(p) ==
    /\ faults < MaxFault
    /\ pc[p] # "idle"
    /\ pc' = [pc EXCEPT ![p] = "idle"]
    /\ flock' = [flock EXCEPT ![Machine[p]] = None]
    /\ faults' = faults + 1
    /\ UNCHANGED <<lock, exposed>>

(* Half an hour passes.  Nothing renews the stamp of a run in progress.    *)
Holds(p) == pc[p] \in {"work", "notify", "release"}

Age ==
    /\ lock \in LockInfo /\ ~lock.old
    /\ "slow" \in Env \/ ~Holds(lock.run)
    /\ lock' = [lock EXCEPT !.old = TRUE]
    /\ exposed' = (exposed \/ Holds(lock.run))
    /\ UNCHANGED <<flock, pc, faults>>

-----------------------------------------------------------------------------
Step(p) ==
    \/ ReadLock(p) \/ TruncateLock(p) \/ FillLock(p) \/ WriteFails(p)
    \/ Work(p) \/ Release(p) \/ Unlock(p)

Next ==
    \/ \E p \in Process : Start(p) \/ Step(p) \/ Notified(p) \/ Crash(p)
    \/ Age

Spec == Init /\ [][Next]_vars

(* Every process is started again and again by its timer, its own steps    *)
(* end by the deadline of the job or of the connection, and time passes.   *)
(* A notification command returns unless it hangs, and nothing but the     *)
(* command itself ends it.                                                 *)
FairSpec ==
    /\ Spec
    /\ \A p \in Process : /\ SF_vars(Start(p))
                          /\ WF_vars(Step(p))
                          /\ "hang" \notin Env => WF_vars(Notified(p))
    /\ WF_vars(Age)

-----------------------------------------------------------------------------
(* Safety.                                                                 *)

Inside(p) == pc[p] = "work"

(* Two runs of one machine are never in the body of the job together,      *)
(* whichever of them were killed, and whatever the hub's lock file says.   *)
OneRunPerMachine ==
    \A p, q \in Process :
      (Machine[p] = Machine[q] /\ Inside(p) /\ Inside(q)) => p = q

(* Two runs are never in the body of the job together.                     *)
NoOverlap == \A p, q \in Process : Inside(p) /\ Inside(q) => p = q

(* The hub's lock keeps all other runs out, through kills, failed writes   *)
(* and removals, and the taking over of old locks, as long as none passed  *)
(* it while another client was writing its own, or took a lock it could    *)
(* not read for no lock, and none outlived the 30 minutes.  Those of one   *)
(* machine are kept apart by its own lock even then.                       *)
OverlapIsExplained == OneRunPerMachine /\ (NoOverlap \/ exposed)

-----------------------------------------------------------------------------
(* Liveness.                                                               *)

Abandoned == lock # None /\ \A p \in Process : ~Holds(p)

(* A lock file left by a killed run, whole or garbled, does not shut out   *)
(* every run for good: somebody takes it over.                             *)
LockIsRecovered == Abandoned ~> ~Abandoned

(* Every run ends, and with it the hold on both locks: a notification does *)
(* not block it.                                                           *)
RunsEnd == \A p \in Process : (pc[p] # "idle") ~> (pc[p] = "idle")
=============================================================================
