----------------------------- MODULE Invocation -----------------------------
(***************************************************************************)
(* What starts the jobs and reports on them: main in cmd/yggsync, with the *)
(* configuration it loads, the device gate, RunJobs and its machine lock,  *)
(* the pages a failed run sends, and `android install-jobs`, which writes  *)
(* and registers the two scheduled wrappers.                               *)
(*                                                                         *)
(* Simplifications:                                                        *)
(*  - the jobs of a configuration and of a run are sets: a run works them  *)
(*    off in any order, and naming a job twice is left out;                *)
(*  - a job succeeds or fails; what it does is in the other modules;       *)
(*  - names are given as arguments, not with -jobs;                        *)
(*  - reading the two TOML files and the battery is one step;              *)
(*  - a run that is refused, skipped or only lists changes nothing, so it  *)
(*    is no step; the note on a skip is left out;                          *)
(*  - of what fillDefaults refuses, a name given twice and a type it does  *)
(*    not know stand for the rest.                                         *)
(***************************************************************************)
EXTENDS Integers

CONSTANTS
    Process,    \* the processes the machine may run
    Name,       \* the names of jobs, in files and on command lines
    Configs,    \* what the jobs file may hold: sets of jobs as written
    Runtimes,   \* the device-runtime files there may be
    Devices,    \* the states the device may be in
    Commands,   \* what people may type
    None,
    Env         \* what may go wrong, see EnvKind

JobType == {"worktree", "copy", "sync", "retained_copy"}
Job     == [name : Name, type : JobType]
Label   == Name \cup {"bulk"}

(* A limit of 0 is one that is not set; a negative one is never met.       *)
Policy == [enabled : BOOLEAN, minBattery : Int, requireCharging : BOOLEAN,
           maxTemp : Int]
DeviceProfile == [enabled : BOOLEAN, minBattery : Int, maxTemp : Int,
                  notify : BOOLEAN]
Runtime == [gate : Policy, profiles : [Label -> DeviceProfile \cup {None}]]
Device  == [percentage : Nat, temp : Int, charging : BOOLEAN]
Command == [names   : SUBSET Name,
            profile : Label \cup {None},
            reason  : {"manual", "scheduled", "other"}]

(* What a run knows: what it was called with, and the jobs, the profile    *)
(* and the names it makes of it.                                           *)
RunMemory == [command : Command, jobs : SUBSET Job, label : Label \cup {None},
              names : SUBSET Name]

EnvKind ==
    { "kill",       \* a run, or an installation, is killed
      "battery",    \* the battery state cannot be read
      "lock",       \* the machine's lock file cannot be opened
      "cut",        \* writing a wrapper is cut short: it runs nothing
      "scheduler",  \* termux-job-scheduler is missing, or fails
      "wiped"       \* an upgrade wipes the scheduler's state
    }

ASSUME ConfigAssumption ==
    \A c \in Configs : \A j \in c : j.name \in Name /\ j.type \in STRING
ASSUME RuntimeAssumption == Runtimes \subseteq Runtime
ASSUME DeviceAssumption  == Devices \subseteq Device
ASSUME CommandAssumption == Commands \subseteq Command
ASSUME NothingAssumption == /\ None \notin Label /\ None \notin DeviceProfile
                            /\ None \notin Command /\ None \notin Process
                            /\ None \notin RunMemory
ASSUME LockNameAssumption == "_lock" \notin Name
ASSUME FaultAssumption    == Env \subseteq EnvKind

-----------------------------------------------------------------------------
VARIABLES
    config,     \* the jobs file, as it is written now
    runtime,    \* the device-runtime file, the same at all times
    device,
    \* the runs
    flock,      \* the process that holds the machine's lock
    pc,         \* pc[p]: how far the run of process p is
    run,        \* run[p]: what it is to do, a RunMemory
    left,       \* left[p]: the names it has not come to yet
    failed,     \* failed[p]: summary.Failed
    \* the schedule
    script,     \* script[s]: the command line in wrapper s
    registered, \* the wrappers the scheduler knows
    installer,  \* the run of install-jobs: its step, and the jobs it read
    \* history, read by the properties only
    did,        \* did[p]: the jobs the run of p has completed
    broke,      \* broke[p]: the jobs of it that returned an error
    paged,      \* paged[p]: the job its page names
    installed   \* the jobs the last installation that ended well had read

Wrapper == {"obsidian", "bulk"}

runVars     == <<flock, pc, run, left, failed, did, broke, paged>>
installVars == <<script, registered, installer, installed>>
vars == <<config, runtime, device, flock, pc, run, left, failed, script,
          registered, installer, did, broke, paged, installed>>


TypeOK ==
    /\ config \in Configs /\ runtime \in Runtimes /\ device \in Devices
    /\ flock \in Process \cup {None}
    /\ pc \in [Process -> {"off", "lock", "jobs", "report", "exit"}]
    /\ run \in [Process -> {None} \cup RunMemory]
    /\ left \in [Process -> SUBSET Name]
    /\ failed \in [Process -> SUBSET (Name \cup {"_lock"})]
    /\ script \in [Wrapper -> Command \cup {None}]
    /\ registered \subseteq Wrapper
    /\ installer \in [step : {"off", "write obsidian", "register obsidian",
                              "write bulk", "register bulk"},
                      jobs : SUBSET Job]
    /\ did \in [Process -> SUBSET Name]
    /\ broke \in [Process -> SUBSET Name]
    /\ paged \in [Process -> Name \cup {None}]
    /\ installed \in {None} \cup SUBSET Job
    /\ \A p \in Process : /\ (pc[p] = "jobs") <=> (flock = p)
                          /\ (pc[p] = "off") <=> (run[p] = None)

Init ==
    /\ config \in Configs /\ runtime \in Runtimes /\ device \in Devices
    /\ flock = None
    /\ pc = [p \in Process |-> "off"]
    /\ run = [p \in Process |-> None]
    /\ left = [p \in Process |-> {}]
    /\ failed = [p \in Process |-> {}]
    /\ script = [s \in Wrapper |-> None]
    /\ registered = {}
    /\ installer = [step |-> "off", jobs |-> {}]
    /\ did = [p \in Process |-> {}]
    /\ broke = [p \in Process |-> {}]
    /\ paged = [p \in Process |-> None]
    /\ installed = None

-----------------------------------------------------------------------------
(* The configuration: Load and fillDefaults.                               *)

Normal(type) == IF type = "bisync" THEN "worktree" ELSE type

Loadable(written) ==
    /\ \A j, k \in written : j.name = k.name => j = k
    /\ \A j \in written : Normal(j.type) \in JobType

Load(written) ==
    { [name |-> j.name, type |-> Normal(j.type)] : j \in written }

NamesOf(jobs)      == { j.name : j \in jobs }
WorktreeJobs(jobs) == { j \in jobs : j.type = "worktree" }
OtherJobs(jobs)    == jobs \ WorktreeJobs(jobs)

-----------------------------------------------------------------------------
(* The device gate: DeviceProfile.Gate, WithDefaults, Decide and Check.    *)

ZeroProfile == [enabled |-> FALSE, minBattery |-> 0, maxTemp |-> 0,
                notify |-> FALSE]

(* Mutant: a profile gates only if it says so, as the [gate] section does. *)
GateIfEnabled(d) ==
    [enabled |-> d.enabled, minBattery |-> d.minBattery,
     requireCharging |-> FALSE, maxTemp |-> d.maxTemp]

Gate(d) == [enabled |-> d.enabled \/ d.minBattery > 0 \/ d.maxTemp > 0,
            minBattery |-> d.minBattery, requireCharging |-> FALSE,
            maxTemp |-> d.maxTemp]

WithDefaults(p) ==
    [p EXCEPT !.minBattery = IF @ = 0 THEN 20 ELSE @,
              !.maxTemp    = IF @ = 0 THEN 45 ELSE @]

Decide(policy, s) ==
    LET p == WithDefaults(policy)
    IN  /\ policy.enabled
        /\ \/ p.maxTemp > 0 /\ s.temp >= p.maxTemp
           \/ p.requireCharging /\ ~s.charging
           \/ p.minBattery > 0 /\ ~s.charging /\ s.percentage < p.minBattery

MayGoOn(policy) == ~Decide(policy, device) \/ "battery" \in Env

-----------------------------------------------------------------------------
(* main, up to RunJobs.                                                    *)

LabelOf(c) ==
    IF c.profile # None THEN c.profile
    ELSE IF \E n \in c.names : c.names = {n} /\ runtime.profiles[n] # None
         THEN CHOOSE n \in c.names : TRUE
         ELSE None

ProfileOf(label) ==
    IF label # None /\ runtime.profiles[label] # None
    THEN runtime.profiles[label] ELSE ZeroProfile

PolicyOf(label) ==
    IF label = None THEN runtime.gate ELSE Gate(ProfileOf(label))

(* Mutant: a profile run covers all jobs.                                  *)
NamesWhateverTheProfile(c, label, jobs) ==
    IF c.names # {} THEN c.names ELSE NamesOf(jobs)

(* The jobs of a run.  If it has a profile and no job is left to it, it    *)
(* is given them all, worktree jobs included.                              *)
NamesFor(c, label, jobs) ==
    IF c.names # {} THEN c.names
    ELSE IF label # None /\ OtherJobs(jobs) # {} THEN NamesOf(OtherJobs(jobs))
    ELSE NamesOf(jobs)

Invoke(p, c) ==
    /\ pc[p] = "off"
    /\ Loadable(config)
    /\ pc' = [pc EXCEPT ![p] = "lock"]
    /\ LET jobs == Load(config)
           label == LabelOf(c)
           names == NamesFor(c, label, jobs)
       IN  /\ c.reason = "manual" \/ MayGoOn(PolicyOf(label))
           /\ run' = [run EXCEPT ![p] = [command |-> c, jobs |-> jobs,
                                         label |-> label, names |-> names]]
           /\ left' = [left EXCEPT ![p] = names]
    /\ UNCHANGED <<config, runtime, device, flock, failed, did, broke, paged,
                   installVars>>

(* The scheduler starts a wrapper; people type a command.                  *)
Fire(p) == \E s \in registered : script[s] # None /\ Invoke(p, script[s])
Type(p) == \E c \in Commands : Invoke(p, c)

-----------------------------------------------------------------------------
(* RunJobs and RunJob.                                                     *)

TakeLock(p) ==
    /\ pc[p] = "lock"
    /\ flock = None
    /\ flock' = p
    /\ pc' = [pc EXCEPT ![p] = "jobs"]
    /\ UNCHANGED <<config, runtime, device, run, left, failed, did, broke,
                   paged, installVars>>

(* Mutant: the error of the lock is noted for every job.                   *)
LockErrorForAll(p) == failed' = [failed EXCEPT ![p] = run[p].names]

LockError(p) == failed' = [failed EXCEPT ![p] = {"_lock"}]

(* Another run holds it: a bounce.  Any other error is noted the same way. *)
NoLock(p) ==
    /\ pc[p] = "lock"
    /\ flock # None \/ "lock" \in Env
    /\ LockError(p)
    /\ pc' = [pc EXCEPT ![p] = "report"]
    /\ UNCHANGED <<config, runtime, device, flock, run, left, did, broke,
                   paged, installVars>>

JobSucceeds(p, n) ==
    /\ pc[p] = "jobs" /\ n \in left[p]
    /\ n \in NamesOf(run[p].jobs)
    /\ left' = [left EXCEPT ![p] = @ \ {n}]
    /\ did' = [did EXCEPT ![p] = @ \cup {n}]
    /\ UNCHANGED <<config, runtime, device, flock, pc, run, failed, broke,
                   paged, installVars>>

(* Mutant: the first job that fails ends the run.                          *)
GiveUp(p, n) == left' = [left EXCEPT ![p] = {}]

GoOn(p, n) == left' = [left EXCEPT ![p] = @ \ {n}]

(* Any error, its deadline, a name the configuration does not have.        *)
JobFails(p, n) ==
    /\ pc[p] = "jobs" /\ n \in left[p]
    /\ GoOn(p, n)
    /\ failed' = [failed EXCEPT ![p] = @ \cup {n}]
    /\ broke' = [broke EXCEPT ![p] = @ \cup {n}]
    /\ UNCHANGED <<config, runtime, device, flock, pc, run, did, paged,
                   installVars>>

(* Mutant: the lock is not let go of after a failure.                      *)
UnlockIfAllWell(p) ==
    /\ pc[p] = "jobs" /\ left[p] = {}
    /\ flock' = IF failed[p] = {} THEN None ELSE flock
    /\ pc' = [pc EXCEPT ![p] = "report"]
    /\ UNCHANGED <<config, runtime, device, run, left, failed, did, broke,
                   paged, installVars>>

Unlock(p) ==
    /\ pc[p] = "jobs" /\ left[p] = {}
    /\ flock' = None
    /\ pc' = [pc EXCEPT ![p] = "report"]
    /\ UNCHANGED <<config, runtime, device, run, left, failed, did, broke,
                   paged, installVars>>

-----------------------------------------------------------------------------
(* main, after RunJobs.                                                    *)

NotifyWorthy(failures) == failures \ {"_lock"} # {}

(* The names of the run are searched for one that failed.                  *)
Report(p) ==
    /\ pc[p] = "report"
    /\ pc' = [pc EXCEPT ![p] = "exit"]
    /\ \/ /\ ProfileOf(run[p].label).notify
          /\ NotifyWorthy(failed[p])
          /\ \E n \in run[p].names \cap failed[p] :
               paged' = [paged EXCEPT ![p] = n]
       \/ /\ \/ ~ProfileOf(run[p].label).notify
             \/ ~NotifyWorthy(failed[p])
             \/ run[p].names \cap failed[p] = {}
          /\ UNCHANGED paged
    /\ UNCHANGED <<config, runtime, device, flock, run, left, failed, did,
                   broke, installVars>>

(* The process ends, of itself or killed; the kernel drops its lock.       *)
End(p) ==
    /\ pc[p] # "off"
    /\ pc[p] = "exit" \/ "kill" \in Env
    /\ pc' = [pc EXCEPT ![p] = "off"]
    /\ flock' = IF flock = p THEN None ELSE flock
    /\ run' = [run EXCEPT ![p] = None]
    /\ left' = [left EXCEPT ![p] = {}]
    /\ failed' = [failed EXCEPT ![p] = {}]
    /\ did' = [did EXCEPT ![p] = {}]
    /\ broke' = [broke EXCEPT ![p] = {}]
    /\ paged' = [paged EXCEPT ![p] = None]
    /\ UNCHANGED <<config, runtime, device, installVars>>

-----------------------------------------------------------------------------
(* InstallJobs.  An error at any step ends it.                             *)

Goto(step) == installer' = [installer EXCEPT !.step = step]
Installing(step) == installer.step = step
InstallEnds == installer' = [step |-> "off", jobs |-> {}]

(* A configuration without a worktree job leaves an older wrapper alone.   *)
Install ==
    /\ Installing("off")
    /\ Loadable(config)
    /\ LET jobs == Load(config)
       IN  installer' = [step |-> IF WorktreeJobs(jobs) # {}
                                  THEN "write obsidian" ELSE "write bulk",
                         jobs |-> jobs]
    /\ installed' = None
    /\ UNCHANGED <<config, runtime, device, runVars, script, registered>>

(* Mutant: a wrapper that is there already is kept.                        *)
KeepScript(s, c) ==
    script' = IF script[s] # None THEN script ELSE [script EXCEPT ![s] = c]

WriteScript(s, c) == script' = [script EXCEPT ![s] = c]

(* exec yggsync <the first worktree job> -reason scheduled                 *)
WriteObsidian ==
    /\ Installing("write obsidian")
    /\ \E j \in WorktreeJobs(installer.jobs) :
         WriteScript("obsidian", [names |-> {j.name}, profile |-> None,
                                  reason |-> "scheduled"])
    /\ Goto("register obsidian")
    /\ UNCHANGED <<config, runtime, device, runVars, registered, installed>>

(* exec yggsync run -profile bulk -reason scheduled                        *)
WriteBulk ==
    /\ Installing("write bulk")
    /\ WriteScript("bulk", [names |-> {}, profile |-> "bulk",
                            reason |-> "scheduled"])
    /\ Goto("register bulk")
    /\ UNCHANGED <<config, runtime, device, runVars, registered, installed>>

(* A scheduler that is missing is reported, and no error.                  *)
Registers(s) ==
    \/ registered' = registered \cup {s}
    \/ "scheduler" \in Env /\ UNCHANGED registered

RegisterObsidian ==
    /\ Installing("register obsidian")
    /\ Registers("obsidian")
    /\ Goto("write bulk")
    /\ UNCHANGED <<config, runtime, device, runVars, script, installed>>

RegisterBulk ==
    /\ Installing("register bulk")
    /\ Registers("bulk")
    /\ InstallEnds
    /\ installed' = IF registered' = Wrapper THEN installer.jobs ELSE None
    /\ UNCHANGED <<config, runtime, device, runVars, script>>

(* The scheduler's error, an I/O error or a kill.                          *)
InstallFails ==
    /\ ~Installing("off")
    /\ \/ "kill" \in Env /\ UNCHANGED script
       \/ /\ "scheduler" \in Env
          /\ Installing("register obsidian") \/ Installing("register bulk")
          /\ UNCHANGED script
       \/ /\ "cut" \in Env
          /\ \/ Installing("write obsidian") /\ WriteScript("obsidian", None)
             \/ Installing("write bulk") /\ WriteScript("bulk", None)
    /\ InstallEnds
    /\ UNCHANGED <<config, runtime, device, runVars, registered, installed>>

-----------------------------------------------------------------------------
(* The surroundings.                                                       *)

EditConfig ==
    /\ config' \in Configs
    /\ UNCHANGED <<runtime, device, runVars, installVars>>

DeviceChanges ==
    /\ device' \in Devices
    /\ UNCHANGED <<config, runtime, runVars, installVars>>

Wiped ==
    /\ "wiped" \in Env
    /\ registered' = {}
    /\ installed' = None
    /\ UNCHANGED <<config, runtime, device, runVars, script, installer>>

-----------------------------------------------------------------------------
Step(p) == \/ Fire(p) \/ Type(p)
           \/ TakeLock(p) \/ NoLock(p)
           \/ \E n \in Name : JobSucceeds(p, n) \/ JobFails(p, n)
           \/ Unlock(p) \/ Report(p) \/ End(p)

Next == \/ \E p \in Process : Step(p)
        \/ Install \/ WriteObsidian \/ RegisterObsidian
        \/ WriteBulk \/ RegisterBulk \/ InstallFails
        \/ EditConfig \/ DeviceChanges \/ Wiped

Spec == Init /\ [][Next]_vars

-----------------------------------------------------------------------------
(* Safety.                                                                 *)

(* What the flags ask for: the jobs named, or those the README gives as    *)
(* the default, all jobs, and for a profile run the non-worktree ones.     *)
Asked(r) ==
    IF r.command.names # {} THEN r.command.names
    ELSE { j.name : j \in { k \in r.jobs : k.type # "worktree"
                                             \/ r.command.profile = None } }

(* A run that comes to its report has come to every job it was asked for,  *)
(* whichever of them failed before, unless the lock was refused to it; and *)
(* it says of a job that it failed exactly if it did.                      *)
AskedIsTried ==
    \A p \in Process :
      (pc[p] = "report" /\ "_lock" \notin failed[p]) =>
        /\ Asked(run[p]) \subseteq did[p] \cup broke[p]
        /\ failed[p] = broke[p]

(* A run that exits has paged if and only if one of its jobs returned an   *)
(* error and its profile asks for it, and the page names one that did: a   *)
(* bounce off the lock never pages.                                        *)
PagesMeanFailures ==
    \A p \in Process : pc[p] = "exit" =>
      /\ paged[p] # None => paged[p] \in broke[p]
      /\ (broke[p] # {} /\ ProfileOf(run[p].label).notify) => paged[p] # None

(* Once an installation has ended well, and until somebody changes the     *)
(* jobs file or the scheduler is wiped, both wrappers are registered, and  *)
(* each job belongs to one: a single worktree job to the one, and all      *)
(* others, if there are any, to the other.                                 *)
SchedulesCoverJobs ==
    (/\ installed # None /\ Loadable(config) /\ Load(config) = installed
     /\ \E j \in installed : WorktreeJobs(installed) = {j}
     /\ OtherJobs(installed) # {}) =>
      /\ registered = Wrapper
      /\ \A s \in Wrapper :
           /\ script[s] # None
           /\ NamesFor(script[s], LabelOf(script[s]), installed) =
                NamesOf(IF s = "obsidian" THEN WorktreeJobs(installed)
                        ELSE OtherJobs(installed))

(* No run but a person's starts while the device is hot, or low on battery *)
(* and not charging, by the limits its profile sets.                       *)
TooHot(d) == d.maxTemp > 0 /\ device.temp >= d.maxTemp
TooLow(d) == d.minBattery > 0 /\ device.percentage < d.minBattery
                              /\ ~device.charging
TiredDeviceRests ==
    [][\A p \in Process :
         (/\ pc[p] = "off" /\ pc'[p] = "lock"
          /\ run'[p].command.reason # "manual" /\ run'[p].label # None) =>
           LET d == ProfileOf(run'[p].label) IN ~TooHot(d) /\ ~TooLow(d)]_vars
=============================================================================
