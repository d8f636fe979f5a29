-------------------------- MODULE InvocationProofs --------------------------
(***************************************************************************)
(* Proofs about Invocation: for any jobs file, device and command line, a  *)
(* run comes to every job it was asked for, pages only for jobs that       *)
(* failed, rests when the device is tired, and the two wrappers share the  *)
(* jobs between them.                                                      *)
(***************************************************************************)
EXTENDS Invocation, TLAPS

-----------------------------------------------------------------------------
(* What a command line comes to.                                           *)

LEMMA LabelType ==
    ASSUME NEW c \in Command, runtime \in Runtimes
    PROVE  LabelOf(c) \in Label \cup {None}
<1>1. c.profile \in Label \cup {None} /\ c.names \subseteq Name
  BY DEF Command
<1>2. CASE \E n \in c.names : c.names = {n}
  <2>1. (CHOOSE n \in c.names : TRUE) \in c.names
    BY <1>2
  <2> QED BY <1>1, <2>1 DEF LabelOf, Label
<1>3. CASE ~\E n \in c.names : c.names = {n}
  BY <1>1, <1>3 DEF LabelOf
<1> QED BY <1>2, <1>3

LEMMA LoadType ==
    ASSUME config \in Configs, Loadable(config)
    PROVE  Load(config) \subseteq Job
BY ConfigAssumption DEF Loadable, Load, Job

LEMMA NamesType ==
    ASSUME NEW c \in Command, NEW label, NEW jobs \in SUBSET Job
    PROVE  NamesFor(c, label, jobs) \in SUBSET Name
BY DEF NamesFor, NamesOf, OtherJobs, WorktreeJobs, Command, Job

(* What is asked for is given to the run.                                  *)
LEMMA AskedIsGiven ==
    ASSUME NEW r \in RunMemory, r.label = LabelOf(r.command),
           r.names = NamesFor(r.command, r.label, r.jobs)
    PROVE  Asked(r) \subseteq r.names
<1>1. CASE r.command.names # {}
  BY <1>1 DEF Asked, NamesFor
<1>2. CASE r.command.names = {}
  <2>1. r.label = r.command.profile
    BY <1>2 DEF LabelOf
  <2>2. CASE r.label # None /\ OtherJobs(r.jobs) # {}
    BY <1>2, <2>1, <2>2 DEF Asked, NamesFor, NamesOf, OtherJobs, WorktreeJobs
  <2>3. CASE ~(r.label # None /\ OtherJobs(r.jobs) # {})
    BY <1>2, <2>1, <2>3 DEF Asked, NamesFor, NamesOf
  <2> QED BY <2>2, <2>3
<1> QED BY <1>1, <1>2

LEMMA ProfileType ==
    ASSUME NEW label \in Label \cup {None}, runtime \in Runtimes
    PROVE  ProfileOf(label) \in DeviceProfile
BY RuntimeAssumption DEF ProfileOf, ZeroProfile, DeviceProfile, Runtime

-----------------------------------------------------------------------------
(* Type correctness.                                                       *)

LEMMA Added ==
    ASSUME NEW S, NEW f \in [Process -> SUBSET S], NEW g,
           NEW p \in Process, NEW n \in S,
           g = f \/ g = [f EXCEPT ![p] = f[p] \cup {n}]
    PROVE  g \in [Process -> SUBSET S]
<1>1. f[p] \cup {n} \in SUBSET S
  OBVIOUS
<1> QED BY <1>1

LEMMA InitTyped == Init => TypeOK
BY NothingAssumption DEF Init, TypeOK, Wrapper

(* The part of a step that the run of process p takes.                     *)
LEMMA InvokeTyped ==
    ASSUME TypeOK, NEW p \in Process, NEW c \in Command, Invoke(p, c)
    PROVE  TypeOK'
<1> DEFINE m == [command |-> c, jobs |-> Load(config), label |-> LabelOf(c),
                 names |-> NamesFor(c, LabelOf(c), Load(config))]
<1>1. Load(config) \in SUBSET Job /\ LabelOf(c) \in Label \cup {None}
  BY LoadType, LabelType DEF Invoke, TypeOK
<1>2. m.names \in SUBSET Name
  BY <1>1, NamesType
<1>3. m \in RunMemory
  BY <1>1, <1>2 DEF RunMemory
<1>4. /\ pc[p] = "off" /\ pc' = [pc EXCEPT ![p] = "lock"]
      /\ run' = [run EXCEPT ![p] = m] /\ left' = [left EXCEPT ![p] = m.names]
      /\ UNCHANGED <<config, runtime, device, flock, failed, did, broke, paged,
                     script, registered, installer, installed>>
  BY DEF Invoke, installVars
<1>5. m # None
  BY <1>3, NothingAssumption
<1> HIDE DEF m
<1> QED BY <1>2, <1>3, <1>4, <1>5 DEF TypeOK

LEMMA NextTyped == TypeOK /\ [Next]_vars => TypeOK'
<1> SUFFICES ASSUME TypeOK, [Next]_vars PROVE TypeOK'
  OBVIOUS
<1>1. ASSUME NEW p \in Process, Fire(p) \/ Type(p) PROVE TypeOK'
  BY <1>1, InvokeTyped, CommandAssumption DEF Fire, Type, TypeOK
<1>2. ASSUME NEW p \in Process, TakeLock(p) PROVE TypeOK'
  BY <1>2, NothingAssumption DEF TakeLock, installVars, TypeOK
<1>3. ASSUME NEW p \in Process, NoLock(p) PROVE TypeOK'
  BY <1>3 DEF NoLock, LockError, installVars, TypeOK
<1>4. ASSUME NEW p \in Process, NEW n \in Name,
             JobSucceeds(p, n) \/ JobFails(p, n)
      PROVE  TypeOK'
  <2>1. /\ left' = [left EXCEPT ![p] = left[p] \ {n}]
        /\ \/ did' = [did EXCEPT ![p] = did[p] \cup {n}]
           \/ did' = did
        /\ \/ failed' = [failed EXCEPT ![p] = failed[p] \cup {n}]
           \/ failed' = failed
        /\ \/ broke' = [broke EXCEPT ![p] = broke[p] \cup {n}]
           \/ broke' = broke
        /\ UNCHANGED <<config, runtime, device, flock, pc, run, paged, script,
                       registered, installer, installed>>
    BY <1>4 DEF JobSucceeds, JobFails, GoOn, installVars
  <2>2. left' \in [Process -> SUBSET Name]
    BY <2>1 DEF TypeOK
  <2>3. did' \in [Process -> SUBSET Name] /\ broke' \in [Process -> SUBSET Name]
    BY <2>1, Added DEF TypeOK
  <2>4. failed' \in [Process -> SUBSET (Name \cup {"_lock"})]
    BY <2>1, Added DEF TypeOK
  <2> QED BY <2>1, <2>2, <2>3, <2>4 DEF TypeOK
<1>5. ASSUME NEW p \in Process, Unlock(p) PROVE TypeOK'
  BY <1>5, NothingAssumption DEF Unlock, installVars, TypeOK
<1>6. ASSUME NEW p \in Process, Report(p) PROVE TypeOK'
  <2>1. run[p].names \subseteq Name
    BY <1>6 DEF Report, TypeOK, RunMemory
  <2>2. \/ paged' = paged
        \/ \E n \in run[p].names : paged' = [paged EXCEPT ![p] = n]
    BY <1>6 DEF Report
  <2>3. paged' \in [Process -> Name \cup {None}]
    BY <2>1, <2>2 DEF TypeOK
  <2> QED BY <1>6, <2>3 DEF Report, installVars, TypeOK
<1>7. ASSUME NEW p \in Process, End(p) PROVE TypeOK'
  BY <1>7, NothingAssumption DEF End, installVars, TypeOK
<1>8. CASE Install
  <2>1. Load(config) \in SUBSET Job
    BY <1>8, LoadType DEF Install, TypeOK
  <2> QED BY <1>8, <2>1 DEF Install, runVars, TypeOK
<1>9. CASE WriteObsidian
  <2>1. PICK j \in WorktreeJobs(installer.jobs) :
           script' = [script EXCEPT !["obsidian"] =
                        [names |-> {j.name}, profile |-> None,
                         reason |-> "scheduled"]]
    BY <1>9 DEF WriteObsidian, WriteScript
  <2>2. j.name \in Name
    BY <2>1 DEF TypeOK, WorktreeJobs, Job
  <2>3. [names |-> {j.name}, profile |-> None, reason |-> "scheduled"] \in Command
    BY <2>2 DEF Command
  <2>4. script' \in [Wrapper -> Command \cup {None}]
    BY <2>1, <2>3 DEF TypeOK
  <2> QED BY <1>9, <2>4 DEF WriteObsidian, Goto, runVars, TypeOK
<1>10. CASE WriteBulk
  <2>1. [names |-> {}, profile |-> "bulk", reason |-> "scheduled"] \in Command
    BY DEF Command, Label
  <2> QED BY <1>10, <2>1 DEF WriteBulk, WriteScript, Goto, runVars, TypeOK
<1>11. CASE RegisterObsidian
  BY <1>11 DEF RegisterObsidian, Registers, Goto, runVars, TypeOK, Wrapper
<1>12. CASE RegisterBulk
  BY <1>12 DEF RegisterBulk, Registers, InstallEnds, runVars, TypeOK, Wrapper
<1>13. CASE InstallFails
  <2>1. script' \in [Wrapper -> Command \cup {None}]
    BY <1>13 DEF InstallFails, WriteScript, TypeOK
  <2> QED BY <1>13, <2>1 DEF InstallFails, InstallEnds, runVars, TypeOK
<1>14. CASE EditConfig \/ DeviceChanges \/ Wiped
  BY <1>14 DEF EditConfig, DeviceChanges, Wiped, runVars, installVars, TypeOK
<1>15. CASE UNCHANGED vars
  BY <1>15 DEF vars, TypeOK
<1> QED
  BY <1>1, <1>2, <1>3, <1>4, <1>5, <1>6, <1>7, <1>8, <1>9, <1>10, <1>11,
     <1>12, <1>13, <1>14, <1>15 DEF Next, Step

(* The type invariant: the lock is held by the run that works on its jobs, *)
(* and by nobody else.                                                     *)
THEOREM InvocationTypeCorrect == Spec => []TypeOK
BY InitTyped, NextTyped, PTL DEF Spec

-----------------------------------------------------------------------------
(* The runs.                                                               *)

Refused(p) == failed[p] = {"_lock"} /\ broke[p] = {}

(* A run that has the lock, or had it, is through with the names it has    *)
(* crossed off, and has noted what went wrong with them and nothing else.  *)
Accounted(p) == /\ run[p].names \subseteq left[p] \cup did[p] \cup broke[p]
                /\ failed[p] = broke[p]
                /\ broke[p] \subseteq run[p].names
                /\ left[p] \subseteq run[p].names

RunOK(p) ==
    /\ pc[p] # "off" =>
         /\ run[p].label = LabelOf(run[p].command)
         /\ run[p].names = NamesFor(run[p].command, run[p].label, run[p].jobs)
    /\ pc[p] \in {"off", "lock"} => failed[p] = {} /\ broke[p] = {}
    /\ pc[p] = "lock" => left[p] = run[p].names
    /\ pc[p] = "jobs" => Accounted(p)
    /\ pc[p] \in {"report", "exit"} =>
         Refused(p) \/ (Accounted(p) /\ left[p] = {})
    /\ pc[p] # "exit" => paged[p] = None
    /\ (pc[p] = "exit" /\ paged[p] # None) => paged[p] \in broke[p]
    /\ (pc[p] = "exit" /\ broke[p] # {} /\ ProfileOf(run[p].label).notify) =>
         paged[p] # None

RunInv == \A p \in Process : RunOK(p)

(* What RunInv says of p, after a step that is not one of p.               *)
LEMMA OthersRunOK ==
    ASSUME NEW p \in Process, RunOK(p), runtime' = runtime,
           UNCHANGED <<pc[p], run[p], left[p], failed[p], did[p], broke[p], paged[p]>>
    PROVE  RunOK(p)'
BY DEF RunOK, Accounted, Refused, LabelOf, ProfileOf, NamesFor

LEMMA InitRunInv == Init => RunInv
<1> SUFFICES ASSUME Init, NEW p \in Process PROVE RunOK(p)
  BY DEF RunInv
<1>1. pc[p] = "off" /\ failed[p] = {} /\ broke[p] = {} /\ paged[p] = None
  BY DEF Init
<1> QED BY <1>1 DEF RunOK

(* One of the runs takes a step, and the others do not.                    *)
LEMMA StepRunInv ==
    ASSUME TypeOK, RunInv, NEW p \in Process, Step(p)
    PROVE  RunInv'
<1>1. ASSUME NEW q \in Process, q # p
      PROVE  UNCHANGED <<pc[q], run[q], left[q], failed[q], did[q], broke[q], paged[q]>>
  BY <1>1 DEF Step, Fire, Type, Invoke, TakeLock, NoLock, LockError, JobSucceeds,
              JobFails, GoOn, Unlock, Report, End, TypeOK
<1>2. runtime' = runtime
  BY DEF Step, Fire, Type, Invoke, TakeLock, NoLock, JobSucceeds, JobFails,
         Unlock, Report, End
<1>3. RunOK(p)'
  <2>0. RunOK(p)
    BY DEF RunInv
  <2>1. ASSUME NEW c \in Command, Invoke(p, c) PROVE RunOK(p)'
    <3>1. /\ pc[p] = "off" /\ pc'[p] = "lock"
          /\ run'[p] = [command |-> c, jobs |-> Load(config), label |-> LabelOf(c),
                        names |-> NamesFor(c, LabelOf(c), Load(config))]
          /\ left'[p] = NamesFor(c, LabelOf(c), Load(config))
          /\ UNCHANGED <<failed, broke, paged>>
      BY <2>1 DEF Invoke, TypeOK
    <3> QED BY <1>2, <2>0, <3>1 DEF RunOK, LabelOf, NamesFor
  <2>2. CASE TakeLock(p)
    <3>1. /\ pc[p] = "lock" /\ pc'[p] = "jobs"
          /\ UNCHANGED <<run[p], left[p], failed[p], did[p], broke[p], paged[p]>>
      BY <2>2 DEF TakeLock, TypeOK
    <3>2. Accounted(p)'
      BY <2>0, <3>1 DEF RunOK, Accounted
    <3> QED BY <1>2, <2>0, <3>1, <3>2 DEF RunOK, LabelOf, NamesFor
  <2>3. CASE NoLock(p)
    BY <1>2, <2>0, <2>3
       DEF NoLock, LockError, RunOK, Refused, TypeOK, LabelOf, NamesFor
  <2>4. ASSUME NEW n \in Name, JobSucceeds(p, n) PROVE RunOK(p)'
    BY <1>2, <2>0, <2>4
       DEF JobSucceeds, RunOK, Accounted, TypeOK, LabelOf, NamesFor
  <2>5. ASSUME NEW n \in Name, JobFails(p, n) PROVE RunOK(p)'
    <3>1. /\ pc[p] = "jobs" /\ pc' = pc /\ n \in left[p]
          /\ left'[p] = left[p] \ {n} /\ failed'[p] = failed[p] \cup {n}
          /\ broke'[p] = broke[p] \cup {n}
          /\ UNCHANGED <<run, did, paged>>
      BY <2>5 DEF JobFails, GoOn, TypeOK
    <3>2. Accounted(p)'
      BY <2>0, <3>1 DEF RunOK, Accounted
    <3> QED BY <1>2, <2>0, <3>1, <3>2 DEF RunOK, LabelOf, NamesFor
  <2>6. CASE Unlock(p)
    BY <1>2, <2>0, <2>6 DEF Unlock, RunOK, Accounted, TypeOK, LabelOf, NamesFor
  <2>7. CASE Report(p)
    <3>1. /\ pc[p] = "report" /\ pc'[p] = "exit"
          /\ UNCHANGED <<run, left, failed, did, broke>>
          /\ paged[p] = None
      BY <2>0, <2>7 DEF Report, TypeOK, RunOK
    <3>2. Refused(p) \/ (Accounted(p) /\ left[p] = {})
      BY <2>0, <3>1 DEF RunOK
    <3>3. (Refused(p) \/ (Accounted(p) /\ left[p] = {}))'
      BY <3>1, <3>2 DEF Refused, Accounted
    <3>4. "_lock" \notin broke[p] /\ broke[p] \subseteq Name
      BY LockNameAssumption DEF TypeOK
    <3>5. \/ /\ paged'[p] \in run[p].names \cap failed[p]
             /\ NotifyWorthy(failed[p])
          \/ /\ paged'[p] = None
             /\ \/ ~ProfileOf(run[p].label).notify
                \/ ~NotifyWorthy(failed[p])
                \/ run[p].names \cap failed[p] = {}
      BY <2>7, <3>1 DEF Report, TypeOK
    <3>6. failed[p] = {"_lock"} => ~NotifyWorthy(failed[p])
      BY DEF NotifyWorthy
    <3>7. failed[p] = broke[p] /\ broke[p] # {} => NotifyWorthy(failed[p])
      BY <3>4 DEF NotifyWorthy
    <3>8. paged'[p] # None => paged'[p] \in broke[p]
      BY <3>2, <3>5, <3>6 DEF Refused, Accounted
    <3>9. broke[p] # {} /\ ProfileOf(run[p].label).notify => paged'[p] # None
      <4>1. SUFFICES ASSUME broke[p] # {}, ProfileOf(run[p].label).notify
                     PROVE  paged'[p] # None
        OBVIOUS
      <4>2. failed[p] = broke[p] /\ broke[p] \subseteq run[p].names
        BY <3>2, <4>1 DEF Refused, Accounted
      <4>3. paged'[p] \in broke[p]
        BY <3>5, <3>7, <4>1, <4>2
      <4> QED BY <3>4, <4>3, NothingAssumption DEF Label
    <3>10. ProfileOf(run[p].label)' = ProfileOf(run[p].label)
      BY <1>2, <3>1 DEF ProfileOf
    <3> QED
      BY <1>2, <2>0, <3>1, <3>3, <3>8, <3>9, <3>10 DEF RunOK, LabelOf, NamesFor
  <2>8. CASE End(p)
    BY <2>0, <2>8 DEF End, RunOK, TypeOK
  <2>9. ASSUME NEW s \in Wrapper, script[s] # None PROVE script[s] \in Command
    BY <2>9 DEF TypeOK
  <2> QED
    BY <2>1, <2>2, <2>3, <2>4, <2>5, <2>6, <2>7, <2>8, <2>9, CommandAssumption
       DEF Step, Fire, Type, TypeOK
<1> QED BY <1>1, <1>2, <1>3, OthersRunOK DEF RunInv

LEMMA NextRunInv == TypeOK /\ RunInv /\ [Next]_vars => RunInv'
<1> SUFFICES ASSUME TypeOK, RunInv, [Next]_vars PROVE RunInv'
  OBVIOUS
<1>1. ASSUME runtime' = runtime, UNCHANGED runVars PROVE RunInv'
  BY <1>1, OthersRunOK DEF RunInv, runVars
<1>2. ASSUME Install \/ WriteObsidian \/ RegisterObsidian \/ WriteBulk
               \/ RegisterBulk \/ InstallFails \/ EditConfig \/ DeviceChanges
               \/ Wiped \/ UNCHANGED vars
      PROVE  runtime' = runtime /\ UNCHANGED runVars
  BY <1>2 DEF Install, WriteObsidian, RegisterObsidian, WriteBulk, RegisterBulk,
              InstallFails, EditConfig, DeviceChanges, Wiped, vars, runVars
<1> QED BY <1>1, <1>2, StepRunInv DEF Next

LEMMA RunInvHolds == Spec => [](TypeOK /\ RunInv)
<1>1. Init => TypeOK /\ RunInv
  BY InitTyped, InitRunInv
<1>2. TypeOK /\ RunInv /\ [Next]_vars => (TypeOK /\ RunInv)'
  BY NextTyped, NextRunInv
<1> QED BY <1>1, <1>2, PTL DEF Spec

(* One job that fails keeps none of the others from being tried, and the   *)
(* summary says of each what became of it.                                 *)
THEOREM EveryJobTried == Spec => []AskedIsTried
<1>1. TypeOK /\ RunInv => AskedIsTried
  <2> SUFFICES ASSUME TypeOK, RunInv, NEW p \in Process,
                      pc[p] = "report", "_lock" \notin failed[p]
               PROVE  /\ Asked(run[p]) \subseteq did[p] \cup broke[p]
                      /\ failed[p] = broke[p]
    BY DEF AskedIsTried
  <2>1. Accounted(p) /\ left[p] = {}
    BY DEF RunInv, RunOK, Refused
  <2>2. run[p] \in RunMemory
    BY DEF TypeOK
  <2>3. Asked(run[p]) \subseteq run[p].names
    BY <2>2, AskedIsGiven DEF RunInv, RunOK
  <2> QED BY <2>1, <2>3 DEF Accounted
<1> QED BY <1>1, RunInvHolds, PTL

(* A page means that a job failed, and every failure of a job is paged if  *)
(* the profile of the run asks for it.                                     *)
THEOREM PagesSound == Spec => []PagesMeanFailures
<1>1. RunInv => PagesMeanFailures
  BY DEF RunInv, RunOK, PagesMeanFailures
<1> QED BY <1>1, RunInvHolds, PTL

-----------------------------------------------------------------------------
(* The gate.                                                               *)

(* The limits of a profile hold for every run that is not a person's, as   *)
(* long as the battery can be read.                                        *)
THEOREM GateHolds == "battery" \notin Env => (Spec => TiredDeviceRests)
<1> SUFFICES ASSUME "battery" \notin Env PROVE Spec => TiredDeviceRests
  OBVIOUS
<1>1. ASSUME TypeOK, [Next]_vars, NEW p \in Process, pc[p] = "off",
             pc'[p] = "lock", run'[p].command.reason # "manual",
             run'[p].label # None
      PROVE  /\ ~TooHot(ProfileOf(run'[p].label))
             /\ ~TooLow(ProfileOf(run'[p].label))
  <2>1. PICK c \in Command : Invoke(p, c)
    <3>1. PICK q \in Process : Step(q)
      BY <1>1 DEF Next, Install, WriteObsidian, RegisterObsidian, WriteBulk,
                  RegisterBulk, InstallFails, EditConfig, DeviceChanges, Wiped,
                  vars, runVars
    <3>2. q = p
      BY <1>1, <3>1
         DEF Step, Fire, Type, Invoke, TakeLock, NoLock, JobSucceeds, JobFails,
             Unlock, Report, End, TypeOK
    <3>3. Fire(p) \/ Type(p)
      BY <1>1, <3>1, <3>2 DEF Step, TakeLock, NoLock, JobSucceeds, JobFails,
                              Unlock, Report, End
    <3> QED BY <1>1, <3>3, CommandAssumption DEF Fire, Type, TypeOK
  <2> DEFINE label == LabelOf(c)
             d     == ProfileOf(label)
             q     == WithDefaults(Gate(d))
  <2>2. run'[p].command = c /\ run'[p].label = label
    BY <1>1, <2>1 DEF Invoke, TypeOK
  <2>3. ~Decide(Gate(d), device)
    BY <1>1, <2>1, <2>2 DEF Invoke, MayGoOn, PolicyOf
  <2>4. label \in Label \cup {None} /\ device \in Device
    BY <1>1, LabelType, DeviceAssumption DEF TypeOK
  <2>5. d \in DeviceProfile
    BY <1>1, <2>4, ProfileType DEF TypeOK
  <2>6. /\ d.maxTemp \in Int /\ d.minBattery \in Int
        /\ device.temp \in Int /\ device.percentage \in Nat
    BY <2>4, <2>5 DEF DeviceProfile, Device
  <2> HIDE DEF label, d
  <2>7. /\ q.maxTemp = IF d.maxTemp = 0 THEN 45 ELSE d.maxTemp
        /\ q.minBattery = IF d.minBattery = 0 THEN 20 ELSE d.minBattery
        /\ d.minBattery > 0 \/ d.maxTemp > 0 => Gate(d).enabled
    BY DEF WithDefaults, Gate
  <2>8. /\ Gate(d).enabled =>
             /\ ~(q.maxTemp > 0 /\ device.temp >= q.maxTemp)
             /\ ~(q.minBattery > 0 /\ ~device.charging
                    /\ device.percentage < q.minBattery)
    BY <2>3 DEF Decide
  <2> HIDE DEF q
  <2>9. ~TooHot(d)
    <3>1. SUFFICES ASSUME d.maxTemp > 0, device.temp >= d.maxTemp PROVE FALSE
      BY DEF TooHot
    <3>2. Gate(d).enabled /\ q.maxTemp = d.maxTemp
      BY <2>6, <2>7, <3>1
    <3> QED BY <2>8, <3>1, <3>2
  <2>10. ~TooLow(d)
    <3>1. SUFFICES ASSUME d.minBattery > 0, device.percentage < d.minBattery,
                          ~device.charging
                   PROVE  FALSE
      BY DEF TooLow
    <3>2. Gate(d).enabled /\ q.minBattery = d.minBattery
      BY <2>6, <2>7, <3>1
    <3> QED BY <2>8, <3>1, <3>2
  <2> QED BY <2>2, <2>9, <2>10 DEF d
<1>2. TypeOK /\ [Next]_vars =>
        [\A p \in Process :
           (/\ pc[p] = "off" /\ pc'[p] = "lock"
            /\ run'[p].command.reason # "manual" /\ run'[p].label # None) =>
             LET d == ProfileOf(run'[p].label) IN ~TooHot(d) /\ ~TooLow(d)]_vars
  BY <1>1
<1> QED BY <1>2, InvocationTypeCorrect, PTL DEF Spec, TiredDeviceRests

-----------------------------------------------------------------------------
(* The schedule.                                                           *)

ObsidianLine(jobs) ==
    \E j \in WorktreeJobs(jobs) :
      script["obsidian"] = [names |-> {j.name}, profile |-> None,
                            reason |-> "scheduled"]
BulkLine == script["bulk"] = [names |-> {}, profile |-> "bulk",
                              reason |-> "scheduled"]

(* How far the wrappers are, under an installation and after one.          *)
ScheduleInv ==
    /\ installer.step # "off" => installed = None
    /\ installer.step = "write obsidian" => WorktreeJobs(installer.jobs) # {}
    /\ (installer.step \in {"register obsidian", "write bulk", "register bulk"}
          /\ WorktreeJobs(installer.jobs) # {}) => ObsidianLine(installer.jobs)
    /\ installer.step = "register bulk" => BulkLine
    /\ installed # None =>
         /\ registered = Wrapper /\ BulkLine
         /\ WorktreeJobs(installed) # {} => ObsidianLine(installed)

LEMMA NextScheduleInv == TypeOK /\ ScheduleInv /\ [Next]_vars => ScheduleInv'
<1> SUFFICES ASSUME TypeOK, ScheduleInv, [Next]_vars PROVE ScheduleInv'
  OBVIOUS
<1>1. ASSUME UNCHANGED installVars PROVE ScheduleInv'
  BY <1>1 DEF installVars, ScheduleInv, ObsidianLine, BulkLine
<1>2. ASSUME NEW p \in Process, Step(p) PROVE UNCHANGED installVars
  BY <1>2 DEF Step, Fire, Type, Invoke, TakeLock, NoLock, JobSucceeds, JobFails,
              Unlock, Report, End
<1>3. EditConfig \/ DeviceChanges \/ UNCHANGED vars => UNCHANGED installVars
  BY DEF EditConfig, DeviceChanges, vars, installVars
<1>4. CASE Install
  BY <1>4 DEF Install, Installing, ScheduleInv
<1>5. CASE WriteObsidian
  <2>1. ObsidianLine(installer.jobs)'
    BY <1>5 DEF WriteObsidian, WriteScript, Goto, ObsidianLine, TypeOK, Wrapper
  <2>2. /\ installer'.step = "register obsidian" /\ installer'.jobs = installer.jobs
        /\ installed' = None
    BY <1>5 DEF WriteObsidian, Goto, Installing, ScheduleInv, TypeOK
  <2> QED BY <2>1, <2>2 DEF ScheduleInv, ObsidianLine
<1>6. CASE RegisterObsidian
  <2>1. /\ installer'.step = "write bulk" /\ installer'.jobs = installer.jobs
        /\ installed' = None /\ script' = script
        /\ installer.step = "register obsidian"
    BY <1>6 DEF RegisterObsidian, Goto, Installing, ScheduleInv, TypeOK
  <2> QED BY <2>1 DEF ScheduleInv, ObsidianLine
<1>7. CASE WriteBulk
  <2>1. BulkLine' /\ script'["obsidian"] = script["obsidian"]
    BY <1>7 DEF WriteBulk, WriteScript, BulkLine, TypeOK, Wrapper
  <2>2. /\ installer'.step = "register bulk" /\ installer'.jobs = installer.jobs
        /\ installed' = None /\ installer.step = "write bulk"
    BY <1>7 DEF WriteBulk, Goto, Installing, ScheduleInv, TypeOK
  <2> QED BY <2>1, <2>2 DEF ScheduleInv, ObsidianLine
<1>8. CASE RegisterBulk
  <2>1. /\ installer.step = "register bulk" /\ installer'.step = "off"
        /\ script' = script
        /\ installed' = IF registered' = Wrapper THEN installer.jobs ELSE None
    BY <1>8 DEF RegisterBulk, InstallEnds, Installing
  <2> QED BY <2>1 DEF ScheduleInv, ObsidianLine, BulkLine
<1>9. CASE InstallFails
  <2>1. installer'.step = "off" /\ installed' = None
    BY <1>9 DEF InstallFails, InstallEnds, Installing, ScheduleInv
  <2> QED BY <2>1 DEF ScheduleInv
<1>10. CASE Wiped
  BY <1>10 DEF Wiped, ScheduleInv, ObsidianLine, BulkLine
<1> QED
  BY <1>1, <1>2, <1>3, <1>4, <1>5, <1>6, <1>7, <1>8, <1>9, <1>10 DEF Next

(* After an installation that ended well, the one wrapper is given the     *)
(* worktree job and the other one the rest: no job is left out, and none   *)
(* belongs to both.                                                        *)
THEOREM ScheduleShared == Spec => []SchedulesCoverJobs
<1>1. Init => ScheduleInv
  BY DEF Init, ScheduleInv
<1>2. TypeOK /\ ScheduleInv => SchedulesCoverJobs
  <2> SUFFICES ASSUME TypeOK, ScheduleInv, installed # None,
                      NEW j \in installed, WorktreeJobs(installed) = {j},
                      OtherJobs(installed) # {}
               PROVE  /\ registered = Wrapper
                      /\ \A s \in Wrapper :
                           /\ script[s] # None
                           /\ NamesFor(script[s], LabelOf(script[s]), installed) =
                                NamesOf(IF s = "obsidian"
                                        THEN WorktreeJobs(installed)
                                        ELSE OtherJobs(installed))
    BY DEF SchedulesCoverJobs
  <2>1. registered = Wrapper /\ BulkLine /\ ObsidianLine(installed)
    BY DEF ScheduleInv
  <2>2. script["obsidian"] = [names |-> {j.name}, profile |-> None,
                              reason |-> "scheduled"]
    BY <2>1 DEF ObsidianLine
  <2>3. script["obsidian"] # None /\ script["bulk"] # None
    <3>1. j.name \in Name
      BY DEF TypeOK, Job
    <3>2. /\ [names |-> {j.name}, profile |-> None, reason |-> "scheduled"] \in Command
          /\ [names |-> {}, profile |-> "bulk", reason |-> "scheduled"] \in Command
      BY <3>1 DEF Command, Label
    <3> QED BY <2>1, <2>2, <3>2, NothingAssumption DEF BulkLine
  <2>4. NamesFor(script["obsidian"], LabelOf(script["obsidian"]), installed) =
          NamesOf(WorktreeJobs(installed))
    BY <2>2 DEF NamesFor, NamesOf
  <2>5. LabelOf(script["bulk"]) = "bulk" /\ "bulk" # None
    BY <2>1, NothingAssumption DEF BulkLine, LabelOf, Label
  <2>6. NamesFor(script["bulk"], LabelOf(script["bulk"]), installed) =
          NamesOf(OtherJobs(installed))
    BY <2>1, <2>5 DEF BulkLine, NamesFor
  <2> QED BY <2>1, <2>3, <2>4, <2>6 DEF Wrapper
<1> QED BY <1>1, <1>2, NextScheduleInv, InvocationTypeCorrect, PTL DEF Spec
=============================================================================
