---------------------------- MODULE MCInvocation ----------------------------
(* Small instances of Invocation for TLC. *)
EXTENDS Invocation, TLC

CONSTANTS p1, p2, notes, dcim, docs

(* A jobs file, and one in which the worktree job has another name.        *)
Written(n, t) == [name |-> n, type |-> t]
MCConfigs == { {Written(notes, "bisync"), Written(dcim, "retained_copy")},
               {Written(docs, "worktree"), Written(dcim, "copy")} }

(* One with a profile of its own for the worktree job, and one without.    *)
Profile(min, max) == [enabled |-> FALSE, minBattery |-> min, maxTemp |-> max,
                      notify |-> TRUE]
MCRuntimes ==
    { [gate |-> [enabled |-> TRUE, minBattery |-> 0, requireCharging |-> FALSE,
                 maxTemp |-> 0],
       profiles |-> [l \in Label |-> CASE l = "bulk" -> Profile(65, 38)
                                       [] l = notes  -> Profile(30, 0)
                                       [] OTHER      -> None]] }

State(pct, temp, charging) ==
    [percentage |-> pct, temp |-> temp, charging |-> charging]
MCDevices == { State(90, 30, FALSE), State(25, 40, FALSE) }

Line(names, profile, reason) ==
    [names |-> names, profile |-> profile, reason |-> reason]
MCCommands == { Line({}, None, "manual") }

ProcessSymmetry == Permutations(Process)
=============================================================================
