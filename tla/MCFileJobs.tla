---------------------------- MODULE MCFileJobs ----------------------------
(* Small instances of FileJobs for TLC. *)
EXTENDS FileJobs, TLC

CONSTANTS a, d, dot, b1, b2

MCPath == { <<a>>, <<d>>, <<dot, a>> }
MCSize == [w \in Body \cup {Torn} |-> IF w = Torn THEN 0 ELSE 1]

(* The remote keeps even seconds. *)
MCStamp == [t \in 0 .. MaxTime |-> t - (t % 2)]

(* "- **/.obsidian/**", and the same with an include and an exclude. *)
HiddenDir == <<Deep, {dot}, Deep>>
ByRule    == [rules |-> << [include |-> FALSE, pattern |-> HiddenDir] >>,
              include |-> {}, exclude |-> {}]
ByExclude == [rules |-> << >>, include |-> {<<{a, d}>>}, exclude |-> {HiddenDir}]
(* The last rule that matches decides. *)
ByLast    == [rules |-> << [include |-> TRUE, pattern |-> <<{a}>>],
                           [include |-> FALSE, pattern |-> HiddenDir],
                           [include |-> TRUE, pattern |-> <<{d}>>] >>,
              include |-> {}, exclude |-> {}]

Job(kind, source, filter, retention, keep) ==
    [kind |-> kind, source |-> source, filter |-> filter,
     retention |-> retention, keep |-> keep]
KeepOne == [glob |-> <<{a, d}>>, keep |-> 1]

MCJobs == { Job("copy", "smb", ByExclude, 0, {}),
            Job("sync", "directory", ByRule, 0, {}),
            Job("retained_copy", "directory", ByLast, 3, {}),
            Job("retained_copy", "directory", ByRule, 0, {KeepOne}) }

BodySymmetry == Permutations(Body)
=============================================================================
