---------------------------- MODULE MCWorktree ----------------------------
(* Small instances of Worktree for TLC. *)
EXTENDS Worktree, TLC

CONSTANTS c1, c2, c3, hub, n1, n2, n3, s1, s2, e1, e2, e3

(* A sidecar name belongs to the only note that can be in conflict. *)
MCSidecar == [p \in Path |-> IF p \in Note THEN Path \ Note ELSE {}]

(* Walk goes by name: a sidecar's continues that of its note. *)
MCRank == [p \in Path |-> IF p \in Note THEN (IF p = n1 THEN 0 ELSE 1) ELSE 2]

(* Sound for the runs that check safety only. *)
EditSymmetry      == Permutations(Edit)
ClientSymmetry    == EditSymmetry \cup Permutations(Client)

(* What the steps of a run depend on, where no file is restored; the rest  *)
(* is history that no property of RoughRun reads.                          *)
WithoutHistory == <<tree, ledgerVars, blobVars, pc, memoryVars, todo,
                    writeVars, made, touched>>
=============================================================================
