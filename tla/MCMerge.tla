------------------------------ MODULE MCMerge ------------------------------
(* Small instances of Merge for TLC. *)
EXTENDS Merge, TLC

CONSTANTS x, y, z, w, wOpen

(* The open line has the characters of w. *)
MCEnded  == [l \in Open |-> w]
MCMarker == [k \in {"ours", "base", "mid", "end"} |-> w]
=============================================================================
