--------------------------- MODULE MCLedgerStore ---------------------------
(* Small instances of LedgerStore for TLC. *)
EXTENDS LedgerStore, TLC

CONSTANTS b0, b1, b2

(* The empty body is a value of its own; the others are interchangeable. *)
BodySymmetry == Permutations(Body \ {Blank})
=============================================================================
