---------------------------- MODULE AtomicLedger ----------------------------
(***************************************************************************)
(* What the comment of ledger.Save promises of ledger.json: a register     *)
(* that one run at a time reads, and then replaces at once or not at all.  *)
(***************************************************************************)
EXTENDS Naturals

CONSTANTS
    Body,       \* what a ledger can say: its files, tombstones and cursors
    Blank,      \* what an empty ledger says
    None        \* no run has loaded the ledger

Ledger == [gen : Nat, body : Body]
Empty  == [gen |-> 0, body |-> Blank]

VARIABLES
    ledger,     \* the ledger a run would load
    held        \* the ledger the active run has loaded, or None

avars == <<ledger, held>>

AInit == ledger = Empty /\ held = None

Take ==
    /\ held = None
    /\ held' = ledger
    /\ UNCHANGED ledger

Replace ==
    /\ held # None
    /\ \E b \in Body : ledger' = [gen |-> held.gen + 1, body |-> b]
    /\ held' = None

Abandon ==
    /\ held # None
    /\ held' = None
    /\ UNCHANGED ledger

ANext == Take \/ Replace \/ Abandon

ASpec == AInit /\ [][ANext]_avars
=============================================================================
