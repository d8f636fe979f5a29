------------------------------- MODULE Merge -------------------------------
(***************************************************************************)
(* The three-way merge of internal/merge/merge.go, which a `worktree` job  *)
(* calls when a file changed on both replicas: diff3 on lines.             *)
(*                                                                         *)
(* One step is one turn of a loop of the code: of the two walks that match *)
(* the lines of the base with those of a side, or of the loop that cuts    *)
(* the three texts into chunks.  The texts are any that Init admits.       *)
(*                                                                         *)
(* A text is a sequence of lines.  A line is a token that stands for its   *)
(* characters with the newline that ends it; the last line of a text may   *)
(* be open, that is, have none.  A chunk is written to the result as soon  *)
(* as it is cut, where the code cuts all of them first.                    *)
(***************************************************************************)
EXTENDS Integers, Sequences, FiniteSets

CONSTANTS
    Closed,     \* lines that end in a newline
    Open,       \* lines that do not
    Ended,      \* Ended[l]: the open line l with a newline added
    Marker,     \* Marker[k]: the four lines around and inside a conflict
    MaxBase,    \* bound: lines of the base
    MaxSide     \* bound: lines of ours and of theirs

Line == Closed \cup Open

ASSUME LineAssumption   == /\ Closed \cap Open = {}
                           /\ Ended \in [Open -> Closed]
ASSUME StartAssumption  == << >> \notin Line
ASSUME MarkerAssumption == Marker \in [{"ours", "base", "mid", "end"} -> Closed]
ASSUME BoundAssumption  == MaxBase \in Nat /\ MaxSide \in Nat

(* What splitLines returns: only the last line can be open.                *)
IsText(s) == \A n \in 1 .. Len(s) - 1 : s[n] \in Closed
Text(max) == { s \in UNION { [1 .. n -> Line] : n \in 0 .. max } : IsText(s) }

VARIABLES
    o, a, b,    \* the base, ours and theirs
    pc,         \* how far Merge is
    ma, mb,     \* pairs <<n, k>>: line n of o is matched to line k of a, of b
    i, j,       \* the cursors of the walk under way, in o and in a or b
    oi, ai, bi, \* how many lines of each text have been cut off
    merged,     \* the lines of the result so far
    conflicts   \* how many of its chunks are in conflict

texts   == <<o, a, b>>
walk    == <<i, j>>
cursors == <<oi, ai, bi>>
result  == <<merged, conflicts>>
vars == <<o, a, b, pc, ma, mb, i, j, oi, ai, bi, merged, conflicts>>

TypeOK ==
    /\ \A s \in {o, a, b} : s \in Seq(Line) /\ IsText(s)
    /\ pc \in {"compare", "matchOurs", "matchTheirs", "cut", "done"}
    /\ ma \subseteq (1 .. Len(o)) \X (1 .. Len(a))
    /\ mb \subseteq (1 .. Len(o)) \X (1 .. Len(b))
    /\ i \in 0 .. Len(o) /\ j \in Nat
    /\ oi \in 0 .. Len(o) /\ ai \in 0 .. Len(a) /\ bi \in 0 .. Len(b)
    /\ merged \in Seq(Line)
    /\ conflicts \in Nat

Init ==
    /\ o \in Text(MaxBase) /\ a \in Text(MaxSide) /\ b \in Text(MaxSide)
    /\ pc = "compare"
    /\ ma = {} /\ mb = {}
    /\ i = 0 /\ j = 0
    /\ oi = 0 /\ ai = 0 /\ bi = 0
    /\ merged = << >>
    /\ conflicts = 0

-----------------------------------------------------------------------------
(* The three cases Merge answers without looking at the lines.             *)
ShortCircuit ==
    /\ pc = "compare"
    /\ \/ a = b /\ merged' = a
       \/ a # b /\ a = o /\ merged' = b
       \/ a # b /\ a # o /\ b = o /\ merged' = a
    /\ pc' = "done"
    /\ UNCHANGED <<texts, ma, mb, walk, cursors, conflicts>>

Split ==
    /\ pc = "compare"
    /\ a # b /\ a # o /\ b # o
    /\ pc' = "matchOurs"
    /\ UNCHANGED <<texts, ma, mb, walk, cursors, result>>

-----------------------------------------------------------------------------
(* matchIndex: a table of the lengths of the longest common subsequences   *)
(* of what follows n in s and k in t, and a walk through it.               *)

LCSLen(s, t) ==
    LET dp[c \in (0 .. Len(s)) \X (0 .. Len(t))] ==
          LET n == c[1]
              k == c[2]
          IN  IF n = Len(s) \/ k = Len(t) THEN 0
              ELSE IF s[n + 1] = t[k + 1] THEN dp[<<n + 1, k + 1>>] + 1
              ELSE IF dp[<<n + 1, k>>] >= dp[<<n, k + 1>>] THEN dp[<<n + 1, k>>]
              ELSE dp[<<n, k + 1>>]
    IN  dp

(* Mutant: the lines are numbered from 0 on one side.                      *)
WalkStepFromZero(t, match, match_) ==
    /\ o[i + 1] = t[j + 1]
    /\ match_ = match \cup {<<i + 1, j>>}
    /\ i' = i + 1 /\ j' = j + 1

(* One turn of the walk through o and t; match is what it has found.       *)
WalkStep(t, match, match_) ==
    IF o[i + 1] = t[j + 1]
    THEN /\ match_ = match \cup {<<i + 1, j + 1>>}
         /\ i' = i + 1 /\ j' = j + 1
    ELSE LET dp == LCSLen(o, t)
         IN  /\ match_ = match
             /\ IF dp[<<i + 1, j>>] >= dp[<<i, j + 1>>]
                THEN i' = i + 1 /\ j' = j
                ELSE i' = i /\ j' = j + 1

WalkEnds(t) == i = Len(o) \/ j = Len(t)

MatchOurs ==
    /\ pc = "matchOurs"
    /\ IF WalkEnds(a)
       THEN pc' = "matchTheirs" /\ i' = 0 /\ j' = 0 /\ UNCHANGED ma
       ELSE WalkStep(a, ma, ma') /\ UNCHANGED pc
    /\ UNCHANGED <<texts, mb, cursors, result>>

MatchTheirs ==
    /\ pc = "matchTheirs"
    /\ IF WalkEnds(b)
       THEN pc' = "cut" /\ UNCHANGED <<walk, mb>>
       ELSE WalkStep(b, mb, mb') /\ UNCHANGED pc
    /\ UNCHANGED <<texts, ma, cursors, result>>

-----------------------------------------------------------------------------
(* diff3Chunks.                                                            *)

(* Mutant: the last line of a slice is left as it is.                      *)
LeaveNL(s) == s

(* ensureNL.                                                               *)
EnsureNL(s) ==
    IF s # << >> /\ s[Len(s)] \in Open
    THEN [s EXCEPT ![Len(s)] = Ended[s[Len(s)]]]
    ELSE s

MarkerBlock(s, t, u) ==
    <<Marker["ours"]>> \o EnsureNL(t) \o <<Marker["base"]>> \o EnsureNL(s)
      \o <<Marker["mid"]>> \o EnsureNL(u) \o <<Marker["end"]>>

(* Mutant: that both sides made the same change is not looked for.         *)
DisputedIfBothChanged(s, t, u) == t # s /\ u # s

(* resolveChunk, for the base s, ours t and theirs u of a chunk.           *)
Disputed(s, t, u) == t # s /\ u # s /\ t # u

(* Mutant: ours is taken, changed or not.                                  *)
ResolvedToOurs(s, t, u) == t

Resolved(s, t, u) == IF t = s THEN u ELSE t

Cut(s, t, u) ==
    IF Disputed(s, t, u)
    THEN /\ merged' = merged \o MarkerBlock(s, t, u)
         /\ conflicts' = conflicts + 1
    ELSE /\ merged' = merged \o Resolved(s, t, u)
         /\ UNCHANGED conflicts

(* Mutant: one side's cursor is not looked at.                             *)
StableOnOurs == <<oi + 1, ai + 1>> \in ma

(* Line oi + 1 of the base is matched at the cursors on both sides.        *)
Stable == <<oi + 1, ai + 1>> \in ma /\ <<oi + 1, bi + 1>> \in mb

CutStable ==
    /\ pc = "cut"
    /\ oi < Len(o) /\ Stable
    /\ merged' = Append(merged, o[oi + 1])
    /\ oi' = oi + 1 /\ ai' = ai + 1 /\ bi' = bi + 1
    /\ UNCHANGED <<texts, pc, ma, mb, walk, conflicts>>

(* nextSyncPoint: the cursors stop before the first base line left that    *)
(* both sides match at or after their cursors.                             *)
SyncPoints ==
    { s \in (oi .. Len(o) - 1) \X (ai .. Len(a)) \X (bi .. Len(b)) :
        <<s[1] + 1, s[2] + 1>> \in ma /\ <<s[1] + 1, s[3] + 1>> \in mb }

(* Mutant: with no line left to meet at, the base cursor stays.            *)
IsNextSyncOrHere(s) ==
    IF SyncPoints = {}
    THEN s = <<oi, Len(a), Len(b)>>
    ELSE s \in SyncPoints /\ \A r \in SyncPoints : s[1] <= r[1]

IsNextSync(s) ==
    IF SyncPoints = {}
    THEN s = <<Len(o), Len(a), Len(b)>>
    ELSE s \in SyncPoints /\ \A r \in SyncPoints : s[1] <= r[1]

CutUnstable ==
    /\ pc = "cut"
    /\ oi < Len(o) /\ ~Stable
    /\ \E s \in (oi .. Len(o)) \X (ai .. Len(a)) \X (bi .. Len(b)) :
         /\ IsNextSync(s)
         /\ Cut(SubSeq(o, oi + 1, s[1]), SubSeq(a, ai + 1, s[2]),
                SubSeq(b, bi + 1, s[3]))
         /\ oi' = s[1] /\ ai' = s[2] /\ bi' = s[3]
    /\ UNCHANGED <<texts, pc, ma, mb, walk>>

(* Mutant: both sides must have something left.                            *)
TrailingOnBoth == ai < Len(a) /\ bi < Len(b)

(* What follows the last base line on either side.                         *)
Trailing == ai < Len(a) \/ bi < Len(b)

CutTrailing ==
    /\ pc = "cut"
    /\ oi = Len(o)
    /\ IF Trailing
       THEN /\ Cut(<< >>, SubSeq(a, ai + 1, Len(a)), SubSeq(b, bi + 1, Len(b)))
            /\ ai' = Len(a) /\ bi' = Len(b)
       ELSE UNCHANGED <<ai, bi, result>>
    /\ pc' = "done"
    /\ UNCHANGED <<texts, ma, mb, walk, oi>>

Next ==
    \/ ShortCircuit \/ Split
    \/ MatchOurs \/ MatchTheirs
    \/ CutStable \/ CutUnstable \/ CutTrailing

Spec == Init /\ [][Next]_vars

(* Merge is an ordinary function: it runs until it returns.                *)
FairSpec == Spec /\ WF_vars(Next)

-----------------------------------------------------------------------------
(* What the merge promises.  Worktree writes a clean result to both        *)
(* replicas and makes it their new base.                                   *)

Done  == pc = "done"
Clean == Done /\ conflicts = 0

(* The texts were cut, rather than one of them taken whole.                *)
WasSplit == a # b /\ a # o /\ b # o

(* diff3Chunks leaves out nothing: at the end each text has been cut off   *)
(* to its last line.                                                       *)
NothingSkipped ==
    Done /\ WasSplit => oi = Len(o) /\ ai = Len(a) /\ bi = Len(b)

(* The result, clean or not, is a text again: a line that lacks its        *)
(* newline is never followed by another one and glued to it.               *)
MergedIsText == Done => IsText(merged)

Count(s, l) == Cardinality({ n \in DOMAIN s : s[n] = l })
LinesOf(s)  == { s[n] : n \in DOMAIN s }

(* Lines that are new to a text are neither dropped nor multiplied by a    *)
(* clean merge, however often lines are repeated.                          *)
AddedLinesSurvive ==
    Clean =>
      \A l \in LinesOf(a) \cup LinesOf(b) \cup LinesOf(merged) :
        Count(o, l) = 0 =>
          /\ Count(merged, l) >= Count(a, l)
          /\ Count(merged, l) >= Count(b, l)
          /\ Count(merged, l) <= Count(a, l) + Count(b, l)

(* The reference: texts that repeat no line, in which a side has not moved *)
(* lines of the base past each other.                                      *)
Distinct(s)   == \A n, k \in DOMAIN s : s[n] = s[k] => n = k
Unmoved(s, t) == \A n, k \in DOMAIN s, l, m \in DOMAIN t :
                   (s[n] = t[l] /\ s[k] = t[m] /\ n < k) => l < m
Simple == /\ Distinct(o) /\ Distinct(a) /\ Distinct(b)
          /\ Unmoved(o, a) /\ Unmoved(o, b)

(* Between two such texts, a clean merge keeps the lines both sides have   *)
(* and those either side added: it is what Worktree's Merged says of edits.*)
MergesLikeSets ==
    Clean /\ Simple =>
      LinesOf(merged) = (LinesOf(a) \cap LinesOf(b))
                          \cup (LinesOf(a) \ LinesOf(o))
                          \cup (LinesOf(b) \ LinesOf(o))

(* What lies in s between line x, or its start, which no line is, and the  *)
(* next line all three texts share.                                        *)
Start        == << >>
Shared       == LinesOf(o) \cap LinesOf(a) \cap LinesOf(b)
Place(s, x)  == IF x = Start THEN 0 ELSE CHOOSE n \in DOMAIN s : s[n] = x
Segment(s, x) ==
    LET first == Place(s, x) + 1
        next  == { n \in first .. Len(s) : s[n] \in Shared }
    IN  IF next = {} THEN SubSeq(s, first, Len(s))
        ELSE SubSeq(s, first, (CHOOSE n \in next : \A m \in next : n <= m) - 1)

(* There are as many conflicts as there are places, between lines all      *)
(* three texts share, at which both sides changed the base differently.    *)
ConflictsAreDivergent ==
    Done /\ Simple =>
      conflicts = Cardinality(
        { x \in {Start} \cup Shared :
            /\ Segment(a, x) # Segment(o, x)
            /\ Segment(b, x) # Segment(o, x)
            /\ Segment(a, x) # Segment(b, x) })

(* Merge returns, whatever the texts.                                      *)
MergeEnds == <>Done
=============================================================================
