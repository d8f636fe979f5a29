---------------------------- MODULE MergeProofs ----------------------------
(***************************************************************************)
(* Proofs about Merge, for texts of any length over any set of lines: the  *)
(* merge cuts each of them off to its end, what it returns is a text, a    *)
(* clean result neither drops nor multiplies what a side added, and of     *)
(* texts that repeat no line it is the one the sets of lines call for,     *)
(* with a conflict just where both sides changed the base differently.     *)
(*                                                                         *)
(* That the result is a text: an open line is the last one of each text it *)
(* is in.  A chunk before a line the three texts share cannot hold it, and *)
(* the chunk that does hold it leaves nothing behind in any text.          *)
(*                                                                         *)
(* That added lines survive: each line has been written as often as the    *)
(* chunks cut off so far demand.  The rest needs what the two maps hold:   *)
(* of texts that repeat and move no line, every pair of equal lines, for   *)
(* the table of the longest common subsequence then counts shared lines.   *)
(***************************************************************************)
EXTENDS Merge, FiniteSetTheorems, WellFoundedInduction, TLAPS

(* s ends in a line without a newline.                                     *)
OpenEnd(s) == s # << >> /\ s[Len(s)] \in Open

-----------------------------------------------------------------------------
(* Texts and their pieces.                                                 *)

LEMMA TextIsSeq ==
    ASSUME NEW max \in Nat, NEW s \in Text(max)
    PROVE  s \in Seq(Line) /\ IsText(s)
BY DEF Text

(* Writing a text after one that has no open end gives a text.             *)
LEMMA ConcatIsText ==
    ASSUME NEW s \in Seq(Line), NEW t \in Seq(Line), IsText(s), IsText(t),
           ~OpenEnd(s)
    PROVE  /\ s \o t \in Seq(Line)
           /\ IsText(s \o t)
           /\ OpenEnd(s \o t) => OpenEnd(t)
<1>1. s \o t \in Seq(Line) /\ Len(s \o t) = Len(s) + Len(t)
  OBVIOUS
<1>2. \A n \in 1 .. Len(s) : (s \o t)[n] = s[n]
  OBVIOUS
<1>3. \A n \in 1 .. Len(t) : (s \o t)[Len(s) + n] = t[n]
  OBVIOUS
<1>4. \A n \in 1 .. Len(s) : s[n] \in Closed
  BY DEF IsText, OpenEnd, Line
<1>5. IsText(s \o t)
  <2>1. SUFFICES ASSUME NEW n \in 1 .. Len(s \o t) - 1
                 PROVE  (s \o t)[n] \in Closed
    BY DEF IsText
  <2>2. CASE n <= Len(s)
    BY <1>2, <1>4, <2>2
  <2>3. CASE n > Len(s)
    <3>1. n - Len(s) \in 1 .. Len(t) - 1 /\ n = Len(s) + (n - Len(s))
      BY <1>1, <2>3
    <3>2. t[n - Len(s)] \in Closed
      BY <3>1 DEF IsText
    <3> QED BY <1>3, <3>1, <3>2
  <2> QED BY <1>1, <2>2, <2>3
<1>6. ASSUME OpenEnd(s \o t) PROVE OpenEnd(t)
  <2>1. CASE t = << >>
    <3>1. s \o t = s
      BY <2>1
    <3> QED BY <1>6, <3>1
  <2>2. CASE t # << >>
    <3>1. Len(t) \in 1 .. Len(t)
      BY <2>2
    <3>2. (s \o t)[Len(s \o t)] = t[Len(t)]
      BY <1>1, <1>3, <3>1
    <3> QED BY <1>6, <2>2, <3>2 DEF OpenEnd
  <2> QED BY <2>1, <2>2
<1> QED BY <1>1, <1>5, <1>6

(* A piece of a text is a text, and open only if it reaches its end.       *)
LEMMA PieceIsText ==
    ASSUME NEW s \in Seq(Line), IsText(s),
           NEW m \in 0 .. Len(s), NEW n \in m .. Len(s)
    PROVE  /\ SubSeq(s, m + 1, n) \in Seq(Line)
           /\ IsText(SubSeq(s, m + 1, n))
           /\ OpenEnd(SubSeq(s, m + 1, n)) => n = Len(s)
<1> DEFINE t == SubSeq(s, m + 1, n)
<1>1. t \in Seq(Line) /\ Len(t) = n - m
  OBVIOUS
<1>2. \A k \in 1 .. n - m : t[k] = s[m + k]
  OBVIOUS
<1>3. IsText(t)
  BY <1>1, <1>2 DEF IsText
<1>4. ASSUME OpenEnd(t), n # Len(s) PROVE FALSE
  <2>1. Len(t) # 0
    BY <1>1, <1>4 DEF OpenEnd
  <2>2. n - m \in 1 .. n - m
    BY <1>1, <2>1
  <2>3. t[Len(t)] = s[n]
    BY <1>1, <1>2, <2>2
  <2>4. s[n] \in Closed
    BY <1>1, <1>4, <2>2 DEF IsText
  <2> QED BY <1>4, <2>3, <2>4, LineAssumption DEF OpenEnd
<1> QED BY <1>1, <1>3, <1>4

(* A sequence of closed lines is a text without an open end.               *)
LEMMA ClosedIsText ==
    ASSUME NEW s \in Seq(Closed)
    PROVE  s \in Seq(Line) /\ IsText(s) /\ ~OpenEnd(s)
<1>1. s \in Seq(Line)
  BY DEF Line
<1>2. \A n \in 1 .. Len(s) : s[n] \in Closed
  OBVIOUS
<1>3. IsText(s)
  BY <1>2 DEF IsText
<1>4. ~OpenEnd(s)
  <2>1. SUFFICES ASSUME s # << >> PROVE s[Len(s)] \in Closed
    BY LineAssumption DEF OpenEnd
  <2>2. Len(s) \in 1 .. Len(s)
    BY <2>1
  <2> QED BY <1>2, <2>2
<1> QED BY <1>1, <1>3, <1>4

(* ensureNL closes a text.                                                 *)
LEMMA EnsureNLCloses ==
    ASSUME NEW s \in Seq(Line), IsText(s)
    PROVE  EnsureNL(s) \in Seq(Closed)
<1>1. CASE OpenEnd(s)
  <2>1. EnsureNL(s) = [s EXCEPT ![Len(s)] = Ended[s[Len(s)]]]
    BY <1>1 DEF EnsureNL, OpenEnd
  <2>2. Ended[s[Len(s)]] \in Closed
    BY <1>1, LineAssumption DEF OpenEnd
  <2>3. s \in [1 .. Len(s) -> Line]
    OBVIOUS
  <2>4. ASSUME NEW n \in 1 .. Len(s) PROVE EnsureNL(s)[n] \in Closed
    <3>1. CASE n = Len(s)
      BY <2>1, <2>2, <2>3, <3>1
    <3>2. CASE n # Len(s)
      <4>1. Len(s) \in Nat
        OBVIOUS
      <4>2. n \in 1 .. Len(s) - 1
        BY <3>2, <4>1
      <4>3. n \in DOMAIN s
        BY <2>3
      <4>4. EnsureNL(s)[n] = s[n]
        BY <2>1, <3>2, <4>3
      <4> QED BY <4>2, <4>4 DEF IsText
    <3> QED BY <3>1, <3>2
  <2>5. EnsureNL(s) \in [1 .. Len(s) -> Closed]
    BY <2>1, <2>3, <2>4
  <2> QED BY <2>5
<1>2. CASE ~OpenEnd(s)
  <2>1. EnsureNL(s) = s
    BY <1>2 DEF EnsureNL, OpenEnd
  <2>2. \A n \in 1 .. Len(s) : s[n] \in Closed
    BY <1>2 DEF IsText, OpenEnd, Line
  <2>3. s \in [1 .. Len(s) -> Closed]
    BY <2>2
  <2> QED BY <2>1, <2>3
<1> QED BY <1>1, <1>2

LEMMA MarkerBlockIsClosed ==
    ASSUME NEW s \in Seq(Line), NEW t \in Seq(Line), NEW u \in Seq(Line),
           IsText(s), IsText(t), IsText(u)
    PROVE  MarkerBlock(s, t, u) \in Seq(Closed)
<1>1. /\ EnsureNL(s) \in Seq(Closed)
      /\ EnsureNL(t) \in Seq(Closed)
      /\ EnsureNL(u) \in Seq(Closed)
  BY EnsureNLCloses
<1>2. \A k \in {"ours", "base", "mid", "end"} : <<Marker[k]>> \in Seq(Closed)
  BY MarkerAssumption
<1> QED BY <1>1, <1>2 DEF MarkerBlock

-----------------------------------------------------------------------------
(* The inductive invariant.                                                *)

AtEnds == oi = Len(o) /\ ai = Len(a) /\ bi = Len(b)

(* What matchIndex finds are equal lines.                                  *)
MatchInv ==
    /\ \A p \in ma : o[p[1]] = a[p[2]]
    /\ \A p \in mb : o[p[1]] = b[p[2]]
    /\ pc \in {"compare", "matchOurs"} => j <= Len(a)
    /\ pc = "compare" => i = 0 /\ j = 0
    /\ pc = "matchTheirs" => j <= Len(b)

(* The result is a text at every step, open only when nothing is left.     *)
JoinInv ==
    /\ IsText(merged)
    /\ pc \in {"compare", "matchOurs", "matchTheirs"} => merged = << >>
    /\ pc = "cut" => (OpenEnd(merged) => AtEnds)

(* Only a text that was not split ends before the cursors do.              *)
EndInv ==
    /\ pc \in {"matchOurs", "matchTheirs", "cut"} => WasSplit
    /\ NothingSkipped

IInv == TypeOK /\ MatchInv /\ JoinInv /\ EndInv

LEMMA InitIInv == Init => IInv
<1> SUFFICES ASSUME Init PROVE IInv
  OBVIOUS
<1>1. \A s \in {o, a, b} : s \in Seq(Line) /\ IsText(s)
  BY TextIsSeq, BoundAssumption DEF Init
<1>2. Len(o) \in Nat /\ Len(a) \in Nat /\ Len(b) \in Nat
  BY <1>1
<1>3. IsText(<< >>)
  BY DEF IsText
<1> QED
  BY <1>1, <1>2, <1>3
     DEF Init, IInv, TypeOK, MatchInv, JoinInv, EndInv, NothingSkipped, Done

(* A walk that has not ended finds another pair of lines, or none.         *)
LEMMA WalkFinds ==
    ASSUME IInv, NEW t \in {a, b}, ~WalkEnds(t), j <= Len(t), j \in Nat,
           NEW match, NEW match_, WalkStep(t, match, match_),
           match \subseteq (1 .. Len(o)) \X (1 .. Len(t)),
           \A p \in match : o[p[1]] = t[p[2]]
    PROVE  /\ match_ \subseteq (1 .. Len(o)) \X (1 .. Len(t))
           /\ \A p \in match_ : o[p[1]] = t[p[2]]
           /\ i' \in 0 .. Len(o) /\ j' \in Nat /\ j' <= Len(t)
<1>1. Len(o) \in Nat /\ Len(t) \in Nat /\ i \in 0 .. Len(o)
  BY DEF IInv, TypeOK
<1>2. i + 1 \in 1 .. Len(o) /\ j + 1 \in 1 .. Len(t)
  BY <1>1 DEF WalkEnds
<1>3. CASE o[i + 1] = t[j + 1]
  <2>1. /\ match_ = match \cup {<<i + 1, j + 1>>}
        /\ i' = i + 1 /\ j' = j + 1
    BY <1>3 DEF WalkStep
  <2> QED BY <1>1, <1>2, <1>3, <2>1
<1>4. CASE o[i + 1] # t[j + 1]
  <2>1. /\ match_ = match
        /\ \/ i' = i + 1 /\ j' = j
           \/ i' = i /\ j' = j + 1
    BY <1>4 DEF WalkStep
  <2> QED BY <1>1, <1>2, <2>1
<1> QED BY <1>3, <1>4

(* Writing the next chunk keeps the result a text: its pieces of ours and  *)
(* theirs are followed by more, or nothing is left of any text.            *)
LEMMA CutJoins ==
    ASSUME IInv, ~OpenEnd(merged),
           NEW l \in oi .. Len(o), NEW m \in ai .. Len(a), NEW n \in bi .. Len(b),
           Cut(SubSeq(o, oi + 1, l), SubSeq(a, ai + 1, m), SubSeq(b, bi + 1, n)),
           (m = Len(a) \/ n = Len(b)) =>
              l = Len(o) /\ m = Len(a) /\ n = Len(b)
    PROVE  /\ merged' \in Seq(Line) /\ IsText(merged') /\ conflicts' \in Nat
           /\ OpenEnd(merged') => l = Len(o) /\ m = Len(a) /\ n = Len(b)
<1> DEFINE so == SubSeq(o, oi + 1, l)
           sa == SubSeq(a, ai + 1, m)
           sb == SubSeq(b, bi + 1, n)
<1>1. /\ o \in Seq(Line) /\ a \in Seq(Line) /\ b \in Seq(Line)
      /\ IsText(o) /\ IsText(a) /\ IsText(b)
      /\ merged \in Seq(Line) /\ IsText(merged) /\ conflicts \in Nat
      /\ oi \in 0 .. Len(o) /\ ai \in 0 .. Len(a) /\ bi \in 0 .. Len(b)
  BY DEF IInv, TypeOK, JoinInv
<1>2. so \in Seq(Line) /\ IsText(so)
  BY <1>1, PieceIsText
<1>3. sa \in Seq(Line) /\ IsText(sa) /\ (OpenEnd(sa) => m = Len(a))
  BY <1>1, PieceIsText
<1>4. sb \in Seq(Line) /\ IsText(sb) /\ (OpenEnd(sb) => n = Len(b))
  BY <1>1, PieceIsText
<1> HIDE DEF so, sa, sb
<1>5. CASE Disputed(so, sa, sb)
  <2>1. merged' = merged \o MarkerBlock(so, sa, sb) /\ conflicts' = conflicts + 1
    BY <1>5 DEF Cut, so, sa, sb
  <2>2. /\ MarkerBlock(so, sa, sb) \in Seq(Line)
        /\ IsText(MarkerBlock(so, sa, sb))
        /\ ~OpenEnd(MarkerBlock(so, sa, sb))
    BY <1>2, <1>3, <1>4, MarkerBlockIsClosed, ClosedIsText
  <2> QED BY <1>1, <2>1, <2>2, ConcatIsText
<1>6. CASE ~Disputed(so, sa, sb)
  <2>1. merged' = merged \o Resolved(so, sa, sb) /\ conflicts' = conflicts
    BY <1>6 DEF Cut, so, sa, sb
  <2>2. /\ Resolved(so, sa, sb) \in Seq(Line)
        /\ IsText(Resolved(so, sa, sb))
        /\ OpenEnd(Resolved(so, sa, sb)) => m = Len(a) \/ n = Len(b)
    BY <1>3, <1>4 DEF Resolved
  <2> QED BY <1>1, <2>1, <2>2, ConcatIsText
<1> QED BY <1>5, <1>6

(* Where a search for a line to meet at ends: before a line of all three   *)
(* texts, or at the end of each.                                           *)
LEMMA SyncLeavesAllOrNothing ==
    ASSUME IInv, NEW s \in (oi .. Len(o)) \X (ai .. Len(a)) \X (bi .. Len(b)),
           IsNextSync(s), s[2] = Len(a) \/ s[3] = Len(b)
    PROVE  s[1] = Len(o) /\ s[2] = Len(a) /\ s[3] = Len(b)
<1>1. /\ ma \subseteq (1 .. Len(o)) \X (1 .. Len(a))
      /\ mb \subseteq (1 .. Len(o)) \X (1 .. Len(b))
      /\ Len(a) \in Nat /\ Len(b) \in Nat
  BY DEF IInv, TypeOK
<1>2. CASE SyncPoints = {}
  BY <1>2 DEF IsNextSync
<1>3. CASE SyncPoints # {}
  <2>1. <<s[1] + 1, s[2] + 1>> \in ma /\ <<s[1] + 1, s[3] + 1>> \in mb
    BY <1>3 DEF IsNextSync, SyncPoints
  <2>2. s[2] + 1 \in 1 .. Len(a) /\ s[3] + 1 \in 1 .. Len(b)
    BY <1>1, <2>1
  <2> QED BY <1>1, <2>2
<1> QED BY <1>2, <1>3

LEMMA CutStableIInv ==
    ASSUME IInv, CutStable
    PROVE  IInv'
<1>1. /\ o \in Seq(Line) /\ a \in Seq(Line) /\ b \in Seq(Line)
      /\ IsText(o) /\ IsText(a) /\ IsText(b)
      /\ merged \in Seq(Line) /\ IsText(merged)
      /\ oi \in 0 .. Len(o) /\ ai \in 0 .. Len(a) /\ bi \in 0 .. Len(b)
  BY DEF IInv, TypeOK, JoinInv
<1>2. /\ pc = "cut" /\ pc' = pc
      /\ merged' = Append(merged, o[oi + 1])
      /\ oi' = oi + 1 /\ ai' = ai + 1 /\ bi' = bi + 1
      /\ UNCHANGED <<o, a, b, ma, mb, i, j, conflicts>>
      /\ oi < Len(o)
  BY DEF CutStable, texts, walk
<1>3. /\ <<oi + 1, ai + 1>> \in ma /\ <<oi + 1, bi + 1>> \in mb
  BY DEF CutStable, Stable
<1>4. ai + 1 \in 1 .. Len(a) /\ bi + 1 \in 1 .. Len(b) /\ oi + 1 \in 1 .. Len(o)
  BY <1>3 DEF IInv, TypeOK
<1>5. o[oi + 1] = a[ai + 1] /\ o[oi + 1] = b[bi + 1] /\ o[oi + 1] \in Line
  BY <1>1, <1>3, <1>4 DEF IInv, MatchInv
<1>6. ~OpenEnd(merged)
  BY <1>2 DEF IInv, JoinInv, AtEnds
<1>7. merged' = merged \o <<o[oi + 1]>>
  BY <1>1, <1>2, <1>5
<1>8. <<o[oi + 1]>> \in Seq(Line) /\ IsText(<<o[oi + 1]>>)
  BY <1>5 DEF IsText
<1>9. /\ merged' \in Seq(Line) /\ IsText(merged')
      /\ OpenEnd(merged') => o[oi + 1] \in Open
  BY <1>1, <1>6, <1>7, <1>8, ConcatIsText DEF OpenEnd
<1>10. ASSUME o[oi + 1] \in Open PROVE AtEnds'
  <2>1. /\ \A n \in 1 .. Len(o) - 1 : o[n] \notin Open
        /\ \A n \in 1 .. Len(a) - 1 : a[n] \notin Open
        /\ \A n \in 1 .. Len(b) - 1 : b[n] \notin Open
    BY <1>1, LineAssumption DEF IsText
  <2> DEFINE lo == Len(o) la == Len(a) lb == Len(b)
  <2>2. lo \in Nat /\ la \in Nat /\ lb \in Nat
    BY <1>1
  <2>3. /\ oi + 1 \in 1 .. lo /\ oi + 1 \notin 1 .. lo - 1
        /\ ai + 1 \in 1 .. la /\ ai + 1 \notin 1 .. la - 1
        /\ bi + 1 \in 1 .. lb /\ bi + 1 \notin 1 .. lb - 1
    BY <1>4, <1>5, <1>10, <2>1
  <2> HIDE DEF lo, la, lb
  <2>4. oi + 1 = lo /\ ai + 1 = la /\ bi + 1 = lb
    BY <1>1, <2>2, <2>3
  <2> QED BY <1>2, <2>4 DEF AtEnds, lo, la, lb
<1>11. TypeOK'
  BY <1>1, <1>2, <1>4, <1>9 DEF IInv, TypeOK
<1>12. MatchInv'
  BY <1>2 DEF IInv, MatchInv
<1>13. JoinInv'
  BY <1>2, <1>9, <1>10 DEF JoinInv
<1>14. EndInv'
  BY <1>2 DEF IInv, EndInv, WasSplit, NothingSkipped, Done
<1> QED BY <1>11, <1>12, <1>13, <1>14 DEF IInv

LEMMA CutUnstableIInv ==
    ASSUME IInv, CutUnstable
    PROVE  IInv'
<1>1. PICK s \in (oi .. Len(o)) \X (ai .. Len(a)) \X (bi .. Len(b)) :
         /\ IsNextSync(s)
         /\ Cut(SubSeq(o, oi + 1, s[1]), SubSeq(a, ai + 1, s[2]),
                SubSeq(b, bi + 1, s[3]))
         /\ oi' = s[1] /\ ai' = s[2] /\ bi' = s[3]
  BY DEF CutUnstable
<1>2. /\ pc = "cut" /\ oi < Len(o)
      /\ UNCHANGED <<o, a, b, pc, ma, mb, i, j>>
  BY DEF CutUnstable, texts, walk
<1>3. /\ s[1] \in oi .. Len(o) /\ s[2] \in ai .. Len(a) /\ s[3] \in bi .. Len(b)
      /\ oi \in 0 .. Len(o) /\ ai \in 0 .. Len(a) /\ bi \in 0 .. Len(b)
  BY <1>1 DEF IInv, TypeOK
<1>4. ~OpenEnd(merged)
  BY <1>2, <1>3 DEF IInv, JoinInv, AtEnds
<1>5. /\ merged' \in Seq(Line) /\ IsText(merged') /\ conflicts' \in Nat
      /\ OpenEnd(merged') => s[1] = Len(o) /\ s[2] = Len(a) /\ s[3] = Len(b)
  BY <1>1, <1>3, <1>4, CutJoins, SyncLeavesAllOrNothing
<1>6. TypeOK'
  <2>1. oi' \in 0 .. Len(o) /\ ai' \in 0 .. Len(a) /\ bi' \in 0 .. Len(b)
    BY <1>1, <1>3
  <2> QED BY <1>2, <1>5, <2>1 DEF IInv, TypeOK
<1>7. MatchInv'
  BY <1>2 DEF IInv, MatchInv
<1>8. JoinInv'
  BY <1>1, <1>2, <1>5 DEF JoinInv, AtEnds
<1>9. EndInv'
  BY <1>2 DEF IInv, EndInv, WasSplit, NothingSkipped, Done
<1> QED BY <1>6, <1>7, <1>8, <1>9 DEF IInv

LEMMA CutTrailingIInv ==
    ASSUME IInv, CutTrailing
    PROVE  IInv'
<1>1. /\ pc = "cut" /\ oi = Len(o) /\ pc' = "done"
      /\ UNCHANGED <<o, a, b, ma, mb, i, j, oi>>
  BY DEF CutTrailing, texts, walk
<1>2. /\ o \in Seq(Line) /\ a \in Seq(Line) /\ b \in Seq(Line)
      /\ ai \in 0 .. Len(a) /\ bi \in 0 .. Len(b) /\ oi \in 0 .. Len(o)
      /\ Len(o) \in Nat /\ Len(a) \in Nat /\ Len(b) \in Nat
  BY DEF IInv, TypeOK
<1>3. /\ merged' \in Seq(Line) /\ IsText(merged') /\ conflicts' \in Nat
      /\ ai' = Len(a) /\ bi' = Len(b)
  <2>1. CASE Trailing
    <3>1. /\ Cut(<< >>, SubSeq(a, ai + 1, Len(a)), SubSeq(b, bi + 1, Len(b)))
          /\ ai' = Len(a) /\ bi' = Len(b)
      BY <2>1 DEF CutTrailing
    <3>2. SubSeq(o, oi + 1, Len(o)) = << >>
      BY <1>1, <1>2
    <3>3. ~OpenEnd(merged)
      BY <1>1, <2>1, <1>2 DEF IInv, JoinInv, AtEnds, Trailing
    <3>4. /\ Len(o) \in oi .. Len(o) /\ Len(a) \in ai .. Len(a)
          /\ Len(b) \in bi .. Len(b)
      BY <1>2
    <3> QED BY <3>1, <3>2, <3>3, <3>4, CutJoins
  <2>2. CASE ~Trailing
    <3>1. UNCHANGED <<ai, bi, merged, conflicts>>
      BY <2>2 DEF CutTrailing, result
    <3> QED BY <1>2, <2>2, <3>1 DEF IInv, TypeOK, JoinInv, Trailing
  <2> QED BY <2>1, <2>2
<1>4. TypeOK'
  BY <1>1, <1>2, <1>3 DEF IInv, TypeOK
<1>5. MatchInv'
  BY <1>1 DEF IInv, MatchInv
<1>6. JoinInv'
  BY <1>1, <1>3 DEF JoinInv
<1>7. EndInv'
  BY <1>1, <1>3 DEF EndInv, NothingSkipped
<1> QED BY <1>4, <1>5, <1>6, <1>7 DEF IInv

LEMMA NextIInv == IInv /\ [Next]_vars => IInv'
<1> SUFFICES ASSUME IInv, [Next]_vars PROVE IInv'
  OBVIOUS
<1>1. CASE ShortCircuit
  <2>1. merged' \in Seq(Line) /\ IsText(merged')
    BY <1>1 DEF ShortCircuit, IInv, TypeOK
  <2>2. /\ pc' = "done" /\ ~WasSplit
        /\ UNCHANGED <<o, a, b, ma, mb, i, j, oi, ai, bi, conflicts>>
    BY <1>1 DEF ShortCircuit, WasSplit, texts, walk, cursors
  <2> QED BY <2>1, <2>2
     DEF IInv, TypeOK, MatchInv, JoinInv, EndInv, WasSplit, NothingSkipped, Done
<1>2. CASE Split
  BY <1>2 DEF Split, IInv, TypeOK, MatchInv, JoinInv, EndInv, WasSplit,
              NothingSkipped, Done, texts, walk, cursors, result
<1>3. CASE MatchOurs
  <2>1. /\ pc = "matchOurs" /\ j <= Len(a) /\ j \in Nat
        /\ UNCHANGED <<o, a, b, mb, oi, ai, bi, merged, conflicts>>
    BY <1>3 DEF MatchOurs, texts, cursors, result, IInv, MatchInv, TypeOK
  <2>2. CASE WalkEnds(a)
    <3>1. pc' = "matchTheirs" /\ i' = 0 /\ j' = 0 /\ ma' = ma
      BY <1>3, <2>2 DEF MatchOurs
    <3>2. Len(o) \in Nat /\ Len(b) \in Nat
      BY DEF IInv, TypeOK
    <3> QED BY <2>1, <3>1, <3>2
       DEF IInv, TypeOK, MatchInv, JoinInv, EndInv, WasSplit, NothingSkipped, Done
  <2>3. CASE ~WalkEnds(a)
    <3>1. WalkStep(a, ma, ma') /\ pc' = pc
      BY <1>3, <2>3 DEF MatchOurs
    <3>2. /\ ma' \subseteq (1 .. Len(o)) \X (1 .. Len(a))
          /\ \A p \in ma' : o[p[1]] = a[p[2]]
          /\ i' \in 0 .. Len(o) /\ j' \in Nat /\ j' <= Len(a)
      BY <2>1, <2>3, <3>1, WalkFinds DEF IInv, TypeOK, MatchInv
    <3> QED BY <2>1, <3>1, <3>2
       DEF IInv, TypeOK, MatchInv, JoinInv, EndInv, WasSplit, NothingSkipped, Done
  <2> QED BY <2>2, <2>3
<1>4. CASE MatchTheirs
  <2>1. /\ pc = "matchTheirs" /\ j <= Len(b) /\ j \in Nat
        /\ UNCHANGED <<o, a, b, ma, oi, ai, bi, merged, conflicts>>
    BY <1>4 DEF MatchTheirs, texts, cursors, result, IInv, MatchInv, TypeOK
  <2>2. CASE WalkEnds(b)
    <3>1. pc' = "cut" /\ i' = i /\ j' = j /\ mb' = mb
      BY <1>4, <2>2 DEF MatchTheirs, walk
    <3>2. merged = << >>
      BY <2>1 DEF IInv, JoinInv
    <3> QED BY <2>1, <3>1, <3>2
       DEF IInv, TypeOK, MatchInv, JoinInv, OpenEnd, EndInv, WasSplit,
           NothingSkipped, Done
  <2>3. CASE ~WalkEnds(b)
    <3>1. WalkStep(b, mb, mb') /\ pc' = pc
      BY <1>4, <2>3 DEF MatchTheirs
    <3>2. /\ mb' \subseteq (1 .. Len(o)) \X (1 .. Len(b))
          /\ \A p \in mb' : o[p[1]] = b[p[2]]
          /\ i' \in 0 .. Len(o) /\ j' \in Nat /\ j' <= Len(b)
      BY <2>1, <2>3, <3>1, WalkFinds DEF IInv, TypeOK, MatchInv
    <3> QED BY <2>1, <3>1, <3>2
       DEF IInv, TypeOK, MatchInv, JoinInv, EndInv, WasSplit, NothingSkipped, Done
  <2> QED BY <2>2, <2>3
<1>5. CASE CutStable
  BY <1>5, CutStableIInv
<1>6. CASE CutUnstable
  BY <1>6, CutUnstableIInv
<1>7. CASE CutTrailing
  BY <1>7, CutTrailingIInv
<1>8. CASE UNCHANGED vars
  BY <1>8 DEF vars, IInv, TypeOK, MatchInv, JoinInv, EndInv, WasSplit,
              NothingSkipped, Done, AtEnds, OpenEnd
<1> QED BY <1>1, <1>2, <1>3, <1>4, <1>5, <1>6, <1>7, <1>8 DEF Next

LEMMA IInvHolds == Spec => []IInv
BY InitIInv, NextIInv, PTL DEF Spec

-----------------------------------------------------------------------------
(* How often a line is in a text, and in the pieces of one.                *)

Hits(s, l) == { n \in DOMAIN s : s[n] = l }

LEMMA HitsFinite ==
    ASSUME NEW s \in Seq(Line), NEW l
    PROVE  IsFiniteSet(Hits(s, l)) /\ Count(s, l) \in Nat
<1>1. IsFiniteSet(1 .. Len(s))
  BY FS_Interval
<1>2. Hits(s, l) \in SUBSET (1 .. Len(s))
  BY DEF Hits
<1>3. IsFiniteSet(Hits(s, l))
  BY <1>1, <1>2, FS_Subset
<1> QED BY <1>3, FS_CardinalityType DEF Count, Hits

(* A line is counted where it is.                                          *)
LEMMA CountedIfIn ==
    ASSUME NEW s \in Seq(Line), NEW l
    PROVE  Count(s, l) = 0 <=> \A n \in 1 .. Len(s) : s[n] # l
<1>1. Count(s, l) = Cardinality(Hits(s, l))
  BY DEF Count, Hits
<1>2. Count(s, l) = 0 <=> Hits(s, l) = {}
  BY <1>1, HitsFinite, FS_EmptySet
<1> QED BY <1>2 DEF Hits

LEMMA CountConcat ==
    ASSUME NEW s \in Seq(Line), NEW t \in Seq(Line), NEW l
    PROVE  Count(s \o t, l) = Count(s, l) + Count(t, l)
<1> DEFINE P == Hits(s, l)
           Q == { n \in Len(s) + 1 .. Len(s) + Len(t) : t[n - Len(s)] = l }
<1>1. /\ s \o t \in Seq(Line) /\ Len(s \o t) = Len(s) + Len(t)
      /\ Len(s) \in Nat /\ Len(t) \in Nat
      /\ DOMAIN (s \o t) = 1 .. Len(s) + Len(t)
      /\ DOMAIN s = 1 .. Len(s) /\ DOMAIN t = 1 .. Len(t)
  OBVIOUS
<1>2. \A n \in 1 .. Len(s) : (s \o t)[n] = s[n]
  OBVIOUS
<1>3. \A n \in Len(s) + 1 .. Len(s) + Len(t) : (s \o t)[n] = t[n - Len(s)]
  OBVIOUS
<1>4. Hits(s \o t, l) = P \cup Q
  <2>1. ASSUME NEW n \in 1 .. Len(s) + Len(t)
        PROVE  (s \o t)[n] = l <=> n \in P \cup Q
    <3>1. CASE n \in 1 .. Len(s)
      <4>1. n \notin Q
        BY <1>1, <3>1
      <4> QED BY <1>1, <1>2, <3>1, <4>1 DEF Hits
    <3>2. CASE n \in Len(s) + 1 .. Len(s) + Len(t)
      <4>1. n \notin P
        BY <1>1, <3>2 DEF Hits
      <4> QED BY <1>3, <3>2, <4>1
    <3> QED BY <1>1, <3>1, <3>2
  <2>2. P \cup Q \subseteq 1 .. Len(s) + Len(t)
    BY <1>1 DEF Hits
  <2> QED BY <1>1, <2>1, <2>2 DEF Hits
<1>5. P \cap Q = {}
  BY <1>1 DEF Hits
<1>6. ExistsBijection(Hits(t, l), Q)
  <2> DEFINE f == [n \in Hits(t, l) |-> Len(s) + n]
  <2>1. Hits(t, l) = { n \in 1 .. Len(t) : t[n] = l }
    BY <1>1 DEF Hits
  <2>2. \A n \in Hits(t, l) : f[n] \in Q
    BY <1>1, <2>1
  <2>3. \A n, k \in Hits(t, l) : f[n] = f[k] => n = k
    BY <1>1, <2>1
  <2>4. \A q \in Q : q - Len(s) \in Hits(t, l) /\ f[q - Len(s)] = q
    BY <1>1, <2>1
  <2>5. f \in [Hits(t, l) -> Q]
    BY <2>2
  <2> HIDE DEF f, Q
  <2>6. f \in Bijection(Hits(t, l), Q)
    BY <2>3, <2>4, <2>5 DEF Bijection, Injection, Surjection, IsInjective
  <2> QED BY <2>6 DEF ExistsBijection
<1>7. IsFiniteSet(P) /\ IsFiniteSet(Hits(t, l))
  BY HitsFinite
<1> HIDE DEF P, Q
<1>8. IsFiniteSet(Q) /\ Cardinality(Q) = Cardinality(Hits(t, l))
  BY <1>6, <1>7, FS_Bijection
<1>9. Cardinality(P \cup Q) = Cardinality(P) + Cardinality(Q)
  <2>1. Cardinality(P \cup Q)
          = Cardinality(P) + Cardinality(Q) - Cardinality(P \cap Q)
    BY <1>7, <1>8, FS_Union
  <2>2. Cardinality(P) \in Nat /\ Cardinality(Q) \in Nat
    BY <1>7, <1>8, FS_CardinalityType
  <2>3. Cardinality(P \cap Q) = 0
    BY <1>5, FS_EmptySet
  <2> QED BY <2>1, <2>2, <2>3
<1> QED BY <1>4, <1>8, <1>9 DEF P, Count, Hits

(* What has been cut off a text grows by the piece that is cut next.       *)
LEMMA CountPiece ==
    ASSUME NEW s \in Seq(Line), NEW l,
           NEW m \in 0 .. Len(s), NEW n \in m .. Len(s)
    PROVE  /\ Count(SubSeq(s, 1, n), l)
                = Count(SubSeq(s, 1, m), l) + Count(SubSeq(s, m + 1, n), l)
           /\ SubSeq(s, 1, m) \in Seq(Line) /\ SubSeq(s, m + 1, n) \in Seq(Line)
           /\ SubSeq(s, 1, n) \in Seq(Line)
<1>1. /\ SubSeq(s, 1, m) \in Seq(Line) /\ SubSeq(s, m + 1, n) \in Seq(Line)
      /\ SubSeq(s, 1, n) \in Seq(Line)
  OBVIOUS
<1>2. SubSeq(s, 1, n) = SubSeq(s, 1, m) \o SubSeq(s, m + 1, n)
  OBVIOUS
<1>3. Count(SubSeq(s, 1, m) \o SubSeq(s, m + 1, n), l)
        = Count(SubSeq(s, 1, m), l) + Count(SubSeq(s, m + 1, n), l)
  BY <1>1, CountConcat
<1> QED BY <1>1, <1>2, <1>3

(* A line a text does not have is in none of its pieces.                   *)
LEMMA AbsentFromPiece ==
    ASSUME NEW s \in Seq(Line), NEW l, Count(s, l) = 0,
           NEW m \in 0 .. Len(s), NEW n \in m .. Len(s)
    PROVE  Count(SubSeq(s, m + 1, n), l) = 0
<1>1. \A k \in 1 .. Len(s) : s[k] # l
  BY CountedIfIn
<1> DEFINE t == SubSeq(s, m + 1, n)
<1>2. t \in Seq(Line) /\ Len(t) = n - m /\ \A k \in 1 .. n - m : t[k] = s[m + k]
  OBVIOUS
<1>3. \A k \in 1 .. Len(t) : t[k] # l
  BY <1>1, <1>2
<1> HIDE DEF t
<1>4. Count(t, l) = 0
  BY <1>2, <1>3, CountedIfIn
<1> QED BY <1>4 DEF t

-----------------------------------------------------------------------------
(* What a merge without conflicts does with the lines that are new.        *)

LEMMA PieceOfOne ==
    ASSUME NEW s \in Seq(Line), NEW n \in 1 .. Len(s)
    PROVE  SubSeq(s, n, n) = <<s[n]>>
<1> DEFINE t == SubSeq(s, n, n)
<1>1. t \in Seq(Line) /\ Len(t) = 1 /\ t[1] = s[n]
  OBVIOUS
<1> HIDE DEF t
<1>2. t = <<t[1]>>
  BY <1>1
<1> QED BY <1>1, <1>2 DEF t

LEMMA BoundsAdd ==
    ASSUME NEW a1 \in Nat, NEW a2 \in Nat, NEW b1 \in Nat, NEW b2 \in Nat,
           NEW m1 \in Nat, NEW m2 \in Nat,
           m1 >= a1, m1 >= b1, m1 <= a1 + b1,
           m2 >= a2, m2 >= b2, m2 <= a2 + b2
    PROVE  /\ m1 + m2 >= a1 + a2 /\ m1 + m2 >= b1 + b2
           /\ m1 + m2 <= (a1 + a2) + (b1 + b2)
OBVIOUS

(* As much of line l is in the result as in what has been cut off a side,  *)
(* and no more of it than the two sides brought.                           *)
Tallied(l) ==
    /\ Count(merged, l) >= Count(SubSeq(a, 1, ai), l)
    /\ Count(merged, l) >= Count(SubSeq(b, 1, bi), l)
    /\ Count(merged, l) <= Count(SubSeq(a, 1, ai), l) + Count(SubSeq(b, 1, bi), l)

TakenWhole ==
    \/ a = b /\ merged = a
    \/ a = o /\ merged = b
    \/ b = o /\ merged = a

TallyInv ==
    /\ pc \in {"compare", "matchOurs", "matchTheirs"} => ai = 0 /\ bi = 0
    /\ Done /\ ~WasSplit => TakenWhole
    /\ WasSplit /\ conflicts = 0 =>
         \A l \in Line : Count(o, l) = 0 => Tallied(l)

(* Writing r for the pieces up to line m of ours and line n of theirs.     *)
LEMMA TallyGrows ==
    ASSUME TypeOK, NEW l, Tallied(l), a' = a, b' = b,
           NEW m \in ai .. Len(a), NEW n \in bi .. Len(b), ai' = m, bi' = n,
           NEW r \in Seq(Line), merged' = merged \o r,
           Count(r, l) >= Count(SubSeq(a, ai + 1, m), l),
           Count(r, l) >= Count(SubSeq(b, bi + 1, n), l),
           Count(r, l) <= Count(SubSeq(a, ai + 1, m), l)
                            + Count(SubSeq(b, bi + 1, n), l)
    PROVE  Tallied(l)'
<1> DEFINE a1 == SubSeq(a, 1, ai) a2 == SubSeq(a, ai + 1, m) a3 == SubSeq(a, 1, m)
           b1 == SubSeq(b, 1, bi) b2 == SubSeq(b, bi + 1, n) b3 == SubSeq(b, 1, n)
<1>1. /\ a \in Seq(Line) /\ b \in Seq(Line) /\ merged \in Seq(Line)
      /\ ai \in 0 .. Len(a) /\ bi \in 0 .. Len(b)
  BY DEF TypeOK
<1>2. /\ Count(a3, l) = Count(a1, l) + Count(a2, l)
      /\ a1 \in Seq(Line) /\ a2 \in Seq(Line) /\ a3 \in Seq(Line)
  BY <1>1, CountPiece
<1>3. /\ Count(b3, l) = Count(b1, l) + Count(b2, l)
      /\ b1 \in Seq(Line) /\ b2 \in Seq(Line) /\ b3 \in Seq(Line)
  BY <1>1, CountPiece
<1>4. Count(merged \o r, l) = Count(merged, l) + Count(r, l)
  BY <1>1, CountConcat
<1>5. /\ Count(a1, l) \in Nat /\ Count(a2, l) \in Nat
      /\ Count(b1, l) \in Nat /\ Count(b2, l) \in Nat
      /\ Count(merged, l) \in Nat /\ Count(r, l) \in Nat
  BY <1>1, <1>2, <1>3, HitsFinite
<1>6. /\ Count(merged, l) >= Count(a1, l) /\ Count(merged, l) >= Count(b1, l)
      /\ Count(merged, l) <= Count(a1, l) + Count(b1, l)
  BY DEF Tallied
<1> HIDE DEF a1, a2, a3, b1, b2, b3
<1>7. /\ Count(r, l) >= Count(a2, l) /\ Count(r, l) >= Count(b2, l)
      /\ Count(r, l) <= Count(a2, l) + Count(b2, l)
  BY DEF a2, b2
<1>8. /\ Count(merged \o r, l) >= Count(a3, l)
      /\ Count(merged \o r, l) >= Count(b3, l)
      /\ Count(merged \o r, l) <= Count(a3, l) + Count(b3, l)
  <2> DEFINE m1 == Count(merged, l) m2 == Count(r, l)
             x1 == Count(a1, l) x2 == Count(a2, l)
             y1 == Count(b1, l) y2 == Count(b2, l)
  <2> HIDE DEF m1, m2, x1, x2, y1, y2
  <2>1. /\ m1 + m2 >= x1 + x2 /\ m1 + m2 >= y1 + y2
        /\ m1 + m2 <= (x1 + x2) + (y1 + y2)
    BY <1>5, <1>6, <1>7, BoundsAdd DEF m1, m2, x1, x2, y1, y2
  <2> QED BY <1>2, <1>3, <1>4, <2>1 DEF m1, m2, x1, x2, y1, y2
<1>9. Tallied(l)' <=> /\ Count(merged', l) >= Count(SubSeq(a', 1, ai'), l)
                      /\ Count(merged', l) >= Count(SubSeq(b', 1, bi'), l)
                      /\ Count(merged', l) <= Count(SubSeq(a', 1, ai'), l)
                                                + Count(SubSeq(b', 1, bi'), l)
  BY DEF Tallied, Count
<1> QED BY <1>8, <1>9 DEF a3, b3

(* A chunk that is not in conflict adds up: the side that did not change   *)
(* has none of the lines that are new.                                     *)
LEMMA CutTallies ==
    ASSUME TypeOK, NEW l \in Line, Count(o, l) = 0, Tallied(l), a' = a, b' = b,
           NEW k \in oi .. Len(o), NEW m \in ai .. Len(a), NEW n \in bi .. Len(b),
           ai' = m, bi' = n, conflicts' = conflicts,
           Cut(SubSeq(o, oi + 1, k), SubSeq(a, ai + 1, m), SubSeq(b, bi + 1, n))
    PROVE  Tallied(l)'
<1> DEFINE so == SubSeq(o, oi + 1, k)
           sa == SubSeq(a, ai + 1, m)
           sb == SubSeq(b, bi + 1, n)
<1>1. /\ o \in Seq(Line) /\ a \in Seq(Line) /\ b \in Seq(Line)
      /\ oi \in 0 .. Len(o) /\ ai \in 0 .. Len(a) /\ bi \in 0 .. Len(b)
      /\ conflicts \in Nat
  BY DEF TypeOK
<1>2. Count(so, l) = 0
  BY <1>1, AbsentFromPiece
<1>3. sa \in Seq(Line) /\ sb \in Seq(Line)
  BY <1>1, CountPiece
<1>4. Count(sa, l) \in Nat /\ Count(sb, l) \in Nat
  BY <1>3, HitsFinite
<1> HIDE DEF so, sa, sb
<1>5. /\ ~Disputed(so, sa, sb)
      /\ merged' = merged \o Resolved(so, sa, sb)
  BY <1>1 DEF Cut, so, sa, sb
<1> DEFINE r == Resolved(so, sa, sb)
<1>6. /\ r \in Seq(Line)
      /\ Count(r, l) >= Count(sa, l) /\ Count(r, l) >= Count(sb, l)
      /\ Count(r, l) <= Count(sa, l) + Count(sb, l)
  <2>1. CASE sa = so
    <3>1. r = sb
      BY <2>1 DEF Resolved
    <3> QED BY <1>2, <1>3, <1>4, <2>1, <3>1
  <2>2. CASE sa # so
    <3>1. r = sa
      BY <2>2 DEF Resolved
    <3>2. sb = so \/ sa = sb
      BY <1>5, <2>2 DEF Disputed
    <3> QED BY <1>2, <1>3, <1>4, <3>1, <3>2
  <2> QED BY <2>1, <2>2
<1> HIDE DEF r
<1> QED BY <1>5, <1>6, TallyGrows DEF r, sa, sb

(* No step takes back a conflict.                                          *)
LEMMA ConflictsStay ==
    ASSUME TypeOK, Next, conflicts' = 0
    PROVE  conflicts = 0
<1>1. \A s, t, u : Cut(s, t, u) => conflicts = 0
  BY DEF Cut, TypeOK
<1>2. CASE CutUnstable
  BY <1>1, <1>2 DEF CutUnstable
<1>3. CASE CutTrailing
  BY <1>1, <1>3 DEF CutTrailing, result
<1> QED
  BY <1>2, <1>3 DEF Next, ShortCircuit, Split, MatchOurs, MatchTheirs, CutStable,
                    result

LEMMA InitTallyInv == Init => TallyInv
<1> SUFFICES ASSUME Init PROVE TallyInv
  OBVIOUS
<1>1. /\ a \in Seq(Line) /\ b \in Seq(Line) /\ ai = 0 /\ bi = 0 /\ merged = << >>
      /\ pc = "compare"
  BY TextIsSeq, BoundAssumption DEF Init
<1>2. SubSeq(a, 1, 0) = << >> /\ SubSeq(b, 1, 0) = << >>
  BY <1>1
<1>3. \A l : Count(<< >>, l) = 0
  <2> TAKE l
  <2>1. Hits(<< >>, l) = {}
    BY DEF Hits
  <2> QED BY <2>1, FS_EmptySet DEF Count, Hits
<1>4. ASSUME NEW l PROVE Tallied(l)
  <2>1. Count(<< >>, l) = 0
    BY <1>3
  <2>2. /\ Count(merged, l) = 0 /\ Count(SubSeq(a, 1, ai), l) = 0
        /\ Count(SubSeq(b, 1, bi), l) = 0
    BY <1>1, <1>2, <2>1
  <2> QED BY <2>2 DEF Tallied
<1> QED BY <1>1, <1>4 DEF TallyInv, Done

LEMMA NextTallyInv == IInv /\ TallyInv /\ [Next]_vars => TallyInv'
<1> SUFFICES ASSUME IInv, TallyInv, [Next]_vars PROVE TallyInv'
  OBVIOUS
<1>0. TypeOK
  BY DEF IInv
<1>1. CASE UNCHANGED vars
  BY <1>1 DEF vars, TallyInv, Done, WasSplit, TakenWhole, Tallied, Count
<1>2. CASE ShortCircuit
  BY <1>2 DEF ShortCircuit, TallyInv, Done, WasSplit, TakenWhole, texts
<1>3. CASE Split \/ MatchOurs \/ MatchTheirs
  <2>1. /\ UNCHANGED <<o, a, b, oi, ai, bi, merged, conflicts>>
        /\ pc \in {"compare", "matchOurs", "matchTheirs"} /\ pc' # "done"
    BY <1>3 DEF Split, MatchOurs, MatchTheirs, texts, cursors, result
  <2> QED BY <2>1 DEF TallyInv, Done, WasSplit, Tallied, Count
<1>4. ASSUME pc = "cut", pc' \in {"cut", "done"}, UNCHANGED <<o, a, b>>,
             conflicts' = 0 =>
               \A l \in Line : Count(o, l) = 0 /\ Tallied(l) => Tallied(l)'
      PROVE  TallyInv'
  <2>1. WasSplit
    BY <1>4 DEF IInv, EndInv
  <2>2. conflicts' = 0 => conflicts = 0
    <3>1. CASE Next
      BY <1>0, <3>1, ConflictsStay
    <3> QED BY <3>1 DEF vars
  <2>3. \A l : Count(o', l) = Count(o, l)
    BY <1>4
  <2>4. ASSUME conflicts' = 0, NEW l \in Line, Count(o', l) = 0
        PROVE  Tallied(l)'
    BY <1>4, <2>1, <2>2, <2>3, <2>4 DEF TallyInv
  <2>5. WasSplit'
    BY <1>4, <2>1 DEF WasSplit
  <2>6. Line' = Line
    BY DEF Line
  <2>7. (WasSplit /\ conflicts = 0 =>
           \A l \in Line : Count(o, l) = 0 => Tallied(l))'
    BY <2>4, <2>6
  <2> QED BY <1>4, <2>5, <2>7 DEF TallyInv
<1>5. CASE CutStable
  <2>1. /\ pc = "cut" /\ pc' = pc /\ UNCHANGED <<o, a, b, conflicts>>
        /\ merged' = Append(merged, o[oi + 1])
        /\ ai' = ai + 1 /\ bi' = bi + 1 /\ oi < Len(o)
        /\ <<oi + 1, ai + 1>> \in ma /\ <<oi + 1, bi + 1>> \in mb
    BY <1>5 DEF CutStable, Stable, texts
  <2>2. /\ o \in Seq(Line) /\ a \in Seq(Line) /\ b \in Seq(Line)
        /\ merged \in Seq(Line)
        /\ oi \in 0 .. Len(o) /\ ai \in 0 .. Len(a) /\ bi \in 0 .. Len(b)
        /\ ai + 1 \in 1 .. Len(a) /\ bi + 1 \in 1 .. Len(b) /\ oi + 1 \in 1 .. Len(o)
    BY <2>1 DEF IInv, TypeOK
  <2>3. o[oi + 1] = a[ai + 1] /\ o[oi + 1] = b[bi + 1]
    BY <2>1, <2>2 DEF IInv, MatchInv
  <2> DEFINE r == SubSeq(o, oi + 1, oi + 1)
  <2>4. /\ r = <<o[oi + 1]>> /\ SubSeq(a, ai + 1, ai + 1) = <<a[ai + 1]>>
        /\ SubSeq(b, bi + 1, bi + 1) = <<b[bi + 1]>>
    BY <2>2, PieceOfOne
  <2>5. merged' = merged \o r /\ r \in Seq(Line)
    BY <2>1, <2>2, <2>4
  <2>6. SubSeq(a, ai + 1, ai + 1) = r /\ SubSeq(b, bi + 1, bi + 1) = r
    BY <2>3, <2>4
  <2>7. ASSUME NEW l \in Line, Count(o, l) = 0, Tallied(l)
        PROVE  Tallied(l)'
    <3>1. oi + 1 \in oi .. Len(o)
      BY <2>2
    <3>2. Count(r, l) = 0
      BY <2>2, <2>7, <3>1, AbsentFromPiece
    <3>3. ai + 1 \in ai .. Len(a) /\ bi + 1 \in bi .. Len(b)
      BY <2>2
    <3> HIDE DEF r
    <3>4. /\ Count(r, l) >= Count(SubSeq(a, ai + 1, ai + 1), l)
          /\ Count(r, l) >= Count(SubSeq(b, bi + 1, bi + 1), l)
          /\ Count(r, l) <= Count(SubSeq(a, ai + 1, ai + 1), l)
                              + Count(SubSeq(b, bi + 1, bi + 1), l)
      <4>1. /\ Count(SubSeq(a, ai + 1, ai + 1), l) = 0
            /\ Count(SubSeq(b, bi + 1, bi + 1), l) = 0
        BY <2>6, <3>2
      <4> QED BY <3>2, <4>1
    <3> QED BY <1>0, <2>1, <2>5, <2>7, <3>3, <3>4, TallyGrows
  <2> QED BY <1>4, <2>1, <2>7
<1>6. CASE CutUnstable
  <2>1. PICK s \in (oi .. Len(o)) \X (ai .. Len(a)) \X (bi .. Len(b)) :
          /\ Cut(SubSeq(o, oi + 1, s[1]), SubSeq(a, ai + 1, s[2]),
                 SubSeq(b, bi + 1, s[3]))
          /\ ai' = s[2] /\ bi' = s[3]
    BY <1>6 DEF CutUnstable
  <2>2. pc = "cut" /\ pc' = pc /\ UNCHANGED <<o, a, b>>
    BY <1>6 DEF CutUnstable, texts
  <2>3. /\ s[1] \in oi .. Len(o) /\ s[2] \in ai .. Len(a) /\ s[3] \in bi .. Len(b)
    BY <2>1
  <2>4. conflicts' = 0 => conflicts' = conflicts
    BY <1>0, <1>6, ConflictsStay DEF Next
  <2>5. ASSUME conflicts' = 0, NEW l \in Line, Count(o, l) = 0, Tallied(l)
        PROVE  Tallied(l)'
    BY <1>0, <2>1, <2>2, <2>3, <2>4, <2>5, CutTallies
  <2> QED BY <1>4, <2>2, <2>5
<1>7. CASE CutTrailing
  <2>1. pc = "cut" /\ pc' = "done" /\ oi = Len(o) /\ UNCHANGED <<o, a, b>>
    BY <1>7 DEF CutTrailing, texts
  <2>2. conflicts' = 0 => conflicts' = conflicts
    BY <1>0, <1>7, ConflictsStay DEF Next
  <2>3. ASSUME conflicts' = 0, NEW l \in Line, Count(o, l) = 0, Tallied(l)
        PROVE  Tallied(l)'
    <3>1. CASE Trailing
      <4>1. /\ Cut(<< >>, SubSeq(a, ai + 1, Len(a)), SubSeq(b, bi + 1, Len(b)))
            /\ ai' = Len(a) /\ bi' = Len(b)
        BY <1>7, <3>1 DEF CutTrailing
      <4>2. /\ Len(o) \in oi .. Len(o) /\ Len(a) \in ai .. Len(a)
            /\ Len(b) \in bi .. Len(b) /\ SubSeq(o, oi + 1, Len(o)) = << >>
        BY <1>0, <2>1 DEF TypeOK
      <4> QED BY <1>0, <2>1, <2>2, <2>3, <4>1, <4>2, CutTallies
    <3>2. CASE ~Trailing
      BY <1>7, <2>1, <2>3, <3>2 DEF CutTrailing, Tallied, result, Count
    <3> QED BY <3>1, <3>2
  <2> QED BY <1>4, <2>1, <2>3
<1> QED BY <1>1, <1>2, <1>3, <1>5, <1>6, <1>7 DEF Next

LEMMA TallyHolds == Spec => [](IInv /\ TallyInv)
<1>1. Init => IInv /\ TallyInv
  BY InitIInv, InitTallyInv
<1>2. (IInv /\ TallyInv) /\ [Next]_vars => (IInv /\ TallyInv)'
  BY NextIInv, NextTallyInv
<1> QED BY <1>1, <1>2, PTL DEF Spec

(* At the end all of ours and theirs has been cut off.                     *)
LEMMA TallyGivesLines == IInv /\ TallyInv => AddedLinesSurvive
<1> SUFFICES ASSUME IInv, TallyInv, Clean,
                    NEW l \in LinesOf(a) \cup LinesOf(b) \cup LinesOf(merged),
                    Count(o, l) = 0
             PROVE  /\ Count(merged, l) >= Count(a, l)
                    /\ Count(merged, l) >= Count(b, l)
                    /\ Count(merged, l) <= Count(a, l) + Count(b, l)
  BY DEF AddedLinesSurvive
<1>1. a \in Seq(Line) /\ b \in Seq(Line) /\ merged \in Seq(Line)
  BY DEF IInv, TypeOK
<1>2. l \in Line
  BY <1>1 DEF LinesOf
<1>3. Count(a, l) \in Nat /\ Count(b, l) \in Nat /\ Count(merged, l) \in Nat
  BY <1>1, HitsFinite
<1>4. CASE WasSplit
  <2>1. ai = Len(a) /\ bi = Len(b)
    BY <1>4 DEF Clean, IInv, EndInv, NothingSkipped
  <2>2. SubSeq(a, 1, ai) = a /\ SubSeq(b, 1, bi) = b
    BY <1>1, <2>1
  <2>3. Tallied(l)
    BY <1>2, <1>4 DEF TallyInv, Clean
  <2> QED BY <2>2, <2>3 DEF Tallied
<1>5. CASE ~WasSplit
  <2>1. TakenWhole
    BY <1>5 DEF TallyInv, Clean
  <2> QED BY <1>3, <2>1 DEF TakenWhole
<1> QED BY <1>4, <1>5

-----------------------------------------------------------------------------
(* What matchIndex finds between two texts that repeat no line and have    *)
(* not moved lines past each other: every line they share.                 *)
(*                                                                         *)
(* The library's induction theorems are about an operator and cannot be    *)
(* used here.  That a set of numbers has a least element can, and is got   *)
(* from the order of the finite sets, which is about sets only.            *)

LEMMA LeastNatural ==
    ASSUME NEW T, T \subseteq Nat, T # {}
    PROVE  \E m \in T : \A n \in T : m <= n
<1> DEFINE F == { 1 .. n : n \in T }
           R == StrictSubsetOrdering(Nat)
<1>1. F \subseteq FiniteSubsetsOf(Nat)
  BY FS_Interval DEF FiniteSubsetsOf
<1>2. IsWellFoundedOn(R, FiniteSubsetsOf(Nat))
  BY FS_StrictSubsetOrderingWellFounded
<1>3. F # {}
  OBVIOUS
<1> HIDE DEF F, R
<1>4. PICK x \in F : \A y \in F : <<y, x>> \notin R
  BY <1>1, <1>2, <1>3, WFMin
<1>5. PICK m \in T : x = 1 .. m
  BY DEF F
<1>6. ASSUME NEW n \in T, n < m PROVE FALSE
  <2>1. 1 .. n \in F
    BY DEF F
  <2>2. 1 .. n \subseteq x /\ m \in x /\ m \notin 1 .. n
    BY <1>5, <1>6
  <2>3. x \subseteq Nat /\ 1 .. n \subseteq Nat
    BY <1>5
  <2>4. <<1 .. n, x>> \in R
    BY <2>2, <2>3 DEF R, StrictSubsetOrdering
  <2> QED BY <1>4, <2>1, <2>4
<1> QED BY <1>6

Cells(s, t) == (0 .. Len(s)) \X (0 .. Len(t))

(* The cell of the table at n and k, from the cells of g.                  *)
CellOf(g, s, t, n, k) ==
    IF n = Len(s) \/ k = Len(t) THEN 0
    ELSE IF s[n + 1] = t[k + 1] THEN g[<<n + 1, k + 1>>] + 1
    ELSE IF g[<<n + 1, k>>] >= g[<<n, k + 1>>] THEN g[<<n + 1, k>>]
    ELSE g[<<n, k + 1>>]

IsTable(g, s, t) == g = [c \in Cells(s, t) |-> CellOf(g, s, t, c[1], c[2])]

(* The lines of s after line n that t has after line k.                    *)
Rest(s, t, n, k) ==
    { p \in n + 1 .. Len(s) : \E q \in k + 1 .. Len(t) : s[p] = t[q] }

HowManyRest(s, t) == [c \in Cells(s, t) |-> Cardinality(Rest(s, t, c[1], c[2]))]

Aligned(s, t) == Distinct(s) /\ Distinct(t) /\ Unmoved(s, t)

(* Past one line more of s, or of t, the lines left are one fewer, or the  *)
(* same.                                                                   *)
LEMMA RestStep ==
    ASSUME NEW s \in Seq(Line), NEW t \in Seq(Line), Aligned(s, t),
           NEW n \in 0 .. Len(s) - 1, NEW k \in 0 .. Len(t) - 1
    PROVE  /\ n + 1 \notin Rest(s, t, n + 1, k)
           /\ n + 1 \notin Rest(s, t, n + 1, k + 1)
           /\ s[n + 1] = t[k + 1] =>
                Rest(s, t, n, k) = Rest(s, t, n + 1, k + 1) \cup {n + 1}
           /\ n + 1 \notin Rest(s, t, n, k) =>
                /\ Rest(s, t, n, k) = Rest(s, t, n + 1, k)
                /\ Rest(s, t, n, k + 1) \subseteq Rest(s, t, n, k)
           /\ s[n + 1] # t[k + 1] /\ n + 1 \in Rest(s, t, n, k) =>
                /\ Rest(s, t, n, k) = Rest(s, t, n, k + 1)
                /\ Rest(s, t, n, k) = Rest(s, t, n + 1, k) \cup {n + 1}
<1>1. /\ Len(s) \in Nat /\ Len(t) \in Nat
      /\ DOMAIN s = 1 .. Len(s) /\ DOMAIN t = 1 .. Len(t)
      /\ n + 1 \in 1 .. Len(s) /\ k + 1 \in 1 .. Len(t)
  OBVIOUS
<1>2. /\ \A p, r \in 1 .. Len(s) : s[p] = s[r] => p = r
      /\ \A q, r \in 1 .. Len(t) : t[q] = t[r] => q = r
      /\ \A p, r \in 1 .. Len(s), q, u \in 1 .. Len(t) :
           (s[p] = t[q] /\ s[r] = t[u] /\ p < r) => q < u
  BY <1>1 DEF Aligned, Distinct, Unmoved
<1> DEFINE ls == Len(s) lt == Len(t)
<1> HIDE DEF ls, lt
<1>3. n + 1 \notin Rest(s, t, n + 1, k) /\ n + 1 \notin Rest(s, t, n + 1, k + 1)
  BY <1>1 DEF Rest
<1>4. ASSUME s[n + 1] = t[k + 1]
      PROVE  Rest(s, t, n, k) = Rest(s, t, n + 1, k + 1) \cup {n + 1}
  <2>1. ASSUME NEW p \in Rest(s, t, n, k), p # n + 1
        PROVE  p \in Rest(s, t, n + 1, k + 1)
    <3>1. PICK q \in k + 1 .. Len(t) : s[p] = t[q]
      BY <2>1 DEF Rest
    <3>2. p \in n + 1 .. Len(s) /\ p \in 1 .. Len(s) /\ q \in 1 .. Len(t)
      BY <1>1, <2>1 DEF Rest
    <3>3. q # k + 1
      BY <1>1, <1>2, <1>4, <2>1, <3>1, <3>2
    <3>4. p \in n + 1 + 1 .. Len(s) /\ q \in k + 1 + 1 .. Len(t)
      BY <1>1, <2>1, <3>2, <3>3
    <3> QED BY <3>1, <3>4 DEF Rest
  <2>2. ASSUME NEW p \in Rest(s, t, n + 1, k + 1)
        PROVE  p \in Rest(s, t, n, k)
    BY <1>1 DEF Rest
  <2>3. n + 1 \in Rest(s, t, n, k)
    BY <1>1, <1>4 DEF Rest
  <2> QED BY <2>1, <2>2, <2>3
<1>5. Rest(s, t, n + 1, k) \subseteq Rest(s, t, n, k)
  BY <1>1 DEF Rest
<1>6. Rest(s, t, n, k + 1) \subseteq Rest(s, t, n, k)
  BY <1>1 DEF Rest
<1>7. Rest(s, t, n, k) \subseteq Rest(s, t, n + 1, k) \cup {n + 1}
  BY <1>1 DEF Rest
<1>8. ASSUME s[n + 1] # t[k + 1], n + 1 \in Rest(s, t, n, k)
      PROVE  Rest(s, t, n, k) \subseteq Rest(s, t, n, k + 1)
  <2>1. PICK u \in k + 1 .. Len(t) : s[n + 1] = t[u]
    BY <1>8 DEF Rest
  <2>2. SUFFICES ASSUME NEW p \in Rest(s, t, n, k)
                 PROVE  p \in Rest(s, t, n, k + 1)
    OBVIOUS
  <2>3. PICK q \in k + 1 .. Len(t) : s[p] = t[q]
    BY DEF Rest
  <2>4. /\ p \in n + 1 .. Len(s) /\ p \in 1 .. Len(s)
        /\ q \in 1 .. Len(t) /\ u \in 1 .. Len(t)
    BY <1>1 DEF Rest
  <2>5. q # k + 1
    <3>1. CASE p = n + 1
      BY <1>8, <2>3, <3>1
    <3>2. CASE p # n + 1
      <4>1. n + 1 < p
        BY <1>1, <2>4, <3>2
      <4>2. u < q
        BY <1>1, <1>2, <2>1, <2>3, <2>4, <4>1
      <4> QED BY <1>1, <4>2
    <3> QED BY <3>1, <3>2
  <2>6. q \in k + 1 + 1 .. Len(t)
    BY <1>1, <2>5
  <2> QED BY <2>3, <2>4, <2>6 DEF Rest
<1> QED BY <1>3, <1>4, <1>5, <1>6, <1>7, <1>8

LEMMA RestFinite ==
    ASSUME NEW s \in Seq(Line), NEW t \in Seq(Line),
           NEW n \in 0 .. Len(s), NEW k \in 0 .. Len(t)
    PROVE  /\ IsFiniteSet(Rest(s, t, n, k))
           /\ Cardinality(Rest(s, t, n, k)) \in Nat
<1>1. IsFiniteSet(n + 1 .. Len(s))
  BY FS_Interval
<1>2. Rest(s, t, n, k) \in SUBSET (n + 1 .. Len(s))
  BY DEF Rest
<1>3. IsFiniteSet(Rest(s, t, n, k))
  BY <1>1, <1>2, FS_Subset
<1> QED BY <1>3, FS_CardinalityType

(* The same in numbers.                                                    *)
LEMMA RestCounts ==
    ASSUME NEW s \in Seq(Line), NEW t \in Seq(Line), Aligned(s, t),
           NEW n \in 0 .. Len(s) - 1, NEW k \in 0 .. Len(t) - 1,
           NEW f, f = HowManyRest(s, t)
    PROVE  /\ f[<<n, k>>] \in Nat /\ f[<<n + 1, k>>] \in Nat
           /\ f[<<n, k + 1>>] \in Nat /\ f[<<n + 1, k + 1>>] \in Nat
           /\ s[n + 1] = t[k + 1] => f[<<n, k>>] = f[<<n + 1, k + 1>>] + 1
           /\ n + 1 \notin Rest(s, t, n, k) =>
                f[<<n, k>>] = f[<<n + 1, k>>] /\ f[<<n, k + 1>>] <= f[<<n, k>>]
           /\ s[n + 1] # t[k + 1] /\ n + 1 \in Rest(s, t, n, k) =>
                f[<<n, k>>] = f[<<n, k + 1>>] /\ f[<<n, k>>] = f[<<n + 1, k>>] + 1
<1>1. /\ n \in 0 .. Len(s) /\ k \in 0 .. Len(t)
      /\ n + 1 \in 0 .. Len(s) /\ k + 1 \in 0 .. Len(t)
  OBVIOUS
<1>2. /\ f[<<n, k>>] = Cardinality(Rest(s, t, n, k))
      /\ f[<<n + 1, k>>] = Cardinality(Rest(s, t, n + 1, k))
      /\ f[<<n, k + 1>>] = Cardinality(Rest(s, t, n, k + 1))
      /\ f[<<n + 1, k + 1>>] = Cardinality(Rest(s, t, n + 1, k + 1))
  BY <1>1 DEF HowManyRest, Cells
<1>3. /\ IsFiniteSet(Rest(s, t, n, k)) /\ IsFiniteSet(Rest(s, t, n + 1, k))
      /\ IsFiniteSet(Rest(s, t, n, k + 1))
      /\ IsFiniteSet(Rest(s, t, n + 1, k + 1))
      /\ f[<<n, k>>] \in Nat /\ f[<<n + 1, k>>] \in Nat
      /\ f[<<n, k + 1>>] \in Nat /\ f[<<n + 1, k + 1>>] \in Nat
  BY <1>1, <1>2, RestFinite
<1>4. ASSUME s[n + 1] = t[k + 1] PROVE f[<<n, k>>] = f[<<n + 1, k + 1>>] + 1
  <2>1. /\ Rest(s, t, n, k) = Rest(s, t, n + 1, k + 1) \cup {n + 1}
        /\ n + 1 \notin Rest(s, t, n + 1, k + 1)
    BY <1>4, RestStep
  <2>2. Cardinality(Rest(s, t, n + 1, k + 1) \cup {n + 1})
          = Cardinality(Rest(s, t, n + 1, k + 1)) + 1
    BY <1>3, <2>1, FS_AddElement
  <2> QED BY <1>2, <2>1, <2>2
<1>5. ASSUME n + 1 \notin Rest(s, t, n, k)
      PROVE  f[<<n, k>>] = f[<<n + 1, k>>] /\ f[<<n, k + 1>>] <= f[<<n, k>>]
  <2>1. /\ Rest(s, t, n, k) = Rest(s, t, n + 1, k)
        /\ Rest(s, t, n, k + 1) \in SUBSET Rest(s, t, n, k)
    BY <1>5, RestStep
  <2>2. Cardinality(Rest(s, t, n, k + 1)) <= Cardinality(Rest(s, t, n, k))
    BY <1>3, <2>1, FS_Subset
  <2> QED BY <1>2, <2>1, <2>2
<1>6. ASSUME s[n + 1] # t[k + 1], n + 1 \in Rest(s, t, n, k)
      PROVE  /\ f[<<n, k>>] = f[<<n, k + 1>>]
             /\ f[<<n, k>>] = f[<<n + 1, k>>] + 1
  <2>1. /\ Rest(s, t, n, k) = Rest(s, t, n, k + 1)
        /\ Rest(s, t, n, k) = Rest(s, t, n + 1, k) \cup {n + 1}
        /\ n + 1 \notin Rest(s, t, n + 1, k)
    BY <1>6, RestStep
  <2>2. Cardinality(Rest(s, t, n + 1, k) \cup {n + 1})
          = Cardinality(Rest(s, t, n + 1, k)) + 1
    BY <1>3, <2>1, FS_AddElement
  <2> QED BY <1>2, <2>1, <2>2
<1> QED BY <1>3, <1>4, <1>5, <1>6

(* The numbers of lines left make a table.                                 *)
LEMMA RestIsTable ==
    ASSUME NEW s \in Seq(Line), NEW t \in Seq(Line), Aligned(s, t)
    PROVE  IsTable(HowManyRest(s, t), s, t)
<1> DEFINE f == HowManyRest(s, t)
<1>1. ASSUME NEW c \in Cells(s, t)
      PROVE  f[c] = CellOf(f, s, t, c[1], c[2])
  <2>1. PICK n \in 0 .. Len(s), k \in 0 .. Len(t) : c = <<n, k>>
    BY DEF Cells
  <2>2. f[c] = Cardinality(Rest(s, t, n, k))
    BY <2>1 DEF HowManyRest, Cells
  <2>3. CASE n = Len(s) \/ k = Len(t)
    <3>1. Rest(s, t, n, k) = {}
      BY <2>3 DEF Rest
    <3>2. f[c] = 0
      BY <2>2, <3>1, FS_EmptySet
    <3>3. CellOf(f, s, t, n, k) = 0
      BY <2>3 DEF CellOf
    <3> QED BY <2>1, <3>2, <3>3
  <2>4. CASE n # Len(s) /\ k # Len(t)
    <3>1. n \in 0 .. Len(s) - 1 /\ k \in 0 .. Len(t) - 1
      BY <2>4
    <3> HIDE DEF f
    <3>2. /\ f[<<n, k>>] \in Nat /\ f[<<n + 1, k>>] \in Nat
          /\ f[<<n, k + 1>>] \in Nat /\ f[<<n + 1, k + 1>>] \in Nat
          /\ s[n + 1] = t[k + 1] => f[<<n, k>>] = f[<<n + 1, k + 1>>] + 1
          /\ n + 1 \notin Rest(s, t, n, k) =>
               f[<<n, k>>] = f[<<n + 1, k>>] /\ f[<<n, k + 1>>] <= f[<<n, k>>]
          /\ s[n + 1] # t[k + 1] /\ n + 1 \in Rest(s, t, n, k) =>
               f[<<n, k>>] = f[<<n, k + 1>>] /\ f[<<n, k>>] = f[<<n + 1, k>>] + 1
      BY <3>1, RestCounts DEF f
    <3>3. CellOf(f, s, t, n, k)
            = IF s[n + 1] = t[k + 1] THEN f[<<n + 1, k + 1>>] + 1
              ELSE IF f[<<n + 1, k>>] >= f[<<n, k + 1>>] THEN f[<<n + 1, k>>]
              ELSE f[<<n, k + 1>>]
      BY <2>4 DEF CellOf
    <3>4. CASE s[n + 1] = t[k + 1]
      BY <2>1, <3>2, <3>3, <3>4
    <3>5. CASE s[n + 1] # t[k + 1] /\ n + 1 \notin Rest(s, t, n, k)
      <4>1. f[<<n + 1, k>>] >= f[<<n, k + 1>>] /\ f[<<n, k>>] = f[<<n + 1, k>>]
        BY <3>2, <3>5
      <4> QED BY <2>1, <3>3, <3>5, <4>1
    <3>6. CASE s[n + 1] # t[k + 1] /\ n + 1 \in Rest(s, t, n, k)
      <4>1. ~(f[<<n + 1, k>>] >= f[<<n, k + 1>>]) /\ f[<<n, k>>] = f[<<n, k + 1>>]
        BY <3>2, <3>6
      <4> QED BY <2>1, <3>3, <3>6, <4>1
    <3> QED BY <3>4, <3>5, <3>6
  <2> QED BY <2>1, <2>3, <2>4
<1>2. f = [c \in Cells(s, t) |-> f[c]]
  BY DEF HowManyRest
<1> HIDE DEF f
<1>3. f = [c \in Cells(s, t) |-> CellOf(f, s, t, c[1], c[2])]
  BY <1>1, <1>2
<1> QED BY <1>3 DEF IsTable, f

(* There is only one: of the cells that differ, one with the fewest lines  *)
(* after it would be made from cells that do not.                          *)
LEMMA OneTable ==
    ASSUME NEW s \in Seq(Line), NEW t \in Seq(Line),
           NEW f, IsTable(f, s, t), NEW g, IsTable(g, s, t)
    PROVE  \A c \in Cells(s, t) : f[c] = g[c]
<1> DEFINE Far(c) == (Len(s) - c[1]) + (Len(t) - c[2])
           Bad == { c \in Cells(s, t) : f[c] # g[c] }
           T == { Far(c) : c \in Bad }
<1>1. SUFFICES ASSUME Bad # {} PROVE FALSE
  OBVIOUS
<1>2. T \subseteq Nat /\ T # {}
  BY <1>1 DEF Cells
<1>3. PICK m \in T : \A n \in T : m <= n
  BY <1>2, LeastNatural
<1>4. PICK c \in Bad : m = Far(c)
  OBVIOUS
<1>5. PICK n \in 0 .. Len(s), k \in 0 .. Len(t) : c = <<n, k>>
  BY DEF Cells
<1>6. /\ f[c] = CellOf(f, s, t, n, k)
      /\ g[c] = CellOf(g, s, t, n, k)
  BY <1>5 DEF IsTable
<1>7. n # Len(s) /\ k # Len(t)
  BY <1>4, <1>6 DEF CellOf
<1>8. ASSUME NEW d \in Cells(s, t), Far(d) < m
      PROVE  f[d] = g[d]
  <2>1. CASE d \in Bad
    <3>1. Far(d) \in T
      BY <2>1
    <3>2. m \in Nat /\ Far(d) \in Nat /\ m <= Far(d)
      BY <1>2, <1>3, <3>1
    <3> QED BY <1>8, <3>2
  <2> QED BY <2>1
<1>9. /\ <<n + 1, k>> \in Cells(s, t) /\ Far(<<n + 1, k>>) < m
      /\ <<n, k + 1>> \in Cells(s, t) /\ Far(<<n, k + 1>>) < m
      /\ <<n + 1, k + 1>> \in Cells(s, t) /\ Far(<<n + 1, k + 1>>) < m
  BY <1>4, <1>5, <1>7 DEF Cells
<1>10. /\ f[<<n + 1, k>>] = g[<<n + 1, k>>]
       /\ f[<<n, k + 1>>] = g[<<n, k + 1>>]
       /\ f[<<n + 1, k + 1>>] = g[<<n + 1, k + 1>>]
  BY <1>8, <1>9
<1> QED BY <1>4, <1>6, <1>10 DEF CellOf

(* So the table of matchIndex, a recursive function, is that of the lines  *)
(* left.                                                                   *)
LEMMA LCSLenIsRest ==
    ASSUME NEW s \in Seq(Line), NEW t \in Seq(Line), Aligned(s, t)
    PROVE  \A c \in Cells(s, t) : LCSLen(s, t)[c] = HowManyRest(s, t)[c]
<1>1. LCSLen(s, t) = CHOOSE g : IsTable(g, s, t)
  BY DEF LCSLen, IsTable, CellOf, Cells
<1>2. \E g : IsTable(g, s, t)
  BY RestIsTable
<1>3. IsTable(LCSLen(s, t), s, t)
  BY <1>1, <1>2
<1> QED BY <1>3, RestIsTable, OneTable

(* It tells whether the next line of s is still to come in t.              *)
LEMMA TableTells ==
    ASSUME NEW s \in Seq(Line), NEW t \in Seq(Line), Aligned(s, t),
           NEW n \in 0 .. Len(s) - 1, NEW k \in 0 .. Len(t) - 1,
           s[n + 1] # t[k + 1]
    PROVE  LCSLen(s, t)[<<n + 1, k>>] >= LCSLen(s, t)[<<n, k + 1>>]
             <=> n + 1 \notin Rest(s, t, n, k)
<1> DEFINE dp == LCSLen(s, t)
           f  == HowManyRest(s, t)
<1>1. <<n + 1, k>> \in Cells(s, t) /\ <<n, k + 1>> \in Cells(s, t)
  BY DEF Cells
<1>2. dp[<<n + 1, k>>] = f[<<n + 1, k>>] /\ dp[<<n, k + 1>>] = f[<<n, k + 1>>]
  BY <1>1, LCSLenIsRest
<1> HIDE DEF dp, f
<1>3. /\ f[<<n, k>>] \in Nat /\ f[<<n + 1, k>>] \in Nat
      /\ f[<<n, k + 1>>] \in Nat /\ f[<<n + 1, k + 1>>] \in Nat
      /\ s[n + 1] = t[k + 1] => f[<<n, k>>] = f[<<n + 1, k + 1>>] + 1
      /\ n + 1 \notin Rest(s, t, n, k) =>
           f[<<n, k>>] = f[<<n + 1, k>>] /\ f[<<n, k + 1>>] <= f[<<n, k>>]
      /\ s[n + 1] # t[k + 1] /\ n + 1 \in Rest(s, t, n, k) =>
           f[<<n, k>>] = f[<<n, k + 1>>] /\ f[<<n, k>>] = f[<<n + 1, k>>] + 1
  BY RestCounts DEF f
<1>4. dp[<<n + 1, k>>] >= dp[<<n, k + 1>>] <=> n + 1 \notin Rest(s, t, n, k)
  BY <1>2, <1>3
<1> QED BY <1>4 DEF dp

(* Every line o and t share at or before line n of o or line k of t is in  *)
(* match.                                                                  *)
FoundUpTo(t, match, n, k) ==
    \A p \in 1 .. Len(o), q \in 1 .. Len(t) :
      o[p] = t[q] /\ (p <= n \/ q <= k) => <<p, q>> \in match

FoundAll(t, match) ==
    \A p \in 1 .. Len(o), q \in 1 .. Len(t) : o[p] = t[q] => <<p, q>> \in match

WalkInv ==
    Simple =>
      /\ pc = "matchOurs" => FoundUpTo(a, ma, i, j)
      /\ pc \in {"matchTheirs", "cut"} => FoundAll(a, ma)
      /\ pc = "matchTheirs" => FoundUpTo(b, mb, i, j)
      /\ pc = "cut" => FoundAll(b, mb)

(* A turn of the walk passes no line they share: it steps over line i + 1  *)
(* of o only if what is left of t has no such line.                        *)
LEMMA WalkMisses ==
    ASSUME IInv, NEW t \in {a, b}, Aligned(o, t), ~WalkEnds(t), j <= Len(t),
           NEW match, NEW match_, WalkStep(t, match, match_),
           FoundUpTo(t, match, i, j)
    PROVE  FoundUpTo(t, match_, i', j')
<1>1. /\ o \in Seq(Line) /\ t \in Seq(Line) /\ i \in 0 .. Len(o) /\ j \in Nat
      /\ Len(o) \in Nat /\ Len(t) \in Nat
      /\ DOMAIN o = 1 .. Len(o) /\ DOMAIN t = 1 .. Len(t)
  BY DEF IInv, TypeOK
<1>2. i \in 0 .. Len(o) - 1 /\ j \in 0 .. Len(t) - 1
  <2>1. i # Len(o) /\ j # Len(t) /\ j <= Len(t)
    BY DEF WalkEnds
  <2> DEFINE lo == Len(o) lt == Len(t)
  <2>2. lo \in Nat /\ lt \in Nat /\ i \in 0 .. lo /\ j \in Nat
    BY <1>1
  <2>3. i # lo /\ j # lt /\ j <= lt
    BY <2>1
  <2> HIDE DEF lo, lt
  <2>4. i \in 0 .. lo - 1 /\ j \in 0 .. lt - 1
    BY <2>2, <2>3
  <2> QED BY <2>4 DEF lo, lt
<1>3. /\ \A p, r \in 1 .. Len(o) : o[p] = o[r] => p = r
      /\ \A q, r \in 1 .. Len(t) : t[q] = t[r] => q = r
      /\ \A p, r \in 1 .. Len(o), q, u \in 1 .. Len(t) :
           (o[p] = t[q] /\ o[r] = t[u] /\ p < r) => q < u
  BY <1>1 DEF Aligned, Distinct, Unmoved
<1>4. i + 1 \in 1 .. Len(o) /\ j + 1 \in 1 .. Len(t)
  BY <1>1, <1>2
<1>5. SUFFICES ASSUME NEW p \in 1 .. Len(o), NEW q \in 1 .. Len(t), o[p] = t[q],
                      p <= i' \/ q <= j', ~(p <= i \/ q <= j)
               PROVE  <<p, q>> \in match_
  <2>1. match \subseteq match_
    BY DEF WalkStep
  <2> QED BY <1>1, <2>1 DEF FoundUpTo
<1>6. CASE o[i + 1] = t[j + 1]
  <2>1. /\ match_ = match \cup {<<i + 1, j + 1>>}
        /\ i' = i + 1 /\ j' = j + 1
    BY <1>6 DEF WalkStep
  <2>2. p = i + 1 \/ q = j + 1
    BY <1>1, <1>5, <2>1
  <2>3. p = i + 1 /\ q = j + 1
    BY <1>3, <1>4, <1>5, <1>6, <2>2
  <2> QED BY <2>1, <2>3
<1>7. CASE o[i + 1] # t[j + 1]
  <2>1. IF LCSLen(o, t)[<<i + 1, j>>] >= LCSLen(o, t)[<<i, j + 1>>]
        THEN i' = i + 1 /\ j' = j
        ELSE i' = i /\ j' = j + 1
    BY <1>7 DEF WalkStep
  <2>2. LCSLen(o, t)[<<i + 1, j>>] >= LCSLen(o, t)[<<i, j + 1>>]
          <=> i + 1 \notin Rest(o, t, i, j)
    BY <1>1, <1>2, <1>7, TableTells
  <2>4. CASE i + 1 \notin Rest(o, t, i, j)
    <3>1. i' = i + 1 /\ j' = j
      BY <2>1, <2>2, <2>4
    <3>2. p = i + 1 /\ q \in j + 1 .. Len(t)
      BY <1>1, <1>5, <3>1
    <3>3. i + 1 \in Rest(o, t, i, j)
      BY <1>1, <1>4, <1>5, <3>2 DEF Rest
    <3> QED BY <2>4, <3>3
  <2>5. CASE i + 1 \in Rest(o, t, i, j)
    <3>1. i' = i /\ j' = j + 1
      BY <2>1, <2>2, <2>5
    <3>2. q = j + 1 /\ p \in i + 1 .. Len(o)
      BY <1>1, <1>5, <3>1
    <3>3. PICK u \in j + 1 .. Len(t) : o[i + 1] = t[u]
      BY <2>5 DEF Rest
    <3>4. p # i + 1
      BY <1>5, <1>7, <3>2
    <3>5. i + 1 < p /\ u \in 1 .. Len(t)
      BY <1>1, <3>2, <3>4
    <3>6. u < q
      BY <1>3, <1>4, <1>5, <3>3, <3>5
    <3> QED BY <1>1, <3>2, <3>6
  <2> QED BY <2>4, <2>5
<1> QED BY <1>6, <1>7

(* The walk that has come to the end of a text has passed every line.      *)
LEMMA WalkEndsWithAll ==
    ASSUME NEW t, NEW match, WalkEnds(t), FoundUpTo(t, match, i, j)
    PROVE  FoundAll(t, match)
BY DEF WalkEnds, FoundUpTo, FoundAll

LEMMA SimpleAligned ==
    ASSUME Simple, NEW t \in {a, b}
    PROVE  Aligned(o, t)
BY DEF Simple, Aligned

LEMMA SimpleStays ==
    ASSUME UNCHANGED <<o, a, b>>
    PROVE  Simple' = Simple
BY DEF Simple, Distinct, Unmoved

LEMMA NextWalkInv == IInv /\ WalkInv /\ [Next]_vars => WalkInv'
<1> SUFFICES ASSUME IInv, WalkInv, [Next]_vars PROVE WalkInv'
  OBVIOUS
<1>1. UNCHANGED <<o, a, b>>
  BY DEF Next, ShortCircuit, Split, MatchOurs, MatchTheirs, CutStable,
         CutUnstable, CutTrailing, texts, vars
<1>2. SUFFICES ASSUME Simple
               PROVE  /\ pc' = "matchOurs" => FoundUpTo(a', ma', i', j')
                      /\ pc' \in {"matchTheirs", "cut"} => FoundAll(a', ma')
                      /\ pc' = "matchTheirs" => FoundUpTo(b', mb', i', j')
                      /\ pc' = "cut" => FoundAll(b', mb')
  BY <1>1, SimpleStays DEF WalkInv, FoundUpTo, FoundAll
<1>3. /\ pc = "matchOurs" => FoundUpTo(a, ma, i, j)
      /\ pc \in {"matchTheirs", "cut"} => FoundAll(a, ma)
      /\ pc = "matchTheirs" => FoundUpTo(b, mb, i, j)
      /\ pc = "cut" => FoundAll(b, mb)
  BY <1>2 DEF WalkInv
<1>4. \A t, match : FoundUpTo(t, match, 0, 0)
  BY DEF FoundUpTo
<1>5. CASE ShortCircuit
  BY <1>5 DEF ShortCircuit
<1>6. CASE Split
  <2>1. pc' = "matchOurs" /\ ma' = ma /\ i' = 0 /\ j' = 0
    BY <1>6 DEF Split, walk, IInv, MatchInv
  <2> QED BY <1>4, <2>1
<1>7. CASE MatchOurs
  <2>1. pc = "matchOurs" /\ mb' = mb /\ j <= Len(a)
    BY <1>7 DEF MatchOurs, IInv, MatchInv
  <2>2. CASE WalkEnds(a)
    <3>1. pc' = "matchTheirs" /\ i' = 0 /\ j' = 0 /\ ma' = ma
      BY <1>7, <2>2 DEF MatchOurs
    <3>2. FoundAll(a, ma)
      BY <1>3, <2>1, <2>2, WalkEndsWithAll
    <3> QED BY <1>1, <1>4, <3>1, <3>2 DEF FoundAll
  <2>3. CASE ~WalkEnds(a)
    <3>1. WalkStep(a, ma, ma') /\ pc' = pc
      BY <1>7, <2>3 DEF MatchOurs
    <3>2. FoundUpTo(a, ma', i', j')
      BY <1>2, <1>3, <2>1, <2>3, <3>1, SimpleAligned, WalkMisses
    <3> QED BY <1>1, <2>1, <3>1, <3>2 DEF FoundUpTo
  <2> QED BY <2>2, <2>3
<1>8. CASE MatchTheirs
  <2>1. pc = "matchTheirs" /\ ma' = ma /\ j <= Len(b)
    BY <1>8 DEF MatchTheirs, IInv, MatchInv
  <2>2. CASE WalkEnds(b)
    <3>1. pc' = "cut" /\ mb' = mb
      BY <1>8, <2>2 DEF MatchTheirs
    <3>2. FoundAll(b, mb)
      BY <1>3, <2>1, <2>2, WalkEndsWithAll
    <3> QED BY <1>1, <1>3, <2>1, <3>1, <3>2 DEF FoundAll
  <2>3. CASE ~WalkEnds(b)
    <3>1. WalkStep(b, mb, mb') /\ pc' = pc
      BY <1>8, <2>3 DEF MatchTheirs
    <3>2. FoundUpTo(b, mb', i', j')
      BY <1>2, <1>3, <2>1, <2>3, <3>1, SimpleAligned, WalkMisses
    <3> QED BY <1>1, <1>3, <2>1, <3>1, <3>2 DEF FoundUpTo, FoundAll
  <2> QED BY <2>2, <2>3
<1>9. CASE CutStable \/ CutUnstable \/ CutTrailing
  <2>1. pc = "cut" /\ pc' \in {"cut", "done"} /\ ma' = ma /\ mb' = mb
    BY <1>9 DEF CutStable, CutUnstable, CutTrailing
  <2> QED BY <1>1, <1>3, <2>1 DEF FoundAll
<1>10. CASE UNCHANGED vars
  BY <1>1, <1>3, <1>10 DEF vars, FoundAll, FoundUpTo
<1> QED BY <1>5, <1>6, <1>7, <1>8, <1>9, <1>10 DEF Next

LEMMA InitWalkInv == Init => WalkInv
BY DEF Init, WalkInv

-----------------------------------------------------------------------------
(* What a merge without conflicts makes of such texts.                     *)

LinesIn(s, m, n) == { s[q] : q \in m + 1 .. n }

(* What a merge of sides with the lines A and B keeps.                     *)
Kept(A, B) == (A \cap B) \cup (A \ LinesOf(o)) \cup (B \ LinesOf(o))

(* Lines o and t share are cut off both, or neither.                       *)
Abreast(t, n, k) ==
    \A p \in 1 .. Len(o), q \in 1 .. Len(t) : o[p] = t[q] => (p <= n <=> q <= k)

SetInv ==
    Simple /\ WasSplit =>
      /\ Abreast(a, oi, ai) /\ Abreast(b, oi, bi)
      /\ conflicts = 0 =>
           LinesOf(merged) = Kept(LinesIn(a, 0, ai), LinesIn(b, 0, bi))

LEMMA LinesConcat ==
    ASSUME NEW s \in Seq(Line), NEW t \in Seq(Line)
    PROVE  LinesOf(s \o t) = LinesOf(s) \cup LinesOf(t)
<1>1. /\ DOMAIN (s \o t) = 1 .. Len(s) + Len(t)
      /\ DOMAIN s = 1 .. Len(s) /\ DOMAIN t = 1 .. Len(t)
      /\ Len(s) \in Nat /\ Len(t) \in Nat
  OBVIOUS
<1>2. \A n \in 1 .. Len(s) : (s \o t)[n] = s[n]
  OBVIOUS
<1>3. \A n \in 1 .. Len(t) : (s \o t)[Len(s) + n] = t[n]
  OBVIOUS
<1>4. ASSUME NEW n \in 1 .. Len(s) + Len(t)
      PROVE  (s \o t)[n] \in LinesOf(s) \cup LinesOf(t)
  <2>1. CASE n <= Len(s)
    BY <1>1, <1>2, <2>1 DEF LinesOf
  <2>2. CASE n > Len(s)
    <3>1. n - Len(s) \in 1 .. Len(t) /\ n = Len(s) + (n - Len(s))
      BY <1>1, <2>2
    <3>2. (s \o t)[n] = t[n - Len(s)]
      BY <1>3, <3>1
    <3> QED BY <1>1, <3>1, <3>2 DEF LinesOf
  <2> QED BY <1>1, <2>1, <2>2
<1>5. ASSUME NEW n \in 1 .. Len(s) PROVE s[n] \in LinesOf(s \o t)
  <2>1. n \in 1 .. Len(s) + Len(t)
    BY <1>1
  <2> QED BY <1>1, <1>2, <2>1 DEF LinesOf
<1>6. ASSUME NEW n \in 1 .. Len(t) PROVE t[n] \in LinesOf(s \o t)
  <2>1. Len(s) + n \in 1 .. Len(s) + Len(t)
    BY <1>1
  <2> QED BY <1>1, <1>3, <2>1 DEF LinesOf
<1>7. LinesOf(s \o t) \subseteq LinesOf(s) \cup LinesOf(t)
  BY <1>1, <1>4 DEF LinesOf
<1>8. LinesOf(s) \subseteq LinesOf(s \o t) /\ LinesOf(t) \subseteq LinesOf(s \o t)
  BY <1>1, <1>5, <1>6 DEF LinesOf
<1> QED BY <1>7, <1>8

LEMMA LinesOfPiece ==
    ASSUME NEW s \in Seq(Line), NEW m \in 0 .. Len(s), NEW n \in m .. Len(s)
    PROVE  LinesOf(SubSeq(s, m + 1, n)) = LinesIn(s, m, n)
<1> DEFINE t == SubSeq(s, m + 1, n)
<1>1. DOMAIN t = 1 .. n - m /\ \A k \in 1 .. n - m : t[k] = s[m + k]
  OBVIOUS
<1> HIDE DEF t
<1>2. ASSUME NEW k \in 1 .. n - m PROVE t[k] \in LinesIn(s, m, n)
  <2>1. m + k \in m + 1 .. n
    OBVIOUS
  <2> QED BY <1>1, <2>1 DEF LinesIn
<1>3. ASSUME NEW q \in m + 1 .. n PROVE s[q] \in LinesOf(t)
  <2>1. q - m \in 1 .. n - m /\ m + (q - m) = q
    OBVIOUS
  <2> QED BY <1>1, <2>1 DEF LinesOf
<1>4. LinesOf(t) = LinesIn(s, m, n)
  BY <1>1, <1>2, <1>3 DEF LinesOf, LinesIn
<1> QED BY <1>4 DEF t

(* At a line o and t share, and behind it, the cursors are abreast.        *)
LEMMA MeetAbreast ==
    ASSUME TypeOK, NEW t \in {a, b}, Aligned(o, t),
           NEW n \in 0 .. Len(o) - 1, NEW k \in 0 .. Len(t) - 1,
           o[n + 1] = t[k + 1]
    PROVE  Abreast(t, n, k) /\ Abreast(t, n + 1, k + 1)
<1>1. /\ Len(o) \in Nat /\ Len(t) \in Nat
      /\ DOMAIN o = 1 .. Len(o) /\ DOMAIN t = 1 .. Len(t)
      /\ n + 1 \in 1 .. Len(o) /\ k + 1 \in 1 .. Len(t)
  BY DEF TypeOK
<1>2. /\ \A p, r \in 1 .. Len(o) : o[p] = o[r] => p = r
      /\ \A q, r \in 1 .. Len(t) : t[q] = t[r] => q = r
      /\ \A p, r \in 1 .. Len(o), q, u \in 1 .. Len(t) :
           (o[p] = t[q] /\ o[r] = t[u] /\ p < r) => q < u
  BY <1>1 DEF Aligned, Distinct, Unmoved
<1>3. ASSUME NEW p \in 1 .. Len(o), NEW q \in 1 .. Len(t), o[p] = t[q]
      PROVE  (p <= n <=> q <= k) /\ (p <= n + 1 <=> q <= k + 1)
  <2>1. CASE p = n + 1
    <3>1. q = k + 1
      BY <1>1, <1>2, <1>3, <2>1
    <3> QED BY <2>1, <3>1
  <2>2. CASE p < n + 1
    <3>1. q < k + 1
      BY <1>1, <1>2, <1>3, <2>2
    <3> QED BY <2>2, <3>1
  <2>3. CASE p > n + 1
    <3>1. k + 1 < q
      BY <1>1, <1>2, <1>3, <2>3
    <3> QED BY <2>3, <3>1
  <2> QED BY <2>1, <2>2, <2>3
<1> QED BY <1>3 DEF Abreast

(* Where the cursors stop after a chunk they are abreast: before a line    *)
(* the three texts share, or at the end of each.                           *)
LEMMA SyncAbreast ==
    ASSUME IInv, Simple,
           NEW s \in (oi .. Len(o)) \X (ai .. Len(a)) \X (bi .. Len(b)),
           IsNextSync(s)
    PROVE  Abreast(a, s[1], s[2]) /\ Abreast(b, s[1], s[3])
<1>1. CASE SyncPoints = {}
  BY <1>1 DEF IsNextSync, Abreast, IInv, TypeOK
<1>2. CASE SyncPoints # {}
  <2>1. <<s[1] + 1, s[2] + 1>> \in ma /\ <<s[1] + 1, s[3] + 1>> \in mb
    BY <1>2 DEF IsNextSync, SyncPoints
  <2>2. /\ s[1] + 1 \in 1 .. Len(o) /\ s[2] + 1 \in 1 .. Len(a)
        /\ s[3] + 1 \in 1 .. Len(b)
        /\ Len(o) \in Nat /\ Len(a) \in Nat /\ Len(b) \in Nat
        /\ s[1] \in Nat /\ s[2] \in Nat /\ s[3] \in Nat
    <3>1. /\ ma \subseteq (1 .. Len(o)) \X (1 .. Len(a))
          /\ mb \subseteq (1 .. Len(o)) \X (1 .. Len(b))
          /\ Len(o) \in Nat /\ Len(a) \in Nat /\ Len(b) \in Nat
          /\ oi \in Nat /\ ai \in Nat /\ bi \in Nat
      BY DEF IInv, TypeOK
    <3>2. /\ s[1] \in oi .. Len(o) /\ s[2] \in ai .. Len(a)
          /\ s[3] \in bi .. Len(b)
      OBVIOUS
    <3>3. s[1] \in Nat /\ s[2] \in Nat /\ s[3] \in Nat
      BY <3>1, <3>2
    <3> QED BY <2>1, <3>1, <3>3
  <2>3. o[s[1] + 1] = a[s[2] + 1] /\ o[s[1] + 1] = b[s[3] + 1]
    BY <2>1, <2>2 DEF IInv, MatchInv
  <2>4. /\ s[1] \in 0 .. Len(o) - 1 /\ s[2] \in 0 .. Len(a) - 1
        /\ s[3] \in 0 .. Len(b) - 1
    BY <2>2
  <2> QED BY <2>3, <2>4, SimpleAligned, MeetAbreast DEF IInv
<1> QED BY <1>1, <1>2

(* A line of a piece of t that o has is in the piece of o beside it.       *)
LEMMA PiecesShare ==
    ASSUME TypeOK, NEW t \in {a, b}, NEW ti \in 0 .. Len(t), Abreast(t, oi, ti),
           NEW k \in oi .. Len(o), NEW m \in ti .. Len(t), Abreast(t, k, m)
    PROVE  /\ LinesIn(t, ti, m) \cap LinesOf(o) \subseteq LinesIn(o, oi, k)
           /\ LinesIn(o, oi, k) \subseteq LinesOf(o)
<1>1. /\ Len(o) \in Nat /\ Len(t) \in Nat /\ oi \in 0 .. Len(o)
      /\ DOMAIN o = 1 .. Len(o)
  BY DEF TypeOK
<1>2. ASSUME NEW q \in ti + 1 .. m, t[q] \in LinesOf(o)
      PROVE  t[q] \in LinesIn(o, oi, k)
  <2>1. PICK p \in 1 .. Len(o) : o[p] = t[q]
    BY <1>1, <1>2 DEF LinesOf
  <2>2. q \in 1 .. Len(t) /\ ~(q <= ti) /\ q <= m
    BY <1>1
  <2>3. ~(p <= oi) /\ p <= k
    BY <2>1, <2>2 DEF Abreast
  <2>4. p \in oi + 1 .. k
    BY <1>1, <2>3
  <2> QED BY <2>1, <2>4 DEF LinesIn
<1>3. LinesIn(o, oi, k) \subseteq LinesOf(o)
  BY <1>1 DEF LinesIn, LinesOf
<1> QED BY <1>2, <1>3 DEF LinesIn

(* Of two pieces that are not disputed, the merge takes what it would keep *)
(* of any two texts.                                                       *)
LEMMA ResolvedKeeps ==
    ASSUME NEW s, NEW t, NEW u, ~Disputed(s, t, u),
           LinesOf(s) \subseteq LinesOf(o),
           LinesOf(t) \cap LinesOf(o) \subseteq LinesOf(s),
           LinesOf(u) \cap LinesOf(o) \subseteq LinesOf(s)
    PROVE  LinesOf(Resolved(s, t, u)) = Kept(LinesOf(t), LinesOf(u))
<1>1. CASE t = s
  <2>1. Resolved(s, t, u) = u
    BY <1>1 DEF Resolved
  <2> QED BY <1>1, <2>1 DEF Kept
<1>2. CASE t # s
  <2>1. Resolved(s, t, u) = t /\ (u = s \/ u = t)
    BY <1>2 DEF Resolved, Disputed
  <2> QED BY <1>2, <2>1 DEF Kept
<1> QED BY <1>1, <1>2

(* Keeping piece by piece is keeping the whole: no line the texts share    *)
(* has been cut off one side only.                                         *)
LEMMA KeptAdds ==
    ASSUME TypeOK, Abreast(a, oi, ai), Abreast(b, oi, bi),
           NEW m \in ai .. Len(a), NEW n \in bi .. Len(b)
    PROVE  Kept(LinesIn(a, 0, ai), LinesIn(b, 0, bi))
             \cup Kept(LinesIn(a, ai, m), LinesIn(b, bi, n))
           = Kept(LinesIn(a, 0, m), LinesIn(b, 0, n))
<1>1. /\ Len(o) \in Nat /\ Len(a) \in Nat /\ Len(b) \in Nat
      /\ oi \in 0 .. Len(o) /\ ai \in 0 .. Len(a) /\ bi \in 0 .. Len(b)
      /\ DOMAIN o = 1 .. Len(o)
  BY DEF TypeOK
<1> DEFINE A1 == LinesIn(a, 0, ai) A2 == LinesIn(a, ai, m)
           B1 == LinesIn(b, 0, bi) B2 == LinesIn(b, bi, n)
<1>2. LinesIn(a, 0, m) = A1 \cup A2
  <2>1. 0 + 1 .. m = (0 + 1 .. ai) \cup (ai + 1 .. m)
    BY <1>1
  <2> QED BY <2>1 DEF LinesIn
<1>3. LinesIn(b, 0, n) = B1 \cup B2
  <2>1. 0 + 1 .. n = (0 + 1 .. bi) \cup (bi + 1 .. n)
    BY <1>1
  <2> QED BY <2>1 DEF LinesIn
<1>4. A1 \cap B2 \cap LinesOf(o) = {}
  <2>1. SUFFICES ASSUME NEW q \in 0 + 1 .. ai, NEW r \in bi + 1 .. n, a[q] = b[r],
                        a[q] \in LinesOf(o)
                 PROVE  FALSE
    BY DEF LinesIn
  <2>2. PICK p \in 1 .. Len(o) : o[p] = a[q]
    BY <1>1, <2>1 DEF LinesOf
  <2>3. q \in 1 .. Len(a) /\ q <= ai /\ r \in 1 .. Len(b) /\ ~(r <= bi)
    BY <1>1
  <2> QED BY <2>1, <2>2, <2>3 DEF Abreast
<1>5. A2 \cap B1 \cap LinesOf(o) = {}
  <2>1. SUFFICES ASSUME NEW q \in ai + 1 .. m, NEW r \in 0 + 1 .. bi, a[q] = b[r],
                        a[q] \in LinesOf(o)
                 PROVE  FALSE
    BY DEF LinesIn
  <2>2. PICK p \in 1 .. Len(o) : o[p] = a[q]
    BY <1>1, <2>1 DEF LinesOf
  <2>3. q \in 1 .. Len(a) /\ ~(q <= ai) /\ r \in 1 .. Len(b) /\ r <= bi
    BY <1>1
  <2> QED BY <2>1, <2>2, <2>3 DEF Abreast
<1> HIDE DEF A1, A2, B1, B2
<1>6. Kept(A1, B1) \cup Kept(A2, B2) = Kept(A1 \cup A2, B1 \cup B2)
  BY <1>4, <1>5 DEF Kept
<1> QED BY <1>2, <1>3, <1>6 DEF A1, A2, B1, B2

(* A chunk that is not in conflict keeps what is to be kept.               *)
LEMMA CutKeeps ==
    ASSUME IInv, Simple, WasSplit, SetInv, UNCHANGED <<o, a, b>>,
           NEW k \in oi .. Len(o), NEW m \in ai .. Len(a), NEW n \in bi .. Len(b),
           oi' = k, ai' = m, bi' = n, Abreast(a, k, m), Abreast(b, k, n),
           conflicts' = 0,
           Cut(SubSeq(o, oi + 1, k), SubSeq(a, ai + 1, m), SubSeq(b, bi + 1, n))
    PROVE  LinesOf(merged') = Kept(LinesIn(a, 0, m), LinesIn(b, 0, n))
<1> DEFINE so == SubSeq(o, oi + 1, k)
           sa == SubSeq(a, ai + 1, m)
           sb == SubSeq(b, bi + 1, n)
<1>1. /\ o \in Seq(Line) /\ a \in Seq(Line) /\ b \in Seq(Line)
      /\ oi \in 0 .. Len(o) /\ ai \in 0 .. Len(a) /\ bi \in 0 .. Len(b)
      /\ conflicts \in Nat /\ merged \in Seq(Line) /\ TypeOK
  BY DEF IInv, TypeOK
<1>2. /\ LinesOf(so) = LinesIn(o, oi, k) /\ LinesOf(sa) = LinesIn(a, ai, m)
      /\ LinesOf(sb) = LinesIn(b, bi, n)
  BY <1>1, LinesOfPiece
<1>3. sa \in Seq(Line) /\ sb \in Seq(Line)
  BY <1>1, CountPiece
<1> HIDE DEF so, sa, sb
<1>4. /\ conflicts = 0 /\ ~Disputed(so, sa, sb)
      /\ merged' = merged \o Resolved(so, sa, sb)
  BY <1>1 DEF Cut, so, sa, sb
<1>5. Abreast(a, oi, ai) /\ Abreast(b, oi, bi)
  BY DEF SetInv
<1>6. /\ LinesOf(so) \subseteq LinesOf(o)
      /\ LinesOf(sa) \cap LinesOf(o) \subseteq LinesOf(so)
      /\ LinesOf(sb) \cap LinesOf(o) \subseteq LinesOf(so)
  BY <1>1, <1>2, <1>5, PiecesShare
<1>7. LinesOf(Resolved(so, sa, sb)) = Kept(LinesOf(sa), LinesOf(sb))
  BY <1>4, <1>6, ResolvedKeeps
<1>8. LinesOf(merged') = LinesOf(merged) \cup LinesOf(Resolved(so, sa, sb))
  <2>1. Resolved(so, sa, sb) \in Seq(Line)
    BY <1>3 DEF Resolved
  <2> QED BY <1>1, <1>4, <2>1, LinesConcat
<1>9. LinesOf(merged) = Kept(LinesIn(a, 0, ai), LinesIn(b, 0, bi))
  BY <1>4 DEF SetInv
<1> QED BY <1>1, <1>2, <1>5, <1>7, <1>8, <1>9, KeptAdds

LEMMA InitSetInv == Init => SetInv
<1> SUFFICES ASSUME Init PROVE SetInv
  OBVIOUS
<1>1. oi = 0 /\ ai = 0 /\ bi = 0 /\ merged = << >>
  BY DEF Init
<1>2. LinesIn(a, 0, 0) = {} /\ LinesIn(b, 0, 0) = {} /\ LinesOf(<< >>) = {}
  BY DEF LinesIn, LinesOf
<1>3. Abreast(a, 0, 0) /\ Abreast(b, 0, 0)
  BY DEF Abreast
<1> QED BY <1>1, <1>2, <1>3 DEF SetInv, Kept

LEMMA NextSetInv == IInv /\ SetInv /\ [Next]_vars => SetInv'
<1> SUFFICES ASSUME IInv, SetInv, [Next]_vars PROVE SetInv'
  OBVIOUS
<1>1. UNCHANGED <<o, a, b>>
  BY DEF Next, ShortCircuit, Split, MatchOurs, MatchTheirs, CutStable,
         CutUnstable, CutTrailing, texts, vars
<1>2. SUFFICES ASSUME Simple, WasSplit
               PROVE  /\ Abreast(a, oi', ai') /\ Abreast(b, oi', bi')
                      /\ conflicts' = 0 =>
                           LinesOf(merged')
                             = Kept(LinesIn(a, 0, ai'), LinesIn(b, 0, bi'))
  BY <1>1, SimpleStays DEF SetInv, WasSplit, Abreast, LinesOf, LinesIn, Kept
<1>3. /\ Abreast(a, oi, ai) /\ Abreast(b, oi, bi)
      /\ conflicts = 0 =>
           LinesOf(merged) = Kept(LinesIn(a, 0, ai), LinesIn(b, 0, bi))
  BY <1>2 DEF SetInv
<1>4. CASE ShortCircuit
  BY <1>2, <1>4 DEF ShortCircuit, WasSplit
<1>5. CASE Split \/ MatchOurs \/ MatchTheirs \/ UNCHANGED vars
  <2>1. UNCHANGED <<oi, ai, bi, merged, conflicts>>
    BY <1>5 DEF Split, MatchOurs, MatchTheirs, cursors, result, vars
  <2> QED BY <1>3, <2>1
<1>6. CASE CutStable
  <2>1. /\ UNCHANGED conflicts /\ merged' = Append(merged, o[oi + 1])
        /\ oi' = oi + 1 /\ ai' = ai + 1 /\ bi' = bi + 1
        /\ <<oi + 1, ai + 1>> \in ma /\ <<oi + 1, bi + 1>> \in mb
    BY <1>6 DEF CutStable, Stable
  <2>2. /\ o \in Seq(Line) /\ a \in Seq(Line) /\ b \in Seq(Line)
        /\ merged \in Seq(Line) /\ TypeOK
        /\ oi \in 0 .. Len(o) /\ ai \in 0 .. Len(a) /\ bi \in 0 .. Len(b)
        /\ ai + 1 \in 1 .. Len(a) /\ bi + 1 \in 1 .. Len(b) /\ oi + 1 \in 1 .. Len(o)
    BY <2>1 DEF IInv, TypeOK
  <2>3. o[oi + 1] = a[ai + 1] /\ o[oi + 1] = b[bi + 1] /\ o[oi + 1] \in Line
    BY <2>1, <2>2 DEF IInv, MatchInv
  <2>4. Abreast(a, oi + 1, ai + 1) /\ Abreast(b, oi + 1, bi + 1)
    <3>1. /\ oi \in 0 .. Len(o) - 1 /\ ai \in 0 .. Len(a) - 1
          /\ bi \in 0 .. Len(b) - 1
      BY <2>2
    <3> QED BY <1>2, <2>2, <2>3, <3>1, SimpleAligned, MeetAbreast
  <2> DEFINE l == o[oi + 1]
  <2>5. LinesOf(merged') = LinesOf(merged) \cup {l}
    <3>1. merged' = merged \o <<l>> /\ <<l>> \in Seq(Line)
      BY <2>1, <2>2, <2>3
    <3>2. LinesOf(<<l>>) = {l}
      BY DEF LinesOf
    <3>3. LinesOf(merged \o <<l>>) = LinesOf(merged) \cup LinesOf(<<l>>)
      BY <2>2, <3>1, LinesConcat
    <3> QED BY <3>1, <3>2, <3>3
  <2>6. LinesIn(a, ai, ai + 1) = {l} /\ LinesIn(b, bi, bi + 1) = {l}
    <3>1. ai + 1 .. ai + 1 = {ai + 1} /\ bi + 1 .. bi + 1 = {bi + 1}
      BY <2>2
    <3> QED BY <2>3, <3>1 DEF LinesIn
  <2>7. Kept({l}, {l}) = {l}
    BY DEF Kept
  <2>8. ai + 1 \in ai .. Len(a) /\ bi + 1 \in bi .. Len(b)
    BY <2>2
  <2> HIDE DEF l
  <2>9. Kept(LinesIn(a, 0, ai), LinesIn(b, 0, bi)) \cup {l}
          = Kept(LinesIn(a, 0, ai + 1), LinesIn(b, 0, bi + 1))
    BY <1>3, <2>2, <2>6, <2>7, <2>8, KeptAdds
  <2> QED BY <1>3, <2>1, <2>4, <2>5, <2>9
<1>7. CASE CutUnstable
  <2>1. PICK s \in (oi .. Len(o)) \X (ai .. Len(a)) \X (bi .. Len(b)) :
          /\ IsNextSync(s)
          /\ Cut(SubSeq(o, oi + 1, s[1]), SubSeq(a, ai + 1, s[2]),
                 SubSeq(b, bi + 1, s[3]))
          /\ oi' = s[1] /\ ai' = s[2] /\ bi' = s[3]
    BY <1>7 DEF CutUnstable
  <2>2. /\ s[1] \in oi .. Len(o) /\ s[2] \in ai .. Len(a) /\ s[3] \in bi .. Len(b)
    BY <2>1
  <2>3. Abreast(a, s[1], s[2]) /\ Abreast(b, s[1], s[3])
    BY <1>2, <2>1, SyncAbreast
  <2> QED BY <1>1, <1>2, <2>1, <2>2, <2>3, CutKeeps
<1>8. CASE CutTrailing
  <2>1. oi' = oi /\ oi = Len(o)
    BY <1>8 DEF CutTrailing
  <2>2. CASE Trailing
    <3>1. /\ Cut(<< >>, SubSeq(a, ai + 1, Len(a)), SubSeq(b, bi + 1, Len(b)))
          /\ ai' = Len(a) /\ bi' = Len(b)
      BY <1>8, <2>2 DEF CutTrailing
    <3>2. /\ Len(o) \in oi .. Len(o) /\ Len(a) \in ai .. Len(a)
          /\ Len(b) \in bi .. Len(b) /\ SubSeq(o, oi + 1, Len(o)) = << >>
      BY <2>1 DEF IInv, TypeOK
    <3>3. Abreast(a, Len(o), Len(a)) /\ Abreast(b, Len(o), Len(b))
      BY DEF Abreast, IInv, TypeOK
    <3> QED BY <1>1, <1>2, <2>1, <3>1, <3>2, <3>3, CutKeeps
  <2>3. CASE ~Trailing
    <3>1. UNCHANGED <<ai, bi, merged, conflicts>>
      BY <1>8, <2>3 DEF CutTrailing, result
    <3> QED BY <1>3, <2>1, <3>1
  <2> QED BY <2>2, <2>3
<1> QED BY <1>4, <1>5, <1>6, <1>7, <1>8 DEF Next

(* At the end, these are the lines of the sides.                           *)
LEMMA SetsAtEnd == IInv /\ TallyInv /\ SetInv => MergesLikeSets
<1> SUFFICES ASSUME IInv, TallyInv, SetInv, Clean, Simple
             PROVE  LinesOf(merged) = Kept(LinesOf(a), LinesOf(b))
  BY DEF MergesLikeSets, Kept
<1>1. CASE WasSplit
  <2>1. ai = Len(a) /\ bi = Len(b)
    BY <1>1 DEF Clean, IInv, EndInv, NothingSkipped
  <2>2. LinesIn(a, 0, Len(a)) = LinesOf(a) /\ LinesIn(b, 0, Len(b)) = LinesOf(b)
    <3>1. /\ a \in Seq(Line) /\ DOMAIN a = 0 + 1 .. Len(a)
          /\ b \in Seq(Line) /\ DOMAIN b = 0 + 1 .. Len(b)
      BY DEF IInv, TypeOK
    <3> QED BY <3>1 DEF LinesIn, LinesOf
  <2> QED BY <1>1, <2>1, <2>2 DEF SetInv, Clean
<1>2. CASE ~WasSplit
  <2>1. TakenWhole
    BY <1>2 DEF TallyInv, Clean
  <2> QED BY <2>1 DEF TakenWhole, Kept
<1> QED BY <1>1, <1>2

-----------------------------------------------------------------------------
(* Which chunks of such texts are in conflict.                             *)

Starts == {Start} \cup Shared

Divergent(x) ==
    /\ Segment(a, x) # Segment(o, x)
    /\ Segment(b, x) # Segment(o, x)
    /\ Segment(a, x) # Segment(b, x)

(* Some of what lies behind x is cut off when n, m and k lines are.        *)
DealtBy(x, n, m, k) == Place(o, x) < n \/ Place(a, x) < m \/ Place(b, x) < k

(* The cursors are right behind x.                                         *)
Behind(x) == Place(o, x) = oi /\ Place(a, x) = ai /\ Place(b, x) = bi

(* The places at which the sides disagree, as far as the cursors are.      *)
Disagreed(n, m, k) == { x \in Starts : Divergent(x) /\ DealtBy(x, n, m, k) }

ConflictInv ==
    Simple =>
      /\ Done /\ ~WasSplit => conflicts = 0
      /\ pc \in {"compare", "matchOurs", "matchTheirs"} =>
           oi = 0 /\ ai = 0 /\ bi = 0 /\ conflicts = 0
      /\ pc = "cut" =>
           AtEnds \/ (oi < Len(o) /\ Stable) \/ \E x \in Starts : Behind(x)
      /\ WasSplit => conflicts = Cardinality(Disagreed(oi, ai, bi))

LEMMA PlaceIs ==
    ASSUME NEW s \in Seq(Line), Distinct(s)
    PROVE  /\ Place(s, Start) = 0
           /\ \A n \in 1 .. Len(s) : Place(s, s[n]) = n
<1>1. Place(s, Start) = 0
  BY DEF Place
<1>2. ASSUME NEW n \in 1 .. Len(s) PROVE Place(s, s[n]) = n
  <2>1. s[n] # Start
    BY StartAssumption DEF Start
  <2>2. \A k \in DOMAIN s : s[k] = s[n] => k = n
    BY DEF Distinct
  <2>3. Place(s, s[n]) = CHOOSE k \in DOMAIN s : s[k] = s[n]
    BY <2>1 DEF Place
  <2>4. n \in DOMAIN s
    OBVIOUS
  <2> QED BY <2>2, <2>3, <2>4
<1> QED BY <1>1, <1>2

(* Where a line all three texts share is.                                  *)
LEMMA SharedPlaces ==
    ASSUME TypeOK, Simple, NEW x \in Shared
    PROVE  /\ Place(o, x) \in 1 .. Len(o) /\ o[Place(o, x)] = x
           /\ Place(a, x) \in 1 .. Len(a) /\ a[Place(a, x)] = x
           /\ Place(b, x) \in 1 .. Len(b) /\ b[Place(b, x)] = x
<1>1. \A s \in {o, a, b} : s \in Seq(Line) /\ Distinct(s) /\ DOMAIN s = 1 .. Len(s)
  BY DEF TypeOK, Simple
<1>2. ASSUME NEW s \in {o, a, b}
      PROVE  Place(s, x) \in 1 .. Len(s) /\ s[Place(s, x)] = x
  <2>1. PICK n \in 1 .. Len(s) : s[n] = x
    BY <1>1 DEF Shared, LinesOf
  <2>2. Place(s, x) = n
    BY <1>1, <2>1, PlaceIs
  <2> QED BY <2>1, <2>2
<1> QED BY <1>2

(* What lies behind a place ends before the next line they share.          *)
LEMMA SegmentIs ==
    ASSUME NEW s \in Seq(Line), NEW x, NEW p \in 0 .. Len(s), Place(s, x) = p,
           NEW m \in p .. Len(s), \A n \in p + 1 .. m : s[n] \notin Shared,
           m = Len(s) \/ s[m + 1] \in Shared
    PROVE  Segment(s, x) = SubSeq(s, p + 1, m)
<1> DEFINE next  == { n \in p + 1 .. Len(s) : s[n] \in Shared }
           first == CHOOSE n \in next : \A k \in next : n <= k
<1>1. Segment(s, x) = IF next = {} THEN SubSeq(s, p + 1, Len(s))
                      ELSE SubSeq(s, p + 1, first - 1)
  BY DEF Segment
<1>2. \A n \in next : n > m
  OBVIOUS
<1>3. CASE m = Len(s)
  <2>1. next = {}
    BY <1>2, <1>3
  <2> QED BY <1>1, <1>3, <2>1
<1>4. CASE m # Len(s)
  <2>1. m + 1 \in next /\ \A k \in next : m + 1 <= k
    BY <1>2, <1>4
  <2> HIDE DEF next
  <2>2. next \subseteq Nat
    BY DEF next
  <2>3. \A n \in next : (\A k \in next : n <= k) => n = m + 1
    BY <2>1, <2>2
  <2>4. first = m + 1
    BY <2>1, <2>3
  <2> HIDE DEF first
  <2>5. first - 1 = m
    BY <2>4
  <2> QED BY <1>1, <2>1, <2>5
<1> QED BY <1>3, <1>4

(* Between the cursors and where they stop next, the three texts share     *)
(* nothing.                                                                *)
LEMMA NoneBetween ==
    ASSUME IInv, WalkInv, SetInv, Simple, pc = "cut",
           NEW s \in (oi .. Len(o)) \X (ai .. Len(a)) \X (bi .. Len(b)),
           IsNextSync(s)
    PROVE  /\ \A p \in oi + 1 .. s[1] : o[p] \notin Shared
           /\ \A q \in ai + 1 .. s[2] : a[q] \notin Shared
           /\ \A r \in bi + 1 .. s[3] : b[r] \notin Shared
           /\ s[1] = Len(o) \/ o[s[1] + 1] \in Shared
           /\ s[2] = Len(a) \/ a[s[2] + 1] \in Shared
           /\ s[3] = Len(b) \/ b[s[3] + 1] \in Shared
<1>1. /\ DOMAIN o = 1 .. Len(o) /\ DOMAIN a = 1 .. Len(a) /\ DOMAIN b = 1 .. Len(b)
      /\ Len(o) \in Nat /\ Len(a) \in Nat /\ Len(b) \in Nat
      /\ oi \in 0 .. Len(o) /\ ai \in 0 .. Len(a) /\ bi \in 0 .. Len(b)
      /\ ma \subseteq (1 .. Len(o)) \X (1 .. Len(a))
      /\ mb \subseteq (1 .. Len(o)) \X (1 .. Len(b))
  BY DEF IInv, TypeOK
<1>2. /\ s[1] \in oi .. Len(o) /\ s[2] \in ai .. Len(a) /\ s[3] \in bi .. Len(b)
  OBVIOUS
<1>3. /\ Abreast(a, oi, ai) /\ Abreast(b, oi, bi)
      /\ Abreast(a, s[1], s[2]) /\ Abreast(b, s[1], s[3])
  BY SyncAbreast DEF SetInv, IInv, EndInv
<1>4. FoundAll(a, ma) /\ FoundAll(b, mb)
  BY DEF WalkInv
<1>5. ASSUME NEW p \in 1 .. Len(o), NEW q \in 1 .. Len(a), NEW r \in 1 .. Len(b),
             o[p] = a[q], o[p] = b[r], p > oi
      PROVE  p > s[1]
  <2>1. q > ai /\ r > bi
    <3>1. ~(p <= oi)
      BY <1>1, <1>5
    <3>2. (p <= oi <=> q <= ai) /\ (p <= oi <=> r <= bi)
      BY <1>3, <1>5 DEF Abreast
    <3>3. ~(q <= ai) /\ ~(r <= bi)
      BY <3>1, <3>2
    <3> QED BY <1>1, <3>3
  <2>2. <<p, q>> \in ma /\ <<p, r>> \in mb
    BY <1>4, <1>5 DEF FoundAll
  <2> DEFINE t == <<p - 1, q - 1, r - 1>>
  <2>3. t \in (oi .. Len(o) - 1) \X (ai .. Len(a)) \X (bi .. Len(b))
    BY <1>1, <1>5, <2>1
  <2>4. t[1] + 1 = p /\ t[2] + 1 = q /\ t[3] + 1 = r
    BY <1>1
  <2> HIDE DEF t
  <2>5. t \in SyncPoints
    BY <2>2, <2>3, <2>4 DEF SyncPoints
  <2>6. s[1] <= t[1]
    BY <2>5 DEF IsNextSync
  <2>7. t[1] = p - 1
    BY DEF t
  <2> QED BY <1>1, <1>2, <2>6, <2>7
<1>6. ASSUME NEW p \in oi + 1 .. s[1], o[p] \in Shared PROVE FALSE
  <2>1. PICK q \in 1 .. Len(a) : a[q] = o[p]
    BY <1>1, <1>6 DEF Shared, LinesOf
  <2>2. PICK r \in 1 .. Len(b) : b[r] = o[p]
    BY <1>1, <1>6 DEF Shared, LinesOf
  <2>3. p \in 1 .. Len(o) /\ p > oi /\ ~(p > s[1])
    BY <1>1, <1>2
  <2> QED BY <1>5, <2>1, <2>2, <2>3
<1>7. ASSUME NEW q \in ai + 1 .. s[2], a[q] \in Shared PROVE FALSE
  <2>1. PICK p \in 1 .. Len(o) : o[p] = a[q]
    BY <1>1, <1>7 DEF Shared, LinesOf
  <2>2. q \in 1 .. Len(a) /\ ~(q <= ai) /\ q <= s[2]
    BY <1>1, <1>2
  <2>3. ~(p <= oi) /\ p <= s[1]
    BY <1>3, <2>1, <2>2 DEF Abreast
  <2>4. p \in oi + 1 .. s[1]
    BY <1>1, <1>2, <2>3
  <2> QED BY <1>6, <1>7, <2>1, <2>4
<1>8. ASSUME NEW r \in bi + 1 .. s[3], b[r] \in Shared PROVE FALSE
  <2>1. PICK p \in 1 .. Len(o) : o[p] = b[r]
    BY <1>1, <1>8 DEF Shared, LinesOf
  <2>2. r \in 1 .. Len(b) /\ ~(r <= bi) /\ r <= s[3]
    BY <1>1, <1>2
  <2>3. ~(p <= oi) /\ p <= s[1]
    BY <1>3, <2>1, <2>2 DEF Abreast
  <2>4. p \in oi + 1 .. s[1]
    BY <1>1, <1>2, <2>3
  <2> QED BY <1>6, <1>8, <2>1, <2>4
<1>9. \/ s[1] = Len(o) /\ s[2] = Len(a) /\ s[3] = Len(b)
      \/ o[s[1] + 1] \in Shared /\ a[s[2] + 1] \in Shared /\ b[s[3] + 1] \in Shared
  <2>1. CASE SyncPoints = {}
    BY <2>1 DEF IsNextSync
  <2>2. CASE SyncPoints # {}
    <3>1. <<s[1] + 1, s[2] + 1>> \in ma /\ <<s[1] + 1, s[3] + 1>> \in mb
      BY <2>2 DEF IsNextSync, SyncPoints
    <3>2. /\ s[1] + 1 \in DOMAIN o /\ s[2] + 1 \in DOMAIN a /\ s[3] + 1 \in DOMAIN b
      BY <1>1, <3>1
    <3>3. o[s[1] + 1] = a[s[2] + 1] /\ o[s[1] + 1] = b[s[3] + 1]
      BY <3>1, <3>2 DEF IInv, MatchInv
    <3> QED BY <3>2, <3>3 DEF Shared, LinesOf
  <2> QED BY <2>1, <2>2
<1> QED BY <1>6, <1>7, <1>8, <1>9

(* So the chunk that is cut behind a place is what lies behind it.         *)
LEMMA ChunkIsSegment ==
    ASSUME IInv, WalkInv, SetInv, Simple, pc = "cut",
           NEW x, Behind(x),
           NEW s \in (oi .. Len(o)) \X (ai .. Len(a)) \X (bi .. Len(b)),
           IsNextSync(s)
    PROVE  /\ Segment(o, x) = SubSeq(o, oi + 1, s[1])
           /\ Segment(a, x) = SubSeq(a, ai + 1, s[2])
           /\ Segment(b, x) = SubSeq(b, bi + 1, s[3])
<1>1. /\ o \in Seq(Line) /\ a \in Seq(Line) /\ b \in Seq(Line)
      /\ oi \in 0 .. Len(o) /\ ai \in 0 .. Len(a) /\ bi \in 0 .. Len(b)
  BY DEF IInv, TypeOK
<1>2. /\ s[1] \in oi .. Len(o) /\ s[2] \in ai .. Len(a) /\ s[3] \in bi .. Len(b)
  OBVIOUS
<1>3. Place(o, x) = oi /\ Place(a, x) = ai /\ Place(b, x) = bi
  BY DEF Behind
<1>4. /\ \A p \in oi + 1 .. s[1] : o[p] \notin Shared
      /\ s[1] = Len(o) \/ o[s[1] + 1] \in Shared
  BY NoneBetween
<1>5. /\ \A q \in ai + 1 .. s[2] : a[q] \notin Shared
      /\ s[2] = Len(a) \/ a[s[2] + 1] \in Shared
  BY NoneBetween
<1>6. /\ \A r \in bi + 1 .. s[3] : b[r] \notin Shared
      /\ s[3] = Len(b) \/ b[s[3] + 1] \in Shared
  BY NoneBetween
<1>7. Segment(o, x) = SubSeq(o, oi + 1, s[1])
  BY <1>1, <1>2, <1>3, <1>4, SegmentIs
<1>8. Segment(a, x) = SubSeq(a, ai + 1, s[2])
  BY <1>1, <1>2, <1>3, <1>5, SegmentIs
<1>9. Segment(b, x) = SubSeq(b, bi + 1, s[3])
  BY <1>1, <1>2, <1>3, <1>6, SegmentIs
<1> QED BY <1>7, <1>8, <1>9

(* Where the places are that have not been dealt with.                     *)
LEMMA PlaceCases ==
    ASSUME IInv, SetInv, WasSplit, Simple, NEW x \in Starts
    PROVE  /\ Place(o, x) \in 0 .. Len(o) /\ Place(a, x) \in 0 .. Len(a)
           /\ Place(b, x) \in 0 .. Len(b)
           /\ \/ x = Start /\ Place(o, x) = 0 /\ Place(a, x) = 0 /\ Place(b, x) = 0
              \/ x \in Shared /\ Place(o, x) >= 1 /\ o[Place(o, x)] = x
                              /\ Place(a, x) >= 1 /\ a[Place(a, x)] = x
                              /\ Place(b, x) >= 1 /\ b[Place(b, x)] = x
           /\ x \in Shared =>
                /\ Place(o, x) <= oi <=> Place(a, x) <= ai
                /\ Place(o, x) <= oi <=> Place(b, x) <= bi
<1>1. /\ TypeOK /\ Abreast(a, oi, ai) /\ Abreast(b, oi, bi)
      /\ Len(o) \in Nat /\ Len(a) \in Nat /\ Len(b) \in Nat
      /\ o \in Seq(Line) /\ a \in Seq(Line) /\ b \in Seq(Line)
      /\ Distinct(o) /\ Distinct(a) /\ Distinct(b)
  BY DEF SetInv, IInv, TypeOK, Simple
<1>2. CASE x = Start
  <2>1. Place(o, x) = 0 /\ Place(a, x) = 0 /\ Place(b, x) = 0
    BY <1>1, <1>2, PlaceIs
  <2>2. x \notin Shared
    <3>1. Shared \subseteq Line
      BY <1>1 DEF Shared, LinesOf
    <3> QED BY <1>2, <3>1, StartAssumption DEF Start
  <2> QED BY <1>1, <1>2, <2>1, <2>2
<1>3. CASE x \in Shared
  <2>1. /\ Place(o, x) \in 1 .. Len(o) /\ o[Place(o, x)] = x
        /\ Place(a, x) \in 1 .. Len(a) /\ a[Place(a, x)] = x
        /\ Place(b, x) \in 1 .. Len(b) /\ b[Place(b, x)] = x
    BY <1>1, <1>3, SharedPlaces
  <2>2. Place(o, x) <= oi <=> Place(a, x) <= ai
    BY <1>1, <2>1 DEF Abreast
  <2>3. Place(o, x) <= oi <=> Place(b, x) <= bi
    BY <1>1, <2>1 DEF Abreast
  <2> QED BY <1>1, <1>3, <2>1, <2>2, <2>3
<1> QED BY <1>2, <1>3 DEF Starts

LEMMA StartsFinite ==
    ASSUME TypeOK, NEW D, D \subseteq Starts
    PROVE  IsFiniteSet(D)
<1>1. o \in [1 .. Len(o) -> Line] /\ IsFiniteSet(1 .. Len(o))
  <2>1. o \in Seq(Line) /\ Len(o) \in Nat
    BY DEF TypeOK
  <2> QED BY <2>1, FS_Interval
<1>2. o \in Surjection(1 .. Len(o), LinesOf(o))
  BY <1>1 DEF Surjection, LinesOf
<1>3. IsFiniteSet(LinesOf(o))
  BY <1>1, <1>2, FS_Surjection
<1>4. IsFiniteSet(LinesOf(o) \cup {Start})
  BY <1>3, FS_AddElement
<1>5. D \in SUBSET (LinesOf(o) \cup {Start})
  BY DEF Starts, Shared
<1> QED BY <1>4, <1>5, FS_Subset

(* Of the places, only the one the cursors are behind is dealt with by the *)
(* chunk.                                                                  *)
LEMMA OthersStay ==
    ASSUME IInv, WalkInv, SetInv, Simple, pc = "cut",
           NEW x \in Starts, Behind(x), NEW y \in Starts, y # x,
           NEW s \in (oi .. Len(o)) \X (ai .. Len(a)) \X (bi .. Len(b)),
           IsNextSync(s)
    PROVE  DealtBy(y, s[1], s[2], s[3]) <=> DealtBy(y, oi, ai, bi)
<1>1. WasSplit
  BY DEF IInv, EndInv
<1>2. /\ oi \in Nat /\ ai \in Nat /\ bi \in Nat
      /\ s[1] \in Nat /\ s[2] \in Nat /\ s[3] \in Nat
      /\ oi <= s[1] /\ ai <= s[2] /\ bi <= s[3]
  <2>1. /\ oi \in 0 .. Len(o) /\ ai \in 0 .. Len(a) /\ bi \in 0 .. Len(b)
        /\ Len(o) \in Nat /\ Len(a) \in Nat /\ Len(b) \in Nat
    BY DEF IInv, TypeOK
  <2>2. /\ s[1] \in oi .. Len(o) /\ s[2] \in ai .. Len(a) /\ s[3] \in bi .. Len(b)
    OBVIOUS
  <2> QED BY <2>1, <2>2
<1> DEFINE p == Place(o, y) q == Place(a, y) r == Place(b, y)
<1>3. /\ p \in Nat /\ q \in Nat /\ r \in Nat
      /\ \/ y = Start /\ p = 0 /\ q = 0 /\ r = 0
         \/ y \in Shared /\ p >= 1 /\ o[p] = y /\ q >= 1 /\ a[q] = y
                         /\ r >= 1 /\ b[r] = y
      /\ y \in Shared => (p <= oi <=> q <= ai) /\ (p <= oi <=> r <= bi)
  BY <1>1, PlaceCases
<1>4. /\ \A n \in oi + 1 .. s[1] : o[n] \notin Shared
      /\ \A n \in ai + 1 .. s[2] : a[n] \notin Shared
      /\ \A n \in bi + 1 .. s[3] : b[n] \notin Shared
  BY NoneBetween
<1>5. /\ \/ x = Start /\ oi = 0
         \/ oi >= 1 /\ o[oi] = x
  BY <1>1, PlaceCases DEF Behind
<1> HIDE DEF p, q, r
<1>6. DealtBy(y, oi, ai, bi) => DealtBy(y, s[1], s[2], s[3])
  <2>1. /\ p < oi => p < s[1]
        /\ q < ai => q < s[2]
        /\ r < bi => r < s[3]
    BY <1>2, <1>3
  <2> QED BY <2>1 DEF DealtBy, p, q, r
<1>7. ASSUME p >= oi PROVE ~(p < s[1] \/ q < s[2] \/ r < s[3])
  <2>1. p # oi
    BY <1>2, <1>3, <1>5
  <2>2. p > oi /\ y \in Shared /\ o[p] = y /\ a[q] = y /\ b[r] = y
    BY <1>2, <1>3, <1>7, <2>1
  <2>3. q > ai /\ r > bi
    BY <1>2, <1>3, <2>2
  <2>4. ~(p < s[1])
    BY <1>2, <1>3, <1>4, <2>2
  <2>5. ~(q < s[2])
    BY <1>2, <1>3, <1>4, <2>2, <2>3
  <2>6. ~(r < s[3])
    BY <1>2, <1>3, <1>4, <2>2, <2>3
  <2> QED BY <2>4, <2>5, <2>6
<1>8. p < oi => DealtBy(y, oi, ai, bi)
  BY DEF DealtBy, p
<1>9. DealtBy(y, s[1], s[2], s[3]) => DealtBy(y, oi, ai, bi)
  BY <1>2, <1>3, <1>7, <1>8 DEF DealtBy, p, q, r
<1> QED BY <1>6, <1>9

(* The chunk is in conflict just when the sides disagree behind it.        *)
LEMMA CutCounts ==
    ASSUME IInv, WalkInv, SetInv, Simple, pc = "cut",
           NEW x \in Starts, Behind(x),
           NEW s \in (oi .. Len(o)) \X (ai .. Len(a)) \X (bi .. Len(b)),
           IsNextSync(s),
           Cut(SubSeq(o, oi + 1, s[1]), SubSeq(a, ai + 1, s[2]),
               SubSeq(b, bi + 1, s[3])),
           conflicts = Cardinality(Disagreed(oi, ai, bi))
    PROVE  conflicts' = Cardinality(Disagreed(s[1], s[2], s[3]))
<1> DEFINE D == Disagreed(oi, ai, bi)
           E == Disagreed(s[1], s[2], s[3])
<1>1. /\ Segment(o, x) = SubSeq(o, oi + 1, s[1])
      /\ Segment(a, x) = SubSeq(a, ai + 1, s[2])
      /\ Segment(b, x) = SubSeq(b, bi + 1, s[3])
  BY ChunkIsSegment
<1>2. Disputed(SubSeq(o, oi + 1, s[1]), SubSeq(a, ai + 1, s[2]),
               SubSeq(b, bi + 1, s[3])) <=> Divergent(x)
  BY <1>1 DEF Disputed, Divergent
<1>3. x \notin D
  <2>1. oi \in Nat /\ ai \in Nat /\ bi \in Nat
    BY DEF IInv, TypeOK
  <2>2. ~DealtBy(x, oi, ai, bi)
    BY <2>1 DEF DealtBy, Behind
  <2> QED BY <2>2 DEF Disagreed
<1>4. \A y \in Starts : y # x => (y \in E <=> y \in D)
  BY OthersStay DEF Disagreed
<1>5. ASSUME Divergent(x) PROVE x \in E
  <2>1. /\ o \in Seq(Line) /\ a \in Seq(Line) /\ b \in Seq(Line)
        /\ oi \in 0 .. Len(o) /\ ai \in 0 .. Len(a) /\ bi \in 0 .. Len(b)
    BY DEF IInv, TypeOK
  <2>2. /\ s[1] \in oi .. Len(o) /\ s[2] \in ai .. Len(a) /\ s[3] \in bi .. Len(b)
    OBVIOUS
  <2>3. ASSUME s[1] = oi, s[2] = ai, s[3] = bi PROVE FALSE
    <3>1. /\ SubSeq(o, oi + 1, s[1]) = << >> /\ SubSeq(a, ai + 1, s[2]) = << >>
          /\ SubSeq(b, bi + 1, s[3]) = << >>
      BY <2>1, <2>3
    <3> QED BY <1>1, <1>5, <3>1 DEF Divergent
  <2>4. oi < s[1] \/ ai < s[2] \/ bi < s[3]
    BY <2>1, <2>2, <2>3
  <2> QED BY <1>5, <2>4 DEF Disagreed, DealtBy, Behind
<1>6. IsFiniteSet(D) /\ Cardinality(D) \in Nat
  <2>1. D \subseteq Starts /\ TypeOK
    BY DEF Disagreed, IInv
  <2> QED BY <2>1, StartsFinite, FS_CardinalityType
<1>7. D \subseteq Starts /\ E \subseteq Starts
  BY DEF Disagreed
<1>8. CASE Divergent(x)
  <2>1. conflicts' = conflicts + 1
    BY <1>2, <1>8 DEF Cut
  <2>2. E = D \cup {x}
    BY <1>4, <1>5, <1>7, <1>8
  <2>3. Cardinality(D \cup {x}) = Cardinality(D) + 1
    BY <1>3, <1>6, FS_AddElement
  <2> QED BY <2>1, <2>2, <2>3
<1>9. CASE ~Divergent(x)
  <2>1. conflicts' = conflicts
    BY <1>2, <1>9 DEF Cut
  <2>2. x \notin E
    BY <1>9 DEF Disagreed
  <2> HIDE DEF D, E
  <2>3. ASSUME NEW y \in D \cup E PROVE y \in D /\ y \in E
    <3>1. y \in Starts /\ y # x
      BY <1>3, <1>7, <2>2
    <3> QED BY <1>4, <3>1
  <2>4. E = D
    BY <2>3
  <2> QED BY <2>1, <2>4 DEF D, E
<1> QED BY <1>8, <1>9

(* Over a line the three texts share no place with something behind it is  *)
(* passed.                                                                 *)
LEMMA StableCounts ==
    ASSUME IInv, WalkInv, SetInv, Simple, pc = "cut", oi < Len(o), Stable
    PROVE  /\ Disagreed(oi + 1, ai + 1, bi + 1) = Disagreed(oi, ai, bi)
           /\ \E x \in Starts : /\ Place(o, x) = oi + 1
                                /\ Place(a, x) = ai + 1
                                /\ Place(b, x) = bi + 1
<1>1. /\ o \in Seq(Line) /\ a \in Seq(Line) /\ b \in Seq(Line)
      /\ Distinct(o) /\ Distinct(a) /\ Distinct(b)
      /\ DOMAIN o = 1 .. Len(o) /\ DOMAIN a = 1 .. Len(a) /\ DOMAIN b = 1 .. Len(b)
      /\ oi \in 0 .. Len(o) /\ ai \in 0 .. Len(a) /\ bi \in 0 .. Len(b)
      /\ oi \in Nat /\ ai \in Nat /\ bi \in Nat
  BY DEF IInv, TypeOK, Simple
<1>2. <<oi + 1, ai + 1>> \in ma /\ <<oi + 1, bi + 1>> \in mb
  BY DEF Stable
<1>3. /\ oi + 1 \in 1 .. Len(o) /\ ai + 1 \in 1 .. Len(a) /\ bi + 1 \in 1 .. Len(b)
      /\ o[oi + 1] = a[ai + 1] /\ o[oi + 1] = b[bi + 1]
  <2>1. /\ oi + 1 \in 1 .. Len(o) /\ ai + 1 \in 1 .. Len(a)
        /\ bi + 1 \in 1 .. Len(b)
    BY <1>2 DEF IInv, TypeOK
  <2> QED BY <1>2, <2>1 DEF IInv, MatchInv
<1>4. o[oi + 1] \in Shared /\ a[ai + 1] \in Shared /\ b[bi + 1] \in Shared
  BY <1>1, <1>3 DEF Shared, LinesOf
<1>5. \E x \in Starts : /\ Place(o, x) = oi + 1
                        /\ Place(a, x) = ai + 1
                        /\ Place(b, x) = bi + 1
  <2>1. /\ Place(o, o[oi + 1]) = oi + 1 /\ Place(a, a[ai + 1]) = ai + 1
        /\ Place(b, b[bi + 1]) = bi + 1
    BY <1>1, <1>3, PlaceIs
  <2> QED BY <1>3, <1>4, <2>1 DEF Starts
<1>6. ASSUME NEW y \in Starts, DealtBy(y, oi + 1, ai + 1, bi + 1),
             ~DealtBy(y, oi, ai, bi)
      PROVE  ~Divergent(y)
  <2> DEFINE p == Place(o, y) q == Place(a, y) r == Place(b, y)
  <2>1. WasSplit
    BY DEF IInv, EndInv
  <2>2. /\ p \in Nat /\ q \in Nat /\ r \in Nat
        /\ \/ p = 0 /\ q = 0 /\ r = 0
           \/ (p <= oi <=> q <= ai) /\ (p <= oi <=> r <= bi)
    BY <2>1, PlaceCases
  <2>3. /\ ~(p < oi) /\ ~(q < ai) /\ ~(r < bi)
        /\ p < oi + 1 \/ q < ai + 1 \/ r < bi + 1
    BY <1>6 DEF DealtBy
  <2> HIDE DEF p, q, r
  <2>4. p = oi /\ q = ai /\ r = bi
    BY <1>1, <2>2, <2>3
  <2>5. /\ oi \in oi .. Len(o) /\ ai \in ai .. Len(a) /\ bi \in bi .. Len(b)
        /\ oi + 1 .. oi = {} /\ ai + 1 .. ai = {} /\ bi + 1 .. bi = {}
    BY <1>1
  <2>6. Segment(o, y) = SubSeq(o, oi + 1, oi)
    BY <1>1, <1>4, <2>4, <2>5, SegmentIs DEF p
  <2>7. Segment(a, y) = SubSeq(a, ai + 1, ai)
    BY <1>1, <1>4, <2>4, <2>5, SegmentIs DEF q
  <2>8. SubSeq(o, oi + 1, oi) = << >> /\ SubSeq(a, ai + 1, ai) = << >>
    BY <1>1
  <2> QED BY <2>6, <2>7, <2>8 DEF Divergent
<1>7. ASSUME NEW y, DealtBy(y, oi, ai, bi), y \in Starts
      PROVE  DealtBy(y, oi + 1, ai + 1, bi + 1)
  <2>1. WasSplit
    BY DEF IInv, EndInv
  <2>2. Place(o, y) \in Nat /\ Place(a, y) \in Nat /\ Place(b, y) \in Nat
    BY <1>7, <2>1, PlaceCases
  <2> QED BY <1>1, <1>7, <2>2 DEF DealtBy
<1>8. Disagreed(oi + 1, ai + 1, bi + 1) = Disagreed(oi, ai, bi)
  BY <1>6, <1>7 DEF Disagreed
<1> QED BY <1>5, <1>8

(* At the end every place at which the sides disagree has been dealt with. *)
LEMMA EndCounts ==
    ASSUME IInv, SetInv, WasSplit, Simple, AtEnds
    PROVE  Disagreed(oi, ai, bi) = { x \in Starts : Divergent(x) }
<1>1. /\ o \in Seq(Line) /\ a \in Seq(Line)
      /\ Len(o) \in Nat /\ Len(a) \in Nat /\ Len(b) \in Nat
  BY DEF IInv, TypeOK
<1>2. ASSUME NEW x \in Starts, ~DealtBy(x, oi, ai, bi)
      PROVE  ~Divergent(x)
  <2>1. Place(o, x) \in 0 .. Len(o) /\ Place(a, x) \in 0 .. Len(a)
    BY PlaceCases
  <2>2. Place(o, x) = Len(o) /\ Place(a, x) = Len(a)
    BY <1>1, <1>2, <2>1 DEF DealtBy, AtEnds
  <2>3. Segment(o, x) = SubSeq(o, Len(o) + 1, Len(o))
    <3>1. Len(o) \in 0 .. Len(o) /\ Len(o) \in Len(o) .. Len(o)
      BY <1>1
    <3>2. \A n \in Len(o) + 1 .. Len(o) : o[n] \notin Shared
      BY <1>1
    <3> QED BY <1>1, <2>2, <3>1, <3>2, SegmentIs
  <2>4. Segment(a, x) = SubSeq(a, Len(a) + 1, Len(a))
    <3>1. Len(a) \in 0 .. Len(a) /\ Len(a) \in Len(a) .. Len(a)
      BY <1>1
    <3>2. \A n \in Len(a) + 1 .. Len(a) : a[n] \notin Shared
      BY <1>1
    <3> QED BY <1>1, <2>2, <3>1, <3>2, SegmentIs
  <2>5. /\ SubSeq(o, Len(o) + 1, Len(o)) = << >>
        /\ SubSeq(a, Len(a) + 1, Len(a)) = << >>
    BY <1>1
  <2> QED BY <2>3, <2>4, <2>5 DEF Divergent
<1> QED BY <1>2 DEF Disagreed

LEMMA NoneAtStart ==
    ASSUME TypeOK, Simple
    PROVE  /\ Cardinality(Disagreed(0, 0, 0)) = 0
           /\ oi = 0 /\ ai = 0 /\ bi = 0 => Behind(Start) /\ Start \in Starts
<1>1. ASSUME NEW x \in Starts PROVE ~DealtBy(x, 0, 0, 0)
  <2>1. Place(o, x) \in Nat /\ Place(a, x) \in Nat /\ Place(b, x) \in Nat
    <3>1. CASE x = Start
      BY <3>1 DEF Place
    <3>2. CASE x \in Shared
      <4>1. Len(o) \in Nat /\ Len(a) \in Nat /\ Len(b) \in Nat
        BY DEF TypeOK
      <4> QED BY <3>2, <4>1, SharedPlaces
    <3> QED BY <3>1, <3>2 DEF Starts
  <2> QED BY <2>1 DEF DealtBy
<1>2. Disagreed(0, 0, 0) = {}
  BY <1>1 DEF Disagreed
<1> QED BY <1>2, FS_EmptySet DEF Behind, Place, Starts

LEMMA InitConflictInv == Init => ConflictInv
<1> SUFFICES ASSUME Init, Simple PROVE ConflictInv
  BY DEF ConflictInv
<1>1. TypeOK
  BY InitIInv DEF IInv
<1> QED BY <1>1, NoneAtStart DEF Init, ConflictInv, Done

(* The texts stay, and with them the places and what lies behind them.     *)
LEMMA DisagreedStays ==
    ASSUME UNCHANGED <<o, a, b>>
    PROVE  /\ Starts' = Starts
           /\ \A x : /\ Place(o, x)' = Place(o, x) /\ Place(a, x)' = Place(a, x)
                     /\ Place(b, x)' = Place(b, x)
           /\ \A x : Divergent(x)' <=> Divergent(x)
           /\ Disagreed(oi, ai, bi)' = Disagreed(oi', ai', bi')
<1>1. Shared' = Shared /\ Starts' = Starts
  BY DEF Starts, Shared, LinesOf
<1>2. ASSUME NEW x
      PROVE  /\ Place(o, x)' = Place(o, x) /\ Place(a, x)' = Place(a, x)
             /\ Place(b, x)' = Place(b, x)
  BY DEF Place
<1>3. ASSUME NEW x PROVE Segment(o, x)' = Segment(o, x)
  BY <1>1, <1>2 DEF Segment
<1>4. ASSUME NEW x PROVE Segment(a, x)' = Segment(a, x)
  BY <1>1, <1>2 DEF Segment
<1>5. ASSUME NEW x PROVE Segment(b, x)' = Segment(b, x)
  BY <1>1, <1>2 DEF Segment
<1>6. \A x : Divergent(x)' <=> Divergent(x)
  BY <1>3, <1>4, <1>5 DEF Divergent
<1>7. \A x : DealtBy(x, oi, ai, bi)' <=> DealtBy(x, oi', ai', bi')
  BY <1>2 DEF DealtBy
<1>8. Disagreed(oi, ai, bi)' = Disagreed(oi', ai', bi')
  BY <1>1, <1>6, <1>7 DEF Disagreed
<1> QED BY <1>1, <1>2, <1>6, <1>8

LEMMA NextConflictInv ==
    IInv /\ WalkInv /\ SetInv /\ ConflictInv /\ [Next]_vars => ConflictInv'
<1> SUFFICES ASSUME IInv, WalkInv, SetInv, ConflictInv, [Next]_vars
             PROVE  ConflictInv'
  OBVIOUS
<1>1. UNCHANGED <<o, a, b>>
  BY DEF Next, ShortCircuit, Split, MatchOurs, MatchTheirs, CutStable,
         CutUnstable, CutTrailing, texts, vars
<1> DEFINE Goal ==
      /\ pc' = "done" /\ ~WasSplit => conflicts' = 0
      /\ pc' \in {"compare", "matchOurs", "matchTheirs"} =>
           oi' = 0 /\ ai' = 0 /\ bi' = 0 /\ conflicts' = 0
      /\ pc' = "cut" =>
           \/ oi' = Len(o) /\ ai' = Len(a) /\ bi' = Len(b)
           \/ oi' < Len(o) /\ <<oi' + 1, ai' + 1>> \in ma'
                           /\ <<oi' + 1, bi' + 1>> \in mb'
           \/ \E x \in Starts :
                Place(o, x) = oi' /\ Place(a, x) = ai' /\ Place(b, x) = bi'
      /\ WasSplit => conflicts' = Cardinality(Disagreed(oi', ai', bi'))
<1>2. SUFFICES ASSUME Simple PROVE Goal
  <2>1. Simple' <=> Simple
    BY <1>1, SimpleStays
  <2>2. WasSplit' <=> WasSplit
    BY <1>1 DEF WasSplit
  <2>3. /\ Starts' = Starts
        /\ \A x : /\ Place(o, x)' = Place(o, x) /\ Place(a, x)' = Place(a, x)
                  /\ Place(b, x)' = Place(b, x)
        /\ Disagreed(oi, ai, bi)' = Disagreed(oi', ai', bi')
    BY <1>1, DisagreedStays
  <2>4. \A x : Behind(x)' <=>
          Place(o, x) = oi' /\ Place(a, x) = ai' /\ Place(b, x) = bi'
    BY <2>3 DEF Behind
  <2>5. Stable' <=> <<oi' + 1, ai' + 1>> \in ma' /\ <<oi' + 1, bi' + 1>> \in mb'
    BY DEF Stable
  <2>6. AtEnds' <=> oi' = Len(o) /\ ai' = Len(a) /\ bi' = Len(b)
    BY <1>1 DEF AtEnds
  <2>7. ASSUME Simple PROVE Goal
    BY <1>2, <2>7
  <2>8. Simple =>
          /\ Done' /\ ~WasSplit' => conflicts' = 0
          /\ pc' \in {"compare", "matchOurs", "matchTheirs"} =>
               oi' = 0 /\ ai' = 0 /\ bi' = 0 /\ conflicts' = 0
          /\ pc' = "cut" =>
               AtEnds' \/ (oi' < Len(o') /\ Stable') \/ \E x \in Starts' : Behind(x)'
          /\ WasSplit' => conflicts' = Cardinality(Disagreed(oi, ai, bi)')
    BY <1>1, <2>2, <2>3, <2>4, <2>5, <2>6, <2>7 DEF Done
  <2> QED BY <2>1, <2>8 DEF ConflictInv
<1>3. /\ Done /\ ~WasSplit => conflicts = 0
      /\ pc \in {"compare", "matchOurs", "matchTheirs"} =>
           oi = 0 /\ ai = 0 /\ bi = 0 /\ conflicts = 0
      /\ pc = "cut" =>
           AtEnds \/ (oi < Len(o) /\ Stable) \/ \E x \in Starts : Behind(x)
      /\ WasSplit => conflicts = Cardinality(Disagreed(oi, ai, bi))
  BY <1>2 DEF ConflictInv
<1>4. TypeOK /\ (pc = "cut" => WasSplit)
  BY DEF IInv, EndInv
<1>5. CASE ShortCircuit
  <2>1. pc = "compare" /\ pc' = "done" /\ conflicts' = conflicts /\ ~WasSplit
    BY <1>5 DEF ShortCircuit, WasSplit
  <2> QED BY <1>3, <2>1
<1>6. CASE Split \/ MatchOurs \/ MatchTheirs
  <2>1. /\ UNCHANGED <<oi, ai, bi, conflicts>>
        /\ pc \in {"compare", "matchOurs", "matchTheirs"} /\ pc' # "done"
    BY <1>6 DEF Split, MatchOurs, MatchTheirs, cursors, result
  <2>2. Behind(Start) /\ Start \in Starts
    BY <1>2, <1>3, <1>4, <2>1, NoneAtStart
  <2>3. \E x \in Starts :
          Place(o, x) = oi' /\ Place(a, x) = ai' /\ Place(b, x) = bi'
    BY <2>1, <2>2 DEF Behind
  <2> QED BY <1>3, <2>1, <2>3
<1>7. CASE CutStable
  <2>1. /\ pc = "cut" /\ pc' = "cut" /\ oi < Len(o) /\ Stable
        /\ oi' = oi + 1 /\ ai' = ai + 1 /\ bi' = bi + 1 /\ conflicts' = conflicts
    BY <1>7 DEF CutStable
  <2>2. /\ Disagreed(oi + 1, ai + 1, bi + 1) = Disagreed(oi, ai, bi)
        /\ \E x \in Starts : /\ Place(o, x) = oi + 1
                             /\ Place(a, x) = ai + 1
                             /\ Place(b, x) = bi + 1
    BY <1>2, <2>1, StableCounts
  <2> QED BY <1>3, <1>4, <2>1, <2>2
<1>8. CASE CutUnstable
  <2>1. PICK s \in (oi .. Len(o)) \X (ai .. Len(a)) \X (bi .. Len(b)) :
          /\ IsNextSync(s)
          /\ Cut(SubSeq(o, oi + 1, s[1]), SubSeq(a, ai + 1, s[2]),
                 SubSeq(b, bi + 1, s[3]))
          /\ oi' = s[1] /\ ai' = s[2] /\ bi' = s[3]
    BY <1>8 DEF CutUnstable
  <2>2. pc = "cut" /\ pc' = "cut" /\ oi < Len(o) /\ ~Stable /\ ma' = ma /\ mb' = mb
    BY <1>8 DEF CutUnstable
  <2>3. PICK x \in Starts : Behind(x)
    <3>1. oi # Len(o)
      BY <1>4, <2>2 DEF TypeOK
    <3> QED BY <1>3, <2>2, <3>1 DEF AtEnds
  <2>4. conflicts' = Cardinality(Disagreed(s[1], s[2], s[3]))
    BY <1>2, <1>3, <1>4, <2>1, <2>2, <2>3, CutCounts
  <2>5. \/ s[1] = Len(o) /\ s[2] = Len(a) /\ s[3] = Len(b)
        \/ s[1] < Len(o) /\ <<s[1] + 1, s[2] + 1>> \in ma
                         /\ <<s[1] + 1, s[3] + 1>> \in mb
    <3>1. CASE SyncPoints = {}
      BY <2>1, <3>1 DEF IsNextSync
    <3>2. CASE SyncPoints # {}
      <4>1. s \in SyncPoints
        BY <2>1, <3>2 DEF IsNextSync
      <4>2. s[1] \in oi .. Len(o) - 1 /\ oi \in Nat /\ Len(o) \in Nat
        BY <1>4, <4>1 DEF SyncPoints, TypeOK
      <4> QED BY <4>1, <4>2 DEF SyncPoints
    <3> QED BY <3>1, <3>2
  <2> QED BY <1>4, <2>1, <2>2, <2>4, <2>5
<1>9. CASE CutTrailing
  <2>1. pc = "cut" /\ pc' = "done" /\ oi' = oi /\ oi = Len(o) /\ WasSplit
    BY <1>4, <1>9 DEF CutTrailing
  <2>2. /\ Len(o) \in Nat /\ Len(a) \in Nat /\ Len(b) \in Nat
        /\ ai \in 0 .. Len(a) /\ bi \in 0 .. Len(b)
    BY <1>4 DEF TypeOK
  <2>3. CASE Trailing
    <3>1. /\ Cut(<< >>, SubSeq(a, ai + 1, Len(a)), SubSeq(b, bi + 1, Len(b)))
          /\ ai' = Len(a) /\ bi' = Len(b)
      BY <1>9, <2>3 DEF CutTrailing
    <3>2. PICK x \in Starts : Behind(x)
      <4>1. ~AtEnds /\ ~(oi < Len(o))
        BY <2>1, <2>2, <2>3 DEF AtEnds, Trailing
      <4> QED BY <1>3, <2>1, <4>1
    <3> DEFINE s == <<Len(o), Len(a), Len(b)>>
    <3>3. s \in (oi .. Len(o)) \X (ai .. Len(a)) \X (bi .. Len(b))
      BY <2>1, <2>2
    <3>4. s[1] = Len(o) /\ s[2] = Len(a) /\ s[3] = Len(b)
      OBVIOUS
    <3>5. IsNextSync(s)
      <4>1. oi .. Len(o) - 1 = {}
        BY <2>1, <2>2
      <4>2. SyncPoints = {}
        BY <4>1 DEF SyncPoints
      <4> QED BY <4>2 DEF IsNextSync
    <3>6. SubSeq(o, oi + 1, s[1]) = << >>
      BY <1>4, <2>1 DEF TypeOK
    <3> HIDE DEF s
    <3>7. Cut(SubSeq(o, oi + 1, s[1]), SubSeq(a, ai + 1, s[2]),
              SubSeq(b, bi + 1, s[3]))
      BY <3>1, <3>4, <3>6
    <3>8. conflicts' = Cardinality(Disagreed(s[1], s[2], s[3]))
      BY <1>2, <1>3, <2>1, <3>2, <3>3, <3>5, <3>7, CutCounts
    <3> QED BY <2>1, <3>1, <3>4, <3>8
  <2>4. CASE ~Trailing
    <3>1. UNCHANGED <<ai, bi, conflicts>>
      BY <1>9, <2>4 DEF CutTrailing, result
    <3> QED BY <1>3, <2>1, <3>1
  <2> QED BY <2>3, <2>4
<1>10. CASE UNCHANGED vars
  <2>1. UNCHANGED <<pc, oi, ai, bi, ma, mb, conflicts>>
    BY <1>10 DEF vars
  <2> QED BY <1>3, <2>1 DEF Done, AtEnds, Stable, Behind
<1> QED BY <1>5, <1>6, <1>7, <1>8, <1>9, <1>10 DEF Next

(* What the count says at the end; a text that was taken whole leaves no   *)
(* two sides to disagree.                                                  *)
LEMMA ConflictsAtEnd == IInv /\ SetInv /\ ConflictInv => ConflictsAreDivergent
<1> SUFFICES ASSUME IInv, SetInv, ConflictInv, Done, Simple
             PROVE  conflicts = Cardinality({ x \in Starts : Divergent(x) })
  BY DEF ConflictsAreDivergent, Starts, Divergent
<1>1. CASE WasSplit
  <2>1. AtEnds
    BY <1>1 DEF IInv, EndInv, NothingSkipped, AtEnds
  <2>2. conflicts = Cardinality(Disagreed(oi, ai, bi))
    BY <1>1 DEF ConflictInv
  <2> QED BY <1>1, <2>1, <2>2, EndCounts
<1>2. CASE ~WasSplit
  <2>1. conflicts = 0
    BY <1>2 DEF ConflictInv
  <2>2. { x \in Starts : Divergent(x) } = {}
    BY <1>2 DEF WasSplit, Divergent
  <2> QED BY <2>1, <2>2, FS_EmptySet
<1> QED BY <1>1, <1>2

SimpleInv == IInv /\ TallyInv /\ WalkInv /\ SetInv /\ ConflictInv

LEMMA SimpleInvHolds == Spec => []SimpleInv
<1>1. Init => SimpleInv
  BY InitIInv, InitTallyInv, InitWalkInv, InitSetInv, InitConflictInv DEF SimpleInv
<1>2. SimpleInv /\ [Next]_vars => SimpleInv'
  BY NextIInv, NextTallyInv, NextWalkInv, NextSetInv, NextConflictInv DEF SimpleInv
<1> QED BY <1>1, <1>2, PTL DEF Spec

-----------------------------------------------------------------------------
(* Type correctness: the cursors stay within the texts they cut, and the   *)
(* pairs matchIndex finds point into them.                                 *)
THEOREM MergeTypeCorrect == Spec => []TypeOK
<1>1. IInv => TypeOK
  BY DEF IInv
<1> QED BY <1>1, IInvHolds, PTL

(* diff3Chunks leaves no line of any of the three texts uncut.             *)
THEOREM ChunksCover == Spec => []NothingSkipped
<1>1. IInv => NothingSkipped
  BY DEF IInv, EndInv
<1> QED BY <1>1, IInvHolds, PTL

(* The merge of three texts is a text, with or without conflicts: no line  *)
(* is glued to the one that follows it.                                    *)
THEOREM MergeGivesText == Spec => []MergedIsText
<1>1. IInv => MergedIsText
  BY DEF IInv, JoinInv, MergedIsText
<1> QED BY <1>1, IInvHolds, PTL

(* A merge without conflicts loses no line that ours or theirs has added,  *)
(* and writes none of them more often than the two sides did together.     *)
THEOREM AddedLinesKept == Spec => []AddedLinesSurvive
BY TallyHolds, TallyGivesLines, PTL

(* Between texts that repeat no line and in which no side has moved lines  *)
(* of the base past each other, a merge without conflicts is the merge of  *)
(* the sets of their lines.                                                *)
THEOREM MergeIsOfSets == Spec => []MergesLikeSets
<1>1. SimpleInv => MergesLikeSets
  BY SetsAtEnd DEF SimpleInv
<1> QED BY <1>1, SimpleInvHolds, PTL

(* Between such texts there is a conflict at each place, between lines all *)
(* three share, at which both sides changed the base differently, and at   *)
(* no other.                                                               *)
THEOREM ConflictsWhereDivergent == Spec => []ConflictsAreDivergent
<1>1. SimpleInv => ConflictsAreDivergent
  BY ConflictsAtEnd DEF SimpleInv
<1> QED BY <1>1, SimpleInvHolds, PTL

=============================================================================
