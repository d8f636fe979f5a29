------------------------------ MODULE Filter ------------------------------
(***************************************************************************)
(* Which paths a job covers (internal/filter/filter.go).                   *)
(*                                                                         *)
(* A path is the sequence of its names.  A pattern is the sequence of what *)
(* lies between its slashes: the set of the names a glob without a slash   *)
(* stands for, or Deep for `**`.  globToRegex and the regular expression   *)
(* it makes are modelled by what they match.                               *)
(***************************************************************************)
EXTENDS Naturals, Sequences

CONSTANT Deep       \* `**` between two slashes, or at an end of the pattern

(* Mutant: `**/` stands for at least one name, so that a directory at the  *)
(* root of the job escapes it.                                             *)
PassOverSome(j, path) == j + 1 .. Len(path) + 1

(* `**/` passes over any number of names, none included.                   *)
PassOver(j, path) == j .. Len(path) + 1

(* globToRegex: m[<<i, j>>] says that the pattern from its ith part on     *)
(* matches the path from its jth name on.                                  *)
MatchesWhole(pattern, path) ==
    LET m[c \in (1 .. Len(pattern) + 1) \X (1 .. Len(path) + 1)] ==
          LET i == c[1]
              j == c[2]
          IN  IF i > Len(pattern) THEN j > Len(path)
              ELSE IF pattern[i] # Deep
                   THEN /\ j <= Len(path) /\ path[j] \in pattern[i]
                        /\ m[<<i + 1, j + 1>>]
              ELSE IF i = Len(pattern) THEN j <= Len(path)
              ELSE \E k \in PassOver(j, path) : m[<<i + 1, k>>]
    IN  m[<<1, 1>>]

Base(path) == path[Len(path)]

(* matcher.match: a pattern without a slash looks at the last name only.   *)
Matches(pattern, path) ==
    IF Len(pattern) = 1
    THEN pattern[1] = Deep \/ Base(path) \in pattern[1]
    ELSE MatchesWhole(pattern, path)

(* Matcher.Match.  The rules, if there are any, are read to the end and    *)
(* the last one that matches decides; otherwise some include, if there are *)
(* any, must match and no exclude may.                                     *)
LastMatch(rules, path) ==
    { n \in DOMAIN rules :
        /\ Matches(rules[n].pattern, path)
        /\ \A k \in n + 1 .. Len(rules) : ~Matches(rules[k].pattern, path) }

Covers(filter, path) ==
    IF filter.rules # << >>
    THEN \A n \in LastMatch(filter.rules, path) : filter.rules[n].include
    ELSE /\ filter.include # {} =>
              \E pattern \in filter.include : Matches(pattern, path)
         /\ \A pattern \in filter.exclude : ~Matches(pattern, path)
=============================================================================
