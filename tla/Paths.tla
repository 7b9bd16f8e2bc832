------------------------------- MODULE Paths -------------------------------
(***************************************************************************)
(* The path functions of strings.c.                                        *)
(*                                                                         *)
(* A C string holding a path is a sequence of tokens: the '/' character,   *)
(* and one token per run of other characters.  "." and ".." are tokens of  *)
(* their own; the remaining runs are the file names, split into those that *)
(* start with a '.' (HiddenNames) and those that do not (PlainNames).  Two *)
(* neighbouring runs would be one run, hence IsPath.  The length of a path *)
(* is its number of tokens.                                                *)
(***************************************************************************)
EXTENDS Integers, Sequences, SequencesExt, FiniteSets

CONSTANTS
  PlainNames,   \* file names not starting with a dot
  HiddenNames,  \* file names starting with a dot, other than "." and ".."
  Rank,         \* position of each token in strcmp order
  NULL          \* the null pointer

Slash  == "/"
Dot    == "."
DotDot == ".."

Names  == PlainNames \cup HiddenNames
Tokens == {Slash, Dot, DotDot} \cup Names

ASSUME NamesAssumption ==
  /\ Names \cap {Slash, Dot, DotDot} = {}
  /\ PlainNames \cap HiddenNames = {}
  /\ \A t \in Tokens : t # ""

ASSUME RankAssumption ==
  /\ Rank \in [Tokens -> Nat]
  /\ \A s, t \in Tokens : Rank[s] = Rank[t] => s = t

ASSUME NullAssumption == NULL \notin Seq(Tokens) \cup Nat

IsPath(p) ==
  /\ p \in Seq(Tokens)
  /\ \A i \in 1 .. Len(p) - 1 : p[i] = Slash \/ p[i + 1] = Slash

(***************************************************************************)
(* strcmp(p, q) < 0, for names none of which is a proper prefix of another *)
(***************************************************************************)
PathBefore(p, q) ==
  \E k \in 0 .. Len(p) :
    /\ k < Len(q)
    /\ \A i \in 1 .. k : p[i] = q[i]
    /\ k < Len(p) => Rank[p[k + 1]] < Rank[q[k + 1]]

(* The k-th of some places of a path, from the left.                       *)
Nth(places, k) ==
  CHOOSE i \in places : Cardinality({j \in places : j <= i}) = k

-----------------------------------------------------------------------------
is_absolute_path(p) == Len(p) > 0 /\ p[1] = Slash

(***************************************************************************)
(* pathcmp drops one trailing slash of either argument, not all of them;   *)
(* truncate_trailing_slash drops all of them.                              *)
(***************************************************************************)
DropOneSlash_Mut(p) == p

DropOneSlash(p) ==
  IF Len(p) > 0 /\ p[Len(p)] = Slash THEN SubSeq(p, 1, Len(p) - 1) ELSE p

pathcmp(p, q) == DropOneSlash(p) = DropOneSlash(q)

truncate_trailing_slash(p) ==
  LET n == CHOOSE n \in 0 .. Len(p) :
             /\ n = 0 \/ p[n] # Slash
             /\ \A k \in n + 1 .. Len(p) : p[k] = Slash
  IN  SubSeq(p, 1, n)

(***************************************************************************)
(* path_split calls its callback at every slash and at the end of the      *)
(* path.  At the slash at position i the callback sees the string cut off  *)
(* before the slash, except that the leading slash is kept.                *)
(***************************************************************************)
IsCut(p, i) == p[i] = Slash \/ i = Len(p)

CutPath_Mut(p, i) == SubSeq(p, 1, i)

CutPath(p, i) ==
  IF p[i] = Slash /\ i # 1 THEN SubSeq(p, 1, i - 1) ELSE SubSeq(p, 1, i)

(* j is where path_split, having come to position i, calls back next.      *)
NextCut(p, i, j) ==
  /\ j \in i .. Len(p)
  /\ IsCut(p, j)
  /\ \A k \in i .. j - 1 : ~IsCut(p, k)

path_split(p) ==
  LET cuts == {i \in 1 .. Len(p) : IsCut(p, i)}
  IN  [k \in 1 .. Cardinality(cuts) |->
         [path |-> CutPath(p, Nth(cuts, k)), is_full_path |-> Nth(cuts, k) = Len(p)]]

-----------------------------------------------------------------------------
(***************************************************************************)
(* One token of sanitize_absolute_path: r is the result built so far.      *)
(* ".." cuts r back to its last slash and removes that slash as well,      *)
(* unless it is the leading one.                                           *)
(***************************************************************************)
Backtrack_Mut(r) == SubSeq(r, 1, SelectLastInSeq(r, LAMBDA t : t = Slash) - 1)

Backtrack(r) ==
  LET k == SelectLastInSeq(r, LAMBDA t : t = Slash)
  IN  SubSeq(r, 1, IF k = 1 THEN 1 ELSE k - 1)

SanitizeToken(r, t) ==
  CASE t \in {Slash, Dot}  -> r
    [] t = DotDot          -> Backtrack(r)
    [] OTHER               -> IF Last(r) = Slash THEN Append(r, t) ELSE r \o <<Slash, t>>

sanitize_absolute_path(p) ==
  IF is_absolute_path(p) THEN FoldLeft(SanitizeToken, <<Slash>>, p) ELSE NULL

sanitize_path_Mut(cwd, p) ==
  sanitize_absolute_path(IF is_absolute_path(p) THEN p ELSE cwd \o p)

sanitize_path(cwd, p) ==
  sanitize_absolute_path(IF is_absolute_path(p) THEN p ELSE cwd \o <<Slash>> \o p)

(***************************************************************************)
(* Every name follows a slash or starts the path, so one that begins with  *)
(* a dot makes the path hidden.                                            *)
(***************************************************************************)
path_contains_hidden_Mut(p) == Last(p) \in HiddenNames \cup {Dot, DotDot}

path_contains_hidden(p) ==
  \E i \in 1 .. Len(p) : p[i] \in HiddenNames \cup {Dot, DotDot}

const_basename(p) == IF Last(p) = Slash THEN "" ELSE Last(p)
=============================================================================
