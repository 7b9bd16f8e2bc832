----------------------------- MODULE StringLists -----------------------------
(***************************************************************************)
(* The growable list of stringlist.c: an array of names and a flag that    *)
(* says whether the array is in strcmp order.  stringlist_contains sorts   *)
(* the array in place before it searches, so a reader of the array sees    *)
(* its elements move.                                                      *)
(*                                                                         *)
(* qsort and bsearch are the C library's, given by their contracts: qsort  *)
(* leaves some sorted rearrangement, bsearch is right about a sorted array *)
(* and may miss an element of any other.                                   *)
(***************************************************************************)
EXTENDS Paths, FiniteSets

Lists == [strings : Seq(Names), sorted : BOOLEAN]

Holds(s, x) == \E i \in 1 .. Len(s) : s[i] = x

(* How often a list has a name.                                            *)
CountOf(s, x) == Cardinality({i \in 1 .. Len(s) : s[i] = x})

InOrder(s) == \A i, j \in 1 .. Len(s) : i < j => Rank[s[i]] <= Rank[s[j]]

(* The rearrangements of n places, with what a proof needs to know of them *)
(* spelled out, for the provers do not know Permutations.                  *)
Shuffles(n) ==
  {f \in Permutations(1 .. n) :
     f \in [1 .. n -> 1 .. n] /\ \A i, j \in 1 .. n : f[i] = f[j] => i = j}

qsort(s) ==
  {t \in {[i \in 1 .. Len(s) |-> s[f[i]]] : f \in Shuffles(Len(s))} : InOrder(t)}

bsearch(s, x) ==
  {found \in BOOLEAN : /\ found => Holds(s, x)
                       /\ InOrder(s) /\ Holds(s, x) => found}

-----------------------------------------------------------------------------
stringlist_new == [strings |-> <<>>, sorted |-> TRUE]

stringlist_insert_Mut(list, x) == [list EXCEPT !.strings = Append(@, x)]

stringlist_insert(list, x) ==
  [strings |-> Append(list.strings, x), sorted |-> FALSE]

(* The lists stringlist_sort may leave.                                    *)
stringlist_sort(list) ==
  IF list.strings = <<>> THEN {list}
  ELSE {[strings |-> s, sorted |-> TRUE] : s \in qsort(list.strings)}

(* The lists and answers stringlist_contains may leave.                    *)
stringlist_contains_Mut(list, x) ==
  {[list |-> list, found |-> b] : b \in bsearch(list.strings, x)}

stringlist_contains(list, x) ==
  IF list.strings = <<>> THEN {[list |-> list, found |-> FALSE]}
  ELSE UNION {{[list |-> l, found |-> b] : b \in bsearch(l.strings, x)} :
                 l \in IF list.sorted THEN {list} ELSE stringlist_sort(list)}
=============================================================================
