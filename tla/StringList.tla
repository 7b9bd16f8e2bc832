----------------------------- MODULE StringList -----------------------------
(***************************************************************************)
(* The calls a user makes on one string list, with allocation failures.    *)
(***************************************************************************)
EXTENDS StringLists

CONSTANT MaxCount \* bound: names in the list

ASSUME CountBound == MaxCount \in Nat

VARIABLES
  list,  \* the struct stringlist_t
  reply  \* the last call and its answer

vars == <<list, reply>>

Reply(op, x, answer) == [op |-> op, arg |-> x, answer |-> answer]

Init ==
  /\ list = stringlist_new
  /\ reply = [op |-> "new", arg |-> "", answer |-> TRUE]

Insert(x) ==
  /\ Len(list.strings) < MaxCount
  /\ list' = stringlist_insert(list, x)
  /\ reply' = Reply("insert", x, TRUE)

(* strdup or realloc failed.                                               *)
InsertFails(x) ==
  /\ reply' = Reply("insert", x, FALSE)
  /\ UNCHANGED list

Sort ==
  /\ list' \in stringlist_sort(list)
  /\ UNCHANGED reply

Search(x) ==
  \E outcome \in stringlist_contains(list, x) :
    /\ list' = outcome.list
    /\ reply' = Reply("contains", x, outcome.found)

Next ==
  \/ Sort
  \/ \E x \in Names : Insert(x) \/ InsertFails(x) \/ Search(x)

Spec == Init /\ [][Next]_vars

-----------------------------------------------------------------------------
TypeOK ==
  /\ list \in Lists
  /\ reply \in [op : {"new", "insert", "contains"}, arg : Names \cup {""},
                answer : BOOLEAN]

(* The flag claims order only of an ordered array, through every mix of    *)
(* inserts, sorts and lazily sorting searches: stringlist_contains skips   *)
(* the sort on its word.                                                   *)
SortedFlagHonest == list.sorted => InOrder(list.strings)

(* Neither sorting nor searching loses, duplicates or invents a name, and  *)
(* every answer is the bag's answer.                                       *)
Bag == INSTANCE NameBag WITH
  Elements <- Names,
  bag <- [x \in Names |-> CountOf(list.strings, x)]

ImplementsBag == Bag!Spec
=============================================================================
