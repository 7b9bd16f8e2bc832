------------------------------- MODULE NameBag -------------------------------
(***************************************************************************)
(* What a string list promises its users: a bag of names that only grows,  *)
(* and membership questions answered from it.                              *)
(***************************************************************************)
EXTENDS Naturals

CONSTANT Elements

VARIABLES
  bag,   \* how often each name is in the list
  reply  \* the last call and its answer

vars == <<bag, reply>>

Reply(op, x, answer) == [op |-> op, arg |-> x, answer |-> answer]

Init ==
  /\ bag = [x \in Elements |-> 0]
  /\ reply = [op |-> "new", arg |-> "", answer |-> TRUE]

Insert(x) ==
  /\ bag' = [bag EXCEPT ![x] = @ + 1]
  /\ reply' = Reply("insert", x, TRUE)

Refuse(x) ==
  /\ reply' = Reply("insert", x, FALSE)
  /\ UNCHANGED bag

Ask(x) ==
  /\ reply' = Reply("contains", x, bag[x] > 0)
  /\ UNCHANGED bag

Next == \E x \in Elements : Insert(x) \/ Refuse(x) \/ Ask(x)

Spec == Init /\ [][Next]_vars
=============================================================================
