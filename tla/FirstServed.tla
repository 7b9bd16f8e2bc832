------------------------------ MODULE FirstServed ------------------------------
(***************************************************************************)
(* What the server promises its clients: first come, first served, one at  *)
(* a time; the requests of the one it serves are dealt with in the order   *)
(* they were made, each once, and those it answers at all are answered.    *)
(***************************************************************************)
EXTENDS Integers, Sequences

CONSTANTS Clients, Packets, Answered, NULL

VARIABLES queue, serving, pending, answers

vars == <<queue, serving, pending, answers>>

Init ==
  /\ queue = <<>> /\ serving = NULL
  /\ pending = [c \in Clients |-> <<>>] /\ answers = <<>>

Here(c) == c = serving \/ \E i \in 1 .. Len(queue) : queue[i] = c

Connect(c) ==
  /\ ~Here(c)
  /\ queue' = Append(queue, c)
  /\ UNCHANGED <<serving, pending, answers>>

Serve ==
  /\ serving = NULL /\ queue # <<>>
  /\ serving' = Head(queue) /\ queue' = Tail(queue)
  /\ UNCHANGED <<pending, answers>>

Ask(c, packet) ==
  /\ Here(c)
  /\ pending' = [pending EXCEPT ![c] = Append(@, packet)]
  /\ UNCHANGED <<queue, serving, answers>>

DealWithOne ==
  /\ serving # NULL /\ pending[serving] # <<>>
  /\ pending' = [pending EXCEPT ![serving] = Tail(@)]
  /\ answers' = IF Head(pending[serving]) \in Answered
                THEN Append(answers, Head(pending[serving])) ELSE answers
  /\ UNCHANGED <<queue, serving>>

(* What is still pending is forgotten with the conversation.               *)
Dismiss ==
  /\ serving # NULL
  /\ serving' = NULL
  /\ pending' = [pending EXCEPT ![serving] = <<>>]
  /\ answers' = <<>>
  /\ UNCHANGED queue

TurnAway ==
  /\ serving = NULL /\ queue # <<>>
  /\ queue' = Tail(queue)
  /\ pending' = [pending EXCEPT ![Head(queue)] = <<>>]
  /\ UNCHANGED <<serving, answers>>

Next ==
  \/ \E c \in Clients : Connect(c) \/ \E p \in Packets : Ask(c, p)
  \/ Serve \/ DealWithOne \/ Dismiss \/ TurnAway

Spec == Init /\ [][Next]_vars
=============================================================================
