------------------------------ MODULE DirCursor ------------------------------
(***************************************************************************)
(* What the working directory of a session promises: it is a place in the  *)
(* directory tree, starts at the root, and moves only by walking a path    *)
(* the client sent, and only to places the client may enter.               *)
(***************************************************************************)
EXTENDS Walks

CONSTANTS
  Sent,       \* the paths clients send
  Allowed(_)  \* the places that may be entered

VARIABLE place

Init == place = <<>>

Move(p) ==
  /\ place' = Walk(place, p)
  /\ Allowed(place')

Next == place' # place /\ \E p \in Sent : Move(p)

Spec == Init /\ [][Next]_place
=============================================================================
