-------------------------------- MODULE Walks --------------------------------
(***************************************************************************)
(* A reader's account of paths: a place is the sequence of directory names *)
(* that lead to it from the root, and a path is a walk.                    *)
(***************************************************************************)
EXTENDS Paths

(* The names a path is made of, "." and ".." among them.                   *)
TakeName(c, t) == IF t = Slash THEN c ELSE Append(c, t)

Components(p) ==
  LET upTo[k \in 0 .. Len(p)] ==
        IF k = 0 THEN <<>> ELSE TakeName(upTo[k - 1], p[k])
  IN  upTo[Len(p)]

Follow(c, t) ==
  CASE t \in {Slash, Dot} -> c
    [] t = DotDot         -> IF c = <<>> THEN <<>> ELSE Front(c)
    [] OTHER              -> Append(c, t)

(* Where the path p leads from the place c.                                *)
Walk(c, p) == FoldLeft(Follow, IF is_absolute_path(p) THEN <<>> ELSE c, p)

(* The path an inode or the working directory keeps for the place c, and   *)
(* the sanitized path of c.                                                *)
Place(c) ==
  [i \in 1 .. 2 * Len(c) |-> IF i % 2 = 1 THEN Slash ELSE c[i \div 2]]

Render(c) == IF c = <<>> THEN <<Slash>> ELSE Place(c)

(* The place such a path is of.                                            *)
PlaceOf(p) == [k \in 1 .. Len(p) \div 2 |-> p[2 * k]]

(* The sanitized paths.                                                    *)
CanonicalPaths ==
  {p \in Seq(Tokens) : PlaceOf(p) \in Seq(Names) /\ p = Render(PlaceOf(p))}
=============================================================================
