----------------------------- MODULE Directories -----------------------------
(***************************************************************************)
(* A reader's account of an inode table: what holds at a place is what its *)
(* nearest ancestor says.  The properties compare the code with it.        *)
(***************************************************************************)
EXTENDS InodeTable, Walks

EndsInSlash(p) == Len(p) > 0 /\ p[Len(p)] = Slash

(* A table whose paths end in no slash and differ.                         *)
PlainTable(inodes, data) ==
  /\ data \in Seq(Nat)
  /\ \A k \in 1 .. Len(data) :
       /\ inodes[data[k]].virtual_path \in Seq(Tokens)
       /\ ~EndsInSlash(inodes[data[k]].virtual_path)
  /\ \A k, l \in 1 .. Len(data) :
       inodes[data[k]].virtual_path = inodes[data[l]].virtual_path => k = l

(* The inodes at the place c.                                              *)
At(inodes, data, c) ==
  {i \in {data[k] : k \in 1 .. Len(data)} : inodes[i].virtual_path = Place(c)}

(* The inodes at the nearest place at or above c that has a deciding one.  *)
Nearest(inodes, data, c, Deciding(_)) ==
  LET depths == {d \in 0 .. Len(c) :
                   \E i \in At(inodes, data, SubSeq(c, 1, d)) : Deciding(inodes[i])}
  IN  IF depths = {} THEN {}
      ELSE At(inodes, data, SubSeq(c, 1, CHOOSE d \in depths : \A e \in depths : e <= d))

(* The nearest directory that mentions a flag decides about it.            *)
HasFlag(inodes, data, c, f) ==
  LET deciders == Nearest(inodes, data, c,
                          LAMBDA inode : f \in inode.flags_set \cup inode.flags_reset)
  IN  IF deciders = {} THEN f \in BaseFlags
      ELSE \A i \in deciders : f \notin inodes[i].flags_reset

(* The nearest directory with a target is the mountpoint.                  *)
Mountpoints(inodes, data, c) ==
  Nearest(inodes, data, c, LAMBDA inode : inode.target_path # NULL)
=============================================================================
