----------------------------- MODULE InodeTable -----------------------------
(***************************************************************************)
(* The inode table of vfs.c as a value, and the functions that read it.    *)
(*                                                                         *)
(* An inode is known by a number, its address; inodes holds the structs    *)
(* and data the table vfs->inode.data of pointers to them, in table order. *)
(* Flag words are sets of flags.                                           *)
(***************************************************************************)
EXTENDS StringLists

CONSTANT BaseFlags \* vfs->inode.base_flags

(* The first inode of the table whose path matches, as vfs_find_inode      *)
(* walks it from the front.                                                *)
Matches(inode, p) == pathcmp(inode.virtual_path, p)

vfs_find_inode_Mut(inodes, data, p) ==
  IF \E k \in 1 .. Len(data) - 1 : Matches(inodes[data[k]], p)
  THEN data[CHOOSE k \in 1 .. Len(data) - 1 : Matches(inodes[data[k]], p)]
  ELSE NULL

vfs_find_inode(inodes, data, p) ==
  IF \E k \in 1 .. Len(data) : Matches(inodes[data[k]], p)
  THEN data[CHOOSE k \in 1 .. Len(data) :
              /\ Matches(inodes[data[k]], p)
              /\ \A l \in 1 .. k - 1 : ~Matches(inodes[data[l]], p)]
  ELSE NULL

-----------------------------------------------------------------------------
(***************************************************************************)
(* vfs_lookup collects flags and the mountpoint on the way down the path:  *)
(* path_split calls vfs_lookup_splitter with what vfs_find_inode finds at  *)
(* each directory.                                                         *)
(***************************************************************************)
Hits(inodes, data, p) ==
  LET visits == path_split(p)
  IN  [k \in 1 .. Len(visits) |->
         [inode |-> vfs_find_inode(inodes, data, visits[k].path),
          is_full_path |-> visits[k].is_full_path]]

vfs_lookup_splitter_Mut(inodes, result, hit) ==
  IF hit.inode = NULL THEN result
  ELSE LET inode == inodes[hit.inode]
       IN  [flags |-> (result.flags \cup inode.flags_set) \ inode.flags_reset,
            inode |-> IF hit.is_full_path THEN hit.inode ELSE result.inode,
            mountpoint |-> IF inode.target_path # NULL /\ result.mountpoint = NULL
                           THEN hit.inode ELSE result.mountpoint]

vfs_lookup_splitter(inodes, result, hit) ==
  IF hit.inode = NULL THEN result
  ELSE LET inode == inodes[hit.inode]
       IN  [flags |-> (result.flags \cup inode.flags_set) \ inode.flags_reset,
            inode |-> IF hit.is_full_path THEN hit.inode ELSE result.inode,
            mountpoint |-> IF inode.target_path # NULL
                           THEN hit.inode ELSE result.mountpoint]

Collected(inodes, hits) ==
  FoldLeft(LAMBDA result, hit : vfs_lookup_splitter(inodes, result, hit),
           [flags |-> BaseFlags, inode |-> NULL, mountpoint |-> NULL], hits)

vfs_lookup(inodes, data, p) == Collected(inodes, Hits(inodes, data, p))

(***************************************************************************)
(* vfs_map_path for a lookup with a mountpoint; NULL is the error of a     *)
(* path shorter than its mountpoint.                                       *)
(***************************************************************************)
vfs_map_path_Mut(mountpoint, p) ==
  mountpoint.target_path \o <<Slash>> \o p

vfs_map_path(mountpoint, p) ==
  LET vlen == Len(mountpoint.virtual_path)
  IN  CASE Len(p) < vlen -> NULL
        [] Len(p) = vlen -> mountpoint.target_path
        [] Len(p) > vlen -> mountpoint.target_path \o <<Slash>> \o SubSeq(p, vlen + 2, Len(p))

(* The orders qsort may leave the table in; it says nothing about inodes   *)
(* with equal paths.                                                       *)
SortedTables(inodes, data) ==
  {t \in {[i \in 1 .. Len(data) |-> data[f[i]]] : f \in Shuffles(Len(data))} :
     \A i, j \in 1 .. Len(data) :
       i < j => ~PathBefore(inodes[t[j]].virtual_path, inodes[t[i]].virtual_path)}
=============================================================================
