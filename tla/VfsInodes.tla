------------------------------ MODULE VfsInodes ------------------------------
(***************************************************************************)
(* Building the inode table: vfs_add_inode, vfs_freeze_inodes and          *)
(* vfs_lookup on one VFS, by a program that may call them in any order.    *)
(*                                                                         *)
(* vfs_add_inode runs one callback per directory on the path; each is a    *)
(* step here, since each may create an inode and each creation may run out *)
(* of memory at four places, only one of which leaves no trace:            *)
(*   "early"  strdup or calloc failed, nothing happened;                   *)
(*   "insert" the parent's listing could not take the name, which nobody   *)
(*            notices;                                                     *)
(*   "nolist" the new inode has no listing, which is noticed only when a   *)
(*            child is to be entered in it (the process dies);             *)
(*   "late"   the table could not grow, after the parent listed the name.  *)
(* The process also dies of a path that is nothing but slashes: the child  *)
(* it creates of the root has no name to list.                             *)
(***************************************************************************)
EXTENDS Directories, FiniteSets

CONSTANTS
  Requests,        \* arguments vfs_add_inode may be called with
  LookupPaths,     \* paths vfs_lookup may be called with
  MaxInodes,       \* bound: inodes created
  MaxAllocFailures \* bound: callbacks in which allocations fail

ASSUME RequestsAssumption ==
  \A r \in Requests :
    /\ r.virtual_path \in Seq(Tokens) \ {<<>>}
    /\ r.target_path \in (Seq(Tokens) \ {<<>>}) \cup {NULL}

(* vfs_open looks up what sanitize_path has made of a request, and refuses *)
(* relative paths itself.                                                  *)
ASSUME LookupPathsAssumption ==
  /\ LookupPaths \subseteq Seq(Tokens)
  /\ {p \in LookupPaths : is_absolute_path(p)} \subseteq CanonicalPaths

ASSUME InodeBounds == MaxInodes \in Nat /\ MaxAllocFailures \in Nat

(* The codes vfs->error.code gets; NULL stands for no error.               *)
Errors == {"PARAMETER_ERROR", "ALREADY_EXISTS", "OUT_OF_MEMORY", "FINALIZATION_ERROR",
           "LOOKUP_NON_ABSOLUTE"}

ASSUME NullIsNoError == NULL \notin Errors

VARIABLES
  inodes,   \* every inode created, in order of creation
  data,     \* vfs->inode.data
  frozen,   \* vfs->inode.frozen
  error,    \* vfs->error.code, NULL before the first error
  adding,   \* the vfs_add_inode call in progress, or NULL
  result,   \* what the last vfs_lookup filled in, NULL once the table changed
  granted,  \* history: requests vfs_add_inode has answered true
  failures, \* callbacks so far in which allocations failed
  alive     \* FALSE after a null pointer dereference

vars == <<inodes, data, frozen, error, adding, result, granted, failures, alive>>

Stored(p) == truncate_trailing_slash(p)

Find(p) == vfs_find_inode(inodes, data, p)

Lookup(p) == vfs_lookup(inodes, data, p)

Idle == alive /\ adding = NULL

Init ==
  /\ inodes = <<>> /\ data = <<>> /\ frozen = FALSE /\ error = NULL
  /\ adding = NULL /\ result = NULL /\ granted = {} /\ failures = 0
  /\ alive = TRUE

-----------------------------------------------------------------------------
(***************************************************************************)
(* vfs_add_inode, up to its call of path_split.                            *)
(***************************************************************************)
AddRefusal_Mut(r) ==
  IF \/ ~is_absolute_path(r.virtual_path)
     \/ r.target_path # NULL /\ ~is_absolute_path(r.target_path)
  THEN "PARAMETER_ERROR" ELSE NULL

AddRefusal(r) ==
  IF \/ ~is_absolute_path(r.virtual_path)
     \/ r.target_path # NULL /\ ~is_absolute_path(r.target_path)
  THEN "PARAMETER_ERROR"
  ELSE IF Find(r.virtual_path) # NULL THEN "ALREADY_EXISTS" ELSE NULL

(* Directories of the path that have no inode yet.                         *)
Missing(r) ==
  LET visits == path_split(r.virtual_path)
  IN  {k \in 1 .. Len(visits) : Find(visits[k].path) = NULL}

BeginAdd(r) ==
  /\ Idle
  /\ Len(inodes) + Cardinality(Missing(r)) <= MaxInodes
  /\ AddRefusal(r) = NULL
  /\ adding' = [request |-> r, next |-> 1, previous |-> NULL]
  /\ result' = NULL
  /\ UNCHANGED <<inodes, data, frozen, error, granted, failures, alive>>

RefuseAdd(r) ==
  /\ Idle
  /\ AddRefusal(r) # NULL
  /\ error' = AddRefusal(r)
  /\ result' = NULL
  /\ UNCHANGED <<inodes, data, frozen, adding, granted, failures, alive>>

(***************************************************************************)
(* One callback of path_split, for the slash or end at position j: the     *)
(* inode of this directory becomes the next one's parent.                  *)
(***************************************************************************)
NewInode(p, j) ==
  LET leaf == j = Len(adding.request.virtual_path)
  IN  [virtual_path |-> Stored(p),
       target_path |-> IF leaf /\ adding.request.target_path # NULL
                       THEN Stored(adding.request.target_path) ELSE NULL,
       flags_set |-> IF leaf THEN adding.request.flags_set ELSE {},
       flags_reset |-> IF leaf THEN adding.request.flags_reset ELSE {},
       parent |-> adding.previous,
       virtual_subdirs |-> stringlist_new]

(* The inodes after the parent, if any, has listed the new name.           *)
ParentLists_Mut(p) == inodes

ParentLists(p) ==
  IF adding.previous = NULL THEN inodes
  ELSE [inodes EXCEPT ![adding.previous].virtual_subdirs =
          stringlist_insert(@, const_basename(Stored(p)))]

(* This callback is the last: vfs_add_inode returns true, whatever the     *)
(* callbacks met.                                                          *)
Advance(j, previous) ==
  IF j = Len(adding.request.virtual_path)
  THEN /\ adding' = NULL
       /\ granted' = granted \cup {adding.request}
  ELSE /\ adding' = [adding EXCEPT !.next = j + 1, !.previous = previous]
       /\ UNCHANGED granted

VisitExisting(j) ==
  /\ Find(CutPath(adding.request.virtual_path, j)) # NULL
  /\ Advance(j, Find(CutPath(adding.request.virtual_path, j)))
  /\ UNCHANGED <<inodes, data, frozen, error, result, failures, alive>>

Creates_Mut(j, listed, inode) ==
  /\ inodes' = Append(listed, inode)
  /\ data' = Append(data, Len(inodes))
  /\ Advance(j, Len(inodes))
  /\ UNCHANGED error

(* The new pointer goes to the end of the table, frozen or not.            *)
Creates(j, listed, inode) ==
  /\ inodes' = Append(listed, inode)
  /\ data' = Append(data, Len(inodes) + 1)
  /\ Advance(j, Len(inodes) + 1)
  /\ UNCHANGED error

CreateFails(j, listed) ==
  /\ inodes' = listed
  /\ error' = "OUT_OF_MEMORY"
  /\ Advance(j, NULL)
  /\ UNCHANGED data

(* The parent cannot list the name: it has no listing, or the path has no  *)
(* name, in which const_basename finds no slash.                           *)
CannotList(p) ==
  /\ adding.previous # NULL
  /\ inodes[adding.previous].virtual_subdirs = NULL \/ Stored(p) = <<>>

(* Any of the allocations may fail: those of the inode itself, early; the  *)
(* name's in the parent's listing; that of the new inode's own listing, or *)
(* neither of them has memory; the table's, late, after which the inode's  *)
(* listing does not matter, and without the name it is as if early.        *)
VisitMissing(j, outcome) ==
  LET p == CutPath(adding.request.virtual_path, j)
  IN  /\ Find(p) = NULL
      /\ outcome # "early" => ~CannotList(p)
      /\ failures' = failures + (IF outcome = "ok" THEN 0 ELSE 1)
      /\ failures' <= MaxAllocFailures
      /\ CASE outcome = "ok"     -> Creates(j, ParentLists(p), NewInode(p, j))
           [] outcome = "early"  -> CreateFails(j, inodes)
           [] outcome = "insert" -> Creates(j, inodes, NewInode(p, j))
           [] outcome = "nolist" -> Creates(j, ParentLists(p),
                                      [NewInode(p, j) EXCEPT !.virtual_subdirs = NULL])
           [] outcome = "neither" -> Creates(j, inodes,
                                      [NewInode(p, j) EXCEPT !.virtual_subdirs = NULL])
           [] outcome = "late"   -> CreateFails(j, ParentLists(p))
      /\ UNCHANGED <<frozen, result, alive>>

(* stringlist_insert is handed a null list or an invalid string.           *)
VisitDies(j) ==
  /\ Find(CutPath(adding.request.virtual_path, j)) = NULL
  /\ CannotList(CutPath(adding.request.virtual_path, j))
  /\ alive' = FALSE
  /\ UNCHANGED <<inodes, data, frozen, error, adding, result, granted, failures>>

AddVisit ==
  /\ alive
  /\ adding # NULL
  /\ \E j \in 1 .. Len(adding.request.virtual_path) :
       /\ NextCut(adding.request.virtual_path, adding.next, j)
       /\ \/ VisitExisting(j)
          \/ \E outcome \in {"ok", "early", "insert", "nolist", "neither", "late"} :
               VisitMissing(j, outcome)
          \/ VisitDies(j)

-----------------------------------------------------------------------------
(***************************************************************************)
(* A second freeze reports an error and sorts again.                       *)
(***************************************************************************)
Freeze ==
  /\ Idle
  /\ error' = IF frozen THEN "FINALIZATION_ERROR" ELSE error
  /\ data' \in SortedTables(inodes, data)
  /\ frozen' = TRUE
  /\ result' = NULL
  /\ UNCHANGED <<inodes, adding, granted, failures, alive>>

DoLookup(p) ==
  /\ Idle
  /\ frozen
  /\ is_absolute_path(p)
  /\ result' = [path |-> p, lookup |-> Lookup(p)]
  /\ UNCHANGED <<inodes, data, frozen, error, adding, granted, failures, alive>>

RefuseLookup(p) ==
  /\ Idle
  /\ frozen => ~is_absolute_path(p)
  /\ error' = IF frozen THEN "LOOKUP_NON_ABSOLUTE" ELSE "FINALIZATION_ERROR"
  /\ UNCHANGED <<inodes, data, frozen, adding, result, granted, failures, alive>>

Next ==
  \/ \E r \in Requests : BeginAdd(r) \/ RefuseAdd(r)
  \/ AddVisit
  \/ Freeze
  \/ \E p \in LookupPaths : DoLookup(p) \/ RefuseLookup(p)

Spec == Init /\ [][Next]_vars

-----------------------------------------------------------------------------
Ids == 1 .. Len(data)

Subdirs == [strings : Seq(Tokens \ {Slash}), sorted : BOOLEAN]

Inodes ==
  [virtual_path : Seq(Tokens), target_path : Seq(Tokens) \cup {NULL},
   flags_set : SUBSET UNION {r.flags_set : r \in Requests},
   flags_reset : SUBSET UNION {r.flags_reset : r \in Requests},
   parent : Nat \cup {NULL}, virtual_subdirs : Subdirs \cup {NULL}]

(* The table points at existing inodes and at each of them once; a call in *)
(* progress stands inside its path.                                        *)
TypeOK ==
  /\ inodes \in Seq(Inodes)
  /\ data \in Seq(1 .. Len(inodes))
  /\ \A k, l \in Ids : data[k] = data[l] => k = l
  /\ frozen \in BOOLEAN
  /\ error \in Errors \cup {NULL}
  /\ adding = NULL \/
       /\ adding \in [request : Requests, next : Nat, previous : Nat \cup {NULL}]
       /\ adding.next \in 1 .. Len(adding.request.virtual_path)
       /\ adding.previous \in (1 .. Len(inodes)) \cup {NULL}
  /\ granted \in SUBSET Requests
  /\ failures \in 0 .. MaxAllocFailures
  /\ alive \in BOOLEAN

(* No two inodes of the table have the same path: vfs_add_inode refuses    *)
(* "duplicate" paths (vfs.c:205) and finds existing directories again,     *)
(* even where earlier calls failed halfway.                                *)
UniqueVirtualPaths ==
  \A k, l \in Ids :
    inodes[data[k]].virtual_path = inodes[data[l]].virtual_path => k = l

(* Without allocation failures the parent pointers and the listings are    *)
(* the directory tree of the table's paths: every inode has the inode of   *)
(* its directory as parent, and a listing has each child once and nothing  *)
(* else.  vfs_readdir shows the listings, vfs_open the paths.              *)
ListingsAreTheTree ==
  failures = 0 =>
    \A k \in Ids :
      LET inode == inodes[data[k]]
          c == Components(inode.virtual_path)
          list == inode.virtual_subdirs.strings
      IN  /\ inode.virtual_path = Place(c)
          /\ IF c = <<>> THEN inode.parent = NULL
             ELSE inode.parent # NULL /\ At(inodes, data, Front(c)) = {inode.parent}
          /\ \A x \in Names :
               Cardinality({n \in 1 .. Len(list) : list[n] = x})
                 = Cardinality(At(inodes, data, Append(c, x)))

(* Every request that vfs_add_inode answered true is honoured from then    *)
(* on: looking its path up leads to its target, and to an inode that has   *)
(* its flags.                                                              *)
GrantedIsHonoured ==
  failures = 0 =>
    \A r \in granted :
      LET i == Lookup(sanitize_absolute_path(r.virtual_path)).inode
      IN  /\ i # NULL
          /\ inodes[i].flags_set = r.flags_set
          /\ inodes[i].flags_reset = r.flags_reset
          /\ inodes[i].target_path =
               (IF r.target_path = NULL THEN NULL ELSE Stored(r.target_path))

AllFlags ==
  BaseFlags \cup UNION {r.flags_set \cup r.flags_reset : r \in Requests}

(* What vfs_lookup fills in is what the nearest ancestors say, also of a   *)
(* table that allocation failures have left with holes in it.              *)
LookupIsNearestAncestor ==
  result # NULL =>
    LET c == PlaceOf(result.path)
        Only(i) == IF i = NULL THEN {} ELSE {i}
    IN  /\ result.lookup.flags = {f \in AllFlags : HasFlag(inodes, data, c, f)}
        /\ Only(result.lookup.inode) = At(inodes, data, c)
        /\ Only(result.lookup.mountpoint)
             = Mountpoints(inodes, data, c)

(* The mapped path of a looked-up path is absolute and leads through the   *)
(* mountpoint's target and then through what the path has beyond the       *)
(* mountpoint: it stays below the target.                                  *)
MappedPathIsBelowTarget ==
  result # NULL /\ result.lookup.mountpoint # NULL =>
    LET mountpoint == inodes[result.lookup.mountpoint]
        mapped == vfs_map_path(mountpoint, result.path)
        depth == Len(Components(mountpoint.virtual_path))
        c == Components(result.path)
    IN  /\ mapped # NULL
        /\ Components(mapped) =
             Components(mountpoint.target_path) \o SubSeq(c, depth + 1, Len(c))
        /\ is_absolute_path(mapped)

(* Sorting the table changes no lookup: vfs_find_inode takes the first     *)
(* match, so any pair of matching inodes would make the order matter.      *)
SortingKeepsLookups ==
  [][(data' # data /\ inodes' = inodes)
       => \A p \in LookupPaths : vfs_lookup(inodes', data', p) = Lookup(p)]_vars

(* Creating an inode leaves the flags and the mountpoint of every path     *)
(* that is not at or below it as they were.                                *)
CreatingIsLocal ==
  [][\A p \in LookupPaths :
       Len(data') > Len(data) /\
       ~IsPrefix(Components(inodes'[Len(inodes')].virtual_path), Components(p))
         => LET before == Lookup(p)
                after == vfs_lookup(inodes', data', p)
            IN  before.flags = after.flags /\ before.mountpoint = after.mountpoint]_vars
=============================================================================
