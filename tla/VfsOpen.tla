------------------------------- MODULE VfsOpen -------------------------------
(***************************************************************************)
(* Handles and the working directory: vfs_chdir, vfs_opendir, vfs_open,    *)
(* vfs_stat, vfs_read, vfs_write and vfs_close_handle on a frozen inode    *)
(* table, over a disk that other processes change between any two system   *)
(* calls.                                                                  *)
(*                                                                         *)
(* All four path operations start with vfs_open_node.  What it decides     *)
(* from the table alone is one step; then each lstat(2) of its symlink     *)
(* check, and each system call of the operation itself, is a step.         *)
(***************************************************************************)
EXTENDS RealDisk, FiniteSets

CONSTANTS
  Table,       \* the frozen inodes, in table order
  Requests,    \* paths clients send
  Disks,       \* disks the program may start on
  max_count,   \* vfs->handles.max_count
  MaxHandles,  \* bound: handles allocated at once
  MaxChanges   \* bound: changes to the disk by others

ASSUME OpenAssumption ==
  /\ max_count \in Nat /\ MaxHandles \in Nat /\ MaxChanges \in Nat
  /\ Requests \subseteq Seq(Tokens)
  /\ \A d1, d2 \in Disks : DOMAIN d1 = DOMAIN d2
  /\ \A d \in Disks : \A c \in DOMAIN d : d[c] \in Kinds

Data == [i \in 1 .. Len(Table) |-> i]

(* What VfsInodes shows of every table; a target is a string, of which     *)
(* neighbouring names would be one name.                                   *)
ASSUME TableAssumption ==
  /\ Len(Table) \in Nat /\ PlainTable(Table, Data)
  /\ \A i \in 1 .. Len(Table) :
       Table[i].target_path # NULL => IsPath(Table[i].target_path)

Ids == 1 .. MaxHandles

Operations == {"chdir", "opendir", "open", "stat"}

Modes == {"READ", "WRITE", "APPEND"}

Replies ==
  {"OK", "OUT_OF_HANDLES", "PERMISSION_DENIED", "NOT_A_DIRECTORY",
   "NO_SUCH_FILE_OR_DIRECTORY", "NOT_A_FILE", "INTERNAL_ERROR", "IO_ERROR"}

Calls ==
  [op : Operations, handle : Ids, next : Nat, phase : {"lstat", "act", "fopen"}]

Handles ==
  [type : {"FILE", "DIR"}, virtual_path : CanonicalPaths,
   mapped_path : Seq(Tokens) \cup {NULL}, inode : (1 .. Len(Table)) \cup {NULL},
   flags : SUBSET (BaseFlags \cup UNION {Table[i].flags_set : i \in 1 .. Len(Table)}),
   stream : BOOLEAN, holder : {"call", "caller"}, mode : Modes, stat : BOOLEAN,
   found : [kind : Kinds, link : BOOLEAN] \cup {NULL}, raced : BOOLEAN]

ASSUME NullIsNoRecord == NULL \notin Replies \cup Calls \cup Handles

VARIABLES
  disk,     \* the real file system
  cwd,      \* vfs->cwd
  current_count, \* vfs->handles.current_count
  handle,   \* the allocated handles, NULL where free
  call,     \* the operation in progress, or NULL
  reply,    \* what the last operation returned, NULL during an operation
  touched,  \* history: the file the last step created, emptied or wrote, or NULL
  changes,  \* changes to the disk by others so far
  alive     \* FALSE after opendir(3) dereferenced a null path

vars == <<disk, cwd, current_count, handle, call, reply, touched, changes, alive>>

Free == {h \in Ids : handle[h] = NULL}

vfs_errno_to_vfs_error(errno) ==
  CASE errno = "EACCES" -> "PERMISSION_DENIED"
    [] errno = "ENOENT" -> "NO_SUCH_FILE_OR_DIRECTORY"
    [] OTHER            -> "INTERNAL_ERROR"

(***************************************************************************)
(* vfs_set_cwd.  The length is brought up to date only when the buffer     *)
(* grows.                                                                  *)
(***************************************************************************)
Grows_Mut(old, p) == Len(p) > old.alloced_size

Grows(old, p) == Len(p) + 1 > old.alloced_size

vfs_set_cwd(old, p) ==
  IF Grows(old, p)
  THEN [path |-> truncate_trailing_slash(p), length |-> Len(p), alloced_size |-> Len(p) + 1]
  ELSE [old EXCEPT !.path = truncate_trailing_slash(p)]

Init ==
  /\ disk \in Disks
  /\ cwd = vfs_set_cwd([path |-> NULL, length |-> 0, alloced_size |-> 0], <<Slash>>)
  /\ current_count = 0
  /\ handle = [h \in Ids |-> NULL]
  /\ call = NULL
  /\ reply = "OK"
  /\ touched = NULL /\ changes = 0 /\ alive = TRUE

-----------------------------------------------------------------------------
(***************************************************************************)
(* vfs_open_node up to the symlink check: the error it returns, or the     *)
(* handle it fills in.  Nothing ever changes current_count.                *)
(***************************************************************************)
Filtered_Mut(flags, virtual) ==
  IF "FILTER_ALL" \in flags THEN "NO_SUCH_FILE_OR_DIRECTORY" ELSE NULL

Filtered_Mut2(flags, virtual) ==
  IF "FILTER_HIDDEN" \in flags /\ path_contains_hidden(virtual)
  THEN "PERMISSION_DENIED" ELSE NULL

Filtered(flags, virtual) ==
  IF "FILTER_ALL" \in flags THEN "NO_SUCH_FILE_OR_DIRECTORY"
  ELSE IF "FILTER_HIDDEN" \in flags /\ path_contains_hidden(virtual)
       THEN "PERMISSION_DENIED" ELSE NULL

NodeError(virtual, lookup) ==
  IF current_count >= max_count THEN "OUT_OF_HANDLES"
  ELSE IF Filtered(lookup.flags, virtual) # NULL THEN Filtered(lookup.flags, virtual)
  ELSE IF lookup.inode = NULL /\ lookup.mountpoint = NULL
       THEN "NO_SUCH_FILE_OR_DIRECTORY" ELSE NULL

NewHandle_Mut(mode, virtual, lookup) ==
  [type |-> NULL, virtual_path |-> virtual,
   mapped_path |-> IF lookup.mountpoint = NULL THEN NULL
                   ELSE vfs_map_path(Table[lookup.mountpoint], virtual),
   inode |-> lookup.inode, flags |-> lookup.flags, stream |-> FALSE,
   holder |-> "call", mode |-> mode, stat |-> FALSE, found |-> NULL, raced |-> FALSE]

(* The history fields say who holds the handle, for what it was opened,    *)
(* whether stat(2) found the file, what the disk had at the mapped path    *)
(* when it was opened and whether the disk changed in between.             *)
NewHandle(mode, virtual, lookup) ==
  [type |-> "FILE", virtual_path |-> virtual,
   mapped_path |-> IF lookup.mountpoint = NULL THEN NULL
                   ELSE vfs_map_path(Table[lookup.mountpoint], virtual),
   inode |-> lookup.inode, flags |-> lookup.flags, stream |-> FALSE,
   holder |-> "call", mode |-> mode, stat |-> FALSE, found |-> NULL, raced |-> FALSE]

Idle == alive /\ call = NULL

ChecksSymlinks(h) ==
  h.mapped_path # NULL /\ "ALLOW_SYMLINKS" \notin h.flags

(* Out of memory is an internal error.                                     *)
Refuse(error) ==
  /\ reply' = IF error = NULL THEN "INTERNAL_ERROR" ELSE error
  /\ UNCHANGED <<handle, call>>

Enter(op, new) ==
  LET h == CHOOSE h \in Free : \A g \in Free : h <= g
  IN  /\ Free # {}
      /\ handle' = [handle EXCEPT ![h] = new]
      /\ call' = [op |-> op, handle |-> h, next |-> 1,
                  phase |-> IF ChecksSymlinks(new) THEN "lstat" ELSE "act"]
      /\ reply' = NULL

vfs_open_node(path) ==
  LET virtual == sanitize_path(cwd.path, path)
      lookup == vfs_lookup(Table, Data, virtual)
      error == NodeError(virtual, lookup)
  IN  /\ Idle
      /\ \/ Refuse(error)
         \/ /\ error = NULL
            /\ \/ \E op \in Operations \ {"open"} :
                    Enter(op, NewHandle("READ", virtual, lookup))
               \/ \E mode \in Modes : Enter("open", NewHandle(mode, virtual, lookup))
      /\ touched' = NULL
      /\ UNCHANGED <<disk, cwd, current_count, changes, alive>>

-----------------------------------------------------------------------------
(***************************************************************************)
(* The ways an operation in progress ends.                                 *)
(***************************************************************************)
Current == handle[call.handle]

vfs_close_handle_Mut(h) == UNCHANGED handle

vfs_close_handle(h) == handle' = [handle EXCEPT ![h] = NULL]

(* Close the handle and return the code.                                   *)
Finish(code) ==
  /\ vfs_close_handle(call.handle)
  /\ call' = NULL
  /\ reply' = code

(* What the disk d has at the mapped path, and on the way there.           *)
Found(d, p) ==
  [kind |-> stat(d, p).kind,
   link |-> \E k \in 1 .. Len(Components(p)) :
              KindAt(d, SubSeq(Components(p), 1, k)) \in {"link", "linkdir"}]

(* Return the handle to the caller, opened on the disk d.                  *)
Deliver(type, stream, d) ==
  /\ handle' = [handle EXCEPT ![call.handle] =
       [Current EXCEPT !.type = type, !.stream = stream, !.holder = "caller",
                       !.found = IF stream THEN Found(d, Current.mapped_path) ELSE NULL]]
  /\ call' = NULL
  /\ reply' = "OK"

Unchanged == touched' = NULL /\ UNCHANGED <<current_count, changes, alive>>

InPhase(phase) == alive /\ call # NULL /\ call.phase = phase

(***************************************************************************)
(* path_contains_symlink, one directory of the mapped path at a time.  A   *)
(* missing one ends the check without an error.                            *)
(***************************************************************************)
CheckEnds == call' = [call EXCEPT !.phase = "act"]

CheckGoesOn_Mut(j) == call' = [call EXCEPT !.next = j]

CheckGoesOn(j) == call' = [call EXCEPT !.next = j + 1]

LstatOne ==
  /\ InPhase("lstat")
  /\ UNCHANGED <<disk, cwd>> /\ Unchanged
  /\ IF Current.mapped_path = <<>> THEN CheckEnds /\ UNCHANGED <<handle, reply>>
     ELSE \E j \in 1 .. Len(Current.mapped_path) :
       /\ NextCut(Current.mapped_path, call.next, j)
       /\ LET met == lstat(disk, CutPath(Current.mapped_path, j))
          IN  CASE met.errno = "ENOENT" -> CheckEnds /\ UNCHANGED <<handle, reply>>
                [] met.errno \notin {NULL, "ENOENT"} -> Finish("INTERNAL_ERROR")
                [] met.kind \in {"link", "linkdir"} -> Finish("NO_SUCH_FILE_OR_DIRECTORY")
                [] OTHER ->
                     /\ IF j = Len(Current.mapped_path) THEN CheckEnds
                        ELSE CheckGoesOn(j)
                     /\ UNCHANGED <<handle, reply>>

-----------------------------------------------------------------------------
Stat == stat(disk, Current.mapped_path)

Chdir_Mut ==
  /\ InPhase("act") /\ call.op = "chdir"
  /\ cwd' = vfs_set_cwd(cwd, Current.virtual_path)
  /\ Finish(IF Current.inode # NULL THEN "OK"
            ELSE IF Stat.errno # NULL THEN vfs_errno_to_vfs_error(Stat.errno)
            ELSE IF Stat.kind # "dir" THEN "NOT_A_DIRECTORY" ELSE "OK")
  /\ UNCHANGED disk /\ Unchanged

(* vfs_set_cwd may fail to grow the buffer.                                *)
Chdir ==
  /\ InPhase("act") /\ call.op = "chdir"
  /\ \/ /\ Current.inode # NULL \/ (Stat.errno = NULL /\ Stat.kind = "dir")
        /\ \/ cwd' = vfs_set_cwd(cwd, Current.virtual_path) /\ Finish("OK")
           \/ /\ Grows(cwd, Current.virtual_path)
              /\ UNCHANGED cwd /\ Finish("INTERNAL_ERROR")
     \/ /\ Current.inode = NULL /\ Stat.errno # NULL
        /\ UNCHANGED cwd /\ Finish(vfs_errno_to_vfs_error(Stat.errno))
     \/ /\ Current.inode = NULL /\ Stat.errno = NULL /\ Stat.kind # "dir"
        /\ UNCHANGED cwd /\ Finish("NOT_A_DIRECTORY")
  /\ UNCHANGED disk /\ Unchanged

(* A handle without a stream is returned all the same.  opendir(3) of a    *)
(* null pointer, for a virtual directory below no mountpoint, may also     *)
(* end the process.                                                        *)
Opendir ==
  /\ InPhase("act") /\ call.op = "opendir"
  /\ Deliver("DIR", opendir(disk, Current.mapped_path) = NULL, disk)
  /\ UNCHANGED <<disk, cwd>> /\ Unchanged

OpendirDies ==
  /\ InPhase("act") /\ call.op = "opendir"
  /\ Current.mapped_path = NULL
  /\ alive' = FALSE
  /\ touched' = NULL
  /\ UNCHANGED <<disk, cwd, current_count, handle, call, reply, changes>>

(* vfs_stat does not look at the disk for a virtual directory.             *)
StatNode ==
  /\ InPhase("act") /\ call.op = "stat"
  /\ Finish(IF Current.inode # NULL \/ Stat.errno = NULL THEN "OK"
            ELSE vfs_errno_to_vfs_error(Stat.errno))
  /\ UNCHANGED <<disk, cwd>> /\ Unchanged

(* vfs_open: stat first; only a path that is not there or is a regular     *)
(* file goes on to fopen.                                                  *)
OpenRefusal_Mut(met, flags, mode) ==
  IF met.errno \notin {NULL, "ENOENT"} THEN vfs_errno_to_vfs_error(met.errno)
  ELSE IF met.errno = NULL /\ met.kind # "reg" THEN "NOT_A_FILE"
  ELSE IF met.errno = NULL /\ "READ_ONLY" \in flags /\ mode # "READ"
       THEN "PERMISSION_DENIED" ELSE NULL

OpenRefusal_Mut2(met, flags, mode) ==
  IF met.errno \notin {NULL, "ENOENT"} THEN vfs_errno_to_vfs_error(met.errno)
  ELSE IF "READ_ONLY" \in flags /\ mode # "READ" THEN "PERMISSION_DENIED" ELSE NULL

OpenRefusal(met, flags, mode) ==
  IF met.errno \notin {NULL, "ENOENT"} THEN vfs_errno_to_vfs_error(met.errno)
  ELSE IF met.errno = NULL /\ met.kind # "reg" THEN "NOT_A_FILE"
  ELSE IF "READ_ONLY" \in flags /\ mode # "READ" THEN "PERMISSION_DENIED" ELSE NULL

OpenStat ==
  /\ InPhase("act") /\ call.op = "open"
  /\ IF OpenRefusal(Stat, Current.flags, Current.mode) # NULL
     THEN Finish(OpenRefusal(Stat, Current.flags, Current.mode))
     ELSE /\ call' = [call EXCEPT !.phase = "fopen"]
          /\ handle' = [handle EXCEPT ![call.handle].stat = Stat.errno = NULL]
          /\ UNCHANGED reply
  /\ UNCHANGED <<disk, cwd>> /\ Unchanged

(* fopen may also be denied what stat was allowed.                         *)
Fopen ==
  LET p == Current.mapped_path
      errno == fopen(disk, p, Current.mode)
      missing == Met(disk, p).errno # NULL
  IN  /\ InPhase("fopen")
      /\ \/ /\ errno = NULL
            /\ disk' = AfterFopen(disk, p, Current.mode)
            /\ Deliver("FILE", TRUE, disk')
            /\ touched' = IF missing \/ Current.mode = "WRITE"
                          THEN [path |-> Current.virtual_path, created |-> missing] ELSE NULL
         \/ /\ errno # NULL
            /\ Finish(vfs_errno_to_vfs_error(errno))
            /\ UNCHANGED disk /\ touched' = NULL
         \/ /\ Finish("PERMISSION_DENIED")
            /\ UNCHANGED disk /\ touched' = NULL
      /\ UNCHANGED <<cwd, current_count, changes, alive>>

InCall == LstatOne \/ Chdir \/ Opendir \/ OpendirDies \/ StatNode \/ OpenStat \/ Fopen

-----------------------------------------------------------------------------
(***************************************************************************)
(* Calls on a handle the caller holds.  A stream opened for the other      *)
(* direction sets errno, and the disk may fail in either; what was written *)
(* up to then stays.                                                       *)
(***************************************************************************)
TransferReply(h, direction) ==
  IF handle[h].type # "FILE" THEN {"INTERNAL_ERROR"}
  ELSE IF handle[h].mode \in direction THEN {"OK", "IO_ERROR"} ELSE {"IO_ERROR"}

vfs_read(h) ==
  /\ Idle /\ handle[h] # NULL
  /\ reply' \in TransferReply(h, {"READ"})
  /\ touched' = NULL
  /\ UNCHANGED <<disk, cwd, current_count, handle, call, changes, alive>>

vfs_write(h) ==
  /\ Idle /\ handle[h] # NULL
  /\ reply' \in TransferReply(h, {"WRITE", "APPEND"})
  /\ touched' = IF handle[h].type = "FILE" /\ handle[h].mode # "READ"
                THEN [path |-> handle[h].virtual_path, created |-> FALSE] ELSE NULL
  /\ UNCHANGED <<disk, cwd, current_count, handle, call, changes, alive>>

Close(h) ==
  /\ Idle /\ handle[h] # NULL
  /\ vfs_close_handle(h)
  /\ reply' = "OK"
  /\ touched' = NULL
  /\ UNCHANGED <<disk, cwd, current_count, call, changes, alive>>

(* Another process changes what is at one place.                           *)
ChangeDisk(d) ==
  /\ changes < MaxChanges
  /\ Cardinality({c \in DOMAIN disk : disk[c] # d[c]}) = 1
  /\ disk' = d
  /\ changes' = changes + 1
  /\ handle' = IF call = NULL THEN handle ELSE [handle EXCEPT ![call.handle].raced = TRUE]
  /\ touched' = NULL
  /\ UNCHANGED <<cwd, current_count, call, reply, alive>>

Next ==
  \/ \E path \in Requests : vfs_open_node(path)
  \/ InCall
  \/ \E h \in Ids : vfs_read(h) \/ vfs_write(h) \/ Close(h)
  \/ \E d \in Disks : ChangeDisk(d)

Spec == Init /\ [][Next]_vars

(* The server is one thread: a call it has begun runs to its return.       *)
FairSpec == Spec /\ WF_vars(InCall)

-----------------------------------------------------------------------------
(* The working directory and the handles have canonical paths, which is    *)
(* what the properties below take them for.                                *)
TypeOK ==
  /\ DOMAIN disk \in {DOMAIN d : d \in Disks} /\ \A c \in DOMAIN disk : disk[c] \in Kinds
  /\ cwd \in [path : Seq(Tokens), length : Nat, alloced_size : Nat]
  /\ PlaceOf(cwd.path) \in Seq(Names) /\ cwd.path = Place(PlaceOf(cwd.path))
  /\ handle \in [Ids -> Handles \cup {NULL}]
  /\ call # NULL => call \in Calls /\ call.handle \notin Free
  /\ reply = NULL <=> call # NULL
  /\ call = NULL => reply \in Replies
  /\ current_count \in Nat /\ changes \in 0 .. MaxChanges /\ alive \in BOOLEAN

Held == {h \in Ids : handle[h] # NULL /\ handle[h].holder = "caller"}

Has(c, f) == HasFlag(Table, Data, c, f)

(* No file is ever created, emptied or written at a place whose nearest    *)
(* say is READ_ONLY, through any path a client spells, any mode and any    *)
(* race with the disk.                                                     *)
ReadOnlyHolds == touched # NULL => ~Has(PlaceOf(touched.path), "READ_ONLY")

Visible(c) ==
  /\ ~Has(c, "FILTER_ALL")
  /\ Has(c, "FILTER_HIDDEN") => \A i \in 1 .. Len(c) : c[i] \notin HiddenNames

(* Callers hold handles only on places the filters show.                   *)
FiltersHold == \A h \in Held : Visible(PlaceOf(handle[h].virtual_path))

(* If nobody changed the disk during the call, an open file is a regular   *)
(* file and, unless symlinks are allowed there, no link led to it or to an *)
(* open directory: the lstat walk, the stat and the opening are separate   *)
(* calls, and a walk that met a missing directory vouches for no more.     *)
CheckedIsOpened ==
  \A h \in Held : handle[h].stream /\ ~handle[h].raced =>
    /\ handle[h].type = "FILE" => handle[h].found.kind = "reg"
    /\ ~Has(PlaceOf(handle[h].virtual_path), "ALLOW_SYMLINKS") => ~handle[h].found.link

(* Every allocated handle is held by the caller it was returned to or      *)
(* belongs to the call in progress: no return path loses one.              *)
NoHandleLeak ==
  \A h \in Ids : handle[h] # NULL /\ handle[h].holder = "call" =>
    call # NULL /\ call.handle = h

(* strcpy never writes beyond the working directory's buffer, which grows  *)
(* and never shrinks.                                                      *)
CwdFitsBuffer == Len(cwd.path) + 1 <= cwd.alloced_size

(* The working directory moves as DirCursor says: along paths that clients *)
(* sent, and to visible places only.                                       *)
Cursor == INSTANCE DirCursor WITH
  Sent <- Requests, Allowed <- Visible, place <- PlaceOf(cwd.path)

ImplementsCursor == Cursor!Spec

(* An operation that answers with an error has moved no working directory  *)
(* and left the caller no handle.                                          *)
ErrorsChangeNothing ==
  [][reply' # reply /\ reply' \notin {NULL, "OK"} =>
       /\ UNCHANGED cwd
       /\ Held' \subseteq Held]_vars

(* Every operation returns, unless opendir(3) has ended the process.       *)
CallReturns == (call # NULL) ~> (call = NULL \/ ~alive)

(* vfs.c:547: a failed stat "is only okay if we're writing".               *)
FailedStatOnlyWrites ==
  \A h \in Held : handle[h].type = "FILE" /\ ~handle[h].stat => handle[h].mode # "READ"

(* vfs.c:385 runs "out of handles" at the maximum: never more than that    *)
(* many are held.                                                          *)
HandlesWithinLimit == Cardinality(Held) <= max_count
=============================================================================
