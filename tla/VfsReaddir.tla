------------------------------ MODULE VfsReaddir ------------------------------
(***************************************************************************)
(* Listing one directory of the VFS through several handles.               *)
(*                                                                         *)
(* The directory may have an inode, whose listing virtual_subdirs all      *)
(* handles share, and may be mapped to a real directory, of which every    *)
(* handle has its own DIR stream.  vfs_readdir gives the names of the      *)
(* listing first, by position, then the entries of the stream that are     *)
(* regular files or directories and not overridden by the listing.         *)
(*                                                                         *)
(* Other processes change the real directory at any time, also between     *)
(* readdir(3) and the fstatat(2) that follows it.  A stream may or may not *)
(* show a change made after it was opened.  The server itself is single-   *)
(* threaded: one vfs_readdir call runs at a time, but calls on different   *)
(* handles alternate as their clients like.                                *)
(***************************************************************************)
EXTENDS StringLists

CONSTANTS
  Handles,     \* handles on the directory
  Listings,    \* listings the inode may have when the VFS is frozen; NULL: no inode
  RealNames,   \* names the real directory may have
  MaxChanges,  \* bound: changes to the real directory
  MaxErrors    \* bound: failing readdir(3) calls

ASSUME ListingsAssumption ==
  \A s \in Listings : s # NULL =>
    /\ s \in Seq(Names)
    /\ \A i, j \in 1 .. Len(s) : s[i] = s[j] => i = j

ASSUME ReaddirAssumption ==
  /\ RealNames \subseteq Names
  /\ MaxChanges \in Nat /\ MaxErrors \in Nat

VARIABLES
  subdirs,  \* inode->virtual_subdirs, NULL without an inode
  disk,     \* what each name of the real directory is
  handle,   \* the open handles, NULL where closed
  call,     \* the vfs_readdir call inside its loop, or NULL
  status,   \* what each handle's last call returned
  listed,   \* history: the entries each handle has returned since it was opened
  lasting,  \* history: names unchanged on disk since the handle was opened
  disturbed,\* history: the listing was reordered while the handle walked it
  changes,  \* changes to the real directory so far
  errors    \* failed readdir(3) calls so far

vars == <<subdirs, disk, handle, call, status, listed, lasting, disturbed, changes, errors>>

(* A real name is nothing, a regular file, one whose type the file system  *)
(* leaves out of the entry, a symbolic link to a file, a dangling link or  *)
(* a FIFO.  Directories go the way of regular files.                       *)
Kinds == {"absent", "reg", "untyped", "link", "dangling", "fifo"}

d_type(kind) ==
  CASE kind = "reg"                   -> "DT_REG"
    [] kind = "untyped"               -> "DT_UNKNOWN"
    [] kind \in {"link", "dangling"}  -> "DT_LNK"
    [] kind = "fifo"                  -> "DT_FIFO"
    [] OTHER                          -> "DT_DIR"

Entry(x, kind) == [d_name |-> x, d_type |-> d_type(kind)]

(* struct dirent, the handle of a directory, and a call inside its loop.   *)
DirEntries == {Entry(x, kind) : x \in RealNames, kind \in Kinds} \cup {Entry(Dot, "dir")}

DirHandles == [dir : BOOLEAN, internal_node_index : Nat, pending : SUBSET DirEntries]

Calls == [handle : Handles, dirent : DirEntries \cup {NULL}]

ASSUME NullIsNoRecord ==
  NULL \notin Lists /\ NULL \notin DirEntries /\ NULL \notin DirHandles /\ NULL \notin Calls

Present == {x \in RealNames : disk[x] # "absent"}

Opened == {h \in Handles : handle[h] # NULL}

Init ==
  /\ \E s \in Listings :
       subdirs = IF s = NULL THEN NULL
                 ELSE [strings |-> s, sorted |-> Len(s) = 0]
  /\ disk \in [RealNames -> Kinds]
  /\ handle = [h \in Handles |-> NULL]
  /\ call = NULL
  /\ status = [h \in Handles |-> "closed"]
  /\ listed = [h \in Handles |-> <<>>]
  /\ lasting = [h \in Handles |-> {}]
  /\ disturbed = [h \in Handles |-> FALSE]
  /\ changes = 0 /\ errors = 0

-----------------------------------------------------------------------------
(***************************************************************************)
(* vfs_opendir: opendir(3) may fail, the handle is returned all the same.  *)
(* Of "." and "..", which are passed over alike, the stream has the first. *)
(***************************************************************************)
vfs_opendir(h, opens) ==
  /\ call = NULL
  /\ handle[h] = NULL
  /\ handle' = [handle EXCEPT ![h] =
       [dir |-> opens, internal_node_index |-> 0,
        pending |-> IF ~opens THEN {}
                    ELSE {Entry(x, disk[x]) : x \in Present}
                           \cup {Entry(Dot, "dir")}]]
  /\ status' = [status EXCEPT ![h] = "opened"]
  /\ lasting' = [lasting EXCEPT ![h] = RealNames]
  /\ UNCHANGED <<subdirs, disk, call, listed, disturbed, changes, errors>>

vfs_close_handle(h) ==
  /\ call = NULL
  /\ handle[h] # NULL
  /\ handle' = [handle EXCEPT ![h] = NULL]
  /\ status' = [status EXCEPT ![h] = "closed"]
  /\ listed' = [listed EXCEPT ![h] = <<>>]
  /\ lasting' = [lasting EXCEPT ![h] = {}]
  /\ disturbed' = [disturbed EXCEPT ![h] = FALSE]
  /\ UNCHANGED <<subdirs, disk, call, changes, errors>>

-----------------------------------------------------------------------------
(***************************************************************************)
(* vfs_readdir.                                                            *)
(***************************************************************************)
InListing_Mut(h) ==
  subdirs # NULL /\ handle[h].internal_node_index + 1 < Len(subdirs.strings)

InListing(h) ==
  subdirs # NULL /\ handle[h].internal_node_index < Len(subdirs.strings)

Return(h, answer, entries) ==
  /\ status' = [status EXCEPT ![h] = answer]
  /\ listed' = [listed EXCEPT ![h] = @ \o entries]
  /\ call' = NULL

ReadNothing(h) ==
  /\ call = NULL /\ handle[h] # NULL
  /\ subdirs = NULL /\ ~handle[h].dir
  /\ Return(h, "INTERNAL_ERROR", <<>>)
  /\ UNCHANGED <<subdirs, disk, handle, lasting, disturbed, changes, errors>>

ReadListing_Mut(h) ==
  LET index == handle[h].internal_node_index
  IN  /\ call = NULL /\ handle[h] # NULL
      /\ InListing(h)
      /\ Return(h, "entry", <<[d_name |-> subdirs.strings[index + 1], virtual |-> TRUE]>>)
      /\ UNCHANGED <<subdirs, disk, handle, lasting, disturbed, changes, errors>>

ReadListing(h) ==
  LET index == handle[h].internal_node_index
  IN  /\ call = NULL /\ handle[h] # NULL
      /\ InListing(h)
      /\ handle' = [handle EXCEPT ![h].internal_node_index = index + 1]
      /\ Return(h, "entry", <<[d_name |-> subdirs.strings[index + 1], virtual |-> TRUE]>>)
      /\ UNCHANGED <<subdirs, disk, lasting, disturbed, changes, errors>>

(* Past the listing: enter the loop over the stream, or report the end.    *)
EnterLoop(h) ==
  /\ call = NULL /\ handle[h] # NULL
  /\ ~InListing(h)
  /\ handle[h].dir
  /\ call' = [handle |-> h, dirent |-> NULL]
  /\ UNCHANGED <<subdirs, disk, handle, status, listed, lasting, disturbed, changes, errors>>

EndWithoutStream(h) ==
  /\ call = NULL /\ handle[h] # NULL
  /\ ~InListing(h)
  /\ ~handle[h].dir /\ subdirs # NULL
  /\ Return(h, "eof", <<>>)
  /\ UNCHANGED <<subdirs, disk, handle, lasting, disturbed, changes, errors>>

(* readdir(3) returns NULL: the end of the stream, or an error.            *)
StreamEnds ==
  /\ call # NULL /\ call.dirent = NULL
  /\ handle[call.handle].pending = {}
  /\ Return(call.handle, "eof", <<>>)
  /\ UNCHANGED <<subdirs, disk, handle, lasting, disturbed, changes, errors>>

StreamFails_Mut ==
  /\ call # NULL /\ call.dirent = NULL
  /\ errors < MaxErrors
  /\ errors' = errors + 1
  /\ Return(call.handle, "eof", <<>>)
  /\ UNCHANGED <<subdirs, disk, handle, lasting, disturbed, changes>>

StreamFails ==
  /\ call # NULL /\ call.dirent = NULL
  /\ errors < MaxErrors
  /\ errors' = errors + 1
  /\ Return(call.handle, "INTERNAL_ERROR", <<>>)
  /\ UNCHANGED <<subdirs, disk, handle, lasting, disturbed, changes>>

Supported(dirent) ==
  /\ dirent.d_name \notin {Dot, DotDot}
  /\ dirent.d_type \in {"DT_REG", "DT_DIR", "DT_LNK"}

(* The lists and answers of the test for an overriding virtual directory,  *)
(* which sorts the shared listing if nobody has done so before.            *)
Overridden_Mut(dirent) == {[list |-> subdirs, found |-> FALSE]}

Overridden(dirent) ==
  IF subdirs = NULL THEN {[list |-> NULL, found |-> FALSE]}
  ELSE stringlist_contains(subdirs, dirent.d_name)

(* A handle is in the middle of the listing.                               *)
Walking(g) == handle[g] # NULL /\ handle[g].internal_node_index > 0 /\ InListing(g)

(* readdir(3) returns an entry; it goes on to fstatat or is passed over.   *)
StreamReads ==
  /\ call # NULL /\ call.dirent = NULL
  /\ \E dirent \in handle[call.handle].pending :
       /\ handle' = [handle EXCEPT ![call.handle].pending = @ \ {dirent}]
       /\ \E outcome \in IF Supported(dirent) THEN Overridden(dirent)
                          ELSE {[list |-> subdirs, found |-> TRUE]} :
            /\ subdirs' = outcome.list
            /\ disturbed' = [g \in Handles |->
                 disturbed[g] \/ (outcome.list # subdirs /\ Walking(g)
                                   /\ outcome.list.strings # subdirs.strings)]
            /\ call' = IF outcome.found THEN call
                       ELSE [call EXCEPT !.dirent = dirent]
  /\ UNCHANGED <<disk, status, listed, lasting, changes, errors>>

(* fstatat(2) follows a link; it fails for what is gone, and what it finds *)
(* is passed over unless a regular file or a directory.                    *)
Statted == disk[call.dirent.d_name]

Listable(kind) == kind \in {"reg", "untyped", "link"}

StatLists ==
  /\ call # NULL /\ call.dirent # NULL
  /\ Listable(Statted)
  /\ Return(call.handle, "entry", <<[d_name |-> call.dirent.d_name, virtual |-> FALSE]>>)
  /\ UNCHANGED <<subdirs, disk, handle, lasting, disturbed, changes, errors>>

StatSkips_Mut ==
  /\ call # NULL /\ call.dirent # NULL
  /\ ~Listable(Statted)
  /\ UNCHANGED vars

StatSkips ==
  /\ call # NULL /\ call.dirent # NULL
  /\ ~Listable(Statted)
  /\ call' = [call EXCEPT !.dirent = NULL]
  /\ UNCHANGED <<subdirs, disk, handle, status, listed, lasting, disturbed, changes, errors>>

InCall == StreamEnds \/ StreamFails \/ StreamReads \/ StatLists \/ StatSkips

vfs_readdir(h) ==
  ReadNothing(h) \/ ReadListing(h) \/ EnterLoop(h) \/ EndWithoutStream(h)

-----------------------------------------------------------------------------
(***************************************************************************)
(* Another process replaces what is at a name.  Each open stream may have  *)
(* lost the old entry, and may have got the new one.                       *)
(***************************************************************************)
Seen(stream, x, kind, keepsOld, getsNew) ==
  {e \in stream : e.d_name = x => keepsOld}
    \cup (IF getsNew /\ kind # "absent" THEN {Entry(x, kind)} ELSE {})

ChangeDisk(x, kind) ==
  /\ changes < MaxChanges
  /\ disk[x] # kind
  /\ disk' = [disk EXCEPT ![x] = kind]
  /\ \E keepers, getters \in SUBSET {h \in Opened : handle[h].dir} :
       handle' = [h \in Handles |->
         IF handle[h] = NULL \/ ~handle[h].dir THEN handle[h]
         ELSE [handle[h] EXCEPT !.pending =
                 Seen(@, x, kind, h \in keepers, h \in getters)]]
  /\ lasting' = [h \in Handles |-> lasting[h] \ {x}]
  /\ changes' = changes + 1
  /\ UNCHANGED <<subdirs, call, status, listed, disturbed, errors>>

Next ==
  \/ \E h \in Handles :
       \/ \E opens \in BOOLEAN : vfs_opendir(h, opens)
       \/ vfs_close_handle(h)
       \/ vfs_readdir(h)
  \/ InCall
  \/ \E x \in RealNames, kind \in Kinds : ChangeDisk(x, kind)

(***************************************************************************)
(* A call runs until it returns, and a client that lists a directory calls *)
(* vfs_readdir again until the end or an error, as vfs_shell_ls does.      *)
(***************************************************************************)
ListsOn(h) == status[h] \in {"opened", "entry"} /\ vfs_readdir(h)

Fairness == WF_vars(InCall) /\ \A h \in Handles : WF_vars(ListsOn(h))

Spec == Init /\ [][Next]_vars

FairSpec == Spec /\ Fairness

-----------------------------------------------------------------------------
(* How often h has returned x as a virtual directory, as a real entry.     *)
TimesVirtual(h, x) ==
  Cardinality({i \in 1 .. Len(listed[h]) : listed[h][i].virtual /\ listed[h][i].d_name = x})

TimesReal(h, x) ==
  Cardinality({i \in 1 .. Len(listed[h]) : ~listed[h][i].virtual /\ listed[h][i].d_name = x})

(* A handle that has not had the shared listing sorted under it has        *)
(* returned exactly the names before its position, each once: the sort     *)
(* that stringlist_contains does in the middle of vfs_readdir harms only   *)
(* handles caught between the first and the last virtual directory.        *)
ListingWalkedOnce ==
  \A h \in Opened : subdirs # NULL /\ ~disturbed[h] =>
    /\ handle[h].internal_node_index <= Len(subdirs.strings)
    /\ \A x \in Names :
         TimesVirtual(h, x) = Cardinality({i \in 1 .. handle[h].internal_node_index :
                                             subdirs.strings[i] = x})

(* A name of the listing is never also returned as a real entry, whatever  *)
(* is on disk at the time: "overridden by virtual directory" (vfs.c:717).  *)
OverriddenNeverListed ==
  subdirs # NULL =>
    \A h \in Handles : \A i \in 1 .. Len(listed[h]) :
      ~listed[h][i].virtual => ~Holds(subdirs.strings, listed[h][i].d_name)

(* When a handle has come to the end, every name nobody touched since it   *)
(* was opened has been returned exactly once if it is, or links to, a      *)
(* regular file and its entry says so, and not at all otherwise; errors on *)
(* the way, of calls the client repeated, lose and repeat nothing.         *)
DiskListedOnce ==
  \A h \in Opened : status[h] = "eof" /\ handle[h].dir =>
    \A x \in lasting[h] :
      TimesReal(h, x) =
        IF disk[x] \in {"reg", "link"} /\ (subdirs # NULL => ~Holds(subdirs.strings, x))
        THEN 1 ELSE 0

(* vfs.c:717 passes over an entry as overridden by a virtual directory:    *)
(* then the listing shows the name as a virtual directory.                 *)
OverridingIsListed ==
  \A h \in Opened : status[h] = "eof" /\ subdirs # NULL =>
    \A x \in Names : Holds(subdirs.strings, x) => TimesVirtual(h, x) > 0

(* A client that keeps reading comes to the end of the directory or to an  *)
(* error, unless it closes the handle.                                     *)
ListingFinishes ==
  \A h \in Handles :
    (status[h] = "opened") ~> (status[h] \in {"eof", "INTERNAL_ERROR", "closed"})
=============================================================================
