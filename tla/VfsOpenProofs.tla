---------------------------- MODULE VfsOpenProofs ----------------------------
(***************************************************************************)
(* Proofs about handles and the working directory, for any plain table,    *)
(* any requests, any disks and any number of changes to them, and any      *)
(* number of handles.                                                      *)
(***************************************************************************)
EXTENDS VfsOpen, DataProofs

-----------------------------------------------------------------------------
(* What a handle was opened with: the flags of its place, which the        *)
(* filters show.                                                           *)
HandleOK(r) ==
  /\ \A f : f \in r.flags <=> Has(PlaceOf(r.virtual_path), f)
  /\ Visible(PlaceOf(r.virtual_path))

HandlesOK == \A h \in Ids : handle[h] # NULL => HandleOK(handle[h])

(* A file that may be written, once the caller holds it or vfs_open is     *)
(* past its checks, is not of a read-only place.                           *)
Checked(h) ==
  \/ handle[h].holder = "caller" /\ handle[h].type = "FILE"
  \/ call # NULL /\ call.handle = h /\ call.phase = "fopen"

WritersOK ==
  \A h \in Ids :
    handle[h] # NULL /\ Checked(h) /\ handle[h].mode # "READ"
      => "READ_ONLY" \notin handle[h].flags

(* The call in progress is for a path that a client sent, resolved against *)
(* the working directory, which has not moved since.                       *)
CallOK ==
  call # NULL =>
    \E p \in Requests : PlaceOf(handle[call.handle].virtual_path) = Walk(PlaceOf(cwd.path), p)

(* The handles and the operation in progress.                              *)
HandleTypes ==
  /\ handle \in [Ids -> Handles \cup {NULL}]
  /\ call # NULL => call \in Calls /\ handle[call.handle] # NULL
  /\ reply = NULL <=> call # NULL
  /\ call = NULL => reply \in Replies

HInv == HandleTypes /\ NoHandleLeak /\ HandlesOK /\ WritersOK /\ CallOK

(* The table, as the lemmas about lookups see it.                          *)
LEMMA TableFacts ==
  /\ Data \in Seq(Nat) /\ Len(Data) = Len(Table)
  /\ Members(Data) = 1 .. Len(Table)
  /\ FlagsOf(Table, Data) = BaseFlags \cup UNION {Table[i].flags_set : i \in 1 .. Len(Table)}
<1>1. Len(Table) \in Nat /\ Data \in Seq(Nat)
  BY TableAssumption DEF PlainTable
<1>2. Len(Data) = Len(Table) /\ \A k \in 1 .. Len(Table) : Data[k] = k
  BY <1>1 DEF Data
<1>3. Members(Data) = 1 .. Len(Table)
  BY <1>2 DEF Members
<1> QED
  BY <1>1, <1>2, <1>3 DEF FlagsOf

(* A canonical path is the canonical path of its place.                    *)
LEMMA CanonicalIs ==
  ASSUME NEW c \in Seq(Names)
  PROVE  Render(c) \in CanonicalPaths /\ PlaceOf(Render(c)) = c
BY RenderIs DEF CanonicalPaths

(* A path a client sends is resolved to a canonical path, and the handle   *)
(* vfs_open_node fills in for it has the flags of its place, which the     *)
(* filters show, and leads to a path or nowhere.                           *)
LEMMA NewHandleOK ==
  ASSUME TypeOK, NEW path \in Requests, NEW mode \in Modes,
         NEW virtual, virtual = sanitize_path(cwd.path, path),
         NEW lookup, lookup = vfs_lookup(Table, Data, virtual),
         NodeError(virtual, lookup) = NULL
  PROVE  LET r == NewHandle(mode, virtual, lookup)
         IN  /\ r \in Handles /\ HandleOK(r) /\ r.holder = "call"
             /\ PlaceOf(r.virtual_path) = Walk(PlaceOf(cwd.path), path)
             /\ r.mapped_path # NULL => IsPath(r.mapped_path)
<1> DEFINE c == Walk(PlaceOf(cwd.path), path)
           r == NewHandle(mode, virtual, lookup)
<1>1. c \in Seq(Names) /\ virtual = Render(c)
  <2>1. path \in Seq(Tokens)
    BY OpenAssumption
  <2>2. PlaceOf(cwd.path) \in Seq(Names) /\ cwd.path = Place(PlaceOf(cwd.path))
    BY DEF TypeOK
  <2> QED
    BY <2>1, <2>2, SanitizeWalks
<1>2. virtual \in CanonicalPaths /\ virtual \in Seq(Tokens) /\ PlaceOf(virtual) = c
  BY <1>1, CanonicalIs DEF CanonicalPaths
<1>3. /\ lookup \in Lookups(Table, Data)
      /\ \A f : f \in lookup.flags <=> HasFlag(Table, Data, c, f)
      /\ Only(lookup.mountpoint) = Mountpoints(Table, Data, c)
  BY <1>1, TableAssumption, LookupIs
<1> HIDE DEF c
<1>4. /\ lookup.flags \subseteq BaseFlags \cup UNION {Table[i].flags_set : i \in 1 .. Len(Table)}
      /\ lookup.inode \in (1 .. Len(Table)) \cup {NULL}
      /\ lookup.mountpoint \in (1 .. Len(Table)) \cup {NULL}
  BY <1>3, TableFacts DEF Lookups
<1>5. ASSUME lookup.mountpoint # NULL
      PROVE  /\ vfs_map_path(Table[lookup.mountpoint], virtual) \in Seq(Tokens)
             /\ IsPath(vfs_map_path(Table[lookup.mountpoint], virtual))
  <2> DEFINE m == lookup.mountpoint
  <2>1. Mountpoints(Table, Data, c) = {m}
    BY <1>3, <1>5 DEF Only
  <2>2. Table[m].target_path # NULL
    BY <1>1, <2>1, MountpointHasTarget
  <2>3. PICK d \in 0 .. Len(c) : Table[m].virtual_path = Place(SubSeq(c, 1, d))
    BY <1>1, <2>1, MountpointHasTarget
  <2>4. IsPath(Table[m].target_path)
    BY <1>4, <1>5, <2>2, TableAssumption
  <2>5. Table[m].target_path \in Seq(Tokens)
    BY <2>4 DEF IsPath
  <2>6. virtual = Render(c)
    BY <1>1 DEF c
  <2> HIDE DEF m
  <2>7. vfs_map_path(Table[m], Render(c)) \in Seq(Tokens) /\ IsPath(vfs_map_path(Table[m], Render(c)))
    BY <1>1, <2>3, <2>4, <2>5, MapIs
  <2> QED
    BY <2>6, <2>7 DEF m
<1>6. r \in Handles
  BY <1>2, <1>4, <1>5 DEF NewHandle, Handles
<1>7. /\ r.virtual_path = virtual /\ r.flags = lookup.flags /\ r.holder = "call"
  BY DEF NewHandle
<1>8. Visible(c)
  <2>1. Filtered(lookup.flags, virtual) = NULL
    BY NullIsNoRecord DEF NodeError, Replies
  <2>2. "FILTER_ALL" \notin lookup.flags
    BY <2>1, NullIsNoRecord DEF Filtered, Replies
  <2>3. ASSUME "FILTER_HIDDEN" \in lookup.flags PROVE ~path_contains_hidden(virtual)
    BY <2>1, <2>3, NullIsNoRecord DEF Filtered, Replies
  <2>4. path_contains_hidden(virtual) <=> \E i \in 1 .. Len(c) : c[i] \in HiddenNames
    BY <1>1, HiddenIs
  <2> QED
    BY <1>3, <2>2, <2>3, <2>4 DEF Visible, Has
<1>10. r.mapped_path # NULL => IsPath(r.mapped_path)
  BY <1>5 DEF NewHandle
<1> HIDE DEF r
<1>9. HandleOK(r)
  BY <1>2, <1>3, <1>7, <1>8 DEF HandleOK, Has
<1> QED
  BY <1>2, <1>6, <1>7, <1>9, <1>10 DEF c, r

-----------------------------------------------------------------------------
(* Each way a step treats the handles keeps what is known of them.         *)
(* The operation in progress gives its handle up.                          *)
LEMMA FinishKeeps ==
  ASSUME HInv, call # NULL, NEW code \in Replies, Finish(code)
  PROVE  HInv'
<1> DEFINE g == call.handle
<1>1. g \in Ids /\ handle \in [Ids -> Handles \cup {NULL}]
  BY DEF HInv, HandleTypes, Calls
<1>2. handle' = [handle EXCEPT ![g] = NULL] /\ call' = NULL /\ reply' = code /\ reply' # NULL
  BY NullIsNoRecord DEF Finish, vfs_close_handle
<1> HIDE DEF g
<1>3. handle' \in [Ids -> Handles \cup {NULL}]
  BY <1>1, <1>2
<1>4. \A h \in Ids : handle'[h] # NULL => h # g /\ handle'[h] = handle[h]
  BY <1>1, <1>2
<1>5. HandleTypes' /\ CallOK'
  BY <1>2, <1>3 DEF HandleTypes, CallOK
<1>6. NoHandleLeak'
  BY <1>4 DEF HInv, NoHandleLeak, g
<1>7. HandlesOK'
  BY <1>4 DEF HInv, HandlesOK, HandleOK
<1>8. WritersOK'
  BY <1>2, <1>4 DEF HInv, WritersOK, Checked
<1> QED
  BY <1>5, <1>6, <1>7, <1>8 DEF HInv

(* A handle that keeps its path, flags and mode is as good as it was.      *)
Same(r, q) ==
  /\ r \in Handles
  /\ r.virtual_path = q.virtual_path /\ r.flags = q.flags /\ r.mode = q.mode

(* What a handle must be depends on the fields that reads and writes leave *)
(* alone.                                                                  *)
LEMMA SameOK ==
  ASSUME NEW q, HandleOK(q), NEW r, Same(r, q) PROVE HandleOK(r)
BY DEF Same, HandleOK

(* The caller gets the handle; a file's only after the checks of vfs_open. *)
LEMMA DeliverKeeps ==
  ASSUME HInv, call # NULL, NEW type \in {"FILE", "DIR"}, NEW stream \in BOOLEAN, NEW d,
         Found(d, Current.mapped_path) \in [kind : Kinds, link : BOOLEAN],
         type = "FILE" => call.phase = "fopen", Deliver(type, stream, d)
  PROVE  HInv'
<1>0. PICK g \in Ids : g = call.handle
  BY DEF HInv, HandleTypes, Calls
<1> DEFINE q == handle[g]
           r == handle'[g]
<1>1. handle \in [Ids -> Handles \cup {NULL}] /\ q \in Handles
  BY <1>0 DEF HInv, HandleTypes
<1>2. /\ handle' = [handle EXCEPT ![g] =
            [q EXCEPT !.type = type, !.stream = stream, !.holder = "caller",
                      !.found = IF stream THEN Found(d, q.mapped_path) ELSE NULL]]
      /\ call' = NULL /\ reply' = "OK" /\ reply' \in Replies /\ reply' # NULL
  BY <1>0, NullIsNoRecord DEF Deliver, Current, Replies
<1> DEFINE found == IF stream THEN Found(d, q.mapped_path) ELSE NULL
<1>3. found \in [kind : Kinds, link : BOOLEAN] \cup {NULL}
  BY <1>0 DEF Current
<1> HIDE DEF found
<1>4. /\ handle' = [handle EXCEPT ![g] = r]
      /\ r = [q EXCEPT !.type = type, !.stream = stream, !.holder = "caller", !.found = found]
  BY <1>1, <1>2 DEF found
<1> HIDE DEF q, r
<1>5. /\ Same(r, q) /\ r.type = type /\ r.holder = "caller"
  BY <1>1, <1>3, <1>4 DEF Handles, Same
<1>6. /\ handle' \in [Ids -> Handles \cup {NULL}]
      /\ handle'[g] = r /\ \A h \in Ids \ {g} : handle'[h] = handle[h]
  BY <1>1, <1>4, <1>5 DEF Same
<1>7. HandleTypes' /\ CallOK'
  BY <1>2, <1>6 DEF HandleTypes, CallOK
<1>8. NoHandleLeak'
  BY <1>0, <1>5, <1>6 DEF HInv, NoHandleLeak
<1>9. HandlesOK'
  <2>1. HandleOK(q)
    BY <1>0, <1>1, NullIsNoRecord DEF HInv, HandlesOK, q
  <2>2. HandleOK(r)
    BY <1>5, <2>1, SameOK
  <2>3. ASSUME NEW h \in Ids, handle'[h] # NULL PROVE HandleOK(handle'[h])
    BY <1>6, <2>2, <2>3 DEF HInv, HandlesOK
  <2> QED
    BY <2>3 DEF HandlesOK, HandleOK
<1>10. WritersOK'
  <2>1. ASSUME type = "FILE", r.mode # "READ" PROVE "READ_ONLY" \notin r.flags
    <3>1. handle[g] # NULL /\ Checked(g) /\ handle[g].mode # "READ"
      BY <1>0, <1>1, <1>5, <2>1, NullIsNoRecord DEF Checked, Same, q
    <3> QED
      BY <1>1, <1>5, <3>1 DEF HInv, WritersOK, Same, q
  <2>2. ASSUME NEW h \in Ids \ {g}, handle'[h] # NULL, Checked(h)', handle'[h].mode # "READ"
        PROVE  "READ_ONLY" \notin handle'[h].flags
    BY <1>2, <1>6, <2>2 DEF HInv, WritersOK, Checked
  <2>3. ASSUME Checked(g)', handle'[g].mode # "READ" PROVE "READ_ONLY" \notin handle'[g].flags
    BY <1>2, <1>5, <1>6, <2>1, <2>3 DEF Checked
  <2> QED
    BY <2>2, <2>3 DEF WritersOK
<1> QED
  BY <1>7, <1>8, <1>9, <1>10 DEF HInv

(* The operation goes on with the handles as they are, and not to fopen.   *)
LEMMA GoesOnKeeps ==
  ASSUME HInv, call # NULL, UNCHANGED <<cwd, handle, reply>>,
         NEW next \in Nat, NEW phase \in {"lstat", "act"},
         call' = [call EXCEPT !.next = next, !.phase = phase]
  PROVE  HInv'
<1>1. call \in Calls /\ handle[call.handle] # NULL /\ reply = NULL
  BY DEF HInv, HandleTypes
<1>2. /\ call' \in Calls /\ call' # NULL /\ call'.handle = call.handle
      /\ call'.phase \in {"lstat", "act"}
  BY <1>1, NullIsNoRecord DEF Calls
<1>3. HandleTypes'
  BY <1>1, <1>2 DEF HInv, HandleTypes
<1>4. NoHandleLeak' /\ CallOK'
  BY <1>2 DEF HInv, NoHandleLeak, CallOK
<1>5. HandlesOK'
  BY DEF HInv, HandlesOK, HandleOK
<1>6. WritersOK'
  BY <1>2 DEF HInv, WritersOK, Checked
<1> QED
  BY <1>3, <1>4, <1>5, <1>6 DEF HInv

(* A handle changes in what is known of the disk only; if its operation    *)
(* goes on to fopen, it is for reading or not of a read-only place.        *)
LEMMA MarkKeeps ==
  ASSUME HInv, call # NULL, UNCHANGED <<cwd, reply>>,
         NEW r, handle' = [handle EXCEPT ![call.handle] = r], Same(r, Current),
         r.holder = Current.holder, r.type = Current.type,
         \/ call' = call
         \/ /\ call' = [call EXCEPT !.phase = "fopen"]
            /\ r.mode # "READ" => "READ_ONLY" \notin r.flags
  PROVE  HInv'
<1>0. PICK g \in Ids : g = call.handle
  BY DEF HInv, HandleTypes, Calls
<1>1. /\ handle \in [Ids -> Handles \cup {NULL}] /\ handle[g] # NULL /\ reply = NULL
      /\ call \in Calls /\ r # NULL
  BY <1>0, NullIsNoRecord DEF HInv, HandleTypes, Same
<1>2. /\ handle' \in [Ids -> Handles \cup {NULL}]
      /\ handle'[g] = r /\ \A h \in Ids \ {g} : handle'[h] = handle[h]
  BY <1>0, <1>1 DEF Same
<1>3. /\ call' \in Calls /\ call' # NULL /\ call'.handle = g
      /\ call'.phase = "fopen" /\ r.mode # "READ" =>
           call.phase = "fopen" \/ "READ_ONLY" \notin r.flags
  BY <1>0, <1>1, NullIsNoRecord DEF Calls
<1>4. HandleTypes'
  BY <1>1, <1>2, <1>3 DEF HInv, HandleTypes
<1>5. Same(r, handle[g]) /\ r.holder = handle[g].holder /\ r.type = handle[g].type
  BY <1>0 DEF Current
<1>6. NoHandleLeak'
  BY <1>0, <1>1, <1>2, <1>3, <1>5 DEF HInv, NoHandleLeak
<1>7. CallOK'
  <2>1. PICK p \in Requests : PlaceOf(handle[g].virtual_path) = Walk(PlaceOf(cwd.path), p)
    BY <1>0 DEF HInv, CallOK
  <2>2. PlaceOf(handle'[g].virtual_path) = Walk(PlaceOf(cwd'.path), p)
    BY <1>2, <1>5, <2>1 DEF Same
  <2> QED
    BY <1>3, <2>2 DEF CallOK
<1>8. HandlesOK'
  <2>1. HandleOK(r)
    BY <1>1, <1>5, SameOK DEF HInv, HandlesOK
  <2>2. ASSUME NEW h \in Ids, handle'[h] # NULL PROVE HandleOK(handle'[h])
    BY <1>2, <2>1, <2>2 DEF HInv, HandlesOK
  <2> QED
    BY <2>2 DEF HandlesOK, HandleOK
<1>9. WritersOK'
  <2>1. ASSUME Checked(g)', r.mode # "READ" PROVE "READ_ONLY" \notin r.flags
    <3>1. Checked(g) => "READ_ONLY" \notin handle[g].flags
      BY <1>1, <1>5, <2>1 DEF HInv, WritersOK, Same
    <3>2. Checked(g) \/ "READ_ONLY" \notin r.flags
      BY <1>0, <1>2, <1>3, <1>5, <2>1 DEF Checked
    <3> QED
      BY <1>5, <3>1, <3>2 DEF Same
  <2>2. ASSUME NEW h \in Ids \ {g}, handle'[h] # NULL, Checked(h)', handle'[h].mode # "READ"
        PROVE  "READ_ONLY" \notin handle'[h].flags
    BY <1>0, <1>2, <1>3, <2>2 DEF HInv, WritersOK, Checked
  <2> QED
    BY <1>2, <2>1, <2>2 DEF WritersOK
<1> QED
  BY <1>4, <1>6, <1>7, <1>8, <1>9 DEF HInv

(* A call on a handle that the caller holds, or a refused path: the        *)
(* handles stay, or one of the caller's is closed.                         *)
LEMMA IdleKeeps ==
  ASSUME HInv, call = NULL, call' = NULL, reply' \in Replies, NEW h \in Ids,
         handle' = handle \/ handle' = [handle EXCEPT ![h] = NULL]
  PROVE  HInv'
<1>1. handle \in [Ids -> Handles \cup {NULL}] /\ reply' # NULL
  BY NullIsNoRecord DEF HInv, HandleTypes
<1>2. /\ handle' \in [Ids -> Handles \cup {NULL}]
      /\ \A k \in Ids : handle'[k] # NULL => handle'[k] = handle[k]
  BY <1>1
<1>3. HandleTypes' /\ CallOK'
  BY <1>1, <1>2 DEF HandleTypes, CallOK
<1>4. NoHandleLeak'
  BY <1>2 DEF HInv, NoHandleLeak
<1>5. HandlesOK'
  BY <1>2 DEF HInv, HandlesOK, HandleOK
<1>6. WritersOK'
  BY <1>2 DEF HInv, WritersOK, Checked
<1> QED
  BY <1>3, <1>4, <1>5, <1>6 DEF HInv

-----------------------------------------------------------------------------
(* The disk has a kind at every place.                                     *)
DiskOK(d) ==
  /\ DOMAIN d \in {DOMAIN e : e \in Disks}
  /\ \A c \in DOMAIN d : d[c] \in Kinds

(* What a call meets on a path is what it meets at the path's place.       *)
LEMMA MetIs ==
  ASSUME NEW d, NEW p
  PROVE  /\ Met(d, p) = IF p = NULL THEN Failed("EFAULT")
                        ELSE IF p = <<>> THEN Failed("ENOENT")
                        ELSE MetAt(d, Components(p))
         /\ Met(d, p).kind = IF Met(d, p).errno = NULL THEN KindAt(d, Components(p)) ELSE "absent"
         /\ Met(d, p) = [errno |-> Met(d, p).errno, kind |-> Met(d, p).kind]
<1> DEFINE c == Components(p)
           found == MetAt(d, c)
<1>1. (CHOOSE met \in {MetAt(d, e) : e \in {c}} : TRUE) = found
  <2>1. {MetAt(d, e) : e \in {c}} = {found}
    OBVIOUS
  <2> HIDE DEF found, c
  <2> QED
    BY <2>1
<1>2. Met(d, p) = IF p = NULL THEN Failed("EFAULT") ELSE IF p = <<>> THEN Failed("ENOENT") ELSE found
  BY <1>1 DEF Met
<1>3. /\ Failed("EFAULT").errno # NULL /\ Failed("EFAULT").kind = "absent"
      /\ Failed("EFAULT") = [errno |-> Failed("EFAULT").errno, kind |-> Failed("EFAULT").kind]
      /\ Failed("ENOENT").errno # NULL /\ Failed("ENOENT").kind = "absent"
      /\ Failed("ENOENT") = [errno |-> Failed("ENOENT").errno, kind |-> Failed("ENOENT").kind]
  BY NullIsNoErrno DEF Errnos, Failed
<1>4. /\ found.kind = IF found.errno = NULL THEN KindAt(d, c) ELSE "absent"
      /\ found = [errno |-> found.errno, kind |-> found.kind]
  <2> HIDE DEF c
  <2> QED
    BY <1>3 DEF MetAt, Failed
<1> HIDE DEF found
<1> QED
  BY <1>2, <1>3, <1>4 DEF found

(* What stat answers is of the right kind, and an error finds nothing.     *)
LEMMA StatIs ==
  ASSUME NEW d, DiskOK(d), NEW p
  PROVE  /\ stat(d, p).kind \in Kinds /\ stat(d, p).errno = Met(d, p).errno
         /\ stat(d, p).errno # NULL => stat(d, p).kind = "absent"
         /\ Found(d, p) \in [kind : Kinds, link : BOOLEAN]
<1> DEFINE k == KindAt(d, Components(p))
           e == Met(d, p).errno
<1>1. k \in Kinds
  BY DEF KindAt, DiskOK, Kinds
<1>2. /\ Met(d, p).kind = IF e = NULL THEN k ELSE "absent"
      /\ Met(d, p) = [errno |-> e, kind |-> Met(d, p).kind]
  BY MetIs
<1> HIDE DEF k, e
<1>3. stat(d, p) = [errno |-> e, kind |-> Followed(Met(d, p).kind)]
  BY <1>2 DEF stat
<1>4. /\ Followed("absent") = "absent"
      /\ \A x \in Kinds : Followed(x) \in Kinds
  BY DEF Followed, Kinds
<1>5. "absent" \in Kinds
  BY DEF Kinds
<1>6. stat(d, p).kind \in Kinds /\ stat(d, p).errno = e
  BY <1>1, <1>2, <1>3, <1>4, <1>5
<1>7. e # NULL => stat(d, p).kind = "absent"
  BY <1>2, <1>3, <1>4
<1>8. Found(d, p) \in [kind : Kinds, link : BOOLEAN]
  <2> DEFINE b == \E i \in 1 .. Len(Components(p)) :
                    KindAt(d, SubSeq(Components(p), 1, i)) \in {"link", "linkdir"}
  <2>1. b \in BOOLEAN
    OBVIOUS
  <2>2. Found(d, p) = [kind |-> stat(d, p).kind, link |-> b]
    BY DEF Found
  <2> HIDE DEF b
  <2> QED
    BY <1>6, <2>1, <2>2
<1> QED
  BY <1>6, <1>7, <1>8 DEF e

(* fopen leaves a disk, and makes no file for reading.                     *)
LEMMA FopenIs ==
  ASSUME NEW d, DiskOK(d), NEW p, NEW mode
  PROVE  /\ DiskOK(AfterFopen(d, p, mode))
         /\ mode = "READ" /\ fopen(d, p, mode) = NULL => Met(d, p).errno = NULL
<1> DEFINE s == stat(d, p)
           c == Components(p)
<1>1. DiskOK(AfterFopen(d, p, mode))
  <2> HIDE DEF c
  <2>1. AfterFopen(d, p, mode) \in {d, [d EXCEPT ![c] = "reg"]}
    BY DEF AfterFopen, c
  <2>2. DiskOK([d EXCEPT ![c] = "reg"])
    BY DEF DiskOK, Kinds
  <2> QED
    BY <2>1, <2>2
<1>2. ASSUME mode = "READ", s.errno # NULL PROVE fopen(d, p, mode) = s.errno
  <2> HIDE DEF s
  <2> QED
    BY <1>2 DEF fopen, s
<1>3. s.errno = Met(d, p).errno
  BY StatIs
<1> QED
  BY <1>1, <1>2, <1>3

(* The working directory is canonical but for the root's slash, and fits   *)
(* its buffer.                                                             *)
CwdOK(w) ==
  /\ w \in [path : Seq(Tokens), length : Nat, alloced_size : Nat]
  /\ PlaceOf(w.path) \in Seq(Names) /\ w.path = Place(PlaceOf(w.path))
  /\ Len(w.path) + 1 <= w.alloced_size

(* vfs_set_cwd of a canonical path.                                        *)
LEMMA SetCwdIs ==
  ASSUME NEW old \in [path : Seq(Tokens) \cup {NULL}, length : Nat, alloced_size : Nat],
         NEW p \in CanonicalPaths, NEW w, w = vfs_set_cwd(old, p)
  PROVE  CwdOK(w) /\ PlaceOf(w.path) = PlaceOf(p)
<1>1. p \in Seq(Tokens) /\ PlaceOf(p) \in Seq(Names) /\ p = Render(PlaceOf(p))
  BY DEF CanonicalPaths
<1> DEFINE c == PlaceOf(p)
           t == truncate_trailing_slash(p)
<1>2. c \in Seq(Names) /\ t = Place(c) /\ PlaceOf(Place(c)) = c
  BY <1>1, RenderIs
<1>3. t \in Seq(Tokens) /\ Len(t) <= Len(p) /\ Len(t) \in Nat /\ Len(p) \in Nat
  <2>1. PICK n \in 0 .. Len(p) : t = SubSeq(p, 1, n)
    BY <1>1, TruncateEnds
  <2> HIDE DEF t
  <2> QED
    BY <1>1, <2>1
<1> HIDE DEF c, t
<1>4. /\ w \in [path : Seq(Tokens), length : Nat, alloced_size : Nat]
      /\ w.path = t /\ Len(p) + 1 <= w.alloced_size
  <2>1. CASE Grows(old, p)
    <3>1. w = [path |-> t, length |-> Len(p), alloced_size |-> Len(p) + 1]
      BY <2>1 DEF vfs_set_cwd, t
    <3> QED
      BY <1>3, <3>1
  <2>2. CASE ~Grows(old, p)
    <3>1. w = [old EXCEPT !.path = t]
      BY <2>2 DEF vfs_set_cwd, t
    <3> QED
      BY <1>3, <2>2, <3>1 DEF Grows
  <2> QED
    BY <2>1, <2>2
<1>5. PlaceOf(w.path) = c /\ w.path = Place(c) /\ Len(w.path) + 1 <= w.alloced_size
  BY <1>2, <1>3, <1>4
<1> QED
  BY <1>2, <1>4, <1>5 DEF CwdOK, c

-----------------------------------------------------------------------------
(* The inductive invariant.                                                *)
IInv ==
  /\ DiskOK(disk) /\ CwdOK(cwd) /\ HInv
  /\ current_count \in Nat /\ changes \in 0 .. MaxChanges /\ alive \in BOOLEAN

(* The invariant's parts are the properties the runs check.                *)
LEMMA InvariantGives == IInv => TypeOK /\ NoHandleLeak /\ CwdFitsBuffer
BY DEF IInv, DiskOK, CwdOK, CwdFitsBuffer, HInv, HandleTypes, TypeOK, Free

(* What vfs_open_node refuses with is a reply.                             *)
LEMMA NodeErrorIs ==
  ASSUME NEW virtual, NEW lookup
  PROVE  NodeError(virtual, lookup) \in Replies \cup {NULL}
BY DEF NodeError, Filtered, Replies

(* A path is refused, or its handle entered.                               *)
LEMMA OpenNodeKeeps ==
  ASSUME IInv, NEW path \in Requests, vfs_open_node(path) PROVE HInv'
<1> DEFINE virtual == sanitize_path(cwd.path, path)
           lookup == vfs_lookup(Table, Data, virtual)
           error == NodeError(virtual, lookup)
<1>1. TypeOK /\ HInv /\ call = NULL /\ cwd' = cwd
  BY InvariantGives DEF IInv, vfs_open_node, Idle
<1>2. CASE Refuse(error)
  <2>1. reply' \in Replies
    BY <1>2, NodeErrorIs DEF Refuse, Replies
  <2>2. call' = NULL /\ handle' = handle
    BY <1>1, <1>2 DEF Refuse
  <2>3. CASE Ids # {}
    BY <1>1, <2>1, <2>2, <2>3, IdleKeeps
  <2>4. CASE Ids = {}
    BY <1>1, <2>1, <2>2, <2>4, NullIsNoRecord
       DEF HInv, HandleTypes, NoHandleLeak, HandlesOK, WritersOK, CallOK
  <2> QED
    BY <2>3, <2>4
<1>3. ASSUME NEW op \in Operations, NEW mode \in Modes, error = NULL,
             Enter(op, NewHandle(mode, virtual, lookup))
      PROVE  HInv'
  <2> DEFINE r == NewHandle(mode, virtual, lookup)
  <2>1. /\ r \in Handles /\ HandleOK(r) /\ r.holder = "call"
        /\ PlaceOf(r.virtual_path) = Walk(PlaceOf(cwd.path), path)
    BY <1>1, <1>3, NewHandleOK
  <2>2. Enter(op, r)
    BY <1>3
  <2> HIDE DEF r, virtual, lookup
  <2>3. PICK g \in Free :
          /\ handle' = [handle EXCEPT ![g] = r]
          /\ call' = [op |-> op, handle |-> g, next |-> 1,
                      phase |-> IF ChecksSymlinks(r) THEN "lstat" ELSE "act"]
          /\ reply' = NULL
    <3>1. Free \in SUBSET Nat /\ Free # {}
      BY <2>2 DEF Free, Ids, Enter
    <3>2. \E h \in Free : \A k \in Free : h <= k
      BY <3>1, Smallest
    <3> QED
      BY <2>2, <3>2 DEF Enter
  <2>4. g \in Ids /\ handle[g] = NULL /\ handle \in [Ids -> Handles \cup {NULL}] /\ r # NULL
    BY <1>1, <2>1, NullIsNoRecord DEF Free, HInv, HandleTypes
  <2>5. /\ handle' \in [Ids -> Handles \cup {NULL}]
        /\ handle'[g] = r /\ \A h \in Ids \ {g} : handle'[h] = handle[h]
    BY <2>1, <2>3, <2>4
  <2>6. /\ call' \in Calls /\ call' # NULL /\ call'.handle = g /\ call'.phase # "fopen"
    BY <2>3, <2>4, NullIsNoRecord DEF Calls
  <2>7. HandleTypes'
    BY <2>3, <2>4, <2>5, <2>6 DEF HandleTypes
  <2>8. NoHandleLeak'
    BY <1>1, <2>5, <2>6 DEF HInv, NoHandleLeak
  <2>9. CallOK'
    BY <1>1, <2>1, <2>5, <2>6 DEF CallOK
  <2>10. HandlesOK'
    <3>1. ASSUME NEW h \in Ids, handle'[h] # NULL PROVE HandleOK(handle'[h])
      BY <1>1, <2>1, <2>5, <3>1 DEF HInv, HandlesOK
    <3> QED
      BY <3>1 DEF HandlesOK, HandleOK
  <2>11. WritersOK'
    <3>1. ASSUME NEW h \in Ids, handle'[h] # NULL, Checked(h)', handle'[h].mode # "READ"
          PROVE  "READ_ONLY" \notin handle'[h].flags
      <4>1. h # g /\ Checked(h) /\ handle'[h] = handle[h]
        BY <1>1, <2>1, <2>5, <2>6, <3>1 DEF Checked
      <4> QED
        BY <1>1, <3>1, <4>1 DEF HInv, WritersOK
    <3> QED
      BY <3>1 DEF WritersOK
  <2> QED
    BY <2>7, <2>8, <2>9, <2>10, <2>11 DEF HInv
<1>4. \/ Refuse(error)
      \/ /\ error = NULL
         /\ \/ \E op \in Operations \ {"open"} : Enter(op, NewHandle("READ", virtual, lookup))
            \/ \E mode \in Modes : Enter("open", NewHandle(mode, virtual, lookup))
  BY DEF vfs_open_node
<1> HIDE DEF error, virtual, lookup
<1> QED
  BY <1>2, <1>3, <1>4 DEF Operations, Modes

(* One lstat of the symlink check: the check goes on, or the call ends.    *)
LEMMA LstatKeeps ==
  ASSUME IInv, LstatOne PROVE HInv'
<1>1. HInv /\ call # NULL /\ call \in Calls /\ call.next \in Nat /\ cwd' = cwd
  BY DEF IInv, HInv, HandleTypes, Calls, LstatOne, InPhase
<1>2. CASE CheckEnds /\ UNCHANGED <<handle, reply>>
  <2>1. call' = [call EXCEPT !.next = call.next, !.phase = "act"]
    BY <1>1, <1>2 DEF CheckEnds, Calls
  <2> QED
    BY <1>1, <1>2, <2>1, GoesOnKeeps
<1>3. ASSUME NEW j \in 1 .. Len(Current.mapped_path), CheckGoesOn(j), UNCHANGED <<handle, reply>>
      PROVE  HInv'
  <2>1. call' = [call EXCEPT !.next = j + 1, !.phase = call.phase] /\ call.phase = "lstat"
    BY <1>1, <1>3 DEF CheckGoesOn, Calls, LstatOne, InPhase
  <2>2. j + 1 \in Nat
    OBVIOUS
  <2> QED
    BY <1>1, <1>3, <2>1, <2>2, GoesOnKeeps
<1>4. CASE Finish("INTERNAL_ERROR") \/ Finish("NO_SUCH_FILE_OR_DIRECTORY")
  BY <1>1, <1>4, FinishKeeps DEF Replies
<1>5. CASE Current.mapped_path = <<>>
  BY <1>2, <1>5 DEF LstatOne
<1>6. CASE Current.mapped_path # <<>>
  <2>1. PICK j \in 1 .. Len(Current.mapped_path) :
          LET met == lstat(disk, CutPath(Current.mapped_path, j))
          IN  CASE met.errno = "ENOENT" -> CheckEnds /\ UNCHANGED <<handle, reply>>
                [] met.errno \notin {NULL, "ENOENT"} -> Finish("INTERNAL_ERROR")
                [] met.kind \in {"link", "linkdir"} -> Finish("NO_SUCH_FILE_OR_DIRECTORY")
                [] OTHER ->
                     /\ IF j = Len(Current.mapped_path) THEN CheckEnds ELSE CheckGoesOn(j)
                     /\ UNCHANGED <<handle, reply>>
    BY <1>6 DEF LstatOne
  <2>2. \/ (CheckEnds \/ CheckGoesOn(j)) /\ UNCHANGED <<handle, reply>>
        \/ Finish("INTERNAL_ERROR") \/ Finish("NO_SUCH_FILE_OR_DIRECTORY")
    BY <2>1
  <2> QED
    BY <1>2, <1>3, <1>4, <2>2
<1> QED
  BY <1>5, <1>6

(* What stat's errors become.                                              *)
LEMMA ErrnoIs ==
  ASSUME NEW errno PROVE vfs_errno_to_vfs_error(errno) \in Replies \ {"OK"}
BY DEF vfs_errno_to_vfs_error, Replies

(* The operations that give their handle up at once.                       *)
LEMMA ChdirKeeps ==
  ASSUME IInv, Chdir PROVE HInv'
<1>1. HInv /\ call # NULL
  BY DEF IInv, Chdir, InPhase
<1>2. PICK code \in Replies : Finish(code)
  BY ErrnoIs DEF Chdir, Replies
<1> QED
  BY <1>1, <1>2, FinishKeeps

(* vfs_stat's node keeps the handles and the operation in progress.        *)
LEMMA StatNodeKeeps ==
  ASSUME IInv, StatNode PROVE HInv'
<1>1. HInv /\ call # NULL
  BY DEF IInv, StatNode, InPhase
<1>2. PICK code \in Replies : Finish(code)
  BY ErrnoIs DEF StatNode, Replies
<1> QED
  BY <1>1, <1>2, FinishKeeps

(* vfs_opendir delivers a directory's handle.                              *)
LEMMA OpendirKeeps ==
  ASSUME IInv, Opendir PROVE HInv'
<1> DEFINE stream == opendir(disk, Current.mapped_path) = NULL
<1>1. HInv /\ call # NULL /\ DiskOK(disk) /\ stream \in BOOLEAN
  BY DEF IInv, Opendir, InPhase
<1>2. Found(disk, Current.mapped_path) \in [kind : Kinds, link : BOOLEAN]
  BY <1>1, StatIs
<1>3. Deliver("DIR", stream, disk)
  BY DEF Opendir
<1> HIDE DEF stream
<1> QED
  BY <1>1, <1>2, <1>3, DeliverKeeps

(* vfs_open goes on to fopen for reading or off read-only places only.     *)
LEMMA OpenStatKeeps ==
  ASSUME IInv, OpenStat PROVE HInv'
<1> DEFINE refusal == OpenRefusal(Stat, Current.flags, Current.mode)
           r == [Current EXCEPT !.stat = Stat.errno = NULL]
<1>1. HInv /\ call # NULL /\ call.handle \in Ids /\ handle \in [Ids -> Handles \cup {NULL}]
      /\ Current \in Handles
  BY NullIsNoRecord DEF IInv, OpenStat, InPhase, HInv, HandleTypes, Calls, Current
<1>2. refusal \in Replies \cup {NULL}
  BY ErrnoIs DEF OpenRefusal, Replies
<1>3. CASE refusal # NULL
  <2>1. Finish(refusal)
    BY <1>3 DEF OpenStat
  <2> HIDE DEF refusal
  <2> QED
    BY <1>1, <1>2, <1>3, <2>1, FinishKeeps
<1>4. CASE refusal = NULL
  <2>1. /\ call' = [call EXCEPT !.phase = "fopen"] /\ UNCHANGED <<cwd, reply>>
        /\ handle' = [handle EXCEPT ![call.handle].stat = Stat.errno = NULL]
    BY <1>4 DEF OpenStat
  <2>2. handle' = [handle EXCEPT ![call.handle] = r]
    BY <1>1, <2>1 DEF Current
  <2>3. Current.mode # "READ" => "READ_ONLY" \notin Current.flags
    BY <1>4, ErrnoIs, NullIsNoRecord DEF OpenRefusal, Replies
  <2>4. (Stat.errno = NULL) \in BOOLEAN
    OBVIOUS
  <2>5. Same(r, Current) /\ r.holder = Current.holder /\ r.type = Current.type
    <3> DEFINE b == Stat.errno = NULL
               q == Current
    <3>1. b \in BOOLEAN /\ q \in Handles
      BY <1>1
    <3> HIDE DEF b, q
    <3>2. LET n == [q EXCEPT !.stat = b]
          IN  Same(n, q) /\ n.holder = q.holder /\ n.type = q.type
      BY <3>1 DEF Handles, Same
    <3> QED
      BY <3>2 DEF b, q
  <2>6. r.mode # "READ" => "READ_ONLY" \notin r.flags
    BY <2>3, <2>5 DEF Same
  <2> HIDE DEF r
  <2> QED
    BY <1>1, <2>1, <2>2, <2>5, <2>6, MarkKeeps
<1> QED
  BY <1>3, <1>4

(* fopen delivers a file's handle, on the disk it leaves, or fails.        *)
LEMMA FopenKeeps ==
  ASSUME IInv, Fopen PROVE HInv' /\ DiskOK(disk')
<1>1. HInv /\ call # NULL /\ DiskOK(disk) /\ call.phase = "fopen"
  BY DEF IInv, Fopen, InPhase
<1>2. CASE disk' = AfterFopen(disk, Current.mapped_path, Current.mode)
           /\ Deliver("FILE", TRUE, disk')
  <2>1. DiskOK(disk')
    BY <1>1, <1>2, FopenIs
  <2>2. Found(disk', Current.mapped_path) \in [kind : Kinds, link : BOOLEAN]
    BY <2>1, StatIs
  <2>3. HInv'
    BY <1>1, <1>2, <2>2, DeliverKeeps
  <2> QED
    BY <2>1, <2>3
<1>3. ASSUME NEW code \in Replies, Finish(code), disk' = disk PROVE HInv' /\ DiskOK(disk')
  BY <1>1, <1>3, FinishKeeps
<1> QED
  BY <1>2, <1>3, ErrnoIs DEF Fopen, Replies

(* Another process's change leaves a mark on the handle of a call.         *)
LEMMA ChangeKeeps ==
  ASSUME IInv, NEW d \in Disks, ChangeDisk(d) PROVE HInv'
<1>1. HInv /\ UNCHANGED <<cwd, call, reply>>
  BY DEF IInv, ChangeDisk
<1>2. CASE call = NULL
  BY <1>1, <1>2 DEF ChangeDisk, HInv, HandleTypes, NoHandleLeak, HandlesOK, HandleOK,
                    WritersOK, Checked, CallOK
<1>3. CASE call # NULL
  <2> DEFINE q == Current
             r == [q EXCEPT !.raced = TRUE]
  <2>1. call.handle \in Ids /\ handle \in [Ids -> Handles \cup {NULL}] /\ q \in Handles
    BY <1>1, <1>3, NullIsNoRecord DEF HInv, HandleTypes, Calls, Current
  <2>2. handle' = [handle EXCEPT ![call.handle].raced = TRUE]
    BY <1>3 DEF ChangeDisk
  <2>3. handle' = [handle EXCEPT ![call.handle] = r]
    BY <2>1, <2>2 DEF Current
  <2> HIDE DEF q
  <2>4. Same(r, q) /\ r.holder = q.holder /\ r.type = q.type
    BY <2>1 DEF Handles, Same
  <2> HIDE DEF r
  <2> QED
    BY <1>1, <1>3, <2>3, <2>4, MarkKeeps DEF q
<1> QED
  BY <1>2, <1>3

-----------------------------------------------------------------------------
(* Every step keeps what is known of the handles.                          *)
LEMMA HandlesStep ==
  ASSUME IInv, [Next]_vars PROVE HInv'
<1>1. ASSUME NEW path \in Requests, vfs_open_node(path) PROVE HInv'
  BY <1>1, OpenNodeKeeps
<1>2. CASE LstatOne
  BY <1>2, LstatKeeps
<1>3. CASE Chdir
  BY <1>3, ChdirKeeps
<1>4. CASE Opendir
  BY <1>4, OpendirKeeps
<1>5. CASE OpendirDies
  BY <1>5 DEF OpendirDies, IInv, HInv, HandleTypes, NoHandleLeak, HandlesOK, HandleOK,
              WritersOK, Checked, CallOK
<1>6. CASE StatNode
  BY <1>6, StatNodeKeeps
<1>7. CASE OpenStat
  BY <1>7, OpenStatKeeps
<1>8. CASE Fopen
  BY <1>8, FopenKeeps
<1>9. ASSUME NEW h \in Ids, vfs_read(h) \/ vfs_write(h) \/ Close(h) PROVE HInv'
  <2>1. HInv /\ call = NULL /\ call' = NULL
    BY <1>9 DEF IInv, vfs_read, vfs_write, Close, Idle
  <2>2. reply' \in Replies
    BY <1>9 DEF vfs_read, vfs_write, Close, TransferReply, Replies
  <2>3. handle' = handle \/ handle' = [handle EXCEPT ![h] = NULL]
    BY <1>9 DEF vfs_read, vfs_write, Close, vfs_close_handle
  <2> QED
    BY <2>1, <2>2, <2>3, IdleKeeps
<1>10. ASSUME NEW d \in Disks, ChangeDisk(d) PROVE HInv'
  BY <1>10, ChangeKeeps
<1>11. CASE UNCHANGED vars
  BY <1>11 DEF vars, IInv, HInv, HandleTypes, NoHandleLeak, HandlesOK, HandleOK,
               WritersOK, Checked, CallOK
<1> QED
  BY <1>1, <1>2, <1>3, <1>4, <1>5, <1>6, <1>7, <1>8, <1>9, <1>10, <1>11 DEF Next, InCall

(* The working directory stays, or becomes the place of the operation's    *)
(* handle, which only a successful vfs_chdir does.                         *)
LEMMA CwdStep ==
  ASSUME IInv, [Next]_vars
  PROVE  \/ cwd' = cwd
         \/ /\ call # NULL /\ reply' = "OK" /\ CwdOK(cwd')
            /\ PlaceOf(cwd'.path) = PlaceOf(Current.virtual_path)
<1>1. CASE Chdir
  <2>1. cwd' = cwd \/ (cwd' = vfs_set_cwd(cwd, Current.virtual_path) /\ Finish("OK"))
    BY <1>1 DEF Chdir
  <2>2. ASSUME cwd' = vfs_set_cwd(cwd, Current.virtual_path), Finish("OK")
        PROVE  /\ call # NULL /\ reply' = "OK" /\ CwdOK(cwd')
               /\ PlaceOf(cwd'.path) = PlaceOf(Current.virtual_path)
    <3>1. call # NULL /\ reply' = "OK"
      BY <1>1, <2>2 DEF Chdir, InPhase, Finish
    <3>2. Current \in Handles
      BY <3>1, NullIsNoRecord DEF IInv, HInv, HandleTypes, Calls, Current
    <3>3. Current.virtual_path \in CanonicalPaths
      BY <3>2 DEF Handles
    <3>4. cwd \in [path : Seq(Tokens) \cup {NULL}, length : Nat, alloced_size : Nat]
      BY DEF IInv, CwdOK
    <3> QED
      BY <2>2, <3>1, <3>3, <3>4, SetCwdIs
  <2> QED
    BY <2>1, <2>2
<1>2. CASE ~Chdir
  BY <1>2 DEF Next, InCall, vfs_open_node, LstatOne, Opendir, OpendirDies, StatNode, OpenStat,
              Fopen, vfs_read, vfs_write, Close, ChangeDisk, vars
<1> QED
  BY <1>1, <1>2

(* The disk stays a disk, the counters in range.                           *)
LEMMA DiskStep ==
  ASSUME IInv, [Next]_vars
  PROVE  /\ DiskOK(disk') /\ current_count' \in Nat
         /\ changes' \in 0 .. MaxChanges /\ alive' \in BOOLEAN
<1>1. CASE Fopen
  <2>1. DiskOK(disk')
    BY <1>1, FopenKeeps
  <2> QED
    BY <1>1, <2>1 DEF Fopen, IInv
<1>2. ASSUME NEW d \in Disks, ChangeDisk(d)
      PROVE  DiskOK(disk') /\ UNCHANGED <<current_count, alive>> /\ changes' \in 0 .. MaxChanges
  <2>1. DiskOK(d)
    BY OpenAssumption DEF DiskOK
  <2>2. changes' \in 0 .. MaxChanges
    BY <1>2, OpenAssumption DEF ChangeDisk, IInv
  <2> QED
    BY <1>2, <2>1, <2>2 DEF ChangeDisk
<1>3. CASE ~Fopen /\ ~(\E d \in Disks : ChangeDisk(d))
  BY <1>3 DEF Next, InCall, vfs_open_node, LstatOne, Chdir, Opendir, OpendirDies, StatNode,
              OpenStat, vfs_read, vfs_write, Close, Unchanged, vars, IInv
<1> QED
  BY <1>1, <1>2, <1>3 DEF IInv

(* The working directory is the root at first.                             *)
LEMMA CwdInit == Init => CwdOK(cwd) /\ PlaceOf(cwd.path) = <<>>
<1> SUFFICES ASSUME Init PROVE CwdOK(cwd) /\ PlaceOf(cwd.path) = <<>>
  OBVIOUS
<1> DEFINE old == [path |-> NULL, length |-> 0, alloced_size |-> 0]
<1>1. old \in [path : Seq(Tokens) \cup {NULL}, length : Nat, alloced_size : Nat]
  OBVIOUS
<1>2. cwd = vfs_set_cwd(old, <<Slash>>)
  BY DEF Init
<1>3. <<Slash>> \in CanonicalPaths /\ PlaceOf(<<Slash>>) = <<>>
  <2>1. <<>> \in Seq(Names) /\ Render(<<>>) = <<Slash>>
    BY DEF Render
  <2> QED
    BY <2>1, CanonicalIs
<1> HIDE DEF old
<1> QED
  BY <1>1, <1>2, <1>3, SetCwdIs

(* The invariant holds at first.                                           *)
LEMMA InvariantInit == Init => IInv
<1> SUFFICES ASSUME Init PROVE IInv
  OBVIOUS
<1>1. DiskOK(disk)
  BY OpenAssumption DEF Init, DiskOK
<1>2. CwdOK(cwd)
  BY CwdInit
<1>3. HInv
  BY NullIsNoRecord DEF Init, HInv, HandleTypes, NoHandleLeak, HandlesOK, WritersOK, CallOK,
                        Replies
<1>4. current_count \in Nat /\ changes \in 0 .. MaxChanges /\ alive \in BOOLEAN
  BY OpenAssumption DEF Init
<1> QED
  BY <1>1, <1>2, <1>3, <1>4 DEF IInv

(* Every step keeps it.                                                    *)
LEMMA InvariantStep == IInv /\ [Next]_vars => IInv'
<1> SUFFICES ASSUME IInv, [Next]_vars PROVE IInv'
  OBVIOUS
<1>1. HInv'
  BY HandlesStep
<1>2. CwdOK(cwd')
  <2>1. CwdOK(cwd)
    BY DEF IInv
  <2> QED
    BY <2>1, CwdStep
<1> QED
  BY <1>1, <1>2, DiskStep DEF IInv, DiskOK, CwdOK

(* The invariant holds in every behaviour.                                 *)
LEMMA Invariance == Spec => []IInv
BY InvariantInit, InvariantStep, PTL DEF Spec

-----------------------------------------------------------------------------
(* Handles, the working directory and the operation in progress are well   *)
(* formed, and all their paths are canonical, whatever paths clients spell *)
(* and whatever happens to the disk.                                       *)
THEOREM TypesAreKept == Spec => []TypeOK
BY Invariance, InvariantGives, PTL

(* No way that an operation returns leaves a handle that neither a caller  *)
(* holds nor the operation in progress.                                    *)
THEOREM HandlesHaveHolders == Spec => []NoHandleLeak
BY Invariance, InvariantGives, PTL

(* The working directory always fits the buffer strcpy copies it to.       *)
THEOREM CwdNeverOverflows == Spec => []CwdFitsBuffer
BY Invariance, InvariantGives, PTL

(* Callers hold handles on places only that the filters show.              *)
THEOREM FiltersAreKept == Spec => []FiltersHold
<1>1. IInv => FiltersHold
  BY DEF IInv, HInv, HandlesOK, HandleOK, FiltersHold, Held
<1> QED
  BY <1>1, Invariance, PTL

(* What a step creates, empties or writes is of no read-only place.        *)
LEMMA TouchedStep ==
  ASSUME IInv, Next PROVE ReadOnlyHolds'
<1> DEFINE Writable(path) == ~Has(PlaceOf(path), "READ_ONLY")
<1>1. ASSUME NEW h \in Ids, handle[h] # NULL, Checked(h), handle[h].mode # "READ"
      PROVE  Writable(handle[h].virtual_path)
  BY <1>1 DEF IInv, HInv, WritersOK, HandlesOK, HandleOK
<1> HIDE DEF Writable
<1>2. CASE Fopen
  <2> DEFINE p == Current.mapped_path
             mode == Current.mode
  <2>1. call # NULL /\ call.handle \in Ids /\ Current # NULL /\ Checked(call.handle)
    BY <1>2 DEF Fopen, InPhase, IInv, HInv, HandleTypes, Calls, Checked, Current
  <2>2. \/ touched' = NULL
        \/ /\ fopen(disk, p, mode) = NULL
           /\ Met(disk, p).errno # NULL \/ mode = "WRITE"
           /\ touched' = [path |-> Current.virtual_path, created |-> Met(disk, p).errno # NULL]
    BY <1>2 DEF Fopen
  <2>3. CASE touched' # NULL
    <3>1. mode # "READ"
      <4>1. DiskOK(disk)
        BY DEF IInv
      <4> HIDE DEF p, mode
      <4> QED
        BY <2>2, <2>3, <4>1, FopenIs
    <3>2. Writable(Current.virtual_path)
      BY <1>1, <2>1, <3>1 DEF Current
    <3>3. touched'.path = Current.virtual_path
      BY <2>2, <2>3
    <3> QED
      BY <3>2, <3>3 DEF ReadOnlyHolds, Writable
  <2> QED
    BY <2>3 DEF ReadOnlyHolds
<1>3. ASSUME NEW h \in Ids, vfs_write(h) PROVE ReadOnlyHolds'
  <2>1. handle[h] # NULL /\ handle[h] \in Handles /\ call = NULL
    BY <1>3 DEF vfs_write, Idle, IInv, HInv, HandleTypes
  <2>2. handle[h].holder = "caller"
    BY <2>1 DEF IInv, HInv, NoHandleLeak, Handles
  <2>3. \/ touched' = NULL
        \/ /\ handle[h].type = "FILE" /\ handle[h].mode # "READ"
           /\ touched' = [path |-> handle[h].virtual_path, created |-> FALSE]
    BY <1>3 DEF vfs_write
  <2>4. CASE touched' # NULL
    <3>1. Writable(handle[h].virtual_path)
      BY <1>1, <2>1, <2>2, <2>3, <2>4 DEF Checked
    <3>2. touched'.path = handle[h].virtual_path
      BY <2>3, <2>4
    <3> QED
      BY <3>1, <3>2 DEF ReadOnlyHolds, Writable
  <2> QED
    BY <2>4 DEF ReadOnlyHolds
<1>4. CASE ~Fopen /\ ~(\E h \in Ids : vfs_write(h))
  <2>1. touched' = NULL
    BY <1>4 DEF Next, InCall, vfs_open_node, LstatOne, Chdir, Opendir, OpendirDies, StatNode,
                OpenStat, vfs_read, Close, ChangeDisk, Unchanged
  <2> QED
    BY <2>1 DEF ReadOnlyHolds
<1> QED
  BY <1>2, <1>3, <1>4

(* No file is ever created, emptied or written at a place whose nearest    *)
(* say is READ_ONLY, through any path a client spells, any mode and any    *)
(* race with the disk.                                                     *)
THEOREM ReadOnlyIsKept == Spec => []ReadOnlyHolds
<1>1. Init => IInv /\ ReadOnlyHolds
  BY InvariantInit DEF Init, ReadOnlyHolds
<1>2. IInv /\ ReadOnlyHolds /\ [Next]_vars => IInv' /\ ReadOnlyHolds'
  <2>1. ReadOnlyHolds /\ UNCHANGED vars => ReadOnlyHolds'
    BY DEF ReadOnlyHolds, vars
  <2> QED
    BY <2>1, InvariantStep, TouchedStep
<1> QED
  BY <1>1, <1>2, PTL DEF Spec

-----------------------------------------------------------------------------
(* An answer that is an error comes with the working directory as it was,  *)
(* and with no handle that the caller did not hold.                        *)
LEMMA ErrorsStep ==
  ASSUME IInv, [Next]_vars, reply' # reply, reply' \notin {NULL, "OK"}
  PROVE  UNCHANGED cwd /\ Held' \subseteq Held
<1>1. UNCHANGED cwd
  BY CwdStep
<1>2. \/ handle' = handle
      \/ \E h \in Ids : handle' = [handle EXCEPT ![h] = NULL]
  <2>1. ASSUME NEW path \in Requests, vfs_open_node(path) PROVE handle' = handle
    BY <2>1 DEF vfs_open_node, Refuse, Enter
  <2>2. ASSUME NEW code, call # NULL, Finish(code)
        PROVE  \E h \in Ids : handle' = [handle EXCEPT ![h] = NULL]
    BY <2>2 DEF Finish, vfs_close_handle, IInv, HInv, HandleTypes, Calls
  <2>3. CASE LstatOne
    <3>1. call # NULL
      BY <2>3 DEF LstatOne, InPhase
    <3>2. CASE Current.mapped_path = <<>>
      BY <2>3, <3>2 DEF LstatOne
    <3>3. CASE Current.mapped_path # <<>>
      <4>1. \/ UNCHANGED <<handle, reply>>
            \/ Finish("INTERNAL_ERROR") \/ Finish("NO_SUCH_FILE_OR_DIRECTORY")
        <5>1. PICK j \in 1 .. Len(Current.mapped_path) :
                LET met == lstat(disk, CutPath(Current.mapped_path, j))
                IN  CASE met.errno = "ENOENT" -> CheckEnds /\ UNCHANGED <<handle, reply>>
                      [] met.errno \notin {NULL, "ENOENT"} -> Finish("INTERNAL_ERROR")
                      [] met.kind \in {"link", "linkdir"} -> Finish("NO_SUCH_FILE_OR_DIRECTORY")
                      [] OTHER ->
                           /\ IF j = Len(Current.mapped_path) THEN CheckEnds ELSE CheckGoesOn(j)
                           /\ UNCHANGED <<handle, reply>>
          BY <2>3, <3>3 DEF LstatOne
        <5> QED
          BY <5>1
      <4> QED
        BY <2>2, <3>1, <4>1
    <3> QED
      BY <3>2, <3>3
  <2>4. CASE Chdir \/ StatNode
    <3>1. call # NULL /\ \E code : Finish(code)
      BY <2>4 DEF Chdir, StatNode, InPhase
    <3> QED
      BY <2>2, <3>1
  <2>5. CASE Opendir
    BY <2>5 DEF Opendir, Deliver
  <2>6. CASE OpenStat
    <3>1. call # NULL /\ (reply' = reply \/ \E code : Finish(code))
      BY <2>6 DEF OpenStat, InPhase
    <3> QED
      BY <2>2, <3>1
  <2>7. CASE Fopen
    <3>1. call # NULL /\ (reply' = "OK" \/ \E code : Finish(code))
      BY <2>7 DEF Fopen, Deliver, InPhase
    <3> QED
      BY <2>2, <3>1
  <2>8. CASE OpendirDies \/ (\E d \in Disks : ChangeDisk(d)) \/ UNCHANGED vars
    BY <2>8 DEF OpendirDies, ChangeDisk, vars
  <2>9. ASSUME NEW h \in Ids, vfs_read(h) \/ vfs_write(h) \/ Close(h) PROVE handle' = handle
    BY <2>9 DEF vfs_read, vfs_write, Close
  <2> QED
    BY <2>1, <2>3, <2>4, <2>5, <2>6, <2>7, <2>8, <2>9 DEF Next, InCall
<1>3. handle \in [Ids -> Handles \cup {NULL}]
  BY DEF IInv, HInv, HandleTypes
<1>4. \A h \in Ids : handle'[h] # NULL => handle'[h] = handle[h]
  BY <1>2, <1>3
<1> QED
  BY <1>1, <1>4 DEF Held

(* An operation that answers with an error has moved no working directory  *)
(* and left the caller no handle.                                          *)
THEOREM ErrorsAreHarmless == Spec => ErrorsChangeNothing
BY Invariance, ErrorsStep, PTL DEF Spec, ErrorsChangeNothing

(* The refinement of DirCursor: at first the working directory is the      *)
(* root, and a step that moves it goes to where a client's path leads, if  *)
(* the filters show that place.                                            *)
LEMMA CursorWalks ==
  ASSUME NEW c, NEW p PROVE Cursor!Walk(c, p) = Walk(c, p)
BY DEF Cursor!Walk, Walk, Cursor!Follow, Follow, Cursor!FoldLeft, FoldLeft,
       Cursor!MapThenFoldSet, MapThenFoldSet, Cursor!Max, Max, Cursor!Front, Front,
       Cursor!is_absolute_path, is_absolute_path, Cursor!Slash, Slash, Cursor!Dot, Dot,
       Cursor!DotDot, DotDot

(* The cursor starts where the server does.                                *)
LEMMA CursorInit == Init => Cursor!Init
BY CwdInit DEF Cursor!Init

(* A step that moves the working directory walks a request, as the cursor  *)
(* does.                                                                   *)
LEMMA CursorStep == IInv /\ [Next]_vars => [Cursor!Next]_(PlaceOf(cwd.path))
<1> SUFFICES ASSUME IInv, [Next]_vars, PlaceOf(cwd.path)' # PlaceOf(cwd.path)
             PROVE  Cursor!Next
  OBVIOUS
<1>1. call # NULL /\ PlaceOf(cwd'.path) = PlaceOf(Current.virtual_path)
  BY CwdStep
<1>2. PICK p \in Requests :
        PlaceOf(Current.virtual_path) = Walk(PlaceOf(cwd.path), p)
  BY <1>1 DEF IInv, HInv, CallOK, Current
<1>3. Visible(PlaceOf(Current.virtual_path))
  BY <1>1 DEF IInv, HInv, HandleTypes, Calls, HandlesOK, HandleOK, Current
<1>4. /\ PlaceOf(cwd.path)' = Cursor!Walk(PlaceOf(cwd.path), p)
      /\ Visible(PlaceOf(cwd.path)')
  BY <1>1, <1>2, <1>3, CursorWalks
<1> QED
  BY <1>4 DEF Cursor!Next, Cursor!Move, PlaceOf

(* The working directory moves as DirCursor says: along paths that clients *)
(* sent, and to visible places only.                                       *)
THEOREM CursorIsImplemented == Spec => ImplementsCursor
<1>1. Spec => [][Cursor!Next]_(PlaceOf(cwd.path))
  BY Invariance, CursorStep, PTL DEF Spec
<1> QED
  BY <1>1, CursorInit, PTL DEF Spec, ImplementsCursor, Cursor!Spec

-----------------------------------------------------------------------------
(* Links on the way to a place; a place has none, or none that is reached. *)
LinkAt(d, c, k) == KindAt(d, SubSeq(c, 1, k)) \in {"link", "linkdir"}

NoLinks(d, c) == \A k \in 1 .. Len(c) : ~LinkAt(d, c, k)

Shielded(d, c) ==
  \A k \in 1 .. Len(c) :
    LinkAt(d, c, k) => \E l \in 1 .. k - 1 : KindAt(d, SubSeq(c, 1, l)) = "absent"

(* A walk without error passes directories only, and one that ends with    *)
(* ENOENT met a place where there is nothing.                              *)
LEMMA WalkedThrough ==
  ASSUME NEW d, NEW c \in Seq(Tokens), WalkError(d, c) = NULL, NEW k \in 0 .. Len(c) - 1
  PROVE  KindAt(d, SubSeq(c, 1, k)) \in {"dir", "linkdir"}
<1> DEFINE kind(l) == KindAt(d, SubSeq(c, 1, l))
           blocks(l) == kind(l) \notin {"dir", "linkdir"}
           first == CHOOSE l \in 0 .. Len(c) - 1 : blocks(l) /\ \A m \in 0 .. l - 1 : ~blocks(m)
<1>1. WalkError(d, c) =
        IF \E l \in 0 .. Len(c) - 1 : blocks(l)
        THEN CASE kind(first) = "absent" -> "ENOENT"
               [] kind(first) = "locked" -> "EACCES"
               [] OTHER                  -> "ENOTDIR"
        ELSE NULL
  BY DEF WalkError
<1> HIDE DEF kind, first
<1>2. ~\E l \in 0 .. Len(c) - 1 : blocks(l)
  <2> HIDE DEF blocks
  <2> QED
    BY <1>1, NullIsNoErrno DEF Errnos
<1> QED
  BY <1>2 DEF kind

(* A walk that ends with "no such file" has something absent on its way.   *)
LEMMA StoppedByAbsence ==
  ASSUME NEW d, NEW c \in Seq(Tokens), WalkError(d, c) = "ENOENT"
  PROVE  \E k \in 0 .. Len(c) - 1 : KindAt(d, SubSeq(c, 1, k)) = "absent"
<1> DEFINE kind(l) == KindAt(d, SubSeq(c, 1, l))
           blocks(l) == kind(l) \notin {"dir", "linkdir"}
           S == {l \in 0 .. Len(c) - 1 : blocks(l)}
           first == CHOOSE l \in 0 .. Len(c) - 1 : blocks(l) /\ \A m \in 0 .. l - 1 : ~blocks(m)
<1>1. WalkError(d, c) =
        IF \E l \in 0 .. Len(c) - 1 : blocks(l)
        THEN CASE kind(first) = "absent" -> "ENOENT"
               [] kind(first) = "locked" -> "EACCES"
               [] OTHER                  -> "ENOTDIR"
        ELSE NULL
  BY DEF WalkError
<1> HIDE DEF kind, blocks
<1>2. S # {}
  <2> HIDE DEF first
  <2> QED
    BY <1>1, NullIsNoErrno DEF Errnos
<1>3. first \in 0 .. Len(c) - 1
  <2>1. S \in SUBSET Nat /\ Len(c) \in Nat
    OBVIOUS
  <2>2. PICK l \in S : \A m \in S : l <= m
    <3> HIDE DEF S
    <3> QED
      BY <1>2, <2>1, Smallest
  <2>3. \A m \in 0 .. l - 1 : ~blocks(m)
    <3>1. ASSUME NEW m \in 0 .. l - 1 PROVE m \in 0 .. Len(c) - 1 /\ ~(l <= m)
      BY <2>1, <2>2
    <3> QED
      BY <2>2, <3>1
  <2> QED
    BY <2>2, <2>3
<1> HIDE DEF first
<1>4. kind(first) = "absent"
  <2>1. (CASE kind(first) = "absent" -> "ENOENT"
           [] kind(first) = "locked" -> "EACCES"
           [] OTHER                  -> "ENOTDIR") = "ENOENT"
    BY <1>1, <1>2
  <2> QED
    BY <2>1
<1> QED
  BY <1>3, <1>4 DEF kind

(* A place that is reached, and shielded from links, has none.             *)
LEMMA ReachedIsClear ==
  ASSUME NEW d, NEW c \in Seq(Tokens), Shielded(d, c), WalkError(d, c) = NULL
  PROVE  NoLinks(d, c)
<1> SUFFICES ASSUME NEW k \in 1 .. Len(c), LinkAt(d, c, k) PROVE FALSE
  BY DEF NoLinks
<1>1. PICK l \in 1 .. k - 1 : KindAt(d, SubSeq(c, 1, l)) = "absent"
  BY DEF Shielded
<1>2. l \in 0 .. Len(c) - 1
  OBVIOUS
<1> QED
  BY <1>1, <1>2, WalkedThrough

(* One callback of path_split shows at most one name more.                 *)
LEMMA CutGrows ==
  ASSUME NEW m, IsPath(m), NEW i \in 1 .. Len(m), NEW j, NextCut(m, i, j)
  PROVE  LET u == Components(SubSeq(m, 1, i - 1))
             q == CutPath(m, j)
         IN  /\ j \in 1 .. Len(m) /\ q # <<>> /\ (\E k \in 0 .. Len(m) : q = SubSeq(m, 1, k))
             /\ Components(SubSeq(m, 1, j)) = Components(q)
             /\ Components(q) = u \/ \E t \in Tokens : Components(q) = Append(u, t)
<1> DEFINE u == Components(SubSeq(m, 1, i - 1))
           q == CutPath(m, j)
<1>1. /\ m \in Seq(Tokens) /\ Len(m) \in Nat
      /\ \A k \in 1 .. Len(m) - 1 : m[k] = Slash \/ m[k + 1] = Slash
  BY DEF IsPath
<1>2. /\ j \in i .. Len(m) /\ j \in 1 .. Len(m) /\ (m[j] = Slash \/ j = Len(m))
      /\ \A k \in i .. j - 1 : m[k] # Slash
  BY <1>1 DEF NextCut, IsCut
<1>3. Components(SubSeq(m, 1, i)) = u \/ \E t \in Tokens : Components(SubSeq(m, 1, i)) = Append(u, t)
  <2>1. Components(SubSeq(m, 1, i)) = TakeName(u, m[i]) /\ m[i] \in Tokens
    BY <1>1, ComponentsNext
  <2> HIDE DEF u
  <2> QED
    BY <2>1 DEF TakeName
<1>4. CASE m[j] = Slash
  <2>1. Components(SubSeq(m, 1, j)) = Components(SubSeq(m, 1, j - 1))
    BY <1>1, <1>2, <1>4, ComponentsNext DEF TakeName
  <2>2. CASE j = 1
    <3>1. q = SubSeq(m, 1, 1) /\ 1 \in 0 .. Len(m) /\ i = 1 /\ Len(SubSeq(m, 1, 1)) = 1
      BY <1>1, <1>2, <2>2 DEF CutPath
    <3>2. q # <<>>
      BY <3>1
    <3> QED
      BY <1>2, <1>3, <2>2, <3>1, <3>2
  <2>3. CASE j # 1
    <3>1. q = SubSeq(m, 1, j - 1) /\ j - 1 \in 0 .. Len(m) /\ Len(SubSeq(m, 1, j - 1)) = j - 1 /\ j - 1 > 0
      BY <1>1, <1>2, <1>4, <2>3 DEF CutPath
    <3>2. q # <<>>
      BY <3>1
    <3>3. CASE j = i
      BY <1>2, <2>1, <3>1, <3>2, <3>3
    <3>4. CASE j # i
      <4>1. j = i + 1
        <5>1. ASSUME j # i + 1 PROVE FALSE
          <6>1. i \in i .. j - 1 /\ i + 1 \in i .. j - 1 /\ i \in 1 .. Len(m) - 1
            BY <1>1, <1>2, <3>4, <5>1
          <6> QED
            BY <1>1, <1>2, <6>1
        <5> QED
          BY <5>1
      <4>2. j - 1 = i
        BY <4>1
      <4> QED
        BY <1>2, <1>3, <2>1, <3>1, <3>2, <4>2
    <3> QED
      BY <3>3, <3>4
  <2> QED
    BY <2>2, <2>3
<1>5. CASE m[j] # Slash
  <2>1. j = Len(m) /\ q = SubSeq(m, 1, j) /\ j \in 0 .. Len(m) /\ Len(SubSeq(m, 1, j)) = j
    BY <1>1, <1>2, <1>5 DEF CutPath
  <2>2. q # <<>>
    BY <1>2, <2>1
  <2>3. j = i
    <3>1. ASSUME j # i PROVE FALSE
      <4>1. j - 1 \in i .. j - 1 /\ j - 1 \in 1 .. Len(m) - 1 /\ (j - 1) + 1 = j
        BY <1>1, <1>2, <2>1, <3>1
      <4> QED
        BY <1>1, <1>2, <1>5, <4>1
    <3> QED
      BY <3>1
  <2> QED
    BY <1>2, <1>3, <2>1, <2>2, <2>3
<1> QED
  BY <1>4, <1>5

(* lstat of the next directory of a path without links so far: if it is    *)
(* not there, no link of the path is reached; if it is no link, there are  *)
(* no links so far.                                                        *)
LEMMA LstatTells ==
  ASSUME NEW m, IsPath(m), NEW i \in 1 .. Len(m), NEW j, NextCut(m, i, j), NEW d,
         NoLinks(d, Components(SubSeq(m, 1, i - 1)))
  PROVE  LET met == lstat(d, CutPath(m, j))
         IN  /\ met.errno = "ENOENT" => Shielded(d, Components(m))
             /\ met.errno = NULL /\ met.kind \notin {"link", "linkdir"}
                  => NoLinks(d, Components(SubSeq(m, 1, j)))
<1> DEFINE u == Components(SubSeq(m, 1, i - 1))
           q == CutPath(m, j)
           x == Components(q)
           c == Components(m)
           met == lstat(d, q)
<1>1. m \in Seq(Tokens) /\ i - 1 \in 0 .. Len(m)
  BY DEF IsPath
<1>2. /\ j \in 1 .. Len(m) /\ q # <<>> /\ (\E k \in 0 .. Len(m) : q = SubSeq(m, 1, k))
      /\ Components(SubSeq(m, 1, j)) = x
      /\ x = u \/ \E t \in Tokens : x = Append(u, t)
  BY CutGrows
<1>3. PICK k \in 0 .. Len(m) : q = SubSeq(m, 1, k)
  BY <1>2
<1> DEFINE y == Components(SubSeq(m, k + 1, Len(m)))
<1>4. q \in Seq(Tokens) /\ x \in Seq(Tokens) /\ y \in Seq(Tokens) /\ c = x \o y /\ u \in Seq(Tokens)
  <2>1. /\ SubSeq(m, 1, k) \in Seq(Tokens) /\ SubSeq(m, k + 1, Len(m)) \in Seq(Tokens)
        /\ c = x \o y /\ SubSeq(m, 1, i - 1) \in Seq(Tokens)
    BY <1>1, <1>3, ComponentsOfPrefix
  <2> QED
    BY <1>3, <2>1, ComponentsTyped
<1>5. /\ met.errno = NULL => met.kind = KindAt(d, x)
      /\ met = MetAt(d, x)
  <2>1. q # NULL
    BY <1>4, NullAssumption
  <2> HIDE DEF q, x
  <2> QED
    BY <1>2, <2>1, MetIs DEF lstat, x
<1> HIDE DEF u, q, x, c, y, met
<1>6. NoLinks(d, u)
  BY DEF u
<1>7. /\ Len(c) = Len(x) + Len(y) /\ Len(x) \in Nat /\ Len(y) \in Nat /\ Len(u) \in Nat
      /\ \A l \in 0 .. Len(x) : SubSeq(c, 1, l) = SubSeq(x, 1, l)
  BY <1>4
<1>8. /\ Len(x) \in {Len(u), Len(u) + 1}
      /\ \A l \in 0 .. Len(u) : SubSeq(x, 1, l) = SubSeq(u, 1, l)
  BY <1>2, <1>4
<1>9. SubSeq(x, 1, Len(x)) = x
  BY <1>4
<1>10. ASSUME met.errno = NULL, met.kind \notin {"link", "linkdir"} PROVE NoLinks(d, x)
  <2> SUFFICES ASSUME NEW l \in 1 .. Len(x) PROVE ~LinkAt(d, x, l)
    BY DEF NoLinks
  <2>1. CASE l \in 1 .. Len(u)
    <3>1. SubSeq(x, 1, l) = SubSeq(u, 1, l)
      BY <1>7, <1>8, <2>1
    <3> QED
      BY <1>6, <2>1, <3>1 DEF NoLinks, LinkAt
  <2>2. CASE l = Len(x)
    BY <1>5, <1>9, <1>10, <2>2 DEF LinkAt
  <2> QED
    BY <1>7, <1>8, <2>1, <2>2
<1>11. ASSUME met.errno = "ENOENT" PROVE Shielded(d, c)
  <2>1. PICK l \in 0 .. Len(x) : KindAt(d, SubSeq(x, 1, l)) = "absent"
    <3>1. CASE WalkError(d, x) = "ENOENT"
      <4>1. PICK l \in 0 .. Len(x) - 1 : KindAt(d, SubSeq(x, 1, l)) = "absent"
        BY <1>4, <3>1, StoppedByAbsence
      <4>2. l \in 0 .. Len(x)
        BY <1>7
      <4> QED
        BY <4>1, <4>2
    <3>2. CASE WalkError(d, x) # "ENOENT"
      <4>1. KindAt(d, x) = "absent"
        BY <1>5, <1>11, <3>2, NullIsNoErrno DEF MetAt, Failed, Errnos
      <4>2. Len(x) \in 0 .. Len(x)
        BY <1>7
      <4> QED
        BY <1>9, <4>1, <4>2
    <3> QED
      BY <3>1, <3>2
  <2>2. l # 0
    <3>1. SubSeq(x, 1, 0) = <<>>
      BY <1>4
    <3> QED
      BY <2>1, <3>1 DEF KindAt
  <2> SUFFICES ASSUME NEW n \in 1 .. Len(c), LinkAt(d, c, n)
               PROVE  l \in 1 .. n - 1 /\ KindAt(d, SubSeq(c, 1, l)) = "absent"
    BY DEF Shielded
  <2>3. SubSeq(c, 1, l) = SubSeq(x, 1, l)
    BY <1>7
  <2>4. n > Len(u)
    <3>1. ASSUME n \in 1 .. Len(u) PROVE FALSE
      <4>1. SubSeq(c, 1, n) = SubSeq(u, 1, n)
        BY <1>7, <1>8, <3>1
      <4> QED
        BY <1>6, <3>1, <4>1 DEF NoLinks, LinkAt
    <3> QED
      BY <1>7, <3>1
  <2>5. n # l
    BY <2>1, <2>3 DEF LinkAt
  <2>6. Len(x) \in {Len(u), Len(u) + 1} /\ Len(u) \in Nat /\ l \in 0 .. Len(x) /\ n \in Nat
    BY <1>7, <1>8
  <2>7. l \in 1 .. n - 1
    BY <2>2, <2>4, <2>5, <2>6
  <2> QED
    BY <2>1, <2>3, <2>7
<1> QED
  BY <1>2, <1>10, <1>11 DEF x, c, met, q

(* What can be opened without error is reached.                            *)
LEMMA MetIsReached ==
  ASSUME NEW d, NEW p, Met(d, p).errno = NULL
  PROVE  /\ p # NULL /\ p # <<>> /\ WalkError(d, Components(p)) = NULL
         /\ KindAt(d, Components(p)) # "absent"
<1> DEFINE c == Components(p)
<1> HIDE DEF c
<1>1. Met(d, p) = IF p = NULL THEN Failed("EFAULT") ELSE IF p = <<>> THEN Failed("ENOENT") ELSE MetAt(d, c)
  BY MetIs DEF c
<1>2. p # NULL /\ p # <<>> /\ Met(d, p) = MetAt(d, c)
  BY <1>1, NullIsNoErrno DEF Failed, Errnos
<1> QED
  BY <1>2, NullIsNoErrno DEF MetAt, Failed, Errnos, c

(* A path that opendir took leads to a directory, through directories.     *)
LEMMA OpendirReaches ==
  ASSUME NEW d, NEW p, opendir(d, p) = NULL
  PROVE  p # NULL /\ WalkError(d, Components(p)) = NULL
<1> DEFINE s == stat(d, p)
<1>1. opendir(d, p) = IF s.errno = NULL /\ s.kind # "dir" THEN "ENOTDIR" ELSE s.errno
  BY DEF opendir
<1>2. s.errno = Met(d, p).errno
  <2>1. Met(d, p) = [errno |-> Met(d, p).errno, kind |-> Met(d, p).kind]
    BY MetIs
  <2> QED
    BY <2>1 DEF stat
<1> HIDE DEF s
<1>3. Met(d, p).errno = NULL
  BY <1>1, <1>2, NullIsNoErrno DEF Errnos
<1> QED
  BY <1>3, MetIsReached

(* A file that vfs_open's stat lets pass, and fopen opens, is a regular    *)
(* file, or becomes one, and no link led to it unless one was reached.     *)
MayOpen(s) == s.errno \in {NULL, "ENOENT"} /\ (s.errno = NULL => s.kind = "reg")

(* A path that fopen took, and may open, leads to a regular file; a        *)
(* shielded one to no link.                                                *)
LEMMA FopenReaches ==
  ASSUME NEW d, DiskOK(d), NEW p \in Seq(Tokens), NEW mode, MayOpen(stat(d, p)),
         fopen(d, p, mode) = NULL, NEW e, e = AfterFopen(d, p, mode)
  PROVE  /\ Found(e, p).kind = "reg"
         /\ Shielded(d, Components(p)) => ~Found(e, p).link
<1> DEFINE s == stat(d, p)
           c == Components(p)
           makes == /\ mode # "READ" /\ s.errno = "ENOENT" /\ Len(p) > 0
                    /\ WalkError(d, c) = NULL
<1>1. fopen(d, p, mode) =
        CASE makes                            -> IF c \in DOMAIN d THEN NULL ELSE "ENOSPC"
          [] ~makes /\ s.errno # NULL         -> s.errno
          [] mode # "READ" /\ s.kind = "dir"  -> "EISDIR"
          [] OTHER                            -> NULL
  BY DEF fopen
<1>2. /\ s.errno = Met(d, p).errno
      /\ s.kind = Followed(Met(d, p).kind)
  <2>1. Met(d, p) = [errno |-> Met(d, p).errno, kind |-> Met(d, p).kind]
    BY MetIs
  <2> QED
    BY <2>1 DEF stat
<1>3. c \in Seq(Tokens)
  BY ComponentsTyped
<1>4. e = IF mode # "READ" /\ c \in DOMAIN d /\ d[c] = "absent" THEN [d EXCEPT ![c] = "reg"] ELSE d
  BY DEF AfterFopen
<1>5. /\ Found(e, p).kind = stat(e, p).kind
      /\ ~Found(e, p).link <=> NoLinks(e, c)
  BY DEF Found, NoLinks, LinkAt
<1> HIDE DEF c
<1>6. CASE ~makes
  <2>1. s.errno = NULL
    <3> HIDE DEF makes, s
    <3> QED
      BY <1>1, <1>6, NullIsNoErrno DEF Errnos
  <2>2. s.kind = "reg" /\ WalkError(d, c) = NULL /\ KindAt(d, c) # "absent"
    BY <1>2, <2>1, MetIsReached DEF MayOpen, c
  <2>3. e = d
    <3>2. c # <<>>
      <4>1. KindAt(d, <<>>) = "dir" /\ Followed("dir") = "dir"
        BY DEF KindAt, Followed
      <4>2. Met(d, p).kind = KindAt(d, c)
        BY <1>2, <2>1, MetIs DEF c
      <4> QED
        BY <1>2, <2>2, <4>1, <4>2
    <3>1. c \in DOMAIN d => d[c] # "absent"
      BY <2>2, <3>2 DEF KindAt
    <3> QED
      BY <1>4, <3>1
  <2> QED
    BY <1>3, <1>5, <2>2, <2>3, ReachedIsClear DEF c
<1>7. CASE makes
  <2>1. c \in DOMAIN d /\ mode # "READ" /\ s.errno = "ENOENT" /\ WalkError(d, c) = NULL /\ p # <<>>
    <3>1. s.errno = "ENOENT" /\ mode # "READ" /\ WalkError(d, c) = NULL /\ p # <<>>
      BY <1>7
    <3> HIDE DEF makes, s
    <3> QED
      BY <1>1, <1>7, <3>1, NullIsNoErrno DEF Errnos, s
  <2>2. KindAt(d, c) = "absent"
    <3>1. p # NULL
      BY NullAssumption
    <3>2. Met(d, p) = MetAt(d, c)
      BY <2>1, <3>1, MetIs DEF c
    <3>3. MetAt(d, c).errno = "ENOENT"
      BY <1>2, <2>1, <3>2
    <3>4. KindAt(d, c) # "absent" => MetAt(d, c).errno = NULL
      BY <2>1 DEF MetAt
    <3> QED
      BY <3>3, <3>4, NullIsNoErrno DEF Errnos
  <2>3. c # <<>> /\ d[c] = "absent"
    BY <2>1, <2>2 DEF KindAt
  <2>4. e = [d EXCEPT ![c] = "reg"]
    BY <1>4, <2>1, <2>3
  <2>5. KindAt(e, c) = "reg"
    BY <2>1, <2>3, <2>4 DEF KindAt
  <2>6. ASSUME NEW k \in 0 .. Len(c) - 1
        PROVE  KindAt(e, SubSeq(c, 1, k)) = KindAt(d, SubSeq(c, 1, k))
    <3>1. SubSeq(c, 1, k) # c
      <4>1. Len(SubSeq(c, 1, k)) = k /\ k # Len(c)
        BY <1>3
      <4> QED
        BY <4>1
    <3> DEFINE b == SubSeq(c, 1, k)
    <3> HIDE DEF b
    <3>2. KindAt(e, b) = KindAt(d, b)
      BY <2>4, <3>1 DEF KindAt, b
    <3> QED
      BY <3>2 DEF b
  <2>7. WalkError(e, c) = NULL
    <3>1. ASSUME NEW k \in 0 .. Len(c) - 1 PROVE KindAt(e, SubSeq(c, 1, k)) \in {"dir", "linkdir"}
      BY <1>3, <2>1, <2>6, WalkedThrough
    <3> QED
      BY <3>1 DEF WalkError
  <2>8. stat(e, p).kind = "reg"
    <3>1. p # NULL
      BY NullAssumption
    <3>2. Met(e, p) = MetAt(e, c)
      BY <2>1, <3>1, MetIs DEF c
    <3>3. Met(e, p) = [errno |-> NULL, kind |-> "reg"]
      BY <2>5, <2>7, <3>2 DEF MetAt
    <3> QED
      BY <3>3 DEF stat, Followed
  <2>9. ASSUME Shielded(d, c) PROVE NoLinks(e, c)
    <3> SUFFICES ASSUME NEW k \in 1 .. Len(c) PROVE ~LinkAt(e, c, k)
      BY DEF NoLinks
    <3>1. CASE k = Len(c)
      <4>1. SubSeq(c, 1, Len(c)) = c
        BY <1>3
      <4> QED
        BY <2>5, <3>1, <4>1 DEF LinkAt
    <3>2. CASE k # Len(c)
      <4>1. k \in 0 .. Len(c) - 1
        BY <1>3, <3>2
      <4>2. NoLinks(d, c)
        BY <1>3, <2>1, <2>9, ReachedIsClear
      <4> QED
        BY <2>6, <4>1, <4>2 DEF NoLinks, LinkAt
    <3> QED
      BY <3>1, <3>2
  <2> QED
    BY <1>5, <2>8, <2>9 DEF c
<1> QED
  BY <1>6, <1>7

-----------------------------------------------------------------------------
(* What the call in progress, c on the handle r, knows of the disk d, as   *)
(* long as nobody else has changed it: no link led to what lstat has seen, *)
(* none of the whole path can be reached once it has seen all, and what    *)
(* goes on to fopen is a regular file or not there.                        *)
Knows(c, r, d) ==
  LET m == r.mapped_path
  IN  m # NULL =>
        /\ IsPath(m) /\ c.next \in 1 .. Len(m) + 1
        /\ ~r.raced =>
             /\ "ALLOW_SYMLINKS" \notin r.flags =>
                  IF c.phase = "lstat" THEN NoLinks(d, Components(SubSeq(m, 1, c.next - 1)))
                  ELSE Shielded(d, Components(m))
             /\ c.phase = "fopen" => MayOpen(stat(d, m))

CallKnows == call # NULL => Knows(call, Current, disk)

(* What was opened, on a disk that nobody else changed meanwhile.          *)
Opened(r) ==
  r.holder = "caller" /\ r.stream /\ ~r.raced =>
    /\ r.type = "FILE" => r.found.kind = "reg"
    /\ "ALLOW_SYMLINKS" \notin r.flags => ~r.found.link

HeldOpened == \A h \in Ids : handle[h] # NULL => Opened(handle[h])

KInv == CallKnows /\ HeldOpened

(* A call that ends, and handles that are kept, freed or delivered well.   *)
LEMMA EndKeeps ==
  ASSUME HeldOpened, call' = NULL,
         \A h \in Ids : handle'[h] # NULL => handle'[h] = handle[h] \/ Opened(handle'[h])
  PROVE  KInv'
BY DEF KInv, CallKnows, HeldOpened, Opened

(* A call that ends with an error releases its handle and opens nothing.   *)
LEMMA FinishEnds ==
  ASSUME IInv, KInv, call # NULL, NEW code, Finish(code) PROVE KInv'
<1>1. handle \in [Ids -> Handles \cup {NULL}] /\ call.handle \in Ids
  BY DEF IInv, HInv, HandleTypes, Calls
<1>2. handle' = [handle EXCEPT ![call.handle] = NULL] /\ call' = NULL
  BY DEF Finish, vfs_close_handle
<1>3. \A h \in Ids : handle'[h] # NULL => handle'[h] = handle[h]
  BY <1>1, <1>2
<1> QED
  BY <1>2, <1>3, EndKeeps DEF KInv

(* One that ends well opens what the disk then has, unless it was raced.   *)
LEMMA DeliverEnds ==
  ASSUME IInv, KInv, call # NULL, NEW type, NEW stream, NEW d, Deliver(type, stream, d),
         stream /\ ~Current.raced =>
           /\ type = "FILE" => Found(d, Current.mapped_path).kind = "reg"
           /\ "ALLOW_SYMLINKS" \notin Current.flags => ~Found(d, Current.mapped_path).link
  PROVE  KInv'
<1>0. PICK g \in Ids : g = call.handle
  BY DEF IInv, HInv, HandleTypes, Calls
<1> DEFINE q == handle[g]
           found == IF stream THEN Found(d, q.mapped_path) ELSE NULL
           r == [q EXCEPT !.type = type, !.stream = stream, !.holder = "caller", !.found = found]
<1>1. handle \in [Ids -> Handles \cup {NULL}] /\ q \in Handles
  BY <1>0, NullIsNoRecord DEF IInv, HInv, HandleTypes
<1>2. handle' = [handle EXCEPT ![g] = r] /\ call' = NULL
  BY <1>0 DEF Deliver, Current
<1>3. stream /\ ~q.raced =>
        /\ type = "FILE" => found.kind = "reg"
        /\ "ALLOW_SYMLINKS" \notin q.flags => ~found.link
  BY <1>0 DEF Current
<1> HIDE DEF q, found
<1>4. /\ r.stream = stream /\ r.raced = q.raced /\ r.type = type /\ r.flags = q.flags
      /\ r.found = found
  BY <1>1 DEF Handles
<1> HIDE DEF r
<1>5. Opened(r)
  BY <1>3, <1>4 DEF Opened
<1>6. \A h \in Ids : handle'[h] # NULL => handle'[h] = handle[h] \/ Opened(handle'[h])
  BY <1>1, <1>2, <1>5
<1> QED
  BY <1>2, <1>6, EndKeeps DEF KInv

(* A call that goes on with the handles as they are.                       *)
LEMMA OnKeeps ==
  ASSUME KInv, call # NULL, handle' = handle, disk' = disk, call' # NULL,
         call'.handle = call.handle,
         Current.mapped_path # NULL => Knows(call', Current, disk)
  PROVE  KInv'
BY DEF KInv, CallKnows, HeldOpened, Opened, Current, Knows

(* vfs_open_node starts a call that has not looked at the disk yet.        *)
LEMMA OpenNodeKnows ==
  ASSUME IInv, KInv, NEW path \in Requests, vfs_open_node(path) PROVE KInv'
<1> DEFINE virtual == sanitize_path(cwd.path, path)
           lookup == vfs_lookup(Table, Data, virtual)
           error == NodeError(virtual, lookup)
<1>1. TypeOK /\ call = NULL /\ disk' = disk
  BY InvariantGives DEF vfs_open_node, Idle
<1>2. CASE Refuse(error)
  BY <1>1, <1>2, EndKeeps DEF Refuse, KInv
<1>3. ASSUME NEW op \in Operations, NEW mode \in Modes, error = NULL,
             Enter(op, NewHandle(mode, virtual, lookup))
      PROVE  KInv'
  <2> DEFINE r == NewHandle(mode, virtual, lookup)
  <2>1. /\ r \in Handles /\ r.holder = "call"
        /\ r.mapped_path # NULL => IsPath(r.mapped_path)
    BY <1>1, <1>3, NewHandleOK
  <2>2. Enter(op, r)
    BY <1>3
  <2> HIDE DEF r, virtual, lookup
  <2>3. PICK g \in Free :
          /\ handle' = [handle EXCEPT ![g] = r]
          /\ call' = [op |-> op, handle |-> g, next |-> 1,
                      phase |-> IF ChecksSymlinks(r) THEN "lstat" ELSE "act"]
    <3>1. Free \in SUBSET Nat /\ Free # {}
      BY <2>2 DEF Free, Ids, Enter
    <3>2. \E h \in Free : \A k \in Free : h <= k
      BY <3>1, Smallest
    <3> QED
      BY <2>2, <3>2 DEF Enter
  <2>4. g \in Ids /\ handle \in [Ids -> Handles \cup {NULL}]
    BY <1>1 DEF Free, TypeOK
  <2>5. handle'[g] = r /\ \A h \in Ids \ {g} : handle'[h] = handle[h]
    BY <2>3, <2>4
  <2>6. /\ call'.handle = g /\ call'.next = 1
        /\ call'.phase = IF ChecksSymlinks(r) THEN "lstat" ELSE "act"
    BY <2>3
  <2>7. Knows(call', r, disk)
    <3> DEFINE m == r.mapped_path
    <3>1. CASE m # NULL
      <4>1. IsPath(m) /\ 1 \in 1 .. Len(m) + 1
        BY <2>1, <3>1 DEF IsPath
      <4>2. NoLinks(disk, Components(SubSeq(m, 1, 1 - 1)))
        <5>1. SubSeq(m, 1, 1 - 1) = <<>>
          BY <4>1 DEF IsPath
        <5>2. NoLinks(disk, <<>>)
          BY DEF NoLinks
        <5> QED
          BY <5>1, <5>2, ComponentsOfOne
      <4>3. "ALLOW_SYMLINKS" \notin r.flags => call'.phase = "lstat"
        BY <2>6, <3>1 DEF ChecksSymlinks
      <4>4. call'.phase # "fopen"
        BY <2>6
      <4> QED
        BY <2>6, <4>1, <4>2, <4>3, <4>4 DEF Knows
    <3> QED
      BY <3>1 DEF Knows
  <2>8. CallKnows'
    BY <1>1, <2>5, <2>6, <2>7 DEF CallKnows, Current
  <2>9. HeldOpened'
    <3>1. Opened(r)
      BY <2>1 DEF Opened
    <3>2. ASSUME NEW h \in Ids, handle'[h] # NULL PROVE Opened(handle'[h])
      BY <2>5, <3>1, <3>2 DEF KInv, HeldOpened
    <3> QED
      BY <3>2 DEF HeldOpened, Opened
  <2> QED
    BY <2>8, <2>9 DEF KInv
<1>4. \/ Refuse(error)
      \/ /\ error = NULL
         /\ \/ \E op \in Operations \ {"open"} : Enter(op, NewHandle("READ", virtual, lookup))
            \/ \E mode \in Modes : Enter("open", NewHandle(mode, virtual, lookup))
  BY DEF vfs_open_node
<1> HIDE DEF error, virtual, lookup
<1> QED
  BY <1>2, <1>3, <1>4 DEF Operations, Modes

(* One lstat adds to what is known.                                        *)
LEMMA LstatKnows ==
  ASSUME IInv, KInv, LstatOne PROVE KInv'
<1> DEFINE m == Current.mapped_path
           i == call.next
<1>1. /\ call # NULL /\ call \in Calls /\ call.phase = "lstat" /\ disk' = disk
      /\ Knows(call, Current, disk)
  BY DEF IInv, HInv, HandleTypes, LstatOne, InPhase, KInv, CallKnows
<1>2. CASE m = <<>>
  <2>1. call' = [call EXCEPT !.phase = "act"] /\ handle' = handle
    BY <1>2 DEF LstatOne, CheckEnds
  <2>2. /\ call' # NULL /\ call'.handle = call.handle /\ call'.next = call.next
        /\ call'.phase = "act"
    BY <1>1, <2>1, NullIsNoRecord DEF Calls
  <2>3. Shielded(disk, Components(m))
    BY <1>2, ComponentsOfOne DEF Shielded
  <2>4. Knows(call', Current, disk)
    BY <1>1, <2>2, <2>3 DEF Knows
  <2> QED
    BY <1>1, <2>1, <2>2, <2>4, OnKeeps
<1>3. CASE m # <<>>
  <2>1. PICK j \in 1 .. Len(m) :
          /\ NextCut(m, i, j)
          /\ LET met == lstat(disk, CutPath(m, j))
             IN  CASE met.errno = "ENOENT" -> CheckEnds /\ UNCHANGED <<handle, reply>>
                   [] met.errno \notin {NULL, "ENOENT"} -> Finish("INTERNAL_ERROR")
                   [] met.kind \in {"link", "linkdir"} -> Finish("NO_SUCH_FILE_OR_DIRECTORY")
                   [] OTHER ->
                        /\ IF j = Len(m) THEN CheckEnds ELSE CheckGoesOn(j)
                        /\ UNCHANGED <<handle, reply>>
    BY <1>3 DEF LstatOne
  <2> DEFINE met == lstat(disk, CutPath(m, j))
             checks == ~Current.raced /\ "ALLOW_SYMLINKS" \notin Current.flags
  <2>2. \/ met.errno = "ENOENT" /\ CheckEnds /\ handle' = handle
        \/ \E code : Finish(code)
        \/ /\ met.errno = NULL /\ met.kind \notin {"link", "linkdir"} /\ handle' = handle
           /\ IF j = Len(m) THEN CheckEnds ELSE CheckGoesOn(j)
    BY <2>1
  <2>3. ASSUME m # NULL PROVE IsPath(m) /\ i \in 1 .. Len(m) /\ Len(m) \in Nat
    BY <1>1, <2>1, <2>3 DEF Knows, IsPath, NextCut
  <2>4. ASSUME m # NULL, checks
        PROVE  /\ met.errno = "ENOENT" => Shielded(disk, Components(m))
               /\ met.errno = NULL /\ met.kind \notin {"link", "linkdir"}
                    => NoLinks(disk, Components(SubSeq(m, 1, j)))
    <3>1. NoLinks(disk, Components(SubSeq(m, 1, i - 1)))
      BY <1>1, <2>4 DEF Knows
    <3> HIDE DEF m, i
    <3> QED
      BY <2>1, <2>3, <2>4, <3>1, LstatTells
  <2> HIDE DEF met
  <2>5. ASSUME CheckEnds, handle' = handle,
               m # NULL /\ checks => Shielded(disk, Components(m))
        PROVE  KInv'
    <3>1. call' = [call EXCEPT !.phase = "act"]
      BY <2>5 DEF CheckEnds
    <3>2. /\ call' # NULL /\ call'.handle = call.handle /\ call'.next = call.next
          /\ call'.phase = "act"
      BY <1>1, <3>1, NullIsNoRecord DEF Calls
    <3>3. Knows(call', Current, disk)
      BY <1>1, <2>5, <3>2 DEF Knows
    <3> QED
      BY <1>1, <2>5, <3>2, <3>3, OnKeeps
  <2>6. CASE met.errno = NULL /\ met.kind \notin {"link", "linkdir"} /\ handle' = handle
             /\ j = Len(m) /\ CheckEnds
    <3>1. ASSUME m # NULL, checks PROVE Shielded(disk, Components(m))
      <4>1. SubSeq(m, 1, Len(m)) = m
        BY <2>3, <3>1 DEF IsPath
      <4>2. NoLinks(disk, Components(m))
        BY <2>4, <2>6, <3>1, <4>1
      <4> QED
        BY <4>2 DEF NoLinks, Shielded
    <3> QED
      BY <2>5, <2>6, <3>1
  <2>7. CASE met.errno = NULL /\ met.kind \notin {"link", "linkdir"} /\ handle' = handle
             /\ j # Len(m) /\ CheckGoesOn(j)
    <3>1. call' = [call EXCEPT !.next = j + 1]
      BY <2>7 DEF CheckGoesOn
    <3>2. /\ call' # NULL /\ call'.handle = call.handle /\ call'.next = j + 1
          /\ call'.phase = "lstat"
      <4>1. j + 1 \in Nat
        OBVIOUS
      <4> QED
        BY <1>1, <3>1, <4>1, NullIsNoRecord DEF Calls
    <3>3. ASSUME m # NULL PROVE Knows(call', Current, disk)
      <4>1. j + 1 \in 1 .. Len(m) + 1 /\ (j + 1) - 1 = j
        BY <2>3, <3>3
      <4>2. checks => NoLinks(disk, Components(SubSeq(m, 1, (j + 1) - 1)))
        BY <2>4, <2>7, <3>3, <4>1
      <4> QED
        BY <2>3, <3>2, <3>3, <4>1, <4>2 DEF Knows
    <3> QED
      BY <1>1, <2>7, <3>2, <3>3, OnKeeps
  <2> QED
    BY <1>1, <2>2, <2>4, <2>5, <2>6, <2>7, FinishEnds
<1> QED
  BY <1>2, <1>3

(* vfs_opendir opens what the check has seen.                              *)
LEMMA OpendirKnows ==
  ASSUME IInv, KInv, Opendir PROVE KInv'
<1> DEFINE m == Current.mapped_path
           stream == opendir(disk, m) = NULL
<1>1. call # NULL /\ call.phase = "act" /\ Knows(call, Current, disk)
  BY DEF Opendir, InPhase, KInv, CallKnows
<1>2. Deliver("DIR", stream, disk)
  BY DEF Opendir
<1>3. ASSUME stream, ~Current.raced, "ALLOW_SYMLINKS" \notin Current.flags
      PROVE  ~Found(disk, m).link
  <2>1. m # NULL /\ WalkError(disk, Components(m)) = NULL
    BY <1>3, OpendirReaches
  <2>2. Shielded(disk, Components(m)) /\ Components(m) \in Seq(Tokens)
    BY <1>1, <1>3, <2>1, ComponentsTyped DEF Knows, IsPath
  <2>3. NoLinks(disk, Components(m))
    BY <2>1, <2>2, ReachedIsClear
  <2> QED
    BY <2>3 DEF Found, NoLinks, LinkAt
<1> HIDE DEF stream
<1> QED
  BY <1>1, <1>2, <1>3, DeliverEnds

(* vfs_open's stat adds that what is there is a regular file.              *)
LEMMA OpenStatKnows ==
  ASSUME IInv, KInv, OpenStat PROVE KInv'
<1> DEFINE refusal == OpenRefusal(Stat, Current.flags, Current.mode)
           q == Current
           r == [q EXCEPT !.stat = Stat.errno = NULL]
<1>1. /\ call # NULL /\ call.handle \in Ids /\ handle \in [Ids -> Handles \cup {NULL}]
      /\ q \in Handles /\ call \in Calls /\ call.phase = "act" /\ disk' = disk
      /\ Knows(call, q, disk)
  BY NullIsNoRecord
     DEF IInv, OpenStat, InPhase, HInv, HandleTypes, Calls, Current, KInv, CallKnows
<1>2. CASE refusal # NULL
  BY <1>1, <1>2, FinishEnds DEF OpenStat
<1>3. CASE refusal = NULL
  <2>1. /\ call' = [call EXCEPT !.phase = "fopen"]
        /\ handle' = [handle EXCEPT ![call.handle].stat = Stat.errno = NULL]
    BY <1>3 DEF OpenStat
  <2>2. handle' = [handle EXCEPT ![call.handle] = r]
    BY <1>1, <2>1 DEF Current
  <2>3. MayOpen(stat(disk, q.mapped_path))
    BY <1>3, ErrnoIs, NullIsNoRecord DEF OpenRefusal, Replies, MayOpen, Stat
  <2>4. /\ call' # NULL /\ call'.handle = call.handle /\ call'.next = call.next
        /\ call'.phase = "fopen"
    BY <1>1, <2>1, NullIsNoRecord DEF Calls
  <2> DEFINE b == Stat.errno = NULL
  <2> HIDE DEF q, b
  <2>5. /\ r.mapped_path = q.mapped_path /\ r.flags = q.flags /\ r.raced = q.raced
        /\ r.holder = q.holder /\ r.stream = q.stream /\ r.type = q.type /\ r.found = q.found
    BY <1>1 DEF Handles
  <2> HIDE DEF r
  <2>6. handle'[call.handle] = r /\ \A h \in Ids \ {call.handle} : handle'[h] = handle[h]
    BY <1>1, <2>2
  <2>7. Knows(call', r, disk)
    BY <1>1, <2>3, <2>4, <2>5 DEF Knows
  <2>8. CallKnows'
    BY <1>1, <2>4, <2>6, <2>7 DEF CallKnows, Current
  <2>9. HeldOpened'
    <3>1. Opened(r)
      BY <1>1, <2>5, NullIsNoRecord DEF KInv, HeldOpened, Opened, Current, q
    <3>2. ASSUME NEW h \in Ids, handle'[h] # NULL PROVE Opened(handle'[h])
      BY <2>6, <3>1, <3>2 DEF KInv, HeldOpened
    <3> QED
      BY <3>2 DEF HeldOpened, Opened
  <2> QED
    BY <2>8, <2>9 DEF KInv
<1> QED
  BY <1>2, <1>3

(* fopen opens what the check and the stat have seen.                      *)
LEMMA FopenKnows ==
  ASSUME IInv, KInv, Fopen PROVE KInv'
<1> DEFINE m == Current.mapped_path
           mode == Current.mode
<1>1. /\ call # NULL /\ call.phase = "fopen" /\ DiskOK(disk) /\ Knows(call, Current, disk)
  BY DEF IInv, Fopen, InPhase, KInv, CallKnows
<1>2. CASE /\ fopen(disk, m, mode) = NULL /\ disk' = AfterFopen(disk, m, mode)
           /\ Deliver("FILE", TRUE, disk')
  <2>1. PICK e : e = disk'
    OBVIOUS
  <2>2. ASSUME ~Current.raced
        PROVE  /\ Found(e, m).kind = "reg"
               /\ "ALLOW_SYMLINKS" \notin Current.flags => ~Found(e, m).link
    <3>1. m # NULL
      <4>1. ASSUME m = NULL PROVE fopen(disk, m, mode) # NULL
        <5> DEFINE s == stat(disk, m)
                   makes == /\ mode # "READ" /\ s.errno = "ENOENT" /\ Len(m) > 0
                            /\ WalkError(disk, Components(m)) = NULL
        <5>1. s.errno = "EFAULT"
          <6>1. Met(disk, m) = [errno |-> "EFAULT", kind |-> "absent"]
            BY <4>1 DEF Met, Failed
          <6> QED
            BY <6>1 DEF stat
        <5>2. fopen(disk, m, mode) =
                CASE makes                            -> IF Components(m) \in DOMAIN disk
                                                         THEN NULL ELSE "ENOSPC"
                  [] ~makes /\ s.errno # NULL         -> s.errno
                  [] mode # "READ" /\ s.kind = "dir"  -> "EISDIR"
                  [] OTHER                            -> NULL
          BY DEF fopen
        <5> HIDE DEF s
        <5>3. ~makes
          BY <5>1
        <5>4. s.errno # NULL
          BY <5>1, NullIsNoErrno DEF Errnos
        <5>5. "EISDIR" # NULL /\ "EFAULT" # NULL
          BY NullIsNoErrno DEF Errnos
        <5> HIDE DEF makes
        <5>6. fopen(disk, m, mode) # NULL
          BY <5>1, <5>2, <5>3, <5>4, <5>5
        <5> QED
          BY <5>6
      <4> QED
        BY <1>2, <4>1
    <3>2. /\ m \in Seq(Tokens) /\ MayOpen(stat(disk, m))
          /\ "ALLOW_SYMLINKS" \notin Current.flags => Shielded(disk, Components(m))
      BY <1>1, <2>2, <3>1 DEF Knows, IsPath
    <3> HIDE DEF m, mode
    <3> QED
      BY <1>1, <1>2, <2>1, <3>2, FopenReaches
  <2>3. Deliver("FILE", TRUE, e)
    BY <1>2, <2>1
  <2> QED
    BY <1>1, <2>2, <2>3, DeliverEnds
<1>3. ASSUME NEW code, Finish(code) PROVE KInv'
  BY <1>1, <1>3, FinishEnds
<1> QED
  BY <1>2, <1>3 DEF Fopen

(* Of a disk that others changed the call knows nothing.                   *)
LEMMA ChangeKnows ==
  ASSUME IInv, KInv, NEW d \in Disks, ChangeDisk(d) PROVE KInv'
<1>1. call' = call
  BY DEF ChangeDisk
<1>2. CASE call = NULL
  BY <1>1, <1>2, EndKeeps DEF ChangeDisk, KInv
<1>3. CASE call # NULL
  <2> DEFINE q == Current
             r == [q EXCEPT !.raced = TRUE]
  <2>1. /\ call.handle \in Ids /\ handle \in [Ids -> Handles \cup {NULL}] /\ q \in Handles
        /\ Knows(call, q, disk)
    BY <1>3, NullIsNoRecord DEF IInv, HInv, HandleTypes, Calls, Current, KInv, CallKnows
  <2>2. handle' = [handle EXCEPT ![call.handle].raced = TRUE]
    BY <1>3 DEF ChangeDisk
  <2>3. handle' = [handle EXCEPT ![call.handle] = r]
    BY <2>1, <2>2 DEF Current
  <2> HIDE DEF q
  <2>4. r.raced = TRUE /\ r.mapped_path = q.mapped_path
    BY <2>1 DEF Handles
  <2> HIDE DEF r
  <2>5. handle'[call.handle] = r /\ \A h \in Ids \ {call.handle} : handle'[h] = handle[h]
    BY <2>1, <2>3
  <2>6. Knows(call, r, d) /\ Opened(r) /\ disk' = d
    BY <2>1, <2>4 DEF Knows, Opened, ChangeDisk
  <2>7. CallKnows'
    BY <1>1, <2>5, <2>6 DEF CallKnows, Current
  <2>8. HeldOpened'
    <3>1. ASSUME NEW h \in Ids, handle'[h] # NULL PROVE Opened(handle'[h])
      BY <2>5, <2>6, <3>1 DEF KInv, HeldOpened
    <3> QED
      BY <3>1 DEF HeldOpened, Opened
  <2> QED
    BY <2>7, <2>8 DEF KInv
<1> QED
  BY <1>2, <1>3

(* Every step keeps what is known and what was opened.                     *)
LEMMA KnowsStep ==
  ASSUME IInv, KInv, [Next]_vars PROVE KInv'
<1>1. CASE Chdir \/ StatNode
  <2>1. call # NULL /\ \E code : Finish(code)
    BY <1>1 DEF Chdir, StatNode, InPhase
  <2> QED
    BY <2>1, FinishEnds
<1>2. ASSUME NEW h \in Ids, vfs_read(h) \/ vfs_write(h) \/ Close(h) PROVE KInv'
  <2>1. call' = NULL /\ (handle' = handle \/ handle' = [handle EXCEPT ![h] = NULL])
    BY <1>2 DEF vfs_read, vfs_write, Close, Idle, vfs_close_handle
  <2>2. handle \in [Ids -> Handles \cup {NULL}]
    BY DEF IInv, HInv, HandleTypes
  <2>3. \A k \in Ids : handle'[k] # NULL => handle'[k] = handle[k]
    BY <2>1, <2>2
  <2> QED
    BY <2>1, <2>3, EndKeeps DEF KInv
<1>3. CASE OpendirDies \/ UNCHANGED vars
  BY <1>3 DEF OpendirDies, vars, KInv, CallKnows, HeldOpened, Opened, Knows, Current
<1> QED
  BY <1>1, <1>2, <1>3, OpenNodeKnows, LstatKnows, OpendirKnows, OpenStatKnows, FopenKnows,
     ChangeKnows DEF Next, InCall

(* If nobody changed the disk during the call, an open file is a regular   *)
(* file and, unless symlinks are allowed there, no link led to it or to an *)
(* open directory, whatever the disk and however the calls interleave with *)
(* other processes: what the lstat walk saw still holds when the file is   *)
(* opened, and where the walk ended early nothing can be opened behind.    *)
THEOREM CheckedStaysOpened == Spec => []CheckedIsOpened
<1>1. Init => IInv /\ KInv
  <2>1. Init => KInv
    BY DEF Init, KInv, CallKnows, HeldOpened
  <2> QED
    BY <2>1, InvariantInit
<1>2. IInv /\ KInv /\ [Next]_vars => IInv' /\ KInv'
  BY InvariantStep, KnowsStep
<1>3. IInv /\ KInv => CheckedIsOpened
  <2> SUFFICES ASSUME IInv, KInv, NEW h \in Held, handle[h].stream, ~handle[h].raced
               PROVE  /\ handle[h].type = "FILE" => handle[h].found.kind = "reg"
                      /\ ~Has(PlaceOf(handle[h].virtual_path), "ALLOW_SYMLINKS")
                           => ~handle[h].found.link
    BY DEF CheckedIsOpened
  <2>1. Opened(handle[h]) /\ HandleOK(handle[h]) /\ handle[h].holder = "caller"
    BY DEF Held, KInv, HeldOpened, IInv, HInv, HandlesOK
  <2> QED
    BY <2>1 DEF Opened, HandleOK
<1> QED
  BY <1>1, <1>2, <1>3, PTL DEF Spec
=============================================================================
