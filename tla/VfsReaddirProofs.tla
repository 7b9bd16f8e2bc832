--------------------------- MODULE VfsReaddirProofs ---------------------------
(***************************************************************************)
(* Proofs about the listing of a directory, for any number of handles, any *)
(* listing, any real directory and any number of changes to it.            *)
(***************************************************************************)
EXTENDS VfsReaddir, DataProofs

-----------------------------------------------------------------------------
(***************************************************************************)
(* The inductive invariant.  What it says of one handle is said of values, *)
(* so that a step that leaves them alone need not look inside.             *)
(***************************************************************************)
Listed == [d_name : Names, virtual : BOOLEAN]

Statuses == {"closed", "opened", "entry", "eof", "INTERNAL_ERROR"}

ListOK ==
  subdirs # NULL => subdirs \in Lists /\ (subdirs.sorted => InOrder(subdirs.strings))

TypeOK ==
  /\ ListOK
  /\ disk \in [RealNames -> Kinds]
  /\ handle \in [Handles -> DirHandles \cup {NULL}]
  /\ call \in Calls \cup {NULL}
  /\ status \in [Handles -> Statuses]
  /\ listed \in [Handles -> Seq(Listed)]
  /\ lasting \in [Handles -> SUBSET RealNames]
  /\ disturbed \in [Handles -> BOOLEAN]

(* A handle starts without a history.                                      *)
ClosedOK ==
  \A h \in Handles : handle[h] = NULL => listed[h] = <<>> /\ ~disturbed[h]

Overriding(l, x) == l # NULL /\ Holds(l.strings, x)

(* The loop over the stream is entered past the listing, and what goes on  *)
(* to fstatat is no entry the listing overrides.                           *)
CallOK ==
  call # NULL =>
    /\ handle[call.handle] # NULL
    /\ handle[call.handle].dir
    /\ ~InListing(call.handle)
    /\ call.dirent # NULL =>
         Supported(call.dirent) /\ ~Overriding(subdirs, call.dirent.d_name)

(* Where entries s show x, and where it stands among the first n names.    *)
Virtuals(s, x) == {i \in 1 .. Len(s) : s[i].virtual /\ s[i].d_name = x}

Reals(s, x) == {i \in 1 .. Len(s) : ~s[i].virtual /\ s[i].d_name = x}

Among(s, n, x) == {i \in 1 .. n : s[i] = x}

(* Handle r, whose last answer is st, walks the listing l; its entries s.   *)
WalkOf(l, r, st) ==
  l # NULL =>
    /\ r.internal_node_index <= Len(l.strings)
    /\ st = "eof" => r.internal_node_index = Len(l.strings)

WalkedOnce(l, r, s) ==
  l # NULL =>
    \A x \in Names :
      Cardinality(Virtuals(s, x)) = Cardinality(Among(l.strings, r.internal_node_index, x))

WalkOK ==
  \A h \in Handles : handle[h] # NULL =>
    /\ WalkOf(subdirs, handle[h], status[h])
    /\ ~disturbed[h] => WalkedOnce(subdirs, handle[h], listed[h])

(* No entry of the disk is shown that the listing overrides.               *)
ShowsOf(l, s) == \A i \in 1 .. Len(s) : ~s[i].virtual => ~Overriding(l, s[i].d_name)

ShowsOK == \A h \in Handles : ShowsOf(subdirs, listed[h])

(* The entry that a call on h has at fstatat.                              *)
AtStat(h) == IF call # NULL /\ call.handle = h THEN call.dirent ELSE NULL

(* The entry of an untouched name x of kind k waits in the stream or is at *)
(* fstatat (it is e), or it has had its turn.                              *)
Turns(l, k, x) == IF k \in {"reg", "link"} /\ ~Overriding(l, x) THEN 1 ELSE 0

DiskOf(l, r, e, k, x, st, s) ==
  /\ \A f \in r.pending : f.d_name = x => f = Entry(x, k)
  /\ e # NULL /\ e.d_name = x => e = Entry(x, k) /\ Entry(x, k) \notin r.pending
  /\ Cardinality(Reals(s, x))
       = IF e = Entry(x, k) \/ Entry(x, k) \in r.pending THEN 0 ELSE Turns(l, k, x)
  /\ st = "eof" => e # Entry(x, k) /\ Entry(x, k) \notin r.pending

DiskOK ==
  \A h \in Handles : handle[h] # NULL /\ handle[h].dir =>
    \A x \in lasting[h] :
      DiskOf(subdirs, handle[h], AtStat(h), disk[x], x, status[h], listed[h])

IInv == TypeOK /\ ClosedOK /\ CallOK /\ WalkOK /\ ShowsOK /\ DiskOK

-----------------------------------------------------------------------------
(***************************************************************************)
(* What one more entry changes.                                            *)
(***************************************************************************)
LEMMA SetsAreFinite ==
  ASSUME NEW s \in Seq(Listed), NEW x, NEW t, NEW n \in Nat
  PROVE  /\ IsFiniteSet(Virtuals(s, x)) /\ Cardinality(Virtuals(s, x)) \in Nat
         /\ IsFiniteSet(Reals(s, x)) /\ Cardinality(Reals(s, x)) \in Nat
         /\ IsFiniteSet(Among(t, n, x)) /\ Cardinality(Among(t, n, x)) \in Nat
<1>1. IsFiniteSet(1 .. Len(s)) /\ IsFiniteSet(1 .. n)
  BY FS_Interval
<1>2. /\ Virtuals(s, x) \subseteq 1 .. Len(s)
      /\ Reals(s, x) \subseteq 1 .. Len(s)
      /\ Among(t, n, x) \subseteq 1 .. n
  BY DEF Virtuals, Reals, Among
<1>3. IsFiniteSet(Virtuals(s, x)) /\ IsFiniteSet(Reals(s, x)) /\ IsFiniteSet(Among(t, n, x))
  BY <1>1, <1>2, FS_Subset
<1> QED
  BY <1>3, FS_CardinalityType

(* Nothing counts nothing.                                                 *)
LEMMA NothingIsEmpty ==
  ASSUME NEW x, NEW t
  PROVE  /\ Cardinality(Virtuals(<<>>, x)) = 0
         /\ Cardinality(Reals(<<>>, x)) = 0
         /\ Cardinality(Among(t, 0, x)) = 0
<1>1. Virtuals(<<>>, x) = {} /\ Reals(<<>>, x) = {} /\ Among(t, 0, x) = {}
  BY DEF Virtuals, Reals, Among
<1> QED
  BY <1>1, FS_EmptySet

(* One more entry shown counts one more for its name.                      *)
LEMMA OneMoreEntry ==
  ASSUME NEW s \in Seq(Listed), NEW e \in Listed, NEW x
  PROVE  /\ s \o <<e>> \in Seq(Listed)
         /\ Cardinality(Virtuals(s \o <<e>>, x))
              = Cardinality(Virtuals(s, x)) + (IF e.virtual /\ e.d_name = x THEN 1 ELSE 0)
         /\ Cardinality(Reals(s \o <<e>>, x))
              = Cardinality(Reals(s, x)) + (IF ~e.virtual /\ e.d_name = x THEN 1 ELSE 0)
<1> DEFINE n == Len(s)
           t == s \o <<e>>
<1>1. /\ t \in Seq(Listed) /\ n \in Nat /\ Len(t) = n + 1 /\ t[n + 1] = e
      /\ \A i \in 1 .. n : t[i] = s[i]
  OBVIOUS
<1>2. /\ IsFiniteSet(Virtuals(s, x)) /\ IsFiniteSet(Reals(s, x))
      /\ Cardinality(Virtuals(s, x)) \in Nat /\ Cardinality(Reals(s, x)) \in Nat
  BY SetsAreFinite
<1>3. n + 1 \notin Virtuals(s, x) /\ n + 1 \notin Reals(s, x)
  BY <1>1 DEF Virtuals, Reals
<1>4. 1 .. n + 1 = (1 .. n) \cup {n + 1}
  BY <1>1
<1> HIDE DEF t
<1>5. Virtuals(t, x)
        = IF e.virtual /\ e.d_name = x THEN Virtuals(s, x) \cup {n + 1} ELSE Virtuals(s, x)
  BY <1>1, <1>4 DEF Virtuals
<1>6. Reals(t, x)
        = IF ~e.virtual /\ e.d_name = x THEN Reals(s, x) \cup {n + 1} ELSE Reals(s, x)
  BY <1>1, <1>4 DEF Reals
<1>7. /\ Cardinality(Virtuals(s, x) \cup {n + 1}) = Cardinality(Virtuals(s, x)) + 1
      /\ Cardinality(Reals(s, x) \cup {n + 1}) = Cardinality(Reals(s, x)) + 1
  BY <1>2, <1>3, FS_AddElement
<1>8. Cardinality(Virtuals(t, x))
        = Cardinality(Virtuals(s, x)) + (IF e.virtual /\ e.d_name = x THEN 1 ELSE 0)
  BY <1>2, <1>5, <1>7
<1>9. Cardinality(Reals(t, x))
        = Cardinality(Reals(s, x)) + (IF ~e.virtual /\ e.d_name = x THEN 1 ELSE 0)
  BY <1>2, <1>6, <1>7
<1> QED
  BY <1>1, <1>8, <1>9 DEF t

(* One more place of the listing counts one more for its name.             *)
LEMMA OneMorePlace ==
  ASSUME NEW s, NEW n \in Nat, NEW x
  PROVE  Cardinality(Among(s, n + 1, x))
           = Cardinality(Among(s, n, x)) + (IF s[n + 1] = x THEN 1 ELSE 0)
<1>1. IsFiniteSet(Among(s, n, x)) /\ Cardinality(Among(s, n, x)) \in Nat
  <2>1. <<>> \in Seq(Listed)
    OBVIOUS
  <2> QED
    BY <2>1, SetsAreFinite
<1>2. n + 1 \notin Among(s, n, x)
  BY DEF Among
<1>3. Among(s, n + 1, x)
        = IF s[n + 1] = x THEN Among(s, n, x) \cup {n + 1} ELSE Among(s, n, x)
  BY DEF Among
<1>4. Cardinality(Among(s, n, x) \cup {n + 1}) = Cardinality(Among(s, n, x)) + 1
  BY <1>1, <1>2, FS_AddElement
<1> QED
  BY <1>1, <1>3, <1>4

(* An entry that overrides nothing may be shown next.                      *)
LEMMA ShowsMore ==
  ASSUME NEW l, NEW s \in Seq(Listed), NEW e \in Listed,
         ShowsOf(l, s), ~e.virtual => ~Overriding(l, e.d_name)
  PROVE  ShowsOf(l, s \o <<e>>)
<1> DEFINE t == s \o <<e>>
<1>1. /\ Len(s) \in Nat /\ Len(t) = Len(s) + 1 /\ t[Len(s) + 1] = e
      /\ \A i \in 1 .. Len(s) : t[i] = s[i]
  OBVIOUS
<1> HIDE DEF t
<1>2. ASSUME NEW i \in 1 .. Len(t), ~t[i].virtual PROVE ~Overriding(l, t[i].d_name)
  <2>1. i \in 1 .. Len(s) \/ i = Len(s) + 1
    BY <1>1
  <2>2. CASE i \in 1 .. Len(s)
    <3>1. t[i] = s[i] /\ ~s[i].virtual
      BY <1>1, <1>2, <2>2
    <3> QED
      BY <2>2, <3>1 DEF ShowsOf
  <2>3. CASE i = Len(s) + 1
    BY <1>1, <1>2, <2>3
  <2> QED
    BY <2>1, <2>2, <2>3
<1> QED
  BY <1>2 DEF ShowsOf, t

-----------------------------------------------------------------------------
(***************************************************************************)
(* What every step needs.                                                  *)
(***************************************************************************)
LEMMA EntryIs ==
  ASSUME NEW x \in RealNames, NEW k \in Kinds
  PROVE  /\ Entry(x, k) \in DirEntries /\ Entry(x, k) # NULL
         /\ Entry(x, k).d_name = x /\ Entry(x, k).d_type = d_type(k)
         /\ x \in Names /\ x \notin {Dot, DotDot}
<1>1. Entry(x, k) \in DirEntries /\ Entry(x, k) # NULL
  BY NullIsNoRecord DEF DirEntries
<1>2. x \in Names /\ x \notin {Dot, DotDot}
  BY ReaddirAssumption, NamesAssumption
<1> QED
  BY <1>1, <1>2 DEF Entry

(* A directory entry of a supported kind is that of a file.                *)
LEMMA SupportedIsReal ==
  ASSUME NEW e \in DirEntries, Supported(e)
  PROVE  e # NULL /\ e.d_name \in RealNames
<1>1. e.d_name # Dot
  BY DEF Supported
<1>2. Entry(Dot, "dir").d_name = Dot
  BY DEF Entry
<1>3. PICK x \in RealNames, k \in Kinds : e = Entry(x, k)
  BY <1>1, <1>2 DEF DirEntries
<1> QED
  BY <1>3, EntryIs

(* What a handle in use consists of.                                       *)
LEMMA TypedHandle ==
  ASSUME TypeOK, NEW h \in Handles, handle[h] # NULL
  PROVE  /\ handle[h] \in DirHandles
         /\ handle[h].dir \in BOOLEAN /\ handle[h].internal_node_index \in Nat
         /\ handle[h].pending \subseteq DirEntries
<1>1. handle[h] \in DirHandles
  BY DEF TypeOK
<1> QED
  BY <1>1 DEF DirHandles

(* What a call in progress consists of.                                    *)
LEMMA TypedCall ==
  ASSUME TypeOK, call # NULL
  PROVE  /\ call \in Calls /\ call.handle \in Handles
         /\ call.dirent # NULL => call.dirent \in DirEntries
<1>1. call \in Calls
  BY DEF TypeOK
<1> QED
  BY <1>1 DEF Calls

(* What a loaded listing consists of.                                      *)
LEMMA TypedList ==
  ASSUME TypeOK, subdirs # NULL
  PROVE  /\ subdirs \in Lists /\ (subdirs.sorted => InOrder(subdirs.strings))
         /\ subdirs.strings \in Seq(Names) /\ Len(subdirs.strings) \in Nat
<1>1. subdirs \in Lists /\ (subdirs.sorted => InOrder(subdirs.strings))
  BY DEF TypeOK, ListOK
<1>2. subdirs.strings \in Seq(Names)
  BY <1>1 DEF Lists
<1> QED
  BY <1>1, <1>2

(* A return changes what is said of its handle alone.                      *)
LEMMA ReturnIs ==
  ASSUME TypeOK, NEW h \in Handles, NEW answer \in Statuses, NEW entries,
         entries = <<>> \/ \E e \in Listed : entries = <<e>>,
         Return(h, answer, entries)
  PROVE  /\ status' \in [Handles -> Statuses]
         /\ listed' \in [Handles -> Seq(Listed)]
         /\ status'[h] = answer /\ listed'[h] = listed[h] \o entries
         /\ \A g \in Handles \ {h} : status'[g] = status[g] /\ listed'[g] = listed[g]
         /\ call' = NULL
<1>1. listed[h] \in Seq(Listed)
  BY DEF TypeOK
<1>2. listed[h] \o entries \in Seq(Listed)
  <2>1. CASE entries = <<>>
    BY <1>1, <2>1
  <2>2. CASE \E e \in Listed : entries = <<e>>
    BY <1>1, <2>2, OneMoreEntry
  <2> QED
    BY <2>1, <2>2
<1>3. /\ status \in [Handles -> Statuses] /\ listed \in [Handles -> Seq(Listed)]
      /\ status' = [status EXCEPT ![h] = answer]
      /\ listed' = [listed EXCEPT ![h] = @ \o entries]
      /\ call' = NULL
  BY DEF TypeOK, Return
<1> QED
  BY <1>2, <1>3

(* A return that shows nothing leaves what was shown.                      *)
LEMMA NothingAdded ==
  ASSUME TypeOK, NEW h \in Handles PROVE listed[h] \o <<>> = listed[h]
<1>1. listed[h] \in Seq(Listed)
  BY DEF TypeOK
<1> QED
  BY <1>1

(* A return that shows nothing and leaves the rest alone: it need only be  *)
(* allowed to answer what it answers.                                      *)
LEMMA QuietReturn ==
  ASSUME IInv, NEW h \in Handles, handle[h] # NULL,
         NEW answer \in Statuses, Return(h, answer, <<>>),
         UNCHANGED <<subdirs, disk, handle, lasting, disturbed>>,
         call # NULL => call.handle = h /\ call.dirent = NULL,
         answer = "eof" =>
           /\ ~InListing(h)
           /\ handle[h].dir => handle[h].pending = {}
  PROVE  IInv'
<1>1. /\ status' \in [Handles -> Statuses]
      /\ listed' = listed
      /\ status'[h] = answer
      /\ \A g \in Handles \ {h} : status'[g] = status[g]
      /\ call' = NULL
  <2>1. <<>> = <<>> \/ \E e \in Listed : <<>> = <<e>>
    OBVIOUS
  <2>2. TypeOK
    BY DEF IInv
  <2>3. /\ status' \in [Handles -> Statuses]
        /\ listed' \in [Handles -> Seq(Listed)]
        /\ status'[h] = answer /\ listed'[h] = listed[h] \o <<>>
        /\ \A g \in Handles \ {h} : status'[g] = status[g] /\ listed'[g] = listed[g]
        /\ call' = NULL
    BY <2>1, <2>2, ReturnIs, Zenon
  <2>4. listed[h] \o <<>> = listed[h]
    BY <2>2, NothingAdded
  <2>5. \A g \in Handles : listed'[g] = listed[g]
    BY <2>3, <2>4
  <2>6. listed \in [Handles -> Seq(Listed)]
    BY <2>2 DEF TypeOK
  <2>7. listed' = listed
    BY <2>3, <2>5, <2>6
  <2> QED
    BY <2>3, <2>7
<1>2. TypeOK'
  BY <1>1 DEF IInv, TypeOK, ListOK
<1>3. ClosedOK' /\ CallOK' /\ ShowsOK'
  BY <1>1 DEF IInv, ClosedOK, CallOK, ShowsOK
<1>4. WalkOK'
  <2> SUFFICES ASSUME NEW g \in Handles, handle[g] # NULL
               PROVE  /\ WalkOf(subdirs, handle[g], status'[g])
                      /\ ~disturbed[g] => WalkedOnce(subdirs, handle[g], listed[g])
    BY <1>1 DEF WalkOK
  <2>1. /\ WalkOf(subdirs, handle[g], status[g])
        /\ ~disturbed[g] => WalkedOnce(subdirs, handle[g], listed[g])
    BY DEF IInv, WalkOK
  <2>2. CASE g = h
    <3>1. subdirs # NULL => handle[g].internal_node_index \in Nat /\ Len(subdirs.strings) \in Nat
      BY TypedHandle, TypedList DEF IInv
    <3> QED
      BY <1>1, <2>1, <2>2, <3>1 DEF WalkOf, InListing
  <2>3. CASE g # h
    BY <1>1, <2>1, <2>3
  <2> QED
    BY <2>2, <2>3
<1>5. DiskOK'
  <2> SUFFICES ASSUME NEW g \in Handles, handle[g] # NULL, handle[g].dir, NEW x \in lasting[g]
               PROVE  DiskOf(subdirs, handle[g], NULL, disk[x], x, status'[g], listed[g])
    BY <1>1 DEF DiskOK, AtStat
  <2>1. AtStat(g) = NULL
    BY DEF AtStat
  <2>2. DiskOf(subdirs, handle[g], NULL, disk[x], x, status[g], listed[g])
    BY <2>1 DEF IInv, DiskOK
  <2>3. x \in RealNames /\ disk[x] \in Kinds
    BY DEF IInv, TypeOK
  <2>4. CASE g = h
    BY <1>1, <2>2, <2>3, <2>4, EntryIs DEF DiskOf
  <2>5. CASE g # h
    BY <1>1, <2>2, <2>5
  <2> QED
    BY <2>4, <2>5
<1> QED
  BY <1>2, <1>3, <1>4, <1>5 DEF IInv

-----------------------------------------------------------------------------
(***************************************************************************)
(* One lemma per action.                                                   *)
(***************************************************************************)
LEMMA IInvInit == Init => IInv
<1> SUFFICES ASSUME Init PROVE IInv
  OBVIOUS
<1>1. ListOK
  <2>1. PICK s \in Listings :
          subdirs = IF s = NULL THEN NULL ELSE [strings |-> s, sorted |-> Len(s) = 0]
    BY DEF Init
  <2>2. CASE s = NULL
    BY <2>1, <2>2 DEF ListOK
  <2>3. CASE s # NULL
    <3>1. s \in Seq(Names)
      BY <2>3, ListingsAssumption
    <3>2. (Len(s) = 0) \in BOOLEAN /\ (Len(s) = 0 => InOrder(s))
      BY DEF InOrder
    <3>3. subdirs = [strings |-> s, sorted |-> Len(s) = 0]
      BY <2>1, <2>3
    <3>4. subdirs \in Lists
      BY <3>1, <3>2, <3>3 DEF Lists
    <3>5. subdirs.sorted => InOrder(subdirs.strings)
      BY <3>2, <3>3, Zenon
    <3> QED
      BY <3>4, <3>5 DEF ListOK
  <2> QED
    BY <2>2, <2>3
<1>2. TypeOK
  BY <1>1 DEF Init, TypeOK, Statuses
<1>3. ClosedOK /\ CallOK /\ WalkOK /\ DiskOK
  BY DEF Init, ClosedOK, CallOK, WalkOK, DiskOK
<1>4. ShowsOK
  BY DEF Init, ShowsOK, ShowsOf
<1> QED
  BY <1>2, <1>3, <1>4 DEF IInv

(* vfs_opendir keeps the invariant.                                        *)
LEMMA OpenStep ==
  ASSUME IInv, NEW h \in Handles, NEW opens \in BOOLEAN, vfs_opendir(h, opens)
  PROVE  IInv'
<1> DEFINE r == [dir |-> opens, internal_node_index |-> 0,
                 pending |-> IF ~opens THEN {}
                             ELSE {Entry(x, disk[x]) : x \in Present}
                                    \cup {Entry(Dot, "dir")}]
<1>1. /\ call = NULL /\ handle[h] = NULL /\ call' = NULL
      /\ handle' = [handle EXCEPT ![h] = r]
      /\ status' = [status EXCEPT ![h] = "opened"]
      /\ lasting' = [lasting EXCEPT ![h] = RealNames]
      /\ UNCHANGED <<subdirs, disk, listed, disturbed>>
  BY DEF vfs_opendir
<1>2. \A x \in Present : x \in RealNames /\ disk[x] \in Kinds
  BY DEF Present, IInv, TypeOK
<1>3. r \in DirHandles
  <2>1. r.pending \subseteq DirEntries
    BY <1>2 DEF DirEntries
  <2> QED
    BY <2>1 DEF DirHandles
<1>4. /\ r # NULL /\ r.dir = opens /\ r.internal_node_index = 0
      /\ opens => r.pending = {Entry(x, disk[x]) : x \in Present} \cup {Entry(Dot, "dir")}
  BY <1>3, NullIsNoRecord
<1> HIDE DEF r
<1>5. /\ handle' \in [Handles -> DirHandles \cup {NULL}]
      /\ status' \in [Handles -> Statuses]
      /\ lasting' \in [Handles -> SUBSET RealNames]
      /\ handle'[h] = r /\ status'[h] = "opened" /\ lasting'[h] = RealNames
      /\ \A g \in Handles \ {h} : /\ handle'[g] = handle[g] /\ status'[g] = status[g]
                                   /\ lasting'[g] = lasting[g]
  BY <1>1, <1>3 DEF IInv, TypeOK, Statuses
<1>6. listed[h] = <<>> /\ ~disturbed[h]
  BY <1>1 DEF IInv, ClosedOK
<1>7. TypeOK'
  BY <1>1, <1>5 DEF IInv, TypeOK, ListOK
<1>8. ClosedOK' /\ CallOK' /\ ShowsOK'
  BY <1>1, <1>4, <1>5 DEF IInv, ClosedOK, CallOK, ShowsOK
<1>9. WalkOK'
  <2> SUFFICES ASSUME NEW g \in Handles, handle'[g] # NULL
               PROVE  /\ WalkOf(subdirs, handle'[g], status'[g])
                      /\ ~disturbed[g] => WalkedOnce(subdirs, handle'[g], listed[g])
    BY <1>1 DEF WalkOK
  <2>1. CASE g = h
    <3>1. subdirs # NULL => Len(subdirs.strings) \in Nat
      BY TypedList DEF IInv
    <3>2. WalkOf(subdirs, r, "opened")
      BY <1>4, <3>1 DEF WalkOf
    <3>3. WalkedOnce(subdirs, r, <<>>)
      BY <1>4, NothingIsEmpty DEF WalkedOnce
    <3> QED
      BY <1>5, <1>6, <2>1, <3>2, <3>3
  <2>2. CASE g # h
    BY <1>5, <2>2 DEF IInv, WalkOK
  <2> QED
    BY <2>1, <2>2
<1>10. DiskOK'
  <2> SUFFICES ASSUME NEW g \in Handles, handle'[g] # NULL, handle'[g].dir, NEW x \in lasting'[g]
               PROVE  DiskOf(subdirs, handle'[g], NULL, disk[x], x, status'[g], listed[g])
    BY <1>1 DEF DiskOK, AtStat
  <2>1. CASE g = h
    <3>1. x \in RealNames /\ disk[x] \in Kinds
      BY <1>5, <2>1 DEF IInv, TypeOK
    <3>2. r.pending = {Entry(y, disk[y]) : y \in Present} \cup {Entry(Dot, "dir")}
      BY <1>4, <1>5, <2>1
    <3>3. Entry(Dot, "dir").d_name # x
      BY <3>1, EntryIs DEF Entry
    <3>4. \A f \in r.pending : f.d_name = x => f = Entry(x, disk[x])
      BY <1>2, <3>2, <3>3, EntryIs
    <3>5. Entry(x, disk[x]) \notin r.pending => Turns(subdirs, disk[x], x) = 0
      BY <3>1, <3>2 DEF Present, Turns
    <3>6. Cardinality(Reals(<<>>, x)) = 0
      BY NothingIsEmpty
    <3>7. NULL # Entry(x, disk[x])
      BY <3>1, EntryIs
    <3>8. DiskOf(subdirs, r, NULL, disk[x], x, "opened", <<>>)
      BY <3>4, <3>5, <3>6, <3>7 DEF DiskOf
    <3> QED
      BY <1>5, <1>6, <2>1, <3>8
  <2>2. CASE g # h
    <3>1. AtStat(g) = NULL
      BY <1>1 DEF AtStat
    <3> QED
      BY <1>5, <2>2, <3>1 DEF IInv, DiskOK
  <2> QED
    BY <2>1, <2>2
<1> QED
  BY <1>7, <1>8, <1>9, <1>10 DEF IInv

(* vfs_close_handle keeps the invariant.                                   *)
LEMMA CloseStep ==
  ASSUME IInv, NEW h \in Handles, vfs_close_handle(h)
  PROVE  IInv'
<1>1. /\ call = NULL /\ call' = NULL
      /\ handle' = [handle EXCEPT ![h] = NULL]
      /\ status' = [status EXCEPT ![h] = "closed"]
      /\ listed' = [listed EXCEPT ![h] = <<>>]
      /\ lasting' = [lasting EXCEPT ![h] = {}]
      /\ disturbed' = [disturbed EXCEPT ![h] = FALSE]
      /\ UNCHANGED <<subdirs, disk>>
  BY DEF vfs_close_handle
<1>2. <<>> \in Seq(Listed)
  OBVIOUS
<1>3. /\ handle' \in [Handles -> DirHandles \cup {NULL}]
      /\ status' \in [Handles -> Statuses]
      /\ listed' \in [Handles -> Seq(Listed)]
      /\ lasting' \in [Handles -> SUBSET RealNames]
      /\ disturbed' \in [Handles -> BOOLEAN]
      /\ handle'[h] = NULL /\ listed'[h] = <<>> /\ disturbed'[h] = FALSE
      /\ \A g \in Handles \ {h} : /\ handle'[g] = handle[g] /\ status'[g] = status[g]
                                   /\ listed'[g] = listed[g] /\ lasting'[g] = lasting[g]
                                   /\ disturbed'[g] = disturbed[g]
  BY <1>1, <1>2 DEF IInv, TypeOK, Statuses
<1>4. TypeOK'
  BY <1>1, <1>3 DEF IInv, TypeOK, ListOK
<1>5. ClosedOK' /\ CallOK'
  BY <1>1, <1>3 DEF IInv, ClosedOK, CallOK
<1>6. ShowsOK'
  <2>1. ShowsOf(subdirs, <<>>)
    BY DEF ShowsOf
  <2> QED
    BY <1>1, <1>3, <2>1 DEF IInv, ShowsOK
<1>7. WalkOK'
  BY <1>1, <1>3 DEF IInv, WalkOK
<1>8. DiskOK'
  <2>1. \A g \in Handles : AtStat(g) = NULL /\ AtStat(g)' = NULL
    BY <1>1 DEF AtStat
  <2> QED
    BY <1>1, <1>3, <2>1 DEF IInv, DiskOK
<1> QED
  BY <1>4, <1>5, <1>6, <1>7, <1>8 DEF IInv

(* The calls that show nothing: without a stream, or at its end.           *)
LEMMA QuietSteps ==
  ASSUME IInv,
         \/ \E h \in Handles : ReadNothing(h) \/ EndWithoutStream(h)
         \/ StreamEnds
         \/ StreamFails
  PROVE  IInv'
<1>1. "eof" \in Statuses /\ "INTERNAL_ERROR" \in Statuses
  BY DEF Statuses
<1>2. ASSUME NEW h \in Handles, ReadNothing(h) PROVE IInv'
  <2>1. /\ handle[h] # NULL /\ call = NULL
        /\ Return(h, "INTERNAL_ERROR", <<>>)
        /\ UNCHANGED <<subdirs, disk, handle, lasting, disturbed>>
    BY <1>2 DEF ReadNothing
  <2> QED
    BY <1>1, <2>1, QuietReturn
<1>3. ASSUME NEW h \in Handles, EndWithoutStream(h) PROVE IInv'
  <2>1. /\ handle[h] # NULL /\ call = NULL /\ ~InListing(h) /\ ~handle[h].dir
        /\ Return(h, "eof", <<>>)
        /\ UNCHANGED <<subdirs, disk, handle, lasting, disturbed>>
    BY <1>3 DEF EndWithoutStream
  <2> QED
    BY <1>1, <2>1, QuietReturn
<1>4. ASSUME StreamEnds \/ StreamFails PROVE IInv'
  <2> DEFINE h == call.handle
  <2>1. /\ call # NULL /\ call.dirent = NULL
        /\ UNCHANGED <<subdirs, disk, handle, lasting, disturbed>>
        /\ \/ Return(h, "eof", <<>>) /\ handle[h].pending = {}
           \/ Return(h, "INTERNAL_ERROR", <<>>)
    BY <1>4 DEF StreamEnds, StreamFails
  <2>2. h \in Handles
    BY <2>1, TypedCall DEF IInv
  <2>3. handle[h] # NULL /\ ~InListing(h)
    BY <2>1 DEF IInv, CallOK
  <2>4. call # NULL => call.handle = h /\ call.dirent = NULL
    BY <2>1
  <2> HIDE DEF h
  <2>5. CASE Return(h, "eof", <<>>) /\ handle[h].pending = {}
    BY <1>1, <2>1, <2>2, <2>3, <2>4, <2>5, QuietReturn
  <2>6. CASE Return(h, "INTERNAL_ERROR", <<>>)
    BY <1>1, <2>1, <2>2, <2>3, <2>4, <2>6, QuietReturn
  <2> QED
    BY <2>1, <2>5, <2>6
<1> QED
  BY <1>2, <1>3, <1>4

(* Entering the loop over the stream keeps the invariant.                  *)
LEMMA EnterStep ==
  ASSUME IInv, NEW h \in Handles, EnterLoop(h)
  PROVE  IInv'
<1>1. /\ call = NULL /\ handle[h] # NULL /\ ~InListing(h) /\ handle[h].dir
      /\ call' = [handle |-> h, dirent |-> NULL]
      /\ UNCHANGED <<subdirs, disk, handle, status, listed, lasting, disturbed>>
  BY DEF EnterLoop
<1>2. call' \in Calls /\ call'.handle = h /\ call'.dirent = NULL
  BY <1>1 DEF Calls
<1>3. TypeOK'
  BY <1>1, <1>2 DEF IInv, TypeOK, ListOK
<1>4. CallOK'
  BY <1>1, <1>2 DEF IInv, CallOK, InListing
<1>5. ClosedOK' /\ WalkOK' /\ ShowsOK'
  BY <1>1 DEF IInv, ClosedOK, WalkOK, ShowsOK
<1>6. DiskOK'
  <2>1. \A g \in Handles : AtStat(g) = NULL /\ AtStat(g)' = NULL
    BY <1>1, <1>2 DEF AtStat
  <2> QED
    BY <1>1, <2>1 DEF IInv, DiskOK
<1> QED
  BY <1>3, <1>4, <1>5, <1>6 DEF IInv

(* Showing the next virtual directory keeps the invariant.                 *)
LEMMA ListingStep ==
  ASSUME IInv, NEW h \in Handles, ReadListing(h)
  PROVE  IInv'
<1> DEFINE n == handle[h].internal_node_index
           r == [handle[h] EXCEPT !.internal_node_index = n + 1]
           e == [d_name |-> subdirs.strings[n + 1], virtual |-> TRUE]
<1>1. /\ call = NULL /\ handle[h] # NULL /\ InListing(h)
      /\ handle' = [handle EXCEPT ![h] = r]
      /\ Return(h, "entry", <<e>>)
      /\ UNCHANGED <<subdirs, disk, lasting, disturbed>>
  BY DEF ReadListing
<1>2. TypeOK
  BY DEF IInv
<1>3. /\ subdirs # NULL /\ n \in Nat /\ n < Len(subdirs.strings)
      /\ Len(subdirs.strings) \in Nat /\ subdirs.strings \in Seq(Names)
      /\ handle[h] \in DirHandles
  BY <1>1, <1>2, TypedHandle, TypedList DEF InListing
<1>4. e \in Listed /\ e.virtual = TRUE /\ e.d_name = subdirs.strings[n + 1]
  BY <1>3 DEF Listed
<1>5. /\ r \in DirHandles /\ r # NULL /\ r.internal_node_index = n + 1
      /\ r.dir = handle[h].dir /\ r.pending = handle[h].pending
  BY <1>3, NullIsNoRecord DEF DirHandles
<1> HIDE DEF r, e
<1>6. /\ status' \in [Handles -> Statuses]
      /\ listed' \in [Handles -> Seq(Listed)]
      /\ status'[h] = "entry" /\ listed'[h] = listed[h] \o <<e>>
      /\ \A g \in Handles \ {h} : status'[g] = status[g] /\ listed'[g] = listed[g]
      /\ call' = NULL
  <2>1. <<e>> = <<>> \/ \E f \in Listed : <<e>> = <<f>>
    BY <1>4
  <2>2. "entry" \in Statuses
    BY DEF Statuses
  <2> QED
    BY <1>1, <1>2, <2>1, <2>2, ReturnIs, Zenon
<1>7. /\ handle' \in [Handles -> DirHandles \cup {NULL}] /\ handle'[h] = r
      /\ \A g \in Handles \ {h} : handle'[g] = handle[g]
  BY <1>1, <1>2, <1>5 DEF TypeOK
<1>8. listed[h] \in Seq(Listed)
  BY <1>2 DEF TypeOK
<1>9. TypeOK'
  BY <1>1, <1>6, <1>7 DEF IInv, TypeOK, ListOK
<1>10. ClosedOK' /\ CallOK'
  BY <1>1, <1>5, <1>6, <1>7 DEF IInv, ClosedOK, CallOK
<1>11. ShowsOK'
  <2>1. ShowsOf(subdirs, listed[h])
    BY DEF IInv, ShowsOK
  <2>2. ShowsOf(subdirs, listed[h] \o <<e>>)
    BY <1>4, <1>8, <2>1, ShowsMore
  <2> QED
    BY <1>1, <1>6, <2>2 DEF IInv, ShowsOK
<1>12. WalkOK'
  <2> SUFFICES ASSUME NEW g \in Handles, handle'[g] # NULL
               PROVE  /\ WalkOf(subdirs, handle'[g], status'[g])
                      /\ ~disturbed[g] => WalkedOnce(subdirs, handle'[g], listed'[g])
    BY <1>1 DEF WalkOK
  <2>1. CASE g = h
    <3>1. WalkOf(subdirs, r, "entry")
      BY <1>3, <1>5 DEF WalkOf
    <3>2. ASSUME ~disturbed[h] PROVE WalkedOnce(subdirs, r, listed[h] \o <<e>>)
      <4> SUFFICES ASSUME NEW x \in Names
                   PROVE  Cardinality(Virtuals(listed[h] \o <<e>>, x))
                            = Cardinality(Among(subdirs.strings, n + 1, x))
        BY <1>5 DEF WalkedOnce
      <4>1. Cardinality(Virtuals(listed[h], x)) = Cardinality(Among(subdirs.strings, n, x))
        BY <1>1, <1>3, <3>2 DEF IInv, WalkOK, WalkedOnce
      <4>2. Cardinality(Virtuals(listed[h] \o <<e>>, x))
              = Cardinality(Virtuals(listed[h], x)) + (IF e.virtual /\ e.d_name = x THEN 1 ELSE 0)
        BY <1>4, <1>8, OneMoreEntry
      <4>3. Cardinality(Among(subdirs.strings, n + 1, x))
              = Cardinality(Among(subdirs.strings, n, x))
                  + (IF subdirs.strings[n + 1] = x THEN 1 ELSE 0)
        BY <1>3, OneMorePlace
      <4> QED
        BY <1>4, <4>1, <4>2, <4>3
    <3> QED
      BY <1>6, <1>7, <2>1, <3>1, <3>2
  <2>2. CASE g # h
    BY <1>6, <1>7, <2>2 DEF IInv, WalkOK
  <2> QED
    BY <2>1, <2>2
<1>13. DiskOK'
  <2> SUFFICES ASSUME NEW g \in Handles, handle'[g] # NULL, handle'[g].dir, NEW x \in lasting[g]
               PROVE  DiskOf(subdirs, handle'[g], NULL, disk[x], x, status'[g], listed'[g])
    BY <1>1, <1>6 DEF DiskOK, AtStat
  <2>1. AtStat(g) = NULL
    BY <1>1 DEF AtStat
  <2>2. CASE g = h
    <3>1. DiskOf(subdirs, handle[h], NULL, disk[x], x, status[h], listed[h])
      BY <1>1, <1>5, <1>7, <2>1, <2>2 DEF IInv, DiskOK
    <3>2. Cardinality(Reals(listed[h] \o <<e>>, x)) = Cardinality(Reals(listed[h], x))
      <4>1. Cardinality(Reals(listed[h], x)) \in Nat
        BY <1>8, SetsAreFinite, 0 \in Nat
      <4>2. Cardinality(Reals(listed[h] \o <<e>>, x))
              = Cardinality(Reals(listed[h], x)) + (IF ~e.virtual /\ e.d_name = x THEN 1 ELSE 0)
        BY <1>4, <1>8, OneMoreEntry
      <4> QED
        BY <1>4, <4>1, <4>2
    <3>3. DiskOf(subdirs, r, NULL, disk[x], x, "entry", listed[h] \o <<e>>)
      BY <1>5, <3>1, <3>2 DEF DiskOf
    <3> QED
      BY <1>6, <1>7, <2>2, <3>3
  <2>3. CASE g # h
    BY <1>6, <1>7, <2>1, <2>3 DEF IInv, DiskOK
  <2> QED
    BY <2>2, <2>3
<1> QED
  BY <1>9, <1>10, <1>11, <1>12, <1>13 DEF IInv

(* fstatat finds what the listing shows, or something to pass over: either *)
(* way the entry has had its turn.                                         *)
LEMMA TurnIsOver ==
  ASSUME IInv, call # NULL, call.dirent # NULL, handle[call.handle] # NULL,
         handle[call.handle].dir, NEW x \in lasting[call.handle]
  PROVE  LET h == call.handle
             e == call.dirent
         IN  /\ x = e.d_name =>
                  /\ Cardinality(Reals(listed[h], x)) = 0
                  /\ Entry(x, disk[x]) \notin handle[h].pending
                  /\ Turns(subdirs, disk[x], x) = (IF Listable(disk[x]) THEN 1 ELSE 0)
             /\ x # e.d_name =>
                  DiskOf(subdirs, handle[h], NULL, disk[x], x, status[h], listed[h])
<1> DEFINE h == call.handle
           e == call.dirent
<1>1. h \in Handles /\ e \in DirEntries
  BY TypedCall DEF IInv
<1>2. x \in RealNames /\ disk[x] \in Kinds
  BY <1>1 DEF IInv, TypeOK
<1>3. Supported(e) /\ ~Overriding(subdirs, e.d_name)
  BY DEF IInv, CallOK
<1>4. AtStat(h) = e
  BY DEF AtStat
<1>5. DiskOf(subdirs, handle[h], e, disk[x], x, status[h], listed[h])
  BY <1>1, <1>4 DEF IInv, DiskOK
<1> HIDE DEF h, e
<1>6. e # NULL
  BY DEF e
<1>7. ASSUME x = e.d_name
      PROVE  /\ Cardinality(Reals(listed[h], x)) = 0
             /\ Entry(x, disk[x]) \notin handle[h].pending
             /\ Turns(subdirs, disk[x], x) = (IF Listable(disk[x]) THEN 1 ELSE 0)
  <2>1. e = Entry(x, disk[x]) /\ Entry(x, disk[x]) \notin handle[h].pending
    BY <1>5, <1>6, <1>7 DEF DiskOf
  <2>2. Cardinality(Reals(listed[h], x)) = 0
    BY <1>5, <2>1 DEF DiskOf
  <2>3. d_type(disk[x]) \in {"DT_REG", "DT_DIR", "DT_LNK"}
    BY <1>2, <1>3, <2>1, EntryIs DEF Supported
  <2>4. disk[x] # "untyped"
    BY <2>3 DEF d_type
  <2>5. Turns(subdirs, disk[x], x) = (IF Listable(disk[x]) THEN 1 ELSE 0)
    BY <1>3, <1>7, <2>4 DEF Turns, Listable
  <2> QED
    BY <2>1, <2>2, <2>5
<1>8. ASSUME x # e.d_name
      PROVE  DiskOf(subdirs, handle[h], NULL, disk[x], x, status[h], listed[h])
  <2>1. e # Entry(x, disk[x]) /\ NULL # Entry(x, disk[x])
    BY <1>2, <1>8, EntryIs
  <2> QED
    BY <1>5, <2>1 DEF DiskOf
<1> QED
  BY <1>7, <1>8 DEF h, e

(* Showing a file of the disk keeps the invariant.                         *)
LEMMA StatStep ==
  ASSUME IInv, StatLists
  PROVE  IInv'
<1> DEFINE h == call.handle
           d == call.dirent
           e == [d_name |-> d.d_name, virtual |-> FALSE]
<1>1. /\ call # NULL /\ call.dirent # NULL /\ Listable(disk[d.d_name])
      /\ Return(h, "entry", <<e>>)
      /\ UNCHANGED <<subdirs, disk, handle, lasting, disturbed>>
  BY DEF StatLists, Statted
<1>2. TypeOK
  BY DEF IInv
<1>3. /\ h \in Handles /\ d \in DirEntries /\ handle[h] # NULL /\ handle[h].dir
      /\ Supported(d) /\ ~Overriding(subdirs, d.d_name) /\ d.d_name \in RealNames
  BY <1>1, <1>2, TypedCall, SupportedIsReal DEF IInv, CallOK
<1>4. e \in Listed /\ e.virtual = FALSE /\ e.d_name = d.d_name
  BY <1>3, ReaddirAssumption DEF Listed
<1>5. \A g \in Handles \ {h} : AtStat(g) = NULL
  BY DEF AtStat
<1> HIDE DEF h, d, e
<1>6. /\ status' \in [Handles -> Statuses]
      /\ listed' \in [Handles -> Seq(Listed)]
      /\ status'[h] = "entry" /\ listed'[h] = listed[h] \o <<e>>
      /\ \A g \in Handles \ {h} : status'[g] = status[g] /\ listed'[g] = listed[g]
      /\ call' = NULL
  <2>1. <<e>> = <<>> \/ \E f \in Listed : <<e>> = <<f>>
    BY <1>4
  <2>2. "entry" \in Statuses
    BY DEF Statuses
  <2> QED
    BY <1>1, <1>2, <1>3, <2>1, <2>2, ReturnIs, Zenon
<1>7. listed[h] \in Seq(Listed)
  BY <1>2, <1>3 DEF TypeOK
<1>8. TypeOK'
  BY <1>1, <1>6 DEF IInv, TypeOK, ListOK
<1>9. ClosedOK' /\ CallOK'
  BY <1>1, <1>3, <1>6 DEF IInv, ClosedOK, CallOK
<1>10. ShowsOK'
  <2>1. ShowsOf(subdirs, listed[h])
    BY <1>3 DEF IInv, ShowsOK
  <2>2. ShowsOf(subdirs, listed[h] \o <<e>>)
    BY <1>3, <1>4, <1>7, <2>1, ShowsMore
  <2> QED
    BY <1>1, <1>6, <2>2 DEF IInv, ShowsOK
<1>11. WalkOK'
  <2> SUFFICES ASSUME NEW g \in Handles, handle[g] # NULL
               PROVE  /\ WalkOf(subdirs, handle[g], status'[g])
                      /\ ~disturbed[g] => WalkedOnce(subdirs, handle[g], listed'[g])
    BY <1>1 DEF WalkOK
  <2>1. /\ WalkOf(subdirs, handle[g], status[g])
        /\ ~disturbed[g] => WalkedOnce(subdirs, handle[g], listed[g])
    BY DEF IInv, WalkOK
  <2>2. CASE g = h
    <3>1. WalkOf(subdirs, handle[h], "entry")
      BY <2>1, <2>2 DEF WalkOf
    <3>2. ASSUME NEW x \in Names
          PROVE  Cardinality(Virtuals(listed[h] \o <<e>>, x)) = Cardinality(Virtuals(listed[h], x))
      <4>1. Cardinality(Virtuals(listed[h], x)) \in Nat
        BY <1>7, SetsAreFinite, 0 \in Nat
      <4>2. Cardinality(Virtuals(listed[h] \o <<e>>, x))
              = Cardinality(Virtuals(listed[h], x)) + (IF e.virtual /\ e.d_name = x THEN 1 ELSE 0)
        BY <1>4, <1>7, OneMoreEntry
      <4> QED
        BY <1>4, <4>1, <4>2
    <3>3. WalkedOnce(subdirs, handle[h], listed[h]) => WalkedOnce(subdirs, handle[h], listed[h] \o <<e>>)
      BY <3>2 DEF WalkedOnce
    <3> QED
      BY <1>6, <2>1, <2>2, <3>1, <3>3
  <2>3. CASE g # h
    BY <1>6, <2>1, <2>3
  <2> QED
    BY <2>2, <2>3
<1>12. DiskOK'
  <2> SUFFICES ASSUME NEW g \in Handles, handle[g] # NULL, handle[g].dir, NEW x \in lasting[g]
               PROVE  DiskOf(subdirs, handle[g], NULL, disk[x], x, status'[g], listed'[g])
    BY <1>1, <1>6 DEF DiskOK, AtStat
  <2>1. x \in RealNames /\ disk[x] \in Kinds
    BY <1>2 DEF TypeOK
  <2>2. CASE g = h
    <3>1. /\ Cardinality(Reals(listed[h], x)) \in Nat
          /\ Cardinality(Reals(listed[h] \o <<e>>, x))
               = Cardinality(Reals(listed[h], x)) + (IF ~e.virtual /\ e.d_name = x THEN 1 ELSE 0)
      <4>1. Cardinality(Reals(listed[h], x)) \in Nat
        BY <1>7, SetsAreFinite, 0 \in Nat
      <4> QED
        BY <1>4, <1>7, <4>1, OneMoreEntry
    <3>2. CASE x = d.d_name
      <4>1. /\ Cardinality(Reals(listed[h], x)) = 0
            /\ Entry(x, disk[x]) \notin handle[h].pending
            /\ Turns(subdirs, disk[x], x) = (IF Listable(disk[x]) THEN 1 ELSE 0)
        BY <1>1, <1>3, <2>2, <3>2, TurnIsOver DEF h, d
      <4>2. Cardinality(Reals(listed[h] \o <<e>>, x)) = 1
        BY <1>4, <3>1, <3>2, <4>1
      <4>3. \A f \in handle[h].pending : f.d_name = x => f = Entry(x, disk[x])
        BY <2>2 DEF IInv, DiskOK, DiskOf
      <4>4. NULL # Entry(x, disk[x])
        BY <2>1, EntryIs
      <4> QED
        BY <1>1, <1>6, <2>2, <3>2, <4>1, <4>2, <4>3, <4>4 DEF DiskOf
    <3>3. CASE x # d.d_name
      <4>1. DiskOf(subdirs, handle[h], NULL, disk[x], x, status[h], listed[h])
        BY <1>1, <1>3, <2>2, <3>3, TurnIsOver DEF h, d
      <4>2. Cardinality(Reals(listed[h] \o <<e>>, x)) = Cardinality(Reals(listed[h], x))
        BY <1>4, <3>1, <3>3
      <4>3. DiskOf(subdirs, handle[h], NULL, disk[x], x, "entry", listed[h] \o <<e>>)
        BY <4>1, <4>2 DEF DiskOf
      <4> QED
        BY <1>6, <2>2, <4>3
    <3> QED
      BY <3>2, <3>3
  <2>3. CASE g # h
    <3>1. AtStat(g) = NULL
      BY <1>5, <2>3
    <3> QED
      BY <1>6, <2>3, <3>1 DEF IInv, DiskOK
  <2> QED
    BY <2>2, <2>3
<1> QED
  BY <1>8, <1>9, <1>10, <1>11, <1>12 DEF IInv

(* Skipping an entry that cannot be shown keeps the invariant.             *)
LEMMA SkipStep ==
  ASSUME IInv, StatSkips
  PROVE  IInv'
<1> DEFINE h == call.handle
           d == call.dirent
<1>1. /\ call # NULL /\ call.dirent # NULL /\ ~Listable(disk[d.d_name])
      /\ call' = [call EXCEPT !.dirent = NULL]
      /\ UNCHANGED <<subdirs, disk, handle, status, listed, lasting, disturbed>>
  BY DEF StatSkips, Statted
<1>2. TypeOK
  BY DEF IInv
<1>3. /\ call \in Calls /\ h \in Handles /\ handle[h] # NULL /\ handle[h].dir
      /\ ~InListing(h)
  BY <1>1, <1>2, TypedCall DEF IInv, CallOK
<1>4. call' \in Calls /\ call'.handle = h /\ call'.dirent = NULL
  BY <1>1, <1>3 DEF Calls
<1>5. \A g \in Handles : AtStat(g)' = NULL
  BY <1>4 DEF AtStat
<1>6. \A g \in Handles \ {h} : AtStat(g) = NULL
  BY DEF AtStat
<1> HIDE DEF h, d
<1>7. TypeOK'
  BY <1>1, <1>4 DEF IInv, TypeOK, ListOK
<1>8. CallOK'
  BY <1>1, <1>3, <1>4 DEF CallOK, InListing
<1>9. ClosedOK' /\ WalkOK' /\ ShowsOK'
  BY <1>1 DEF IInv, ClosedOK, WalkOK, ShowsOK
<1>10. DiskOK'
  <2> SUFFICES ASSUME NEW g \in Handles, handle[g] # NULL, handle[g].dir, NEW x \in lasting[g]
               PROVE  DiskOf(subdirs, handle[g], NULL, disk[x], x, status[g], listed[g])
    BY <1>1, <1>5 DEF DiskOK
  <2>1. x \in RealNames /\ disk[x] \in Kinds
    BY <1>2 DEF TypeOK
  <2>2. CASE g = h /\ x = d.d_name
    <3>1. /\ Cardinality(Reals(listed[h], x)) = 0
          /\ Entry(x, disk[x]) \notin handle[h].pending
          /\ Turns(subdirs, disk[x], x) = (IF Listable(disk[x]) THEN 1 ELSE 0)
      BY <1>1, <1>3, <2>2, TurnIsOver DEF h, d
    <3>2. \A f \in handle[h].pending : f.d_name = x => f = Entry(x, disk[x])
      BY <2>2 DEF IInv, DiskOK, DiskOf
    <3>3. NULL # Entry(x, disk[x])
      BY <2>1, EntryIs
    <3> QED
      BY <1>1, <2>2, <3>1, <3>2, <3>3 DEF DiskOf
  <2>3. CASE g = h /\ x # d.d_name
    BY <1>1, <1>3, <2>3, TurnIsOver DEF h, d
  <2>4. CASE g # h
    BY <1>6, <2>4 DEF IInv, DiskOK
  <2> QED
    BY <2>2, <2>3, <2>4
<1> QED
  BY <1>7, <1>8, <1>9, <1>10 DEF IInv

(* The test for an overriding virtual directory leaves a list of the same  *)
(* names, and says whether the entry's is among them.                      *)
LEMMA OutcomeIs ==
  ASSUME TypeOK, NEW d \in DirEntries,
         NEW o \in IF Supported(d) THEN Overridden(d)
                   ELSE {[list |-> subdirs, found |-> TRUE]}
  PROVE  /\ subdirs = NULL => o.list = NULL
         /\ subdirs # NULL =>
              /\ o.list # NULL /\ o.list \in Lists
              /\ o.list.sorted => InOrder(o.list.strings)
              /\ Len(o.list.strings) = Len(subdirs.strings)
              /\ \A x : Cardinality(Among(o.list.strings, Len(subdirs.strings), x))
                         = Cardinality(Among(subdirs.strings, Len(subdirs.strings), x))
         /\ \A x : Overriding(o.list, x) <=> Overriding(subdirs, x)
         /\ Supported(d) => (o.found <=> Overriding(subdirs, d.d_name))
         /\ ~Supported(d) => o.found
<1>1. CASE ~Supported(d)
  <2>1. o = [list |-> subdirs, found |-> TRUE]
    BY <1>1
  <2> QED
    BY <1>1, <2>1, TypedList
<1>2. CASE Supported(d) /\ subdirs = NULL
  <2>1. o = [list |-> NULL, found |-> FALSE]
    BY <1>2 DEF Overridden
  <2> QED
    BY <1>2, <2>1 DEF Overriding
<1>3. CASE Supported(d) /\ subdirs # NULL
  <2>1. /\ o \in stringlist_contains(subdirs, d.d_name)
        /\ subdirs \in Lists /\ (subdirs.sorted => InOrder(subdirs.strings))
        /\ subdirs.strings \in Seq(Names)
    BY <1>3, TypedList DEF Overridden
  <2>2. d.d_name \in Names
    BY <1>3, SupportedIsReal, ReaddirAssumption
  <2>3. /\ o.list \in Lists /\ (o.list.sorted => InOrder(o.list.strings))
        /\ o.found \in BOOLEAN
    BY <2>1, ContainsIsHonest
  <2>4. o.list # NULL /\ o.list.strings \in Seq(Names)
    BY <2>3, NullIsNoRecord DEF Lists
  <2>5. Len(o.list.strings) = Len(subdirs.strings)
    BY <2>1, ContainsKeepsLength
  <2>6. /\ \A y : CountOf(o.list.strings, y) = CountOf(subdirs.strings, y)
        /\ o.found = (CountOf(subdirs.strings, d.d_name) > 0)
    BY <2>1, <2>2, ContainsCounts
  <2>7. \A x : Holds(o.list.strings, x) <=> Holds(subdirs.strings, x)
    BY <2>1, <2>4, <2>6, PlacesFinite
  <2>8. CountOf(subdirs.strings, d.d_name) > 0 <=> Holds(subdirs.strings, d.d_name)
    BY <2>1, PlacesFinite
  <2>9. o.found <=> Holds(subdirs.strings, d.d_name)
    BY <2>6, <2>8, Zenon
  <2>10. \A x : /\ CountOf(o.list.strings, x) = Cardinality(Among(o.list.strings, Len(subdirs.strings), x))
                /\ CountOf(subdirs.strings, x) = Cardinality(Among(subdirs.strings, Len(subdirs.strings), x))
    BY <2>5, Zenon DEF CountOf, Among
  <2>11. \A x : Overriding(o.list, x) <=> Overriding(subdirs, x)
    BY <1>3, <2>4, <2>7, Zenon DEF Overriding
  <2>12. o.found <=> Overriding(subdirs, d.d_name)
    BY <1>3, <2>9, Zenon DEF Overriding
  <2>13. \A x : Cardinality(Among(o.list.strings, Len(subdirs.strings), x))
                 = Cardinality(Among(subdirs.strings, Len(subdirs.strings), x))
    BY <2>6, <2>10, Zenon
  <2> QED
    BY <1>3, <2>3, <2>4, <2>5, <2>11, <2>12, <2>13, Zenon
<1> QED
  BY <1>1, <1>2, <1>3

(* Reading the stream, with the lookup that may sort the shared listing,   *)
(* keeps the invariant.                                                    *)
LEMMA ReadStep ==
  ASSUME IInv, StreamReads
  PROVE  IInv'
<1>1. /\ call # NULL /\ call.dirent = NULL
      /\ UNCHANGED <<disk, status, listed, lasting>>
  BY DEF StreamReads
<1>2. TypeOK
  BY DEF IInv
<1>3. PICK h \in Handles : h = call.handle
  BY <1>1, <1>2, TypedCall
<1>4. PICK d \in handle[h].pending :
        /\ handle' = [handle EXCEPT ![h].pending = @ \ {d}]
        /\ \E o \in IF Supported(d) THEN Overridden(d)
                     ELSE {[list |-> subdirs, found |-> TRUE]} :
             /\ subdirs' = o.list
             /\ disturbed' = [g \in Handles |->
                  disturbed[g] \/ (o.list # subdirs /\ Walking(g)
                                    /\ o.list.strings # subdirs.strings)]
             /\ call' = IF o.found THEN call ELSE [call EXCEPT !.dirent = d]
  BY <1>3 DEF StreamReads
<1>5. PICK o \in IF Supported(d) THEN Overridden(d)
                 ELSE {[list |-> subdirs, found |-> TRUE]} :
        /\ subdirs' = o.list
        /\ disturbed' = [g \in Handles |->
             disturbed[g] \/ (o.list # subdirs /\ Walking(g)
                               /\ o.list.strings # subdirs.strings)]
        /\ call' = IF o.found THEN call ELSE [call EXCEPT !.dirent = d]
  BY <1>4
<1>6. /\ call \in Calls /\ h \in Handles /\ handle[h] # NULL /\ handle[h].dir
      /\ ~InListing(h) /\ handle[h] \in DirHandles /\ d \in DirEntries
  BY <1>3, <1>1, <1>2, TypedCall, TypedHandle DEF IInv, CallOK
<1> DEFINE r == [handle[h] EXCEPT !.pending = @ \ {d}]
<1>7. /\ r \in DirHandles /\ r # NULL /\ r.dir
      /\ r.internal_node_index = handle[h].internal_node_index
      /\ r.pending = handle[h].pending \ {d}
  BY <1>6, NullIsNoRecord DEF DirHandles
<1>8. handle' = [handle EXCEPT ![h] = r]
  BY <1>4, <1>2, <1>6 DEF TypeOK
<1>9. call' \in Calls /\ call'.handle = h /\ call'.dirent = IF o.found THEN NULL ELSE d
  BY <1>3, <1>5, <1>1, <1>6 DEF Calls
<1>10. \A g \in Handles : AtStat(g) = NULL
  BY <1>1 DEF AtStat
<1>11. /\ \A g \in Handles \ {h} : AtStat(g)' = NULL
       /\ AtStat(h)' = IF o.found THEN NULL ELSE d
  BY <1>9, NullIsNoRecord DEF AtStat
<1> HIDE DEF r
<1>12. /\ handle' \in [Handles -> DirHandles \cup {NULL}] /\ handle'[h] = r
       /\ \A g \in Handles \ {h} : handle'[g] = handle[g]
  BY <1>2, <1>6, <1>7, <1>8 DEF TypeOK
<1>13. /\ subdirs = NULL => o.list = NULL
       /\ subdirs # NULL =>
            /\ o.list # NULL /\ o.list \in Lists
            /\ o.list.sorted => InOrder(o.list.strings)
            /\ Len(o.list.strings) = Len(subdirs.strings)
            /\ \A x : Cardinality(Among(o.list.strings, Len(subdirs.strings), x))
                       = Cardinality(Among(subdirs.strings, Len(subdirs.strings), x))
  BY <1>2, <1>6, OutcomeIs
<1>14. /\ \A x : Overriding(o.list, x) <=> Overriding(subdirs, x)
       /\ Supported(d) => (o.found <=> Overriding(subdirs, d.d_name))
       /\ ~Supported(d) => o.found
  BY <1>2, <1>6, OutcomeIs
<1>15. TypeOK'
  <2>1. ListOK'
    BY <1>5, <1>13 DEF ListOK
  <2>2. disturbed' \in [Handles -> BOOLEAN]
    <3>1. \A g \in Handles : (disturbed[g] \/ (o.list # subdirs /\ Walking(g)
                               /\ o.list.strings # subdirs.strings)) \in BOOLEAN
      BY Zenon
    <3> QED
      BY <1>5, <3>1
  <2> QED
    BY <1>1, <1>9, <1>12, <2>1, <2>2 DEF IInv, TypeOK
<1>16. ClosedOK'
  <2> SUFFICES ASSUME NEW g \in Handles, handle'[g] = NULL
               PROVE  listed[g] = <<>> /\ ~disturbed'[g]
    BY <1>1 DEF ClosedOK
  <2>1. g # h /\ handle[g] = NULL
    BY <1>7, <1>12
  <2>2. listed[g] = <<>> /\ ~disturbed[g] /\ ~Walking(g)
    BY <2>1 DEF IInv, ClosedOK, Walking
  <2> QED
    BY <1>5, <2>2, Zenon
<1>17. CallOK'
  <2>1. handle'[h] # NULL /\ handle'[h].dir
    BY <1>7, <1>12
  <2>2. ~InListing(h)'
    <3>1. ~(subdirs # NULL /\ handle[h].internal_node_index < Len(subdirs.strings))
      BY <1>6 DEF InListing
    <3>2. ~(o.list # NULL /\ r.internal_node_index < Len(o.list.strings))
      BY <1>7, <1>13, <3>1
    <3> QED
      BY <1>5, <1>12, <3>2 DEF InListing
  <2>3. ASSUME ~o.found PROVE Supported(d) /\ ~Overriding(o.list, d.d_name)
    BY <1>14, <2>3
  <2> QED
    BY <1>5, <1>9, <2>1, <2>2, <2>3 DEF CallOK
<1>18. ShowsOK'
  <2>1. \A g \in Handles : ShowsOf(subdirs, listed[g])
    BY DEF IInv, ShowsOK
  <2>2. \A g \in Handles : ShowsOf(o.list, listed[g])
    BY <1>14, <2>1 DEF ShowsOf
  <2> QED
    BY <1>5, <1>1, <2>2 DEF ShowsOK
<1>19. WalkOK'
  <2> SUFFICES ASSUME NEW g \in Handles, handle'[g] # NULL
               PROVE  /\ WalkOf(o.list, handle'[g], status[g])
                      /\ ~disturbed'[g] => WalkedOnce(o.list, handle'[g], listed[g])
    BY <1>5, <1>1 DEF WalkOK
  <2>1. /\ handle[g] # NULL
        /\ handle'[g].internal_node_index = handle[g].internal_node_index
    BY <1>6, <1>7, <1>12
  <2>2. /\ WalkOf(subdirs, handle[g], status[g])
        /\ ~disturbed[g] => WalkedOnce(subdirs, handle[g], listed[g])
    BY <2>1 DEF IInv, WalkOK
  <2>3. WalkOf(o.list, handle'[g], status[g])
    BY <1>13, <2>1, <2>2 DEF WalkOf
  <2>4. ASSUME ~disturbed'[g] PROVE WalkedOnce(o.list, handle'[g], listed[g])
    <3>1. ~disturbed[g] /\ (o.list = subdirs \/ ~Walking(g) \/ o.list.strings = subdirs.strings)
      BY <1>5, <2>4, Zenon
    <3>2. WalkedOnce(subdirs, handle[g], listed[g])
      BY <2>2, <3>1
    <3>3. CASE subdirs = NULL
      BY <1>13, <3>3 DEF WalkedOnce
    <3>4. CASE subdirs # NULL /\ o.list.strings = subdirs.strings
      BY <2>1, <3>2, <3>4 DEF WalkedOnce
    <3>5. CASE subdirs # NULL /\ ~Walking(g)
      <4> DEFINE n == handle[g].internal_node_index
      <4>1. n \in Nat /\ Len(subdirs.strings) \in Nat
        BY <1>2, <2>1, <3>5, TypedHandle, TypedList
      <4>2. n <= Len(subdirs.strings)
        BY <2>2, <3>5 DEF WalkOf
      <4>3. ~(n > 0 /\ n < Len(subdirs.strings))
        BY <2>1, <3>5 DEF Walking, InListing
      <4>4. n = 0 \/ n = Len(subdirs.strings)
        BY <4>1, <4>2, <4>3
      <4>5. \A x : Cardinality(Among(o.list.strings, n, x)) = Cardinality(Among(subdirs.strings, n, x))
        BY <1>13, <3>5, <4>4, NothingIsEmpty
      <4> QED
        BY <2>1, <3>2, <3>5, <4>5 DEF WalkedOnce
    <3> QED
      BY <3>1, <3>3, <3>4, <3>5
  <2> QED
    BY <2>3, <2>4
<1>20. DiskOK'
  <2> SUFFICES ASSUME NEW g \in Handles, handle'[g] # NULL, handle'[g].dir, NEW x \in lasting[g]
               PROVE  DiskOf(o.list, handle'[g], AtStat(g)', disk[x], x, status[g], listed[g])
    BY <1>5, <1>1 DEF DiskOK
  <2>1. x \in RealNames /\ disk[x] \in Kinds
    BY <1>2 DEF TypeOK
  <2>2. Turns(o.list, disk[x], x) = Turns(subdirs, disk[x], x)
    BY <1>14 DEF Turns
  <2>3. DiskOf(subdirs, handle[g], NULL, disk[x], x, status[g], listed[g])
    <3>1. handle[g] # NULL /\ handle[g].dir
      BY <1>6, <1>12
    <3> QED
      BY <1>10, <3>1 DEF IInv, DiskOK
  <2>4. CASE g # h
    <3>1. DiskOf(o.list, handle[g], NULL, disk[x], x, status[g], listed[g])
      BY <2>2, <2>3 DEF DiskOf
    <3> QED
      BY <1>11, <1>12, <2>4, <3>1
  <2>5. CASE g = h /\ x # d.d_name
    <3>1. d # Entry(x, disk[x]) /\ NULL # Entry(x, disk[x])
      BY <2>1, <2>5, EntryIs
    <3>2. \A e \in {NULL, d} : DiskOf(o.list, r, e, disk[x], x, status[h], listed[h])
      BY <1>7, <2>2, <2>3, <2>5, <3>1 DEF DiskOf
    <3>3. AtStat(h)' \in {NULL, d}
      BY <1>11
    <3> QED
      BY <1>12, <2>5, <3>2, <3>3
  <2>6. CASE g = h /\ x = d.d_name
    <3>1. d = Entry(x, disk[x]) /\ NULL # Entry(x, disk[x]) /\ d \in handle[h].pending
      BY <1>4, <2>1, <2>3, <2>6, EntryIs DEF DiskOf
    <3>2. Cardinality(Reals(listed[h], x)) = 0 /\ status[h] # "eof"
      BY <2>3, <2>6, <3>1 DEF DiskOf
    <3>3. \A f \in r.pending : f.d_name = x => f = Entry(x, disk[x])
      BY <1>7, <2>3, <2>6 DEF DiskOf
    <3>4. Entry(x, disk[x]) \notin r.pending
      BY <1>7, <3>1
    <3>5. ASSUME o.found PROVE Turns(o.list, disk[x], x) = 0
      <4>1. CASE Supported(d)
        BY <1>14, <2>2, <2>6, <3>5, <4>1 DEF Turns
      <4>2. CASE ~Supported(d)
        <5>1. d_type(disk[x]) \notin {"DT_REG", "DT_LNK"}
          BY <2>1, <3>1, <4>2, EntryIs DEF Supported
        <5>2. disk[x] \notin {"reg", "link"}
          BY <5>1 DEF d_type
        <5> QED
          BY <5>2 DEF Turns
      <4> QED
        BY <4>1, <4>2
    <3>6. CASE o.found
      BY <1>11, <1>12, <2>6, <3>1, <3>2, <3>3, <3>4, <3>5, <3>6 DEF DiskOf
    <3>7. CASE ~o.found
      BY <1>11, <1>12, <2>6, <3>1, <3>2, <3>3, <3>4, <3>7 DEF DiskOf
    <3> QED
      BY <3>6, <3>7
  <2> QED
    BY <2>4, <2>5, <2>6
<1> QED
  BY <1>15, <1>16, <1>17, <1>18, <1>19, <1>20 DEF IInv

(* A change of the disk keeps the invariant.                               *)
LEMMA ChangeStep ==
  ASSUME IInv, NEW x \in RealNames, NEW kind \in Kinds, ChangeDisk(x, kind)
  PROVE  IInv'
<1>1. PICK keepers, getters \in SUBSET {h \in Opened : handle[h].dir} :
        handle' = [h \in Handles |->
          IF handle[h] = NULL \/ ~handle[h].dir THEN handle[h]
          ELSE [handle[h] EXCEPT !.pending = Seen(@, x, kind, h \in keepers, h \in getters)]]
  BY DEF ChangeDisk
<1>2. /\ disk' = [disk EXCEPT ![x] = kind]
      /\ lasting' = [h \in Handles |-> lasting[h] \ {x}]
      /\ UNCHANGED <<subdirs, call, status, listed, disturbed>>
  BY DEF ChangeDisk
<1>3. TypeOK
  BY DEF IInv
<1>4. Entry(x, kind) \in DirEntries /\ Entry(x, kind).d_name = x
  BY EntryIs
<1>5. ASSUME NEW h \in Handles, handle[h] # NULL
      PROVE  /\ handle'[h] \in DirHandles /\ handle'[h] # NULL
             /\ handle'[h].dir = handle[h].dir
             /\ handle'[h].internal_node_index = handle[h].internal_node_index
             /\ \A e : e.d_name # x => (e \in handle'[h].pending <=> e \in handle[h].pending)
  <2>1. handle[h] \in DirHandles
    BY <1>3, <1>5, TypedHandle
  <2>2. CASE ~handle[h].dir
    <3>1. handle'[h] = handle[h]
      BY <1>1, <2>2
    <3> QED
      BY <1>5, <2>1, <3>1
  <2>3. CASE handle[h].dir
    <3> DEFINE seen == Seen(handle[h].pending, x, kind, h \in keepers, h \in getters)
    <3>1. handle'[h] = [handle[h] EXCEPT !.pending = seen]
      BY <1>1, <1>5, <2>3
    <3>2. seen \subseteq handle[h].pending \cup {Entry(x, kind)}
      BY DEF Seen
    <3>3. \A e : e.d_name # x => (e \in seen <=> e \in handle[h].pending)
      BY <1>4 DEF Seen
    <3> HIDE DEF seen
    <3>4. seen \in SUBSET DirEntries
      BY <1>4, <2>1, <3>2 DEF DirHandles
    <3>5. /\ handle'[h] \in DirHandles /\ handle'[h].pending = seen
          /\ handle'[h].dir = handle[h].dir
          /\ handle'[h].internal_node_index = handle[h].internal_node_index
      BY <2>1, <3>1, <3>4 DEF DirHandles
    <3> QED
      BY <3>3, <3>5, NullIsNoRecord
  <2> QED
    BY <2>1, <2>2, <2>3 DEF DirHandles
<1>6. \A h \in Handles : handle[h] = NULL => handle'[h] = NULL
  BY <1>1
<1>7. handle' \in [Handles -> DirHandles \cup {NULL}]
  <2>1. \A h \in Handles : handle'[h] \in DirHandles \cup {NULL}
    BY <1>5, <1>6
  <2> QED
    BY <1>1, <2>1
<1>8. /\ disk' \in [RealNames -> Kinds]
      /\ \A y \in RealNames \ {x} : disk'[y] = disk[y]
      /\ lasting' \in [Handles -> SUBSET RealNames]
      /\ \A h \in Handles : lasting'[h] = lasting[h] \ {x}
  BY <1>2, <1>3 DEF TypeOK
<1>9. TypeOK'
  BY <1>2, <1>3, <1>7, <1>8 DEF TypeOK, ListOK
<1>10. ClosedOK' /\ ShowsOK'
  BY <1>2, <1>5 DEF IInv, ClosedOK, ShowsOK
<1>11. CallOK'
  <2>1. call # NULL => call.handle \in Handles
    BY <1>3, TypedCall
  <2> QED
    BY <1>2, <1>5, <2>1 DEF IInv, CallOK, InListing
<1>12. WalkOK'
  <2> SUFFICES ASSUME NEW g \in Handles, handle'[g] # NULL
               PROVE  /\ WalkOf(subdirs, handle'[g], status[g])
                      /\ ~disturbed[g] => WalkedOnce(subdirs, handle'[g], listed[g])
    BY <1>2 DEF WalkOK
  <2>1. handle[g] # NULL /\ handle'[g].internal_node_index = handle[g].internal_node_index
    BY <1>5, <1>6
  <2>2. /\ WalkOf(subdirs, handle[g], status[g])
        /\ ~disturbed[g] => WalkedOnce(subdirs, handle[g], listed[g])
    BY <2>1 DEF IInv, WalkOK
  <2> QED
    BY <2>1, <2>2 DEF WalkOf, WalkedOnce
<1>13. DiskOK'
  <2> SUFFICES ASSUME NEW g \in Handles, handle'[g] # NULL, handle'[g].dir, NEW y \in lasting'[g]
               PROVE  DiskOf(subdirs, handle'[g], AtStat(g), disk'[y], y, status[g], listed[g])
    BY <1>2 DEF DiskOK, AtStat
  <2>1. /\ y \in RealNames /\ y \in lasting[g] /\ y # x
        /\ disk'[y] = disk[y] /\ disk[y] \in Kinds
    BY <1>3, <1>8 DEF TypeOK
  <2>2. /\ handle[g] # NULL /\ handle[g].dir
        /\ \A e : e.d_name # x => (e \in handle'[g].pending <=> e \in handle[g].pending)
    BY <1>5, <1>6
  <2>3. DiskOf(subdirs, handle[g], AtStat(g), disk[y], y, status[g], listed[g])
    BY <2>1, <2>2 DEF IInv, DiskOK
  <2>4. Entry(y, disk[y]) \in handle'[g].pending <=> Entry(y, disk[y]) \in handle[g].pending
    BY <2>1, <2>2, EntryIs
  <2>5. \A f \in handle'[g].pending : f.d_name = y => f \in handle[g].pending
    BY <2>1, <2>2
  <2> HIDE DEF Entry
  <2> QED
    BY <2>1, <2>3, <2>4, <2>5 DEF DiskOf
<1> QED
  BY <1>9, <1>10, <1>11, <1>12, <1>13 DEF IInv

-----------------------------------------------------------------------------
(***************************************************************************)
(* The theorems.                                                           *)
(***************************************************************************)
LEMMA IInvStep == IInv /\ [Next]_vars => IInv'
<1> SUFFICES ASSUME IInv, [Next]_vars PROVE IInv'
  OBVIOUS
<1>1. ASSUME NEW h \in Handles, NEW opens \in BOOLEAN, vfs_opendir(h, opens) PROVE IInv'
  BY <1>1, OpenStep
<1>2. ASSUME NEW h \in Handles, vfs_close_handle(h) PROVE IInv'
  BY <1>2, CloseStep
<1>3. ASSUME NEW h \in Handles, vfs_readdir(h) PROVE IInv'
  BY <1>3, QuietSteps, ListingStep, EnterStep DEF vfs_readdir
<1>4. ASSUME InCall PROVE IInv'
  BY <1>4, QuietSteps, ReadStep, StatStep, SkipStep DEF InCall
<1>5. ASSUME NEW x \in RealNames, NEW kind \in Kinds, ChangeDisk(x, kind) PROVE IInv'
  BY <1>5, ChangeStep
<1>6. CASE UNCHANGED vars
  <2>1. UNCHANGED <<subdirs, disk, handle, call, status, listed, lasting, disturbed>>
    BY <1>6 DEF vars
  <2>2. TypeOK' /\ ClosedOK' /\ CallOK' /\ WalkOK' /\ ShowsOK'
    BY <2>1 DEF IInv, TypeOK, ListOK, ClosedOK, CallOK, InListing, WalkOK, ShowsOK
  <2>3. DiskOK'
    BY <2>1 DEF IInv, DiskOK, AtStat
  <2> QED
    BY <2>2, <2>3 DEF IInv
<1> QED
  BY <1>1, <1>2, <1>3, <1>4, <1>5, <1>6 DEF Next

(* The inductive invariant, of every directory.                            *)
THEOREM Invariance == Spec => []IInv
<1>1. Init => IInv
  BY IInvInit
<1>2. IInv /\ [Next]_vars => IInv'
  BY IInvStep
<1> QED
  BY <1>1, <1>2, PTL DEF Spec

(* The counts the properties use are those of the lemmas.                  *)
LEMMA Counted ==
  ASSUME NEW h, NEW x
  PROVE  /\ TimesVirtual(h, x) = Cardinality(Virtuals(listed[h], x))
         /\ TimesReal(h, x) = Cardinality(Reals(listed[h], x))
BY DEF TimesVirtual, TimesReal, Virtuals, Reals

(* Whatever other handles do, one that has not had the shared listing      *)
(* sorted under it has shown each virtual directory before its position    *)
(* once, and no other.                                                     *)
THEOREM EachIsWalkedOnce == Spec => []ListingWalkedOnce
<1>1. IInv => ListingWalkedOnce
  <2> SUFFICES ASSUME IInv, NEW h \in Opened, subdirs # NULL, ~disturbed[h]
               PROVE  /\ handle[h].internal_node_index <= Len(subdirs.strings)
                      /\ \A x \in Names :
                           TimesVirtual(h, x)
                             = Cardinality({i \in 1 .. handle[h].internal_node_index :
                                              subdirs.strings[i] = x})
    BY DEF ListingWalkedOnce
  <2>1. /\ WalkOf(subdirs, handle[h], status[h])
        /\ WalkedOnce(subdirs, handle[h], listed[h])
    BY DEF Opened, IInv, WalkOK
  <2>2. ASSUME NEW x \in Names
        PROVE  TimesVirtual(h, x) = Cardinality(Among(subdirs.strings, handle[h].internal_node_index, x))
    BY <2>1, Counted DEF WalkedOnce
  <2> QED
    BY <2>1, <2>2 DEF WalkOf, Among
<1> QED
  BY <1>1, Invariance, PTL

(* A name of the listing is never shown a second time as a real entry,     *)
(* however often the listing is sorted and the disk changes.               *)
THEOREM OverriddenAreHidden == Spec => []OverriddenNeverListed
<1>1. IInv => OverriddenNeverListed
  BY DEF IInv, ShowsOK, ShowsOf, Overriding, OverriddenNeverListed
<1> QED
  BY <1>1, Invariance, PTL

(* At the end of the directory every name nobody touched has been shown    *)
(* as often as it should, whatever errors the calls met.                   *)
THEOREM EachIsListedOnce == Spec => []DiskListedOnce
<1>1. IInv => DiskListedOnce
  <2> SUFFICES ASSUME IInv, NEW h \in Opened, status[h] = "eof", handle[h].dir,
                      NEW x \in lasting[h]
               PROVE  TimesReal(h, x) = Turns(subdirs, disk[x], x)
    BY DEF DiskListedOnce, Turns, Overriding
  <2>1. DiskOf(subdirs, handle[h], AtStat(h), disk[x], x, status[h], listed[h])
    BY DEF Opened, IInv, DiskOK
  <2> QED
    BY <2>1, Counted DEF DiskOf
<1> QED
  BY <1>1, Invariance, PTL

(* What OverridingIsListed says of the handles that have not had the       *)
(* listing sorted under them.                                              *)
UndisturbedShowAll ==
  \A h \in Opened : status[h] = "eof" /\ subdirs # NULL /\ ~disturbed[h] =>
    \A x \in Names : Holds(subdirs.strings, x) => TimesVirtual(h, x) > 0

(* The invariant says what an undisturbed listing shows at its end.        *)
LEMMA IInvShowsAll == IInv => UndisturbedShowAll
<1> SUFFICES ASSUME IInv, NEW h \in Opened, status[h] = "eof", subdirs # NULL, ~disturbed[h],
                    NEW x \in Names, Holds(subdirs.strings, x)
             PROVE  TimesVirtual(h, x) > 0
  BY DEF UndisturbedShowAll
<1>1. /\ WalkOf(subdirs, handle[h], status[h])
      /\ WalkedOnce(subdirs, handle[h], listed[h])
  BY DEF Opened, IInv, WalkOK
<1>2. TimesVirtual(h, x) = Cardinality(Among(subdirs.strings, Len(subdirs.strings), x))
  BY <1>1, Counted DEF WalkOf, WalkedOnce
<1>3. TimesVirtual(h, x) = CountOf(subdirs.strings, x)
  BY <1>2 DEF Among, CountOf
<1> QED
  BY <1>3, TypedList, PlacesFinite DEF IInv

(* A handle that no other one has disturbed has, at its end, shown every   *)
(* virtual directory of the listing.                                       *)
THEOREM UndisturbedSeeAll == Spec => []UndisturbedShowAll
<1> QED
  BY IInvShowsAll, Invariance, PTL

(* A handle is disturbed by another one only: with a single handle, at the *)
(* end the listing has shown every name that it kept the disk from showing.*)
NoneDisturbed == \A h \in Handles : ~disturbed[h]

(* A single handle is never disturbed.                                     *)
LEMMA AloneStep ==
  ASSUME \A g, h \in Handles : g = h
  PROVE  IInv /\ NoneDisturbed /\ [Next]_vars => NoneDisturbed'
<1> SUFFICES ASSUME IInv, NoneDisturbed, [Next]_vars PROVE NoneDisturbed'
  OBVIOUS
<1>1. CASE StreamReads
  <2>1. PICK list :
          disturbed' = [g \in Handles |->
            disturbed[g] \/ (list # subdirs /\ Walking(g) /\ list.strings # subdirs.strings)]
    BY <1>1 DEF StreamReads
  <2>2. call.handle \in Handles /\ ~InListing(call.handle)
    BY <1>1, TypedCall DEF StreamReads, IInv, CallOK
  <2>3. \A g \in Handles : ~Walking(g)
    BY <2>2 DEF Walking
  <2> QED
    BY <2>1, <2>3 DEF NoneDisturbed
<1>2. CASE \E h \in Handles : vfs_close_handle(h)
  BY <1>2 DEF vfs_close_handle, NoneDisturbed, IInv, TypeOK
<1>3. CASE UNCHANGED disturbed
  BY <1>3 DEF NoneDisturbed
<1>4. StreamReads \/ (\E h \in Handles : vfs_close_handle(h)) \/ UNCHANGED disturbed
  BY DEF Next, vars, vfs_opendir, vfs_readdir, ReadNothing, ReadListing, EnterLoop,
         EndWithoutStream, InCall, StreamEnds, StreamFails, StatLists, StatSkips, ChangeDisk
<1> QED
  BY <1>1, <1>2, <1>3, <1>4

(* With a single handle, whatever changes on the disk, a listing that has  *)
(* come to its end has shown every virtual directory, also those that hid  *)
(* an entry of the disk.                                                   *)
THEOREM OverridingShows ==
  ASSUME \A g, h \in Handles : g = h
  PROVE  Spec => []OverridingIsListed
<1>1. Init => NoneDisturbed
  BY DEF Init, NoneDisturbed
<1>2. IInv /\ NoneDisturbed /\ [Next]_vars => NoneDisturbed'
  BY AloneStep
<1>3. IInv /\ NoneDisturbed => OverridingIsListed
  BY IInvShowsAll DEF NoneDisturbed, UndisturbedShowAll, OverridingIsListed, Opened
<1> QED
  BY <1>1, <1>2, <1>3, Invariance, PTL DEF Spec
=============================================================================
