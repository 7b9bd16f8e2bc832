--------------------------- MODULE VfsInodesProofs ---------------------------
(***************************************************************************)
(* Proofs about the inode table, for any requests in any order, any number *)
(* of inodes and of allocation failures.                                   *)
(***************************************************************************)
EXTENDS VfsInodes, DataProofs

-----------------------------------------------------------------------------
(* A stored path is a path and ends in no slash.                           *)
LEMMA StoredEnds ==
  ASSUME NEW p \in Seq(Tokens)
  PROVE  Stored(p) \in Seq(Tokens) /\ ~EndsInSlash(Stored(p))
<1>1. PICK n \in 0 .. Len(p) : Stored(p) = SubSeq(p, 1, n) /\ (n = 0 \/ p[n] # Slash)
  BY TruncateEnds DEF Stored
<1>2. /\ SubSeq(p, 1, n) \in Seq(Tokens) /\ Len(SubSeq(p, 1, n)) = n
      /\ n > 0 => SubSeq(p, 1, n)[n] = p[n]
  OBVIOUS
<1> QED
  BY <1>1, <1>2 DEF EndsInSlash

(* A path with at most one slash at its end is stored as pathcmp sees it.  *)
LEMMA StoredAsCompared ==
  ASSUME NEW p \in Seq(Tokens),
         Len(p) > 1 => ~(p[Len(p)] = Slash /\ p[Len(p) - 1] = Slash)
  PROVE  Stored(p) = DropOneSlash(p)
<1>1. PICK n \in 0 .. Len(p) :
        /\ Stored(p) = SubSeq(p, 1, n)
        /\ n = 0 \/ p[n] # Slash
        /\ \A k \in n + 1 .. Len(p) : p[k] = Slash
  BY TruncateEnds DEF Stored
<1>2. CASE EndsInSlash(p)
  <2>1. n # Len(p)
    BY <1>1, <1>2 DEF EndsInSlash
  <2>2. ~ (n < Len(p) - 1)
    <3> SUFFICES ASSUME n < Len(p) - 1 PROVE FALSE
      OBVIOUS
    <3>1. Len(p) \in n + 1 .. Len(p) /\ Len(p) - 1 \in n + 1 .. Len(p) /\ Len(p) > 1
      OBVIOUS
    <3> QED
      BY <1>1, <3>1
  <2>3. n = Len(p) - 1
    BY <2>1, <2>2
  <2> QED
    BY <1>1, <1>2, <2>3 DEF DropOneSlash, EndsInSlash
<1>3. CASE ~EndsInSlash(p)
  <2>1. n = Len(p)
    <3> SUFFICES ASSUME n # Len(p) PROVE FALSE
      OBVIOUS
    <3>1. Len(p) \in n + 1 .. Len(p) /\ Len(p) > 0
      OBVIOUS
    <3> QED
      BY <1>1, <1>3, <3>1 DEF EndsInSlash
  <2>2. SubSeq(p, 1, Len(p)) = p
    OBVIOUS
  <2> QED
    BY <1>1, <1>3, <2>1, <2>2 DEF DropOneSlash, EndsInSlash
<1> QED
  BY <1>2, <1>3

-----------------------------------------------------------------------------
NoTripleSlash(p) ==
  \A i \in 1 .. Len(p) - 2 : ~(p[i] = Slash /\ p[i + 1] = Slash /\ p[i + 2] = Slash)

(* What path_split shows its callback ends in one slash at most, if the    *)
(* path has no three of them in a row.                                     *)
LEMMA CutAsCompared ==
  ASSUME NEW p \in Seq(Tokens), NoTripleSlash(p), NEW j \in 1 .. Len(p)
  PROVE  Stored(CutPath(p, j)) = DropOneSlash(CutPath(p, j))
<1> DEFINE c == CutPath(p, j)
<1>1. c \in Seq(Tokens)
  BY CutIsPath
<1>2. ASSUME Len(c) > 1 PROVE ~(c[Len(c)] = Slash /\ c[Len(c) - 1] = Slash)
  <2>1. CASE p[j] = Slash /\ j # 1
    <3>1. c = SubSeq(p, 1, j - 1)
      BY <2>1 DEF CutPath
    <3>2. Len(c) = j - 1 /\ c[j - 1] = p[j - 1]
      BY <2>1, <3>1
    <3>3. j > 2 /\ c[j - 2] = p[j - 2] /\ j - 2 \in 1 .. Len(p) - 2
      BY <1>2, <3>1, <3>2
    <3>4. ~(p[j - 2] = Slash /\ p[j - 1] = Slash /\ p[j] = Slash)
      BY <3>3, (j - 2) + 1 = j - 1, (j - 2) + 2 = j DEF NoTripleSlash
    <3> QED
      BY <2>1, <3>2, <3>3, <3>4, (j - 1) - 1 = j - 2
  <2>2. CASE ~(p[j] = Slash /\ j # 1)
    <3>1. c = SubSeq(p, 1, j) /\ Len(c) = j /\ c[j] = p[j]
      BY <2>2 DEF CutPath
    <3> QED
      BY <1>2, <2>2, <3>1
  <2> QED
    BY <2>1, <2>2
<1> HIDE DEF c
<1>3. Stored(c) = DropOneSlash(c)
  BY <1>1, <1>2, StoredAsCompared
<1> QED
  BY <1>3 DEF c

-----------------------------------------------------------------------------
(* The parts of TypeOK that depend on each other: the table, and the call  *)
(* in progress.                                                            *)
TableOK ==
  /\ inodes \in Seq(Inodes)
  /\ data \in Seq(1 .. Len(inodes))
  /\ \A k, l \in Ids : data[k] = data[l] => k = l

AddingOK ==
  adding = NULL \/
    /\ adding \in [request : Requests, next : Nat, previous : Nat \cup {NULL}]
    /\ adding.next \in 1 .. Len(adding.request.virtual_path)
    /\ adding.previous \in (1 .. Len(inodes)) \cup {NULL}

(* vfs_find_inode returns an inode, or NULL when no path of the table      *)
(* compares equal.                                                         *)
LEMMA FindIsInTable ==
  ASSUME TableOK, NEW p
  PROVE  /\ Find(p) \in (1 .. Len(inodes)) \cup {NULL}
         /\ Find(p) = NULL => \A k \in Ids : ~pathcmp(inodes[data[k]].virtual_path, p)
         /\ Find(p) # NULL =>
              \E k \in Ids : Find(p) = data[k] /\ pathcmp(inodes[data[k]].virtual_path, p)
<1> DEFINE T == {k \in 1 .. Len(data) : Matches(inodes[data[k]], p)}
           First(k) == /\ Matches(inodes[data[k]], p)
                       /\ \A l \in 1 .. k - 1 : ~Matches(inodes[data[l]], p)
           f == CHOOSE m \in 1 .. Len(data) : First(m)
<1>1. Len(data) \in Nat /\ \A k \in 1 .. Len(data) : data[k] \in 1 .. Len(inodes)
  BY DEF TableOK
<1>2. CASE T = {}
  <2>1. Find(p) = NULL
    BY <1>2 DEF Find, vfs_find_inode
  <2> QED
    BY <1>2, <2>1 DEF Matches, Ids
<1>3. CASE T # {}
  <2>1. PICK k \in T : \A l \in T : k <= l
    <3>1. T \in SUBSET Nat
      BY <1>1
    <3> HIDE DEF T
    <3> QED
      BY <1>3, <3>1, Smallest
  <2>2. First(k)
    BY <1>1, <2>1
  <2>3. f \in 1 .. Len(data) /\ First(f)
    BY <2>1, <2>2
  <2>4. Find(p) = data[f]
    BY <1>3 DEF Find, vfs_find_inode
  <2> HIDE DEF f
  <2>5. Find(p) \in 1 .. Len(inodes)
    BY <1>1, <2>3, <2>4
  <2>6. Find(p) # NULL
    BY <2>5, NullAssumption DEF TableOK
  <2>7. f \in Ids /\ pathcmp(inodes[data[f]].virtual_path, p)
    BY <2>3 DEF Ids, Matches
  <2> QED
    BY <2>4, <2>5, <2>6, <2>7
<1> QED
  BY <1>2, <1>3
-----------------------------------------------------------------------------
(* The inode a callback creates, and the listing its parent gets.          *)
LEMMA NewInodeOK ==
  ASSUME AddingOK, adding # NULL, NEW p \in Seq(Tokens), NEW j
  PROVE  /\ NewInode(p, j) \in Inodes
         /\ [NewInode(p, j) EXCEPT !.virtual_subdirs = NULL] \in Inodes
         /\ NewInode(p, j).virtual_path = Stored(p)
         /\ [NewInode(p, j) EXCEPT !.virtual_subdirs = NULL].virtual_path = Stored(p)
<1> DEFINE r == adding.request
           i == NewInode(p, j)
<1>1. r \in Requests
  BY DEF AddingOK
<1>2. Stored(p) \in Seq(Tokens)
  BY StoredEnds
<1>3. i.target_path \in Seq(Tokens) \cup {NULL}
  <2>1. r.target_path # NULL => r.target_path \in Seq(Tokens)
    BY <1>1, RequestsAssumption
  <2>2. r.target_path # NULL => Stored(r.target_path) \in Seq(Tokens)
    BY <2>1, StoredEnds
  <2> QED
    BY <2>2 DEF NewInode
<1>4. /\ i.flags_set \in SUBSET UNION {q.flags_set : q \in Requests}
      /\ i.flags_reset \in SUBSET UNION {q.flags_reset : q \in Requests}
  <2>1. /\ r.flags_set \in {q.flags_set : q \in Requests}
        /\ r.flags_reset \in {q.flags_reset : q \in Requests}
    BY <1>1
  <2>2. i.flags_set \in {r.flags_set, {}} /\ i.flags_reset \in {r.flags_reset, {}}
    BY DEF NewInode
  <2> QED
    BY <2>1, <2>2
<1>5. i.parent \in Nat \cup {NULL}
  BY DEF NewInode, AddingOK
<1>6. i.virtual_subdirs \in Subdirs
  <2>1. stringlist_new.strings \in Seq(Tokens \ {Slash})
    BY DEF stringlist_new
  <2> QED
    BY <2>1 DEF NewInode, Subdirs, stringlist_new
<1>7. i = [virtual_path |-> Stored(p), target_path |-> i.target_path,
           flags_set |-> i.flags_set, flags_reset |-> i.flags_reset,
           parent |-> i.parent, virtual_subdirs |-> i.virtual_subdirs]
  BY DEF NewInode
<1> HIDE DEF i
<1>8. i \in Inodes /\ i.virtual_path = Stored(p)
  BY <1>2, <1>3, <1>4, <1>5, <1>6, <1>7 DEF Inodes
<1>9. [i EXCEPT !.virtual_subdirs = NULL] \in Inodes
  BY <1>8 DEF Inodes
<1>10. [i EXCEPT !.virtual_subdirs = NULL].virtual_path = i.virtual_path
  BY <1>7
<1> QED
  BY <1>8, <1>9, <1>10 DEF i

(* Listing a child leaves well-formed inodes with the paths they had.      *)
LEMMA ParentListsOK ==
  ASSUME TableOK, AddingOK, adding # NULL, NEW p \in Seq(Tokens), ~CannotList(p)
  PROVE  /\ ParentLists(p) \in Seq(Inodes)
         /\ Len(ParentLists(p)) = Len(inodes)
         /\ \A i \in 1 .. Len(inodes) :
              ParentLists(p)[i].virtual_path = inodes[i].virtual_path
<1> DEFINE m == adding.previous
           x == const_basename(Stored(p))
           new == stringlist_insert(inodes[m].virtual_subdirs, x)
<1>1. CASE m = NULL
  BY <1>1 DEF ParentLists, TableOK
<1>2. CASE m # NULL
  <2>1. m \in 1 .. Len(inodes) /\ inodes[m] \in Inodes
    BY <1>2 DEF AddingOK, TableOK
  <2>2. inodes[m].virtual_subdirs \in Subdirs /\ Stored(p) # <<>>
    BY <1>2, <2>1 DEF CannotList, Inodes
  <2>3. x \in Tokens \ {Slash}
    <3>1. Stored(p) \in Seq(Tokens) /\ ~EndsInSlash(Stored(p))
      BY StoredEnds
    <3>2. Len(Stored(p)) > 0 /\ Stored(p)[Len(Stored(p))] \in Tokens
      BY <2>2, <3>1
    <3>3. Stored(p)[Len(Stored(p))] # Slash
      BY <3>1, <3>2 DEF EndsInSlash
    <3> QED
      BY <3>2, <3>3 DEF const_basename, Last
  <2>4. new \in Subdirs
    <3>1. inodes[m].virtual_subdirs.strings \in Seq(Tokens \ {Slash})
      BY <2>2 DEF Subdirs
    <3>2. Append(inodes[m].virtual_subdirs.strings, x) \in Seq(Tokens \ {Slash})
      BY <2>3, <3>1
    <3> QED
      BY <3>2 DEF stringlist_insert, Subdirs
  <2> DEFINE changed == [inodes[m] EXCEPT !.virtual_subdirs = new]
  <2>5. changed \in Inodes /\ changed.virtual_path = inodes[m].virtual_path
    <3> HIDE DEF new
    <3> QED
      BY <2>1, <2>4 DEF Inodes
  <2>6. ParentLists(p) = [inodes EXCEPT ![m] = changed]
    BY <1>2 DEF ParentLists
  <2> HIDE DEF changed, m
  <2>7. inodes \in Seq(Inodes)
    BY DEF TableOK
  <2> QED
    BY <2>1, <2>5, <2>6, <2>7
<1> QED
  BY <1>1, <1>2

-----------------------------------------------------------------------------
(* Every step leaves the table and its paths alone, adds an inode for a    *)
(* directory that had none, or rearranges the table.                       *)
Untouched ==
  /\ inodes' \in Seq(Inodes)
  /\ Len(inodes') = Len(inodes)
  /\ \A i \in 1 .. Len(inodes) : inodes'[i].virtual_path = inodes[i].virtual_path

Extended(p) ==
  /\ Find(p) = NULL
  /\ inodes' \in Seq(Inodes)
  /\ Len(inodes') = Len(inodes) + 1
  /\ \A i \in 1 .. Len(inodes) : inodes'[i].virtual_path = inodes[i].virtual_path
  /\ inodes'[Len(inodes) + 1].virtual_path = Stored(p)
  /\ data' = Append(data, Len(inodes) + 1)

(* Creates extends the table by an inode for the path it is given.         *)
LEMMA CreatesExtends ==
  ASSUME TableOK, NEW p, Find(p) = NULL, NEW j,
         NEW listed \in Seq(Inodes), Len(listed) = Len(inodes),
         \A i \in 1 .. Len(inodes) : listed[i].virtual_path = inodes[i].virtual_path,
         NEW inode \in Inodes, inode.virtual_path = Stored(p),
         Creates(j, listed, inode)
  PROVE  Extended(p)
<1>1. inodes' = Append(listed, inode) /\ data' = Append(data, Len(inodes) + 1)
  BY DEF Creates
<1> QED
  BY <1>1 DEF Extended

(* Whichever of the three a step does, the table stays well formed.        *)
LEMMA TableAfter ==
  ASSUME TableOK,
         \/ Untouched /\ data' = data
         \/ \E p : Extended(p)
         \/ inodes' = inodes /\ data' \in SortedTables(inodes, data)
  PROVE  TableOK'
<1>1. Len(inodes) \in Nat /\ Len(data) \in Nat
  BY DEF TableOK
<1>2. CASE Untouched /\ data' = data
  BY <1>2 DEF TableOK, Ids, Untouched
<1>3. CASE \E p : Extended(p)
  <2>1. PICK p : Extended(p)
    BY <1>3
  <2>2. data' \in Seq(1 .. Len(inodes'))
    <3>1. data \in Seq(1 .. Len(inodes) + 1)
      BY DEF TableOK
    <3> QED
      BY <2>1, <3>1, <1>1 DEF Extended
  <2>3. ASSUME NEW k \in Ids', NEW l \in Ids', data'[k] = data'[l] PROVE k = l
    <3>1. Ids' = 1 .. Len(data) + 1
      BY <2>1 DEF Extended, Ids, TableOK
    <3>2. \A q \in 1 .. Len(data) : data'[q] = data[q] /\ data[q] \in 1 .. Len(inodes)
      BY <2>1 DEF Extended, TableOK
    <3>3. data'[Len(data) + 1] = Len(inodes) + 1
      BY <2>1 DEF Extended, TableOK
    <3>4. CASE k \in 1 .. Len(data) /\ l \in 1 .. Len(data)
      BY <2>3, <3>2, <3>4 DEF TableOK, Ids
    <3>5. CASE k = Len(data) + 1 /\ l \in 1 .. Len(data)
      BY <1>1, <2>3, <3>2, <3>3, <3>5
    <3>6. CASE l = Len(data) + 1 /\ k \in 1 .. Len(data)
      BY <1>1, <2>3, <3>2, <3>3, <3>6
    <3> QED
      BY <1>1, <3>1, <3>4, <3>5, <3>6
  <2> QED
    BY <2>1, <2>2, <2>3 DEF TableOK, Extended
<1>4. CASE inodes' = inodes /\ data' \in SortedTables(inodes, data)
  <2>1. PICK f \in Shuffles(Len(data)) : data' = [i \in 1 .. Len(data) |-> data[f[i]]]
    BY <1>4 DEF SortedTables
  <2>2. /\ f \in [1 .. Len(data) -> 1 .. Len(data)]
        /\ \A i, j \in 1 .. Len(data) : f[i] = f[j] => i = j
    BY <2>1 DEF Shuffles
  <2>3. data' \in [1 .. Len(data) -> 1 .. Len(inodes)]
    BY <2>1, <2>2 DEF TableOK
  <2>4. data' \in Seq(1 .. Len(inodes)) /\ Len(data') = Len(data)
    BY <1>1, <2>3
  <2>5. \A k, l \in 1 .. Len(data) : data'[k] = data'[l] => k = l
    BY <2>1, <2>2 DEF TableOK, Ids
  <2> QED
    BY <1>4, <2>4, <2>5 DEF TableOK, Ids
<1> QED
  BY <1>2, <1>3, <1>4

(* The call goes on to the next position of its path or returns.           *)
LEMMA AdvanceOK ==
  ASSUME AddingOK, adding # NULL, granted \in SUBSET Requests,
         Len(inodes) \in Nat,
         NEW j \in 1 .. Len(adding.request.virtual_path),
         NEW previous \in (1 .. Len(inodes')) \cup {NULL}, Advance(j, previous)
  PROVE  AddingOK' /\ granted' \in SUBSET Requests
<1> DEFINE r == adding.request
<1>1. r \in Requests /\ r.virtual_path \in Seq(Tokens)
  BY RequestsAssumption DEF AddingOK
<1>2. CASE j = Len(r.virtual_path)
  BY <1>1, <1>2 DEF Advance, AddingOK
<1>3. CASE j # Len(r.virtual_path)
  <2>1. adding' = [adding EXCEPT !.next = j + 1, !.previous = previous]
    BY <1>3 DEF Advance
  <2>2. j + 1 \in 1 .. Len(r.virtual_path)
    BY <1>1, <1>3
  <2>3. adding \in [request : Requests, next : Nat, previous : Nat \cup {NULL}]
    BY DEF AddingOK
  <2>4. adding' = [request |-> r, next |-> j + 1, previous |-> previous]
    BY <2>1, <2>3
  <2>5. previous \in Nat \cup {NULL} /\ j + 1 \in Nat
    BY <2>2
  <2>6. /\ adding' \in [request : Requests, next : Nat, previous : Nat \cup {NULL}]
        /\ adding'.request = r /\ adding'.next = j + 1 /\ adding'.previous = previous
    BY <1>1, <2>4, <2>5
  <2>7. AddingOK'
    BY <2>2, <2>6 DEF AddingOK
  <2> QED
    BY <1>3, <2>7 DEF Advance
<1> QED
  BY <1>2, <1>3

-----------------------------------------------------------------------------
(* What a step does to the table and to the call in progress.              *)
StepOK ==
  /\ \/ Untouched /\ data' = data
     \/ \E r \in Requests : \E j \in 1 .. Len(r.virtual_path) :
          Extended(CutPath(r.virtual_path, j))
     \/ inodes' = inodes /\ data' \in SortedTables(inodes, data)
  /\ AddingOK'
  /\ granted' \in SUBSET Requests

(* One callback of path_split, for each outcome of its allocations.        *)
LEMMA VisitOK ==
  ASSUME TypeOK, AddVisit PROVE StepOK
<1>1. TableOK /\ AddingOK /\ adding # NULL
  BY DEF TypeOK, TableOK, AddingOK, AddVisit
<1> DEFINE r == adding.request
<1>2. /\ r \in Requests /\ r.virtual_path \in Seq(Tokens)
      /\ granted \in SUBSET Requests /\ Len(inodes) \in Nat
  BY <1>1, RequestsAssumption DEF AddingOK, TypeOK
<1>3. PICK j \in 1 .. Len(r.virtual_path) :
        \/ VisitExisting(j)
        \/ \E outcome \in {"ok", "early", "insert", "nolist", "neither", "late"} :
             VisitMissing(j, outcome)
        \/ VisitDies(j)
  BY DEF AddVisit
<1> DEFINE p == CutPath(r.virtual_path, j)
<1>4. p \in Seq(Tokens)
  BY <1>2, CutIsPath
<1>5. CASE VisitExisting(j)
  <2>1. Find(p) \in (1 .. Len(inodes)) \cup {NULL}
    BY <1>1, FindIsInTable
  <2>2. Advance(j, Find(p)) /\ UNCHANGED <<inodes, data>>
    BY <1>5 DEF VisitExisting
  <2>3. AddingOK' /\ granted' \in SUBSET Requests
    BY <1>1, <1>2, <2>1, <2>2, AdvanceOK
  <2>4. Untouched
    BY <1>1, <2>2 DEF Untouched, TableOK
  <2> QED
    BY <2>2, <2>3, <2>4 DEF StepOK
<1>6. ASSUME NEW outcome \in {"ok", "early", "insert", "nolist", "neither", "late"},
             VisitMissing(j, outcome)
      PROVE  StepOK
  <2> DEFINE i == NewInode(p, j)
             bare == [NewInode(p, j) EXCEPT !.virtual_subdirs = NULL]
  <2>1. Find(p) = NULL /\ (outcome # "early" => ~CannotList(p))
    BY <1>6 DEF VisitMissing
  <2>2. /\ i \in Inodes /\ i.virtual_path = Stored(p)
        /\ bare \in Inodes /\ bare.virtual_path = Stored(p)
    BY <1>1, <1>4, NewInodeOK
  <2>3. inodes \in Seq(Inodes)
    BY <1>1 DEF TableOK
  <2>4. ASSUME outcome # "early"
        PROVE  /\ ParentLists(p) \in Seq(Inodes)
               /\ Len(ParentLists(p)) = Len(inodes)
               /\ \A n \in 1 .. Len(inodes) :
                    ParentLists(p)[n].virtual_path = inodes[n].virtual_path
    BY <1>1, <1>4, <2>1, <2>4, ParentListsOK
  <2>5. ASSUME NEW listed \in Seq(Inodes), Len(listed) = Len(inodes),
               \A n \in 1 .. Len(inodes) :
                 listed[n].virtual_path = inodes[n].virtual_path,
               NEW inode \in Inodes, inode.virtual_path = Stored(p),
               Creates(j, listed, inode)
        PROVE  StepOK
    <3>1. Extended(p)
      BY <1>1, <2>1, <2>5, CreatesExtends
    <3>2. Advance(j, Len(inodes) + 1) /\ Len(inodes) + 1 \in 1 .. Len(inodes')
      BY <1>2, <2>5, <3>1 DEF Creates, Extended
    <3>3. AddingOK' /\ granted' \in SUBSET Requests
      BY <1>1, <1>2, <3>2, AdvanceOK
    <3> QED
      BY <1>2, <3>1, <3>3 DEF StepOK
  <2>6. ASSUME NEW listed \in Seq(Inodes), Len(listed) = Len(inodes),
               \A n \in 1 .. Len(inodes) :
                 listed[n].virtual_path = inodes[n].virtual_path,
               CreateFails(j, listed)
        PROVE  StepOK
    <3>1. Untouched /\ data' = data /\ Advance(j, NULL)
      BY <2>6 DEF CreateFails, Untouched
    <3>2. AddingOK' /\ granted' \in SUBSET Requests
      BY <1>1, <1>2, <3>1, AdvanceOK
    <3> QED
      BY <3>1, <3>2 DEF StepOK
  <2>7. CASE outcome = "ok"
    <3>1. Creates(j, ParentLists(p), i)
      BY <1>6, <2>7 DEF VisitMissing
    <3> QED
      BY <2>2, <2>4, <2>5, <2>7, <3>1
  <2>8. CASE outcome = "early"
    <3>1. CreateFails(j, inodes)
      BY <1>6, <2>8 DEF VisitMissing
    <3> QED
      BY <2>3, <2>6, <3>1
  <2>9. CASE outcome = "insert"
    <3>1. Creates(j, inodes, i)
      BY <1>6, <2>9 DEF VisitMissing
    <3> QED
      BY <2>2, <2>3, <2>5, <3>1
  <2>10. CASE outcome = "nolist"
    <3>1. Creates(j, ParentLists(p), bare)
      BY <1>6, <2>10 DEF VisitMissing
    <3> QED
      BY <2>2, <2>4, <2>5, <2>10, <3>1
  <2>11. CASE outcome = "late"
    <3>1. CreateFails(j, ParentLists(p))
      BY <1>6, <2>11 DEF VisitMissing
    <3> QED
      BY <2>4, <2>6, <2>11, <3>1
  <2>12. CASE outcome = "neither"
    <3>1. Creates(j, inodes, bare)
      BY <1>6, <2>12 DEF VisitMissing
    <3> QED
      BY <2>2, <2>3, <2>5, <3>1
  <2> QED
    BY <2>7, <2>8, <2>9, <2>10, <2>11, <2>12
<1>7. CASE VisitDies(j)
  BY <1>1, <1>2, <1>7 DEF VisitDies, StepOK, Untouched, TableOK, AddingOK
<1> QED
  BY <1>3, <1>5, <1>6, <1>7

(* A call begins at the first position of its path, without a parent.      *)
LEMMA BeginOK ==
  ASSUME TypeOK, NEW r \in Requests, BeginAdd(r) PROVE StepOK
<1>1. r.virtual_path \in Seq(Tokens) /\ Len(r.virtual_path) > 0
  BY RequestsAssumption
<1>2. adding' = [request |-> r, next |-> 1, previous |-> NULL]
  BY DEF BeginAdd
<1>3. /\ adding' \in [request : Requests, next : Nat, previous : Nat \cup {NULL}]
      /\ adding'.request = r /\ adding'.next = 1 /\ adding'.previous = NULL
  BY <1>2
<1>4. AddingOK'
  BY <1>1, <1>3 DEF AddingOK
<1> QED
  BY <1>4 DEF BeginAdd, StepOK, Untouched, TypeOK

(* Every step of the system is a step of the table in this sense.          *)
LEMMA EveryStepOK ==
  ASSUME TypeOK, [Next]_vars PROVE StepOK
<1>1. inodes \in Seq(Inodes) /\ granted \in SUBSET Requests /\ AddingOK
  BY DEF TypeOK, AddingOK
<1>2. ASSUME NEW r \in Requests, BeginAdd(r) PROVE StepOK
  BY <1>2, BeginOK
<1>3. ASSUME NEW r \in Requests, RefuseAdd(r) PROVE StepOK
  BY <1>1, <1>3 DEF RefuseAdd, StepOK, Untouched, AddingOK
<1>4. CASE AddVisit
  BY <1>4, VisitOK
<1>5. CASE Freeze
  BY <1>1, <1>5 DEF Freeze, StepOK, AddingOK
<1>6. ASSUME NEW p \in LookupPaths, DoLookup(p) PROVE StepOK
  BY <1>1, <1>6 DEF DoLookup, StepOK, Untouched, AddingOK
<1>7. ASSUME NEW p \in LookupPaths, RefuseLookup(p) PROVE StepOK
  BY <1>1, <1>7 DEF RefuseLookup, StepOK, Untouched, AddingOK
<1>8. CASE UNCHANGED vars
  BY <1>1, <1>8 DEF vars, StepOK, Untouched, AddingOK
<1> QED
  BY <1>2, <1>3, <1>4, <1>5, <1>6, <1>7, <1>8 DEF Next

(* The plain variables: the counter of failures, the error, the flags.     *)
PlainOK ==
  /\ frozen \in BOOLEAN
  /\ error \in Errors \cup {NULL}
  /\ failures \in 0 .. MaxAllocFailures
  /\ alive \in BOOLEAN

(* A callback that creates keeps them in range.                            *)
LEMMA PlainVisit ==
  ASSUME PlainOK, NEW j, NEW outcome \in {"ok", "early", "insert", "nolist", "neither", "late"},
         VisitMissing(j, outcome)
  PROVE  PlainOK'
<1>1. failures' \in 0 .. MaxAllocFailures
  <2>1. failures' = failures + (IF outcome = "ok" THEN 0 ELSE 1)
        /\ failures' <= MaxAllocFailures
    BY DEF VisitMissing
  <2> QED
    BY <2>1, InodeBounds DEF PlainOK
<1>2. error' \in {error, "OUT_OF_MEMORY"}
  BY DEF VisitMissing, Creates, CreateFails
<1>3. frozen' = frozen /\ alive' = alive
  BY DEF VisitMissing
<1> QED
  BY <1>1, <1>2, <1>3 DEF PlainOK, Errors

(* Every step does.                                                        *)
LEMMA PlainStep ==
  ASSUME PlainOK, [Next]_vars PROVE PlainOK'
<1>1. ASSUME NEW r \in Requests, BeginAdd(r) PROVE PlainOK'
  BY <1>1 DEF BeginAdd, PlainOK
<1>2. ASSUME NEW r \in Requests, RefuseAdd(r) PROVE PlainOK'
  BY <1>2 DEF RefuseAdd, AddRefusal, PlainOK, Errors
<1>3. CASE AddVisit
  <2>1. PICK j \in 1 .. Len(adding.request.virtual_path) :
          \/ VisitExisting(j)
          \/ \E outcome \in {"ok", "early", "insert", "nolist", "neither", "late"} :
               VisitMissing(j, outcome)
          \/ VisitDies(j)
    BY <1>3 DEF AddVisit
  <2>2. CASE VisitExisting(j)
    BY <2>2 DEF VisitExisting, PlainOK
  <2>3. CASE \E outcome \in {"ok", "early", "insert", "nolist", "neither", "late"} :
               VisitMissing(j, outcome)
    BY <2>3, PlainVisit
  <2>4. CASE VisitDies(j)
    BY <2>4 DEF VisitDies, PlainOK
  <2> QED
    BY <2>1, <2>2, <2>3, <2>4
<1>4. CASE Freeze
  BY <1>4 DEF Freeze, PlainOK, Errors
<1>5. ASSUME NEW p \in LookupPaths, DoLookup(p) PROVE PlainOK'
  BY <1>5 DEF DoLookup, PlainOK
<1>6. ASSUME NEW p \in LookupPaths, RefuseLookup(p) PROVE PlainOK'
  BY <1>6 DEF RefuseLookup, PlainOK, Errors
<1>7. CASE UNCHANGED vars
  BY <1>7 DEF vars, PlainOK
<1> QED
  BY <1>1, <1>2, <1>3, <1>4, <1>5, <1>6, <1>7 DEF Next

(* TypeOK is these four parts.                                             *)
LEMMA TypeParts == TypeOK <=> TableOK /\ AddingOK /\ granted \in SUBSET Requests /\ PlainOK
BY DEF TypeOK, TableOK, AddingOK, PlainOK

(* TypeOK is inductive as it stands.                                       *)
LEMMA TypeStep == TypeOK /\ [Next]_vars => TypeOK'
<1> SUFFICES ASSUME TypeOK, [Next]_vars PROVE TypeOK'
  OBVIOUS
<1>1. StepOK
  BY EveryStepOK
<1>2. TableOK'
  <2>1. TableOK
    BY TypeParts
  <2> QED
    BY <1>1, <2>1, TableAfter DEF StepOK
<1>3. PlainOK'
  <2>1. PlainOK
    BY TypeParts
  <2> QED
    BY <2>1, PlainStep
<1>4. AddingOK' /\ (granted \in SUBSET Requests)'
  BY <1>1 DEF StepOK
<1>5. (TableOK /\ AddingOK /\ granted \in SUBSET Requests /\ PlainOK)'
  BY <1>2, <1>3, <1>4
<1> QED
  BY <1>5 DEF TypeOK, TableOK, AddingOK, PlainOK

(* An empty table is well formed.                                          *)
LEMMA TypeInit == Init => TypeOK
<1> SUFFICES ASSUME Init PROVE TypeOK
  OBVIOUS
<1>1. TableOK
  BY DEF Init, TableOK, Ids
<1>2. AddingOK /\ granted \in SUBSET Requests
  BY DEF Init, AddingOK
<1>3. PlainOK
  <2>1. 0 \in 0 .. MaxAllocFailures
    BY InodeBounds
  <2> QED
    BY <2>1 DEF Init, PlainOK
<1> QED
  BY <1>1, <1>2, <1>3, TypeParts

(* The table points at each inode once, every stored path and listing is   *)
(* well formed and a call in progress stands inside its path, whatever is  *)
(* added, whichever allocations fail and whenever the table is sorted.     *)
THEOREM TypeInvariance == Spec => []TypeOK
<1>1. Init => TypeOK
  BY TypeInit
<1>2. TypeOK /\ [Next]_vars => TypeOK'
  BY TypeStep
<1> QED
  BY <1>1, <1>2, PTL DEF Spec

-----------------------------------------------------------------------------
(* UniqueVirtualPaths is inductive once it is known that no stored path    *)
(* ends in a slash: then pathcmp, which has not found the cut in the       *)
(* table, compares it as it will be stored.                                *)
StoredWithoutSlash ==
  \A i \in 1 .. Len(inodes) : ~EndsInSlash(inodes[i].virtual_path)

(* It is kept, since vfs_add_single_inode truncates what it stores.        *)
LEMMA StoredWithoutSlashStep ==
  ASSUME TypeOK, StoredWithoutSlash, StepOK PROVE StoredWithoutSlash'
<1>1. Len(inodes) \in Nat
  BY DEF TypeOK
<1>2. CASE Untouched
  BY <1>2 DEF Untouched, StoredWithoutSlash, EndsInSlash
<1>3. CASE \E r \in Requests : \E j \in 1 .. Len(r.virtual_path) :
             Extended(CutPath(r.virtual_path, j))
  <2>1. PICK r \in Requests : \E j \in 1 .. Len(r.virtual_path) :
          Extended(CutPath(r.virtual_path, j))
    BY <1>3
  <2>2. PICK j \in 1 .. Len(r.virtual_path) : Extended(CutPath(r.virtual_path, j))
    BY <2>1
  <2> DEFINE p == CutPath(r.virtual_path, j)
  <2>3. p \in Seq(Tokens)
    BY RequestsAssumption, CutIsPath
  <2>4. ~EndsInSlash(Stored(p))
    BY <2>3, StoredEnds
  <2> HIDE DEF p
  <2>5. /\ Len(inodes') = Len(inodes) + 1
        /\ \A i \in 1 .. Len(inodes) : inodes'[i].virtual_path = inodes[i].virtual_path
        /\ inodes'[Len(inodes) + 1].virtual_path = Stored(p)
    BY <2>2 DEF Extended, p
  <2> SUFFICES ASSUME NEW i \in 1 .. Len(inodes')
               PROVE  ~EndsInSlash(inodes'[i].virtual_path)
    BY DEF StoredWithoutSlash, EndsInSlash
  <2>6. CASE i = Len(inodes) + 1
    BY <2>4, <2>5, <2>6
  <2>7. CASE i \in 1 .. Len(inodes)
    BY <2>5, <2>7 DEF StoredWithoutSlash
  <2> QED
    BY <1>1, <2>5, <2>6, <2>7
<1>4. CASE inodes' = inodes
  BY <1>4 DEF StoredWithoutSlash, EndsInSlash
<1> QED
  BY <1>2, <1>3, <1>4 DEF StepOK

SparseRequests == \A r \in Requests : NoTripleSlash(r.virtual_path)

(* And with it uniqueness: a cut that is not found is not there.           *)
LEMMA UniqueStep ==
  ASSUME SparseRequests, TypeOK, StoredWithoutSlash, UniqueVirtualPaths, StepOK
  PROVE  UniqueVirtualPaths'
<1>1. /\ Len(inodes) \in Nat /\ Len(data) \in Nat
      /\ \A k \in 1 .. Len(data) : data[k] \in 1 .. Len(inodes)
      /\ inodes \in Seq(Inodes) /\ data \in Seq(1 .. Len(inodes))
  BY DEF TypeOK
<1>2. CASE Untouched /\ data' = data
  BY <1>1, <1>2 DEF Untouched, UniqueVirtualPaths, Ids
<1>3. CASE \E r \in Requests : \E j \in 1 .. Len(r.virtual_path) :
             Extended(CutPath(r.virtual_path, j))
  <2>1. PICK r \in Requests : \E j \in 1 .. Len(r.virtual_path) :
          Extended(CutPath(r.virtual_path, j))
    BY <1>3
  <2>2. PICK j \in 1 .. Len(r.virtual_path) : Extended(CutPath(r.virtual_path, j))
    BY <2>1
  <2> DEFINE p == CutPath(r.virtual_path, j)
  <2>3. Stored(p) = DropOneSlash(p)
    BY RequestsAssumption, CutAsCompared DEF SparseRequests
  <2> HIDE DEF p
  <2>4. Extended(p)
    BY <2>2 DEF p
  <2>5. \A k \in 1 .. Len(data) : inodes[data[k]].virtual_path # Stored(p)
    <3> SUFFICES ASSUME NEW k \in 1 .. Len(data)
                 PROVE  inodes[data[k]].virtual_path # Stored(p)
      OBVIOUS
    <3> DEFINE v == inodes[data[k]].virtual_path
    <3>1. ~pathcmp(v, p)
      BY <2>4, FindIsInTable, TypeParts DEF Extended, Ids
    <3>2. ~EndsInSlash(v)
      BY <1>1 DEF StoredWithoutSlash
    <3>3. DropOneSlash(v) = v
      BY <3>2 DEF DropOneSlash, EndsInSlash
    <3> QED
      BY <2>3, <3>1, <3>3 DEF pathcmp
  <2>6. /\ Len(data') = Len(data) + 1
        /\ \A k \in 1 .. Len(data) : data'[k] = data[k]
        /\ data'[Len(data) + 1] = Len(inodes) + 1
    BY <1>1, <2>4 DEF Extended
  <2>7. /\ \A k \in 1 .. Len(data) :
             inodes'[data'[k]].virtual_path = inodes[data[k]].virtual_path
        /\ inodes'[data'[Len(data) + 1]].virtual_path = Stored(p)
    BY <1>1, <2>4, <2>6 DEF Extended
  <2> SUFFICES ASSUME NEW k \in Ids', NEW l \in Ids',
                      inodes'[data'[k]].virtual_path = inodes'[data'[l]].virtual_path
               PROVE  k = l
    BY DEF UniqueVirtualPaths
  <2>8. Ids' = 1 .. Len(data) + 1
    BY <2>6 DEF Ids
  <2>9. CASE k \in 1 .. Len(data) /\ l \in 1 .. Len(data)
    BY <2>7, <2>9 DEF UniqueVirtualPaths, Ids
  <2>10. CASE k = Len(data) + 1 /\ l \in 1 .. Len(data)
    BY <2>5, <2>7, <2>10
  <2>11. CASE l = Len(data) + 1 /\ k \in 1 .. Len(data)
    BY <2>5, <2>7, <2>11
  <2> QED
    BY <1>1, <2>8, <2>9, <2>10, <2>11
<1>4. CASE inodes' = inodes /\ data' \in SortedTables(inodes, data)
  <2>1. PICK f \in Shuffles(Len(data)) : data' = [i \in 1 .. Len(data) |-> data[f[i]]]
    BY <1>4 DEF SortedTables
  <2>2. /\ f \in [1 .. Len(data) -> 1 .. Len(data)]
        /\ \A i, j \in 1 .. Len(data) : f[i] = f[j] => i = j
    BY <2>1 DEF Shuffles
  <2>3. Ids' = 1 .. Len(data)
    BY <1>1, <2>1 DEF Ids
  <2>4. \A k \in 1 .. Len(data) : data'[k] = data[f[k]]
    BY <2>1
  <2> SUFFICES ASSUME NEW k \in 1 .. Len(data), NEW l \in 1 .. Len(data),
                      inodes[data'[k]].virtual_path = inodes[data'[l]].virtual_path
               PROVE  k = l
    BY <1>4, <2>3 DEF UniqueVirtualPaths
  <2>5. inodes[data[f[k]]].virtual_path = inodes[data[f[l]]].virtual_path
    BY <2>4
  <2>6. f[k] \in Ids /\ f[l] \in Ids
    BY <2>2 DEF Ids
  <2>7. f[k] = f[l]
    BY <2>5, <2>6 DEF UniqueVirtualPaths
  <2> QED
    BY <2>2, <2>7
<1> QED
  BY <1>2, <1>3, <1>4 DEF StepOK

(* The inductive invariant.                                                *)
IInv == TypeOK /\ StoredWithoutSlash /\ UniqueVirtualPaths

(* An empty table has no two inodes.                                       *)
LEMMA IInvInit == Init => IInv
<1>1. Init => TypeOK
  BY TypeInit
<1>2. Init => StoredWithoutSlash /\ UniqueVirtualPaths
  BY DEF Init, StoredWithoutSlash, UniqueVirtualPaths, Ids
<1> QED
  BY <1>1, <1>2 DEF IInv

(* The steps keep it.                                                      *)
LEMMA IInvStep ==
  ASSUME SparseRequests PROVE IInv /\ [Next]_vars => IInv'
BY TypeStep, EveryStepOK, StoredWithoutSlashStep, UniqueStep DEF IInv

(* No two inodes ever have the same path, as long as no requested path has *)
(* three slashes in a row (pathcmp drops one, the cut of path_split one    *)
(* more, and truncate_trailing_slash all of them).                         *)
THEOREM PathsStayUnique ==
  ASSUME SparseRequests PROVE Spec => []UniqueVirtualPaths
<1>1. Init => IInv
  BY IInvInit
<1>2. IInv /\ [Next]_vars => IInv'
  BY IInvStep
<1>3. IInv => UniqueVirtualPaths
  BY DEF IInv
<1> QED
  BY <1>1, <1>2, <1>3, PTL DEF Spec

-----------------------------------------------------------------------------
(* In a table without two inodes of one path, at most one position matches *)
(* any path, so the order of the table does not matter to vfs_find_inode.  *)
MatchesOnce(table) ==
  \A q : \A k, l \in 1 .. Len(table) :
    Matches(inodes[table[k]], q) /\ Matches(inodes[table[l]], q) => k = l

(* The table is such a table.                                              *)
LEMMA UniqueMatchesOnce ==
  ASSUME TypeOK, StoredWithoutSlash, UniqueVirtualPaths PROVE MatchesOnce(data)
<1> SUFFICES ASSUME NEW q, NEW k \in Ids, NEW l \in Ids,
                    Matches(inodes[data[k]], q), Matches(inodes[data[l]], q)
             PROVE  k = l
  BY DEF MatchesOnce, Ids
<1>1. data[k] \in 1 .. Len(inodes) /\ data[l] \in 1 .. Len(inodes)
  BY DEF TypeOK, Ids
<1>2. /\ ~EndsInSlash(inodes[data[k]].virtual_path)
      /\ ~EndsInSlash(inodes[data[l]].virtual_path)
  BY <1>1 DEF StoredWithoutSlash
<1>3. inodes[data[k]].virtual_path = inodes[data[l]].virtual_path
  BY <1>2 DEF Matches, pathcmp, DropOneSlash, EndsInSlash
<1> QED
  BY <1>3 DEF UniqueVirtualPaths

(* What matches there is what vfs_find_inode returns.                      *)
LEMMA FindByMatch ==
  ASSUME NEW table, MatchesOnce(table), Len(table) \in Nat, NEW q,
         NEW k \in 1 .. Len(table), Matches(inodes[table[k]], q)
  PROVE  vfs_find_inode(inodes, table, q) = table[k]
<1> DEFINE First(m) == /\ Matches(inodes[table[m]], q)
                       /\ \A l \in 1 .. m - 1 : ~Matches(inodes[table[l]], q)
<1>1. \A m \in 1 .. Len(table) : First(m) => m = k
  BY DEF MatchesOnce
<1>2. First(k)
  <2>1. \A l \in 1 .. k - 1 : l \in 1 .. Len(table) /\ l # k
    OBVIOUS
  <2> QED
    BY <2>1 DEF MatchesOnce
<1>3. (CHOOSE m \in 1 .. Len(table) : First(m)) = k
  BY <1>1, <1>2
<1> QED
  BY <1>3 DEF vfs_find_inode

(* A rearrangement of the table finds the same inodes.                     *)
LEMMA SortingKeepsFinds ==
  ASSUME TypeOK, MatchesOnce(data), NEW t \in SortedTables(inodes, data), NEW q
  PROVE  vfs_find_inode(inodes, t, q) = vfs_find_inode(inodes, data, q)
<1>1. Len(data) \in Nat
  BY DEF TypeOK
<1>2. PICK f \in Shuffles(Len(data)) : t = [i \in 1 .. Len(data) |-> data[f[i]]]
  BY DEF SortedTables
<1> DEFINE N == 1 .. Len(data)
<1>3. f \in [N -> N] /\ \A i, j \in N : f[i] = f[j] => i = j
  BY <1>2 DEF Shuffles
<1>4. f \in Surjection(N, N)
  <2>1. f \in Injection(N, N)
    BY <1>3 DEF Injection, IsInjective
  <2> QED
    BY <1>1, <2>1, FS_Interval, FS_Injection
<1>5. Len(t) = Len(data) /\ \A i \in N : t[i] = data[f[i]]
  BY <1>1, <1>2
<1>6. MatchesOnce(t)
  <2> SUFFICES ASSUME NEW r, NEW k \in N, NEW l \in N,
                      Matches(inodes[t[k]], r), Matches(inodes[t[l]], r)
               PROVE  k = l
    BY <1>5 DEF MatchesOnce
  <2>1. /\ Matches(inodes[data[f[k]]], r) /\ f[k] \in N
        /\ Matches(inodes[data[f[l]]], r) /\ f[l] \in N
    BY <1>3, <1>5
  <2>2. f[k] = f[l]
    BY <2>1 DEF MatchesOnce
  <2> QED
    BY <1>3, <2>2
<1>7. CASE \E k \in N : Matches(inodes[data[k]], q)
  <2>1. PICK k \in N : Matches(inodes[data[k]], q)
    BY <1>7
  <2>2. PICK i \in N : f[i] = k
    BY <1>4 DEF Surjection
  <2>3. vfs_find_inode(inodes, data, q) = data[k]
    BY <1>1, <2>1, FindByMatch
  <2>4. vfs_find_inode(inodes, t, q) = t[i]
    <3>1. Matches(inodes[t[i]], q) /\ i \in 1 .. Len(t) /\ Len(t) \in Nat
      BY <1>1, <1>5, <2>1, <2>2
    <3> QED
      BY <1>6, <3>1, FindByMatch
  <2> QED
    BY <1>5, <2>2, <2>3, <2>4
<1>8. CASE \A k \in N : ~Matches(inodes[data[k]], q)
  <2>1. \A i \in 1 .. Len(t) : ~Matches(inodes[t[i]], q)
    BY <1>3, <1>5, <1>8
  <2> QED
    BY <1>8, <2>1 DEF vfs_find_inode
<1> QED
  BY <1>7, <1>8

(* Sorting the table changes no lookup, since the table never has two      *)
(* inodes of one path; again for requests without three slashes in a row.  *)
THEOREM LookupsSurviveSorting ==
  ASSUME SparseRequests PROVE Spec => SortingKeepsLookups
<1> DEFINE Same == \A p \in LookupPaths : vfs_lookup(inodes', data', p) = Lookup(p)
<1>1. Init => IInv
  BY IInvInit
<1>2. IInv /\ [Next]_vars => IInv'
  BY IInvStep
<1>3. ASSUME IInv, [Next]_vars, data' # data, inodes' = inodes PROVE Same
  <2>1. Len(inodes) \in Nat
    BY <1>3 DEF IInv, TypeOK
  <2>2. data' \in SortedTables(inodes, data)
    BY <1>3, <2>1, EveryStepOK DEF IInv, StepOK, Extended
  <2>3. \A q : vfs_find_inode(inodes, data', q) = vfs_find_inode(inodes, data, q)
    BY <1>3, <2>2, UniqueMatchesOnce, SortingKeepsFinds DEF IInv
  <2>4. \A p : Hits(inodes, data', p) = Hits(inodes, data, p)
    BY <2>3 DEF Hits
  <2> QED
    BY <1>3, <2>4 DEF Lookup, vfs_lookup
<1> QED
  BY <1>1, <1>2, <1>3, PTL DEF Spec, SortingKeepsLookups

-----------------------------------------------------------------------------
(* What the last lookup filled in is forgotten when a call to vfs_add_inode *)
(* or to vfs_freeze_inodes begins, and no lookup runs inside of one.        *)
ResultOK ==
  /\ adding # NULL => result = NULL
  /\ result # NULL =>
       /\ result.path \in LookupPaths /\ is_absolute_path(result.path)
       /\ result.lookup = Lookup(result.path)

(* A callback runs inside a call.                                          *)
LEMMA ResultInCall ==
  ASSUME ResultOK, AddVisit PROVE ResultOK'
<1>1. result = NULL
  BY DEF AddVisit, ResultOK
<1>2. result' = result
  BY DEF AddVisit, VisitExisting, VisitMissing, VisitDies
<1> QED
  BY <1>1, <1>2 DEF ResultOK

(* Every step keeps what the last lookup said true, or forgets it.         *)
LEMMA ResultStep ==
  ASSUME ResultOK, [Next]_vars PROVE ResultOK'
<1>1. ASSUME NEW r \in Requests, BeginAdd(r) PROVE ResultOK'
  BY <1>1 DEF BeginAdd, ResultOK
<1>2. ASSUME NEW r \in Requests, RefuseAdd(r) PROVE ResultOK'
  BY <1>2 DEF RefuseAdd, ResultOK
<1>3. CASE AddVisit
  BY <1>3, ResultInCall
<1>4. CASE Freeze
  BY <1>4 DEF Freeze, ResultOK
<1>5. ASSUME NEW p \in LookupPaths, DoLookup(p) PROVE ResultOK'
  <2>1. /\ result' = [path |-> p, lookup |-> Lookup(p)] /\ is_absolute_path(p)
        /\ adding' = NULL /\ inodes' = inodes /\ data' = data
    BY <1>5 DEF DoLookup, Idle
  <2>2. Lookup(p)' = Lookup(p)
    BY <2>1 DEF Lookup
  <2>3. result'.path = p /\ result'.lookup = Lookup(p)
    BY <2>1
  <2> QED
    BY <2>1, <2>2, <2>3 DEF ResultOK, Lookup
<1>6. ASSUME NEW p \in LookupPaths, RefuseLookup(p) PROVE ResultOK'
  BY <1>6 DEF RefuseLookup, ResultOK, Lookup
<1>7. CASE UNCHANGED vars
  BY <1>7 DEF vars, ResultOK, Lookup
<1> QED
  BY <1>1, <1>2, <1>3, <1>4, <1>5, <1>6, <1>7 DEF Next

(* The table of the inductive invariant is a plain one.                    *)
LEMMA TableIsPlain ==
  ASSUME IInv PROVE PlainTable(inodes, data)
<1>1. inodes \in Seq(Inodes) /\ data \in Seq(1 .. Len(inodes))
  BY DEF IInv, TypeOK
<1>2. data \in Seq(Nat) /\ \A k \in 1 .. Len(data) : data[k] \in 1 .. Len(inodes)
  BY <1>1
<1>3. ASSUME NEW i \in 1 .. Len(inodes) PROVE inodes[i].virtual_path \in Seq(Tokens)
  <2>1. inodes[i] \in Inodes
    BY <1>1
  <2> QED
    BY <2>1 DEF Inodes
<1> QED
  BY <1>2, <1>3 DEF IInv, StoredWithoutSlash, UniqueVirtualPaths, Ids, PlainTable

(* A lookup gives flags that the VFS or a request mentions.                *)
LEMMA FlagsAreAll ==
  ASSUME TypeOK, NEW r \in Lookups(inodes, data) PROVE r.flags \subseteq AllFlags
<1>1. inodes \in Seq(Inodes) /\ data \in Seq(1 .. Len(inodes))
  BY DEF TypeOK
<1>2. ASSUME NEW f \in FlagsOf(inodes, data) PROVE f \in AllFlags
  <2>1. CASE f \in BaseFlags
    BY <2>1 DEF AllFlags
  <2>2. ASSUME NEW i \in Members(data), f \in inodes[i].flags_set PROVE f \in AllFlags
    <3>1. inodes[i] \in Inodes
      BY <1>1 DEF Members
    <3>2. PICK r2 \in Requests : f \in r2.flags_set
      BY <2>2, <3>1 DEF Inodes
    <3> QED
      BY <3>2 DEF AllFlags
  <2> QED
    BY <1>2, <2>1, <2>2 DEF FlagsOf
<1> QED
  BY <1>2 DEF Lookups

(* What vfs_lookup fills in is what the nearest ancestors say: the flags   *)
(* of the nearest one that mentions them, the nearest one with a target,   *)
(* and the inode of the path itself, whatever was added, whichever         *)
(* allocations failed and however often the table was sorted; again for    *)
(* requests without three slashes in a row.                                *)
THEOREM LookupsAskTheNearest ==
  ASSUME SparseRequests PROVE Spec => []LookupIsNearestAncestor
<1>1. Init => IInv /\ ResultOK
  BY IInvInit DEF Init, ResultOK
<1>2. IInv /\ ResultOK /\ [Next]_vars => IInv' /\ ResultOK'
  BY IInvStep, ResultStep
<1>3. IInv /\ ResultOK => LookupIsNearestAncestor
  <2> SUFFICES ASSUME IInv, ResultOK, result # NULL PROVE LookupIsNearestAncestor
    BY DEF LookupIsNearestAncestor
  <2> DEFINE c == PlaceOf(result.path)
             r == vfs_lookup(inodes, data, Render(c))
  <2>1. c \in Seq(Names) /\ result.path = Render(c) /\ result.lookup = r
    BY LookupPathsAssumption DEF ResultOK, Lookup, CanonicalPaths
  <2>2. /\ r \in Lookups(inodes, data)
        /\ \A f : f \in r.flags <=> HasFlag(inodes, data, c, f)
        /\ Only(r.inode) = At(inodes, data, c)
        /\ Only(r.mountpoint) = Mountpoints(inodes, data, c)
    BY <2>1, TableIsPlain, LookupIs
  <2>3. r.flags \subseteq AllFlags
    BY <2>2, FlagsAreAll DEF IInv
  <2> HIDE DEF r, c
  <2>4. r.flags = {f \in AllFlags : HasFlag(inodes, data, c, f)}
    BY <2>2, <2>3
  <2> QED
    BY <2>1, <2>2, <2>4 DEF LookupIsNearestAncestor, Only, c
<1> QED
  BY <1>1, <1>2, <1>3, PTL DEF Spec

-----------------------------------------------------------------------------
(* Nothing changes what an inode once said: only its listing grows.        *)
SaysKept(new) ==
  \A i \in 1 .. Len(inodes) :
    /\ Says(new[i]) = Says(inodes[i])
    /\ new[i].virtual_path = inodes[i].virtual_path /\ new[i].parent = inodes[i].parent

(* Listing a child changes no more than that.                              *)
LEMMA ListingSaysTheSame ==
  ASSUME TableOK, AddingOK, adding # NULL, NEW p
  PROVE  SaysKept(ParentLists(p)) /\ Len(ParentLists(p)) = Len(inodes)
<1>1. inodes \in Seq(Inodes)
  BY DEF TableOK
<1>2. CASE adding.previous = NULL
  BY <1>2 DEF ParentLists, SaysKept
<1>3. CASE adding.previous # NULL
  <2> DEFINE m == adding.previous
             l == stringlist_insert(inodes[m].virtual_subdirs, const_basename(Stored(p)))
             changed == [inodes[m] EXCEPT !.virtual_subdirs = l]
  <2>1. m \in 1 .. Len(inodes) /\ inodes[m] \in Inodes
    BY <1>1, <1>3 DEF AddingOK
  <2>2. ParentLists(p) = [inodes EXCEPT ![m] = changed]
    BY <1>3 DEF ParentLists
  <2> HIDE DEF l
  <2>3. /\ changed.flags_set = inodes[m].flags_set /\ changed.flags_reset = inodes[m].flags_reset
        /\ changed.target_path = inodes[m].target_path /\ changed.parent = inodes[m].parent
        /\ changed.virtual_path = inodes[m].virtual_path
    BY <2>1 DEF Inodes
  <2> HIDE DEF changed
  <2> HIDE DEF m
  <2>4. Len(ParentLists(p)) = Len(inodes)
    BY <1>1, <2>1, <2>2
  <2>5. ASSUME NEW i \in 1 .. Len(inodes)
        PROVE  /\ Says(ParentLists(p)[i]) = Says(inodes[i])
               /\ ParentLists(p)[i].virtual_path = inodes[i].virtual_path
               /\ ParentLists(p)[i].parent = inodes[i].parent
    <3>1. ParentLists(p)[i] = IF i = m THEN changed ELSE inodes[i]
      BY <1>1, <2>1, <2>2
    <3> QED
      BY <2>3, <3>1 DEF Says
  <2> QED
    BY <2>4, <2>5 DEF SaysKept
<1> QED
  BY <1>2, <1>3

(* Nor does any step.                                                      *)
LEMMA StepSaysTheSame ==
  ASSUME TypeOK, [Next]_vars PROVE SaysKept(inodes')
<1>1. TableOK /\ AddingOK /\ inodes \in Seq(Inodes) /\ Len(inodes) \in Nat
  BY DEF TypeOK, TableOK, AddingOK
<1>2. CASE inodes' = inodes
  BY <1>2 DEF SaysKept
<1>3. ASSUME NEW listed, SaysKept(listed), Len(listed) = Len(inodes), NEW inode,
             listed \in Seq(Inodes), inodes' \in {listed, Append(listed, inode)}
      PROVE  SaysKept(inodes')
  <2>1. \A i \in 1 .. Len(inodes) : inodes'[i] = listed[i]
    BY <1>1, <1>3
  <2> QED
    BY <1>3, <2>1 DEF SaysKept
<1>4. CASE AddVisit
  <2>1. PICK j \in 1 .. Len(adding.request.virtual_path) :
          \/ VisitExisting(j)
          \/ \E outcome \in {"ok", "early", "insert", "nolist", "neither", "late"} :
               VisitMissing(j, outcome)
          \/ VisitDies(j)
    BY <1>4 DEF AddVisit
  <2>2. CASE VisitExisting(j) \/ VisitDies(j)
    BY <1>2, <2>2 DEF VisitExisting, VisitDies
  <2>3. ASSUME NEW outcome \in {"ok", "early", "insert", "nolist", "neither", "late"},
               VisitMissing(j, outcome)
        PROVE  SaysKept(inodes')
    <3> DEFINE p == CutPath(adding.request.virtual_path, j)
    <3>1. p \in Seq(Tokens) /\ adding # NULL
      BY <1>1, <1>4, RequestsAssumption, CutIsPath DEF AddVisit, AddingOK
    <3>2. \E inode : inodes' \in {inodes, ParentLists(p), Append(inodes, inode),
                                  Append(ParentLists(p), inode)}
      BY <2>3 DEF VisitMissing, Creates, CreateFails
    <3>3. outcome # "early" => ~CannotList(p)
      BY <2>3 DEF VisitMissing
    <3>4. outcome = "early" => inodes' = inodes
      BY <2>3 DEF VisitMissing, CreateFails
    <3> HIDE DEF p
    <3>5. outcome # "early" => ParentLists(p) \in Seq(Inodes)
      BY <1>1, <3>1, <3>3, ParentListsOK
    <3>6. SaysKept(ParentLists(p)) /\ Len(ParentLists(p)) = Len(inodes) /\ SaysKept(inodes)
      BY <1>1, <3>1, ListingSaysTheSame DEF SaysKept
    <3>7. PICK inode : inodes' \in {inodes, ParentLists(p), Append(inodes, inode),
                                    Append(ParentLists(p), inode)}
      BY <3>2
    <3> QED
      BY <1>1, <1>2, <1>3, <3>4, <3>5, <3>6, <3>7
  <2> QED
    BY <2>1, <2>2, <2>3
<1>5. ASSUME NEW r \in Requests, BeginAdd(r) \/ RefuseAdd(r) PROVE inodes' = inodes
  BY <1>5 DEF BeginAdd, RefuseAdd
<1>6. ASSUME NEW p \in LookupPaths, DoLookup(p) \/ RefuseLookup(p) PROVE inodes' = inodes
  BY <1>6 DEF DoLookup, RefuseLookup
<1>7. CASE Freeze \/ UNCHANGED vars
  BY <1>2, <1>7 DEF Freeze, vars
<1> QED
  BY <1>2, <1>4, <1>5, <1>6, <1>7 DEF Next

-----------------------------------------------------------------------------
(* What matches a cut of a path has the first names of the path.           *)
LEMMA MatchIsAbove ==
  ASSUME NEW inode, inode.virtual_path \in Seq(Tokens),
         NEW p \in Seq(Tokens), NEW j \in 1 .. Len(p), Matches(inode, CutPath(p, j))
  PROVE  IsPrefix(Components(inode.virtual_path), Components(p))
<1> DEFINE v == inode.virtual_path
           q == CutPath(p, j)
<1>1. PICK k \in 0 .. Len(p) : q = SubSeq(p, 1, k)
  <2>1. j - 1 \in 0 .. Len(p) /\ j \in 0 .. Len(p)
    OBVIOUS
  <2> QED
    BY <2>1 DEF CutPath
<1>2. q \in Seq(Tokens)
  BY <1>1
<1>3. Components(v) = Components(q)
  <2>1. DropOneSlash(v) = DropOneSlash(q)
    BY DEF Matches, pathcmp
  <2> HIDE DEF v, q
  <2>2. v \in Seq(Tokens)
    BY DEF v
  <2> QED
    BY <1>2, <2>1, <2>2, ComponentsDropSlash
<1> DEFINE r == SubSeq(p, k + 1, Len(p))
<1>4. r \in Seq(Tokens) /\ Components(p) = Components(q) \o Components(r)
  BY <1>1, ComponentsOfPrefix
<1>5. Components(q) \in Seq(Tokens) /\ Components(r) \in Seq(Tokens)
  BY <1>2, <1>4, ComponentsTyped
<1> DEFINE a == Components(q)
           b == Components(r)
<1> HIDE DEF a, b
<1>6. a \in Seq(Tokens) /\ b \in Seq(Tokens)
  BY <1>5 DEF a, b
<1>7. Len(a) <= Len(a \o b) /\ SubSeq(a, 1, Len(a)) = SubSeq(a \o b, 1, Len(a))
  BY <1>6
<1> QED
  BY <1>3, <1>4, <1>7 DEF IsPrefix, a, b

(* A table that is longer by an inode with another path finds the same.    *)
LEMMA FindAfterAppend ==
  ASSUME NEW old, NEW new, NEW table \in Seq(Nat), NEW m \in Nat, NEW q,
         \A k \in 1 .. Len(table) : new[table[k]].virtual_path = old[table[k]].virtual_path,
         ~Matches(new[m], q)
  PROVE  vfs_find_inode(new, Append(table, m), q) = vfs_find_inode(old, table, q)
<1> DEFINE longer == Append(table, m)
           Before(k) == Matches(old[table[k]], q)
           After(k) == Matches(new[longer[k]], q)
<1>1. /\ Len(table) \in Nat /\ Len(longer) = Len(table) + 1
      /\ longer[Len(table) + 1] = m /\ \A k \in 1 .. Len(table) : longer[k] = table[k]
  OBVIOUS
<1> HIDE DEF longer
<1>2. \A k \in 1 .. Len(table) : After(k) = Before(k)
  BY <1>1 DEF Matches
<1>3. ~After(Len(table) + 1)
  BY <1>1
<1> HIDE DEF Before, After
<1>4. vfs_find_inode(old, table, q) =
        IF \E k \in 1 .. Len(table) : Before(k)
        THEN table[CHOOSE k \in 1 .. Len(table) : Before(k) /\ \A l \in 1 .. k - 1 : ~Before(l)]
        ELSE NULL
  BY DEF vfs_find_inode, Before
<1>5. vfs_find_inode(new, longer, q) =
        IF \E k \in 1 .. Len(longer) : After(k)
        THEN longer[CHOOSE k \in 1 .. Len(longer) : After(k) /\ \A l \in 1 .. k - 1 : ~After(l)]
        ELSE NULL
  BY DEF vfs_find_inode, After
<1>6. (\E k \in 1 .. Len(longer) : After(k)) <=> \E k \in 1 .. Len(table) : Before(k)
  BY <1>1, <1>2, <1>3
<1> DEFINE F(k) == Before(k) /\ \A l \in 1 .. k - 1 : ~Before(l)
           G(k) == After(k) /\ \A l \in 1 .. k - 1 : ~After(l)
<1>7. ASSUME \E k \in 1 .. Len(table) : Before(k)
      PROVE  longer[CHOOSE k \in 1 .. Len(longer) : G(k)] = table[CHOOSE k \in 1 .. Len(table) : F(k)]
  <2> DEFINE S == {k \in 1 .. Len(table) : Before(k)}
  <2>1. PICK k \in S : \A l \in S : k <= l
    <3>1. S \in SUBSET Nat /\ S # {}
      BY <1>7
    <3> HIDE DEF S
    <3> QED
      BY <3>1, Smallest
  <2>2. k \in 1 .. Len(table) /\ F(k)
    <3>1. ASSUME NEW l \in 1 .. k - 1 PROVE ~Before(l)
      <4>1. l \in 1 .. Len(table) /\ ~(k <= l)
        BY <1>1, <2>1
      <4> QED
        BY <2>1, <4>1
    <3> QED
      BY <2>1, <3>1
  <2>3. k \in 1 .. Len(longer) /\ G(k)
    <3>1. \A l \in 1 .. k - 1 : l \in 1 .. Len(table)
      BY <1>1, <2>2
    <3> QED
      BY <1>1, <1>2, <2>2, <3>1
  <2>4. ASSUME NEW l \in 1 .. Len(table), F(l) PROVE l = k
    <3>1. ~(l \in 1 .. k - 1) /\ ~(k \in 1 .. l - 1)
      BY <2>2, <2>4
    <3> QED
      BY <1>1, <2>2, <3>1
  <2>5. ASSUME NEW l \in 1 .. Len(longer), G(l) PROVE l = k
    <3>1. ~(l \in 1 .. k - 1) /\ ~(k \in 1 .. l - 1)
      BY <2>3, <2>5
    <3> QED
      BY <1>1, <2>3, <3>1
  <2> HIDE DEF F, G
  <2>6. (CHOOSE l \in 1 .. Len(table) : F(l)) = k
    BY <2>2, <2>4
  <2>7. (CHOOSE l \in 1 .. Len(longer) : G(l)) = k
    BY <2>3, <2>5
  <2> QED
    BY <1>1, <2>2, <2>6, <2>7
<1> HIDE DEF F, G
<1>8. vfs_find_inode(old, table, q) =
        IF \E k \in 1 .. Len(table) : Before(k)
        THEN table[CHOOSE k \in 1 .. Len(table) : F(k)] ELSE NULL
  BY <1>4 DEF F
<1>9. vfs_find_inode(new, longer, q) =
        IF \E k \in 1 .. Len(longer) : After(k)
        THEN longer[CHOOSE k \in 1 .. Len(longer) : G(k)] ELSE NULL
  BY <1>5 DEF G
<1>10. vfs_find_inode(new, longer, q) = vfs_find_inode(old, table, q)
  BY <1>6, <1>7, <1>8, <1>9
<1> QED
  BY <1>10 DEF longer

(* Creating an inode leaves the flags and the mountpoint of every path     *)
(* that is not at or below it as they were, whichever directory it is, in  *)
(* whatever state failed calls have left the table: what a lookup collects *)
(* comes from the inodes whose paths match a cut of the path, and those    *)
(* are its ancestors.                                                      *)
THEOREM CreatingStaysLocal == Spec => CreatingIsLocal
<1> DEFINE Local == \A p \in LookupPaths :
       Len(data') > Len(data) /\
       ~IsPrefix(Components(inodes'[Len(inodes')].virtual_path), Components(p))
         => LET before == Lookup(p)
                after == vfs_lookup(inodes', data', p)
            IN  before.flags = after.flags /\ before.mountpoint = after.mountpoint
<1>1. Init => TypeOK
  BY TypeInit
<1>2. TypeOK /\ [Next]_vars => TypeOK'
  BY TypeStep
<1>3. ASSUME TypeOK, [Next]_vars PROVE Local
  <2> SUFFICES ASSUME NEW p \in LookupPaths, Len(data') > Len(data),
                      ~IsPrefix(Components(inodes'[Len(inodes')].virtual_path), Components(p))
               PROVE  vfs_lookup(inodes', data', p) = Lookup(p)
    OBVIOUS
  <2>1. /\ inodes \in Seq(Inodes) /\ data \in Seq(1 .. Len(inodes))
        /\ Len(inodes) \in Nat /\ Len(data) \in Nat /\ data \in Seq(Nat)
        /\ \A k \in 1 .. Len(data) : data[k] \in 1 .. Len(inodes)
    BY <1>3 DEF TypeOK
  <2>2. p \in Seq(Tokens)
    BY LookupPathsAssumption
  <2>3. PICK path : Extended(path)
    <3>1. StepOK
      BY <1>3, EveryStepOK
    <3>2. data' \notin SortedTables(inodes, data) /\ data' # data
      <4>1. ASSUME data' \in SortedTables(inodes, data) PROVE Len(data') = Len(data)
        BY <2>1, <4>1 DEF SortedTables
      <4> QED
        BY <2>1, <4>1
    <3> QED
      BY <3>1, <3>2 DEF StepOK
  <2> DEFINE n == Len(inodes)
  <2>4. /\ inodes' \in Seq(Inodes) /\ Len(inodes') = n + 1 /\ data' = Append(data, n + 1)
        /\ \A i \in 1 .. n : inodes'[i].virtual_path = inodes[i].virtual_path
        /\ inodes'[n + 1].virtual_path \in Seq(Tokens)
    <3>1. inodes' \in Seq(Inodes) /\ Len(inodes') = n + 1
      BY <2>3 DEF Extended
    <3>2. inodes'[n + 1] \in Inodes
      BY <2>1, <3>1
    <3> QED
      BY <2>3, <3>1, <3>2 DEF Extended, Inodes
  <2>5. SaysKept(inodes')
    BY <1>3, StepSaysTheSame
  <2>6. PICK new, longer : new = inodes' /\ longer = data'
    OBVIOUS
  <2> HIDE DEF n
  <2>7. ASSUME NEW j \in 1 .. Len(p)
        PROVE  vfs_find_inode(new, longer, CutPath(p, j)) = vfs_find_inode(inodes, data, CutPath(p, j))
    <3>1. ~Matches(new[n + 1], CutPath(p, j))
      BY <2>2, <2>4, <2>6, MatchIsAbove
    <3>2. \A k \in 1 .. Len(data) : new[data[k]].virtual_path = inodes[data[k]].virtual_path
      BY <2>1, <2>4, <2>6 DEF n
    <3>3. n + 1 \in Nat /\ data \in Seq(Nat) /\ longer = Append(data, n + 1)
      BY <2>1, <2>4, <2>6 DEF n
    <3> DEFINE m == n + 1
               q == CutPath(p, j)
    <3>4. m \in Nat /\ longer = Append(data, m) /\ ~Matches(new[m], q)
      BY <3>1, <3>3
    <3> HIDE DEF m, q
    <3>5. vfs_find_inode(new, Append(data, m), q) = vfs_find_inode(inodes, data, q)
      <4>1. ASSUME NEW old, NEW table \in Seq(Nat),
                   \A k \in 1 .. Len(table) : new[table[k]].virtual_path = old[table[k]].virtual_path
            PROVE  vfs_find_inode(new, Append(table, m), q) = vfs_find_inode(old, table, q)
        BY <3>4, <4>1, FindAfterAppend
      <4> QED
        BY <3>2, <3>3, <4>1
    <3> QED
      BY <3>4, <3>5 DEF q
  <2>8. Hits(new, longer, p) = Hits(inodes, data, p)
    <3> DEFINE visits == path_split(p)
    <3>1. \A k \in 1 .. Len(visits) : \E j \in 1 .. Len(p) : visits[k].path = CutPath(p, j)
      BY <2>2, VisitsAreCuts
    <3> HIDE DEF visits
    <3>2. \A k \in 1 .. Len(visits) :
            vfs_find_inode(new, longer, visits[k].path) = vfs_find_inode(inodes, data, visits[k].path)
      BY <2>7, <3>1
    <3> QED
      BY <3>2 DEF Hits, visits
  <2>9. Hits(inodes, data, p) \in Seq(HitsOf(data))
    <3> DEFINE visits == path_split(p)
               V == [path : Seq(Tokens), is_full_path : BOOLEAN]
    <3>1. visits \in Seq(V)
      BY <2>2, VisitsAreCuts
    <3> HIDE DEF visits
    <3>2. ASSUME NEW k \in 1 .. Len(visits)
          PROVE  [inode |-> vfs_find_inode(inodes, data, visits[k].path),
                  is_full_path |-> visits[k].is_full_path] \in HitsOf(data)
      <4>1. visits[k].is_full_path \in BOOLEAN
        <5>1. visits[k] \in V
          <6> HIDE DEF V
          <6> QED
            BY <3>1
        <5> QED
          BY <5>1
      <4>2. vfs_find_inode(inodes, data, visits[k].path) \in Members(data) \cup {NULL}
        BY <1>3, TypeParts, FindIsInTable DEF Find, Ids, Members
      <4> QED
        BY <4>1, <4>2 DEF HitsOf
    <3> DEFINE h == Hits(inodes, data, p)
    <3>3. h = [k \in 1 .. Len(visits) |-> [inode |-> vfs_find_inode(inodes, data, visits[k].path),
                                           is_full_path |-> visits[k].is_full_path]]
      BY DEF Hits, visits
    <3> HIDE DEF h, V
    <3>4. h \in [1 .. Len(visits) -> HitsOf(data)] /\ Len(visits) \in Nat
      BY <3>1, <3>2, <3>3
    <3>5. h \in Seq(HitsOf(data))
      <4> DEFINE H == HitsOf(data)
      <4> HIDE DEF H
      <4>1. h \in [1 .. Len(visits) -> H]
        BY <3>4 DEF H
      <4>2. h \in Seq(H)
        BY <3>4, <4>1
      <4> QED
        BY <4>2 DEF H
    <3> QED
      BY <3>5 DEF h
  <2>10. \A i \in Members(data) : Says(inodes[i]) = Says(new[i])
    BY <2>1, <2>5, <2>6 DEF SaysKept, Members
  <2>11. Collected(new, Hits(inodes, data, p)) = Collected(inodes, Hits(inodes, data, p))
    BY <2>9, <2>10, CollectedSame
  <2> QED
    BY <2>6, <2>8, <2>11 DEF Lookup, vfs_lookup
<1> QED
  BY <1>1, <1>2, <1>3, PTL DEF Spec, CreatingIsLocal

-----------------------------------------------------------------------------
(* A step that creates an inode is the callback it is created by.          *)
Created(inode) ==
  /\ adding # NULL
  /\ \E j \in 1 .. Len(adding.request.virtual_path) :
       LET i == NewInode(CutPath(adding.request.virtual_path, j), j)
       IN  inode \in {i, [i EXCEPT !.virtual_subdirs = NULL]}

(* A step creates no inode, or one, as its callback describes it.          *)
LEMMA StepCreates ==
  ASSUME TypeOK, [Next]_vars
  PROVE  \/ Len(inodes') = Len(inodes)
         \/ Len(inodes') = Len(inodes) + 1 /\ Created(inodes'[Len(inodes) + 1])
<1>1. TableOK /\ AddingOK /\ inodes \in Seq(Inodes) /\ Len(inodes) \in Nat
  BY DEF TypeOK, TableOK, AddingOK
<1>2. CASE AddVisit
  <2>1. PICK j \in 1 .. Len(adding.request.virtual_path) :
          \/ VisitExisting(j)
          \/ \E outcome \in {"ok", "early", "insert", "nolist", "neither", "late"} :
               VisitMissing(j, outcome)
          \/ VisitDies(j)
    BY <1>2 DEF AddVisit
  <2>2. CASE VisitExisting(j) \/ VisitDies(j)
    BY <2>2 DEF VisitExisting, VisitDies
  <2>3. ASSUME NEW outcome \in {"ok", "early", "insert", "nolist", "neither", "late"},
               VisitMissing(j, outcome)
        PROVE  \/ Len(inodes') = Len(inodes)
               \/ Len(inodes') = Len(inodes) + 1 /\ Created(inodes'[Len(inodes) + 1])
    <3> DEFINE p == CutPath(adding.request.virtual_path, j)
               i == NewInode(p, j)
               bare == [i EXCEPT !.virtual_subdirs = NULL]
    <3>1. p \in Seq(Tokens) /\ adding # NULL
      BY <1>1, <1>2, RequestsAssumption, CutIsPath DEF AddVisit, AddingOK
    <3>2. \E listed \in {inodes, ParentLists(p)}, inode \in {i, bare} :
            /\ inodes' \in {listed, Append(listed, inode)}
            /\ outcome = "early" => inodes' = inodes
      BY <2>3 DEF VisitMissing, Creates, CreateFails
    <3>3. outcome # "early" => ~CannotList(p)
      BY <2>3 DEF VisitMissing
    <3>4. i \in Inodes /\ bare \in Inodes
      BY <1>1, <3>1, NewInodeOK
    <3>5. \A inode \in {i, bare} : Created(inode)
      BY <3>1 DEF Created
    <3> HIDE DEF i, bare, p
    <3>6. outcome # "early" => ParentLists(p) \in Seq(Inodes) /\ Len(ParentLists(p)) = Len(inodes)
      BY <1>1, <3>1, <3>3, ParentListsOK
    <3>7. PICK listed \in {inodes, ParentLists(p)}, inode \in {i, bare} :
            /\ inodes' \in {listed, Append(listed, inode)}
            /\ outcome = "early" => inodes' = inodes
      BY <3>2
    <3>8. CASE outcome # "early"
      <4>1. listed \in Seq(Inodes) /\ Len(listed) = Len(inodes) /\ inode \in Inodes /\ Created(inode)
        BY <1>1, <3>4, <3>5, <3>6, <3>7, <3>8
      <4>2. /\ Len(Append(listed, inode)) = Len(inodes) + 1
            /\ Append(listed, inode)[Len(inodes) + 1] = inode
        BY <4>1
      <4> QED
        BY <3>7, <4>1, <4>2
    <3> QED
      BY <3>7, <3>8
  <2> QED
    BY <2>1, <2>2, <2>3
<1>3. ASSUME NEW r \in Requests, BeginAdd(r) \/ RefuseAdd(r) PROVE inodes' = inodes
  BY <1>3 DEF BeginAdd, RefuseAdd
<1>4. ASSUME NEW p \in LookupPaths, DoLookup(p) \/ RefuseLookup(p) PROVE inodes' = inodes
  BY <1>4 DEF DoLookup, RefuseLookup
<1>5. CASE Freeze \/ UNCHANGED vars
  BY <1>5 DEF Freeze, vars
<1> QED
  BY <1>2, <1>3, <1>4, <1>5 DEF Next

(* Only requests that vfs_add_inode accepts get as far as the callbacks.   *)
Accepted == adding # NULL /\ adding.request.target_path # NULL
              => is_absolute_path(adding.request.target_path)

(* Every step keeps that a call in progress was accepted.                  *)
LEMMA AcceptedStep ==
  ASSUME TypeOK, Accepted, [Next]_vars PROVE Accepted'
<1>1. AddingOK
  BY DEF TypeOK, AddingOK
<1>2. ASSUME NEW r \in Requests, BeginAdd(r) PROVE Accepted'
  <2>1. adding'.request = r
    BY <1>2 DEF BeginAdd
  <2>2. r.target_path # NULL => is_absolute_path(r.target_path)
    BY <1>2, NullIsNoError DEF BeginAdd, AddRefusal, Errors
  <2> QED
    BY <2>1, <2>2 DEF Accepted
<1>3. ASSUME NEW j, NEW previous, adding # NULL, Advance(j, previous) PROVE Accepted'
  <2>1. adding' # NULL => adding'.request = adding.request
    BY <1>1, <1>3 DEF Advance, AddingOK
  <2> QED
    BY <1>3, <2>1 DEF Accepted
<1>4. CASE AddVisit
  <2>1. adding # NULL /\ (adding' = adding \/ \E j, previous : Advance(j, previous))
    BY <1>4 DEF AddVisit, VisitExisting, VisitMissing, VisitDies, Creates, CreateFails
  <2> QED
    BY <1>3, <2>1 DEF Accepted
<1>5. ASSUME adding' = adding PROVE Accepted'
  BY <1>5 DEF Accepted
<1>6. ASSUME NEW r \in Requests, RefuseAdd(r) PROVE adding' = adding
  BY <1>6 DEF RefuseAdd
<1>7. ASSUME NEW p \in LookupPaths, DoLookup(p) \/ RefuseLookup(p) PROVE adding' = adding
  BY <1>7 DEF DoLookup, RefuseLookup
<1>8. CASE Freeze \/ UNCHANGED vars
  BY <1>5, <1>8 DEF Freeze, vars
<1> QED
  BY <1>2, <1>4, <1>5, <1>6, <1>7, <1>8 DEF Next

(* The targets of the table are absolute paths, or empty ones if a request *)
(* asked for the target "/", which truncate_trailing_slash leaves nothing  *)
(* of.                                                                     *)
NoRootTargets ==
  \A r \in Requests : r.target_path # NULL => Stored(r.target_path) # <<>>

TargetsAbsolute ==
  \A i \in 1 .. Len(inodes) :
    inodes[i].target_path # NULL => is_absolute_path(inodes[i].target_path)

(* A created inode has no target or one that begins with a slash.          *)
LEMMA CreatedTarget ==
  ASSUME NoRootTargets, TypeOK, Accepted, NEW inode, Created(inode), inode.target_path # NULL
  PROVE  is_absolute_path(inode.target_path)
<1>1. PICK j \in 1 .. Len(adding.request.virtual_path) :
        LET i == NewInode(CutPath(adding.request.virtual_path, j), j)
        IN  inode \in {i, [i EXCEPT !.virtual_subdirs = NULL]}
  BY DEF Created
<1> DEFINE i == NewInode(CutPath(adding.request.virtual_path, j), j)
           t == adding.request.target_path
<1>2. inode.target_path = i.target_path
  BY <1>1 DEF NewInode
<1>3. t # NULL /\ inode.target_path = Stored(t)
  BY <1>2 DEF NewInode
<1>4. t \in Seq(Tokens) /\ is_absolute_path(t) /\ Stored(t) # <<>>
  BY <1>3, RequestsAssumption DEF TypeOK, Accepted, NoRootTargets, Created
<1> HIDE DEF t
<1>5. PICK n \in 0 .. Len(t) : Stored(t) = SubSeq(t, 1, n)
  BY <1>4, TruncateEnds DEF Stored
<1>6. n > 0
  BY <1>4, <1>5
<1>7. is_absolute_path(SubSeq(t, 1, n))
  BY <1>4, <1>5, <1>6 DEF is_absolute_path
<1> QED
  BY <1>3, <1>5, <1>7

(* Every step keeps that targets begin with a slash.                       *)
LEMMA TargetsStep ==
  ASSUME NoRootTargets, TypeOK, Accepted, TargetsAbsolute, [Next]_vars PROVE TargetsAbsolute'
<1>1. SaysKept(inodes') /\ Len(inodes) \in Nat
  BY StepSaysTheSame DEF TypeOK
<1>2. ASSUME NEW i \in 1 .. Len(inodes) PROVE inodes'[i].target_path = inodes[i].target_path
  BY <1>1 DEF SaysKept, Says
<1>3. CASE Len(inodes') = Len(inodes)
  BY <1>2, <1>3 DEF TargetsAbsolute
<1>4. CASE Len(inodes') = Len(inodes) + 1 /\ Created(inodes'[Len(inodes) + 1])
  <2>1. \A i \in 1 .. Len(inodes') : i \in 1 .. Len(inodes) \/ i = Len(inodes) + 1
    BY <1>1, <1>4
  <2>2. LET t == inodes'[Len(inodes) + 1].target_path
        IN  t # NULL => is_absolute_path(t)
    BY <1>4, CreatedTarget
  <2> QED
    BY <1>2, <2>1, <2>2 DEF TargetsAbsolute
<1> QED
  BY <1>3, <1>4, StepCreates

(* The path vfs_map_path gives for what a lookup found is absolute and     *)
(* leads through the target of the mountpoint and from there through the   *)
(* names that the looked-up path has below the mountpoint.                 *)
THEOREM MappingStaysBelow ==
  ASSUME SparseRequests, NoRootTargets PROVE Spec => []MappedPathIsBelowTarget
<1> DEFINE Inv == IInv /\ ResultOK /\ Accepted /\ TargetsAbsolute
<1>1. Init => Inv
  BY IInvInit DEF Init, ResultOK, Accepted, TargetsAbsolute
<1>2. Inv /\ [Next]_vars => Inv'
  BY IInvStep, ResultStep, AcceptedStep, TargetsStep DEF IInv
<1>3. Inv => MappedPathIsBelowTarget
  <2> SUFFICES ASSUME Inv, result # NULL, result.lookup.mountpoint # NULL
               PROVE  MappedPathIsBelowTarget
    BY DEF MappedPathIsBelowTarget
  <2> DEFINE c == PlaceOf(result.path)
             m == result.lookup.mountpoint
             mountpoint == inodes[m]
             mapped == vfs_map_path(mountpoint, result.path)
             t == mountpoint.target_path
  <2>1. c \in Seq(Names) /\ result.path = Render(c)
        /\ result.lookup = vfs_lookup(inodes, data, Render(c))
    BY LookupPathsAssumption DEF ResultOK, Lookup, CanonicalPaths
  <2>2. Mountpoints(inodes, data, c) = {m}
    BY <2>1, TableIsPlain, LookupIs DEF Only
  <2> HIDE DEF c, m
  <2>3. m \in Members(data) /\ t # NULL
    BY <2>1, <2>2, MountpointHasTarget
  <2>4. PICK d \in 0 .. Len(c) : mountpoint.virtual_path = Place(SubSeq(c, 1, d))
    BY <2>1, <2>2, MountpointHasTarget
  <2>5. m \in 1 .. Len(inodes) /\ mountpoint \in Inodes
    BY <2>3 DEF IInv, TypeOK, Members
  <2>6. is_absolute_path(t) /\ t \in Seq(Tokens) \ {<<>>}
    BY <2>3, <2>5 DEF TargetsAbsolute, Inodes, is_absolute_path
  <2>7. /\ mapped \in Seq(Tokens) /\ Len(mapped) > 0 /\ mapped[1] = t[1]
        /\ Components(mapped) = Components(t) \o SubSeq(c, d + 1, Len(c))
    BY <2>1, <2>4, <2>6, MapIs
  <2>8. SubSeq(c, 1, d) \in Seq(Names) /\ Len(SubSeq(c, 1, d)) = d
    BY <2>1, PlacePrefix
  <2>9. Components(mountpoint.virtual_path) = SubSeq(c, 1, d) /\ Components(result.path) = c
    BY <2>1, <2>4, <2>8, ComponentsOfPlace
  <2> HIDE DEF mapped, mountpoint
  <2>10. mapped # NULL /\ is_absolute_path(mapped)
    BY <2>6, <2>7, NullAssumption DEF is_absolute_path
  <2> QED
    BY <2>7, <2>8, <2>9, <2>10 DEF MappedPathIsBelowTarget, mapped, mountpoint, m
<1> QED
  BY <1>1, <1>2, <1>3, PTL DEF Spec

-----------------------------------------------------------------------------
(* What follows is about requests that name a place, with or without a     *)
(* slash at its end, as vfs_add_inode is meant to be called.               *)
Asks(p, c) == p \in {Render(c), Place(c) \o <<Slash>>}

CanonicalRequests ==
  \A r \in Requests :
    is_absolute_path(r.virtual_path) => \E c \in Seq(Names) : Asks(r.virtual_path, c)

(* Such a path has the names of its place after one slash each.            *)
LEMMA AsksIs ==
  ASSUME NEW c \in Seq(Names), NEW p, Asks(p, c)
  PROVE  /\ p \in Seq(Tokens)
         /\ Len(p) = 2 * Len(c) + 1 \/ (Len(p) = 2 * Len(c) /\ Len(c) > 0)
         /\ \A i \in 1 .. Len(c) : p[2 * i - 1] = Slash /\ p[2 * i] = c[i]
         /\ Len(p) = 2 * Len(c) + 1 => p[2 * Len(c) + 1] = Slash
         /\ \A k \in 0 .. Len(c) : SubSeq(p, 1, 2 * k) = Place(SubSeq(c, 1, k))
         /\ DropOneSlash(p) = Place(c)
<1> DEFINE q == Place(c)
           n == Len(c)
<1>1. /\ q \in Seq(Tokens) /\ Len(q) = 2 * n /\ n \in Nat
      /\ \A i \in 1 .. n : q[2 * i - 1] = Slash /\ q[2 * i] = c[i]
      /\ \A k \in 0 .. n : Place(SubSeq(c, 1, k)) = SubSeq(q, 1, 2 * k)
  BY PlaceIs, PlacePrefix
<1>2. Slash \in Tokens /\ \A i \in 1 .. n : c[i] # Slash
  BY NamesApart DEF Tokens
<1>3. CASE p = q /\ c # <<>>
  <2>1. n > 0 /\ p[2 * n] # Slash
    <3>1. n > 0 /\ n \in 1 .. n
      BY <1>1, <1>3
    <3> HIDE DEF q
    <3> QED
      BY <1>1, <1>2, <1>3, <3>1
  <2>2. DropOneSlash(p) = q
    BY <1>1, <1>3, <2>1 DEF DropOneSlash
  <2> HIDE DEF q
  <2> QED
    BY <1>1, <1>3, <2>1, <2>2 DEF q
<1>4. CASE p = q \o <<Slash>>
  <2> HIDE DEF q
  <2>1. /\ p \in Seq(Tokens) /\ Len(p) = 2 * n + 1 /\ p[2 * n + 1] = Slash
        /\ \A i \in 1 .. 2 * n : p[i] = q[i]
    <3>1. p = Append(q, Slash)
      BY <1>1, <1>2, <1>4, AppendIsConcat, Zenon
    <3>2. q \in Seq(Tokens) /\ Len(q) = 2 * n /\ n \in Nat /\ Slash \in Tokens
      BY <1>1, <1>2
    <3> HIDE DEF n
    <3>3. /\ p \in Seq(Tokens) /\ Len(p) = Len(q) + 1 /\ p[Len(q) + 1] = Slash
          /\ \A i \in 1 .. Len(q) : p[i] = q[i]
      BY <3>1, <3>2
    <3> QED
      BY <3>2, <3>3
  <2>2. ASSUME NEW k \in 0 .. n PROVE SubSeq(p, 1, 2 * k) = SubSeq(q, 1, 2 * k)
    BY <1>1, <2>1
  <2>3. DropOneSlash(p) = q
    <3>1. DropOneSlash(p) = SubSeq(p, 1, 2 * n)
      BY <1>1, <2>1 DEF DropOneSlash
    <3>2. SubSeq(q, 1, 2 * n) = q
      BY <1>1
    <3> QED
      BY <1>1, <2>2, <3>1, <3>2
  <2>4. \A i \in 1 .. n : 2 * i - 1 \in 1 .. 2 * n /\ 2 * i \in 1 .. 2 * n
    BY <1>1
  <2> QED
    BY <1>1, <2>1, <2>2, <2>3, <2>4 DEF q
<1>5. (p = q /\ c # <<>>) \/ p = q \o <<Slash>>
  <2>1. CASE c = <<>>
    <3>1. q = <<>> /\ Render(c) = <<Slash>>
      BY <1>1, <2>1 DEF Render
    <3> QED
      BY <3>1 DEF Asks
  <2>2. CASE c # <<>>
    BY <2>2 DEF Asks, Render
  <2> QED
    BY <2>1, <2>2
<1> QED
  BY <1>3, <1>4, <1>5

(* path_split shows its callback the directories of such a path one after  *)
(* the other.                                                              *)
LEMMA VisitDepth ==
  ASSUME NEW c \in Seq(Names), NEW p, Asks(p, c), NEW k \in 0 .. Len(c),
         NEW next, next = (IF k = 0 THEN 1 ELSE 2 * k),
         NEW j \in 1 .. Len(p), NextCut(p, next, j)
  PROVE  /\ CutPath(p, j) = Render(SubSeq(c, 1, k))
         /\ j = Len(p) <=> k = Len(c)
         /\ k < Len(c) => j + 1 = 2 * (k + 1)
<1> DEFINE n == Len(c)
<1>1. /\ p \in Seq(Tokens) /\ Len(p) \in Nat /\ n \in Nat
      /\ Len(p) = 2 * n + 1 \/ (Len(p) = 2 * n /\ n > 0)
      /\ \A i \in 1 .. n : p[2 * i - 1] = Slash /\ p[2 * i] = c[i]
      /\ Len(p) = 2 * n + 1 => p[2 * n + 1] = Slash
      /\ SubSeq(p, 1, 2 * k) = Place(SubSeq(c, 1, k))
  BY AsksIs
<1>2. j \in next .. Len(p) /\ IsCut(p, j) /\ \A l \in next .. j - 1 : ~IsCut(p, l)
  BY DEF NextCut
<1>3. CASE k = 0
  <2>1. p[1] = Slash
    <3>1. CASE n = 0
      BY <1>1, <3>1
    <3>2. CASE n # 0
      <4>1. 1 \in 1 .. n /\ 2 * 1 - 1 = 1
        BY <1>1, <3>2
      <4> QED
        BY <1>1, <4>1
    <3> QED
      BY <3>1, <3>2
  <2>2. j = 1
    <3>1. IsCut(p, 1)
      BY <2>1 DEF IsCut
    <3> QED
      BY <1>2, <1>3, <3>1
  <2>3. CutPath(p, j) = <<Slash>>
    <3>1. CutPath(p, j) = SubSeq(p, 1, 1)
      BY <2>2 DEF CutPath
    <3>2. SubSeq(p, 1, 1) = <<Slash>>
      <4> DEFINE s == SubSeq(p, 1, 1)
      <4>1. s \in Seq(Tokens) /\ Len(s) = 1 /\ s[1] = Slash
        BY <1>1, <2>1
      <4> HIDE DEF s
      <4>2. s = <<Slash>>
        BY <4>1, OneToken DEF Tokens
      <4> QED
        BY <4>2 DEF s
    <3> QED
      BY <3>1, <3>2
  <2>4. SubSeq(c, 1, k) = <<>>
    BY <1>3
  <2> QED
    BY <1>1, <1>3, <2>2, <2>3, <2>4 DEF Render
<1>4. CASE k > 0
  <2>1. next = 2 * k /\ k \in 1 .. n
    BY <1>4
  <2>2. p[2 * k] = c[k] /\ c[k] # Slash
    BY <1>1, <2>1, NamesApart
  <2>3. Render(SubSeq(c, 1, k)) = SubSeq(p, 1, 2 * k)
    <3>1. SubSeq(c, 1, k) # <<>>
      BY <1>4
    <3> QED
      BY <1>1, <3>1 DEF Render
  <2>4. CASE Len(p) = 2 * k
    <3>1. j = 2 * k
      BY <1>2, <2>1, <2>4
    <3>2. CutPath(p, j) = SubSeq(p, 1, 2 * k)
      BY <2>2, <3>1 DEF CutPath
    <3> QED
      BY <1>1, <2>1, <2>3, <2>4, <3>1, <3>2
  <2>5. CASE Len(p) # 2 * k
    <3>1. Len(p) > 2 * k
      BY <1>1, <2>1, <2>5
    <3>2. ~IsCut(p, 2 * k)
      BY <2>2, <2>5 DEF IsCut
    <3>3. p[2 * k + 1] = Slash
      <4>1. CASE k = n
        BY <1>1, <3>1, <4>1
      <4>2. CASE k # n
        <5>1. k + 1 \in 1 .. n /\ 2 * (k + 1) - 1 = 2 * k + 1
          BY <2>1, <4>2
        <5>2. p[2 * (k + 1) - 1] = Slash
          BY <1>1, <5>1
        <5> QED
          BY <5>1, <5>2
      <4> QED
        BY <4>1, <4>2
    <3>4. IsCut(p, 2 * k + 1)
      BY <3>3 DEF IsCut
    <3>5. j = 2 * k + 1
      <4>1. j # 2 * k
        BY <1>2, <3>2
      <4>2. ~(2 * k + 1 <= j - 1)
        <5>1. ASSUME 2 * k + 1 <= j - 1 PROVE 2 * k + 1 \in next .. j - 1
          BY <2>1, <5>1
        <5> QED
          BY <1>2, <3>4, <5>1
      <4> QED
        BY <1>2, <2>1, <4>1, <4>2
    <3>6. CutPath(p, j) = SubSeq(p, 1, 2 * k)
      <4>1. j # 1 /\ p[j] = Slash /\ j - 1 = 2 * k
        BY <2>1, <3>3, <3>5
      <4> QED
        BY <4>1 DEF CutPath
    <3> QED
      BY <1>1, <2>1, <2>3, <3>1, <3>5, <3>6
  <2> QED
    BY <2>4, <2>5
<1> QED
  BY <1>3, <1>4

-----------------------------------------------------------------------------
(* The tree of inodes: every inode stands at a place, no two at one, its   *)
(* parent at the place above; and a listing counts the children.           *)
PlaceAt(nodes, i) == PlaceOf(nodes[i].virtual_path)

Standing(nodes, c) == \E i \in 1 .. Len(nodes) : PlaceAt(nodes, i) = c

Placed(nodes) ==
  /\ \A i \in 1 .. Len(nodes) :
       /\ PlaceAt(nodes, i) \in Seq(Names)
       /\ nodes[i].virtual_path = Place(PlaceAt(nodes, i))
  /\ \A i, k \in 1 .. Len(nodes) : PlaceAt(nodes, i) = PlaceAt(nodes, k) => i = k

ParentIs(nodes, m, c) ==
  IF c = <<>> THEN m = NULL
  ELSE m \in 1 .. Len(nodes) /\ PlaceAt(nodes, m) = Front(c)

ListsChildren(nodes, i) ==
  LET list == nodes[i].virtual_subdirs.strings
  IN  /\ list \in Seq(Tokens)
      /\ \A x \in Names :
           CountOf(list, x) = IF Standing(nodes, Append(PlaceAt(nodes, i), x)) THEN 1 ELSE 0

Tree(nodes) ==
  /\ Placed(nodes)
  /\ \A i \in 1 .. Len(nodes) : ParentIs(nodes, nodes[i].parent, PlaceAt(nodes, i))
  /\ \A i \in 1 .. Len(nodes) : ListsChildren(nodes, i)

(* A call in progress has come k directories deep into the place it asks   *)
(* for, which has no inode yet, and its parent stands there.               *)
Reached(nodes, call, c, k) ==
  /\ call.next = (IF k = 0 THEN 1 ELSE 2 * k)
  /\ IF k = 0 THEN call.previous = NULL
     ELSE call.previous \in 1 .. Len(nodes) /\ PlaceAt(nodes, call.previous) = SubSeq(c, 1, k - 1)

AddingBelow(nodes, call) ==
  call # NULL =>
    \E c \in Seq(Names) :
      /\ Asks(call.request.virtual_path, c)
      /\ ~Standing(nodes, c)
      /\ \E k \in 0 .. Len(c) : Reached(nodes, call, c, k)

(* An answered request has the inode it asked for.                         *)
GivenTo(r, inode) ==
  /\ inode.flags_set = r.flags_set /\ inode.flags_reset = r.flags_reset
  /\ inode.target_path = (IF r.target_path = NULL THEN NULL ELSE Stored(r.target_path))

Honoured(nodes, done) ==
  \A r \in done :
    \E c \in Seq(Names) :
      /\ Asks(r.virtual_path, c)
      /\ \E i \in 1 .. Len(nodes) : PlaceAt(nodes, i) = c /\ GivenTo(r, nodes[i])

TreeInv ==
  failures = 0 =>
    /\ Members(data) = 1 .. Len(inodes)
    /\ Tree(inodes)
    /\ AddingBelow(inodes, adding)
    /\ Honoured(inodes, granted)

(* A name appended to a list is counted once more.                         *)
LEMMA AppendCounts ==
  ASSUME NEW s \in Seq(Tokens), NEW x \in Tokens, NEW y, CountOf(s, y) \in {0, 1}
  PROVE  CountOf(Append(s, x), y) = CountOf(s, y) + (IF x = y THEN 1 ELSE 0)
<1> DEFINE longer == Append(s, x)
           n == Len(s) + 1
<1>1. /\ Len(s) \in Nat /\ Len(longer) = n /\ longer[n] = x
      /\ \A i \in 1 .. Len(s) : longer[i] = s[i]
  OBVIOUS
<1>2. IsFiniteSet(Places(s, y)) /\ n \notin Places(s, y)
  <2>1. IsFiniteSet(1 .. Len(s)) /\ Places(s, y) \subseteq 1 .. Len(s)
    BY <1>1, FS_Interval DEF Places
  <2> QED
    BY <1>1, <2>1, FS_Subset
<1> HIDE DEF longer
<1>0. /\ CountOf(longer, y) = Cardinality(Places(longer, y))
      /\ CountOf(s, y) = Cardinality(Places(s, y))
      /\ CountOf(s, y) + 0 = CountOf(s, y)
  BY DEF CountOf, Places
<1>3. CASE x = y
  <2>1. Places(longer, y) = Places(s, y) \cup {n}
    BY <1>1, <1>3 DEF Places
  <2>2. Cardinality(Places(longer, y)) = Cardinality(Places(s, y)) + 1
    BY <1>2, <2>1, FS_AddElement
  <2> QED
    BY <1>0, <1>3, <2>2 DEF longer
<1>4. CASE x # y
  <2>1. Places(longer, y) = Places(s, y)
    BY <1>1, <1>4 DEF Places
  <2> QED
    BY <1>0, <1>4, <2>1 DEF longer
<1> QED
  BY <1>3, <1>4

(* Sequences that end in a name are their front and that name.             *)
LEMMA FrontAndLast ==
  ASSUME NEW c \in Seq(Names)
  PROVE  /\ c # <<>> => /\ Front(c) \in Seq(Names) /\ Last(c) \in Names
                        /\ c = Append(Front(c), Last(c))
                        /\ Front(c) = SubSeq(c, 1, Len(c) - 1) /\ Last(c) = c[Len(c)]
         /\ \A x \in Names : /\ Append(c, x) \in Seq(Names) /\ Append(c, x) # <<>>
                             /\ Front(Append(c, x)) = c /\ Last(Append(c, x)) = x
                             /\ Append(c, x) # c
<1>1. ASSUME c # <<>>
      PROVE  /\ Front(c) \in Seq(Names) /\ Last(c) \in Names
             /\ c = Append(Front(c), Last(c))
             /\ Front(c) = SubSeq(c, 1, Len(c) - 1) /\ Last(c) = c[Len(c)]
  <2>1. Len(c) \in Nat \ {0}
    BY <1>1
  <2>2. c = Append(SubSeq(c, 1, Len(c) - 1), c[Len(c)])
    BY <2>1
  <2> QED
    BY <2>1, <2>2 DEF Front, Last
<1>2. ASSUME NEW x \in Names
      PROVE  /\ Append(c, x) \in Seq(Names) /\ Append(c, x) # <<>>
             /\ Front(Append(c, x)) = c /\ Last(Append(c, x)) = x
             /\ Append(c, x) # c
  <2> DEFINE b == Append(c, x)
             n == Len(c)
  <2>1. /\ b \in Seq(Names) /\ Len(b) = n + 1 /\ n \in Nat
        /\ b[n + 1] = x /\ SubSeq(b, 1, n) = c
    OBVIOUS
  <2>2. Front(b) = SubSeq(b, 1, Len(b) - 1) /\ Last(b) = b[Len(b)] /\ Len(c) = n
    BY DEF Front, Last
  <2> HIDE DEF b, n
  <2>3. Len(b) - 1 = n /\ Len(b) # n /\ Len(b) # 0
    BY <2>1
  <2>4. Front(b) = c /\ Last(b) = x
    BY <2>1, <2>2, <2>3
  <2>5. b # <<>> /\ b # c
    BY <2>1, <2>2, <2>3
  <2> QED
    BY <2>1, <2>4, <2>5 DEF b
<1> QED
  BY <1>1, <1>2

(* A new inode at the place d, whose parent m has listed it, grows the     *)
(* tree: nothing stands below a place at which nothing stands.             *)
Grown(old, new, d, m) ==
  /\ Len(old) \in Nat /\ Len(new) = Len(old) + 1
  /\ \A i \in 1 .. Len(old) :
       /\ new[i].virtual_path = old[i].virtual_path /\ new[i].parent = old[i].parent
       /\ new[i].virtual_subdirs.strings =
            (IF i = m THEN Append(old[i].virtual_subdirs.strings, Last(d))
             ELSE old[i].virtual_subdirs.strings)
  /\ new[Len(old) + 1].virtual_path = Place(d) /\ new[Len(old) + 1].parent = m
  /\ new[Len(old) + 1].virtual_subdirs.strings = <<>>

LEMMA TreeGrows ==
  ASSUME NEW old, NEW new, NEW d \in Seq(Names), NEW m,
         Tree(old), ~Standing(old, d), ParentIs(old, m, d), Grown(old, new, d, m)
  PROVE  Tree(new)
<1> DEFINE n == Len(old)
           at(i) == PlaceAt(old, i)
           list(i) == old[i].virtual_subdirs.strings
<1>1. /\ n \in Nat /\ Len(new) = n + 1
      /\ \A i \in 1 .. n : i \in 1 .. n + 1 /\ i # n + 1
      /\ n + 1 \in 1 .. n + 1 /\ \A i \in 1 .. n + 1 : i \in 1 .. n \/ i = n + 1
  BY DEF Grown
<1>2. /\ \A i \in 1 .. n : PlaceAt(new, i) = at(i)
      /\ PlaceAt(new, n + 1) = d
  BY <1>1, RenderIs DEF Grown, PlaceAt
<1>3. /\ \A i \in 1 .. n : at(i) \in Seq(Names) /\ old[i].virtual_path = Place(at(i))
      /\ \A i, k \in 1 .. n : at(i) = at(k) => i = k
      /\ \A i \in 1 .. n : ParentIs(old, old[i].parent, at(i)) /\ ListsChildren(old, i)
  BY DEF Tree, Placed
<1> HIDE DEF at
<1>4. ASSUME NEW c PROVE Standing(new, c) <=> Standing(old, c) \/ c = d
  BY <1>1, <1>2 DEF Standing, at
<1>5. \A i \in 1 .. n : at(i) # d
  BY DEF Standing, at
<1>6. Placed(new)
  <2>1. ASSUME NEW i \in 1 .. n + 1
        PROVE  PlaceAt(new, i) \in Seq(Names) /\ new[i].virtual_path = Place(PlaceAt(new, i))
    <3>1. CASE i \in 1 .. n
      <4>1. new[i].virtual_path = old[i].virtual_path
        BY <3>1 DEF Grown
      <4> QED
        BY <1>2, <1>3, <3>1, <4>1
    <3>2. CASE i = n + 1
      BY <1>2, <3>2 DEF Grown
    <3> QED
      BY <1>1, <3>1, <3>2
  <2>2. ASSUME NEW i \in 1 .. n + 1, NEW k \in 1 .. n + 1, PlaceAt(new, i) = PlaceAt(new, k)
        PROVE  i = k
    BY <1>1, <1>2, <1>3, <1>5, <2>2
  <2> QED
    BY <1>1, <2>1, <2>2 DEF Placed
<1>7. ASSUME NEW q, NEW c, ParentIs(old, q, c) PROVE ParentIs(new, q, c)
  BY <1>1, <1>2, <1>7 DEF ParentIs, at
<1>8. ASSUME NEW i \in 1 .. n + 1 PROVE ParentIs(new, new[i].parent, PlaceAt(new, i))
  <2>1. CASE i \in 1 .. n
    BY <1>2, <1>3, <1>7, <2>1 DEF Grown
  <2>2. CASE i = n + 1
    BY <1>2, <1>7, <2>2 DEF Grown
  <2> QED
    BY <1>1, <2>1, <2>2
<1>9. ASSUME NEW i \in 1 .. n PROVE ListsChildren(new, i)
  <2>1. /\ list(i) \in Seq(Tokens) /\ at(i) \in Seq(Names)
        /\ \A x \in Names : CountOf(list(i), x) = IF Standing(old, Append(at(i), x)) THEN 1 ELSE 0
    BY <1>3 DEF ListsChildren, at
  <2>2. /\ PlaceAt(new, i) = at(i)
        /\ new[i].virtual_subdirs.strings = (IF i = m THEN Append(list(i), Last(d)) ELSE list(i))
    BY <1>2 DEF Grown
  <2>3. CASE i = m
    <3>1. d # <<>> /\ at(i) = Front(d)
      <4>1. m # NULL
        BY <1>1, <2>3, NullAssumption
      <4> QED
        BY <2>3, <4>1 DEF ParentIs, at
    <3>2. /\ Last(d) \in Names /\ d = Append(at(i), Last(d))
          /\ \A x \in Names : Last(Append(at(i), x)) = x
      BY <2>1, <3>1, FrontAndLast
    <3> HIDE DEF list
    <3>3. ASSUME NEW x \in Names
          PROVE  CountOf(Append(list(i), Last(d)), x)
                   = IF Standing(new, Append(at(i), x)) THEN 1 ELSE 0
      <4>1. CountOf(list(i), x) \in {0, 1} /\ Last(d) \in Tokens
        BY <2>1, <3>2, NamesApart
      <4>2. CountOf(Append(list(i), Last(d)), x)
              = CountOf(list(i), x) + (IF Last(d) = x THEN 1 ELSE 0)
        BY <2>1, <4>1, AppendCounts
      <4>3. CASE x = Last(d)
        <5>1. CountOf(list(i), x) = 0
          BY <2>1, <3>2, <4>3
        <5>2. Standing(new, Append(at(i), x))
          BY <1>4, <3>2, <4>3
        <5> QED
          BY <4>2, <4>3, <5>1, <5>2
      <4>4. CASE x # Last(d)
        <5>1. Append(at(i), x) # d
          BY <3>2, <4>4
        <5>2. Standing(new, Append(at(i), x)) <=> Standing(old, Append(at(i), x))
          BY <1>4, <5>1
        <5> QED
          BY <2>1, <4>1, <4>2, <4>4, <5>2
      <4> QED
        BY <4>3, <4>4
    <3>4. Append(list(i), Last(d)) \in Seq(Tokens)
      BY <2>1, <3>2, NamesApart
    <3> QED
      BY <2>2, <2>3, <3>3, <3>4 DEF ListsChildren
  <2>4. CASE i # m
    <3>1. ASSUME NEW x \in Names PROVE Append(at(i), x) # d
      <4> SUFFICES ASSUME Append(at(i), x) = d PROVE FALSE
        OBVIOUS
      <4>1. d # <<>> /\ Front(d) = at(i)
        BY <2>1, FrontAndLast
      <4>2. m \in 1 .. n /\ at(m) = at(i)
        BY <4>1 DEF ParentIs, at
      <4> QED
        BY <1>3, <2>4, <4>2
    <3>2. \A x \in Names : Standing(new, Append(at(i), x)) <=> Standing(old, Append(at(i), x))
      BY <1>4, <3>1
    <3> QED
      BY <2>1, <2>2, <2>4, <3>2 DEF ListsChildren
  <2> QED
    BY <2>3, <2>4
<1>10. ListsChildren(new, n + 1)
  <2>1. ASSUME NEW x \in Names PROVE ~Standing(new, Append(d, x))
    <3> SUFFICES ASSUME Standing(old, Append(d, x)) PROVE FALSE
      BY <1>4, FrontAndLast
    <3>1. PICK i \in 1 .. n : at(i) = Append(d, x)
      BY DEF Standing, at
    <3>2. ParentIs(old, old[i].parent, Append(d, x))
      BY <1>3, <3>1
    <3>3. Append(d, x) # <<>> /\ Front(Append(d, x)) = d
      BY FrontAndLast
    <3> QED
      BY <3>2, <3>3 DEF ParentIs, Standing
  <2>2. \A x \in Names : CountOf(<<>>, x) = 0
    <3>1. ASSUME NEW x PROVE {i \in 1 .. Len(<<>>) : <<>>[i] = x} = {}
      OBVIOUS
    <3> QED
      BY <3>1, FS_EmptySet DEF CountOf
  <2>3. new[n + 1].virtual_subdirs.strings = <<>> /\ <<>> \in Seq(Tokens)
    BY DEF Grown
  <2> QED
    BY <1>2, <2>1, <2>2, <2>3 DEF ListsChildren
<1> QED
  BY <1>1, <1>6, <1>8, <1>9, <1>10 DEF Tree

(* What vfs_find_inode makes of the path of a place.                       *)
LEMMA FoundAt ==
  ASSUME IInv, Placed(inodes), Members(data) = 1 .. Len(inodes),
         NEW d \in Seq(Names), NEW q, DropOneSlash(q) = Place(d)
  PROVE  /\ Find(q) = NULL => ~Standing(inodes, d)
         /\ Find(q) # NULL => Find(q) \in 1 .. Len(inodes) /\ PlaceAt(inodes, Find(q)) = d
<1>1. TableOK /\ data \in Seq(1 .. Len(inodes))
  BY DEF IInv, TypeOK, TableOK
<1>2. ASSUME NEW i \in 1 .. Len(inodes)
      PROVE  pathcmp(inodes[i].virtual_path, q) <=> PlaceAt(inodes, i) = d
  <2> DEFINE v == inodes[i].virtual_path
  <2>1. DropOneSlash(v) = v
    BY DEF IInv, StoredWithoutSlash, DropOneSlash, EndsInSlash
  <2>2. PlaceAt(inodes, i) = PlaceOf(v) /\ v = Place(PlaceOf(v)) /\ PlaceOf(Place(d)) = d
    BY RenderIs DEF Placed, PlaceAt
  <2> QED
    BY <2>1, <2>2 DEF pathcmp
<1>3. CASE Find(q) = NULL
  <2>1. \A k \in 1 .. Len(data) : ~pathcmp(inodes[data[k]].virtual_path, q)
    BY <1>1, <1>3, FindIsInTable DEF Ids
  <2>2. ASSUME NEW i \in 1 .. Len(inodes) PROVE PlaceAt(inodes, i) # d
    <3>1. PICK k \in 1 .. Len(data) : data[k] = i
      BY DEF Members
    <3> QED
      BY <1>2, <2>1, <3>1
  <2> QED
    BY <1>3, <2>2 DEF Standing
<1>4. CASE Find(q) # NULL
  <2>1. PICK k \in 1 .. Len(data) : Find(q) = data[k] /\ pathcmp(inodes[data[k]].virtual_path, q)
    BY <1>1, <1>4, FindIsInTable DEF Ids
  <2> QED
    BY <1>1, <1>2, <1>4, <2>1
<1> QED
  BY <1>3, <1>4

(* After a callback the call has gone one directory deeper, or is answered *)
(* at the place it asked for.                                              *)
LEMMA AdvanceBelow ==
  ASSUME AddingOK, adding # NULL,
         NEW c \in Seq(Names), Asks(adding.request.virtual_path, c), NEW k \in 0 .. Len(c),
         NEW j, j = Len(adding.request.virtual_path) <=> k = Len(c),
         k < Len(c) => j + 1 = 2 * (k + 1),
         NEW nodes, NEW i \in 1 .. Len(nodes), PlaceAt(nodes, i) = SubSeq(c, 1, k),
         k = Len(c) => GivenTo(adding.request, nodes[i]),
         k < Len(c) => ~Standing(nodes, c),
         Honoured(nodes, granted), Advance(j, i)
  PROVE  AddingBelow(nodes, adding') /\ Honoured(nodes, granted')
<1> DEFINE r == adding.request
<1>1. CASE j = Len(r.virtual_path)
  <2>1. adding' = NULL /\ granted' = granted \cup {r}
    BY <1>1 DEF Advance
  <2>2. PlaceAt(nodes, i) = c /\ GivenTo(r, nodes[i])
    <3>1. k = Len(c) /\ SubSeq(c, 1, Len(c)) = c
      BY <1>1
    <3> QED
      BY <3>1
  <2> HIDE DEF r
  <2>3. Honoured(nodes, granted \cup {r})
    BY <2>2 DEF Honoured, r
  <2> QED
    BY <2>1, <2>3 DEF AddingBelow
<1>2. CASE j # Len(r.virtual_path)
  <2>1. PICK call : call = adding'
    OBVIOUS
  <2>2. call = [adding EXCEPT !.next = j + 1, !.previous = i] /\ granted' = granted
    BY <1>2, <2>1 DEF Advance
  <2>3. adding \in [request : Requests, next : Nat, previous : Nat \cup {NULL}]
    BY DEF AddingOK
  <2>4. call.request = r /\ call.next = j + 1 /\ call.previous = i
    BY <2>2, <2>3
  <2>5. k < Len(c) /\ k + 1 \in 0 .. Len(c) /\ k + 1 # 0 /\ (k + 1) - 1 = k
    BY <1>2
  <2>6. Reached(nodes, call, c, k + 1)
    BY <2>4, <2>5 DEF Reached
  <2>7. AddingBelow(nodes, call)
    BY <2>4, <2>5, <2>6 DEF AddingBelow
  <2> QED
    BY <2>1, <2>2, <2>7
<1> QED
  BY <1>1, <1>2

(* Answered requests stay honoured as long as nothing said is changed.     *)
LEMMA HonouredKept ==
  ASSUME NEW done, Honoured(inodes, done), Len(inodes) \in Nat,
         NEW new, SaysKept(new), Len(new) \in Nat, Len(new) >= Len(inodes)
  PROVE  Honoured(new, done)
<1> SUFFICES ASSUME NEW r \in done
             PROVE  \E c \in Seq(Names) :
                      /\ Asks(r.virtual_path, c)
                      /\ \E i \in 1 .. Len(new) : PlaceAt(new, i) = c /\ GivenTo(r, new[i])
  BY DEF Honoured
<1>1. PICK c \in Seq(Names) :
        /\ Asks(r.virtual_path, c)
        /\ \E i \in 1 .. Len(inodes) : PlaceAt(inodes, i) = c /\ GivenTo(r, inodes[i])
  BY DEF Honoured
<1>2. PICK i \in 1 .. Len(inodes) : PlaceAt(inodes, i) = c /\ GivenTo(r, inodes[i])
  BY <1>1
<1>3. /\ new[i].virtual_path = inodes[i].virtual_path
      /\ new[i].flags_set = inodes[i].flags_set /\ new[i].flags_reset = inodes[i].flags_reset
      /\ new[i].target_path = inodes[i].target_path
  BY DEF SaysKept, Says
<1>4. PlaceAt(new, i) = c /\ GivenTo(r, new[i]) /\ i \in 1 .. Len(new)
  BY <1>2, <1>3 DEF PlaceAt, GivenTo
<1> QED
  BY <1>1, <1>4

(* The listing of the parent takes the name, no other listing changes.     *)
LEMMA ListingTakesName ==
  ASSUME TableOK, AddingOK, adding # NULL, NEW q, NEW i \in 1 .. Len(inodes)
  PROVE  ParentLists(q)[i].virtual_subdirs.strings =
           IF i = adding.previous
           THEN Append(inodes[i].virtual_subdirs.strings, const_basename(Stored(q)))
           ELSE inodes[i].virtual_subdirs.strings
<1>1. inodes \in Seq(Inodes)
  BY DEF TableOK
<1>2. CASE adding.previous = NULL
  <2>1. i # NULL
    BY <1>1, NullAssumption
  <2> QED
    BY <1>2, <2>1 DEF ParentLists
<1>3. CASE adding.previous # NULL
  <2> DEFINE m == adding.previous
             s == Append(inodes[m].virtual_subdirs.strings, const_basename(Stored(q)))
             l == stringlist_insert(inodes[m].virtual_subdirs, const_basename(Stored(q)))
             changed == [inodes[m] EXCEPT !.virtual_subdirs = l]
  <2>1. m \in 1 .. Len(inodes) /\ inodes[m] \in Inodes
    BY <1>1, <1>3 DEF AddingOK
  <2>2. ParentLists(q) = [inodes EXCEPT ![m] = changed]
    BY <1>3 DEF ParentLists
  <2>3. l.strings = s
    BY DEF stringlist_insert
  <2> HIDE DEF l
  <2>4. changed.virtual_subdirs = l
    BY <2>1 DEF Inodes
  <2> HIDE DEF changed, m
  <2>5. ParentLists(q)[i] = IF i = m THEN changed ELSE inodes[i]
    BY <1>1, <2>1, <2>2
  <2> QED
    BY <2>3, <2>4, <2>5 DEF m
<1> QED
  BY <1>2, <1>3

(* What a place is called in its parent's listing.                         *)
LEMMA NameOfPlace ==
  ASSUME NEW d \in Seq(Names), d # <<>>
  PROVE  const_basename(Place(d)) = Last(d)
<1> DEFINE n == Len(d)
<1>1. n \in 1 .. n /\ d[n] \in Names
  OBVIOUS
<1>2. Len(Place(d)) = 2 * n /\ Place(d)[2 * n] = d[n]
  BY <1>1, PlaceIs
<1>3. Last(Place(d)) = Last(d) /\ Last(d) # Slash
  BY <1>1, <1>2, NamesApart DEF Last
<1> QED
  BY <1>3 DEF const_basename

(* A callback that creates an inode grows the tree by it.                  *)
LEMMA CreatingGrows ==
  ASSUME IInv, Tree(inodes), AddingOK, adding # NULL, NEW q \in Seq(Tokens), NEW j, ~CannotList(q),
         NEW d \in Seq(Names), Stored(q) = Place(d), ParentIs(inodes, adding.previous, d),
         NEW new, new = Append(ParentLists(q), NewInode(q, j))
  PROVE  Grown(inodes, new, d, adding.previous) /\ SaysKept(new)
<1>1. TableOK /\ inodes \in Seq(Inodes) /\ Len(inodes) \in Nat
  BY DEF IInv, TypeOK, TableOK
<1> DEFINE listed == ParentLists(q)
           inode == NewInode(q, j)
           n == Len(inodes)
           m == adding.previous
<1>2. /\ listed \in Seq(Inodes) /\ Len(listed) = n /\ SaysKept(listed)
      /\ inode \in Inodes
  BY <1>1, ParentListsOK, ListingSaysTheSame, NewInodeOK
<1>3. /\ inode.virtual_path = Place(d) /\ inode.parent = m
      /\ inode.virtual_subdirs.strings = <<>>
  BY DEF NewInode, stringlist_new
<1>4. ASSUME NEW i \in 1 .. n
      PROVE  listed[i].virtual_subdirs.strings =
               (IF i = m THEN Append(inodes[i].virtual_subdirs.strings, Last(d))
                ELSE inodes[i].virtual_subdirs.strings)
  <2>1. listed[i].virtual_subdirs.strings =
          (IF i = m THEN Append(inodes[i].virtual_subdirs.strings, const_basename(Stored(q)))
           ELSE inodes[i].virtual_subdirs.strings)
    BY <1>1, ListingTakesName
  <2>2. i = m => const_basename(Stored(q)) = Last(d)
    <3>1. i = m => d # <<>>
      BY <1>1, NullAssumption DEF ParentIs
    <3> QED
      BY <3>1, NameOfPlace
  <2> QED
    BY <2>1, <2>2
<1> HIDE DEF listed, inode, m
<1>5. new = Append(listed, inode)
  BY DEF listed, inode
<1>6. Len(new) = n + 1 /\ new[n + 1] = inode /\ \A i \in 1 .. n : new[i] = listed[i]
  <2> HIDE DEF n
  <2>1. n \in Nat
    BY <1>1 DEF n
  <2> QED
    BY <1>2, <1>5, <2>1
<1>7. SaysKept(new)
  BY <1>2, <1>6 DEF SaysKept
<1>8. Grown(inodes, new, d, m)
  BY <1>1, <1>3, <1>4, <1>6, <1>7 DEF Grown, SaysKept
<1> QED
  BY <1>7, <1>8 DEF m

(* A callback of vfs_add_inode keeps the tree a tree and the call inside   *)
(* of it.                                                                  *)
LEMMA VisitKeepsTree ==
  ASSUME IInv, TreeInv, AddVisit, failures' = 0 PROVE TreeInv'
<1>1. /\ adding # NULL /\ failures \in Nat /\ AddingOK /\ TableOK
      /\ Len(inodes) \in Nat /\ inodes \in Seq(Inodes) /\ data \in Seq(1 .. Len(inodes))
  BY DEF IInv, TypeOK, AddVisit, AddingOK, TableOK
<1> DEFINE p == adding.request.virtual_path
<1>2. PICK j \in 1 .. Len(p) :
        /\ NextCut(p, adding.next, j)
        /\ \/ VisitExisting(j)
           \/ \E outcome \in {"ok", "early", "insert", "nolist", "neither", "late"} :
                VisitMissing(j, outcome)
           \/ VisitDies(j)
  BY DEF AddVisit
<1> DEFINE q == CutPath(p, j)
<1>3. CASE VisitDies(j)
  BY <1>3 DEF VisitDies, TreeInv
<1>4. ASSUME failures = 0, ~VisitDies(j) PROVE TreeInv'
  <2>1. Members(data) = 1 .. Len(inodes) /\ Tree(inodes) /\ Honoured(inodes, granted)
    BY <1>4 DEF TreeInv
  <2>2. PICK c \in Seq(Names) :
          /\ Asks(p, c) /\ ~Standing(inodes, c)
          /\ \E k \in 0 .. Len(c) : Reached(inodes, adding, c, k)
    BY <1>1, <1>4 DEF TreeInv, AddingBelow
  <2>3. PICK k \in 0 .. Len(c) : Reached(inodes, adding, c, k)
    BY <2>2
  <2> DEFINE d == SubSeq(c, 1, k)
             r == adding.request
  <2>4. adding.next = IF k = 0 THEN 1 ELSE 2 * k
    BY <2>3 DEF Reached
  <2>5. /\ q = Render(d) /\ (j = Len(p) <=> k = Len(c))
        /\ k < Len(c) => j + 1 = 2 * (k + 1)
    <3> HIDE DEF p
    <3> QED
      BY <1>2, <2>2, <2>4, VisitDepth
  <2>6. d \in Seq(Names) /\ Len(d) = k
    BY PlacePrefix
  <2>7. (k = Len(c) => d = c) /\ (k < Len(c) => d # c)
    BY <2>6
  <2>8. ParentIs(inodes, adding.previous, d)
    <3>1. CASE k = 0
      BY <2>3, <3>1 DEF Reached, ParentIs
    <3>2. CASE k # 0
      <4>1. d # <<>> /\ Front(d) = SubSeq(c, 1, k - 1)
        <5>1. Front(d) = SubSeq(d, 1, k - 1) /\ d # <<>>
          BY <2>6, <3>2, FrontAndLast
        <5>2. SubSeq(d, 1, k - 1) = SubSeq(c, 1, k - 1)
          BY <3>2
        <5> QED
          BY <5>1, <5>2
      <4> QED
        BY <2>3, <3>2, <4>1 DEF Reached, ParentIs
    <3> QED
      BY <3>1, <3>2
  <2> HIDE DEF d
  <2>9. /\ q \in Seq(Tokens) /\ DropOneSlash(q) = Place(d) /\ Stored(q) = Place(d)
    BY <2>5, <2>6, RenderIs DEF Stored
  <2>10. /\ Find(q) = NULL => ~Standing(inodes, d)
         /\ Find(q) # NULL => Find(q) \in 1 .. Len(inodes) /\ PlaceAt(inodes, Find(q)) = d
    BY <2>1, <2>6, <2>9, FoundAt DEF Tree
  <2> HIDE DEF q
  <2>11. CASE VisitExisting(j)
    <3>1. /\ Find(q) # NULL /\ Advance(j, Find(q))
          /\ inodes' = inodes /\ data' = data /\ failures' = failures
      BY <2>11 DEF VisitExisting, q
    <3>2. PICK i \in 1 .. Len(inodes) : i = Find(q) /\ PlaceAt(inodes, i) = d
      BY <2>10, <3>1
    <3>3. k # Len(c)
      BY <2>2, <2>7, <3>2 DEF Standing
    <3>4. PlaceAt(inodes, i) = SubSeq(c, 1, k)
      BY <3>2 DEF d
    <3>5. AddingBelow(inodes, adding') /\ Honoured(inodes, granted')
      BY <1>1, <2>1, <2>2, <2>5, <3>1, <3>2, <3>3, <3>4, AdvanceBelow
    <3> QED
      BY <2>1, <3>1, <3>5 DEF TreeInv
  <2>12. CASE VisitMissing(j, "ok")
    <3> DEFINE n == Len(inodes)
    <3>1. /\ Find(q) = NULL /\ ~CannotList(q)
          /\ inodes' = Append(ParentLists(q), NewInode(q, j))
          /\ data' = Append(data, n + 1) /\ Advance(j, n + 1)
      BY <2>12 DEF VisitMissing, Creates, q
    <3>2. PICK new : new = inodes'
      OBVIOUS
    <3>3. Grown(inodes, new, d, adding.previous) /\ SaysKept(new)
      BY <1>1, <2>1, <2>6, <2>8, <2>9, <3>1, <3>2, CreatingGrows
    <3>4. Tree(new)
      BY <2>1, <2>6, <2>8, <2>10, <3>1, <3>3, TreeGrows
    <3>5. n \in Nat /\ Len(new) = n + 1 /\ new[n + 1] = NewInode(q, j)
      <4>1. ParentLists(q) \in Seq(Inodes) /\ Len(ParentLists(q)) = n
        BY <1>1, <2>9, <3>1, ParentListsOK
      <4> DEFINE listed == ParentLists(q)
                 inode == NewInode(q, j)
      <4>2. inode \in Inodes
        BY <1>1, <2>9, NewInodeOK
      <4>3. new = Append(listed, inode) /\ n \in Nat
        BY <1>1, <3>1, <3>2
      <4> HIDE DEF n, listed, inode
      <4>4. Len(new) = n + 1 /\ new[n + 1] = inode
        BY <4>1, <4>2, <4>3 DEF listed
      <4> QED
        BY <4>3, <4>4 DEF inode
    <3>6. PlaceAt(new, n + 1) = d /\ \A i \in 1 .. n : PlaceAt(new, i) = PlaceAt(inodes, i)
      BY <2>6, <3>3, RenderIs DEF Grown, PlaceAt
    <3>7. k = Len(c) => GivenTo(r, new[n + 1])
      <4>1. ASSUME j = Len(p) PROVE GivenTo(r, NewInode(q, j))
        BY <4>1 DEF NewInode, GivenTo
      <4> QED
        BY <2>5, <3>5, <4>1
    <3>8. k < Len(c) => ~Standing(new, c)
      <4> SUFFICES ASSUME k < Len(c), NEW i \in 1 .. n + 1, PlaceAt(new, i) = c PROVE FALSE
        BY <3>5 DEF Standing
      <4>1. i \in 1 .. n \/ i = n + 1
        BY <3>5
      <4> QED
        BY <2>2, <2>7, <3>6, <4>1 DEF Standing
    <3>9. Honoured(new, granted)
      BY <1>1, <2>1, <3>3, <3>5, HonouredKept
    <3>10. PICK i \in 1 .. Len(new) : i = n + 1
      BY <3>5
    <3>11. /\ PlaceAt(new, i) = SubSeq(c, 1, k) /\ Advance(j, i)
           /\ k = Len(c) => GivenTo(adding.request, new[i])
      BY <3>1, <3>6, <3>7, <3>10 DEF d
    <3>12. AddingBelow(new, adding') /\ Honoured(new, granted')
      BY <1>1, <2>2, <2>5, <3>8, <3>9, <3>11, AdvanceBelow
    <3>13. Members(data') = 1 .. Len(new)
      <4>1. PICK longer : longer = data'
        OBVIOUS
      <4>2. /\ Len(data) \in Nat /\ Len(longer) = Len(data) + 1 /\ longer[Len(data) + 1] = n + 1
            /\ \A l \in 1 .. Len(data) : longer[l] = data[l]
        BY <1>1, <3>1, <4>1
      <4>3. Members(longer) = Members(data) \cup {n + 1}
        BY <4>2 DEF Members
      <4> QED
        BY <2>1, <3>5, <4>1, <4>3
    <3> QED
      BY <3>2, <3>4, <3>12, <3>13 DEF TreeInv
  <2>13. ASSUME NEW outcome \in {"ok", "early", "insert", "nolist", "neither", "late"},
                VisitMissing(j, outcome)
         PROVE  outcome = "ok"
    <3>1. failures' = failures + (IF outcome = "ok" THEN 0 ELSE 1)
      BY <2>13 DEF VisitMissing
    <3> QED
      BY <1>4, <3>1
  <2> QED
    BY <1>2, <1>4, <2>11, <2>12, <2>13
<1>5. failures # 0 => VisitDies(j)
  <2>1. ASSUME NEW outcome \in {"ok", "early", "insert", "nolist", "neither", "late"},
               VisitMissing(j, outcome)
        PROVE  failures = 0
    <3>1. failures' = failures + (IF outcome = "ok" THEN 0 ELSE 1)
      BY <2>1 DEF VisitMissing
    <3> QED
      BY <1>1, <3>1
  <2>2. VisitExisting(j) => failures = 0
    BY DEF VisitExisting
  <2> QED
    BY <1>2, <2>1, <2>2
<1> QED
  BY <1>3, <1>4, <1>5

(* A call begins at the root, for a place that has no inode.               *)
LEMMA BeginKeepsTree ==
  ASSUME CanonicalRequests, IInv, TreeInv, NEW r \in Requests, BeginAdd(r), failures = 0
  PROVE  TreeInv'
<1> DEFINE p == r.virtual_path
<1>1. /\ adding' = [request |-> r, next |-> 1, previous |-> NULL]
      /\ inodes' = inodes /\ data' = data /\ granted' = granted
      /\ is_absolute_path(p) /\ Find(p) = NULL
  BY NullIsNoError DEF BeginAdd, AddRefusal, Errors
<1>2. Members(data) = 1 .. Len(inodes) /\ Tree(inodes) /\ Honoured(inodes, granted)
  BY DEF TreeInv
<1>3. PICK c \in Seq(Names) : Asks(p, c)
  BY <1>1 DEF CanonicalRequests
<1>4. DropOneSlash(p) = Place(c)
  BY <1>3, AsksIs
<1>5. ~Standing(inodes, c)
  BY <1>1, <1>2, <1>4, FoundAt DEF Tree
<1>6. PICK call : call = adding'
  OBVIOUS
<1>7. call.request = r /\ call.next = 1 /\ call.previous = NULL
  BY <1>1, <1>6
<1>8. Reached(inodes, call, c, 0) /\ 0 \in 0 .. Len(c)
  BY <1>7 DEF Reached
<1>9. AddingBelow(inodes, call)
  BY <1>3, <1>5, <1>7, <1>8 DEF AddingBelow
<1> QED
  BY <1>1, <1>2, <1>6, <1>9 DEF TreeInv

(* Sorting leaves the same inodes in the table.                            *)
LEMMA SortingKeepsMembers ==
  ASSUME NEW nodes, NEW table, Len(table) \in Nat, NEW t \in SortedTables(nodes, table)
  PROVE  Members(t) = Members(table)
<1> DEFINE N == 1 .. Len(table)
<1>1. PICK f \in Shuffles(Len(table)) : t = [i \in N |-> table[f[i]]]
  BY DEF SortedTables
<1>2. f \in Injection(N, N)
  BY DEF Shuffles, Injection, IsInjective
<1>3. f \in Surjection(N, N)
  BY <1>2, FS_Interval, FS_Injection
<1>4. Len(t) = Len(table) /\ \A i \in N : f[i] \in N /\ t[i] = table[f[i]]
  BY <1>1, <1>2 DEF Injection
<1>5. \A k \in N : \E i \in N : f[i] = k
  BY <1>3 DEF Surjection
<1>6. ASSUME NEW m \in Members(t) PROVE m \in Members(table)
  <2>1. PICK i \in N : m = t[i]
    BY <1>4, <1>6 DEF Members
  <2> QED
    BY <1>4, <2>1 DEF Members
<1>7. ASSUME NEW m \in Members(table) PROVE m \in Members(t)
  <2>1. PICK k \in N : m = table[k]
    BY <1>7 DEF Members
  <2>2. PICK i \in N : f[i] = k
    BY <1>5, <2>1
  <2>3. m = t[i]
    BY <1>4, <2>1, <2>2
  <2> QED
    BY <1>4, <2>2, <2>3 DEF Members
<1> QED
  BY <1>6, <1>7

(* Every step keeps the tree.                                              *)
LEMMA TreeStep ==
  ASSUME CanonicalRequests, IInv, TreeInv, [Next]_vars PROVE TreeInv'
<1> SUFFICES ASSUME failures' = 0 PROVE TreeInv'
  BY DEF TreeInv
<1>1. ASSUME NEW r \in Requests, BeginAdd(r) PROVE TreeInv'
  <2>1. failures = 0
    BY <1>1 DEF BeginAdd
  <2> QED
    BY <1>1, <2>1, BeginKeepsTree
<1>2. ASSUME NEW r \in Requests, RefuseAdd(r) PROVE TreeInv'
  BY <1>2 DEF RefuseAdd, TreeInv
<1>3. CASE AddVisit
  BY <1>3, VisitKeepsTree
<1>4. CASE Freeze
  <2>1. /\ inodes' = inodes /\ adding' = adding /\ granted' = granted /\ failures' = failures
        /\ data' \in SortedTables(inodes, data)
    BY <1>4 DEF Freeze
  <2>2. Len(data) \in Nat
    BY DEF IInv, TypeOK
  <2>3. Members(data') = Members(data)
    BY <2>1, <2>2, SortingKeepsMembers
  <2> QED
    BY <2>1, <2>3 DEF TreeInv
<1>5. ASSUME NEW p \in LookupPaths, DoLookup(p) \/ RefuseLookup(p) PROVE TreeInv'
  BY <1>5 DEF DoLookup, RefuseLookup, TreeInv
<1>6. CASE UNCHANGED vars
  BY <1>6 DEF vars, TreeInv
<1> QED
  BY <1>1, <1>2, <1>3, <1>4, <1>5, <1>6 DEF Next

(* The empty table is a tree.                                              *)
LEMMA TreeInit == Init => TreeInv
<1> SUFFICES ASSUME Init PROVE TreeInv
  OBVIOUS
<1>1. inodes = <<>> /\ data = <<>> /\ Len(inodes) = 0 /\ Len(data) = 0
      /\ adding = NULL /\ granted = {}
  BY DEF Init
<1>2. Members(data) = {} /\ 1 .. Len(inodes) = {}
  BY <1>1 DEF Members
<1> QED
  BY <1>1, <1>2 DEF TreeInv, Tree, Placed, AddingBelow, Honoured

(* What the tree means for the lookup of a place.                          *)
LEMMA AtIs ==
  ASSUME Members(data) = 1 .. Len(inodes), Placed(inodes), NEW c \in Seq(Names)
  PROVE  /\ \A i \in 1 .. Len(inodes) : PlaceAt(inodes, i) = c => At(inodes, data, c) = {i}
         /\ ~Standing(inodes, c) => At(inodes, data, c) = {}
<1>1. At(inodes, data, c) = {i \in 1 .. Len(inodes) : inodes[i].virtual_path = Place(c)}
  BY DEF At, Members
<1>2. \A i \in 1 .. Len(inodes) : inodes[i].virtual_path = Place(c) <=> PlaceAt(inodes, i) = c
  BY RenderIs DEF Placed, PlaceAt
<1>3. At(inodes, data, c) = {i \in 1 .. Len(inodes) : PlaceAt(inodes, i) = c}
  BY <1>1, <1>2
<1> QED
  BY <1>3 DEF Placed, Standing

(* Without failed allocations the parent pointers and the listings are the *)
(* tree of the table's paths: every inode has the inode of its directory   *)
(* as parent, and a listing has each child once and nothing else, at any   *)
(* time, also between two callbacks of a call.                             *)
THEOREM ListingsStayTheTree ==
  ASSUME SparseRequests, CanonicalRequests PROVE Spec => []ListingsAreTheTree
<1>1. Init => IInv /\ TreeInv
  BY IInvInit, TreeInit
<1>2. IInv /\ TreeInv /\ [Next]_vars => IInv' /\ TreeInv'
  BY IInvStep, TreeStep
<1>3. IInv /\ TreeInv => ListingsAreTheTree
  <2> SUFFICES ASSUME IInv, TreeInv, failures = 0, NEW k \in Ids
               PROVE  LET inode == inodes[data[k]]
                          c == Components(inode.virtual_path)
                          list == inode.virtual_subdirs.strings
                      IN  /\ inode.virtual_path = Place(c)
                          /\ IF c = <<>> THEN inode.parent = NULL
                             ELSE /\ inode.parent # NULL
                                  /\ At(inodes, data, Front(c)) = {inode.parent}
                          /\ \A x \in Names :
                               Cardinality({n \in 1 .. Len(list) : list[n] = x})
                                 = Cardinality(At(inodes, data, Append(c, x)))
    BY DEF ListingsAreTheTree
  <2> DEFINE i == data[k]
             inode == inodes[i]
             c == Components(inode.virtual_path)
             list == inode.virtual_subdirs.strings
  <2>1. /\ Members(data) = 1 .. Len(inodes) /\ Placed(inodes) /\ Tree(inodes)
        /\ i \in 1 .. Len(inodes) /\ Len(inodes) \in Nat
    BY DEF TreeInv, Tree, IInv, TypeOK, Ids
  <2> HIDE DEF i
  <2>2. PlaceAt(inodes, i) \in Seq(Names) /\ inode.virtual_path = Place(PlaceAt(inodes, i))
    BY <2>1 DEF Placed
  <2>3. c = PlaceAt(inodes, i)
    BY <2>2, ComponentsOfPlace
  <2>4. ParentIs(inodes, inode.parent, c) /\ ListsChildren(inodes, i)
    BY <2>1, <2>3 DEF Tree
  <2> HIDE DEF c
  <2>5. IF c = <<>> THEN inode.parent = NULL
        ELSE inode.parent # NULL /\ At(inodes, data, Front(c)) = {inode.parent}
    <3>1. CASE c = <<>>
      BY <2>4, <3>1 DEF ParentIs
    <3>2. CASE c # <<>>
      <4>1. /\ inode.parent \in 1 .. Len(inodes)
            /\ PlaceAt(inodes, inode.parent) = Front(c)
        BY <2>4, <3>2 DEF ParentIs
      <4>2. Front(c) \in Seq(Names)
        BY <2>2, <2>3, <3>2, FrontAndLast
      <4>3. At(inodes, data, Front(c)) = {inode.parent}
        BY <2>1, <4>1, <4>2, AtIs
      <4>4. inode.parent # NULL
        BY <2>1, <4>1, NullAssumption
      <4> QED
        BY <3>2, <4>3, <4>4
    <3> QED
      BY <3>1, <3>2
  <2>6. ASSUME NEW x \in Names
        PROVE  Cardinality({n \in 1 .. Len(list) : list[n] = x})
                 = Cardinality(At(inodes, data, Append(c, x)))
    <3>1. Append(c, x) \in Seq(Names)
      BY <2>2, <2>3
    <3>2. CountOf(list, x) = IF Standing(inodes, Append(c, x)) THEN 1 ELSE 0
      BY <2>3, <2>4 DEF ListsChildren
    <3>3. CASE Standing(inodes, Append(c, x))
      <4>1. PICK m \in 1 .. Len(inodes) : PlaceAt(inodes, m) = Append(c, x)
        BY <3>3 DEF Standing
      <4>2. At(inodes, data, Append(c, x)) = {m}
        BY <2>1, <3>1, <4>1, AtIs
      <4>3. Cardinality({m}) = 1
        BY FS_Singleton
      <4> QED
        BY <3>2, <3>3, <4>2, <4>3 DEF CountOf
    <3>4. CASE ~Standing(inodes, Append(c, x))
      <4>1. At(inodes, data, Append(c, x)) = {}
        BY <2>1, <3>1, <3>4, AtIs
      <4>2. Cardinality({}) = 0
        BY FS_EmptySet
      <4> QED
        BY <3>2, <3>4, <4>1, <4>2 DEF CountOf
    <3> QED
      BY <3>3, <3>4
  <2> QED
    BY <2>2, <2>3, <2>5, <2>6 DEF c, i
<1> QED
  BY <1>1, <1>2, <1>3, PTL DEF Spec

(* A path that asks for a place is sanitized to the place.                 *)
LEMMA AskedIsSanitized ==
  ASSUME NEW c \in Seq(Names), NEW p, Asks(p, c)
  PROVE  sanitize_absolute_path(p) = Render(c)
<1>1. p \in Seq(Tokens) /\ Len(p) > 0 /\ p[1] = Slash
  <2>1. /\ p \in Seq(Tokens)
        /\ Len(p) = 2 * Len(c) + 1 \/ (Len(p) = 2 * Len(c) /\ Len(c) > 0)
        /\ \A i \in 1 .. Len(c) : p[2 * i - 1] = Slash
        /\ Len(p) = 2 * Len(c) + 1 => p[2 * Len(c) + 1] = Slash
    BY AsksIs
  <2>2. CASE Len(c) = 0
    BY <2>1, <2>2
  <2>3. CASE Len(c) # 0
    <3>1. 1 \in 1 .. Len(c) /\ 2 * 1 - 1 = 1 /\ Len(c) \in Nat
      BY <2>3
    <3> QED
      BY <2>1, <3>1
  <2> QED
    BY <2>2, <2>3
<1>2. FoldLeft(Follow, <<>>, p) = c
  <2>1. CASE p = Place(c) \o <<Slash>>
    <3> DEFINE q == Place(c) \o <<Slash>>
               e == <<>>
    <3>0. e \in Seq(Tokens) /\ Len(e) = 0
      OBVIOUS
    <3>1. q \o e = q
      BY <1>1, <2>1
    <3> HIDE DEF e
    <3>2. FoldLeft(Follow, <<>>, q \o e) = FoldLeft(Follow, c, e)
      BY <3>0, WalkFromPlace
    <3>3. FoldLeft(Follow, c, e) = c
      <4>1. PICK run \in [0 .. Len(e) -> Seq(Names)] :
              run[0] = c /\ FoldLeft(Follow, c, e) = run[Len(e)]
        BY <3>0, FollowRun
      <4> QED
        BY <3>0, <4>1
    <3> QED
      BY <2>1, <3>1, <3>2, <3>3
  <2>2. CASE p = Place(c) /\ c # <<>>
    <3> DEFINE f == Front(c)
               t == Last(c)
               q == Place(f) \o <<Slash>>
    <3>1. f \in Seq(Names) /\ t \in Names /\ c = Append(f, t) /\ t \in Tokens
      BY <2>2, FrontAndLast, NamesApart
    <3> HIDE DEF f, t
    <3>2. Place(c) = Place(f) \o <<Slash, t>>
      BY <3>1, PlaceGrows
    <3>3. q \o <<t>> = Place(f) \o <<Slash, t>>
      <4> DEFINE g == Place(f)
                 s == <<Slash>>
                 u == <<t>>
      <4>1. g \in Seq(Tokens) /\ s \in Seq(Tokens) /\ u \in Seq(Tokens)
        BY <3>1, PlaceIs DEF Tokens
      <4>2. s \o u = <<Slash, t>>
        <5>1. Slash \in Tokens /\ Append(<<Slash>>, t) = <<Slash, t>>
          BY <3>1, TwoMore DEF Tokens
        <5>2. Append(s, t) = s \o u
          BY <3>1, <4>1, <5>1, AppendIsConcat, Zenon
        <5> QED
          BY <5>1, <5>2
      <4> HIDE DEF g, s, u
      <4>3. (g \o s) \o u = g \o (s \o u)
        BY <4>1
      <4> QED
        BY <4>2, <4>3 DEF g, s, u
    <3>4. <<t>> \in Seq(Tokens)
      BY <3>1
    <3>5. FoldLeft(Follow, <<>>, q \o <<t>>) = FoldLeft(Follow, f, <<t>>)
      BY <3>1, <3>4, WalkFromPlace
    <3>6. FoldLeft(Follow, f, <<t>>) = Follow(f, t)
      <4> DEFINE u == <<t>>
      <4>1. u \in Seq(Tokens) /\ Len(u) = 1 /\ u[1] = t
        BY <3>4
      <4> HIDE DEF u
      <4>2. PICK run \in [0 .. Len(u) -> Seq(Names)] :
              /\ run[0] = f
              /\ \A k \in 1 .. Len(u) : run[k] = Follow(run[k - 1], u[k])
              /\ FoldLeft(Follow, f, u) = run[Len(u)]
        BY <3>1, <4>1, FollowRun
      <4>3. run[1] = Follow(run[1 - 1], u[1]) /\ 1 - 1 = 0
        BY <4>1, <4>2
      <4> QED
        BY <4>1, <4>2, <4>3 DEF u
    <3>7. Follow(f, t) = c
      BY <3>1, NamesApart DEF Follow
    <3> QED
      BY <2>2, <3>2, <3>3, <3>5, <3>6, <3>7
  <2>3. p = Place(c) \o <<Slash>> \/ (p = Place(c) /\ c # <<>>)
    <3>1. CASE c = <<>>
      <4>1. Place(c) = <<>> /\ Render(c) = <<Slash>>
        <5>1. Place(c) \in Seq(Tokens) /\ Len(Place(c)) = 0
          <6>1. Len(c) = 0
            BY <3>1
          <6>2. Place(c) \in Seq(Tokens) /\ Len(Place(c)) = 2 * Len(c)
            BY PlaceIs
          <6> QED
            BY <6>1, <6>2
        <5> QED
          BY <3>1, <5>1 DEF Render
      <4> QED
        BY <4>1 DEF Asks
    <3>2. CASE c # <<>>
      BY <3>2 DEF Asks, Render
    <3> QED
      BY <3>1, <3>2
  <2> QED
    BY <2>1, <2>2, <2>3
<1>3. FoldLeft(SanitizeToken, <<Slash>>, p) = Render(c)
  BY <1>1, <1>2, SanitizeRun
<1> QED
  BY <1>1, <1>3 DEF sanitize_absolute_path, is_absolute_path

(* Every request that vfs_add_inode has answered true is honoured from     *)
(* then on: its path, sanitized and looked up, leads to an inode with its  *)
(* target and its flags, whatever is added later and however often the     *)
(* table is sorted.                                                        *)
THEOREM GrantsAreHonoured ==
  ASSUME SparseRequests, CanonicalRequests PROVE Spec => []GrantedIsHonoured
<1>1. Init => IInv /\ TreeInv
  BY IInvInit, TreeInit
<1>2. IInv /\ TreeInv /\ [Next]_vars => IInv' /\ TreeInv'
  BY IInvStep, TreeStep
<1>3. IInv /\ TreeInv => GrantedIsHonoured
  <2> SUFFICES ASSUME IInv, TreeInv, failures = 0, NEW r \in granted
               PROVE  LET i == Lookup(sanitize_absolute_path(r.virtual_path)).inode
                      IN  i # NULL /\ GivenTo(r, inodes[i])
    BY DEF GrantedIsHonoured, GivenTo
  <2>1. /\ Members(data) = 1 .. Len(inodes) /\ Placed(inodes) /\ Honoured(inodes, granted)
        /\ Len(inodes) \in Nat
    BY DEF TreeInv, Tree, IInv, TypeOK
  <2>2. PICK c \in Seq(Names) :
          /\ Asks(r.virtual_path, c)
          /\ \E i \in 1 .. Len(inodes) : PlaceAt(inodes, i) = c /\ GivenTo(r, inodes[i])
    BY <2>1 DEF Honoured
  <2>3. PICK i \in 1 .. Len(inodes) : PlaceAt(inodes, i) = c /\ GivenTo(r, inodes[i])
    BY <2>2
  <2>4. sanitize_absolute_path(r.virtual_path) = Render(c)
    BY <2>2, AskedIsSanitized
  <2>5. At(inodes, data, c) = {i}
    BY <2>1, <2>3, AtIs
  <2>6. Only(vfs_lookup(inodes, data, Render(c)).inode) = At(inodes, data, c)
    BY TableIsPlain, LookupIs
  <2>7. Lookup(Render(c)).inode = i
    BY <2>5, <2>6 DEF Only, Lookup
  <2>8. i # NULL
    BY <2>1, NullAssumption
  <2> QED
    BY <2>3, <2>4, <2>7, <2>8
<1> QED
  BY <1>1, <1>2, <1>3, PTL DEF Spec
=============================================================================
