--------------------------- MODULE StringListProofs ---------------------------
(***************************************************************************)
(* Proofs about the string list, for any names and any number of them, and *)
(* about the path functions, for any paths typed into any session.         *)
(***************************************************************************)
EXTENDS StringList, PathRequests, DataProofs

-----------------------------------------------------------------------------
Inv == TypeOK /\ SortedFlagHonest

(* A new list is empty, and an empty list is in order.                     *)
LEMMA InvInit == Init => Inv
<1> SUFFICES ASSUME Init PROVE Inv
  OBVIOUS
<1>1. list.strings = <<>> /\ list \in Lists
  <2>1. list = [strings |-> <<>>, sorted |-> TRUE]
    BY DEF Init, stringlist_new
  <2>2. <<>> \in Seq(Names)
    OBVIOUS
  <2> QED
    BY <2>1, <2>2 DEF Lists
<1>2. InOrder(<<>>)
  BY DEF InOrder
<1> QED
  BY <1>1, <1>2 DEF Init, Inv, TypeOK, SortedFlagHonest

(* Every call keeps the type and the honesty of the flag, which is         *)
(* inductive as it stands.                                                 *)
LEMMA InvStep == Inv /\ [Next]_vars => Inv'
<1> SUFFICES ASSUME Inv, [Next]_vars PROVE Inv'
  OBVIOUS
<1> USE DEF Inv
<1>1. list \in Lists /\ (list.sorted => InOrder(list.strings))
  BY DEF TypeOK, SortedFlagHonest
<1>2. ASSUME NEW x \in Names, Insert(x) PROVE Inv'
  <2>1. list.strings \in Seq(Names)
    BY <1>1 DEF Lists
  <2>2. Append(list.strings, x) \in Seq(Names)
    BY <2>1
  <2>3. list' \in Lists /\ ~list'.sorted
    BY <1>2, <2>2 DEF Insert, stringlist_insert, Lists
  <2>4. reply' = [op |-> "insert", arg |-> x, answer |-> TRUE]
    BY <1>2 DEF Insert, Reply
  <2> QED
    BY <2>3, <2>4 DEF TypeOK, SortedFlagHonest
<1>3. ASSUME NEW x \in Names, InsertFails(x) PROVE Inv'
  BY <1>3 DEF InsertFails, Reply, TypeOK, SortedFlagHonest
<1>4. ASSUME NEW x \in Names, Search(x) PROVE Inv'
  <2>1. PICK o \in stringlist_contains(list, x) :
          list' = o.list /\ reply' = Reply("contains", x, o.found)
    BY <1>4 DEF Search
  <2>2. /\ o.list \in Lists
        /\ o.list.sorted => InOrder(o.list.strings)
        /\ o.found \in BOOLEAN
    BY <1>1, ContainsIsHonest
  <2> QED
    BY <2>1, <2>2 DEF Reply, TypeOK, SortedFlagHonest
<1>5. ASSUME Sort PROVE Inv'
  <2>1. list' \in Lists /\ (list'.sorted => InOrder(list'.strings))
    BY <1>1, <1>5, SortIsHonest DEF Sort
  <2> QED
    BY <1>5, <2>1 DEF Sort, TypeOK, SortedFlagHonest
<1>6. CASE UNCHANGED vars
  BY <1>6 DEF vars, TypeOK, SortedFlagHonest
<1> QED
  BY <1>2, <1>3, <1>4, <1>5, <1>6 DEF Next

(* The type invariant and the flag's honesty, of every list the calls of   *)
(* stringlist.c can build.                                                 *)
THEOREM Invariance == Spec => []Inv
<1>1. Init => Inv
  BY InvInit
<1>2. Inv /\ [Next]_vars => Inv'
  BY InvStep
<1> QED
  BY <1>1, <1>2, PTL DEF Spec

(* The sorted flag never claims order of an unordered array: whenever      *)
(* stringlist_contains skips the sort, bsearch may be relied on.           *)
THEOREM FlagIsHonest == Spec => []SortedFlagHonest
<1>1. Inv => SortedFlagHonest
  BY DEF Inv
<1> QED
  BY <1>1, Invariance, PTL

-----------------------------------------------------------------------------
(***************************************************************************)
(* The list implements the bag NameBag.                                    *)
(***************************************************************************)
(* Appending a name counts it once more and leaves the other counts.       *)
LEMMA AppendCounts ==
  ASSUME NEW s \in Seq(Names), NEW x \in Names, NEW y \in Names
  PROVE  CountOf(Append(s, x), y) = CountOf(s, y) + (IF y = x THEN 1 ELSE 0)
<1>1. Append(s, x) \in Seq(Names) /\ Len(Append(s, x)) = Len(s) + 1
  OBVIOUS
<1>2. Len(s) + 1 \notin Places(s, y)
  BY DEF Places
<1>3. Places(Append(s, x), y)
        = IF y = x THEN Places(s, y) \cup {Len(s) + 1} ELSE Places(s, y)
  BY <1>1 DEF Places
<1>4. IsFiniteSet(Places(s, y)) /\ Cardinality(Places(s, y)) \in Nat
  BY PlacesFinite
<1>5. Cardinality(Places(s, y) \cup {Len(s) + 1}) = Cardinality(Places(s, y)) + 1
  BY <1>2, <1>4, FS_AddElement
<1>6. /\ CountOf(s, y) = Cardinality(Places(s, y))
      /\ CountOf(Append(s, x), y) = Cardinality(Places(Append(s, x), y))
  BY <1>1, PlacesFinite
<1>7. CASE y = x
  BY <1>3, <1>5, <1>6, <1>7
<1>8. CASE y # x
  BY <1>3, <1>4, <1>6, <1>8
<1> QED
  BY <1>7, <1>8

-----------------------------------------------------------------------------
(* A new list is an empty bag.                                             *)
LEMMA BagInit == Init => Bag!Init
<1> SUFFICES ASSUME Init PROVE Bag!Init
  OBVIOUS
<1>1. list.strings = <<>>
  <2>1. list = [strings |-> <<>>, sorted |-> TRUE]
    BY DEF Init, stringlist_new
  <2> QED
    BY <2>1
<1>2. ASSUME NEW x \in Names PROVE CountOf(<<>>, x) = 0
  <2>1. Places(<<>>, x) = {}
    BY DEF Places
  <2>2. CountOf(<<>>, x) = Cardinality(Places(<<>>, x))
    BY DEF CountOf, Places
  <2> QED
    BY <2>1, <2>2, FS_EmptySet
<1> QED
  BY <1>1, <1>2 DEF Init, Bag!Init

(* Inserting and searching are steps of the bag, sorting is none.          *)
LEMMA BagStep == Inv /\ [Next]_vars => [Bag!Next]_(Bag!vars)
<1> SUFFICES ASSUME Inv, [Next]_vars PROVE [Bag!Next]_(Bag!vars)
  OBVIOUS
<1> DEFINE B == [y \in Names |-> CountOf(list.strings, y)]
<1>1. /\ list \in Lists
      /\ list.sorted => InOrder(list.strings)
      /\ list.strings \in Seq(Names)
  BY DEF Inv, TypeOK, SortedFlagHonest, Lists
<1>2. ASSUME NEW x \in Names, Insert(x) PROVE Bag!Insert(x)
  <2>1. list'.strings = Append(list.strings, x)
    BY <1>2 DEF Insert, stringlist_insert
  <2>2. \A y \in Names : CountOf(list'.strings, y)
                           = CountOf(list.strings, y) + (IF y = x THEN 1 ELSE 0)
    BY <1>1, <2>1, AppendCounts
  <2>3. \A y \in Names : CountOf(list.strings, y) \in Nat
    BY <1>1, PlacesFinite
  <2>4. B' = [B EXCEPT ![x] = @ + 1]
    <3>1. \A y \in Names : B[y] = CountOf(list.strings, y)
      OBVIOUS
    <3>2. \A y \in Names : B'[y] = B[y] + (IF y = x THEN 1 ELSE 0)
      BY <2>2, <3>1
    <3>3. \A y \in Names : B'[y] = IF y = x THEN B[x] + 1 ELSE B[y]
      BY <2>3, <3>1, <3>2
    <3>4. B' = [y \in Names |-> IF y = x THEN B[x] + 1 ELSE B[y]]
      BY <3>3
    <3> QED
      BY <3>4
  <2>5. reply' = [op |-> "insert", arg |-> x, answer |-> TRUE]
    BY <1>2 DEF Insert, Reply
  <2> QED
    BY <2>4, <2>5 DEF Bag!Insert, Bag!Reply
<1>3. ASSUME NEW x \in Names, InsertFails(x) PROVE Bag!Refuse(x)
  BY <1>3 DEF InsertFails, Reply, Bag!Refuse, Bag!Reply
<1>4. ASSUME NEW x \in Names, Search(x) PROVE Bag!Ask(x)
  <2>1. PICK o \in stringlist_contains(list, x) :
          list' = o.list /\ reply' = Reply("contains", x, o.found)
    BY <1>4 DEF Search
  <2>2. /\ \A y : CountOf(o.list.strings, y) = CountOf(list.strings, y)
        /\ o.found = (CountOf(list.strings, x) > 0)
    BY <1>1, ContainsCounts
  <2>3. B' = B
    BY <2>1, <2>2
  <2>4. reply' = [op |-> "contains", arg |-> x, answer |-> CountOf(list.strings, x) > 0]
    BY <2>1, <2>2 DEF Reply
  <2> QED
    BY <2>3, <2>4 DEF Bag!Ask, Bag!Reply
<1>5. ASSUME Sort PROVE UNCHANGED Bag!vars
  <2>1. \A y : CountOf(list'.strings, y) = CountOf(list.strings, y)
    BY <1>1, <1>5, SortCounts DEF Sort
  <2>2. B' = B
    BY <2>1
  <2> QED
    BY <1>5, <2>2 DEF Sort, Bag!vars
<1>6. CASE UNCHANGED vars
  BY <1>6 DEF vars, Bag!vars
<1> QED
  BY <1>2, <1>3, <1>4, <1>5, <1>6 DEF Next, Bag!Next

(* However inserts, sorts, lazily sorting searches and failed allocations  *)
(* are mixed, the list is a bag of names that only grows, and every answer *)
(* of stringlist_contains is the bag's.                                    *)
THEOREM ImplementsTheBag == Spec => ImplementsBag
<1>1. Init => Bag!Init
  BY BagInit
<1>2. Inv /\ [Next]_vars => [Bag!Next]_(Bag!vars)
  BY BagStep
<1> QED
  BY <1>1, <1>2, Invariance, PTL DEF Spec, ImplementsBag, Bag!Spec

-----------------------------------------------------------------------------
(***************************************************************************)
(* The path functions, in any session that PathRequests describes.         *)
(***************************************************************************)

(* The working directory is a place's path, and what was typed a path.     *)
TypingOK ==
  /\ PlaceOf(cwd) \in Seq(Names) /\ cwd = Place(PlaceOf(cwd))
  /\ request \in Seq(Tokens)

(* The root's stored path is empty.                                        *)
LEMMA RootIs ==
  /\ <<>> \in Seq(Names) /\ Place(<<>>) = <<>> /\ PlaceOf(<<>>) = <<>>
  /\ Render(<<>>) = <<Slash>> /\ <<>> \in Seq(Tokens) /\ <<Slash>> \in Seq(Tokens)
<1>1. <<>> \in Seq(Names) /\ <<>> \in Seq(Tokens) /\ <<Slash>> \in Seq(Tokens)
  BY DEF Tokens
<1>2. Place(<<>>) \in Seq(Tokens) /\ Len(Place(<<>>)) = 2 * Len(<<>>)
  BY <1>1, PlaceIs, Zenon
<1>3. Place(<<>>) = <<>>
  BY <1>2
<1>4. PlaceOf(Place(<<>>)) = <<>>
  BY <1>1, RenderIs, Zenon
<1> QED
  BY <1>1, <1>3, <1>4 DEF Render

(* The first working directory is the root, and nothing was typed.         *)
LEMMA TypingStarts == TypingInit => TypingOK
<1> SUFFICES ASSUME TypingInit PROVE TypingOK
  OBVIOUS
<1>1. cwd = truncate_trailing_slash(<<Slash>>) /\ request = <<>>
  BY DEF TypingInit
<1>2. truncate_trailing_slash(Render(<<>>)) = Place(<<>>)
  BY RootIs, RenderIs, Zenon
<1>3. cwd = <<>>
  BY <1>1, <1>2, RootIs
<1> QED
  BY <1>1, <1>3, RootIs DEF TypingOK

(* Where a typed path leads.                                               *)
LEMMA TypedLeads ==
  ASSUME TypingOK
  PROVE  LET c == Walk(PlaceOf(cwd), request)
         IN  /\ c \in Seq(Names) /\ Destination = c
             /\ Sanitized = Render(c)
<1>1. Destination = Walk(PlaceOf(cwd), request)
  BY DEF Destination
<1>2. Sanitized = sanitize_path(Place(PlaceOf(cwd)), request)
  BY DEF Sanitized, TypingOK
<1> QED
  BY <1>1, <1>2, SanitizeWalks DEF TypingOK

(* Typing goes on, or the place becomes the working directory.             *)
LEMMA TypingStep == TypingOK /\ [TypingNext]_typing_vars => TypingOK'
<1> SUFFICES ASSUME TypingOK, [TypingNext]_typing_vars PROVE TypingOK'
  OBVIOUS
<1>1. CASE Chdir
  <2> DEFINE c == Walk(PlaceOf(cwd), request)
  <2>1. c \in Seq(Names) /\ Sanitized = Render(c)
    BY TypedLeads
  <2>2. cwd' = truncate_trailing_slash(Render(c)) /\ request' = <<>>
    BY <1>1, <2>1 DEF Chdir
  <2> HIDE DEF c
  <2>3. cwd' = Place(c) /\ PlaceOf(cwd') = c
    BY <2>1, <2>2, RenderIs
  <2>4. PlaceOf(cwd') \in Seq(Names) /\ cwd' = Place(PlaceOf(cwd')) /\ request' \in Seq(Tokens)
    BY <2>1, <2>2, <2>3, RootIs
  <2> QED
    BY <2>4 DEF TypingOK
<1>2. CASE ChdirRefused
  <2>1. cwd' = cwd /\ request' = <<>>
    BY <1>2 DEF ChdirRefused
  <2>2. request' \in Seq(Tokens)
    BY <2>1, RootIs
  <2> QED
    BY <2>1, <2>2 DEF TypingOK
<1>3. CASE UNCHANGED typing_vars
  BY <1>3 DEF typing_vars, TypingOK
<1>4. ASSUME NEW t \in Tokens, Type(t) PROVE TypingOK'
  <2>1. request' = Append(request, t) /\ cwd' = cwd
    BY <1>4 DEF Type
  <2> QED
    BY <1>4, <2>1 DEF TypingOK
<1> QED
  BY <1>1, <1>2, <1>3, <1>4 DEF TypingNext

(* What is typed and where it is typed stay paths.                         *)
LEMMA TypingInvariance == TypingSpec => []TypingOK
BY TypingStarts, TypingStep, PTL DEF TypingSpec

(* sanitize_path leads where walking the request from the working          *)
(* directory leads, never above the root, and writes that place in the     *)
(* one canonical form, for every path and every working directory.         *)
THEOREM SanitizingIsWalking == TypingSpec => []SanitizeIsWalk
<1>1. TypingOK => SanitizeIsWalk
  BY TypedLeads DEF SanitizeIsWalk
<1> QED
  BY <1>1, TypingInvariance, PTL

(* path_split visits every ancestor of a sanitized path once, the root     *)
(* first and the path itself last, flagged as the full path.               *)
THEOREM SplittingVisitsAncestors == TypingSpec => []SplitVisitsAncestors
<1>1. ASSUME TypingOK PROVE SplitVisitsAncestors
  <2> DEFINE c == Walk(PlaceOf(cwd), request)
  <2>1. c \in Seq(Names) /\ Destination = c /\ Sanitized = Render(c)
    BY <1>1, TypedLeads
  <2> HIDE DEF c
  <2>2. path_split(Sanitized)
          = [k \in 1 .. Len(c) + 1 |-> [path |-> Render(SubSeq(c, 1, k - 1)),
                                        is_full_path |-> k = Len(c) + 1]]
    BY <2>1, SplitIs
  <2> QED
    BY <2>1, <2>2 DEF SplitVisitsAncestors
<1> QED
  BY <1>1, TypingInvariance, PTL

(* A sanitized path is hidden exactly if some directory on the way to it   *)
(* has a dot name.                                                         *)
THEOREM HiddenPathsHaveHiddenNames == TypingSpec => []HiddenIsAComponent
<1>1. ASSUME TypingOK PROVE HiddenIsAComponent
  BY <1>1, TypedLeads, HiddenIs DEF HiddenIsAComponent
<1> QED
  BY <1>1, TypingInvariance, PTL

(* A slash more at the front leads nowhere else.                           *)
LEMMA SlashMore ==
  ASSUME NEW p \in Seq(Tokens), ~is_absolute_path(p)
  PROVE  sanitize_path(<<>>, p) = sanitize_path(<<Slash>>, p)
<1> DEFINE one == <<>> \o <<Slash>> \o p
           two == <<Slash>> \o <<Slash>> \o p
           Ends(q) == FoldLeft(Follow, <<>>, q)
<1>0. ASSUME NEW q \in Seq(Tokens), NEW r, r = <<>> \o <<Slash>> \o q
      PROVE  r \in Seq(Tokens) /\ is_absolute_path(r) /\ Ends(r) = Ends(q)
  <2>1. <<>> \in Seq(Names) /\ r = Place(<<>>) \o <<Slash>> \o q
    BY <1>0, RootIs
  <2> QED
    BY <2>1, WalkFromPlace, Zenon
<1>1. one \in Seq(Tokens) /\ is_absolute_path(one) /\ Ends(one) = Ends(p)
  BY <1>0
<1>2. two = <<>> \o <<Slash>> \o one
  <2>1. one = <<Slash>> \o p /\ <<>> \o <<Slash>> = <<Slash>>
    BY RootIs
  <2>2. <<Slash>> \o (<<Slash>> \o p) = two
    BY RootIs
  <2> QED
    BY <2>1, <2>2
<1>3. /\ two \in Seq(Tokens) /\ is_absolute_path(two) /\ Ends(two) = Ends(one)
  <2> HIDE DEF one, two
  <2> QED
    BY <1>0, <1>1, <1>2
<1> HIDE DEF one, two
<1>4. sanitize_absolute_path(one) = sanitize_absolute_path(two)
  BY <1>1, <1>3, SanitizeRun DEF sanitize_absolute_path
<1> QED
  BY <1>4 DEF sanitize_path, one, two

(* Resolving a relative request against the stored working directory,      *)
(* which has lost the root's slash, gives what resolving it against the    *)
(* untruncated directory gives.                                            *)
THEOREM TruncationLosesNothing == TypingSpec => []CwdLosesNothing
<1>1. ASSUME TypingOK PROVE CwdLosesNothing
  <2> DEFINE c == PlaceOf(cwd)
  <2>1. sanitize_path(cwd, request) = sanitize_path(Render(c), request)
    <3>1. CASE c # <<>>
      BY <1>1, <3>1 DEF TypingOK, Render
    <3>2. CASE c = <<>> /\ is_absolute_path(request)
      BY <3>2 DEF sanitize_path
    <3>3. CASE c = <<>> /\ ~is_absolute_path(request)
      <4>1. cwd = <<>> /\ Render(c) = <<Slash>>
        BY <1>1, <3>3, RootIs DEF TypingOK
      <4> QED
        BY <1>1, <3>3, <4>1, SlashMore DEF TypingOK
    <3> QED
      BY <3>1, <3>2, <3>3
  <2> QED
    BY <2>1 DEF CwdLosesNothing
<1> QED
  BY <1>1, TypingInvariance, PTL
=============================================================================
