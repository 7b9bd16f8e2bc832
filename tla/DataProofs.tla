------------------------------ MODULE DataProofs ------------------------------
(***************************************************************************)
(* What the proofs about several components need to know of string lists,  *)
(* paths and lookups.                                                      *)
(***************************************************************************)
EXTENDS Directories, FoldProofs, FiniteSetTheorems, SequenceTheorems

-----------------------------------------------------------------------------
(***************************************************************************)
(* qsort, stringlist_sort and stringlist_contains.                         *)
(***************************************************************************)
(* What qsort leaves is an ordered list of names as long as the old one.   *)
LEMMA QsortOrders ==
  ASSUME NEW s \in Seq(Names), NEW t \in qsort(s)
  PROVE  t \in Seq(Names) /\ InOrder(t) /\ Len(t) = Len(s)
<1>1. PICK f \in Shuffles(Len(s)) : t = [i \in 1 .. Len(s) |-> s[f[i]]]
  BY DEF qsort
<1>2. f \in [1 .. Len(s) -> 1 .. Len(s)]
  BY DEF Shuffles
<1>3. \A i \in 1 .. Len(s) : s[f[i]] \in Names
  BY <1>2
<1>4. t \in [1 .. Len(s) -> Names]
  BY <1>1, <1>3
<1>5. t \in Seq(Names) /\ Len(t) = Len(s)
  BY <1>4, Len(s) \in Nat
<1>6. InOrder(t)
  BY DEF qsort
<1> QED
  BY <1>5, <1>6

(* Whatever stringlist_sort leaves is a list with an honest flag.          *)
LEMMA SortIsHonest ==
  ASSUME NEW l \in Lists, l.sorted => InOrder(l.strings),
         NEW m \in stringlist_sort(l)
  PROVE  m \in Lists /\ (m.sorted => InOrder(m.strings))
<1>1. l.strings \in Seq(Names)
  BY DEF Lists
<1>2. CASE l.strings = <<>>
  BY <1>2 DEF stringlist_sort
<1>3. CASE l.strings # <<>>
  <2>1. PICK s \in qsort(l.strings) : m = [strings |-> s, sorted |-> TRUE]
    BY <1>3 DEF stringlist_sort
  <2>2. s \in Seq(Names) /\ InOrder(s)
    BY <1>1, QsortOrders
  <2> QED
    BY <2>1, <2>2 DEF Lists
<1> QED
  BY <1>2, <1>3

(* The same of stringlist_contains, whose answer is a boolean.             *)
LEMMA ContainsIsHonest ==
  ASSUME NEW l \in Lists, l.sorted => InOrder(l.strings), NEW x,
         NEW o \in stringlist_contains(l, x)
  PROVE  /\ o.list \in Lists
         /\ o.list.sorted => InOrder(o.list.strings)
         /\ o.found \in BOOLEAN
<1>1. CASE l.strings = <<>>
  <2>1. o = [list |-> l, found |-> FALSE]
    BY <1>1 DEF stringlist_contains
  <2> QED
    BY <2>1
<1>2. CASE l.strings # <<>>
  <2>1. PICK m \in (IF l.sorted THEN {l} ELSE stringlist_sort(l)) :
          \E b \in bsearch(m.strings, x) : o = [list |-> m, found |-> b]
    BY <1>2 DEF stringlist_contains
  <2>2. m \in Lists /\ (m.sorted => InOrder(m.strings))
    BY <2>1, SortIsHonest
  <2>3. o.list = m /\ o.found \in BOOLEAN
    BY <2>1 DEF bsearch
  <2> QED
    BY <2>2, <2>3
<1> QED
  BY <1>1, <1>2

-----------------------------------------------------------------------------
Places(s, x) == {i \in 1 .. Len(s) : s[i] = x}

(* A list has finitely many places.                                        *)
LEMMA PlacesFinite ==
  ASSUME NEW s \in Seq(Names), NEW x
  PROVE  /\ IsFiniteSet(Places(s, x))
         /\ CountOf(s, x) = Cardinality(Places(s, x))
         /\ CountOf(s, x) \in Nat
         /\ CountOf(s, x) > 0 <=> Holds(s, x)
<1>1. IsFiniteSet(1 .. Len(s))
  BY FS_Interval
<1>2. IsFiniteSet(Places(s, x))
  BY <1>1, FS_Subset DEF Places
<1>3. CountOf(s, x) = Cardinality(Places(s, x))
  BY DEF CountOf, Places
<1>4. CountOf(s, x) \in Nat
  BY <1>2, <1>3, FS_CardinalityType
<1>5. CountOf(s, x) = 0 <=> Places(s, x) = {}
  BY <1>2, <1>3, FS_EmptySet
<1>6. Places(s, x) # {} <=> Holds(s, x)
  BY DEF Places, Holds
<1> QED
  BY <1>2, <1>3, <1>4, <1>5, <1>6

(* Sorting moves names and changes no count: an injection of the places    *)
(* into themselves meets every place.                                      *)
LEMMA QsortCounts ==
  ASSUME NEW s \in Seq(Names), NEW t \in qsort(s), NEW x
  PROVE  CountOf(t, x) = CountOf(s, x)
<1>1. PICK f \in Shuffles(Len(s)) : t = [i \in 1 .. Len(s) |-> s[f[i]]]
  BY DEF qsort
<1>2. t \in Seq(Names) /\ Len(t) = Len(s)
  BY QsortOrders
<1> DEFINE N == 1 .. Len(s)
<1>3. f \in Injection(N, N)
  BY DEF Shuffles, Injection, IsInjective
<1>4. f \in Surjection(N, N)
  BY <1>3, FS_Interval, FS_Injection
<1> DEFINE g == [i \in Places(t, x) |-> f[i]]
<1>5. \A i \in N : t[i] = s[f[i]] /\ f[i] \in N
  BY <1>1, <1>3 DEF Injection
<1>6. g \in Bijection(Places(t, x), Places(s, x))
  <2>1. g \in [Places(t, x) -> Places(s, x)]
    BY <1>2, <1>5 DEF Places
  <2>2. \A i, j \in Places(t, x) : g[i] = g[j] => i = j
    BY <1>2, <1>3 DEF Places, Injection, IsInjective
  <2>3. ASSUME NEW j \in Places(s, x) PROVE \E i \in Places(t, x) : g[i] = j
    <3>1. PICK i \in N : f[i] = j
      BY <1>4 DEF Surjection, Places
    <3>2. i \in Places(t, x)
      BY <1>2, <1>5, <3>1 DEF Places
    <3> QED
      BY <3>1, <3>2
  <2> QED
    BY <2>1, <2>2, <2>3 DEF Bijection, Injection, Surjection, IsInjective
<1>7. IsFiniteSet(Places(t, x))
  BY <1>2, PlacesFinite
<1>8. Cardinality(Places(s, x)) = Cardinality(Places(t, x))
  BY <1>6, <1>7, FS_Bijection DEF ExistsBijection
<1> QED
  BY <1>2, <1>8, PlacesFinite

(* So a sorted list holds the same names as often.                         *)
LEMMA SortCounts ==
  ASSUME NEW l \in Lists, NEW m \in stringlist_sort(l), NEW x
  PROVE  CountOf(m.strings, x) = CountOf(l.strings, x)
<1>1. CASE l.strings = <<>>
  BY <1>1 DEF stringlist_sort
<1>2. CASE l.strings # <<>>
  <2>1. PICK s \in qsort(l.strings) : m = [strings |-> s, sorted |-> TRUE]
    BY <1>2 DEF stringlist_sort
  <2>2. l.strings \in Seq(Names)
    BY DEF Lists
  <2> QED
    BY <2>1, <2>2, QsortCounts
<1> QED
  BY <1>1, <1>2

(* Equivalent truth values are equal.                                      *)
LEMMA SameTruth ==
  ASSUME NEW a \in BOOLEAN, NEW b \in BOOLEAN, a <=> b
  PROVE  a = b
OBVIOUS

(* stringlist_contains answers what the counts say and changes none.       *)
LEMMA ContainsCounts ==
  ASSUME NEW l \in Lists, l.sorted => InOrder(l.strings), NEW x \in Names,
         NEW o \in stringlist_contains(l, x)
  PROVE  /\ \A y : CountOf(o.list.strings, y) = CountOf(l.strings, y)
         /\ o.found = (CountOf(l.strings, x) > 0)
<1>1. l.strings \in Seq(Names)
  BY DEF Lists
<1>2. CASE l.strings = <<>>
  <2>1. o = [list |-> l, found |-> FALSE]
    BY <1>2 DEF stringlist_contains
  <2>2. ~Holds(l.strings, x)
    BY <1>2 DEF Holds
  <2>3. (CountOf(l.strings, x) > 0) \in BOOLEAN /\ ~(CountOf(l.strings, x) > 0)
    BY <1>1, <2>2, PlacesFinite
  <2>4. FALSE = (CountOf(l.strings, x) > 0)
    BY <2>3, SameTruth
  <2> QED
    BY <2>1, <2>4
<1>3. CASE l.strings # <<>>
  <2>1. PICK m \in (IF l.sorted THEN {l} ELSE stringlist_sort(l)) :
          \E b \in bsearch(m.strings, x) : o = [list |-> m, found |-> b]
    BY <1>3 DEF stringlist_contains
  <2>2. m \in Lists /\ InOrder(m.strings)
    <3>1. CASE l.sorted
      BY <2>1, <3>1
    <3>2. CASE ~l.sorted
      <4>1. PICK s \in qsort(l.strings) : m = [strings |-> s, sorted |-> TRUE]
        BY <1>3, <2>1, <3>2 DEF stringlist_sort
      <4>2. s \in Seq(Names) /\ InOrder(s)
        BY <1>1, QsortOrders
      <4> QED
        BY <4>1, <4>2 DEF Lists
    <3> QED
      BY <3>1, <3>2
  <2>3. \A y : CountOf(m.strings, y) = CountOf(l.strings, y)
    BY <2>1, SortCounts
  <2>4. m.strings \in Seq(Names)
    BY <2>2 DEF Lists
  <2>5. o.list = m /\ o.found \in BOOLEAN /\ (o.found <=> Holds(m.strings, x))
    BY <2>1, <2>2 DEF bsearch
  <2>6. Holds(m.strings, x) <=> CountOf(l.strings, x) > 0
    BY <2>3, <2>4, PlacesFinite
  <2>7. o.found = (CountOf(l.strings, x) > 0)
    <3>1. (CountOf(l.strings, x) > 0) \in BOOLEAN
      OBVIOUS
    <3> QED
      BY <2>5, <2>6, <3>1, SameTruth
  <2> QED
    BY <2>3, <2>5, <2>7
<1> QED
  BY <1>2, <1>3


(* The list it leaves is as long as the one it was given.                  *)
LEMMA ContainsKeepsLength ==
  ASSUME NEW l \in Lists, NEW x, NEW o \in stringlist_contains(l, x)
  PROVE  Len(o.list.strings) = Len(l.strings)
<1>1. l.strings \in Seq(Names)
  BY DEF Lists
<1>2. CASE l.strings = <<>>
  BY <1>2 DEF stringlist_contains
<1>3. CASE l.strings # <<>>
  <2>1. PICK m \in (IF l.sorted THEN {l} ELSE stringlist_sort(l)) :
          \E b \in bsearch(m.strings, x) : o = [list |-> m, found |-> b]
    BY <1>3 DEF stringlist_contains
  <2>2. CASE l.sorted
    BY <2>1, <2>2
  <2>3. CASE ~l.sorted
    <3>1. PICK s \in qsort(l.strings) : m = [strings |-> s, sorted |-> TRUE]
      BY <1>3, <2>1, <2>3 DEF stringlist_sort
    <3>2. Len(s) = Len(l.strings)
      BY <1>1, QsortOrders
    <3> QED
      BY <2>1, <3>1, <3>2
  <2> QED
    BY <2>2, <2>3
<1> QED
  BY <1>2, <1>3

-----------------------------------------------------------------------------
(* The k-th of the members of an ascending sequence.                       *)
LEMMA Counts ==
  ASSUME NEW m \in Nat, NEW f \in [1 .. m -> Nat],
         \A i, j \in 1 .. m : i < j => f[i] < f[j]
  PROVE  Cardinality({f[i] : i \in 1 .. m}) = m
<1> DEFINE S == 1 .. m
           T == {f[i] : i \in 1 .. m}
<1>1. IsFiniteSet(S) /\ Cardinality(S) = m
  BY FS_Interval
<1>2. f \in Bijection(S, T)
  <2>1. f \in [S -> T]
    OBVIOUS
  <2>2. \A i, j \in S : f[i] = f[j] => i = j
    <3> SUFFICES ASSUME NEW i \in S, NEW j \in S, f[i] = f[j], i # j PROVE FALSE
      OBVIOUS
    <3>1. i < j \/ j < i
      OBVIOUS
    <3>2. f[i] < f[j] \/ f[j] < f[i]
      BY <3>1
    <3>3. f[i] \in Nat /\ f[j] \in Nat
      OBVIOUS
    <3> QED
      BY <3>2, <3>3
  <2> QED
    BY <2>1, <2>2 DEF Bijection, Injection, Surjection, IsInjective
<1> QED
  BY <1>1, <1>2, FS_Bijection DEF ExistsBijection

(* Nth of a strictly increasing sequence's elements is the sequence: what  *)
(* path_split's cut points are, in order.                                  *)
LEMMA NthIs ==
  ASSUME NEW n \in Nat, NEW f \in [1 .. n -> Nat],
         \A i, j \in 1 .. n : i < j => f[i] < f[j],
         NEW S, S = {f[i] : i \in 1 .. n}
  PROVE  Cardinality(S) = n /\ \A k \in 1 .. n : Nth(S, k) = f[k]
<1>1. Cardinality(S) = n
  BY Counts
<1>2. ASSUME NEW l \in 1 .. n PROVE Cardinality({j \in S : j <= f[l]}) = l
  <2> DEFINE g == [i \in 1 .. l |-> f[i]]
  <2>1. l \in Nat /\ g \in [1 .. l -> Nat] /\ \A i, j \in 1 .. l : i < j => g[i] < g[j]
    OBVIOUS
  <2>2. {j \in S : j <= f[l]} = {f[i] : i \in 1 .. l}
    <3>1. ASSUME NEW i \in 1 .. n PROVE f[i] <= f[l] <=> i <= l
      <4>1. f[i] \in Nat /\ f[l] \in Nat
        OBVIOUS
      <4>2. i < l \/ i = l \/ l < i
        OBVIOUS
      <4>3. (i < l => f[i] < f[l]) /\ (l < i => f[l] < f[i])
        OBVIOUS
      <4> QED
        BY <4>1, <4>2, <4>3
    <3>2. ASSUME NEW j \in S, j <= f[l] PROVE \E i \in 1 .. l : j = f[i]
      <4>1. PICK i \in 1 .. n : j = f[i]
        OBVIOUS
      <4>2. i <= l
        BY <3>1, <3>2, <4>1
      <4> QED
        BY <4>1, <4>2
    <3>3. ASSUME NEW i \in 1 .. l PROVE f[i] \in S /\ f[i] <= f[l]
      BY <3>1
    <3> QED
      BY <3>2, <3>3
  <2>3. {f[i] : i \in 1 .. l} = {g[i] : i \in 1 .. l}
    OBVIOUS
  <2>4. Cardinality({g[i] : i \in 1 .. l}) = l
    <3> HIDE DEF g
    <3> QED
      BY <2>1, Counts
  <2> QED
    BY <2>2, <2>3, <2>4
<1>3. ASSUME NEW k \in 1 .. n PROVE Nth(S, k) = f[k]
  <2> DEFINE P(i) == Cardinality({j \in S : j <= i}) = k
  <2>1. f[k] \in S /\ P(f[k])
    BY <1>2
  <2>2. ASSUME NEW i \in S, P(i) PROVE i = f[k]
    <3>1. PICK l \in 1 .. n : i = f[l]
      OBVIOUS
    <3>2. l = k
      BY <1>2, <2>2, <3>1
    <3> QED
      BY <3>1, <3>2
  <2>3. Nth(S, k) = CHOOSE i \in S : P(i)
    BY DEF Nth
  <2> HIDE DEF P
  <2> QED
    BY <2>1, <2>2, <2>3
<1> QED
  BY <1>1, <1>3

(* Nth gives one of the places, for every number up to how many there are. *)
LEMMA NthIsIn ==
  ASSUME NEW n \in Nat, NEW S \in SUBSET (1 .. n), NEW k \in 1 .. Cardinality(S)
  PROVE  Nth(S, k) \in S
<1> DEFINE Upto(i) == {j \in S : j <= i}
           T == {i \in 0 .. n : Cardinality(Upto(i)) >= k}
<1>1. IsFiniteSet(S)
  <2>1. IsFiniteSet(1 .. n)
    BY FS_Interval
  <2> QED
    BY <2>1, FS_Subset
<1>10. \A j \in S : j \in Nat /\ 1 <= j /\ j <= n
  OBVIOUS
<1>2. ASSUME NEW i \in 0 .. n
      PROVE  IsFiniteSet(Upto(i)) /\ Cardinality(Upto(i)) \in Nat
  <2>1. Upto(i) \subseteq S
    OBVIOUS
  <2> HIDE DEF Upto
  <2> QED
    BY <1>1, <2>1, FS_Subset, FS_CardinalityType
<1>3. n \in T
  <2>1. Upto(n) = S
    BY <1>10
  <2>2. n \in 0 .. n /\ Cardinality(S) \in Nat
    BY <1>1, FS_CardinalityType
  <2> HIDE DEF Upto
  <2> QED
    BY <2>1, <2>2
<1>4. PICK i \in T : \A l \in T : i <= l
  <2>1. T \in SUBSET Nat /\ T # {}
    BY <1>3
  <2> HIDE DEF T
  <2> QED
    BY <2>1, Smallest
<1>5. i > 0
  <2> SUFFICES ASSUME i = 0 PROVE FALSE
    OBVIOUS
  <2>1. Upto(0) = {}
    <3>1. \A j \in S : ~(j <= 0)
      BY <1>10
    <3> QED
      BY <3>1
  <2>2. Cardinality({}) = 0
    BY FS_EmptySet
  <2> HIDE DEF Upto
  <2> QED
    BY <1>4, <2>1, <2>2
<1>6. i - 1 \in 0 .. n /\ ~(Cardinality(Upto(i - 1)) >= k)
  <2>3. i \in 0 .. n
    BY <1>4
  <2>1. i - 1 \in 0 .. n /\ i - 1 \notin T
    <3> HIDE DEF T
    <3> QED
      BY <1>4, <1>5, <2>3
  <2> HIDE DEF Upto
  <2> QED
    BY <2>1
<1>7. i \in S /\ Cardinality(Upto(i)) = k
  <2>1. i \in 0 .. n /\ Cardinality(Upto(i)) >= k
    BY <1>4
  <2>2. CASE i \in S
    <3>1. Upto(i) = Upto(i - 1) \cup {i} /\ i \notin Upto(i - 1)
      <4>1. \A j \in S : j <= i <=> j <= i - 1 \/ j = i
        BY <1>10, <2>1
      <4>2. i \in Nat /\ i <= i /\ ~(i <= i - 1)
        BY <2>1
      <4> QED
        BY <2>2, <4>1, <4>2
    <3> HIDE DEF Upto
    <3>2. Cardinality(Upto(i)) = Cardinality(Upto(i - 1)) + 1
      BY <1>2, <1>6, <3>1, FS_AddElement
    <3> QED
      BY <1>2, <1>6, <2>1, <2>2, <3>2
  <2>3. CASE i \notin S
    <3>1. Upto(i) = Upto(i - 1)
      <4>1. \A j \in S : j <= i <=> j <= i - 1
        BY <1>10, <2>1, <2>3
      <4> QED
        BY <4>1
    <3> HIDE DEF Upto
    <3> QED
      BY <1>2, <1>6, <2>1, <3>1
  <2> QED
    BY <2>2, <2>3
<1>8. \E l \in S : Cardinality(Upto(l)) = k
  BY <1>7
<1>9. Nth(S, k) = CHOOSE l \in S : Cardinality(Upto(l)) = k
  BY DEF Nth
<1> HIDE DEF Upto
<1> QED
  BY <1>8, <1>9

-----------------------------------------------------------------------------
(* Two tokens more.                                                        *)
LEMMA TwoMore ==
  ASSUME NEW s \in Tokens, NEW t \in Tokens
  PROVE  /\ Append(<<s>>, t) = <<s, t>>
         /\ \A p \in Seq(Tokens) :
              /\ p \o <<s, t>> \in Seq(Tokens)
              /\ Len(p \o <<s, t>>) = Len(p) + 2
<1> DEFINE u == <<s, t>>
<1>1. u \in Seq(Tokens) /\ Len(u) = 2 /\ u[1] = s /\ u[2] = t
  OBVIOUS
<1>2. Append(<<s>>, t) = u
  <2>1. <<s>> \in Seq(Tokens) /\ Len(<<s>>) = 1 /\ <<s>>[1] = s
    OBVIOUS
  <2>2. /\ Append(<<s>>, t) \in Seq(Tokens) /\ Len(Append(<<s>>, t)) = 2
        /\ Append(<<s>>, t)[1] = s /\ Append(<<s>>, t)[2] = t
    BY <2>1
  <2>3. \A i \in 1 .. 2 : i = 1 \/ i = 2
    OBVIOUS
  <2> HIDE DEF u
  <2> QED
    BY <1>1, <2>2, <2>3
<1> HIDE DEF u
<1>3. ASSUME NEW p \in Seq(Tokens) PROVE p \o u \in Seq(Tokens) /\ Len(p \o u) = Len(p) + 2
  <2>1. u \in Seq(Tokens) /\ Len(u) = 2
    BY <1>1
  <2>2. p \o u \in Seq(Tokens) /\ Len(p \o u) = Len(p) + Len(u)
    BY <2>1, ConcatProperties, Zenon
  <2> QED
    BY <2>1, <2>2
<1> QED
  BY <1>2, <1>3 DEF u

(* Places and their paths.                                                 *)
LEMMA PlaceIs ==
  ASSUME NEW c \in Seq(Names)
  PROVE  /\ Place(c) \in Seq(Tokens) /\ Len(Place(c)) = 2 * Len(c)
         /\ \A i \in 1 .. Len(c) : Place(c)[2 * i - 1] = Slash /\ Place(c)[2 * i] = c[i]
<1> DEFINE n == Len(c)
<1>1. n \in Nat /\ 2 * n \in Nat
  OBVIOUS
<1>2. ASSUME NEW j \in 1 .. 2 * n, j % 2 # 1 PROVE j \div 2 \in 1 .. n
  BY <1>1, <1>2
<1>3. \A j \in 1 .. 2 * n : Place(c)[j] = IF j % 2 = 1 THEN Slash ELSE c[j \div 2]
  BY DEF Place
<1>4. \A j \in 1 .. 2 * n : Place(c)[j] \in Tokens
  BY <1>2, <1>3 DEF Tokens
<1>5. Place(c) \in [1 .. 2 * n -> Tokens]
  BY <1>4 DEF Place
<1>6. \A i \in 1 .. n : /\ 2 * i - 1 \in 1 .. 2 * n /\ (2 * i - 1) % 2 = 1
                        /\ 2 * i \in 1 .. 2 * n /\ (2 * i) % 2 # 1 /\ (2 * i) \div 2 = i
  BY <1>1
<1>7. Place(c) \in Seq(Tokens) /\ Len(Place(c)) = 2 * n
  <2> HIDE DEF n
  <2> QED
    BY <1>1, <1>5
<1>8. ASSUME NEW i \in 1 .. n PROVE Place(c)[2 * i - 1] = Slash /\ Place(c)[2 * i] = c[i]
  BY <1>3, <1>6
<1> QED
  BY <1>7, <1>8

(* A place of a stored path is a slash or a name.                          *)
LEMMA HalfOf ==
  ASSUME NEW n \in Nat, NEW j \in 1 .. 2 * n
  PROVE  \E i \in 1 .. n : j = 2 * i - 1 \/ j = 2 * i
<1>1. CASE j % 2 = 1
  <2>1. (j + 1) \div 2 \in 1 .. n /\ j = 2 * ((j + 1) \div 2) - 1
    BY <1>1
  <2> QED
    BY <2>1
<1>2. CASE j % 2 # 1
  <2>1. j \div 2 \in 1 .. n /\ j = 2 * (j \div 2)
    BY <1>2
  <2> QED
    BY <2>1
<1> QED
  BY <1>1, <1>2

(* Two paths of places are equal if the names are.                         *)
LEMMA PlaceOnly ==
  ASSUME NEW c \in Seq(Names), NEW p \in Seq(Tokens), Len(p) = 2 * Len(c),
         \A i \in 1 .. Len(c) : p[2 * i - 1] = Slash /\ p[2 * i] = c[i]
  PROVE  p = Place(c)
<1>1. Place(c) \in Seq(Tokens) /\ Len(Place(c)) = Len(p)
  BY PlaceIs
<1>2. ASSUME NEW j \in 1 .. Len(p) PROVE p[j] = Place(c)[j]
  <2>1. Len(c) \in Nat /\ j \in 1 .. 2 * Len(c)
    OBVIOUS
  <2>2. PICK i \in 1 .. Len(c) : j = 2 * i - 1 \/ j = 2 * i
    BY <2>1, HalfOf
  <2>3. Place(c)[2 * i - 1] = Slash /\ Place(c)[2 * i] = c[i]
    BY <2>2, PlaceIs
  <2> QED
    BY <2>2, <2>3
<1> QED
  BY <1>1, <1>2

(* A name more at the end.                                                 *)
LEMMA PlaceGrows ==
  ASSUME NEW c \in Seq(Names), NEW t \in Names
  PROVE  Place(Append(c, t)) = Place(c) \o <<Slash, t>>
<1> DEFINE d == Append(c, t)
           p == Place(c) \o <<Slash, t>>
<1>1. Len(c) \in Nat /\ d \in Seq(Names) /\ Len(d) = Len(c) + 1 /\ d[Len(c) + 1] = t
  OBVIOUS
<1>2. /\ Place(c) \in Seq(Tokens) /\ Len(Place(c)) = 2 * Len(c)
      /\ \A i \in 1 .. Len(c) : Place(c)[2 * i - 1] = Slash /\ Place(c)[2 * i] = c[i]
  BY PlaceIs
<1>3. Slash \in Tokens /\ t \in Tokens
  BY DEF Tokens
<1>4. p \in Seq(Tokens) /\ Len(p) = 2 * Len(d)
  <2>2. p \in Seq(Tokens) /\ Len(p) = Len(Place(c)) + 2
    BY <1>2, <1>3, TwoMore
  <2>3. 2 * Len(c) + 2 = 2 * (Len(c) + 1)
    BY <1>1
  <2> HIDE DEF d, p
  <2> QED
    BY <1>1, <1>2, <2>2, <2>3
<1>5. ASSUME NEW i \in 1 .. Len(d) PROVE p[2 * i - 1] = Slash /\ p[2 * i] = d[i]
  <2>1. CASE i \in 1 .. Len(c)
    <3>1. d[i] = c[i]
      BY <2>1
    <3>2. 2 * i - 1 \in 1 .. 2 * Len(c) /\ 2 * i \in 1 .. 2 * Len(c)
      BY <2>1
    <3> QED
      BY <1>2, <2>1, <3>1, <3>2
  <2>2. CASE i = Len(c) + 1
    <3>1. 2 * i - 1 = 2 * Len(c) + 1 /\ 2 * i = 2 * Len(c) + 2
      BY <2>2
    <3> QED
      BY <1>1, <1>2, <2>2, <3>1
  <2>3. i \in 1 .. Len(c) \/ i = Len(c) + 1
    <3> HIDE DEF d
    <3> QED
      BY <1>1
  <2> QED
    BY <2>1, <2>2, <2>3
<1> HIDE DEF d, p
<1>6. p = Place(d)
  BY <1>1, <1>4, <1>5, PlaceOnly
<1> QED
  BY <1>6 DEF d, p

(* The names up to a depth.                                                *)
LEMMA PlacePrefix ==
  ASSUME NEW c \in Seq(Names), NEW k \in 0 .. Len(c)
  PROVE  /\ SubSeq(c, 1, k) \in Seq(Names) /\ Len(SubSeq(c, 1, k)) = k
         /\ Place(SubSeq(c, 1, k)) = SubSeq(Place(c), 1, 2 * k)
<1> DEFINE d == SubSeq(c, 1, k)
           p == SubSeq(Place(c), 1, 2 * k)
<1>1. d \in Seq(Names) /\ Len(d) = k /\ \A i \in 1 .. k : d[i] = c[i]
  OBVIOUS
<1>2. /\ Place(c) \in Seq(Tokens) /\ Len(Place(c)) = 2 * Len(c)
      /\ \A i \in 1 .. Len(c) : Place(c)[2 * i - 1] = Slash /\ Place(c)[2 * i] = c[i]
  BY PlaceIs
<1>3. /\ p \in Seq(Tokens) /\ Len(p) = 2 * k
      /\ \A j \in 1 .. 2 * k : p[j] = Place(c)[j]
  BY <1>2
<1>4. ASSUME NEW i \in 1 .. Len(d) PROVE p[2 * i - 1] = Slash /\ p[2 * i] = d[i]
  <2>1. 2 * i - 1 \in 1 .. 2 * k /\ 2 * i \in 1 .. 2 * k /\ i \in 1 .. Len(c) /\ d[i] = c[i]
    BY <1>1
  <2>2. p[2 * i - 1] = Place(c)[2 * i - 1] /\ p[2 * i] = Place(c)[2 * i]
    BY <1>3, <2>1
  <2>3. Place(c)[2 * i - 1] = Slash /\ Place(c)[2 * i] = c[i]
    BY <1>2, <2>1
  <2> QED
    BY <2>1, <2>2, <2>3
<1> HIDE DEF d, p
<1>5. p = Place(d)
  BY <1>1, <1>3, <1>4, PlaceOnly
<1> QED
  BY <1>1, <1>5 DEF d, p

(* truncate_trailing_slash leaves a path that ends in no slash, and cuts   *)
(* off nothing but slashes.                                                *)
LEMMA TruncateEnds ==
  ASSUME NEW p \in Seq(Tokens)
  PROVE  \E n \in 0 .. Len(p) :
           /\ truncate_trailing_slash(p) = SubSeq(p, 1, n)
           /\ n = 0 \/ p[n] # Slash
           /\ \A k \in n + 1 .. Len(p) : p[k] = Slash
<1> DEFINE Ends(n) == /\ n = 0 \/ p[n] # Slash
                      /\ \A k \in n + 1 .. Len(p) : p[k] = Slash
           T == {n \in 0 .. Len(p) : n = 0 \/ p[n] # Slash}
<1>1. Len(p) \in Nat /\ T \in SUBSET (0 .. Len(p)) /\ 0 \in T
  OBVIOUS
<1>2. PICK n \in T : \A k \in T : k <= n
  <2> HIDE DEF T
  <2> QED
    BY <1>1, Largest
<1>3. Ends(n)
  BY <1>1, <1>2
<1>4. \E q \in 0 .. Len(p) : Ends(q)
  BY <1>1, <1>3
<1>5. truncate_trailing_slash(p) = SubSeq(p, 1, CHOOSE q \in 0 .. Len(p) : Ends(q))
  BY DEF truncate_trailing_slash
<1> QED
  BY <1>4, <1>5

(* A name is none of the other tokens.                                     *)
LEMMA NamesApart ==
  ASSUME NEW t \in Names
  PROVE  t \in Tokens /\ t # Slash /\ t # Dot /\ t # DotDot
BY NamesAssumption DEF Tokens

(* A rendered place is a path from which PlaceOf, truncate_trailing_slash  *)
(* and pathcmp get the place back.                                         *)
LEMMA RenderIs ==
  ASSUME NEW c \in Seq(Names)
  PROVE  /\ Render(c) \in Seq(Tokens) /\ Len(Render(c)) > 0
         /\ PlaceOf(Render(c)) = c /\ PlaceOf(Place(c)) = c
         /\ truncate_trailing_slash(Render(c)) = Place(c)
         /\ DropOneSlash(Render(c)) = Place(c)
<1>1. /\ Place(c) \in Seq(Tokens) /\ Len(Place(c)) = 2 * Len(c)
      /\ \A i \in 1 .. Len(c) : Place(c)[2 * i - 1] = Slash /\ Place(c)[2 * i] = c[i]
  BY PlaceIs
<1>2. PlaceOf(Place(c)) = c
  <2>1. Len(c) \in Nat /\ (2 * Len(c)) \div 2 = Len(c)
    OBVIOUS
  <2>2. PlaceOf(Place(c)) = [k \in 1 .. Len(c) |-> Place(c)[2 * k]]
    BY <1>1, <2>1 DEF PlaceOf
  <2>3. c = [k \in 1 .. Len(c) |-> c[k]]
    OBVIOUS
  <2> QED
    BY <1>1, <2>2, <2>3
<1>3. CASE c = <<>>
  <2>1. Len(c) = 0 /\ Place(c) = <<>> /\ Render(c) = <<Slash>>
    BY <1>1, <1>3 DEF Render
  <2>2. PlaceOf(<<Slash>>) = <<>>
    <3>1. Len(<<Slash>>) \div 2 = 0 /\ 1 .. 0 = {}
      OBVIOUS
    <3> QED
      BY <3>1 DEF PlaceOf
  <2>3. <<Slash>> \in Seq(Tokens) /\ Len(<<Slash>>) > 0
    BY DEF Tokens
  <2>4. truncate_trailing_slash(<<Slash>>) = <<>> /\ DropOneSlash(<<Slash>>) = <<>>
    <3>1. PICK n \in 0 .. Len(<<Slash>>) :
            /\ truncate_trailing_slash(<<Slash>>) = SubSeq(<<Slash>>, 1, n)
            /\ n = 0 \/ <<Slash>>[n] # Slash
      BY <2>3, TruncateEnds
    <3>2. n = 0 /\ SubSeq(<<Slash>>, 1, 0) = <<>>
      BY <3>1
    <3> QED
      BY <3>1, <3>2 DEF DropOneSlash
  <2> QED
    BY <1>2, <1>3, <2>1, <2>2, <2>3, <2>4
<1>4. CASE c # <<>>
  <2>1. Render(c) = Place(c) /\ Len(c) > 0
    BY <1>4 DEF Render
  <2>2. Place(c)[2 * Len(c)] # Slash
    <3>1. Len(c) \in 1 .. Len(c) /\ c[Len(c)] \in Names
      BY <2>1
    <3> QED
      BY <1>1, <3>1, NamesApart
  <2>3. truncate_trailing_slash(Place(c)) = Place(c)
    <3>1. PICK n \in 0 .. Len(Place(c)) :
            /\ truncate_trailing_slash(Place(c)) = SubSeq(Place(c), 1, n)
            /\ \A k \in n + 1 .. Len(Place(c)) : Place(c)[k] = Slash
      BY <1>1, TruncateEnds
    <3>2. n = 2 * Len(c)
      BY <1>1, <2>1, <2>2, <3>1
    <3> QED
      BY <1>1, <3>1, <3>2
  <2>4. DropOneSlash(Place(c)) = Place(c)
    BY <1>1, <2>2 DEF DropOneSlash
  <2> QED
    BY <1>1, <1>2, <2>1, <2>3, <2>4
<1> QED
  BY <1>3, <1>4

-----------------------------------------------------------------------------
(* The names of a path are collected token by token.                       *)
LEMMA TakeNameRun ==
  ASSUME NEW p \in Seq(Tokens)
  PROVE  \E run \in [0 .. Len(p) -> Seq(Tokens)] :
           /\ run[0] = <<>>
           /\ \A k \in 1 .. Len(p) : run[k] = TakeName(run[k - 1], p[k])
           /\ Components(p) = run[Len(p)]
<1> DEFINE n == Len(p)
           S == Seq(Tokens)
           Runs(f, m) == /\ f \in [0 .. m -> S]
                         /\ f[0] = <<>>
                         /\ \A k \in 1 .. m : f[k] = TakeName(f[k - 1], p[k])
           Body(f) == f = [k \in 0 .. n |-> IF k = 0 THEN <<>> ELSE TakeName(f[k - 1], p[k])]
           T == {m \in 0 .. n : \E f : Runs(f, m)}
           upTo == CHOOSE f : Body(f)
<1>1. n \in Nat
  OBVIOUS
<1>2. Components(p) = upTo[n]
  BY DEF Components
<1>3. 0 \in T
  <2> DEFINE f == [k \in 0 .. 0 |-> <<>>]
  <2>1. Runs(f, 0)
    OBVIOUS
  <2> HIDE DEF Runs
  <2> QED
    BY <1>1, <2>1
<1>4. ASSUME NEW m \in 1 .. n, m - 1 \in T PROVE m \in T
  <2>1. PICK f : Runs(f, m - 1)
    BY <1>4
  <2> DEFINE g == [k \in 0 .. m |-> IF k < m THEN f[k] ELSE TakeName(f[m - 1], p[m])]
  <2>2. m \in Nat /\ m - 1 \in 0 .. m - 1 /\ p[m] \in Tokens
    OBVIOUS
  <2>3. f[m - 1] \in S /\ TakeName(f[m - 1], p[m]) \in S
    BY <2>1, <2>2 DEF TakeName
  <2>4. g \in [0 .. m -> S] /\ g[0] = <<>>
    BY <2>1, <2>2, <2>3
  <2>5. ASSUME NEW k \in 1 .. m PROVE g[k] = TakeName(g[k - 1], p[k])
    <3>1. g[k - 1] = f[k - 1] /\ k - 1 < m
      OBVIOUS
    <3>2. CASE k = m
      BY <3>1, <3>2
    <3>3. CASE k < m
      <4>1. g[k] = f[k] /\ k \in 1 .. m - 1
        BY <3>3
      <4> QED
        BY <2>1, <3>1, <4>1
    <3> QED
      BY <3>2, <3>3
  <2>6. Runs(g, m)
    <3> HIDE DEF g
    <3> QED
      BY <2>4, <2>5
  <2> HIDE DEF Runs, g
  <2> QED
    BY <1>1, <2>2, <2>6
<1>5. n \in T
  <2>1. n \in 0 .. n
    BY <1>1
  <2> HIDE DEF T, n
  <2> QED
    BY <1>1, <1>3, <1>4, <2>1, InductionUpTo
<1>6. PICK run : Runs(run, n)
  BY <1>5
<1> HIDE DEF n
<1>7. Body(run)
  <2> DEFINE g == [k \in 0 .. n |-> IF k = 0 THEN <<>> ELSE TakeName(run[k - 1], p[k])]
  <2>1. \A k \in 0 .. n : run[k] = g[k]
    BY <1>1, <1>6
  <2>2. run = [k \in 0 .. n |-> run[k]]
    BY <1>6
  <2> QED
    BY <2>1, <2>2
<1>8. Body(upTo)
  <2> HIDE DEF Body
  <2> QED
    BY <1>7
<1> HIDE DEF upTo
<1>9. upTo[0] = <<>> /\ \A k \in 1 .. n : upTo[k] = TakeName(upTo[k - 1], p[k])
  BY <1>1, <1>8
<1> DEFINE U == {k \in 0 .. n : upTo[k] = run[k]}
<1>10. 0 .. n \subseteq U
  <2>1. 0 \in U
    BY <1>1, <1>6, <1>9
  <2>2. ASSUME NEW k \in 1 .. n, k - 1 \in U PROVE k \in U
    BY <1>6, <1>9, <2>2
  <2> HIDE DEF U
  <2> QED
    BY <1>1, <2>1, <2>2, InductionUpTo
<1>11. n \in 0 .. n
  BY <1>1
<1> QED
  BY <1>2, <1>6, <1>10, <1>11 DEF n

(* A run of it is the run.                                                 *)
IsListing(run, p) ==
  /\ run \in [0 .. Len(p) -> Seq(Tokens)]
  /\ run[0] = <<>>
  /\ \A k \in 1 .. Len(p) : run[k] = TakeName(run[k - 1], p[k])

(* The names of two paths in a row are those of the one and of the other.  *)
LEMMA ComponentsJoin ==
  ASSUME NEW p \in Seq(Tokens), NEW q \in Seq(Tokens)
  PROVE  Components(p \o q) = Components(p) \o Components(q)
<1> DEFINE pq == p \o q
<1>1. /\ pq \in Seq(Tokens) /\ Len(pq) = Len(p) + Len(q)
      /\ Len(p) \in Nat /\ Len(q) \in Nat
      /\ \A i \in 1 .. Len(p) : pq[i] = p[i]
      /\ \A i \in 1 .. Len(q) : pq[Len(p) + i] = q[i]
  OBVIOUS
<1> HIDE DEF pq
<1>2. PICK u : IsListing(u, p) /\ Components(p) = u[Len(p)]
  BY TakeNameRun DEF IsListing
<1>3. PICK v : IsListing(v, q) /\ Components(q) = v[Len(q)]
  BY TakeNameRun DEF IsListing
<1>4. PICK w : IsListing(w, pq) /\ Components(pq) = w[Len(pq)]
  BY <1>1, TakeNameRun DEF IsListing
<1> DEFINE T == {k \in 0 .. Len(p) : w[k] = u[k]}
           U == {k \in 0 .. Len(q) : w[Len(p) + k] = u[Len(p)] \o v[k]}
<1>5. 0 \in T
  BY <1>1, <1>2, <1>4 DEF IsListing
<1>6. ASSUME NEW k \in 1 .. Len(p), k - 1 \in T PROVE k \in T
  <2>1. w[k] = TakeName(w[k - 1], p[k]) /\ u[k] = TakeName(u[k - 1], p[k])
    BY <1>1, <1>2, <1>4 DEF IsListing
  <2> QED
    BY <1>1, <1>6, <2>1
<1>7. 0 .. Len(p) \subseteq T
  <2> HIDE DEF T
  <2> QED
    BY <1>1, <1>5, <1>6, InductionUpTo
<1>8. u[Len(p)] \in Seq(Tokens) /\ w[Len(p)] = u[Len(p)]
  <2>1. Len(p) \in 0 .. Len(p)
    BY <1>1
  <2> QED
    BY <1>2, <1>7, <2>1 DEF IsListing
<1>9. 0 \in U
  BY <1>1, <1>3, <1>8 DEF IsListing
<1>10. ASSUME NEW k \in 1 .. Len(q), k - 1 \in U PROVE k \in U
  <2>1. Len(p) + k \in 1 .. Len(pq) /\ (Len(p) + k) - 1 = Len(p) + (k - 1) /\ k - 1 \in 0 .. Len(q)
    BY <1>1
  <2>2. /\ w[Len(p) + k] = TakeName(w[Len(p) + (k - 1)], q[k])
        /\ v[k] = TakeName(v[k - 1], q[k]) /\ v[k - 1] \in Seq(Tokens)
    BY <1>1, <1>3, <1>4, <2>1 DEF IsListing
  <2>3. w[Len(p) + (k - 1)] = u[Len(p)] \o v[k - 1]
    BY <1>10
  <2>7. q[k] \in Tokens
    OBVIOUS
  <2> DEFINE x == u[Len(p)]
             y == v[k - 1]
  <2>4. x \in Seq(Tokens) /\ y \in Seq(Tokens)
    BY <1>8, <2>2
  <2> HIDE DEF x, y
  <2>5. TakeName(x \o y, q[k]) = x \o TakeName(y, q[k])
    <3> DEFINE t == q[k]
    <3>2. t \in Tokens
      BY <2>7
    <3> HIDE DEF t
    <3>3. <<t>> \in Seq(Tokens)
      BY <3>2
    <3>4. x \o y \in Seq(Tokens)
      BY <2>4, ConcatProperties, Zenon
    <3>5. Append(x \o y, t) = (x \o y) \o <<t>> /\ Append(y, t) = y \o <<t>>
      BY <2>4, <3>2, <3>4, AppendIsConcat, Zenon
    <3>6. (x \o y) \o <<t>> = x \o (y \o <<t>>)
      <4> DEFINE z == <<t>>
      <4>1. z \in Seq(Tokens)
        BY <3>3
      <4> HIDE DEF z
      <4>2. (x \o y) \o z = x \o (y \o z)
        BY <2>4, <4>1
      <4> QED
        BY <4>2 DEF z
    <3>1. Append(x \o y, q[k]) = x \o Append(y, q[k])
      BY <3>5, <3>6 DEF t
    <3> QED
      BY <3>1 DEF TakeName
  <2>6. w[Len(p) + k] = u[Len(p)] \o v[k]
    BY <2>2, <2>3, <2>5 DEF x, y
  <2>8. k \in 0 .. Len(q)
    BY <1>1
  <2> QED
    BY <2>6, <2>8
<1>11. 0 .. Len(q) \subseteq U
  <2> HIDE DEF U
  <2> QED
    BY <1>1, <1>9, <1>10, InductionUpTo
<1>12. w[Len(p) + Len(q)] = u[Len(p)] \o v[Len(q)]
  <2>1. Len(q) \in 0 .. Len(q)
    BY <1>1
  <2> QED
    BY <1>11, <2>1
<1> QED
  BY <1>1, <1>2, <1>3, <1>4, <1>12 DEF pq

(* The names of a path of no token and of one token.                       *)
LEMMA ComponentsOfOne ==
  /\ Components(<<>>) = <<>>
  /\ Components(<<Slash>>) = <<>>
  /\ \A t \in Tokens : t # Slash => Components(<<t>>) = <<t>>
<1>1. Components(<<>>) = <<>>
  <2>1. <<>> \in Seq(Tokens) /\ Len(<<>>) = 0
    OBVIOUS
  <2> QED
    BY <2>1, TakeNameRun
<1>2. ASSUME NEW t \in Tokens PROVE Components(<<t>>) = TakeName(<<>>, t)
  <2>1. <<t>> \in Seq(Tokens) /\ Len(<<t>>) = 1 /\ <<t>>[1] = t /\ 1 \in 1 .. 1 /\ 1 - 1 = 0
    OBVIOUS
  <2>2. PICK run \in [0 .. 1 -> Seq(Tokens)] :
          /\ run[0] = <<>> /\ \A k \in 1 .. 1 : run[k] = TakeName(run[k - 1], <<t>>[k])
          /\ Components(<<t>>) = run[1]
    BY <2>1, TakeNameRun
  <2> QED
    BY <2>1, <2>2
<1>3. Slash \in Tokens
  BY DEF Tokens
<1> QED
  BY <1>1, <1>2, <1>3 DEF TakeName

(* The names of a path are tokens.                                         *)
LEMMA ComponentsTyped ==
  ASSUME NEW p \in Seq(Tokens) PROVE Components(p) \in Seq(Tokens)
<1>1. Len(p) \in 0 .. Len(p)
  OBVIOUS
<1> QED
  BY <1>1, TakeNameRun

(* Those of a prefix are a prefix.                                         *)
LEMMA ComponentsOfPrefix ==
  ASSUME NEW p \in Seq(Tokens), NEW k \in 0 .. Len(p)
  PROVE  /\ SubSeq(p, 1, k) \in Seq(Tokens) /\ SubSeq(p, k + 1, Len(p)) \in Seq(Tokens)
         /\ Components(p) = Components(SubSeq(p, 1, k)) \o Components(SubSeq(p, k + 1, Len(p)))
<1>1. /\ SubSeq(p, 1, k) \in Seq(Tokens) /\ SubSeq(p, k + 1, Len(p)) \in Seq(Tokens)
      /\ p = SubSeq(p, 1, k) \o SubSeq(p, k + 1, Len(p))
  <2>1. 1 \in 1 .. Len(p) + 1 /\ k \in 1 - 1 .. Len(p) /\ Len(p) \in k .. Len(p)
    OBVIOUS
  <2>2. SubSeq(p, 1, k) \o SubSeq(p, k + 1, Len(p)) = SubSeq(p, 1, Len(p))
    BY <2>1, ConcatAdjacentSubSeq, Zenon
  <2>3. SubSeq(p, 1, Len(p)) = p /\ SubSeq(p, 1, k) \in Seq(Tokens)
    OBVIOUS
  <2>4. SubSeq(p, k + 1, Len(p)) \in Seq(Tokens)
    OBVIOUS
  <2> QED
    BY <2>2, <2>3, <2>4
<1>2. Components(SubSeq(p, 1, k) \o SubSeq(p, k + 1, Len(p)))
        = Components(SubSeq(p, 1, k)) \o Components(SubSeq(p, k + 1, Len(p)))
  BY <1>1, ComponentsJoin
<1> QED
  BY <1>1, <1>2

(* One token more.                                                         *)
LEMMA ComponentsNext ==
  ASSUME NEW p \in Seq(Tokens), NEW k \in 1 .. Len(p)
  PROVE  Components(SubSeq(p, 1, k)) = TakeName(Components(SubSeq(p, 1, k - 1)), p[k])
<1>1. SubSeq(p, 1, k - 1) \in Seq(Tokens) /\ <<p[k]>> \in Seq(Tokens) /\ p[k] \in Tokens
  OBVIOUS
<1>2. SubSeq(p, 1, k) = SubSeq(p, 1, k - 1) \o <<p[k]>>
  OBVIOUS
<1>3. Components(SubSeq(p, 1, k)) = Components(SubSeq(p, 1, k - 1)) \o Components(<<p[k]>>)
  BY <1>1, <1>2, ComponentsJoin
<1>4. Components(SubSeq(p, 1, k - 1)) \in Seq(Tokens)
  BY <1>1, ComponentsTyped
<1> DEFINE x == Components(SubSeq(p, 1, k - 1))
<1> HIDE DEF x
<1>5. x \in Seq(Tokens)
  BY <1>4 DEF x
<1>6. x \o <<>> = x /\ x \o <<p[k]>> = Append(x, p[k])
  BY <1>1, <1>5
<1> QED
  BY <1>1, <1>3, <1>6, ComponentsOfOne DEF TakeName, x

(* A slash has no name.                                                    *)
LEMMA ComponentsDropSlash ==
  ASSUME NEW p \in Seq(Tokens)
  PROVE  Components(DropOneSlash(p)) = Components(p)
<1>1. CASE EndsInSlash(p)
  <2>1. Len(p) \in 1 .. Len(p) /\ SubSeq(p, 1, Len(p)) = p
    BY <1>1 DEF EndsInSlash
  <2> QED
    BY <1>1, <2>1, ComponentsNext DEF TakeName, DropOneSlash, EndsInSlash
<1>2. CASE ~EndsInSlash(p)
  BY <1>2 DEF DropOneSlash, EndsInSlash
<1> QED
  BY <1>1, <1>2

(* Nor have slashes in a row.                                              *)
LEMMA ComponentsTruncated ==
  ASSUME NEW p \in Seq(Tokens)
  PROVE  Components(truncate_trailing_slash(p)) = Components(p)
<1>1. PICK n \in 0 .. Len(p) :
        /\ truncate_trailing_slash(p) = SubSeq(p, 1, n)
        /\ \A k \in n + 1 .. Len(p) : p[k] = Slash
  BY TruncateEnds
<1> DEFINE T == {k \in 0 .. Len(p) : k >= n => Components(SubSeq(p, 1, k)) = Components(SubSeq(p, 1, n))}
<1>2. 0 \in T
  OBVIOUS
<1>3. ASSUME NEW k \in 1 .. Len(p), k - 1 \in T PROVE k \in T
  <2>1. CASE k > n
    <3>1. p[k] = Slash /\ k - 1 >= n
      BY <1>1, <2>1
    <3> QED
      BY <1>3, <3>1, ComponentsNext DEF TakeName
  <2>2. CASE k <= n
    BY <2>2
  <2> QED
    BY <2>1, <2>2
<1>4. Len(p) \in T
  <2>1. Len(p) \in Nat /\ Len(p) \in 0 .. Len(p)
    OBVIOUS
  <2> HIDE DEF T
  <2> QED
    BY <1>2, <1>3, <2>1, InductionUpTo
<1>5. SubSeq(p, 1, Len(p)) = p /\ Len(p) >= n
  OBVIOUS
<1> QED
  BY <1>1, <1>4, <1>5

(* The names of a place's path are the place.                              *)
LEMMA ComponentsOfPlace ==
  ASSUME NEW c \in Seq(Names)
  PROVE  Components(Place(c)) = c /\ Components(Render(c)) = c
<1> DEFINE T == {k \in 0 .. Len(c) : Components(Place(SubSeq(c, 1, k))) = SubSeq(c, 1, k)}
<1>1. 0 \in T
  <2>1. Place(<<>>) = <<>> /\ SubSeq(c, 1, 0) = <<>> /\ 0 \in 0 .. Len(c)
    <3> DEFINE e == <<>>
    <3>1. e \in Seq(Names) /\ Len(e) = 0
      OBVIOUS
    <3> HIDE DEF e
    <3>2. Place(e) \in Seq(Tokens) /\ Len(Place(e)) = 2 * Len(e)
      BY <3>1, PlaceIs
    <3>3. Place(e) = <<>>
      BY <3>1, <3>2
    <3>4. SubSeq(c, 1, 0) = <<>> /\ 0 \in 0 .. Len(c)
      OBVIOUS
    <3> QED
      BY <3>3, <3>4 DEF e
  <2> QED
    BY <2>1, ComponentsOfOne
<1>2. ASSUME NEW k \in 1 .. Len(c), k - 1 \in T PROVE k \in T
  <2> DEFINE d == SubSeq(c, 1, k - 1)
             t == c[k]
  <2>1. d \in Seq(Names) /\ t \in Names /\ SubSeq(c, 1, k) = Append(d, t) /\ Components(Place(d)) = d
    BY <1>2
  <2> HIDE DEF d, t
  <2>2. /\ Place(d) \in Seq(Tokens) /\ Slash \in Tokens /\ t \in Tokens /\ t # Slash
        /\ <<Slash>> \in Seq(Tokens) /\ <<t>> \in Seq(Tokens) /\ <<Slash, t>> \in Seq(Tokens)
    BY <2>1, PlaceIs, NamesApart DEF Tokens
  <2>3. <<Slash, t>> = <<Slash>> \o <<t>>
    BY <2>2
  <2>4. Components(<<Slash, t>>) = <<>> \o <<t>>
    BY <2>2, <2>3, ComponentsJoin, ComponentsOfOne
  <2>5. Components(Place(Append(d, t))) = d \o (<<>> \o <<t>>)
    BY <2>1, <2>2, <2>4, PlaceGrows, ComponentsJoin
  <2>6. d \o (<<>> \o <<t>>) = Append(d, t)
    BY <2>1
  <2>7. Components(Place(SubSeq(c, 1, k))) = SubSeq(c, 1, k)
    BY <2>1, <2>5, <2>6
  <2> QED
    BY <2>7
<1>3. Len(c) \in T
  <2>1. Len(c) \in Nat /\ Len(c) \in 0 .. Len(c)
    OBVIOUS
  <2> HIDE DEF T
  <2> QED
    BY <1>1, <1>2, <2>1, InductionUpTo
<1>4. Components(Place(c)) = c
  <2>1. SubSeq(c, 1, Len(c)) = c
    OBVIOUS
  <2> QED
    BY <1>3, <2>1
<1>5. Components(Render(c)) = c
  BY <1>4, ComponentsOfOne DEF Render
<1> QED
  BY <1>4, <1>5

-----------------------------------------------------------------------------
(* A path of one token.                                                    *)
LEMMA OneToken ==
  ASSUME NEW t \in Tokens
  PROVE  /\ SubSeq(<<t>>, 1, 1) = <<t>>
         /\ \A p \in Seq(Tokens) : Len(p) = 1 /\ p[1] = t => p = <<t>>
<1>1. ASSUME NEW p \in Seq(Tokens), Len(p) = 1, p[1] = t PROVE p = <<t>>
  <2>1. <<t>> \in Seq(Tokens) /\ Len(<<t>>) = 1 /\ <<t>>[1] = t
    OBVIOUS
  <2>2. \A i \in 1 .. 1 : i = 1
    OBVIOUS
  <2> QED
    BY <1>1, <2>1, <2>2
<1>2. SubSeq(<<t>>, 1, 1) \in Seq(Tokens) /\ Len(SubSeq(<<t>>, 1, 1)) = 1 /\ SubSeq(<<t>>, 1, 1)[1] = t
  OBVIOUS
<1> QED
  BY <1>1, <1>2

(* One token of a path: sanitize_absolute_path writes what a walker does.  *)
LEMMA SanitizeStep ==
  ASSUME NEW c \in Seq(Names), NEW t \in Tokens
  PROVE  /\ Follow(c, t) \in Seq(Names)
         /\ SanitizeToken(Render(c), t) = Render(Follow(c, t))
<1>1. /\ Place(c) \in Seq(Tokens) /\ Len(Place(c)) = 2 * Len(c)
      /\ \A i \in 1 .. Len(c) : Place(c)[2 * i - 1] = Slash /\ Place(c)[2 * i] = c[i]
  BY PlaceIs
<1>2. CASE t \in {Slash, Dot}
  BY <1>2 DEF Follow, SanitizeToken, Slash, Dot, DotDot
<1>3. CASE t = DotDot
  <2>1. Follow(c, t) = (IF c = <<>> THEN <<>> ELSE Front(c)) /\ SanitizeToken(Render(c), t) = Backtrack(Render(c))
    BY <1>3 DEF Follow, SanitizeToken, Slash, Dot, DotDot
  <2>2. CASE c = <<>>
    <3>1. Render(c) = <<Slash>>
      BY <2>2 DEF Render
    <3>2. SelectLastInSeq(<<Slash>>, LAMBDA u : u = Slash) = 1
      <4>1. {i \in 1 .. Len(<<Slash>>) : <<Slash>>[i] = Slash} = {1}
        OBVIOUS
      <4>2. Max({1}) = 1
        <5>1. {1} \in SUBSET Int /\ 1 \in {1} /\ \A k \in {1} : k <= 1
          OBVIOUS
        <5> QED
          BY <5>1, MaxIs
      <4> QED
        BY <4>1, <4>2 DEF SelectLastInSeq
    <3>3. SubSeq(<<Slash>>, 1, 1) = <<Slash>>
      BY OneToken DEF Tokens
    <3> QED
      BY <2>1, <2>2, <3>1, <3>2, <3>3 DEF Backtrack
  <2>3. CASE c # <<>>
    <3> DEFINE n == Len(c)
               I == {i \in 1 .. Len(Place(c)) : Place(c)[i] = Slash}
    <3>1. Render(c) = Place(c) /\ n \in Nat /\ n > 0 /\ Follow(c, t) = Front(c)
      BY <2>1, <2>3 DEF Render
    <3>2. 2 * n - 1 \in I /\ I \in SUBSET Int /\ \A i \in I : i <= 2 * n - 1
      <4>1. Place(c)[2 * n - 1] = Slash /\ Place(c)[2 * n] = c[n] /\ c[n] \in Names
        BY <1>1, <3>1
      <4> QED
        BY <1>1, <3>1, <4>1, NamesApart
    <3>3. Max(I) = 2 * n - 1
      <4> HIDE DEF I
      <4> QED
        BY <3>2, MaxIs
    <3>4. SelectLastInSeq(Place(c), LAMBDA u : u = Slash) = 2 * n - 1
      BY <3>2, <3>3 DEF SelectLastInSeq
    <3>8. Backtrack(Place(c)) = SubSeq(Place(c), 1, IF 2 * n - 1 = 1 THEN 1 ELSE (2 * n - 1) - 1)
      BY <3>4 DEF Backtrack
    <3>5. Front(c) = SubSeq(c, 1, n - 1) /\ n - 1 \in 0 .. n
      BY <3>1 DEF Front
    <3>6. Front(c) \in Seq(Names) /\ Len(Front(c)) = n - 1 /\ Place(Front(c)) = SubSeq(Place(c), 1, 2 * (n - 1))
      BY <3>5, PlacePrefix
    <3>7. Backtrack(Place(c)) = Render(Front(c))
      <4>1. CASE n = 1
        <5>1. Front(c) = <<>> /\ Render(Front(c)) = <<Slash>>
          BY <3>6, <4>1 DEF Render
        <5>2. SubSeq(Place(c), 1, 1) = <<Slash>>
          <6>1. /\ SubSeq(Place(c), 1, 1) \in Seq(Tokens) /\ Len(SubSeq(Place(c), 1, 1)) = 1
                /\ SubSeq(Place(c), 1, 1)[1] = Place(c)[1]
            BY <1>1, <4>1
          <6>2. Place(c)[1] = Slash
            <7>1. 1 \in 1 .. Len(c) /\ 2 * 1 - 1 = 1
              BY <4>1
            <7> QED
              BY <1>1, <7>1
          <6>3. Slash \in Tokens
            BY DEF Tokens
          <6> HIDE DEF n
          <6> QED
            BY <6>1, <6>2, <6>3, OneToken
        <5> QED
          <6>1. (IF 2 * n - 1 = 1 THEN 1 ELSE (2 * n - 1) - 1) = 1
            BY <4>1
          <6> HIDE DEF n
          <6> QED
            BY <3>8, <5>1, <5>2, <6>1
      <4>2. CASE n > 1
        <5>1. Render(Front(c)) = Place(Front(c))
          BY <3>6, <4>2 DEF Render
        <5>2. 2 * n - 1 # 1 /\ (2 * n - 1) - 1 = 2 * (n - 1)
          BY <3>1, <4>2
        <5> QED
          <6>1. (IF 2 * n - 1 = 1 THEN 1 ELSE (2 * n - 1) - 1) = 2 * (n - 1)
            BY <5>2
          <6> HIDE DEF n
          <6> QED
            BY <3>6, <3>8, <5>1, <6>1
      <4>3. n = 1 \/ n > 1
        <5> HIDE DEF n
        <5> QED
          BY <3>1
      <4> QED
        BY <4>1, <4>2, <4>3
    <3> QED
      BY <2>1, <3>1, <3>6, <3>7
  <2> QED
    BY <2>2, <2>3
<1>4. CASE t \in Names
  <2>1. /\ Follow(c, t) = Append(c, t)
        /\ SanitizeToken(Render(c), t) = IF Last(Render(c)) = Slash THEN Append(Render(c), t)
                                         ELSE Render(c) \o <<Slash, t>>
    BY <1>4, NamesApart DEF Follow, SanitizeToken
  <2>2. Append(c, t) \in Seq(Names) /\ Render(Append(c, t)) = Place(c) \o <<Slash, t>>
    <3>1. Append(c, t) \in Seq(Names) /\ Len(Append(c, t)) = Len(c) + 1 /\ Len(c) \in Nat
      BY <1>4
    <3>2. Append(c, t) # <<>>
      BY <3>1
    <3> QED
      BY <1>4, <3>1, <3>2, PlaceGrows DEF Render
  <2>3. CASE c = <<>>
    <3>1. Render(c) = <<Slash>> /\ Place(c) = <<>>
      BY <1>1, <2>3 DEF Render
    <3>2. Last(<<Slash>>) = Slash /\ Append(<<Slash>>, t) = <<>> \o <<Slash, t>>
      <4>1. <<Slash, t>> \in Seq(Tokens) /\ <<Slash>> \in Seq(Tokens) /\ Len(<<Slash>>) = 1
        BY DEF Tokens
      <4>4. Append(<<Slash>>, t) = <<Slash, t>>
        BY TwoMore DEF Tokens
      <4>2. <<>> \o <<Slash, t>> = <<Slash, t>>
        BY <4>1
      <4>3. Last(<<Slash>>) = Slash
        BY DEF Last
      <4> QED
        BY <4>4, <4>2, <4>3
    <3> QED
      BY <2>1, <2>2, <3>1, <3>2
  <2>4. CASE c # <<>>
    <3>1. Render(c) = Place(c) /\ Len(c) \in 1 .. Len(c) /\ c[Len(c)] \in Names
      BY <2>4 DEF Render
    <3>2. Last(Place(c)) # Slash
      BY <1>1, <3>1, NamesApart DEF Last
    <3> QED
      BY <2>1, <2>2, <3>1, <3>2
  <2> QED
    BY <2>3, <2>4
<1> QED
  BY <1>2, <1>3, <1>4 DEF Tokens

-----------------------------------------------------------------------------
(***************************************************************************)
(* The folds, each as a run with one step per token.  A step that is an    *)
(* operator needs its own proof that the fold exists, for no lemma can be  *)
(* about all operators.                                                    *)
(***************************************************************************)
(* Walking from the place c.                                               *)
LEMMA FollowRun ==
  ASSUME NEW c \in Seq(Names), NEW p \in Seq(Tokens)
  PROVE  \E run \in [0 .. Len(p) -> Seq(Names)] :
           /\ run[0] = c
           /\ \A k \in 1 .. Len(p) : run[k] = Follow(run[k - 1], p[k])
           /\ FoldLeft(Follow, c, p) = run[Len(p)]
<1> DEFINE n == Len(p)
           S == Seq(Names)
           G == [q \in S \X (1 .. n) |-> Follow(q[1], p[q[2]])]
           Folds(f) == f = [t \in SUBSET (1 .. n) |->
                              IF t = {} THEN c ELSE Follow(f[t \ {Max(t)}], p[Max(t)])]
           iter == CHOOSE f : Folds(f)
<1>1. n \in Nat /\ DOMAIN p = 1 .. n
  OBVIOUS
<1>2. FoldLeft(Follow, c, p) = iter[1 .. n]
  BY <1>1 DEF FoldLeft, MapThenFoldSet
<1>3. G \in [S \X (1 .. n) -> S] /\ c \in S
  <2>1. ASSUME NEW q \in S \X (1 .. n) PROVE Follow(q[1], p[q[2]]) \in S
    <3>1. q[1] \in S /\ q[2] \in 1 .. n /\ p[q[2]] \in Tokens
      BY <1>1
    <3> QED
      BY <3>1, SanitizeStep
  <2> QED
    BY <2>1
<1> HIDE DEF n
<1>4. Folds(iter)
  <2>1. PICK f \in [SUBSET (1 .. n) -> S] : FoldsSets(f, n, c, G)
    <3> HIDE DEF G, S
    <3> QED
      BY <1>1, <1>3, FoldExists
  <2>2. ASSUME NEW t \in SUBSET (1 .. n)
        PROVE  f[t] = IF t = {} THEN c ELSE Follow(f[t \ {Max(t)}], p[Max(t)])
    <3>1. CASE t = {}
      BY <2>1, <3>1 DEF FoldsSets
    <3>2. CASE t # {}
      <4>1. f[t \ {Max(t)}] \in S /\ Max(t) \in 1 .. n
        BY <1>1, <3>2, MaxIsIn
      <4>2. f[t] = G[f[t \ {Max(t)}], Max(t)]
        BY <2>1, <3>2, Zenon DEF FoldsSets
      <4>3. G[f[t \ {Max(t)}], Max(t)] = Follow(f[t \ {Max(t)}], p[Max(t)])
        BY <4>1
      <4> QED
        BY <3>2, <4>2, <4>3, Zenon
    <3> QED
      BY <3>1, <3>2
  <2>3. f = [t \in SUBSET (1 .. n) |-> f[t]]
    BY <2>1
  <2>4. Folds(f)
    BY <2>2, <2>3, Zenon
  <2> HIDE DEF Folds
  <2> QED
    BY <2>4, Zenon
<1> HIDE DEF iter
<1>5. iter[{}] = c
  BY <1>4
<1>6. ASSUME NEW t \in SUBSET (1 .. n), t # {}, iter[t \ {Max(t)}] \in S
      PROVE  iter[t] = G[iter[t \ {Max(t)}], Max(t)]
  <2>1. iter[t] = Follow(iter[t \ {Max(t)}], p[Max(t)])
    BY <1>4, <1>6
  <2>2. Max(t) \in 1 .. n
    BY <1>1, <1>6, MaxIsIn
  <2> QED
    BY <1>6, <2>1, <2>2
<1>7. PICK run \in [0 .. n -> S] : RunsAs(run, iter, n, c, G)
  <2> HIDE DEF G, S
  <2>1. FoldsBy(iter, n, c, S, G)
    BY <1>5, <1>6, Zenon DEF FoldsBy
  <2> QED
    BY <1>1, <1>3, <2>1, FoldRun
<1>8. ASSUME NEW k \in 1 .. n PROVE run[k] = Follow(run[k - 1], p[k])
  <2>1. k - 1 \in 0 .. n
    BY <1>1
  <2> QED
    BY <1>7, <2>1 DEF RunsAs
<1> QED
  BY <1>2, <1>7, <1>8 DEF n, RunsAs

(* sanitize_absolute_path of a whole path, from the root.                  *)
LEMMA SanitizeRun ==
  ASSUME NEW p \in Seq(Tokens)
  PROVE  /\ FoldLeft(Follow, <<>>, p) \in Seq(Names)
         /\ FoldLeft(SanitizeToken, <<Slash>>, p) = Render(FoldLeft(Follow, <<>>, p))
<1> DEFINE n == Len(p)
           S == {Render(c) : c \in Seq(Names)}
           b == <<Slash>>
           G == [q \in S \X (1 .. n) |-> SanitizeToken(q[1], p[q[2]])]
           Folds(f) == f = [t \in SUBSET (1 .. n) |->
                              IF t = {} THEN b ELSE SanitizeToken(f[t \ {Max(t)}], p[Max(t)])]
           iter == CHOOSE f : Folds(f)
<1>1. n \in Nat /\ DOMAIN p = 1 .. n
  OBVIOUS
<1>2. FoldLeft(SanitizeToken, b, p) = iter[1 .. n]
  BY <1>1 DEF FoldLeft, MapThenFoldSet
<1>10. b = Render(<<>>) /\ <<>> \in Seq(Names)
  BY DEF Render
<1>3. G \in [S \X (1 .. n) -> S] /\ b \in S
  <2>1. ASSUME NEW q \in S \X (1 .. n) PROVE SanitizeToken(q[1], p[q[2]]) \in S
    <3>1. q[1] \in S /\ q[2] \in 1 .. n /\ p[q[2]] \in Tokens
      BY <1>1
    <3>2. PICK c \in Seq(Names) : q[1] = Render(c)
      BY <3>1
    <3>3. SanitizeToken(q[1], p[q[2]]) = Render(Follow(c, p[q[2]])) /\ Follow(c, p[q[2]]) \in Seq(Names)
      BY <3>1, <3>2, SanitizeStep
    <3> QED
      BY <3>3
  <2>2. b \in S
    <3> HIDE DEF b
    <3> QED
      BY <1>10
  <2> QED
    BY <2>1, <2>2
<1> HIDE DEF n, b
<1>4. Folds(iter)
  <2>1. PICK f \in [SUBSET (1 .. n) -> S] : FoldsSets(f, n, b, G)
    <3> HIDE DEF G, S
    <3> QED
      BY <1>1, <1>3, FoldExists
  <2>2. ASSUME NEW t \in SUBSET (1 .. n)
        PROVE  f[t] = IF t = {} THEN b ELSE SanitizeToken(f[t \ {Max(t)}], p[Max(t)])
    <3>1. CASE t = {}
      BY <2>1, <3>1 DEF FoldsSets
    <3>2. CASE t # {}
      <4>1. f[t \ {Max(t)}] \in S /\ Max(t) \in 1 .. n
        <5> HIDE DEF S
        <5> QED
          BY <1>1, <3>2, MaxIsIn
      <4>2. f[t] = G[f[t \ {Max(t)}], Max(t)]
        BY <2>1, <3>2, Zenon DEF FoldsSets
      <4>3. G[f[t \ {Max(t)}], Max(t)] = SanitizeToken(f[t \ {Max(t)}], p[Max(t)])
        <5> HIDE DEF S
        <5> QED
          BY <4>1
      <4> QED
        BY <3>2, <4>2, <4>3, Zenon
    <3> QED
      BY <3>1, <3>2
  <2>3. f = [t \in SUBSET (1 .. n) |-> f[t]]
    <3> HIDE DEF S
    <3> QED
      BY <2>1
  <2>4. Folds(f)
    BY <2>2, <2>3, Zenon
  <2> HIDE DEF Folds
  <2> QED
    BY <2>4, Zenon
<1> HIDE DEF iter, S
<1>5. iter[{}] = b
  BY <1>4
<1>6. ASSUME NEW t \in SUBSET (1 .. n), t # {}, iter[t \ {Max(t)}] \in S
      PROVE  iter[t] = G[iter[t \ {Max(t)}], Max(t)]
  <2>1. iter[t] = SanitizeToken(iter[t \ {Max(t)}], p[Max(t)])
    BY <1>4, <1>6
  <2>2. Max(t) \in 1 .. n
    BY <1>1, <1>6, MaxIsIn
  <2> QED
    BY <1>6, <2>1, <2>2
<1>7. PICK run \in [0 .. n -> S] : RunsAs(run, iter, n, b, G)
  <2> HIDE DEF G
  <2>1. FoldsBy(iter, n, b, S, G)
    BY <1>5, <1>6, Zenon DEF FoldsBy
  <2> QED
    BY <1>1, <1>3, <2>1, FoldRun
<1>8. ASSUME NEW k \in 1 .. n PROVE run[k] = SanitizeToken(run[k - 1], p[k])
  <2>1. k - 1 \in 0 .. n
    BY <1>1
  <2> QED
    BY <1>7, <2>1 DEF RunsAs
<1>9. PICK walk \in [0 .. n -> Seq(Names)] :
        /\ walk[0] = <<>>
        /\ \A k \in 1 .. n : walk[k] = Follow(walk[k - 1], p[k])
        /\ FoldLeft(Follow, <<>>, p) = walk[n]
  BY <1>10, FollowRun DEF n
<1> DEFINE T == {k \in 0 .. n : run[k] = Render(walk[k])}
<1>11. 0 \in T
  <2>1. 0 \in 0 .. n
    BY <1>1
  <2>2. run[0] = b
    BY <1>7 DEF RunsAs
  <2>3. run[0] = Render(walk[0])
    BY <1>9, <1>10, <2>2
  <2> QED
    BY <2>1, <2>3
<1>12. ASSUME NEW k \in 1 .. n, k - 1 \in T PROVE k \in T
  <2>1. k \in 0 .. n /\ k - 1 \in 0 .. n /\ run[k - 1] = Render(walk[k - 1]) /\ p[k] \in Tokens
    BY <1>1, <1>12
  <2>2. walk[k - 1] \in Seq(Names)
    BY <1>9, <2>1
  <2>3. SanitizeToken(Render(walk[k - 1]), p[k]) = Render(Follow(walk[k - 1], p[k]))
    BY <2>1, <2>2, SanitizeStep
  <2>4. run[k] = Render(walk[k])
    BY <1>8, <1>9, <2>1, <2>3
  <2> QED
    BY <2>1, <2>4
<1>13. 0 .. n \subseteq T
  <2> HIDE DEF T
  <2> QED
    BY <1>1, <1>11, <1>12, InductionUpTo
<1>14. n \in 0 .. n
  BY <1>1
<1>15. run[n] = Render(walk[n]) /\ walk[n] \in Seq(Names)
  BY <1>9, <1>13, <1>14
<1> QED
  BY <1>2, <1>7, <1>9, <1>15 DEF RunsAs, b

(* Walking a place's path first leads to the place.                        *)
LEMMA WalkFromPlace ==
  ASSUME NEW c \in Seq(Names), NEW p \in Seq(Tokens)
  PROVE  LET q == Place(c) \o <<Slash>> \o p
         IN  /\ q \in Seq(Tokens) /\ is_absolute_path(q)
             /\ FoldLeft(Follow, <<>>, q) = FoldLeft(Follow, c, p)
<1> DEFINE m == 2 * Len(c) + 1
           q == Place(c) \o <<Slash>> \o p
           r == Place(c) \o <<Slash>>
<1>1. /\ Place(c) \in Seq(Tokens) /\ Len(Place(c)) = 2 * Len(c)
      /\ \A i \in 1 .. Len(c) : Place(c)[2 * i - 1] = Slash /\ Place(c)[2 * i] = c[i]
  BY PlaceIs
<1>2. <<Slash>> \in Seq(Tokens) /\ Len(<<Slash>>) = 1 /\ <<Slash>>[1] = Slash
  BY DEF Tokens
<1>3. /\ r \in Seq(Tokens) /\ Len(r) = m
      /\ \A i \in 1 .. m : r[i] = IF i <= 2 * Len(c) THEN Place(c)[i] ELSE Slash
  <2>1. /\ r \in Seq(Tokens) /\ Len(r) = Len(Place(c)) + Len(<<Slash>>)
        /\ \A i \in 1 .. Len(Place(c)) + Len(<<Slash>>) :
              r[i] = IF i <= Len(Place(c)) THEN Place(c)[i] ELSE <<Slash>>[i - Len(Place(c))]
    BY <1>1, <1>2, ConcatProperties
  <2>2. Len(Place(c)) + Len(<<Slash>>) = m
    BY <1>1, <1>2
  <2> HIDE DEF r
  <2>3. ASSUME NEW i \in 1 .. m PROVE r[i] = IF i <= 2 * Len(c) THEN Place(c)[i] ELSE Slash
    <3>1. r[i] = IF i <= 2 * Len(c) THEN Place(c)[i] ELSE <<Slash>>[i - 2 * Len(c)]
      BY <1>1, <2>1, <2>2
    <3>2. i <= 2 * Len(c) \/ i - 2 * Len(c) = 1
      OBVIOUS
    <3> QED
      BY <1>2, <3>1, <3>2
  <2> HIDE DEF m
  <2> QED
    BY <2>1, <2>2, <2>3
<1>4. /\ q \in Seq(Tokens) /\ Len(q) = m + Len(p)
      /\ \A i \in 1 .. m : q[i] = r[i]
      /\ \A i \in 1 .. Len(p) : q[m + i] = p[i]
  <2>1. /\ q \in Seq(Tokens) /\ Len(q) = Len(r) + Len(p)
        /\ \A i \in 1 .. Len(r) + Len(p) : q[i] = IF i <= Len(r) THEN r[i] ELSE p[i - Len(r)]
    BY <1>3, ConcatProperties
  <2>2. Len(c) \in Nat /\ Len(p) \in Nat /\ m \in Nat
    OBVIOUS
  <2>3. ASSUME NEW i \in 1 .. Len(p)
        PROVE  m + i \in 1 .. m + Len(p) /\ ~(m + i <= m) /\ (m + i) - m = i
    BY <2>2
  <2> HIDE DEF q, r, m
  <2> QED
    BY <1>3, <2>1, <2>2, <2>3
<1>5. Len(c) \in Nat /\ Len(p) \in Nat /\ m \in Nat
  OBVIOUS
<1>6. is_absolute_path(q)
  <2>1. 1 \in 1 .. m /\ Len(q) > 0
    BY <1>4, <1>5
  <2>2. r[1] = Slash
    <3>1. CASE Len(c) = 0
      BY <1>3, <2>1, <3>1
    <3>2. CASE Len(c) > 0
      <4>1. 1 \in 1 .. Len(c) /\ 2 * 1 - 1 = 1 /\ 1 <= 2 * Len(c)
        BY <1>5, <3>2
      <4> QED
        BY <1>1, <1>3, <2>1, <4>1
    <3> QED
      BY <1>5, <3>1, <3>2
  <2> HIDE DEF q, r, m
  <2> QED
    BY <1>4, <2>1, <2>2 DEF is_absolute_path
<1> HIDE DEF q, r
<1>7. PICK a \in [0 .. Len(q) -> Seq(Names)] :
        /\ a[0] = <<>>
        /\ \A k \in 1 .. Len(q) : a[k] = Follow(a[k - 1], q[k])
        /\ FoldLeft(Follow, <<>>, q) = a[Len(q)]
  <2>1. <<>> \in Seq(Names)
    OBVIOUS
  <2> QED
    BY <1>4, <2>1, FollowRun
<1>8. PICK d \in [0 .. Len(p) -> Seq(Names)] :
        /\ d[0] = c
        /\ \A k \in 1 .. Len(p) : d[k] = Follow(d[k - 1], p[k])
        /\ FoldLeft(Follow, c, p) = d[Len(p)]
  BY FollowRun
<1> DEFINE T == {k \in 0 .. Len(c) : a[2 * k] = SubSeq(c, 1, k)}
<1>9. 0 \in T
  <2>1. SubSeq(c, 1, 0) = <<>> /\ 2 * 0 = 0 /\ 0 \in 0 .. Len(c)
    BY <1>5
  <2> QED
    BY <1>7, <2>1
<1>10. ASSUME NEW k \in 1 .. Len(c), k - 1 \in T PROVE k \in T
  <2>1. /\ k \in 0 .. Len(c) /\ 2 * k - 1 \in 1 .. Len(q) /\ 2 * k \in 1 .. Len(q)
        /\ 2 * k - 1 \in 1 .. m /\ 2 * k \in 1 .. m /\ 2 * k - 1 <= 2 * Len(c) /\ 2 * k <= 2 * Len(c)
        /\ (2 * k - 1) - 1 = 2 * (k - 1)
    BY <1>4, <1>5
  <2>2. q[2 * k - 1] = Slash /\ q[2 * k] = c[k]
    BY <1>1, <1>3, <1>4, <2>1
  <2>3. a[2 * (k - 1)] = SubSeq(c, 1, k - 1)
    BY <1>10
  <2>4. a[2 * k - 1] = a[2 * (k - 1)]
    <3>1. a[2 * k - 1] = Follow(a[(2 * k - 1) - 1], q[2 * k - 1])
      BY <1>7, <2>1
    <3>2. a[2 * k - 1] = Follow(a[2 * (k - 1)], Slash)
      BY <2>1, <2>2, <3>1
    <3> QED
      BY <3>2 DEF Follow, Slash, Dot, DotDot
  <2>5. a[2 * k] = Append(a[2 * k - 1], c[k])
    <3>1. a[2 * k] = Follow(a[2 * k - 1], q[2 * k])
      BY <1>7, <2>1
    <3>2. c[k] \in Names
      OBVIOUS
    <3> QED
      BY <2>2, <3>1, <3>2, NamesApart DEF Follow
  <2>6. Append(SubSeq(c, 1, k - 1), c[k]) = SubSeq(c, 1, k)
    OBVIOUS
  <2> QED
    BY <2>1, <2>3, <2>4, <2>5, <2>6
<1>11. 0 .. Len(c) \subseteq T
  <2> HIDE DEF T
  <2> QED
    BY <1>5, <1>9, <1>10, InductionUpTo
<1>12. a[2 * Len(c)] = c
  <2>1. Len(c) \in 0 .. Len(c) /\ SubSeq(c, 1, Len(c)) = c
    BY <1>5
  <2> QED
    BY <1>11, <2>1
<1>13. a[m] = c
  <2>1. m \in 1 .. Len(q) /\ m - 1 = 2 * Len(c) /\ m \in 1 .. m /\ ~(m <= 2 * Len(c))
    BY <1>4, <1>5
  <2>2. q[m] = Slash
    BY <1>3, <1>4, <2>1
  <2>3. a[m] = Follow(a[m - 1], q[m])
    BY <1>7, <2>1
  <2>4. a[m] = Follow(c, Slash)
    BY <1>12, <2>1, <2>2, <2>3
  <2> QED
    BY <2>4 DEF Follow, Slash, Dot, DotDot
<1> HIDE DEF m
<1> DEFINE U == {k \in 0 .. Len(p) : a[m + k] = d[k]}
<1>14. 0 \in U
  <2>1. m + 0 = m /\ 0 \in 0 .. Len(p)
    BY <1>5
  <2> QED
    BY <1>8, <1>13, <2>1
<1>15. ASSUME NEW k \in 1 .. Len(p), k - 1 \in U PROVE k \in U
  <2>1. k \in 0 .. Len(p) /\ m + k \in 1 .. Len(q) /\ (m + k) - 1 = m + (k - 1)
    BY <1>4, <1>5
  <2>2. a[m + (k - 1)] = d[k - 1]
    BY <1>15
  <2>3. a[m + k] = Follow(a[(m + k) - 1], q[m + k])
    BY <1>7, <2>1
  <2>4. a[m + k] = d[k]
    BY <1>4, <1>8, <2>1, <2>2, <2>3
  <2> QED
    BY <2>1, <2>4
<1>16. 0 .. Len(p) \subseteq U
  <2> HIDE DEF U
  <2> QED
    BY <1>5, <1>14, <1>15, InductionUpTo
<1>17. a[Len(q)] = d[Len(p)]
  <2>1. Len(p) \in 0 .. Len(p) /\ Len(q) = m + Len(p)
    BY <1>4, <1>5
  <2> QED
    BY <1>16, <2>1
<1> QED
  BY <1>4, <1>6, <1>7, <1>8, <1>17 DEF q

(* sanitize_path leads where walking leads, in canonical form.             *)
LEMMA SanitizeWalks ==
  ASSUME NEW c \in Seq(Names), NEW p \in Seq(Tokens)
  PROVE  /\ Walk(c, p) \in Seq(Names)
         /\ sanitize_path(Place(c), p) = Render(Walk(c, p))
<1>1. CASE is_absolute_path(p)
  <2>1. Walk(c, p) = FoldLeft(Follow, <<>>, p)
    BY <1>1 DEF Walk
  <2>2. sanitize_path(Place(c), p) = FoldLeft(SanitizeToken, <<Slash>>, p)
    BY <1>1 DEF sanitize_path, sanitize_absolute_path
  <2> QED
    BY <2>1, <2>2, SanitizeRun
<1>2. CASE ~is_absolute_path(p)
  <2> DEFINE q == Place(c) \o <<Slash>> \o p
  <2>1. /\ q \in Seq(Tokens) /\ is_absolute_path(q)
        /\ FoldLeft(Follow, <<>>, q) = FoldLeft(Follow, c, p)
    BY WalkFromPlace
  <2>2. Walk(c, p) = FoldLeft(Follow, c, p)
    BY <1>2 DEF Walk
  <2>3. sanitize_path(Place(c), p) = sanitize_absolute_path(q)
    BY <1>2 DEF sanitize_path
  <2> HIDE DEF q
  <2>4. sanitize_absolute_path(q) = FoldLeft(SanitizeToken, <<Slash>>, q)
    BY <2>1 DEF sanitize_absolute_path
  <2> QED
    BY <2>1, <2>2, <2>3, <2>4, SanitizeRun
<1> QED
  BY <1>1, <1>2

(* A canonical path shows its hidden names, and no other dots.             *)
LEMMA HiddenIs ==
  ASSUME NEW c \in Seq(Names)
  PROVE  path_contains_hidden(Render(c)) <=> \E i \in 1 .. Len(c) : c[i] \in HiddenNames
<1>1. /\ Place(c) \in Seq(Tokens) /\ Len(Place(c)) = 2 * Len(c)
      /\ \A i \in 1 .. Len(c) : Place(c)[2 * i - 1] = Slash /\ Place(c)[2 * i] = c[i]
  BY PlaceIs
<1> DEFINE Hidden == HiddenNames \cup {Dot, DotDot}
<1>2. Slash \notin Hidden
  BY NamesAssumption DEF Names, Slash, Dot, DotDot
<1>3. CASE c = <<>>
  <2>1. Render(c) = <<Slash>> /\ Len(c) = 0
    BY <1>3 DEF Render
  <2>2. \A i \in 1 .. Len(<<Slash>>) : <<Slash>>[i] = Slash
    OBVIOUS
  <2> QED
    BY <1>2, <2>1, <2>2 DEF path_contains_hidden
<1>4. CASE c # <<>>
  <2>1. Render(c) = Place(c)
    BY <1>4 DEF Render
  <2>2. ASSUME NEW i \in 1 .. Len(c), c[i] \in HiddenNames
        PROVE  \E j \in 1 .. Len(Place(c)) : Place(c)[j] \in Hidden
    <3>1. 2 * i \in 1 .. 2 * Len(c)
      OBVIOUS
    <3> QED
      BY <1>1, <2>2, <3>1
  <2>3. ASSUME NEW j \in 1 .. Len(Place(c)), Place(c)[j] \in Hidden
        PROVE  \E i \in 1 .. Len(c) : c[i] \in HiddenNames
    <3>1. Len(c) \in Nat /\ j \in 1 .. 2 * Len(c)
      BY <1>1
    <3>2. PICK i \in 1 .. Len(c) : j = 2 * i - 1 \/ j = 2 * i
      BY <3>1, HalfOf
    <3>3. c[i] \in Hidden /\ c[i] \in Names
      BY <1>1, <1>2, <2>3, <3>2
    <3> QED
      BY <3>3, NamesApart
  <2> QED
    BY <2>1, <2>2, <2>3 DEF path_contains_hidden
<1> QED
  BY <1>3, <1>4

(* path_split visits the ancestors of a place, the root first.             *)
LEMMA SplitIs ==
  ASSUME NEW c \in Seq(Names)
  PROVE  path_split(Render(c)) =
           [k \in 1 .. Len(c) + 1 |-> [path |-> Render(SubSeq(c, 1, k - 1)),
                                       is_full_path |-> k = Len(c) + 1]]
<1> DEFINE n == Len(c)
           p == Render(c)
           cuts == {i \in 1 .. Len(p) : IsCut(p, i)}
           f == [k \in 1 .. n + 1 |-> IF k <= n THEN 2 * k - 1 ELSE IF n = 0 THEN 1 ELSE 2 * n]
<1>1. /\ Place(c) \in Seq(Tokens) /\ Len(Place(c)) = 2 * n
      /\ \A i \in 1 .. n : Place(c)[2 * i - 1] = Slash /\ Place(c)[2 * i] = c[i]
  BY PlaceIs
<1>2. n \in Nat
  OBVIOUS
<1>3. n = 0 => p = <<Slash>> /\ Len(p) = 1 /\ p[1] = Slash
  BY DEF Render
<1>4. n > 0 => p = Place(c)
  BY DEF Render
<1>5. ASSUME NEW i \in 1 .. n PROVE c[i] # Slash
  BY NamesApart
<1> HIDE DEF n, p
<1>6. cuts = {f[k] : k \in 1 .. n + 1}
  <2>1. CASE n = 0
    <3>1. cuts = {1}
      <4>2. Len(p) = 1 /\ p[1] = Slash
        BY <1>3, <2>1
      <4>3. 1 .. 1 = {1}
        OBVIOUS
      <4>1. 1 .. Len(p) = {1} /\ IsCut(p, 1)
        BY <4>2, <4>3, Zenon DEF IsCut
      <4> QED
        BY <4>1
    <3>2. \A k \in 1 .. n + 1 : f[k] = 1
      BY <2>1
    <3>3. 1 \in 1 .. n + 1
      BY <2>1
    <3> HIDE DEF cuts, f
    <3> QED
      BY <3>1, <3>2, <3>3
  <2>2. CASE n > 0
    <3>1. ASSUME NEW k \in 1 .. n + 1 PROVE f[k] \in cuts
      <4>1. CASE k <= n
        <5>1. f[k] = 2 * k - 1 /\ 2 * k - 1 \in 1 .. 2 * n /\ k \in 1 .. n
          BY <1>2, <4>1
        <5> QED
          BY <1>1, <1>4, <2>2, <5>1 DEF IsCut
      <4>2. CASE ~(k <= n)
        <5>1. f[k] = 2 * n /\ 2 * n \in 1 .. 2 * n
          BY <1>2, <2>2, <4>2
        <5> QED
          BY <1>1, <1>4, <2>2, <5>1 DEF IsCut
      <4> QED
        BY <4>1, <4>2
    <3>2. ASSUME NEW j \in cuts PROVE \E k \in 1 .. n + 1 : j = f[k]
      <4>1. j \in 1 .. 2 * n /\ (Place(c)[j] = Slash \/ j = 2 * n)
        BY <1>1, <1>4, <2>2 DEF IsCut
      <4>2. PICK i \in 1 .. n : j = 2 * i - 1 \/ j = 2 * i
        BY <1>2, <4>1, HalfOf
      <4>3. CASE j = 2 * i - 1
        <5>1. i \in 1 .. n + 1 /\ f[i] = 2 * i - 1
          BY <1>2
        <5> QED
          BY <4>3, <5>1
      <4>4. CASE j = 2 * i
        <5>1. Place(c)[2 * i] # Slash
          BY <1>1, <1>5
        <5>2. j = 2 * n
          BY <4>1, <4>4, <5>1
        <5>3. n + 1 \in 1 .. n + 1 /\ f[n + 1] = 2 * n
          BY <1>2, <2>2
        <5> QED
          BY <5>2, <5>3
      <4> QED
        BY <4>2, <4>3, <4>4
    <3> HIDE DEF cuts, f
    <3> QED
      BY <3>1, <3>2
  <2> QED
    BY <1>2, <2>1, <2>2
<1>7. n + 1 \in Nat /\ f \in [1 .. n + 1 -> Nat] /\ \A i, j \in 1 .. n + 1 : i < j => f[i] < f[j]
  BY <1>2
<1>8. Cardinality(cuts) = n + 1 /\ \A k \in 1 .. n + 1 : Nth(cuts, k) = f[k]
  <2> HIDE DEF cuts, f
  <2> QED
    BY <1>6, <1>7, NthIs
<1>9. ASSUME NEW k \in 1 .. n + 1
      PROVE  CutPath(p, f[k]) = Render(SubSeq(c, 1, k - 1)) /\ (f[k] = Len(p)) = (k = n + 1)
  <2>1. k - 1 \in 0 .. n
    BY <1>2
  <2>2. /\ SubSeq(c, 1, k - 1) \in Seq(Names) /\ Len(SubSeq(c, 1, k - 1)) = k - 1
        /\ Place(SubSeq(c, 1, k - 1)) = SubSeq(Place(c), 1, 2 * (k - 1))
    BY <2>1, PlacePrefix DEF n
  <2>3. k = 1 => Render(SubSeq(c, 1, k - 1)) = <<Slash>>
    BY <2>2 DEF Render
  <2>4. k > 1 => Render(SubSeq(c, 1, k - 1)) = SubSeq(Place(c), 1, 2 * (k - 1))
    <3> SUFFICES ASSUME k > 1 PROVE Render(SubSeq(c, 1, k - 1)) = SubSeq(Place(c), 1, 2 * (k - 1))
      OBVIOUS
    <3>1. SubSeq(c, 1, k - 1) # <<>>
      <4> DEFINE d == SubSeq(c, 1, k - 1)
      <4>1. d \in Seq(Names) /\ Len(d) = k - 1
        BY <2>2
      <4> HIDE DEF d
      <4>2. d # <<>>
        BY <4>1
      <4> QED
        BY <4>2 DEF d
    <3> QED
      BY <2>2, <3>1 DEF Render
  <2>5. SubSeq(<<Slash>>, 1, 1) = <<Slash>>
    BY OneToken DEF Tokens
  <2>6. CASE n = 0
    <3>1. k = 1 /\ f[k] = 1 /\ p = <<Slash>> /\ Len(p) = 1 /\ p[1] = Slash
      BY <1>3, <2>6
    <3>2. CutPath(p, 1) = SubSeq(p, 1, 1)
      BY DEF CutPath
    <3> QED
      BY <2>3, <2>5, <2>6, <3>1, <3>2
  <2>7. CASE n > 0 /\ k = 1
    <3>1. f[k] = 1 /\ p = Place(c) /\ Len(p) = 2 * n
      <4>1. k <= n /\ 2 * k - 1 = 1
        BY <1>2, <2>7
      <4>2. f[k] = 1
        BY <4>1
      <4> QED
        BY <1>1, <1>4, <2>7, <4>2
    <3>2. CutPath(p, 1) = SubSeq(p, 1, 1)
      BY DEF CutPath
    <3>3. SubSeq(p, 1, 1) = <<Slash>>
      <4>1. /\ SubSeq(p, 1, 1) \in Seq(Tokens) /\ Len(SubSeq(p, 1, 1)) = 1
            /\ SubSeq(p, 1, 1)[1] = p[1]
        BY <1>1, <1>2, <2>7, <3>1
      <4>2. p[1] = Slash
        <5>1. 1 \in 1 .. n /\ 2 * 1 - 1 = 1
          BY <1>2, <2>7
        <5> QED
          BY <1>1, <3>1, <5>1
      <4>3. Slash \in Tokens
        BY DEF Tokens
      <4> QED
        BY <4>1, <4>2, <4>3, OneToken
    <3>4. (f[k] = Len(p)) = (k = n + 1)
      <4>1. ~(1 = 2 * n) /\ ~(1 = n + 1)
        BY <1>2, <2>7
      <4> QED
        BY <2>7, <3>1, <4>1
    <3> QED
      BY <2>3, <2>7, <3>1, <3>2, <3>3, <3>4
  <2>8. CASE n > 0 /\ k > 1 /\ k <= n
    <3>1. f[k] = 2 * k - 1 /\ p = Place(c) /\ Len(p) = 2 * n /\ 2 * k - 1 # 1 /\ (2 * k - 1) - 1 = 2 * (k - 1)
      BY <1>1, <1>4, <2>8
    <3>2. p[2 * k - 1] = Slash
      BY <1>1, <2>8, <3>1
    <3>3. CutPath(p, f[k]) = SubSeq(p, 1, 2 * (k - 1))
      BY <3>1, <3>2 DEF CutPath
    <3>4. ~(2 * k - 1 = 2 * n) /\ ~(k = n + 1)
      BY <1>2, <2>8
    <3> QED
      BY <2>4, <2>8, <3>1, <3>3, <3>4
  <2>9. CASE n > 0 /\ k = n + 1
    <3>1. f[k] = 2 * n /\ p = Place(c) /\ Len(p) = 2 * n /\ 2 * (k - 1) = 2 * n /\ k > 1
      BY <1>1, <1>2, <1>4, <2>9
    <3>2. p[2 * n] # Slash
      <4>1. n \in 1 .. n
        BY <1>2, <2>9
      <4> QED
        BY <1>1, <1>5, <3>1, <4>1
    <3>3. CutPath(p, f[k]) = SubSeq(p, 1, 2 * n)
      BY <3>1, <3>2 DEF CutPath
    <3> QED
      BY <2>4, <2>9, <3>1, <3>3
  <2> QED
    BY <1>2, <2>6, <2>7, <2>8, <2>9
<1>10. path_split(p) = [k \in 1 .. Cardinality(cuts) |->
         [path |-> CutPath(p, Nth(cuts, k)), is_full_path |-> Nth(cuts, k) = Len(p)]]
  BY DEF path_split
<1> HIDE DEF cuts, f
<1>11. ASSUME NEW k \in 1 .. n + 1
       PROVE  [path |-> CutPath(p, Nth(cuts, k)), is_full_path |-> Nth(cuts, k) = Len(p)]
                = [path |-> Render(SubSeq(c, 1, k - 1)), is_full_path |-> k = n + 1]
  BY <1>8, <1>9
<1> QED
  BY <1>8, <1>10, <1>11 DEF n, p

-----------------------------------------------------------------------------
(***************************************************************************)
(* Lookups.                                                                *)
(***************************************************************************)
Members(data) == {data[k] : k \in 1 .. Len(data)}

(* What the lookup of a table can give.                                    *)
FlagsOf(inodes, data) == BaseFlags \cup UNION {inodes[i].flags_set : i \in Members(data)}

Lookups(inodes, data) ==
  [flags : SUBSET FlagsOf(inodes, data), inode : Members(data) \cup {NULL},
   mountpoint : Members(data) \cup {NULL}]

HitsOf(data) == [inode : Members(data) \cup {NULL}, is_full_path : BOOLEAN]

(* vfs_find_inode finds the inode at a place, if there is one.             *)
LEMMA FindAt ==
  ASSUME NEW inodes, NEW data, PlainTable(inodes, data), NEW c \in Seq(Names)
  PROVE  LET i == vfs_find_inode(inodes, data, Render(c))
         IN  /\ i \in Members(data) \cup {NULL}
             /\ i = NULL => At(inodes, data, c) = {}
             /\ i # NULL => At(inodes, data, c) = {i}
<1> DEFINE Ids == 1 .. Len(data)
           p == Render(c)
           Match(k) == Matches(inodes[data[k]], p)
           First(k) == Match(k) /\ \A l \in 1 .. k - 1 : ~Match(l)
<1>1. Len(data) \in Nat /\ \A k \in Ids : data[k] \in Nat
  BY DEF PlainTable
<1>2. \A k \in Ids : data[k] # NULL
  BY <1>1, NullAssumption
<1>3. ASSUME NEW k \in Ids PROVE Match(k) <=> inodes[data[k]].virtual_path = Place(c)
  <2>1. DropOneSlash(p) = Place(c)
    BY RenderIs
  <2>2. DropOneSlash(inodes[data[k]].virtual_path) = inodes[data[k]].virtual_path
    BY DEF PlainTable, EndsInSlash, DropOneSlash
  <2> QED
    BY <2>1, <2>2 DEF Matches, pathcmp
<1>4. At(inodes, data, c) = {data[k] : k \in {l \in Ids : Match(l)}}
  <2>1. At(inodes, data, c) = {i \in {data[k] : k \in Ids} : inodes[i].virtual_path = Place(c)}
    BY DEF At
  <2> HIDE DEF Match
  <2> QED
    BY <1>3, <2>1
<1>5. vfs_find_inode(inodes, data, p) =
        IF \E k \in Ids : Match(k) THEN data[CHOOSE k \in Ids : First(k)] ELSE NULL
  BY DEF vfs_find_inode
<1>6. ASSUME NEW k \in Ids, NEW l \in Ids, Match(k), Match(l) PROVE k = l
  BY <1>3, <1>6 DEF PlainTable
<1> HIDE DEF Match, p
<1>7. CASE \E k \in Ids : Match(k)
  <2>1. PICK k \in Ids : Match(k)
    BY <1>7
  <2>2. First(k)
    <3>1. \A l \in 1 .. k - 1 : l \in Ids /\ l # k
      BY <1>1
    <3> QED
      BY <1>6, <2>1, <3>1
  <2>3. (CHOOSE l \in Ids : First(l)) = k
    <3>1. \A l \in Ids : First(l) => l = k
      BY <1>6, <2>1
    <3> HIDE DEF First
    <3> QED
      BY <2>2, <3>1
  <2>4. vfs_find_inode(inodes, data, p) = data[k]
    <3> HIDE DEF First
    <3> QED
      BY <1>5, <1>7, <2>3
  <2>5. {l \in Ids : Match(l)} = {k}
    BY <1>6, <2>1
  <2>6. At(inodes, data, c) = {data[k]}
    BY <1>4, <2>5
  <2> QED
    BY <1>2, <2>4, <2>6 DEF Members, p
<1>8. CASE ~ \E k \in Ids : Match(k)
  <2>1. vfs_find_inode(inodes, data, p) = NULL
    BY <1>5, <1>8
  <2>2. At(inodes, data, c) = {}
    BY <1>4, <1>8
  <2> QED
    BY <2>1, <2>2 DEF p
<1> QED
  BY <1>7, <1>8

(***************************************************************************)
(* The deepest of the places down to depth k that has one of the inodes D. *)
(***************************************************************************)
Deepest(A, D, k) ==
  LET depths == {d \in 0 .. k : \E i \in A[d] : i \in D}
  IN  IF depths = {} THEN {} ELSE A[CHOOSE d \in depths : \A e \in depths : e <= d]

(* One level down, the deepest hit is the new one or the one before.       *)
LEMMA DeepestIs ==
  ASSUME NEW A, NEW D, NEW k \in Nat
  PROVE  /\ (\E i \in A[k] : i \in D) => Deepest(A, D, k) = A[k]
         /\ ~(\E i \in A[k] : i \in D) => Deepest(A, D, k) = Deepest(A, D, k - 1)
<1> DEFINE Has_(d) == \E i \in A[d] : i \in D
           U(j) == {d \in 0 .. j : Has_(d)}
           Top(j) == CHOOSE d \in U(j) : \A e \in U(j) : e <= d
<1>1. \A j \in Int : Deepest(A, D, j) = IF U(j) = {} THEN {} ELSE A[Top(j)]
  BY DEF Deepest
<1> HIDE DEF Has_
<1>2. CASE Has_(k)
  <2>1. k \in U(k) /\ \A e \in U(k) : e <= k
    BY <1>2
  <2>2. \A d \in U(k) : (\A e \in U(k) : e <= d) => d = k
    BY <2>1
  <2>3. Top(k) = k
    <3> HIDE DEF U
    <3> QED
      BY <2>1, <2>2
  <2> QED
    BY <1>1, <1>2, <2>1, <2>3 DEF Has_
<1>3. CASE ~Has_(k)
  <2>1. U(k) = U(k - 1)
    BY <1>3
  <2>2. Deepest(A, D, k) = Deepest(A, D, k - 1)
    <3> HIDE DEF U
    <3> QED
      BY <1>1, <2>1
  <2> QED
    BY <1>3, <2>2 DEF Has_
<1> QED
  BY <1>2, <1>3

(* Nothing is above the root.                                              *)
LEMMA DeepestOfNone ==
  ASSUME NEW A, NEW D
  PROVE  Deepest(A, D, -1) = {}
<1>1. 0 .. -1 = {}
  OBVIOUS
<1> QED
  BY <1>1 DEF Deepest

Ancestors(inodes, data, c) == [d \in 0 .. Len(c) |-> At(inodes, data, SubSeq(c, 1, d))]

Mentions(inodes, data, f) ==
  {i \in Members(data) : f \in inodes[i].flags_set \cup inodes[i].flags_reset}

Targets(inodes, data) == {i \in Members(data) : inodes[i].target_path # NULL}

(* What the inodes decide about a flag, none of them the base flags.       *)
Decided(inodes, deciders, f) ==
  IF deciders = {} THEN f \in BaseFlags ELSE \A i \in deciders : f \notin inodes[i].flags_reset

(* Nearest is Deepest.                                                     *)
LEMMA FlagIs ==
  ASSUME NEW inodes, NEW data, NEW c \in Seq(Names), NEW f
  PROVE  HasFlag(inodes, data, c, f)
           <=> Decided(inodes, Deepest(Ancestors(inodes, data, c),
                                       Mentions(inodes, data, f), Len(c)), f)
<1> DEFINE n == Len(c)
           A == Ancestors(inodes, data, c)
           D == Mentions(inodes, data, f)
           Depths == {d \in 0 .. n : \E i \in At(inodes, data, SubSeq(c, 1, d)) :
                                      f \in inodes[i].flags_set \cup inodes[i].flags_reset}
           Top == CHOOSE d \in Depths : \A e \in Depths : e <= d
           N == IF Depths = {} THEN {} ELSE At(inodes, data, SubSeq(c, 1, Top))
<1>1. HasFlag(inodes, data, c, f) <=> Decided(inodes, N, f)
  BY DEF HasFlag, Nearest, Decided
<1>2. Depths = {d \in 0 .. n : \E i \in A[d] : i \in D}
  <2>1. ASSUME NEW d \in 0 .. n
        PROVE  (\E i \in At(inodes, data, SubSeq(c, 1, d)) :
                  f \in inodes[i].flags_set \cup inodes[i].flags_reset)
                 <=> \E i \in A[d] : i \in D
    BY DEF Ancestors, Mentions, At, Members
  <2> HIDE DEF A, D
  <2> QED
    BY <2>1
<1>3. Depths # {} => Top \in Depths
  <2> SUFFICES ASSUME Depths # {} PROVE Top \in Depths
    OBVIOUS
  <2>1. Depths \in SUBSET (0 .. n) /\ n \in Nat
    OBVIOUS
  <2> HIDE DEF Depths
  <2>2. \E d \in Depths : \A e \in Depths : e <= d
    BY <2>1, Largest
  <2> QED
    BY <2>2
<1>4. Depths # {} => At(inodes, data, SubSeq(c, 1, Top)) = A[Top]
  <2>1. Depths \subseteq 0 .. n
    OBVIOUS
  <2> HIDE DEF Depths, Top
  <2> QED
    BY <1>3, <2>1 DEF Ancestors
<1>5. N = Deepest(A, D, n)
  <2>1. Deepest(A, D, n) = IF Depths = {} THEN {} ELSE A[Top]
    <3> HIDE DEF A, D, Depths
    <3> QED
      BY <1>2 DEF Deepest
  <2> HIDE DEF A, D, Depths, Top
  <2> QED
    BY <1>4, <2>1
<1> QED
  BY <1>1, <1>5

(* LookupIsNearestAncestor's mountpoint is the deepest ancestor that has a *)
(* target.                                                                 *)
LEMMA MountpointsAre ==
  ASSUME NEW inodes, NEW data, NEW c \in Seq(Names)
  PROVE  Mountpoints(inodes, data, c)
           = Deepest(Ancestors(inodes, data, c), Targets(inodes, data), Len(c))
<1> DEFINE n == Len(c)
           A == Ancestors(inodes, data, c)
           D == Targets(inodes, data)
           Depths == {d \in 0 .. n : \E i \in At(inodes, data, SubSeq(c, 1, d)) :
                                      inodes[i].target_path # NULL}
           Top == CHOOSE d \in Depths : \A e \in Depths : e <= d
           N == IF Depths = {} THEN {} ELSE At(inodes, data, SubSeq(c, 1, Top))
<1>1. Mountpoints(inodes, data, c) = N
  BY DEF Mountpoints, Nearest
<1>2. Depths = {d \in 0 .. n : \E i \in A[d] : i \in D}
  <2>1. ASSUME NEW d \in 0 .. n
        PROVE  (\E i \in At(inodes, data, SubSeq(c, 1, d)) : inodes[i].target_path # NULL)
                 <=> \E i \in A[d] : i \in D
    BY DEF Ancestors, Targets, At, Members
  <2> HIDE DEF A, D
  <2> QED
    BY <2>1
<1>3. Depths # {} => Top \in Depths
  <2> SUFFICES ASSUME Depths # {} PROVE Top \in Depths
    OBVIOUS
  <2>1. Depths \in SUBSET (0 .. n) /\ n \in Nat
    OBVIOUS
  <2> HIDE DEF Depths
  <2>2. \E d \in Depths : \A e \in Depths : e <= d
    BY <2>1, Largest
  <2> QED
    BY <2>2
<1>4. Depths # {} => At(inodes, data, SubSeq(c, 1, Top)) = A[Top]
  <2>1. Depths \subseteq 0 .. n
    OBVIOUS
  <2> HIDE DEF Depths, Top
  <2> QED
    BY <1>3, <2>1 DEF Ancestors
<1>5. N = Deepest(A, D, n)
  <2>1. Deepest(A, D, n) = IF Depths = {} THEN {} ELSE A[Top]
    <3> HIDE DEF A, D, Depths
    <3> QED
      BY <1>2 DEF Deepest
  <2> HIDE DEF A, D, Depths, Top
  <2> QED
    BY <1>4, <2>1
<1> QED
  BY <1>1, <1>5

-----------------------------------------------------------------------------
(* One visit keeps a lookup a lookup.                                      *)
LEMMA VisitTyped ==
  ASSUME NEW inodes, NEW data, NEW r \in Lookups(inodes, data), NEW hit \in HitsOf(data)
  PROVE  vfs_lookup_splitter(inodes, r, hit) \in Lookups(inodes, data)
<1>1. CASE hit.inode = NULL
  BY <1>1 DEF vfs_lookup_splitter
<1>2. CASE hit.inode # NULL
  <2> DEFINE i == hit.inode
             flags == (r.flags \cup inodes[i].flags_set) \ inodes[i].flags_reset
             inode == IF hit.is_full_path THEN i ELSE r.inode
             mountpoint == IF inodes[i].target_path # NULL THEN i ELSE r.mountpoint
  <2>1. i \in Members(data)
    BY <1>2 DEF HitsOf
  <2>2. r.flags \subseteq FlagsOf(inodes, data) /\ inodes[i].flags_set \subseteq FlagsOf(inodes, data)
    BY <2>1 DEF Lookups, FlagsOf
  <2>3. flags \in SUBSET FlagsOf(inodes, data)
    BY <2>2
  <2>4. inode \in Members(data) \cup {NULL} /\ mountpoint \in Members(data) \cup {NULL}
    BY <2>1 DEF Lookups
  <2>5. vfs_lookup_splitter(inodes, r, hit) = [flags |-> flags, inode |-> inode, mountpoint |-> mountpoint]
    BY <1>2 DEF vfs_lookup_splitter
  <2> HIDE DEF flags, inode, mountpoint
  <2> QED
    BY <2>3, <2>4, <2>5 DEF Lookups
<1> QED
  BY <1>1, <1>2

NoLookup == [flags |-> BaseFlags, inode |-> NULL, mountpoint |-> NULL]

(* The splitter's fold is a run of vfs_lookup_splitter over the hits.      *)
LEMMA CollectedRun ==
  ASSUME NEW inodes, NEW data, NEW hits \in Seq(HitsOf(data))
  PROVE  \E run \in [0 .. Len(hits) -> Lookups(inodes, data)] :
           /\ run[0] = NoLookup
           /\ \A k \in 1 .. Len(hits) :
                run[k] = vfs_lookup_splitter(inodes, run[k - 1], hits[k])
           /\ Collected(inodes, hits) = run[Len(hits)]
<1> DEFINE n == Len(hits)
           S == Lookups(inodes, data)
           b == NoLookup
           G == [q \in S \X (1 .. n) |-> vfs_lookup_splitter(inodes, q[1], hits[q[2]])]
           Folds(f) == f = [t \in SUBSET (1 .. n) |->
                              IF t = {} THEN b
                              ELSE vfs_lookup_splitter(inodes, f[t \ {Max(t)}], hits[Max(t)])]
           iter == CHOOSE f : Folds(f)
<1>1. n \in Nat /\ DOMAIN hits = 1 .. n
  OBVIOUS
<1>2. Collected(inodes, hits) = iter[1 .. n]
  BY <1>1 DEF Collected, FoldLeft, MapThenFoldSet, NoLookup
<1>3. G \in [S \X (1 .. n) -> S] /\ b \in S
  <2>1. ASSUME NEW q \in S \X (1 .. n) PROVE vfs_lookup_splitter(inodes, q[1], hits[q[2]]) \in S
    <3>1. q[1] \in S /\ q[2] \in 1 .. n /\ hits[q[2]] \in HitsOf(data)
      BY <1>1
    <3> QED
      BY <3>1, VisitTyped
  <2>2. b \in S
    BY DEF NoLookup, Lookups, FlagsOf
  <2> QED
    BY <2>1, <2>2
<1> HIDE DEF n, b
<1>4. Folds(iter)
  <2>1. PICK f \in [SUBSET (1 .. n) -> S] : FoldsSets(f, n, b, G)
    <3> HIDE DEF G, S
    <3> QED
      BY <1>1, <1>3, FoldExists
  <2>2. ASSUME NEW t \in SUBSET (1 .. n)
        PROVE  f[t] = IF t = {} THEN b
                      ELSE vfs_lookup_splitter(inodes, f[t \ {Max(t)}], hits[Max(t)])
    <3>1. CASE t = {}
      BY <2>1, <3>1 DEF FoldsSets
    <3>2. CASE t # {}
      <4>1. f[t \ {Max(t)}] \in S /\ Max(t) \in 1 .. n
        <5> HIDE DEF S
        <5> QED
          BY <1>1, <3>2, MaxIsIn
      <4>2. f[t] = G[f[t \ {Max(t)}], Max(t)]
        BY <2>1, <3>2, Zenon DEF FoldsSets
      <4>3. G[f[t \ {Max(t)}], Max(t)] = vfs_lookup_splitter(inodes, f[t \ {Max(t)}], hits[Max(t)])
        <5> HIDE DEF S
        <5> QED
          BY <4>1
      <4> QED
        BY <3>2, <4>2, <4>3, Zenon
    <3> QED
      BY <3>1, <3>2
  <2>3. f = [t \in SUBSET (1 .. n) |-> f[t]]
    <3> HIDE DEF S
    <3> QED
      BY <2>1
  <2>4. Folds(f)
    BY <2>2, <2>3, Zenon
  <2> HIDE DEF Folds
  <2> QED
    BY <2>4, Zenon
<1> HIDE DEF iter, S
<1>5. iter[{}] = b
  BY <1>4
<1>6. ASSUME NEW t \in SUBSET (1 .. n), t # {}, iter[t \ {Max(t)}] \in S
      PROVE  iter[t] = G[iter[t \ {Max(t)}], Max(t)]
  <2>1. iter[t] = vfs_lookup_splitter(inodes, iter[t \ {Max(t)}], hits[Max(t)])
    BY <1>4, <1>6
  <2>2. Max(t) \in 1 .. n
    BY <1>1, <1>6, MaxIsIn
  <2> QED
    BY <1>6, <2>1, <2>2
<1>7. PICK run \in [0 .. n -> S] : RunsAs(run, iter, n, b, G)
  <2> HIDE DEF G
  <2>1. FoldsBy(iter, n, b, S, G)
    BY <1>5, <1>6, Zenon DEF FoldsBy
  <2> QED
    BY <1>1, <1>3, <2>1, FoldRun
<1>8. ASSUME NEW k \in 1 .. n PROVE run[k] = vfs_lookup_splitter(inodes, run[k - 1], hits[k])
  <2>1. k - 1 \in 0 .. n
    BY <1>1
  <2> QED
    BY <1>7, <2>1 DEF RunsAs
<1> QED
  BY <1>2, <1>7, <1>8 DEF RunsAs, b, n, S

-----------------------------------------------------------------------------
Only(i) == IF i = NULL THEN {} ELSE {i}

(* What a lookup of c has collected down to depth d.                       *)
LookedUp(inodes, data, c, d, r) ==
  /\ \A f : f \in r.flags <=>
       Decided(inodes, Deepest(Ancestors(inodes, data, c), Mentions(inodes, data, f), d), f)
  /\ Only(r.mountpoint) = Deepest(Ancestors(inodes, data, c), Targets(inodes, data), d)

(* One callback of path_split keeps what the lookup has collected: the     *)
(* nearest ancestor, the nearest mountpoint, the flags of all.             *)
LEMMA LookupStep ==
  ASSUME NEW inodes, NEW data, NEW c \in Seq(Names), NEW d \in 0 .. Len(c),
         NEW r \in Lookups(inodes, data), LookedUp(inodes, data, c, d - 1, r),
         NEW hit \in HitsOf(data), Only(hit.inode) = At(inodes, data, SubSeq(c, 1, d))
  PROVE  LookedUp(inodes, data, c, d, vfs_lookup_splitter(inodes, r, hit))
<1> DEFINE A == Ancestors(inodes, data, c)
           q == vfs_lookup_splitter(inodes, r, hit)
<1>1. A[d] = Only(hit.inode) /\ d \in Nat
  BY DEF Ancestors
<1>2. CASE hit.inode = NULL
  <2>1. q = r /\ A[d] = {}
    BY <1>1, <1>2 DEF vfs_lookup_splitter, Only
  <2>2. \A D : Deepest(A, D, d) = Deepest(A, D, d - 1)
    BY <1>1, <2>1, DeepestIs
  <2> HIDE DEF A, q
  <2> QED
    BY <2>1, <2>2 DEF LookedUp, A, q
<1>3. CASE hit.inode # NULL
  <2> DEFINE i == hit.inode
  <2>1. A[d] = {i} /\ i \in Members(data)
    BY <1>1, <1>3 DEF Only, HitsOf
  <2>2. /\ q.flags = (r.flags \cup inodes[i].flags_set) \ inodes[i].flags_reset
        /\ q.mountpoint = IF inodes[i].target_path # NULL THEN i ELSE r.mountpoint
    BY <1>3 DEF vfs_lookup_splitter
  <2>3. ASSUME NEW f
        PROVE  f \in q.flags <=> Decided(inodes, Deepest(A, Mentions(inodes, data, f), d), f)
    <3>1. CASE i \in Mentions(inodes, data, f)
      <4>1. Deepest(A, Mentions(inodes, data, f), d) = {i}
        <5> HIDE DEF A, i
        <5> QED
          BY <1>1, <2>1, <3>1, DeepestIs
      <4>2. f \in inodes[i].flags_set \cup inodes[i].flags_reset
        BY <3>1 DEF Mentions
      <4>3. Decided(inodes, {i}, f) <=> f \notin inodes[i].flags_reset
        BY DEF Decided
      <4> HIDE DEF A, q, i
      <4> QED
        BY <2>2, <4>1, <4>2, <4>3
    <3>2. CASE i \notin Mentions(inodes, data, f)
      <4>1. Deepest(A, Mentions(inodes, data, f), d) = Deepest(A, Mentions(inodes, data, f), d - 1)
        <5> HIDE DEF A, i
        <5> QED
          BY <1>1, <2>1, <3>2, DeepestIs
      <4>2. f \notin inodes[i].flags_set \cup inodes[i].flags_reset
        BY <2>1, <3>2 DEF Mentions
      <4>3. f \in r.flags <=> Decided(inodes, Deepest(A, Mentions(inodes, data, f), d - 1), f)
        BY DEF LookedUp
      <4> HIDE DEF A, q, i
      <4> QED
        BY <2>2, <4>1, <4>2, <4>3
    <3> QED
      BY <3>1, <3>2
  <2>4. Only(q.mountpoint) = Deepest(A, Targets(inodes, data), d)
    <3>1. CASE i \in Targets(inodes, data)
      <4>1. Deepest(A, Targets(inodes, data), d) = {i}
        <5> HIDE DEF A, i
        <5> QED
          BY <1>1, <2>1, <3>1, DeepestIs
      <4>2. q.mountpoint = i
        BY <2>2, <3>1 DEF Targets
      <4> HIDE DEF A, q
      <4> QED
        BY <1>3, <4>1, <4>2 DEF Only
    <3>2. CASE i \notin Targets(inodes, data)
      <4>1. Deepest(A, Targets(inodes, data), d) = Deepest(A, Targets(inodes, data), d - 1)
        <5> HIDE DEF A, i
        <5> QED
          BY <1>1, <2>1, <3>2, DeepestIs
      <4>2. q.mountpoint = r.mountpoint
        BY <2>1, <2>2, <3>2 DEF Targets
      <4>3. Only(r.mountpoint) = Deepest(A, Targets(inodes, data), d - 1)
        BY DEF LookedUp
      <4> HIDE DEF A, q
      <4> QED
        BY <4>1, <4>2, <4>3
    <3> QED
      BY <3>1, <3>2
  <2> HIDE DEF q
  <2> QED
    BY <2>3, <2>4 DEF LookedUp, q
<1> QED
  BY <1>2, <1>3

(* vfs_lookup of a canonical path, in a plain table, gives the flags and   *)
(* the mountpoint that the nearest ancestors give, and the inode there.    *)
LEMMA LookupIs ==
  ASSUME NEW inodes, NEW data, PlainTable(inodes, data), NEW c \in Seq(Names)
  PROVE  LET r == vfs_lookup(inodes, data, Render(c))
         IN  /\ r \in Lookups(inodes, data)
             /\ \A f : f \in r.flags <=> HasFlag(inodes, data, c, f)
             /\ Only(r.inode) = At(inodes, data, c)
             /\ Only(r.mountpoint) = Mountpoints(inodes, data, c)
<1> DEFINE n == Len(c)
           Prefix(k) == SubSeq(c, 1, k - 1)
           hits == Hits(inodes, data, Render(c))
<1>1. n \in Nat /\ n + 1 \in Nat
  OBVIOUS
<1>2. hits = [k \in 1 .. n + 1 |-> [inode |-> vfs_find_inode(inodes, data, Render(Prefix(k))),
                                    is_full_path |-> k = n + 1]]
  <2> DEFINE visits == path_split(Render(c))
  <2>1. visits = [k \in 1 .. n + 1 |-> [path |-> Render(Prefix(k)), is_full_path |-> k = n + 1]]
    BY SplitIs
  <2>2. hits = [k \in 1 .. Len(visits) |-> [inode |-> vfs_find_inode(inodes, data, visits[k].path),
                                            is_full_path |-> visits[k].is_full_path]]
    BY DEF Hits
  <2> HIDE DEF visits, hits, n, Prefix
  <2>3. Len(visits) = n + 1
    BY <1>1, <2>1
  <2>4. ASSUME NEW k \in 1 .. n + 1
        PROVE  visits[k].path = Render(Prefix(k)) /\ visits[k].is_full_path = (k = n + 1)
    BY <2>1
  <2> QED
    BY <2>2, <2>3, <2>4
<1>3. ASSUME NEW k \in 1 .. n + 1
      PROVE  /\ k - 1 \in 0 .. n /\ Prefix(k) \in Seq(Names)
             /\ hits[k] \in HitsOf(data)
             /\ hits[k].is_full_path = (k = n + 1)
             /\ Only(hits[k].inode) = At(inodes, data, Prefix(k))
  <2>1. k - 1 \in 0 .. n
    BY <1>1
  <2>2. Prefix(k) \in Seq(Names)
    BY <2>1, PlacePrefix
  <2> HIDE DEF Prefix, hits, n
  <2>3. hits[k] = [inode |-> vfs_find_inode(inodes, data, Render(Prefix(k))), is_full_path |-> k = n + 1]
    BY <1>2
  <2> DEFINE i == vfs_find_inode(inodes, data, Render(Prefix(k)))
  <2>4. /\ i \in Members(data) \cup {NULL}
        /\ i = NULL => At(inodes, data, Prefix(k)) = {}
        /\ i # NULL => At(inodes, data, Prefix(k)) = {i}
    BY <2>2, FindAt
  <2> HIDE DEF i
  <2>5. hits[k] = [inode |-> i, is_full_path |-> k = n + 1]
    BY <2>3 DEF i
  <2>6. (k = n + 1) \in BOOLEAN
    OBVIOUS
  <2> QED
    BY <2>1, <2>2, <2>4, <2>5, <2>6 DEF HitsOf, Only
<1> HIDE DEF hits, Prefix
<1>4. hits \in Seq(HitsOf(data)) /\ Len(hits) = n + 1
  <2>1. hits \in [1 .. n + 1 -> HitsOf(data)]
    <3>1. hits = [k \in 1 .. n + 1 |-> hits[k]]
      BY <1>2
    <3> HIDE DEF n
    <3> QED
      BY <1>3, <3>1
  <2> HIDE DEF n
  <2> QED
    BY <1>1, <2>1
<1>5. PICK run \in [0 .. Len(hits) -> Lookups(inodes, data)] :
        /\ run[0] = NoLookup
        /\ \A k \in 1 .. Len(hits) : run[k] = vfs_lookup_splitter(inodes, run[k - 1], hits[k])
        /\ Collected(inodes, hits) = run[Len(hits)]
  BY <1>4, CollectedRun
<1> HIDE DEF n
<1> DEFINE T == {k \in 0 .. n + 1 : /\ LookedUp(inodes, data, c, k - 1, run[k])
                                    /\ k <= n => run[k].inode = NULL}
<1>6. 0 \in T
  <2>1. 0 \in 0 .. n + 1 /\ 0 - 1 = -1
    BY <1>1
  <2>2. run[0].flags = BaseFlags /\ run[0].mountpoint = NULL /\ run[0].inode = NULL
    BY <1>5 DEF NoLookup
  <2>3. LookedUp(inodes, data, c, -1, run[0])
    BY <2>2, DeepestOfNone DEF LookedUp, Decided, Only
  <2> QED
    BY <2>1, <2>2, <2>3
<1>7. ASSUME NEW k \in 1 .. n + 1, k - 1 \in T PROVE k \in T
  <2>1. k - 1 \in 0 .. n /\ k \in 0 .. n + 1 /\ k \in 1 .. Len(hits) /\ k - 1 \in 0 .. Len(hits)
    BY <1>1, <1>4
  <2>2. run[k - 1] \in Lookups(inodes, data) /\ run[k] = vfs_lookup_splitter(inodes, run[k - 1], hits[k])
    BY <1>5, <2>1
  <2>3. LookedUp(inodes, data, c, (k - 1) - 1, run[k - 1]) /\ run[k - 1].inode = NULL
    BY <1>7, <2>1
  <2>4. LookedUp(inodes, data, c, k - 1, run[k])
    <3>1. k - 1 \in 0 .. Len(c)
      BY <2>1 DEF n
    <3>2. hits[k] \in HitsOf(data) /\ Only(hits[k].inode) = At(inodes, data, SubSeq(c, 1, k - 1))
      BY <1>3 DEF Prefix
    <3> QED
      BY <2>2, <2>3, <3>1, <3>2, LookupStep
  <2>5. k <= n => run[k].inode = NULL
    <3> SUFFICES ASSUME k <= n PROVE run[k].inode = NULL
      OBVIOUS
    <3>1. hits[k].is_full_path = FALSE
      <4>1. ~(k = n + 1)
        BY <1>1
      <4> QED
        BY <1>3, <4>1
    <3> QED
      BY <2>2, <2>3, <3>1 DEF vfs_lookup_splitter
  <2> QED
    BY <2>1, <2>4, <2>5
<1>8. 0 .. n + 1 \subseteq T
  <2> HIDE DEF T
  <2> QED
    BY <1>1, <1>6, <1>7, InductionUpTo
<1> DEFINE r == run[n + 1]
<1>9. r \in Lookups(inodes, data) /\ LookedUp(inodes, data, c, n, r)
  <2>1. n + 1 \in 0 .. n + 1 /\ n + 1 \in 0 .. Len(hits) /\ (n + 1) - 1 = n
    BY <1>1, <1>4
  <2> QED
    BY <1>5, <1>8, <2>1
<1>10. Only(r.inode) = At(inodes, data, c)
  <2>1. n + 1 \in 1 .. Len(hits) /\ n + 1 \in 1 .. n + 1 /\ (n + 1) - 1 = n /\ n \in 0 .. n + 1 /\ n <= n
    BY <1>1, <1>4
  <2>2. r = vfs_lookup_splitter(inodes, run[n], hits[n + 1])
    BY <1>5, <2>1
  <2>3. run[n].inode = NULL
    BY <1>8, <2>1
  <2>4. hits[n + 1].is_full_path = TRUE
    BY <1>3, <2>1
  <2>5. Prefix(n + 1) = c
    <3>1. Prefix(n + 1) = SubSeq(c, 1, n)
      BY <2>1 DEF Prefix
    <3>2. SubSeq(c, 1, Len(c)) = c
      OBVIOUS
    <3> QED
      BY <3>1, <3>2 DEF n
  <2>6. r.inode = hits[n + 1].inode
    <3> HIDE DEF r
    <3>1. CASE hits[n + 1].inode = NULL
      BY <2>2, <2>3, <3>1 DEF vfs_lookup_splitter
    <3>2. CASE hits[n + 1].inode # NULL
      BY <2>2, <2>4, <3>2 DEF vfs_lookup_splitter
    <3> QED
      BY <3>1, <3>2
  <2> HIDE DEF r
  <2> QED
    BY <1>3, <2>1, <2>5, <2>6
<1>11. vfs_lookup(inodes, data, Render(c)) = r
  BY <1>4, <1>5 DEF vfs_lookup, hits
<1> HIDE DEF r
<1>12. \A f : f \in r.flags <=> HasFlag(inodes, data, c, f)
  BY <1>9, FlagIs DEF LookedUp, n
<1>13. Only(r.mountpoint) = Mountpoints(inodes, data, c)
  BY <1>9, MountpointsAre DEF LookedUp, n
<1> QED
  BY <1>9, <1>10, <1>11, <1>12, <1>13

(* The mountpoint is at or above the place and has a target.               *)
LEMMA MountpointHasTarget ==
  ASSUME NEW inodes, NEW data, NEW c \in Seq(Names), NEW i, Mountpoints(inodes, data, c) = {i}
  PROVE  /\ i \in Members(data) /\ inodes[i].target_path # NULL
         /\ \E d \in 0 .. Len(c) : inodes[i].virtual_path = Place(SubSeq(c, 1, d))
<1> DEFINE A == Ancestors(inodes, data, c)
           D == Targets(inodes, data)
           depths == {d \in 0 .. Len(c) : \E j \in A[d] : j \in D}
           top == CHOOSE d \in depths : \A e \in depths : e <= d
<1>1. IF depths = {} THEN {i} = {} ELSE {i} = A[top]
  <2>1. {i} = Deepest(A, D, Len(c))
    BY MountpointsAre
  <2> HIDE DEF A, D
  <2> QED
    BY <2>1 DEF Deepest
<1>2. depths # {}
  <2> HIDE DEF depths, A, top
  <2> QED
    BY <1>1
<1>3. top \in depths
  <2>1. depths \in SUBSET (0 .. Len(c)) /\ Len(c) \in Nat
    OBVIOUS
  <2> HIDE DEF depths
  <2>2. \E d \in depths : \A e \in depths : e <= d
    BY <1>2, <2>1, Largest
  <2> QED
    BY <2>2
<1>4. top \in 0 .. Len(c) /\ \E j \in A[top] : j \in D
  <2> HIDE DEF A, D, top
  <2> QED
    BY <1>3
<1>5. i \in D /\ i \in A[top]
  <2> HIDE DEF A, D, top, depths
  <2> QED
    BY <1>1, <1>2, <1>4
<1> HIDE DEF top, depths
<1>6. inodes[i].virtual_path = Place(SubSeq(c, 1, top))
  BY <1>4, <1>5 DEF Ancestors, At
<1> QED
  BY <1>4, <1>5, <1>6 DEF Targets

(* Paths have no two names in a row; nor do tails of paths, paths joined   *)
(* at a slash, and canonical paths.                                        *)
LEMMA TailIsPath ==
  ASSUME NEW p, IsPath(p), NEW k \in 0 .. Len(p) PROVE IsPath(SubSeq(p, k + 1, Len(p)))
<1> DEFINE q == SubSeq(p, k + 1, Len(p))
<1>1. p \in Seq(Tokens) /\ Len(p) \in Nat
  BY DEF IsPath
<1>2. q \in Seq(Tokens) /\ Len(q) = Len(p) - k /\ \A i \in 1 .. Len(p) - k : q[i] = p[k + i]
  BY <1>1
<1> HIDE DEF q
<1>3. ASSUME NEW i \in 1 .. Len(q) - 1 PROVE q[i] = Slash \/ q[i + 1] = Slash
  <2>1. /\ i \in 1 .. Len(p) - k /\ i + 1 \in 1 .. Len(p) - k /\ k + i \in 1 .. Len(p) - 1
        /\ k + (i + 1) = (k + i) + 1
    BY <1>1, <1>2
  <2>2. p[k + i] = Slash \/ p[(k + i) + 1] = Slash
    BY <2>1 DEF IsPath
  <2> QED
    BY <1>2, <2>1, <2>2
<1> QED
  BY <1>2, <1>3 DEF IsPath, q

(* A path followed by one that begins with a slash is a path.              *)
LEMMA PathsJoin ==
  ASSUME NEW p, IsPath(p), NEW q, IsPath(q), q # <<>> => q[1] = Slash
  PROVE  IsPath(p \o q)
<1>1. /\ p \in Seq(Tokens) /\ q \in Seq(Tokens) /\ Len(p) \in Nat /\ Len(q) \in Nat
  BY DEF IsPath
<1>2. /\ p \o q \in Seq(Tokens) /\ Len(p \o q) = Len(p) + Len(q)
      /\ \A i \in 1 .. Len(p) + Len(q) :
           (p \o q)[i] = IF i <= Len(p) THEN p[i] ELSE q[i - Len(p)]
  BY <1>1, ConcatProperties, Zenon
<1> DEFINE r == p \o q
<1> HIDE DEF r
<1>3. /\ r \in Seq(Tokens) /\ Len(r) = Len(p) + Len(q)
      /\ \A i \in 1 .. Len(p) : r[i] = p[i]
      /\ \A i \in 1 .. Len(q) : r[Len(p) + i] = q[i]
  <2>1. \A i \in 1 .. Len(p) : i \in 1 .. Len(p) + Len(q) /\ i <= Len(p)
    BY <1>1
  <2>2. \A i \in 1 .. Len(q) : /\ Len(p) + i \in 1 .. Len(p) + Len(q) /\ ~(Len(p) + i <= Len(p))
                               /\ (Len(p) + i) - Len(p) = i
    BY <1>1
  <2> QED
    BY <1>2, <2>1, <2>2 DEF r
<1>4. ASSUME NEW i \in 1 .. Len(r) - 1 PROVE r[i] = Slash \/ r[i + 1] = Slash
  <2>1. CASE i \in 1 .. Len(p) - 1
    <3>1. i \in 1 .. Len(p) /\ i + 1 \in 1 .. Len(p)
      BY <1>1, <2>1
    <3>2. p[i] = Slash \/ p[i + 1] = Slash
      BY <2>1 DEF IsPath
    <3> QED
      BY <1>3, <3>1, <3>2
  <2>2. CASE i = Len(p)
    <3>1. 1 \in 1 .. Len(q) /\ q # <<>>
      BY <1>1, <1>3, <2>2
    <3> QED
      BY <1>3, <2>2, <3>1
  <2>3. CASE i > Len(p)
    <3>1. PICK j \in 1 .. Len(q) - 1 : i = Len(p) + j
      <4>1. i - Len(p) \in 1 .. Len(q) - 1 /\ i = Len(p) + (i - Len(p))
        BY <1>1, <1>3, <2>3
      <4> QED
        BY <4>1
    <3>2. j \in 1 .. Len(q) /\ j + 1 \in 1 .. Len(q) /\ i + 1 = Len(p) + (j + 1)
      BY <1>1, <3>1
    <3>3. q[j] = Slash \/ q[j + 1] = Slash
      BY <3>1 DEF IsPath
    <3> QED
      BY <1>3, <3>1, <3>2, <3>3
  <2> QED
    BY <1>1, <1>3, <2>1, <2>2, <2>3
<1> QED
  BY <1>3, <1>4 DEF IsPath, r

(* The sanitized path of a place is a path.                                *)
LEMMA RenderIsPath ==
  ASSUME NEW c \in Seq(Names) PROVE IsPath(Render(c))
<1>1. CASE c = <<>>
  <2> DEFINE p == <<Slash>>
  <2>1. p \in Seq(Tokens) /\ Len(p) = 1
    BY DEF Tokens
  <2>2. Render(c) = p
    BY <1>1 DEF Render
  <2> HIDE DEF p
  <2>3. IsPath(p)
    BY <2>1 DEF IsPath
  <2> QED
    BY <2>2, <2>3
<1>2. CASE c # <<>>
  <2> DEFINE p == Place(c)
  <2>1. /\ p \in Seq(Tokens) /\ Len(p) = 2 * Len(c) /\ Len(c) \in Nat
        /\ \A i \in 1 .. Len(c) : p[2 * i - 1] = Slash
    BY PlaceIs
  <2> HIDE DEF p
  <2>2. ASSUME NEW j \in 1 .. Len(p) - 1 PROVE p[j] = Slash \/ p[j + 1] = Slash
    <3>1. j \in 1 .. 2 * Len(c)
      BY <2>1
    <3>2. PICK i \in 1 .. Len(c) : j = 2 * i - 1 \/ j = 2 * i
      BY <2>1, <3>1, HalfOf
    <3>3. CASE j = 2 * i
      <4>1. i + 1 \in 1 .. Len(c) /\ 2 * (i + 1) - 1 = j + 1
        BY <2>1, <3>3
      <4> QED
        BY <2>1, <4>1
    <3> QED
      BY <2>1, <3>2, <3>3
  <2>3. IsPath(p)
    BY <2>1, <2>2 DEF IsPath
  <2>4. Render(c) = p
    BY <1>2 DEF Render, p
  <2> QED
    BY <2>3, <2>4
<1> QED
  BY <1>1, <1>2

(* vfs_map_path puts the names below the mountpoint behind the target.     *)
LEMMA MapIs ==
  ASSUME NEW c \in Seq(Names), NEW d \in 0 .. Len(c), NEW mountpoint,
         mountpoint.virtual_path = Place(SubSeq(c, 1, d)),
         mountpoint.target_path \in Seq(Tokens)
  PROVE  LET t == mountpoint.target_path
             mapped == vfs_map_path(mountpoint, Render(c))
         IN  /\ mapped \in Seq(Tokens)
             /\ t # <<>> => Len(mapped) > 0 /\ mapped[1] = t[1]
             /\ IsPath(t) => IsPath(mapped)
             /\ Components(mapped) = Components(t) \o SubSeq(c, d + 1, Len(c))
<1> DEFINE p == Render(c)
           t == mountpoint.target_path
           v == 2 * d
           rest == SubSeq(p, v + 1, Len(p))
           e == SubSeq(c, 1, d)
           mapped == vfs_map_path(mountpoint, p)
<1>1. /\ e \in Seq(Names) /\ Len(e) = d /\ Place(e) = SubSeq(Place(c), 1, 2 * d)
      /\ Place(c) \in Seq(Tokens) /\ Len(Place(c)) = 2 * Len(c)
      /\ \A i \in 1 .. Len(c) : Place(c)[2 * i - 1] = Slash
  BY PlaceIs, PlacePrefix
<1>2. Len(Place(e)) = v /\ v \in Nat
  BY <1>1, PlaceIs
<1>3. p \in Seq(Tokens) /\ Len(p) > 0 /\ Components(p) = c /\ Len(p) \in Nat
  BY RenderIs, ComponentsOfPlace
<1>4. /\ v \in 0 .. Len(p) /\ SubSeq(p, 1, v) = Place(e)
      /\ v # Len(p) => p[v + 1] = Slash
  <2>1. CASE c = <<>>
    <3>1. d = 0 /\ p = <<Slash>> /\ SubSeq(p, 1, 0) = <<>> /\ Place(c) = <<>>
      BY <1>1, <2>1 DEF Render
    <3> QED
      BY <1>1, <3>1
  <2>2. CASE c # <<>>
    <3>1. p = Place(c) /\ v <= Len(p)
      BY <1>1, <2>2 DEF Render
    <3>2. ASSUME v # Len(p) PROVE p[v + 1] = Slash
      <4>1. d + 1 \in 1 .. Len(c) /\ 2 * (d + 1) - 1 = v + 1
        BY <1>1, <3>1, <3>2
      <4> QED
        BY <1>1, <3>1, <4>1
    <3> QED
      BY <1>1, <1>2, <1>3, <3>1, <3>2
  <2> QED
    BY <2>1, <2>2
<1>5. rest \in Seq(Tokens) /\ c = e \o Components(rest) /\ Components(rest) \in Seq(Tokens)
  <2>1. Components(p) = Components(SubSeq(p, 1, v)) \o Components(rest) /\ rest \in Seq(Tokens)
    BY <1>3, <1>4, ComponentsOfPrefix
  <2>2. Components(Place(e)) = e
    BY <1>1, ComponentsOfPlace
  <2> QED
    BY <1>3, <1>4, <2>1, <2>2, ComponentsTyped
<1>6. Components(rest) = SubSeq(c, d + 1, Len(c))
  <2> DEFINE x == Components(rest)
  <2> HIDE DEF x, e
  <2>1. x \in Seq(Tokens) /\ e \in Seq(Names) /\ Len(e) = d /\ c = e \o x
    BY <1>1, <1>5 DEF x
  <2>4. e \in Seq(Tokens)
    BY <2>1 DEF Tokens
  <2>5. Len(e \o x) = Len(e) + Len(x) /\ \A i \in 1 .. Len(x) : (e \o x)[Len(e) + i] = x[i]
    <3>1. /\ Len(e \o x) = Len(e) + Len(x)
          /\ \A i \in 1 .. Len(e) + Len(x) :
               (e \o x)[i] = IF i <= Len(e) THEN e[i] ELSE x[i - Len(e)]
      BY <2>1, <2>4, ConcatProperties, Zenon
    <3>2. Len(e) \in Nat /\ Len(x) \in Nat
      BY <2>1, <2>4
    <3>3. ASSUME NEW i \in 1 .. Len(x) PROVE (e \o x)[Len(e) + i] = x[i]
      <4>1. Len(e) + i \in 1 .. Len(e) + Len(x) /\ ~(Len(e) + i <= Len(e)) /\ (Len(e) + i) - Len(e) = i
        BY <3>2
      <4> QED
        BY <3>1, <4>1
    <3> QED
      BY <3>1, <3>3
  <2>2. /\ Len(c) = d + Len(x) /\ \A i \in 1 .. Len(x) : c[d + i] = x[i]
    BY <2>1, <2>5
  <2>3. x = SubSeq(c, d + 1, Len(c))
    BY <2>1, <2>2
  <2> QED
    BY <2>3 DEF x
<1> HIDE DEF e, p
<1>7. mapped = t \o rest
  <2>1. v = Len(mountpoint.virtual_path)
    BY <1>2 DEF e
  <2> DEFINE longer == t \o <<Slash>> \o SubSeq(p, v + 2, Len(p))
  <2>2. mapped = CASE Len(p) < v -> NULL [] Len(p) = v -> t [] Len(p) > v -> longer
    BY <2>1 DEF vfs_map_path
  <2>3. CASE v = Len(p)
    <3>1. rest = <<>> /\ t \o <<>> = t
      BY <1>3, <2>3
    <3>2. mapped = t
      <4> HIDE DEF mapped, longer, v
      <4> QED
        BY <1>2, <1>3, <2>2, <2>3
    <3> QED
      BY <3>1, <3>2
  <2>4. CASE v # Len(p)
    <3>1. v < Len(p) /\ p[v + 1] = Slash
      BY <1>3, <1>4, <2>4
    <3>2. mapped = longer
      <4> HIDE DEF mapped, longer, v
      <4> QED
        BY <1>2, <1>3, <2>2, <3>1
    <3> DEFINE s == SubSeq(p, v + 2, Len(p))
               one == <<Slash>>
    <3>3. s \in Seq(Tokens) /\ one \in Seq(Tokens) /\ rest = one \o s
      <4>1. s \in Seq(Tokens) /\ one \in Seq(Tokens)
        BY <1>2, <1>3, <3>1 DEF Tokens
      <4>2. one = SubSeq(p, v + 1, v + 1)
        BY <1>2, <1>3, <3>1
      <4>3. v + 1 \in 1 .. Len(p) + 1 /\ v + 1 \in (v + 1) - 1 .. Len(p) /\ Len(p) \in v + 1 .. Len(p)
            /\ (v + 1) + 1 = v + 2
        BY <1>2, <1>3, <3>1
      <4>4. SubSeq(p, v + 1, v + 1) \o SubSeq(p, (v + 1) + 1, Len(p)) = SubSeq(p, v + 1, Len(p))
        BY <1>3, <4>3, ConcatAdjacentSubSeq, Zenon
      <4> QED
        BY <4>1, <4>2, <4>3, <4>4
    <3> HIDE DEF s, one, t, rest
    <3>4. t \in Seq(Tokens)
      BY DEF t
    <3>5. (t \o one) \o s = t \o (one \o s)
      BY <3>3, <3>4
    <3> QED
      BY <3>2, <3>3, <3>5 DEF s, one
  <2> QED
    BY <2>3, <2>4
<1>11. IsPath(rest) /\ (rest # <<>> => rest[1] = Slash)
  <2>1. IsPath(p)
    BY RenderIsPath DEF p
  <2>2. IsPath(rest)
    BY <1>4, <2>1, TailIsPath
  <2>3. v # Len(p) => rest[1] = Slash
    BY <1>2, <1>3, <1>4
  <2>4. v = Len(p) => rest = <<>>
    BY <1>3
  <2> QED
    BY <2>2, <2>3, <2>4
<1> HIDE DEF rest, mapped, t, v
<1>8. t \in Seq(Tokens)
  BY DEF t
<1>9. t \o rest \in Seq(Tokens) /\ (t # <<>> => Len(t \o rest) > 0 /\ (t \o rest)[1] = t[1])
  BY <1>5, <1>8
<1>12. IsPath(t) => IsPath(t \o rest)
  BY <1>11, PathsJoin
<1>10. Components(t \o rest) = Components(t) \o Components(rest)
  BY <1>5, <1>8, ComponentsJoin
<1> QED
  BY <1>6, <1>7, <1>9, <1>10, <1>12 DEF t, mapped, rest, p, v

(* A cut of a path is a path.                                              *)
LEMMA CutIsPath ==
  ASSUME NEW p \in Seq(Tokens), NEW j \in 1 .. Len(p)
  PROVE  CutPath(p, j) \in Seq(Tokens)
BY DEF CutPath

(* The paths path_split shows its callback are cuts of the path.           *)
LEMMA VisitsAreCuts ==
  ASSUME NEW p \in Seq(Tokens)
  PROVE  /\ path_split(p) \in Seq([path : Seq(Tokens), is_full_path : BOOLEAN])
         /\ \A k \in 1 .. Len(path_split(p)) :
              \E j \in 1 .. Len(p) : path_split(p)[k].path = CutPath(p, j)
<1> DEFINE cuts == {i \in 1 .. Len(p) : IsCut(p, i)}
           m == Cardinality(cuts)
           Visit(k) == [path |-> CutPath(p, Nth(cuts, k)), is_full_path |-> Nth(cuts, k) = Len(p)]
<1>1. Len(p) \in Nat /\ cuts \in SUBSET (1 .. Len(p))
  OBVIOUS
<1>2. m \in Nat
  <2>1. IsFiniteSet(1 .. Len(p))
    BY <1>1, FS_Interval
  <2> HIDE DEF cuts
  <2> QED
    BY <1>1, <2>1, FS_Subset, FS_CardinalityType
<1>3. path_split(p) = [k \in 1 .. m |-> Visit(k)]
  BY DEF path_split
<1>4. ASSUME NEW k \in 1 .. m
      PROVE  /\ Nth(cuts, k) \in 1 .. Len(p)
             /\ Visit(k) \in [path : Seq(Tokens), is_full_path : BOOLEAN]
  <2>1. Nth(cuts, k) \in cuts
    <3> HIDE DEF cuts
    <3> QED
      BY <1>1, NthIsIn
  <2>2. Nth(cuts, k) \in 1 .. Len(p)
    BY <2>1
  <2> DEFINE j == Nth(cuts, k)
  <2> HIDE DEF j
  <2>3. CutPath(p, j) \in Seq(Tokens)
    BY <2>2, CutIsPath DEF j
  <2>4. (j = Len(p)) \in BOOLEAN
    OBVIOUS
  <2>5. Visit(k) = [path |-> CutPath(p, j), is_full_path |-> j = Len(p)]
    BY DEF j
  <2> HIDE DEF Visit
  <2> QED
    BY <2>2, <2>3, <2>4, <2>5
<1> HIDE DEF cuts, m
<1>5. path_split(p) \in [1 .. m -> [path : Seq(Tokens), is_full_path : BOOLEAN]]
  <2> HIDE DEF Visit
  <2> QED
    BY <1>3, <1>4
<1>6. path_split(p) \in Seq([path : Seq(Tokens), is_full_path : BOOLEAN]) /\ Len(path_split(p)) = m
  <2> DEFINE V == [path : Seq(Tokens), is_full_path : BOOLEAN]
             s == path_split(p)
  <2> HIDE DEF V, s
  <2>1. s \in [1 .. m -> V]
    BY <1>5 DEF s, V
  <2>2. s \in Seq(V) /\ Len(s) = m
    BY <1>2, <2>1
  <2> QED
    BY <2>2 DEF s, V
<1>7. ASSUME NEW k \in 1 .. m PROVE path_split(p)[k].path = CutPath(p, Nth(cuts, k))
  BY <1>3
<1> QED
  BY <1>4, <1>6, <1>7

(* What an inode says to a lookup.                                         *)
Says(inode) == <<inode.flags_set, inode.flags_reset, inode.target_path>>

(* Inodes that say the same give the same lookup for the same hits.        *)
LEMMA CollectedSame ==
  ASSUME NEW old, NEW new, NEW table, NEW hits \in Seq(HitsOf(table)),
         \A i \in Members(table) : Says(old[i]) = Says(new[i])
  PROVE  Collected(new, hits) = Collected(old, hits)
<1>1. PICK u \in [0 .. Len(hits) -> Lookups(old, table)] :
        /\ u[0] = NoLookup
        /\ \A k \in 1 .. Len(hits) : u[k] = vfs_lookup_splitter(old, u[k - 1], hits[k])
        /\ Collected(old, hits) = u[Len(hits)]
  BY CollectedRun
<1>2. PICK v \in [0 .. Len(hits) -> Lookups(new, table)] :
        /\ v[0] = NoLookup
        /\ \A k \in 1 .. Len(hits) : v[k] = vfs_lookup_splitter(new, v[k - 1], hits[k])
        /\ Collected(new, hits) = v[Len(hits)]
  BY CollectedRun
<1>3. ASSUME NEW r, NEW hit \in HitsOf(table)
      PROVE  vfs_lookup_splitter(new, r, hit) = vfs_lookup_splitter(old, r, hit)
  <2>1. CASE hit.inode = NULL
    BY <2>1 DEF vfs_lookup_splitter
  <2>2. CASE hit.inode # NULL
    <3>1. hit.inode \in Members(table)
      BY <2>2 DEF HitsOf
    <3> DEFINE i == hit.inode
    <3> HIDE DEF i
    <3>2. /\ new[i].flags_set = old[i].flags_set /\ new[i].flags_reset = old[i].flags_reset
          /\ new[i].target_path = old[i].target_path
      BY <3>1 DEF i, Says
    <3> QED
      BY <2>2, <3>2 DEF vfs_lookup_splitter, i
  <2> QED
    BY <2>1, <2>2
<1> DEFINE T == {k \in 0 .. Len(hits) : v[k] = u[k]}
<1>4. 0 \in T
  BY <1>1, <1>2
<1>5. ASSUME NEW k \in 1 .. Len(hits), k - 1 \in T PROVE k \in T
  <2>1. hits[k] \in HitsOf(table) /\ v[k - 1] = u[k - 1]
    BY <1>5
  <2> QED
    BY <1>1, <1>2, <1>3, <2>1
<1>6. Len(hits) \in T
  <2>1. Len(hits) \in Nat /\ Len(hits) \in 0 .. Len(hits)
    OBVIOUS
  <2> HIDE DEF T
  <2> QED
    BY <1>4, <1>5, <2>1, InductionUpTo
<1> QED
  BY <1>1, <1>2, <1>6
=============================================================================
