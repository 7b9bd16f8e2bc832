----------------------------- MODULE FoldProofs -----------------------------
(***************************************************************************)
(* Induction, and what it gives for folds.                                 *)
(***************************************************************************)
EXTENDS Integers, SequencesExt, NaturalsInduction, WellFoundedInduction, TLAPS

(* A set of naturals has a smallest element.                               *)
LEMMA Smallest ==
  ASSUME NEW T \in SUBSET Nat, T # {}
  PROVE  \E n \in T : \A k \in T : n <= k
<1>1. IsWellFoundedOn(OpToRel(<, Nat), Nat)
  BY NatLessThanWellFounded
<1>2. PICK n \in T : \A k \in T : ~ (<<k, n>> \in OpToRel(<, Nat))
  BY <1>1, WFMin, Zenon
<1>3. \A k \in T : ~ (k < n)
  BY <1>2 DEF OpToRel
<1> QED
  BY <1>3

(* Induction over the naturals, for the members of a set.                  *)
LEMMA SetInduction ==
  ASSUME NEW T, 0 \in T, \A n \in Nat : n \in T => n + 1 \in T
  PROVE  Nat \subseteq T
<1> DEFINE Missing == Nat \ T
<1> SUFFICES ASSUME Missing # {} PROVE FALSE
  OBVIOUS
<1>1. PICK n \in Missing : \A k \in Missing : n <= k
  BY Smallest, Zenon
<1>2. n > 0 /\ n - 1 \in Nat /\ n - 1 \notin Missing
  BY <1>1
<1> QED
  BY <1>2

(* The same up to a bound.                                                 *)
LEMMA InductionUpTo ==
  ASSUME NEW n \in Nat, NEW T, 0 \in T, \A k \in 1 .. n : k - 1 \in T => k \in T
  PROVE  0 .. n \subseteq T
<1> DEFINE U == {k \in Nat : k <= n => k \in T}
<1>1. 0 \in U
  OBVIOUS
<1>2. ASSUME NEW k \in Nat, k \in U PROVE k + 1 \in U
  <2>1. CASE k + 1 <= n
    <3>1. k + 1 \in 1 .. n /\ (k + 1) - 1 = k /\ k \in T
      BY <1>2, <2>1
    <3> QED
      BY <3>1
  <2>2. CASE ~(k + 1 <= n)
    BY <2>2
  <2> QED
    BY <2>1, <2>2
<1>3. Nat \subseteq U
  <2> HIDE DEF U
  <2> QED
    BY <1>1, <1>2, SetInduction
<1> QED
  BY <1>3

(* A bounded set of naturals has a largest element.                        *)
LEMMA Largest ==
  ASSUME NEW m \in Nat, NEW T \in SUBSET (0 .. m), T # {}
  PROVE  \E n \in T : \A k \in T : k <= n
<1> DEFINE U == {m - k : k \in T}
<1>1. U \in SUBSET Nat /\ U # {}
  <2>1. \A k \in T : m - k \in Nat
    OBVIOUS
  <2>2. \A u \in U : u \in Nat
    BY <2>1
  <2>3. PICK k \in T : TRUE
    OBVIOUS
  <2>4. m - k \in U
    BY <2>3
  <2> QED
    BY <2>2, <2>4
<1>2. PICK u \in U : \A v \in U : u <= v
  BY <1>1, Smallest
<1>3. PICK n \in T : u = m - n
  BY <1>2
<1>4. \A k \in T : m - n <= m - k
  BY <1>2, <1>3
<1>5. \A k \in T : k <= n
  BY <1>4
<1> QED
  BY <1>5

(* Max gives it.                                                           *)
LEMMA MaxIs ==
  ASSUME NEW T \in SUBSET Int, NEW m \in T, \A k \in T : k <= m
  PROVE  Max(T) = m
<1> DEFINE Largest_(x) == x \in T /\ \A y \in T : x >= y
<1>1. Largest_(m)
  OBVIOUS
<1>2. Max(T) = CHOOSE x : Largest_(x)
  BY Zenon DEF Max
<1> HIDE DEF Largest_
<1>3. Largest_(Max(T))
  BY <1>1, <1>2, Zenon
<1> USE DEF Largest_
<1>4. PICK x \in T : x = Max(T) /\ x >= m
  BY <1>3
<1>5. x = m
  BY <1>4
<1> QED
  BY <1>4, <1>5

(* The largest index is one of them.                                       *)
LEMMA MaxIsIn ==
  ASSUME NEW n \in Nat, NEW T \in SUBSET (1 .. n), T # {}
  PROVE  Max(T) \in T
<1>1. PICK m \in T : \A k \in T : k <= m
  BY Largest, T \in SUBSET (0 .. n)
<1>2. Max(T) = m
  BY <1>1, MaxIs, T \in SUBSET Int
<1> QED
  BY <1>2

(***************************************************************************)
(* A fold from the left of a sequence of n elements, where G is the step   *)
(* at each place, exists: the community modules define it by recursion on  *)
(* the sets of places, the largest of each being the last step.            *)
(***************************************************************************)
FoldsSets(iter, k, b, G) ==
  \A s \in SUBSET (1 .. k) :
    iter[s] = IF s = {} THEN b ELSE G[iter[s \ {Max(s)}], Max(s)]

(* A function that folds each set of indices, largest first, exists.       *)
LEMMA FoldExists ==
  ASSUME NEW S, NEW b \in S, NEW n \in Nat, NEW G \in [S \X (1 .. n) -> S]
  PROVE  \E iter \in [SUBSET (1 .. n) -> S] : FoldsSets(iter, n, b, G)
<1> DEFINE Exists(k) == \E iter \in [SUBSET (1 .. k) -> S] : FoldsSets(iter, k, b, G)
           T == {k \in Nat : k <= n => Exists(k)}
<1>1. Exists(0)
  <2> DEFINE iter == [s \in SUBSET (1 .. 0) |-> b]
  <2>1. iter \in [SUBSET (1 .. 0) -> S]
    OBVIOUS
  <2>2. \A s \in SUBSET (1 .. 0) : s = {}
    OBVIOUS
  <2>3. FoldsSets(iter, 0, b, G)
    BY <2>2 DEF FoldsSets
  <2> QED
    BY <2>1, <2>3
<1>2. ASSUME NEW k \in Nat, k + 1 <= n, Exists(k) PROVE Exists(k + 1)
  <2>1. PICK old \in [SUBSET (1 .. k) -> S] : FoldsSets(old, k, b, G)
    BY <1>2
  <2> DEFINE iter == [s \in SUBSET (1 .. (k + 1)) |->
                        IF k + 1 \in s THEN G[old[s \ {k + 1}], k + 1] ELSE old[s]]
  <2>2. ASSUME NEW s \in SUBSET (1 .. (k + 1)) PROVE s \ {k + 1} \in SUBSET (1 .. k)
    OBVIOUS
  <2>3. ASSUME NEW s \in SUBSET (1 .. (k + 1)) PROVE iter[s] \in S
    <3>1. CASE k + 1 \in s
      <4>1. PICK r \in SUBSET (1 .. k) : r = s \ {k + 1}
        BY <2>2
      <4>2. old[r] \in S
        OBVIOUS
      <4>3. k + 1 \in 1 .. n
        BY <1>2
      <4> QED
        BY <3>1, <4>1, <4>2, <4>3
    <3>2. CASE k + 1 \notin s
      <4>1. s \in SUBSET (1 .. k)
        BY <3>2
      <4> QED
        BY <3>2, <4>1
    <3> QED
      BY <3>1, <3>2
  <2>4. ASSUME NEW s \in SUBSET (1 .. (k + 1))
        PROVE  iter[s] = IF s = {} THEN b ELSE G[iter[s \ {Max(s)}], Max(s)]
    <3>1. CASE k + 1 \in s
      <4>1. Max(s) = k + 1
        <5>1. s \in SUBSET Int /\ \A j \in s : j <= k + 1
          OBVIOUS
        <5> QED
          BY <3>1, <5>1, MaxIs
      <4>2. iter[s \ {k + 1}] = old[s \ {k + 1}]
        BY <2>2
      <4> QED
        BY <3>1, <4>1, <4>2
    <3>2. CASE k + 1 \notin s /\ s # {}
      <4>1. s \in SUBSET (1 .. k)
        BY <3>2
      <4>2. iter[s] = old[s] /\ iter[s \ {Max(s)}] = old[s \ {Max(s)}]
        BY <3>2, <4>1
      <4> QED
        BY <2>1, <3>2, <4>1, <4>2 DEF FoldsSets
    <3>3. CASE s = {}
      <4>1. s \in SUBSET (1 .. k)
        BY <3>3
      <4> QED
        BY <2>1, <3>3, <4>1 DEF FoldsSets
    <3> QED
      BY <3>1, <3>2, <3>3
  <2>5. iter \in [SUBSET (1 .. (k + 1)) -> S]
    BY <2>3
  <2>6. FoldsSets(iter, k + 1, b, G)
    BY <2>4 DEF FoldsSets
  <2> QED
    BY <2>5, <2>6
<1> HIDE DEF Exists
<1>3. 0 \in T /\ \A k \in Nat : k \in T => k + 1 \in T
  BY <1>1, <1>2
<1>4. n \in T
  <2> HIDE DEF T
  <2> QED
    BY <1>3, SetInduction
<1>5. Exists(n)
  BY <1>4
<1> QED
  BY <1>5 DEF Exists

(* The last of the first k places, and the places before it.               *)
LEMMA LastPlace ==
  ASSUME NEW n \in Nat, NEW k \in 1 .. n
  PROVE  /\ 1 .. k \in SUBSET (1 .. n) /\ 1 .. k # {}
         /\ Max(1 .. k) = k
         /\ (1 .. k) \ {k} = 1 .. (k - 1)
<1>1. 1 .. k \in SUBSET Int /\ k \in 1 .. k /\ \A j \in 1 .. k : j <= k
  OBVIOUS
<1>2. Max(1 .. k) = k
  BY <1>1, MaxIs
<1> QED
  BY <1>1, <1>2

(* A fold of a sequence is the last member of a run: one step per place.   *)
FoldsBy(iter, n, b, S, G) ==
  /\ iter[{}] = b
  /\ \A t \in SUBSET (1 .. n) :
       t # {} /\ iter[t \ {Max(t)}] \in S => iter[t] = G[iter[t \ {Max(t)}], Max(t)]

RunsAs(run, iter, n, b, G) ==
  /\ run[0] = b
  /\ \A k \in 1 .. n : run[k] = G[run[k - 1], k]
  /\ iter[1 .. n] = run[n]

(* Such a function runs through the prefixes from left to right.           *)
LEMMA FoldRun ==
  ASSUME NEW S, NEW b \in S, NEW n \in Nat, NEW G \in [S \X (1 .. n) -> S], NEW iter,
         FoldsBy(iter, n, b, S, G)
  PROVE  \E run \in [0 .. n -> S] : RunsAs(run, iter, n, b, G)
<1> DEFINE run == [k \in 0 .. n |-> iter[1 .. k]]
           T == {k \in 0 .. n : run[k] \in S}
<1>1. run[0] = b /\ run[n] = iter[1 .. n]
  <2>1. 1 .. 0 = {} /\ 0 \in 0 .. n /\ n \in 0 .. n
    OBVIOUS
  <2> QED
    BY <2>1 DEF FoldsBy
<1>2. ASSUME NEW k \in 1 .. n, run[k - 1] \in S
      PROVE  run[k] = G[run[k - 1], k] /\ run[k] \in S
  <2>1. k \in 0 .. n /\ k - 1 \in 0 .. n
    OBVIOUS
  <2>2. run[k] = iter[1 .. k] /\ run[k - 1] = iter[1 .. (k - 1)]
    BY <2>1
  <2> HIDE DEF run
  <2>3. /\ 1 .. k \in SUBSET (1 .. n) /\ 1 .. k # {}
        /\ Max(1 .. k) = k /\ (1 .. k) \ {k} = 1 .. (k - 1)
    BY LastPlace
  <2>4. iter[1 .. k] = G[iter[1 .. (k - 1)], k]
    <3>1. iter[(1 .. k) \ {Max(1 .. k)}] \in S
      BY <1>2, <2>2, <2>3, Zenon
    <3> QED
      BY <2>3, <3>1, Zenon DEF FoldsBy
  <2>5. G[run[k - 1], k] \in S
    BY <1>2
  <2> QED
    BY <2>2, <2>4, <2>5
<1> HIDE DEF run
<1>3. 0 \in T
  BY <1>1, 0 \in 0 .. n
<1>8. ASSUME NEW k \in 1 .. n, k - 1 \in T PROVE k \in T
  <2>1. k \in 0 .. n /\ run[k - 1] \in S
    BY <1>8
  <2> QED
    BY <1>2, <2>1
<1>4. 0 .. n \subseteq T
  <2> HIDE DEF T
  <2> QED
    BY <1>3, <1>8, InductionUpTo
<1>5. \A k \in 0 .. n : run[k] \in S
  BY <1>4
<1>6. run \in [0 .. n -> S]
  BY <1>5 DEF run
<1>7. ASSUME NEW k \in 1 .. n PROVE run[k] = G[run[k - 1], k]
  <2>1. k - 1 \in 0 .. n
    OBVIOUS
  <2> QED
    BY <1>2, <1>5, <2>1
<1> QED
  BY <1>1, <1>6, <1>7 DEF RunsAs
=============================================================================
