------------------------- MODULE MsgTransferProofs -------------------------
(***************************************************************************)
(* TLAPS proofs about MsgTransfer, for any topics, processes, senders and  *)
(* sizes of batches: its types (TypeCorrect), and the invariants of its    *)
(* run (OneMessage, PushedFound, Ordering, NoLoss, OwnRead,                *)
(* StoredInOrder).                                                         *)
(***************************************************************************)
EXTENDS MsgTransfer, FiniteSetTheorems, SequenceTheorems, WellFoundedInduction, TLAPS

-----------------------------------------------------------------------------
(* Subsequences: the places of a sequence that are kept, and their ranks.  *)
(* Least and largest elements of a set of numbers stand for induction.     *)

\* Every set of naturals that is not empty has a least element.
LEMMA NatMin ==
  ASSUME NEW T \in SUBSET Nat, T # {}
  PROVE  \E x \in T : \A y \in T : x <= y
<1> DEFINE R == {z \in Nat \X Nat : z[1] < z[2]}
<1>1. IsWellFoundedOn(R, Nat)
  BY NatLessThanWellFounded DEF OpToRel
<1>2. \E x \in T : \A y \in T : ~(<<y, x>> \in R)
  <2> HIDE DEF R
  <2> QED
    BY <1>1, WFMin
<1>3. PICK x \in T : \A y \in T : ~(<<y, x>> \in R)
  BY <1>2
<1>4. ASSUME NEW y \in T PROVE x <= y
  <2>1. ~(y < x)
    BY <1>3, <1>4
  <2> QED
    BY <2>1
<1> QED
  BY <1>4

\* A set of naturals that is finite has a bound.
LEMMA NatBound ==
  ASSUME NEW S \in SUBSET Nat, IsFiniteSet(S)
  PROVE  \E m \in Nat : \A x \in S : x <= m
<1> DEFINE Bounded(X) == \E m \in Nat : \A x \in X : x <= m
           T == {n \in Nat : \E X \in SUBSET Nat : IsFiniteSet(X) /\ Cardinality(X) = n /\ ~Bounded(X)}
<1> SUFFICES ASSUME ~Bounded(S) PROVE FALSE
  OBVIOUS
<1>1. T # {}
  BY FS_CardinalityType
<1>2. PICK n \in T : \A k \in T : n <= k
  <2> HIDE DEF T
  <2>1. T \in SUBSET Nat
    BY DEF T
  <2> QED
    BY <1>1, <2>1, NatMin
<1>3. PICK X \in SUBSET Nat : IsFiniteSet(X) /\ Cardinality(X) = n /\ ~Bounded(X)
  OBVIOUS
<1>4. PICK x \in X : TRUE
  BY <1>3
<1>5. IsFiniteSet(X \ {x}) /\ Cardinality(X \ {x}) = n - 1 /\ n \in Nat
  BY <1>3, FS_RemoveElement, FS_CardinalityType
<1>6. n - 1 \in Nat
  BY <1>5, FS_CardinalityType
<1>7. Bounded(X \ {x})
  <2> SUFFICES ASSUME ~Bounded(X \ {x}) PROVE FALSE
    OBVIOUS
  <2>1. n - 1 \in T
    BY <1>5, <1>6
  <2> QED
    BY <2>1, <1>2, <1>5
<1>8. PICK m \in Nat : \A y \in X \ {x} : y <= m
  BY <1>7
<1>9. m + x \in Nat /\ \A y \in X : y <= m + x
  BY <1>8
<1>10. Bounded(X)
  BY <1>9
<1> QED
  BY <1>3, <1>10

\* A set of naturals that is finite and not empty has a largest element.
LEMMA NatMax ==
  ASSUME NEW S \in SUBSET Nat, IsFiniteSet(S), S # {}
  PROVE  \E x \in S : \A y \in S : x >= y
<1> DEFINE T == {m \in Nat : \A x \in S : x <= m}
<1>1. T # {}
  BY NatBound
<1>2. PICK m \in T : \A k \in T : m <= k
  <2> HIDE DEF T
  <2>1. T \in SUBSET Nat
    BY DEF T
  <2> QED
    BY <1>1, <2>1, NatMin
<1>3. CASE m \in S
  BY <1>2, <1>3
<1>4. CASE m \notin S
  <2>1. \A x \in S : x < m
    BY <1>2, <1>4
  <2>2. m - 1 \in Nat
    <3>1. PICK x \in S : TRUE
      OBVIOUS
    <3>2. x < m /\ x \in Nat /\ m \in Nat
      BY <2>1
    <3> QED
      BY <3>2
  <2>3. \A x \in S : x <= m - 1
    BY <2>1
  <2> QED
    BY <1>2, <2>2, <2>3
<1> QED
  BY <1>3, <1>4

\* The rank of a number among places is between 0 and how many there are.
LEMMA RankType ==
  ASSUME NEW P \in SUBSET Nat, IsFiniteSet(P), NEW i \in Nat
  PROVE  Rank(P, i) \in 0 .. Cardinality(P) /\ Cardinality(P) \in Nat
<1>1. {j \in P : j <= i} \subseteq P
  OBVIOUS
<1> QED
  BY <1>1, FS_Subset, FS_CardinalityType DEF Rank

\* A later place has a higher rank.
LEMMA RankGrows ==
  ASSUME NEW P \in SUBSET Nat, IsFiniteSet(P), NEW i \in Nat, NEW j \in P, i < j
  PROVE  Rank(P, i) < Rank(P, j)
<1> DEFINE A == {k \in P : k <= i}
           B == {k \in P : k <= j}
<1>0. j \in Nat /\ \A k \in P : k \in Nat
  OBVIOUS
<1>1. A \subseteq B /\ j \in B /\ j \notin A /\ B \subseteq P
  <2>1. \A k \in P : k <= i => k <= j
    BY <1>0
  <2>2. ~(j <= i) /\ j <= j
    BY <1>0
  <2> QED
    BY <2>1, <2>2
<1>2. IsFiniteSet(B)
  BY <1>1, FS_Subset
<1>3. Cardinality(A) <= Cardinality(B) /\ (Cardinality(A) = Cardinality(B) => A = B)
  <2> HIDE DEF A, B
  <2> QED
    BY <1>1, <1>2, FS_Subset
<1>4. Cardinality(A) \in Nat /\ Cardinality(B) \in Nat
  BY <1>1, <1>2, FS_Subset, FS_CardinalityType
<1> QED
  BY <1>1, <1>3, <1>4 DEF Rank

\* There is a place of every rank.
LEMMA NthExists ==
  ASSUME NEW P \in SUBSET (Nat \ {0}), IsFiniteSet(P), NEW k \in 1 .. Cardinality(P)
  PROVE  \E i \in P : Rank(P, i) = k
<1> DEFINE T == {i \in Nat : Rank(P, i) >= k}
<1>0. P \in SUBSET Nat /\ Cardinality(P) \in Nat /\ k \in Nat
  BY FS_CardinalityType
<1>1. T # {}
  <2>1. PICK m \in Nat : \A x \in P : x <= m
    BY <1>0, NatBound
  <2>2. {j \in P : j <= m} = P
    BY <2>1
  <2> QED
    BY <1>0, <2>2 DEF Rank
<1>2. PICK i \in T : \A n \in T : i <= n
  <2> HIDE DEF T
  <2>1. T \in SUBSET Nat
    BY DEF T
  <2> QED
    BY <1>1, <2>1, NatMin
<1>3. i # 0
  <2> SUFFICES ASSUME i = 0 PROVE FALSE
    OBVIOUS
  <2>1. \A j \in P : ~(j <= i)
    OBVIOUS
  <2>3. {j \in P : j <= i} = {}
    BY <2>1
  <2> QED
    BY <2>3, <1>2, <1>0, FS_EmptySet DEF Rank
<1> DEFINE h == i - 1
           A == {j \in P : j <= h}
           B == {j \in P : j <= i}
<1>4. h \in Nat /\ h < i /\ i \in Nat
  BY <1>3
<1>5. h \notin T
  BY <1>2, <1>4
<1>6. Rank(P, h) < k /\ Rank(P, h) \in Nat /\ Rank(P, i) >= k /\ Rank(P, i) \in Nat
  <2>1. Rank(P, h) \in Nat /\ Rank(P, i) \in Nat
    BY <1>0, <1>4, RankType
  <2> QED
    BY <1>0, <1>4, <1>5, <2>1
<1>7. i \in P
  <2> SUFFICES ASSUME i \notin P PROVE FALSE
    OBVIOUS
  <2>2. \A j \in P : j # i /\ j \in Nat
    BY <1>0
  <2>3. \A j \in P : j <= h <=> j <= i
    BY <2>2, <1>4
  <2>1. A = B
    BY <2>3
  <2> QED
    BY <2>1, <1>6, <1>0 DEF Rank
<1>8. B = A \cup {i} /\ i \notin A /\ IsFiniteSet(A)
  <2>1. IsFiniteSet(A)
    BY FS_Subset
  <2>2. \A j \in P : j \in Nat
    BY <1>0
  <2>3. \A j \in P : j <= i <=> j <= h \/ j = i
    BY <2>2, <1>4
  <2>4. ~(i <= h)
    BY <1>4
  <2> QED
    BY <2>1, <2>3, <2>4, <1>7
<1>9. Rank(P, i) = Rank(P, h) + 1
  <2> HIDE DEF A, B
  <2>1. Cardinality(B) = Cardinality(A) + 1
    BY <1>8, FS_AddElement
  <2> QED
    BY <2>1 DEF Rank, A, B
<1> QED
  BY <1>0, <1>6, <1>7, <1>9

\* The place of a rank is the one that has it.
LEMMA NthIs ==
  ASSUME NEW P \in SUBSET (Nat \ {0}), IsFiniteSet(P)
  PROVE  /\ \A k \in 1 .. Cardinality(P) : Nth(P, k) \in P /\ Rank(P, Nth(P, k)) = k
         /\ \A i \in P : Rank(P, i) \in 1 .. Cardinality(P) /\ Nth(P, Rank(P, i)) = i
<1>0. P \in SUBSET Nat
  OBVIOUS
<1>1. ASSUME NEW k \in 1 .. Cardinality(P)
      PROVE  Nth(P, k) \in P /\ Rank(P, Nth(P, k)) = k
  <2>1. \E i \in P : Rank(P, i) = k
    BY NthExists
  <2> QED
    BY <2>1 DEF Nth
<1>2. ASSUME NEW i \in P
      PROVE  Rank(P, i) \in 1 .. Cardinality(P) /\ Nth(P, Rank(P, i)) = i
  <2>1. Rank(P, 0) < Rank(P, i)
    BY <1>0, RankGrows
  <2>2. Rank(P, 0) \in Nat /\ Rank(P, i) \in 0 .. Cardinality(P) /\ Cardinality(P) \in Nat
    BY <1>0, RankType
  <2>3. Rank(P, i) \in 1 .. Cardinality(P)
    BY <2>1, <2>2
  <2>4. Nth(P, Rank(P, i)) \in P /\ Rank(P, Nth(P, Rank(P, i))) = Rank(P, i)
    BY <1>1, <2>3
  <2>5. \A a, b \in P : a < b => Rank(P, a) < Rank(P, b)
    BY <1>0, RankGrows
  <2>6. \A a, b \in P : Rank(P, a) = Rank(P, b) => a = b
    <3> SUFFICES ASSUME NEW a \in P, NEW b \in P, Rank(P, a) = Rank(P, b), a # b PROVE FALSE
      OBVIOUS
    <3>1. Rank(P, a) \in Nat
      BY <1>0, RankType
    <3>2. a < b \/ b < a
      BY <1>0
    <3> QED
      BY <2>5, <3>1, <3>2
  <2> QED
    BY <2>3, <2>4, <2>6
<1> QED
  BY <1>1, <1>2

\* The places of higher ranks are later.
LEMMA NthGrows ==
  ASSUME NEW P \in SUBSET (Nat \ {0}), IsFiniteSet(P),
         NEW k \in 1 .. Cardinality(P), NEW l \in 1 .. Cardinality(P), k < l
  PROVE  Nth(P, k) < Nth(P, l)
<1> DEFINE a == Nth(P, k)
           b == Nth(P, l)
<1>1. a \in P /\ b \in P /\ Rank(P, a) = k /\ Rank(P, b) = l /\ P \in SUBSET Nat
  BY NthIs
<1> HIDE DEF a, b
<1>2. ~(b < a)
  <2> SUFFICES ASSUME b < a PROVE FALSE
    OBVIOUS
  <2>1. Rank(P, b) < Rank(P, a)
    BY <1>1, RankGrows
  <2> QED
    BY <1>1, <2>1, FS_CardinalityType
<1>3. a # b
  BY <1>1, FS_CardinalityType
<1>4. a \in Nat /\ b \in Nat
  BY <1>1
<1>5. a < b
  BY <1>2, <1>3, <1>4
<1> QED
  BY <1>5 DEF a, b

\* The places of a sequence are a finite set of positive numbers.
LEMMA PlacesType ==
  ASSUME NEW T, NEW s \in Seq(T), NEW S
  PROVE  /\ Places(s, S) \in SUBSET (Nat \ {0}) /\ IsFiniteSet(Places(s, S))
         /\ Cardinality(Places(s, S)) \in Nat
         /\ Places(s, S) \in SUBSET (1 .. Len(s))
<1>1. Places(s, S) \in SUBSET (1 .. Len(s)) /\ Len(s) \in Nat
  BY DEF Places
<1>2. IsFiniteSet(1 .. Len(s))
  BY <1>1, FS_Interval
<1>3. IsFiniteSet(Places(s, S))
  BY <1>1, <1>2, FS_Subset
<1> QED
  BY <1>1, <1>3, FS_CardinalityType

\* Only(s, S) is a sequence, as long as s has places in S, of elements of s in S.
LEMMA OnlyType ==
  ASSUME NEW T, NEW s \in Seq(T), NEW S
  PROVE  /\ Only(s, S) \in Seq(T) /\ Len(Only(s, S)) = Cardinality(Places(s, S))
         /\ DOMAIN Only(s, S) = 1 .. Len(Only(s, S))
         /\ \A k \in 1 .. Len(Only(s, S)) : \E i \in 1 .. Len(s) :
              Only(s, S)[k] = s[i] /\ s[i] \in S
<1> DEFINE P == Places(s, S)
           n == Cardinality(P)
<1>1. P \in SUBSET (Nat \ {0}) /\ IsFiniteSet(P) /\ n \in Nat /\ P \in SUBSET (1 .. Len(s))
  BY PlacesType
<1>2. \A k \in 1 .. n : Nth(P, k) \in P
  <2> HIDE DEF P
  <2> QED
    BY <1>1, NthIs
<1>3. Only(s, S) = [k \in 1 .. n |-> s[Nth(P, k)]]
  BY DEF Only
<1>4. \A i \in P : s[i] \in T /\ s[i] \in S /\ i \in 1 .. Len(s)
  BY DEF Places
<1> HIDE DEF P, n
<1>5. \A k \in 1 .. n : s[Nth(P, k)] \in T
  BY <1>2, <1>4
<1>6. Only(s, S) \in Seq(T) /\ Len(Only(s, S)) = n /\ DOMAIN Only(s, S) = 1 .. n
  <2> DEFINE f == [k \in 1 .. n |-> s[Nth(P, k)]]
  <2>1. f \in [1 .. n -> T]
    BY <1>5
  <2> HIDE DEF f
  <2>2. f \in Seq(T) /\ Len(f) = n /\ DOMAIN f = 1 .. n
    BY <1>1, <2>1
  <2> QED
    BY <2>2, <1>3 DEF f
<1>7. \A k \in 1 .. n : \E i \in 1 .. Len(s) : Only(s, S)[k] = s[i] /\ s[i] \in S
  BY <1>2, <1>3, <1>4
<1> QED
  BY <1>6, <1>7 DEF n, P

\* Every element of s in S is in it.
LEMMA OnlyHas ==
  ASSUME NEW T, NEW s \in Seq(T), NEW S, NEW i \in 1 .. Len(s), s[i] \in S
  PROVE  \E k \in 1 .. Len(Only(s, S)) : Only(s, S)[k] = s[i]
<1> DEFINE P == Places(s, S)
           n == Cardinality(P)
<1>1. P \in SUBSET (Nat \ {0}) /\ IsFiniteSet(P) /\ n \in Nat /\ i \in P
  BY PlacesType DEF Places
<1>2. Only(s, S) = [k \in 1 .. n |-> s[Nth(P, k)]] /\ Len(Only(s, S)) = n
  BY OnlyType DEF Only
<1> HIDE DEF P
<1>3. Rank(P, i) \in 1 .. n /\ Nth(P, Rank(P, i)) = i
  BY <1>1, NthIs
<1> QED
  BY <1>2, <1>3

\* Its elements are in the order of s.
LEMMA OnlyInOrder ==
  ASSUME NEW T, NEW s \in Seq(T), NEW S,
         NEW k \in 1 .. Len(Only(s, S)), NEW l \in 1 .. Len(Only(s, S)), k < l
  PROVE  \E i, j \in 1 .. Len(s) :
           i < j /\ Only(s, S)[k] = s[i] /\ Only(s, S)[l] = s[j] /\ s[i] \in S /\ s[j] \in S
<1> DEFINE P == Places(s, S)
           n == Cardinality(P)
<1>1. P \in SUBSET (Nat \ {0}) /\ IsFiniteSet(P) /\ n \in Nat /\ P \in SUBSET (1 .. Len(s))
  BY PlacesType
<1>2. Only(s, S) = [h \in 1 .. n |-> s[Nth(P, h)]] /\ Len(Only(s, S)) = n
  BY OnlyType DEF Only
<1>3. \A i \in P : s[i] \in S
  BY DEF Places
<1> HIDE DEF P
<1>4. Nth(P, k) \in P /\ Nth(P, l) \in P /\ Nth(P, k) < Nth(P, l)
  BY <1>1, <1>2, NthIs, NthGrows
<1> QED
  BY <1>1, <1>2, <1>3, <1>4

\* It is empty only if s has no element in S.
LEMMA OnlyEmpty ==
  ASSUME NEW T, NEW s \in Seq(T), NEW S
  PROVE  Only(s, S) = <<>> <=> \A i \in 1 .. Len(s) : s[i] \notin S
<1>1. Only(s, S) \in Seq(T) /\ Len(Only(s, S)) \in Nat
  BY OnlyType
<1>2. Only(s, S) = <<>> <=> Len(Only(s, S)) = 0
  BY <1>1
<1>3. ASSUME NEW i \in 1 .. Len(s), s[i] \in S PROVE Len(Only(s, S)) # 0
  BY <1>3, <1>1, OnlyHas
<1>4. ASSUME Len(Only(s, S)) # 0 PROVE \E i \in 1 .. Len(s) : s[i] \in S
  <2>1. 1 \in 1 .. Len(Only(s, S))
    BY <1>1, <1>4
  <2> QED
    BY <2>1, OnlyType
<1> QED
  BY <1>2, <1>3, <1>4

\* Shifting a finite set of numbers keeps its size.
LEMMA ShiftSize ==
  ASSUME NEW A \in SUBSET Nat, IsFiniteSet(A), NEW a \in Nat
  PROVE  LET B == {a + q : q \in A} IN IsFiniteSet(B) /\ Cardinality(B) = Cardinality(A)
<1> DEFINE B == {a + q : q \in A}
           f == [q \in A |-> a + q]
<1>1. f \in [A -> B]
  OBVIOUS
<1>2. ASSUME NEW x \in A, NEW y \in A, f[x] = f[y] PROVE x = y
  <2>1. x \in Nat /\ y \in Nat /\ a + x = a + y
    BY <1>2
  <2> QED
    BY <2>1
<1>3. \A z \in B : \E x \in A : f[x] = z
  OBVIOUS
<1> HIDE DEF B, f
<1>4. f \in Bijection(A, B)
  BY <1>1, <1>2, <1>3 DEF Bijection, Injection, Surjection, IsInjective
<1>5. ExistsBijection(A, B)
  BY <1>4 DEF ExistsBijection
<1>6. IsFiniteSet(B) /\ Cardinality(B) = Cardinality(A)
  BY <1>5, FS_Bijection
<1> QED
  BY <1>6 DEF B

\* In a run of numbers from a + 1 on, ranks go on from that of a.
LEMMA RankRun ==
  ASSUME NEW S \in SUBSET (Nat \ {0}), IsFiniteSet(S), NEW a \in Nat, NEW s \in Seq(Nat),
         \A i \in 1 .. Len(s) : s[i] = a + i
  PROVE  /\ Rank(S, a + Len(s)) = Rank(S, a) + Len(Only(s, S))
         /\ \A k \in 1 .. Len(Only(s, S)) :
              Only(s, S)[k] \in S /\ Rank(S, Only(s, S)[k]) = Rank(S, a) + k
<1> DEFINE P == Places(s, S)
           n == Len(s)
<1>1. n \in Nat /\ DOMAIN s = 1 .. n
  OBVIOUS
<1>2. /\ P \in SUBSET (Nat \ {0}) /\ IsFiniteSet(P) /\ Cardinality(P) \in Nat /\ P \in SUBSET (1 .. n)
      /\ Len(Only(s, S)) = Cardinality(P)
  BY PlacesType, OnlyType
<1>3. P = {i \in 1 .. n : a + i \in S}
  BY <1>1 DEF Places
<1> HIDE DEF P, n
<1>4. ASSUME NEW i \in 0 .. n PROVE Rank(S, a + i) = Rank(S, a) + Rank(P, i)
  <2> DEFINE A == {j \in S : j <= a}
             Q == {q \in P : q <= i}
             B == {a + q : q \in Q}
  <2>1. {j \in S : j <= a + i} = A \cup B
    <3>1. ASSUME NEW j \in S, j <= a + i PROVE j \in A \cup B
      <4>1. CASE j <= a
        BY <4>1
      <4>2. CASE j > a
        <5>1. j - a \in 1 .. n /\ j - a <= i /\ a + (j - a) = j
          BY <1>1, <1>4, <3>1, <4>2
        <5>2. j - a \in P
          BY <1>3, <5>1
        <5>3. j - a \in Q
          BY <5>1, <5>2
        <5> QED
          BY <5>1, <5>3
      <4> QED
        BY <4>1, <4>2
    <3>2. ASSUME NEW j \in A PROVE j \in S /\ j <= a + i
      BY <1>4
    <3>3. ASSUME NEW j \in B PROVE j \in S /\ j <= a + i
      <4>1. PICK q \in Q : j = a + q
        OBVIOUS
      <4>2. q \in 1 .. n /\ q <= i /\ a + q \in S
        BY <1>3
      <4> QED
        BY <1>1, <1>4, <4>1, <4>2
    <3> QED
      BY <3>1, <3>2, <3>3
  <2>2. A \cap B = {}
    <3>1. ASSUME NEW q \in Q PROVE ~ (a + q <= a)
      <4>1. q \in 1 .. n
        BY <1>2
      <4> QED
        BY <1>1, <4>1
    <3> QED
      BY <3>1
  <2>3. IsFiniteSet(A) /\ Cardinality(A) \in Nat /\ Cardinality(A) = Rank(S, a)
    <3>1. A \in SUBSET S
      OBVIOUS
    <3> QED
      BY <3>1, FS_Subset, FS_CardinalityType DEF Rank
  <2>4. IsFiniteSet(Q) /\ Q \in SUBSET Nat /\ Cardinality(Q) \in Nat /\ Cardinality(Q) = Rank(P, i)
    <3>1. Q \in SUBSET P
      OBVIOUS
    <3> QED
      BY <1>2, <3>1, FS_Subset, FS_CardinalityType DEF Rank
  <2>5. IsFiniteSet(B) /\ Cardinality(B) = Cardinality(Q)
    <3> HIDE DEF Q
    <3> QED
      BY <2>4, ShiftSize
  <2>6. Cardinality(A \cup B) = Cardinality(A) + Cardinality(B)
    <3> HIDE DEF A, B
    <3>1. Cardinality(A \cup B) = Cardinality(A) + Cardinality(B) - Cardinality(A \cap B)
      BY <2>3, <2>5, FS_Union
    <3>2. Cardinality(A \cap B) = 0
      BY <2>2, FS_EmptySet
    <3>3. Cardinality(A) \in Nat /\ Cardinality(B) \in Nat
      BY <2>3, <2>4, <2>5
    <3> QED
      BY <3>1, <3>2, <3>3
  <2> QED
    BY <2>1, <2>3, <2>4, <2>5, <2>6 DEF Rank
<1>5. Rank(P, n) = Cardinality(P)
  <2>1. \A j \in P : j <= n
    BY <1>1, <1>2
  <2>2. {j \in P : j <= n} = P
    BY <2>1
  <2> QED
    BY <2>2 DEF Rank
<1>6. Rank(S, a + n) = Rank(S, a) + Len(Only(s, S))
  <2>1. n \in 0 .. n
    BY <1>1
  <2> QED
    BY <1>2, <1>4, <1>5, <2>1
<1>7. ASSUME NEW k \in 1 .. Len(Only(s, S))
      PROVE  Only(s, S)[k] \in S /\ Rank(S, Only(s, S)[k]) = Rank(S, a) + k
  <2>1. k \in 1 .. Cardinality(P)
    BY <1>2
  <2>2. Nth(P, k) \in P /\ Rank(P, Nth(P, k)) = k
    BY <1>2, <2>1, NthIs
  <2>3. Nth(P, k) \in 1 .. n /\ a + Nth(P, k) \in S
    BY <1>3, <2>2
  <2>4. Only(s, S)[k] = s[Nth(P, k)]
    BY <2>1 DEF Only, P
  <2>5. s[Nth(P, k)] = a + Nth(P, k)
    BY <2>3 DEF n
  <2>6. Nth(P, k) \in 0 .. n
    BY <1>1, <2>3
  <2> QED
    BY <1>4, <2>2, <2>3, <2>4, <2>5, <2>6
<1> QED
  BY <1>6, <1>7 DEF n

-----------------------------------------------------------------------------
(* Inductive invariants.                                                   *)

\* A call of do has the seqs of its batch, and has cached it.
WithSeqs == {"cache", "read", "write", "create", "mongo", "push"}
WithCache == WithSeqs \ {"cache"}

\* The batches, in lane l, of the calls of do that are at one of the stages.
InJobs(stages, l) ==
  UNION {ToSet(Batch(p)) : p \in {q \in Proc : job[q].at \in stages /\ job[q].lane = l}}

\* Wherever a message of lane l has a seq.
Numbers(l) == cache[l] \cup docs[l] \cup Waiting(l) \cup Pushed(l) \cup InJobs(WithSeqs, l)

NumberInv ==
  \A l \in Lane :
    /\ \A x \in Numbers(l) : x.seq \in 1 .. maxSeq[l]
    /\ \A x, y \in Numbers(l) : x.seq = y.seq => x.msg = y.msg

FoundInv ==
  \A l \in Lane :
    /\ Pushed(l) \cup InJobs(WithCache, l) \subseteq cache[l]
    /\ failures = 0 => Pushed(l) \cup InJobs({"push"}, l) \subseteq docs[l] \cup Waiting(l)

\* As long as the partition stays, what is consumed goes through one process in
\* the order of the topic: what was pushed in a lane is before what do has yet
\* to push there, and that is before what the batcher holds.
Rising(s) == \A i, k \in DOMAIN s : i < k => s[i] < s[k]
Before(x, s) == \A i \in DOMAIN s : x < s[i]

Alone == \A p \in Proc \ {owner} : held[p] = << >> /\ job[p].at = "idle"

\* The job j has yet to work on lane l, or is at it.
Ahead(j, l) == j.at # "idle" /\ (j.lane = l \/ l = "ntf")

\* A process that consumed n messages, holds h, and is in the job j.
Ordered(h, j, n) ==
  /\ Rising(h) /\ \A i \in DOMAIN h : h[i] <= n
  /\ j.at # "idle" =>
       Rising(j.msgs) /\ \A i \in DOMAIN j.msgs : j.msgs[i] <= n /\ Before(j.msgs[i], h)

\* It pushed the entry x in lane l.
PushedBefore(x, l, h, j, n) ==
  /\ x.msg <= n /\ Before(x.msg, h)
  /\ Ahead(j, l) => Before(x.msg, j.msgs)
  /\ j.at \in WithSeqs /\ j.lane = l => x.seq <= j.base

Order ==
  /\ Alone
  /\ Ordered(held[owner], job[owner], position)
  /\ \A l \in Lane : \A x \in Pushed(l) :
       PushedBefore(x, l, held[owner], job[owner], position)

\* Entries of a lane that have seqs are in the order of these and of the topic.
Precedes(x, y) ==
  x.lane = y.lane /\ x.seq > 0 /\ y.seq > 0 => x.seq < y.seq /\ x.msg < y.msg
InOrder(s) == \A i \in DOMAIN s, k \in DOMAIN s : i < k => Precedes(s[i], s[k])

OrderInv == moves = 0 /\ crashes = 0 => Order /\ InOrder(toPush)

\* Without a fault, what was consumed and is to be stored is in a batcher, with
\* a call of do that has yet to push it, or was pushed.
Perfect == failures = 0 /\ crashes = 0 /\ ~refused

Known(m, l) ==
  \/ \E p \in Proc : m \in ToSet(held[p])
  \/ \E p \in Proc : Ahead(job[p], l) /\ m \in ToSet(job[p].msgs)
  \/ \E e \in Pushed(l) : e.msg = m

LossInv ==
  Perfect => \A l \in Lane : \A m \in StoredIn(l) : m <= position => Known(m, l)

\* What is stored of the chat, or will be if no call fails; and that of it
\* whose senders' read seqs were sent to Mongo.
Sent == docs["msg"] \cup Waiting("msg") \cup InJobs({"create", "mongo"}, "msg")
Coming == Sent \cup InJobs({"read", "write"}, "msg")

ReadOK ==
  /\ \A p \in Proc : job[p].at \in {"read", "write", "create"} => job[p].lane = "msg"
  /\ \A u \in User :
       /\ readDB[u] \in SeqsOf(Coming, u) /\ readSeq[u] \in SeqsOf(Coming, u)
       /\ \A p \in Proc : \A i \in DOMAIN readChan[p] : readChan[p][i][u] \in SeqsOf(Coming, u)
       /\ \A p \in Proc : job[p].at \in {"read", "write"} => job[p].unread[u] \in SeqsOf(Coming, u)
       /\ \A n \in SeqsOf(Sent, u) :
            n <= readDB[u] \/ \E p \in Proc : \E i \in DOMAIN readChan[p] : n <= readChan[p][i][u]

ReadInv == failures = 0 /\ crashes = 0 => ReadOK

\* If the partition stays too, so is the cached read seq.
CachedOK ==
  /\ \A u \in User : \A n \in SeqsOf(Coming, u) :
       \/ n <= readSeq[u]
       \/ \E p \in Proc : job[p].at \in {"read", "write"} /\ n <= job[p].unread[u]
  /\ \A p \in Proc : job[p].at = "write" => job[p].seen = readSeq[job[p].user]

CachedReadInv == failures = 0 /\ crashes = 0 /\ moves = 0 => CachedOK

\* As long as the partition stays and nothing fails, the seq of a message is its
\* rank among those of its lane: what was consumed is all of the topic up to
\* position, in runs without a gap.
RankOf(l, m) == Rank(StoredIn(l), m)

Run(s, a) == a \in Nat /\ \A i \in DOMAIN s : s[i] = a + i

\* How far a process that consumed n messages, holds h, and is in the job j has
\* come with giving seqs in lane l.
Reached(h, j, l, n) ==
  n - Len(h) - (IF Ahead(j, l) /\ ~ (j.lane = l /\ j.at \in WithSeqs) THEN Len(j.msgs) ELSE 0)

Runs(h, j, n) ==
  Run(h, n - Len(h)) /\ (j.at # "idle" => Run(j.msgs, n - Len(h) - Len(j.msgs)))

\* Wherever do puts a message with its seq on the way to Mongo.
Storing(l) == docs[l] \cup Waiting(l) \cup InJobs(WithSeqs, l)

RankOK ==
  /\ Runs(held[owner], job[owner], position)
  /\ \A l \in Lane :
       /\ \A x \in Storing(l) : x.msg \in StoredIn(l) /\ x.seq = RankOf(l, x.msg)
       /\ maxSeq[l] = RankOf(l, Reached(held[owner], job[owner], l, position))

RankInv == Perfect /\ moves = 0 => RankOK

-----------------------------------------------------------------------------
(* Messages, batches and jobs.                                             *)

\* The messages of the topic are numbered from 1; each has a kind and a sender.
LEMMA Messages ==
  ASSUME topic \in Topics
  PROVE  /\ Message = 1 .. Len(topic) /\ Len(topic) \in Nat
         /\ \A m \in Message : topic[m].kind \in Kind /\ topic[m].from \in User
         /\ Message \in SUBSET Nat
         /\ \A l \in Lane : StoredIn(l) \in SUBSET Message
<1>1. topic \in Seq([kind : Kind, from : User])
  BY TopicAssumption
<1>2. Message = 1 .. Len(topic) /\ Len(topic) \in Nat
  BY <1>1 DEF Message
<1>3. \A m \in Message : topic[m] \in [kind : Kind, from : User]
  BY <1>1, <1>2, ElementOfSeq
<1> QED
  BY <1>2, <1>3 DEF StoredIn

\* The storage list of a job and its batch.
StorageOf(j) == OfKinds(j.msgs, StoredKinds[j.lane])
BatchOf(j) == Numbered(StorageOf(j), j.base)

\* A list of some kinds has the messages of these kinds.
LEMMA OfKindsType ==
  ASSUME topic \in Topics, NEW ms \in Seq(Message), NEW ks
  PROVE  /\ OfKinds(ms, ks) \in Seq(Message) /\ Len(OfKinds(ms, ks)) \in Nat
         /\ \A k \in 1 .. Len(OfKinds(ms, ks)) :
              /\ OfKinds(ms, ks)[k] \in Message
              /\ topic[OfKinds(ms, ks)[k]].kind \in ks
              /\ OfKinds(ms, ks)[k] \in ToSet(ms)
         /\ \A i \in 1 .. Len(ms) : topic[ms[i]].kind \in ks =>
              \E k \in 1 .. Len(OfKinds(ms, ks)) : OfKinds(ms, ks)[k] = ms[i]
         /\ OfKinds(ms, ks) = << >> <=> \A i \in 1 .. Len(ms) : topic[ms[i]].kind \notin ks
<1> DEFINE S == {m \in DOMAIN topic : topic[m].kind \in ks}
           o == Only(ms, S)
<1>0. OfKinds(ms, ks) = o
  BY DEF OfKinds
<1>1. \A i \in 1 .. Len(ms) : ms[i] \in Message /\ (ms[i] \in S <=> topic[ms[i]].kind \in ks)
  BY DEF Message
<1>2. DOMAIN ms = 1 .. Len(ms) /\ Len(ms) \in Nat
  OBVIOUS
<1> HIDE DEF S
<1>3. /\ o \in Seq(Message)
      /\ \A k \in 1 .. Len(o) : \E i \in 1 .. Len(ms) : o[k] = ms[i] /\ ms[i] \in S
  BY OnlyType
<1>4. Len(o) \in Nat
  BY <1>3, LenProperties
<1>5. \A k \in 1 .. Len(o) :
        o[k] \in Message /\ topic[o[k]].kind \in ks /\ o[k] \in ToSet(ms)
  BY <1>1, <1>2, <1>3 DEF ToSet
<1>6. \A i \in 1 .. Len(ms) : topic[ms[i]].kind \in ks => \E k \in 1 .. Len(o) : o[k] = ms[i]
  BY <1>1, OnlyHas
<1>7. o = << >> <=> \A i \in 1 .. Len(ms) : topic[ms[i]].kind \notin ks
  BY <1>1, OnlyEmpty
<1> HIDE DEF o
<1> QED
  BY <1>0, <1>3, <1>4, <1>5, <1>6, <1>7

\* The storage list of a job has its messages that are stored in its lane.
LEMMA StorageType ==
  ASSUME topic \in Topics, NEW j \in Job
  PROVE  /\ StorageOf(j) \in Seq(Message) /\ Len(StorageOf(j)) \in Nat
         /\ \A k \in 1 .. Len(StorageOf(j)) :
              /\ StorageOf(j)[k] \in Message /\ StorageOf(j)[k] \in StoredIn(j.lane)
              /\ StorageOf(j)[k] \in ToSet(j.msgs)
         /\ \A m \in ToSet(j.msgs) : m \in StoredIn(j.lane) =>
              \E k \in 1 .. Len(StorageOf(j)) : StorageOf(j)[k] = m
         /\ StorageOf(j) = << >> <=> \A m \in ToSet(j.msgs) : m \notin StoredIn(j.lane)
<1> DEFINE s == StorageOf(j)
           ks == StoredKinds[j.lane]
<1>1. j.msgs \in Seq(Message) /\ j.lane \in Lane
  BY DEF Job
<1>2. s = OfKinds(j.msgs, ks)
  BY DEF StorageOf
<1>3. DOMAIN j.msgs = 1 .. Len(j.msgs) /\ \A i \in 1 .. Len(j.msgs) : j.msgs[i] \in Message
  BY <1>1
<1>4. \A m \in Message : m \in StoredIn(j.lane) <=> topic[m].kind \in ks
  BY DEF StoredIn
<1>5. \A m \in ToSet(j.msgs) : m \in Message /\ \E i \in 1 .. Len(j.msgs) : m = j.msgs[i]
  BY <1>3 DEF ToSet
<1>6. \A i \in 1 .. Len(j.msgs) : j.msgs[i] \in ToSet(j.msgs)
  BY <1>3 DEF ToSet
<1> HIDE DEF s, ks
<1>7. /\ s \in Seq(Message) /\ Len(s) \in Nat
      /\ \A k \in 1 .. Len(s) :
           s[k] \in Message /\ topic[s[k]].kind \in ks /\ s[k] \in ToSet(j.msgs)
      /\ \A i \in 1 .. Len(j.msgs) : topic[j.msgs[i]].kind \in ks =>
           \E k \in 1 .. Len(s) : s[k] = j.msgs[i]
      /\ s = << >> <=> \A i \in 1 .. Len(j.msgs) : topic[j.msgs[i]].kind \notin ks
  BY <1>1, <1>2, OfKindsType
<1>8. \A m \in ToSet(j.msgs) : m \in StoredIn(j.lane) => \E k \in 1 .. Len(s) : s[k] = m
  BY <1>4, <1>5, <1>7
<1>9. s = << >> <=> \A m \in ToSet(j.msgs) : m \notin StoredIn(j.lane)
  BY <1>4, <1>5, <1>6, <1>7
<1> QED
  BY <1>4, <1>7, <1>8, <1>9 DEF s

\* The batch of a job numbers its storage list from base + 1 on.
LEMMA BatchType ==
  ASSUME topic \in Topics, NEW j \in Job
  PROVE  /\ BatchOf(j) \in Seq(Entry) /\ Len(BatchOf(j)) = Len(StorageOf(j))
         /\ DOMAIN BatchOf(j) = 1 .. Len(StorageOf(j))
         /\ \A i \in 1 .. Len(StorageOf(j)) :
              BatchOf(j)[i] = [seq |-> j.base + i, msg |-> StorageOf(j)[i]]
<1> DEFINE s == StorageOf(j)
           n == Len(s)
           b == [i \in 1 .. n |-> [seq |-> j.base + i, msg |-> s[i]]]
<1>1. s \in Seq(Message) /\ n \in Nat /\ \A k \in 1 .. n : s[k] \in Message
  BY StorageType
<1>2. DOMAIN s = 1 .. n
  BY <1>1
<1>3. BatchOf(j) = b
  BY <1>2 DEF BatchOf, Numbered
<1>4. j.base \in Nat
  BY DEF Job
<1> HIDE DEF s
<1>5. \A i \in 1 .. n : b[i] \in Entry
  BY <1>1, <1>4 DEF Entry
<1>6. b \in [1 .. n -> Entry]
  BY <1>5
<1> HIDE DEF b
<1>7. b \in Seq(Entry) /\ Len(b) = n /\ DOMAIN b = 1 .. n
  BY <1>1, <1>6
<1>8. \A i \in 1 .. n : b[i] = [seq |-> j.base + i, msg |-> s[i]]
  BY DEF b
<1> QED
  BY <1>3, <1>7, <1>8 DEF s

\* What is in a batch: messages of the job to be stored in its lane, each once
\* with a seq behind base.
LEMMA BatchElements ==
  ASSUME topic \in Topics, NEW j \in Job
  PROVE  /\ ToSet(BatchOf(j)) \in SUBSET Entry
         /\ \A e \in ToSet(BatchOf(j)) :
              /\ e.seq \in j.base + 1 .. j.base + Len(StorageOf(j))
              /\ e.msg \in StoredIn(j.lane) /\ e.msg \in ToSet(j.msgs)
         /\ \A e, f \in ToSet(BatchOf(j)) : e.seq = f.seq => e.msg = f.msg
         /\ \A m \in ToSet(j.msgs) : m \in StoredIn(j.lane) =>
              \E e \in ToSet(BatchOf(j)) : e.msg = m
<1> DEFINE s == StorageOf(j)
           n == Len(s)
           b == BatchOf(j)
<1>1. /\ b \in Seq(Entry) /\ Len(b) = n /\ DOMAIN b = 1 .. n
      /\ \A i \in 1 .. n : b[i] = [seq |-> j.base + i, msg |-> s[i]]
  BY BatchType
<1>2. /\ n \in Nat
      /\ \A k \in 1 .. n : s[k] \in StoredIn(j.lane) /\ s[k] \in ToSet(j.msgs)
      /\ \A m \in ToSet(j.msgs) : m \in StoredIn(j.lane) => \E k \in 1 .. n : s[k] = m
  BY StorageType
<1>3. j.base \in Nat
  BY DEF Job
<1> HIDE DEF s, b
<1>4. \A e \in ToSet(b) : \E i \in 1 .. n : e = b[i] /\ e \in Entry
  BY <1>1 DEF ToSet
<1>5. \A i \in 1 .. n : b[i] \in ToSet(b) /\ b[i].seq = j.base + i /\ b[i].msg = s[i]
  BY <1>1 DEF ToSet
<1>6. \A e \in ToSet(b) :
        /\ e.seq \in j.base + 1 .. j.base + n
        /\ e.msg \in StoredIn(j.lane) /\ e.msg \in ToSet(j.msgs)
  <2> TAKE e \in ToSet(b)
  <2>1. PICK i \in 1 .. n : e = b[i]
    BY <1>4
  <2>2. e.seq = j.base + i /\ e.msg = s[i]
    BY <1>5, <2>1
  <2>3. j.base + i \in j.base + 1 .. j.base + n
    BY <1>2, <1>3
  <2> QED
    BY <1>2, <2>2, <2>3
<1>7. \A e, f \in ToSet(b) : e.seq = f.seq => e.msg = f.msg
  BY <1>3, <1>4, <1>5
<1>8. \A m \in ToSet(j.msgs) : m \in StoredIn(j.lane) => \E e \in ToSet(b) : e.msg = m
  BY <1>2, <1>5
<1> QED
  BY <1>4, <1>6, <1>7, <1>8 DEF s, b

-----------------------------------------------------------------------------
(* What the steps do to the jobs.                                          *)

\* p's is the only job that changes, and its result is a job.
OnlyJobOf(p) == job' \in [Proc -> Job] /\ \A q \in Proc \ {p} : job'[q] = job[q]
SameBatch(p) ==
  job'[p].lane = job[p].lane /\ job'[p].msgs = job[p].msgs /\ job'[p].base = job[p].base
SameRead(p) ==
  job'[p].unread = job[p].unread /\ job'[p].user = job[p].user /\ job'[p].seen = job[p].seen

\* No job.
LEMMA NoJobType ==
  ASSUME TypeOK
  PROVE  /\ NoJob \in Job /\ NoJob.at = "idle" /\ NoJob.msgs = << >> /\ NoJob.base = 0
         /\ NoJob.lane = "msg" /\ NoJob.unread = NoRead /\ NoRead \in [User -> Nat]
<1>1. (CHOOSE u \in User : TRUE) \in User
  BY UserAssumption
<1>2. NoRead \in [User -> Nat]
  BY DEF NoRead
<1>3. << >> \in Seq(Message)
  OBVIOUS
<1> QED
  BY <1>1, <1>2, <1>3 DEF NoJob, Job, Stage, Lane

\* A job is replaced.
LEMMA JobReplaced ==
  ASSUME TypeOK, NEW p \in Proc, NEW r \in Job, job' = [job EXCEPT ![p] = r]
  PROVE  OnlyJobOf(p) /\ job'[p] = r
BY DEF TypeOK, OnlyJobOf

\* GoTo changes the stage only.
LEMMA GoToEffect ==
  ASSUME TypeOK, NEW p \in Proc, NEW at \in Stage, GoTo(p, at)
  PROVE  OnlyJobOf(p) /\ job'[p].at = at /\ SameBatch(p) /\ SameRead(p)
<1> DEFINE r == [job[p] EXCEPT !.at = at]
<1>1. job[p] \in Job
  BY DEF TypeOK
<1>2. /\ r \in Job /\ r.at = at /\ r.lane = job[p].lane /\ r.msgs = job[p].msgs
      /\ r.base = job[p].base /\ r.unread = job[p].unread /\ r.user = job[p].user
      /\ r.seen = job[p].seen
  BY <1>1 DEF Job
<1>3. job' = [job EXCEPT ![p] = r]
  BY DEF GoTo
<1> HIDE DEF r
<1>4. OnlyJobOf(p) /\ job'[p] = r
  BY <1>2, <1>3, JobReplaced
<1> QED
  BY <1>2, <1>4 DEF SameBatch, SameRead

\* Leave ends the job, or goes on with its notifications.
LEMMA LeaveEffect ==
  ASSUME TypeOK, NEW p \in Proc, Leave(p)
  PROVE  /\ OnlyJobOf(p)
         /\ \/ /\ job'[p].at = "transient" /\ job'[p].lane = "ntf" /\ job[p].lane = "msg"
               /\ job'[p].msgs = job[p].msgs /\ HasNotification(p) /\ SameRead(p)
            \/ job'[p] = NoJob /\ ~(job[p].lane = "msg" /\ HasNotification(p))
<1> DEFINE on == job[p].lane = "msg" /\ HasNotification(p)
<1>1. job[p] \in Job
  BY DEF TypeOK
<1>2. CASE on
  <2> DEFINE a == [job[p] EXCEPT !.lane = "ntf"]
             b == [a EXCEPT !.at = "transient"]
             r == [b EXCEPT !.base = 0]
  <2>1. a \in Job /\ a.lane = "ntf" /\ a.msgs = job[p].msgs /\ a.unread = job[p].unread
        /\ a.user = job[p].user /\ a.seen = job[p].seen
    BY <1>1 DEF Job, Lane
  <2>2. /\ b \in Job /\ b.at = "transient" /\ b.lane = a.lane /\ b.msgs = a.msgs
        /\ b.unread = a.unread /\ b.user = a.user /\ b.seen = a.seen
    <3> HIDE DEF a
    <3> QED
      BY <2>1 DEF Job, Stage
  <2>3. /\ r \in Job /\ r.at = b.at /\ r.lane = b.lane /\ r.msgs = b.msgs
        /\ r.unread = b.unread /\ r.user = b.user /\ r.seen = b.seen
    <3> HIDE DEF b
    <3> QED
      BY <2>2 DEF Job
  <2>4. job' = [job EXCEPT ![p] = r]
    BY <1>2 DEF Leave
  <2> HIDE DEF a, b, r
  <2>5. OnlyJobOf(p) /\ job'[p] = r
    BY <2>3, <2>4, JobReplaced
  <2> QED
    BY <1>2, <2>1, <2>2, <2>3, <2>5 DEF SameRead
<1>3. CASE ~on
  <2>1. job' = [job EXCEPT ![p] = NoJob]
    BY <1>3 DEF Leave
  <2>2. OnlyJobOf(p) /\ job'[p] = NoJob
    BY <2>1, NoJobType, JobReplaced
  <2> QED
    BY <1>3, <2>2
<1> QED
  BY <1>2, <1>3

\* Malloc goes to "cache" with a new base.
LEMMA MallocEffect ==
  ASSUME TypeOK, NEW p \in Proc, NEW n \in Nat,
         job' = [job EXCEPT ![p].at = "cache", ![p].base = n]
  PROVE  /\ OnlyJobOf(p) /\ job'[p].at = "cache" /\ job'[p].base = n /\ SameRead(p)
         /\ job'[p].lane = job[p].lane /\ job'[p].msgs = job[p].msgs
<1> DEFINE a == [job[p] EXCEPT !.at = "cache"]
           r == [a EXCEPT !.base = n]
<1>1. job[p] \in Job
  BY DEF TypeOK
<1>2. /\ a \in Job /\ a.at = "cache" /\ a.lane = job[p].lane /\ a.msgs = job[p].msgs
      /\ a.unread = job[p].unread /\ a.user = job[p].user /\ a.seen = job[p].seen
  BY <1>1 DEF Job, Stage
<1>3. /\ r \in Job /\ r.at = a.at /\ r.base = n /\ r.lane = a.lane /\ r.msgs = a.msgs
      /\ r.unread = a.unread /\ r.user = a.user /\ r.seen = a.seen
  <2> HIDE DEF a
  <2> QED
    BY <1>2 DEF Job
<1>4. job' = [job EXCEPT ![p] = r]
  <2>1. job \in [Proc -> Job]
    BY DEF TypeOK
  <2> QED
    BY <2>1
<1> HIDE DEF a, r
<1>5. OnlyJobOf(p) /\ job'[p] = r
  BY <1>3, <1>4, JobReplaced
<1> QED
  BY <1>2, <1>3, <1>5 DEF SameRead

\* The read seqs of a job are set.
LEMMA UnreadEffect ==
  ASSUME TypeOK, NEW p \in Proc, NEW f \in [User -> Nat],
         job' = [job EXCEPT ![p].at = "read", ![p].unread = f]
  PROVE  OnlyJobOf(p) /\ job'[p].at = "read" /\ job'[p].unread = f /\ SameBatch(p)
<1> DEFINE a == [job[p] EXCEPT !.at = "read"]
           r == [a EXCEPT !.unread = f]
<1>1. job[p] \in Job
  BY DEF TypeOK
<1>2. /\ a \in Job /\ a.at = "read" /\ a.lane = job[p].lane /\ a.msgs = job[p].msgs
      /\ a.base = job[p].base
  BY <1>1 DEF Job, Stage
<1>3. /\ r \in Job /\ r.at = a.at /\ r.unread = f /\ r.lane = a.lane /\ r.msgs = a.msgs
      /\ r.base = a.base
  <2> HIDE DEF a
  <2> QED
    BY <1>2 DEF Job
<1>4. job' = [job EXCEPT ![p] = r]
  <2>1. job \in [Proc -> Job]
    BY DEF TypeOK
  <2> QED
    BY <2>1
<1> HIDE DEF a, r
<1>5. OnlyJobOf(p) /\ job'[p] = r
  BY <1>3, <1>4, JobReplaced
<1> QED
  BY <1>2, <1>3, <1>5 DEF SameBatch

\* One read seq of a job is dealt with.
LEMMA SetEffect ==
  ASSUME TypeOK, NEW p \in Proc, NEW u \in User,
         job' = [job EXCEPT ![p].at = "read", ![p].unread[u] = 0]
  PROVE  /\ OnlyJobOf(p) /\ job'[p].at = "read" /\ SameBatch(p)
         /\ job'[p].unread = [job[p].unread EXCEPT ![u] = 0]
<1> DEFINE f == [job[p].unread EXCEPT ![u] = 0]
<1>1. job \in [Proc -> Job] /\ job[p] \in Job
  BY DEF TypeOK
<1>2. f \in [User -> Nat]
  BY <1>1 DEF Job
<1>3. job' = [job EXCEPT ![p].at = "read", ![p].unread = f]
  BY <1>1 DEF Job
<1> HIDE DEF f
<1>4. OnlyJobOf(p) /\ job'[p].at = "read" /\ job'[p].unread = f /\ SameBatch(p)
  BY <1>2, <1>3, UnreadEffect
<1> QED
  BY <1>4 DEF f

\* The read seq of a user is taken.
LEMMA GetEffect ==
  ASSUME TypeOK, NEW p \in Proc, NEW u \in User, NEW n \in Nat,
         job' = [job EXCEPT ![p].at = "write", ![p].user = u, ![p].seen = n]
  PROVE  /\ OnlyJobOf(p) /\ job'[p].at = "write" /\ SameBatch(p)
         /\ job'[p].unread = job[p].unread /\ job'[p].user = u /\ job'[p].seen = n
<1> DEFINE a == [job[p] EXCEPT !.at = "write"]
           b == [a EXCEPT !.user = u]
           r == [b EXCEPT !.seen = n]
<1>1. job[p] \in Job
  BY DEF TypeOK
<1>2. /\ a \in Job /\ a.at = "write" /\ a.lane = job[p].lane /\ a.msgs = job[p].msgs
      /\ a.base = job[p].base /\ a.unread = job[p].unread
  BY <1>1 DEF Job, Stage
<1>3. /\ b \in Job /\ b.at = a.at /\ b.user = u /\ b.lane = a.lane /\ b.msgs = a.msgs
      /\ b.base = a.base /\ b.unread = a.unread
  <2> HIDE DEF a
  <2> QED
    BY <1>2 DEF Job
<1>4. /\ r \in Job /\ r.at = b.at /\ r.user = b.user /\ r.lane = b.lane /\ r.msgs = b.msgs
      /\ r.base = b.base /\ r.unread = b.unread /\ r.seen = n
  <2> HIDE DEF b
  <2> QED
    BY <1>3 DEF Job
<1>5. job' = [job EXCEPT ![p] = r]
  <2>1. job \in [Proc -> Job]
    BY DEF TypeOK
  <2> QED
    BY <2>1
<1> HIDE DEF a, b, r
<1>6. OnlyJobOf(p) /\ job'[p] = r
  BY <1>4, <1>5, JobReplaced
<1> QED
  BY <1>2, <1>3, <1>4, <1>6 DEF SameBatch

\* do begins with the first n messages of the batcher.
LEMMA DoEffect ==
  ASSUME TypeOK, NEW p \in Proc, NEW ms \in Seq(Message),
         job' = [job EXCEPT ![p] = [NoJob EXCEPT !.at = "transient", !.msgs = ms]]
  PROVE  /\ OnlyJobOf(p) /\ job'[p].at = "transient" /\ job'[p].msgs = ms
         /\ job'[p].lane = "msg" /\ job'[p].base = 0 /\ job'[p].unread = NoRead
<1> DEFINE a == [NoJob EXCEPT !.at = "transient"]
           r == [a EXCEPT !.msgs = ms]
<1>1. NoJob \in Job /\ NoJob.base = 0 /\ NoJob.lane = "msg" /\ NoJob.unread = NoRead
  BY NoJobType
<1>2. /\ a \in Job /\ a.at = "transient" /\ a.lane = "msg" /\ a.base = 0
      /\ a.unread = NoRead
  BY <1>1 DEF Job, Stage
<1>3. /\ r \in Job /\ r.at = a.at /\ r.msgs = ms /\ r.lane = a.lane /\ r.base = a.base
      /\ r.unread = a.unread
  <2> HIDE DEF a
  <2> QED
    BY <1>2 DEF Job
<1>4. job' = [job EXCEPT ![p] = r]
  OBVIOUS
<1> HIDE DEF a, r
<1>5. OnlyJobOf(p) /\ job'[p] = r
  BY <1>3, <1>4, JobReplaced
<1> QED
  BY <1>2, <1>3, <1>5

-----------------------------------------------------------------------------
(* Sequences and their sets.                                               *)

\* The first n elements of a sequence, and the others.
LEMMA Split ==
  ASSUME NEW T, NEW s \in Seq(T), NEW n \in 0 .. Len(s)
  PROVE  /\ SubSeq(s, 1, n) \in Seq(T) /\ Len(SubSeq(s, 1, n)) = n
         /\ DOMAIN SubSeq(s, 1, n) = 1 .. n
         /\ \A i \in 1 .. n : SubSeq(s, 1, n)[i] = s[i]
         /\ SubSeq(s, n + 1, Len(s)) \in Seq(T)
         /\ Len(SubSeq(s, n + 1, Len(s))) = Len(s) - n
         /\ DOMAIN SubSeq(s, n + 1, Len(s)) = 1 .. Len(s) - n
         /\ \A i \in 1 .. Len(s) - n : SubSeq(s, n + 1, Len(s))[i] = s[n + i]
<1>1. Len(s) \in Nat /\ n \in Nat /\ n <= Len(s) /\ \A i \in 1 .. Len(s) : s[i] \in T
  BY ElementOfSeq, LenProperties
<1> DEFINE a == SubSeq(s, 1, n)
           b == SubSeq(s, n + 1, Len(s))
<1>2. a \in Seq(T) /\ Len(a) = n /\ \A i \in 1 .. n : a[i] = s[i]
  <2>1. \A i \in 1 .. n : s[i] \in T
    BY <1>1
  <2>2. /\ a \in Seq(T) /\ Len(a) = IF 1 <= n THEN n - 1 + 1 ELSE 0
        /\ \A i \in 1 .. n - 1 + 1 : a[i] = s[1 + i - 1]
    BY <1>1, <2>1, SubSeqProperties
  <2>3. Len(a) = n
    BY <1>1, <2>2
  <2>4. \A i \in 1 .. n : a[i] = s[i]
    <3> TAKE i \in 1 .. n
    <3>1. i \in 1 .. n - 1 + 1 /\ 1 + i - 1 = i
      BY <1>1
    <3> QED
      BY <2>2, <3>1
  <2> QED
    BY <2>2, <2>3, <2>4
<1>3. b \in Seq(T) /\ Len(b) = Len(s) - n /\ \A i \in 1 .. Len(s) - n : b[i] = s[n + i]
  <2>1. \A i \in n + 1 .. Len(s) : s[i] \in T
    BY <1>1
  <2>2. /\ b \in Seq(T) /\ Len(b) = IF n + 1 <= Len(s) THEN Len(s) - (n + 1) + 1 ELSE 0
        /\ \A i \in 1 .. Len(s) - (n + 1) + 1 : b[i] = s[n + 1 + i - 1]
    BY <1>1, <2>1, SubSeqProperties
  <2>3. Len(b) = Len(s) - n
    BY <1>1, <2>2
  <2>4. \A i \in 1 .. Len(s) - n : b[i] = s[n + i]
    <3> TAKE i \in 1 .. Len(s) - n
    <3>1. i \in 1 .. Len(s) - (n + 1) + 1 /\ n + 1 + i - 1 = n + i
      BY <1>1
    <3> QED
      BY <2>2, <3>1
  <2> QED
    BY <2>2, <2>3, <2>4
<1> HIDE DEF a, b
<1>4. DOMAIN a = 1 .. n /\ DOMAIN b = 1 .. Len(s) - n
  BY <1>2, <1>3, LenProperties
<1> QED
  BY <1>2, <1>3, <1>4 DEF a, b

\* The set of a sequence, of a part of it, and of longer ones.
LEMMA Sets ==
  ASSUME NEW T, NEW s \in Seq(T)
  PROVE  /\ ToSet(s) \in SUBSET T
         /\ \A n \in 0 .. Len(s) : ToSet(SubSeq(s, 1, n)) \subseteq ToSet(s)
         /\ \A t \in Seq(T) : s \o t \in Seq(T) /\ ToSet(s \o t) = ToSet(s) \cup ToSet(t)
         /\ \A x \in T : Append(s, x) \in Seq(T) /\ ToSet(Append(s, x)) = ToSet(s) \cup {x}
         /\ s # << >> => /\ Head(s) \in T /\ Tail(s) \in Seq(T)
                         /\ ToSet(s) = {Head(s)} \cup ToSet(Tail(s))
<1>1. DOMAIN s = 1 .. Len(s) /\ Len(s) \in Nat /\ \A i \in 1 .. Len(s) : s[i] \in T
  BY ElementOfSeq, LenProperties
<1>2. ToSet(s) \in SUBSET T
  BY <1>1 DEF ToSet
<1>3. ASSUME NEW n \in 0 .. Len(s) PROVE ToSet(SubSeq(s, 1, n)) \subseteq ToSet(s)
  <2>1. /\ DOMAIN SubSeq(s, 1, n) = 1 .. n
        /\ \A i \in 1 .. n : SubSeq(s, 1, n)[i] = s[i]
    BY Split
  <2>2. \A i \in 1 .. n : i \in 1 .. Len(s)
    BY <1>1
  <2> QED
    BY <1>1, <2>1, <2>2 DEF ToSet
<1>4. ASSUME NEW t \in Seq(T)
      PROVE  s \o t \in Seq(T) /\ ToSet(s \o t) = ToSet(s) \cup ToSet(t)
  <2> DEFINE c == s \o t
  <2>1. /\ c \in Seq(T) /\ Len(c) = Len(s) + Len(t)
        /\ \A i \in 1 .. Len(s) + Len(t) :
             c[i] = IF i <= Len(s) THEN s[i] ELSE t[i - Len(s)]
    BY ConcatProperties
  <2>2. DOMAIN t = 1 .. Len(t) /\ Len(t) \in Nat /\ DOMAIN c = 1 .. Len(s) + Len(t)
    BY <2>1, LenProperties
  <2> HIDE DEF c
  <2>3. ASSUME NEW x \in ToSet(c) PROVE x \in ToSet(s) \cup ToSet(t)
    <3>1. PICK i \in 1 .. Len(s) + Len(t) : x = c[i]
      BY <2>2 DEF ToSet
    <3>2. CASE i <= Len(s)
      <4>1. i \in 1 .. Len(s) /\ x = s[i]
        BY <1>1, <2>1, <2>2, <3>1, <3>2
      <4> QED
        BY <1>1, <4>1 DEF ToSet
    <3>3. CASE ~(i <= Len(s))
      <4>1. i - Len(s) \in 1 .. Len(t) /\ x = t[i - Len(s)]
        BY <1>1, <2>1, <2>2, <3>1, <3>3
      <4> QED
        BY <2>2, <4>1 DEF ToSet
    <3> QED
      BY <3>2, <3>3
  <2>4. ASSUME NEW x \in ToSet(s) PROVE x \in ToSet(c)
    <3>1. PICK i \in 1 .. Len(s) : x = s[i]
      BY <1>1 DEF ToSet
    <3>2. i \in 1 .. Len(s) + Len(t) /\ x = c[i]
      BY <1>1, <2>1, <2>2, <3>1
    <3> QED
      BY <2>2, <3>2 DEF ToSet
  <2>5. ASSUME NEW x \in ToSet(t) PROVE x \in ToSet(c)
    <3>1. PICK i \in 1 .. Len(t) : x = t[i]
      BY <2>2 DEF ToSet
    <3>2. i + Len(s) \in 1 .. Len(s) + Len(t) /\ ~(i + Len(s) <= Len(s)) /\ i + Len(s) - Len(s) = i
      BY <1>1, <2>2
    <3>3. x = c[i + Len(s)]
      BY <2>1, <3>1, <3>2
    <3> QED
      BY <2>2, <3>2, <3>3 DEF ToSet
  <2> QED
    BY <2>1, <2>3, <2>4, <2>5 DEF c
<1>5. ASSUME NEW x \in T
      PROVE  Append(s, x) \in Seq(T) /\ ToSet(Append(s, x)) = ToSet(s) \cup {x}
  <2> DEFINE a == Append(s, x)
  <2>1. /\ a \in Seq(T) /\ Len(a) = Len(s) + 1
        /\ \A i \in 1 .. Len(s) : a[i] = s[i]
        /\ a[Len(s) + 1] = x
    BY AppendProperties
  <2>2. DOMAIN a = 1 .. Len(s) + 1
    BY <2>1, LenProperties
  <2> HIDE DEF a
  <2>3. \A i \in 1 .. Len(s) + 1 : i \in 1 .. Len(s) \/ i = Len(s) + 1
    BY <1>1
  <2>4. \A i \in 1 .. Len(s) : i \in 1 .. Len(s) + 1
    BY <1>1
  <2>5. Len(s) + 1 \in 1 .. Len(s) + 1
    BY <1>1
  <2>6. ToSet(a) = ToSet(s) \cup {x}
    BY <1>1, <2>1, <2>2, <2>3, <2>4, <2>5 DEF ToSet
  <2> QED
    BY <2>1, <2>6 DEF a
<1>6. ASSUME s # << >>
      PROVE  /\ Head(s) \in T /\ Tail(s) \in Seq(T)
             /\ ToSet(s) = {Head(s)} \cup ToSet(Tail(s))
  <2> DEFINE t == Tail(s)
  <2>1. /\ Head(s) \in T /\ t \in Seq(T) /\ Len(t) = Len(s) - 1
        /\ \A i \in 1 .. Len(t) : t[i] = s[i + 1]
    BY <1>6, HeadTailProperties
  <2>2. Head(s) = s[1]
    BY <1>6
  <2>3. DOMAIN t = 1 .. Len(t) /\ Len(t) \in Nat
    BY <2>1, LenProperties
  <2> HIDE DEF t
  <2>4. Len(s) = Len(t) + 1
    BY <1>1, <2>1, <2>3
  <2>5. ASSUME NEW x \in ToSet(s) PROVE x \in {Head(s)} \cup ToSet(t)
    <3>1. PICK i \in 1 .. Len(s) : x = s[i]
      BY <1>1 DEF ToSet
    <3>2. CASE i = 1
      BY <2>2, <3>1, <3>2
    <3>3. CASE i # 1
      <4>1. i - 1 \in 1 .. Len(t) /\ i - 1 + 1 = i
        BY <2>3, <2>4, <3>1, <3>3
      <4> QED
        BY <2>1, <2>3, <3>1, <4>1 DEF ToSet
    <3> QED
      BY <3>2, <3>3
  <2>6. ASSUME NEW x \in ToSet(t) PROVE x \in ToSet(s)
    <3>1. PICK i \in 1 .. Len(t) : x = t[i]
      BY <2>3 DEF ToSet
    <3>2. i + 1 \in 1 .. Len(s)
      BY <2>3, <2>4
    <3> QED
      BY <1>1, <2>1, <3>1, <3>2 DEF ToSet
  <2>7. Head(s) \in ToSet(s)
    <3>1. 1 \in 1 .. Len(s)
      BY <2>3, <2>4
    <3> QED
      BY <1>1, <2>2, <3>1 DEF ToSet
  <2> QED
    BY <2>1, <2>5, <2>6, <2>7 DEF t
<1> QED
  BY <1>2, <1>3, <1>4, <1>5, <1>6

\* The largest of some numbers with a bound.
LEMMA MaxOf ==
  ASSUME NEW S \in SUBSET Nat, S # {}, NEW n \in Nat, \A x \in S : x <= n
  PROVE  Max(S) \in S /\ \A x \in S : x <= Max(S)
<1>1. IsFiniteSet(S)
  BY FS_BoundedSetOfNaturals
<1>2. \E x \in S : \A y \in S : x >= y
  BY <1>1, NatMax
<1>3. Max(S) \in S /\ \A y \in S : Max(S) >= y
  BY <1>2 DEF Max
<1> QED
  BY <1>3

\* The last seq of each sender, of entries with bounded seqs.
LEMMA UserSeqs ==
  ASSUME topic \in Topics, NEW es \in SUBSET Entry, NEW n \in Nat, \A e \in es : e.seq <= n
  PROVE  /\ UserSeqMap(es) \in [User -> Nat]
         /\ \A u \in User :
              /\ UserSeqMap(es)[u] \in SeqsOf(es, u)
              /\ \A x \in SeqsOf(es, u) : x \in Nat /\ x <= UserSeqMap(es)[u]
<1>1. ASSUME NEW u \in User
      PROVE  /\ Max(SeqsOf(es, u)) \in SeqsOf(es, u) /\ SeqsOf(es, u) \in SUBSET Nat
             /\ \A x \in SeqsOf(es, u) : x <= Max(SeqsOf(es, u))
  <2> DEFINE S == SeqsOf(es, u)
  <2>1. S \in SUBSET Nat /\ S # {} /\ \A x \in S : x <= n
    BY DEF SeqsOf, Entry
  <2> HIDE DEF S
  <2>2. Max(S) \in S /\ \A x \in S : x <= Max(S)
    BY <2>1, MaxOf
  <2> QED
    BY <2>1, <2>2 DEF S
<1>2. \A u \in User : UserSeqMap(es)[u] = Max(SeqsOf(es, u))
  BY DEF UserSeqMap
<1>3. UserSeqMap(es) \in [User -> Nat]
  <2>1. \A u \in User : Max(SeqsOf(es, u)) \in Nat
    BY <1>1
  <2> QED
    BY <2>1 DEF UserSeqMap
<1> QED
  BY <1>1, <1>2, <1>3

\* Those of a batch.
LEMMA BatchSeqs ==
  ASSUME topic \in Topics, NEW j \in Job
  PROVE  LET es == ToSet(BatchOf(j)) IN
         /\ UserSeqMap(es) \in [User -> Nat]
         /\ \A u \in User :
              /\ UserSeqMap(es)[u] \in SeqsOf(es, u)
              /\ \A x \in SeqsOf(es, u) : x \in Nat /\ x <= UserSeqMap(es)[u]
<1> DEFINE es == ToSet(BatchOf(j))
           n == j.base + Len(StorageOf(j))
<1>1. n \in Nat
  BY StorageType DEF Job
<1>2. es \in SUBSET Entry /\ \A e \in es : e.seq \in j.base + 1 .. n
  BY BatchElements
<1>3. \A e \in es : e.seq <= n
  <2> TAKE e \in es
  <2>1. e.seq \in j.base + 1 .. n
    BY <1>2
  <2> QED
    BY <2>1
<1> HIDE DEF n
<1>4. /\ UserSeqMap(es) \in [User -> Nat]
      /\ \A u \in User :
           /\ UserSeqMap(es)[u] \in SeqsOf(es, u)
           /\ \A x \in SeqsOf(es, u) : x \in Nat /\ x <= UserSeqMap(es)[u]
  <2> HIDE DEF es
  <2> QED
    BY <1>1, <1>2, <1>3, UserSeqs
<1> QED
  BY <1>4

-----------------------------------------------------------------------------
(* Type correctness.                                                       *)

\* The batch of a process is that of its job.
LEMMA JobBatch ==
  \A p : Storage(p) = StorageOf(job[p]) /\ Batch(p) = BatchOf(job[p])
BY DEF Storage, StorageOf, Batch, BatchOf

PushEntry == [lane : Lane, seq : Nat, msg : Message]
MongoEntry == [lane : Lane, batch : Seq(Entry)]

\* What do sends to toPush.
Transients(p) ==
  [i \in DOMAIN NotStorage(p) |-> [lane |-> job[p].lane, seq |-> 0, msg |-> NotStorage(p)[i]]]
Stored(p) ==
  [i \in DOMAIN Batch(p) |->
    [lane |-> job[p].lane, seq |-> Batch(p)[i].seq, msg |-> Batch(p)[i].msg]]

LEMMA Sendings ==
  ASSUME TypeOK, NEW p \in Proc
  PROVE  /\ Transients(p) \in Seq(PushEntry)
         /\ \A e \in ToSet(Transients(p)) : e.seq = 0
         /\ Stored(p) \in Seq(PushEntry) /\ Len(Stored(p)) = Len(Batch(p))
         /\ \A i \in 1 .. Len(Batch(p)) :
              Stored(p)[i] = [lane |-> job[p].lane, seq |-> Batch(p)[i].seq, msg |-> Batch(p)[i].msg]
         /\ \A e \in ToSet(Stored(p)) :
              e.lane = job[p].lane /\ [seq |-> e.seq, msg |-> e.msg] \in ToSet(Batch(p))
         /\ \A e \in ToSet(Batch(p)) :
              e.seq > 0 /\ [lane |-> job[p].lane, seq |-> e.seq, msg |-> e.msg] \in ToSet(Stored(p))
<1> DEFINE ms == NotStorage(p)
           b == Batch(p)
<1>1. topic \in Topics /\ job[p] \in Job /\ job[p].msgs \in Seq(Message)
      /\ job[p].lane \in Lane /\ job[p].base \in Nat
  BY DEF TypeOK, Job
<1>2. ms \in Seq(Message) /\ Len(ms) \in Nat /\ \A k \in 1 .. Len(ms) : ms[k] \in Message
  BY <1>1, OfKindsType DEF NotStorage
<1>3. DOMAIN ms = 1 .. Len(ms)
  BY <1>2
<1>4. b \in Seq(Entry) /\ DOMAIN b = 1 .. Len(b) /\ Len(b) \in Nat
      /\ \A i \in 1 .. Len(b) : b[i] \in Entry
  <2>1. b \in Seq(Entry)
    BY <1>1, JobBatch, BatchType
  <2> QED
    BY <2>1, LenProperties, ElementOfSeq
<1>5. \A e \in ToSet(b) : e.seq \in job[p].base + 1 .. job[p].base + Len(StorageOf(job[p]))
  BY <1>1, JobBatch, BatchElements
<1>5a. \A e \in ToSet(b) : e.seq > 0
  <2> TAKE e \in ToSet(b)
  <2>1. e.seq \in job[p].base + 1 .. job[p].base + Len(StorageOf(job[p]))
    BY <1>5
  <2> QED
    BY <1>1, <2>1
<1> DEFINE s == Transients(p)
           t == Stored(p)
<1>6. s = [i \in 1 .. Len(ms) |-> [lane |-> job[p].lane, seq |-> 0, msg |-> ms[i]]]
  BY <1>3 DEF Transients
<1>7. t = [i \in 1 .. Len(b) |-> [lane |-> job[p].lane, seq |-> b[i].seq, msg |-> b[i].msg]]
  BY <1>4 DEF Stored
<1>8. \A i \in 1 .. Len(b) : b[i].seq \in Nat /\ b[i].msg \in Message /\ b[i] = [seq |-> b[i].seq, msg |-> b[i].msg]
  BY <1>4 DEF Entry
<1> HIDE DEF ms, b, s, t
<1>9. s \in [1 .. Len(ms) -> PushEntry] /\ \A i \in 1 .. Len(ms) : s[i].seq = 0
  BY <1>1, <1>2, <1>6 DEF PushEntry
<1>10. s \in Seq(PushEntry) /\ DOMAIN s = 1 .. Len(ms)
  BY <1>2, <1>9
<1>11. \A e \in ToSet(s) : e.seq = 0
  BY <1>9, <1>10 DEF ToSet
<1>12. t \in [1 .. Len(b) -> PushEntry]
       /\ \A i \in 1 .. Len(b) : t[i] = [lane |-> job[p].lane, seq |-> b[i].seq, msg |-> b[i].msg]
  BY <1>1, <1>7, <1>8 DEF PushEntry
<1>13. t \in Seq(PushEntry) /\ DOMAIN t = 1 .. Len(b) /\ Len(t) = Len(b)
  BY <1>4, <1>12
<1>14. \A e \in ToSet(t) :
         e.lane = job[p].lane /\ [seq |-> e.seq, msg |-> e.msg] \in ToSet(b)
  <2> TAKE e \in ToSet(t)
  <2>1. PICK i \in 1 .. Len(b) : e = t[i]
    BY <1>13 DEF ToSet
  <2>2. e.lane = job[p].lane /\ e.seq = b[i].seq /\ e.msg = b[i].msg
    BY <1>12, <2>1
  <2>3. [seq |-> e.seq, msg |-> e.msg] = b[i]
    BY <1>8, <2>2
  <2> QED
    BY <1>4, <2>2, <2>3 DEF ToSet
<1>15. \A e \in ToSet(b) : [lane |-> job[p].lane, seq |-> e.seq, msg |-> e.msg] \in ToSet(t)
  <2> TAKE e \in ToSet(b)
  <2>1. PICK i \in 1 .. Len(b) : e = b[i]
    BY <1>4 DEF ToSet
  <2>2. t[i] = [lane |-> job[p].lane, seq |-> e.seq, msg |-> e.msg]
    BY <1>12, <2>1
  <2> QED
    BY <1>13, <2>2 DEF ToSet
<1> QED
  BY <1>5a, <1>10, <1>11, <1>12, <1>13, <1>14, <1>15 DEF s, t, b

\* What the first steps of toMongo and readChan leave are of their types.
LEMMA Queues ==
  ASSUME TypeOK
  PROVE  /\ toMongo # << >> =>
              /\ Head(toMongo) \in MongoEntry /\ Tail(toMongo) \in Seq(MongoEntry)
              /\ ToSet(toMongo) = {Head(toMongo)} \cup ToSet(Tail(toMongo))
              /\ Head(toMongo).lane \in Lane /\ Head(toMongo).batch \in Seq(Entry)
         /\ \A p \in Proc : readChan[p] # << >> =>
              /\ Head(readChan[p]) \in [User -> Nat] /\ Tail(readChan[p]) \in Seq([User -> Nat])
<1>1. toMongo \in Seq(MongoEntry)
  BY DEF TypeOK, MongoEntry
<1>2. toMongo # << >> => /\ Head(toMongo) \in MongoEntry /\ Tail(toMongo) \in Seq(MongoEntry)
                         /\ ToSet(toMongo) = {Head(toMongo)} \cup ToSet(Tail(toMongo))
  BY <1>1, Sets
<1>3. ASSUME NEW p \in Proc, readChan[p] # << >>
      PROVE  Head(readChan[p]) \in [User -> Nat] /\ Tail(readChan[p]) \in Seq([User -> Nat])
  <2>1. readChan[p] \in Seq([User -> Nat])
    BY DEF TypeOK
  <2> QED
    BY <1>3, <2>1, HeadTailProperties
<1>4. \A e \in MongoEntry : e.lane \in Lane /\ e.batch \in Seq(Entry)
  BY DEF MongoEntry
<1> QED
  BY <1>2, <1>3, <1>4

\* The job of a process has its parts.
LEMMA JobParts ==
  ASSUME TypeOK, NEW p \in Proc
  PROVE  /\ job[p] \in Job /\ job[p].at \in Stage /\ job[p].lane \in Lane
         /\ job[p].msgs \in Seq(Message) /\ Len(job[p].msgs) <= BatchSize
         /\ job[p].base \in Nat /\ job[p].unread \in [User -> Nat]
         /\ job[p].user \in User /\ job[p].seen \in Nat
BY DEF TypeOK, Job

\* The sets of types do not change with the topic.
LEMMA SameTopic ==
  ASSUME topic' = topic
  PROVE  /\ Message' = Message /\ Entry' = Entry /\ Job' = Job
         /\ \A l : StoredIn(l)' = StoredIn(l)
         /\ \A j : BatchOf(j)' = BatchOf(j) /\ StorageOf(j)' = StorageOf(j)
         /\ \A p : Batch(p)' = BatchOf(job'[p])
         /\ \A es, u : SeqsOf(es, u)' = SeqsOf(es, u)
<1>1. Message' = Message
  BY DEF Message
<1>2. Entry' = Entry /\ Job' = Job
  BY <1>1 DEF Entry, Job
<1>3. \A l : StoredIn(l)' = StoredIn(l)
  BY <1>1 DEF StoredIn
<1>4. \A j : StorageOf(j)' = StorageOf(j)
  BY DEF StorageOf, OfKinds
<1>5. \A j : BatchOf(j)' = BatchOf(j)
  BY <1>4 DEF BatchOf
<1>6. \A p : Batch(p)' = BatchOf(job'[p])
  BY DEF Batch, BatchOf, Storage, StorageOf, OfKinds
<1>7. \A es, u : SeqsOf(es, u)' = SeqsOf(es, u)
  BY DEF SeqsOf
<1> QED
  BY <1>1, <1>2, <1>3, <1>4, <1>5, <1>6, <1>7

\* What a step of a process does to the job keeps its type.
LEMMA JobTyped ==
  ASSUME TypeOK, topic' = topic, NEW p \in Proc, OnlyJobOf(p), Len(job'[p].msgs) <= BatchSize
  PROVE  job' \in [Proc -> Job'] /\ \A q \in Proc : Len(job'[q].msgs) <= BatchSize
<1>1. \A q \in Proc : Len(job[q].msgs) <= BatchSize
  BY DEF TypeOK
<1>2. job' \in [Proc -> Job']
  BY SameTopic DEF OnlyJobOf
<1> QED
  BY <1>1, <1>2 DEF OnlyJobOf

LEMMA LeaveTyped ==
  ASSUME TypeOK, topic' = topic, NEW p \in Proc, Leave(p)
  PROVE  job' \in [Proc -> Job'] /\ \A q \in Proc : Len(job'[q].msgs) <= BatchSize
<1>1. OnlyJobOf(p) /\ (job'[p].msgs = job[p].msgs \/ job'[p].msgs = << >>)
  BY LeaveEffect, NoJobType
<1>2. Len(job[p].msgs) <= BatchSize
  BY DEF TypeOK
<1>3. Len(<< >>) <= BatchSize
  BY SizeAssumption
<1> QED
  BY <1>1, <1>2, <1>3, JobTyped

LEMMA GoToTyped ==
  ASSUME TypeOK, topic' = topic, NEW p \in Proc, OnlyJobOf(p), job'[p].msgs = job[p].msgs
  PROVE  job' \in [Proc -> Job'] /\ \A q \in Proc : Len(job'[q].msgs) <= BatchSize
<1>1. Len(job[p].msgs) <= BatchSize
  BY DEF TypeOK
<1> QED
  BY <1>1, JobTyped

\* Of the variables of the faults.
FaultsTyped ==
  /\ failures \in 0 .. MaxFailures /\ moves \in Nat /\ crashes \in Nat
  /\ moves + crashes <= MaxCuts /\ refused \in BOOLEAN

LEMMA FaultsKept ==
  ASSUME TypeOK, UNCHANGED faultVars \/ Failure
  PROVE  FaultsTyped'
<1>1. CASE UNCHANGED faultVars
  BY <1>1 DEF TypeOK, FaultsTyped, faultVars
<1>2. CASE Failure
  <2>1. failures' \in 0 .. MaxFailures
    BY <1>2, BoundAssumption DEF TypeOK, Failure
  <2> QED
    BY <1>2, <2>1 DEF TypeOK, FaultsTyped, Failure
<1> QED
  BY <1>1, <1>2

\* Of what do and its consumer write.
StoresTyped ==
  /\ maxSeq \in [Lane -> Nat]
  /\ cache \in [Lane -> SUBSET Entry] /\ docs \in [Lane -> SUBSET Entry]
  /\ toMongo \in Seq(MongoEntry) /\ toPush \in Seq(PushEntry)
ReadsTyped ==
  /\ readSeq \in [User -> Nat] /\ readDB \in [User -> Nat]
  /\ readChan \in [Proc -> Seq([User -> Nat])]
JobsTyped == job \in [Proc -> Job] /\ \A p \in Proc : Len(job[p].msgs) <= BatchSize
ConsumerTyped ==
  /\ owner \in Proc /\ committed \in 0 .. position /\ position \in 0 .. Len(topic)

\* TypeOK in these parts.
LEMMA TypeParts ==
  /\ TypeOK <=>
       /\ topic \in Topics /\ held \in [Proc -> Seq(Message)] /\ created \in BOOLEAN
       /\ ConsumerTyped /\ JobsTyped /\ StoresTyped /\ ReadsTyped /\ FaultsTyped
  /\ TypeOK' <=>
       /\ topic' \in Topics /\ held' \in [Proc -> Seq(Message')] /\ created' \in BOOLEAN
       /\ ConsumerTyped' /\ JobsTyped' /\ StoresTyped' /\ ReadsTyped' /\ FaultsTyped'
<1>1. /\ TypeOK =>
         /\ topic \in Topics /\ held \in [Proc -> Seq(Message)] /\ created \in BOOLEAN
         /\ ConsumerTyped /\ JobsTyped /\ StoresTyped /\ ReadsTyped /\ FaultsTyped
  BY DEF TypeOK, ConsumerTyped, JobsTyped, StoresTyped, ReadsTyped, FaultsTyped, MongoEntry,
         PushEntry
<1>2. /\ topic \in Topics /\ held \in [Proc -> Seq(Message)] /\ created \in BOOLEAN
      /\ ConsumerTyped /\ JobsTyped /\ StoresTyped /\ ReadsTyped /\ FaultsTyped
      => TypeOK
  BY DEF TypeOK, ConsumerTyped, JobsTyped, StoresTyped, ReadsTyped, FaultsTyped, MongoEntry,
         PushEntry
<1>3. TypeOK' =>
       /\ topic' \in Topics /\ held' \in [Proc -> Seq(Message')] /\ created' \in BOOLEAN
       /\ ConsumerTyped' /\ JobsTyped' /\ StoresTyped' /\ ReadsTyped' /\ FaultsTyped'
  BY DEF TypeOK, ConsumerTyped, JobsTyped, StoresTyped, ReadsTyped, FaultsTyped, MongoEntry,
         PushEntry
<1>4. /\ topic' \in Topics /\ held' \in [Proc -> Seq(Message')] /\ created' \in BOOLEAN
      /\ ConsumerTyped' /\ JobsTyped' /\ StoresTyped' /\ ReadsTyped' /\ FaultsTyped'
      => TypeOK'
  BY DEF TypeOK, ConsumerTyped, JobsTyped, StoresTyped, ReadsTyped, FaultsTyped, MongoEntry,
         PushEntry
<1> QED
  BY <1>1, <1>2, <1>3, <1>4

\* Parts that a step leaves alone.
LEMMA TypeSame ==
  ASSUME TypeOK, topic' = topic
  PROVE  /\ topic' \in Topics
         /\ UNCHANGED held => held' \in [Proc -> Seq(Message')]
         /\ UNCHANGED consumerVars => ConsumerTyped'
         /\ UNCHANGED job => JobsTyped'
         /\ UNCHANGED <<storeVars, toMongo, toPush>> => StoresTyped'
         /\ UNCHANGED readVars => ReadsTyped'
         /\ UNCHANGED created => created' \in BOOLEAN
<1>1. Message' = Message /\ Entry' = Entry /\ Job' = Job
  BY SameTopic
<1>2. /\ topic \in Topics /\ held \in [Proc -> Seq(Message)] /\ created \in BOOLEAN
      /\ ConsumerTyped /\ JobsTyped /\ StoresTyped /\ ReadsTyped
  BY TypeParts
<1>3. UNCHANGED consumerVars => ConsumerTyped'
  BY <1>2 DEF ConsumerTyped, consumerVars
<1>4. UNCHANGED job => JobsTyped'
  BY <1>1, <1>2 DEF JobsTyped
<1>5. UNCHANGED <<storeVars, toMongo, toPush>> => StoresTyped'
  <2>1. MongoEntry' = MongoEntry /\ PushEntry' = PushEntry
    BY <1>1 DEF MongoEntry, PushEntry
  <2> QED
    BY <1>1, <1>2, <2>1 DEF StoresTyped, storeVars
<1>6. UNCHANGED readVars => ReadsTyped'
  BY <1>2 DEF ReadsTyped, readVars
<1> QED
  BY <1>1, <1>2, <1>3, <1>4, <1>5, <1>6

\* What a step does to the stores and to toPush.
LEMMA StoresStep ==
  ASSUME TypeOK, topic' = topic,
         maxSeq' \in [Lane -> Nat],
         cache' \in [Lane -> SUBSET Entry], docs' \in [Lane -> SUBSET Entry],
         toMongo' \in Seq(MongoEntry), toPush' \in Seq(PushEntry)
  PROVE  StoresTyped'
<1>1. Message' = Message /\ Entry' = Entry
  BY SameTopic
<1>2. MongoEntry' = MongoEntry /\ PushEntry' = PushEntry
  BY <1>1 DEF MongoEntry, PushEntry
<1> QED
  BY <1>1, <1>2 DEF StoresTyped

LEMMA TypeStep ==
  ASSUME TypeOK, [Next]_vars
  PROVE  TypeOK'
<1> SUFFICES TypeOK'
  OBVIOUS
<1>0. topic' = topic
  BY DEF Next, vars
<1>t. /\ topic \in Topics /\ held \in [Proc -> Seq(Message)] /\ created \in BOOLEAN
      /\ ConsumerTyped /\ JobsTyped /\ StoresTyped /\ ReadsTyped /\ FaultsTyped
      /\ Message' = Message /\ Len(topic) \in Nat /\ Message = 1 .. Len(topic)
  BY <1>0, TypeParts, SameTopic, Messages
<1>u. /\ maxSeq \in [Lane -> Nat] /\ cache \in [Lane -> SUBSET Entry]
      /\ docs \in [Lane -> SUBSET Entry]
      /\ toMongo \in Seq(MongoEntry) /\ toPush \in Seq(PushEntry)
  BY <1>t DEF StoresTyped
<1>1. CASE UNCHANGED vars
  BY <1>0, <1>1, TypeParts, TypeSame, FaultsKept
     DEF vars
<1>2. ASSUME NEW p \in Proc, HandlerRedisMessage(p) PROVE TypeOK'
  <2>1. /\ owner = p /\ position < Len(topic) /\ position' = position + 1
        /\ held' = [held EXCEPT ![p] = Append(@, position + 1)]
        /\ UNCHANGED <<owner, committed, job, storeVars, toMongo, toPush, readVars,
                       created, faultVars>>
    BY <1>2 DEF HandlerRedisMessage
  <2>2. owner \in Proc /\ committed \in 0 .. position /\ position \in 0 .. Len(topic)
    BY <1>t DEF ConsumerTyped
  <2>3. position + 1 \in Message
    BY <1>t, <2>1, <2>2
  <2>4. held' \in [Proc -> Seq(Message')]
    <3>1. Append(held[p], position + 1) \in Seq(Message)
      BY <1>t, <2>3, AppendProperties
    <3> QED
      BY <1>t, <2>1, <3>1
  <2>5. ConsumerTyped'
    BY <1>t, <2>1, <2>2, <1>0 DEF ConsumerTyped
  <2> QED
    BY <1>0, <2>1, <2>4, <2>5, TypeParts, TypeSame, FaultsKept
<1>3. ASSUME NEW p \in Proc, Rebalance(p) PROVE TypeOK'
  <2>1. PICK n \in committed .. position : committed' = n /\ position' = n
    BY <1>3 DEF Rebalance
  <2>2. /\ MayCut /\ owner' = p /\ moves' = moves + 1
        /\ UNCHANGED <<held, job, storeVars, toMongo, toPush, readVars, created,
                       failures, crashes, refused>>
    BY <1>3 DEF Rebalance
  <2>3. ConsumerTyped'
    BY <1>0, <1>t, <2>1, <2>2 DEF ConsumerTyped
  <2>4. FaultsTyped'
    <3>1. moves + crashes < MaxCuts /\ moves \in Nat /\ crashes \in Nat /\ MaxCuts \in Nat
      BY <1>t, <2>2, BoundAssumption DEF MayCut, FaultsTyped
    <3>2. moves' + crashes' <= MaxCuts /\ moves' \in Nat
      BY <2>2, <3>1
    <3> QED
      BY <1>t, <2>2, <3>2 DEF FaultsTyped
  <2> QED
    BY <1>0, <2>2, <2>3, <2>4, TypeParts, TypeSame
<1>4. ASSUME NEW p \in Proc, Crash(p) PROVE TypeOK'
  <2>1. /\ MayCut /\ crashes' = crashes + 1
        /\ held' = [held EXCEPT ![p] = << >>]
        /\ job' = [job EXCEPT ![p] = NoJob]
        /\ readChan' = [readChan EXCEPT ![p] = << >>]
        /\ UNCHANGED <<storeVars, toMongo, toPush, readSeq, readDB, created,
                       failures, moves, refused>>
    BY <1>4 DEF Crash
  <2>2. ConsumerTyped'
    <3>1. CASE owner = p
      <4>1. PICK n \in committed .. position : committed' = n /\ position' = n
        BY <1>4, <3>1 DEF Crash
      <4>2. owner' \in Proc
        BY <1>4, <3>1 DEF Crash
      <4> QED
        BY <1>0, <1>t, <4>1, <4>2 DEF ConsumerTyped
    <3>2. CASE owner # p
      <4>1. UNCHANGED consumerVars
        BY <1>4, <3>2 DEF Crash
      <4> QED
        BY <1>0, <4>1, TypeSame
    <3> QED
      BY <3>1, <3>2
  <2>3. FaultsTyped'
    <3>1. moves + crashes < MaxCuts /\ moves \in Nat /\ crashes \in Nat /\ MaxCuts \in Nat
      BY <1>t, <2>1, BoundAssumption DEF MayCut, FaultsTyped
    <3>2. moves' + crashes' <= MaxCuts /\ crashes' \in Nat
      BY <2>1, <3>1
    <3> QED
      BY <1>t, <2>1, <3>2 DEF FaultsTyped
  <2>4. JobsTyped'
    <3>1. OnlyJobOf(p) /\ job'[p].msgs = << >>
      BY <2>1, NoJobType, JobReplaced
    <3>2. Len(<< >>) <= BatchSize
      BY SizeAssumption
    <3> QED
      BY <1>0, <3>1, <3>2, JobTyped DEF JobsTyped
  <2>5. ReadsTyped'
    <3>1. << >> \in Seq([User -> Nat])
      OBVIOUS
    <3> QED
      BY <1>t, <2>1, <3>1 DEF ReadsTyped
  <2>6. held' \in [Proc -> Seq(Message')]
    <3>1. << >> \in Seq(Message)
      OBVIOUS
    <3> QED
      BY <1>t, <2>1, <3>1
  <2> QED
    BY <1>0, <2>1, <2>2, <2>3, <2>4, <2>5, <2>6, TypeParts, TypeSame
<1>5. ASSUME NEW p \in Proc, Do(p) PROVE TypeOK'
  <2>1. PICK n \in 1 .. Len(held[p]) :
          /\ n <= BatchSize
          /\ job' = [job EXCEPT ![p] =
               [NoJob EXCEPT !.at = "transient", !.msgs = SubSeq(held[p], 1, n)]]
          /\ held' = [held EXCEPT ![p] = SubSeq(@, n + 1, Len(@))]
    BY <1>5 DEF Do
  <2>2. UNCHANGED <<consumerVars, storeVars, toMongo, toPush, readVars, created, faultVars>>
    BY <1>5 DEF Do
  <2>3. /\ SubSeq(held[p], 1, n) \in Seq(Message) /\ Len(SubSeq(held[p], 1, n)) = n
        /\ SubSeq(held[p], n + 1, Len(held[p])) \in Seq(Message)
    <3>1. held[p] \in Seq(Message) /\ n \in 0 .. Len(held[p])
      BY <1>t
    <3> QED
      BY <3>1, Split
  <2>4. JobsTyped'
    <3>1. OnlyJobOf(p) /\ job'[p].msgs = SubSeq(held[p], 1, n)
      BY <2>1, <2>3, DoEffect
    <3> QED
      BY <1>0, <2>1, <2>3, <3>1, JobTyped DEF JobsTyped
  <2>5. held' \in [Proc -> Seq(Message')]
    BY <1>t, <2>1, <2>3
  <2> QED
    BY <1>0, <2>2, <2>4, <2>5, TypeParts, TypeSame, FaultsKept
<1>6. ASSUME NEW p \in Proc, PushTransient(p) PROVE TypeOK'
  <2>1. /\ IF Storage(p) = << >> THEN Leave(p) ELSE GoTo(p, "malloc")
        /\ (toPush' = toPush \o Transients(p) /\ UNCHANGED faultVars) \/ (Failure /\ UNCHANGED toPush)
        /\ UNCHANGED <<consumerVars, held, storeVars, toMongo, readVars, created>>
    BY <1>6 DEF PushTransient, Transients
  <2>2. JobsTyped'
    <3>1. CASE Storage(p) = << >>
      BY <1>0, <2>1, <3>1, LeaveTyped DEF JobsTyped
    <3>2. CASE Storage(p) # << >>
      <4>1. "malloc" \in Stage
        BY DEF Stage
      <4>2. OnlyJobOf(p) /\ SameBatch(p)
        BY <2>1, <3>2, <4>1, GoToEffect
      <4> QED
        BY <1>0, <4>2, GoToTyped DEF JobsTyped, SameBatch
    <3> QED
      BY <3>1, <3>2
  <2>3. toPush' \in Seq(PushEntry)
    <3>1. toPush \o Transients(p) \in Seq(PushEntry)
      BY <1>u, Sendings, Sets
    <3> QED
      BY <1>u, <2>1, <3>1
  <2>4. StoresTyped'
    BY <1>0, <1>u, <2>1, <2>3, StoresStep DEF storeVars
  <2> QED
    BY <1>0, <2>1, <2>2, <2>4, TypeParts, TypeSame, FaultsKept
<1>7. ASSUME NEW p \in Proc, Refuse(p) PROVE TypeOK'
  <2>1. /\ Leave(p) /\ refused' = TRUE
        /\ UNCHANGED <<consumerVars, held, storeVars, toMongo, toPush, readVars, created,
                       failures, moves, crashes>>
    BY <1>7 DEF Refuse
  <2>2. JobsTyped'
    BY <1>0, <2>1, LeaveTyped DEF JobsTyped
  <2>3. FaultsTyped'
    BY <1>t, <2>1 DEF FaultsTyped
  <2> QED
    BY <1>0, <2>1, <2>2, <2>3, TypeParts, TypeSame
<1>8. ASSUME NEW p \in Proc, Malloc(p) PROVE TypeOK'
  <2> DEFINE l == job[p].lane
             n == Len(Storage(p))
  <2>1. l \in Lane /\ n \in Nat /\ maxSeq[l] \in Nat
    BY <1>t, <1>u, JobParts, JobBatch, StorageType
  <2>2. UNCHANGED <<consumerVars, held, cache, docs, toMongo, toPush, readVars, created>>
        /\ (UNCHANGED faultVars \/ Failure)
    BY <1>8 DEF Malloc
  <2>3. maxSeq' \in [Lane -> Nat]
    <3>1. \/ maxSeq' = [maxSeq EXCEPT ![l] = @ + n] \/ maxSeq' = [maxSeq EXCEPT ![l] = @ + 1 + n]
          \/ maxSeq' = maxSeq
      BY <1>8 DEF Malloc
    <3> HIDE DEF l, n
    <3>2. maxSeq[l] + n \in Nat /\ maxSeq[l] + 1 + n \in Nat
      BY <2>1
    <3> QED
      BY <1>u, <2>1, <3>1, <3>2
  <2>4. JobsTyped'
    <3>1. CASE Leave(p)
      BY <1>0, <3>1, LeaveTyped DEF JobsTyped
    <3>2. ASSUME NEW b \in Nat, job' = [job EXCEPT ![p].at = "cache", ![p].base = b]
          PROVE  JobsTyped'
      <4>1. OnlyJobOf(p) /\ job'[p].msgs = job[p].msgs
        BY <3>2, MallocEffect
      <4> QED
        BY <1>0, <4>1, GoToTyped DEF JobsTyped
    <3>3. \/ job' = [job EXCEPT ![p].at = "cache", ![p].base = maxSeq[l]]
          \/ job' = [job EXCEPT ![p].at = "cache", ![p].base = maxSeq[l] + 1]
          \/ Leave(p)
      BY <1>8 DEF Malloc
    <3>4. maxSeq[l] + 1 \in Nat
      BY <2>1
    <3> HIDE DEF l
    <3> QED
      BY <2>1, <3>1, <3>2, <3>3, <3>4
  <2>5. StoresTyped'
    BY <1>0, <1>u, <2>2, <2>3, StoresStep
  <2> QED
    BY <1>0, <2>2, <2>4, <2>5, TypeParts, TypeSame, FaultsKept
<1>9. ASSUME NEW p \in Proc, SetMessageBySeqs(p) PROVE TypeOK'
  <2> DEFINE l == job[p].lane
             b == Batch(p)
  <2>1. l \in Lane /\ b \in Seq(Entry) /\ ToSet(b) \in SUBSET Entry
        /\ UserSeqMap(ToSet(b)) \in [User -> Nat]
    BY <1>t, JobParts, JobBatch, BatchType, BatchElements, BatchSeqs
  <2>2. UNCHANGED <<consumerVars, held, maxSeq, docs, toMongo, toPush, readVars, created>>
        /\ (UNCHANGED faultVars \/ Failure)
    BY <1>9 DEF SetMessageBySeqs
  <2>3. PICK es \in SUBSET Entry : cache' = [cache EXCEPT ![l] = @ \cup es]
    <3>1. CASE cache' = [cache EXCEPT ![l] = @ \cup ToSet(b)]
      BY <2>1, <3>1
    <3>2. CASE \E n \in 0 .. Len(b) : cache' = [cache EXCEPT ![l] = @ \cup ToSet(SubSeq(b, 1, n))]
      <4>1. PICK n \in 0 .. Len(b) : cache' = [cache EXCEPT ![l] = @ \cup ToSet(SubSeq(b, 1, n))]
        BY <3>2
      <4>2. ToSet(SubSeq(b, 1, n)) \in SUBSET Entry
        <5> HIDE DEF b
        <5> QED
          BY <2>1, Sets
      <4> QED
        BY <4>1, <4>2
    <3> QED
      BY <1>9, <3>1, <3>2 DEF SetMessageBySeqs
  <2>4. cache' \in [Lane -> SUBSET Entry]
    BY <1>u, <2>1, <2>3
  <2>5. JobsTyped'
    <3>1. CASE Leave(p)
      BY <1>0, <3>1, LeaveTyped DEF JobsTyped
    <3>2. CASE GoTo(p, "mongo")
      <4>1. "mongo" \in Stage
        BY DEF Stage
      <4>2. OnlyJobOf(p) /\ SameBatch(p)
        BY <3>2, <4>1, GoToEffect
      <4> QED
        BY <1>0, <4>2, GoToTyped DEF JobsTyped, SameBatch
    <3>3. CASE job' = [job EXCEPT ![p].at = "read", ![p].unread = UserSeqMap(ToSet(b))]
      <4>1. OnlyJobOf(p) /\ SameBatch(p)
        BY <2>1, <3>3, UnreadEffect
      <4> QED
        BY <1>0, <4>1, GoToTyped DEF JobsTyped, SameBatch
    <3> QED
      BY <1>9, <3>1, <3>2, <3>3 DEF SetMessageBySeqs
  <2>6. StoresTyped'
    BY <1>0, <1>u, <2>2, <2>4, StoresStep
  <2> QED
    BY <1>0, <2>2, <2>5, <2>6, TypeParts, TypeSame, FaultsKept
<1>10. ASSUME NEW p \in Proc, GetUserReadSeq(p) PROVE TypeOK'
  <2>1. PICK u \in User :
          job' = [job EXCEPT ![p].at = "write", ![p].user = u, ![p].seen = readSeq[u]]
    BY <1>10 DEF GetUserReadSeq
  <2>2. UNCHANGED <<consumerVars, held, storeVars, toMongo, toPush, readVars, created, faultVars>>
    BY <1>10 DEF GetUserReadSeq
  <2>3. JobsTyped'
    <3>1. readSeq[u] \in Nat
      BY <1>t DEF ReadsTyped
    <3>2. OnlyJobOf(p) /\ SameBatch(p)
      BY <2>1, <3>1, GetEffect
    <3> QED
      BY <1>0, <3>2, GoToTyped DEF JobsTyped, SameBatch
  <2> QED
    BY <1>0, <2>2, <2>3, TypeParts, TypeSame, FaultsKept
<1>11. ASSUME NEW p \in Proc, HasReadFails(p) PROVE TypeOK'
  <2>1. /\ Failure /\ job' = [job EXCEPT ![p].at = "read", ![p].unread = NoRead]
        /\ UNCHANGED <<consumerVars, held, storeVars, toMongo, toPush, readVars, created>>
    BY <1>11 DEF HasReadFails
  <2>2. JobsTyped'
    <3>1. OnlyJobOf(p) /\ SameBatch(p)
      BY <2>1, NoJobType, UnreadEffect
    <3> QED
      BY <1>0, <3>1, GoToTyped DEF JobsTyped, SameBatch
  <2> QED
    BY <1>0, <2>1, <2>2, TypeParts, TypeSame, FaultsKept
<1>12. ASSUME NEW p \in Proc, SetUserReadSeq(p) PROVE TypeOK'
  <2> DEFINE u == job[p].user
             n == job[p].unread[u]
  <2>1. u \in User /\ n \in Nat
    BY JobParts
  <2>2. /\ readSeq' = IF job[p].seen < n THEN [readSeq EXCEPT ![u] = n] ELSE readSeq
        /\ job' = [job EXCEPT ![p].at = "read", ![p].unread[u] = 0]
        /\ UNCHANGED <<consumerVars, held, storeVars, toMongo, toPush, readChan, readDB,
                       created, faultVars>>
    BY <1>12 DEF SetUserReadSeq
  <2> HIDE DEF u, n
  <2>3. JobsTyped'
    <3>1. OnlyJobOf(p) /\ SameBatch(p)
      BY <2>1, <2>2, SetEffect
    <3> QED
      BY <1>0, <3>1, GoToTyped DEF JobsTyped, SameBatch
  <2>4. ReadsTyped'
    BY <1>t, <2>1, <2>2 DEF ReadsTyped
  <2> QED
    BY <1>0, <2>2, <2>3, <2>4, TypeParts, TypeSame, FaultsKept
<1>13. ASSUME NEW p \in Proc, SendHasRead(p) PROVE TypeOK'
  <2> DEFINE at == IF job[p].base = 0 THEN "create" ELSE "mongo"
             f == UserSeqMap(ToSet(Batch(p)))
  <2>1. /\ readChan' = [readChan EXCEPT ![p] = Append(@, f)] /\ GoTo(p, at)
        /\ UNCHANGED <<consumerVars, held, storeVars, toMongo, toPush, readSeq, readDB,
                       created, faultVars>>
    BY <1>13 DEF SendHasRead
  <2>2. f \in [User -> Nat] /\ at \in Stage
    BY <1>t, JobParts, JobBatch, BatchSeqs DEF Stage
  <2> HIDE DEF at, f
  <2>3. JobsTyped'
    <3>1. OnlyJobOf(p) /\ SameBatch(p)
      BY <2>1, <2>2, GoToEffect
    <3> QED
      BY <1>0, <3>1, GoToTyped DEF JobsTyped, SameBatch
  <2>4. ReadsTyped'
    <3>1. readChan[p] \in Seq([User -> Nat])
      BY <1>t DEF ReadsTyped
    <3>2. Append(readChan[p], f) \in Seq([User -> Nat])
      BY <2>2, <3>1, AppendProperties
    <3> QED
      BY <1>t, <2>1, <3>2 DEF ReadsTyped
  <2> QED
    BY <1>0, <2>1, <2>3, <2>4, TypeParts, TypeSame, FaultsKept
<1>14. ASSUME NEW p \in Proc, CreateConversations(p) PROVE TypeOK'
  <2>1. /\ GoTo(p, "mongo") /\ (UNCHANGED faultVars \/ Failure) /\ created' \in BOOLEAN
        /\ UNCHANGED <<consumerVars, held, storeVars, toMongo, toPush, readVars>>
    BY <1>14, <1>t DEF CreateConversations
  <2>2. JobsTyped'
    <3>1. "mongo" \in Stage
      BY DEF Stage
    <3>2. OnlyJobOf(p) /\ SameBatch(p)
      BY <2>1, <3>1, GoToEffect
    <3> QED
      BY <1>0, <3>2, GoToTyped DEF JobsTyped, SameBatch
  <2> QED
    BY <1>0, <2>1, <2>2, TypeParts, TypeSame, FaultsKept
<1>15. ASSUME NEW p \in Proc, MsgToMongoMQ(p) PROVE TypeOK'
  <2> DEFINE e == [lane |-> job[p].lane, batch |-> Batch(p)]
  <2>1. /\ GoTo(p, "push") /\ (UNCHANGED faultVars \/ Failure)
        /\ (toMongo' = Append(toMongo, e) \/ UNCHANGED toMongo)
        /\ UNCHANGED <<consumerVars, held, storeVars, toPush, readVars, created>>
    BY <1>15 DEF MsgToMongoMQ
  <2>2. e \in MongoEntry
    BY <1>t, JobParts, JobBatch, BatchType DEF MongoEntry
  <2> HIDE DEF e
  <2>3. JobsTyped'
    <3>1. "push" \in Stage
      BY DEF Stage
    <3>2. OnlyJobOf(p) /\ SameBatch(p)
      BY <2>1, <3>1, GoToEffect
    <3> QED
      BY <1>0, <3>2, GoToTyped DEF JobsTyped, SameBatch
  <2>4. toMongo' \in Seq(MongoEntry)
    <3>1. Append(toMongo, e) \in Seq(MongoEntry)
      BY <1>u, <2>2, AppendProperties
    <3> QED
      BY <1>u, <2>1, <3>1
  <2>5. StoresTyped'
    BY <1>0, <1>u, <2>1, <2>4, StoresStep DEF storeVars
  <2> QED
    BY <1>0, <2>1, <2>3, <2>5, TypeParts, TypeSame, FaultsKept
<1>16. ASSUME NEW p \in Proc, PushStored(p) PROVE TypeOK'
  <2>1. /\ Leave(p)
        /\ (toPush' = toPush \o Stored(p) /\ UNCHANGED faultVars) \/ (Failure /\ UNCHANGED toPush)
        /\ UNCHANGED <<consumerVars, held, storeVars, toMongo, readVars, created>>
    BY <1>16 DEF PushStored, Stored
  <2>2. JobsTyped'
    BY <1>0, <2>1, LeaveTyped DEF JobsTyped
  <2>3. toPush' \in Seq(PushEntry)
    <3>1. toPush \o Stored(p) \in Seq(PushEntry)
      BY <1>u, Sendings, Sets
    <3> QED
      BY <1>u, <2>1, <3>1
  <2>4. StoresTyped'
    BY <1>0, <1>u, <2>1, <2>3, StoresStep DEF storeVars
  <2> QED
    BY <1>0, <2>1, <2>2, <2>4, TypeParts, TypeSame, FaultsKept
<1>17. ASSUME NEW p \in Proc, SetHasReadSeqToDB(p) PROVE TypeOK'
  <2>1. /\ readChan[p] # << >> /\ readChan' = [readChan EXCEPT ![p] = Tail(@)]
        /\ \/ readDB' = Raise(readDB, Head(readChan[p])) /\ UNCHANGED faultVars
           \/ Failure /\ UNCHANGED readDB
        /\ UNCHANGED <<consumerVars, held, job, storeVars, toMongo, toPush, readSeq, created>>
    BY <1>17 DEF SetHasReadSeqToDB
  <2>2. Head(readChan[p]) \in [User -> Nat] /\ Tail(readChan[p]) \in Seq([User -> Nat])
    BY <2>1, Queues
  <2>3. readDB' \in [User -> Nat]
    BY <1>t, <2>1, <2>2 DEF ReadsTyped, Raise
  <2>4. ReadsTyped'
    BY <1>t, <2>1, <2>2, <2>3 DEF ReadsTyped
  <2> QED
    BY <1>0, <2>1, <2>4, TypeParts, TypeSame, FaultsKept
<1>18. CASE HandleChatWs2Mongo
  <2> DEFINE l == Head(toMongo).lane
             b == Head(toMongo).batch
  <2>1. /\ toMongo # << >> /\ toMongo' = Tail(toMongo) /\ (UNCHANGED faultVars \/ Failure)
        /\ UNCHANGED <<consumerVars, held, job, maxSeq, cache, toPush, readVars, created>>
    BY <1>18 DEF HandleChatWs2Mongo
  <2>2. l \in Lane /\ b \in Seq(Entry) /\ Tail(toMongo) \in Seq(MongoEntry)
    BY <2>1, Queues
  <2>3. PICK es \in SUBSET Entry : docs' = [docs EXCEPT ![l] = @ \cup es]
    <3>1. CASE docs' = [docs EXCEPT ![l] = @ \cup ToSet(b)]
      <4>1. ToSet(b) \in SUBSET Entry
        BY <2>2, Sets
      <4> QED
        BY <3>1, <4>1
    <3>2. CASE \E n \in 0 .. Len(b) : docs' = [docs EXCEPT ![l] = @ \cup ToSet(SubSeq(b, 1, n))]
      <4>1. PICK n \in 0 .. Len(b) : docs' = [docs EXCEPT ![l] = @ \cup ToSet(SubSeq(b, 1, n))]
        BY <3>2
      <4>2. ToSet(SubSeq(b, 1, n)) \in SUBSET Entry
        <5> HIDE DEF b
        <5> QED
          BY <2>2, Sets
      <4> QED
        BY <4>1, <4>2
    <3> QED
      BY <1>18, <3>1, <3>2 DEF HandleChatWs2Mongo
  <2>4. docs' \in [Lane -> SUBSET Entry]
    BY <1>u, <2>2, <2>3
  <2>5. StoresTyped'
    BY <1>0, <1>u, <2>1, <2>2, <2>4, StoresStep
  <2> QED
    BY <1>0, <2>1, <2>5, TypeParts, TypeSame, FaultsKept
<1> QED
  BY <1>1, <1>2, <1>3, <1>4, <1>5, <1>6, <1>7, <1>8, <1>9, <1>10, <1>11, <1>12, <1>13, <1>14,
     <1>15, <1>16, <1>17, <1>18 DEF Next, Step

LEMMA TypeInit ==
  ASSUME Init
  PROVE  TypeOK
<1>1. topic \in Topics /\ Len(topic) \in Nat
  BY Messages DEF Init
<1>2. NoJob \in Job /\ NoJob.msgs = << >>
  <2>1. (CHOOSE u \in User : TRUE) \in User
    BY UserAssumption
  <2>2. NoRead \in [User -> Nat]
    BY DEF NoRead
  <2>3. << >> \in Seq(Message)
    OBVIOUS
  <2> QED
    BY <2>1, <2>2, <2>3 DEF NoJob, Job, Stage, Lane
<1>3. JobsTyped
  <2>1. Len(<< >>) <= BatchSize
    BY SizeAssumption
  <2> QED
    BY <1>2, <2>1 DEF Init, JobsTyped
<1>4. StoresTyped
  <2>1. << >> \in Seq(MongoEntry) /\ << >> \in Seq(PushEntry)
    OBVIOUS
  <2> QED
    BY <2>1 DEF Init, StoresTyped
<1>5. ReadsTyped
  <2>1. << >> \in Seq([User -> Nat])
    OBVIOUS
  <2> QED
    BY <2>1 DEF Init, ReadsTyped
<1>6. FaultsTyped
  <2>1. failures = 0 /\ moves = 0 /\ crashes = 0 /\ refused = FALSE
    BY DEF Init
  <2>2. 0 \in 0 .. MaxFailures /\ 0 + 0 <= MaxCuts
    BY BoundAssumption
  <2> QED
    BY <2>1, <2>2 DEF FaultsTyped
<1>7. ConsumerTyped
  BY <1>1 DEF Init, ConsumerTyped
<1>8. held \in [Proc -> Seq(Message)] /\ created \in BOOLEAN
  <2>1. << >> \in Seq(Message)
    OBVIOUS
  <2> QED
    BY <2>1 DEF Init
<1> QED
  BY <1>1, <1>3, <1>4, <1>5, <1>6, <1>7, <1>8, TypeParts

\* The values of all variables keep their types, whatever fails or crashes.
THEOREM TypeCorrect == Spec => []TypeOK
BY TypeInit, TypeStep, PTL DEF Spec

-----------------------------------------------------------------------------
(* Where messages with seqs are, and how the steps move them.              *)

\* The batches of InJobs that are not p's, and p's.
OtherJobs(p, stages, l) ==
  UNION {ToSet(BatchOf(job[q])) : q \in {r \in Proc \ {p} : job[r].at \in stages /\ job[r].lane = l}}
OwnJob(p, stages, l) ==
  IF job[p].at \in stages /\ job[p].lane = l THEN ToSet(BatchOf(job[p])) ELSE {}

LEMMA JobsSplit ==
  ASSUME NEW p \in Proc, NEW S, NEW l
  PROVE  InJobs(S, l) = OtherJobs(p, S, l) \cup OwnJob(p, S, l)
<1>1. \A q : Batch(q) = BatchOf(job[q])
  BY JobBatch
<1>2. InJobs(S, l) = UNION {ToSet(BatchOf(job[q])) : q \in {r \in Proc : job[r].at \in S /\ job[r].lane = l}}
  BY <1>1 DEF InJobs
<1> QED
  BY <1>2 DEF OtherJobs, OwnJob

\* A step of p changes p's part.
LEMMA JobsStep ==
  ASSUME topic' = topic, NEW p \in Proc, OnlyJobOf(p), NEW S, NEW l
  PROVE  /\ InJobs(S, l) = OtherJobs(p, S, l) \cup OwnJob(p, S, l)
         /\ InJobs(S, l)' = OtherJobs(p, S, l) \cup
              (IF job'[p].at \in S /\ job'[p].lane = l THEN ToSet(BatchOf(job'[p])) ELSE {})
<1>1. \A q : Batch(q)' = BatchOf(job'[q])
  BY SameTopic
<1>2. InJobs(S, l)' = UNION {ToSet(BatchOf(job'[q])) : q \in {r \in Proc : job'[r].at \in S /\ job'[r].lane = l}}
  BY <1>1 DEF InJobs
<1>3. \A q \in Proc \ {p} : job'[q] = job[q]
  BY DEF OnlyJobOf
<1> DEFINE own == IF job'[p].at \in S /\ job'[p].lane = l THEN ToSet(BatchOf(job'[p])) ELSE {}
<1>4. ASSUME NEW e
      PROVE  e \in InJobs(S, l)' <=>
               \E q \in Proc : job'[q].at \in S /\ job'[q].lane = l /\ e \in ToSet(BatchOf(job'[q]))
  BY <1>2
<1>5. ASSUME NEW e
      PROVE  e \in OtherJobs(p, S, l) <=>
               \E q \in Proc \ {p} :
                 job'[q].at \in S /\ job'[q].lane = l /\ e \in ToSet(BatchOf(job'[q]))
  <2>1. e \in OtherJobs(p, S, l) <=>
          \E q \in Proc \ {p} :
            job[q].at \in S /\ job[q].lane = l /\ e \in ToSet(BatchOf(job[q]))
    BY DEF OtherJobs
  <2> QED
    BY <1>3, <2>1
<1>6. ASSUME NEW e
      PROVE  e \in own <=>
               job'[p].at \in S /\ job'[p].lane = l /\ e \in ToSet(BatchOf(job'[p]))
  OBVIOUS
<1> HIDE DEF own
<1>7. \A e : e \in InJobs(S, l)' <=> e \in OtherJobs(p, S, l) \cup own
  BY <1>4, <1>5, <1>6
<1>8. InJobs(S, l)' = OtherJobs(p, S, l) \cup own
  BY <1>7
<1> QED
  BY <1>8, JobsSplit DEF own

\* No job changes.
LEMMA JobsSame ==
  ASSUME topic' = topic, job' = job, NEW S, NEW l
  PROVE  InJobs(S, l)' = InJobs(S, l)
<1>1. \A q : Batch(q)' = Batch(q)
  BY SameTopic, JobBatch
<1> QED
  BY <1>1 DEF InJobs

\* A batch does not change while its lane, its messages and its base do not.
LEMMA BatchSame ==
  ASSUME NEW p, SameBatch(p)
  PROVE  BatchOf(job'[p]) = BatchOf(job[p])
BY DEF SameBatch, BatchOf, StorageOf

\* The topics do not change.
LEMMA TopicsSame ==
  ASSUME NEW l
  PROVE  /\ UNCHANGED toPush => Pushed(l)' = Pushed(l)
         /\ UNCHANGED toMongo => Waiting(l)' = Waiting(l)
BY DEF Pushed, Waiting

\* What is only pushed has no seq.
LEMMA PushedTransients ==
  ASSUME TypeOK, NEW p \in Proc, toPush' = toPush \o Transients(p), NEW l
  PROVE  Pushed(l)' = Pushed(l)
<1>1. toPush \in Seq(PushEntry)
  BY DEF TypeOK, PushEntry
<1>2. ToSet(toPush') = ToSet(toPush) \cup ToSet(Transients(p))
  BY <1>1, Sendings, Sets
<1>3. \A x \in ToSet(Transients(p)) : ~(x.seq > 0)
  BY Sendings
<1> QED
  BY <1>2, <1>3 DEF Pushed

\* What is stored is pushed with its seqs.
LEMMA PushedStored ==
  ASSUME TypeOK, NEW p \in Proc, toPush' = toPush \o Stored(p), NEW l
  PROVE  Pushed(l)' = Pushed(l) \cup (IF job[p].lane = l THEN ToSet(Batch(p)) ELSE {})
<1>1. toPush \in Seq(PushEntry)
  BY DEF TypeOK, PushEntry
<1>2. ToSet(toPush') = ToSet(toPush) \cup ToSet(Stored(p))
  BY <1>1, Sendings, Sets
<1>3. \A e \in ToSet(Stored(p)) :
        e.lane = job[p].lane /\ [seq |-> e.seq, msg |-> e.msg] \in ToSet(Batch(p))
  BY Sendings
<1>4. \A e \in ToSet(Batch(p)) :
        e.seq > 0 /\ [lane |-> job[p].lane, seq |-> e.seq, msg |-> e.msg] \in ToSet(Stored(p))
  BY Sendings
<1>5. \A e \in ToSet(Batch(p)) : e = [seq |-> e.seq, msg |-> e.msg]
  <2>1. ToSet(Batch(p)) \in SUBSET Entry
    BY JobParts, JobBatch, BatchElements DEF TypeOK
  <2> QED
    BY <2>1 DEF Entry
<1>6. Pushed(l)' = {[seq |-> e.seq, msg |-> e.msg] : e \in {x \in ToSet(toPush') : x.lane = l /\ x.seq > 0}}
  BY DEF Pushed
<1>7. ASSUME NEW y \in Pushed(l)'
      PROVE  y \in Pushed(l) \/ (job[p].lane = l /\ y \in ToSet(Batch(p)))
  <2>1. PICK x \in ToSet(toPush') : x.lane = l /\ x.seq > 0 /\ y = [seq |-> x.seq, msg |-> x.msg]
    BY <1>6, <1>7
  <2>2. CASE x \in ToSet(toPush)
    BY <2>1, <2>2 DEF Pushed
  <2>3. CASE x \in ToSet(Stored(p))
    BY <1>3, <2>1, <2>3
  <2> QED
    BY <1>2, <2>2, <2>3
<1>8. ASSUME NEW y \in Pushed(l) PROVE y \in Pushed(l)'
  BY <1>2, <1>6, <1>8 DEF Pushed
<1>9. ASSUME job[p].lane = l, NEW y \in ToSet(Batch(p)) PROVE y \in Pushed(l)'
  <2> DEFINE x == [lane |-> job[p].lane, seq |-> y.seq, msg |-> y.msg]
  <2>1. x \in ToSet(toPush') /\ x.lane = l /\ x.seq > 0 /\ [seq |-> x.seq, msg |-> x.msg] = y
    BY <1>2, <1>4, <1>5, <1>9
  <2> QED
    BY <1>6, <2>1
<1> QED
  BY <1>7, <1>8, <1>9

\* A batch is appended to toMongo.
LEMMA WaitingAppended ==
  ASSUME TypeOK, NEW p \in Proc, NEW l,
         toMongo' = Append(toMongo, [lane |-> job[p].lane, batch |-> Batch(p)])
  PROVE  Waiting(l)' = Waiting(l) \cup (IF job[p].lane = l THEN ToSet(Batch(p)) ELSE {})
<1> DEFINE e == [lane |-> job[p].lane, batch |-> Batch(p)]
<1>1. toMongo \in Seq(MongoEntry)
  BY DEF TypeOK, MongoEntry
<1>2. e \in MongoEntry
  BY JobParts, JobBatch, BatchType DEF TypeOK, MongoEntry
<1>3. ToSet(toMongo') = ToSet(toMongo) \cup {e}
  <2> HIDE DEF e
  <2>1. ToSet(Append(toMongo, e)) = ToSet(toMongo) \cup {e}
    BY <1>1, <1>2, Sets
  <2>2. toMongo' = Append(toMongo, e)
    BY DEF e
  <2> QED
    BY <2>1, <2>2
<1>4. e.lane = job[p].lane /\ e.batch = Batch(p)
  OBVIOUS
<1> HIDE DEF e
<1>5. {x \in ToSet(toMongo') : x.lane = l} = {x \in ToSet(toMongo) : x.lane = l} \cup
        (IF job[p].lane = l THEN {e} ELSE {})
  BY <1>3, <1>4
<1>6. Waiting(l)' = UNION {ToSet(b.batch) : b \in {x \in ToSet(toMongo') : x.lane = l}}
  BY DEF Waiting
<1> QED
  BY <1>4, <1>5, <1>6 DEF Waiting

\* The first batch of toMongo is taken.
LEMMA WaitingTaken ==
  ASSUME TypeOK, toMongo # << >>, toMongo' = Tail(toMongo), NEW l
  PROVE  Waiting(l) = Waiting(l)' \cup
           (IF Head(toMongo).lane = l THEN ToSet(Head(toMongo).batch) ELSE {})
<1> DEFINE e == Head(toMongo)
<1>1. ToSet(toMongo) = {e} \cup ToSet(toMongo')
  BY Queues
<1> HIDE DEF e
<1>2. {x \in ToSet(toMongo) : x.lane = l} = {x \in ToSet(toMongo') : x.lane = l} \cup
        (IF e.lane = l THEN {e} ELSE {})
  BY <1>1
<1>3. Waiting(l)' = UNION {ToSet(b.batch) : b \in {x \in ToSet(toMongo') : x.lane = l}}
  BY DEF Waiting
<1>4. Waiting(l) = Waiting(l)' \cup (IF e.lane = l THEN ToSet(e.batch) ELSE {})
  BY <1>2, <1>3 DEF Waiting
<1> QED
  BY <1>4 DEF e

-----------------------------------------------------------------------------
(* One message per seq, and what was pushed is found.                      *)

FlowInv == NumberInv /\ FoundInv

\* A job that leaves the stages, or stays among them with its batch, adds nothing.
LEMMA JobsFewer ==
  ASSUME topic' = topic, NEW p \in Proc, OnlyJobOf(p), NEW S, NEW l,
         job'[p].at \in S => job[p].at \in S /\ SameBatch(p)
  PROVE  InJobs(S, l)' \subseteq InJobs(S, l)
<1>1. /\ InJobs(S, l) = OtherJobs(p, S, l) \cup OwnJob(p, S, l)
      /\ InJobs(S, l)' = OtherJobs(p, S, l) \cup
           (IF job'[p].at \in S /\ job'[p].lane = l THEN ToSet(BatchOf(job'[p])) ELSE {})
  BY JobsStep
<1>2. CASE job'[p].at \in S
  <2>1. job[p].at \in S /\ BatchOf(job'[p]) = BatchOf(job[p]) /\ job'[p].lane = job[p].lane
    BY <1>2, BatchSame DEF SameBatch
  <2> QED
    BY <1>1, <2>1 DEF OwnJob
<1>3. CASE job'[p].at \notin S
  BY <1>1, <1>3
<1> QED
  BY <1>2, <1>3

\* A job that is not in the stages after Leave.
LEMMA LeaveFewer ==
  ASSUME TypeOK, topic' = topic, NEW p \in Proc, Leave(p), NEW S \in SUBSET WithSeqs, NEW l
  PROVE  InJobs(S, l)' \subseteq InJobs(S, l)
<1>1. OnlyJobOf(p) /\ job'[p].at \in {"transient", "idle"}
  BY LeaveEffect, NoJobType
<1>2. job'[p].at \notin S
  BY <1>1 DEF WithSeqs
<1> QED
  BY <1>1, <1>2, JobsFewer

\* The steps that move nothing, at most leave a stage.
FlowSame == \A l \in Lane : \A S \in {WithSeqs, WithCache, {"push"}} : InJobs(S, l)' \subseteq InJobs(S, l)

LEMMA FlowQuiet ==
  ASSUME FlowInv, UNCHANGED <<storeVars, toMongo>>, failures' = 0 => failures = 0, FlowSame,
         \A l \in Lane : Pushed(l)' = Pushed(l)
  PROVE  FlowInv'
<1>1. ASSUME NEW l \in Lane
      PROVE  /\ Waiting(l)' = Waiting(l) /\ Pushed(l)' = Pushed(l)
             /\ InJobs(WithSeqs, l)' \subseteq InJobs(WithSeqs, l)
             /\ InJobs(WithCache, l)' \subseteq InJobs(WithCache, l)
             /\ InJobs({"push"}, l)' \subseteq InJobs({"push"}, l)
  BY TopicsSame DEF FlowSame
<1>2. cache' = cache /\ docs' = docs /\ maxSeq' = maxSeq
  BY DEF storeVars
<1>3. ASSUME NEW l \in Lane PROVE Numbers(l)' \subseteq Numbers(l)
  BY <1>1, <1>2 DEF Numbers
<1>4. NumberInv'
  BY <1>2, <1>3 DEF FlowInv, NumberInv
<1>5. FoundInv'
  BY <1>1, <1>2 DEF FlowInv, FoundInv
<1> QED
  BY <1>4, <1>5 DEF FlowInv

\* Faults are counted.
LEMMA FaultsGrow ==
  ASSUME TypeOK, UNCHANGED faultVars \/ Failure
  PROVE  /\ failures' = 0 => failures = 0 /\ UNCHANGED faultVars
         /\ moves' = moves /\ crashes' = crashes /\ refused' = refused
<1>1. failures \in Nat
  BY BoundAssumption DEF TypeOK
<1> QED
  BY <1>1 DEF faultVars, Failure

\* A stage among the later ones.
LEMMA Stages ==
  ASSUME TypeOK, topic' = topic, NEW p \in Proc, OnlyJobOf(p), SameBatch(p),
         job[p].at \in {"read", "write", "create"},
         job'[p].at \in {"read", "write", "create", "mongo"}
  PROVE  FlowSame
<1>1. ASSUME NEW S \in {WithSeqs, WithCache, {"push"}}
      PROVE  job'[p].at \in S => job[p].at \in S
  BY DEF WithSeqs, WithCache
<1> QED
  BY <1>1, JobsFewer DEF FlowSame

LEMMA LeaveSame ==
  ASSUME TypeOK, topic' = topic, NEW p \in Proc, Leave(p)
  PROVE  FlowSame
<1>1. \A S \in {WithSeqs, WithCache, {"push"}} : S \in SUBSET WithSeqs
  BY DEF WithSeqs, WithCache
<1> QED
  BY <1>1, LeaveFewer DEF FlowSame

LEMMA FlowStep ==
  ASSUME TypeOK, FlowInv, [Next]_vars
  PROVE  FlowInv'
<1> SUFFICES FlowInv'
  OBVIOUS
<1>0. topic' = topic /\ topic \in Topics
  BY DEF Next, vars, TypeOK
<1>s. ASSUME UNCHANGED job PROVE FlowSame
  BY <1>0, <1>s, JobsSame DEF FlowSame
<1>q. ASSUME NEW p \in Proc, OnlyJobOf(p), job'[p].at \in {"idle", "transient", "malloc"}
      PROVE  FlowSame
  BY <1>0, <1>q, JobsFewer DEF FlowSame, WithSeqs, WithCache
<1>1. CASE UNCHANGED vars
  BY <1>1, <1>s, FlowQuiet, TopicsSame DEF vars, faultVars
<1>2. ASSUME NEW p \in Proc, HandlerRedisMessage(p) PROVE FlowInv'
  BY <1>2, <1>s, FlowQuiet, TopicsSame DEF HandlerRedisMessage, faultVars
<1>3. ASSUME NEW p \in Proc, Rebalance(p) PROVE FlowInv'
  BY <1>3, <1>s, FlowQuiet, TopicsSame DEF Rebalance
<1>4. ASSUME NEW p \in Proc, Crash(p) PROVE FlowInv'
  <2>1. job' = [job EXCEPT ![p] = NoJob] /\ failures' = failures
        /\ UNCHANGED <<storeVars, toMongo, toPush>>
    BY <1>4 DEF Crash
  <2>2. OnlyJobOf(p) /\ job'[p].at = "idle"
    BY <2>1, NoJobType, JobReplaced
  <2> QED
    BY <2>1, <2>2, <1>q, FlowQuiet, TopicsSame
<1>5. ASSUME NEW p \in Proc, Do(p) PROVE FlowInv'
  <2>1. PICK n \in 1 .. Len(held[p]) :
          job' = [job EXCEPT ![p] = [NoJob EXCEPT !.at = "transient", !.msgs = SubSeq(held[p], 1, n)]]
    BY <1>5 DEF Do
  <2>2. UNCHANGED <<storeVars, toMongo, toPush, faultVars>>
    BY <1>5 DEF Do
  <2>3. SubSeq(held[p], 1, n) \in Seq(Message)
    <3>1. held[p] \in Seq(Message) /\ n \in 0 .. Len(held[p])
      BY DEF TypeOK
    <3> QED
      BY <3>1, Split
  <2>4. OnlyJobOf(p) /\ job'[p].at = "transient"
    BY <2>1, <2>3, DoEffect
  <2> QED
    BY <2>2, <2>4, <1>q, FlowQuiet, TopicsSame DEF faultVars
<1>6. ASSUME NEW p \in Proc, PushTransient(p) PROVE FlowInv'
  <2>1. /\ IF Storage(p) = << >> THEN Leave(p) ELSE GoTo(p, "malloc")
        /\ (toPush' = toPush \o Transients(p) /\ UNCHANGED faultVars) \/ (Failure /\ UNCHANGED toPush)
        /\ UNCHANGED <<storeVars, toMongo>>
    BY <1>6 DEF PushTransient, Transients
  <2>2. FlowSame
    <3>1. CASE Leave(p)
      BY <1>0, <3>1, LeaveSame
    <3>2. CASE GoTo(p, "malloc")
      <4>1. "malloc" \in Stage
        BY DEF Stage
      <4> QED
        BY <3>2, <4>1, GoToEffect, <1>q
    <3> QED
      BY <2>1, <3>1, <3>2
  <2>3. \A l \in Lane : Pushed(l)' = Pushed(l)
    BY <2>1, PushedTransients, TopicsSame
  <2>4. failures' = 0 => failures = 0
    BY <2>1, FaultsGrow
  <2> QED
    BY <2>1, <2>2, <2>3, <2>4, FlowQuiet
<1>7. ASSUME NEW p \in Proc, Refuse(p) PROVE FlowInv'
  <2>1. Leave(p) /\ UNCHANGED <<storeVars, toMongo, toPush, failures>>
    BY <1>7 DEF Refuse
  <2> QED
    BY <1>0, <2>1, LeaveSame, FlowQuiet, TopicsSame
<1>8. ASSUME NEW p \in Proc, Malloc(p) PROVE FlowInv'
  <2> DEFINE k == job[p].lane
             n == Len(Storage(p))
  <2>1. UNCHANGED <<cache, docs, toMongo, toPush>> /\ (UNCHANGED faultVars \/ Failure)
    BY <1>8 DEF Malloc
  <2>2. failures' = 0 => failures = 0
    BY <2>1, FaultsGrow
  <2>3. CASE Leave(p) /\ UNCHANGED maxSeq
    BY <1>0, <2>1, <2>2, <2>3, LeaveSame, FlowQuiet, TopicsSame DEF storeVars
  <2>4. ASSUME NEW b \in Nat, b >= maxSeq[k], maxSeq' = [maxSeq EXCEPT ![k] = b + n],
               job' = [job EXCEPT ![p].at = "cache", ![p].base = b]
        PROVE  FlowInv'
    <3>1. /\ OnlyJobOf(p) /\ job'[p].at = "cache" /\ job'[p].base = b
          /\ job'[p].lane = k /\ job'[p].msgs = job[p].msgs
      BY <2>4, MallocEffect
    <3>2. job'[p] \in Job /\ k \in Lane
      BY <3>1, JobParts DEF OnlyJobOf
    <3>3. StorageOf(job'[p]) = Storage(p) /\ n \in Nat
      <4>1. StorageOf(job'[p]) = StorageOf(job[p])
        BY <3>1 DEF StorageOf
      <4> QED
        BY <4>1, <1>0, JobBatch, JobParts, StorageType
    <3> DEFINE B == ToSet(BatchOf(job'[p]))
    <3>4. /\ \A e \in B : e.seq \in b + 1 .. b + n
          /\ \A e, f \in B : e.seq = f.seq => e.msg = f.msg
      <4> DEFINE j == job'[p]
      <4>1. /\ \A e \in ToSet(BatchOf(j)) : e.seq \in j.base + 1 .. j.base + Len(StorageOf(j))
            /\ \A e, f \in ToSet(BatchOf(j)) : e.seq = f.seq => e.msg = f.msg
        <5> HIDE DEF j
        <5>1. j \in Job
          BY <3>2 DEF j
        <5> QED
          BY <1>0, <5>1, BatchElements
      <4> QED
        BY <3>1, <3>3, <4>1
    <3>5. job'[p].at \in WithSeqs /\ job'[p].at \notin WithCache /\ job'[p].at \notin {"push"}
      BY <3>1 DEF WithSeqs, WithCache
    <3> HIDE DEF B, n, k
    <3>6. ASSUME NEW l \in Lane
          PROVE  /\ Waiting(l)' = Waiting(l) /\ Pushed(l)' = Pushed(l)
                 /\ InJobs(WithCache, l)' \subseteq InJobs(WithCache, l)
                 /\ InJobs({"push"}, l)' \subseteq InJobs({"push"}, l)
                 /\ InJobs(WithSeqs, l)' \subseteq InJobs(WithSeqs, l) \cup (IF k = l THEN B ELSE {})
      <4>1. InJobs(WithSeqs, l)' \subseteq InJobs(WithSeqs, l) \cup (IF k = l THEN B ELSE {})
        BY <1>0, <3>1, JobsStep DEF B
      <4> QED
        BY <1>0, <2>1, <3>1, <3>5, <4>1, TopicsSame, JobsFewer
    <3>7. FoundInv'
      BY <2>1, <2>2, <3>6 DEF FlowInv, FoundInv
    <3>8. ASSUME NEW l \in Lane
          PROVE  Numbers(l)' \subseteq Numbers(l) \cup (IF k = l THEN B ELSE {})
      BY <2>1, <3>6 DEF Numbers
    <3>9. ASSUME NEW l \in Lane
          PROVE  /\ maxSeq[l] \in Nat /\ maxSeq'[l] \in Nat /\ maxSeq[l] <= maxSeq'[l]
                 /\ k = l => maxSeq'[l] = b + n /\ maxSeq[l] <= b
      <4>1. maxSeq \in [Lane -> Nat]
        BY DEF TypeOK
      <4>2. CASE l = k
        <5>1. maxSeq'[l] = b + n /\ maxSeq[l] \in Nat /\ b >= maxSeq[l]
          BY <2>4, <3>2, <4>1, <4>2
        <5> QED
          BY <2>4, <3>3, <4>2, <5>1
      <4>3. CASE l # k
        BY <2>4, <4>1, <4>3
      <4> QED
        BY <4>2, <4>3
    <3>10. ASSUME NEW l \in Lane, NEW x \in Numbers(l)' PROVE x.seq \in 1 .. maxSeq'[l]
      <4>1. CASE x \in Numbers(l)
        <5>1. x.seq \in 1 .. maxSeq[l]
          BY <4>1 DEF FlowInv, NumberInv
        <5> QED
          BY <5>1, <3>9
      <4>2. CASE k = l /\ x \in B
        <5>1. x.seq \in b + 1 .. b + n
          BY <4>2, <3>4
        <5> QED
          BY <4>2, <5>1, <3>9
      <4> QED
        BY <3>8, <3>10, <4>1, <4>2
    <3>11. ASSUME NEW l \in Lane, NEW x \in Numbers(l)', NEW y \in Numbers(l)', x.seq = y.seq
           PROVE  x.msg = y.msg
      <4>1. CASE x \in Numbers(l) /\ y \in Numbers(l)
        BY <3>11, <4>1 DEF FlowInv, NumberInv
      <4>2. CASE k = l /\ x \in B /\ y \in B
        BY <3>4, <3>11, <4>2
      <4>3. ASSUME k = l, NEW v \in Numbers(l), NEW w \in B PROVE v.seq # w.seq
        <5>1. v.seq \in 1 .. maxSeq[l] /\ w.seq \in b + 1 .. b + n /\ maxSeq[l] <= b
          BY <3>4, <3>9, <4>3 DEF FlowInv, NumberInv
        <5> QED
          BY <5>1, <3>9
      <4> QED
        BY <3>8, <3>11, <4>1, <4>2, <4>3
    <3> QED
      BY <3>7, <3>10, <3>11 DEF FlowInv, NumberInv
  <2>5. k \in Lane /\ n \in Nat /\ maxSeq[k] \in Nat /\ maxSeq[k] + 1 \in Nat
    <3>1. k \in Lane /\ n \in Nat
      BY <1>0, JobParts, JobBatch, StorageType
    <3>2. maxSeq[k] \in Nat
      BY <3>1 DEF TypeOK
    <3> QED
      BY <3>1, <3>2
  <2>6. \/ /\ maxSeq' = [maxSeq EXCEPT ![k] = maxSeq[k] + n]
           /\ job' = [job EXCEPT ![p].at = "cache", ![p].base = maxSeq[k]]
        \/ /\ maxSeq' = [maxSeq EXCEPT ![k] = maxSeq[k] + 1 + n]
           /\ job' = [job EXCEPT ![p].at = "cache", ![p].base = maxSeq[k] + 1]
        \/ Leave(p) /\ UNCHANGED maxSeq
    BY <1>8 DEF Malloc
  <2> HIDE DEF k, n
  <2>7. maxSeq[k] >= maxSeq[k] /\ maxSeq[k] + 1 >= maxSeq[k]
    BY <2>5
  <2> QED
    BY <2>3, <2>4, <2>5, <2>6, <2>7
<1>9. ASSUME NEW p \in Proc, SetMessageBySeqs(p) PROVE FlowInv'
  <2> DEFINE k == job[p].lane
             b == Batch(p)
             B == ToSet(b)
  <2>1. /\ UNCHANGED <<maxSeq, docs, toMongo, toPush>> /\ (UNCHANGED faultVars \/ Failure)
        /\ job[p].at = "cache"
    BY <1>9 DEF SetMessageBySeqs
  <2>2. k \in Lane /\ b \in Seq(Entry) /\ B \in SUBSET Entry /\ B = ToSet(BatchOf(job[p]))
        /\ UserSeqMap(B) \in [User -> Nat]
    BY <1>0, JobParts, JobBatch, BatchType, BatchElements, BatchSeqs
  <2>3. PICK es \in SUBSET B :
          /\ cache' = [cache EXCEPT ![k] = @ \cup es]
          /\ \/ es = B /\ OnlyJobOf(p) /\ SameBatch(p) /\ job'[p].at \in {"read", "mongo"}
             \/ Leave(p)
    <3>1. ASSUME cache' = [cache EXCEPT ![k] = @ \cup B],
                 IF k = "msg"
                 THEN job' = [job EXCEPT ![p].at = "read", ![p].unread = UserSeqMap(B)]
                 ELSE GoTo(p, "mongo")
          PROVE  OnlyJobOf(p) /\ SameBatch(p) /\ job'[p].at \in {"read", "mongo"}
      <4>1. CASE job' = [job EXCEPT ![p].at = "read", ![p].unread = UserSeqMap(B)]
        BY <2>2, <4>1, UnreadEffect
      <4>2. CASE GoTo(p, "mongo")
        <5>1. "mongo" \in Stage
          BY DEF Stage
        <5> QED
          BY <4>2, <5>1, GoToEffect
      <4> QED
        BY <3>1, <4>1, <4>2
    <3>2. ASSUME NEW n \in 0 .. Len(b), cache' = [cache EXCEPT ![k] = @ \cup ToSet(SubSeq(b, 1, n))]
          PROVE  \E es \in SUBSET B : cache' = [cache EXCEPT ![k] = @ \cup es]
      <4>1. ToSet(SubSeq(b, 1, n)) \in SUBSET B
        <5> HIDE DEF b
        <5> QED
          BY <2>2, Sets
      <4> QED
        BY <3>2, <4>1
    <3>3. \/ /\ cache' = [cache EXCEPT ![k] = @ \cup B]
             /\ IF k = "msg"
                THEN job' = [job EXCEPT ![p].at = "read", ![p].unread = UserSeqMap(B)]
                ELSE GoTo(p, "mongo")
          \/ /\ \E n \in 0 .. Len(b) : cache' = [cache EXCEPT ![k] = @ \cup ToSet(SubSeq(b, 1, n))]
             /\ Leave(p)
      BY <1>9 DEF SetMessageBySeqs
    <3> HIDE DEF k, B, b
    <3> QED
      BY <3>1, <3>2, <3>3
  <2>4. failures' = 0 => failures = 0
    BY <2>1, FaultsGrow
  <2>5. job[p].at \in WithSeqs
    BY <2>1 DEF WithSeqs
  <2>6. \A l \in Lane : cache'[l] = cache[l] \cup (IF k = l THEN es ELSE {})
    BY <2>2, <2>3 DEF TypeOK
  <2>7. ASSUME NEW l \in Lane
        PROVE  /\ InJobs(WithSeqs, l)' \subseteq InJobs(WithSeqs, l)
               /\ InJobs({"push"}, l)' \subseteq InJobs({"push"}, l)
               /\ InJobs(WithCache, l)' \subseteq InJobs(WithCache, l) \cup (IF k = l THEN es ELSE {})
               /\ k = l => B \subseteq InJobs(WithSeqs, l)
    <3>1. CASE Leave(p)
      <4>1. \A S \in {WithSeqs, WithCache, {"push"}} : InJobs(S, l)' \subseteq InJobs(S, l)
        BY <1>0, <3>1, LeaveSame DEF FlowSame
      <4>2. k = l => B \subseteq InJobs(WithSeqs, l)
        BY <2>2, <2>5, JobsSplit DEF OwnJob
      <4> QED
        BY <4>1, <4>2
    <3>2. CASE es = B /\ OnlyJobOf(p) /\ SameBatch(p) /\ job'[p].at \in {"read", "mongo"}
      <4>1. InJobs(WithSeqs, l)' \subseteq InJobs(WithSeqs, l)
        BY <1>0, <2>5, <3>2, JobsFewer
      <4>2. InJobs({"push"}, l)' \subseteq InJobs({"push"}, l)
        BY <1>0, <3>2, JobsFewer
      <4>3. InJobs(WithCache, l)' \subseteq InJobs(WithCache, l) \cup (IF k = l THEN es ELSE {})
        <5>1. BatchOf(job'[p]) = BatchOf(job[p]) /\ job'[p].lane = k
          BY <3>2, BatchSame DEF SameBatch
        <5> QED
          BY <1>0, <2>2, <3>2, <5>1, JobsStep
      <4>4. k = l => B \subseteq InJobs(WithSeqs, l)
        BY <2>2, <2>5, JobsSplit DEF OwnJob
      <4> QED
        BY <4>1, <4>2, <4>3, <4>4
    <3> QED
      BY <2>3, <3>1, <3>2
  <2>8. \A l \in Lane : Waiting(l)' = Waiting(l) /\ Pushed(l)' = Pushed(l)
    BY <2>1, TopicsSame
  <2> HIDE DEF k, b, B
  <2>9. ASSUME NEW l \in Lane PROVE Numbers(l)' \subseteq Numbers(l)
    BY <2>1, <2>3, <2>6, <2>7, <2>8 DEF Numbers
  <2>10. NumberInv'
    BY <2>1, <2>9 DEF FlowInv, NumberInv
  <2>11. FoundInv'
    BY <2>1, <2>4, <2>6, <2>7, <2>8 DEF FlowInv, FoundInv
  <2> QED
    BY <2>10, <2>11 DEF FlowInv
<1>10. ASSUME NEW p \in Proc, GetUserReadSeq(p) PROVE FlowInv'
  <2>1. PICK u \in User :
          job' = [job EXCEPT ![p].at = "write", ![p].user = u, ![p].seen = readSeq[u]]
    BY <1>10 DEF GetUserReadSeq
  <2>2. UNCHANGED <<storeVars, toMongo, toPush, faultVars>> /\ job[p].at = "read"
    BY <1>10 DEF GetUserReadSeq
  <2>3. readSeq[u] \in Nat
    BY DEF TypeOK
  <2>4. OnlyJobOf(p) /\ SameBatch(p) /\ job'[p].at = "write"
    BY <2>1, <2>3, GetEffect
  <2> QED
    BY <1>0, <2>2, <2>4, Stages, FlowQuiet, TopicsSame DEF faultVars
<1>11. ASSUME NEW p \in Proc, HasReadFails(p) PROVE FlowInv'
  <2>1. /\ Failure /\ job' = [job EXCEPT ![p].at = "read", ![p].unread = NoRead]
        /\ UNCHANGED <<storeVars, toMongo, toPush>> /\ job[p].at \in {"read", "write"}
    BY <1>11 DEF HasReadFails
  <2>2. OnlyJobOf(p) /\ SameBatch(p) /\ job'[p].at = "read"
    BY <2>1, NoJobType, UnreadEffect
  <2>3. FlowSame
    BY <1>0, <2>1, <2>2, Stages
  <2> QED
    BY <2>1, <2>3, FaultsGrow, FlowQuiet, TopicsSame
<1>12. ASSUME NEW p \in Proc, SetUserReadSeq(p) PROVE FlowInv'
  <2>1. /\ job' = [job EXCEPT ![p].at = "read", ![p].unread[job[p].user] = 0]
        /\ UNCHANGED <<storeVars, toMongo, toPush, faultVars>> /\ job[p].at = "write"
    BY <1>12 DEF SetUserReadSeq
  <2>2. OnlyJobOf(p) /\ SameBatch(p) /\ job'[p].at = "read"
    BY <2>1, JobParts, SetEffect
  <2> QED
    BY <1>0, <2>1, <2>2, Stages, FlowQuiet, TopicsSame DEF faultVars
<1>13. ASSUME NEW p \in Proc, SendHasRead(p) PROVE FlowInv'
  <2> DEFINE at == IF job[p].base = 0 THEN "create" ELSE "mongo"
  <2>1. /\ GoTo(p, at) /\ job[p].at = "read"
        /\ UNCHANGED <<storeVars, toMongo, toPush, faultVars>>
    BY <1>13 DEF SendHasRead
  <2>2. at \in Stage /\ at \in {"create", "mongo"}
    BY DEF Stage
  <2> HIDE DEF at
  <2>3. OnlyJobOf(p) /\ SameBatch(p) /\ job'[p].at = at
    BY <2>1, <2>2, GoToEffect
  <2>4. FlowSame
    BY <1>0, <2>1, <2>2, <2>3, Stages
  <2> QED
    BY <2>1, <2>4, FlowQuiet, TopicsSame DEF faultVars
<1>14. ASSUME NEW p \in Proc, CreateConversations(p) PROVE FlowInv'
  <2>1. /\ GoTo(p, "mongo") /\ (UNCHANGED faultVars \/ Failure) /\ job[p].at = "create"
        /\ UNCHANGED <<storeVars, toMongo, toPush>>
    BY <1>14 DEF CreateConversations
  <2>2. "mongo" \in Stage
    BY DEF Stage
  <2>3. OnlyJobOf(p) /\ SameBatch(p) /\ job'[p].at = "mongo"
    BY <2>1, <2>2, GoToEffect
  <2>4. FlowSame
    BY <1>0, <2>1, <2>3, Stages
  <2> QED
    BY <2>1, <2>4, FaultsGrow, FlowQuiet, TopicsSame
<1>15. ASSUME NEW p \in Proc, MsgToMongoMQ(p) PROVE FlowInv'
  <2> DEFINE k == job[p].lane
             B == ToSet(Batch(p))
  <2>1. /\ GoTo(p, "push") /\ job[p].at = "mongo"
        /\ \/ toMongo' = Append(toMongo, [lane |-> k, batch |-> Batch(p)]) /\ UNCHANGED faultVars
           \/ Failure /\ UNCHANGED toMongo
        /\ UNCHANGED <<storeVars, toPush>>
    BY <1>15 DEF MsgToMongoMQ
  <2>2. k \in Lane /\ B = ToSet(BatchOf(job[p]))
    BY JobParts, JobBatch
  <2>3. "push" \in Stage
    BY DEF Stage
  <2>4. OnlyJobOf(p) /\ SameBatch(p) /\ job'[p].at = "push"
    BY <2>1, <2>3, GoToEffect
  <2>5. \A l \in Lane : Pushed(l)' = Pushed(l)
    BY <2>1, TopicsSame
  <2>6. ASSUME NEW l \in Lane
        PROVE  /\ Waiting(l) \subseteq Waiting(l)'
               /\ Waiting(l)' \subseteq Waiting(l) \cup (IF k = l THEN B ELSE {})
               /\ failures' = 0 => /\ failures = 0
                                   /\ Waiting(l)' = Waiting(l) \cup (IF k = l THEN B ELSE {})
    <3>1. CASE toMongo' = Append(toMongo, [lane |-> k, batch |-> Batch(p)]) /\ UNCHANGED faultVars
      BY <3>1, WaitingAppended DEF faultVars
    <3>2. CASE Failure /\ UNCHANGED toMongo
      <4>1. failures' # 0
        <5>1. failures \in Nat /\ failures' = failures + 1
          BY <3>2, BoundAssumption DEF TypeOK, Failure
        <5> QED
          BY <5>1
      <4> QED
        BY <3>2, <4>1, TopicsSame
    <3> QED
      BY <2>1, <3>1, <3>2
  <2>7. /\ job[p].at \in WithSeqs /\ job[p].at \in WithCache
        /\ job'[p].at \in WithSeqs /\ job'[p].at \in WithCache
    BY <2>1, <2>4 DEF WithSeqs, WithCache
  <2>8. ASSUME NEW l \in Lane
        PROVE  /\ InJobs(WithSeqs, l)' \subseteq InJobs(WithSeqs, l)
               /\ InJobs(WithCache, l)' \subseteq InJobs(WithCache, l)
               /\ InJobs({"push"}, l)' \subseteq InJobs({"push"}, l) \cup (IF k = l THEN B ELSE {})
               /\ k = l => B \subseteq InJobs(WithSeqs, l)
    <3>1. InJobs(WithSeqs, l)' \subseteq InJobs(WithSeqs, l)
      BY <1>0, <2>4, <2>7, JobsFewer
    <3>2. InJobs(WithCache, l)' \subseteq InJobs(WithCache, l)
      BY <1>0, <2>4, <2>7, JobsFewer
    <3>3. InJobs({"push"}, l)' \subseteq InJobs({"push"}, l) \cup (IF k = l THEN B ELSE {})
      <4>1. BatchOf(job'[p]) = BatchOf(job[p]) /\ job'[p].lane = k
        BY <2>4, BatchSame DEF SameBatch
      <4> QED
        BY <1>0, <2>2, <2>4, <4>1, JobsStep
    <3>4. k = l => B \subseteq InJobs(WithSeqs, l)
      BY <2>2, <2>7, JobsSplit DEF OwnJob
    <3> QED
      BY <3>1, <3>2, <3>3, <3>4
  <2> HIDE DEF k, B
  <2>9. cache' = cache /\ docs' = docs /\ maxSeq' = maxSeq
    BY <2>1 DEF storeVars
  <2>10. ASSUME NEW l \in Lane PROVE Numbers(l)' \subseteq Numbers(l)
    BY <2>5, <2>6, <2>8, <2>9 DEF Numbers
  <2>11. NumberInv'
    BY <2>9, <2>10 DEF FlowInv, NumberInv
  <2>12. FoundInv'
    BY <2>5, <2>6, <2>8, <2>9 DEF FlowInv, FoundInv
  <2> QED
    BY <2>11, <2>12 DEF FlowInv
<1>16. ASSUME NEW p \in Proc, PushStored(p) PROVE FlowInv'
  <2> DEFINE k == job[p].lane
             B == ToSet(Batch(p))
  <2>1. /\ Leave(p) /\ job[p].at = "push"
        /\ \/ toPush' = toPush \o Stored(p) /\ UNCHANGED faultVars
           \/ Failure /\ UNCHANGED toPush
        /\ UNCHANGED <<storeVars, toMongo>>
    BY <1>16 DEF PushStored, Stored
  <2>2. \A l \in Lane : /\ Waiting(l)' = Waiting(l)
                        /\ Pushed(l)' \subseteq Pushed(l) \cup (IF k = l THEN B ELSE {})
    BY <2>1, PushedStored, TopicsSame
  <2>3. job[p].at \in WithSeqs /\ job[p].at \in WithCache /\ job[p].at \in {"push"}
    BY <2>1 DEF WithSeqs, WithCache
  <2>4. ASSUME NEW l \in Lane, k = l
        PROVE  B \subseteq InJobs(WithSeqs, l) /\ B \subseteq InJobs(WithCache, l)
               /\ B \subseteq InJobs({"push"}, l)
    BY <2>3, <2>4, JobBatch, JobsSplit DEF OwnJob
  <2>5. FlowSame
    BY <1>0, <2>1, LeaveSame
  <2>6. ASSUME NEW l \in Lane
        PROVE  /\ InJobs(WithSeqs, l)' \subseteq InJobs(WithSeqs, l)
               /\ InJobs(WithCache, l)' \subseteq InJobs(WithCache, l)
               /\ InJobs({"push"}, l)' \subseteq InJobs({"push"}, l)
    BY <2>5 DEF FlowSame
  <2>7. failures' = 0 => failures = 0
    BY <2>1, FaultsGrow
  <2>8. cache' = cache /\ docs' = docs /\ maxSeq' = maxSeq
    BY <2>1 DEF storeVars
  <2> HIDE DEF k, B
  <2>9. ASSUME NEW l \in Lane PROVE Numbers(l)' \subseteq Numbers(l)
    BY <2>2, <2>4, <2>6, <2>8 DEF Numbers
  <2>10. NumberInv'
    BY <2>8, <2>9 DEF FlowInv, NumberInv
  <2>11. FoundInv'
    BY <2>2, <2>4, <2>6, <2>7, <2>8 DEF FlowInv, FoundInv
  <2> QED
    BY <2>10, <2>11 DEF FlowInv
<1>17. ASSUME NEW p \in Proc, SetHasReadSeqToDB(p) PROVE FlowInv'
  <2>1. (UNCHANGED faultVars \/ Failure) /\ UNCHANGED <<job, storeVars, toMongo, toPush>>
    BY <1>17 DEF SetHasReadSeqToDB
  <2> QED
    BY <2>1, <1>s, FaultsGrow, FlowQuiet, TopicsSame
<1>18. CASE HandleChatWs2Mongo
  <2> DEFINE k == Head(toMongo).lane
             b == Head(toMongo).batch
             B == ToSet(b)
  <2>1. /\ toMongo # << >> /\ toMongo' = Tail(toMongo) /\ (UNCHANGED faultVars \/ Failure)
        /\ UNCHANGED <<job, maxSeq, cache, toPush>>
    BY <1>18 DEF HandleChatWs2Mongo
  <2>2. k \in Lane /\ b \in Seq(Entry)
    BY <2>1, Queues
  <2>3. PICK es \in SUBSET B :
          docs' = [docs EXCEPT ![k] = @ \cup es] /\ (failures' = 0 => failures = 0 /\ es = B)
    <3>1. CASE docs' = [docs EXCEPT ![k] = @ \cup B] /\ UNCHANGED faultVars
      BY <3>1 DEF faultVars
    <3>2. CASE Failure /\ \E n \in 0 .. Len(b) : docs' = [docs EXCEPT ![k] = @ \cup ToSet(SubSeq(b, 1, n))]
      <4>1. PICK n \in 0 .. Len(b) : docs' = [docs EXCEPT ![k] = @ \cup ToSet(SubSeq(b, 1, n))]
        BY <3>2
      <4>2. ToSet(SubSeq(b, 1, n)) \in SUBSET B
        <5> HIDE DEF b
        <5> QED
          BY <2>2, Sets
      <4>3. failures' # 0
        <5>1. failures \in Nat /\ failures' = failures + 1
          BY <3>2, BoundAssumption DEF TypeOK, Failure
        <5> QED
          BY <5>1
      <4> QED
        BY <4>1, <4>2, <4>3
    <3> QED
      BY <1>18, <3>1, <3>2 DEF HandleChatWs2Mongo
  <2>4. ASSUME NEW l \in Lane
        PROVE  /\ docs'[l] = docs[l] \cup (IF k = l THEN es ELSE {})
               /\ Waiting(l) = Waiting(l)' \cup (IF k = l THEN B ELSE {})
               /\ Pushed(l)' = Pushed(l)
    <3>1. docs'[l] = docs[l] \cup (IF k = l THEN es ELSE {})
      BY <2>2, <2>3 DEF TypeOK
    <3> QED
      BY <2>1, <3>1, WaitingTaken, TopicsSame
  <2>5. FlowSame
    BY <2>1, <1>s
  <2>6. ASSUME NEW l \in Lane
        PROVE  /\ InJobs(WithSeqs, l)' \subseteq InJobs(WithSeqs, l)
               /\ InJobs(WithCache, l)' \subseteq InJobs(WithCache, l)
               /\ InJobs({"push"}, l)' \subseteq InJobs({"push"}, l)
    BY <2>5 DEF FlowSame
  <2> HIDE DEF k, b, B
  <2>7. ASSUME NEW l \in Lane PROVE Numbers(l)' \subseteq Numbers(l)
    BY <2>1, <2>3, <2>4, <2>6 DEF Numbers
  <2>8. NumberInv'
    BY <2>1, <2>7 DEF FlowInv, NumberInv
  <2>9. FoundInv'
    BY <2>1, <2>3, <2>4, <2>6 DEF FlowInv, FoundInv
  <2> QED
    BY <2>8, <2>9 DEF FlowInv
<1> QED
  BY <1>1, <1>2, <1>3, <1>4, <1>5, <1>6, <1>7, <1>8, <1>9, <1>10, <1>11, <1>12, <1>13, <1>14,
     <1>15, <1>16, <1>17, <1>18 DEF Next, Step

LEMMA FlowInit ==
  ASSUME Init
  PROVE  FlowInv
<1>1. /\ cache = [l \in Lane |-> {}] /\ docs = [l \in Lane |-> {}]
      /\ toMongo = << >> /\ toPush = << >> /\ job = [p \in Proc |-> NoJob]
  BY DEF Init
<1>2. \A p \in Proc : job[p].at = "idle"
  BY <1>1 DEF NoJob
<1>3. ToSet(<< >>) = {}
  BY DEF ToSet
<1>4. \A l \in Lane : Waiting(l) = {} /\ Pushed(l) = {}
  BY <1>1, <1>3 DEF Waiting, Pushed
<1>5. \A l \in Lane, S \in {WithSeqs, WithCache, {"push"}} : InJobs(S, l) = {}
  BY <1>2 DEF InJobs, WithSeqs, WithCache
<1>6. \A l \in Lane : Numbers(l) = {} /\ cache[l] = {}
  BY <1>1, <1>4, <1>5 DEF Numbers
<1>7. \A l \in Lane : InJobs(WithCache, l) = {} /\ InJobs({"push"}, l) = {}
  BY <1>5
<1> QED
  BY <1>4, <1>6, <1>7 DEF FlowInv, NumberInv, FoundInv

\* A seq of a conversation denotes one message in Redis, in Mongo, on its way
\* there and at the receivers: however many processes number messages of it at
\* the same time, crash or consume messages twice.
THEOREM OneMessage == Spec => []OneMessagePerSeq
<1>1. FlowInv => OneMessagePerSeq
  BY DEF FlowInv, NumberInv, Numbers, OneMessagePerSeq
<1> QED
  BY <1>1, TypeInit, TypeStep, FlowInit, FlowStep, PTL DEF Spec

\* What was pushed was cached before; without a failed call it is in Mongo or
\* on its way there, whatever crashes.
THEOREM PushedFound == Spec => []PushedIsFound
<1>1. FlowInv => PushedIsFound
  BY DEF FlowInv, FoundInv, PushedIsFound
<1> QED
  BY <1>1, TypeInit, TypeStep, FlowInit, FlowStep, PTL DEF Spec

-----------------------------------------------------------------------------
(* The order of what is pushed.                                            *)

\* A part of a rising sequence rises.
LEMMA OnlyRises ==
  ASSUME NEW T, NEW s \in Seq(T), NEW S, Rising(s)
  PROVE  Rising(Only(s, S))
<1>1. DOMAIN Only(s, S) = 1 .. Len(Only(s, S)) /\ DOMAIN s = 1 .. Len(s)
  BY OnlyType
<1>2. ASSUME NEW k \in 1 .. Len(Only(s, S)), NEW l \in 1 .. Len(Only(s, S)), k < l
      PROVE  Only(s, S)[k] < Only(s, S)[l]
  <2>1. PICK a \in 1 .. Len(s), b \in 1 .. Len(s) :
          a < b /\ Only(s, S)[k] = s[a] /\ Only(s, S)[l] = s[b] /\ s[a] \in S /\ s[b] \in S
    BY <1>2, OnlyInOrder
  <2> QED
    BY <1>1, <2>1 DEF Rising
<1> QED
  BY <1>1, <1>2 DEF Rising

\* The storage list is in the order of the job's messages.
LEMMA StorageRises ==
  ASSUME topic \in Topics, NEW j \in Job, Rising(j.msgs)
  PROVE  Rising(StorageOf(j))
<1> DEFINE S == {m \in DOMAIN topic : topic[m].kind \in StoredKinds[j.lane]}
<1>1. j.msgs \in Seq(Message)
  BY DEF Job
<1>2. StorageOf(j) = Only(j.msgs, S)
  BY DEF StorageOf, OfKinds
<1> HIDE DEF S
<1>3. Rising(Only(j.msgs, S))
  BY <1>1, OnlyRises
<1> QED
  BY <1>2, <1>3

\* What is pushed of a batch rises, in its messages and its seqs.
LEMMA StoredRises ==
  ASSUME TypeOK, NEW p \in Proc, Rising(job[p].msgs)
  PROVE  \A i \in 1 .. Len(Stored(p)), k \in 1 .. Len(Stored(p)) : i < k =>
           Stored(p)[i].seq < Stored(p)[k].seq /\ Stored(p)[i].msg < Stored(p)[k].msg
<1> DEFINE n == Len(StorageOf(job[p]))
           b == Batch(p)
<1>1. topic \in Topics /\ job[p] \in Job /\ job[p].base \in Nat
  <2>1. job[p] \in Job /\ job[p].base \in Nat
    BY JobParts
  <2> QED
    BY <2>1 DEF TypeOK
<1>2. /\ Len(b) = n /\ \A i \in 1 .. n : b[i] = [seq |-> job[p].base + i, msg |-> StorageOf(job[p])[i]]
  BY <1>1, JobBatch, BatchType
<1>3. /\ Len(Stored(p)) = n
      /\ \A i \in 1 .. n : Stored(p)[i] = [lane |-> job[p].lane, seq |-> b[i].seq, msg |-> b[i].msg]
  BY <1>2, Sendings
<1>4. n \in Nat /\ DOMAIN StorageOf(job[p]) = 1 .. n /\ Rising(StorageOf(job[p]))
  BY <1>1, StorageType, StorageRises
<1> HIDE DEF n, b
<1>5. \A i \in 1 .. n : Stored(p)[i].seq = job[p].base + i /\ Stored(p)[i].msg = StorageOf(job[p])[i]
  BY <1>2, <1>3
<1>6. ASSUME NEW i \in 1 .. n, NEW k \in 1 .. n, i < k
      PROVE  Stored(p)[i].seq < Stored(p)[k].seq /\ Stored(p)[i].msg < Stored(p)[k].msg
  <2>1. job[p].base + i < job[p].base + k
    BY <1>1, <1>4, <1>6
  <2>2. StorageOf(job[p])[i] < StorageOf(job[p])[k]
    BY <1>4, <1>6 DEF Rising
  <2> QED
    BY <1>5, <2>1, <2>2
<1> QED
  BY <1>3, <1>6

\* The next message goes behind the others.
LEMMA OrderAppend ==
  ASSUME NEW n \in Nat, NEW h \in Seq(Nat), NEW j, NEW ms \in Seq(Nat), j.msgs = ms, Ordered(h, j, n)
  PROVE  /\ Ordered(Append(h, n + 1), j, n + 1)
         /\ \A x, l : x.msg \in Nat /\ PushedBefore(x, l, h, j, n) =>
              PushedBefore(x, l, Append(h, n + 1), j, n + 1)
<1> DEFINE g == Append(h, n + 1)
<1>1. /\ Len(h) \in Nat /\ DOMAIN h = 1 .. Len(h) /\ \A i \in 1 .. Len(h) : h[i] \in Nat
      /\ DOMAIN ms = 1 .. Len(ms) /\ \A i \in 1 .. Len(ms) : ms[i] \in Nat
  BY ElementOfSeq, LenProperties
<1>2. /\ g \in Seq(Nat) /\ Len(g) = Len(h) + 1 /\ \A i \in 1 .. Len(h) : g[i] = h[i]
      /\ g[Len(h) + 1] = n + 1
  <2>1. n + 1 \in Nat
    OBVIOUS
  <2> QED
    BY <2>1, AppendProperties
<1>3. DOMAIN g = 1 .. Len(h) + 1
  BY <1>2, LenProperties
<1>4. \A i \in 1 .. Len(h) + 1 : (i \in 1 .. Len(h) /\ g[i] = h[i]) \/ (i = Len(h) + 1 /\ g[i] = n + 1)
  BY <1>1, <1>2
<1> HIDE DEF g
<1>5. \A i \in 1 .. Len(h) : h[i] <= n
  BY <1>1 DEF Ordered
<1>6. Rising(g) /\ \A i \in DOMAIN g : g[i] <= n + 1
  <2>1. ASSUME NEW i \in 1 .. Len(h) + 1, NEW k \in 1 .. Len(h) + 1, i < k PROVE g[i] < g[k]
    <3>1. i \in 1 .. Len(h) /\ g[i] = h[i]
      BY <1>1, <1>4, <2>1
    <3>2. CASE k \in 1 .. Len(h) /\ g[k] = h[k]
      BY <1>1, <2>1, <3>1, <3>2 DEF Ordered, Rising
    <3>3. CASE k = Len(h) + 1 /\ g[k] = n + 1
      BY <1>1, <1>5, <3>1, <3>3
    <3> QED
      BY <1>4, <3>2, <3>3
  <2>2. \A i \in 1 .. Len(h) + 1 : g[i] <= n + 1
    BY <1>1, <1>4, <1>5
  <2> QED
    BY <1>3, <2>1, <2>2 DEF Rising
<1>7. ASSUME NEW x \in Nat, x <= n, Before(x, h) PROVE x <= n + 1 /\ Before(x, g)
  <2>1. \A i \in 1 .. Len(h) : x < h[i]
    BY <1>1, <1>7 DEF Before
  <2>2. \A i \in 1 .. Len(h) + 1 : x < g[i]
    BY <1>4, <1>7, <2>1
  <2> QED
    BY <1>3, <1>7, <2>2 DEF Before
<1>8. Ordered(g, j, n + 1)
  <2>1. ASSUME j.at # "idle"
        PROVE  /\ Rising(j.msgs)
               /\ \A i \in DOMAIN j.msgs : j.msgs[i] <= n + 1 /\ Before(j.msgs[i], g)
    <3>1. Rising(ms) /\ \A i \in 1 .. Len(ms) : ms[i] <= n /\ Before(ms[i], h)
      BY <1>1, <2>1 DEF Ordered
    <3> QED
      BY <1>1, <1>7, <3>1
  <2> QED
    BY <1>6, <2>1 DEF Ordered
<1>9. ASSUME NEW x, NEW l, x.msg \in Nat, PushedBefore(x, l, h, j, n)
      PROVE  PushedBefore(x, l, g, j, n + 1)
  BY <1>7, <1>9 DEF PushedBefore
<1> QED
  BY <1>8, <1>9 DEF g

\* The first messages of the batcher go into a job.
LEMMA OrderDo ==
  ASSUME NEW n \in Nat, NEW h \in Seq(Nat), NEW k \in 0 .. Len(h), NEW j, NEW r,
         r.msgs = SubSeq(h, 1, k), r.at \notin WithSeqs, Ordered(h, j, n)
  PROVE  /\ Ordered(SubSeq(h, k + 1, Len(h)), r, n)
         /\ \A x, l : PushedBefore(x, l, h, j, n) =>
              PushedBefore(x, l, SubSeq(h, k + 1, Len(h)), r, n)
<1> DEFINE a == SubSeq(h, 1, k)
           g == SubSeq(h, k + 1, Len(h))
<1>1. /\ DOMAIN a = 1 .. k /\ \A i \in 1 .. k : a[i] = h[i]
      /\ DOMAIN g = 1 .. Len(h) - k /\ \A i \in 1 .. Len(h) - k : g[i] = h[k + i]
  BY Split
<1>2. Len(h) \in Nat /\ k \in Nat /\ k <= Len(h) /\ DOMAIN h = 1 .. Len(h)
  BY LenProperties
<1> HIDE DEF a, g
<1>3. \A i \in 1 .. k : i \in 1 .. Len(h)
  BY <1>2
<1>4. \A i \in 1 .. Len(h) - k : k + i \in 1 .. Len(h)
  BY <1>2
<1>5. \A i \in 1 .. Len(h) : h[i] <= n
  BY <1>2 DEF Ordered
<1>6. \A i, l \in 1 .. Len(h) : i < l => h[i] < h[l]
  BY <1>2 DEF Ordered, Rising
<1>7. Rising(a) /\ \A i \in 1 .. k : a[i] <= n
  BY <1>1, <1>3, <1>5, <1>6 DEF Rising
<1>8. Rising(g) /\ \A i \in 1 .. Len(h) - k : g[i] <= n
  <2>1. \A i, l \in 1 .. Len(h) - k : i < l => k + i < k + l
    BY <1>2
  <2> QED
    BY <1>1, <1>4, <1>5, <1>6, <2>1 DEF Rising
<1>9. \A i \in 1 .. k : Before(a[i], g)
  <2>1. \A i \in 1 .. k, l \in 1 .. Len(h) - k : i < k + l
    BY <1>2
  <2> QED
    BY <1>1, <1>3, <1>4, <1>6, <2>1 DEF Before
<1>10. \A x : Before(x, h) => Before(x, a) /\ Before(x, g)
  BY <1>1, <1>2, <1>3, <1>4 DEF Before
<1>11. Ordered(g, r, n)
  BY <1>1, <1>7, <1>8, <1>9 DEF Ordered, a
<1>12. ASSUME NEW x, NEW l, PushedBefore(x, l, h, j, n) PROVE PushedBefore(x, l, g, r, n)
  BY <1>10, <1>12 DEF PushedBefore, a
<1> QED
  BY <1>11, <1>12 DEF g

\* A job goes on with its messages in its lane, or with its notifications, or ends.
LEMMA OrderGoes ==
  ASSUME NEW n, NEW h, NEW j, NEW r, Ordered(h, j, n),
         \/ r.at = "idle"
         \/ /\ j.at # "idle" /\ r.msgs = j.msgs
            /\ r.lane = j.lane \/ (r.lane = "ntf" /\ r.at \notin WithSeqs)
  PROVE  /\ Ordered(h, r, n)
         /\ \A x, l : PushedBefore(x, l, h, j, n)
                      /\ (r.at \in WithSeqs /\ r.lane = l => x.seq <= r.base)
              => PushedBefore(x, l, h, r, n)
<1>1. "idle" \notin WithSeqs
  BY DEF WithSeqs
<1>2. \A l : Ahead(r, l) => Ahead(j, l) /\ r.msgs = j.msgs
  BY DEF Ahead
<1>3. Ordered(h, r, n)
  BY DEF Ordered
<1> QED
  BY <1>1, <1>2, <1>3 DEF PushedBefore

\* A call of do goes on with its batch, gets seqs behind those allocated before,
\* or leaves; without a fault it leaves when there is nothing to store, or when
\* it pushed its batch.
LEMMA JobMoves ==
  ASSUME TypeOK, topic' = topic, NEW p \in Proc, Step(p), ~ Do(p)
  PROVE  /\ job[p].at # "idle" /\ OnlyJobOf(p) /\ UNCHANGED <<consumerVars, held>>
         /\ moves' = moves /\ crashes' = crashes /\ (failures' = 0 => failures = 0)
         /\ ~ refused' => ~ refused
         /\ \/ /\ Leave(p)
               /\ failures' = 0 /\ ~ refused' =>
                    Storage(p) = << >> \/ toPush' = toPush \o Stored(p)
            \/ /\ job'[p].at # "idle" /\ job'[p].lane = job[p].lane /\ job'[p].msgs = job[p].msgs
               /\ job'[p].at \in WithSeqs =>
                    \/ job[p].at \in WithSeqs /\ job'[p].base = job[p].base
                    \/ job'[p].base \in Nat /\ job'[p].base >= maxSeq[job[p].lane]
         /\ \/ UNCHANGED toPush
            \/ toPush' = toPush \o Transients(p)
            \/ job[p].at = "push" /\ Leave(p) /\ toPush' = toPush \o Stored(p)
<1> DEFINE Ends == /\ Leave(p)
                   /\ failures' = 0 /\ ~ refused' =>
                        Storage(p) = << >> \/ toPush' = toPush \o Stored(p)
           Stays == /\ job'[p].at # "idle" /\ job'[p].lane = job[p].lane /\ job'[p].msgs = job[p].msgs
                    /\ job'[p].at \in WithSeqs =>
                         \/ job[p].at \in WithSeqs /\ job'[p].base = job[p].base
                         \/ job'[p].base \in Nat /\ job'[p].base >= maxSeq[job[p].lane]
           Sends == \/ UNCHANGED toPush
                    \/ toPush' = toPush \o Transients(p)
                    \/ job[p].at = "push" /\ Leave(p) /\ toPush' = toPush \o Stored(p)
           Kept == /\ UNCHANGED <<consumerVars, held>>
                   /\ moves' = moves /\ crashes' = crashes /\ (failures' = 0 => failures = 0)
                   /\ ~ refused' => ~ refused
<1> SUFFICES job[p].at # "idle" /\ OnlyJobOf(p) /\ Kept /\ (Ends \/ Stays) /\ Sends
  OBVIOUS
<1>t. ASSUME NEW at \in WithSeqs \cup {"malloc"} PROVE at \in Stage /\ at # "idle"
  BY <1>t DEF WithSeqs, Stage
<1>k. ASSUME UNCHANGED <<consumerVars, held>>, UNCHANGED faultVars \/ Failure PROVE Kept
  BY <1>k, FaultsGrow
<1>g. ASSUME NEW at \in WithSeqs, GoTo(p, at), job[p].at \in WithSeqs PROVE OnlyJobOf(p) /\ Stays
  <2>1. OnlyJobOf(p) /\ job'[p].at = at /\ SameBatch(p)
    BY <1>g, <1>t, GoToEffect
  <2> QED
    BY <2>1, <1>g, <1>t DEF SameBatch
<1>r. "read" \in WithSeqs /\ "write" \in WithSeqs /\ "create" \in WithSeqs /\ "mongo" \in WithSeqs
      /\ "push" \in WithSeqs /\ "cache" \in WithSeqs /\ "malloc" \notin WithSeqs
  BY DEF WithSeqs
<1>l. ASSUME Leave(p) PROVE OnlyJobOf(p)
  BY <1>l, LeaveEffect
<1>f. Failure => failures' # 0
  BY BoundAssumption DEF TypeOK, Failure
<1>1. CASE PushTransient(p)
  <2>1. /\ job[p].at = "transient" /\ UNCHANGED <<consumerVars, held>>
        /\ IF Storage(p) = << >> THEN Leave(p) ELSE GoTo(p, "malloc")
        /\ (toPush' = toPush \o Transients(p) /\ UNCHANGED faultVars) \/ (Failure /\ UNCHANGED toPush)
    BY <1>1 DEF PushTransient, Transients
  <2>2. CASE Leave(p) /\ Storage(p) = << >>
    BY <2>1, <2>2, <1>k, <1>l
  <2>3. CASE GoTo(p, "malloc")
    <3>1. OnlyJobOf(p) /\ job'[p].at = "malloc" /\ SameBatch(p)
      BY <2>3, <1>t, GoToEffect
    <3> QED
      BY <2>1, <3>1, <1>k, <1>r DEF SameBatch
  <2> QED
    BY <2>1, <2>2, <2>3
<1>2. CASE Refuse(p)
  <2>1. /\ job[p].at = "malloc" /\ Leave(p) /\ refused' = TRUE
        /\ UNCHANGED <<consumerVars, held, toPush, failures, moves, crashes>>
    BY <1>2 DEF Refuse
  <2> QED
    BY <2>1, <1>l
<1>3. CASE Malloc(p)
  <2> DEFINE k == job[p].lane
  <2>1. /\ job[p].at = "malloc" /\ UNCHANGED <<consumerVars, held, toPush>>
        /\ UNCHANGED faultVars \/ Failure
        /\ \/ \E b \in {maxSeq[k], maxSeq[k] + 1} : job' = [job EXCEPT ![p].at = "cache", ![p].base = b]
           \/ Failure /\ Leave(p)
    BY <1>3 DEF Malloc
  <2>2. ASSUME NEW b \in Nat, b >= maxSeq[k], job' = [job EXCEPT ![p].at = "cache", ![p].base = b]
        PROVE  OnlyJobOf(p) /\ Stays
    <3>1. /\ OnlyJobOf(p) /\ job'[p].at = "cache" /\ job'[p].base = b
          /\ job'[p].lane = k /\ job'[p].msgs = job[p].msgs
      BY <2>2, MallocEffect
    <3> QED
      BY <2>2, <3>1, <1>r
  <2>3. maxSeq[k] \in Nat
    BY JobParts DEF TypeOK
  <2>4. /\ maxSeq[k] + 1 \in Nat /\ maxSeq[k] >= maxSeq[k] /\ maxSeq[k] + 1 >= maxSeq[k]
    BY <2>3
  <2>5. CASE \E b \in {maxSeq[k], maxSeq[k] + 1} : job' = [job EXCEPT ![p].at = "cache", ![p].base = b]
    <3>1. OnlyJobOf(p) /\ Stays
      <4> HIDE DEF k, Stays
      <4> QED
        BY <2>2, <2>3, <2>4, <2>5
    <3> QED
      BY <2>1, <3>1, <1>k
  <2>6. CASE Failure /\ Leave(p)
    BY <2>1, <2>6, <1>k, <1>l, <1>f
  <2> QED
    BY <2>1, <2>5, <2>6
<1>4. CASE SetMessageBySeqs(p)
  <2> DEFINE f == UserSeqMap(ToSet(Batch(p)))
  <2>1. /\ job[p].at = "cache" /\ UNCHANGED <<consumerVars, held, toPush>>
        /\ UNCHANGED faultVars \/ Failure
        /\ \/ job' = [job EXCEPT ![p].at = "read", ![p].unread = f]
           \/ GoTo(p, "mongo")
           \/ Failure /\ Leave(p)
    BY <1>4 DEF SetMessageBySeqs
  <2>2. f \in [User -> Nat]
    <3>1. UserSeqMap(ToSet(BatchOf(job[p]))) \in [User -> Nat]
      BY JobParts, BatchSeqs DEF TypeOK
    <3> QED
      BY <3>1, JobBatch
  <2> HIDE DEF f
  <2>3. CASE job' = [job EXCEPT ![p].at = "read", ![p].unread = f]
    <3>1. OnlyJobOf(p) /\ job'[p].at = "read" /\ SameBatch(p)
      BY <2>2, <2>3, UnreadEffect
    <3> QED
      BY <2>1, <3>1, <1>k, <1>r DEF SameBatch
  <2>4. CASE GoTo(p, "mongo")
    BY <2>1, <2>4, <1>g, <1>k, <1>r
  <2>5. CASE Failure /\ Leave(p)
    BY <2>1, <2>5, <1>k, <1>l, <1>f
  <2> QED
    BY <2>1, <2>3, <2>4, <2>5
<1>5. CASE GetUserReadSeq(p)
  <2>1. PICK u \in User : job' = [job EXCEPT ![p].at = "write", ![p].user = u, ![p].seen = readSeq[u]]
    BY <1>5 DEF GetUserReadSeq
  <2>2. job[p].at = "read" /\ UNCHANGED <<consumerVars, held, toPush, faultVars>>
    BY <1>5 DEF GetUserReadSeq
  <2>3. readSeq[u] \in Nat
    BY DEF TypeOK
  <2>4. OnlyJobOf(p) /\ job'[p].at = "write" /\ SameBatch(p)
    BY <2>1, <2>3, GetEffect
  <2> QED
    BY <2>2, <2>4, <1>k, <1>r DEF SameBatch
<1>6. CASE HasReadFails(p)
  <2>1. /\ job[p].at \in {"read", "write"} /\ UNCHANGED <<consumerVars, held, toPush>> /\ Failure
        /\ job' = [job EXCEPT ![p].at = "read", ![p].unread = NoRead]
    BY <1>6 DEF HasReadFails
  <2>2. OnlyJobOf(p) /\ job'[p].at = "read" /\ SameBatch(p)
    BY <2>1, NoJobType, UnreadEffect
  <2> QED
    BY <2>1, <2>2, <1>k, <1>r DEF SameBatch
<1>7. CASE SetUserReadSeq(p)
  <2>1. /\ job[p].at = "write" /\ UNCHANGED <<consumerVars, held, toPush, faultVars>>
        /\ job' = [job EXCEPT ![p].at = "read", ![p].unread[job[p].user] = 0]
    BY <1>7 DEF SetUserReadSeq
  <2>2. PICK u \in User : u = job[p].user
    BY JobParts
  <2>3. OnlyJobOf(p) /\ job'[p].at = "read" /\ SameBatch(p)
    BY <2>1, <2>2, SetEffect
  <2> QED
    BY <2>1, <2>3, <1>k, <1>r DEF SameBatch
<1>8. CASE SendHasRead(p)
  <2>1. /\ job[p].at = "read" /\ UNCHANGED <<consumerVars, held, toPush, faultVars>>
        /\ GoTo(p, "create") \/ GoTo(p, "mongo")
    BY <1>8 DEF SendHasRead
  <2> QED
    BY <2>1, <1>g, <1>k, <1>r
<1>9. CASE CreateConversations(p)
  <2>1. /\ job[p].at = "create" /\ UNCHANGED <<consumerVars, held, toPush>> /\ GoTo(p, "mongo")
        /\ UNCHANGED faultVars \/ Failure
    BY <1>9 DEF CreateConversations
  <2> QED
    BY <2>1, <1>g, <1>k, <1>r
<1>10. CASE MsgToMongoMQ(p)
  <2>1. /\ job[p].at = "mongo" /\ UNCHANGED <<consumerVars, held, toPush>> /\ GoTo(p, "push")
        /\ UNCHANGED faultVars \/ Failure
    BY <1>10 DEF MsgToMongoMQ
  <2> QED
    BY <2>1, <1>g, <1>k, <1>r
<1>11. CASE PushStored(p)
  <2>1. /\ job[p].at = "push" /\ UNCHANGED <<consumerVars, held>> /\ Leave(p)
        /\ (toPush' = toPush \o Stored(p) /\ UNCHANGED faultVars) \/ (Failure /\ UNCHANGED toPush)
    BY <1>11 DEF PushStored, Stored
  <2> QED
    BY <2>1, <1>k, <1>l, <1>f
<1> QED
  BY <1>1, <1>2, <1>3, <1>4, <1>5, <1>6, <1>7, <1>8, <1>9, <1>10, <1>11 DEF Step

\* Behind an ordered sequence, entries in order that come after those of it.
LEMMA OrderConcat ==
  ASSUME NEW s \in Seq(PushEntry), NEW t \in Seq(PushEntry), InOrder(s), InOrder(t),
         \A x \in ToSet(s), y \in ToSet(t) : Precedes(x, y)
  PROVE  InOrder(s \o t)
<1> DEFINE r == s \o t
           m == Len(s)
           n == Len(t)
<1>1. m \in Nat /\ n \in Nat /\ DOMAIN s = 1 .. m /\ DOMAIN t = 1 .. n
  BY LenProperties
<1>2. /\ DOMAIN r = 1 .. m + n /\ \A i \in 1 .. m : r[i] = s[i]
      /\ \A i \in 1 .. n : r[m + i] = t[i]
  OBVIOUS
<1> HIDE DEF r
<1>3. \A i \in 1 .. m + n : \/ i \in 1 .. m /\ r[i] = s[i]
                            \/ i - m \in 1 .. n /\ r[i] = t[i - m] /\ i > m
  <2> TAKE i \in 1 .. m + n
  <2>1. CASE i <= m
    BY <1>1, <1>2, <2>1
  <2>2. CASE i > m
    <3>1. i - m \in 1 .. n /\ m + (i - m) = i
      BY <1>1, <2>2
    <3> QED
      BY <1>2, <2>2, <3>1
  <2> QED
    BY <1>1, <2>1, <2>2
<1>4. ASSUME NEW i \in 1 .. m + n, NEW k \in 1 .. m + n, i < k PROVE Precedes(r[i], r[k])
  <2>1. CASE i \in 1 .. m /\ k \in 1 .. m
    BY <1>1, <1>2, <1>4, <2>1 DEF InOrder
  <2>2. CASE i \in 1 .. m /\ r[i] = s[i] /\ k - m \in 1 .. n /\ r[k] = t[k - m]
    BY <1>1, <2>2 DEF ToSet
  <2>3. CASE i - m \in 1 .. n /\ r[i] = t[i - m] /\ k - m \in 1 .. n /\ r[k] = t[k - m]
    <3>1. i - m < k - m
      BY <1>1, <1>4
    <3> QED
      BY <1>1, <2>3, <3>1 DEF InOrder
  <2>4. CASE i > m /\ k \in 1 .. m
    BY <1>1, <1>4, <2>4
  <2> QED
    BY <1>3, <2>1, <2>2, <2>3, <2>4
<1> QED
  BY <1>2, <1>4 DEF InOrder, r

\* The job of the owner goes on, or leaves.
LEMMA OrderJob ==
  ASSUME TypeOK, Order, NEW p \in Proc, job[p].at # "idle", OnlyJobOf(p),
         UNCHANGED <<consumerVars, held>>,
         \/ job'[p].at = "idle"
         \/ /\ job'[p].msgs = job[p].msgs
            /\ job'[p].lane = job[p].lane \/ (job'[p].lane = "ntf" /\ job'[p].at \notin WithSeqs)
  PROVE  /\ Alone' /\ owner' = p /\ position' = position /\ held'[p] = held[p] /\ owner = p
         /\ Ordered(held[p], job[p], position)
         /\ Ordered(held'[p], job'[p], position')
         /\ \A x, l : PushedBefore(x, l, held[p], job[p], position)
                      /\ (job'[p].at \in WithSeqs /\ job'[p].lane = l => x.seq <= job'[p].base)
              => PushedBefore(x, l, held'[p], job'[p], position')
<1>1. owner = p
  BY DEF Order, Alone
<1>2. owner' = owner /\ position' = position /\ held' = held
  BY DEF consumerVars
<1>3. Alone'
  BY <1>1, <1>2 DEF Order, Alone, OnlyJobOf
<1>4. Ordered(held[p], job[p], position)
  BY <1>1 DEF Order
<1> DEFINE j == job[p]
           r == job'[p]
           h == held[p]
<1>5. /\ Ordered(h, r, position)
      /\ \A x, l : PushedBefore(x, l, h, j, position)
                   /\ (r.at \in WithSeqs /\ r.lane = l => x.seq <= r.base)
           => PushedBefore(x, l, h, r, position)
  <2>1. j.at # "idle" /\ Ordered(h, j, position)
        /\ (r.at = "idle" \/ (r.msgs = j.msgs /\ (r.lane = j.lane \/ (r.lane = "ntf" /\ r.at \notin WithSeqs))))
    BY <1>4
  <2> HIDE DEF j, r, h
  <2> QED
    BY <2>1, OrderGoes
<1> QED
  BY <1>1, <1>2, <1>3, <1>4, <1>5

LEMMA OrderStep ==
  ASSUME TypeOK, TypeOK', FlowInv, OrderInv, [Next]_vars
  PROVE  OrderInv'
<1> SUFFICES ASSUME moves' = 0, crashes' = 0 PROVE Order' /\ InOrder(toPush)'
  BY DEF OrderInv
<1>0. topic' = topic /\ topic \in Topics /\ position \in Nat
  <2>1. Len(topic) \in Nat
    BY Messages DEF TypeOK
  <2> QED
    BY <2>1 DEF Next, vars, TypeOK
<1>m. Message \in SUBSET Nat /\ Message' = Message
  BY <1>0, Messages, SameTopic
<1>h. ASSUME NEW p \in Proc PROVE held[p] \in Seq(Nat) /\ job[p].msgs \in Seq(Nat)
  <2>1. \A s \in Seq(Message) : s \in Seq(Nat)
    BY <1>m, SeqMonotonic
  <2> QED
    BY <2>1, JobParts DEF TypeOK
<1>e. ASSUME NEW l \in Lane, NEW x \in Pushed(l) PROVE x.msg \in Nat /\ x.seq \in 1 .. maxSeq[l]
  <2>1. x.seq \in 1 .. maxSeq[l]
    BY DEF FlowInv, NumberInv, Numbers
  <2>2. x.msg \in Message
    <3>1. toPush \in Seq(PushEntry)
      BY DEF TypeOK, PushEntry
    <3>2. ToSet(toPush) \in SUBSET PushEntry
      BY <3>1, Sets
    <3> QED
      BY <3>2 DEF Pushed, PushEntry
  <2> QED
    BY <2>1, <2>2, <1>m
<1>i. ASSUME moves = 0, crashes = 0 PROVE Order /\ InOrder(toPush)
  BY <1>i DEF OrderInv
<1>1. CASE UNCHANGED vars
  <2>1. UNCHANGED <<owner, position, held, job, toPush, moves, crashes>>
    BY <1>1 DEF vars, consumerVars, faultVars
  <2> QED
    BY <2>1, <1>i, TopicsSame DEF Order, Alone, InOrder
<1>2. ASSUME NEW p \in Proc, HandlerRedisMessage(p) PROVE Order' /\ InOrder(toPush)'
  <2>1. /\ owner = p /\ owner' = p /\ position' = position + 1 /\ UNCHANGED <<job, toPush, moves, crashes>>
        /\ held' = [held EXCEPT ![p] = Append(@, position + 1)]
    BY <1>2 DEF HandlerRedisMessage, faultVars
  <2>2. Order /\ InOrder(toPush)
    BY <1>i, <2>1
  <2>3. held'[p] = Append(held[p], position + 1) /\ \A q \in Proc \ {p} : held'[q] = held[q]
    BY <2>1 DEF TypeOK
  <2>4. /\ Ordered(held'[p], job'[p], position')
        /\ \A x, l : x.msg \in Nat /\ PushedBefore(x, l, held[p], job[p], position) =>
             PushedBefore(x, l, held'[p], job'[p], position')
    <3> DEFINE h == held[p]
               j == job[p]
               ms == job[p].msgs
    <3>1. h \in Seq(Nat) /\ ms \in Seq(Nat) /\ j.msgs = ms /\ Ordered(h, j, position)
      BY <1>h, <2>1, <2>2 DEF Order
    <3>2. /\ Ordered(Append(h, position + 1), j, position + 1)
          /\ \A x, l : x.msg \in Nat /\ PushedBefore(x, l, h, j, position) =>
               PushedBefore(x, l, Append(h, position + 1), j, position + 1)
      <4> HIDE DEF h, j, ms
      <4> QED
        BY <1>0, <3>1, OrderAppend
    <3> QED
      BY <2>1, <2>3, <3>2
  <2>5. Alone'
    BY <2>1, <2>2, <2>3 DEF Order, Alone
  <2>6. ASSUME NEW l \in Lane, NEW x \in Pushed(l)' PROVE PushedBefore(x, l, held'[p], job'[p], position')
    <3>1. x \in Pushed(l)
      BY <2>1, <2>6, TopicsSame
    <3>2. PushedBefore(x, l, held[p], job[p], position)
      BY <2>1, <2>2, <3>1 DEF Order
    <3> QED
      BY <1>e, <2>4, <3>1, <3>2
  <2>7. InOrder(toPush)'
    BY <2>1, <2>2 DEF InOrder
  <2> QED
    BY <2>1, <2>4, <2>5, <2>6, <2>7 DEF Order
<1>3. ASSUME NEW p \in Proc, Rebalance(p) PROVE FALSE
  BY <1>3 DEF Rebalance, TypeOK
<1>4. ASSUME NEW p \in Proc, Crash(p) PROVE FALSE
  BY <1>4 DEF Crash, TypeOK
<1>5. ASSUME NEW p \in Proc, Do(p) PROVE Order' /\ InOrder(toPush)'
  <2>1. PICK n \in 1 .. Len(held[p]) :
          /\ job' = [job EXCEPT ![p] = [NoJob EXCEPT !.at = "transient", !.msgs = SubSeq(held[p], 1, n)]]
          /\ held' = [held EXCEPT ![p] = SubSeq(@, n + 1, Len(@))]
    BY <1>5 DEF Do
  <2>2. UNCHANGED <<owner, position, toPush, moves, crashes>>
    BY <1>5 DEF Do, consumerVars, faultVars
  <2>3. Order /\ InOrder(toPush)
    BY <1>i, <2>2
  <2>4. held[p] \in Seq(Message) /\ n \in 0 .. Len(held[p])
    BY DEF TypeOK
  <2>5. OnlyJobOf(p) /\ job'[p].at = "transient" /\ job'[p].msgs = SubSeq(held[p], 1, n)
    <3>1. SubSeq(held[p], 1, n) \in Seq(Message)
      BY <2>4, Split
    <3> QED
      BY <2>1, <3>1, DoEffect
  <2>6. /\ held'[p] = SubSeq(held[p], n + 1, Len(held[p]))
        /\ \A q \in Proc \ {p} : held'[q] = held[q]
    BY <2>1 DEF TypeOK
  <2>7. p = owner
    <3>1. held[p] # << >>
      BY <2>4
    <3> QED
      BY <2>3, <3>1 DEF Order, Alone
  <2>8. /\ Ordered(held'[p], job'[p], position)
        /\ \A x, l : PushedBefore(x, l, held[p], job[p], position) =>
             PushedBefore(x, l, held'[p], job'[p], position)
    <3> DEFINE h == held[p]
               j == job[p]
               r == job'[p]
    <3>1. h \in Seq(Nat) /\ n \in 0 .. Len(h) /\ Ordered(h, j, position)
      BY <1>h, <2>3, <2>4, <2>7 DEF Order
    <3>2. r.msgs = SubSeq(h, 1, n) /\ r.at \notin WithSeqs
      BY <2>5 DEF WithSeqs
    <3>3. /\ Ordered(SubSeq(h, n + 1, Len(h)), r, position)
          /\ \A x, l : PushedBefore(x, l, h, j, position) =>
               PushedBefore(x, l, SubSeq(h, n + 1, Len(h)), r, position)
      <4> HIDE DEF h, j, r
      <4> QED
        BY <1>0, <3>1, <3>2, OrderDo
    <3> QED
      BY <2>6, <3>3
  <2>9. Alone'
    BY <2>2, <2>3, <2>5, <2>6, <2>7 DEF Order, Alone, OnlyJobOf
  <2>10. \A l \in Lane : \A x \in Pushed(l)' : PushedBefore(x, l, held'[p], job'[p], position)
    BY <2>2, <2>3, <2>7, <2>8, TopicsSame DEF Order
  <2>11. InOrder(toPush)'
    BY <2>2, <2>3 DEF InOrder
  <2> QED
    BY <2>2, <2>7, <2>8, <2>9, <2>10, <2>11 DEF Order
<1>6. ASSUME NEW p \in Proc, Step(p), ~ Do(p) PROVE Order' /\ InOrder(toPush)'
  <2> DEFINE k == job[p].lane
  <2>1. /\ job[p].at # "idle" /\ OnlyJobOf(p) /\ UNCHANGED <<consumerVars, held>>
        /\ moves' = moves /\ crashes' = crashes
        /\ \/ Leave(p)
           \/ /\ job'[p].at # "idle" /\ job'[p].lane = job[p].lane /\ job'[p].msgs = job[p].msgs
              /\ job'[p].at \in WithSeqs =>
                   \/ job[p].at \in WithSeqs /\ job'[p].base = job[p].base
                   \/ job'[p].base \in Nat /\ job'[p].base >= maxSeq[job[p].lane]
        /\ \/ UNCHANGED toPush
           \/ toPush' = toPush \o Transients(p)
           \/ job[p].at = "push" /\ Leave(p) /\ toPush' = toPush \o Stored(p)
    BY <1>0, <1>6, JobMoves
  <2>2. Order /\ InOrder(toPush)
    BY <1>i, <2>1
  <2>3. Leave(p) => \/ job'[p].at = "idle"
                    \/ /\ job'[p].msgs = job[p].msgs /\ job'[p].lane = "ntf"
                       /\ job'[p].at \notin WithSeqs /\ k = "msg"
    BY LeaveEffect, NoJobType DEF WithSeqs
  <2>4. /\ Alone' /\ owner' = p /\ position' = position /\ held'[p] = held[p] /\ owner = p
        /\ Ordered(held[p], job[p], position)
        /\ Ordered(held'[p], job'[p], position')
        /\ \A x, l : PushedBefore(x, l, held[p], job[p], position)
                     /\ (job'[p].at \in WithSeqs /\ job'[p].lane = l => x.seq <= job'[p].base)
             => PushedBefore(x, l, held'[p], job'[p], position')
    BY <2>1, <2>2, <2>3, OrderJob
  <2>5. ASSUME NEW l \in Lane, NEW x \in Pushed(l)
        PROVE  PushedBefore(x, l, held'[p], job'[p], position')
    <3>1. PushedBefore(x, l, held[p], job[p], position)
      BY <2>2, <2>4 DEF Order
    <3>2. ASSUME job'[p].at \in WithSeqs, job'[p].lane = l PROVE x.seq <= job'[p].base
      <4>1. "idle" \notin WithSeqs
        BY DEF WithSeqs
      <4>2. ~ Leave(p) /\ job[p].lane = l
        BY <2>1, <2>3, <3>2, <4>1, LeaveEffect
      <4>3. CASE job[p].at \in WithSeqs /\ job'[p].base = job[p].base
        BY <3>1, <4>2, <4>3 DEF PushedBefore
      <4>4. CASE job'[p].base \in Nat /\ job'[p].base >= maxSeq[l]
        <5>1. maxSeq[l] \in Nat /\ x.seq \in 1 .. maxSeq[l]
          BY <1>e DEF TypeOK
        <5> QED
          BY <4>4, <5>1
      <4> QED
        BY <2>1, <3>2, <4>2, <4>3, <4>4
    <3> QED
      BY <2>4, <3>1, <3>2
  <2>6. CASE UNCHANGED toPush
    <3>1. \A l \in Lane : \A x \in Pushed(l)' : PushedBefore(x, l, held'[p], job'[p], position')
      BY <2>5, <2>6, TopicsSame
    <3> QED
      BY <2>2, <2>4, <2>6, <3>1 DEF Order, InOrder
  <2> DEFINE T == Transients(p)
             W == Stored(p)
  <2>p. toPush \in Seq(PushEntry) /\ T \in Seq(PushEntry) /\ W \in Seq(PushEntry)
    BY Sendings DEF TypeOK, PushEntry
  <2>7. CASE toPush' = toPush \o Transients(p)
    <3>1. \A l \in Lane : \A x \in Pushed(l)' : PushedBefore(x, l, held'[p], job'[p], position')
      BY <2>5, <2>7, PushedTransients
    <3>2. \A x \in ToSet(T) : x.seq = 0
      BY Sendings
    <3> HIDE DEF T
    <3>3. InOrder(T)
      <4>1. \A i \in DOMAIN T : T[i].seq = 0
        BY <3>2 DEF ToSet
      <4> QED
        BY <4>1 DEF InOrder, Precedes
    <3>4. \A x \in ToSet(toPush), y \in ToSet(T) : Precedes(x, y)
      BY <3>2 DEF Precedes
    <3>5. InOrder(toPush \o T)
      BY <2>2, <2>p, <3>3, <3>4, OrderConcat
    <3>6. toPush' = toPush \o T
      BY <2>7 DEF T
    <3>7. InOrder(toPush)'
      BY <3>5, <3>6 DEF InOrder
    <3> QED
      BY <2>4, <3>1, <3>7 DEF Order
  <2>8. CASE job[p].at = "push" /\ Leave(p) /\ toPush' = toPush \o Stored(p)
    <3>1. /\ job[p] \in Job /\ job[p].at \in WithSeqs /\ job[p].base \in Nat /\ k \in Lane
      BY <2>8, JobParts DEF WithSeqs
    <3>2. Rising(job[p].msgs) /\ \A i \in DOMAIN job[p].msgs :
            job[p].msgs[i] <= position /\ Before(job[p].msgs[i], held[p])
      BY <2>1, <2>4 DEF Ordered
    <3>3. ASSUME NEW e \in ToSet(Batch(p))
          PROVE  /\ e.seq \in Nat /\ e.seq > job[p].base
                 /\ \E i \in DOMAIN job[p].msgs : e.msg = job[p].msgs[i]
      <4>1. e.seq \in job[p].base + 1 .. job[p].base + Len(StorageOf(job[p])) /\ e.msg \in ToSet(job[p].msgs)
        BY <1>0, <3>1, <3>3, BatchElements, JobBatch
      <4>2. Len(StorageOf(job[p])) \in Nat
        BY <1>0, <3>1, StorageType
      <4> QED
        BY <3>1, <4>1, <4>2 DEF ToSet
    <3>4. ASSUME NEW e \in ToSet(Batch(p)) PROVE PushedBefore(e, k, held'[p], job'[p], position')
      <4>1. e.msg <= position /\ Before(e.msg, held[p])
        BY <3>2, <3>3
      <4>2. ~ Ahead(job'[p], k) /\ (job'[p].at \in WithSeqs => FALSE)
        BY <2>3, <2>8 DEF Ahead, WithSeqs
      <4> QED
        BY <2>4, <4>1, <4>2 DEF PushedBefore
    <3>5. ASSUME NEW l \in Lane, NEW x \in Pushed(l)'
          PROVE  PushedBefore(x, l, held'[p], job'[p], position')
      <4>1. x \in Pushed(l) \/ (k = l /\ x \in ToSet(Batch(p)))
        BY <2>8, <3>5, PushedStored
      <4> QED
        BY <2>5, <3>4, <4>1
    <3>6. InOrder(W)
      <4>1. \A i \in 1 .. Len(W), m \in 1 .. Len(W) : i < m => W[i].seq < W[m].seq /\ W[i].msg < W[m].msg
        BY <3>2, StoredRises
      <4>2. DOMAIN W = 1 .. Len(W)
        <5> HIDE DEF W
        <5> QED
          BY <2>p
      <4> HIDE DEF W
      <4> QED
        BY <4>1, <4>2 DEF InOrder, Precedes
    <3>7. ASSUME NEW x \in ToSet(toPush), NEW y \in ToSet(W), x.lane = y.lane, x.seq > 0
          PROVE  x.seq < y.seq /\ x.msg < y.msg
      <4>1. x \in PushEntry
        BY <2>p, Sets
      <4>2. y.lane = k /\ [seq |-> y.seq, msg |-> y.msg] \in ToSet(Batch(p))
        BY Sendings
      <4> DEFINE e == [seq |-> y.seq, msg |-> y.msg]
                 d == [seq |-> x.seq, msg |-> x.msg]
      <4>3. d \in Pushed(k)
        BY <3>7, <4>2 DEF Pushed
      <4>4. PushedBefore(d, k, held[p], job[p], position)
        BY <2>2, <2>4, <3>1, <4>3 DEF Order
      <4>5. Before(d.msg, job[p].msgs) /\ d.seq <= job[p].base
        BY <2>1, <3>1, <4>4 DEF PushedBefore, Ahead
      <4>6. e.seq \in Nat /\ e.seq > job[p].base /\ \E i \in DOMAIN job[p].msgs : e.msg = job[p].msgs[i]
        BY <3>3, <4>2
      <4>7. x.seq <= job[p].base /\ y.seq > job[p].base /\ y.seq \in Nat /\ x.seq \in Nat
        BY <4>1, <4>5, <4>6 DEF PushEntry
      <4>8. x.msg < y.msg
        BY <4>5, <4>6 DEF Before
      <4> QED
        BY <3>1, <4>7, <4>8
    <3>8. \A x \in ToSet(toPush), y \in ToSet(W) : Precedes(x, y)
      BY <3>7 DEF Precedes
    <3> HIDE DEF W
    <3>9. InOrder(toPush \o W)
      BY <2>2, <2>p, <3>6, <3>8, OrderConcat
    <3>10. InOrder(toPush)'
      <4>1. toPush' = toPush \o W
        BY <2>8 DEF W
      <4> QED
        BY <3>9, <4>1 DEF InOrder
    <3> QED
      BY <2>4, <3>5, <3>10 DEF Order
  <2> QED
    BY <2>1, <2>6, <2>7, <2>8
<1>7. ASSUME NEW p \in Proc, SetHasReadSeqToDB(p) PROVE Order' /\ InOrder(toPush)'
  <2>1. UNCHANGED <<owner, position, held, job, toPush>> /\ (UNCHANGED faultVars \/ Failure)
    BY <1>7 DEF SetHasReadSeqToDB, consumerVars
  <2> QED
    BY <2>1, <1>i, FaultsGrow, TopicsSame DEF Order, Alone, InOrder
<1>8. CASE HandleChatWs2Mongo
  <2>1. UNCHANGED <<owner, position, held, job, toPush>> /\ (UNCHANGED faultVars \/ Failure)
    BY <1>8 DEF HandleChatWs2Mongo, consumerVars
  <2> QED
    BY <2>1, <1>i, FaultsGrow, TopicsSame DEF Order, Alone, InOrder
<1> QED
  BY <1>1, <1>2, <1>3, <1>4, <1>5, <1>6, <1>7, <1>8 DEF Next, Step

LEMMA OrderInit ==
  ASSUME Init
  PROVE  OrderInv
<1>1. /\ held = [p \in Proc |-> << >>] /\ job = [p \in Proc |-> NoJob] /\ toPush = << >>
      /\ owner \in Proc /\ position = 0
  BY DEF Init
<1>2. \A p \in Proc : job[p].at = "idle" /\ held[p] = << >>
  BY <1>1 DEF NoJob
<1>3. ToSet(<< >>) = {}
  BY DEF ToSet
<1>4. \A l \in Lane : Pushed(l) = {}
  BY <1>1, <1>3 DEF Pushed
<1>5. Ordered(held[owner], job[owner], position)
  BY <1>1, <1>2 DEF Ordered, Rising
<1> QED
  BY <1>1, <1>2, <1>4, <1>5 DEF OrderInv, Order, Alone, InOrder

\* Messages reach the receivers in the order of the topic and of their seqs, as
\* long as the partition stays and no process crashes, whichever calls fail.
THEOREM Ordering == Spec => []PushOrder
<1>1. OrderInv => PushOrder
  BY DEF OrderInv, InOrder, Precedes, PushOrder
<1> QED
  BY <1>1, TypeInit, TypeStep, FlowInit, FlowStep, OrderInit, OrderStep, PTL DEF Spec

-----------------------------------------------------------------------------
(* Nothing is lost.                                                        *)

\* What a job that leaves its lane had to do there is done.
LEMMA NothingLeft ==
  ASSUME TypeOK, topic' = topic, NEW p \in Proc, Leave(p),
         Storage(p) = << >> \/ toPush' = toPush \o Stored(p),
         NEW l \in Lane, NEW m \in StoredIn(l), Ahead(job[p], l), m \in ToSet(job[p].msgs)
  PROVE  \/ Ahead(job'[p], l) /\ m \in ToSet(job'[p].msgs)
         \/ \E e \in Pushed(l)' : e.msg = m
<1>1. job[p] \in Job /\ topic \in Topics /\ job[p].msgs \in Seq(Message)
  <2>1. job[p] \in Job /\ job[p].msgs \in Seq(Message)
    BY JobParts
  <2> QED
    BY <2>1 DEF TypeOK
<1>2. CASE job[p].lane = l
  <2>1. Storage(p) # << >>
    BY <1>1, <1>2, StorageType, JobBatch
  <2>2. PICK e \in ToSet(Batch(p)) : e.msg = m
    BY <1>1, <1>2, BatchElements, JobBatch
  <2>3. e \in Pushed(l)'
    BY <1>2, <2>1, PushedStored
  <2> QED
    BY <2>2, <2>3
<1>3. CASE job[p].lane # l /\ l = "ntf"
  <2>1. job[p].lane = "msg"
    BY <1>3, JobParts DEF Lane
  <2>2. HasNotification(p)
    <3>1. PICK i \in DOMAIN job[p].msgs : m = job[p].msgs[i]
      BY DEF ToSet
    <3>2. topic[m].kind \in StoredKinds.ntf
      BY <1>3 DEF StoredIn, StoredKinds
    <3> QED
      BY <3>1, <3>2 DEF HasNotification
  <2>3. job'[p].at = "transient" /\ job'[p].lane = "ntf" /\ job'[p].msgs = job[p].msgs
    BY <2>1, <2>2, LeaveEffect
  <2> QED
    BY <1>3, <2>3 DEF Ahead
<1> QED
  BY <1>2, <1>3 DEF Ahead

LEMMA LossStep ==
  ASSUME TypeOK, LossInv, [Next]_vars
  PROVE  LossInv'
<1> SUFFICES ASSUME Perfect', NEW l \in Lane, NEW m \in StoredIn(l), m <= position'
             PROVE  Known(m, l)'
  <2>1. topic' = topic
    BY DEF Next, vars
  <2> QED
    BY <2>1, SameTopic DEF LossInv
<1>0. topic' = topic /\ topic \in Topics /\ position \in Nat /\ m \in Nat
  <2>1. Len(topic) \in Nat /\ StoredIn(l) \in SUBSET Nat
    BY Messages DEF TypeOK
  <2> QED
    BY <2>1 DEF Next, vars, TypeOK
<1>i. ASSUME failures = 0, crashes = 0, ~ refused, m <= position PROVE Known(m, l)
  BY <1>i DEF LossInv, Perfect
<1>p. failures' = 0 /\ crashes' = 0 /\ ~ refused'
  BY DEF Perfect
<1>u. ASSUME UNCHANGED <<held, job, toPush>>, failures = 0, crashes = 0, ~ refused, m <= position
      PROVE  Known(m, l)'
  BY <1>i, <1>u, TopicsSame DEF Known
<1>1. CASE UNCHANGED vars
  BY <1>1, <1>p, <1>u DEF vars, consumerVars, faultVars
<1>2. ASSUME NEW p \in Proc, HandlerRedisMessage(p) PROVE Known(m, l)'
  <2>1. /\ position' = position + 1 /\ UNCHANGED <<job, toPush, failures, crashes, refused>>
        /\ held' = [held EXCEPT ![p] = Append(@, position + 1)] /\ position < Len(topic)
    BY <1>2 DEF HandlerRedisMessage, faultVars
  <2>2. held[p] \in Seq(Message) /\ position + 1 \in Message
    BY <1>0, <2>1, Messages DEF TypeOK
  <2> DEFINE h == held[p]
  <2>3. ToSet(Append(h, position + 1)) = ToSet(h) \cup {position + 1}
    <3> HIDE DEF h
    <3>1. h \in Seq(Message)
      BY <2>2 DEF h
    <3> QED
      BY <2>2, <3>1, Sets
  <2>4. /\ held'[p] = Append(h, position + 1)
        /\ \A q \in Proc \ {p} : held'[q] = held[q]
    BY <2>1 DEF TypeOK
  <2>5. \A q \in Proc : ToSet(held[q]) \subseteq ToSet(held'[q])
    BY <2>3, <2>4
  <2>6. CASE m = position + 1
    BY <2>3, <2>4, <2>6 DEF Known
  <2>7. CASE m # position + 1
    <3>1. m <= position
      BY <1>0, <2>1, <2>7
    <3>2. Known(m, l)
      BY <1>i, <1>p, <2>1, <3>1
    <3> QED
      BY <2>1, <2>5, <3>2, TopicsSame DEF Known
  <2> QED
    BY <2>6, <2>7
<1>3. ASSUME NEW p \in Proc, Rebalance(p) PROVE Known(m, l)'
  <2>1. /\ position' \in committed .. position
        /\ UNCHANGED <<held, job, toPush, failures, crashes, refused>>
    BY <1>3 DEF Rebalance
  <2>2. m <= position
    BY <1>0, <2>1 DEF TypeOK
  <2> QED
    BY <1>p, <1>u, <2>1, <2>2
<1>4. ASSUME NEW p \in Proc, Crash(p) PROVE FALSE
  BY <1>4, <1>p DEF Crash, TypeOK
<1>5. ASSUME NEW p \in Proc, Do(p) PROVE Known(m, l)'
  <2>1. PICK n \in 1 .. Len(held[p]) :
          /\ job' = [job EXCEPT ![p] = [NoJob EXCEPT !.at = "transient", !.msgs = SubSeq(held[p], 1, n)]]
          /\ held' = [held EXCEPT ![p] = SubSeq(@, n + 1, Len(@))]
    BY <1>5 DEF Do
  <2>2. UNCHANGED <<position, toPush, failures, crashes, refused>> /\ job[p].at = "idle"
    BY <1>5 DEF Do, consumerVars, faultVars
  <2>3. held[p] \in Seq(Message) /\ n \in 0 .. Len(held[p])
    BY DEF TypeOK
  <2> DEFINE a == SubSeq(held[p], 1, n)
             g == SubSeq(held[p], n + 1, Len(held[p]))
  <2>4. OnlyJobOf(p) /\ job'[p].at = "transient" /\ job'[p].msgs = a /\ job'[p].lane = "msg"
    <3>1. a \in Seq(Message)
      BY <2>3, Split
    <3> QED
      BY <2>1, <3>1, DoEffect
  <2>5. held'[p] = g /\ \A q \in Proc \ {p} : held'[q] = held[q]
    BY <2>1 DEF TypeOK
  <2>6. ToSet(held[p]) \subseteq ToSet(a) \cup ToSet(g)
    <3> DEFINE h == held[p]
    <3>1. /\ DOMAIN a = 1 .. n /\ \A i \in 1 .. n : a[i] = h[i]
          /\ DOMAIN g = 1 .. Len(h) - n /\ \A i \in 1 .. Len(h) - n : g[i] = h[n + i]
      BY <2>3, Split
    <3>2. Len(h) \in Nat /\ DOMAIN h = 1 .. Len(h)
      BY <2>3
    <3> HIDE DEF a, g, h
    <3>3. ASSUME NEW i \in 1 .. Len(h) PROVE h[i] \in ToSet(a) \cup ToSet(g)
      <4>1. CASE i <= n
        BY <3>1, <3>2, <4>1, <2>1 DEF ToSet
      <4>2. CASE i > n
        <5>1. i - n \in 1 .. Len(h) - n /\ n + (i - n) = i
          BY <3>2, <4>2, <2>1
        <5> QED
          BY <3>1, <5>1 DEF ToSet
      <4> QED
        BY <3>2, <4>1, <4>2, <2>1
    <3> QED
      BY <3>2, <3>3 DEF ToSet, h
  <2> HIDE DEF a, g
  <2>7. Known(m, l)
    BY <1>i, <1>p, <2>2
  <2>8. Ahead(job'[p], l)
    BY <2>4 DEF Ahead, Lane
  <2>9. CASE \E q \in Proc : m \in ToSet(held[q])
    BY <2>4, <2>5, <2>6, <2>8, <2>9 DEF Known
  <2>10. ASSUME NEW q \in Proc, Ahead(job[q], l), m \in ToSet(job[q].msgs) PROVE Known(m, l)'
    <3>1. q # p
      BY <2>2, <2>10 DEF Ahead
    <3> QED
      BY <2>4, <2>10, <3>1 DEF Known, OnlyJobOf
  <2>11. CASE \E e \in Pushed(l) : e.msg = m
    BY <2>2, <2>11, TopicsSame DEF Known
  <2> QED
    BY <2>7, <2>9, <2>10, <2>11 DEF Known
<1>6. ASSUME NEW p \in Proc, Step(p), ~ Do(p) PROVE Known(m, l)'
  <2>1. /\ OnlyJobOf(p) /\ UNCHANGED <<consumerVars, held>>
        /\ crashes' = crashes /\ failures = 0 /\ ~ refused
        /\ \/ Leave(p) /\ (Storage(p) = << >> \/ toPush' = toPush \o Stored(p))
           \/ job'[p].at # "idle" /\ job'[p].lane = job[p].lane /\ job'[p].msgs = job[p].msgs
        /\ \/ UNCHANGED toPush
           \/ toPush' = toPush \o Transients(p)
           \/ toPush' = toPush \o Stored(p)
    BY <1>0, <1>6, <1>p, JobMoves
  <2>2. Known(m, l)
    BY <1>i, <1>p, <2>1 DEF consumerVars
  <2>3. Pushed(l) \subseteq Pushed(l)'
    BY <2>1, TopicsSame, PushedTransients, PushedStored
  <2>4. CASE \E q \in Proc : m \in ToSet(held[q])
    BY <2>1, <2>4 DEF Known
  <2>5. ASSUME NEW q \in Proc, Ahead(job[q], l), m \in ToSet(job[q].msgs) PROVE Known(m, l)'
    <3>1. CASE q # p
      BY <2>1, <2>5, <3>1 DEF Known, OnlyJobOf
    <3>2. CASE q = p /\ Leave(p) /\ (Storage(p) = << >> \/ toPush' = toPush \o Stored(p))
      BY <1>0, <2>5, <3>2, NothingLeft DEF Known
    <3>3. CASE q = p /\ job'[p].at # "idle" /\ job'[p].lane = job[p].lane /\ job'[p].msgs = job[p].msgs
      BY <2>5, <3>3 DEF Known, Ahead
    <3> QED
      BY <2>1, <3>1, <3>2, <3>3
  <2>6. CASE \E e \in Pushed(l) : e.msg = m
    BY <2>3, <2>6 DEF Known
  <2> QED
    BY <2>2, <2>4, <2>5, <2>6 DEF Known
<1>7. ASSUME NEW p \in Proc, SetHasReadSeqToDB(p) PROVE Known(m, l)'
  <2>1. UNCHANGED <<position, held, job, toPush>> /\ (UNCHANGED faultVars \/ Failure)
    BY <1>7 DEF SetHasReadSeqToDB, consumerVars
  <2>2. failures = 0 /\ crashes = 0 /\ ~ refused
    BY <1>p, <2>1, FaultsGrow
  <2> QED
    BY <1>u, <2>1, <2>2
<1>8. CASE HandleChatWs2Mongo
  <2>1. UNCHANGED <<position, held, job, toPush>> /\ (UNCHANGED faultVars \/ Failure)
    BY <1>8 DEF HandleChatWs2Mongo, consumerVars
  <2>2. failures = 0 /\ crashes = 0 /\ ~ refused
    BY <1>p, <2>1, FaultsGrow
  <2> QED
    BY <1>u, <2>1, <2>2
<1> QED
  BY <1>1, <1>2, <1>3, <1>4, <1>5, <1>6, <1>7, <1>8 DEF Next, Step

LEMMA LossInit ==
  ASSUME Init
  PROVE  LossInv
<1>1. topic \in Topics /\ position = 0
  BY DEF Init
<1>2. \A l \in Lane : \A m \in StoredIn(l) : m \in 1 .. Len(topic)
  BY <1>1, Messages
<1> QED
  BY <1>1, <1>2 DEF LossInv

LEMMA QuietStored ==
  TypeOK /\ FlowInv /\ LossInv => NothingLost
<1> SUFFICES ASSUME TypeOK, FlowInv, LossInv, Quiet, Perfect, NEW l \in Lane, NEW m \in StoredIn(l)
             PROVE  \E e \in docs[l] : e.msg = m /\ e \in Pushed(l)
  BY DEF NothingLost, Perfect
<1>1. m \in 1 .. Len(topic) /\ Len(topic) \in Nat
  BY Messages DEF TypeOK
<1>2. Known(m, l)
  BY <1>1 DEF LossInv, Quiet
<1>3. ToSet(<< >>) = {}
  BY DEF ToSet
<1>4. \A p \in Proc : ToSet(held[p]) = {} /\ ~ Ahead(job[p], l)
  BY <1>3 DEF Quiet, Ahead
<1>5. PICK e \in Pushed(l) : e.msg = m
  BY <1>2, <1>4 DEF Known
<1>6. Waiting(l) = {}
  BY <1>3 DEF Quiet, Waiting
<1>7. Pushed(l) \subseteq docs[l]
  BY <1>6 DEF FlowInv, FoundInv, Perfect
<1> QED
  BY <1>5, <1>7

\* Without a failed call, a crash or a batch that is too large, every message to
\* be stored is in Mongo and was pushed with its seq when nothing is under way,
\* although the partition moves and messages are consumed twice.
THEOREM NoLoss == Spec => []NothingLost
BY QuietStored, TypeInit, TypeStep, FlowInit, FlowStep, LossInit, LossStep, PTL DEF Spec

-----------------------------------------------------------------------------
(* The read seqs of the senders.                                           *)

ReadStages == {"read", "write", "create", "mongo"}

\* Seqs of more messages.
LEMMA SeqsGrow ==
  /\ \A A, B, u : A \subseteq B => SeqsOf(A, u) \subseteq SeqsOf(B, u)
  /\ \A A, B, u : SeqsOf(A \cup B, u) = SeqsOf(A, u) \cup SeqsOf(B, u)
  /\ \A A, u : 0 \in SeqsOf(A, u)
BY DEF SeqsOf

\* What the senders have sent consists of messages with seqs.
LEMMA ComingSeqs ==
  ASSUME TypeOK, FlowInv, NEW u
  PROVE  \A n \in SeqsOf(Coming, u) : n \in Nat
<1>1. "msg" \in Lane /\ maxSeq["msg"] \in Nat
  BY DEF Lane, TypeOK
<1>2. Coming \subseteq Numbers("msg")
  <2>1. \A S \in SUBSET WithSeqs : InJobs(S, "msg") \subseteq InJobs(WithSeqs, "msg")
    BY DEF InJobs
  <2>2. {"create", "mongo"} \in SUBSET WithSeqs /\ {"read", "write"} \in SUBSET WithSeqs
    BY DEF WithSeqs
  <2> QED
    BY <2>1, <2>2 DEF Coming, Sent, Numbers
<1>3. \A x \in Coming : x.seq \in Nat
  BY <1>1, <1>2 DEF FlowInv, NumberInv
<1> QED
  BY <1>3 DEF SeqsOf

LEMMA SeqsPrimed ==
  ASSUME topic' = topic
  PROVE  \A u : SeqsOf(Coming, u)' = SeqsOf(Coming', u) /\ SeqsOf(Sent, u)' = SeqsOf(Sent', u)
BY DEF SeqsOf

\* A job that stays in its part of these stages, or out of them.
LEMMA SentSame ==
  ASSUME topic' = topic, UNCHANGED <<docs, toMongo>>, NEW p \in Proc, OnlyJobOf(p),
         job[p].at \in ReadStages => SameBatch(p),
         job'[p].at \in {"create", "mongo"} <=> job[p].at \in {"create", "mongo"},
         job'[p].at \in {"read", "write"} <=> job[p].at \in {"read", "write"}
  PROVE  Sent' = Sent /\ Coming' = Coming
<1>1. Waiting("msg")' = Waiting("msg")
  BY TopicsSame
<1>2. ASSUME NEW S \in SUBSET ReadStages, job'[p].at \in S <=> job[p].at \in S
      PROVE  InJobs(S, "msg")' = InJobs(S, "msg")
  <2>1. CASE job[p].at \in S
    <3>1. SameBatch(p) /\ BatchOf(job'[p]) = BatchOf(job[p])
      BY <2>1, BatchSame
    <3>2. job'[p].at \in S /\ job'[p].lane = job[p].lane
      BY <1>2, <2>1, <3>1 DEF SameBatch
    <3>3. (IF job'[p].at \in S /\ job'[p].lane = "msg" THEN ToSet(BatchOf(job'[p])) ELSE {})
            = OwnJob(p, S, "msg")
      BY <2>1, <3>1, <3>2 DEF OwnJob
    <3> DEFINE A == OtherJobs(p, S, "msg")
               B == OwnJob(p, S, "msg")
               C == IF job'[p].at \in S /\ job'[p].lane = "msg" THEN ToSet(BatchOf(job'[p])) ELSE {}
    <3>4. InJobs(S, "msg") = A \cup B /\ InJobs(S, "msg")' = A \cup C
      BY JobsStep
    <3>5. C = B
      BY <3>3
    <3> HIDE DEF A, B, C
    <3> QED
      BY <3>4, <3>5
  <2>2. CASE job[p].at \notin S
    BY <1>2, <2>2, JobsStep DEF OwnJob
  <2> QED
    BY <2>1, <2>2
<1>3. {"create", "mongo"} \in SUBSET ReadStages /\ {"read", "write"} \in SUBSET ReadStages
  BY DEF ReadStages
<1>4. InJobs({"create", "mongo"}, "msg")' = InJobs({"create", "mongo"}, "msg")
  BY <1>2, <1>3
<1>5. InJobs({"read", "write"}, "msg")' = InJobs({"read", "write"}, "msg")
  BY <1>2, <1>3
<1> QED
  BY <1>1, <1>4, <1>5 DEF Sent, Coming

\* The jobs read what they read before.
LEMMA ReadKept ==
  ASSUME ReadOK, topic' = topic, UNCHANGED readVars, Sent' = Sent, Coming' = Coming,
         \A p \in Proc : job'[p].at \in {"read", "write", "create"} => job'[p].lane = "msg",
         \A p \in Proc : job'[p].at \in {"read", "write"} =>
           \A u \in User : job'[p].unread[u] \in SeqsOf(Coming, u)
  PROVE  ReadOK'
<1>1. \A u : SeqsOf(Coming, u)' = SeqsOf(Coming, u) /\ SeqsOf(Sent, u)' = SeqsOf(Sent, u)
  BY SeqsPrimed
<1>2. readDB' = readDB /\ readSeq' = readSeq /\ readChan' = readChan
  BY DEF readVars
<1> QED
  BY <1>1, <1>2 DEF ReadOK

LEMMA CachedKept ==
  ASSUME CachedOK, topic' = topic, readSeq' = readSeq, Coming' = Coming,
         \A p \in Proc : job[p].at \in {"read", "write"} =>
           job'[p].at \in {"read", "write"} /\ job'[p].unread = job[p].unread,
         \A p \in Proc : job'[p].at = "write" => job'[p].seen = readSeq[job'[p].user]
  PROVE  CachedOK'
<1>1. \A u : SeqsOf(Coming, u)' = SeqsOf(Coming, u)
  BY SeqsPrimed
<1> QED
  BY <1>1 DEF CachedOK

\* What is sent and coming, in terms of the job of p.
OwnBatch(p, at, S) == IF at \in S /\ job[p].lane = "msg" THEN ToSet(Batch(p)) ELSE {}
OtherSent(p) == OtherJobs(p, {"create", "mongo"}, "msg")
OtherReading(p) == OtherJobs(p, {"read", "write"}, "msg")

LEMMA SentMoves ==
  ASSUME TypeOK, topic' = topic, NEW p \in Proc, OnlyJobOf(p), SameBatch(p)
  PROVE  /\ Sent = docs["msg"] \cup Waiting("msg") \cup OtherSent(p)
                     \cup OwnBatch(p, job[p].at, {"create", "mongo"})
         /\ Coming = Sent \cup OtherReading(p) \cup OwnBatch(p, job[p].at, {"read", "write"})
         /\ Sent' = docs'["msg"] \cup Waiting("msg")' \cup OtherSent(p)
                     \cup OwnBatch(p, job'[p].at, {"create", "mongo"})
         /\ Coming' = Sent' \cup OtherReading(p) \cup OwnBatch(p, job'[p].at, {"read", "write"})
<1> DEFINE B == ToSet(Batch(p))
<1>1. B = ToSet(BatchOf(job[p])) /\ B = ToSet(BatchOf(job'[p])) /\ job'[p].lane = job[p].lane
  BY JobBatch, BatchSame DEF SameBatch
<1>2. ASSUME NEW S
      PROVE  /\ InJobs(S, "msg") = OtherJobs(p, S, "msg") \cup
                  (IF job[p].at \in S /\ job[p].lane = "msg" THEN B ELSE {})
             /\ InJobs(S, "msg")' = OtherJobs(p, S, "msg") \cup
                  (IF job'[p].at \in S /\ job[p].lane = "msg" THEN B ELSE {})
  BY <1>1, JobsStep DEF OwnJob
<1> HIDE DEF B
<1>3. /\ InJobs({"create", "mongo"}, "msg") = OtherJobs(p, {"create", "mongo"}, "msg") \cup
           (IF job[p].at \in {"create", "mongo"} /\ job[p].lane = "msg" THEN B ELSE {})
      /\ InJobs({"create", "mongo"}, "msg")' = OtherJobs(p, {"create", "mongo"}, "msg") \cup
           (IF job'[p].at \in {"create", "mongo"} /\ job[p].lane = "msg" THEN B ELSE {})
  BY <1>2
<1>4. /\ InJobs({"read", "write"}, "msg") = OtherJobs(p, {"read", "write"}, "msg") \cup
           (IF job[p].at \in {"read", "write"} /\ job[p].lane = "msg" THEN B ELSE {})
      /\ InJobs({"read", "write"}, "msg")' = OtherJobs(p, {"read", "write"}, "msg") \cup
           (IF job'[p].at \in {"read", "write"} /\ job[p].lane = "msg" THEN B ELSE {})
  BY <1>2
<1> QED
  BY <1>3, <1>4 DEF Sent, Coming, B, OwnBatch, OtherSent, OtherReading

\* The seqs of a batch, and the last one of each sender.
LEMMA BatchLast ==
  ASSUME TypeOK, NEW p \in Proc
  PROVE  LET B == ToSet(Batch(p)) IN
         /\ UserSeqMap(B) \in [User -> Nat]
         /\ \A u \in User : UserSeqMap(B)[u] \in SeqsOf(B, u)
                            /\ \A n \in SeqsOf(B, u) : n \in Nat /\ n <= UserSeqMap(B)[u]
<1>1. job[p] \in Job /\ topic \in Topics /\ Batch(p) = BatchOf(job[p])
  BY JobParts, JobBatch DEF TypeOK
<1> DEFINE j == job[p]
<1>2. LET es == ToSet(BatchOf(j)) IN
      /\ UserSeqMap(es) \in [User -> Nat]
      /\ \A u \in User :
           /\ UserSeqMap(es)[u] \in SeqsOf(es, u)
           /\ \A x \in SeqsOf(es, u) : x \in Nat /\ x <= UserSeqMap(es)[u]
  <2>1. j \in Job
    BY <1>1
  <2> HIDE DEF j
  <2> QED
    BY <1>1, <2>1, BatchSeqs
<1> QED
  BY <1>1, <1>2

\* Every call of do but those of the read seqs.
LEMMA OtherStages ==
  ASSUME TypeOK, topic' = topic, NEW p \in Proc, failures' = 0,
         Do(p) \/ PushTransient(p) \/ Refuse(p) \/ Malloc(p) \/ PushStored(p)
  PROVE  /\ UNCHANGED <<docs, toMongo, readVars, crashes, moves>> /\ failures = 0
         /\ OnlyJobOf(p) /\ job[p].at \notin ReadStages /\ job'[p].at \notin ReadStages
<1>f. ~ Failure
  BY BoundAssumption DEF TypeOK, Failure
<1>l. ASSUME Leave(p) PROVE OnlyJobOf(p) /\ job'[p].at \notin ReadStages
  BY <1>l, LeaveEffect, NoJobType DEF ReadStages
<1>1. CASE Do(p)
  <2>1. PICK n \in 1 .. Len(held[p]) :
          job' = [job EXCEPT ![p] = [NoJob EXCEPT !.at = "transient", !.msgs = SubSeq(held[p], 1, n)]]
    BY <1>1 DEF Do
  <2>2. UNCHANGED <<storeVars, toMongo, readVars, faultVars>> /\ job[p].at = "idle"
    BY <1>1 DEF Do
  <2>3. SubSeq(held[p], 1, n) \in Seq(Message)
    <3>1. held[p] \in Seq(Message) /\ n \in 0 .. Len(held[p])
      BY DEF TypeOK
    <3> QED
      BY <3>1, Split
  <2>4. OnlyJobOf(p) /\ job'[p].at = "transient"
    BY <2>1, <2>3, DoEffect
  <2> QED
    BY <2>2, <2>4 DEF storeVars, faultVars, ReadStages
<1>2. CASE PushTransient(p)
  <2>1. /\ job[p].at = "transient" /\ UNCHANGED <<storeVars, toMongo, readVars, faultVars>>
        /\ Leave(p) \/ GoTo(p, "malloc")
    BY <1>2, <1>f DEF PushTransient
  <2>2. CASE GoTo(p, "malloc")
    <3>1. "malloc" \in Stage
      BY DEF Stage
    <3>2. OnlyJobOf(p) /\ job'[p].at = "malloc"
      BY <2>2, <3>1, GoToEffect
    <3> QED
      BY <2>1, <3>2 DEF storeVars, faultVars, ReadStages
  <2>3. CASE Leave(p)
    BY <1>l, <2>1, <2>3 DEF storeVars, faultVars, ReadStages
  <2> QED
    BY <2>1, <2>2, <2>3
<1>3. CASE Refuse(p)
  <2>1. /\ job[p].at = "malloc" /\ Leave(p)
        /\ UNCHANGED <<storeVars, toMongo, readVars, failures, moves, crashes>>
    BY <1>3 DEF Refuse
  <2> QED
    BY <1>l, <2>1 DEF storeVars, ReadStages
<1>4. CASE Malloc(p)
  <2> DEFINE n == maxSeq[job[p].lane]
  <2>1. /\ job[p].at = "malloc" /\ UNCHANGED <<docs, toMongo, readVars, faultVars>>
        /\ job' = [job EXCEPT ![p].at = "cache", ![p].base = n]
    BY <1>4, <1>f DEF Malloc
  <2>2. n \in Nat
    BY JobParts DEF TypeOK
  <2>3. OnlyJobOf(p) /\ job'[p].at = "cache"
    <3> HIDE DEF n
    <3> QED
      BY <2>1, <2>2, MallocEffect
  <2> QED
    BY <2>1, <2>3 DEF faultVars, ReadStages
<1>5. CASE PushStored(p)
  <2>1. /\ job[p].at = "push" /\ Leave(p) /\ UNCHANGED <<storeVars, toMongo, readVars, faultVars>>
    BY <1>5, <1>f DEF PushStored
  <2> QED
    BY <1>l, <2>1 DEF storeVars, faultVars, ReadStages
<1> QED
  BY <1>1, <1>2, <1>3, <1>4, <1>5

LEMMA ReadStep ==
  ASSUME TypeOK, FlowInv, OrderInv, ReadInv, CachedReadInv, [Next]_vars
  PROVE  ReadInv' /\ CachedReadInv'
<1> SUFFICES ASSUME failures' = 0, crashes' = 0
             PROVE  ReadOK' /\ (moves' = 0 => CachedOK')
  BY DEF ReadInv, CachedReadInv
<1>0. topic' = topic /\ topic \in Topics
  BY DEF Next, vars, TypeOK
<1>f. ~ Failure
  BY BoundAssumption DEF TypeOK, Failure
<1>i. ASSUME failures = 0, crashes = 0
      PROVE  ReadOK /\ (moves = 0 => CachedOK /\ Alone)
  BY <1>i DEF ReadInv, CachedReadInv, OrderInv, Order
<1>n. ASSUME NEW u PROVE \A n \in SeqsOf(Coming, u) : n \in Nat
  BY ComingSeqs
<1>p. \A u : SeqsOf(Coming, u)' = SeqsOf(Coming', u) /\ SeqsOf(Sent, u)' = SeqsOf(Sent', u)
  BY <1>0, SeqsPrimed
\* Nothing changes for the read seqs.
<1>s. ASSUME UNCHANGED <<job, docs, toMongo, readVars>>, failures = 0, crashes = 0, moves' = 0 => moves = 0
      PROVE  ReadOK' /\ (moves' = 0 => CachedOK')
  <2>1. Sent' = Sent /\ Coming' = Coming
    BY <1>0, <1>s, JobsSame, TopicsSame DEF Sent, Coming
  <2>2. ReadOK /\ (moves' = 0 => CachedOK)
    BY <1>i, <1>s
  <2>3. ReadOK'
    BY <1>0, <1>s, <2>1, <2>2, ReadKept DEF ReadOK
  <2>4. ASSUME moves' = 0 PROVE CachedOK'
    <3>1. readSeq' = readSeq /\ CachedOK
      BY <1>s, <2>2, <2>4 DEF readVars
    <3>2. \A p \in Proc : job'[p].at = "write" => job'[p].seen = readSeq[job'[p].user]
      BY <1>s, <3>1 DEF CachedOK
    <3> QED
      BY <1>0, <1>s, <2>1, <3>1, <3>2, CachedKept
  <2> QED
    BY <2>3, <2>4
\* A call that is not among these stages.
<1>o. ASSUME NEW p \in Proc, Do(p) \/ PushTransient(p) \/ Refuse(p) \/ Malloc(p) \/ PushStored(p)
      PROVE  ReadOK' /\ (moves' = 0 => CachedOK')
  <2>1. /\ UNCHANGED <<docs, toMongo, readVars, crashes, moves>> /\ failures = 0
        /\ OnlyJobOf(p) /\ job[p].at \notin ReadStages /\ job'[p].at \notin ReadStages
    BY <1>0, <1>o, OtherStages
  <2>2. ReadOK /\ (moves' = 0 => CachedOK)
    BY <1>i, <2>1
  <2>3. /\ job[p].at \notin {"read", "write", "create"} /\ job'[p].at \notin {"read", "write", "create"}
        /\ job[p].at \notin {"create", "mongo"} /\ job'[p].at \notin {"create", "mongo"}
        /\ job[p].at \notin {"read", "write"} /\ job'[p].at \notin {"read", "write"} /\ job'[p].at # "write"
    BY <2>1 DEF ReadStages
  <2>4. Sent' = Sent /\ Coming' = Coming
    BY <1>0, <2>1, <2>3, SentSame
  <2>5. ReadOK'
    <3>1. \A q \in Proc : job'[q].at \in {"read", "write", "create"} => job'[q].lane = "msg"
      BY <2>1, <2>2, <2>3 DEF ReadOK, OnlyJobOf
    <3>2. \A q \in Proc : job'[q].at \in {"read", "write"} =>
            \A u \in User : job'[q].unread[u] \in SeqsOf(Coming, u)
      BY <2>1, <2>2, <2>3 DEF ReadOK, OnlyJobOf
    <3> QED
      BY <1>0, <2>1, <2>2, <2>4, <3>1, <3>2, ReadKept
  <2>6. ASSUME moves' = 0 PROVE CachedOK'
    <3>1. readSeq' = readSeq /\ CachedOK
      BY <2>1, <2>2, <2>6 DEF readVars
    <3>2. \A q \in Proc : job'[q].at = "write" => job'[q].seen = readSeq[job'[q].user]
      BY <2>1, <2>3, <3>1 DEF CachedOK, OnlyJobOf
    <3>3. \A q \in Proc : job[q].at \in {"read", "write"} =>
            job'[q].at \in {"read", "write"} /\ job'[q].unread = job[q].unread
      BY <2>1, <2>3 DEF OnlyJobOf
    <3> QED
      BY <1>0, <2>4, <3>1, <3>2, <3>3, CachedKept
  <2> QED
    BY <2>5, <2>6
<1>1. CASE UNCHANGED vars
  BY <1>1, <1>s DEF vars, storeVars, faultVars
<1>2. ASSUME NEW p \in Proc, HandlerRedisMessage(p) PROVE ReadOK' /\ (moves' = 0 => CachedOK')
  BY <1>2, <1>s DEF HandlerRedisMessage, storeVars, faultVars
<1>3. ASSUME NEW p \in Proc, Rebalance(p) PROVE ReadOK' /\ (moves' = 0 => CachedOK')
  <2>1. /\ UNCHANGED <<job, storeVars, toMongo, readVars, failures, crashes>> /\ moves' = moves + 1
    BY <1>3 DEF Rebalance
  <2> QED
    BY <1>s, <2>1 DEF storeVars, TypeOK
<1>4. ASSUME NEW p \in Proc, Crash(p) PROVE FALSE
  BY <1>4 DEF Crash, TypeOK
<1>5. ASSUME NEW p \in Proc, SetMessageBySeqs(p) PROVE ReadOK' /\ (moves' = 0 => CachedOK')
  <2> DEFINE B == ToSet(Batch(p))
             f == UserSeqMap(B)
  <2>1. /\ job[p].at = "cache" /\ UNCHANGED <<docs, toMongo, readVars, failures, crashes, moves>>
        /\ IF job[p].lane = "msg" THEN job' = [job EXCEPT ![p].at = "read", ![p].unread = f]
                                  ELSE GoTo(p, "mongo")
    BY <1>5, <1>f DEF SetMessageBySeqs, faultVars
  <2>2. ReadOK /\ (moves' = 0 => CachedOK)
    BY <1>i, <2>1
  <2>b. /\ f \in [User -> Nat]
        /\ \A u \in User : f[u] \in SeqsOf(B, u) /\ \A n \in SeqsOf(B, u) : n \in Nat /\ n <= f[u]
    BY BatchLast
  <2> HIDE DEF f
  <2>3. CASE job[p].lane = "msg"
    <3>1. OnlyJobOf(p) /\ job'[p].at = "read" /\ job'[p].unread = f /\ SameBatch(p)
      BY <2>1, <2>3, <2>b, UnreadEffect
    <3>2. Sent' = Sent /\ Coming' = Coming \cup B
      <4>1. /\ OwnBatch(p, job[p].at, {"create", "mongo"}) = {} /\ OwnBatch(p, job[p].at, {"read", "write"}) = {}
            /\ OwnBatch(p, job'[p].at, {"create", "mongo"}) = {} /\ OwnBatch(p, job'[p].at, {"read", "write"}) = B
        BY <2>1, <2>3, <3>1 DEF OwnBatch
      <4> HIDE DEF B
      <4>2. docs' = docs /\ Waiting("msg")' = Waiting("msg")
        BY <2>1, TopicsSame
      <4> QED
        BY <1>0, <3>1, <4>1, <4>2, SentMoves
    <3> HIDE DEF B
    <3>3. ASSUME NEW u \in User
          PROVE  /\ SeqsOf(Coming, u)' = SeqsOf(Coming, u) \cup SeqsOf(B, u)
                 /\ SeqsOf(Sent, u)' = SeqsOf(Sent, u)
      <4>1. SeqsOf(Coming \cup B, u) = SeqsOf(Coming, u) \cup SeqsOf(B, u)
        BY SeqsGrow
      <4> QED
        BY <1>p, <3>2, <4>1
    <3>4. readDB' = readDB /\ readSeq' = readSeq /\ readChan' = readChan
      BY <2>1 DEF readVars
    <3>5. ReadOK'
      <4>1. \A q \in Proc : job'[q].at \in {"read", "write", "create"} => job'[q].lane = "msg"
        BY <2>2, <2>3, <3>1 DEF ReadOK, OnlyJobOf, SameBatch
      <4>2. \A q \in Proc, u \in User :
              job'[q].at \in {"read", "write"} => job'[q].unread[u] \in SeqsOf(Coming, u)'
        BY <2>2, <2>b, <3>1, <3>3 DEF ReadOK, OnlyJobOf
      <4> QED
        BY <2>2, <3>3, <3>4, <4>1, <4>2 DEF ReadOK
    <3>6. ASSUME moves' = 0 PROVE CachedOK'
      <4>1. CachedOK
        BY <2>2, <3>6
      <4>2. ASSUME NEW u \in User, NEW n \in SeqsOf(Coming, u)'
            PROVE  \/ n <= readSeq[u]
                   \/ \E q \in Proc : job'[q].at \in {"read", "write"} /\ n <= job'[q].unread[u]
        <5>1. CASE n \in SeqsOf(B, u)
          BY <2>b, <3>1, <5>1
        <5>2. CASE n \in SeqsOf(Coming, u)
          BY <2>1, <3>1, <4>1, <5>2 DEF CachedOK, OnlyJobOf
        <5> QED
          BY <3>3, <4>2, <5>1, <5>2
      <4>3. \A q \in Proc : job'[q].at = "write" => job'[q].seen = readSeq[job'[q].user]
        BY <3>1, <4>1 DEF CachedOK, OnlyJobOf
      <4> QED
        BY <3>4, <4>2, <4>3 DEF CachedOK
    <3> QED
      BY <3>5, <3>6
  <2>4. CASE job[p].lane # "msg"
    <3>1. OnlyJobOf(p) /\ job'[p].at = "mongo" /\ SameBatch(p)
      <4>1. "mongo" \in Stage
        BY DEF Stage
      <4> QED
        BY <2>1, <2>4, <4>1, GoToEffect
    <3>2. Sent' = Sent /\ Coming' = Coming
      <4>1. \A at, S : OwnBatch(p, at, S) = {}
        BY <2>4 DEF OwnBatch
      <4>2. docs' = docs /\ Waiting("msg")' = Waiting("msg")
        BY <2>1, TopicsSame
      <4> QED
        BY <1>0, <3>1, <4>1, <4>2, SentMoves
    <3>3. ReadOK'
      <4>1. \A q \in Proc : job'[q].at \in {"read", "write", "create"} => job'[q].lane = "msg"
        BY <2>2, <3>1 DEF ReadOK, OnlyJobOf
      <4>2. \A q \in Proc : job'[q].at \in {"read", "write"} =>
              \A u \in User : job'[q].unread[u] \in SeqsOf(Coming, u)
        BY <2>2, <3>1 DEF ReadOK, OnlyJobOf
      <4> QED
        BY <1>0, <2>1, <2>2, <3>2, <4>1, <4>2, ReadKept
    <3>4. ASSUME moves' = 0 PROVE CachedOK'
      <4>1. CachedOK /\ readSeq' = readSeq
        BY <2>1, <2>2, <3>4 DEF readVars
      <4>2. \A q \in Proc : job'[q].at = "write" => job'[q].seen = readSeq[job'[q].user]
        BY <3>1, <4>1 DEF CachedOK, OnlyJobOf
      <4>3. \A q \in Proc : job[q].at \in {"read", "write"} =>
              job'[q].at \in {"read", "write"} /\ job'[q].unread = job[q].unread
        BY <2>1, <3>1 DEF OnlyJobOf
      <4> QED
        BY <1>0, <3>2, <4>1, <4>2, <4>3, CachedKept
    <3> QED
      BY <3>3, <3>4
  <2> QED
    BY <2>3, <2>4
<1>6. ASSUME NEW p \in Proc, GetUserReadSeq(p) PROVE ReadOK' /\ (moves' = 0 => CachedOK')
  <2>1. PICK u \in User : job' = [job EXCEPT ![p].at = "write", ![p].user = u, ![p].seen = readSeq[u]]
    BY <1>6 DEF GetUserReadSeq
  <2>2. job[p].at = "read" /\ UNCHANGED <<docs, toMongo, readVars, failures, crashes, moves>>
    BY <1>6 DEF GetUserReadSeq, storeVars, faultVars
  <2>3. readSeq[u] \in Nat
    BY DEF TypeOK
  <2>4. /\ OnlyJobOf(p) /\ job'[p].at = "write" /\ SameBatch(p) /\ job'[p].unread = job[p].unread
        /\ job'[p].user = u /\ job'[p].seen = readSeq[u]
    <3>1. \A n \in Nat : job' = [job EXCEPT ![p].at = "write", ![p].user = u, ![p].seen = n] =>
            /\ OnlyJobOf(p) /\ job'[p].at = "write" /\ SameBatch(p)
            /\ job'[p].unread = job[p].unread /\ job'[p].user = u /\ job'[p].seen = n
      BY GetEffect
    <3> QED
      BY <2>1, <2>3, <3>1
  <2>5. ReadOK /\ (moves' = 0 => CachedOK)
    BY <1>i, <2>2
  <2>6. Sent' = Sent /\ Coming' = Coming
    BY <1>0, <2>2, <2>4, SentSame
  <2>7. ReadOK'
    <3>1. \A q \in Proc : job'[q].at \in {"read", "write", "create"} => job'[q].lane = "msg"
      BY <2>2, <2>4, <2>5 DEF ReadOK, OnlyJobOf, SameBatch
    <3>2. \A q \in Proc : job'[q].at \in {"read", "write"} =>
            \A v \in User : job'[q].unread[v] \in SeqsOf(Coming, v)
      BY <2>2, <2>4, <2>5 DEF ReadOK, OnlyJobOf
    <3> QED
      BY <1>0, <2>2, <2>5, <2>6, <3>1, <3>2, ReadKept
  <2>8. ASSUME moves' = 0 PROVE CachedOK'
    <3>1. CachedOK /\ readSeq' = readSeq
      BY <2>2, <2>5, <2>8 DEF readVars
    <3>2. \A q \in Proc : job'[q].at = "write" => job'[q].seen = readSeq[job'[q].user]
      BY <2>4, <3>1 DEF CachedOK, OnlyJobOf
    <3>3. \A q \in Proc : job[q].at \in {"read", "write"} =>
            job'[q].at \in {"read", "write"} /\ job'[q].unread = job[q].unread
      BY <2>2, <2>4 DEF OnlyJobOf
    <3> QED
      BY <1>0, <2>6, <3>1, <3>2, <3>3, CachedKept
  <2> QED
    BY <2>7, <2>8
<1>7. ASSUME NEW p \in Proc, SetUserReadSeq(p) PROVE ReadOK' /\ (moves' = 0 => CachedOK')
  <2>1. PICK u \in User : u = job[p].user
    BY JobParts
  <2>2. /\ job[p].at = "write" /\ UNCHANGED <<docs, toMongo, readChan, readDB, failures, crashes, moves>>
        /\ readSeq' = IF job[p].seen < job[p].unread[u] THEN [readSeq EXCEPT ![u] = job[p].unread[u]]
                                                        ELSE readSeq
        /\ job' = [job EXCEPT ![p].at = "read", ![p].unread[u] = 0]
    BY <1>7, <2>1 DEF SetUserReadSeq, storeVars, faultVars
  <2>3. /\ OnlyJobOf(p) /\ job'[p].at = "read" /\ SameBatch(p)
        /\ job'[p].unread = [job[p].unread EXCEPT ![u] = 0]
    BY <2>2, SetEffect
  <2>4. ReadOK /\ (moves' = 0 => CachedOK /\ Alone)
    BY <1>i, <2>2
  <2>5. Sent' = Sent /\ Coming' = Coming
    BY <1>0, <2>2, <2>3, SentSame
  <2>6. \A v : SeqsOf(Coming, v)' = SeqsOf(Coming, v) /\ SeqsOf(Sent, v)' = SeqsOf(Sent, v)
    BY <1>p, <2>5
  <2>7. /\ job[p].unread \in [User -> Nat] /\ job'[p].unread[u] = 0
        /\ \A v \in User \ {u} : job'[p].unread[v] = job[p].unread[v]
    BY <2>3, JobParts
  <2>8. /\ readSeq'[u] = IF job[p].seen < job[p].unread[u] THEN job[p].unread[u] ELSE readSeq[u]
        /\ \A v \in User \ {u} : readSeq'[v] = readSeq[v]
    BY <2>2 DEF TypeOK
  <2>9. ReadOK'
    <3>1. \A q \in Proc : job'[q].at \in {"read", "write", "create"} => job'[q].lane = "msg"
      BY <2>2, <2>3, <2>4 DEF ReadOK, OnlyJobOf, SameBatch
    <3>2. \A v \in User : job'[p].unread[v] \in SeqsOf(Coming, v)
      <4>1. \A v \in User : job[p].unread[v] \in SeqsOf(Coming, v)
        BY <2>2, <2>4 DEF ReadOK
      <4> QED
        BY <2>7, <4>1, SeqsGrow
    <3>3. \A q \in Proc : job'[q].at \in {"read", "write"} =>
            \A v \in User : job'[q].unread[v] \in SeqsOf(Coming, v)
      BY <2>3, <2>4, <3>2 DEF ReadOK, OnlyJobOf
    <3>4. \A v \in User : readSeq'[v] \in SeqsOf(Coming, v)
      BY <2>2, <2>4, <2>8 DEF ReadOK
    <3>5. \A v \in User :
            /\ readDB'[v] \in SeqsOf(Coming, v)
            /\ \A q \in Proc : \A i \in DOMAIN readChan'[q] : readChan'[q][i][v] \in SeqsOf(Coming, v)
            /\ \A n \in SeqsOf(Sent, v) :
                 n <= readDB'[v] \/ \E q \in Proc : \E i \in DOMAIN readChan'[q] : n <= readChan'[q][i][v]
      BY <2>2, <2>4 DEF ReadOK
    <3> QED
      BY <2>6, <3>1, <3>3, <3>4, <3>5 DEF ReadOK
  <2>10. ASSUME moves' = 0 PROVE CachedOK'
    <3>1. CachedOK /\ Alone
      BY <2>4, <2>10
    <3>2. job[p].seen = readSeq[u]
      BY <2>1, <2>2, <3>1 DEF CachedOK
    <3>3. \A q \in Proc \ {p} : job'[q].at = "idle"
      BY <2>2, <2>3, <3>1 DEF Alone, OnlyJobOf
    <3>4. ASSUME NEW v \in User, NEW n \in SeqsOf(Coming, v)
          PROVE  \/ n <= readSeq'[v]
                 \/ \E q \in Proc : job'[q].at \in {"read", "write"} /\ n <= job'[q].unread[v]
      <4>1. n \in Nat /\ readSeq[v] \in Nat /\ readSeq[u] \in Nat /\ job[p].unread[v] \in Nat
        BY <1>n, <2>7 DEF TypeOK
      <4>2. n <= readSeq[v] \/ n <= job[p].unread[v]
        <5>1. \A q \in Proc \ {p} : job[q].at = "idle"
          BY <2>2, <3>1 DEF Alone
        <5> QED
          BY <3>1, <5>1 DEF CachedOK
      <4>3. CASE v = u
        <5>1. n <= readSeq'[u]
          BY <2>8, <3>2, <4>1, <4>2, <4>3
        <5> QED
          BY <4>3, <5>1
      <4>4. CASE v # u
        BY <2>3, <2>7, <2>8, <4>2, <4>4
      <4> QED
        BY <4>3, <4>4
    <3>5. \A q \in Proc : job'[q].at # "write"
      BY <2>3, <3>3
    <3> QED
      BY <2>6, <3>4, <3>5 DEF CachedOK
  <2> QED
    BY <2>9, <2>10
<1>8. ASSUME NEW p \in Proc, SendHasRead(p) PROVE ReadOK' /\ (moves' = 0 => CachedOK')
  <2> DEFINE B == ToSet(Batch(p))
             f == UserSeqMap(B)
  <2>1. /\ job[p].at = "read" /\ job[p].unread = NoRead
        /\ UNCHANGED <<docs, toMongo, readSeq, readDB, failures, crashes, moves>>
        /\ readChan' = [readChan EXCEPT ![p] = Append(@, f)]
        /\ GoTo(p, "create") \/ GoTo(p, "mongo")
    BY <1>8 DEF SendHasRead, storeVars, faultVars
  <2>2. ReadOK /\ (moves' = 0 => CachedOK)
    BY <1>i, <2>1
  <2>b. /\ f \in [User -> Nat]
        /\ \A u \in User : f[u] \in SeqsOf(B, u) /\ \A n \in SeqsOf(B, u) : n \in Nat /\ n <= f[u]
    BY BatchLast
  <2> HIDE DEF f
  <2>3. job[p].lane = "msg"
    BY <2>1, <2>2 DEF ReadOK
  <2>4. OnlyJobOf(p) /\ job'[p].at \in {"create", "mongo"} /\ SameBatch(p)
    <3>1. "mongo" \in Stage /\ "create" \in Stage
      BY DEF Stage
    <3> QED
      BY <2>1, <3>1, GoToEffect
  <2>5. Sent' = Sent \cup B /\ Coming' = Coming /\ B \subseteq Coming
    <3>1. /\ OwnBatch(p, job[p].at, {"create", "mongo"}) = {} /\ OwnBatch(p, job[p].at, {"read", "write"}) = B
          /\ OwnBatch(p, job'[p].at, {"create", "mongo"}) = B /\ OwnBatch(p, job'[p].at, {"read", "write"}) = {}
      BY <2>1, <2>3, <2>4 DEF OwnBatch
    <3> HIDE DEF B
    <3>2. docs' = docs /\ Waiting("msg")' = Waiting("msg")
      BY <2>1, TopicsSame
    <3> QED
      BY <1>0, <2>4, <3>1, <3>2, SentMoves
  <2> HIDE DEF B
  <2>6. ASSUME NEW u \in User
        PROVE  /\ SeqsOf(Coming, u)' = SeqsOf(Coming, u)
               /\ SeqsOf(Sent, u)' = SeqsOf(Sent, u) \cup SeqsOf(B, u)
               /\ SeqsOf(B, u) \subseteq SeqsOf(Coming, u)
    BY <1>p, <2>5, SeqsGrow
  <2>7. /\ DOMAIN readChan[p] = 1 .. Len(readChan[p]) /\ Len(readChan[p]) \in Nat
        /\ DOMAIN readChan'[p] = 1 .. Len(readChan[p]) + 1
        /\ \A i \in 1 .. Len(readChan[p]) : readChan'[p][i] = readChan[p][i]
        /\ readChan'[p][Len(readChan[p]) + 1] = f
        /\ \A q \in Proc \ {p} : readChan'[q] = readChan[q]
    <3>1. readChan[p] \in Seq([User -> Nat])
      BY DEF TypeOK
    <3>2. readChan'[p] = Append(readChan[p], f) /\ \A q \in Proc \ {p} : readChan'[q] = readChan[q]
      BY <2>1 DEF TypeOK
    <3>3. Append(readChan[p], f) \in Seq([User -> Nat])
      BY <2>b, <3>1, AppendProperties
    <3> QED
      BY <2>b, <3>1, <3>2, <3>3, AppendProperties, LenProperties
  <2>8. \A i \in 1 .. Len(readChan[p]) + 1 : i \in 1 .. Len(readChan[p]) \/ i = Len(readChan[p]) + 1
    BY <2>7
  <2>9. ReadOK'
    <3>1. \A q \in Proc : job'[q].at \in {"read", "write", "create"} => job'[q].lane = "msg"
      BY <2>2, <2>3, <2>4 DEF ReadOK, OnlyJobOf, SameBatch
    <3>2. \A q \in Proc : job'[q].at \in {"read", "write"} =>
            \A u \in User : job'[q].unread[u] \in SeqsOf(Coming, u)
      BY <2>2, <2>4 DEF ReadOK, OnlyJobOf
    <3>3. ASSUME NEW u \in User, NEW q \in Proc, NEW i \in DOMAIN readChan'[q]
          PROVE  readChan'[q][i][u] \in SeqsOf(Coming, u)
      <4>1. CASE q # p
        BY <2>2, <2>7, <4>1 DEF ReadOK
      <4>2. CASE q = p /\ i \in 1 .. Len(readChan[p])
        BY <2>2, <2>7, <4>2 DEF ReadOK
      <4>3. CASE q = p /\ i = Len(readChan[p]) + 1
        BY <2>6, <2>7, <2>b, <4>3
      <4> QED
        BY <2>7, <2>8, <4>1, <4>2, <4>3
    <3>4. ASSUME NEW u \in User, NEW n \in SeqsOf(Sent, u) \cup SeqsOf(B, u)
          PROVE  n <= readDB[u] \/ \E q \in Proc : \E i \in DOMAIN readChan'[q] : n <= readChan'[q][i][u]
      <4>1. CASE n \in SeqsOf(B, u)
        <5>1. Len(readChan[p]) + 1 \in DOMAIN readChan'[p]
          BY <2>7
        <5> QED
          BY <2>7, <2>b, <4>1, <5>1
      <4>2. CASE n \in SeqsOf(Sent, u)
        <5>1. \A i \in 1 .. Len(readChan[p]) : i \in 1 .. Len(readChan[p]) + 1
          BY <2>7
        <5>2. \A q \in Proc : \A i \in DOMAIN readChan[q] :
                i \in DOMAIN readChan'[q] /\ readChan'[q][i] = readChan[q][i]
          BY <2>7, <5>1
        <5> QED
          BY <2>2, <4>2, <5>2 DEF ReadOK
      <4> QED
        BY <3>4, <4>1, <4>2
    <3> QED
      BY <2>1, <2>2, <2>6, <3>1, <3>2, <3>3, <3>4 DEF ReadOK
  <2>10. ASSUME moves' = 0 PROVE CachedOK'
    <3>1. CachedOK
      BY <2>2, <2>10
    <3>2. ASSUME NEW u \in User, NEW n \in SeqsOf(Coming, u)
          PROVE  \/ n <= readSeq[u]
                 \/ \E q \in Proc : job'[q].at \in {"read", "write"} /\ n <= job'[q].unread[u]
      <4>1. \/ n <= readSeq[u]
            \/ \E q \in Proc : job[q].at \in {"read", "write"} /\ n <= job[q].unread[u]
        BY <3>1 DEF CachedOK
      <4>2. n <= job[p].unread[u] => n <= readSeq[u]
        <5>1. n \in Nat /\ readSeq[u] \in Nat /\ job[p].unread[u] = 0
          BY <1>n, <2>1 DEF TypeOK, NoRead
        <5> QED
          BY <5>1
      <4> QED
        BY <2>4, <4>1, <4>2 DEF OnlyJobOf
    <3>3. \A q \in Proc : job'[q].at = "write" => job'[q].seen = readSeq[job'[q].user]
      BY <2>4, <3>1 DEF CachedOK, OnlyJobOf
    <3> QED
      BY <2>1, <2>6, <3>2, <3>3 DEF CachedOK
  <2> QED
    BY <2>9, <2>10
<1>9. ASSUME NEW p \in Proc, CreateConversations(p) PROVE ReadOK' /\ (moves' = 0 => CachedOK')
  <2>1. /\ job[p].at = "create" /\ UNCHANGED <<docs, toMongo, readVars, failures, crashes, moves>>
        /\ GoTo(p, "mongo")
    BY <1>9, <1>f DEF CreateConversations, storeVars, faultVars
  <2>2. ReadOK /\ (moves' = 0 => CachedOK)
    BY <1>i, <2>1
  <2>3. OnlyJobOf(p) /\ job'[p].at = "mongo" /\ SameBatch(p)
    <3>1. "mongo" \in Stage
      BY DEF Stage
    <3> QED
      BY <2>1, <3>1, GoToEffect
  <2>4. Sent' = Sent /\ Coming' = Coming
    BY <1>0, <2>1, <2>3, SentSame
  <2>5. ReadOK'
    <3>1. \A q \in Proc : job'[q].at \in {"read", "write", "create"} => job'[q].lane = "msg"
      BY <2>2, <2>3 DEF ReadOK, OnlyJobOf
    <3>2. \A q \in Proc : job'[q].at \in {"read", "write"} =>
            \A u \in User : job'[q].unread[u] \in SeqsOf(Coming, u)
      BY <2>2, <2>3 DEF ReadOK, OnlyJobOf
    <3> QED
      BY <1>0, <2>1, <2>2, <2>4, <3>1, <3>2, ReadKept
  <2>6. ASSUME moves' = 0 PROVE CachedOK'
    <3>1. CachedOK /\ readSeq' = readSeq
      BY <2>1, <2>2, <2>6 DEF readVars
    <3>2. \A q \in Proc : job'[q].at = "write" => job'[q].seen = readSeq[job'[q].user]
      BY <2>3, <3>1 DEF CachedOK, OnlyJobOf
    <3>3. \A q \in Proc : job[q].at \in {"read", "write"} =>
            job'[q].at \in {"read", "write"} /\ job'[q].unread = job[q].unread
      BY <2>1, <2>3 DEF OnlyJobOf
    <3> QED
      BY <1>0, <2>4, <3>1, <3>2, <3>3, CachedKept
  <2> QED
    BY <2>5, <2>6
<1>10. ASSUME NEW p \in Proc, MsgToMongoMQ(p) PROVE ReadOK' /\ (moves' = 0 => CachedOK')
  <2>1. /\ job[p].at = "mongo" /\ UNCHANGED <<docs, readVars, failures, crashes, moves>>
        /\ GoTo(p, "push") /\ toMongo' = Append(toMongo, [lane |-> job[p].lane, batch |-> Batch(p)])
    BY <1>10, <1>f DEF MsgToMongoMQ, storeVars, faultVars
  <2>2. ReadOK /\ (moves' = 0 => CachedOK)
    BY <1>i, <2>1
  <2>3. OnlyJobOf(p) /\ job'[p].at = "push" /\ SameBatch(p)
    <3>1. "push" \in Stage
      BY DEF Stage
    <3> QED
      BY <2>1, <3>1, GoToEffect
  <2>4. Waiting("msg")' = Waiting("msg") \cup (IF job[p].lane = "msg" THEN ToSet(Batch(p)) ELSE {})
    BY <2>1, WaitingAppended
  <2>5. Sent' = Sent /\ Coming' = Coming
    <3> DEFINE B == ToSet(Batch(p))
               own == IF job[p].lane = "msg" THEN B ELSE {}
    <3>1. /\ OwnBatch(p, job[p].at, {"create", "mongo"}) = own /\ OwnBatch(p, job[p].at, {"read", "write"}) = {}
          /\ OwnBatch(p, job'[p].at, {"create", "mongo"}) = {} /\ OwnBatch(p, job'[p].at, {"read", "write"}) = {}
      BY <2>1, <2>3 DEF OwnBatch
    <3>2. Waiting("msg")' = Waiting("msg") \cup own
      BY <2>4
    <3> HIDE DEF own
    <3> QED
      BY <1>0, <2>1, <2>3, <3>1, <3>2, SentMoves
  <2>6. ReadOK'
    <3>1. \A q \in Proc : job'[q].at \in {"read", "write", "create"} => job'[q].lane = "msg"
      BY <2>2, <2>3 DEF ReadOK, OnlyJobOf
    <3>2. \A q \in Proc : job'[q].at \in {"read", "write"} =>
            \A u \in User : job'[q].unread[u] \in SeqsOf(Coming, u)
      BY <2>2, <2>3 DEF ReadOK, OnlyJobOf
    <3> QED
      BY <1>0, <2>1, <2>2, <2>5, <3>1, <3>2, ReadKept
  <2>7. ASSUME moves' = 0 PROVE CachedOK'
    <3>1. CachedOK /\ readSeq' = readSeq
      BY <2>1, <2>2, <2>7 DEF readVars
    <3>2. \A q \in Proc : job'[q].at = "write" => job'[q].seen = readSeq[job'[q].user]
      BY <2>3, <3>1 DEF CachedOK, OnlyJobOf
    <3>3. \A q \in Proc : job[q].at \in {"read", "write"} =>
            job'[q].at \in {"read", "write"} /\ job'[q].unread = job[q].unread
      BY <2>1, <2>3 DEF OnlyJobOf
    <3> QED
      BY <1>0, <2>5, <3>1, <3>2, <3>3, CachedKept
  <2> QED
    BY <2>6, <2>7
<1>11. ASSUME NEW p \in Proc, HasReadFails(p) PROVE FALSE
  BY <1>11, <1>f DEF HasReadFails
<1>12. ASSUME NEW p \in Proc, SetHasReadSeqToDB(p) PROVE ReadOK' /\ (moves' = 0 => CachedOK')
  <2> DEFINE f == Head(readChan[p])
  <2>1. /\ readChan[p] # << >> /\ readChan' = [readChan EXCEPT ![p] = Tail(@)]
        /\ readDB' = Raise(readDB, f)
        /\ UNCHANGED <<job, docs, toMongo, readSeq, failures, crashes, moves>>
    BY <1>12, <1>f DEF SetHasReadSeqToDB, storeVars, faultVars
  <2>2. ReadOK /\ (moves' = 0 => CachedOK)
    BY <1>i, <2>1
  <2>3. Sent' = Sent /\ Coming' = Coming
    BY <1>0, <2>1, JobsSame, TopicsSame DEF Sent, Coming
  <2>4. \A u : SeqsOf(Coming, u)' = SeqsOf(Coming, u) /\ SeqsOf(Sent, u)' = SeqsOf(Sent, u)
    BY <1>p, <2>3
  <2>5. /\ readChan[p] \in Seq([User -> Nat]) /\ f \in [User -> Nat] /\ f = readChan[p][1]
        /\ Len(readChan[p]) \in Nat /\ Len(readChan[p]) > 0
        /\ readChan'[p] = Tail(readChan[p]) /\ \A q \in Proc \ {p} : readChan'[q] = readChan[q]
    <3>1. readChan \in [Proc -> Seq([User -> Nat])]
      BY DEF TypeOK
    <3>2. f \in [User -> Nat]
      BY <2>1, Queues
    <3>3. readChan'[p] = Tail(readChan[p]) /\ \A q \in Proc \ {p} : readChan'[q] = readChan[q]
      BY <2>1, <3>1
    <3> DEFINE c == readChan[p]
    <3>4. c \in Seq([User -> Nat]) /\ c # << >>
      BY <2>1, <3>1
    <3> HIDE DEF c
    <3>5. Head(c) = c[1] /\ Len(c) \in Nat /\ Len(c) > 0
      BY <3>4
    <3> QED
      BY <3>2, <3>3, <3>4, <3>5 DEF c
  <2>6. /\ DOMAIN readChan[p] = 1 .. Len(readChan[p])
        /\ DOMAIN readChan'[p] = 1 .. Len(readChan[p]) - 1
        /\ \A i \in 1 .. Len(readChan[p]) - 1 : readChan'[p][i] = readChan[p][i + 1]
    <3> DEFINE s == readChan[p]
    <3>1. s \in Seq([User -> Nat]) /\ s # << >> /\ readChan'[p] = Tail(s)
      BY <2>1, <2>5
    <3> HIDE DEF s
    <3>2. /\ DOMAIN s = 1 .. Len(s) /\ Tail(s) \in Seq([User -> Nat]) /\ Len(Tail(s)) = Len(s) - 1
          /\ \A i \in 1 .. Len(Tail(s)) : Tail(s)[i] = s[i + 1]
      BY <3>1, HeadTailProperties, LenProperties
    <3>3. DOMAIN Tail(s) = 1 .. Len(s) - 1
      BY <3>2, LenProperties
    <3> QED
      BY <3>1, <3>2, <3>3 DEF s
  <2>7. \A u \in User : /\ readDB'[u] = IF readDB[u] < f[u] THEN f[u] ELSE readDB[u]
                        /\ readDB[u] \in Nat /\ f[u] \in Nat
    BY <2>1, <2>5 DEF Raise, TypeOK
  <2> HIDE DEF f
  <2>8. \A u \in User : readDB'[u] \in Nat /\ readDB[u] <= readDB'[u] /\ f[u] <= readDB'[u]
    BY <2>7
  <2>9. 1 \in DOMAIN readChan[p] /\ \A i \in 1 .. Len(readChan[p]) - 1 : i + 1 \in DOMAIN readChan[p]
    BY <2>5, <2>6
  <2>10. ReadOK'
    <3>1. \A u \in User : readDB'[u] \in SeqsOf(Coming, u)
      BY <2>2, <2>5, <2>7, <2>9 DEF ReadOK
    <3>2. ASSUME NEW u \in User, NEW q \in Proc, NEW i \in DOMAIN readChan'[q]
          PROVE  readChan'[q][i][u] \in SeqsOf(Coming, u)
      <4>1. CASE q # p
        BY <2>2, <2>5, <4>1 DEF ReadOK
      <4>2. CASE q = p
        BY <2>2, <2>6, <2>9, <4>2 DEF ReadOK
      <4> QED
        BY <4>1, <4>2
    <3>3. ASSUME NEW u \in User, NEW n \in SeqsOf(Sent, u)
          PROVE  n <= readDB'[u] \/ \E q \in Proc : \E i \in DOMAIN readChan'[q] : n <= readChan'[q][i][u]
      <4>1. n \in Nat
        <5>1. SeqsOf(Sent, u) \subseteq SeqsOf(Coming, u)
          BY SeqsGrow DEF Coming
        <5> QED
          BY <1>n, <5>1
      <4>2. CASE n <= readDB[u]
        BY <2>7, <2>8, <4>1, <4>2
      <4>3. ASSUME NEW q \in Proc, NEW i \in DOMAIN readChan[q], n <= readChan[q][i][u], q # p
            PROVE  \E i2 \in DOMAIN readChan'[q] : n <= readChan'[q][i2][u]
        BY <2>5, <4>3
      <4>4. ASSUME NEW i \in DOMAIN readChan[p], n <= readChan[p][i][u], i # 1
            PROVE  \E i2 \in DOMAIN readChan'[p] : n <= readChan'[p][i2][u]
        <5>1. i - 1 \in 1 .. Len(readChan[p]) - 1 /\ (i - 1) + 1 = i
          BY <2>5, <2>6, <4>4
        <5>2. readChan'[p][i - 1] = readChan[p][(i - 1) + 1]
          BY <2>6, <5>1
        <5> QED
          BY <2>6, <4>4, <5>1, <5>2
      <4>5. CASE n <= readChan[p][1][u]
        BY <2>5, <2>7, <2>8, <4>1, <4>5
      <4>6. n <= readDB[u] \/ \E q \in Proc : \E i \in DOMAIN readChan[q] : n <= readChan[q][i][u]
        BY <2>2 DEF ReadOK
      <4> QED
        BY <4>2, <4>3, <4>4, <4>5, <4>6
    <3> QED
      BY <2>1, <2>2, <2>4, <3>1, <3>2, <3>3 DEF ReadOK
  <2>11. ASSUME moves' = 0 PROVE CachedOK'
    <3>1. CachedOK
      BY <2>2, <2>11
    <3>2. \A q \in Proc : job'[q].at = "write" => job'[q].seen = readSeq[job'[q].user]
      BY <2>1, <3>1 DEF CachedOK
    <3> QED
      BY <1>0, <2>1, <2>3, <3>1, <3>2, CachedKept
  <2> QED
    BY <2>10, <2>11
<1>13. CASE HandleChatWs2Mongo
  <2> DEFINE k == Head(toMongo).lane
             B == ToSet(Head(toMongo).batch)
  <2>1. /\ toMongo # << >> /\ toMongo' = Tail(toMongo)
        /\ docs' = [docs EXCEPT ![k] = @ \cup B]
        /\ UNCHANGED <<job, readVars, failures, crashes, moves>>
    BY <1>13, <1>f DEF HandleChatWs2Mongo, faultVars
  <2>2. Waiting("msg") = Waiting("msg")' \cup (IF k = "msg" THEN B ELSE {})
    BY <2>1, WaitingTaken
  <2>3. docs'["msg"] = docs["msg"] \cup (IF k = "msg" THEN B ELSE {})
    <3>1. k \in Lane /\ "msg" \in Lane
      BY <2>1, Queues DEF Lane
    <3> QED
      BY <2>1, <3>1 DEF TypeOK
  <2> HIDE DEF k, B
  <2>4. Sent' = Sent /\ Coming' = Coming
    <3>1. \A S : InJobs(S, "msg")' = InJobs(S, "msg")
      BY <1>0, <2>1, JobsSame
    <3>2. /\ InJobs({"create", "mongo"}, "msg")' = InJobs({"create", "mongo"}, "msg")
          /\ InJobs({"read", "write"}, "msg")' = InJobs({"read", "write"}, "msg")
      BY <3>1
    <3> QED
      BY <2>2, <2>3, <3>2 DEF Sent, Coming
  <2>5. ReadOK /\ (moves' = 0 => CachedOK)
    BY <1>i, <2>1
  <2>6. ReadOK'
    BY <1>0, <2>1, <2>4, <2>5, ReadKept DEF ReadOK
  <2>7. ASSUME moves' = 0 PROVE CachedOK'
    <3>1. readSeq' = readSeq /\ CachedOK
      BY <2>1, <2>5, <2>7 DEF readVars
    <3>2. \A q \in Proc : job'[q].at = "write" => job'[q].seen = readSeq[job'[q].user]
      BY <2>1, <3>1 DEF CachedOK
    <3> QED
      BY <1>0, <2>1, <2>4, <3>1, <3>2, CachedKept
  <2> QED
    BY <2>6, <2>7
<1> QED
  BY <1>o, <1>1, <1>2, <1>3, <1>4, <1>5, <1>6, <1>7, <1>8, <1>9, <1>10, <1>11, <1>12, <1>13
     DEF Next, Step

LEMMA ReadInit ==
  ASSUME Init
  PROVE  ReadInv /\ CachedReadInv
<1>1. /\ docs = [l \in Lane |-> {}] /\ toMongo = << >> /\ job = [p \in Proc |-> NoJob]
      /\ readSeq = [u \in User |-> 0] /\ readDB = [u \in User |-> 0] /\ readChan = [p \in Proc |-> << >>]
  BY DEF Init
<1>2. \A p \in Proc : job[p].at = "idle"
  BY <1>1 DEF NoJob
<1>3. docs["msg"] = {} /\ Waiting("msg") = {}
  BY <1>1 DEF Lane, Waiting, ToSet
<1>4. InJobs({"create", "mongo"}, "msg") = {} /\ InJobs({"read", "write"}, "msg") = {}
  BY <1>2 DEF InJobs
<1>5. Sent = {} /\ Coming = {}
  BY <1>3, <1>4 DEF Sent, Coming
<1>6. \A u : SeqsOf(Sent, u) = {0} /\ SeqsOf(Coming, u) = {0}
  BY <1>5 DEF SeqsOf
<1>7. ReadOK
  BY <1>1, <1>2, <1>6 DEF ReadOK
<1>8. CachedOK
  BY <1>1, <1>2, <1>6 DEF CachedOK
<1> QED
  BY <1>7, <1>8 DEF ReadInv, CachedReadInv

\* The senders of a chat have read their messages: without a failed call or a
\* crash the read seqs in Mongo are those of the last messages of the users once
\* nothing is under way, and so are the cached ones unless the partition moved.
THEOREM OwnRead == Spec => []OwnMessagesRead
<1>1. TypeOK /\ FlowInv /\ ReadInv /\ CachedReadInv => OwnMessagesRead
  <2> DEFINE es == docs["msg"]
             last == UserSeqMap(es)
  <2> SUFFICES ASSUME TypeOK, FlowInv, ReadInv, CachedReadInv, Quiet, failures = 0, crashes = 0
               PROVE  readDB = last /\ (moves = 0 => readSeq = last)
    BY DEF OwnMessagesRead
  <2>1. ReadOK /\ (moves = 0 => CachedOK)
    BY DEF ReadInv, CachedReadInv
  <2>2. /\ \A p \in Proc : job[p].at = "idle" /\ readChan[p] = << >>
        /\ toMongo = << >>
    BY DEF Quiet
  <2>3. Waiting("msg") = {}
    BY <2>2 DEF Waiting, ToSet
  <2>4. InJobs({"create", "mongo"}, "msg") = {} /\ InJobs({"read", "write"}, "msg") = {}
    BY <2>2 DEF InJobs
  <2>5. Sent = es /\ Coming = es
    BY <2>3, <2>4 DEF Sent, Coming
  <2>6. topic \in Topics /\ es \in SUBSET Entry /\ maxSeq["msg"] \in Nat /\ "msg" \in Lane
    BY DEF TypeOK, Lane
  <2>7. \A e \in es : e.seq <= maxSeq["msg"]
    <3>1. \A e \in Numbers("msg") : e.seq \in 1 .. maxSeq["msg"]
      BY <2>6 DEF FlowInv, NumberInv
    <3> QED
      BY <2>6, <3>1 DEF Numbers
  <2> HIDE DEF es
  <2>8. /\ last \in [User -> Nat]
        /\ \A u \in User : last[u] \in SeqsOf(es, u) /\ \A x \in SeqsOf(es, u) : x \in Nat /\ x <= last[u]
    <3> DEFINE n == maxSeq["msg"]
    <3>1. n \in Nat /\ \A e \in es : e.seq <= n
      BY <2>6, <2>7
    <3> HIDE DEF n
    <3> QED
      BY <2>6, <3>1, UserSeqs
  <2> HIDE DEF last
  <2>9. ASSUME NEW f \in [User -> Nat],
               \A u \in User : f[u] \in SeqsOf(es, u) /\ last[u] <= f[u]
        PROVE  f = last
    <3>1. ASSUME NEW u \in User PROVE f[u] = last[u]
      <4>1. f[u] \in Nat /\ last[u] \in Nat /\ f[u] <= last[u] /\ last[u] <= f[u]
        BY <2>8, <2>9
      <4> QED
        BY <4>1
    <3> QED
      BY <2>8, <3>1
  <2>10. \A u \in User : readDB[u] \in SeqsOf(es, u) /\ last[u] <= readDB[u]
    BY <2>1, <2>2, <2>5, <2>8 DEF ReadOK
  <2>11. readDB = last
    BY <2>9, <2>10 DEF TypeOK
  <2>12. ASSUME moves = 0 PROVE readSeq = last
    <3>1. \A u \in User : readSeq[u] \in SeqsOf(es, u)
      BY <2>1, <2>5 DEF ReadOK
    <3>2. \A u \in User : last[u] <= readSeq[u]
      BY <2>1, <2>2, <2>5, <2>8, <2>12 DEF CachedOK
    <3> QED
      BY <2>9, <3>1, <3>2 DEF TypeOK
  <2> QED
    BY <2>11, <2>12
<1> QED
  BY <1>1, TypeInit, TypeStep, FlowInit, FlowStep, OrderInit, OrderStep, ReadInit, ReadStep, PTL DEF Spec

-----------------------------------------------------------------------------
(* Messages are stored once, with their ranks as seqs.                     *)

\* The messages stored in a lane are a finite set of numbers.
LEMMA StoredFinite ==
  ASSUME topic \in Topics, NEW l \in Lane
  PROVE  StoredIn(l) \in SUBSET (Nat \ {0}) /\ IsFiniteSet(StoredIn(l))
<1>1. Message = 1 .. Len(topic) /\ Len(topic) \in Nat /\ StoredIn(l) \in SUBSET Message
  BY Messages
<1>2. IsFiniteSet(1 .. Len(topic))
  BY <1>1, FS_Interval
<1>3. \A m \in 1 .. Len(topic) : m \in Nat \ {0}
  BY <1>1
<1> QED
  BY <1>1, <1>2, <1>3, FS_Subset

\* Giving the messages of a run their seqs brings a job to the end of the run.
LEMMA RankJob ==
  ASSUME topic \in Topics, NEW j \in Job, NEW a, Run(j.msgs, a)
  PROVE  /\ a \in Nat /\ Len(j.msgs) \in Nat /\ RankOf(j.lane, a) \in Nat
         /\ RankOf(j.lane, a + Len(j.msgs)) = RankOf(j.lane, a) + Len(StorageOf(j))
         /\ \A k \in 1 .. Len(StorageOf(j)) :
              /\ StorageOf(j)[k] \in StoredIn(j.lane)
              /\ RankOf(j.lane, StorageOf(j)[k]) = RankOf(j.lane, a) + k
<1> DEFINE ms == j.msgs
           S == StoredIn(j.lane)
<1>1. ms \in Seq(Message) /\ j.lane \in Lane
  BY DEF Job
<1>2. ms \in Seq(Nat)
  BY <1>1, Messages, SeqMonotonic
<1>3. a \in Nat /\ \A i \in 1 .. Len(ms) : ms[i] = a + i
  BY <1>1 DEF Run
<1>4. StorageOf(j) = Only(ms, S)
  BY DEF StorageOf, OfKinds, StoredIn, Message
<1>5. S \in SUBSET (Nat \ {0}) /\ IsFiniteSet(S)
  BY <1>1, StoredFinite
<1>6. Len(ms) \in Nat
  BY <1>1
<1> HIDE DEF ms, S
<1>7. /\ Rank(S, a + Len(ms)) = Rank(S, a) + Len(Only(ms, S))
      /\ \A k \in 1 .. Len(Only(ms, S)) : Only(ms, S)[k] \in S /\ Rank(S, Only(ms, S)[k]) = Rank(S, a) + k
  BY <1>2, <1>3, <1>5, RankRun
<1>8. Rank(S, a) \in Nat
  <2>1. S \in SUBSET Nat
    BY <1>5
  <2>2. Rank(S, a) \in 0 .. Cardinality(S) /\ Cardinality(S) \in Nat
    BY <1>3, <1>5, <2>1, RankType
  <2> QED
    BY <2>2
<1> QED
  BY <1>3, <1>4, <1>6, <1>7, <1>8 DEF RankOf, ms, S

\* A run without messages of a lane.
LEMMA RankNone ==
  ASSUME topic \in Topics, NEW l \in Lane, NEW j \in Job, NEW a, Run(j.msgs, a),
         \A m \in ToSet(j.msgs) : m \notin StoredIn(l)
  PROVE  RankOf(l, a + Len(j.msgs)) = RankOf(l, a)
<1> DEFINE ms == j.msgs
           S == StoredIn(l)
<1>1. ms \in Seq(Message)
  BY DEF Job
<1>2. ms \in Seq(Nat)
  BY <1>1, Messages, SeqMonotonic
<1>3. a \in Nat /\ \A i \in 1 .. Len(ms) : ms[i] = a + i
  BY <1>1 DEF Run
<1>4. S \in SUBSET (Nat \ {0}) /\ IsFiniteSet(S)
  BY StoredFinite
<1>5. \A i \in 1 .. Len(ms) : ms[i] \notin S
  BY <1>1 DEF ToSet
<1> HIDE DEF ms, S
<1>6. Rank(S, a + Len(ms)) = Rank(S, a) + Len(Only(ms, S))
  BY <1>2, <1>3, <1>4, RankRun
<1>7. Only(ms, S) = << >>
  BY <1>1, <1>5, OnlyEmpty
<1>8. Rank(S, a) \in Nat
  <2>1. S \in SUBSET Nat
    BY <1>4
  <2>2. Rank(S, a) \in 0 .. Cardinality(S) /\ Cardinality(S) \in Nat
    BY <1>3, <1>4, <2>1, RankType
  <2> QED
    BY <2>2
<1>9. Len(Only(ms, S)) = 0
  BY <1>7
<1> QED
  BY <1>6, <1>8, <1>9 DEF RankOf, ms, S

\* A job that leaves its lane with nothing left to be given a seq there.
LEMMA RankLeave ==
  ASSUME TypeOK, NEW p \in Proc, Leave(p), job[p].at # "idle",
         Storage(p) = << >> \/ job[p].at \in WithSeqs,
         NEW h \in Seq(Message), NEW n \in Nat, Runs(h, job[p], n)
  PROVE  /\ Runs(h, job'[p], n)
         /\ \A l \in Lane : RankOf(l, Reached(h, job'[p], l, n)) = RankOf(l, Reached(h, job[p], l, n))
<1>1. /\ job[p] \in Job /\ job[p].lane \in Lane /\ topic \in Topics
      /\ job[p].msgs \in Seq(Message) /\ Len(job[p].msgs) \in Nat
  <2>1. job[p] \in Job /\ job[p].lane \in Lane /\ job[p].msgs \in Seq(Message)
    BY JobParts
  <2>2. topic \in Topics
    BY DEF TypeOK
  <2>3. Len(job[p].msgs) \in Nat
    BY <2>1
  <2> QED
    BY <2>1, <2>2, <2>3
<1>2. \/ /\ job'[p].at = "transient" /\ job'[p].lane = "ntf" /\ job[p].lane = "msg"
         /\ job'[p].msgs = job[p].msgs
      \/ job'[p].at = "idle" /\ ~(job[p].lane = "msg" /\ HasNotification(p))
  BY LeaveEffect, NoJobType
<1> DEFINE a == n - Len(h) - Len(job[p].msgs)
<1>3. Run(job[p].msgs, a) /\ a \in Nat /\ Len(h) \in Nat /\ a + Len(job[p].msgs) = n - Len(h)
  <2>1. Run(job[p].msgs, a)
    BY DEF Runs
  <2>2. a \in Nat
    BY <2>1 DEF Run
  <2>3. Len(h) \in Nat
    OBVIOUS
  <2>4. a + Len(job[p].msgs) = n - Len(h)
    BY <1>1, <2>3
  <2> QED
    BY <2>1, <2>2, <2>3, <2>4
<1>4. Runs(h, job'[p], n)
  BY <1>2 DEF Runs
<1> HIDE DEF a
<1>n. ASSUME NEW l \in Lane, \A m \in ToSet(job[p].msgs) : m \notin StoredIn(l)
      PROVE  RankOf(l, n - Len(h)) = RankOf(l, a)
  <2> DEFINE j == job[p]
  <2>1. j \in Job /\ Run(j.msgs, a) /\ \A m \in ToSet(j.msgs) : m \notin StoredIn(l)
    BY <1>1, <1>3, <1>n
  <2>2. RankOf(l, a + Len(j.msgs)) = RankOf(l, a)
    <3> HIDE DEF j
    <3> QED
      BY <1>1, <2>1, RankNone
  <2> QED
    BY <1>3, <2>2
<1>s. "transient" \notin WithSeqs /\ "idle" # "transient" /\ "msg" # "ntf"
  BY DEF WithSeqs
<1>z. n - Len(h) - 0 = n - Len(h)
  BY <1>3
<1>5. ASSUME NEW l \in Lane
      PROVE  RankOf(l, Reached(h, job'[p], l, n)) = RankOf(l, Reached(h, job[p], l, n))
  <2>1. CASE l = job[p].lane
    <3>1. Reached(h, job'[p], l, n) = n - Len(h)
      BY <1>2, <1>s, <1>z, <2>1 DEF Reached, Ahead
    <3>2. CASE job[p].at \in WithSeqs
      <4>1. Reached(h, job[p], l, n) = n - Len(h)
        BY <1>z, <2>1, <3>2 DEF Reached
      <4> QED
        BY <3>1, <4>1
    <3>3. CASE job[p].at \notin WithSeqs /\ Storage(p) = << >>
      <4>1. Reached(h, job[p], l, n) = a
        BY <2>1, <3>3 DEF Reached, Ahead, a
      <4>2. \A m \in ToSet(job[p].msgs) : m \notin StoredIn(l)
        BY <1>1, <2>1, <3>3, JobBatch, StorageType
      <4> QED
        BY <1>n, <3>1, <4>1, <4>2
    <3> QED
      BY <3>2, <3>3
  <2>2. CASE l # job[p].lane /\ l = "ntf"
    <3>1. job[p].lane = "msg"
      BY <1>1, <2>2 DEF Lane
    <3>2. Reached(h, job[p], l, n) = a
      BY <2>2, <3>1 DEF Reached, Ahead, a
    <3>3. CASE job'[p].at = "transient" /\ job'[p].lane = "ntf" /\ job'[p].msgs = job[p].msgs
      <4>1. Reached(h, job'[p], l, n) = a
        BY <1>s, <2>2, <3>3 DEF Reached, Ahead, a
      <4> QED
        BY <3>2, <4>1
    <3>4. CASE job'[p].at = "idle" /\ ~ HasNotification(p)
      <4>1. Reached(h, job'[p], l, n) = n - Len(h)
        BY <1>z, <3>4 DEF Reached, Ahead
      <4>2. \A m \in ToSet(job[p].msgs) : m \notin StoredIn(l)
        BY <2>2, <3>4 DEF HasNotification, StoredIn, StoredKinds, ToSet
      <4> QED
        BY <1>n, <3>2, <4>1, <4>2
    <3> QED
      BY <1>2, <3>1, <3>3, <3>4
  <2>3. CASE l # job[p].lane /\ l # "ntf"
    <3>1. job'[p].at = "idle"
      BY <1>1, <1>2, <2>3 DEF Lane
    <3>2. Reached(h, job'[p], l, n) = n - Len(h) /\ Reached(h, job[p], l, n) = n - Len(h)
      BY <1>z, <2>3, <3>1 DEF Reached, Ahead
    <3> QED
      BY <3>2
  <2> QED
    BY <2>1, <2>2, <2>3
<1> QED
  BY <1>4, <1>5

\* What a call of do does without a fault.
LEMMA RankMoves ==
  ASSUME TypeOK, topic' = topic, NEW p \in Proc, Step(p), ~ Do(p), failures' = 0, ~ refused'
  PROVE  /\ job[p].at # "idle" /\ OnlyJobOf(p) /\ UNCHANGED <<consumerVars, held, docs>>
         /\ UNCHANGED <<failures, crashes, moves, refused>>
         /\ \/ /\ Leave(p) /\ (Storage(p) = << >> \/ job[p].at \in WithSeqs)
               /\ UNCHANGED <<maxSeq, toMongo>>
            \/ /\ SameBatch(p) /\ job'[p].at # "idle" /\ (job'[p].at \in WithSeqs <=> job[p].at \in WithSeqs)
               /\ UNCHANGED maxSeq
               /\ \/ UNCHANGED toMongo
                  \/ /\ job[p].at \in WithSeqs
                     /\ toMongo' = Append(toMongo, [lane |-> job[p].lane, batch |-> Batch(p)])
            \/ /\ job[p].at = "malloc" /\ job'[p].at = "cache" /\ job'[p].base = maxSeq[job[p].lane]
               /\ job'[p].lane = job[p].lane /\ job'[p].msgs = job[p].msgs
               /\ maxSeq' = [maxSeq EXCEPT ![job[p].lane] = @ + Len(Storage(p))]
               /\ UNCHANGED toMongo
<1> DEFINE Kept == /\ UNCHANGED <<consumerVars, held, docs>>
                   /\ UNCHANGED <<failures, crashes, moves, refused>>
           Ends == /\ Leave(p) /\ (Storage(p) = << >> \/ job[p].at \in WithSeqs)
                   /\ UNCHANGED <<maxSeq, toMongo>>
           Sends == \/ UNCHANGED toMongo
                    \/ /\ job[p].at \in WithSeqs
                       /\ toMongo' = Append(toMongo, [lane |-> job[p].lane, batch |-> Batch(p)])
           Stays == /\ SameBatch(p) /\ job'[p].at # "idle"
                    /\ job'[p].at \in WithSeqs <=> job[p].at \in WithSeqs
                    /\ UNCHANGED maxSeq
           Allocates == /\ job[p].at = "malloc" /\ job'[p].at = "cache" /\ job'[p].base = maxSeq[job[p].lane]
                       /\ job'[p].lane = job[p].lane /\ job'[p].msgs = job[p].msgs
                       /\ maxSeq' = [maxSeq EXCEPT ![job[p].lane] = @ + Len(Storage(p))]
                       /\ UNCHANGED toMongo
<1> SUFFICES /\ job[p].at # "idle" /\ OnlyJobOf(p) /\ Kept
             /\ Ends \/ (Stays /\ Sends) \/ Allocates
  OBVIOUS
<1>f. ~ Failure
  BY BoundAssumption DEF TypeOK, Failure
<1>r. "read" \in WithSeqs /\ "write" \in WithSeqs /\ "create" \in WithSeqs /\ "mongo" \in WithSeqs
      /\ "push" \in WithSeqs /\ "cache" \in WithSeqs /\ "malloc" \notin WithSeqs /\ "transient" \notin WithSeqs
  BY DEF WithSeqs
<1>g. ASSUME NEW at \in WithSeqs, GoTo(p, at), job[p].at \in WithSeqs, UNCHANGED maxSeq
      PROVE  OnlyJobOf(p) /\ Stays
  <2>1. at \in Stage /\ at # "idle"
    BY <1>g DEF WithSeqs, Stage
  <2>2. OnlyJobOf(p) /\ job'[p].at = at /\ SameBatch(p)
    BY <1>g, <2>1, GoToEffect
  <2> QED
    BY <1>g, <2>1, <2>2
<1>l. ASSUME Leave(p) PROVE OnlyJobOf(p)
  BY <1>l, LeaveEffect
<1>1. CASE PushTransient(p)
  <2>1. /\ job[p].at = "transient" /\ UNCHANGED <<consumerVars, held, storeVars, toMongo, faultVars>>
        /\ IF Storage(p) = << >> THEN Leave(p) ELSE GoTo(p, "malloc")
    BY <1>1, <1>f DEF PushTransient
  <2>2. CASE Leave(p) /\ Storage(p) = << >>
    BY <2>1, <2>2, <1>l DEF storeVars, faultVars
  <2>3. CASE GoTo(p, "malloc")
    <3>1. "malloc" \in Stage
      BY DEF Stage
    <3>2. OnlyJobOf(p) /\ job'[p].at = "malloc" /\ SameBatch(p)
      BY <2>3, <3>1, GoToEffect
    <3> QED
      BY <1>r, <2>1, <3>2 DEF storeVars, faultVars
  <2> QED
    BY <2>1, <2>2, <2>3
<1>2. CASE Refuse(p)
  BY <1>2 DEF Refuse
<1>3. CASE Malloc(p)
  <2> DEFINE b == maxSeq[job[p].lane]
  <2>1. /\ job[p].at = "malloc"
        /\ UNCHANGED <<consumerVars, held, docs, toMongo, failures, crashes, moves, refused>>
        /\ job' = [job EXCEPT ![p].at = "cache", ![p].base = b]
        /\ maxSeq' = [maxSeq EXCEPT ![job[p].lane] = @ + Len(Storage(p))]
    BY <1>3, <1>f DEF Malloc, faultVars
  <2>2. b \in Nat
    BY JobParts DEF TypeOK
  <2>3. /\ OnlyJobOf(p) /\ job'[p].at = "cache" /\ job'[p].base = b
        /\ job'[p].lane = job[p].lane /\ job'[p].msgs = job[p].msgs
    <3> HIDE DEF b
    <3> QED
      BY <2>1, <2>2, MallocEffect
  <2> QED
    BY <2>1, <2>3
<1>4. CASE SetMessageBySeqs(p)
  <2> DEFINE f == UserSeqMap(ToSet(Batch(p)))
  <2>1. /\ job[p].at = "cache"
        /\ UNCHANGED <<consumerVars, held, maxSeq, docs, toMongo, failures, crashes, moves, refused>>
        /\ job' = [job EXCEPT ![p].at = "read", ![p].unread = f] \/ GoTo(p, "mongo")
    BY <1>4, <1>f DEF SetMessageBySeqs, faultVars
  <2>2. f \in [User -> Nat]
    BY BatchLast
  <2> HIDE DEF f
  <2>3. CASE job' = [job EXCEPT ![p].at = "read", ![p].unread = f]
    <3>1. OnlyJobOf(p) /\ job'[p].at = "read" /\ SameBatch(p)
      BY <2>2, <2>3, UnreadEffect
    <3> QED
      BY <1>r, <2>1, <3>1
  <2>4. CASE GoTo(p, "mongo")
    BY <1>g, <1>r, <2>1, <2>4
  <2> QED
    BY <2>1, <2>3, <2>4
<1>5. CASE GetUserReadSeq(p)
  <2>1. PICK u \in User : job' = [job EXCEPT ![p].at = "write", ![p].user = u, ![p].seen = readSeq[u]]
    BY <1>5 DEF GetUserReadSeq
  <2>2. job[p].at = "read" /\ UNCHANGED <<consumerVars, held, storeVars, toMongo, faultVars>>
    BY <1>5 DEF GetUserReadSeq
  <2>3. readSeq[u] \in Nat
    BY DEF TypeOK
  <2>4. OnlyJobOf(p) /\ job'[p].at = "write" /\ SameBatch(p)
    BY <2>1, <2>3, GetEffect
  <2> QED
    BY <1>r, <2>2, <2>4 DEF storeVars, faultVars
<1>6. CASE HasReadFails(p)
  BY <1>6, <1>f DEF HasReadFails
<1>7. CASE SetUserReadSeq(p)
  <2>1. /\ job[p].at = "write" /\ UNCHANGED <<consumerVars, held, storeVars, toMongo, faultVars>>
        /\ job' = [job EXCEPT ![p].at = "read", ![p].unread[job[p].user] = 0]
    BY <1>7 DEF SetUserReadSeq
  <2>2. PICK u \in User : u = job[p].user
    BY JobParts
  <2>3. OnlyJobOf(p) /\ job'[p].at = "read" /\ SameBatch(p)
    BY <2>1, <2>2, SetEffect
  <2> QED
    BY <1>r, <2>1, <2>3 DEF storeVars, faultVars
<1>8. CASE SendHasRead(p)
  <2>1. /\ job[p].at = "read" /\ UNCHANGED <<consumerVars, held, storeVars, toMongo, faultVars>>
        /\ GoTo(p, "create") \/ GoTo(p, "mongo")
    BY <1>8 DEF SendHasRead
  <2> QED
    BY <1>g, <1>r, <2>1 DEF storeVars, faultVars
<1>9. CASE CreateConversations(p)
  <2>1. /\ job[p].at = "create" /\ UNCHANGED <<consumerVars, held, storeVars, toMongo, faultVars>>
        /\ GoTo(p, "mongo")
    BY <1>9, <1>f DEF CreateConversations
  <2> QED
    BY <1>g, <1>r, <2>1 DEF storeVars, faultVars
<1>10. CASE MsgToMongoMQ(p)
  <2>1. /\ job[p].at = "mongo" /\ UNCHANGED <<consumerVars, held, storeVars, faultVars>>
        /\ GoTo(p, "push") /\ toMongo' = Append(toMongo, [lane |-> job[p].lane, batch |-> Batch(p)])
    BY <1>10, <1>f DEF MsgToMongoMQ
  <2> QED
    BY <1>g, <1>r, <2>1 DEF storeVars, faultVars
<1>11. CASE PushStored(p)
  <2>1. /\ job[p].at = "push" /\ UNCHANGED <<consumerVars, held, storeVars, toMongo, faultVars>> /\ Leave(p)
    BY <1>11, <1>f DEF PushStored
  <2> QED
    BY <1>l, <1>r, <2>1 DEF storeVars, faultVars
<1> QED
  BY <1>1, <1>2, <1>3, <1>4, <1>5, <1>6, <1>7, <1>8, <1>9, <1>10, <1>11 DEF Step

\* The next message goes on with the run of the batcher.
LEMMA RunsAppend ==
  ASSUME NEW n \in Nat, NEW h \in Seq(Nat), NEW j, Len(j.msgs) \in Nat, Runs(h, j, n)
  PROVE  /\ Runs(Append(h, n + 1), j, n + 1)
         /\ \A l : Reached(Append(h, n + 1), j, l, n + 1) = Reached(h, j, l, n)
<1> DEFINE g == Append(h, n + 1)
<1>0. n + 1 \in Nat
  OBVIOUS
<1>1. /\ g \in Seq(Nat) /\ Len(g) = Len(h) + 1 /\ \A i \in 1 .. Len(h) : g[i] = h[i]
      /\ g[Len(h) + 1] = n + 1
  BY <1>0, AppendProperties
<1>2. Len(h) \in Nat /\ DOMAIN h = 1 .. Len(h) /\ DOMAIN g = 1 .. Len(h) + 1
  BY <1>1, LenProperties
<1> HIDE DEF g
<1>3. (n + 1) - Len(g) = n - Len(h)
  BY <1>1, <1>2
<1>4. n - Len(h) \in Nat /\ \A i \in 1 .. Len(h) : h[i] = (n - Len(h)) + i
  BY <1>2 DEF Runs, Run
<1>5. \A i \in 1 .. Len(h) + 1 : g[i] = (n - Len(h)) + i
  <2> TAKE i \in 1 .. Len(h) + 1
  <2>1. CASE i \in 1 .. Len(h)
    BY <1>1, <1>4, <2>1
  <2>2. CASE i = Len(h) + 1
    BY <1>1, <1>2, <2>2
  <2> QED
    BY <1>2, <2>1, <2>2
<1>6. Runs(g, j, n + 1)
  BY <1>2, <1>3, <1>4, <1>5 DEF Runs, Run
<1>7. ASSUME NEW l PROVE Reached(g, j, l, n + 1) = Reached(h, j, l, n)
  BY <1>3 DEF Reached
<1> QED
  BY <1>6, <1>7 DEF g

\* A job begins with the first messages of the batcher.
LEMMA RunsDo ==
  ASSUME NEW n \in Nat, NEW h \in Seq(Nat), NEW k \in 0 .. Len(h), NEW j, NEW r, j.at = "idle",
         r.msgs = SubSeq(h, 1, k), r.at = "transient", r.lane = "msg", Runs(h, j, n)
  PROVE  /\ Runs(SubSeq(h, k + 1, Len(h)), r, n)
         /\ \A l \in Lane : Reached(SubSeq(h, k + 1, Len(h)), r, l, n) = Reached(h, j, l, n)
<1> DEFINE a == SubSeq(h, 1, k)
           g == SubSeq(h, k + 1, Len(h))
<1>1. /\ Len(a) = k /\ DOMAIN a = 1 .. k /\ \A i \in 1 .. k : a[i] = h[i]
      /\ Len(g) = Len(h) - k /\ DOMAIN g = 1 .. Len(h) - k /\ \A i \in 1 .. Len(h) - k : g[i] = h[k + i]
  BY Split
<1>2. Len(h) \in Nat /\ k \in Nat /\ k <= Len(h) /\ DOMAIN h = 1 .. Len(h)
  BY LenProperties
<1> HIDE DEF a, g
<1>3. n - Len(h) \in Nat /\ \A i \in 1 .. Len(h) : h[i] = (n - Len(h)) + i
  BY <1>2 DEF Runs, Run
<1>4. /\ n - Len(g) = (n - Len(h)) + k /\ n - Len(g) \in Nat
      /\ n - Len(g) - Len(a) = n - Len(h)
  BY <1>1, <1>2, <1>3
<1>5. \A i \in 1 .. Len(h) - k : g[i] = (n - Len(g)) + i
  <2> TAKE i \in 1 .. Len(h) - k
  <2>1. k + i \in 1 .. Len(h) /\ (n - Len(h)) + (k + i) = ((n - Len(h)) + k) + i
    BY <1>2, <1>3
  <2> QED
    BY <1>1, <1>3, <1>4, <2>1
<1>6. \A i \in 1 .. k : a[i] = (n - Len(h)) + i
  <2> TAKE i \in 1 .. k
  <2>1. i \in 1 .. Len(h)
    BY <1>2
  <2> QED
    BY <1>1, <1>3, <2>1
<1>7. Runs(g, r, n)
  BY <1>1, <1>3, <1>4, <1>5, <1>6 DEF Runs, Run, a
<1>8. ASSUME NEW l \in Lane PROVE Reached(g, r, l, n) = Reached(h, j, l, n)
  <2>1. "transient" \notin WithSeqs
    BY DEF WithSeqs
  <2>2. Reached(g, r, l, n) = n - Len(g) - Len(a)
    BY <2>1 DEF Reached, Ahead, Lane, a
  <2>3. Reached(h, j, l, n) = n - Len(h)
    BY <1>2, <1>3 DEF Reached, Ahead
  <2> QED
    BY <1>4, <2>2, <2>3
<1> QED
  BY <1>7, <1>8 DEF g

\* The invariant after a step, with the parts that do not change.
LEMMA RankPrimed ==
  ASSUME topic' = topic, owner' = owner, Runs(held'[owner], job'[owner], position'),
         \A l \in Lane :
           /\ \A x \in Storing(l)' : x.msg \in StoredIn(l) /\ x.seq = RankOf(l, x.msg)
           /\ maxSeq'[l] = RankOf(l, Reached(held'[owner], job'[owner], l, position'))
  PROVE  RankOK'
<1>1. \A l : StoredIn(l)' = StoredIn(l)
  BY SameTopic
<1>2. \A l, x : RankOf(l, x)' = RankOf(l, x)
  BY <1>1 DEF RankOf
<1>3. \A l, y : Rank(StoredIn(l)', y) = RankOf(l, y)
  BY <1>1 DEF RankOf
<1> QED
  BY <1>1, <1>3 DEF RankOK, RankOf

LEMMA RankKept ==
  ASSUME RankOK, topic' = topic, owner' = owner, maxSeq' = maxSeq,
         \A l \in Lane : Storing(l)' \subseteq Storing(l),
         Runs(held'[owner], job'[owner], position'),
         \A l \in Lane : RankOf(l, Reached(held'[owner], job'[owner], l, position')) =
                           RankOf(l, Reached(held[owner], job[owner], l, position))
  PROVE  RankOK'
<1>1. ASSUME NEW l \in Lane
      PROVE  /\ \A x \in Storing(l)' : x.msg \in StoredIn(l) /\ x.seq = RankOf(l, x.msg)
             /\ maxSeq'[l] = RankOf(l, Reached(held'[owner], job'[owner], l, position'))
  BY DEF RankOK
<1> QED
  BY <1>1, RankPrimed

\* A step of the job of the owner that gives no seq.
LEMMA RankStays ==
  ASSUME TypeOK, RankOK, topic' = topic, NEW p \in Proc, p = owner, job[p].at # "idle", OnlyJobOf(p),
         UNCHANGED <<consumerVars, held, docs, maxSeq>>,
         SameBatch(p), job'[p].at # "idle", job'[p].at \in WithSeqs <=> job[p].at \in WithSeqs,
         \/ UNCHANGED toMongo
         \/ /\ job[p].at \in WithSeqs
            /\ toMongo' = Append(toMongo, [lane |-> job[p].lane, batch |-> Batch(p)])
  PROVE  RankOK'
<1>1. owner' = owner /\ position' = position /\ held' = held /\ docs' = docs
  BY DEF consumerVars
<1>2. job'[p].lane = job[p].lane /\ job'[p].msgs = job[p].msgs
  BY DEF SameBatch
<1>3. Runs(held'[owner], job'[owner], position')
  BY <1>1, <1>2 DEF RankOK, Runs
<1>4. \A l \in Lane : Reached(held'[owner], job'[owner], l, position') = Reached(held[owner], job[owner], l, position)
  BY <1>1, <1>2 DEF Reached, Ahead
<1>5. ASSUME NEW l \in Lane PROVE Storing(l)' \subseteq Storing(l)
  <2>1. InJobs(WithSeqs, l)' \subseteq InJobs(WithSeqs, l)
    BY JobsFewer
  <2>2. CASE UNCHANGED toMongo
    BY <1>1, <2>1, <2>2, TopicsSame DEF Storing
  <2>3. CASE /\ job[p].at \in WithSeqs
             /\ toMongo' = Append(toMongo, [lane |-> job[p].lane, batch |-> Batch(p)])
    <3>1. Waiting(l)' = Waiting(l) \cup (IF job[p].lane = l THEN ToSet(Batch(p)) ELSE {})
      BY <2>3, WaitingAppended
    <3>2. job[p].lane = l => ToSet(Batch(p)) \subseteq InJobs(WithSeqs, l)
      BY <2>3, JobBatch, JobsSplit DEF OwnJob
    <3> QED
      BY <1>1, <2>1, <3>1, <3>2 DEF Storing
  <2> QED
    BY <2>2, <2>3
<1> QED
  BY <1>1, <1>3, <1>4, <1>5, RankKept

\* The owner gives the messages at hand their seqs.
LEMMA RankGiven ==
  ASSUME TypeOK, RankOK, topic' = topic, NEW p \in Proc, p = owner, OnlyJobOf(p),
         UNCHANGED <<consumerVars, held, docs, toMongo>>,
         job[p].at = "malloc", job'[p].at = "cache", job'[p].base = maxSeq[job[p].lane],
         job'[p].lane = job[p].lane, job'[p].msgs = job[p].msgs,
         maxSeq' = [maxSeq EXCEPT ![job[p].lane] = @ + Len(Storage(p))]
  PROVE  RankOK'
<1> DEFINE j == job[p]
           r == job'[p]
           k == job[p].lane
           h == held[p]
           n == position
           a == n - Len(h) - Len(j.msgs)
           N == Len(StorageOf(j))
<1>1. owner' = owner /\ position' = position /\ held' = held /\ docs' = docs
  BY DEF consumerVars
<1>2. /\ j \in Job /\ k \in Lane /\ topic \in Topics /\ r \in Job
      /\ maxSeq \in [Lane -> Nat] /\ maxSeq[k] \in Nat
  BY JobParts DEF TypeOK, OnlyJobOf
<1>3. Runs(h, j, n)
  BY DEF RankOK
<1>4. Runs(h, r, n)
  BY <1>3 DEF Runs
<1>5. Run(j.msgs, a)
  BY <1>3 DEF Runs
<1>6. /\ a \in Nat /\ Len(j.msgs) \in Nat /\ RankOf(k, a) \in Nat
      /\ RankOf(k, a + Len(j.msgs)) = RankOf(k, a) + N
      /\ \A i \in 1 .. N :
           /\ StorageOf(j)[i] \in StoredIn(k)
           /\ RankOf(k, StorageOf(j)[i]) = RankOf(k, a) + i
  <2> HIDE DEF a, j
  <2>1. /\ a \in Nat /\ Len(j.msgs) \in Nat /\ RankOf(j.lane, a) \in Nat
        /\ RankOf(j.lane, a + Len(j.msgs)) = RankOf(j.lane, a) + Len(StorageOf(j))
        /\ \A i \in 1 .. Len(StorageOf(j)) :
             /\ StorageOf(j)[i] \in StoredIn(j.lane)
             /\ RankOf(j.lane, StorageOf(j)[i]) = RankOf(j.lane, a) + i
    BY <1>2, <1>5, RankJob
  <2> QED
    BY <2>1 DEF j
<1>s. "malloc" \notin WithSeqs /\ "cache" \in WithSeqs
  BY DEF WithSeqs
<1>7. Reached(h, j, k, n) = a /\ Reached(h, r, k, n) = n - Len(h) - 0
  BY <1>s DEF Reached, Ahead
<1>8. n - Len(h) - 0 = a + Len(j.msgs)
  <2>1. n \in Nat /\ Len(h) \in Nat
    BY Messages DEF TypeOK
  <2> QED
    BY <1>6, <2>1
<1>9. maxSeq[k] = RankOf(k, a)
  BY <1>2, <1>7 DEF RankOK
<1>10. StorageOf(j) \in Seq(Message) /\ DOMAIN StorageOf(j) = 1 .. N
  BY <1>2, StorageType, LenProperties
<1>11. ASSUME NEW l \in Lane
       PROVE  maxSeq'[l] = RankOf(l, Reached(held'[owner], job'[owner], l, position'))
  <2>1. CASE l = k
    <3>1. maxSeq'[k] = maxSeq[k] + N
      BY <1>2, JobBatch
    <3>2. Reached(held'[owner], job'[owner], k, position') = a + Len(j.msgs)
      BY <1>1, <1>7, <1>8
    <3> QED
      BY <1>6, <1>9, <2>1, <3>1, <3>2
  <2>2. CASE l # k
    <3>1. maxSeq'[l] = maxSeq[l]
      BY <1>2, <2>2
    <3>2. Reached(h, r, l, n) = Reached(h, j, l, n)
      BY <2>2 DEF Reached, Ahead
    <3> QED
      BY <1>1, <3>1, <3>2 DEF RankOK
  <2> QED
    BY <2>1, <2>2
<1>12. ASSUME NEW l \in Lane, NEW x \in Storing(l)'
       PROVE  x.msg \in StoredIn(l) /\ x.seq = RankOf(l, x.msg)
  <2>1. Waiting(l)' = Waiting(l)
    BY TopicsSame
  <2>2. /\ InJobs(WithSeqs, l) = OtherJobs(p, WithSeqs, l) \cup OwnJob(p, WithSeqs, l)
        /\ InJobs(WithSeqs, l)' = OtherJobs(p, WithSeqs, l) \cup
             (IF r.at \in WithSeqs /\ r.lane = l THEN ToSet(BatchOf(r)) ELSE {})
    BY JobsStep
  <2>3. x \in Storing(l) \/ (l = k /\ x \in ToSet(BatchOf(r)))
    BY <1>1, <1>12, <2>1, <2>2 DEF Storing
  <2>4. CASE x \in Storing(l)
    BY <2>4 DEF RankOK
  <2>5. CASE l = k /\ x \in ToSet(BatchOf(r))
    <3>1. BatchOf(r) = [i \in DOMAIN StorageOf(j) |-> [seq |-> maxSeq[k] + i, msg |-> StorageOf(j)[i]]]
      <4>1. StorageOf(r) = StorageOf(j)
        BY DEF StorageOf
      <4> QED
        BY <4>1 DEF BatchOf, Numbered
    <3> HIDE DEF j, r, k, a, N
    <3>2. PICK i \in 1 .. N : x = [seq |-> maxSeq[k] + i, msg |-> StorageOf(j)[i]]
      BY <1>10, <2>5, <3>1 DEF ToSet
    <3> QED
      BY <1>6, <1>9, <2>5, <3>2
  <2> QED
    BY <2>3, <2>4, <2>5
<1> QED
  BY <1>1, <1>4, <1>11, <1>12, RankPrimed

LEMMA RankStep ==
  ASSUME TypeOK, OrderInv, RankInv, [Next]_vars
  PROVE  RankInv'
<1> SUFFICES ASSUME failures' = 0, crashes' = 0, ~ refused', moves' = 0 PROVE RankOK'
  BY DEF RankInv, Perfect
<1>0. topic' = topic /\ topic \in Topics /\ position \in Nat
  <2>1. Len(topic) \in Nat
    BY Messages DEF TypeOK
  <2> QED
    BY <2>1 DEF Next, vars, TypeOK
<1>i. ASSUME failures = 0, crashes = 0, moves = 0, refused' = refused PROVE RankOK /\ Alone
  BY <1>i DEF RankInv, Perfect, OrderInv, Order
<1>h. ASSUME NEW p \in Proc PROVE held[p] \in Seq(Nat) /\ Len(job[p].msgs) \in Nat
  <2>1. \A s \in Seq(Message) : s \in Seq(Nat)
    BY <1>0, Messages, SeqMonotonic
  <2> QED
    BY <2>1, JobParts, LenProperties DEF TypeOK
<1>k. ASSUME RankOK, UNCHANGED <<owner, position, held, job, maxSeq, docs, toMongo>> PROVE RankOK'
  <2>1. \A l \in Lane : Storing(l)' = Storing(l)
    BY <1>0, <1>k, JobsSame, TopicsSame DEF Storing
  <2>2. Runs(held'[owner], job'[owner], position')
    BY <1>k DEF RankOK
  <2>3. \A l \in Lane : RankOf(l, Reached(held'[owner], job'[owner], l, position')) =
                          RankOf(l, Reached(held[owner], job[owner], l, position))
    BY <1>k
  <2> QED
    BY <1>0, <1>k, <2>1, <2>2, <2>3, RankKept
<1>f. ASSUME UNCHANGED faultVars \/ Failure PROVE RankOK /\ Alone
  <2>1. failures = 0 /\ moves' = moves /\ crashes' = crashes /\ refused' = refused
    BY <1>f, FaultsGrow
  <2> QED
    BY <2>1, <1>i
<1>1. CASE UNCHANGED vars
  <2>1. UNCHANGED <<owner, position, held, job, maxSeq, docs, toMongo>> /\ UNCHANGED faultVars
    BY <1>1 DEF vars, consumerVars, storeVars
  <2> QED
    BY <2>1, <1>f, <1>k
<1>2. ASSUME NEW p \in Proc, HandlerRedisMessage(p) PROVE RankOK'
  <2>1. /\ owner = p /\ owner' = p /\ position' = position + 1
        /\ UNCHANGED <<job, maxSeq, docs, toMongo>> /\ UNCHANGED faultVars
        /\ held' = [held EXCEPT ![p] = Append(@, position + 1)]
    BY <1>2 DEF HandlerRedisMessage, storeVars
  <2>2. RankOK
    BY <1>f, <2>1
  <2>3. held'[p] = Append(held[p], position + 1)
    BY <2>1 DEF TypeOK
  <2>4. Runs(held[p], job[p], position)
    BY <2>1, <2>2 DEF RankOK
  <2>5. /\ Runs(held'[p], job'[p], position')
        /\ \A l : Reached(held'[p], job'[p], l, position') = Reached(held[p], job[p], l, position)
    <3> DEFINE h == held[p]
               j == job[p]
    <3>1. h \in Seq(Nat) /\ Len(j.msgs) \in Nat /\ Runs(h, j, position)
      BY <1>h, <2>4
    <3>2. /\ Runs(Append(h, position + 1), j, position + 1)
          /\ \A l : Reached(Append(h, position + 1), j, l, position + 1) = Reached(h, j, l, position)
      <4> HIDE DEF h, j
      <4> QED
        BY <1>0, <3>1, RunsAppend
    <3> QED
      BY <2>1, <2>3, <3>2
  <2>6. \A l \in Lane : Storing(l)' = Storing(l)
    BY <1>0, <2>1, JobsSame, TopicsSame DEF Storing
  <2> QED
    BY <1>0, <2>1, <2>2, <2>5, <2>6, RankKept
<1>3. ASSUME NEW p \in Proc, Rebalance(p) PROVE FALSE
  BY <1>3 DEF Rebalance, TypeOK
<1>4. ASSUME NEW p \in Proc, Crash(p) PROVE FALSE
  BY <1>4 DEF Crash, TypeOK
<1>5. ASSUME NEW p \in Proc, Do(p) PROVE RankOK'
  <2>1. PICK n \in 1 .. Len(held[p]) :
          /\ job' = [job EXCEPT ![p] = [NoJob EXCEPT !.at = "transient", !.msgs = SubSeq(held[p], 1, n)]]
          /\ held' = [held EXCEPT ![p] = SubSeq(@, n + 1, Len(@))]
    BY <1>5 DEF Do
  <2>2. /\ UNCHANGED <<owner, position, maxSeq, docs, toMongo>> /\ UNCHANGED faultVars
        /\ job[p].at = "idle"
    BY <1>5 DEF Do, consumerVars, storeVars
  <2>3. RankOK /\ Alone
    BY <1>f, <2>2
  <2>4. held[p] \in Seq(Message) /\ n \in 0 .. Len(held[p])
    BY DEF TypeOK
  <2>5. OnlyJobOf(p) /\ job'[p].at = "transient" /\ job'[p].msgs = SubSeq(held[p], 1, n) /\ job'[p].lane = "msg"
    <3>1. SubSeq(held[p], 1, n) \in Seq(Message)
      BY <2>4, Split
    <3> QED
      BY <2>1, <3>1, DoEffect
  <2>6. held'[p] = SubSeq(held[p], n + 1, Len(held[p]))
    BY <2>1 DEF TypeOK
  <2>7. p = owner
    <3>1. held[p] # << >>
      BY <2>4
    <3> QED
      BY <2>3, <3>1 DEF Alone
  <2>8. /\ Runs(held'[p], job'[p], position)
        /\ \A l \in Lane : Reached(held'[p], job'[p], l, position) = Reached(held[p], job[p], l, position)
    <3> DEFINE h == held[p]
               j == job[p]
               r == job'[p]
    <3>1. h \in Seq(Nat) /\ n \in 0 .. Len(h) /\ Runs(h, j, position) /\ j.at = "idle"
      BY <1>h, <2>2, <2>3, <2>4, <2>7 DEF RankOK
    <3>2. r.msgs = SubSeq(h, 1, n) /\ r.at = "transient" /\ r.lane = "msg"
      BY <2>5
    <3>3. /\ Runs(SubSeq(h, n + 1, Len(h)), r, position)
          /\ \A l \in Lane : Reached(SubSeq(h, n + 1, Len(h)), r, l, position) = Reached(h, j, l, position)
      <4> HIDE DEF h, j, r
      <4> QED
        BY <1>0, <3>1, <3>2, RunsDo
    <3> QED
      BY <2>6, <3>3
  <2>9. ASSUME NEW l \in Lane PROVE Storing(l)' \subseteq Storing(l)
    <3>1. job'[p].at \notin WithSeqs
      BY <2>5 DEF WithSeqs
    <3>2. InJobs(WithSeqs, l)' \subseteq InJobs(WithSeqs, l)
      BY <1>0, <2>5, <3>1, JobsFewer
    <3> QED
      BY <2>2, <3>2, TopicsSame DEF Storing
  <2> QED
    BY <1>0, <2>2, <2>3, <2>7, <2>8, <2>9, RankKept
<1>6. ASSUME NEW p \in Proc, Step(p), ~ Do(p) PROVE RankOK'
  <2>1. /\ job[p].at # "idle" /\ OnlyJobOf(p) /\ UNCHANGED <<consumerVars, held, docs>>
        /\ UNCHANGED <<failures, crashes, moves, refused>>
        /\ \/ /\ Leave(p) /\ (Storage(p) = << >> \/ job[p].at \in WithSeqs)
              /\ UNCHANGED <<maxSeq, toMongo>>
           \/ /\ SameBatch(p) /\ job'[p].at # "idle" /\ (job'[p].at \in WithSeqs <=> job[p].at \in WithSeqs)
              /\ UNCHANGED maxSeq
              /\ \/ UNCHANGED toMongo
                 \/ /\ job[p].at \in WithSeqs
                    /\ toMongo' = Append(toMongo, [lane |-> job[p].lane, batch |-> Batch(p)])
           \/ /\ job[p].at = "malloc" /\ job'[p].at = "cache" /\ job'[p].base = maxSeq[job[p].lane]
              /\ job'[p].lane = job[p].lane /\ job'[p].msgs = job[p].msgs
              /\ maxSeq' = [maxSeq EXCEPT ![job[p].lane] = @ + Len(Storage(p))]
              /\ UNCHANGED toMongo
    BY <1>0, <1>6, RankMoves
  <2>2. RankOK /\ Alone
    BY <1>i, <2>1
  <2>3. p = owner
    BY <2>1, <2>2 DEF Alone
  <2>4. CASE /\ Leave(p) /\ (Storage(p) = << >> \/ job[p].at \in WithSeqs)
             /\ UNCHANGED <<maxSeq, toMongo>>
    <3>1. owner' = owner /\ position' = position /\ held' = held /\ docs' = docs
      BY <2>1 DEF consumerVars
    <3>2. Runs(held[p], job[p], position)
      BY <2>2, <2>3 DEF RankOK
    <3> DEFINE h == held[p]
    <3>3. h \in Seq(Message)
      BY DEF TypeOK
    <3>4. /\ Runs(h, job'[p], position)
          /\ \A l \in Lane : RankOf(l, Reached(h, job'[p], l, position)) = RankOf(l, Reached(h, job[p], l, position))
      <4>1. Runs(h, job[p], position)
        BY <3>2
      <4> HIDE DEF h
      <4> QED
        BY <1>0, <2>1, <2>4, <3>3, <4>1, RankLeave
    <3>5. ASSUME NEW l \in Lane PROVE Storing(l)' \subseteq Storing(l)
      <4>1. InJobs(WithSeqs, l)' \subseteq InJobs(WithSeqs, l)
        BY <1>0, <2>4, LeaveFewer
      <4> QED
        BY <2>4, <3>1, <4>1, TopicsSame DEF Storing
    <3>6. /\ Runs(held'[owner], job'[owner], position')
          /\ \A l \in Lane : RankOf(l, Reached(held'[owner], job'[owner], l, position')) =
                               RankOf(l, Reached(held[owner], job[owner], l, position))
      BY <2>3, <3>1, <3>4
    <3> QED
      BY <1>0, <2>2, <2>4, <3>1, <3>5, <3>6, RankKept
  <2>5. CASE /\ SameBatch(p) /\ job'[p].at # "idle" /\ (job'[p].at \in WithSeqs <=> job[p].at \in WithSeqs)
             /\ UNCHANGED maxSeq
             /\ \/ UNCHANGED toMongo
                \/ /\ job[p].at \in WithSeqs
                   /\ toMongo' = Append(toMongo, [lane |-> job[p].lane, batch |-> Batch(p)])
    BY <1>0, <2>1, <2>2, <2>3, <2>5, RankStays
  <2>6. CASE /\ job[p].at = "malloc" /\ job'[p].at = "cache" /\ job'[p].base = maxSeq[job[p].lane]
             /\ job'[p].lane = job[p].lane /\ job'[p].msgs = job[p].msgs
             /\ maxSeq' = [maxSeq EXCEPT ![job[p].lane] = @ + Len(Storage(p))]
             /\ UNCHANGED toMongo
    BY <1>0, <2>1, <2>2, <2>3, <2>6, RankGiven
  <2> QED
    BY <2>1, <2>4, <2>5, <2>6
<1>7. ASSUME NEW p \in Proc, SetHasReadSeqToDB(p) PROVE RankOK'
  <2>1. UNCHANGED <<owner, position, held, job, maxSeq, docs, toMongo>> /\ (UNCHANGED faultVars \/ Failure)
    BY <1>7 DEF SetHasReadSeqToDB, consumerVars, storeVars
  <2> QED
    BY <2>1, <1>f, <1>k
<1>8. CASE HandleChatWs2Mongo
  <2>1. /\ UNCHANGED <<owner, position, held, job, maxSeq>> /\ (UNCHANGED faultVars \/ Failure)
        /\ toMongo # << >> /\ toMongo' = Tail(toMongo)
    BY <1>8 DEF HandleChatWs2Mongo, consumerVars
  <2>2. RankOK /\ ~ Failure
    <3>1. failures \in Nat
      BY BoundAssumption DEF TypeOK
    <3> QED
      BY <2>1, <1>f, <3>1 DEF Failure
  <2> DEFINE k == Head(toMongo).lane
             b == Head(toMongo).batch
  <2>3. docs' = [docs EXCEPT ![k] = @ \cup ToSet(b)]
    BY <1>8, <2>2 DEF HandleChatWs2Mongo
  <2> HIDE DEF b
  <2>4. ASSUME NEW l \in Lane PROVE docs'[l] = docs[l] \cup (IF k = l THEN ToSet(b) ELSE {})
    BY <2>3 DEF TypeOK
  <2>5. ASSUME NEW l \in Lane PROVE Storing(l)' \subseteq Storing(l)
    <3>1. Waiting(l) = Waiting(l)' \cup (IF k = l THEN ToSet(b) ELSE {})
      BY <2>1, WaitingTaken DEF b
    <3>2. InJobs(WithSeqs, l)' = InJobs(WithSeqs, l)
      BY <1>0, <2>1, JobsSame
    <3> QED
      BY <2>4, <3>1, <3>2 DEF Storing
  <2>6. /\ Runs(held'[owner], job'[owner], position')
        /\ \A l \in Lane : RankOf(l, Reached(held'[owner], job'[owner], l, position')) =
                             RankOf(l, Reached(held[owner], job[owner], l, position))
    BY <2>1, <2>2 DEF RankOK
  <2> QED
    BY <1>0, <2>1, <2>2, <2>5, <2>6, RankKept
<1> QED
  BY <1>1, <1>2, <1>3, <1>4, <1>5, <1>6, <1>7, <1>8 DEF Next, Step

\* Nothing has a rank before the first message.
LEMMA RankZero ==
  ASSUME topic \in Topics, NEW l \in Lane
  PROVE  RankOf(l, 0) = 0
<1>1. \A m \in StoredIn(l) : m \in Nat \ {0}
  BY StoredFinite
<1>2. {m \in StoredIn(l) : m <= 0} = {}
  BY <1>1
<1>3. Cardinality({}) = 0
  BY FS_EmptySet
<1> QED
  BY <1>2, <1>3 DEF RankOf, Rank

LEMMA RankInit ==
  ASSUME Init
  PROVE  RankInv
<1>1. /\ held = [p \in Proc |-> << >>] /\ job = [p \in Proc |-> NoJob] /\ toMongo = << >>
      /\ owner \in Proc /\ position = 0 /\ maxSeq = [l \in Lane |-> 0] /\ docs = [l \in Lane |-> {}]
      /\ topic \in Topics
  BY DEF Init
<1>2. \A p \in Proc : job[p].at = "idle" /\ held[p] = << >> /\ "idle" \notin WithSeqs
  BY <1>1 DEF NoJob, WithSeqs
<1>3. ToSet(<< >>) = {}
  BY DEF ToSet
<1>4. \A l \in Lane : Storing(l) = {}
  BY <1>1, <1>2, <1>3 DEF Storing, Waiting, InJobs
<1>5. Len(<< >>) = 0 /\ 0 - 0 = 0 /\ 0 \in Nat /\ DOMAIN << >> = {}
  OBVIOUS
<1>6. Runs(held[owner], job[owner], position)
  BY <1>1, <1>2, <1>5 DEF Runs, Run
<1>7. \A l \in Lane : Reached(held[owner], job[owner], l, position) = 0
  BY <1>1, <1>2, <1>5 DEF Reached, Ahead
<1>8. \A l \in Lane : maxSeq[l] = RankOf(l, Reached(held[owner], job[owner], l, position))
  BY <1>1, <1>7, RankZero
<1> QED
  BY <1>4, <1>6, <1>8 DEF RankInv, RankOK

\* The messages stored in a lane, in the order of the topic, have their ranks as
\* seqs.
LEMMA StoredBatch ==
  ASSUME topic \in Topics, NEW l \in Lane
  PROVE  ToSet(Numbered(OfKinds([i \in Message |-> i], StoredKinds[l]), 0)) =
           {[seq |-> RankOf(l, m), msg |-> m] : m \in StoredIn(l)}
<1> DEFINE s == [i \in Message |-> i]
           S == StoredIn(l)
           t == Only(s, S)
<1>1. Message = 1 .. Len(topic) /\ Len(topic) \in Nat /\ S \in SUBSET Message
  BY Messages
<1>2. s \in Seq(Nat) /\ Len(s) = Len(topic) /\ \A i \in 1 .. Len(topic) : s[i] = i
  BY <1>1
<1>3. OfKinds(s, StoredKinds[l]) = t
  BY DEF OfKinds, StoredIn, Message
<1>4. S \in SUBSET (Nat \ {0}) /\ IsFiniteSet(S) /\ Rank(S, 0) = 0
  BY StoredFinite, RankZero DEF RankOf
<1> HIDE DEF s, S
<1>5. DOMAIN t = 1 .. Len(t) /\ Len(t) \in Nat
  <2>1. t \in Seq(Nat)
    BY <1>2, OnlyType
  <2> QED
    BY <2>1, LenProperties
<1> DEFINE N == Len(t)
<1>6. \A k \in 1 .. N : t[k] \in S /\ Rank(S, t[k]) = k
  <2>1. \A i \in 1 .. Len(s) : s[i] = 0 + i
    BY <1>1, <1>2
  <2>2. \A k \in 1 .. N : t[k] \in S /\ Rank(S, t[k]) = Rank(S, 0) + k
    BY <1>2, <1>4, <2>1, RankRun
  <2> QED
    BY <1>4, <1>5, <2>2
<1>7. \A m \in S : \E k \in 1 .. N : t[k] = m
  <2> TAKE m \in S
  <2>1. m \in 1 .. Len(s) /\ s[m] = m
    BY <1>1, <1>2
  <2> QED
    BY <1>2, <2>1, OnlyHas
<1> HIDE DEF t
<1>8. Numbered(t, 0) = [i \in 1 .. N |-> [seq |-> i, msg |-> t[i]]]
  <2>1. \A i \in 1 .. N : 0 + i = i
    BY <1>5
  <2> QED
    BY <1>5, <2>1 DEF Numbered
<1>9. ToSet(Numbered(t, 0)) = {[seq |-> i, msg |-> t[i]] : i \in 1 .. N}
  BY <1>8 DEF ToSet
<1>10. ASSUME NEW e \in ToSet(Numbered(t, 0))
       PROVE  e \in {[seq |-> Rank(S, m), msg |-> m] : m \in S}
  <2>1. PICK i \in 1 .. N : e = [seq |-> i, msg |-> t[i]]
    BY <1>9
  <2> QED
    BY <1>6, <2>1
<1>11. ASSUME NEW m \in S PROVE [seq |-> Rank(S, m), msg |-> m] \in ToSet(Numbered(t, 0))
  <2>1. PICK k \in 1 .. N : t[k] = m
    BY <1>7
  <2> QED
    BY <1>6, <1>9, <2>1
<1>12. ToSet(Numbered(t, 0)) = {[seq |-> Rank(S, m), msg |-> m] : m \in S}
  BY <1>10, <1>11
<1> QED
  BY <1>3, <1>12 DEF RankOf, s, S

\* If nothing fails, no process crashes and the partition stays, the messages
\* to be stored in a lane are stored once, in the order of the topic, with the
\* seqs from 1 on and no gap, however the batches fall.
THEOREM StoredInOrder == Spec => []StoredOnce
<1>1. ASSUME TypeOK, FlowInv, LossInv, RankInv PROVE StoredOnce
  <2> SUFFICES ASSUME Quiet, failures = 0, crashes = 0, moves = 0, ~ refused, NEW l \in Lane
               PROVE  docs[l] = ToSet(Numbered(OfKinds([i \in Message |-> i], StoredKinds[l]), 0))
    BY DEF StoredOnce
  <2>1. \A x \in docs[l] : x.msg \in StoredIn(l) /\ x.seq = RankOf(l, x.msg)
    BY <1>1 DEF RankInv, Perfect, RankOK, Storing
  <2>2. \A x \in docs[l] : x = [seq |-> x.seq, msg |-> x.msg]
    BY <1>1 DEF TypeOK, Entry
  <2>3. \A m \in StoredIn(l) : \E x \in docs[l] : x.msg = m
    BY <1>1, QuietStored DEF NothingLost
  <2>4. docs[l] = {[seq |-> RankOf(l, m), msg |-> m] : m \in StoredIn(l)}
    BY <2>1, <2>2, <2>3
  <2>5. topic \in Topics
    BY <1>1 DEF TypeOK
  <2> QED
    BY <2>4, <2>5, StoredBatch
<1> QED
  BY <1>1, TypeInit, TypeStep, FlowInit, FlowStep, OrderInit, OrderStep, LossInit, LossStep,
     RankInit, RankStep, PTL DEF Spec

=============================================================================
