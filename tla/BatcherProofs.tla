---------------------------- MODULE BatcherProofs ----------------------------
(***************************************************************************)
(* TLAPS proofs about Batcher: that it implements KeyedQueue (InOrder),    *)
(* that OnComplete waits for what was received (CompleteAfterDo), and that *)
(* Close waits for what was accepted (CloseDrains).                        *)
(***************************************************************************)
EXTENDS Batcher, Subsequences, FiniteSetTheorems, SequenceTheorems,
        WellFoundedInduction, TLAPS

-----------------------------------------------------------------------------
(* Subsequences: the places of a sequence that are kept, and their ranks.  *)
(* Least and largest elements of a set of numbers stand for induction.     *)

\* Every set of naturals that is not empty has a least element.
LEMMA NatMin ==
  ASSUME NEW T \in SUBSET Nat, T # {}
  PROVE  \E x \in T : \A y \in T : x <= y
<1> DEFINE R == {z \in Nat \X Nat : z[1] < z[2]}
<1>1. IsWellFoundedOn(R, Nat)
  BY NatLessThanWellFounded DEF OpToRel
<1>2. \E x \in T : \A y \in T : ~(<<y, x>> \in R)
  <2> HIDE DEF R
  <2> QED
    BY <1>1, WFMin
<1>3. PICK x \in T : \A y \in T : ~(<<y, x>> \in R)
  BY <1>2
<1>4. ASSUME NEW y \in T PROVE x <= y
  <2>1. ~(y < x)
    BY <1>3, <1>4
  <2> QED
    BY <2>1
<1> QED
  BY <1>4

\* A set of naturals that is finite has a bound.
LEMMA NatBound ==
  ASSUME NEW S \in SUBSET Nat, IsFiniteSet(S)
  PROVE  \E m \in Nat : \A x \in S : x <= m
<1> DEFINE Bounded(X) == \E m \in Nat : \A x \in X : x <= m
           T == {n \in Nat : \E X \in SUBSET Nat : IsFiniteSet(X) /\ Cardinality(X) = n /\ ~Bounded(X)}
<1> SUFFICES ASSUME ~Bounded(S) PROVE FALSE
  OBVIOUS
<1>1. T # {}
  BY FS_CardinalityType
<1>2. PICK n \in T : \A k \in T : n <= k
  <2> HIDE DEF T
  <2>1. T \in SUBSET Nat
    BY DEF T
  <2> QED
    BY <1>1, <2>1, NatMin
<1>3. PICK X \in SUBSET Nat : IsFiniteSet(X) /\ Cardinality(X) = n /\ ~Bounded(X)
  OBVIOUS
<1>4. PICK x \in X : TRUE
  BY <1>3
<1>5. IsFiniteSet(X \ {x}) /\ Cardinality(X \ {x}) = n - 1 /\ n \in Nat
  BY <1>3, FS_RemoveElement, FS_CardinalityType
<1>6. n - 1 \in Nat
  BY <1>5, FS_CardinalityType
<1>7. Bounded(X \ {x})
  <2> SUFFICES ASSUME ~Bounded(X \ {x}) PROVE FALSE
    OBVIOUS
  <2>1. n - 1 \in T
    BY <1>5, <1>6
  <2> QED
    BY <2>1, <1>2, <1>5
<1>8. PICK m \in Nat : \A y \in X \ {x} : y <= m
  BY <1>7
<1>9. m + x \in Nat /\ \A y \in X : y <= m + x
  BY <1>8
<1>10. Bounded(X)
  BY <1>9
<1> QED
  BY <1>3, <1>10

\* The rank of a number among places is between 0 and how many there are.
LEMMA RankType ==
  ASSUME NEW P \in SUBSET Nat, IsFiniteSet(P), NEW i \in Nat
  PROVE  Rank(P, i) \in 0 .. Cardinality(P) /\ Cardinality(P) \in Nat
<1>1. {j \in P : j <= i} \subseteq P
  OBVIOUS
<1> QED
  BY <1>1, FS_Subset, FS_CardinalityType DEF Rank

\* A later place has a higher rank.
LEMMA RankGrows ==
  ASSUME NEW P \in SUBSET Nat, IsFiniteSet(P), NEW i \in Nat, NEW j \in P, i < j
  PROVE  Rank(P, i) < Rank(P, j)
<1> DEFINE A == {k \in P : k <= i}
           B == {k \in P : k <= j}
<1>0. j \in Nat /\ \A k \in P : k \in Nat
  OBVIOUS
<1>1. A \subseteq B /\ j \in B /\ j \notin A /\ B \subseteq P
  <2>1. \A k \in P : k <= i => k <= j
    BY <1>0
  <2>2. ~(j <= i) /\ j <= j
    BY <1>0
  <2> QED
    BY <2>1, <2>2
<1>2. IsFiniteSet(B)
  BY <1>1, FS_Subset
<1>3. Cardinality(A) <= Cardinality(B) /\ (Cardinality(A) = Cardinality(B) => A = B)
  <2> HIDE DEF A, B
  <2> QED
    BY <1>1, <1>2, FS_Subset
<1>4. Cardinality(A) \in Nat /\ Cardinality(B) \in Nat
  BY <1>1, <1>2, FS_Subset, FS_CardinalityType
<1> QED
  BY <1>1, <1>3, <1>4 DEF Rank

\* There is a place of every rank.
LEMMA NthExists ==
  ASSUME NEW P \in SUBSET (Nat \ {0}), IsFiniteSet(P), NEW k \in 1 .. Cardinality(P)
  PROVE  \E i \in P : Rank(P, i) = k
<1> DEFINE T == {i \in Nat : Rank(P, i) >= k}
<1>0. P \in SUBSET Nat /\ Cardinality(P) \in Nat /\ k \in Nat
  BY FS_CardinalityType
<1>1. T # {}
  <2>1. PICK m \in Nat : \A x \in P : x <= m
    BY <1>0, NatBound
  <2>2. {j \in P : j <= m} = P
    BY <2>1
  <2> QED
    BY <1>0, <2>2 DEF Rank
<1>2. PICK i \in T : \A n \in T : i <= n
  <2> HIDE DEF T
  <2>1. T \in SUBSET Nat
    BY DEF T
  <2> QED
    BY <1>1, <2>1, NatMin
<1>3. i # 0
  <2> SUFFICES ASSUME i = 0 PROVE FALSE
    OBVIOUS
  <2>1. \A j \in P : ~(j <= i)
    OBVIOUS
  <2>3. {j \in P : j <= i} = {}
    BY <2>1
  <2> QED
    BY <2>3, <1>2, <1>0, FS_EmptySet DEF Rank
<1> DEFINE h == i - 1
           A == {j \in P : j <= h}
           B == {j \in P : j <= i}
<1>4. h \in Nat /\ h < i /\ i \in Nat
  BY <1>3
<1>5. h \notin T
  BY <1>2, <1>4
<1>6. Rank(P, h) < k /\ Rank(P, h) \in Nat /\ Rank(P, i) >= k /\ Rank(P, i) \in Nat
  <2>1. Rank(P, h) \in Nat /\ Rank(P, i) \in Nat
    BY <1>0, <1>4, RankType
  <2> QED
    BY <1>0, <1>4, <1>5, <2>1
<1>7. i \in P
  <2> SUFFICES ASSUME i \notin P PROVE FALSE
    OBVIOUS
  <2>2. \A j \in P : j # i /\ j \in Nat
    BY <1>0
  <2>3. \A j \in P : j <= h <=> j <= i
    BY <2>2, <1>4
  <2>1. A = B
    BY <2>3
  <2> QED
    BY <2>1, <1>6, <1>0 DEF Rank
<1>8. B = A \cup {i} /\ i \notin A /\ IsFiniteSet(A)
  <2>1. IsFiniteSet(A)
    BY FS_Subset
  <2>2. \A j \in P : j \in Nat
    BY <1>0
  <2>3. \A j \in P : j <= i <=> j <= h \/ j = i
    BY <2>2, <1>4
  <2>4. ~(i <= h)
    BY <1>4
  <2> QED
    BY <2>1, <2>3, <2>4, <1>7
<1>9. Rank(P, i) = Rank(P, h) + 1
  <2> HIDE DEF A, B
  <2>1. Cardinality(B) = Cardinality(A) + 1
    BY <1>8, FS_AddElement
  <2> QED
    BY <2>1 DEF Rank, A, B
<1> QED
  BY <1>0, <1>6, <1>7, <1>9

\* The place of a rank is the one that has it.
LEMMA NthIs ==
  ASSUME NEW P \in SUBSET (Nat \ {0}), IsFiniteSet(P)
  PROVE  /\ \A k \in 1 .. Cardinality(P) : Nth(P, k) \in P /\ Rank(P, Nth(P, k)) = k
         /\ \A i \in P : Rank(P, i) \in 1 .. Cardinality(P) /\ Nth(P, Rank(P, i)) = i
<1>0. P \in SUBSET Nat
  OBVIOUS
<1>1. ASSUME NEW k \in 1 .. Cardinality(P)
      PROVE  Nth(P, k) \in P /\ Rank(P, Nth(P, k)) = k
  <2>1. \E i \in P : Rank(P, i) = k
    BY NthExists
  <2> QED
    BY <2>1 DEF Nth
<1>2. ASSUME NEW i \in P
      PROVE  Rank(P, i) \in 1 .. Cardinality(P) /\ Nth(P, Rank(P, i)) = i
  <2>1. Rank(P, 0) < Rank(P, i)
    BY <1>0, RankGrows
  <2>2. Rank(P, 0) \in Nat /\ Rank(P, i) \in 0 .. Cardinality(P) /\ Cardinality(P) \in Nat
    BY <1>0, RankType
  <2>3. Rank(P, i) \in 1 .. Cardinality(P)
    BY <2>1, <2>2
  <2>4. Nth(P, Rank(P, i)) \in P /\ Rank(P, Nth(P, Rank(P, i))) = Rank(P, i)
    BY <1>1, <2>3
  <2>5. \A a, b \in P : a < b => Rank(P, a) < Rank(P, b)
    BY <1>0, RankGrows
  <2>6. \A a, b \in P : Rank(P, a) = Rank(P, b) => a = b
    <3> SUFFICES ASSUME NEW a \in P, NEW b \in P, Rank(P, a) = Rank(P, b), a # b PROVE FALSE
      OBVIOUS
    <3>1. Rank(P, a) \in Nat
      BY <1>0, RankType
    <3>2. a < b \/ b < a
      BY <1>0
    <3> QED
      BY <2>5, <3>1, <3>2
  <2> QED
    BY <2>3, <2>4, <2>6
<1> QED
  BY <1>1, <1>2

\* The places of a sequence are a finite set of positive numbers.
LEMMA PlacesType ==
  ASSUME NEW T, NEW s \in Seq(T), NEW S
  PROVE  /\ Places(s, S) \in SUBSET (Nat \ {0}) /\ IsFiniteSet(Places(s, S))
         /\ Cardinality(Places(s, S)) \in Nat
         /\ Places(s, S) \in SUBSET (1 .. Len(s))
<1>1. Places(s, S) \in SUBSET (1 .. Len(s)) /\ Len(s) \in Nat
  BY DEF Places
<1>2. IsFiniteSet(1 .. Len(s))
  BY <1>1, FS_Interval
<1>3. IsFiniteSet(Places(s, S))
  BY <1>1, <1>2, FS_Subset
<1> QED
  BY <1>1, <1>3, FS_CardinalityType

\* Only(s, S) is a sequence, as long as s has places in S, of elements of s in S.
LEMMA OnlyType ==
  ASSUME NEW T, NEW s \in Seq(T), NEW S
  PROVE  /\ Only(s, S) \in Seq(T) /\ Len(Only(s, S)) = Cardinality(Places(s, S))
         /\ DOMAIN Only(s, S) = 1 .. Len(Only(s, S))
         /\ \A k \in 1 .. Len(Only(s, S)) : \E i \in 1 .. Len(s) :
              Only(s, S)[k] = s[i] /\ s[i] \in S
<1> DEFINE P == Places(s, S)
           n == Cardinality(P)
<1>1. P \in SUBSET (Nat \ {0}) /\ IsFiniteSet(P) /\ n \in Nat /\ P \in SUBSET (1 .. Len(s))
  BY PlacesType
<1>2. \A k \in 1 .. n : Nth(P, k) \in P
  <2> HIDE DEF P
  <2> QED
    BY <1>1, NthIs
<1>3. Only(s, S) = [k \in 1 .. n |-> s[Nth(P, k)]]
  BY DEF Only
<1>4. \A i \in P : s[i] \in T /\ s[i] \in S /\ i \in 1 .. Len(s)
  BY DEF Places
<1> HIDE DEF P, n
<1>5. \A k \in 1 .. n : s[Nth(P, k)] \in T
  BY <1>2, <1>4
<1>6. Only(s, S) \in Seq(T) /\ Len(Only(s, S)) = n /\ DOMAIN Only(s, S) = 1 .. n
  <2> DEFINE f == [k \in 1 .. n |-> s[Nth(P, k)]]
  <2>1. f \in [1 .. n -> T]
    BY <1>5
  <2> HIDE DEF f
  <2>2. f \in Seq(T) /\ Len(f) = n /\ DOMAIN f = 1 .. n
    BY <1>1, <2>1
  <2> QED
    BY <2>2, <1>3 DEF f
<1>7. \A k \in 1 .. n : \E i \in 1 .. Len(s) : Only(s, S)[k] = s[i] /\ s[i] \in S
  BY <1>2, <1>3, <1>4
<1> QED
  BY <1>6, <1>7 DEF n, P

\* Every element of s in S is in it.
LEMMA OnlyHas ==
  ASSUME NEW T, NEW s \in Seq(T), NEW S, NEW i \in 1 .. Len(s), s[i] \in S
  PROVE  \E k \in 1 .. Len(Only(s, S)) : Only(s, S)[k] = s[i]
<1> DEFINE P == Places(s, S)
           n == Cardinality(P)
<1>1. P \in SUBSET (Nat \ {0}) /\ IsFiniteSet(P) /\ n \in Nat /\ i \in P
  BY PlacesType DEF Places
<1>2. Only(s, S) = [k \in 1 .. n |-> s[Nth(P, k)]] /\ Len(Only(s, S)) = n
  BY OnlyType DEF Only
<1> HIDE DEF P
<1>3. Rank(P, i) \in 1 .. n /\ Nth(P, Rank(P, i)) = i
  BY <1>1, NthIs
<1> QED
  BY <1>2, <1>3

\* It is empty only if s has no element in S.
LEMMA OnlyEmpty ==
  ASSUME NEW T, NEW s \in Seq(T), NEW S
  PROVE  Only(s, S) = <<>> <=> \A i \in 1 .. Len(s) : s[i] \notin S
<1>1. Only(s, S) \in Seq(T) /\ Len(Only(s, S)) \in Nat
  BY OnlyType
<1>2. Only(s, S) = <<>> <=> Len(Only(s, S)) = 0
  BY <1>1
<1>3. ASSUME NEW i \in 1 .. Len(s), s[i] \in S PROVE Len(Only(s, S)) # 0
  BY <1>3, <1>1, OnlyHas
<1>4. ASSUME Len(Only(s, S)) # 0 PROVE \E i \in 1 .. Len(s) : s[i] \in S
  <2>1. 1 \in 1 .. Len(Only(s, S))
    BY <1>1, <1>4
  <2> QED
    BY <2>1, OnlyType
<1> QED
  BY <1>2, <1>3, <1>4

\* Up to a place, the ranks among the places of a prefix are those of the whole.
LEMMA PrefixRank ==
  ASSUME NEW P \in SUBSET (Nat \ {0}), IsFiniteSet(P), NEW n \in Nat
  PROVE  LET Q == {i \in P : i <= n} IN
         /\ Q \in SUBSET (Nat \ {0}) /\ IsFiniteSet(Q) /\ Cardinality(Q) \in 0 .. Cardinality(P)
         /\ \A k \in 1 .. Cardinality(Q) : Nth(Q, k) = Nth(P, k)
<1> DEFINE Q == {i \in P : i <= n}
<1>1. Q \in SUBSET (Nat \ {0}) /\ Q \subseteq P
  OBVIOUS
<1> HIDE DEF Q
<1>2. /\ IsFiniteSet(Q) /\ Cardinality(Q) \in Nat /\ Cardinality(P) \in Nat
      /\ Cardinality(Q) <= Cardinality(P)
  BY <1>1, FS_Subset, FS_CardinalityType
<1>3. ASSUME NEW k \in 1 .. Cardinality(Q) PROVE Nth(Q, k) = Nth(P, k)
  <2> DEFINE i == Nth(Q, k)
  <2>1. i \in Q /\ Rank(Q, i) = k
    BY <1>1, <1>2, NthIs
  <2> HIDE DEF i
  <2>2. i \in P /\ i <= n /\ i \in Nat
    BY <2>1, <1>1 DEF Q
  <2>3. {j \in Q : j <= i} = {j \in P : j <= i}
    <3>1. ASSUME NEW j \in P, j <= i PROVE j \in Q
      <4>1. j \in Nat
        BY <3>1
      <4>2. j <= n
        BY <4>1, <3>1, <2>2
      <4> QED
        BY <4>2 DEF Q
    <3> QED
      BY <3>1, <1>1
  <2>4. Rank(P, i) = k
    BY <2>1, <2>3 DEF Rank
  <2>5. Nth(P, Rank(P, i)) = i
    BY <2>2, NthIs
  <2> QED
    BY <2>4, <2>5 DEF i
<1> QED
  BY <1>1, <1>2, <1>3 DEF Q

\* The elements in S of a prefix of s are a prefix of those of s.
LEMMA OnlyPrefix ==
  ASSUME NEW T, NEW s \in Seq(T), NEW S, NEW n \in 0 .. Len(s)
  PROVE  LET Q == {i \in Places(s, S) : i <= n} IN
         /\ Len(Only(SubSeq(s, 1, n), S)) = Cardinality(Q)
         /\ Cardinality(Q) \in 0 .. Len(Only(s, S))
         /\ \A k \in 1 .. Cardinality(Q) : Only(SubSeq(s, 1, n), S)[k] = Only(s, S)[k]
<1> DEFINE P == Places(s, S)
           Q == {i \in P : i <= n}
           t == SubSeq(s, 1, n)
<1>1. n \in Nat /\ Len(s) \in Nat /\ n <= Len(s) /\ DOMAIN s = 1 .. Len(s)
  OBVIOUS
<1>2. t \in Seq(T) /\ Len(t) = n /\ DOMAIN t = 1 .. n /\ \A i \in 1 .. n : t[i] = s[i]
  BY <1>1
<1>3. Places(t, S) = Q
  <2> HIDE DEF t
  <2>1. Places(t, S) = {i \in 1 .. n : s[i] \in S}
    BY <1>2 DEF Places
  <2>2. P = {i \in 1 .. Len(s) : s[i] \in S}
    BY <1>1 DEF Places
  <2>3. Q = {i \in 1 .. n : s[i] \in S}
    BY <2>2, <1>1
  <2> QED
    BY <2>1, <2>3
<1>4. P \in SUBSET (Nat \ {0}) /\ IsFiniteSet(P) /\ P \in SUBSET (1 .. Len(s))
  BY PlacesType
<1>5. Len(Only(s, S)) = Cardinality(P) /\ Len(Only(t, S)) = Cardinality(Q)
  <2> HIDE DEF P, Q, t
  <2>1. Len(Only(t, S)) = Cardinality(Places(t, S))
    BY <1>2, OnlyType
  <2> QED
    BY <2>1, <1>3, OnlyType DEF P
<1>6. /\ Q \in SUBSET (Nat \ {0}) /\ IsFiniteSet(Q) /\ Cardinality(Q) \in 0 .. Cardinality(P)
      /\ Cardinality(P) \in Nat /\ \A k \in 1 .. Cardinality(Q) : Nth(Q, k) = Nth(P, k)
  <2> HIDE DEF P
  <2> QED
    BY <1>1, <1>4, PrefixRank, FS_CardinalityType
<1>7. ASSUME NEW k \in 1 .. Cardinality(Q) PROVE Only(t, S)[k] = Only(s, S)[k]
  <2> HIDE DEF P, Q, t
  <2>1. Only(t, S)[k] = t[Nth(Q, k)]
    BY <1>3 DEF Only
  <2>2. k \in 1 .. Cardinality(P)
    BY <1>6
  <2>3. Only(s, S)[k] = s[Nth(P, k)]
    BY <2>2 DEF Only, P
  <2>4. Nth(Q, k) \in Q
    BY <1>6, NthIs
  <2>5. Nth(Q, k) \in 1 .. n
    <3>1. \A i \in Q : i \in P /\ i <= n
      BY DEF Q
    <3>2. ASSUME NEW i \in Q PROVE i \in 1 .. n
      <4>1. i \in 1 .. Len(s) /\ i <= n
        BY <3>1, <1>4
      <4> QED
        BY <4>1, <1>1
    <3> QED
      BY <2>4, <3>2
  <2> QED
    BY <2>1, <2>3, <2>5, <1>2, <1>6
<1> QED
  BY <1>5, <1>6, <1>7

\* Appending to s appends to them, or leaves them as they are.
LEMMA OnlyAppend ==
  ASSUME NEW T, NEW s \in Seq(T), NEW S, NEW x \in T
  PROVE  Only(Append(s, x), S) = IF x \in S THEN Append(Only(s, S), x) ELSE Only(s, S)
<1> DEFINE t == Append(s, x)
           n == Len(s)
           P == Places(t, S)
           Q == {i \in P : i <= n}
<1>1. /\ n \in Nat /\ t \in Seq(T) /\ Len(t) = n + 1 /\ t[n + 1] = x /\ SubSeq(t, 1, n) = s
      /\ DOMAIN t = 1 .. n + 1
  OBVIOUS
<1>2. P \in SUBSET (Nat \ {0}) /\ IsFiniteSet(P) /\ P \in SUBSET (1 .. n + 1)
  <2> HIDE DEF t
  <2> QED
    BY <1>1, PlacesType
<1>3. /\ Len(Only(s, S)) = Cardinality(Q) /\ Cardinality(Q) \in 0 .. Len(Only(t, S))
      /\ \A k \in 1 .. Cardinality(Q) : Only(s, S)[k] = Only(t, S)[k]
  <2> HIDE DEF t, n
  <2>1. n \in 0 .. Len(t)
    BY <1>1
  <2> QED
    BY <1>1, <2>1, OnlyPrefix
<1>4. Only(t, S) \in Seq(T) /\ Len(Only(t, S)) = Cardinality(P)
  <2> HIDE DEF t
  <2> QED
    BY <1>1, OnlyType
<1>5. Only(s, S) \in Seq(T)
  BY OnlyType
<1>6. n + 1 \in P <=> x \in S
  BY <1>1 DEF Places
<1>7. Q \in SUBSET (Nat \ {0}) /\ IsFiniteSet(Q) /\ Cardinality(Q) \in Nat
  <2>1. Q \subseteq P
    OBVIOUS
  <2> HIDE DEF P, Q
  <2> QED
    BY <2>1, <1>2, FS_Subset, FS_CardinalityType
<1>8. P \subseteq Q \cup {n + 1} /\ n + 1 \notin Q
  BY <1>1, <1>2
<1>9. CASE x \in S
  <2>1. P = Q \cup {n + 1}
    BY <1>6, <1>8, <1>9
  <2>2. Cardinality(P) = Cardinality(Q) + 1
    <3> HIDE DEF P, Q
    <3> QED
      BY <2>1, <1>7, <1>8, FS_AddElement
  <2>3. Rank(P, n + 1) = Cardinality(P)
    <3>1. {j \in P : j <= n + 1} = P
      BY <1>1, <1>2
    <3> QED
      BY <3>1 DEF Rank
  <2>4. Nth(P, Cardinality(P)) = n + 1
    <3> HIDE DEF P
    <3>1. n + 1 \in P
      BY <1>6, <1>9
    <3> QED
      BY <2>3, <3>1, <1>2, NthIs
  <2>5. Cardinality(P) \in 1 .. Cardinality(P) /\ Cardinality(P) \in Nat
    BY <2>2, <1>7
  <2>6. Only(t, S)[Cardinality(P)] = x
    <3> HIDE DEF P, t, n
    <3>1. Only(t, S)[Cardinality(P)] = t[Nth(P, Cardinality(P))]
      BY <2>5 DEF Only, P
    <3> QED
      BY <3>1, <2>4, <1>1
  <2> DEFINE a == Only(s, S)
             b == Only(t, S)
             m == Cardinality(Q)
  <2>7. /\ a \in Seq(T) /\ b \in Seq(T) /\ m \in Nat /\ Len(a) = m /\ Len(b) = m + 1
        /\ b[m + 1] = x /\ \A k \in 1 .. m : a[k] = b[k]
    BY <1>3, <1>4, <1>5, <1>7, <2>2, <2>6
  <2> HIDE DEF a, b, m
  <2>8. b = Append(a, x)
    <3>1. Append(a, x) \in Seq(T) /\ Len(Append(a, x)) = m + 1
      BY <2>7
    <3>2. \A k \in 1 .. m + 1 : b[k] = Append(a, x)[k]
      BY <2>7
    <3> QED
      BY <2>7, <3>1, <3>2, SeqEqual
  <2> QED
    BY <2>8, <1>9 DEF a, b
<1>10. CASE x \notin S
  <2>1. P = Q
    BY <1>6, <1>8, <1>10
  <2> DEFINE a == Only(s, S)
             b == Only(t, S)
             m == Cardinality(Q)
  <2>2. /\ a \in Seq(T) /\ b \in Seq(T) /\ m \in Nat /\ Len(a) = m /\ Len(b) = m
        /\ \A k \in 1 .. m : a[k] = b[k]
    BY <1>3, <1>4, <1>5, <1>7, <2>1
  <2> HIDE DEF a, b, m
  <2>3. b = a
    BY <2>2, SeqEqual
  <2> QED
    BY <2>3, <1>10 DEF a, b
<1> QED
  BY <1>9, <1>10

-----------------------------------------------------------------------------
(* The invariant.                                                          *)

\* v is what follows the first a elements of r up to the b-th.
Piece(r, a, b, v) ==
  /\ a \in Nat /\ b \in Nat /\ a <= b /\ b <= Len(r)
  /\ v \in Seq(Item) /\ Len(v) = b - a
  /\ \A n \in 1 .. b - a : v[n] = r[a + n]

\* What a worker has in hand (0) and in its channel, and whether it is of k.
At(b, c, p) == IF p = 0 THEN b ELSE c[p]
IsOf(x, k) == x # Nil /\ x.key = k

\* Of a worker with b in hand and c in its channel the p-th batch starts after f[p]
\* items of k, and v is what follows the last.
Cuts(k, r, h, b, c, v, f) ==
  /\ f[0] = Len(h)
  /\ \A p \in 0 .. Len(c) :
       IF IsOf(At(b, c, p), k)
       THEN f[p] < f[p + 1] /\ Piece(r, f[p], f[p + 1], At(b, c, p).val)
       ELSE f[p + 1] = f[p]
  /\ Piece(r, f[Len(c) + 1], Len(r), v)

\* What was received of key k, r, has been handled, or is with the worker, or in its
\* channel, or with the scheduler, in this order.
Row(k, r, h, b, c, v) ==
  /\ Piece(r, 0, Len(h), h)
  /\ \E f \in [0 .. Len(c) + 1 -> 0 .. Len(r)] : Cuts(k, r, h, b, c, v, f)

\* The items of k that the scheduler has received, and those it still holds.
Recv(k) == Queue!OfKey(SubSeq(accepted, 1, received), k)
Pending(k) == IF sched = "send" /\ k \notin left THEN <<>> ELSE vals[k]

RowOf(k) == Row(k, Recv(k), handled[k], busy[Shard[k]], chans[Shard[k]], Pending(k))
RowInv == \A k \in Key : RowOf(k)

\* The nil of Close has been received; it is in the channel.
Ended == stopping \/ sched = "exited"
NilQueued == closer \in {"waiting", "closed"} /\ ~Ended

\* What was accepted and not received is in the channel, with the nil behind what
\* was accepted before it.
DataInv ==
  /\ received <= Len(accepted)
  /\ ~NilQueued => /\ Len(data) = Len(accepted) - received
                   /\ \A n \in 1 .. Len(data) : data[n] = accepted[received + n]
  /\ NilQueued =>
       /\ received <= cut /\ cut <= Len(accepted)
       /\ Len(data) = Len(accepted) - received + 1
       /\ \A n \in 1 .. Len(data) :
            data[n] = IF n <= cut - received THEN accepted[received + n]
                      ELSE IF n = cut - received + 1 THEN Nil
                      ELSE accepted[received + n - 1]
  /\ Ended => closer \in {"waiting", "closed"} /\ received = cut

\* An item that was accepted is not put again.
CallInv == \A n \in 1 .. Len(accepted) : call[accepted[n]] = "accepted"

\* Where the scheduler is and what it holds.
SchedInv ==
  /\ IsFiniteSet(Held(vals))
  /\ sched # "send" => left = {} /\ ~stopping
  /\ left \subseteq Gathered(vals)
  /\ sched = "exited" => \A k \in Key : vals[k] = <<>>

\* Batches are with the worker of their key, and a worker leaves nothing behind.
Mine(w, b, c) == \A p \in 0 .. Len(c) : At(b, c, p) # Nil => Shard[At(b, c, p).key] = w
WorkInv ==
  /\ \A w \in Worker : Mine(w, busy[w], chans[w])
  /\ \A w \in exited : Closed /\ chans[w] = <<>> /\ busy[w] = Nil
  /\ closer = "closed" => Closed /\ exited = Worker

\* The batches that are not handled, which the wait group counts.
OutOf(w, b, c) == {w} \X {p \in 0 .. Len(c) : p = 0 => b # Nil}
Out == UNION {OutOf(w, busy[w], chans[w]) : w \in Worker}
CountInv == SyncWait => IsFiniteSet(Out) /\ counter = Cardinality(Out)

IInv == TypeOK /\ RowInv /\ DataInv /\ CallInv /\ SchedInv /\ WorkInv /\ CountInv

-----------------------------------------------------------------------------
(* Pieces.                                                                 *)

\* A piece of r is one of r with an element more.
LEMMA PieceStays ==
  ASSUME NEW r \in Seq(Item), NEW x \in Item, NEW a, NEW b, NEW v, Piece(r, a, b, v)
  PROVE  Piece(Append(r, x), a, b, v)
<1>1. Len(Append(r, x)) = Len(r) + 1 /\ Len(r) \in Nat /\ \A n \in 1 .. Len(r) : Append(r, x)[n] = r[n]
  OBVIOUS
<1>2. \A n \in 1 .. b - a : a + n \in 1 .. Len(r)
  BY <1>1 DEF Piece
<1> QED
  BY <1>1, <1>2 DEF Piece

\* The end of r and one element more is the end of r with that element.
LEMMA PieceGrows ==
  ASSUME NEW r \in Seq(Item), NEW x \in Item, NEW a, NEW v, Piece(r, a, Len(r), v)
  PROVE  Piece(Append(r, x), a, Len(Append(r, x)), Append(v, x))
<1> DEFINE q == Append(r, x)
           u == Append(v, x)
           l == Len(r)
           m == Len(v)
<1>1. /\ l \in Nat /\ m \in Nat /\ a \in Nat /\ a <= l /\ m = l - a /\ v \in Seq(Item)
      /\ \A n \in 1 .. m : v[n] = r[a + n]
  BY DEF Piece
<1>2. /\ Len(q) = l + 1 /\ q[l + 1] = x /\ \A n \in 1 .. l : q[n] = r[n]
      /\ u \in Seq(Item) /\ Len(u) = m + 1 /\ u[m + 1] = x /\ \A n \in 1 .. m : u[n] = v[n]
  BY <1>1
<1> HIDE DEF q, u, l, m
<1>3. ASSUME NEW n \in 1 .. m + 1 PROVE u[n] = q[a + n]
  <2>1. CASE n = m + 1
    <3>1. a + n = l + 1
      BY <1>1, <2>1
    <3> QED
      BY <2>1, <3>1, <1>2
  <2>2. CASE n # m + 1
    <3>1. n \in 1 .. m /\ a + n \in 1 .. l
      BY <1>1, <2>2
    <3> QED
      BY <3>1, <1>1, <1>2
  <2> QED
    BY <2>1, <2>2
<1>4. Len(q) - a = m + 1 /\ a <= Len(q) /\ Len(q) \in Nat
  BY <1>1, <1>2
<1>5. Piece(q, a, Len(q), u)
  BY <1>1, <1>2, <1>3, <1>4 DEF Piece
<1> QED
  BY <1>5 DEF q, u

\* Two pieces, one behind the other, are one.
LEMMA PieceJoins ==
  ASSUME NEW r, NEW h, NEW b, NEW v, Piece(r, 0, Len(h), h), Piece(r, Len(h), b, v)
  PROVE  Piece(r, 0, b, h \o v) /\ Len(h \o v) = b
<1> DEFINE u == h \o v
           l == Len(h)
<1>1. /\ h \in Seq(Item) /\ v \in Seq(Item) /\ l \in Nat /\ b \in Nat /\ Len(v) = b - l
      /\ b <= Len(r) /\ l <= b
  BY DEF Piece
<1>2. /\ u \in Seq(Item) /\ Len(u) = l + Len(v)
      /\ \A n \in 1 .. l + Len(v) : u[n] = IF n <= l THEN h[n] ELSE v[n - l]
  BY <1>1, ConcatProperties
<1>3. \A n \in 1 .. l : h[n] = r[n]
  <2>1. \A n \in 1 .. l - 0 : h[n] = r[0 + n]
    BY DEF Piece
  <2>2. l - 0 = l
    BY <1>1
  <2> QED
    BY <2>1, <2>2, <1>1
<1>4. \A n \in 1 .. b - l : v[n] = r[l + n]
  BY DEF Piece
<1> HIDE DEF u, l
<1>5. ASSUME NEW n \in 1 .. b PROVE u[n] = r[0 + n]
  <2>1. n \in 1 .. l + Len(v) /\ 0 + n = n
    BY <1>1
  <2>2. CASE n <= l
    BY <1>2, <1>3, <2>1, <2>2
  <2>3. CASE ~(n <= l)
    <3>1. n - l \in 1 .. b - l /\ l + (n - l) = n
      BY <1>1, <2>3
    <3> QED
      BY <1>2, <1>4, <2>1, <2>3, <3>1
  <2> QED
    BY <2>2, <2>3
<1>6. Len(u) = b /\ b - 0 = b
  BY <1>1, <1>2
<1>7. Piece(r, 0, b, u)
  BY <1>1, <1>2, <1>5, <1>6 DEF Piece
<1> QED
  BY <1>6, <1>7 DEF u

\* All of r.
LEMMA PieceWhole ==
  ASSUME NEW r \in Seq(Item), NEW h, Piece(r, 0, Len(h), h), Len(h) = Len(r)
  PROVE  h = r
<1>1. h \in Seq(Item) /\ Len(r) \in Nat
  BY DEF Piece
<1>2. \A n \in 1 .. Len(h) - 0 : h[n] = r[0 + n]
  BY DEF Piece
<1>3. Len(h) - 0 = Len(h) /\ \A n \in 1 .. Len(h) : 0 + n = n
  BY <1>1
<1>4. \A n \in 1 .. Len(h) : h[n] = r[n]
  BY <1>2, <1>3
<1> QED
  BY <1>1, <1>4, SeqEqual

\* Nothing lies between a and b only if they are the same.
LEMMA PieceEmpty ==
  /\ \A r, a, b : Piece(r, a, b, <<>>) => a = b
  /\ \A r \in Seq(Item) : \A a \in 0 .. Len(r) : Piece(r, a, a, <<>>)
  /\ \A r, a, b, v : Piece(r, a, b, v) /\ v # <<>> => a < b
<1>1. ASSUME NEW r, NEW a, NEW b, Piece(r, a, b, <<>>) PROVE a = b
  BY <1>1 DEF Piece
<1>2. ASSUME NEW r \in Seq(Item), NEW a \in 0 .. Len(r) PROVE Piece(r, a, a, <<>>)
  <2>1. Len(r) \in Nat /\ a \in Nat /\ a <= Len(r) /\ a - a = 0
    OBVIOUS
  <2> QED
    BY <2>1 DEF Piece
<1>3. ASSUME NEW r, NEW a, NEW b, NEW v, Piece(r, a, b, v), v # <<>> PROVE a < b
  <2>1. v \in Seq(Item) /\ Len(v) = b - a /\ a \in Nat /\ b \in Nat /\ a <= b
    BY <1>3 DEF Piece
  <2>2. Len(v) # 0
    BY <2>1, <1>3
  <2> QED
    BY <2>1, <2>2
<1> QED
  BY <1>1, <1>2, <1>3

-----------------------------------------------------------------------------
(* What the steps do to a row.                                             *)

\* The scheduler receives an item of the key.
LEMMA RowReceives ==
  ASSUME NEW k, NEW r \in Seq(Item), NEW h, NEW b, NEW c \in Seq(Batch), NEW v, NEW x \in Item,
         Row(k, r, h, b, c, v)
  PROVE  Row(k, Append(r, x), h, b, c, Append(v, x))
<1>1. PICK f \in [0 .. Len(c) + 1 -> 0 .. Len(r)] : Cuts(k, r, h, b, c, v, f)
  BY DEF Row
<1> DEFINE q == Append(r, x)
<1>2. Len(q) = Len(r) + 1 /\ Len(r) \in Nat /\ q \in Seq(Item) /\ Len(c) \in Nat
  OBVIOUS
<1>3. f \in [0 .. Len(c) + 1 -> 0 .. Len(q)]
  <2> HIDE DEF q
  <2>1. 0 .. Len(r) \subseteq 0 .. Len(q)
    BY <1>2
  <2> QED
    BY <2>1
<1>4. Piece(q, 0, Len(h), h)
  BY PieceStays DEF Row
<1>5. Piece(q, f[Len(c) + 1], Len(q), Append(v, x))
  BY <1>1, PieceGrows DEF Cuts
<1>6. ASSUME NEW p \in 0 .. Len(c), IsOf(At(b, c, p), k)
      PROVE  f[p] < f[p + 1] /\ Piece(q, f[p], f[p + 1], At(b, c, p).val)
  BY <1>1, <1>6, PieceStays DEF Cuts
<1> HIDE DEF q
<1>7. Cuts(k, q, h, b, c, Append(v, x), f)
  BY <1>1, <1>5, <1>6 DEF Cuts
<1> QED
  BY <1>3, <1>4, <1>7 DEF Row, q

\* What the scheduler holds of the key is sent to the worker.
LEMMA RowSends ==
  ASSUME NEW k \in Key, NEW r \in Seq(Item), NEW h, NEW b, NEW c \in Seq(Batch), NEW v, v # <<>>,
         Nil \notin Batch, Row(k, r, h, b, c, v)
  PROVE  Row(k, r, h, b, Append(c, [key |-> k, val |-> v]), <<>>)
<1>1. PICK f \in [0 .. Len(c) + 1 -> 0 .. Len(r)] : Cuts(k, r, h, b, c, v, f)
  BY DEF Row
<1> DEFINE x == [key |-> k, val |-> v]
           d == Append(c, x)
           l == Len(c)
           g == [p \in 0 .. l + 2 |-> IF p <= l + 1 THEN f[p] ELSE Len(r)]
<1>2. l \in Nat /\ Len(r) \in Nat
  OBVIOUS
<1>3. Piece(r, f[l + 1], Len(r), v)
  BY <1>1 DEF Cuts
<1>4. x \in Batch /\ x # Nil /\ x.key = k /\ x.val = v
  BY <1>3 DEF Piece, Batch
<1>5. d \in Seq(Batch) /\ Len(d) = l + 1 /\ d[l + 1] = x /\ \A p \in 1 .. l : d[p] = c[p]
  <2> HIDE DEF x
  <2> QED
    BY <1>4
<1> HIDE DEF x, d, l
<1>6. g \in [0 .. Len(d) + 1 -> 0 .. Len(r)]
  <2>1. Len(d) + 1 = l + 2
    BY <1>2, <1>5
  <2>2. ASSUME NEW p \in 0 .. l + 2 PROVE (IF p <= l + 1 THEN f[p] ELSE Len(r)) \in 0 .. Len(r)
    <3>1. p <= l + 1 => p \in 0 .. l + 1
      BY <1>2
    <3>2. Len(r) \in 0 .. Len(r)
      BY <1>2
    <3> QED
      BY <3>1, <3>2 DEF l
  <2> QED
    BY <2>1, <2>2
<1>7. g[0] = Len(h)
  <2>1. 0 \in 0 .. l + 2 /\ 0 <= l + 1
    BY <1>2
  <2> QED
    BY <2>1, <1>1 DEF Cuts
<1>8. g[l + 1] = f[l + 1] /\ g[l + 2] = Len(r) /\ l + 1 + 1 = l + 2
  <2>1. l + 1 \in 0 .. l + 2 /\ l + 1 <= l + 1 /\ l + 2 \in 0 .. l + 2 /\ ~(l + 2 <= l + 1)
    BY <1>2
  <2>2. g[l + 1] = f[l + 1]
    BY <2>1
  <2>3. g[l + 2] = Len(r)
    BY <2>1
  <2>4. l + 1 + 1 = l + 2
    BY <1>2
  <2> QED
    BY <2>2, <2>3, <2>4
<1>9. \A p \in 0 .. l : g[p] = f[p] /\ g[p + 1] = f[p + 1] /\ At(b, d, p) = At(b, c, p)
  <2>1. ASSUME NEW p \in 0 .. l PROVE g[p] = f[p] /\ g[p + 1] = f[p + 1]
    <3>1. p \in 0 .. l + 2 /\ p + 1 \in 0 .. l + 2 /\ p <= l + 1 /\ p + 1 <= l + 1
      BY <1>2
    <3> QED
      BY <3>1
  <2>2. ASSUME NEW p \in 0 .. l PROVE At(b, d, p) = At(b, c, p)
    <3>1. p = 0 \/ p \in 1 .. l
      BY <1>2
    <3> QED
      BY <3>1, <1>5 DEF At
  <2> QED
    BY <2>1, <2>2
<1> HIDE DEF g
<1>10. At(b, d, l + 1) = x
  BY <1>2, <1>5 DEF At
<1>11. ASSUME NEW p \in 0 .. Len(d)
       PROVE  IF IsOf(At(b, d, p), k)
              THEN g[p] < g[p + 1] /\ Piece(r, g[p], g[p + 1], At(b, d, p).val)
              ELSE g[p + 1] = g[p]
  <2>1. CASE p \in 0 .. l
    BY <1>1, <1>9, <2>1 DEF Cuts, l
  <2>2. CASE p = l + 1
    <3>1. f[l + 1] < Len(r)
      BY <1>3, PieceEmpty
    <3>2. IsOf(At(b, d, p), k) /\ At(b, d, p).val = v
      BY <2>2, <1>4, <1>10 DEF IsOf
    <3> QED
      BY <2>2, <3>1, <3>2, <1>3, <1>8
  <2> QED
    BY <1>2, <1>5, <2>1, <2>2
<1>12. Piece(r, g[Len(d) + 1], Len(r), <<>>)
  <2>1. Len(d) + 1 = l + 2 /\ Len(r) \in 0 .. Len(r)
    BY <1>2, <1>5
  <2> QED
    BY <2>1, <1>8, PieceEmpty
<1>13. Cuts(k, r, h, b, d, <<>>, g)
  BY <1>7, <1>11, <1>12 DEF Cuts
<1> QED
  BY <1>6, <1>13 DEF Row, d, x

\* A batch of another key is sent to the worker.
LEMMA RowOtherSent ==
  ASSUME NEW k, NEW r \in Seq(Item), NEW h, NEW b, NEW c \in Seq(Batch), NEW v,
         NEW x \in Batch, x.key # k, Row(k, r, h, b, c, v)
  PROVE  Row(k, r, h, b, Append(c, x), v)
<1>1. PICK f \in [0 .. Len(c) + 1 -> 0 .. Len(r)] : Cuts(k, r, h, b, c, v, f)
  BY DEF Row
<1> DEFINE d == Append(c, x)
           l == Len(c)
           g == [p \in 0 .. l + 2 |-> IF p <= l + 1 THEN f[p] ELSE f[l + 1]]
<1>2. l \in Nat /\ Len(r) \in Nat
  OBVIOUS
<1>3. f[l + 1] \in 0 .. Len(r)
  BY <1>2
<1>5. d \in Seq(Batch) /\ Len(d) = l + 1 /\ d[l + 1] = x /\ \A p \in 1 .. l : d[p] = c[p]
  OBVIOUS
<1> HIDE DEF d, l
<1>6. g \in [0 .. Len(d) + 1 -> 0 .. Len(r)]
  <2>1. Len(d) + 1 = l + 2
    BY <1>2, <1>5
  <2>2. ASSUME NEW p \in 0 .. l + 2 PROVE (IF p <= l + 1 THEN f[p] ELSE f[l + 1]) \in 0 .. Len(r)
    <3>1. p <= l + 1 => p \in 0 .. l + 1
      BY <1>2
    <3> QED
      BY <3>1, <1>3 DEF l
  <2> QED
    BY <2>1, <2>2
<1>7. g[0] = Len(h)
  <2>1. 0 \in 0 .. l + 2 /\ 0 <= l + 1
    BY <1>2
  <2> QED
    BY <2>1, <1>1 DEF Cuts
<1>8. g[l + 1] = f[l + 1] /\ g[l + 2] = f[l + 1] /\ l + 1 + 1 = l + 2
  <2>1. l + 1 \in 0 .. l + 2 /\ l + 1 <= l + 1 /\ l + 2 \in 0 .. l + 2 /\ ~(l + 2 <= l + 1)
    BY <1>2
  <2> QED
    BY <2>1
<1>9. \A p \in 0 .. l : g[p] = f[p] /\ g[p + 1] = f[p + 1] /\ At(b, d, p) = At(b, c, p)
  <2>1. ASSUME NEW p \in 0 .. l PROVE g[p] = f[p] /\ g[p + 1] = f[p + 1]
    <3>1. p \in 0 .. l + 2 /\ p + 1 \in 0 .. l + 2 /\ p <= l + 1 /\ p + 1 <= l + 1
      BY <1>2
    <3> QED
      BY <3>1
  <2>2. ASSUME NEW p \in 0 .. l PROVE At(b, d, p) = At(b, c, p)
    <3>1. p = 0 \/ p \in 1 .. l
      BY <1>2
    <3> QED
      BY <3>1, <1>5 DEF At
  <2> QED
    BY <2>1, <2>2
<1> HIDE DEF g
<1>10. ~IsOf(At(b, d, l + 1), k)
  BY <1>2, <1>5 DEF At, IsOf
<1>11. ASSUME NEW p \in 0 .. Len(d)
       PROVE  IF IsOf(At(b, d, p), k)
              THEN g[p] < g[p + 1] /\ Piece(r, g[p], g[p + 1], At(b, d, p).val)
              ELSE g[p + 1] = g[p]
  <2>1. CASE p \in 0 .. l
    BY <1>1, <1>9, <2>1 DEF Cuts, l
  <2>2. CASE p = l + 1
    BY <2>2, <1>8, <1>10
  <2> QED
    BY <1>2, <1>5, <2>1, <2>2
<1>12. Piece(r, g[Len(d) + 1], Len(r), v)
  <2>1. Len(d) + 1 = l + 2
    BY <1>2, <1>5
  <2> QED
    BY <2>1, <1>1, <1>8 DEF Cuts, l
<1>13. Cuts(k, r, h, b, d, v, g)
  BY <1>7, <1>11, <1>12 DEF Cuts
<1> QED
  BY <1>6, <1>13 DEF Row, d

\* The worker takes the first batch of its channel.
LEMMA RowTakes ==
  ASSUME NEW k, NEW r \in Seq(Item), NEW h, NEW c \in Seq(Batch), NEW v, c # <<>>,
         Row(k, r, h, Nil, c, v)
  PROVE  Row(k, r, h, Head(c), Tail(c), v)
<1>1. PICK f \in [0 .. Len(c) + 1 -> 0 .. Len(r)] : Cuts(k, r, h, Nil, c, v, f)
  BY DEF Row
<1> DEFINE d == Tail(c)
           b == Head(c)
           l == Len(d)
           g == [p \in 0 .. l + 1 |-> f[p + 1]]
<1>2. /\ d \in Seq(Batch) /\ l \in Nat /\ Len(c) = l + 1 /\ b = c[1]
      /\ \A p \in 1 .. l : d[p] = c[p + 1]
  OBVIOUS
<1> HIDE DEF d, b, l
<1>3. g \in [0 .. l + 1 -> 0 .. Len(r)]
  <2>1. \A p \in 0 .. l + 1 : p + 1 \in 0 .. Len(c) + 1
    BY <1>2
  <2> QED
    BY <2>1
<1>4. g[0] = Len(h)
  <2>1. 0 \in 0 .. Len(c) /\ ~IsOf(At(Nil, c, 0), k) /\ 0 + 1 = 1 /\ 0 \in 0 .. l + 1
    BY <1>2 DEF At, IsOf
  <2>2. f[1] = f[0] /\ f[0] = Len(h)
    BY <1>1, <2>1 DEF Cuts
  <2> QED
    BY <2>1, <2>2
<1>5. ASSUME NEW p \in 0 .. l
      PROVE  /\ g[p] = f[p + 1] /\ g[p + 1] = f[p + 1 + 1] /\ p + 1 \in 0 .. Len(c)
             /\ At(b, d, p) = At(Nil, c, p + 1)
  <2>1. p \in 0 .. l + 1 /\ p + 1 \in 0 .. l + 1 /\ p + 1 \in 0 .. Len(c)
    BY <1>2
  <2>2. At(b, d, p) = At(Nil, c, p + 1)
    <3>1. p + 1 # 0 /\ (p = 0 \/ p \in 1 .. l) /\ (p = 0 => p + 1 = 1)
      BY <1>2
    <3> QED
      BY <3>1, <1>2 DEF At
  <2> QED
    BY <2>1, <2>2
<1>6. g[l + 1] = f[Len(c) + 1]
  <2>1. l + 1 \in 0 .. l + 1 /\ l + 1 + 1 = Len(c) + 1
    BY <1>2
  <2> QED
    BY <2>1
<1> HIDE DEF g
<1>7. Cuts(k, r, h, b, d, v, g)
  <2>1. ASSUME NEW p \in 0 .. Len(d)
        PROVE  IF IsOf(At(b, d, p), k)
               THEN g[p] < g[p + 1] /\ Piece(r, g[p], g[p + 1], At(b, d, p).val)
               ELSE g[p + 1] = g[p]
    BY <1>1, <1>5 DEF Cuts, l
  <2> QED
    BY <2>1, <1>1, <1>4, <1>6 DEF Cuts, l
<1> QED
  BY <1>3, <1>7 DEF Row, d, b, l

\* Do returns from a batch of the key: more of its items are handled.
LEMMA RowHandled ==
  ASSUME NEW k, NEW r \in Seq(Item), NEW h, NEW b \in Batch, NEW c \in Seq(Batch), NEW v,
         IsOf(b, k), Row(k, r, h, b, c, v)
  PROVE  /\ Row(k, r, h \o b.val, Nil, c, v)
         /\ Len(h \o b.val) \in Len(h) + 1 .. Len(r) /\ Len(h) \in Nat
<1>1. PICK f \in [0 .. Len(c) + 1 -> 0 .. Len(r)] : Cuts(k, r, h, b, c, v, f)
  BY DEF Row
<1> DEFINE l == Len(c)
           g == [f EXCEPT ![0] = f[1]]
           u == h \o b.val
<1>2. l \in Nat /\ Len(r) \in Nat /\ 0 \in 0 .. l /\ 0 \in 0 .. l + 1 /\ 1 \in 0 .. l + 1 /\ 0 + 1 = 1
  OBVIOUS
<1>3. f[0] = Len(h) /\ f[0] < f[1] /\ Piece(r, Len(h), f[1], b.val)
  <2>1. At(b, c, 0) = b
    BY DEF At
  <2> QED
    BY <1>1, <1>2, <2>1 DEF Cuts
<1>4. Piece(r, 0, f[1], u) /\ Len(u) = f[1]
  <2>1. Piece(r, 0, Len(h), h)
    BY DEF Row
  <2> DEFINE e == f[1]
             w == b.val
  <2>2. Piece(r, Len(h), e, w)
    BY <1>3
  <2> HIDE DEF l, g, e, w, u
  <2>3. Piece(r, 0, e, h \o w) /\ Len(h \o w) = e
    BY <2>1, <2>2, PieceJoins
  <2> QED
    BY <2>3 DEF e, w, u
<1>5. f[1] \in 0 .. Len(r) /\ f[0] \in 0 .. Len(r)
  BY <1>2
<1> HIDE DEF l, u
<1>6. /\ g \in [0 .. l + 1 -> 0 .. Len(r)] /\ g[0] = f[1] /\ \A p \in 1 .. l + 1 : g[p] = f[p]
  <2>1. \A p \in 1 .. l + 1 : p \in 0 .. l + 1 /\ p # 0
    BY <1>2
  <2> QED
    BY <1>2, <1>5, <2>1 DEF l
<1> HIDE DEF g
<1>7. ASSUME NEW p \in 0 .. Len(c)
      PROVE  IF IsOf(At(Nil, c, p), k)
             THEN g[p] < g[p + 1] /\ Piece(r, g[p], g[p + 1], At(Nil, c, p).val)
             ELSE g[p + 1] = g[p]
  <2>1. CASE p = 0
    <3>1. ~IsOf(At(Nil, c, p), k) /\ g[p + 1] = f[1]
      BY <1>2, <1>6, <2>1 DEF At, IsOf
    <3> QED
      BY <2>1, <3>1, <1>6
  <2>2. CASE p # 0
    <3>1. p \in 1 .. l + 1 /\ p + 1 \in 1 .. l + 1 /\ At(Nil, c, p) = At(b, c, p)
      BY <1>2, <2>2 DEF At, l
    <3> QED
      BY <3>1, <1>1, <1>6 DEF Cuts
  <2> QED
    BY <2>1, <2>2
<1>8. Cuts(k, r, u, Nil, c, v, g)
  <2>1. g[Len(c) + 1] = f[Len(c) + 1]
    <3>1. l + 1 \in 1 .. l + 1
      BY <1>2
    <3> QED
      BY <3>1, <1>6 DEF l
  <2> QED
    BY <2>1, <1>1, <1>4, <1>6, <1>7 DEF Cuts
<1>9. Row(k, r, u, Nil, c, v)
  BY <1>4, <1>6, <1>8 DEF Row, l
<1>10. Len(u) \in Len(h) + 1 .. Len(r) /\ Len(h) \in Nat
  BY <1>2, <1>3, <1>4, <1>5
<1> QED
  BY <1>9, <1>10 DEF u

\* Do returns from a batch of another key.
LEMMA RowOtherHandled ==
  ASSUME NEW k, NEW r \in Seq(Item), NEW h, NEW b \in Batch, NEW c \in Seq(Batch), NEW v,
         ~IsOf(b, k), Row(k, r, h, b, c, v)
  PROVE  Row(k, r, h, Nil, c, v)
<1>1. PICK f \in [0 .. Len(c) + 1 -> 0 .. Len(r)] : Cuts(k, r, h, b, c, v, f)
  BY DEF Row
<1>2. ASSUME NEW p \in 0 .. Len(c)
      PROVE  IF IsOf(At(Nil, c, p), k)
             THEN f[p] < f[p + 1] /\ Piece(r, f[p], f[p + 1], At(Nil, c, p).val)
             ELSE f[p + 1] = f[p]
  <2>1. CASE p = 0
    <3>1. ~IsOf(At(Nil, c, p), k) /\ ~IsOf(At(b, c, p), k)
      BY <2>1 DEF At, IsOf
    <3> QED
      BY <3>1, <1>1 DEF Cuts
  <2>2. CASE p # 0
    <3>1. At(Nil, c, p) = At(b, c, p)
      BY <2>2 DEF At
    <3> QED
      BY <3>1, <1>1 DEF Cuts
  <2> QED
    BY <2>1, <2>2
<1>3. Cuts(k, r, h, Nil, c, v, f)
  BY <1>1, <1>2 DEF Cuts
<1> QED
  BY <1>3 DEF Row

\* With nothing in hand, in the channel and with the scheduler all is handled.
LEMMA RowEmpty ==
  ASSUME NEW k, NEW r \in Seq(Item), NEW h, Row(k, r, h, Nil, <<>>, <<>>)
  PROVE  h = r
<1>1. PICK f \in [0 .. Len(<<>>) + 1 -> 0 .. Len(r)] : Cuts(k, r, h, Nil, <<>>, <<>>, f)
  BY DEF Row
<1>2. Len(<<>>) = 0 /\ 0 \in 0 .. Len(<<>>) /\ 0 + 1 = 1 /\ Len(<<>>) + 1 = 1
  OBVIOUS
<1>3. ~IsOf(At(Nil, <<>>, 0), k)
  BY DEF At, IsOf
<1>4. f[1] = f[0] /\ f[0] = Len(h) /\ Piece(r, f[1], Len(r), <<>>)
  BY <1>1, <1>2, <1>3 DEF Cuts
<1>5. Len(h) = Len(r)
  BY <1>4, PieceEmpty
<1> QED
  BY <1>5, PieceWhole DEF Row

-----------------------------------------------------------------------------
(* Types.                                                                  *)

\* The batches that are not handled, one by one.
LEMMA OutIs ==
  \A x : x \in Out <=> \E w \in Worker : \E p \in 0 .. Len(chans[w]) :
                         x = <<w, p>> /\ (p = 0 => busy[w] # Nil)
BY DEF Out, OutOf

\* As long as a worker is in Do the wait group is not at zero.
LEMMA CountPositive ==
  ASSUME TypeOK, CountInv, SyncWait, NEW w \in Worker, NEW p \in 0 .. Len(chans[w]),
         p = 0 => busy[w] # Nil
  PROVE  counter \in Nat \ {0}
<1>1. <<w, p>> \in Out
  BY OutIs
<1>2. IsFiniteSet(Out) /\ counter = Cardinality(Out)
  BY DEF CountInv
<1>3. Cardinality(Out) # 0 /\ Cardinality(Out) \in Nat
  BY <1>1, <1>2, FS_EmptySet, FS_CardinalityType
<1> QED
  BY <1>2, <1>3

LEMMA TypePut ==
  ASSUME TypeOK, NEW i \in Item, PutAccept(i) \/ PutRefuse(i) \/ PutPanic(i)
  PROVE  TypeOK'
<1>1. CASE PutAccept(i)
  <2>1. data' \in Seq(Item \cup {Nil}) /\ Len(data') <= DataBuffer
    BY <1>1, SizesAssumption DEF TypeOK, PutAccept
  <2>2. accepted' \in Seq(Item)
    BY <1>1 DEF TypeOK, PutAccept
  <2>3. call' \in [Item -> {"new", "accepted", "refused", "panicked"}]
    BY <1>1 DEF TypeOK, PutAccept
  <2> QED
    BY <1>1, <2>1, <2>2, <2>3 DEF TypeOK, PutAccept, schedVars
<1>2. CASE PutRefuse(i) \/ PutPanic(i)
  BY <1>2 DEF TypeOK, PutRefuse, PutPanic, schedVars
<1> QED
  BY <1>1, <1>2

LEMMA TypeScheduler ==
  ASSUME TypeOK, Scheduler
  PROVE  TypeOK'
<1>0. /\ data \in Seq(Item \cup {Nil}) /\ Len(data) <= DataBuffer /\ DataBuffer \in Nat
      /\ vals \in [Key -> Seq(Item)] /\ left \subseteq Key /\ KeyOf \in [Item -> Key]
  BY ItemAssumption, SizesAssumption DEF TypeOK
<1>1. ASSUME data # <<>>, data' = Tail(data)
      PROVE  data' \in Seq(Item \cup {Nil}) /\ Len(data') <= DataBuffer
  <2>1. Len(data) \in Nat /\ Tail(data) \in Seq(Item \cup {Nil}) /\ Len(Tail(data)) = Len(data) - 1
    BY <1>0, <1>1, HeadTailProperties
  <2> QED
    BY <2>1, <1>0, <1>1
<1>2. ASSUME NEW v, NEW last \in BOOLEAN, Distribute(v, last)
      PROVE  sched' = "send" /\ left' \subseteq Key /\ stopping' \in BOOLEAN
  BY <1>2 DEF Distribute, Gathered
<1>3. CASE ReceiveItem
  <2>1. data # <<>> /\ data' = Tail(data) /\ Head(data) \in Item
    <3>1. Head(data) \in Item \cup {Nil}
      BY <1>0, <1>3, HeadTailProperties DEF ReceiveItem
    <3> QED
      BY <1>3, <3>1 DEF ReceiveItem
  <2>2. vals' \in [Key -> Seq(Item)]
    <3> DEFINE x == Head(data)
    <3>1. x \in Item /\ KeyOf[x] \in Key /\ vals' = [vals EXCEPT ![KeyOf[x]] = Append(@, x)]
      BY <1>0, <1>3, <2>1 DEF ReceiveItem
    <3> HIDE DEF x
    <3>2. Append(vals[KeyOf[x]], x) \in Seq(Item)
      BY <1>0, <3>1
    <3> QED
      BY <1>0, <3>1, <3>2
  <2>3. sched' \in {"select", "send", "exited"} /\ left' \subseteq Key /\ stopping' \in BOOLEAN
    BY <1>2, <1>3, <1>0 DEF ReceiveItem, TypeOK
  <2>4. received' \in Nat
    BY <1>3 DEF ReceiveItem, TypeOK
  <2>5. UNCHANGED <<call, cancelled, chans, busy, exited, counter, closer, accepted, handled, cut>>
    BY <1>3 DEF ReceiveItem
  <2> QED
    BY <1>1, <2>1, <2>2, <2>3, <2>4, <2>5 DEF TypeOK
<1>4. CASE ReceiveNil
  <2>1. data # <<>> /\ data' = Tail(data)
    BY <1>4 DEF ReceiveNil
  <2>2. sched' \in {"select", "send", "exited"} /\ left' \subseteq Key /\ stopping' \in BOOLEAN
    BY <1>2, <1>4, <1>0 DEF ReceiveNil, TypeOK
  <2>3. UNCHANGED <<call, cancelled, vals, chans, busy, exited, counter, closer, accepted, received,
                    handled, cut>>
    BY <1>4 DEF ReceiveNil
  <2> QED
    BY <1>1, <2>1, <2>2, <2>3 DEF TypeOK
<1>5. CASE Tick
  <2>1. sched' = "send" /\ left' \subseteq Key /\ stopping' \in BOOLEAN
    BY <1>2, <1>5 DEF Tick
  <2> QED
    BY <1>5, <2>1 DEF TypeOK, Tick
<1>6. ASSUME NEW k \in Key, SendBatch(k) PROVE TypeOK'
  <2> DEFINE w == Shard[k]
             x == [key |-> k, val |-> vals[k]]
  <2>1. w \in Worker /\ x \in Batch
    BY <1>0, <1>6, ShardAssumption DEF Batch
  <2>2. /\ chans' = [chans EXCEPT ![w] = Append(@, x)] /\ Len(chans[w]) < Buffer
        /\ counter' = (IF SyncWait THEN counter + 1 ELSE counter) /\ left' = left \ {k}
        /\ UNCHANGED <<call, data, cancelled, sched, vals, stopping, busy, exited, closer, accepted,
                       received, handled, cut>>
    BY <1>6 DEF SendBatch
  <2> HIDE DEF w, x
  <2>3. chans' \in [Worker -> Seq(Batch)] /\ \A v \in Worker : Len(chans'[v]) <= Buffer
    <3>1. chans[w] \in Seq(Batch) /\ chans \in [Worker -> Seq(Batch)] /\ Buffer \in Nat
      BY <2>1, SizesAssumption DEF TypeOK
    <3>2. Append(chans[w], x) \in Seq(Batch) /\ Len(Append(chans[w], x)) <= Buffer
      BY <2>1, <2>2, <3>1
    <3> QED
      BY <2>1, <2>2, <3>1, <3>2 DEF TypeOK
  <2> QED
    BY <1>0, <2>2, <2>3 DEF TypeOK
<1>7. CASE Complete
  <2>1. vals' \in [Key -> Seq(Item)]
    BY <1>7 DEF Complete
  <2> QED
    BY <1>7, <2>1 DEF TypeOK, Complete
<1> QED
  BY <1>3, <1>4, <1>5, <1>6, <1>7 DEF Scheduler

LEMMA TypeRun ==
  ASSUME TypeOK, CountInv, NEW w \in Worker, Run(w)
  PROVE  TypeOK'
<1>0. /\ chans \in [Worker -> Seq(Batch)] /\ busy \in [Worker -> Batch \cup {Nil}]
      /\ handled \in [Key -> Seq(Item)] /\ counter \in Nat /\ Len(chans[w]) \in Nat
  BY DEF TypeOK
<1>1. CASE TakeBatch(w)
  <2>1. /\ Head(chans[w]) \in Batch /\ Tail(chans[w]) \in Seq(Batch)
        /\ Len(Tail(chans[w])) = Len(chans[w]) - 1
    <3>1. chans[w] \in Seq(Batch) /\ chans[w] # <<>>
      BY <1>0, <1>1 DEF TakeBatch
    <3> QED
      BY <3>1, HeadTailProperties
  <2>2. /\ busy' = [busy EXCEPT ![w] = Head(chans[w])] /\ chans' = [chans EXCEPT ![w] = Tail(@)]
        /\ UNCHANGED <<call, data, cancelled, schedVars, exited, counter, closer, accepted, received,
                       handled, cut>>
    BY <1>1 DEF TakeBatch
  <2>3. busy' \in [Worker -> Batch \cup {Nil}] /\ chans' \in [Worker -> Seq(Batch)]
    BY <1>0, <2>1, <2>2
  <2>4. \A v \in Worker : Len(chans'[v]) <= Buffer
    BY <1>0, <2>1, <2>2, SizesAssumption DEF TypeOK
  <2> QED
    BY <2>2, <2>3, <2>4 DEF TypeOK, schedVars
<1>2. CASE DoReturns(w)
  <2> DEFINE x == busy[w]
  <2>1. /\ x # Nil /\ x \in Batch
        /\ handled' = [handled EXCEPT ![x.key] = @ \o x.val]
        /\ counter' = (IF SyncWait THEN counter - 1 ELSE counter)
        /\ busy' = [busy EXCEPT ![w] = Nil]
        /\ UNCHANGED <<call, data, cancelled, schedVars, chans, exited, closer, accepted, received, cut>>
    BY <1>0, <1>2 DEF DoReturns
  <2>2. x.key \in Key /\ x.val \in Seq(Item)
    BY <2>1 DEF Batch
  <2>3. SyncWait => counter \in Nat \ {0}
    BY <1>0, <2>1, CountPositive
  <2>4. counter' \in Nat
    BY <1>0, <2>1, <2>3
  <2>5. busy' \in [Worker -> Batch \cup {Nil}]
    BY <1>0, <2>1
  <2> HIDE DEF x
  <2>6. handled' \in [Key -> Seq(Item)]
    <3>1. handled[x.key] \o x.val \in Seq(Item)
      BY <1>0, <2>2, ConcatProperties
    <3> QED
      BY <1>0, <2>1, <2>2, <3>1
  <2> QED
    BY <2>1, <2>4, <2>5, <2>6 DEF TypeOK, schedVars
<1>3. CASE WorkerExit(w)
  BY <1>3 DEF TypeOK, WorkerExit, schedVars
<1> QED
  BY <1>1, <1>2, <1>3 DEF Run

LEMMA TypeClose ==
  ASSUME TypeOK, CloseCancel \/ Closing
  PROVE  TypeOK'
<1>1. CASE CloseSend
  <2>1. data' \in Seq(Item \cup {Nil}) /\ Len(data') <= DataBuffer /\ cut' \in Nat
    BY <1>1, SizesAssumption DEF TypeOK, CloseSend
  <2> QED
    BY <1>1, <2>1 DEF TypeOK, CloseSend, schedVars
<1>2. CASE CloseCancel \/ CloseReturn
  BY <1>2 DEF TypeOK, CloseCancel, CloseReturn, schedVars
<1> QED
  BY <1>1, <1>2 DEF Closing

\* A step keeps the types.
LEMMA TypeStep ==
  ASSUME TypeOK, CountInv, [Next]_vars
  PROVE  TypeOK'
<1>1. CASE Next
  BY <1>1, TypePut, TypeScheduler, TypeRun, TypeClose DEF Next
<1>2. CASE UNCHANGED vars
  BY <1>2 DEF TypeOK, vars, schedVars
<1> QED
  BY <1>1, <1>2

-----------------------------------------------------------------------------
(* The scheduler, the items and the channel data.                          *)

\* Nothing has gathered if the count is zero.
LEMMA CountZero ==
  ASSUME NEW v \in [Key -> Seq(Item)], IsFiniteSet(Held(v)), ~(Count(v) > 0)
  PROVE  \A k \in Key : v[k] = <<>>
<1>1. Cardinality(Held(v)) = 0
  BY FS_CardinalityType DEF Count
<1>2. Held(v) = {}
  BY <1>1, FS_EmptySet
<1>3. ASSUME NEW k \in Key, v[k] # <<>> PROVE FALSE
  <2>1. 1 \in DOMAIN v[k]
    BY <1>3
  <2>2. <<k, 1>> \in Held(v)
    BY <2>1 DEF Held
  <2> QED
    BY <1>2, <2>2
<1> QED
  BY <1>3

\* Nothing is held when all has been distributed.
LEMMA HeldNone == \A v : (\A k \in Key : v[k] = <<>>) => Held(v) = {}
BY DEF Held

LEMMA SchedStep ==
  ASSUME TypeOK, SchedInv, [Next]_vars
  PROVE  SchedInv'
<1>0. vals \in [Key -> Seq(Item)] /\ left \subseteq Key
  BY DEF TypeOK
<1>1. CASE ReceiveItem
  <2> DEFINE x == Head(data)
             j == KeyOf[x]
  <2>1. x \in Item /\ j \in Key /\ vals' = [vals EXCEPT ![j] = Append(@, x)] /\ sched = "select"
    <3>1. x \in Item \cup {Nil} /\ x # Nil
      BY <1>1, HeadTailProperties DEF ReceiveItem, TypeOK
    <3> QED
      BY <1>1, <3>1, ItemAssumption DEF ReceiveItem
  <2> HIDE DEF x, j
  <2>2. vals'[j] = Append(vals[j], x) /\ \A k \in Key : k # j => vals'[k] = vals[k]
    BY <1>0, <2>1
  <2>3. DOMAIN vals'[j] = DOMAIN vals[j] \cup {Len(vals[j]) + 1}
    <3>1. vals[j] \in Seq(Item) /\ Len(vals[j]) \in Nat
      BY <1>0, <2>1
    <3>2. /\ DOMAIN vals[j] = 1 .. Len(vals[j])
          /\ DOMAIN Append(vals[j], x) = 1 .. Len(vals[j]) + 1
      BY <2>1, <3>1
    <3> QED
      BY <2>2, <3>1, <3>2
  <2>4. Held(vals)' \subseteq Held(vals) \cup {<<j, Len(vals[j]) + 1>>}
    BY <2>2, <2>3 DEF Held
  <2>5. IsFiniteSet(Held(vals)')
    <3>1. IsFiniteSet(Held(vals) \cup {<<j, Len(vals[j]) + 1>>})
      BY FS_AddElement DEF SchedInv
    <3> QED
      BY <2>4, <3>1, FS_Subset
  <2>6. /\ \/ sched' = "send" /\ left' = Gathered(vals')
           \/ sched' = sched /\ left' = left /\ stopping' = stopping
    BY <1>1 DEF ReceiveItem, Distribute
  <2>7. left = {} /\ ~stopping
    BY <2>1 DEF SchedInv
  <2> QED
    BY <2>1, <2>5, <2>6, <2>7 DEF SchedInv, Gathered
<1>2. CASE ReceiveNil
  <2>1. UNCHANGED vals /\ sched = "select"
    BY <1>2 DEF ReceiveNil
  <2>2. CASE Distribute(vals, TRUE)
    BY <2>1, <2>2 DEF SchedInv, Distribute, Gathered
  <2>3. CASE ~(Count(vals) > 0) /\ sched' = "exited" /\ UNCHANGED <<left, stopping>>
    BY <2>1, <2>3, <1>0, CountZero DEF SchedInv, Gathered
  <2> QED
    BY <1>2, <2>2, <2>3 DEF ReceiveNil
<1>3. CASE Tick
  BY <1>3 DEF Tick, SchedInv, Distribute, Gathered
<1>4. ASSUME NEW k \in Key, SendBatch(k) PROVE SchedInv'
  BY <1>4 DEF SendBatch, SchedInv, Gathered
<1>5. CASE Complete
  <2>1. \A k \in Key : vals'[k] = <<>>
    BY <1>5 DEF Complete
  <2>2. Held(vals)' = {}
    BY <2>1, HeldNone
  <2>3. left' = {} /\ ~stopping'
    BY <1>5 DEF Complete
  <2> QED
    BY <2>1, <2>2, <2>3, FS_EmptySet DEF SchedInv
<1>6. CASE UNCHANGED schedVars
  BY <1>6 DEF SchedInv, Gathered, schedVars
<1>7. Next => Scheduler \/ UNCHANGED schedVars
  BY DEF Next, PutAccept, PutRefuse, PutPanic, Run, TakeBatch, DoReturns, WorkerExit, CloseCancel,
         Closing, CloseSend, CloseReturn
<1> QED
  BY <1>1, <1>2, <1>3, <1>4, <1>5, <1>6, <1>7 DEF Scheduler, vars

\* A call of Put that is over stays over, and only PutAccept adds an item.
LEMMA CallStep ==
  ASSUME TypeOK, CallInv, [Next]_vars
  PROVE  CallInv'
<1>0. accepted \in Seq(Item) /\ call \in [Item -> {"new", "accepted", "refused", "panicked"}]
  BY DEF TypeOK
<1>1. ASSUME NEW i \in Item, PutAccept(i) PROVE CallInv'
  <2>1. accepted' = Append(accepted, i) /\ call' = [call EXCEPT ![i] = "accepted"]
    BY <1>1 DEF PutAccept
  <2>2. \A n \in 1 .. Len(accepted) + 1 :
          accepted'[n] = IF n <= Len(accepted) THEN accepted[n] ELSE i
    BY <1>0, <2>1
  <2>3. Len(accepted') = Len(accepted) + 1 /\ Len(accepted) \in Nat
    BY <1>0, <2>1
  <2>4. ASSUME NEW n \in 1 .. Len(accepted) + 1 PROVE call'[accepted'[n]] = "accepted"
    <3>1. CASE n <= Len(accepted)
      <4>1. n \in 1 .. Len(accepted) /\ accepted'[n] = accepted[n] /\ accepted[n] \in Item
        BY <1>0, <2>2, <2>3, <3>1
      <4> QED
        BY <1>0, <2>1, <4>1 DEF CallInv
    <3>2. CASE ~(n <= Len(accepted))
      BY <1>0, <2>1, <2>2, <3>2
    <3> QED
      BY <3>1, <3>2
  <2> QED
    BY <2>3, <2>4 DEF CallInv
<1>2. ASSUME NEW i \in Item, PutRefuse(i) \/ PutPanic(i) PROVE CallInv'
  <2>1. UNCHANGED accepted /\ call[i] = "new" /\ \A j \in Item : j # i => call'[j] = call[j]
    BY <1>0, <1>2 DEF PutRefuse, PutPanic
  <2>2. \A n \in 1 .. Len(accepted) : accepted[n] \in Item
    BY <1>0
  <2> QED
    BY <2>1, <2>2 DEF CallInv
<1>3. CASE UNCHANGED <<call, accepted>>
  BY <1>3 DEF CallInv
<1>4. Next => (\E i \in Item : PutAccept(i) \/ PutRefuse(i) \/ PutPanic(i)) \/ UNCHANGED <<call, accepted>>
  BY DEF Next, Scheduler, ReceiveItem, ReceiveNil, Tick, SendBatch, Complete, Run, TakeBatch, DoReturns,
         WorkerExit, CloseCancel, Closing, CloseSend, CloseReturn
<1> QED
  BY <1>1, <1>2, <1>3, <1>4 DEF vars

\* What was accepted and not received stays in the channel, in order.
LEMMA DataStep ==
  ASSUME TypeOK, SchedInv, DataInv, [Next]_vars
  PROVE  DataInv'
<1>0. /\ accepted \in Seq(Item) /\ data \in Seq(Item \cup {Nil}) /\ received \in Nat /\ cut \in Nat
      /\ Len(accepted) \in Nat /\ Len(data) \in Nat
  BY DEF TypeOK
<1>1. ASSUME NEW i \in Item, PutAccept(i) PROVE DataInv'
  <2>1. /\ accepted' = Append(accepted, i) /\ data' = Append(data, i)
        /\ UNCHANGED <<sched, stopping, closer, received, cut>>
    BY <1>1 DEF PutAccept, schedVars
  <2>2. /\ Len(accepted') = Len(accepted) + 1 /\ Len(data') = Len(data) + 1
        /\ \A n \in 1 .. Len(accepted) : accepted'[n] = accepted[n]
        /\ \A n \in 1 .. Len(data) : data'[n] = data[n]
        /\ accepted'[Len(accepted) + 1] = i /\ data'[Len(data) + 1] = i
    BY <1>0, <2>1
  <2>3. (NilQueued' <=> NilQueued) /\ (Ended' <=> Ended)
    BY <2>1 DEF NilQueued, Ended
  <2>4. CASE ~NilQueued
    <3>1. /\ received <= Len(accepted) /\ Len(data) = Len(accepted) - received
          /\ \A n \in 1 .. Len(data) : data[n] = accepted[received + n]
      BY <2>4 DEF DataInv
    <3>2. ASSUME NEW n \in 1 .. Len(data') PROVE data'[n] = accepted'[received + n]
      <4>1. CASE n \in 1 .. Len(data)
        <5>1. received + n \in 1 .. Len(accepted)
          BY <1>0, <3>1, <4>1
        <5> QED
          BY <2>2, <3>1, <4>1, <5>1
      <4>2. CASE n = Len(data) + 1
        <5>1. received + n = Len(accepted) + 1
          BY <1>0, <3>1, <4>2
        <5> QED
          BY <2>2, <4>2, <5>1
      <4> QED
        BY <1>0, <2>2, <4>1, <4>2
    <3>3. received <= Len(accepted') /\ Len(data') = Len(accepted') - received
      BY <1>0, <2>2, <3>1
    <3>4. Ended => closer \in {"waiting", "closed"} /\ received = cut
      BY DEF DataInv
    <3> QED
      BY <2>1, <2>3, <2>4, <3>2, <3>3, <3>4 DEF DataInv
  <2>5. CASE NilQueued
    <3>1. /\ received <= cut /\ cut <= Len(accepted) /\ Len(data) = Len(accepted) - received + 1
          /\ \A n \in 1 .. Len(data) :
               data[n] = IF n <= cut - received THEN accepted[received + n]
                         ELSE IF n = cut - received + 1 THEN Nil
                         ELSE accepted[received + n - 1]
      BY <2>5 DEF DataInv
    <3>2. ASSUME NEW n \in 1 .. Len(data')
          PROVE  data'[n] = IF n <= cut - received THEN accepted'[received + n]
                            ELSE IF n = cut - received + 1 THEN Nil
                            ELSE accepted'[received + n - 1]
      <4>1. CASE n \in 1 .. Len(data)
        <5>1. n <= cut - received => received + n \in 1 .. Len(accepted)
          BY <1>0, <3>1, <4>1
        <5>2. n > cut - received + 1 => received + n - 1 \in 1 .. Len(accepted)
          BY <1>0, <3>1, <4>1
        <5>3. n <= cut - received \/ n = cut - received + 1 \/ n > cut - received + 1
          BY <1>0, <4>1
        <5> QED
          BY <2>2, <3>1, <4>1, <5>1, <5>2, <5>3
      <4>2. CASE n = Len(data) + 1
        <5>1. /\ received + n - 1 = Len(accepted) + 1
              /\ ~(n <= cut - received) /\ n # cut - received + 1
          BY <1>0, <3>1, <4>2
        <5> QED
          BY <2>2, <4>2, <5>1
      <4> QED
        BY <1>0, <2>2, <4>1, <4>2
    <3>3. cut <= Len(accepted') /\ Len(data') = Len(accepted') - received + 1 /\ received <= Len(accepted')
      BY <1>0, <2>2, <3>1
    <3>4. Ended => closer \in {"waiting", "closed"} /\ received = cut
      BY DEF DataInv
    <3> QED
      BY <2>1, <2>3, <2>5, <3>1, <3>2, <3>3, <3>4 DEF DataInv
  <2> QED
    BY <2>4, <2>5
<1>2. ASSUME data # <<>>, data' = Tail(data)
      PROVE  /\ Len(data') = Len(data) - 1 /\ Len(data) >= 1 /\ Head(data) = data[1]
             /\ \A n \in 1 .. Len(data') : data'[n] = data[n + 1]
  BY <1>0, <1>2
<1>3. CASE ReceiveItem
  <2>1. /\ data # <<>> /\ data' = Tail(data) /\ Head(data) # Nil /\ received' = received + 1
        /\ sched = "select" /\ sched' \in {"select", "send"} /\ ~stopping'
        /\ UNCHANGED <<accepted, closer, cut>>
    BY <1>3 DEF ReceiveItem, Distribute, SchedInv
  <2>2. ~stopping /\ ~Ended /\ ~Ended' /\ (NilQueued' <=> NilQueued)
    BY <2>1 DEF Ended, SchedInv, NilQueued
  <2>3. CASE ~NilQueued
    <3>1. /\ Len(data) = Len(accepted) - received
          /\ \A n \in 1 .. Len(data) : data[n] = accepted[received + n]
      BY <2>3 DEF DataInv
    <3>2. /\ received' <= Len(accepted) /\ Len(data') = Len(accepted) - received'
      BY <1>0, <1>2, <2>1, <3>1
    <3>3. ASSUME NEW n \in 1 .. Len(data') PROVE data'[n] = accepted[received' + n]
      <4>1. n + 1 \in 1 .. Len(data) /\ received + (n + 1) = received' + n
        BY <1>0, <1>2, <2>1
      <4> QED
        BY <1>2, <2>1, <3>1, <4>1
    <3> QED
      BY <2>1, <2>2, <2>3, <3>2, <3>3 DEF DataInv
  <2>4. CASE NilQueued
    <3>1. /\ received <= cut /\ cut <= Len(accepted) /\ Len(data) = Len(accepted) - received + 1
          /\ \A n \in 1 .. Len(data) :
               data[n] = IF n <= cut - received THEN accepted[received + n]
                         ELSE IF n = cut - received + 1 THEN Nil
                         ELSE accepted[received + n - 1]
      BY <2>4 DEF DataInv
    <3>2. received # cut
      <4> SUFFICES ASSUME received = cut PROVE FALSE
        OBVIOUS
      <4>1. ~(1 <= cut - received) /\ 1 = cut - received + 1 /\ 1 \in 1 .. Len(data)
        BY <1>0, <1>2, <2>1
      <4> QED
        BY <1>2, <2>1, <3>1, <4>1
    <3>3. /\ received' <= cut /\ received' <= Len(accepted) /\ Len(data') = Len(accepted) - received' + 1
      BY <1>0, <1>2, <2>1, <3>1, <3>2
    <3>4. ASSUME NEW n \in 1 .. Len(data')
          PROVE  data'[n] = IF n <= cut - received' THEN accepted[received' + n]
                            ELSE IF n = cut - received' + 1 THEN Nil
                            ELSE accepted[received' + n - 1]
      <4>1. /\ n + 1 \in 1 .. Len(data) /\ received + (n + 1) = received' + n
            /\ received + (n + 1) - 1 = received' + n - 1
            /\ (n + 1 <= cut - received <=> n <= cut - received')
            /\ (n + 1 = cut - received + 1 <=> n = cut - received' + 1)
        BY <1>0, <1>2, <2>1
      <4>2. data'[n] = data[n + 1]
        BY <1>2, <2>1
      <4> QED
        BY <3>1, <4>1, <4>2
    <3> QED
      BY <2>1, <2>2, <2>4, <3>1, <3>3, <3>4 DEF DataInv
  <2> QED
    BY <2>3, <2>4
<1>4. CASE ReceiveNil
  <2>1. /\ data # <<>> /\ data' = Tail(data) /\ Head(data) = Nil /\ sched = "select"
        /\ UNCHANGED <<accepted, closer, received, cut>>
    BY <1>4 DEF ReceiveNil
  <2>2. ~Ended /\ Ended'
    BY <1>4 DEF ReceiveNil, Distribute, SchedInv, Ended
  <2>3. NilQueued
    <3> SUFFICES ASSUME ~NilQueued PROVE FALSE
      OBVIOUS
    <3>1. data[1] = accepted[received + 1] /\ Len(data) = Len(accepted) - received
      BY <1>2, <2>1, <1>0 DEF DataInv
    <3>2. received + 1 \in 1 .. Len(accepted)
      BY <1>0, <1>2, <2>1, <3>1
    <3>3. accepted[received + 1] \in Item
      BY <1>0, <3>2
    <3> QED
      BY <1>2, <2>1, <3>1, <3>3, ItemAssumption
  <2>4. /\ received <= cut /\ cut <= Len(accepted) /\ Len(data) = Len(accepted) - received + 1
        /\ \A n \in 1 .. Len(data) :
             data[n] = IF n <= cut - received THEN accepted[received + n]
                       ELSE IF n = cut - received + 1 THEN Nil
                       ELSE accepted[received + n - 1]
    BY <2>3 DEF DataInv
  <2>5. received = cut
    <3> SUFFICES ASSUME received # cut PROVE FALSE
      OBVIOUS
    <3>1. 1 <= cut - received /\ 1 \in 1 .. Len(data) /\ received + 1 \in 1 .. Len(accepted)
      BY <1>0, <1>2, <2>1, <2>4
    <3>2. data[1] = accepted[received + 1] /\ accepted[received + 1] \in Item
      BY <1>0, <2>4, <3>1
    <3> QED
      BY <1>2, <2>1, <3>2, ItemAssumption
  <2>6. ~NilQueued' /\ closer' \in {"waiting", "closed"}
    BY <2>1, <2>2, <2>3 DEF NilQueued
  <2>7. Len(data') = Len(accepted) - received
    BY <1>0, <1>2, <2>1, <2>4
  <2>8. ASSUME NEW n \in 1 .. Len(data') PROVE data'[n] = accepted[received + n]
    <3>1. /\ n + 1 \in 1 .. Len(data) /\ ~(n + 1 <= cut - received) /\ n + 1 # cut - received + 1
          /\ received + (n + 1) - 1 = received + n
      BY <1>0, <1>2, <2>1, <2>5
    <3> QED
      BY <1>2, <2>1, <2>4, <3>1
  <2>9. received <= Len(accepted)
    BY DEF DataInv
  <2> QED
    BY <2>1, <2>2, <2>5, <2>6, <2>7, <2>8, <2>9 DEF DataInv
<1>5. CASE CloseSend
  <2>1. /\ data' = Append(data, Nil) /\ cut' = Len(accepted) /\ closer = "cancelled" /\ closer' = "waiting"
        /\ UNCHANGED <<accepted, received, sched, stopping>>
    BY <1>5 DEF CloseSend, schedVars
  <2>2. ~NilQueued /\ ~Ended /\ ~Ended' /\ NilQueued'
    BY <2>1 DEF NilQueued, Ended, DataInv
  <2>3. /\ received <= Len(accepted) /\ Len(data) = Len(accepted) - received
        /\ \A n \in 1 .. Len(data) : data[n] = accepted[received + n]
    BY <2>2 DEF DataInv
  <2>4. /\ Len(data') = Len(data) + 1 /\ data'[Len(data) + 1] = Nil
        /\ \A n \in 1 .. Len(data) : data'[n] = data[n]
    BY <1>0, <2>1
  <2>5. ASSUME NEW n \in 1 .. Len(data')
        PROVE  data'[n] = IF n <= cut' - received THEN accepted[received + n]
                          ELSE IF n = cut' - received + 1 THEN Nil
                          ELSE accepted[received + n - 1]
    <3>1. CASE n \in 1 .. Len(data)
      <4>1. n <= cut' - received
        BY <2>1, <2>3, <3>1
      <4> QED
        BY <2>3, <2>4, <3>1, <4>1
    <3>2. CASE n = Len(data) + 1
      <4>1. ~(n <= cut' - received) /\ n = cut' - received + 1
        BY <1>0, <2>1, <2>3, <3>2
      <4> QED
        BY <2>4, <3>2, <4>1
    <3> QED
      BY <1>0, <2>4, <3>1, <3>2
  <2>6. received <= cut' /\ cut' <= Len(accepted) /\ Len(data') = Len(accepted) - received + 1
    BY <1>0, <2>1, <2>3, <2>4
  <2> QED
    BY <2>1, <2>2, <2>3, <2>5, <2>6 DEF DataInv
<1>6. CASE Complete
  <2>1. /\ (Ended' <=> Ended) /\ UNCHANGED <<accepted, data, closer, received, cut>>
    BY <1>6 DEF Complete, Ended
  <2>2. NilQueued' <=> NilQueued
    BY <2>1 DEF NilQueued
  <2> QED
    BY <2>1, <2>2 DEF DataInv
<1>7. CASE Tick
  <2>1. /\ (Ended' <=> Ended) /\ UNCHANGED <<accepted, data, closer, received, cut>>
    BY <1>7 DEF Tick, Distribute, Ended, SchedInv
  <2>2. NilQueued' <=> NilQueued
    BY <2>1 DEF NilQueued
  <2> QED
    BY <2>1, <2>2 DEF DataInv
<1>8. CASE CloseCancel \/ CloseReturn
  <2>1. /\ (closer' \in {"waiting", "closed"} <=> closer \in {"waiting", "closed"})
        /\ UNCHANGED <<accepted, data, sched, stopping, received, cut>>
    BY <1>8 DEF CloseCancel, CloseReturn, schedVars
  <2>2. (NilQueued' <=> NilQueued) /\ (Ended' <=> Ended)
    BY <2>1 DEF NilQueued, Ended
  <2> QED
    BY <2>1, <2>2 DEF DataInv
<1>9. CASE UNCHANGED <<accepted, data, sched, stopping, closer, received, cut>>
  BY <1>9 DEF DataInv, NilQueued, Ended
<1>10. Next => \/ \E i \in Item : PutAccept(i)
               \/ ReceiveItem \/ ReceiveNil \/ CloseSend \/ Complete \/ Tick \/ CloseCancel \/ CloseReturn
               \/ UNCHANGED <<accepted, data, sched, stopping, closer, received, cut>>
  BY DEF Next, PutRefuse, PutPanic, Scheduler, SendBatch, Run, TakeBatch, DoReturns, WorkerExit,
         Closing, schedVars
<1> QED
  BY <1>1, <1>3, <1>4, <1>5, <1>6, <1>7, <1>8, <1>9, <1>10 DEF vars, schedVars

-----------------------------------------------------------------------------
(* The workers and the wait group.                                         *)

\* Which batches are with a worker after it or the scheduler has moved one.
LEMMA AtMoves ==
  ASSUME NEW b, NEW c \in Seq(Batch)
  PROVE  /\ \A x \in Batch : \A p \in 0 .. Len(Append(c, x)) :
              \/ p \in 0 .. Len(c) /\ At(b, Append(c, x), p) = At(b, c, p)
              \/ p = Len(c) + 1 /\ At(b, Append(c, x), p) = x
         /\ c # <<>> => \A p \in 0 .. Len(Tail(c)) :
                          p + 1 \in 0 .. Len(c) /\ At(Head(c), Tail(c), p) = At(b, c, p + 1)
<1>1. Len(c) \in Nat
  OBVIOUS
<1>2. ASSUME NEW x \in Batch, NEW p \in 0 .. Len(Append(c, x))
      PROVE  \/ p \in 0 .. Len(c) /\ At(b, Append(c, x), p) = At(b, c, p)
             \/ p = Len(c) + 1 /\ At(b, Append(c, x), p) = x
  <2>1. /\ Len(Append(c, x)) = Len(c) + 1 /\ Append(c, x)[Len(c) + 1] = x
        /\ \A q \in 1 .. Len(c) : Append(c, x)[q] = c[q]
    OBVIOUS
  <2>2. p = 0 \/ p \in 1 .. Len(c) \/ p = Len(c) + 1
    BY <1>1, <2>1
  <2>3. CASE p = 0
    BY <1>1, <2>3 DEF At
  <2>4. CASE p \in 1 .. Len(c)
    <3>1. p # 0 /\ p \in 0 .. Len(c)
      BY <1>1, <2>4
    <3> QED
      BY <2>1, <2>4, <3>1 DEF At
  <2>5. CASE p = Len(c) + 1
    <3>1. p # 0
      BY <1>1, <2>5
    <3> QED
      BY <2>1, <2>5, <3>1 DEF At
  <2> QED
    BY <2>2, <2>3, <2>4, <2>5
<1>3. ASSUME c # <<>>, NEW p \in 0 .. Len(Tail(c))
      PROVE  p + 1 \in 0 .. Len(c) /\ At(Head(c), Tail(c), p) = At(b, c, p + 1)
  <2>1. /\ Len(Tail(c)) = Len(c) - 1 /\ Len(c) >= 1 /\ Head(c) = c[1]
        /\ \A q \in 1 .. Len(c) - 1 : Tail(c)[q] = c[q + 1]
    BY <1>3
  <2>2. p + 1 \in 0 .. Len(c) /\ p + 1 # 0
    BY <1>1, <2>1
  <2>3. CASE p = 0
    BY <2>1, <2>2, <2>3 DEF At
  <2>4. CASE p # 0
    <3>1. p \in 1 .. Len(c) - 1
      BY <1>1, <2>1, <2>4
    <3> QED
      BY <2>1, <2>2, <2>4, <3>1 DEF At
  <2> QED
    BY <2>2, <2>3, <2>4
<1> QED
  BY <1>2, <1>3

\* A worker's batches stay its own.
LEMMA MineMoves ==
  ASSUME NEW w, NEW b, NEW c \in Seq(Batch), Mine(w, b, c)
  PROVE  /\ \A x \in Batch : Shard[x.key] = w => Mine(w, b, Append(c, x))
         /\ c # <<>> => Mine(w, Head(c), Tail(c))
         /\ Mine(w, Nil, c)
<1>1. ASSUME NEW x \in Batch, Shard[x.key] = w PROVE Mine(w, b, Append(c, x))
  <2> DEFINE d == Append(c, x)
  <2>1. \A p \in 0 .. Len(d) : At(b, d, p) = x \/ (p \in 0 .. Len(c) /\ At(b, d, p) = At(b, c, p))
    BY AtMoves
  <2> HIDE DEF d
  <2>2. Mine(w, b, d)
    BY <1>1, <2>1 DEF Mine
  <2> QED
    BY <2>2 DEF d
<1>2. ASSUME c # <<>> PROVE Mine(w, Head(c), Tail(c))
  <2> DEFINE d == Tail(c)
             e == Head(c)
  <2>1. \A p \in 0 .. Len(d) : p + 1 \in 0 .. Len(c) /\ At(e, d, p) = At(b, c, p + 1)
    BY <1>2, AtMoves
  <2> HIDE DEF d, e
  <2>2. Mine(w, e, d)
    BY <2>1 DEF Mine
  <2> QED
    BY <2>2 DEF d, e
<1>3. Mine(w, Nil, c)
  <2>1. \A p : At(Nil, c, p) # Nil => At(Nil, c, p) = At(b, c, p)
    BY DEF At
  <2> QED
    BY <2>1 DEF Mine
<1> QED
  BY <1>1, <1>2, <1>3

LEMMA WorkStep ==
  ASSUME TypeOK, WorkInv, [Next]_vars
  PROVE  WorkInv'
<1>0. /\ chans \in [Worker -> Seq(Batch)] /\ busy \in [Worker -> Batch \cup {Nil}] /\ exited \subseteq Worker
      /\ Nil \notin Batch
  BY ItemAssumption DEF TypeOK
<1>1. /\ \A w \in Worker : Mine(w, busy[w], chans[w])
      /\ \A w \in exited : Closed /\ chans[w] = <<>> /\ busy[w] = Nil
      /\ closer = "closed" => Closed /\ exited = Worker
  BY DEF WorkInv
<1>2. ASSUME NEW k \in Key, SendBatch(k) PROVE WorkInv'
  <2> DEFINE w == Shard[k]
             x == [key |-> k, val |-> vals[k]]
  <2>1. w \in Worker /\ x \in Batch /\ x.key = k /\ Shard[x.key] = w
    BY <1>2, ShardAssumption DEF Batch, TypeOK
  <2>2. /\ chans' = [chans EXCEPT ![w] = Append(@, x)] /\ sched = "send"
        /\ UNCHANGED <<sched, busy, exited, closer>>
    BY <1>2 DEF SendBatch
  <2> HIDE DEF w, x
  <2>4. ASSUME NEW v \in Worker PROVE Mine(v, busy'[v], chans'[v])
    <3>1. CASE v = w
      <4>1. busy'[v] = busy[v] /\ chans'[v] = Append(chans[v], x) /\ chans[v] \in Seq(Batch)
        BY <1>0, <2>1, <2>2, <3>1
      <4>2. Mine(v, busy[v], Append(chans[v], x))
        BY <1>1, <2>1, <3>1, <4>1, MineMoves
      <4> QED
        BY <4>1, <4>2
    <3>2. CASE v # w
      <4>1. busy'[v] = busy[v] /\ chans'[v] = chans[v]
        BY <1>0, <2>2, <3>2
      <4> QED
        BY <1>1, <4>1
    <3> QED
      BY <3>1, <3>2
  <2>5. exited = {} /\ closer # "closed"
    BY <1>1, <2>2 DEF Closed
  <2> QED
    BY <2>2, <2>4, <2>5 DEF WorkInv
<1>3. ASSUME NEW w \in Worker, TakeBatch(w) PROVE WorkInv'
  <2>1. /\ w \notin exited /\ busy[w] = Nil /\ chans[w] # <<>> /\ chans[w] \in Seq(Batch)
        /\ busy' = [busy EXCEPT ![w] = Head(chans[w])] /\ chans' = [chans EXCEPT ![w] = Tail(@)]
        /\ UNCHANGED <<sched, exited, closer>>
    BY <1>0, <1>3 DEF TakeBatch, schedVars
  <2>2. \A v \in Worker : v # w => busy'[v] = busy[v] /\ chans'[v] = chans[v]
    BY <1>0, <2>1
  <2>3. ASSUME NEW v \in Worker PROVE Mine(v, busy'[v], chans'[v])
    <3>1. CASE v = w
      <4>1. busy'[v] = Head(chans[v]) /\ chans'[v] = Tail(chans[v])
        BY <1>0, <2>1, <3>1
      <4>2. Mine(v, Head(chans[v]), Tail(chans[v]))
        BY <1>1, <2>1, <3>1, MineMoves
      <4> QED
        BY <4>1, <4>2
    <3>2. CASE v # w
      BY <1>1, <2>2, <3>2
    <3> QED
      BY <3>1, <3>2
  <2>4. \A v \in exited : Closed' /\ chans'[v] = <<>> /\ busy'[v] = Nil
    BY <1>0, <1>1, <2>1, <2>2 DEF Closed
  <2>5. closer' = "closed" => Closed' /\ exited' = Worker
    BY <1>1, <2>1 DEF Closed
  <2> QED
    BY <2>1, <2>3, <2>4, <2>5 DEF WorkInv
<1>4. ASSUME NEW w \in Worker, DoReturns(w) PROVE WorkInv'
  <2>1. /\ busy[w] # Nil /\ busy' = [busy EXCEPT ![w] = Nil] /\ chans[w] \in Seq(Batch)
        /\ UNCHANGED <<sched, chans, exited, closer>>
    BY <1>0, <1>4 DEF DoReturns, schedVars
  <2>2. \A v \in Worker : v # w => busy'[v] = busy[v] /\ chans'[v] = chans[v]
    BY <1>0, <2>1
  <2>3. ASSUME NEW v \in Worker PROVE Mine(v, busy'[v], chans'[v])
    <3>1. CASE v = w
      <4>1. busy'[v] = Nil /\ chans'[v] = chans[v]
        BY <1>0, <2>1, <3>1
      <4>2. Mine(v, Nil, chans[v])
        BY <1>1, <2>1, <3>1, MineMoves
      <4> QED
        BY <4>1, <4>2
    <3>2. CASE v # w
      BY <1>1, <2>2, <3>2
    <3> QED
      BY <3>1, <3>2
  <2>4. \A v \in exited : Closed' /\ chans'[v] = <<>> /\ busy'[v] = Nil
    BY <1>0, <1>1, <2>1, <2>2 DEF Closed
  <2>5. closer' = "closed" => Closed' /\ exited' = Worker
    BY <1>1, <2>1 DEF Closed
  <2> QED
    BY <2>1, <2>3, <2>4, <2>5 DEF WorkInv
<1>5. CASE UNCHANGED <<busy, chans>> /\ (Closed => Closed')
  <2>1. \A w \in Worker : Mine(w, busy'[w], chans'[w])
    BY <1>1, <1>5
  <2>2. \A w \in exited : Closed' /\ chans'[w] = <<>> /\ busy'[w] = Nil
    BY <1>1, <1>5
  <2>3. ASSUME NEW w \in Worker, WorkerExit(w) PROVE WorkInv'
    <3>1. Closed /\ busy[w] = Nil /\ chans[w] = <<>> /\ exited' = exited \cup {w} /\ UNCHANGED closer
      BY <2>3 DEF WorkerExit
    <3>2. \A v \in exited' : Closed' /\ chans'[v] = <<>> /\ busy'[v] = Nil
      BY <1>5, <2>2, <3>1
    <3>3. closer' = "closed" => Closed' /\ exited' = Worker
      BY <1>0, <1>1, <1>5, <3>1
    <3> QED
      BY <2>1, <3>2, <3>3 DEF WorkInv
  <2>4. CASE CloseReturn
    <3>1. Closed /\ exited = Worker /\ UNCHANGED exited
      BY <2>4 DEF CloseReturn
    <3> QED
      BY <1>5, <2>1, <2>2, <3>1 DEF WorkInv
  <2>5. CASE UNCHANGED exited /\ (closer' = "closed" => closer = "closed")
    BY <1>1, <1>5, <2>1, <2>2, <2>5 DEF WorkInv
  <2>6. Next => \/ \E w \in Worker : WorkerExit(w) \/ TakeBatch(w) \/ DoReturns(w)
                \/ CloseReturn
                \/ UNCHANGED exited /\ (closer' = "closed" => closer = "closed")
    BY DEF Next, PutAccept, PutRefuse, PutPanic, Scheduler, ReceiveItem, ReceiveNil, Tick, SendBatch,
           Complete, Run, CloseCancel, Closing, CloseSend
  <2> QED
    BY <1>3, <1>4, <2>3, <2>4, <2>5, <2>6 DEF vars
<1>6. Next => \/ \E k \in Key : SendBatch(k)
              \/ \E w \in Worker : TakeBatch(w) \/ DoReturns(w)
              \/ UNCHANGED <<busy, chans>>
  BY DEF Next, PutAccept, PutRefuse, PutPanic, Scheduler, ReceiveItem, ReceiveNil, Tick, Complete, Run,
         WorkerExit, CloseCancel, Closing, CloseSend, CloseReturn
<1>7. [Next]_vars => (Closed => Closed')
  BY DEF Closed, Next, PutAccept, PutRefuse, PutPanic, Scheduler, ReceiveItem, ReceiveNil, Tick, SendBatch,
         Complete, Run, TakeBatch, DoReturns, WorkerExit, CloseCancel, Closing, CloseSend, CloseReturn,
         vars, schedVars
<1> QED
  BY <1>2, <1>3, <1>4, <1>5, <1>6, <1>7 DEF vars, schedVars

\* The wait group follows the batches.
LEMMA CountStep ==
  ASSUME TypeOK, CountInv, [Next]_vars
  PROVE  CountInv'
<1> SUFFICES ASSUME SyncWait PROVE IsFiniteSet(Out') /\ counter' = Cardinality(Out')
  BY DEF CountInv
<1>0. /\ chans \in [Worker -> Seq(Batch)] /\ busy \in [Worker -> Batch \cup {Nil}] /\ Nil \notin Batch
      /\ IsFiniteSet(Out) /\ counter = Cardinality(Out) /\ counter \in Nat
  BY ItemAssumption DEF TypeOK, CountInv
<1>1. \A x : x \in Out' <=> \E w \in Worker : \E p \in 0 .. Len(chans'[w]) :
                              x = <<w, p>> /\ (p = 0 => busy'[w] # Nil)
  BY DEF Out, OutOf
<1>2. ASSUME NEW k \in Key, SendBatch(k) PROVE IsFiniteSet(Out') /\ counter' = Cardinality(Out')
  <2> DEFINE w == Shard[k]
             x == [key |-> k, val |-> vals[k]]
             l == Len(chans[w])
  <2>1. /\ w \in Worker /\ chans' = [chans EXCEPT ![w] = Append(@, x)] /\ UNCHANGED busy
        /\ counter' = counter + 1 /\ x \in Batch /\ l \in Nat
    BY <1>0, <1>2, ShardAssumption DEF SendBatch, Batch, TypeOK
  <2> HIDE DEF w, x
  <2>2. Len(chans'[w]) = l + 1 /\ \A v \in Worker : v # w => chans'[v] = chans[v]
    BY <1>0, <2>1
  <2> HIDE DEF l
  <2>3. Out' = Out \cup {<<w, l + 1>>} /\ <<w, l + 1>> \notin Out
    <3>1. 0 .. l + 1 = 0 .. l \cup {l + 1} /\ l + 1 \notin 0 .. l /\ l + 1 # 0
      BY <2>1
    <3>2. ASSUME NEW v, NEW p PROVE <<v, p>> \in Out' <=> <<v, p>> \in Out \/ (v = w /\ p = l + 1)
      BY <1>1, <2>1, <2>2, <3>1, OutIs DEF l
    <3>3. \A y \in Out \cup Out' : \E v, p : y = <<v, p>>
      BY <1>1, OutIs
    <3>4. <<w, l + 1>> \notin Out
      BY <3>1, OutIs DEF l
    <3>5. ASSUME NEW y PROVE y \in Out' <=> y \in Out \cup {<<w, l + 1>>}
      BY <3>2, <3>3
    <3> QED
      BY <3>4, <3>5
  <2>4. IsFiniteSet(Out') /\ Cardinality(Out') = Cardinality(Out) + 1
    BY <1>0, <2>3, FS_AddElement
  <2> QED
    BY <1>0, <2>1, <2>4
<1>3. ASSUME NEW w \in Worker, TakeBatch(w) PROVE IsFiniteSet(Out') /\ counter' = Cardinality(Out')
  <2> DEFINE l == Len(chans[w])
  <2>1. /\ busy[w] = Nil /\ busy' = [busy EXCEPT ![w] = Head(chans[w])]
        /\ chans' = [chans EXCEPT ![w] = Tail(@)] /\ UNCHANGED counter
        /\ Head(chans[w]) \in Batch /\ l \in Nat \ {0} /\ Len(Tail(chans[w])) = l - 1
    <3>1. chans[w] \in Seq(Batch) /\ chans[w] # <<>>
      BY <1>0, <1>3 DEF TakeBatch
    <3> QED
      BY <1>3, <3>1, HeadTailProperties DEF TakeBatch
  <2>2. /\ Len(chans'[w]) = l - 1 /\ busy'[w] # Nil
        /\ \A v \in Worker : v # w => chans'[v] = chans[v] /\ busy'[v] = busy[v]
    BY <1>0, <2>1
  <2> HIDE DEF l
  <2>3. /\ Out' = (Out \ {<<w, l>>}) \cup {<<w, 0>>}
        /\ <<w, l>> \in Out /\ <<w, 0>> \notin Out
    <3>1. 0 .. l - 1 = (0 .. l) \ {l} /\ l \in 0 .. l /\ l # 0 /\ 0 \in 0 .. l - 1
      BY <2>1
    <3>2. ASSUME NEW v, NEW p
          PROVE  <<v, p>> \in Out' <=> (<<v, p>> \in Out /\ ~(v = w /\ p = l)) \/ (v = w /\ p = 0)
      BY <1>1, <2>1, <2>2, <3>1, OutIs DEF l
    <3>3. \A y \in Out \cup Out' : \E v, p : y = <<v, p>>
      BY <1>1, OutIs
    <3>4. <<w, l>> \in Out /\ <<w, 0>> \notin Out
      BY <2>1, <3>1, OutIs DEF l
    <3>5. ASSUME NEW y PROVE y \in Out' <=> y \in (Out \ {<<w, l>>}) \cup {<<w, 0>>}
      BY <3>2, <3>3
    <3> QED
      BY <3>4, <3>5
  <2>4. IsFiniteSet(Out \ {<<w, l>>}) /\ Cardinality(Out \ {<<w, l>>}) = Cardinality(Out) - 1
    BY <1>0, <2>3, FS_RemoveElement
  <2>5. IsFiniteSet(Out') /\ Cardinality(Out') = Cardinality(Out \ {<<w, l>>}) + 1
    BY <2>3, <2>4, FS_AddElement
  <2> QED
    BY <1>0, <2>1, <2>4, <2>5
<1>4. ASSUME NEW w \in Worker, DoReturns(w) PROVE IsFiniteSet(Out') /\ counter' = Cardinality(Out')
  <2>1. /\ busy[w] # Nil /\ busy' = [busy EXCEPT ![w] = Nil] /\ UNCHANGED chans
        /\ counter' = counter - 1
    BY <1>4 DEF DoReturns
  <2>2. busy'[w] = Nil /\ \A v \in Worker : v # w => busy'[v] = busy[v]
    BY <1>0, <2>1
  <2>3. Out' = Out \ {<<w, 0>>} /\ <<w, 0>> \in Out
    <3>1. 0 \in 0 .. Len(chans[w])
      BY <1>0
    <3>2. ASSUME NEW v, NEW p
          PROVE  <<v, p>> \in Out' <=> <<v, p>> \in Out /\ ~(v = w /\ p = 0)
      BY <1>1, <2>1, <2>2, OutIs
    <3>3. \A y \in Out \cup Out' : \E v, p : y = <<v, p>>
      BY <1>1, OutIs
    <3>4. <<w, 0>> \in Out
      BY <2>1, <3>1, OutIs
    <3>5. ASSUME NEW y PROVE y \in Out' <=> y \in Out \ {<<w, 0>>}
      BY <3>2, <3>3
    <3> QED
      BY <3>4, <3>5
  <2>4. IsFiniteSet(Out') /\ Cardinality(Out') = Cardinality(Out) - 1
    BY <1>0, <2>3, FS_RemoveElement
  <2> QED
    BY <1>0, <2>1, <2>4
<1>5. CASE UNCHANGED <<busy, chans, counter>>
  <2>1. Out' = Out
    BY <1>5 DEF Out, OutOf
  <2> QED
    BY <1>0, <1>5, <2>1
<1>6. Next => \/ \E k \in Key : SendBatch(k)
              \/ \E w \in Worker : TakeBatch(w) \/ DoReturns(w)
              \/ UNCHANGED <<busy, chans, counter>>
  BY DEF Next, PutAccept, PutRefuse, PutPanic, Scheduler, ReceiveItem, ReceiveNil, Tick, Complete, Run,
         WorkerExit, CloseCancel, Closing, CloseSend, CloseReturn
<1> QED
  BY <1>2, <1>3, <1>4, <1>5, <1>6 DEF vars

-----------------------------------------------------------------------------
(* What has been received of a key.                                        *)

\* The abstract queue takes its Only from the module it extends.
LEMMA OfKeyIs ==
  \A s, k : Queue!OfKey(s, k) = Only(s, {i \in Item : KeyOf[i] = k})
<1> DEFINE S(k) == {i \in Item : KeyOf[i] = k}
<1>1. \A s, k : Queue!OfKey(s, k) = Queue!Only(s, S(k))
  BY DEF Queue!OfKey
<1>2. \A s, T : Queue!Only(s, T) = Only(s, T)
  BY DEF Queue!Only, Only, Queue!Places, Places, Queue!Nth, Nth, Queue!Rank, Rank,
         Queue!Cardinality, Cardinality
<1> QED
  BY <1>1, <1>2

\* The items of a key, and those of a sequence with one more.
LEMMA OfKeyAppend ==
  ASSUME NEW s \in Seq(Item), NEW k
  PROVE  /\ Queue!OfKey(s, k) \in Seq(Item)
         /\ \A x \in Item : Queue!OfKey(Append(s, x), k) =
              IF KeyOf[x] = k THEN Append(Queue!OfKey(s, k), x) ELSE Queue!OfKey(s, k)
<1> DEFINE S == {i \in Item : KeyOf[i] = k}
<1>1. Only(s, S) \in Seq(Item)
  BY OnlyType
<1>2. ASSUME NEW x \in Item
      PROVE  Only(Append(s, x), S) = IF x \in S THEN Append(Only(s, S), x) ELSE Only(s, S)
  BY OnlyAppend
<1>3. \A x \in Item : x \in S <=> KeyOf[x] = k
  OBVIOUS
<1>4. \A t : Queue!OfKey(t, k) = Only(t, S)
  BY OfKeyIs
<1> HIDE DEF S
<1> QED
  BY <1>1, <1>2, <1>3, <1>4

\* What was received of a key comes first in what was accepted of it.
LEMMA OfKeyPrefix ==
  ASSUME NEW s \in Seq(Item), NEW n \in 0 .. Len(s), NEW k
  PROVE  LET r == Queue!OfKey(SubSeq(s, 1, n), k)
             q == Queue!OfKey(s, k)
         IN  /\ r \in Seq(Item) /\ q \in Seq(Item) /\ Len(r) <= Len(q)
             /\ \A i \in 1 .. Len(r) : r[i] = q[i]
<1> DEFINE S == {i \in Item : KeyOf[i] = k}
           t == SubSeq(s, 1, n)
           c == Cardinality({i \in Places(s, S) : i <= n})
<1>1. t \in Seq(Item)
  BY SubSeqProperties
<1>2. Only(t, S) \in Seq(Item) /\ Only(s, S) \in Seq(Item)
  BY <1>1, OnlyType
<1>3. \A T : LET Q == {i \in Places(s, T) : i <= n} IN
             /\ Len(Only(t, T)) = Cardinality(Q)
             /\ Cardinality(Q) \in 0 .. Len(Only(s, T))
             /\ \A i \in 1 .. Cardinality(Q) : Only(t, T)[i] = Only(s, T)[i]
  BY OnlyPrefix
<1>4. Queue!OfKey(t, k) = Only(t, S) /\ Queue!OfKey(s, k) = Only(s, S)
  BY OfKeyIs
<1> HIDE DEF S, t
<1>5. /\ Len(Only(t, S)) = c /\ c \in 0 .. Len(Only(s, S))
      /\ \A i \in 1 .. c : Only(t, S)[i] = Only(s, S)[i]
  BY <1>3
<1> HIDE DEF c
<1>6. /\ Queue!OfKey(t, k) \in Seq(Item) /\ Queue!OfKey(s, k) \in Seq(Item)
      /\ Len(Queue!OfKey(t, k)) <= Len(Queue!OfKey(s, k))
      /\ \A i \in 1 .. Len(Queue!OfKey(t, k)) : Queue!OfKey(t, k)[i] = Queue!OfKey(s, k)[i]
  BY <1>2, <1>4, <1>5
<1> QED
  BY <1>6 DEF t

\* A prefix does not change behind its end, and grows by what is there.
LEMMA PrefixAppend ==
  ASSUME NEW s \in Seq(Item), NEW n \in 0 .. Len(s)
  PROVE  /\ SubSeq(s, 1, n) \in Seq(Item)
         /\ \A x \in Item : SubSeq(Append(s, x), 1, n) = SubSeq(s, 1, n)
         /\ n < Len(s) => SubSeq(s, 1, n + 1) = Append(SubSeq(s, 1, n), s[n + 1])
<1>1. /\ SubSeq(s, 1, n) \in Seq(Item) /\ Len(SubSeq(s, 1, n)) = n
      /\ \A i \in 1 .. n : SubSeq(s, 1, n)[i] = s[i]
  BY SubSeqProperties
<1>2. ASSUME NEW x \in Item PROVE SubSeq(Append(s, x), 1, n) = SubSeq(s, 1, n)
  <2> DEFINE t == Append(s, x)
  <2>1. t \in Seq(Item) /\ Len(t) = Len(s) + 1 /\ \A i \in 1 .. Len(s) : t[i] = s[i]
    OBVIOUS
  <2> HIDE DEF t
  <2>2. /\ SubSeq(t, 1, n) \in Seq(Item) /\ Len(SubSeq(t, 1, n)) = n
        /\ \A i \in 1 .. n : SubSeq(t, 1, n)[i] = t[i]
    BY <2>1, SubSeqProperties
  <2>3. \A i \in 1 .. n : SubSeq(t, 1, n)[i] = SubSeq(s, 1, n)[i]
    BY <1>1, <2>1, <2>2
  <2>4. SubSeq(t, 1, n) = SubSeq(s, 1, n)
    BY <1>1, <2>2, <2>3, SeqEqual
  <2> QED
    BY <2>4 DEF t
<1>3. ASSUME n < Len(s) PROVE SubSeq(s, 1, n + 1) = Append(SubSeq(s, 1, n), s[n + 1])
  <2> DEFINE p == SubSeq(s, 1, n)
             q == SubSeq(s, 1, n + 1)
             a == Append(p, s[n + 1])
  <2>1. n + 1 \in 1 .. Len(s) /\ n + 1 \in 0 .. Len(s) /\ s[n + 1] \in Item
    BY <1>3
  <2>2. q \in Seq(Item) /\ Len(q) = n + 1 /\ \A i \in 1 .. n + 1 : q[i] = s[i]
    BY <2>1, SubSeqProperties
  <2> HIDE DEF p, q
  <2>3. p \in Seq(Item) /\ Len(p) = n /\ \A i \in 1 .. n : p[i] = s[i]
    BY <1>1 DEF p
  <2>4. /\ a \in Seq(Item) /\ Len(a) = n + 1 /\ a[n + 1] = s[n + 1]
        /\ \A i \in 1 .. n : a[i] = p[i]
    BY <2>1, <2>3
  <2> HIDE DEF a
  <2>5. \A i \in 1 .. n + 1 : a[i] = q[i]
    <3>1. \A i \in 1 .. n + 1 : i \in 1 .. n \/ i = n + 1
      OBVIOUS
    <3> QED
      BY <2>2, <2>3, <2>4, <3>1
  <2>6. a = q
    BY <2>2, <2>4, <2>5, SeqEqual
  <2> QED
    BY <2>6 DEF a, p, q
<1> QED
  BY <1>1, <1>2, <1>3

-----------------------------------------------------------------------------
(* The rows.                                                               *)

\* The types of a row.
LEMMA RowTypes ==
  ASSUME TypeOK, DataInv, NEW k \in Key
  PROVE  /\ received \in 0 .. Len(accepted) /\ Recv(k) \in Seq(Item)
         /\ Shard[k] \in Worker /\ chans[Shard[k]] \in Seq(Batch)
         /\ busy[Shard[k]] \in Batch \cup {Nil} /\ vals[k] \in Seq(Item) /\ handled[k] \in Seq(Item)
<1>1. received \in 0 .. Len(accepted) /\ accepted \in Seq(Item)
  BY DEF TypeOK, DataInv
<1>2. SubSeq(accepted, 1, received) \in Seq(Item)
  BY <1>1, PrefixAppend
<1>3. Recv(k) \in Seq(Item)
  BY <1>2, OfKeyAppend DEF Recv
<1> QED
  BY <1>1, <1>3, ShardAssumption DEF TypeOK

\* A row does not change with what it does not depend on.
LEMMA RowKeeps ==
  ASSUME NEW k, RowOf(k), UNCHANGED <<Recv(k), handled, busy, chans, Pending(k)>>
  PROVE  RowOf(k)'
BY DEF RowOf

LEMMA RowPut ==
  ASSUME TypeOK, DataInv, RowInv, NEW i \in Item, PutAccept(i)
  PROVE  RowInv'
<1>1. /\ accepted' = Append(accepted, i) /\ accepted \in Seq(Item) /\ received' = received
      /\ UNCHANGED <<sched, vals, left, handled, busy, chans>>
  BY DEF PutAccept, TypeOK, schedVars
<1>2. ASSUME NEW k \in Key PROVE RowOf(k)'
  <2>1. received \in 0 .. Len(accepted)
    BY RowTypes
  <2>2. SubSeq(accepted', 1, received') = SubSeq(accepted, 1, received)
    BY <1>1, <2>1, PrefixAppend
  <2>3. Recv(k)' = Recv(k)
    BY <2>2 DEF Recv, Queue!OfKey, Queue!Only, Queue!Places
  <2>4. Pending(k)' = Pending(k)
    BY <1>1 DEF Pending
  <2> QED
    BY <1>1, <2>3, <2>4, RowKeeps DEF RowInv
<1> QED
  BY <1>2 DEF RowInv

\* The item that is received is the next of what was accepted.
LEMMA NextReceived ==
  ASSUME TypeOK, DataInv, ReceiveItem
  PROVE  /\ Head(data) \in Item /\ received < Len(accepted)
         /\ Head(data) = accepted[received + 1]
<1>1. /\ data \in Seq(Item \cup {Nil}) /\ data # <<>> /\ Head(data) # Nil /\ received \in Nat
      /\ accepted \in Seq(Item) /\ cut \in Nat
  BY DEF ReceiveItem, TypeOK
<1>2. /\ Head(data) = data[1] /\ Head(data) \in Item /\ Len(data) \in Nat \ {0} /\ 1 \in 1 .. Len(data)
      /\ Len(accepted) \in Nat
  BY <1>1
<1>3. CASE ~NilQueued
  BY <1>1, <1>2, <1>3 DEF DataInv
<1>4. CASE NilQueued
  <2>1. /\ received <= cut /\ cut <= Len(accepted)
        /\ data[1] = IF 1 <= cut - received THEN accepted[received + 1]
                     ELSE IF 1 = cut - received + 1 THEN Nil ELSE accepted[received + 1 - 1]
    BY <1>2, <1>4 DEF DataInv
  <2>2. 1 <= cut - received
    BY <1>1, <1>2, <2>1
  <2> QED
    BY <1>1, <1>2, <2>1, <2>2
<1> QED
  BY <1>3, <1>4

LEMMA RowReceive ==
  ASSUME TypeOK, DataInv, SchedInv, RowInv, ReceiveItem
  PROVE  RowInv'
<1> DEFINE x == Head(data)
<1>1. x \in Item /\ received < Len(accepted) /\ x = accepted[received + 1]
  BY NextReceived
<1>2. /\ sched = "select" /\ received' = received + 1
      /\ vals' = [vals EXCEPT ![KeyOf[x]] = Append(@, x)]
      /\ (sched' = "send" /\ left' = Gathered(vals')) \/ sched' = sched
      /\ UNCHANGED <<accepted, handled, busy, chans>>
  BY DEF ReceiveItem, Distribute
<1> HIDE DEF x
<1>3. KeyOf[x] \in Key /\ vals \in [Key -> Seq(Item)] /\ accepted \in Seq(Item)
  BY <1>1, ItemAssumption DEF TypeOK
<1>4. ASSUME NEW k \in Key PROVE RowOf(k)'
  <2>1. received \in 0 .. Len(accepted) /\ Recv(k) \in Seq(Item) /\ chans[Shard[k]] \in Seq(Batch)
    BY RowTypes
  <2>2. SubSeq(accepted, 1, received + 1) = Append(SubSeq(accepted, 1, received), x)
    BY <1>1, <1>3, <2>1, PrefixAppend
  <2>3. SubSeq(accepted, 1, received) \in Seq(Item)
    BY <1>3, <2>1, PrefixAppend
  <2>4. Recv(k)' = IF KeyOf[x] = k THEN Append(Recv(k), x) ELSE Recv(k)
    <3> DEFINE p == SubSeq(accepted, 1, received)
    <3>1. Queue!OfKey(Append(p, x), k) = IF KeyOf[x] = k THEN Append(Queue!OfKey(p, k), x) ELSE Queue!OfKey(p, k)
      BY <1>1, <2>3, OfKeyAppend
    <3>2. Recv(k)' = Queue!OfKey(Append(p, x), k)
      BY <1>2, <2>2 DEF Recv, Queue!OfKey, Queue!Only, Queue!Places
    <3> QED
      BY <3>1, <3>2 DEF Recv
  <2>5. Pending(k) = vals[k]
    BY <1>2 DEF Pending
  <2>6. Pending(k)' = vals'[k]
    <3>1. CASE sched' = "send" /\ left' = Gathered(vals')
      BY <3>1 DEF Pending, Gathered
    <3>2. CASE sched' = sched
      BY <1>2, <3>2 DEF Pending
    <3> QED
      BY <1>2, <3>1, <3>2
  <2>7. RowOf(k)
    BY DEF RowInv
  <2>8. CASE KeyOf[x] = k
    <3>1. vals'[k] = Append(vals[k], x)
      BY <1>2, <1>3, <2>8
    <3>2. Row(k, Append(Recv(k), x), handled[k], busy[Shard[k]], chans[Shard[k]], Append(vals[k], x))
      BY <1>1, <2>1, <2>5, <2>7, RowReceives DEF RowOf
    <3> QED
      BY <1>2, <2>4, <2>6, <2>8, <3>1, <3>2 DEF RowOf
  <2>9. CASE KeyOf[x] # k
    <3>1. vals'[k] = vals[k]
      BY <1>2, <1>3, <2>9
    <3> QED
      BY <1>2, <2>4, <2>5, <2>6, <2>7, <2>9, <3>1, RowKeeps
  <2> QED
    BY <2>8, <2>9
<1> QED
  BY <1>4 DEF RowInv

\* The scheduler starts or ends a distribution.
LEMMA RowDistribute ==
  ASSUME TypeOK, SchedInv, RowInv, ReceiveNil \/ Tick \/ Complete
  PROVE  RowInv'
<1>1. UNCHANGED <<accepted, received, handled, busy, chans>>
  BY DEF ReceiveNil, Tick, Complete
<1>2. ASSUME NEW k \in Key PROVE Pending(k)' = Pending(k)
  <2>1. CASE Complete
    BY <2>1 DEF Complete, Pending
  <2>2. CASE (ReceiveNil \/ Tick) /\ sched' = "send" /\ left' = Gathered(vals)
    BY <2>2 DEF ReceiveNil, Tick, Pending, Gathered
  <2>3. CASE ReceiveNil /\ sched' # "send"
    BY <2>3 DEF ReceiveNil, Pending
  <2> QED
    BY <2>1, <2>2, <2>3 DEF ReceiveNil, Tick, Distribute
<1>3. ASSUME NEW k \in Key PROVE Recv(k)' = Recv(k)
  BY <1>1 DEF Recv, Queue!OfKey, Queue!Only, Queue!Places
<1> QED
  BY <1>1, <1>2, <1>3, RowKeeps DEF RowInv

LEMMA RowSend ==
  ASSUME TypeOK, DataInv, SchedInv, RowInv, NEW j \in Key, SendBatch(j)
  PROVE  RowInv'
<1> DEFINE w == Shard[j]
           x == [key |-> j, val |-> vals[j]]
<1>1. /\ sched = "send" /\ j \in left /\ left' = left \ {j}
      /\ chans' = [chans EXCEPT ![w] = Append(@, x)]
      /\ UNCHANGED <<accepted, received, sched, vals, busy, handled>>
  BY DEF SendBatch
<1>2. x \in Batch /\ x.key = j /\ vals[j] # <<>> /\ w \in Worker /\ chans \in [Worker -> Seq(Batch)]
      /\ Nil \notin Batch
  BY <1>1, RowTypes, ItemAssumption DEF SchedInv, Gathered, Batch, TypeOK
<1>3. ASSUME NEW k \in Key PROVE Recv(k)' = Recv(k)
  BY <1>1 DEF Recv, Queue!OfKey, Queue!Only, Queue!Places
<1>4. ASSUME NEW k \in Key PROVE RowOf(k)'
  <2>1. /\ Recv(k) \in Seq(Item) /\ Shard[k] \in Worker /\ chans[Shard[k]] \in Seq(Batch)
        /\ RowOf(k)
    BY RowTypes DEF RowInv
  <2>2. CASE k = j
    <3>1. Pending(k) = vals[j] /\ Pending(k)' = <<>>
      BY <1>1, <2>2 DEF Pending
    <3>2. chans'[Shard[k]] = Append(chans[Shard[k]], x)
      BY <1>1, <1>2, <2>2
    <3>3. Row(j, Recv(j), handled[j], busy[w], Append(chans[w], x), <<>>)
      BY <1>2, <2>1, <2>2, <3>1, RowSends DEF RowOf
    <3> QED
      BY <1>1, <1>3, <2>2, <3>1, <3>2, <3>3 DEF RowOf
  <2>3. CASE k # j
    <3>1. Pending(k)' = Pending(k)
      BY <1>1, <2>3 DEF Pending
    <3>2. CASE Shard[k] = w
      <4> HIDE DEF x
      <4>1. chans'[Shard[k]] = Append(chans[Shard[k]], x)
        BY <1>1, <1>2, <3>2
      <4>2. Row(k, Recv(k), handled[k], busy[Shard[k]], Append(chans[Shard[k]], x), Pending(k))
        BY <1>2, <2>1, <2>3, RowOtherSent DEF RowOf
      <4> QED
        BY <1>1, <1>3, <3>1, <4>1, <4>2 DEF RowOf
    <3>3. CASE Shard[k] # w
      <4>1. chans'[Shard[k]] = chans[Shard[k]]
        BY <1>1, <1>2, <2>1, <3>3
      <4> QED
        BY <1>1, <1>3, <2>1, <3>1, <4>1 DEF RowOf
    <3> QED
      BY <3>2, <3>3
  <2> QED
    BY <2>2, <2>3
<1> QED
  BY <1>4 DEF RowInv

LEMMA RowTake ==
  ASSUME TypeOK, DataInv, RowInv, NEW w \in Worker, TakeBatch(w)
  PROVE  RowInv'
<1>1. /\ busy[w] = Nil /\ chans[w] # <<>> /\ busy' = [busy EXCEPT ![w] = Head(chans[w])]
      /\ chans' = [chans EXCEPT ![w] = Tail(@)]
      /\ UNCHANGED <<accepted, received, sched, vals, left, handled>>
      /\ busy \in [Worker -> Batch \cup {Nil}] /\ chans \in [Worker -> Seq(Batch)]
  BY DEF TakeBatch, TypeOK, schedVars
<1>2. ASSUME NEW k \in Key PROVE RowOf(k)'
  <2>1. Recv(k)' = Recv(k) /\ Pending(k)' = Pending(k)
    BY <1>1 DEF Recv, Queue!OfKey, Queue!Only, Queue!Places, Pending
  <2>2. Recv(k) \in Seq(Item) /\ Shard[k] \in Worker /\ chans[Shard[k]] \in Seq(Batch) /\ RowOf(k)
    BY RowTypes DEF RowInv
  <2>3. CASE Shard[k] = w
    <3>1. busy'[w] = Head(chans[w]) /\ chans'[w] = Tail(chans[w])
      BY <1>1
    <3>2. Row(k, Recv(k), handled[k], Head(chans[w]), Tail(chans[w]), Pending(k))
      BY <1>1, <2>2, <2>3, RowTakes DEF RowOf
    <3> QED
      BY <1>1, <2>1, <2>3, <3>1, <3>2 DEF RowOf
  <2>4. CASE Shard[k] # w
    <3>1. busy'[Shard[k]] = busy[Shard[k]] /\ chans'[Shard[k]] = chans[Shard[k]]
      BY <1>1, <2>2, <2>4
    <3> QED
      BY <1>1, <2>1, <2>2, <3>1 DEF RowOf
  <2> QED
    BY <2>3, <2>4
<1> QED
  BY <1>2 DEF RowInv

\* The batch that is handled is the next of what was received of its key.
LEMMA RowReturns ==
  ASSUME TypeOK, DataInv, WorkInv, RowInv, NEW w \in Worker, DoReturns(w)
  PROVE  /\ RowInv'
         /\ \E j \in Key : /\ handled' = [handled EXCEPT ![j] = handled'[j]]
                           /\ Len(handled'[j]) \in Len(handled[j]) + 1 .. Len(Recv(j))
<1>1. busy[w] \in Batch /\ busy[w].key \in Key /\ Nil \notin Batch
  BY ItemAssumption DEF Batch, DoReturns, TypeOK
<1>2. PICK b \in Batch : b = busy[w]
  BY <1>1
<1>3. PICK j \in Key : j = b.key
  BY <1>1, <1>2
<1>4. /\ b # Nil /\ busy' = [busy EXCEPT ![w] = Nil]
      /\ handled' = [handled EXCEPT ![j] = @ \o b.val]
      /\ UNCHANGED <<accepted, received, sched, vals, left, chans>>
      /\ busy \in [Worker -> Batch \cup {Nil}] /\ handled \in [Key -> Seq(Item)]
  BY <1>2, <1>3 DEF DoReturns, TypeOK, schedVars
<1>5. Shard[j] = w
  <2>1. Mine(w, b, chans[w]) /\ 0 \in 0 .. Len(chans[w])
    BY <1>2 DEF WorkInv, TypeOK
  <2>2. At(b, chans[w], 0) = b
    BY DEF At
  <2> QED
    BY <1>4, <1>3, <2>1, <2>2 DEF Mine
<1>6. ASSUME NEW k \in Key PROVE Recv(k)' = Recv(k) /\ Pending(k)' = Pending(k)
  BY <1>4 DEF Recv, Queue!OfKey, Queue!Only, Queue!Places, Pending
<1>7. /\ Row(j, Recv(j), handled[j] \o b.val, Nil, chans[w], Pending(j))
      /\ Len(handled[j] \o b.val) \in Len(handled[j]) + 1 .. Len(Recv(j))
  <2>1. Recv(j) \in Seq(Item) /\ chans[w] \in Seq(Batch)
    BY <1>5, RowTypes
  <2>2. Row(j, Recv(j), handled[j], b, chans[w], Pending(j))
    BY <1>2, <1>5 DEF RowInv, RowOf
  <2>3. IsOf(b, j)
    BY <1>4, <1>3 DEF IsOf
  <2> QED
    BY <1>1, <2>1, <2>2, <2>3, RowHandled
<1>8. ASSUME NEW k \in Key, k # j PROVE RowOf(k)'
  <2>1. handled'[k] = handled[k]
    BY <1>4, <1>8
  <2>2. Recv(k) \in Seq(Item) /\ Shard[k] \in Worker /\ chans[Shard[k]] \in Seq(Batch) /\ RowOf(k)
    BY RowTypes DEF RowInv
  <2>3. CASE Shard[k] = w
    <3>1. busy'[Shard[k]] = Nil
      BY <1>4, <2>3
    <3>2. ~IsOf(b, k)
      BY <1>3, <1>8 DEF IsOf
    <3>3. Row(k, Recv(k), handled[k], Nil, chans[Shard[k]], Pending(k))
      <4>1. Row(k, Recv(k), handled[k], b, chans[Shard[k]], Pending(k))
        BY <1>2, <2>2, <2>3 DEF RowOf
      <4> QED
        BY <2>2, <3>2, <4>1, RowOtherHandled
    <3> QED
      BY <1>4, <1>6, <2>1, <3>1, <3>3 DEF RowOf
  <2>4. CASE Shard[k] # w
    <3>1. busy'[Shard[k]] = busy[Shard[k]]
      BY <1>4, <2>2, <2>4
    <3> QED
      BY <1>4, <1>6, <2>1, <2>2, <3>1 DEF RowOf
  <2> QED
    BY <2>3, <2>4
<1>9. handled'[j] = handled[j] \o b.val
  BY <1>4
<1>10. RowOf(j)'
  <2>1. busy'[w] = Nil
    BY <1>4
  <2> QED
    BY <1>4, <1>5, <1>7, <1>9, <1>6, <2>1 DEF RowOf
<1>11. handled' = [handled EXCEPT ![j] = handled'[j]]
  BY <1>4, <1>9
<1>12. RowInv'
  BY <1>8, <1>10 DEF RowInv
<1> QED
  BY <1>7, <1>9, <1>11, <1>12

LEMMA RowStep ==
  ASSUME TypeOK, DataInv, SchedInv, WorkInv, RowInv, [Next]_vars
  PROVE  RowInv'
<1>1. CASE UNCHANGED <<accepted, received, handled, busy, chans, sched, vals, left>>
  <2>1. ASSUME NEW k \in Key PROVE Recv(k)' = Recv(k) /\ Pending(k)' = Pending(k)
    BY <1>1 DEF Recv, Queue!OfKey, Queue!Only, Queue!Places, Pending
  <2> QED
    BY <1>1, <2>1, RowKeeps DEF RowInv
<1>2. Next => \/ \E i \in Item : PutAccept(i)
              \/ ReceiveItem \/ ReceiveNil \/ Tick \/ Complete
              \/ \E k \in Key : SendBatch(k)
              \/ \E w \in Worker : TakeBatch(w) \/ DoReturns(w)
              \/ UNCHANGED <<accepted, received, handled, busy, chans, sched, vals, left>>
  BY DEF Next, PutRefuse, PutPanic, Scheduler, Run, WorkerExit, CloseCancel, Closing, CloseSend,
         CloseReturn, schedVars
<1> QED
  BY <1>1, <1>2, RowPut, RowReceive, RowDistribute, RowSend, RowTake, RowReturns DEF vars, schedVars

-----------------------------------------------------------------------------
(* The invariant holds.                                                    *)

LEMMA InitInv == Init => IInv
<1> SUFFICES ASSUME Init PROVE IInv
  OBVIOUS
<1>1. TypeOK
  <2>1. <<>> \in Seq(Item \cup {Nil}) /\ <<>> \in Seq(Item) /\ <<>> \in Seq(Batch) /\ Len(<<>>) = 0
    OBVIOUS
  <2>2. DataBuffer \in Nat /\ Buffer \in Nat
    BY SizesAssumption
  <2>3. /\ call \in [Item -> {"new", "accepted", "refused", "panicked"}]
        /\ data \in Seq(Item \cup {Nil}) /\ Len(data) <= DataBuffer
        /\ vals \in [Key -> Seq(Item)] /\ left \subseteq Key /\ handled \in [Key -> Seq(Item)]
    BY <2>1, <2>2 DEF Init
  <2>4. /\ chans \in [Worker -> Seq(Batch)] /\ busy \in [Worker -> Batch \cup {Nil}]
        /\ \A w \in Worker : Len(chans[w]) <= Buffer
    <3> DEFINE B == Batch
    <3>1. chans = [w \in Worker |-> <<>>] /\ busy = [w \in Worker |-> Nil] /\ <<>> \in Seq(B)
      BY <2>1 DEF Init
    <3> HIDE DEF B
    <3>2. chans \in [Worker -> Seq(B)] /\ busy \in [Worker -> B \cup {Nil}]
      BY <3>1
    <3> QED
      BY <2>1, <2>2, <3>1, <3>2 DEF B
  <2> QED
    BY <2>1, <2>3, <2>4 DEF Init, TypeOK
<1>2. RowInv
  <2> DEFINE f == [p \in 0 .. 1 |-> 0]
  <2>1. ASSUME NEW k \in Key PROVE Recv(k) = <<>>
    <3> DEFINE S == {i \in Item : KeyOf[i] = k}
               e == SubSeq(accepted, 1, received)
    <3>1. e \in Seq(Item) /\ Len(e) = 0
      <4>1. accepted \in Seq(Item) /\ Len(accepted) = 0 /\ received = 0
        BY DEF Init
      <4> QED
        BY <4>1, SubSeqProperties
    <3>2. Recv(k) = Only(e, S)
      BY OfKeyIs DEF Recv
    <3>3. \A i \in 1 .. Len(e) : e[i] \notin S
      BY <3>1
    <3> HIDE DEF e, S
    <3> QED
      BY <3>1, <3>2, <3>3, OnlyEmpty
  <2>2. Piece(<<>>, 0, 0, <<>>) /\ Len(<<>>) = 0
    BY DEF Piece
  <2>3. f \in [0 .. 0 + 1 -> 0 .. 0] /\ f[0] = 0 /\ f[1] = 0
    OBVIOUS
  <2> HIDE DEF f
  <2>4. ASSUME NEW k \in Key PROVE Row(k, <<>>, <<>>, Nil, <<>>, <<>>)
    <3>1. \A p \in 0 .. 0 : f[p + 1] = f[p] /\ ~IsOf(At(Nil, <<>>, p), k)
      BY <2>3 DEF At, IsOf
    <3>2. Cuts(k, <<>>, <<>>, Nil, <<>>, <<>>, f)
      BY <2>2, <2>3, <3>1 DEF Cuts
    <3> QED
      BY <2>2, <2>3, <3>2 DEF Row
  <2>5. ASSUME NEW k \in Key
        PROVE  handled[k] = <<>> /\ busy[Shard[k]] = Nil /\ chans[Shard[k]] = <<>> /\ Pending(k) = <<>>
    BY ShardAssumption DEF Init, Pending
  <2> QED
    BY <2>1, <2>4, <2>5 DEF RowInv, RowOf
<1>3. DataInv
  BY DEF Init, DataInv, NilQueued, Ended
<1>4. CallInv
  BY DEF Init, CallInv
<1>5. SchedInv
  <2>1. Held(vals) = {}
    BY HeldNone DEF Init
  <2> QED
    BY <2>1, FS_EmptySet DEF Init, SchedInv, Gathered
<1>6. WorkInv
  <2>1. ASSUME NEW w \in Worker PROVE Mine(w, busy[w], chans[w])
    <3>1. busy[w] = Nil /\ chans[w] = <<>>
      BY DEF Init
    <3>2. \A p \in 0 .. Len(<<>>) : p = 0
      OBVIOUS
    <3> QED
      BY <3>1, <3>2 DEF Mine, At
  <2> QED
    BY <2>1 DEF Init, WorkInv
<1>7. CountInv
  <2>1. Out = {}
    <3>1. \A w \in Worker : busy[w] = Nil /\ \A p \in 0 .. Len(chans[w]) : p = 0
      BY DEF Init
    <3> QED
      BY <3>1, OutIs
  <2> QED
    BY <2>1, FS_EmptySet DEF Init, CountInv
<1> QED
  BY <1>1, <1>2, <1>3, <1>4, <1>5, <1>6, <1>7 DEF IInv

LEMMA NextInv == IInv /\ [Next]_vars => IInv'
<1> SUFFICES ASSUME IInv, [Next]_vars PROVE IInv'
  OBVIOUS
<1>1. TypeOK /\ RowInv /\ DataInv /\ CallInv /\ SchedInv /\ WorkInv /\ CountInv
  BY DEF IInv
<1> QED
  BY <1>1, TypeStep, RowStep, DataStep, CallStep, SchedStep, WorkStep, CountStep DEF IInv

LEMMA InvHolds == Spec => []IInv
<1> QED
  BY InitInv, NextInv, PTL DEF Spec

\* The channels never hold more than their capacities, the wait group never
\* goes below zero, and the scheduler and the workers hold what their code
\* takes from them.
THEOREM TypeCorrect == Spec => []TypeOK
<1>1. IInv => TypeOK
  BY DEF IInv
<1> QED
  BY <1>1, InvHolds, PTL

\* A key whose worker is idle and of which the scheduler holds nothing has been
\* handled as far as it was received.
LEMMA IdleHandled ==
  ASSUME IInv, NEW k \in Key, busy[Shard[k]] = Nil, chans[Shard[k]] = <<>>, Pending(k) = <<>>
  PROVE  handled[k] = Recv(k)
<1>1. Recv(k) \in Seq(Item)
  BY RowTypes DEF IInv
<1>2. Row(k, Recv(k), handled[k], Nil, <<>>, <<>>)
  BY DEF IInv, RowInv, RowOf
<1> QED
  BY <1>1, <1>2, RowEmpty

\* When Close returns, every item accepted before Close sent its nil has been
\* handled, however many batches, channels and workers lay between.
THEOREM CloseWaits == Spec => []CloseDrains
<1>1. IInv => CloseDrains
  <2> SUFFICES ASSUME IInv, closer = "closed", NEW k \in Key
               PROVE  handled[k] = Queue!OfKey(SubSeq(accepted, 1, cut), k)
    BY DEF CloseDrains
  <2>1. sched = "exited" /\ exited = Worker /\ Shard[k] \in Worker
    BY ShardAssumption DEF IInv, WorkInv, Closed
  <2>2. busy[Shard[k]] = Nil /\ chans[Shard[k]] = <<>>
    BY <2>1 DEF IInv, WorkInv
  <2>3. Pending(k) = <<>>
    BY <2>1 DEF IInv, SchedInv, Pending
  <2>4. received = cut
    BY <2>1 DEF IInv, DataInv, Ended
  <2> QED
    BY <2>2, <2>3, <2>4, IdleHandled DEF Recv
<1> QED
  BY <1>1, InvHolds, PTL

\* With syncWait, OnComplete is called only when the Do of every item received
\* so far has returned.
THEOREM OnCompleteWaits == Spec => CompleteAfterDo
<1>1. ASSUME IInv, Complete, SyncWait, NEW k \in Key
      PROVE  handled[k] = Queue!OfKey(SubSeq(accepted, 1, received), k)
  <2>1. counter = 0 /\ left = {} /\ sched = "send"
    BY <1>1 DEF Complete
  <2>2. Shard[k] \in Worker /\ chans[Shard[k]] \in Seq(Batch) /\ Len(chans[Shard[k]]) \in Nat
    BY <1>1, ShardAssumption DEF IInv, TypeOK
  <2>3. \A p \in 0 .. Len(chans[Shard[k]]) : ~(p = 0 => busy[Shard[k]] # Nil)
    BY <1>1, <2>1, <2>2, CountPositive DEF IInv
  <2>4. busy[Shard[k]] = Nil
    BY <2>2, <2>3
  <2>5. chans[Shard[k]] = <<>>
    <3>1. Len(chans[Shard[k]]) \in 0 .. Len(chans[Shard[k]])
      BY <2>2
    <3>2. Len(chans[Shard[k]]) = 0
      BY <2>3, <3>1
    <3> QED
      BY <2>2, <3>2
  <2>6. Pending(k) = <<>>
    BY <2>1 DEF Pending
  <2> QED
    BY <1>1, <2>4, <2>5, <2>6, IdleHandled DEF Recv
<1>2. IInv /\ [Next]_vars =>
        [Complete /\ SyncWait =>
           \A k \in Key : handled[k] = Queue!OfKey(SubSeq(accepted, 1, received), k)]_vars
  BY <1>1
<1> QED
  BY <1>2, InvHolds, PTL DEF Spec, CompleteAfterDo

-----------------------------------------------------------------------------
(* The abstract queue.                                                     *)

LEMMA QueueStep == IInv /\ IInv' /\ [Next]_vars => [Queue!QueueNext]_(Queue!queueVars)
<1> SUFFICES ASSUME IInv, IInv', [Next]_vars, UNCHANGED <<accepted, handled>> => FALSE
             PROVE  Queue!QueueNext
  BY DEF Queue!queueVars
<1>1. TypeOK /\ RowInv /\ DataInv /\ CallInv /\ WorkInv /\ TypeOK' /\ DataInv' /\ RowInv'
  BY DEF IInv
<1>2. ASSUME NEW i \in Item, PutAccept(i) PROVE Queue!QueueNext
  <2>1. \A n \in 1 .. Len(accepted) : accepted[n] # i
    BY <1>1, <1>2 DEF CallInv, PutAccept
  <2>2. Queue!Accept(i)
    BY <1>2, <2>1 DEF PutAccept, Queue!Accept
  <2> QED
    BY <2>2 DEF Queue!QueueNext
<1>3. ASSUME NEW w \in Worker, DoReturns(w) PROVE Queue!QueueNext
  <2>1. PICK j \in Key : /\ handled' = [handled EXCEPT ![j] = handled'[j]]
                         /\ Len(handled'[j]) \in Len(handled[j]) + 1 .. Len(Recv(j))
    BY <1>1, <1>3, RowReturns
  <2> DEFINE n == Len(handled'[j])
             q == Queue!OfKey(accepted, j)
             r == Recv(j)
  <2>2. UNCHANGED <<accepted, received>>
    BY <1>3 DEF DoReturns
  <2>3. /\ r \in Seq(Item) /\ q \in Seq(Item) /\ Len(r) <= Len(q)
        /\ \A m \in 1 .. Len(r) : r[m] = q[m]
    <3>1. received \in 0 .. Len(accepted) /\ accepted \in Seq(Item)
      BY <1>1, RowTypes DEF TypeOK
    <3> QED
      BY <3>1, OfKeyPrefix DEF Recv
  <2>4. handled'[j] \in Seq(Item) /\ \A m \in 1 .. n : handled'[j][m] = r[m]
    <3>1. r' = r
      BY <2>2 DEF Recv, Queue!OfKey, Queue!Only, Queue!Places
    <3>2. RowOf(j)'
      BY <1>1 DEF RowInv
    <3>3. Piece(r', 0, n, handled'[j])
      BY <3>2 DEF RowOf, Row
    <3> HIDE DEF r
    <3>4. /\ handled'[j] \in Seq(Item) /\ n \in Nat
          /\ \A m \in 1 .. n - 0 : handled'[j][m] = r[0 + m]
      BY <3>1, <3>3 DEF Piece
    <3> HIDE DEF n
    <3>5. n - 0 = n /\ \A m \in 1 .. n : 0 + m = m
      BY <3>4
    <3> QED
      BY <3>4, <3>5
  <2>5. Len(handled[j]) \in Nat
    BY <1>1 DEF TypeOK
  <2>6. n \in Len(handled[j]) + 1 .. Len(q) /\ n \in 0 .. Len(q)
    <3> HIDE DEF q, r, n
    <3>1. Len(r) \in Nat /\ Len(q) \in Nat /\ n \in Len(handled[j]) + 1 .. Len(r)
      BY <2>1, <2>3 DEF r, n
    <3> QED
      BY <2>3, <2>5, <3>1
  <2>7. handled'[j] = SubSeq(q, 1, n)
    <3> HIDE DEF q, r
    <3>1. n \in Nat /\ n <= Len(r)
      BY <2>1, <2>5 DEF r
    <3>2. \A m \in 1 .. n : handled'[j][m] = q[m]
      BY <2>3, <2>4, <3>1
    <3>3. /\ SubSeq(q, 1, n) \in Seq(Item) /\ Len(SubSeq(q, 1, n)) = n
          /\ \A m \in 1 .. n : SubSeq(q, 1, n)[m] = q[m]
      <4> HIDE DEF n
      <4> QED
        BY <2>3, <2>6, SubSeqProperties
    <3> QED
      BY <2>4, <3>2, <3>3, SeqEqual
  <2>8. handled' = [handled EXCEPT ![j] = SubSeq(q, 1, n)]
    BY <2>1, <2>7
  <2>9. Queue!Handle(j)
    BY <2>2, <2>6, <2>8 DEF Queue!Handle
  <2> QED
    BY <2>9 DEF Queue!QueueNext
<1>4. Next => \/ \E i \in Item : PutAccept(i)
              \/ \E w \in Worker : DoReturns(w)
              \/ UNCHANGED <<accepted, handled>>
  BY DEF Next, PutRefuse, PutPanic, Scheduler, ReceiveItem, ReceiveNil, Tick, SendBatch, Complete, Run,
         TakeBatch, WorkerExit, CloseCancel, Closing, CloseSend, CloseReturn
<1> QED
  BY <1>2, <1>3, <1>4 DEF vars

\* The batcher implements the keyed queue: every item is handled at most once,
\* and the items of a key in the order in which Put accepted them.
THEOREM ImplementsQueue == Spec => InOrder
<1>1. Init => Queue!QueueInit
  BY DEF Init, Queue!QueueInit
<1>2. IInv /\ [Next]_vars => IInv'
  BY NextInv
<1> QED
  BY <1>1, <1>2, QueueStep, InvHolds, PTL DEF Spec, InOrder, Queue!QueueSpec

=============================================================================
