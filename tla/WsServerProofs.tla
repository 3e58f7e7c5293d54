--------------------------- MODULE WsServerProofs ---------------------------
(***************************************************************************)
(* TLAPS proofs about WsServer, for any gateways, connections, policy and  *)
(* pool:                                                                   *)
(*   TypeCorrect         the type invariant                                *)
(*   OpenConnections     an open connection keeps its client object        *)
(*   ConnectionsCounted  the counter is right when nothing is under way    *)
(*   OwnClientsOnly      the user map lists a client under its own user,   *)
(*   RosterComplete      and all that are open, if none is unregistered    *)
(*                       before it is registered                           *)
(*   OneInstanceOnly     the multi-login policy holds on all gateways, if  *)
(*                       no call between them fails                        *)
(* All but the first assume LockKept: each connection is closed once only  *)
(* because no object is reset while a close() of it is under way.          *)
(***************************************************************************)
EXTENDS WsServer, FiniteSetTheorems, SequenceTheorems, WellFoundedInduction, TLAPS

-----------------------------------------------------------------------------
(* Subsequences: the places of a sequence that are kept, and their ranks.  *)
(* Least and largest elements of a set of numbers stand for induction.     *)

\* Every set of naturals that is not empty has a least element.
LEMMA NatMin ==
  ASSUME NEW T \in SUBSET Nat, T # {}
  PROVE  \E x \in T : \A y \in T : x <= y
<1> DEFINE R == {z \in Nat \X Nat : z[1] < z[2]}
<1>1. IsWellFoundedOn(R, Nat)
  BY NatLessThanWellFounded DEF OpToRel
<1>2. \E x \in T : \A y \in T : ~(<<y, x>> \in R)
  <2> HIDE DEF R
  <2> QED
    BY <1>1, WFMin
<1>3. PICK x \in T : \A y \in T : ~(<<y, x>> \in R)
  BY <1>2
<1>4. ASSUME NEW y \in T PROVE x <= y
  <2>1. ~(y < x)
    BY <1>3, <1>4
  <2> QED
    BY <2>1
<1> QED
  BY <1>4

\* A set of naturals that is finite has a bound.
LEMMA NatBound ==
  ASSUME NEW S \in SUBSET Nat, IsFiniteSet(S)
  PROVE  \E m \in Nat : \A x \in S : x <= m
<1> DEFINE Bounded(X) == \E m \in Nat : \A x \in X : x <= m
           T == {n \in Nat : \E X \in SUBSET Nat : IsFiniteSet(X) /\ Cardinality(X) = n /\ ~Bounded(X)}
<1> SUFFICES ASSUME ~Bounded(S) PROVE FALSE
  OBVIOUS
<1>1. T # {}
  BY FS_CardinalityType
<1>2. PICK n \in T : \A k \in T : n <= k
  <2> HIDE DEF T
  <2>1. T \in SUBSET Nat
    BY DEF T
  <2> QED
    BY <1>1, <2>1, NatMin
<1>3. PICK X \in SUBSET Nat : IsFiniteSet(X) /\ Cardinality(X) = n /\ ~Bounded(X)
  OBVIOUS
<1>4. PICK x \in X : TRUE
  BY <1>3
<1>5. IsFiniteSet(X \ {x}) /\ Cardinality(X \ {x}) = n - 1 /\ n \in Nat
  BY <1>3, FS_RemoveElement, FS_CardinalityType
<1>6. n - 1 \in Nat
  BY <1>5, FS_CardinalityType
<1>7. Bounded(X \ {x})
  <2> SUFFICES ASSUME ~Bounded(X \ {x}) PROVE FALSE
    OBVIOUS
  <2>1. n - 1 \in T
    BY <1>5, <1>6
  <2> QED
    BY <2>1, <1>2, <1>5
<1>8. PICK m \in Nat : \A y \in X \ {x} : y <= m
  BY <1>7
<1>9. m + x \in Nat /\ \A y \in X : y <= m + x
  BY <1>8
<1>10. Bounded(X)
  BY <1>9
<1> QED
  BY <1>3, <1>10

\* The rank of a number among places is between 0 and how many there are.
LEMMA RankType ==
  ASSUME NEW P \in SUBSET Nat, IsFiniteSet(P), NEW i \in Nat
  PROVE  Rank(P, i) \in 0 .. Cardinality(P) /\ Cardinality(P) \in Nat
<1>1. {j \in P : j <= i} \subseteq P
  OBVIOUS
<1> QED
  BY <1>1, FS_Subset, FS_CardinalityType DEF Rank

\* A later place has a higher rank.
LEMMA RankGrows ==
  ASSUME NEW P \in SUBSET Nat, IsFiniteSet(P), NEW i \in Nat, NEW j \in P, i < j
  PROVE  Rank(P, i) < Rank(P, j)
<1> DEFINE A == {k \in P : k <= i}
           B == {k \in P : k <= j}
<1>0. j \in Nat /\ \A k \in P : k \in Nat
  OBVIOUS
<1>1. A \subseteq B /\ j \in B /\ j \notin A /\ B \subseteq P
  <2>1. \A k \in P : k <= i => k <= j
    BY <1>0
  <2>2. ~(j <= i) /\ j <= j
    BY <1>0
  <2> QED
    BY <2>1, <2>2
<1>2. IsFiniteSet(B)
  BY <1>1, FS_Subset
<1>3. Cardinality(A) <= Cardinality(B) /\ (Cardinality(A) = Cardinality(B) => A = B)
  <2> HIDE DEF A, B
  <2> QED
    BY <1>1, <1>2, FS_Subset
<1>4. Cardinality(A) \in Nat /\ Cardinality(B) \in Nat
  BY <1>1, <1>2, FS_Subset, FS_CardinalityType
<1> QED
  BY <1>1, <1>3, <1>4 DEF Rank

\* There is a place of every rank.
LEMMA NthExists ==
  ASSUME NEW P \in SUBSET (Nat \ {0}), IsFiniteSet(P), NEW k \in 1 .. Cardinality(P)
  PROVE  \E i \in P : Rank(P, i) = k
<1> DEFINE T == {i \in Nat : Rank(P, i) >= k}
<1>0. P \in SUBSET Nat /\ Cardinality(P) \in Nat /\ k \in Nat
  BY FS_CardinalityType
<1>1. T # {}
  <2>1. PICK m \in Nat : \A x \in P : x <= m
    BY <1>0, NatBound
  <2>2. {j \in P : j <= m} = P
    BY <2>1
  <2> QED
    BY <1>0, <2>2 DEF Rank
<1>2. PICK i \in T : \A n \in T : i <= n
  <2> HIDE DEF T
  <2>1. T \in SUBSET Nat
    BY DEF T
  <2> QED
    BY <1>1, <2>1, NatMin
<1>3. i # 0
  <2> SUFFICES ASSUME i = 0 PROVE FALSE
    OBVIOUS
  <2>1. \A j \in P : ~(j <= i)
    OBVIOUS
  <2>3. {j \in P : j <= i} = {}
    BY <2>1
  <2> QED
    BY <2>3, <1>2, <1>0, FS_EmptySet DEF Rank
<1> DEFINE h == i - 1
           A == {j \in P : j <= h}
           B == {j \in P : j <= i}
<1>4. h \in Nat /\ h < i /\ i \in Nat
  BY <1>3
<1>5. h \notin T
  BY <1>2, <1>4
<1>6. Rank(P, h) < k /\ Rank(P, h) \in Nat /\ Rank(P, i) >= k /\ Rank(P, i) \in Nat
  <2>1. Rank(P, h) \in Nat /\ Rank(P, i) \in Nat
    BY <1>0, <1>4, RankType
  <2> QED
    BY <1>0, <1>4, <1>5, <2>1
<1>7. i \in P
  <2> SUFFICES ASSUME i \notin P PROVE FALSE
    OBVIOUS
  <2>2. \A j \in P : j # i /\ j \in Nat
    BY <1>0
  <2>3. \A j \in P : j <= h <=> j <= i
    BY <2>2, <1>4
  <2>1. A = B
    BY <2>3
  <2> QED
    BY <2>1, <1>6, <1>0 DEF Rank
<1>8. B = A \cup {i} /\ i \notin A /\ IsFiniteSet(A)
  <2>1. IsFiniteSet(A)
    BY FS_Subset
  <2>2. \A j \in P : j \in Nat
    BY <1>0
  <2>3. \A j \in P : j <= i <=> j <= h \/ j = i
    BY <2>2, <1>4
  <2>4. ~(i <= h)
    BY <1>4
  <2> QED
    BY <2>1, <2>3, <2>4, <1>7
<1>9. Rank(P, i) = Rank(P, h) + 1
  <2> HIDE DEF A, B
  <2>1. Cardinality(B) = Cardinality(A) + 1
    BY <1>8, FS_AddElement
  <2> QED
    BY <2>1 DEF Rank, A, B
<1> QED
  BY <1>0, <1>6, <1>7, <1>9

\* The place of a rank is the one that has it.
LEMMA NthIs ==
  ASSUME NEW P \in SUBSET (Nat \ {0}), IsFiniteSet(P)
  PROVE  /\ \A k \in 1 .. Cardinality(P) : Nth(P, k) \in P /\ Rank(P, Nth(P, k)) = k
         /\ \A i \in P : Rank(P, i) \in 1 .. Cardinality(P) /\ Nth(P, Rank(P, i)) = i
<1>0. P \in SUBSET Nat
  OBVIOUS
<1>1. ASSUME NEW k \in 1 .. Cardinality(P)
      PROVE  Nth(P, k) \in P /\ Rank(P, Nth(P, k)) = k
  <2>1. \E i \in P : Rank(P, i) = k
    BY NthExists
  <2> QED
    BY <2>1 DEF Nth
<1>2. ASSUME NEW i \in P
      PROVE  Rank(P, i) \in 1 .. Cardinality(P) /\ Nth(P, Rank(P, i)) = i
  <2>1. Rank(P, 0) < Rank(P, i)
    BY <1>0, RankGrows
  <2>2. Rank(P, 0) \in Nat /\ Rank(P, i) \in 0 .. Cardinality(P) /\ Cardinality(P) \in Nat
    BY <1>0, RankType
  <2>3. Rank(P, i) \in 1 .. Cardinality(P)
    BY <2>1, <2>2
  <2>4. Nth(P, Rank(P, i)) \in P /\ Rank(P, Nth(P, Rank(P, i))) = Rank(P, i)
    BY <1>1, <2>3
  <2>5. \A a, b \in P : a < b => Rank(P, a) < Rank(P, b)
    BY <1>0, RankGrows
  <2>6. \A a, b \in P : Rank(P, a) = Rank(P, b) => a = b
    <3> SUFFICES ASSUME NEW a \in P, NEW b \in P, Rank(P, a) = Rank(P, b), a # b PROVE FALSE
      OBVIOUS
    <3>1. Rank(P, a) \in Nat
      BY <1>0, RankType
    <3>2. a < b \/ b < a
      BY <1>0
    <3> QED
      BY <2>5, <3>1, <3>2
  <2> QED
    BY <2>3, <2>4, <2>6
<1> QED
  BY <1>1, <1>2

\* The places of higher ranks are later.
LEMMA NthGrows ==
  ASSUME NEW P \in SUBSET (Nat \ {0}), IsFiniteSet(P),
         NEW k \in 1 .. Cardinality(P), NEW l \in 1 .. Cardinality(P), k < l
  PROVE  Nth(P, k) < Nth(P, l)
<1> DEFINE a == Nth(P, k)
           b == Nth(P, l)
<1>1. a \in P /\ b \in P /\ Rank(P, a) = k /\ Rank(P, b) = l /\ P \in SUBSET Nat
  BY NthIs
<1> HIDE DEF a, b
<1>2. ~(b < a)
  <2> SUFFICES ASSUME b < a PROVE FALSE
    OBVIOUS
  <2>1. Rank(P, b) < Rank(P, a)
    BY <1>1, RankGrows
  <2> QED
    BY <1>1, <2>1, FS_CardinalityType
<1>3. a # b
  BY <1>1, FS_CardinalityType
<1>4. a \in Nat /\ b \in Nat
  BY <1>1
<1>5. a < b
  BY <1>2, <1>3, <1>4
<1> QED
  BY <1>5 DEF a, b

\* The places of a sequence are a finite set of positive numbers.
LEMMA PlacesType ==
  ASSUME NEW T, NEW s \in Seq(T), NEW S
  PROVE  /\ Places(s, S) \in SUBSET (Nat \ {0}) /\ IsFiniteSet(Places(s, S))
         /\ Cardinality(Places(s, S)) \in Nat
         /\ Places(s, S) \in SUBSET (1 .. Len(s))
<1>1. Places(s, S) \in SUBSET (1 .. Len(s)) /\ Len(s) \in Nat
  BY DEF Places
<1>2. IsFiniteSet(1 .. Len(s))
  BY <1>1, FS_Interval
<1>3. IsFiniteSet(Places(s, S))
  BY <1>1, <1>2, FS_Subset
<1> QED
  BY <1>1, <1>3, FS_CardinalityType

\* Only(s, S) is a sequence, as long as s has places in S, of elements of s in S.
LEMMA OnlyType ==
  ASSUME NEW T, NEW s \in Seq(T), NEW S
  PROVE  /\ Only(s, S) \in Seq(T) /\ Len(Only(s, S)) = Cardinality(Places(s, S))
         /\ DOMAIN Only(s, S) = 1 .. Len(Only(s, S))
         /\ \A k \in 1 .. Len(Only(s, S)) : \E i \in 1 .. Len(s) :
              Only(s, S)[k] = s[i] /\ s[i] \in S
<1> DEFINE P == Places(s, S)
           n == Cardinality(P)
<1>1. P \in SUBSET (Nat \ {0}) /\ IsFiniteSet(P) /\ n \in Nat /\ P \in SUBSET (1 .. Len(s))
  BY PlacesType
<1>2. \A k \in 1 .. n : Nth(P, k) \in P
  <2> HIDE DEF P
  <2> QED
    BY <1>1, NthIs
<1>3. Only(s, S) = [k \in 1 .. n |-> s[Nth(P, k)]]
  BY DEF Only
<1>4. \A i \in P : s[i] \in T /\ s[i] \in S /\ i \in 1 .. Len(s)
  BY DEF Places
<1> HIDE DEF P, n
<1>5. \A k \in 1 .. n : s[Nth(P, k)] \in T
  BY <1>2, <1>4
<1>6. Only(s, S) \in Seq(T) /\ Len(Only(s, S)) = n /\ DOMAIN Only(s, S) = 1 .. n
  <2> DEFINE f == [k \in 1 .. n |-> s[Nth(P, k)]]
  <2>1. f \in [1 .. n -> T]
    BY <1>5
  <2> HIDE DEF f
  <2>2. f \in Seq(T) /\ Len(f) = n /\ DOMAIN f = 1 .. n
    BY <1>1, <2>1
  <2> QED
    BY <2>2, <1>3 DEF f
<1>7. \A k \in 1 .. n : \E i \in 1 .. Len(s) : Only(s, S)[k] = s[i] /\ s[i] \in S
  BY <1>2, <1>3, <1>4
<1> QED
  BY <1>6, <1>7 DEF n, P

\* Every element of s in S is in it.
LEMMA OnlyHas ==
  ASSUME NEW T, NEW s \in Seq(T), NEW S, NEW i \in 1 .. Len(s), s[i] \in S
  PROVE  \E k \in 1 .. Len(Only(s, S)) : Only(s, S)[k] = s[i]
<1> DEFINE P == Places(s, S)
           n == Cardinality(P)
<1>1. P \in SUBSET (Nat \ {0}) /\ IsFiniteSet(P) /\ n \in Nat /\ i \in P
  BY PlacesType DEF Places
<1>2. Only(s, S) = [k \in 1 .. n |-> s[Nth(P, k)]] /\ Len(Only(s, S)) = n
  BY OnlyType DEF Only
<1> HIDE DEF P
<1>3. Rank(P, i) \in 1 .. n /\ Nth(P, Rank(P, i)) = i
  BY <1>1, NthIs
<1> QED
  BY <1>2, <1>3

\* Its elements are in the order of s.
LEMMA OnlyInOrder ==
  ASSUME NEW T, NEW s \in Seq(T), NEW S,
         NEW k \in 1 .. Len(Only(s, S)), NEW l \in 1 .. Len(Only(s, S)), k < l
  PROVE  \E i, j \in 1 .. Len(s) :
           i < j /\ Only(s, S)[k] = s[i] /\ Only(s, S)[l] = s[j] /\ s[i] \in S /\ s[j] \in S
<1> DEFINE P == Places(s, S)
           n == Cardinality(P)
<1>1. P \in SUBSET (Nat \ {0}) /\ IsFiniteSet(P) /\ n \in Nat /\ P \in SUBSET (1 .. Len(s))
  BY PlacesType
<1>2. Only(s, S) = [h \in 1 .. n |-> s[Nth(P, h)]] /\ Len(Only(s, S)) = n
  BY OnlyType DEF Only
<1>3. \A i \in P : s[i] \in S
  BY DEF Places
<1> HIDE DEF P
<1>4. Nth(P, k) \in P /\ Nth(P, l) \in P /\ Nth(P, k) < Nth(P, l)
  BY <1>1, <1>2, NthIs, NthGrows
<1> QED
  BY <1>1, <1>2, <1>3, <1>4

-----------------------------------------------------------------------------
(* Lists, as queues and as sets.                                           *)

LEMMA SeqSet ==
  ASSUME NEW T, NEW s \in Seq(T)
  PROVE  /\ ToSet(s) \subseteq T /\ (s = << >> <=> ToSet(s) = {})
         /\ s \in Seq(ToSet(s)) /\ Len(s) \in Nat
         /\ \A o : o \in ToSet(s) <=> \E i \in 1 .. Len(s) : s[i] = o
<1>1. DOMAIN s = 1 .. Len(s) /\ Len(s) \in Nat
  OBVIOUS
<1>2. \A o : o \in ToSet(s) <=> \E i \in 1 .. Len(s) : s[i] = o
  BY <1>1 DEF ToSet
<1>3. ToSet(s) \subseteq T
  BY <1>1, <1>2
<1>4. s \in Seq(ToSet(s))
  BY <1>1, <1>2
<1>5. s = << >> => ToSet(s) = {}
  BY <1>1, <1>2
<1>6. s # << >> => s[1] \in ToSet(s)
  <2>1. s # << >> => Len(s) # 0
    BY <1>1
  <2> QED
    BY <2>1, <1>1, <1>2
<1> QED
  BY <1>1, <1>2, <1>3, <1>4, <1>5, <1>6

LEMMA SeqMono ==
  ASSUME NEW T, NEW U, T \subseteq U
  PROVE  Seq(T) \subseteq Seq(U)
OBVIOUS

LEMMA SeqAppend ==
  ASSUME NEW T, NEW s \in Seq(T), NEW e \in T
  PROVE  /\ Append(s, e) \in Seq(T) /\ Append(s, e) # << >>
         /\ Len(Append(s, e)) = Len(s) + 1
         /\ ToSet(Append(s, e)) = ToSet(s) \cup {e}
         /\ IsInjective(s) /\ e \notin ToSet(s) => IsInjective(Append(s, e))
<1> DEFINE t == Append(s, e)
<1>1. t \in Seq(T) /\ Len(t) = Len(s) + 1 /\ Len(s) \in Nat /\ t # << >>
      /\ DOMAIN t = 1 .. Len(s) + 1 /\ DOMAIN s = 1 .. Len(s)
      /\ (\A i \in 1 .. Len(s) : t[i] = s[i]) /\ t[Len(s) + 1] = e
  BY AppendProperties
<1> HIDE DEF t
<1>2. ASSUME NEW o PROVE o \in ToSet(t) <=> o \in ToSet(s) \cup {e}
  <2>1. ASSUME o \in ToSet(t) PROVE o \in ToSet(s) \cup {e}
    <3>1. PICK i \in 1 .. Len(s) + 1 : t[i] = o
      BY <1>1, <2>1 DEF ToSet
    <3>2. i = Len(s) + 1 \/ i \in 1 .. Len(s)
      BY <1>1
    <3> QED
      BY <3>1, <3>2, <1>1 DEF ToSet
  <2>2. ASSUME o \in ToSet(s) PROVE o \in ToSet(t)
    <3>1. PICK i \in 1 .. Len(s) : s[i] = o
      BY <1>1, <2>2 DEF ToSet
    <3>2. i \in 1 .. Len(s) + 1 /\ t[i] = o
      BY <3>1, <1>1
    <3> QED
      BY <3>2, <1>1 DEF ToSet
  <2>3. Len(s) + 1 \in DOMAIN t
    BY <1>1
  <2>4. e \in ToSet(t)
    BY <2>3, <1>1 DEF ToSet
  <2> QED
    BY <2>1, <2>2, <2>4
<1>3. ASSUME IsInjective(s), e \notin ToSet(s) PROVE IsInjective(t)
  <2>1. ASSUME NEW i \in 1 .. Len(s) + 1, NEW j \in 1 .. Len(s) + 1, t[i] = t[j] PROVE i = j
    <3>1. (i = Len(s) + 1 \/ i \in 1 .. Len(s)) /\ (j = Len(s) + 1 \/ j \in 1 .. Len(s))
      BY <1>1
    <3>2. \A k \in 1 .. Len(s) : s[k] # e
      BY <1>1, <1>3 DEF ToSet
    <3> QED
      BY <2>1, <3>1, <3>2, <1>1, <1>3 DEF IsInjective
  <2> QED
    BY <2>1, <1>1 DEF IsInjective
<1> QED
  BY <1>1, <1>2, <1>3 DEF t

LEMMA SeqHead ==
  ASSUME NEW T, NEW s \in Seq(T), s # << >>
  PROVE  /\ Head(s) \in T /\ Tail(s) \in Seq(T)
         /\ Len(Tail(s)) = Len(s) - 1 /\ Len(s) \in Nat \ {0}
         /\ ToSet(s) = {Head(s)} \cup ToSet(Tail(s))
         /\ IsInjective(s) => IsInjective(Tail(s)) /\ Head(s) \notin ToSet(Tail(s))
<1> DEFINE t == Tail(s)
<1>1. t \in Seq(T) /\ Len(t) = Len(s) - 1 /\ Len(s) \in Nat \ {0} /\ Head(s) \in T
      /\ DOMAIN t = 1 .. Len(s) - 1 /\ DOMAIN s = 1 .. Len(s)
      /\ (\A i \in 1 .. Len(s) - 1 : t[i] = s[i + 1]) /\ Head(s) = s[1]
  <2>1. t \in Seq(T) /\ Len(t) = Len(s) - 1 /\ Head(s) \in T
        /\ (\A i \in 1 .. Len(t) : t[i] = s[i + 1])
    BY HeadTailProperties
  <2>2. Len(s) \in Nat \ {0} /\ DOMAIN s = 1 .. Len(s) /\ Head(s) = s[1]
    BY EmptySeq
  <2>3. DOMAIN t = 1 .. Len(t)
    BY <2>1
  <2> QED
    BY <2>1, <2>2, <2>3
<1> HIDE DEF t
<1>2. ASSUME NEW o PROVE o \in ToSet(s) <=> o \in {Head(s)} \cup ToSet(t)
  <2>1. ASSUME o \in ToSet(s) PROVE o \in {Head(s)} \cup ToSet(t)
    <3>1. PICK i \in 1 .. Len(s) : s[i] = o
      BY <1>1, <2>1 DEF ToSet
    <3>2. CASE i = 1
      BY <3>1, <3>2, <1>1
    <3>3. CASE i # 1
      <4>1. i - 1 \in 1 .. Len(s) - 1 /\ (i - 1) + 1 = i
        BY <3>3, <1>1
      <4>2. t[i - 1] = o
        BY <4>1, <3>1, <1>1
      <4> QED
        BY <4>1, <4>2, <1>1 DEF ToSet
    <3> QED
      BY <3>2, <3>3
  <2>2. ASSUME o \in ToSet(t) PROVE o \in ToSet(s)
    <3>1. PICK i \in 1 .. Len(s) - 1 : t[i] = o
      BY <1>1, <2>2 DEF ToSet
    <3>2. i + 1 \in 1 .. Len(s) /\ s[i + 1] = o
      BY <3>1, <1>1
    <3> QED
      BY <3>2, <1>1 DEF ToSet
  <2>3. 1 \in DOMAIN s
    BY <1>1
  <2>4. Head(s) \in ToSet(s)
    BY <2>3, <1>1 DEF ToSet
  <2> QED
    BY <2>1, <2>2, <2>4
<1>3. ASSUME IsInjective(s) PROVE IsInjective(t) /\ Head(s) \notin ToSet(t)
  <2>1. ASSUME NEW i \in 1 .. Len(s) - 1, NEW j \in 1 .. Len(s) - 1, t[i] = t[j] PROVE i = j
    <3>1. i + 1 \in 1 .. Len(s) /\ j + 1 \in 1 .. Len(s) /\ s[i + 1] = s[j + 1]
      BY <2>1, <1>1
    <3>2. i + 1 = j + 1
      BY <3>1, <1>1, <1>3 DEF IsInjective
    <3> QED
      BY <3>2, <1>1
  <2>2. ASSUME NEW i \in 1 .. Len(s) - 1, t[i] = Head(s) PROVE FALSE
    <3>1. i + 1 \in 1 .. Len(s) /\ 1 \in 1 .. Len(s) /\ s[i + 1] = s[1] /\ i + 1 # 1
      BY <2>2, <1>1
    <3> QED
      BY <3>1, <1>1, <1>3 DEF IsInjective
  <2>3. IsInjective(t)
    BY <2>1, <1>1 DEF IsInjective
  <2> QED
    BY <2>2, <2>3, <1>1 DEF ToSet
<1> QED
  BY <1>1, <1>2, <1>3 DEF t

LEMMA SeqOne ==
  ASSUME NEW T, NEW o \in T
  PROVE  <<o>> \in Seq(T) /\ ToSet(<<o>>) = {o}
BY DEF ToSet

\* What Only keeps of a list without repetitions.
LEMMA OnlySet ==
  ASSUME NEW T, NEW s \in Seq(T), NEW S
  PROVE  /\ Only(s, S) \in Seq(T) /\ ToSet(Only(s, S)) = ToSet(s) \cap S
         /\ IsInjective(s) => IsInjective(Only(s, S))
<1> DEFINE t == Only(s, S)
<1>1. t \in Seq(T) /\ DOMAIN t = 1 .. Len(t) /\ Len(t) \in Nat /\ DOMAIN s = 1 .. Len(s)
      /\ \A k \in 1 .. Len(t) : \E i \in 1 .. Len(s) : t[k] = s[i] /\ s[i] \in S
  BY OnlyType
<1>2. \A i \in 1 .. Len(s) : s[i] \in S => \E k \in 1 .. Len(t) : t[k] = s[i]
  BY OnlyHas
<1>3. \A k, l \in 1 .. Len(t) : k < l =>
        \E i, j \in 1 .. Len(s) : i < j /\ t[k] = s[i] /\ t[l] = s[j]
  BY OnlyInOrder
<1> HIDE DEF t
<1>4. ASSUME NEW o PROVE o \in ToSet(t) <=> o \in ToSet(s) \cap S
  <2>1. (o \in ToSet(t) <=> \E k \in 1 .. Len(t) : t[k] = o)
        /\ (o \in ToSet(s) <=> \E i \in 1 .. Len(s) : s[i] = o)
    BY <1>1, SeqSet
  <2>2. ASSUME o \in ToSet(t) PROVE o \in ToSet(s) /\ o \in S
    BY <2>1, <2>2, <1>1
  <2>3. ASSUME o \in ToSet(s), o \in S PROVE o \in ToSet(t)
    BY <2>1, <2>3, <1>2
  <2> QED
    BY <2>2, <2>3
<1>5. ASSUME IsInjective(s), NEW k \in 1 .. Len(t), NEW l \in 1 .. Len(t), t[k] = t[l]
      PROVE  k = l
  <2>1. ~ (k < l) /\ ~ (l < k)
    <3>1. ASSUME NEW a \in 1 .. Len(t), NEW b \in 1 .. Len(t), a < b PROVE t[a] # t[b]
      <4>1. PICK i \in 1 .. Len(s), j \in 1 .. Len(s) : i < j /\ t[a] = s[i] /\ t[b] = s[j]
        BY <1>3, <3>1
      <4>2. i # j
        BY <4>1
      <4> QED
        BY <4>1, <4>2, <1>1, <1>5 DEF IsInjective
    <3> QED
      BY <3>1, <1>5
  <2> QED
    BY <2>1, <1>1
<1> QED
  BY <1>1, <1>4, <1>5 DEF t, IsInjective

-----------------------------------------------------------------------------
(* The lists that the user map makes.                                      *)

\* What MapTypes says of the lists of a user.
LEMMA ListType ==
  ASSUME TypeOK, NEW n \in Node, NEW u \in User
  PROVE  /\ clients[n][u] \in Seq(Used(n)) /\ ToSet(clients[n][u]) \subseteq Used(n)
         /\ Used(n) \subseteq Object[n]
<1>1. clients[n][u] \in Seq(Used(n)) /\ Used(n) \subseteq Object[n]
  BY DEF TypeOK, MapTypes, Used
<1> QED
  BY <1>1, SeqSet

LEMMA OnPlatformType ==
  ASSUME TypeOK, NEW n \in Node, NEW u \in User, NEW p
  PROVE  /\ OnPlatform(n, u, p) \in Seq(Used(n))
         /\ ToSet(OnPlatform(n, u, p)) = {o \in ToSet(clients[n][u]) : PlatformID(n, o) = p}
<1> DEFINE S == {o \in ToSet(clients[n][u]) : PlatformID(n, o) = p}
<1>1. Only(clients[n][u], S) \in Seq(Used(n))
      /\ ToSet(Only(clients[n][u], S)) = ToSet(clients[n][u]) \cap S
  BY ListType, OnlySet
<1> QED
  BY <1>1 DEF OnPlatform

LEMMA WithoutType ==
  ASSUME TypeOK, NEW n \in Node, NEW u \in User, NEW os
  PROVE  /\ Without(n, u, os) \in Seq(Used(n))
         /\ ToSet(Without(n, u, os)) =
              {o \in ToSet(clients[n][u]) : \A v \in ToSet(os) : conn[n][o] # conn[n][v]}
         /\ IsInjective(clients[n][u]) => IsInjective(Without(n, u, os))
<1> DEFINE S == {o \in ToSet(clients[n][u]) : conn[n][o] \notin {conn[n][v] : v \in ToSet(os)}}
<1>1. /\ Only(clients[n][u], S) \in Seq(Used(n))
      /\ ToSet(Only(clients[n][u], S)) = ToSet(clients[n][u]) \cap S
      /\ IsInjective(clients[n][u]) => IsInjective(Only(clients[n][u], S))
  BY ListType, OnlySet
<1>2. Without(n, u, os) = Only(clients[n][u], S)
  BY DEF Without
<1>3. ToSet(clients[n][u]) \cap S =
        {o \in ToSet(clients[n][u]) : \A v \in ToSet(os) : conn[n][o] # conn[n][v]}
  OBVIOUS
<1> QED
  BY <1>1, <1>2, <1>3

LEMMA VictimsType ==
  ASSUME TypeOK, NEW n \in Node, NEW u \in User, NEW p, NEW snapshot \in Seq(Used(n))
  PROVE  Victims(n, u, p, snapshot) \in Seq(Used(n))
<1> DEFINE Class(C) == Only(clients[n][u], {o \in ToSet(clients[n][u]) : ClassOf[PlatformID(n, o)] \in C})
<1>1. \A C : Class(C) \in Seq(Used(n))
  BY ListType, OnlySet
<1>2. << >> \in Seq(Used(n))
  BY EmptySeq
<1>3. Policy \in Policies
  BY PolicyAssumption
<1>4. CASE Policy = "NotKick"
  BY <1>4, <1>2 DEF Victims
<1>5. CASE Policy = "SameTerm"
  BY <1>5 DEF Victims
<1>6. CASE Policy = "SameClass"
  BY <1>6, <1>1 DEF Victims
<1>7. CASE Policy = "PCAndOther"
  BY <1>7, <1>1, <1>2 DEF Victims
<1> QED
  BY <1>3, <1>4, <1>5, <1>6, <1>7 DEF Policies

-----------------------------------------------------------------------------
(* Types.                                                                  *)

\* What one conjunct of TypeOK needs from one step that leaves its variables,
\* and the objects' connections, alone.
LEMMA SameTypes ==
  ASSUME TypeOK, UNCHANGED conn
  PROVE  /\ \A n : Used(n)' = Used(n)
         /\ UNCHANGED <<handler, object, reader, socket, locker>> => ConnTypes'
         /\ UNCHANGED <<pool, closed>> => \A n \in Node : ObjectTypes(n)'
         /\ UNCHANGED <<registerChan, unregisterChan, kickChan>> => \A n \in Node : ChanTypes(n)'
         /\ UNCHANGED <<clients, userNum, connNum>> => \A n \in Node : MapTypes(n)'
         /\ UNCHANGED loop => \A n \in Node : LoopTypes(n)'
         /\ UNCHANGED kicker => \A n \in Node : KickerTypes(n)'
<1>1. \A n : Used(n)' = Used(n)
  BY DEF Used
<1>2. UNCHANGED <<handler, object, reader, socket, locker>> => ConnTypes'
  BY <1>1 DEF TypeOK, ConnTypes
<1>3. UNCHANGED <<pool, closed>> => \A n \in Node : ObjectTypes(n)'
  BY DEF TypeOK, ObjectTypes
<1>4. \A n : Kick(n)' = Kick(n)
  BY <1>1 DEF Kick
<1>5. UNCHANGED <<registerChan, unregisterChan, kickChan>> => \A n \in Node : ChanTypes(n)'
  BY <1>1, <1>4 DEF TypeOK, ChanTypes
<1>6. UNCHANGED <<clients, userNum, connNum>> => \A n \in Node : MapTypes(n)'
  BY <1>1 DEF TypeOK, MapTypes
<1>7. \A n : LoopState(n)' = LoopState(n) /\ KickerState(n)' = KickerState(n)
  BY <1>1 DEF LoopState, KickerState
<1>8. UNCHANGED loop => \A n \in Node : LoopTypes(n)'
  BY <1>7 DEF TypeOK, LoopTypes, Idle
<1>9. UNCHANGED kicker => \A n \in Node : KickerTypes(n)'
  BY <1>7 DEF TypeOK, KickerTypes
<1> QED
  BY <1>1, <1>2, <1>3, <1>5, <1>6, <1>8, <1>9

LEMMA MarkTypes ==
  ASSUME TypeOK, NEW n \in Node, NEW o \in Used(n), MarkClosed(n, o)
  PROVE  /\ UNCHANGED <<conn, locker>> /\ socket' \in [Conn -> {"none", "open", "closed"}]
         /\ UNCHANGED pool => \A m \in Node : ObjectTypes(m)'
         /\ DOMAIN closed' = Node
<1>1. UNCHANGED <<conn, locker>> /\ DOMAIN closed' = Node
  BY DEF MarkClosed, TypeOK, Domains
<1>2. socket' \in [Conn -> {"none", "open", "closed"}]
  BY DEF MarkClosed, TypeOK, ConnTypes
<1>3. ASSUME UNCHANGED pool, NEW m \in Node PROVE ObjectTypes(m)'
  <2>1. closed'[m] \in [Object[m] -> BOOLEAN]
    <3>1. closed[m] \in [Object[m] -> BOOLEAN]
      BY DEF TypeOK, ObjectTypes
    <3>2. CASE m = n
      <4>1. closed'[m] = [closed[m] EXCEPT ![o] = TRUE]
        BY <3>2 DEF MarkClosed, TypeOK, Domains
      <4> QED
        BY <3>1, <4>1
    <3>3. CASE m # n
      BY <3>1, <3>3 DEF MarkClosed, TypeOK, Domains
    <3> QED
      BY <3>2, <3>3
  <2> QED
    BY <2>1, <1>1, <1>3 DEF TypeOK, ObjectTypes
<1> QED
  BY <1>1, <1>2, <1>3

\* Taking and releasing a mutex.
LEMMA LockTypes ==
  ASSUME TypeOK, NEW x \in Goroutine
  PROVE  /\ \A n, o : Lock(x, n, o) => /\ locker' \in [Conn -> Goroutine \cup {None}]
                                       /\ UNCHANGED <<conn, closed, socket>>
         /\ Unlock(x) => locker' \in [Conn -> Goroutine \cup {None}]
<1>1. locker \in [Conn -> Goroutine \cup {None}]
  BY DEF TypeOK, ConnTypes
<1>2. ASSUME NEW n, NEW o, Lock(x, n, o)
      PROVE  /\ locker' \in [Conn -> Goroutine \cup {None}]
             /\ UNCHANGED <<conn, closed, socket>>
  <2> DEFINE d == conn[n][o]
  <2>1. locker' = [locker EXCEPT ![d] = x] /\ UNCHANGED <<conn, closed, socket>>
    BY <1>2 DEF Lock
  <2> HIDE DEF d
  <2> QED
    BY <2>1, <1>1
<1>3. Unlock(x) => locker' \in [Conn -> Goroutine \cup {None}]
  BY <1>1 DEF Unlock
<1> QED
  BY <1>2, <1>3

LEMMA SendTypes ==
  ASSUME TypeOK, NEW x \in Goroutine, NEW n \in Node, NEW o \in Used(n),
         SendUnregister(x, n, o), UNCHANGED pool
  PROVE  /\ UNCHANGED <<conn, closed, socket, registerChan, kickChan>>
         /\ locker' \in [Conn -> Goroutine \cup {None}]
         /\ \A m \in Node : ObjectTypes(m)' /\ ChanTypes(m)'
         /\ DOMAIN unregisterChan' = Node
<1>1. /\ UNCHANGED <<conn, socket, closed, registerChan, kickChan>>
      /\ DOMAIN unregisterChan' = Node
  BY DEF SendUnregister, TypeOK, Domains
<1>2. locker' \in [Conn -> Goroutine \cup {None}]
  BY LockTypes DEF SendUnregister
<1>3. \A m \in Node : ObjectTypes(m)'
  BY <1>1, SameTypes
<1>4. ASSUME NEW m \in Node PROVE ChanTypes(m)'
  <2>1. \A k : Used(k)' = Used(k) /\ Kick(k)' = Kick(k)
    BY <1>1 DEF Used, Kick
  <2>2. unregisterChan'[m] = IF m = n THEN Append(unregisterChan[m], o) ELSE unregisterChan[m]
    BY DEF SendUnregister, TypeOK, Domains
  <2>3. unregisterChan[m] \in Seq(Used(m)) /\ Len(unregisterChan[m]) <= ChanCap
    BY DEF TypeOK, ChanTypes
  <2>4. unregisterChan'[m] \in Seq(Used(m)) /\ Len(unregisterChan'[m]) <= ChanCap
    <3>1. CASE m # n
      BY <3>1, <2>2, <2>3
    <3>2. CASE m = n
      <4>1. Len(unregisterChan[m]) < ChanCap /\ ChanCap \in Nat
        BY <3>2, CapAssumption DEF SendUnregister
      <4>2. Append(unregisterChan[m], o) \in Seq(Used(m))
            /\ Len(Append(unregisterChan[m], o)) = Len(unregisterChan[m]) + 1
            /\ Len(unregisterChan[m]) \in Nat
        BY <3>2, <2>3, SeqAppend, SeqSet
      <4> QED
        BY <4>1, <4>2, <2>2, <3>2
    <3> QED
      BY <3>1, <3>2
  <2> QED
    BY <2>1, <2>4, <1>1 DEF TypeOK, ChanTypes
<1> QED
  BY <1>1, <1>2, <1>3, <1>4

\* Nothing but a reset changes which objects have been given to connections.
LEMMA InitTypes == Init => TypeOK
<1> SUFFICES ASSUME Init PROVE TypeOK
  OBVIOUS
<1>1. ConnTypes
  BY DEF Init, ConnTypes
<1>2. Domains
  BY DEF Init, Domains
<1>3. ASSUME NEW n \in Node PROVE ObjectTypes(n)
  BY DEF Init, ObjectTypes
<1>4. ASSUME NEW n \in Node PROVE ChanTypes(n) /\ MapTypes(n) /\ LoopTypes(n) /\ KickerTypes(n)
  <2>1. \A T : << >> \in Seq(T) /\ Len(<< >>) = 0
    BY EmptySeq
  <2>2. ChanTypes(n)
    BY <2>1, CapAssumption DEF Init, ChanTypes
  <2>3. MapTypes(n)
    BY <2>1 DEF Init, MapTypes
  <2>4. LoopTypes(n)
    BY <2>1 DEF Init, LoopTypes, LoopState, Idle
  <2>5. KickerTypes(n)
    BY <2>1 DEF Init, KickerTypes, KickerState
  <2> QED
    BY <2>2, <2>3, <2>4, <2>5
<1> QED
  BY <1>1, <1>2, <1>3, <1>4 DEF TypeOK

\* The steps of wsHandler and of a reader.
LEMMA ConnTypesStep ==
  ASSUME TypeOK, NEW c \in Conn, Handler(c) \/ Reader(c)
  PROVE  TypeOK'
<1> DEFINE n == NodeOf[c]
           o == object[c]
<1>0. n \in Node
  BY ConnAssumption
<1>1. CASE Admit(c)
  <2>1. ConnTypes'
    BY <1>1 DEF Admit, TypeOK, ConnTypes, clientVars, Used
  <2> QED
    BY <2>1, <1>1, SameTypes
    DEF Admit, TypeOK, Domains, clientVars, chanVars, mapVars
<1>2. ASSUME NEW b \in Object[n], ResetClient(c, b) PROVE TypeOK'
  <2>1. Used(n)' = Used(n) \cup {b} /\ (\A m \in Node : Used(m) \subseteq Used(m)')
    <3>1. conn' = [conn EXCEPT ![n][b] = c] /\ c # None
      BY <1>2, NoneAssumption DEF ResetClient
    <3>2. \A m \in Node : conn'[m] = IF m = n THEN [conn[m] EXCEPT ![b] = c] ELSE conn[m]
      BY <3>1, <1>0 DEF TypeOK, Domains
    <3>3. \A m \in Node : conn[m] \in [Object[m] -> Conn \cup {None}]
      BY DEF TypeOK, ObjectTypes
    <3> HIDE DEF n
    <3> QED
      BY <3>1, <3>2, <3>3, <1>0, <1>2 DEF Used
  <2>2. ConnTypes'
    <3>1. \A d \in Conn : IF handler'[d] \in {"registering", "done"}
                            THEN object'[d] \in Used(NodeOf[d])' ELSE object'[d] = None
      <4>1. /\ handler' = [handler EXCEPT ![c] = "registering"]
            /\ object' = [object EXCEPT ![c] = b] /\ DOMAIN object = Conn
            /\ handler \in [Conn -> {"new", "admitted", "rejected", "registering", "done"}]
        BY <1>2 DEF ResetClient, TypeOK, ConnTypes
      <4>2. \A d \in Conn : NodeOf[d] \in Node
        BY ConnAssumption
      <4>3. \A d \in Conn : IF handler[d] \in {"registering", "done"}
                            THEN object[d] \in Used(NodeOf[d]) ELSE object[d] = None
        BY DEF TypeOK, ConnTypes
      <4> QED
        BY <4>1, <4>2, <4>3, <2>1
    <3>2. handler[c] = "admitted" /\ reader[c] = "none"
      BY <1>2 DEF ResetClient, TypeOK, ConnTypes
    <3> QED
      BY <3>1, <3>2, <1>2 DEF ResetClient, TypeOK, ConnTypes
  <2>3. Domains'
    BY <1>2 DEF ResetClient, TypeOK, Domains, chanVars, mapVars
  <2>4. ASSUME NEW m \in Node PROVE ObjectTypes(m)'
    <3>1. pool[m] \in [Object[m] -> Nat] /\ conn[m] \in [Object[m] -> Conn \cup {None}]
          /\ closed[m] \in [Object[m] -> BOOLEAN] /\ pool[n][b] > 0 /\ c \in Conn
      BY <1>2 DEF TypeOK, ObjectTypes, ResetClient
    <3>2. /\ pool'[m] = IF m = n THEN [pool[m] EXCEPT ![b] = @ - 1] ELSE pool[m]
          /\ conn'[m] = IF m = n THEN [conn[m] EXCEPT ![b] = c] ELSE conn[m]
          /\ closed'[m] = IF m = n THEN [closed[m] EXCEPT ![b] = FALSE] ELSE closed[m]
      BY <1>2 DEF ResetClient, TypeOK, Domains
    <3> HIDE DEF n
    <3>3. m = n => pool[m][b] - 1 \in Nat
      BY <3>1, <1>2
    <3>4. pool'[m] \in [Object[m] -> Nat]
      BY <3>1, <3>2, <3>3
    <3>5. conn'[m] \in [Object[m] -> Conn \cup {None}] /\ closed'[m] \in [Object[m] -> BOOLEAN]
      BY <3>1, <3>2
    <3> QED
      BY <3>4, <3>5 DEF ObjectTypes
  <2>5. ASSUME NEW m \in Node
        PROVE  ChanTypes(m)' /\ MapTypes(m)' /\ LoopTypes(m)' /\ KickerTypes(m)'
    <3>1. Seq(Used(m)) \subseteq Seq(Used(m)')
      BY <2>1, SeqMono
    <3>2. Kick(m) \subseteq Kick(m)'
      BY <3>1 DEF Kick
    <3>3. Seq(Kick(m)) \subseteq Seq(Kick(m)')
      BY <3>2, SeqMono
    <3>4. LoopState(m) \subseteq LoopState(m)' /\ KickerState(m) \subseteq KickerState(m)'
      BY <2>1, <3>1 DEF LoopState, KickerState
    <3>5. UNCHANGED <<chanVars, mapVars, loop, kicker>>
      BY <1>2 DEF ResetClient
    <3>6. ChanTypes(m)'
      BY <3>1, <3>3, <3>5 DEF TypeOK, ChanTypes, chanVars
    <3>7. MapTypes(m)'
      <4>1. clients[m] \in [User -> Seq(Used(m))]
        BY DEF TypeOK, MapTypes
      <4>2. clients[m] \in [User -> Seq(Used(m)')]
        BY <4>1, <3>1
      <4> QED
        BY <4>2, <3>5 DEF TypeOK, MapTypes, mapVars
    <3>8. LoopTypes(m)'
      BY <3>4, <3>5 DEF TypeOK, LoopTypes, Idle
    <3>9. KickerTypes(m)'
      BY <3>4, <3>5 DEF TypeOK, KickerTypes
    <3> QED
      BY <3>6, <3>7, <3>8, <3>9
  <2> QED
    BY <2>2, <2>3, <2>4, <2>5 DEF TypeOK
<1>3. CASE SendRegister(c)
  <2>1. UNCHANGED conn /\ o \in Used(n)
    BY <1>3 DEF SendRegister, TypeOK, ConnTypes, clientVars
  <2>2. ConnTypes'
    BY <1>3, <2>1 DEF SendRegister, TypeOK, ConnTypes, clientVars, Used
  <2>3. ASSUME NEW m \in Node PROVE ChanTypes(m)'
    <3>1. registerChan'[m] = IF m = n THEN Append(registerChan[m], o) ELSE registerChan[m]
      BY <1>3 DEF SendRegister, TypeOK, Domains
    <3>2. registerChan[m] \in Seq(Used(m)) /\ Len(registerChan[m]) <= ChanCap
      BY DEF TypeOK, ChanTypes
    <3>3. Len(registerChan[n]) < ChanCap /\ ChanCap \in Nat
      BY <1>3, CapAssumption DEF SendRegister
    <3> HIDE DEF n, o
    <3>4. m = n => Append(registerChan[m], o) \in Seq(Used(m))
                   /\ Len(Append(registerChan[m], o)) = Len(registerChan[m]) + 1
                   /\ Len(registerChan[m]) \in Nat
      BY <3>2, <2>1, SeqAppend, SeqSet
    <3>5. registerChan'[m] \in Seq(Used(m)) /\ Len(registerChan'[m]) <= ChanCap
      BY <3>1, <3>2, <3>3, <3>4
    <3>6. Used(m)' = Used(m) /\ Kick(m)' = Kick(m)
      BY <2>1 DEF Used, Kick
    <3> QED
      BY <3>5, <3>6, <1>3 DEF SendRegister, TypeOK, ChanTypes
  <2> QED
    BY <2>1, <2>2, <2>3, <1>3, SameTypes
    DEF SendRegister, TypeOK, Domains, clientVars, mapVars
<1>4. CASE ReadFails(c)
  <2>1. ConnTypes'
    BY <1>4 DEF ReadFails, TypeOK, ConnTypes, clientVars, Used
  <2> QED
    BY <2>1, <1>4, SameTypes
    DEF ReadFails, TypeOK, Domains, clientVars, chanVars, mapVars
<1>5. <<"reader", c>> \in Goroutine /\ (reader[c] # "none" => o \in Used(n))
  BY DEF Goroutine, TypeOK, ConnTypes
<1>6. CASE ReaderLocks(c)
  <2>1. /\ UNCHANGED <<handler, object, pool, chanVars, mapVars, loop, kicker>>
        /\ reader[c] = "closing" /\ reader' = [reader EXCEPT ![c] = "locked"]
        /\ Lock(<<"reader", c>>, n, o)
    BY <1>6 DEF ReaderLocks
  <2> HIDE DEF n, o
  <2>2. UNCHANGED <<conn, closed, socket>> /\ locker' \in [Conn -> Goroutine \cup {None}]
    BY <2>1, <1>5, LockTypes
  <2>3. ConnTypes'
    BY <2>1, <2>2 DEF TypeOK, ConnTypes, Used
  <2> QED
    BY <2>1, <2>2, <2>3, SameTypes DEF TypeOK, Domains, chanVars, mapVars
<1>7. CASE ReaderTests(c)
  <2>1. /\ UNCHANGED <<handler, object, conn, closed, socket, pool, chanVars, mapVars, loop,
                       kicker>>
        /\ reader[c] = "locked" /\ reader' \in {[reader EXCEPT ![c] = x] : x \in {"done", "marking"}}
        /\ Unlock(<<"reader", c>>) \/ UNCHANGED locker
    BY <1>7 DEF ReaderTests
  <2>2. locker' \in [Conn -> Goroutine \cup {None}]
    BY <2>1, <1>5, LockTypes DEF TypeOK, ConnTypes
  <2>3. ConnTypes'
    BY <2>1, <2>2 DEF TypeOK, ConnTypes, Used
  <2> QED
    BY <2>1, <2>3, SameTypes DEF TypeOK, Domains, chanVars, mapVars
<1>8. CASE ReaderMarks(c)
  <2>1. /\ UNCHANGED <<handler, object, pool, chanVars, mapVars, loop, kicker>>
        /\ reader[c] = "marking" /\ reader' = [reader EXCEPT ![c] = "sending"]
        /\ MarkClosed(n, o)
    BY <1>8 DEF ReaderMarks
  <2> HIDE DEF n, o
  <2>2. /\ UNCHANGED <<conn, locker>> /\ socket' \in [Conn -> {"none", "open", "closed"}]
        /\ \A m \in Node : ObjectTypes(m)'
        /\ DOMAIN closed' = Node
    BY <2>1, <1>0, <1>5, MarkTypes
  <2>3. ConnTypes'
    BY <2>1, <2>2 DEF TypeOK, ConnTypes, Used
  <2> QED
    BY <2>1, <2>2, <2>3, SameTypes DEF TypeOK, Domains, chanVars, mapVars
<1>9. CASE ReaderSends(c)
  <2>1. /\ UNCHANGED <<handler, object, pool, mapVars, loop, kicker>>
        /\ reader[c] = "sending" /\ reader' = [reader EXCEPT ![c] = "done"]
        /\ SendUnregister(<<"reader", c>>, n, o)
    BY <1>9 DEF ReaderSends
  <2> HIDE DEF n, o
  <2>2. /\ UNCHANGED <<conn, closed, socket, registerChan, kickChan>>
        /\ locker' \in [Conn -> Goroutine \cup {None}]
        /\ \A m \in Node : ObjectTypes(m)' /\ ChanTypes(m)'
        /\ DOMAIN unregisterChan' = Node
    BY <2>1, <1>0, <1>5, SendTypes
  <2>3. ConnTypes'
    BY <2>1, <2>2 DEF TypeOK, ConnTypes, Used
  <2> QED
    BY <2>1, <2>2, <2>3, SameTypes DEF TypeOK, Domains, mapVars
<1> QED
  BY <1>1, <1>2, <1>3, <1>4, <1>6, <1>7, <1>8, <1>9 DEF Handler, Reader, ReaderCloses

\* A record of the loop.
LEMMA LoopMade ==
  ASSUME NEW n, NEW at \in {"select", "kick", "locked", "marking", "send", "notify"},
         NEW o \in Used(n) \cup {None}, NEW ks \in Seq(Used(n)), NEW td \in SUBSET Node
  PROVE  [at |-> at, new |-> o, kicks |-> ks, todo |-> td] \in LoopState(n)
<1> DEFINE A == {"select", "kick", "locked", "marking", "send", "notify"}
           B == Used(n) \cup {None}
           C == Seq(Used(n))
           D == SUBSET Node
<1>1. at \in A /\ o \in B /\ ks \in C /\ td \in D /\ LoopState(n) = [at : A, new : B, kicks : C, todo : D]
  BY DEF LoopState
<1> HIDE DEF A, B, C, D
<1> QED
  BY <1>1

\* Assignments to the loop, the kicker and a list of the user map.
LEMMA LoopSet ==
  ASSUME TypeOK, UNCHANGED conn, NEW n \in Node, NEW x \in LoopState(n),
         x.at = "select" => x = Idle,
         x.at \in {"locked", "marking", "send"} => x.kicks # << >>,
         x.at = "notify" => x.new # None /\ x.kicks = << >>,
         loop' = [loop EXCEPT ![n] = x]
  PROVE  (\A m \in Node : LoopTypes(m)') /\ DOMAIN loop' = Node
<1>1. \A m \in Node : loop'[m] = IF m = n THEN x ELSE loop[m]
  BY DEF TypeOK, Domains
<1>2. \A m : LoopState(m)' = LoopState(m)
  BY SameTypes DEF LoopState
<1> QED
  BY <1>1, <1>2 DEF TypeOK, Domains, LoopTypes, Idle

LEMMA KickerSet ==
  ASSUME TypeOK, UNCHANGED conn, NEW n \in Node, NEW x \in KickerState(n),
         x.at # "idle" => x.old # << >>,
         kicker' = [kicker EXCEPT ![n] = x]
  PROVE  (\A m \in Node : KickerTypes(m)') /\ DOMAIN kicker' = Node
<1>1. \A m \in Node : kicker'[m] = IF m = n THEN x ELSE kicker[m]
  BY DEF TypeOK, Domains
<1>2. \A m : KickerState(m)' = KickerState(m)
  BY SameTypes DEF KickerState
<1> QED
  BY <1>1, <1>2 DEF TypeOK, Domains, KickerTypes

LEMMA MapSet ==
  ASSUME TypeOK, UNCHANGED conn, NEW n \in Node, NEW u, NEW s \in Seq(Used(n)),
         clients' = [clients EXCEPT ![n][u] = s],
         DOMAIN userNum' = Node, \A m \in Node : userNum'[m] \in Int,
         DOMAIN connNum' = Node, \A m \in Node : connNum'[m] \in Int
  PROVE  (\A m \in Node : MapTypes(m)') /\ DOMAIN clients' = Node
<1>1. \A m \in Node : clients'[m] = IF m = n THEN [clients[m] EXCEPT ![u] = s] ELSE clients[m]
  BY DEF TypeOK, Domains
<1>2. \A m : Used(m)' = Used(m)
  BY SameTypes
<1>3. \A m \in Node : clients[m] \in [User -> Seq(Used(m))]
  BY DEF TypeOK, MapTypes
<1>4. ASSUME NEW m \in Node PROVE clients'[m] \in [User -> Seq(Used(m))]
  <2> DEFINE T == Seq(Used(m))
  <2>1. clients[m] \in [User -> T] /\ (m = n => s \in T)
    BY <1>3
  <2> HIDE DEF T
  <2>2. [clients[m] EXCEPT ![u] = s] \in [User -> T] \/ m # n
    BY <2>1
  <2>3. clients'[m] \in [User -> T]
    BY <2>1, <2>2, <1>1
  <2> QED
    BY <2>3 DEF T
<1> QED
  BY <1>1, <1>2, <1>4 DEF TypeOK, Domains, MapTypes

\* Taking from a channel.
LEMMA TakeTypes ==
  ASSUME TypeOK, UNCHANGED conn, NEW n \in Node
  PROVE  /\ (/\ registerChan[n] # << >> /\ registerChan' = [registerChan EXCEPT ![n] = Tail(@)]
             /\ UNCHANGED <<unregisterChan, kickChan>>) => \A m \in Node : ChanTypes(m)'
         /\ (/\ unregisterChan[n] # << >> /\ unregisterChan' = [unregisterChan EXCEPT ![n] = Tail(@)]
             /\ UNCHANGED <<registerChan, kickChan>>) => \A m \in Node : ChanTypes(m)'
         /\ (/\ kickChan[n] # << >> /\ kickChan' = [kickChan EXCEPT ![n] = Tail(@)]
             /\ UNCHANGED <<registerChan, unregisterChan>>) => \A m \in Node : ChanTypes(m)'
<1>1. \A m : Used(m)' = Used(m) /\ Kick(m)' = Kick(m)
  BY SameTypes DEF Kick
<1>2. ASSUME NEW T, NEW s \in Seq(T), s # << >>, Len(s) <= ChanCap
      PROVE  Tail(s) \in Seq(T) /\ Len(Tail(s)) <= ChanCap
  BY <1>2, SeqHead, CapAssumption
<1>3. ASSUME NEW m \in Node
      PROVE  /\ registerChan[m] \in Seq(Used(m)) /\ Len(registerChan[m]) <= ChanCap
             /\ unregisterChan[m] \in Seq(Used(m)) /\ Len(unregisterChan[m]) <= ChanCap
             /\ kickChan[m] \in Seq(Kick(m)) /\ Len(kickChan[m]) <= ChanCap
  BY DEF TypeOK, ChanTypes
<1>4. ASSUME registerChan[n] # << >>, registerChan' = [registerChan EXCEPT ![n] = Tail(@)],
             UNCHANGED <<unregisterChan, kickChan>>, NEW m \in Node
      PROVE  ChanTypes(m)'
  <2>1. registerChan'[m] = IF m = n THEN Tail(registerChan[m]) ELSE registerChan[m]
    BY <1>4 DEF TypeOK, Domains
  <2>2. registerChan'[m] \in Seq(Used(m)) /\ Len(registerChan'[m]) <= ChanCap
    BY <2>1, <1>2, <1>3, <1>4
  <2> QED
    BY <2>2, <1>1, <1>3, <1>4 DEF ChanTypes
<1>5. ASSUME unregisterChan[n] # << >>, unregisterChan' = [unregisterChan EXCEPT ![n] = Tail(@)],
             UNCHANGED <<registerChan, kickChan>>, NEW m \in Node
      PROVE  ChanTypes(m)'
  <2>1. unregisterChan'[m] = IF m = n THEN Tail(unregisterChan[m]) ELSE unregisterChan[m]
    BY <1>5 DEF TypeOK, Domains
  <2>2. unregisterChan'[m] \in Seq(Used(m)) /\ Len(unregisterChan'[m]) <= ChanCap
    BY <2>1, <1>2, <1>3, <1>5
  <2> QED
    BY <2>2, <1>1, <1>3, <1>5 DEF ChanTypes
<1>6. ASSUME kickChan[n] # << >>, kickChan' = [kickChan EXCEPT ![n] = Tail(@)],
             UNCHANGED <<registerChan, unregisterChan>>, NEW m \in Node
      PROVE  ChanTypes(m)'
  <2>1. kickChan'[m] = IF m = n THEN Tail(kickChan[m]) ELSE kickChan[m]
    BY <1>6 DEF TypeOK, Domains
  <2>2. kickChan'[m] \in Seq(Kick(m)) /\ Len(kickChan'[m]) <= ChanCap
    BY <2>1, <1>2, <1>3, <1>6
  <2> QED
    BY <2>2, <1>1, <1>3, <1>6 DEF ChanTypes
<1> QED
  BY <1>4, <1>5, <1>6

\* What an object of the gateway was given to.
LEMMA Owner ==
  ASSUME TypeOK, NEW n \in Node, NEW o \in Used(n)
  PROVE  conn[n][o] \in Conn /\ UserID(n, o) \in User /\ PlatformID(n, o) \in Platform
<1>1. conn[n][o] \in Conn
  BY DEF TypeOK, ObjectTypes, Used
<1> QED
  BY <1>1, ConnAssumption DEF UserID, PlatformID

\* The steps in which the event loop takes an event.
LEMMA TakeTypesStep ==
  ASSUME TypeOK, NEW n \in Node, RegisterClient(n) \/ TakeKick(n) \/ UnregisterClient(n)
  PROVE  TypeOK'
<1>0. /\ registerChan[n] \in Seq(Used(n)) /\ unregisterChan[n] \in Seq(Used(n))
      /\ kickChan[n] \in Seq(Kick(n)) /\ loop[n] \in LoopState(n)
      /\ \A m \in Node : userNum[m] \in Int /\ connNum[m] \in Int
      /\ DOMAIN userNum = Node /\ DOMAIN connNum = Node
  BY DEF TypeOK, ChanTypes, LoopTypes, MapTypes, Domains
<1>a. UNCHANGED <<conn, connVars, closed, locker, socket, kicker>>
  BY DEF RegisterClient, TakeKick, UnregisterClient, clientVars
<1>b. UNCHANGED <<handler, object, reader, socket, locker, kicker>>
  BY <1>a DEF connVars
<1>c. ConnTypes' /\ (\A m \in Node : KickerTypes(m)') /\ DOMAIN kicker' = Node
  BY <1>a, <1>b, SameTypes DEF TypeOK, Domains
<1>1. CASE RegisterClient(n)
  <2> DEFINE o == Head(registerChan[n])
             u == UserID(n, o)
             p == PlatformID(n, o)
             victims == Victims(n, u, p, OnPlatform(n, u, p))
             enter == clients[n][u] = << >>
             x == IF enter THEN Notifying(o)
                  ELSE [at |-> "kick", new |-> o, kicks |-> victims, todo |-> {}]
             s == IF enter THEN Append(clients[n][u], o) ELSE Without(n, u, victims)
  <2>1. /\ registerChan[n] # << >> /\ registerChan' = [registerChan EXCEPT ![n] = Tail(@)]
        /\ UNCHANGED <<unregisterChan, kickChan, pool>>
        /\ loop' = [loop EXCEPT ![n] = x]
        /\ clients' = [clients EXCEPT ![n][u] = s]
    BY <1>1 DEF RegisterClient, Set
  <2>2. o \in Used(n)
    BY <2>1, <1>0, SeqHead
  <2>3. u \in User /\ conn[n][o] \in Conn
    <3> HIDE DEF o
    <3> QED
      BY <2>2, Owner
  <2>4. OnPlatform(n, u, p) \in Seq(Used(n)) /\ clients[n][u] \in Seq(Used(n))
    <3> HIDE DEF u, p
    <3> QED
      BY <2>3, OnPlatformType, ListType
  <2>5. victims \in Seq(Used(n))
    <3> HIDE DEF u, p
    <3> QED
      BY <2>3, <2>4, VictimsType
  <2>6. s \in Seq(Used(n))
    <3> HIDE DEF u, p, o, victims
    <3> QED
      BY <2>2, <2>3, <2>4, WithoutType, SeqAppend
  <2>7. /\ x \in LoopState(n) /\ x.at \in {"kick", "notify"}
        /\ x.new # None /\ (x.at = "notify" => x.kicks = << >>)
    <3> HIDE DEF o, victims, enter
    <3>1. o \in Used(n) \cup {None} /\ o # None /\ << >> \in Seq(Used(n))
      BY <2>2, EmptySeq, NoneAssumption DEF Used
    <3>2. Notifying(o) \in LoopState(n)
      BY <3>1, LoopMade DEF Notifying
    <3>3. [at |-> "kick", new |-> o, kicks |-> victims, todo |-> {}] \in LoopState(n)
      BY <3>1, <2>5, LoopMade
    <3> QED
      BY <3>1, <3>2, <3>3 DEF Notifying
  <2>8. /\ DOMAIN userNum' = Node /\ DOMAIN connNum' = Node
        /\ \A m \in Node : userNum'[m] \in Int /\ connNum'[m] \in Int
    BY <1>1, <1>0 DEF RegisterClient
  <2> HIDE DEF o, u, x, s
  <2>9. (\A m \in Node : LoopTypes(m)') /\ DOMAIN loop' = Node
    BY <1>a, <2>1, <2>7, LoopSet
  <2>10. (\A m \in Node : MapTypes(m)') /\ DOMAIN clients' = Node
    BY <1>a, <2>1, <2>6, <2>8, MapSet
  <2>11. \A m \in Node : ChanTypes(m)' /\ ObjectTypes(m)'
    BY <1>a, <2>1, TakeTypes, SameTypes
  <2> QED
    BY <1>a, <1>c, <2>1, <2>8, <2>9, <2>10, <2>11 DEF TypeOK, Domains
<1>2. CASE TakeKick(n)
  <2> DEFINE k == Head(kickChan[n])
             victims == Victims(n, k.user, k.platform, k.old)
             x == [at |-> "kick", new |-> None, kicks |-> victims, todo |-> {}]
             s == Without(n, k.user, victims)
  <2>1. /\ kickChan[n] # << >> /\ kickChan' = [kickChan EXCEPT ![n] = Tail(@)]
        /\ UNCHANGED <<registerChan, unregisterChan, pool, userNum, connNum>>
        /\ loop' = [loop EXCEPT ![n] = x]
        /\ clients' = [clients EXCEPT ![n][k.user] = s]
    BY <1>2 DEF TakeKick
  <2>2. k \in Kick(n)
    BY <2>1, <1>0, SeqHead
  <2>3. k.user \in User /\ k.old \in Seq(Used(n))
    BY <2>2 DEF Kick
  <2> HIDE DEF k
  <2>4. victims \in Seq(Used(n))
    BY <2>3, VictimsType
  <2>5. s \in Seq(Used(n))
    <3> HIDE DEF victims
    <3> QED
      BY <2>3, WithoutType
  <2>6. x \in LoopState(n) /\ x.at = "kick"
    <3> HIDE DEF victims
    <3> QED
      BY <2>4, LoopMade
  <2> HIDE DEF x, s
  <2>7. (\A m \in Node : LoopTypes(m)') /\ DOMAIN loop' = Node
    BY <1>a, <2>1, <2>6, LoopSet
  <2>8. (\A m \in Node : MapTypes(m)') /\ DOMAIN clients' = Node
    <3>1. DOMAIN userNum' = Node /\ DOMAIN connNum' = Node
          /\ \A m \in Node : userNum'[m] \in Int /\ connNum'[m] \in Int
      BY <2>1, <1>0
    <3> QED
      BY <3>1, <1>a, <2>1, <2>5, MapSet
  <2>9. \A m \in Node : ChanTypes(m)' /\ ObjectTypes(m)'
    BY <1>a, <2>1, TakeTypes, SameTypes
  <2> QED
    BY <1>a, <1>c, <2>1, <2>7, <2>8, <2>9 DEF TypeOK, Domains
<1>3. CASE UnregisterClient(n)
  <2> DEFINE o == Head(unregisterChan[n])
             u == UserID(n, o)
             s == Without(n, u, <<o>>)
  <2>1. /\ unregisterChan[n] # << >> /\ unregisterChan' = [unregisterChan EXCEPT ![n] = Tail(@)]
        /\ UNCHANGED <<registerChan, kickChan, loop>>
        /\ clients' = [clients EXCEPT ![n][u] = s]
        /\ pool' = [pool EXCEPT ![n][o] = @ + 1]
    BY <1>3 DEF UnregisterClient
  <2>2. o \in Used(n)
    BY <2>1, <1>0, SeqHead
  <2>3. u \in User
    <3> HIDE DEF o
    <3> QED
      BY <2>2, Owner
  <2>4. s \in Seq(Used(n))
    <3> HIDE DEF u, o
    <3> QED
      BY <2>3, WithoutType
  <2>5. /\ DOMAIN userNum' = Node /\ DOMAIN connNum' = Node
        /\ \A m \in Node : userNum'[m] \in Int /\ connNum'[m] \in Int
    BY <1>3, <1>0 DEF UnregisterClient
  <2> HIDE DEF o, u, s
  <2>6. (\A m \in Node : MapTypes(m)') /\ DOMAIN clients' = Node
    BY <1>a, <2>1, <2>4, <2>5, MapSet
  <2>7. ASSUME NEW m \in Node PROVE ObjectTypes(m)'
    <3>1. pool'[m] = IF m = n THEN [pool[m] EXCEPT ![o] = @ + 1] ELSE pool[m]
      BY <2>1 DEF TypeOK, Domains
    <3>2. o \in Object[n] /\ pool[m] \in [Object[m] -> Nat]
      BY <2>2 DEF Used, TypeOK, ObjectTypes
    <3>3. m = n => pool[m][o] + 1 \in Nat
      BY <3>2
    <3>4. pool'[m] \in [Object[m] -> Nat]
      BY <3>1, <3>2, <3>3
    <3> QED
      BY <3>4, <1>a DEF TypeOK, ObjectTypes
  <2>8. DOMAIN pool' = Node
    BY <2>1 DEF TypeOK, Domains
  <2>9. \A m \in Node : ChanTypes(m)' /\ LoopTypes(m)'
    BY <1>a, <2>1, TakeTypes, SameTypes
  <2> QED
    BY <1>a, <1>c, <2>1, <2>5, <2>6, <2>7, <2>8, <2>9 DEF TypeOK, Domains
<1> QED
  BY <1>1, <1>2, <1>3

\* The steps of the event loop inside an event.
LEMMA LoopTypesStep ==
  ASSUME TypeOK, NEW n \in Node,
         \/ LoopCloses(n) \/ KicksDone(n)
         \/ (\E m \in Node : Notify(n, m)) \/ RegisterDone(n)
  PROVE  TypeOK'
<1>0. /\ loop[n] \in LoopState(n)
      /\ loop[n].at = "select" => loop[n] = Idle
      /\ loop[n].at \in {"locked", "marking", "send"} => loop[n].kicks # << >>
      /\ loop[n].at = "notify" => loop[n].new # None /\ loop[n].kicks = << >>
      /\ loop[n].kicks \in Seq(Used(n)) /\ loop[n].new \in Used(n) \cup {None}
      /\ loop[n].todo \in SUBSET Node
  BY DEF TypeOK, LoopTypes, LoopState
<1>x. Idle \in LoopState(n) /\ Idle.at = "select"
  BY EmptySeq, LoopMade DEF Idle
<1>n. /\ \A m \in Node : userNum[m] \in Int /\ connNum[m] \in Int
      /\ DOMAIN userNum = Node /\ DOMAIN connNum = Node
  BY DEF TypeOK, MapTypes, Domains
<1>g. <<"loop", n>> \in Goroutine
  BY DEF Goroutine
<1>h. loop[n].kicks # << >> => Head(loop[n].kicks) \in Used(n) /\ Tail(loop[n].kicks) \in Seq(Used(n))
  BY <1>0, SeqHead
\* The loop moves on with the same victims, or drops the first.
<1>m. ASSUME NEW at \in {"locked", "marking", "send"}, loop[n].kicks # << >>,
             UNCHANGED conn, loop' = [loop EXCEPT ![n].at = at]
      PROVE  (\A m \in Node : LoopTypes(m)') /\ DOMAIN loop' = Node
  <2> DEFINE l == loop[n]
             x == [l EXCEPT !.at = at]
  <2>1. loop' = [loop EXCEPT ![n] = x] /\ l \in LoopState(n) /\ l.kicks # << >>
    BY <1>m, <1>0
  <2> HIDE DEF l
  <2>2. x \in LoopState(n) /\ x.at = at /\ x.kicks # << >>
    BY <2>1, <1>m DEF LoopState
  <2> HIDE DEF x
  <2> QED
    BY <2>1, <2>2, <1>m, LoopSet
<1>t. ASSUME loop[n].kicks # << >>, UNCHANGED conn,
             loop' = [loop EXCEPT ![n].at = "kick", ![n].kicks = Tail(@)]
      PROVE  (\A m \in Node : LoopTypes(m)') /\ DOMAIN loop' = Node
  <2> DEFINE l == loop[n]
             k == Tail(l.kicks)
             x == [l EXCEPT !.at = "kick", !.kicks = k]
  <2>1. loop' = [loop EXCEPT ![n] = x] /\ l \in LoopState(n) /\ k \in Seq(Used(n))
    BY <1>t, <1>0, <1>h
  <2> HIDE DEF l, k
  <2>2. x \in LoopState(n) /\ x.at = "kick"
    BY <2>1 DEF LoopState
  <2> HIDE DEF x
  <2> QED
    BY <2>1, <2>2, <1>t, LoopSet
<1>1. CASE LoopLocks(n)
  <2> DEFINE o == Head(loop[n].kicks)
  <2>1. /\ UNCHANGED <<handler, object, reader, pool, registerChan, unregisterChan, kickChan,
                       clients, userNum, connNum, kicker>>
        /\ loop[n].kicks # << >> /\ loop' = [loop EXCEPT ![n].at = "locked"]
        /\ Lock(<<"loop", n>>, n, o)
    BY <1>1 DEF LoopLocks, connVars, chanVars, mapVars
  <2> HIDE DEF o
  <2>2. UNCHANGED <<conn, closed, socket>> /\ locker' \in [Conn -> Goroutine \cup {None}]
    BY <2>1, <1>g, LockTypes
  <2>3. ConnTypes'
    BY <2>1, <2>2 DEF TypeOK, ConnTypes, Used
  <2>4. (\A m \in Node : LoopTypes(m)') /\ DOMAIN loop' = Node
    BY <2>1, <2>2, <1>m
  <2> QED
    BY <2>1, <2>2, <2>3, <2>4, SameTypes DEF TypeOK, Domains
<1>2. CASE LoopTests(n)
  <2>1. /\ UNCHANGED <<handler, object, reader, conn, closed, socket, pool, registerChan,
                       unregisterChan, kickChan, clients, userNum, connNum, kicker>>
        /\ loop[n].kicks # << >>
        /\ \/ loop' = [loop EXCEPT ![n].at = "kick", ![n].kicks = Tail(@)]
           \/ loop' = [loop EXCEPT ![n].at = "marking"]
        /\ Unlock(<<"loop", n>>) \/ UNCHANGED locker
    BY <1>2, <1>0 DEF LoopTests, connVars, chanVars, mapVars
  <2>2. locker' \in [Conn -> Goroutine \cup {None}]
    BY <2>1, <1>g, LockTypes DEF TypeOK, ConnTypes
  <2>3. ConnTypes'
    BY <2>1, <2>2 DEF TypeOK, ConnTypes, Used
  <2>4. (\A m \in Node : LoopTypes(m)') /\ DOMAIN loop' = Node
    BY <2>1, <1>m, <1>t
  <2> QED
    BY <2>1, <2>3, <2>4, SameTypes DEF TypeOK, Domains
<1>6. CASE LoopMarks(n)
  <2> DEFINE o == Head(loop[n].kicks)
  <2>1. /\ UNCHANGED <<handler, object, reader, pool, registerChan, unregisterChan, kickChan,
                       clients, userNum, connNum, kicker>>
        /\ loop[n].kicks # << >> /\ loop' = [loop EXCEPT ![n].at = "send"]
        /\ MarkClosed(n, o) /\ o \in Used(n)
    BY <1>6, <1>0, <1>h DEF LoopMarks, connVars, chanVars, mapVars
  <2> HIDE DEF o
  <2>2. /\ UNCHANGED <<conn, locker>> /\ socket' \in [Conn -> {"none", "open", "closed"}]
        /\ \A m \in Node : ObjectTypes(m)'
        /\ DOMAIN closed' = Node
    BY <2>1, MarkTypes
  <2>3. ConnTypes'
    BY <2>1, <2>2 DEF TypeOK, ConnTypes, Used
  <2>4. (\A m \in Node : LoopTypes(m)') /\ DOMAIN loop' = Node
    BY <2>1, <2>2, <1>m
  <2> QED
    BY <2>1, <2>2, <2>3, <2>4, SameTypes DEF TypeOK, Domains
<1>7. CASE LoopSends(n)
  <2> DEFINE o == Head(loop[n].kicks)
  <2>1. /\ UNCHANGED <<handler, object, reader, pool, clients, userNum, connNum, kicker>>
        /\ loop[n].kicks # << >>
        /\ loop' = [loop EXCEPT ![n].at = "kick", ![n].kicks = Tail(@)]
        /\ SendUnregister(<<"loop", n>>, n, o) /\ o \in Used(n)
    BY <1>7, <1>0, <1>h DEF LoopSends, connVars, mapVars
  <2> HIDE DEF o
  <2>2. /\ UNCHANGED <<conn, closed, socket, registerChan, kickChan>>
        /\ locker' \in [Conn -> Goroutine \cup {None}]
        /\ \A m \in Node : ObjectTypes(m)' /\ ChanTypes(m)'
        /\ DOMAIN unregisterChan' = Node
    BY <2>1, <1>g, SendTypes
  <2>3. ConnTypes'
    BY <2>1, <2>2 DEF TypeOK, ConnTypes, Used
  <2>4. (\A m \in Node : LoopTypes(m)') /\ DOMAIN loop' = Node
    BY <2>1, <2>2, <1>t
  <2> QED
    BY <2>1, <2>2, <2>3, <2>4, SameTypes DEF TypeOK, Domains
<1>3. CASE KicksDone(n)
  <2> DEFINE o == loop[n].new
             u == UserID(n, o)
  <2>1. UNCHANGED <<handler, object, reader, conn, closed, locker, socket, pool,
                    registerChan, unregisterChan, kickChan, userNum, kicker>>
    BY <1>3 DEF KicksDone, connVars, clientVars, chanVars
  <2>2. CASE o = None
    <3>1. loop' = [loop EXCEPT ![n] = Idle] /\ UNCHANGED <<clients, connNum>>
      BY <1>3, <2>2 DEF KicksDone
    <3>2. (\A m \in Node : LoopTypes(m)') /\ DOMAIN loop' = Node
      BY <3>1, <2>1, <1>x, LoopSet
    <3> QED
      BY <2>1, <3>1, <3>2, SameTypes DEF TypeOK, Domains
  <2>3. CASE o # None
    <3> DEFINE s == Append(clients[n][u], o)
               x == Notifying(o)
    <3>1. /\ clients' = [clients EXCEPT ![n][u] = s] /\ loop' = [loop EXCEPT ![n] = x]
          /\ connNum' = [connNum EXCEPT ![n] = @ + 1]
      BY <1>3, <2>3 DEF KicksDone, Set
    <3>2. o \in Used(n)
      BY <2>3, <1>0
    <3> HIDE DEF o
    <3>3. x \in LoopState(n) /\ x.at = "notify" /\ x.new # None /\ x.kicks = << >>
      BY <3>2, <2>3, EmptySeq, LoopMade DEF Notifying
    <3>4. u \in User
      BY <3>2, Owner
    <3>5. s \in Seq(Used(n))
      <4> HIDE DEF u
      <4> QED
        BY <3>2, <3>4, ListType, SeqAppend
    <3>6. /\ DOMAIN userNum' = Node /\ DOMAIN connNum' = Node
          /\ \A m \in Node : userNum'[m] \in Int /\ connNum'[m] \in Int
      BY <3>1, <2>1, <1>n
    <3> HIDE DEF s, x, u
    <3>7. (\A m \in Node : LoopTypes(m)') /\ DOMAIN loop' = Node
      BY <3>1, <3>3, <2>1, LoopSet
    <3>8. (\A m \in Node : MapTypes(m)') /\ DOMAIN clients' = Node
      BY <3>1, <3>5, <3>6, <2>1, MapSet
    <3> QED
      BY <2>1, <3>6, <3>7, <3>8, SameTypes DEF TypeOK, Domains
  <2> QED
    BY <2>2, <2>3
<1>4. ASSUME NEW m \in Node, Notify(n, m) PROVE TypeOK'
  <2> DEFINE u == UserID(n, loop[n].new)
             p == PlatformID(n, loop[n].new)
             k == [user |-> u, platform |-> p, old |-> OnPlatform(m, u, p)]
             x == [loop[n] EXCEPT !.todo = @ \ {m}]
  <2>1. /\ UNCHANGED <<handler, object, reader, conn, closed, locker, socket, pool,
                       registerChan, unregisterChan, clients, userNum, connNum, kicker>>
        /\ loop[n].at = "notify" /\ loop' = [loop EXCEPT ![n] = x]
    BY <1>4 DEF Notify, connVars, clientVars, mapVars
  <2>2. x \in LoopState(n) /\ x.at = "notify" /\ x.new # None /\ x.kicks = << >>
    <3> DEFINE l == loop[n]
               t == l.todo \ {m}
    <3>1. l \in LoopState(n) /\ t \in SUBSET Node /\ l.at = "notify" /\ l.new # None
          /\ l.kicks = << >>
      BY <1>0, <2>1
    <3> HIDE DEF l, t
    <3>2. [l EXCEPT !.todo = t] \in LoopState(n) /\ [l EXCEPT !.todo = t].at = l.at
          /\ [l EXCEPT !.todo = t].new = l.new /\ [l EXCEPT !.todo = t].kicks = l.kicks
      BY <3>1 DEF LoopState
    <3> QED
      BY <3>1, <3>2 DEF l, t
  <2>3. u \in User /\ p \in Platform
    <3>1. loop[n].new \in Used(n)
      BY <1>0, <2>1
    <3> QED
      BY <3>1, Owner
  <2>4. k \in Kick(m)
    <3> HIDE DEF u, p
    <3>1. OnPlatform(m, u, p) \in Seq(Used(m))
      BY <2>3, OnPlatformType
    <3> QED
      BY <3>1, <2>3 DEF Kick
  <2>5. (Len(kickChan[m]) < ChanCap /\ kickChan' = [kickChan EXCEPT ![m] = Append(@, k)])
        \/ UNCHANGED kickChan
    BY <1>4 DEF Notify
  <2> HIDE DEF x, k
  <2>6. (\A j \in Node : LoopTypes(j)') /\ DOMAIN loop' = Node
    BY <2>1, <2>2, LoopSet
  <2>7. (\A j \in Node : ChanTypes(j)') /\ DOMAIN kickChan' = Node
    <3>1. CASE UNCHANGED kickChan
      BY <3>1, <2>1, SameTypes DEF TypeOK, Domains
    <3>2. CASE Len(kickChan[m]) < ChanCap /\ kickChan' = [kickChan EXCEPT ![m] = Append(@, k)]
      <4>1. ASSUME NEW j \in Node PROVE ChanTypes(j)'
        <5>1. kickChan'[j] = IF j = m THEN Append(kickChan[j], k) ELSE kickChan[j]
          BY <3>2 DEF TypeOK, Domains
        <5>2. kickChan[j] \in Seq(Kick(j)) /\ Len(kickChan[j]) <= ChanCap
          BY DEF TypeOK, ChanTypes
        <5>3. j = m => Append(kickChan[j], k) \in Seq(Kick(j))
                       /\ Len(Append(kickChan[j], k)) = Len(kickChan[j]) + 1
                       /\ Len(kickChan[j]) \in Nat
          BY <5>2, <2>4, SeqAppend, SeqSet
        <5>4. ChanCap \in Nat
          BY CapAssumption
        <5>5. kickChan'[j] \in Seq(Kick(j)) /\ Len(kickChan'[j]) <= ChanCap
          BY <5>1, <5>2, <5>3, <5>4, <3>2
        <5>6. Used(j)' = Used(j) /\ Kick(j)' = Kick(j)
          BY <2>1 DEF Used, Kick
        <5> QED
          BY <5>5, <5>6, <2>1 DEF TypeOK, ChanTypes
      <4> QED
        BY <4>1, <3>2 DEF TypeOK, Domains
    <3> QED
      BY <3>1, <3>2, <2>5
  <2> QED
    BY <2>1, <2>6, <2>7, SameTypes DEF TypeOK, Domains
<1>5. CASE RegisterDone(n)
  <2>1. /\ UNCHANGED <<handler, object, reader, conn, closed, locker, socket, pool,
                       registerChan, unregisterChan, kickChan, clients, userNum, connNum, kicker>>
        /\ loop' = [loop EXCEPT ![n] = Idle]
    BY <1>5 DEF RegisterDone, connVars, clientVars, chanVars, mapVars
  <2>2. (\A j \in Node : LoopTypes(j)') /\ DOMAIN loop' = Node
    BY <2>1, <1>x, LoopSet
  <2> QED
    BY <2>1, <2>2, SameTypes DEF TypeOK, Domains
<1> QED
  BY <1>1, <1>2, <1>3, <1>4, <1>5, <1>6, <1>7 DEF LoopCloses

\* The steps of KickUserOffline.
LEMMA NextKick ==
  ASSUME TypeOK, NEW n \in Node, kicker[n].at # "idle", NextToKick(n), UNCHANGED conn
  PROVE  (\A m \in Node : KickerTypes(m)') /\ DOMAIN kicker' = Node
<1> DEFINE s == kicker[n].old
           x == [at |-> IF Len(s) > 1 THEN "kick" ELSE "idle", old |-> Tail(s)]
<1>1. s \in Seq(Used(n)) /\ s # << >>
  BY DEF TypeOK, KickerTypes, KickerState
<1>2. kicker' = [kicker EXCEPT ![n] = x]
  BY DEF NextToKick
<1> HIDE DEF s
<1>3. Tail(s) \in Seq(Used(n)) /\ Len(Tail(s)) = Len(s) - 1 /\ Len(s) \in Nat \ {0}
      /\ Len(<< >>) = 0
  BY <1>1, SeqHead, EmptySeq
<1>4. Len(s) > 1 => Tail(s) # << >>
  <2>1. Len(s) > 1 => Len(Tail(s)) # 0
    BY <1>3
  <2> QED
    BY <2>1, <1>3
<1>5. x \in KickerState(n) /\ (x.at # "idle" => x.old # << >>)
  BY <1>3, <1>4 DEF KickerState
<1> HIDE DEF x
<1> QED
  BY <1>2, <1>5, KickerSet

LEMMA KickerTypesStep ==
  ASSUME TypeOK, NEW n \in Node,
         (\E u \in User, p \in Platform : KickUserOffline(n, u, p)) \/ Kicker(n)
  PROVE  TypeOK'
<1>0. /\ kicker[n] \in KickerState(n)
      /\ kicker[n].at # "idle" => kicker[n].old # << >>
      /\ kicker[n].old \in Seq(Used(n))
      /\ \A m \in Node : userNum[m] \in Int /\ connNum[m] \in Int
      /\ DOMAIN userNum = Node /\ DOMAIN connNum = Node
  BY DEF TypeOK, KickerTypes, KickerState, MapTypes, Domains
<1>1. ASSUME NEW u \in User, NEW p \in Platform, KickUserOffline(n, u, p) PROVE TypeOK'
  <2> DEFINE os == OnPlatform(n, u, p)
             x == [at |-> "kick", old |-> os]
  <2>1. /\ os # << >> /\ kicker' = [kicker EXCEPT ![n] = x]
        /\ UNCHANGED <<handler, object, reader, conn, closed, locker, socket, pool,
                       registerChan, unregisterChan, kickChan, clients, userNum, connNum, loop>>
    BY <1>1 DEF KickUserOffline, connVars, clientVars, chanVars, mapVars
  <2>2. os \in Seq(Used(n))
    BY OnPlatformType
  <2> HIDE DEF os
  <2>3. x \in KickerState(n) /\ x.old # << >>
    BY <2>1, <2>2 DEF KickerState
  <2> HIDE DEF x
  <2>4. (\A m \in Node : KickerTypes(m)') /\ DOMAIN kicker' = Node
    BY <2>1, <2>3, KickerSet
  <2> QED
    BY <2>1, <2>4, SameTypes DEF TypeOK, Domains
<1>2. CASE KickerDeletes(n)
  <2> DEFINE o == Head(kicker[n].old)
             u == UserID(n, o)
             s == Without(n, u, <<o>>)
             k == kicker[n]
             x == [k EXCEPT !.at = "close"]
  <2>1. /\ k.at = "kick" /\ kicker' = [kicker EXCEPT ![n] = x]
        /\ clients' = [clients EXCEPT ![n][u] = s]
        /\ UNCHANGED <<handler, object, reader, conn, closed, locker, socket, pool,
                       registerChan, unregisterChan, kickChan, userNum, connNum, loop>>
    BY <1>2 DEF KickerDeletes, connVars, clientVars, chanVars
  <2>2. o \in Used(n)
    BY <2>1, <1>0, SeqHead
  <2>3. u \in User
    <3> HIDE DEF o
    <3> QED
      BY <2>2, Owner
  <2>4. s \in Seq(Used(n))
    <3> HIDE DEF u, o
    <3> QED
      BY <2>3, WithoutType
  <2> HIDE DEF o, u, s
  <2>5. x \in KickerState(n) /\ x.old # << >>
    <3>1. k \in KickerState(n) /\ k.old # << >>
      BY <2>1, <1>0
    <3> HIDE DEF k
    <3> QED
      BY <3>1 DEF KickerState
  <2> HIDE DEF x, k
  <2>6. (\A m \in Node : KickerTypes(m)') /\ DOMAIN kicker' = Node
    BY <2>1, <2>5, KickerSet
  <2>7. (\A m \in Node : MapTypes(m)') /\ DOMAIN clients' = Node
    BY <1>0, <2>1, <2>4, MapSet
  <2> QED
    BY <2>1, <2>6, <2>7, SameTypes DEF TypeOK, Domains
<1>g. <<"kicker", n>> \in Goroutine
  BY DEF Goroutine
<1>h. kicker[n].at # "idle" => Head(kicker[n].old) \in Used(n)
  BY <1>0, SeqHead
\* The kicker moves on with the same client.
<1>m. ASSUME NEW at \in {"locked", "marking", "send"}, kicker[n].at # "idle",
             UNCHANGED conn, kicker' = [kicker EXCEPT ![n].at = at]
      PROVE  (\A m \in Node : KickerTypes(m)') /\ DOMAIN kicker' = Node
  <2> DEFINE k == kicker[n]
             x == [k EXCEPT !.at = at]
  <2>1. kicker' = [kicker EXCEPT ![n] = x] /\ k \in KickerState(n) /\ k.old # << >>
    BY <1>m, <1>0
  <2> HIDE DEF k
  <2>2. x \in KickerState(n) /\ x.old # << >>
    BY <2>1, <1>m DEF KickerState
  <2> HIDE DEF x
  <2> QED
    BY <2>1, <2>2, <1>m, KickerSet
<1>3. CASE KickerLocks(n)
  <2> DEFINE o == Head(kicker[n].old)
  <2>1. /\ UNCHANGED <<handler, object, reader, pool, registerChan, unregisterChan, kickChan,
                       clients, userNum, connNum, loop>>
        /\ kicker[n].at # "idle" /\ kicker' = [kicker EXCEPT ![n].at = "locked"]
        /\ Lock(<<"kicker", n>>, n, o)
    BY <1>3 DEF KickerLocks, connVars, chanVars, mapVars
  <2> HIDE DEF o
  <2>2. UNCHANGED <<conn, closed, socket>> /\ locker' \in [Conn -> Goroutine \cup {None}]
    BY <2>1, <1>g, LockTypes
  <2>3. ConnTypes'
    BY <2>1, <2>2 DEF TypeOK, ConnTypes, Used
  <2>4. (\A m \in Node : KickerTypes(m)') /\ DOMAIN kicker' = Node
    BY <2>1, <2>2, <1>m
  <2> QED
    BY <2>1, <2>2, <2>3, <2>4, SameTypes DEF TypeOK, Domains
<1>4. CASE KickerTests(n)
  <2>1. /\ UNCHANGED <<handler, object, reader, conn, closed, socket, pool, registerChan,
                       unregisterChan, kickChan, clients, userNum, connNum, loop>>
        /\ kicker[n].at # "idle"
        /\ NextToKick(n) \/ kicker' = [kicker EXCEPT ![n].at = "marking"]
        /\ Unlock(<<"kicker", n>>) \/ UNCHANGED locker
    BY <1>4 DEF KickerTests, connVars, chanVars, mapVars
  <2>2. locker' \in [Conn -> Goroutine \cup {None}]
    BY <2>1, <1>g, LockTypes DEF TypeOK, ConnTypes
  <2>3. ConnTypes'
    BY <2>1, <2>2 DEF TypeOK, ConnTypes, Used
  <2>4. (\A m \in Node : KickerTypes(m)') /\ DOMAIN kicker' = Node
    BY <2>1, <1>m, NextKick
  <2> QED
    BY <2>1, <2>3, <2>4, SameTypes DEF TypeOK, Domains
<1>5. CASE KickerMarks(n)
  <2> DEFINE o == Head(kicker[n].old)
  <2>1. /\ UNCHANGED <<handler, object, reader, pool, registerChan, unregisterChan, kickChan,
                       clients, userNum, connNum, loop>>
        /\ kicker[n].at # "idle" /\ kicker' = [kicker EXCEPT ![n].at = "send"]
        /\ MarkClosed(n, o) /\ o \in Used(n)
    BY <1>5, <1>h DEF KickerMarks, connVars, chanVars, mapVars
  <2> HIDE DEF o
  <2>2. /\ UNCHANGED <<conn, locker>> /\ socket' \in [Conn -> {"none", "open", "closed"}]
        /\ \A m \in Node : ObjectTypes(m)'
        /\ DOMAIN closed' = Node
    BY <2>1, MarkTypes
  <2>3. ConnTypes'
    BY <2>1, <2>2 DEF TypeOK, ConnTypes, Used
  <2>4. (\A m \in Node : KickerTypes(m)') /\ DOMAIN kicker' = Node
    BY <2>1, <2>2, <1>m
  <2> QED
    BY <2>1, <2>2, <2>3, <2>4, SameTypes DEF TypeOK, Domains
<1>6. CASE KickerSends(n)
  <2> DEFINE o == Head(kicker[n].old)
  <2>1. /\ UNCHANGED <<handler, object, reader, pool, clients, userNum, connNum, loop>>
        /\ kicker[n].at # "idle" /\ NextToKick(n)
        /\ SendUnregister(<<"kicker", n>>, n, o) /\ o \in Used(n)
    BY <1>6, <1>h DEF KickerSends, connVars, mapVars
  <2> HIDE DEF o
  <2>2. /\ UNCHANGED <<conn, closed, socket, registerChan, kickChan>>
        /\ locker' \in [Conn -> Goroutine \cup {None}]
        /\ \A m \in Node : ObjectTypes(m)' /\ ChanTypes(m)'
        /\ DOMAIN unregisterChan' = Node
    BY <2>1, <1>g, SendTypes
  <2>3. ConnTypes'
    BY <2>1, <2>2 DEF TypeOK, ConnTypes, Used
  <2>4. (\A m \in Node : KickerTypes(m)') /\ DOMAIN kicker' = Node
    BY <2>1, <2>2, NextKick
  <2> QED
    BY <2>1, <2>2, <2>3, <2>4, SameTypes DEF TypeOK, Domains
<1> QED
  BY <1>1, <1>2, <1>3, <1>4, <1>5, <1>6 DEF Kicker, KickerCloses

\* Types hold, the channels keep to their capacity, and whatever is queued,
\* listed or being closed is an object that some connection was given.
THEOREM TypeCorrect == Spec => []TypeOK
<1>1. TypeOK /\ [Next]_vars => TypeOK'
  <2> SUFFICES ASSUME TypeOK, [Next]_vars PROVE TypeOK'
    OBVIOUS
  <2>1. CASE UNCHANGED vars
    BY <2>1, SameTypes
    DEF vars, connVars, clientVars, chanVars, mapVars, TypeOK, Domains
  <2>2. CASE Next
    BY <2>2, ConnTypesStep, TakeTypesStep, LoopTypesStep, KickerTypesStep
    DEF Next, EventLoop
  <2> QED
    BY <2>1, <2>2
<1> QED
  BY <1>1, InitTypes, PTL DEF Spec

-----------------------------------------------------------------------------
(* The life of a client object.  It is in the pool; then it is the client  *)
(* of one open connection; then the goroutine that holds its mutex has     *)
(* marked it closed and is about to send it to the unregister channel;     *)
(* then it is there, once; and then it is in the pool again.  This needs   *)
(* LockKept: no object is reset while a goroutine holds its mutex.         *)

\* The objects in the pool.
Free(n) == {o \in Object[n] : pool[n][o] # 0}

\* The goroutines that are in close() of object o of gateway n, at one of the
\* places in S.
Stages == {"locked", "marking", "sending", "send"}

ReaderAt(S, c, n, o) == NodeOf[c] = n /\ reader[c] \in S /\ object[c] = o
LoopAt(S, n, o) == loop[n].at \in S /\ Head(loop[n].kicks) = o
KickerAt(S, n, o) == kicker[n].at \in S /\ Head(kicker[n].old) = o

Closers(S, n, o) ==
  {a \in ({"reader"} \X Conn) \cup ({"loop", "kicker"} \X {n}) :
     \/ a[1] = "reader" /\ ReaderAt(S, a[2], n, o)
     \/ a[1] = "loop" /\ LoopAt(S, n, o)
     \/ a[1] = "kicker" /\ KickerAt(S, n, o)}

Holders(n, o) == Closers(Stages, n, o)
Markers(n, o) == Closers({"marking"}, n, o)
Senders(n, o) == Closers({"sending", "send"}, n, o)

\* Whoever is in close() has the mutex of the object's connection, and has
\* not been overtaken since it found closed unset.
Locked(n, o) ==
  /\ \A a \in Holders(n, o) : conn[n][o] # None /\ locker[conn[n][o]] = a
  /\ Markers(n, o) # {} => ~closed[n][o]

\* What it is in: the pool, a goroutine's close, the channel.
Place(n, o) ==
  /\ pool[n][o] \in {0, 1}
  /\ o \in Free(n) => Senders(n, o) = {} /\ o \notin ToSet(unregisterChan[n])
  /\ o \in Free(n) /\ conn[n][o] # None => closed[n][o]
  /\ o \notin Free(n) => conn[n][o] # None
  /\ o \notin Free(n) /\ closed[n][o] => Senders(n, o) # {} \/ o \in ToSet(unregisterChan[n])
  /\ Senders(n, o) # {} => closed[n][o] /\ o \notin ToSet(unregisterChan[n])
  /\ o \in ToSet(unregisterChan[n]) => closed[n][o]

\* The connection it has.
Tied(n, o) ==
  /\ conn[n][o] # None => NodeOf[conn[n][o]] = n /\ object[conn[n][o]] = o
  /\ o \notin Free(n) /\ ~closed[n][o] => socket[conn[n][o]] = "open"

\* The object that an open connection has.
Held(c) ==
  socket[c] = "open" =>
    /\ object[c] # None /\ object[c] \notin Free(NodeOf[c])
    /\ conn[NodeOf[c]][object[c]] = c /\ ~closed[NodeOf[c]][object[c]]

Life(n, o) == Place(n, o) /\ Tied(n, o) /\ Locked(n, o)

LifeInv ==
  /\ \A n \in Node : IsInjective(unregisterChan[n])
  /\ \A n \in Node : \A o \in Object[n] : Life(n, o)
  /\ \A c \in Conn : Held(c)

\* The sets of goroutines, one within the other.
LEMMA CloserSets ==
  ASSUME NEW n, NEW o
  PROVE  Markers(n, o) \subseteq Holders(n, o) /\ Senders(n, o) \subseteq Holders(n, o)
BY DEF Markers, Senders, Holders, Closers, Stages, ReaderAt, LoopAt, KickerAt

LEMMA InitLife == Init => LifeInv
<1> SUFFICES ASSUME Init PROVE LifeInv
  OBVIOUS
<1>1. ASSUME NEW n \in Node PROVE unregisterChan[n] = << >> /\ IsInjective(unregisterChan[n])
      /\ ToSet(unregisterChan[n]) = {}
  BY DEF Init, IsInjective, ToSet
<1>2. ASSUME NEW n \in Node, NEW o \in Object[n] PROVE Life(n, o)
  <2>1. pool[n][o] = 1 /\ o \in Free(n) /\ conn[n][o] = None
    BY DEF Init, Free
  <2>2. /\ \A c \in Conn : ~ReaderAt(Stages, c, n, o)
        /\ ~LoopAt(Stages, n, o) /\ ~KickerAt(Stages, n, o)
    BY DEF Init, Idle, Stages, ReaderAt, LoopAt, KickerAt
  <2>3. Holders(n, o) = {} /\ Senders(n, o) = {} /\ Markers(n, o) = {}
    <3>1. Holders(n, o) = {}
      BY <2>2 DEF Holders, Closers
    <3> QED
      BY <3>1, CloserSets
  <2> QED
    BY <1>1, <2>1, <2>3 DEF Life, Place, Tied, Locked
<1>3. ASSUME NEW c \in Conn PROVE Held(c)
  BY DEF Init, Held
<1> QED
  BY <1>1, <1>2, <1>3 DEF LifeInv

\* A goroutine is in one close() at a time.
LEMMA HoldsOne ==
  ASSUME NEW n \in Node, NEW o
  PROVE  /\ Holders(n, o) \subseteq Goroutine
         /\ \A m, b : \A a \in Holders(n, o) : a \in Holders(m, b) => m = n /\ b = o
<1>1. Holders(n, o) \subseteq Goroutine
  BY DEF Holders, Closers, Goroutine
<1>2. ASSUME NEW m, NEW b, NEW a \in Holders(n, o), a \in Holders(m, b)
      PROVE  m = n /\ b = o
  <2>1. CASE a[1] = "reader"
    BY <1>2, <2>1 DEF Holders, Closers, ReaderAt
  <2>2. CASE a[1] # "reader"
    <3>1. a \in {"loop", "kicker"} \X {n} /\ a \in {"loop", "kicker"} \X {m}
      BY <1>2, <2>2 DEF Holders, Closers
    <3>2. m = n
      BY <3>1
    <3> QED
      BY <1>2, <2>2, <3>1, <3>2 DEF Holders, Closers, LoopAt, KickerAt
  <2> QED
    BY <2>1, <2>2
<1> QED
  BY <1>1, <1>2

\* A step of goroutine a in close() of object o of gateway n, from place p to
\* place q.
Goes(a, n, o, p, q) ==
  \A S \in SUBSET Stages : \A m \in Node : \A b \in Object[m] :
    /\ Closers(S, m, b)' = (Closers(S, m, b) \ {a}) \cup
                             (IF q \in S /\ m = n /\ b = o THEN {a} ELSE {})
    /\ a \in Closers(S, m, b) <=> p \in S /\ m = n /\ b = o

LEMMA GoesAll ==
  ASSUME NEW a, NEW n, NEW o, NEW p, NEW q, Goes(a, n, o, p, q),
         NEW m \in Node, NEW b \in Object[m]
  PROVE  /\ Holders(m, b)' = (Holders(m, b) \ {a}) \cup
                               (IF q \in Stages /\ m = n /\ b = o THEN {a} ELSE {})
         /\ Markers(m, b)' = (Markers(m, b) \ {a}) \cup
                               (IF q = "marking" /\ m = n /\ b = o THEN {a} ELSE {})
         /\ Senders(m, b)' = (Senders(m, b) \ {a}) \cup
                               (IF q \in {"sending", "send"} /\ m = n /\ b = o THEN {a} ELSE {})
         /\ a \in Holders(m, b) <=> p \in Stages /\ m = n /\ b = o
         /\ a \in Markers(m, b) <=> p = "marking" /\ m = n /\ b = o
         /\ a \in Senders(m, b) <=> p \in {"sending", "send"} /\ m = n /\ b = o
<1>1. {"marking"} \in SUBSET Stages /\ {"sending", "send"} \in SUBSET Stages
  BY DEF Stages
<1>2. \A S \in SUBSET Stages :
        /\ Closers(S, m, b)' = (Closers(S, m, b) \ {a}) \cup
                                 (IF q \in S /\ m = n /\ b = o THEN {a} ELSE {})
        /\ a \in Closers(S, m, b) <=> p \in S /\ m = n /\ b = o
  BY DEF Goes
<1>3. /\ Markers(m, b)' = (Markers(m, b) \ {a}) \cup
                            (IF q \in {"marking"} /\ m = n /\ b = o THEN {a} ELSE {})
      /\ a \in Markers(m, b) <=> p \in {"marking"} /\ m = n /\ b = o
  BY <1>1, <1>2 DEF Markers
<1>4. /\ Senders(m, b)' = (Senders(m, b) \ {a}) \cup
                            (IF q \in {"sending", "send"} /\ m = n /\ b = o THEN {a} ELSE {})
      /\ a \in Senders(m, b) <=> p \in {"sending", "send"} /\ m = n /\ b = o
  BY <1>1, <1>2 DEF Senders
<1>5. /\ Holders(m, b)' = (Holders(m, b) \ {a}) \cup
                            (IF q \in Stages /\ m = n /\ b = o THEN {a} ELSE {})
      /\ a \in Holders(m, b) <=> p \in Stages /\ m = n /\ b = o
  BY <1>2 DEF Holders
<1> QED
  BY <1>3, <1>4, <1>5

\* Two objects of one connection are one object.
LEMMA OneObject ==
  ASSUME LifeInv, NEW n \in Node, NEW o \in Object[n], NEW m \in Node, NEW b \in Object[m],
         conn[n][o] # None, conn[m][b] = conn[n][o]
  PROVE  m = n /\ b = o
BY DEF LifeInv, Life, Tied

\* A step that moves no object.
LEMMA LifeSame ==
  ASSUME TypeOK, LifeInv, UNCHANGED <<pool, conn, closed, locker, socket, object, unregisterChan>>,
         \A S \in SUBSET Stages : \A n \in Node : \A o \in Object[n] :
           Closers(S, n, o)' = Closers(S, n, o)
  PROVE  LifeInv'
<1>0. \A n \in Node : Free(n)' = Free(n)
  BY DEF Free
<1>1. ASSUME NEW n \in Node, NEW o \in Object[n] PROVE Life(n, o)'
  <2>1. Senders(n, o)' = Senders(n, o) /\ Markers(n, o)' = Markers(n, o) /\ Holders(n, o)' = Holders(n, o)
    <3>1. {"marking"} \in SUBSET Stages /\ {"sending", "send"} \in SUBSET Stages
      BY DEF Stages
    <3> QED
      BY <3>1 DEF Senders, Markers, Holders
  <2>2. Place(n, o) /\ Tied(n, o) /\ Locked(n, o)
    BY DEF LifeInv, Life
  <2> QED
    BY <1>0, <2>1, <2>2 DEF Life, Place, Tied, Locked
<1>2. ASSUME NEW c \in Conn PROVE Held(c)'
  BY <1>0, ConnAssumption DEF LifeInv, Held
<1> QED
  BY <1>1, <1>2 DEF LifeInv

\* Goroutine a takes the mutex of an object: nobody else is in close() of it.
LEMMA LifeLock ==
  ASSUME TypeOK, LifeInv, NEW a \in Goroutine, NEW n \in Node, NEW o \in Used(n), NEW p,
         p \notin Stages, Lock(a, n, o), UNCHANGED <<pool, object, unregisterChan>>,
         Goes(a, n, o, p, "locked")
  PROVE  LifeInv'
<1> DEFINE d == conn[n][o]
<1>0. /\ o \in Object[n] /\ d # None /\ d \in Conn /\ locker[d] = None
      /\ UNCHANGED <<conn, closed, socket>>
      /\ \A e \in Conn : locker'[e] = IF e = d THEN a ELSE locker[e]
  BY Owner DEF Used, Lock, TypeOK, ConnTypes
<1>f. \A m \in Node : Free(m)' = Free(m)
  BY DEF Free
<1>1. ASSUME NEW m \in Node, NEW b \in Object[m] PROVE Life(m, b)'
  <2>0. Place(m, b) /\ Tied(m, b) /\ Locked(m, b) /\ (conn[m][b] # None => conn[m][b] \in Conn)
    BY DEF LifeInv, Life, TypeOK, ObjectTypes
  <2>1. /\ Holders(m, b)' = Holders(m, b) \cup (IF m = n /\ b = o THEN {a} ELSE {})
        /\ Markers(m, b)' = Markers(m, b) /\ Senders(m, b)' = Senders(m, b)
    <3>1. "locked" \in Stages /\ p # "marking" /\ p \notin {"sending", "send"}
      BY DEF Stages
    <3>2. a \notin Holders(m, b) /\ a \notin Markers(m, b) /\ a \notin Senders(m, b)
      BY <3>1, GoesAll
    <3>3. /\ Holders(m, b)' = (Holders(m, b) \ {a}) \cup (IF m = n /\ b = o THEN {a} ELSE {})
          /\ Markers(m, b)' = Markers(m, b) \ {a} /\ Senders(m, b)' = Senders(m, b) \ {a}
      BY <3>1, GoesAll
    <3> QED
      BY <3>2, <3>3
  <2>2. Place(m, b)' /\ Tied(m, b)'
    BY <1>0, <1>f, <2>0, <2>1 DEF Place, Tied
  <2>3. Locked(m, b)'
    <3>1. CASE m = n /\ b = o
      <4>1. Holders(m, b) = {}
        BY <3>1, <1>0, <2>0, HoldsOne, NoneAssumption DEF Locked
      <4> QED
        BY <3>1, <4>1, <1>0, <2>0, <2>1 DEF Locked
    <3>2. CASE ~ (m = n /\ b = o)
      <4>1. conn[m][b] # None => conn[m][b] # d
        BY <3>2, <1>0, OneObject
      <4> HIDE DEF d
      <4> QED
        BY <3>2, <4>1, <1>0, <2>0, <2>1 DEF Locked
    <3> QED
      BY <3>1, <3>2
  <2> QED
    BY <2>2, <2>3 DEF Life
<1>2. ASSUME NEW c \in Conn PROVE Held(c)'
  BY <1>0, <1>f, ConnAssumption DEF LifeInv, Held
<1> QED
  BY <1>0, <1>1, <1>2 DEF LifeInv

\* It has found closed unset.
LEMMA LifeTest ==
  ASSUME TypeOK, LifeInv, NEW a, NEW n \in Node, NEW o \in Object[n],
         ~closed[n][o], UNCHANGED <<pool, conn, closed, locker, socket, object, unregisterChan>>,
         Goes(a, n, o, "locked", "marking")
  PROVE  LifeInv'
<1>f. \A m \in Node : Free(m)' = Free(m)
  BY DEF Free
<1>1. ASSUME NEW m \in Node, NEW b \in Object[m] PROVE Life(m, b)'
  <2>0. Place(m, b) /\ Tied(m, b) /\ Locked(m, b)
    BY DEF LifeInv, Life
  <2>1. /\ Holders(m, b)' = Holders(m, b) /\ Senders(m, b)' = Senders(m, b)
        /\ Markers(m, b)' \subseteq Markers(m, b) \cup (IF m = n /\ b = o THEN {a} ELSE {})
    <3>1. "locked" \in Stages /\ "marking" \in Stages
      BY DEF Stages
    <3>2. (a \in Holders(m, b) <=> m = n /\ b = o) /\ a \notin Senders(m, b)
      BY <3>1, GoesAll
    <3>3. /\ Holders(m, b)' = (Holders(m, b) \ {a}) \cup (IF m = n /\ b = o THEN {a} ELSE {})
          /\ Markers(m, b)' = (Markers(m, b) \ {a}) \cup (IF m = n /\ b = o THEN {a} ELSE {})
          /\ Senders(m, b)' = Senders(m, b) \ {a}
      BY <3>1, GoesAll
    <3> QED
      BY <3>2, <3>3
  <2> QED
    BY <1>f, <2>0, <2>1 DEF Life, Place, Tied, Locked
<1>2. ASSUME NEW c \in Conn PROVE Held(c)'
  BY <1>f, ConnAssumption DEF LifeInv, Held
<1> QED
  BY <1>1, <1>2 DEF LifeInv

\* It releases the mutex.
LEMMA LockedLess ==
  ASSUME TypeOK, LifeInv, NEW a, NEW n \in Node, NEW o \in Object[n], NEW p, NEW q,
         Unlock(a), UNCHANGED <<conn, closed>>, q \notin Stages, Goes(a, n, o, p, q),
         NEW m \in Node, NEW b \in Object[m]
  PROVE  Locked(m, b)'
<1>1. Locked(m, b) /\ (conn[m][b] # None => conn[m][b] \in Conn)
  BY DEF LifeInv, Life, TypeOK, ObjectTypes
<1>2. Holders(m, b)' = Holders(m, b) \ {a} /\ Markers(m, b)' \subseteq Markers(m, b)
  BY GoesAll DEF Stages
<1>3. \A e \in Conn : locker[e] # a => locker'[e] = locker[e]
  BY DEF Unlock
<1> QED
  BY <1>1, <1>2, <1>3 DEF Locked

\* It has found closed set.
LEMMA LifeDrop ==
  ASSUME TypeOK, LifeInv, NEW a, NEW n \in Node, NEW o \in Object[n], NEW q, q \notin Stages,
         Unlock(a), UNCHANGED <<pool, conn, closed, socket, object, unregisterChan>>,
         Goes(a, n, o, "locked", q)
  PROVE  LifeInv'
<1>f. \A m \in Node : Free(m)' = Free(m)
  BY DEF Free
<1>1. ASSUME NEW m \in Node, NEW b \in Object[m] PROVE Life(m, b)'
  <2>0. Place(m, b) /\ Tied(m, b)
    BY DEF LifeInv, Life
  <2>1. Senders(m, b)' = Senders(m, b)
    BY GoesAll DEF Stages
  <2>2. Locked(m, b)'
    BY LockedLess
  <2> QED
    BY <1>f, <2>0, <2>1, <2>2 DEF Life, Place, Tied
<1>2. ASSUME NEW c \in Conn PROVE Held(c)'
  BY <1>f, ConnAssumption DEF LifeInv, Held
<1> QED
  BY <1>1, <1>2 DEF LifeInv

\* It marks the object closed.
LEMMA LifeMark ==
  ASSUME TypeOK, LifeInv, NEW n \in Node, NEW o \in Used(n), NEW a, NEW q \in {"sending", "send"},
         MarkClosed(n, o), UNCHANGED <<pool, object, unregisterChan>>, Goes(a, n, o, "marking", q)
  PROVE  LifeInv'
<1>1. /\ o \in Object[n] /\ conn[n][o] # None /\ UNCHANGED <<conn, locker>> /\ conn[n][o] \in Conn
      /\ Place(n, o) /\ Tied(n, o) /\ Locked(n, o)
  BY Owner DEF LifeInv, Life, Used, MarkClosed
<1>f. \A m \in Node : Free(m)' = Free(m)
  BY DEF Free
<1>2. \A m \in Node : \A b \in Object[m] :
        closed'[m][b] = IF m = n /\ b = o THEN TRUE ELSE closed[m][b]
  <2>1. ASSUME NEW m \in Node
        PROVE  /\ closed'[m] = IF m = n THEN [closed[m] EXCEPT ![o] = TRUE] ELSE closed[m]
               /\ DOMAIN closed[m] = Object[m]
    BY DEF MarkClosed, TypeOK, Domains, ObjectTypes
  <2> QED
    BY <2>1, <1>1
<1>3. \A c \in Conn : socket'[c] = IF c = conn[n][o] THEN "closed" ELSE socket[c]
  BY <1>1 DEF MarkClosed, TypeOK, ConnTypes
<1>a. a \in Markers(n, o) /\ a \in Holders(n, o)
  BY <1>1, GoesAll DEF Stages
<1>b. ~closed[n][o] /\ Senders(n, o) = {} /\ Markers(n, o) \subseteq {a} /\ o \notin Free(n)
  <2>1. ~closed[n][o] /\ Senders(n, o) = {} /\ o \notin Free(n)
    BY <1>1, <1>a DEF Locked, Place
  <2>2. \A x \in Markers(n, o) : x = a
    BY <1>1, <1>a, CloserSets DEF Locked
  <2> QED
    BY <2>1, <2>2
<1>g. ASSUME NEW m \in Node, NEW b \in Object[m]
      PROVE  /\ Holders(m, b)' = Holders(m, b)
             /\ Markers(m, b)' = Markers(m, b) \ {a}
             /\ Senders(m, b)' = IF m = n /\ b = o THEN {a} ELSE Senders(m, b)
  BY <1>b, GoesAll DEF Stages
<1>4. ASSUME NEW m \in Node, NEW b \in Object[m] PROVE Life(m, b)'
  <2>0. Place(m, b) /\ Tied(m, b) /\ Locked(m, b)
    BY DEF LifeInv, Life
  <2>1. CASE m = n /\ b = o
    <3>1. Place(m, b)'
      BY <2>1, <1>1, <1>2, <1>b, <1>f, <1>g DEF Place
    <3>2. Tied(m, b)'
      BY <2>1, <1>1, <1>2 DEF Tied
    <3>3. Markers(m, b)' = {} /\ Holders(m, b)' = Holders(m, b)
      BY <2>1, <1>b, <1>g
    <3>4. Locked(m, b)'
      BY <2>0, <3>3, <1>1 DEF Locked
    <3> QED
      BY <3>1, <3>2, <3>4 DEF Life
  <2>2. CASE ~ (m = n /\ b = o)
    <3>1. closed'[m][b] = closed[m][b] /\ Senders(m, b)' = Senders(m, b)
          /\ Holders(m, b)' = Holders(m, b) /\ Markers(m, b)' \subseteq Markers(m, b)
      BY <2>2, <1>2, <1>g
    <3>2. Place(m, b)' /\ Locked(m, b)'
      BY <3>1, <2>0, <1>1, <1>f DEF Place, Locked
    <3>3. Tied(m, b)'
      <4>1. conn[m][b] # None => conn[m][b] # conn[n][o]
        BY <2>2, <1>1, OneObject
      <4>2. conn[m][b] # None => conn[m][b] \in Conn
        BY DEF TypeOK, ObjectTypes
      <4>3. b \notin Free(m) => conn[m][b] # None
        BY <2>0 DEF Place
      <4> QED
        BY <4>1, <4>2, <4>3, <2>0, <3>1, <1>1, <1>3, <1>f DEF Tied
    <3> QED
      BY <3>2, <3>3 DEF Life
  <2> QED
    BY <2>1, <2>2
<1>5. ASSUME NEW c \in Conn PROVE Held(c)'
  <2> SUFFICES ASSUME socket'[c] = "open"
      PROVE  /\ object[c] # None /\ object[c] \notin Free(NodeOf[c])
             /\ conn[NodeOf[c]][object[c]] = c /\ ~closed'[NodeOf[c]][object[c]]
    BY <1>1, <1>f, ConnAssumption DEF Held
  <2>1. socket[c] = "open" /\ c # conn[n][o]
    BY <1>3
  <2>2. /\ object[c] # None /\ object[c] \notin Free(NodeOf[c])
        /\ conn[NodeOf[c]][object[c]] = c /\ ~closed[NodeOf[c]][object[c]]
    BY <2>1 DEF LifeInv, Held
  <2>3. NodeOf[c] \in Node /\ object[c] \in Object[NodeOf[c]]
    BY <2>2, ConnAssumption DEF TypeOK, ConnTypes, Used
  <2> QED
    BY <2>1, <2>2, <2>3, <1>2
<1> QED
  BY <1>4, <1>5 DEF LifeInv

\* It sends the object it has marked.
LEMMA LifeSend ==
  ASSUME TypeOK, LifeInv, NEW n \in Node, NEW o \in Used(n), NEW a,
         NEW p \in {"sending", "send"}, NEW q, q \notin Stages,
         SendUnregister(a, n, o), UNCHANGED <<pool, object>>, Goes(a, n, o, p, q)
  PROVE  LifeInv'
<1>1. /\ o \in Object[n] /\ conn' = conn /\ closed' = closed /\ socket' = socket /\ Unlock(a)
      /\ Place(n, o) /\ Tied(n, o) /\ Locked(n, o) /\ IsInjective(unregisterChan[n])
  BY DEF LifeInv, Life, Used, SendUnregister
<1>f. \A m \in Node : Free(m)' = Free(m)
  BY DEF Free
<1>2. Senders(n, o) = {a} /\ closed[n][o] /\ o \notin ToSet(unregisterChan[n]) /\ o \notin Free(n)
  <2>1. a \in Senders(n, o) /\ a \in Holders(n, o)
    BY <1>1, GoesAll DEF Stages
  <2>2. \A x \in Senders(n, o) : x = a
    BY <2>1, <1>1, CloserSets DEF Locked
  <2> QED
    BY <2>1, <2>2, <1>1 DEF Place
<1>4. \A m \in Node : unregisterChan'[m] = IF m = n THEN Append(unregisterChan[m], o) ELSE unregisterChan[m]
  BY DEF SendUnregister, TypeOK, Domains
<1>5. /\ ToSet(Append(unregisterChan[n], o)) = ToSet(unregisterChan[n]) \cup {o}
      /\ IsInjective(Append(unregisterChan[n], o))
  <2>1. unregisterChan[n] \in Seq(Used(n))
    BY DEF TypeOK, ChanTypes
  <2> QED
    BY <2>1, <1>1, <1>2, SeqAppend
<1>6. ASSUME NEW m \in Node PROVE IsInjective(unregisterChan'[m])
                                  /\ ToSet(unregisterChan'[m]) =
                                       IF m = n THEN ToSet(unregisterChan[m]) \cup {o}
                                                ELSE ToSet(unregisterChan[m])
  BY <1>4, <1>5 DEF LifeInv
<1>7. ASSUME NEW m \in Node, NEW b \in Object[m] PROVE Life(m, b)'
  <2>0. Place(m, b) /\ Tied(m, b)
    BY DEF LifeInv, Life
  <2>1. Tied(m, b)'
    BY <2>0, <1>1, <1>f DEF Tied
  <2>2. Senders(m, b)' = IF m = n /\ b = o THEN {} ELSE Senders(m, b)
    <3>1. /\ Senders(m, b)' = Senders(m, b) \ {a}
          /\ a \in Senders(m, b) <=> m = n /\ b = o
      BY GoesAll DEF Stages
    <3> QED
      BY <3>1, <1>2
  <2>3. Place(m, b)'
    <3>1. CASE m = n /\ b = o
      BY <3>1, <2>0, <2>2, <1>1, <1>2, <1>6, <1>f DEF Place
    <3>2. CASE ~ (m = n /\ b = o)
      BY <3>2, <2>0, <2>2, <1>1, <1>6, <1>f DEF Place
    <3> QED
      BY <3>1, <3>2
  <2>4. Locked(m, b)'
    BY <1>1, LockedLess
  <2> QED
    BY <2>1, <2>3, <2>4 DEF Life
<1>8. ASSUME NEW c \in Conn PROVE Held(c)'
  BY <1>1, <1>f, ConnAssumption DEF LifeInv, Held
<1> QED
  BY <1>6, <1>7, <1>8 DEF LifeInv

\* An object from the pool gets a new connection.
LEMMA LifeReset ==
  ASSUME LockKept, TypeOK, LifeInv, NEW c \in Conn, NEW o \in Object[NodeOf[c]], ResetClient(c, o)
  PROVE  LifeInv' /\ \A m \in Node : Free(m)' = IF m = NodeOf[c] THEN Free(m) \ {o} ELSE Free(m)
<1> DEFINE n == NodeOf[c]
<1>0. n \in Node /\ o \in Object[n] /\ c # None
  BY ConnAssumption, NoneAssumption
<1>1. /\ handler[c] = "admitted" /\ UNCHANGED <<reader, locker, unregisterChan, loop, kicker>>
      /\ Place(n, o) /\ Tied(n, o) /\ Locked(n, o) /\ o \in Free(n)
  BY <1>0 DEF ResetClient, LifeInv, Life, chanVars, Free
<1>2. object[c] = None /\ reader[c] = "none"
  BY <1>1 DEF TypeOK, ConnTypes
<1>h. Holders(n, o) = {} /\ Markers(n, o) = {} /\ Senders(n, o) = {}
  <2>1. conn[n][o] # None => locker[conn[n][o]] = None
    BY DEF ResetClient
  <2>2. Holders(n, o) = {}
    BY <2>1, <1>0, <1>1, HoldsOne, NoneAssumption DEF Locked
  <2> QED
    BY <2>2, CloserSets
<1>3. \A m \in Node :
        /\ pool'[m] = IF m = n THEN [pool[m] EXCEPT ![o] = @ - 1] ELSE pool[m]
        /\ conn'[m] = IF m = n THEN [conn[m] EXCEPT ![o] = c] ELSE conn[m]
        /\ closed'[m] = IF m = n THEN [closed[m] EXCEPT ![o] = FALSE] ELSE closed[m]
        /\ DOMAIN conn[m] = Object[m] /\ DOMAIN closed[m] = Object[m] /\ DOMAIN pool[m] = Object[m]
  BY DEF ResetClient, TypeOK, Domains, ObjectTypes
<1>4. \A d \in Conn : /\ object'[d] = IF d = c THEN o ELSE object[d]
                      /\ socket'[d] = IF d = c THEN "open" ELSE socket[d]
  BY DEF ResetClient, TypeOK, ConnTypes
<1> HIDE DEF n
<1>5. \A m \in Node : \A b \in Object[m] :
        /\ conn'[m][b] = IF m = n /\ b = o THEN c ELSE conn[m][b]
        /\ closed'[m][b] = IF m = n /\ b = o THEN FALSE ELSE closed[m][b]
        /\ pool'[m][b] = IF m = n /\ b = o THEN 0 ELSE pool[m][b]
  <2>1. pool'[n] = [pool[n] EXCEPT ![o] = 0]
    <3>1. pool'[n] = [pool[n] EXCEPT ![o] = pool[n][o] - 1] /\ pool[n][o] = 1
      BY <1>0, <1>1, <1>3 DEF Place, Free
    <3>2. pool[n][o] - 1 = 0
      BY <3>1
    <3> QED
      BY <3>1, <3>2
  <2>2. ASSUME NEW m \in Node, NEW b \in Object[m]
        PROVE  /\ conn'[m][b] = IF m = n /\ b = o THEN c ELSE conn[m][b]
               /\ closed'[m][b] = IF m = n /\ b = o THEN FALSE ELSE closed[m][b]
    BY <1>3, <1>0
  <2>3. ASSUME NEW m \in Node, NEW b \in Object[m]
        PROVE  pool'[m][b] = IF m = n /\ b = o THEN 0 ELSE pool[m][b]
    <3>1. (m # n => pool'[m] = pool[m]) /\ DOMAIN pool[m] = Object[m]
      BY <1>3
    <3>2. m = n => pool'[m][b] = IF b = o THEN 0 ELSE pool[m][b]
      BY <2>1, <3>1
    <3> QED
      BY <3>1, <3>2
  <2> QED
    BY <2>2, <2>3
<1>f. \A m \in Node : Free(m)' = IF m = n THEN Free(m) \ {o} ELSE Free(m)
  BY <1>5 DEF Free
<1>6. ASSUME NEW m \in Node, NEW b \in Object[m] PROVE conn[m][b] # c
  <2>1. Tied(m, b) /\ b # None
    BY NoneAssumption DEF LifeInv, Life
  <2> QED
    BY <2>1, <1>0, <1>2 DEF Tied
<1>7. ASSUME NEW m \in Node, NEW b \in Object[m]
      PROVE  /\ Senders(m, b)' = Senders(m, b)
             /\ Markers(m, b)' = Markers(m, b)
             /\ Holders(m, b)' = Holders(m, b)
  <2>1. ASSUME NEW S \in SUBSET Stages PROVE Closers(S, m, b)' = Closers(S, m, b)
    <3>1. ASSUME NEW d \in Conn PROVE ReaderAt(S, d, m, b)' <=> ReaderAt(S, d, m, b)
      BY <1>1, <1>2, <1>4 DEF ReaderAt, Stages
    <3>2. (LoopAt(S, m, b)' <=> LoopAt(S, m, b)) /\ (KickerAt(S, m, b)' <=> KickerAt(S, m, b))
      BY <1>1 DEF LoopAt, KickerAt
    <3> QED
      BY <3>1, <3>2 DEF Closers
  <2>2. {"marking"} \in SUBSET Stages /\ {"sending", "send"} \in SUBSET Stages
    BY DEF Stages
  <2> QED
    BY <2>1, <2>2 DEF Senders, Markers, Holders
<1>8. ASSUME NEW m \in Node, NEW b \in Object[m] PROVE Life(m, b)'
  <2>0. Place(m, b) /\ Tied(m, b) /\ Locked(m, b)
    BY DEF LifeInv, Life
  <2>2. CASE m = n /\ b = o
    <3>1. /\ b \notin Free(m)' /\ conn'[m][b] = c /\ closed'[m][b] = FALSE /\ pool'[m][b] = 0
          /\ Senders(m, b)' = {} /\ Holders(m, b)' = {} /\ Markers(m, b)' = {}
      BY <2>2, <1>f, <1>5, <1>7, <1>h
    <3>2. o \notin ToSet(unregisterChan[n])
      BY <1>1 DEF Place
    <3>3. Place(m, b)'
      BY <3>1, <3>2, <2>2, <1>0, <1>1 DEF Place
    <3>4. Tied(m, b)'
      BY <3>1, <2>2, <1>0, <1>4 DEF Tied, n
    <3>5. Locked(m, b)'
      BY <3>1 DEF Locked
    <3> QED
      BY <3>3, <3>4, <3>5 DEF Life
  <2>3. CASE ~ (m = n /\ b = o)
    <3>1. /\ b \in Free(m)' <=> b \in Free(m)
          /\ conn'[m][b] = conn[m][b] /\ closed'[m][b] = closed[m][b] /\ pool'[m][b] = pool[m][b]
      BY <2>3, <1>f, <1>5
    <3>2. Place(m, b)'
      BY <3>1, <2>0, <1>1, <1>7 DEF Place
    <3>3. conn[m][b] # None => conn[m][b] \in Conn
      BY DEF TypeOK, ObjectTypes
    <3>4. Tied(m, b)'
      BY <3>1, <3>3, <2>0, <1>4, <1>6 DEF Tied, Place
    <3>5. Locked(m, b)'
      BY <3>1, <2>0, <1>1, <1>7 DEF Locked
    <3> QED
      BY <3>2, <3>4, <3>5 DEF Life
  <2> QED
    BY <2>2, <2>3
<1>9. ASSUME NEW d \in Conn PROVE Held(d)'
  <2>1. CASE d = c
    <3>1. NodeOf[d] = n
      BY <2>1 DEF n
    <3>2. object'[d] = o /\ o # None /\ o \notin Free(n)'
      BY <2>1, <1>0, <1>f, <1>4, NoneAssumption
    <3>3. conn'[n][o] = d /\ ~closed'[n][o]
      BY <2>1, <1>0, <1>5
    <3> QED
      BY <3>1, <3>2, <3>3 DEF Held
  <2>2. CASE d # c
    <3>1. SUFFICES ASSUME socket[d] = "open" PROVE Held(d)'
      <4>1. socket'[d] = socket[d]
        BY <2>2, <1>4
      <4> QED
        BY <4>1 DEF Held
    <3>2. /\ object[d] # None /\ object[d] \notin Free(NodeOf[d])
          /\ conn[NodeOf[d]][object[d]] = d /\ ~closed[NodeOf[d]][object[d]]
      BY <3>1 DEF LifeInv, Held
    <3>3. NodeOf[d] \in Node /\ object[d] \in Object[NodeOf[d]]
      BY <3>2, ConnAssumption DEF TypeOK, ConnTypes, Used
    <3>4. ~ (NodeOf[d] = n /\ object[d] = o)
      BY <3>2, <1>1
    <3>5. object'[d] = object[d] /\ object[d] \notin Free(NodeOf[d])'
      BY <2>2, <3>2, <3>3, <1>f, <1>4
    <3>6. conn'[NodeOf[d]][object[d]] = d /\ ~closed'[NodeOf[d]][object[d]]
      BY <3>2, <3>3, <3>4, <1>5
    <3> QED
      BY <3>2, <3>5, <3>6 DEF Held
  <2> QED
    BY <2>1, <2>2
<1>10. LifeInv'
  BY <1>1, <1>8, <1>9 DEF LifeInv
<1> QED
  BY <1>10, <1>f DEF n

\* The event loop puts an object back into the pool.
LEMMA LifeUnregister ==
  ASSUME TypeOK, LifeInv, NEW n \in Node, UnregisterClient(n)
  PROVE  /\ LifeInv' /\ Head(unregisterChan[n]) \in Object[n] \ Free(n)
         /\ \A m \in Node : Free(m)' = IF m = n THEN Free(m) \cup {Head(unregisterChan[n])}
                                                ELSE Free(m)
<1> DEFINE o == Head(unregisterChan[n])
           t == Tail(unregisterChan[n])
<1>1. /\ unregisterChan[n] # << >> /\ unregisterChan[n] \in Seq(Used(n))
      /\ UNCHANGED <<handler, object, reader, conn, closed, locker, socket, loop, kicker>>
      /\ IsInjective(unregisterChan[n])
  BY DEF UnregisterClient, connVars, clientVars, TypeOK, ChanTypes, LifeInv
<1>2. /\ \A m \in Node : pool'[m] = IF m = n THEN [pool[m] EXCEPT ![o] = @ + 1] ELSE pool[m]
      /\ \A m \in Node : unregisterChan'[m] = IF m = n THEN t ELSE unregisterChan[m]
  BY DEF UnregisterClient, TypeOK, Domains
<1>d. \A m \in Node : DOMAIN pool[m] = Object[m]
  BY DEF TypeOK, ObjectTypes
<1>3. /\ o \in Used(n) /\ ToSet(unregisterChan[n]) = {o} \cup ToSet(t)
      /\ IsInjective(t) /\ o \notin ToSet(t)
  BY <1>1, SeqHead
<1> HIDE DEF o, t
<1>4. /\ o \in Object[n] /\ Place(n, o) /\ closed[n][o] /\ Senders(n, o) = {} /\ o \notin Free(n)
      /\ pool[n][o] = 0
  <2>1. o \in Object[n]
    BY <1>3 DEF Used
  <2>2. Place(n, o)
    BY <2>1 DEF LifeInv, Life
  <2> QED
    BY <2>1, <2>2, <1>3 DEF Place, Free
<1>p. \A m \in Node : \A b \in Object[m] :
        pool'[m][b] = IF m = n /\ b = o THEN 1 ELSE pool[m][b]
  <2>1. pool'[n] = [pool[n] EXCEPT ![o] = 1]
    <3>1. pool'[n] = [pool[n] EXCEPT ![o] = pool[n][o] + 1] /\ pool[n][o] + 1 = 1
      BY <1>2, <1>4
    <3> QED
      BY <3>1
  <2>2. ASSUME NEW m \in Node, NEW b \in Object[m]
        PROVE  pool'[m][b] = IF m = n /\ b = o THEN 1 ELSE pool[m][b]
    <3>1. m # n => pool'[m] = pool[m]
      BY <1>2
    <3>2. m = n => pool'[m][b] = IF b = o THEN 1 ELSE pool[m][b]
      BY <2>1, <1>d
    <3> QED
      BY <3>1, <3>2
  <2> QED
    BY <2>2
<1>f. \A m \in Node : Free(m)' = IF m = n THEN Free(m) \cup {o} ELSE Free(m)
  BY <1>p, <1>4 DEF Free
<1>5. \A m \in Node : IsInjective(unregisterChan'[m])
        /\ ToSet(unregisterChan'[m]) = IF m = n THEN ToSet(unregisterChan[m]) \ {o}
                                                ELSE ToSet(unregisterChan[m])
  BY <1>2, <1>3 DEF LifeInv
<1>6. ASSUME NEW m \in Node, NEW b \in Object[m]
      PROVE  /\ Senders(m, b)' = Senders(m, b)
             /\ Markers(m, b)' = Markers(m, b)
             /\ Holders(m, b)' = Holders(m, b)
  BY <1>1 DEF Senders, Markers, Holders, Closers, ReaderAt, LoopAt, KickerAt
<1>7. ASSUME NEW m \in Node, NEW b \in Object[m] PROVE Life(m, b)'
  <2>0. Place(m, b) /\ Tied(m, b) /\ Locked(m, b)
    BY DEF LifeInv, Life
  <2>1. Place(m, b)'
    <3>1. CASE m = n /\ b = o
      BY <3>1, <2>0, <1>1, <1>4, <1>5, <1>6, <1>p, <1>f DEF Place
    <3>2. CASE ~ (m = n /\ b = o)
      BY <3>2, <2>0, <1>1, <1>5, <1>6, <1>p, <1>f DEF Place
    <3> QED
      BY <3>1, <3>2
  <2>2. Tied(m, b)'
    BY <2>0, <1>1, <1>f, <1>4 DEF Tied
  <2>3. Locked(m, b)'
    BY <2>0, <1>1, <1>6 DEF Locked
  <2> QED
    BY <2>1, <2>2, <2>3 DEF Life
<1>8. ASSUME NEW d \in Conn PROVE Held(d)'
  <2>1. SUFFICES ASSUME socket[d] = "open" PROVE Held(d)'
    BY <1>1 DEF Held
  <2>2. /\ object[d] # None /\ object[d] \notin Free(NodeOf[d])
        /\ conn[NodeOf[d]][object[d]] = d /\ ~closed[NodeOf[d]][object[d]]
    BY <2>1 DEF LifeInv, Held
  <2>3. NodeOf[d] \in Node
    BY ConnAssumption
  <2>4. object[d] \notin Free(NodeOf[d])'
    BY <2>2, <2>3, <1>f, <1>4
  <2> QED
    BY <2>2, <2>4, <1>1 DEF Held
<1>9. LifeInv'
  BY <1>5, <1>7, <1>8 DEF LifeInv
<1> QED
  BY <1>4, <1>9, <1>f DEF o

\* What the steps of the three kinds of goroutines do to those sets.
LEMMA SameClosers ==
  ASSUME NEW S, NEW n \in Node, NEW o,
         \A c \in Conn : ReaderAt(S, c, n, o)' <=> ReaderAt(S, c, n, o),
         LoopAt(S, n, o)' <=> LoopAt(S, n, o), KickerAt(S, n, o)' <=> KickerAt(S, n, o)
  PROVE  Closers(S, n, o)' = Closers(S, n, o)
BY DEF Closers

LEMMA ReaderGoes ==
  ASSUME NEW c \in Conn, NEW q, UNCHANGED <<object, loop, kicker>>, DOMAIN reader = Conn,
         reader' = [reader EXCEPT ![c] = q]
  PROVE  Goes(<<"reader", c>>, NodeOf[c], object[c], reader[c], q)
<1> SUFFICES ASSUME NEW S \in SUBSET Stages, NEW m \in Node, NEW b \in Object[m]
    PROVE  /\ Closers(S, m, b)' = (Closers(S, m, b) \ {<<"reader", c>>}) \cup
                (IF q \in S /\ m = NodeOf[c] /\ b = object[c] THEN {<<"reader", c>>} ELSE {})
           /\ <<"reader", c>> \in Closers(S, m, b)
                <=> reader[c] \in S /\ m = NodeOf[c] /\ b = object[c]
  BY DEF Goes
<1>1. ASSUME NEW d \in Conn
      PROVE  ReaderAt(S, d, m, b)' <=> \/ d # c /\ ReaderAt(S, d, m, b)
                                       \/ d = c /\ q \in S /\ m = NodeOf[c] /\ b = object[c]
  BY DEF ReaderAt
<1>2. (LoopAt(S, m, b)' <=> LoopAt(S, m, b)) /\ (KickerAt(S, m, b)' <=> KickerAt(S, m, b))
  BY DEF LoopAt, KickerAt
<1>3. ReaderAt(S, c, m, b) <=> reader[c] \in S /\ m = NodeOf[c] /\ b = object[c]
  BY DEF ReaderAt
<1> QED
  BY <1>1, <1>2, <1>3 DEF Closers

LEMMA LoopGoes ==
  ASSUME NEW n \in Node, NEW q, UNCHANGED <<object, reader, kicker>>,
         \A k \in Node \ {n} : loop'[k] = loop[k],
         loop'[n].at = q, q \in Stages => loop'[n].kicks = loop[n].kicks
  PROVE  Goes(<<"loop", n>>, n, Head(loop[n].kicks), loop[n].at, q)
<1> SUFFICES ASSUME NEW S \in SUBSET Stages, NEW m \in Node, NEW b \in Object[m]
    PROVE  /\ Closers(S, m, b)' = (Closers(S, m, b) \ {<<"loop", n>>}) \cup
                (IF q \in S /\ m = n /\ b = Head(loop[n].kicks) THEN {<<"loop", n>>} ELSE {})
           /\ <<"loop", n>> \in Closers(S, m, b)
                <=> loop[n].at \in S /\ m = n /\ b = Head(loop[n].kicks)
  BY DEF Goes
<1>1. /\ m # n => (LoopAt(S, m, b)' <=> LoopAt(S, m, b))
      /\ m = n => (LoopAt(S, m, b)' <=> q \in S /\ b = Head(loop[n].kicks))
  BY DEF LoopAt
<1>2. /\ \A d \in Conn : ReaderAt(S, d, m, b)' <=> ReaderAt(S, d, m, b)
      /\ KickerAt(S, m, b)' <=> KickerAt(S, m, b)
  BY DEF ReaderAt, KickerAt
<1>3. m = n => (LoopAt(S, m, b) <=> loop[n].at \in S /\ b = Head(loop[n].kicks))
  BY DEF LoopAt
<1> QED
  BY <1>1, <1>2, <1>3 DEF Closers

LEMMA KickerGoes ==
  ASSUME NEW n \in Node, NEW q, UNCHANGED <<object, reader, loop>>,
         \A k \in Node \ {n} : kicker'[k] = kicker[k],
         kicker'[n].at = q, q \in Stages => kicker'[n].old = kicker[n].old
  PROVE  Goes(<<"kicker", n>>, n, Head(kicker[n].old), kicker[n].at, q)
<1> SUFFICES ASSUME NEW S \in SUBSET Stages, NEW m \in Node, NEW b \in Object[m]
    PROVE  /\ Closers(S, m, b)' = (Closers(S, m, b) \ {<<"kicker", n>>}) \cup
                (IF q \in S /\ m = n /\ b = Head(kicker[n].old) THEN {<<"kicker", n>>} ELSE {})
           /\ <<"kicker", n>> \in Closers(S, m, b)
                <=> kicker[n].at \in S /\ m = n /\ b = Head(kicker[n].old)
  BY DEF Goes
<1>1. /\ m # n => (KickerAt(S, m, b)' <=> KickerAt(S, m, b))
      /\ m = n => (KickerAt(S, m, b)' <=> q \in S /\ b = Head(kicker[n].old))
  BY DEF KickerAt
<1>2. /\ \A d \in Conn : ReaderAt(S, d, m, b)' <=> ReaderAt(S, d, m, b)
      /\ LoopAt(S, m, b)' <=> LoopAt(S, m, b)
  BY DEF ReaderAt, LoopAt
<1>3. m = n => (KickerAt(S, m, b) <=> kicker[n].at \in S /\ b = Head(kicker[n].old))
  BY DEF KickerAt
<1> QED
  BY <1>1, <1>2, <1>3 DEF Closers

\* The loop and the kicker, as far as close() goes.
LEMMA AtWork ==
  ASSUME TypeOK, NEW n \in Node
  PROVE  /\ loop[n] \in LoopState(n) /\ kicker[n] \in KickerState(n)
         /\ loop[n].at \in {"locked", "marking", "send"} => loop[n].kicks # << >>
         /\ loop[n].kicks # << >> => Head(loop[n].kicks) \in Used(n)
         /\ kicker[n].at # "idle" => kicker[n].old # << >> /\ Head(kicker[n].old) \in Used(n)
<1>1. loop[n] \in LoopState(n) /\ loop[n].kicks \in Seq(Used(n))
      /\ (loop[n].at \in {"locked", "marking", "send"} => loop[n].kicks # << >>)
  BY DEF TypeOK, LoopTypes, LoopState
<1>2. kicker[n] \in KickerState(n) /\ kicker[n].old \in Seq(Used(n))
      /\ (kicker[n].at # "idle" => kicker[n].old # << >>)
  BY DEF TypeOK, KickerTypes, KickerState
<1> QED
  BY <1>1, <1>2, SeqHead

\* The steps of wsHandler and of a reader.
LEMMA LifeConn ==
  ASSUME LockKept, TypeOK, LifeInv, NEW c \in Conn, Handler(c) \/ Reader(c)
  PROVE  LifeInv'
<1> DEFINE n == NodeOf[c]
           o == object[c]
           a == <<"reader", c>>
<1>0. n \in Node /\ DOMAIN reader = Conn /\ DOMAIN handler = Conn /\ a \in Goroutine
  BY ConnAssumption DEF TypeOK, ConnTypes, Goroutine
<1>u. reader[c] # "none" => o \in Used(n) /\ o \in Object[n]
  BY DEF TypeOK, ConnTypes, Used
<1>s. \A p \in {"locked", "marking", "sending", "send"} : p \in Stages
  BY DEF Stages
<1>t. \A p \in {"none", "reading", "closing", "done"} : p \notin Stages
  BY DEF Stages
<1>1. CASE Admit(c) \/ SendRegister(c) \/ ReadFails(c)
  <2>1. UNCHANGED <<object, loop, kicker, pool, conn, closed, locker, socket, unregisterChan>>
    BY <1>1 DEF Admit, SendRegister, ReadFails, clientVars, chanVars
  <2>2. ASSUME NEW S \in SUBSET Stages, NEW d \in Conn PROVE reader'[d] \in S <=> reader[d] \in S
    <3>1. reader'[d] = reader[d] \/ (reader'[d] \notin Stages /\ reader[d] \notin Stages)
      BY <1>1, <1>0, <1>t DEF Admit, SendRegister, ReadFails, TypeOK, ConnTypes
    <3> QED
      BY <3>1
  <2>3. ASSUME NEW S \in SUBSET Stages, NEW m \in Node, NEW b \in Object[m]
        PROVE  Closers(S, m, b)' = Closers(S, m, b)
    <3>1. ASSUME NEW d \in Conn PROVE ReaderAt(S, d, m, b)' <=> ReaderAt(S, d, m, b)
      BY <2>1, <2>2 DEF ReaderAt
    <3>2. (LoopAt(S, m, b)' <=> LoopAt(S, m, b)) /\ (KickerAt(S, m, b)' <=> KickerAt(S, m, b))
      BY <2>1 DEF LoopAt, KickerAt
    <3> QED
      BY <3>1, <3>2, SameClosers
  <2> QED
    BY <2>1, <2>3, LifeSame
<1>2. ASSUME NEW b \in Object[NodeOf[c]], ResetClient(c, b) PROVE LifeInv'
  BY <1>2, LifeReset
<1>3. CASE ReaderLocks(c)
  <2>1. /\ reader[c] = "closing" /\ reader' = [reader EXCEPT ![c] = "locked"] /\ Lock(a, n, o)
        /\ UNCHANGED <<object, loop, kicker, pool, unregisterChan>>
    BY <1>3 DEF ReaderLocks, chanVars
  <2>2. Goes(a, n, o, "closing", "locked") /\ o \in Used(n)
    BY <2>1, <1>0, <1>u, ReaderGoes
  <2> HIDE DEF n, o, a
  <2> QED
    BY <2>1, <2>2, <1>0, <1>t, LifeLock
<1>4. CASE ReaderTests(c)
  <2>1. /\ reader[c] = "locked"
        /\ UNCHANGED <<object, loop, kicker, pool, unregisterChan, conn, closed, socket>>
    BY <1>4 DEF ReaderTests, chanVars
  <2>2. CASE closed[n][o] /\ reader' = [reader EXCEPT ![c] = "done"] /\ Unlock(a)
    <3>1. Goes(a, n, o, "locked", "done") /\ o \in Object[n]
      BY <2>1, <2>2, <1>0, <1>u, ReaderGoes
    <3> HIDE DEF n, o, a
    <3> QED
      BY <2>1, <2>2, <3>1, <1>0, <1>t, LifeDrop
  <2>3. CASE ~closed[n][o] /\ reader' = [reader EXCEPT ![c] = "marking"] /\ UNCHANGED locker
    <3>1. Goes(a, n, o, "locked", "marking") /\ o \in Object[n]
      BY <2>1, <2>3, <1>0, <1>u, ReaderGoes
    <3> HIDE DEF n, o, a
    <3> QED
      BY <2>1, <2>3, <3>1, <1>0, LifeTest
  <2> QED
    BY <2>2, <2>3, <1>4 DEF ReaderTests
<1>5. CASE ReaderMarks(c)
  <2>1. /\ reader[c] = "marking" /\ reader' = [reader EXCEPT ![c] = "sending"] /\ MarkClosed(n, o)
        /\ UNCHANGED <<object, loop, kicker, pool, unregisterChan>>
    BY <1>5 DEF ReaderMarks, chanVars
  <2>2. Goes(a, n, o, "marking", "sending") /\ o \in Used(n)
    BY <2>1, <1>0, <1>u, ReaderGoes
  <2> HIDE DEF n, o, a
  <2> QED
    BY <2>1, <2>2, <1>0, LifeMark
<1>6. CASE ReaderSends(c)
  <2>1. /\ reader[c] = "sending" /\ reader' = [reader EXCEPT ![c] = "done"]
        /\ SendUnregister(a, n, o) /\ UNCHANGED <<object, loop, kicker, pool>>
    BY <1>6 DEF ReaderSends
  <2>2. Goes(a, n, o, "sending", "done") /\ o \in Used(n)
    BY <2>1, <1>0, <1>u, ReaderGoes
  <2> HIDE DEF n, o, a
  <2> QED
    BY <2>1, <2>2, <1>0, <1>t, LifeSend
<1> QED
  BY <1>1, <1>2, <1>3, <1>4, <1>5, <1>6 DEF Handler, Reader, ReaderCloses

\* The steps of the event loop.
LEMMA LifeLoop ==
  ASSUME TypeOK, LifeInv, NEW n \in Node, EventLoop(n)
  PROVE  LifeInv'
<1> DEFINE l == loop[n]
           o == Head(loop[n].kicks)
           a == <<"loop", n>>
<1>0. DOMAIN loop = Node /\ a \in Goroutine /\ l \in LoopState(n)
      /\ (l.at \in {"locked", "marking", "send"} => l.kicks # << >>)
      /\ (l.kicks # << >> => o \in Used(n) /\ o \in Object[n])
  BY AtWork DEF TypeOK, Domains, Goroutine, Used
<1>t. \A p \in {"select", "kick", "notify"} : p \notin Stages
  BY DEF Stages
<1>m. ASSUME NEW q \in {"locked", "marking", "send"}, loop' = [loop EXCEPT ![n].at = q],
             UNCHANGED <<object, reader, kicker>>
      PROVE  Goes(a, n, o, loop[n].at, q)
  <2>1. (\A k \in Node \ {n} : loop'[k] = loop[k]) /\ loop'[n] = [l EXCEPT !.at = q]
    BY <1>m, <1>0
  <2>2. loop'[n].at = q /\ loop'[n].kicks = l.kicks
    <3> HIDE DEF l
    <3> QED
      BY <2>1, <1>0 DEF LoopState
  <2> QED
    BY <2>1, <2>2, <1>m, LoopGoes
<1>k. ASSUME loop' = [loop EXCEPT ![n].at = "kick", ![n].kicks = Tail(@)],
             UNCHANGED <<object, reader, kicker>>
      PROVE  Goes(a, n, o, loop[n].at, "kick")
  <2>0. loop' = [loop EXCEPT ![n] = [l EXCEPT !.at = "kick", !.kicks = Tail(l.kicks)]]
    BY <1>k
  <2>1. (\A k \in Node \ {n} : loop'[k] = loop[k])
        /\ loop'[n] = [l EXCEPT !.at = "kick", !.kicks = Tail(l.kicks)]
    BY <2>0, <1>0
  <2>2. loop'[n].at = "kick"
    <3> HIDE DEF l
    <3> QED
      BY <2>1, <1>0 DEF LoopState
  <2> QED
    BY <2>1, <2>2, <1>k, <1>t, LoopGoes
<1>1. CASE RegisterClient(n) \/ TakeKick(n) \/ KicksDone(n) \/ RegisterDone(n)
           \/ \E m \in Node : Notify(n, m)
  <2>1. UNCHANGED <<object, reader, kicker, pool, conn, closed, locker, socket, unregisterChan>>
    BY <1>1 DEF RegisterClient, TakeKick, KicksDone, RegisterDone, Notify, connVars, clientVars, chanVars
  <2>2. \A k \in Node \ {n} : loop'[k] = loop[k]
    BY <1>1, <1>0 DEF RegisterClient, TakeKick, KicksDone, RegisterDone, Notify
  <2>3. loop[n].at \notin Stages /\ loop'[n].at \notin Stages
    <3>1. CASE RegisterClient(n)
      BY <3>1, <1>0 DEF RegisterClient, Notifying, Stages
    <3>2. CASE TakeKick(n)
      BY <3>2, <1>0 DEF TakeKick, Stages
    <3>3. CASE KicksDone(n)
      BY <3>3, <1>0 DEF KicksDone, Notifying, Idle, Stages
    <3>4. CASE RegisterDone(n)
      BY <3>4, <1>0 DEF RegisterDone, Idle, Stages
    <3>5. ASSUME NEW m \in Node, Notify(n, m) PROVE loop[n].at \notin Stages /\ loop'[n].at \notin Stages
      <4>1. l.at = "notify" /\ loop'[n] = [l EXCEPT !.todo = @ \ {m}]
        BY <3>5, <1>0 DEF Notify
      <4>2. loop'[n].at = l.at
        <5> HIDE DEF l
        <5> QED
          BY <4>1, <1>0 DEF LoopState
      <4> QED
        BY <4>1, <4>2, <1>t
    <3> QED
      BY <1>1, <3>1, <3>2, <3>3, <3>4, <3>5
  <2>4. ASSUME NEW S \in SUBSET Stages, NEW m \in Node, NEW b \in Object[m]
        PROVE  Closers(S, m, b)' = Closers(S, m, b)
    <3>1. \A d \in Conn : ReaderAt(S, d, m, b)' <=> ReaderAt(S, d, m, b)
      BY <2>1 DEF ReaderAt
    <3>2. (LoopAt(S, m, b)' <=> LoopAt(S, m, b)) /\ (KickerAt(S, m, b)' <=> KickerAt(S, m, b))
      BY <2>1, <2>2, <2>3 DEF LoopAt, KickerAt
    <3> QED
      BY <3>1, <3>2, SameClosers
  <2> QED
    BY <2>1, <2>4, LifeSame
<1>2. CASE UnregisterClient(n)
  BY <1>2, LifeUnregister
<1>3. CASE LoopLocks(n)
  <2>1. /\ l.at = "kick" /\ l.kicks # << >> /\ loop' = [loop EXCEPT ![n].at = "locked"]
        /\ Lock(a, n, o) /\ UNCHANGED <<object, reader, kicker, pool, unregisterChan>>
    BY <1>3 DEF LoopLocks, connVars, chanVars
  <2>2. Goes(a, n, o, "kick", "locked") /\ o \in Used(n)
    BY <2>1, <1>0, <1>m
  <2> HIDE DEF o, a
  <2> QED
    BY <2>1, <2>2, <1>0, <1>t, LifeLock
<1>4. CASE LoopTests(n)
  <2>1. /\ l.at = "locked" /\ o \in Object[n]
        /\ UNCHANGED <<object, reader, kicker, pool, unregisterChan, conn, closed, socket>>
    BY <1>4, <1>0 DEF LoopTests, connVars, chanVars
  <2>2. CASE /\ closed[n][o] /\ loop' = [loop EXCEPT ![n].at = "kick", ![n].kicks = Tail(@)]
             /\ Unlock(a)
    <3>1. Goes(a, n, o, "locked", "kick")
      BY <2>1, <2>2, <1>k
    <3> HIDE DEF o, a
    <3> QED
      BY <2>1, <2>2, <3>1, <1>t, LifeDrop
  <2>3. CASE ~closed[n][o] /\ loop' = [loop EXCEPT ![n].at = "marking"] /\ UNCHANGED locker
    <3>1. Goes(a, n, o, "locked", "marking")
      BY <2>1, <2>3, <1>m
    <3> HIDE DEF o, a
    <3> QED
      BY <2>1, <2>3, <3>1, LifeTest
  <2> QED
    BY <2>2, <2>3, <1>4 DEF LoopTests
<1>5. CASE LoopMarks(n)
  <2>1. /\ l.at = "marking" /\ loop' = [loop EXCEPT ![n].at = "send"] /\ MarkClosed(n, o)
        /\ UNCHANGED <<object, reader, kicker, pool, unregisterChan>> /\ o \in Used(n)
    BY <1>5, <1>0 DEF LoopMarks, connVars, chanVars
  <2>2. Goes(a, n, o, "marking", "send")
    BY <2>1, <1>m
  <2> HIDE DEF o, a
  <2> QED
    BY <2>1, <2>2, LifeMark
<1>6. CASE LoopSends(n)
  <2>1. /\ l.at = "send" /\ loop' = [loop EXCEPT ![n].at = "kick", ![n].kicks = Tail(@)]
        /\ SendUnregister(a, n, o)
        /\ UNCHANGED <<object, reader, kicker, pool>> /\ o \in Used(n)
    BY <1>6, <1>0 DEF LoopSends, connVars
  <2>2. Goes(a, n, o, "send", "kick")
    BY <2>1, <1>k
  <2> HIDE DEF o, a
  <2> QED
    BY <2>1, <2>2, <1>t, LifeSend
<1> QED
  BY <1>1, <1>2, <1>3, <1>4, <1>5, <1>6 DEF EventLoop, LoopCloses

\* The steps of KickUserOffline.
LEMMA LifeKicker ==
  ASSUME TypeOK, LifeInv, NEW n \in Node,
         (\E u \in User, p \in Platform : KickUserOffline(n, u, p)) \/ Kicker(n)
  PROVE  LifeInv'
<1> DEFINE k == kicker[n]
           o == Head(kicker[n].old)
           a == <<"kicker", n>>
<1>0. DOMAIN kicker = Node /\ a \in Goroutine /\ k \in KickerState(n)
      /\ (k.at # "idle" => o \in Used(n) /\ o \in Object[n])
  BY AtWork DEF TypeOK, Domains, Goroutine, Used
<1>t. \A p \in {"idle", "kick", "close"} : p \notin Stages
  BY DEF Stages
<1>m. ASSUME NEW q, kicker' = [kicker EXCEPT ![n].at = q]
      PROVE  /\ \A m \in Node \ {n} : kicker'[m] = kicker[m]
             /\ kicker'[n].at = q /\ kicker'[n].old = k.old
  <2>1. (\A m \in Node \ {n} : kicker'[m] = kicker[m]) /\ kicker'[n] = [k EXCEPT !.at = q]
    BY <1>m, <1>0
  <2>2. kicker'[n].at = q /\ kicker'[n].old = k.old
    <3> HIDE DEF k
    <3> QED
      BY <2>1, <1>0 DEF KickerState
  <2> QED
    BY <2>1, <2>2
<1>k. ASSUME NextToKick(n)
      PROVE  /\ \A m \in Node \ {n} : kicker'[m] = kicker[m]
             /\ kicker'[n].at \in {"kick", "idle"}
  BY <1>k, <1>0 DEF NextToKick
<1>1. CASE KickerDeletes(n) \/ \E u \in User, p \in Platform : KickUserOffline(n, u, p)
  <2>1. UNCHANGED <<object, reader, loop, pool, conn, closed, locker, socket, unregisterChan>>
    BY <1>1 DEF KickerDeletes, KickUserOffline, connVars, clientVars, chanVars
  <2>2. (\A m \in Node \ {n} : kicker'[m] = kicker[m]) /\ k.at \notin Stages /\ kicker'[n].at \notin Stages
    <3>1. CASE KickerDeletes(n)
      <4>1. k.at = "kick" /\ kicker' = [kicker EXCEPT ![n].at = "close"]
        BY <3>1 DEF KickerDeletes
      <4> QED
        BY <4>1, <1>m, <1>t
    <3>2. ASSUME NEW u \in User, NEW p \in Platform, KickUserOffline(n, u, p)
          PROVE  /\ \A m \in Node \ {n} : kicker'[m] = kicker[m]
                 /\ k.at \notin Stages /\ kicker'[n].at \notin Stages
      BY <3>2, <1>0, <1>t DEF KickUserOffline
    <3> QED
      BY <1>1, <3>1, <3>2
  <2>3. ASSUME NEW S \in SUBSET Stages, NEW m \in Node, NEW b \in Object[m]
        PROVE  Closers(S, m, b)' = Closers(S, m, b)
    <3>1. \A d \in Conn : ReaderAt(S, d, m, b)' <=> ReaderAt(S, d, m, b)
      BY <2>1 DEF ReaderAt
    <3>2. (LoopAt(S, m, b)' <=> LoopAt(S, m, b)) /\ (KickerAt(S, m, b)' <=> KickerAt(S, m, b))
      BY <2>1, <2>2 DEF LoopAt, KickerAt
    <3> QED
      BY <3>1, <3>2, SameClosers
  <2> QED
    BY <2>1, <2>3, LifeSame
<1>2. CASE KickerLocks(n)
  <2>1. /\ k.at = "close" /\ kicker' = [kicker EXCEPT ![n].at = "locked"] /\ Lock(a, n, o)
        /\ UNCHANGED <<object, reader, loop, pool, unregisterChan>> /\ o \in Used(n)
    BY <1>2, <1>0 DEF KickerLocks, connVars, chanVars
  <2>2. Goes(a, n, o, "close", "locked")
    BY <2>1, <1>m, KickerGoes
  <2> HIDE DEF o, a
  <2> QED
    BY <2>1, <2>2, <1>0, <1>t, LifeLock
<1>3. CASE KickerTests(n)
  <2>1. /\ k.at = "locked" /\ o \in Object[n]
        /\ UNCHANGED <<object, reader, loop, pool, unregisterChan, conn, closed, socket>>
    BY <1>3, <1>0 DEF KickerTests, connVars, chanVars
  <2>2. CASE closed[n][o] /\ NextToKick(n) /\ Unlock(a)
    <3> DEFINE q == kicker'[n].at
    <3>1. Goes(a, n, o, "locked", q) /\ q \notin Stages
      <4>1. q \notin Stages /\ \A m \in Node \ {n} : kicker'[m] = kicker[m]
        BY <2>2, <1>k, <1>t
      <4> QED
        BY <4>1, <2>1, KickerGoes
    <3> HIDE DEF o, a, q
    <3> QED
      BY <2>1, <2>2, <3>1, LifeDrop
  <2>3. CASE ~closed[n][o] /\ kicker' = [kicker EXCEPT ![n].at = "marking"] /\ UNCHANGED locker
    <3>1. Goes(a, n, o, "locked", "marking")
      BY <2>1, <2>3, <1>m, KickerGoes
    <3> HIDE DEF o, a
    <3> QED
      BY <2>1, <2>3, <3>1, LifeTest
  <2> QED
    BY <2>2, <2>3, <1>3 DEF KickerTests
<1>4. CASE KickerMarks(n)
  <2>1. /\ k.at = "marking" /\ kicker' = [kicker EXCEPT ![n].at = "send"] /\ MarkClosed(n, o)
        /\ UNCHANGED <<object, reader, loop, pool, unregisterChan>> /\ o \in Used(n)
    BY <1>4, <1>0 DEF KickerMarks, connVars, chanVars
  <2>2. Goes(a, n, o, "marking", "send")
    BY <2>1, <1>m, KickerGoes
  <2> HIDE DEF o, a
  <2> QED
    BY <2>1, <2>2, LifeMark
<1>5. CASE KickerSends(n)
  <2> DEFINE q == kicker'[n].at
  <2>1. /\ k.at = "send" /\ NextToKick(n) /\ SendUnregister(a, n, o)
        /\ UNCHANGED <<object, reader, loop, pool>> /\ o \in Used(n)
    BY <1>5, <1>0 DEF KickerSends, connVars
  <2>2. Goes(a, n, o, "send", q) /\ q \notin Stages
    <3>1. q \notin Stages /\ \A m \in Node \ {n} : kicker'[m] = kicker[m]
      BY <2>1, <1>k, <1>t
    <3> QED
      BY <3>1, <2>1, KickerGoes
  <2> HIDE DEF o, a, q
  <2> QED
    BY <2>1, <2>2, LifeSend
<1> QED
  BY <1>1, <1>2, <1>3, <1>4, <1>5 DEF Kicker, KickerCloses

LEMMA LifeStep ==
  ASSUME LockKept, TypeOK, LifeInv, [Next]_vars
  PROVE  LifeInv'
<1>1. CASE UNCHANGED vars
  <2>1. UNCHANGED <<object, reader, loop, kicker, pool, conn, closed, locker, socket, unregisterChan>>
    BY <1>1 DEF vars, connVars, clientVars, chanVars
  <2>2. \A S \in SUBSET Stages : \A n \in Node : \A o \in Object[n] : Closers(S, n, o)' = Closers(S, n, o)
    BY <2>1 DEF Closers, ReaderAt, LoopAt, KickerAt
  <2> QED
    BY <2>1, <2>2, LifeSame
<1>2. CASE Next
  BY <1>2, LifeConn, LifeLoop, LifeKicker DEF Next
<1> QED
  BY <1>1, <1>2

\* An open connection has a client object of its own, that is not in the pool,
\* provided no object is reset while it is being closed.  It holds whatever
\* order the loop takes its channels in.
THEOREM OpenConnections == Spec => [](LockKept => Associated)
<1>1. Spec => [](TypeOK /\ (LockKept => LifeInv))
  <2>1. TypeOK /\ (LockKept => LifeInv) /\ [Next]_vars => (LockKept => LifeInv)'
    BY LifeStep
  <2>2. Init => (LockKept => LifeInv)
    BY InitLife
  <2> QED
    BY <2>1, <2>2, TypeCorrect, PTL DEF Spec
<1>2. TypeOK /\ (LockKept => LifeInv) => (LockKept => Associated)
  <2> SUFFICES ASSUME TypeOK, LifeInv, NEW c \in Conn, socket[c] = "open"
      PROVE  conn[NodeOf[c]][object[c]] = c /\ pool[NodeOf[c]][object[c]] = 0
    BY DEF Associated
  <2>1. /\ object[c] # None /\ object[c] \notin Free(NodeOf[c])
        /\ conn[NodeOf[c]][object[c]] = c
    BY DEF LifeInv, Held
  <2>2. object[c] \in Object[NodeOf[c]]
    BY <2>1 DEF TypeOK, ConnTypes, Used
  <2> QED
    BY <2>1, <2>2 DEF Free
<1> QED
  BY <1>1, <1>2, PTL

-----------------------------------------------------------------------------
(* The steps of close(), and who is about to be closed.                    *)

\* The event loop closes the victims of a login.
Kicking == {"kick", "locked", "marking", "send"}

\* The clients that the loop or the kicker has still to close.
Doomed(n) ==
  ToSet(loop[n].kicks) \cup
    (IF kicker[n].at \in {"close", "locked", "marking"} THEN {Head(kicker[n].old)} ELSE {})

\* Whoever closes a client, none that was closed is open again.
LEMMA ClosedGrows ==
  ASSUME TypeOK, NEW n \in Node, NEW m \in Node, NEW o, UNCHANGED closed \/ MarkClosed(n, o)
  PROVE  /\ \A b \in Object[m] : closed[m][b] => closed'[m][b]
         /\ MarkClosed(n, o) /\ o \in Object[n] => closed'[n][o]
         /\ m # n => closed'[m] = closed[m]
<1>1. MarkClosed(n, o) =>
        closed'[n] = [closed[n] EXCEPT ![o] = TRUE] /\ (m # n => closed'[m] = closed[m])
  BY DEF MarkClosed, TypeOK, Domains
<1>2. DOMAIN closed[n] = Object[n]
  BY DEF TypeOK, ObjectTypes
<1> QED
  BY <1>1, <1>2

LEMMA ReaderClosing ==
  ASSUME TypeOK, NEW c \in Conn, ReaderCloses(c)
  PROVE  /\ UNCHANGED <<handler, object, conn, pool, registerChan, kickChan, clients, userNum, connNum,
                        loop, kicker>>
         /\ UNCHANGED <<closed, socket>> \/ MarkClosed(NodeOf[c], object[c])
<1>1. UNCHANGED <<handler, object, conn, pool, registerChan, kickChan, clients, userNum, connNum,
                  loop, kicker>>
  BY DEF ReaderCloses, ReaderLocks, ReaderTests, ReaderMarks, ReaderSends, Lock, MarkClosed,
         SendUnregister, chanVars, mapVars
<1>2. UNCHANGED <<closed, socket>> \/ MarkClosed(NodeOf[c], object[c])
  BY DEF ReaderCloses, ReaderLocks, ReaderTests, ReaderMarks, ReaderSends, Lock, SendUnregister
<1> QED
  BY <1>1, <1>2

\* The loop drops a victim from its list only when it is closed.
LEMMA LoopClosing ==
  ASSUME TypeOK, LifeInv, NEW n \in Node, LoopCloses(n)
  PROVE  /\ UNCHANGED <<handler, object, conn, pool, registerChan, kickChan, clients, userNum, connNum,
                        kicker>>
         /\ UNCHANGED <<closed, socket>> \/ MarkClosed(n, Head(loop[n].kicks))
         /\ loop[n].at \in Kicking /\ loop'[n].at \in Kicking /\ loop'[n].new = loop[n].new
         /\ \A m \in Node \ {n} : loop'[m] = loop[m]
         /\ \A b \in Doomed(n) : b \in Doomed(n)' \/ closed'[n][b]
<1> DEFINE l == loop[n]
           o == Head(loop[n].kicks)
           t == Tail(loop[n].kicks)
<1>0. DOMAIN loop = Node /\ l \in LoopState(n) /\ l.kicks \in Seq(Used(n))
      /\ (l.at \in {"locked", "marking", "send"} => l.kicks # << >>)
  BY AtWork DEF TypeOK, Domains, LoopState
<1>1. UNCHANGED <<handler, object, conn, pool, registerChan, kickChan, clients, userNum, connNum, kicker>>
  BY DEF LoopCloses, LoopLocks, LoopTests, LoopMarks, LoopSends, Lock, MarkClosed, SendUnregister,
         connVars, chanVars, mapVars
<1>2. UNCHANGED <<closed, socket>> \/ MarkClosed(n, o)
  BY DEF LoopCloses, LoopLocks, LoopTests, LoopMarks, LoopSends, Lock, SendUnregister
<1>3. l.at \in Kicking /\ l.kicks # << >>
  BY <1>0 DEF LoopCloses, LoopLocks, LoopTests, LoopMarks, LoopSends, Kicking
<1>4. o \in Used(n) /\ o \in Object[n] /\ ToSet(l.kicks) = {o} \cup ToSet(t)
  BY <1>0, <1>3, SeqHead DEF Used
<1>5. \A m \in Node \ {n} : loop'[m] = loop[m]
  BY <1>0 DEF LoopCloses, LoopLocks, LoopTests, LoopMarks, LoopSends
<1>6. \/ \E q \in Kicking : loop'[n] = [l EXCEPT !.at = q]
      \/ loop'[n] = [l EXCEPT !.at = "kick", !.kicks = t] /\ closed'[n][o]
  <2>1. CASE LoopLocks(n)
    BY <1>0, <2>1 DEF LoopLocks, Kicking
  <2>2. CASE LoopTests(n)
    <3>1. CASE closed[n][o]
      <4>1. /\ loop' = [loop EXCEPT ![n] = [l EXCEPT !.at = "kick", !.kicks = t]] /\ UNCHANGED closed
        BY <2>2, <3>1 DEF LoopTests
      <4> HIDE DEF o, t
      <4> QED
        BY <1>0, <3>1, <4>1
    <3>2. CASE ~closed[n][o]
      BY <1>0, <2>2, <3>2 DEF LoopTests, Kicking
    <3> QED
      BY <3>1, <3>2
  <2>3. CASE LoopMarks(n)
    BY <1>0, <2>3 DEF LoopMarks, Kicking
  <2>4. CASE LoopSends(n)
    <3>1. /\ l.at = "send" /\ UNCHANGED closed
          /\ loop' = [loop EXCEPT ![n] = [l EXCEPT !.at = "kick", !.kicks = t]]
      BY <2>4 DEF LoopSends, SendUnregister
    <3>2. closed[n][o]
      <4>1. <<"loop", n>> \in Senders(n, o)
        BY <3>1 DEF Senders, Closers, LoopAt
      <4>2. Place(n, o)
        BY <1>4 DEF LifeInv, Life
      <4> QED
        BY <4>1, <4>2 DEF Place
    <3> HIDE DEF o, t
    <3> QED
      BY <1>0, <3>1, <3>2
  <2> QED
    BY <2>1, <2>2, <2>3, <2>4 DEF LoopCloses
<1>7. /\ loop'[n].at \in Kicking /\ loop'[n].new = l.new
      /\ loop'[n].kicks = l.kicks \/ (loop'[n].kicks = t /\ closed'[n][o])
  <2> HIDE DEF l, o, t
  <2>1. ASSUME NEW q \in Kicking, loop'[n] = [l EXCEPT !.at = q]
        PROVE  loop'[n].at \in Kicking /\ loop'[n].new = l.new /\ loop'[n].kicks = l.kicks
    BY <1>0, <2>1 DEF LoopState
  <2>2. ASSUME loop'[n] = [l EXCEPT !.at = "kick", !.kicks = t]
        PROVE  loop'[n].at \in Kicking /\ loop'[n].new = l.new /\ loop'[n].kicks = t
    BY <1>0, <2>2 DEF LoopState, Kicking
  <2> QED
    BY <1>6, <2>1, <2>2
<1> HIDE DEF o, t
<1>8. \A b \in Doomed(n) : b \in Doomed(n)' \/ closed'[n][b]
  BY <1>1, <1>4, <1>7 DEF Doomed
<1> QED
  BY <1>1, <1>2, <1>3, <1>5, <1>7, <1>8 DEF o

LEMMA KickerClosing ==
  ASSUME TypeOK, NEW n \in Node, KickerCloses(n)
  PROVE  /\ UNCHANGED <<handler, object, conn, pool, registerChan, kickChan, clients, userNum, connNum, loop>>
         /\ UNCHANGED <<closed, socket>> \/ MarkClosed(n, Head(kicker[n].old))
         /\ \A m \in Node \ {n} : kicker'[m] = kicker[m]
         /\ \A b \in Doomed(n) : b \in Doomed(n)' \/ closed'[n][b]
<1> DEFINE k == kicker[n]
           o == Head(kicker[n].old)
<1>0. DOMAIN kicker = Node /\ k \in KickerState(n) /\ (k.at # "idle" => o \in Object[n])
  BY AtWork DEF TypeOK, Domains, Used
<1>1. UNCHANGED <<handler, object, conn, pool, registerChan, kickChan, clients, userNum, connNum, loop>>
  BY DEF KickerCloses, KickerLocks, KickerTests, KickerMarks, KickerSends, Lock, MarkClosed,
         SendUnregister, connVars, chanVars, mapVars
<1>2. UNCHANGED <<closed, socket>> \/ MarkClosed(n, o)
  BY DEF KickerCloses, KickerLocks, KickerTests, KickerMarks, KickerSends, Lock, SendUnregister
<1>3. \A m \in Node \ {n} : kicker'[m] = kicker[m]
  BY <1>0 DEF KickerCloses, KickerLocks, KickerTests, KickerMarks, KickerSends, NextToKick
<1>m. ASSUME NEW q \in {"locked", "marking", "send"}, kicker' = [kicker EXCEPT ![n].at = q]
      PROVE  kicker'[n].at = q /\ kicker'[n].old = k.old
  <2>1. kicker'[n] = [k EXCEPT !.at = q]
    BY <1>m, <1>0
  <2> HIDE DEF k
  <2> QED
    BY <2>1, <1>0 DEF KickerState
<1>4. \/ kicker'[n].at \in {"locked", "marking"} /\ kicker'[n].old = k.old
      \/ k.at # "send" /\ closed'[n][o]
      \/ k.at = "send"
  <2>1. CASE KickerLocks(n)
    BY <1>m, <2>1 DEF KickerLocks
  <2>2. CASE KickerTests(n)
    BY <1>m, <2>2 DEF KickerTests
  <2>3. CASE KickerMarks(n)
    <3>1. k.at = "marking" /\ MarkClosed(n, o)
      BY <2>3 DEF KickerMarks
    <3> HIDE DEF o
    <3> QED
      BY <3>1, <1>0, ClosedGrows
  <2>4. CASE KickerSends(n)
    BY <2>4 DEF KickerSends
  <2> QED
    BY <2>1, <2>2, <2>3, <2>4 DEF KickerCloses
<1>5. \A b \in Doomed(n) : b \in Doomed(n)' \/ closed'[n][b]
  BY <1>1, <1>4 DEF Doomed
<1> QED
  BY <1>1, <1>2, <1>3, <1>5

-----------------------------------------------------------------------------
(* The connection counter.  Every object that is out of the pool is        *)
(* counted, or its client is still on its way to be: its handler has to    *)
(* send it, the channel holds it, or the loop kicks others before it.      *)

Registering(n) == {c \in Conn : NodeOf[c] = n /\ handler[c] = "registering"}
Entering(n) == IF loop[n].at \in Kicking /\ loop[n].new # None THEN 1 ELSE 0
Out(n) == Object[n] \ Free(n)

Count(n) ==
  /\ IsFiniteSet(Registering(n)) /\ IsFiniteSet(Out(n))
  /\ connNum[n] + Len(registerChan[n]) + Entering(n) + Cardinality(Registering(n)) =
       Cardinality(Out(n))
CountInv == \A n \in Node : Count(n)

LEMMA InitCount == Init => CountInv
<1> SUFFICES ASSUME Init, NEW n \in Node PROVE Count(n)
  BY DEF CountInv
<1>1. Registering(n) = {} /\ Out(n) = {} /\ Entering(n) = 0 /\ connNum[n] = 0
      /\ registerChan[n] = << >>
  BY DEF Init, Registering, Out, Free, Entering, Idle, Kicking
<1>2. Cardinality({}) = 0 /\ IsFiniteSet({})
  BY FS_EmptySet
<1>3. Len(registerChan[n]) = 0
  BY <1>1
<1> QED
  BY <1>1, <1>2, <1>3 DEF Count

\* A step that changes none of the terms of the sum.
LEMMA CountSame ==
  ASSUME NEW n \in Node, Count(n), connNum'[n] = connNum[n],
         Len(registerChan'[n]) = Len(registerChan[n]), Entering(n)' = Entering(n),
         UNCHANGED <<handler, pool>> \/ (Registering(n)' = Registering(n) /\ Out(n)' = Out(n))
  PROVE  Count(n)'
<1>1. Registering(n)' = Registering(n) /\ Out(n)' = Out(n)
  BY DEF Registering, Out, Free
<1> QED
  BY <1>1 DEF Count

\* The terms are numbers.
LEMMA CountTypes ==
  ASSUME TypeOK, NEW n \in Node, Count(n)
  PROVE  /\ connNum[n] \in Int /\ Len(registerChan[n]) \in Nat /\ Entering(n) \in Nat
         /\ Cardinality(Registering(n)) \in Nat /\ Cardinality(Out(n)) \in Nat
<1>1. connNum[n] \in Int /\ registerChan[n] \in Seq(Used(n))
  BY DEF TypeOK, MapTypes, ChanTypes
<1>2. Cardinality(Registering(n)) \in Nat /\ Cardinality(Out(n)) \in Nat
  BY FS_CardinalityType DEF Count
<1> QED
  BY <1>1, <1>2 DEF Entering

LEMMA CountConn ==
  ASSUME LockKept, TypeOK, LifeInv, CountInv, NEW c \in Conn, Handler(c) \/ Reader(c)
  PROVE  CountInv'
<1> DEFINE n == NodeOf[c]
<1>0. n \in Node /\ DOMAIN handler = Conn
  BY ConnAssumption DEF TypeOK, ConnTypes
<1> SUFFICES ASSUME NEW m \in Node PROVE Count(m)'
  BY DEF CountInv
<1>1. Count(m) /\ connNum[m] \in Int /\ Len(registerChan[m]) \in Nat /\ Entering(m) \in Nat
      /\ Cardinality(Registering(m)) \in Nat /\ Cardinality(Out(m)) \in Nat
  BY CountTypes DEF CountInv
<1>2. UNCHANGED <<connNum, loop>> /\ Entering(m)' = Entering(m)
  <2>1. UNCHANGED <<connNum, loop>>
    BY ReaderClosing DEF Handler, Reader, Admit, ResetClient, SendRegister, ReadFails, mapVars
  <2> QED
    BY <2>1 DEF Entering
<1>3. CASE Admit(c)
  <2>1. UNCHANGED <<registerChan, pool>>
    BY <1>3 DEF Admit, chanVars
  <2>2. Registering(m)' = Registering(m)
    <3>1. ASSUME NEW d \in Conn PROVE handler'[d] = "registering" <=> handler[d] = "registering"
      BY <1>3, <1>0 DEF Admit
    <3> QED
      BY <3>1 DEF Registering
  <2> QED
    BY <2>1, <2>2, <1>1, <1>2, CountSame DEF Out, Free
<1>4. ASSUME NEW o \in Object[NodeOf[c]], ResetClient(c, o) PROVE Count(m)'
  <2>1. /\ handler[c] = "admitted" /\ handler' = [handler EXCEPT ![c] = "registering"]
        /\ o \in Free(n) /\ UNCHANGED registerChan /\ o \in Object[n]
    BY <1>4 DEF ResetClient, chanVars, Free
  <2>2. \A k \in Node : Free(k)' = IF k = n THEN Free(k) \ {o} ELSE Free(k)
    BY <1>4, LifeReset
  <2>3. \A d \in Conn : handler'[d] = IF d = c THEN "registering" ELSE handler[d]
    BY <2>1, <1>0
  <2>4. CASE m = n
    <3>1. Registering(m)' = Registering(m) \cup {c} /\ c \notin Registering(m)
      BY <2>1, <2>3, <2>4 DEF Registering
    <3>2. Out(m)' = Out(m) \cup {o} /\ o \notin Out(m)
      BY <2>1, <2>2, <2>4, <1>0 DEF Out
    <3>3. IsFiniteSet(Registering(m)) /\ IsFiniteSet(Out(m))
      BY <1>1 DEF Count
    <3>4. /\ IsFiniteSet(Registering(m)')
          /\ Cardinality(Registering(m)') = Cardinality(Registering(m)) + 1
      BY <3>1, <3>3, FS_AddElement
    <3>5. IsFiniteSet(Out(m)') /\ Cardinality(Out(m)') = Cardinality(Out(m)) + 1
      BY <3>2, <3>3, FS_AddElement
    <3> DEFINE k == connNum[m]
               r == Len(registerChan[m])
               e == Entering(m)
               g == Cardinality(Registering(m))
               gg == Cardinality(Registering(m)')
               u == Cardinality(Out(m))
               uu == Cardinality(Out(m)')
    <3>6. /\ k \in Int /\ r \in Nat /\ e \in Nat /\ g \in Nat /\ u \in Nat
          /\ k + r + e + g = u /\ gg = g + 1 /\ uu = u + 1
      BY <3>4, <3>5, <1>1 DEF Count
    <3>7. connNum'[m] = k /\ Len(registerChan'[m]) = r /\ Entering(m)' = e
      BY <1>2, <2>1
    <3> HIDE DEF k, r, e, g, gg, u, uu
    <3>8. k + r + e + gg = uu
      BY <3>6
    <3>9. connNum'[m] + Len(registerChan'[m]) + Entering(m)' + Cardinality(Registering(m)') =
            Cardinality(Out(m)')
      BY <3>7, <3>8 DEF gg, uu
    <3> QED
      BY <3>4, <3>5, <3>9 DEF Count
  <2>5. CASE m # n
    <3>1. Registering(m)' = Registering(m) /\ Out(m)' = Out(m)
      BY <2>2, <2>3, <2>5 DEF Registering, Out
    <3> QED
      BY <3>1, <2>1, <1>1, <1>2, CountSame
  <2> QED
    BY <2>4, <2>5
<1>5. CASE SendRegister(c)
  <2>1. /\ handler[c] = "registering" /\ handler' = [handler EXCEPT ![c] = "done"]
        /\ registerChan' = [registerChan EXCEPT ![n] = Append(@, object[c])] /\ UNCHANGED pool
    BY <1>5 DEF SendRegister
  <2>2. registerChan'[m] = IF m = n THEN Append(registerChan[m], object[c]) ELSE registerChan[m]
    BY <2>1, <1>0 DEF TypeOK, Domains
  <2>3. \A d \in Conn : handler'[d] = IF d = c THEN "done" ELSE handler[d]
    BY <2>1, <1>0
  <2>4. Out(m)' = Out(m)
    BY <2>1 DEF Out, Free
  <2>5. CASE m = n
    <3>1. Registering(m)' = Registering(m) \ {c} /\ c \in Registering(m)
      BY <2>1, <2>3, <2>5 DEF Registering
    <3>2. /\ IsFiniteSet(Registering(m)')
          /\ Cardinality(Registering(m)') = Cardinality(Registering(m)) - 1
      <4>1. IsFiniteSet(Registering(m))
        BY <1>1 DEF Count
      <4> QED
        BY <3>1, <4>1, FS_RemoveElement
    <3>3. Len(registerChan'[m]) = Len(registerChan[m]) + 1
      <4>1. registerChan[m] \in Seq(Used(m)) /\ object[c] \in Used(m)
        BY <2>1, <2>5 DEF TypeOK, ConnTypes, ChanTypes
      <4> QED
        BY <4>1, <2>2, <2>5, SeqAppend
    <3> DEFINE k == connNum[m]
               r == Len(registerChan[m])
               rr == Len(registerChan'[m])
               e == Entering(m)
               g == Cardinality(Registering(m))
               gg == Cardinality(Registering(m)')
               u == Cardinality(Out(m))
    <3>4. /\ k \in Int /\ r \in Nat /\ e \in Nat /\ g \in Nat /\ u \in Nat
          /\ k + r + e + g = u /\ rr = r + 1 /\ gg = g - 1
      BY <3>2, <3>3, <1>1, <2>5 DEF Count
    <3>5. /\ IsFiniteSet(Registering(m)') /\ IsFiniteSet(Out(m)')
          /\ connNum'[m] = k /\ Entering(m)' = e /\ Cardinality(Out(m)') = u
      BY <3>2, <2>4, <1>1, <1>2 DEF Count
    <3> HIDE DEF k, r, rr, e, g, gg, u
    <3>6. k + rr + e + gg = u
      BY <3>4
    <3>7. connNum'[m] + Len(registerChan'[m]) + Entering(m)' + Cardinality(Registering(m)') =
            Cardinality(Out(m)')
      BY <3>5, <3>6 DEF rr, gg
    <3> QED
      BY <3>5, <3>7 DEF Count
  <2>6. CASE m # n
    <3>1. Registering(m)' = Registering(m)
      BY <2>3, <2>6 DEF Registering
    <3> QED
      BY <3>1, <2>2, <2>4, <2>6, <1>1, <1>2, CountSame
  <2> QED
    BY <2>5, <2>6
<1>6. CASE ReadFails(c) \/ ReaderCloses(c)
  <2>1. UNCHANGED <<handler, pool, registerChan>>
    BY <1>6, ReaderClosing DEF ReadFails, chanVars
  <2> QED
    BY <2>1, <1>1, <1>2, CountSame
<1> QED
  BY <1>3, <1>4, <1>5, <1>6 DEF Handler, Reader

LEMMA CountLoop ==
  ASSUME TypeOK, LifeInv, CountInv, NEW n \in Node, EventLoop(n)
  PROVE  CountInv'
<1>0. /\ DOMAIN loop = Node /\ DOMAIN connNum = Node /\ DOMAIN registerChan = Node
      /\ loop[n] \in LoopState(n) /\ registerChan[n] \in Seq(Used(n))
      /\ DOMAIN pool = Node
  BY DEF TypeOK, Domains, LoopTypes, ChanTypes
<1>1. ASSUME NEW m \in Node
      PROVE  /\ Count(m) /\ connNum[m] \in Int /\ Len(registerChan[m]) \in Nat /\ Entering(m) \in Nat
             /\ Cardinality(Registering(m)) \in Nat /\ Cardinality(Out(m)) \in Nat
  BY CountTypes DEF CountInv
<1>2. UNCHANGED handler /\ \A m \in Node : Registering(m)' = Registering(m)
  <2>1. UNCHANGED handler
    BY LoopClosing DEF EventLoop, RegisterClient, TakeKick, UnregisterClient, KicksDone, Notify,
                       RegisterDone, connVars
  <2> QED
    BY <2>1 DEF Registering
<1>3. ASSUME NEW m \in Node, m # n PROVE Count(m)'
  <2>1. /\ connNum'[m] = connNum[m] /\ registerChan'[m] = registerChan[m] /\ loop'[m] = loop[m]
        /\ Free(m)' = Free(m)
    <3>1. connNum'[m] = connNum[m]
      BY <1>3, <1>0, LoopClosing DEF EventLoop, RegisterClient, TakeKick, UnregisterClient, KicksDone,
         Notify, RegisterDone, mapVars
    <3>2. registerChan'[m] = registerChan[m]
      BY <1>3, <1>0, LoopClosing DEF EventLoop, RegisterClient, TakeKick, UnregisterClient, KicksDone,
         Notify, RegisterDone, chanVars
    <3>3. loop'[m] = loop[m]
      BY <1>3, <1>0, LoopClosing DEF EventLoop, RegisterClient, TakeKick, UnregisterClient, KicksDone,
         Notify, RegisterDone
    <3>4. Free(m)' = Free(m)
      <4>1. UNCHANGED pool \/ UnregisterClient(n)
        BY LoopClosing DEF EventLoop, RegisterClient, TakeKick, KicksDone, Notify, RegisterDone
      <4> QED
        BY <1>3, <4>1, LifeUnregister DEF Free
    <3> QED
      BY <3>1, <3>2, <3>3, <3>4
  <2>2. Entering(m)' = Entering(m) /\ Out(m)' = Out(m)
    BY <2>1 DEF Entering, Out
  <2> QED
    BY <2>1, <2>2, <1>1, <1>2, CountSame
<1>4. Count(n)'
  <2>0. Count(n) /\ connNum[n] \in Int /\ Len(registerChan[n]) \in Nat /\ Entering(n) \in Nat
        /\ Cardinality(Registering(n)) \in Nat /\ Cardinality(Out(n)) \in Nat
    BY <1>1
  <2>1. CASE RegisterClient(n)
    <3> DEFINE o == Head(registerChan[n])
    <3>1. /\ registerChan[n] # << >> /\ registerChan'[n] = Tail(registerChan[n])
          /\ loop[n].at = "select" /\ UNCHANGED pool
      BY <2>1, <1>0 DEF RegisterClient
    <3>2. Len(registerChan'[n]) = Len(registerChan[n]) - 1 /\ o # None
      BY <3>1, <1>0, SeqHead, NoneAssumption DEF Used
    <3>3. Entering(n) = 0 /\ Out(n)' = Out(n)
      BY <3>1 DEF Entering, Out, Free, Kicking
    <3>4. (connNum'[n] = connNum[n] + 1 /\ Entering(n)' = 0)
          \/ (connNum'[n] = connNum[n] /\ Entering(n)' = 1)
      <4>1. CASE connNum' = [connNum EXCEPT ![n] = @ + 1] /\ loop' = [loop EXCEPT ![n] = Notifying(o)]
        BY <4>1, <1>0 DEF Entering, Notifying, Kicking
      <4>2. ASSUME NEW v, UNCHANGED connNum,
                   loop' = [loop EXCEPT ![n] = [at |-> "kick", new |-> o, kicks |-> v, todo |-> {}]]
            PROVE  connNum'[n] = connNum[n] /\ Entering(n)' = 1
        BY <4>2, <3>2, <1>0 DEF Entering, Kicking
      <4> QED
        BY <4>1, <4>2, <2>1 DEF RegisterClient
    <3> DEFINE k == connNum[n]
               kk == connNum'[n]
               r == Len(registerChan[n])
               rr == Len(registerChan'[n])
               e == Entering(n)'
               g == Cardinality(Registering(n))
               u == Cardinality(Out(n))
    <3>5. /\ k \in Int /\ r \in Nat /\ g \in Nat /\ u \in Nat
          /\ k + r + 0 + g = u /\ rr = r - 1
      BY <3>2, <3>3, <2>0 DEF Count
    <3>6. (kk = k + 1 /\ e = 0) \/ (kk = k /\ e = 1)
      BY <3>4
    <3>7. /\ IsFiniteSet(Registering(n)') /\ IsFiniteSet(Out(n)')
          /\ Cardinality(Registering(n)') = g /\ Cardinality(Out(n)') = u
      BY <3>3, <1>2, <2>0 DEF Count
    <3> HIDE DEF k, kk, r, rr, e, g, u
    <3>8. kk + rr + e + g = u
      <4>1. CASE kk = k + 1 /\ e = 0
        BY <4>1, <3>5
      <4>2. CASE kk = k /\ e = 1
        BY <4>2, <3>5
      <4> QED
        BY <3>6, <4>1, <4>2
    <3>9. connNum'[n] + Len(registerChan'[n]) + Entering(n)' + Cardinality(Registering(n)') =
            Cardinality(Out(n)')
      BY <3>7, <3>8 DEF kk, rr, e
    <3> QED
      BY <3>7, <3>9 DEF Count
  <2>2. CASE TakeKick(n)
    <3>1. /\ connNum'[n] = connNum[n] /\ registerChan' = registerChan /\ UNCHANGED pool
          /\ loop[n].at = "select"
      BY <2>2 DEF TakeKick
    <3>2. Entering(n) = 0 /\ Entering(n)' = 0
      BY <3>1, <2>2, <1>0 DEF Entering, TakeKick, Kicking
    <3> QED
      BY <3>1, <3>2, <2>0, <1>2, CountSame
  <2>3. CASE UnregisterClient(n)
    <3> DEFINE o == Head(unregisterChan[n])
    <3>1. /\ connNum'[n] = connNum[n] - 1 /\ registerChan' = registerChan /\ UNCHANGED loop
      BY <2>3, <1>0 DEF UnregisterClient
    <3>2. o \in Object[n] \ Free(n) /\ Free(n)' = Free(n) \cup {o}
      BY <2>3, LifeUnregister
    <3> HIDE DEF o
    <3>3. Out(n)' = Out(n) \ {o} /\ o \in Out(n) /\ Entering(n)' = Entering(n)
      BY <3>1, <3>2 DEF Out, Entering
    <3>4. IsFiniteSet(Out(n))
      BY <2>0 DEF Count
    <3>5. IsFiniteSet(Out(n)') /\ Cardinality(Out(n)') = Cardinality(Out(n)) - 1
      BY <3>3, <3>4, FS_RemoveElement
    <3> DEFINE k == connNum[n]
               kk == connNum'[n]
               r == Len(registerChan[n])
               e == Entering(n)
               g == Cardinality(Registering(n))
               u == Cardinality(Out(n))
               uu == Cardinality(Out(n)')
    <3>6. /\ k \in Int /\ r \in Nat /\ e \in Nat /\ g \in Nat /\ u \in Nat
          /\ k + r + e + g = u /\ kk = k - 1 /\ uu = u - 1
      BY <3>1, <3>5, <2>0 DEF Count
    <3>7. /\ IsFiniteSet(Registering(n)') /\ IsFiniteSet(Out(n)')
          /\ Len(registerChan'[n]) = r /\ Entering(n)' = e /\ Cardinality(Registering(n)') = g
      BY <3>1, <3>3, <3>5, <2>0, <1>2 DEF Count
    <3> HIDE DEF k, kk, r, e, g, u, uu
    <3>8. kk + r + e + g = uu
      BY <3>6
    <3>9. connNum'[n] + Len(registerChan'[n]) + Entering(n)' + Cardinality(Registering(n)') =
            Cardinality(Out(n)')
      BY <3>7, <3>8 DEF kk, uu
    <3> QED
      BY <3>7, <3>9 DEF Count
  <2>4. CASE LoopCloses(n)
    <3>1. connNum'[n] = connNum[n] /\ registerChan' = registerChan /\ UNCHANGED pool
      BY <2>4, LoopClosing
    <3>2. Entering(n)' = Entering(n)
      BY <2>4, LoopClosing DEF Entering
    <3> QED
      BY <3>1, <3>2, <2>0, <1>2, CountSame
  <2>5. CASE KicksDone(n)
    <3> DEFINE o == loop[n].new
    <3>1. loop[n].at = "kick" /\ registerChan' = registerChan /\ UNCHANGED pool
      BY <2>5 DEF KicksDone, chanVars
    <3>2. CASE o = None
      <4>1. Entering(n) = 0 /\ Entering(n)' = 0 /\ connNum'[n] = connNum[n]
        BY <3>2, <2>5, <1>0 DEF KicksDone, Entering, Idle, Kicking
      <4> QED
        BY <4>1, <3>1, <2>0, <1>2, CountSame
    <3>3. CASE o # None
      <4>1. Entering(n) = 1 /\ Entering(n)' = 0 /\ connNum'[n] = connNum[n] + 1
        BY <3>1, <3>3, <2>5, <1>0 DEF KicksDone, Entering, Notifying, Kicking
      <4>2. Out(n)' = Out(n)
        BY <3>1 DEF Out, Free
      <4> QED
        BY <4>1, <4>2, <3>1, <2>0, <1>2 DEF Count
    <3> QED
      BY <3>2, <3>3
  <2>6. ASSUME NEW m \in Node, Notify(n, m) PROVE Count(n)'
    <3>1. /\ connNum'[n] = connNum[n] /\ registerChan' = registerChan /\ UNCHANGED pool
      BY <2>6 DEF Notify, mapVars
    <3> DEFINE l == loop[n]
    <3>2. l \in LoopState(n) /\ l.at = "notify" /\ loop'[n] = [l EXCEPT !.todo = @ \ {m}]
      BY <2>6, <1>0 DEF Notify
    <3>3. loop'[n].at = "notify"
      <4> HIDE DEF l
      <4> QED
        BY <3>2 DEF LoopState
    <3>4. Entering(n)' = Entering(n)
      BY <3>2, <3>3 DEF Entering, Kicking
    <3> QED
      BY <3>1, <3>4, <2>0, <1>2, CountSame
  <2>7. CASE RegisterDone(n)
    <3>1. /\ connNum'[n] = connNum[n] /\ registerChan' = registerChan /\ UNCHANGED pool
      BY <2>7 DEF RegisterDone, mapVars, chanVars
    <3>2. Entering(n)' = Entering(n)
      BY <2>7, <1>0 DEF RegisterDone, Entering, Idle, Kicking
    <3> QED
      BY <3>1, <3>2, <2>0, <1>2, CountSame
  <2> QED
    BY <2>1, <2>2, <2>3, <2>4, <2>5, <2>6, <2>7 DEF EventLoop
<1> QED
  BY <1>3, <1>4 DEF CountInv

LEMMA CountStep ==
  ASSUME LockKept, TypeOK, LifeInv, CountInv, [Next]_vars
  PROVE  CountInv'
<1>1. ASSUME UNCHANGED <<handler, pool, registerChan, connNum, loop>> PROVE CountInv'
  <2>1. ASSUME NEW n \in Node PROVE Count(n)'
    BY <1>1, CountSame DEF CountInv, Entering
  <2> QED
    BY <2>1 DEF CountInv
<1>2. CASE UNCHANGED vars
  BY <1>1, <1>2 DEF vars, connVars, chanVars, mapVars
<1>3. ASSUME NEW n \in Node, NEW u \in User, NEW p \in Platform, KickUserOffline(n, u, p)
      PROVE  CountInv'
  BY <1>1, <1>3 DEF KickUserOffline, connVars, chanVars, mapVars
<1>4. ASSUME NEW n \in Node, Kicker(n) PROVE CountInv'
  BY <1>1, <1>4, KickerClosing DEF Kicker, KickerDeletes, connVars, chanVars, mapVars
<1> QED
  BY <1>2, <1>3, <1>4, CountConn, CountLoop DEF Next

\* When a gateway is quiet, the objects out of the pool are those of its open
\* connections.
LEMMA QuietPlace ==
  ASSUME TypeOK, LifeInv, NEW n \in Node, Quiet(n)
  PROVE  /\ \A o \in Out(n) : conn[n][o] \in Live(n) /\ object[conn[n][o]] = o /\ ~closed[n][o]
         /\ \A c \in Live(n) : object[c] \in Out(n) /\ conn[n][object[c]] = c
<1>1. ASSUME NEW o \in Out(n) PROVE conn[n][o] \in Live(n) /\ object[conn[n][o]] = o /\ ~closed[n][o]
  <2>1. Place(n, o) /\ Tied(n, o) /\ o \in Object[n] /\ o \notin Free(n)
    BY DEF LifeInv, Life, Out
  <2>2. conn[n][o] # None /\ conn[n][o] \in Conn
    BY <2>1 DEF Place, TypeOK, ObjectTypes
  <2>3. Senders(n, o) = {}
    <3> DEFINE S == {"sending", "send"}
    <3>3. (\A c \in Conn : ~ReaderAt(S, c, n, o)) /\ ~LoopAt(S, n, o) /\ ~KickerAt(S, n, o)
      <4>1. \A c \in Conn : NodeOf[c] = n => reader[c] \in {"none", "done", "reading"}
        BY DEF Quiet
      <4>2. loop[n].at = "select" /\ kicker[n].at = "idle"
        BY DEF Quiet, Idle
      <4> QED
        BY <4>1, <4>2 DEF ReaderAt, LoopAt, KickerAt
    <3> HIDE DEF S
    <3> QED
      BY <3>3 DEF Senders, Closers, S
  <2>4. ToSet(unregisterChan[n]) = {}
    BY DEF Quiet, ToSet
  <2>5. ~closed[n][o]
    BY <2>1, <2>3, <2>4 DEF Place
  <2> QED
    BY <2>1, <2>2, <2>5 DEF Tied, Live
<1>2. ASSUME NEW c \in Live(n) PROVE object[c] \in Out(n) /\ conn[n][object[c]] = c
  <2>1. c \in Conn /\ NodeOf[c] = n /\ socket[c] = "open"
    BY DEF Live
  <2>2. object[c] # None /\ object[c] \notin Free(n) /\ conn[n][object[c]] = c
    BY <2>1 DEF LifeInv, Held
  <2>3. object[c] \in Object[n]
    BY <2>1, <2>2 DEF TypeOK, ConnTypes, Used
  <2> QED
    BY <2>2, <2>3 DEF Out
<1> QED
  BY <1>1, <1>2

\* When nothing is under way on a gateway, its connection counter is the number
\* of its open connections, whatever order the loop takes its channels in,
\* provided no object is reset while it is being closed.
THEOREM ConnectionsCounted == Spec => [](LockKept => ConnCount)
<1>1. Spec => [](TypeOK /\ (LockKept => LifeInv /\ CountInv))
  <2>1. TypeOK /\ (LockKept => LifeInv /\ CountInv) /\ [Next]_vars
          => (LockKept => LifeInv /\ CountInv)'
    BY LifeStep, CountStep
  <2>2. Init => (LockKept => LifeInv /\ CountInv)
    BY InitLife, InitCount
  <2> QED
    BY <2>1, <2>2, TypeCorrect, PTL DEF Spec
<1>2. TypeOK /\ (LockKept => LifeInv /\ CountInv) => (LockKept => ConnCount)
  <2> SUFFICES ASSUME TypeOK, LifeInv, CountInv, NEW n \in Node, Quiet(n)
               PROVE  connNum[n] = Cardinality(Live(n))
    BY DEF ConnCount
  <2>1. Count(n) /\ connNum[n] \in Int
    BY CountTypes DEF CountInv
  <2>2. Len(registerChan[n]) = 0 /\ Entering(n) = 0 /\ Registering(n) = {}
    <3>1. registerChan[n] = << >> /\ loop[n].at = "select"
          /\ \A c \in Conn : NodeOf[c] = n => handler[c] # "registering"
      BY DEF Quiet, Idle
    <3> QED
      BY <3>1 DEF Entering, Registering, Kicking
  <2>3. Cardinality(Registering(n)) = 0
    BY <2>2, FS_EmptySet
  <2>4. IsFiniteSet(Out(n)) /\ Cardinality(Out(n)) \in Nat
    BY <2>1, CountTypes DEF Count
  <2>5. connNum[n] = Cardinality(Out(n))
    BY <2>1, <2>2, <2>3, <2>4 DEF Count
  <2>6. ExistsBijection(Out(n), Live(n))
    <3> DEFINE f == [o \in Out(n) |-> conn[n][o]]
    <3>1. f \in [Out(n) -> Live(n)]
      BY QuietPlace
    <3>2. \A a, b \in Out(n) : f[a] = f[b] => a = b
      BY QuietPlace
    <3>3. \A c \in Live(n) : \E o \in Out(n) : f[o] = c
      BY QuietPlace
    <3> HIDE DEF f
    <3>4. f \in Bijection(Out(n), Live(n))
      BY <3>1, <3>2, <3>3 DEF Bijection, Injection, Surjection, IsInjective
    <3> QED
      BY <3>4 DEF ExistsBijection
  <2> QED
    BY <2>4, <2>5, <2>6, FS_Bijection
<1> QED
  BY <1>1, <1>2, PTL

-----------------------------------------------------------------------------
(* The way into the user map, when no client is unregistered before it is  *)
(* registered: a client is with its handler, then in the channel, then     *)
(* entering, then listed under its user; and as long as its connection is  *)
(* open it is lost on the way only to somebody who is about to close it.   *)

Regs(n) == {object[c] : c \in Registering(n)}
Queued(n) == ToSet(registerChan[n])
Enters(n) == IF Entering(n) = 1 THEN {loop[n].new} ELSE {}
Listed(n) == UNION {ToSet(clients[n][u]) : u \in User}

\* A user's list has clients of that user, each once.
Lists(n) ==
  \A u \in User : /\ IsInjective(clients[n][u])
                  /\ \A o \in ToSet(clients[n][u]) : UserID(n, o) = u

\* The places are apart, and apart from the pool.
Apart(n) ==
  /\ IsInjective(registerChan[n])
  /\ \A c \in Registering(n) : conn[n][object[c]] = c
  /\ Regs(n) \cap (Queued(n) \cup Enters(n) \cup Listed(n)) = {}
  /\ Queued(n) \cap (Enters(n) \cup Listed(n)) = {}
  /\ Enters(n) \cap Listed(n) = {}
  /\ Free(n) \cap (Regs(n) \cup Queued(n) \cup Enters(n) \cup Listed(n)) = {}

Covered(n) ==
  \A o \in Out(n) : closed[n][o] \/ o \in Regs(n) \cup Queued(n) \cup Enters(n)
                                            \cup Listed(n) \cup Doomed(n)

RegInv == RegisterFirst => \A n \in Node : Lists(n) /\ Apart(n) /\ Covered(n)

LEMMA InitReg == Init => RegInv
<1> SUFFICES ASSUME Init, NEW n \in Node PROVE Lists(n) /\ Apart(n) /\ Covered(n)
  BY DEF RegInv
<1>0. ToSet(<< >>) = {} /\ IsInjective(<< >>)
  BY DEF ToSet, IsInjective
<1>1. Registering(n) = {} /\ Regs(n) = {}
  BY DEF Init, Registering, Regs
<1>2. Queued(n) = {} /\ Listed(n) = {}
  BY <1>0 DEF Init, Queued, Listed
<1>3. Enters(n) = {} /\ Out(n) = {}
  BY DEF Init, Entering, Enters, Idle, Out, Free, Kicking
<1>4. Lists(n)
  BY <1>0 DEF Init, Lists
<1>5. IsInjective(registerChan[n])
  BY <1>0 DEF Init
<1> QED
  BY <1>1, <1>2, <1>3, <1>4, <1>5 DEF Apart, Covered

\* What a deletion from the map does to it.
LEMMA ListedLess ==
  ASSUME TypeOK, LifeInv, NEW n \in Node, Lists(n), NEW u \in User, NEW os \in Seq(Used(n)),
         clients' = [clients EXCEPT ![n][u] = Without(n, u, os)], UNCHANGED conn
  PROVE  /\ Lists(n)' /\ Listed(n)' \subseteq Listed(n) /\ Listed(n) \ Listed(n)' \subseteq ToSet(os)
         /\ \A v \in ToSet(os) : UserID(n, v) = u => v \notin Listed(n)'
         /\ \A m \in Node \ {n} : clients'[m] = clients[m]
<1> DEFINE s == Without(n, u, os)
<1>1. \A m \in Node : clients'[m] = IF m = n THEN [clients[m] EXCEPT ![u] = s] ELSE clients[m]
  BY DEF TypeOK, Domains
<1>2. \A v \in User : clients'[n][v] = IF v = u THEN s ELSE clients[n][v]
  <2>1. DOMAIN clients[n] = User
    BY DEF TypeOK, MapTypes
  <2>2. clients'[n] = [clients[n] EXCEPT ![u] = s]
    BY <1>1
  <2> HIDE DEF s
  <2> QED
    BY <2>1, <2>2
<1>3. /\ ToSet(s) = {o \in ToSet(clients[n][u]) : \A v \in ToSet(os) : conn[n][o] # conn[n][v]}
      /\ IsInjective(clients[n][u]) => IsInjective(s)
  BY WithoutType
<1> HIDE DEF s
<1>4. Lists(n)'
  BY <1>2, <1>3 DEF Lists, UserID
<1>5. Listed(n)' \subseteq Listed(n)
  BY <1>2, <1>3 DEF Listed
<1>6. ASSUME NEW o \in Listed(n) \ Listed(n)' PROVE o \in ToSet(os)
  <2>1. PICK w \in User : o \in ToSet(clients[n][w])
    BY <1>6 DEF Listed
  <2>2. o \notin ToSet(clients'[n][w])
    BY <1>6, <2>1 DEF Listed
  <2>3. w = u /\ o \notin ToSet(s)
    BY <2>1, <2>2, <1>2
  <2>4. PICK v \in ToSet(os) : conn[n][o] = conn[n][v]
    BY <2>1, <2>3, <1>3
  <2>5. o \in Used(n) /\ v \in Used(n)
    BY <2>1, <2>4, ListType, SeqSet
  <2>6. /\ o \in Object[n] /\ v \in Object[n] /\ conn[n][o] # None /\ conn[n][v] # None
    BY <2>5 DEF Used
  <2>7. Tied(n, o) /\ Tied(n, v)
    BY <2>6 DEF LifeInv, Life
  <2> QED
    BY <2>4, <2>6, <2>7 DEF Tied
<1>7. ASSUME NEW v \in ToSet(os), UserID(n, v) = u PROVE v \notin Listed(n)'
  <2> SUFFICES ASSUME NEW w \in User, v \in ToSet(clients'[n][w]) PROVE FALSE
    BY DEF Listed
  <2>1. UserID(n, v) = w
    BY <1>4 DEF Lists, UserID
  <2>2. v \in ToSet(s)
    BY <2>1, <1>2, <1>7
  <2> QED
    BY <2>2, <1>3
<1> QED
  BY <1>1, <1>4, <1>5, <1>6, <1>7

\* What UserMap.Set does to it.
LEMMA ListedMore ==
  ASSUME TypeOK, NEW n \in Node, Lists(n), NEW o \in Used(n) \ Listed(n),
         clients' = [clients EXCEPT ![n][UserID(n, o)] = Append(@, o)], UNCHANGED conn
  PROVE  /\ Lists(n)' /\ Listed(n)' = Listed(n) \cup {o}
         /\ \A m \in Node \ {n} : clients'[m] = clients[m]
<1> DEFINE u == UserID(n, o)
           s == Append(clients[n][u], o)
<1>0. u \in User
  BY Owner
<1>1. \A m \in Node : clients'[m] = IF m = n THEN [clients[m] EXCEPT ![u] = s] ELSE clients[m]
  BY DEF TypeOK, Domains
<1>2. \A v \in User : clients'[n][v] = IF v = u THEN s ELSE clients[n][v]
  <2>1. DOMAIN clients[n] = User
    BY DEF TypeOK, MapTypes
  <2>2. clients'[n] = [clients[n] EXCEPT ![u] = s]
    BY <1>1
  <2> HIDE DEF s, u
  <2> QED
    BY <2>1, <2>2
<1>3. /\ ToSet(s) = ToSet(clients[n][u]) \cup {o}
      /\ IsInjective(s)
  <2> HIDE DEF u
  <2>1. clients[n][u] \in Seq(Used(n)) /\ IsInjective(clients[n][u]) /\ o \notin ToSet(clients[n][u])
    BY <1>0, ListType DEF Lists, Listed
  <2> QED
    BY <2>1, SeqAppend
<1> HIDE DEF s
<1>4. Lists(n)'
  BY <1>2, <1>3 DEF Lists, UserID
<1>5. Listed(n)' = Listed(n) \cup {o}
  <2> HIDE DEF u
  <2> QED
    BY <1>0, <1>2, <1>3 DEF Listed
<1> QED
  BY <1>1, <1>4, <1>5

\* A step that leaves a gateway's lists and channel alone.
LEMMA RegSame ==
  ASSUME NEW n \in Node, Lists(n), Apart(n), Covered(n),
         clients'[n] = clients[n], registerChan'[n] = registerChan[n], Free(n)' = Free(n),
         conn'[n] = conn[n], Enters(n)' = Enters(n), Registering(n)' = Registering(n),
         \A c \in Registering(n) : object'[c] = object[c],
         \A o \in Object[n] : closed[n][o] => closed'[n][o],
         \A o \in Doomed(n) : o \in Doomed(n)' \/ closed'[n][o]
  PROVE  Lists(n)' /\ Apart(n)' /\ Covered(n)'
<1>1. Lists(n)'
  BY DEF Lists, UserID
<1>2. Regs(n)' = Regs(n) /\ Queued(n)' = Queued(n) /\ Listed(n)' = Listed(n) /\ Out(n)' = Out(n)
  BY DEF Regs, Queued, Listed, Out
<1>3. Apart(n)'
  BY <1>2 DEF Apart
<1>4. Covered(n)'
  BY <1>2 DEF Covered, Out
<1> QED
  BY <1>1, <1>3, <1>4

LEMMA RegConn ==
  ASSUME LockKept, TypeOK, LifeInv, NEW c \in Conn, Handler(c) \/ Reader(c),
         NEW m \in Node, Lists(m), Apart(m), Covered(m)
  PROVE  Lists(m)' /\ Apart(m)' /\ Covered(m)'
<1> DEFINE n == NodeOf[c]
           o == object[c]
<1>0. n \in Node /\ DOMAIN handler = Conn /\ DOMAIN object = Conn
  BY ConnAssumption DEF TypeOK, ConnTypes
<1>1. /\ UNCHANGED <<clients, loop, kicker>>
      /\ Enters(m)' = Enters(m) /\ Doomed(m)' = Doomed(m) /\ Listed(m)' = Listed(m)
  <2>1. UNCHANGED <<clients, loop, kicker>>
    BY ReaderClosing DEF Handler, Reader, Admit, ResetClient, SendRegister, ReadFails, mapVars
  <2> QED
    BY <2>1 DEF Enters, Entering, Doomed, Listed
<1>2. CASE Admit(c) \/ ReadFails(c) \/ ReaderCloses(c)
  <2>1. UNCHANGED <<registerChan, pool, conn, object>>
    BY <1>2, ReaderClosing DEF Admit, ReadFails, clientVars, chanVars
  <2>2. Registering(m)' = Registering(m)
    <3>1. ASSUME NEW d \in Conn PROVE handler'[d] = "registering" <=> handler[d] = "registering"
      BY <1>2, <1>0, ReaderClosing DEF Admit, ReadFails
    <3> QED
      BY <3>1 DEF Registering
  <2>3. \A b \in Object[m] : closed[m][b] => closed'[m][b]
    <3>1. UNCHANGED closed \/ MarkClosed(n, o)
      BY <1>2, ReaderClosing DEF Admit, ReadFails, clientVars
    <3> HIDE DEF n, o
    <3> QED
      BY <3>1, <1>0, ClosedGrows
  <2>4. Free(m)' = Free(m)
    BY <2>1 DEF Free
  <2> QED
    BY <2>1, <2>2, <2>3, <2>4, <1>1, RegSame
<1>3. ASSUME NEW b \in Object[NodeOf[c]], ResetClient(c, b) PROVE Lists(m)' /\ Apart(m)' /\ Covered(m)'
  <2>1. /\ handler[c] = "admitted" /\ handler' = [handler EXCEPT ![c] = "registering"]
        /\ object' = [object EXCEPT ![c] = b] /\ UNCHANGED registerChan
        /\ b \in Free(n) /\ b \in Object[n]
    BY <1>3 DEF ResetClient, chanVars, Free
  <2>f. Free(m)' = IF m = n THEN Free(m) \ {b} ELSE Free(m)
    BY <1>3, LifeReset
  <2>2. /\ conn'[m] = IF m = n THEN [conn[m] EXCEPT ![b] = c] ELSE conn[m]
        /\ closed'[m] = IF m = n THEN [closed[m] EXCEPT ![b] = FALSE] ELSE closed[m]
        /\ DOMAIN conn[m] = Object[m] /\ DOMAIN closed[m] = Object[m]
    BY <1>3 DEF ResetClient, TypeOK, Domains, ObjectTypes
  <2>3. \A d \in Conn : /\ handler'[d] = IF d = c THEN "registering" ELSE handler[d]
                        /\ object'[d] = IF d = c THEN b ELSE object[d]
    BY <2>1, <1>0
  <2> HIDE DEF o
  <2>4. CASE m # n
    <3>1. Registering(m)' = Registering(m) /\ c \notin Registering(m)
      BY <2>3, <2>4 DEF Registering
    <3>2. \A d \in Registering(m) : object'[d] = object[d]
      BY <2>3, <3>1 DEF Registering
    <3> QED
      BY <2>1, <2>f, <2>2, <2>4, <3>1, <3>2, <1>1, RegSame
  <2>5. CASE m = n
    <3>1. Registering(m)' = Registering(m) \cup {c} /\ c \notin Registering(m)
      BY <2>1, <2>3, <2>5 DEF Registering
    <3>2. Regs(m)' = Regs(m) \cup {b}
      <4>1. \A d \in Registering(m) : object'[d] = object[d]
        BY <2>3, <3>1 DEF Registering
      <4>2. object'[c] = b
        BY <2>3
      <4> QED
        BY <3>1, <4>1, <4>2 DEF Regs
    <3>f. Free(m)' = Free(m) \ {b}
      BY <2>f, <2>5
    <3>3. b \notin Regs(m) \cup Queued(m) \cup Enters(m) \cup Listed(m)
      BY <2>1, <2>5 DEF Apart
    <3>4. Queued(m)' = Queued(m)
      BY <2>1 DEF Queued
    <3>5. \A a \in Object[m] : a # b => conn'[m][a] = conn[m][a] /\ closed'[m][a] = closed[m][a]
      BY <2>2
    <3>6. Lists(m)'
      <4>1. ASSUME NEW u \in User, NEW a \in ToSet(clients[m][u]) PROVE UserID(m, a)' = UserID(m, a)
        <5>1. a \in Object[m] /\ a \in Listed(m)
          BY ListType DEF Listed
        <5> QED
          BY <5>1, <3>3, <3>5 DEF UserID
      <4> QED
        BY <4>1, <1>1 DEF Lists
    <3>7. \A d \in Registering(m)' : conn'[m][object'[d]] = d
      <4>1. conn'[m][b] = c /\ object'[c] = b
        BY <2>1, <2>2, <2>3, <2>5
      <4>2. ASSUME NEW d \in Registering(m) PROVE conn'[m][object'[d]] = d
        <5>1. object'[d] = object[d] /\ object[d] \in Regs(m) /\ d \in Conn
              /\ NodeOf[d] = m /\ handler[d] = "registering"
          BY <2>3, <3>1 DEF Registering, Regs
        <5>2. object[d] \in Object[m] /\ object[d] # b
          BY <5>1, <3>3 DEF TypeOK, ConnTypes, Used
        <5> QED
          BY <5>1, <5>2, <3>5 DEF Apart
      <4> QED
        BY <3>1, <4>1, <4>2
    <3>8. Apart(m)'
      BY <3>2, <3>3, <3>4, <3>7, <3>f, <2>1, <2>2, <2>5, <1>1 DEF Apart
    <3>9. Covered(m)'
      <4> SUFFICES ASSUME NEW a \in Out(m)', ~closed'[m][a]
          PROVE  a \in Regs(m)' \cup Queued(m)' \cup Enters(m)' \cup Listed(m)' \cup Doomed(m)'
        BY DEF Covered
      <4>1. CASE a = b
        BY <4>1, <3>2
      <4>2. CASE a # b
        <5>1. a \in Out(m) /\ closed'[m][a] = closed[m][a]
          BY <4>2, <3>f, <3>5 DEF Out
        <5> QED
          BY <5>1, <3>2, <3>4, <1>1 DEF Covered
      <4> QED
        BY <4>1, <4>2
    <3> QED
      BY <3>6, <3>8, <3>9
  <2> QED
    BY <2>4, <2>5
<1>4. CASE SendRegister(c)
  <2>1. /\ handler[c] = "registering" /\ handler' = [handler EXCEPT ![c] = "done"]
        /\ UNCHANGED <<object, conn, closed>> /\ Free(m)' = Free(m)
    BY <1>4 DEF SendRegister, clientVars, Free
  <2>2. /\ registerChan'[m] = IF m = n THEN Append(registerChan[m], o) ELSE registerChan[m]
    BY <1>4 DEF SendRegister, TypeOK, Domains
  <2>3. \A d \in Conn : handler'[d] = IF d = c THEN "done" ELSE handler[d]
    BY <2>1, <1>0
  <2>4. CASE m # n
    <3>1. Registering(m)' = Registering(m)
      BY <2>3, <2>4 DEF Registering
    <3> QED
      BY <2>1, <2>2, <2>4, <3>1, <1>1, RegSame
  <2>5. CASE m = n
    <3>1. Registering(m)' = Registering(m) \ {c} /\ c \in Registering(m)
      BY <2>1, <2>3, <2>5 DEF Registering
    <3>2. o \in Regs(m) /\ Regs(m)' = Regs(m) \ {o}
      <4>1. \A d \in Registering(m) : object[d] = o => d = c
        BY <3>1 DEF Apart
      <4> QED
        BY <3>1, <4>1, <2>1 DEF Regs
    <3>3. o \in Used(m) /\ registerChan[m] \in Seq(Used(m)) /\ o \notin Queued(m)
      BY <2>1, <2>5, <3>2 DEF TypeOK, ConnTypes, ChanTypes, Apart
    <3>4. Queued(m)' = Queued(m) \cup {o} /\ IsInjective(registerChan'[m])
      <4> HIDE DEF o
      <4>1. ToSet(Append(registerChan[m], o)) = ToSet(registerChan[m]) \cup {o}
            /\ IsInjective(Append(registerChan[m], o))
        BY <3>3, SeqAppend DEF Apart, Queued
      <4> QED
        BY <4>1, <2>2, <2>5 DEF Queued
    <3> HIDE DEF o
    <3>5. Apart(m)'
      BY <3>1, <3>2, <3>4, <2>1, <1>1 DEF Apart
    <3>6. Out(m)' = Out(m)
      BY <2>1 DEF Out
    <3>7. Covered(m)'
      BY <3>2, <3>4, <3>6, <2>1, <1>1 DEF Covered
    <3>8. Lists(m)'
      BY <2>1, <1>1 DEF Lists, UserID
    <3> QED
      BY <3>5, <3>7, <3>8
  <2> QED
    BY <2>4, <2>5
<1> QED
  BY <1>2, <1>3, <1>4 DEF Handler, Reader

\* A step of one gateway leaves the others alone.
LEMMA Elsewhere ==
  ASSUME TypeOK, LifeInv, NEW n \in Node,
         EventLoop(n) \/ (\E u \in User, p \in Platform : KickUserOffline(n, u, p)) \/ Kicker(n),
         NEW m \in Node, m # n
  PROVE  /\ UNCHANGED <<handler, object, conn>>
         /\ clients'[m] = clients[m] /\ registerChan'[m] = registerChan[m] /\ Free(m)' = Free(m)
         /\ loop'[m] = loop[m] /\ kicker'[m] = kicker[m] /\ closed'[m] = closed[m]
<1>0. /\ DOMAIN loop = Node /\ DOMAIN kicker = Node /\ DOMAIN registerChan = Node
      /\ DOMAIN clients = Node
  BY DEF TypeOK, Domains
<1>1. CASE LoopCloses(n) \/ KickerCloses(n)
  <2>1. /\ UNCHANGED <<handler, object, conn, pool, registerChan, clients>>
        /\ loop'[m] = loop[m] /\ kicker'[m] = kicker[m]
    BY <1>1, LoopClosing, KickerClosing
  <2>2. closed'[m] = closed[m]
    BY <1>1, LoopClosing, KickerClosing, ClosedGrows
  <2> QED
    BY <2>1, <2>2 DEF Free
<1>2. CASE \/ RegisterClient(n) \/ TakeKick(n) \/ UnregisterClient(n) \/ KicksDone(n)
           \/ (\E k \in Node : Notify(n, k)) \/ RegisterDone(n)
           \/ (\E u \in User, p \in Platform : KickUserOffline(n, u, p)) \/ KickerDeletes(n)
  <2>1. UNCHANGED <<handler, object, conn, closed>>
    BY <1>2 DEF RegisterClient, TakeKick, UnregisterClient, KicksDone, Notify, RegisterDone,
                KickUserOffline, KickerDeletes, connVars, clientVars
  <2>2. clients'[m] = clients[m]
    BY <1>0, <1>2 DEF RegisterClient, TakeKick, UnregisterClient, KicksDone, Notify, RegisterDone,
                      KickUserOffline, KickerDeletes, mapVars, Set
  <2>3. registerChan'[m] = registerChan[m]
    BY <1>0, <1>2 DEF RegisterClient, TakeKick, UnregisterClient, KicksDone, Notify, RegisterDone,
                      KickUserOffline, KickerDeletes, chanVars
  <2>4. loop'[m] = loop[m]
    BY <1>0, <1>2 DEF RegisterClient, TakeKick, UnregisterClient, KicksDone, Notify, RegisterDone,
                      KickUserOffline, KickerDeletes
  <2>5. kicker'[m] = kicker[m]
    BY <1>0, <1>2 DEF RegisterClient, TakeKick, UnregisterClient, KicksDone, Notify, RegisterDone,
                      KickUserOffline, KickerDeletes
  <2>6. Free(m)' = Free(m)
    <3>1. UNCHANGED pool \/ UnregisterClient(n)
      BY <1>2 DEF RegisterClient, TakeKick, KicksDone, Notify, RegisterDone, KickUserOffline, KickerDeletes
    <3> QED
      BY <3>1, LifeUnregister DEF Free
  <2> QED
    BY <2>1, <2>2, <2>3, <2>4, <2>5, <2>6
<1> QED
  BY <1>1, <1>2 DEF EventLoop, Kicker

LEMMA RegOther ==
  ASSUME TypeOK, LifeInv, NEW n \in Node,
         EventLoop(n) \/ (\E u \in User, p \in Platform : KickUserOffline(n, u, p)) \/ Kicker(n),
         NEW m \in Node, m # n, Lists(m), Apart(m), Covered(m)
  PROVE  Lists(m)' /\ Apart(m)' /\ Covered(m)'
<1>1. /\ UNCHANGED <<handler, object, conn>>
      /\ clients'[m] = clients[m] /\ registerChan'[m] = registerChan[m] /\ Free(m)' = Free(m)
      /\ loop'[m] = loop[m] /\ kicker'[m] = kicker[m] /\ closed'[m] = closed[m]
  BY Elsewhere
<1>2. Enters(m)' = Enters(m) /\ Doomed(m)' = Doomed(m) /\ Registering(m)' = Registering(m)
  BY <1>1 DEF Enters, Entering, Doomed, Registering
<1> QED
  BY <1>1, <1>2, RegSame

LEMMA RegLoop ==
  ASSUME TypeOK, LifeInv, RegisterFirst, NEW n \in Node, EventLoop(n), Lists(n), Apart(n), Covered(n)
  PROVE  Lists(n)' /\ Apart(n)' /\ Covered(n)'
<1>0. /\ DOMAIN loop = Node /\ DOMAIN registerChan = Node
      /\ loop[n] \in LoopState(n) /\ loop[n].kicks \in Seq(Used(n)) /\ loop[n].new \in Used(n) \cup {None}
      /\ registerChan[n] \in Seq(Used(n)) /\ unregisterChan[n] \in Seq(Used(n))
      /\ kickChan[n] \in Seq(Kick(n))
      /\ loop[n].at = "select" => loop[n].kicks = << >>
      /\ loop[n].at = "notify" => loop[n].kicks = << >>
  BY DEF TypeOK, Domains, LoopTypes, LoopState, ChanTypes, Idle
<1>1. /\ UNCHANGED <<handler, object, conn, kicker>>
      /\ Registering(n)' = Registering(n) /\ Regs(n)' = Regs(n)
  <2>1. UNCHANGED <<handler, object, conn, kicker>>
    BY LoopClosing DEF EventLoop, RegisterClient, TakeKick, UnregisterClient, KicksDone, Notify,
                       RegisterDone, connVars, clientVars
  <2> QED
    BY <2>1 DEF Registering, Regs
<1>p. ASSUME UNCHANGED pool PROVE Free(n)' = Free(n) /\ Out(n)' = Out(n)
  BY <1>p DEF Free, Out
<1>e. ToSet(<< >>) = {}
  BY DEF ToSet
<1>2. CASE RegisterClient(n)
  <2> DEFINE o == Head(registerChan[n])
             u == UserID(n, o)
             p == PlatformID(n, o)
             victims == Victims(n, u, p, OnPlatform(n, u, p))
  <2>1. /\ registerChan[n] # << >> /\ registerChan'[n] = Tail(registerChan[n])
        /\ loop[n].at = "select" /\ UNCHANGED closed /\ Free(n)' = Free(n) /\ Out(n)' = Out(n)
    BY <1>2, <1>0, <1>p DEF RegisterClient, clientVars
  <2>2. /\ o \in Used(n) /\ Queued(n) = {o} \cup Queued(n)' /\ o \notin Queued(n)'
        /\ IsInjective(registerChan'[n])
    BY <2>1, <1>0, SeqHead DEF Queued, Apart
  <2>3. o \notin Listed(n) /\ o \notin Regs(n) /\ o \notin Free(n) /\ Enters(n) = {}
    BY <2>1, <2>2 DEF Apart, Enters, Entering, Kicking
  <2>5. u \in User
    <3> HIDE DEF o
    <3> QED
      BY <2>2, Owner
  <2>6. CASE clients[n][u] = << >>
    <3>1. clients' = [clients EXCEPT ![n][u] = Append(@, o)] /\ loop' = [loop EXCEPT ![n] = Notifying(o)]
      BY <1>2, <2>6 DEF RegisterClient, Set
    <3>2. loop'[n] = Notifying(o)
      BY <3>1, <1>0
    <3>3. Enters(n)' = {} /\ Doomed(n) \subseteq Doomed(n)'
      BY <3>2, <2>1, <1>0, <1>1, <1>e DEF Enters, Entering, Kicking, Notifying, Doomed
    <3>4. Lists(n)' /\ Listed(n)' = Listed(n) \cup {o}
      <4> HIDE DEF o
      <4> QED
        BY <3>1, <2>2, <2>3, <1>1, ListedMore
    <3> HIDE DEF o
    <3>5. Apart(n)'
      BY <3>3, <3>4, <2>1, <2>2, <2>3, <1>1 DEF Apart
    <3>6. Covered(n)'
      BY <3>3, <3>4, <2>1, <2>2, <2>3, <1>1 DEF Covered
    <3> QED
      BY <3>4, <3>5, <3>6
  <2>7. CASE clients[n][u] # << >>
    <3>1. /\ clients' = [clients EXCEPT ![n][u] = Without(n, u, victims)]
          /\ loop' = [loop EXCEPT ![n] = [at |-> "kick", new |-> o, kicks |-> victims, todo |-> {}]]
      BY <1>2, <2>7 DEF RegisterClient
    <3>2. victims \in Seq(Used(n))
      <4> HIDE DEF u, p
      <4> QED
        BY <2>5, OnPlatformType, VictimsType
    <3>3. o # None
      BY <2>2, NoneAssumption DEF Used
    <3>4. loop'[n] = [at |-> "kick", new |-> o, kicks |-> victims, todo |-> {}]
      BY <3>1, <1>0
    <3> HIDE DEF victims, u, o
    <3>5. Enters(n)' = {o} /\ Doomed(n) \subseteq Doomed(n)' /\ ToSet(victims) \subseteq Doomed(n)'
      BY <3>3, <3>4, <2>1, <1>0, <1>1, <1>e DEF Enters, Entering, Kicking, Doomed
    <3>6. Lists(n)' /\ Listed(n)' \subseteq Listed(n) /\ Listed(n) \ Listed(n)' \subseteq ToSet(victims)
      BY <3>1, <3>2, <2>5, <1>1, ListedLess
    <3>7. Apart(n)'
      BY <3>5, <3>6, <2>1, <2>2, <2>3, <1>1 DEF Apart
    <3>8. Covered(n)'
      BY <3>5, <3>6, <2>1, <2>2, <2>3, <1>1 DEF Covered
    <3> QED
      BY <3>6, <3>7, <3>8
  <2> QED
    BY <2>6, <2>7
<1>3. CASE TakeKick(n)
  <2> DEFINE k == Head(kickChan[n])
             victims == Victims(n, k.user, k.platform, k.old)
  <2>1. /\ kickChan[n] # << >> /\ loop[n].at = "select"
        /\ UNCHANGED <<registerChan, closed>> /\ Free(n)' = Free(n) /\ Out(n)' = Out(n)
        /\ loop'[n] = [at |-> "kick", new |-> None, kicks |-> victims, todo |-> {}]
        /\ clients' = [clients EXCEPT ![n][k.user] = Without(n, k.user, victims)]
    BY <1>3, <1>0, <1>p DEF TakeKick, clientVars
  <2>2. k.user \in User /\ k.old \in Seq(Used(n))
    <3>1. k \in Kick(n)
      BY <2>1, <1>0, SeqHead
    <3> QED
      BY <3>1 DEF Kick
  <2> HIDE DEF k
  <2>3. victims \in Seq(Used(n))
    BY <2>2, VictimsType
  <2> HIDE DEF victims
  <2>4. Enters(n) = {} /\ Enters(n)' = {} /\ Doomed(n) \subseteq Doomed(n)' /\ ToSet(victims) \subseteq Doomed(n)'
    BY <2>1, <1>0, <1>1, <1>e DEF Enters, Entering, Kicking, Doomed
  <2>5. Lists(n)' /\ Listed(n)' \subseteq Listed(n) /\ Listed(n) \ Listed(n)' \subseteq ToSet(victims)
    BY <2>1, <2>2, <2>3, <1>1, ListedLess
  <2>6. Queued(n)' = Queued(n)
    BY <2>1 DEF Queued
  <2>7. Apart(n)'
    BY <2>1, <2>4, <2>5, <2>6, <1>1 DEF Apart
  <2>8. Covered(n)'
    BY <2>1, <2>4, <2>5, <2>6, <1>1 DEF Covered
  <2> QED
    BY <2>5, <2>7, <2>8
<1>4. CASE UnregisterClient(n)
  <2> DEFINE o == Head(unregisterChan[n])
             u == UserID(n, o)
  <2>1. /\ unregisterChan[n] # << >> /\ loop[n].at = "select"
        /\ UNCHANGED <<registerChan, closed, loop>>
        /\ Free(n)' = Free(n) \cup {o}
        /\ clients' = [clients EXCEPT ![n][u] = Without(n, u, <<o>>)]
        /\ o \notin Queued(n)
        /\ \A c \in Conn : ~(handler[c] = "registering" /\ object[c] = o)
    BY <1>4, <1>0, LifeUnregister DEF UnregisterClient, clientVars, Queued
  <2>2. o \in Used(n)
    BY <2>1, <1>0, SeqHead
  <2> HIDE DEF o
  <2>3. u \in User /\ <<o>> \in Seq(Used(n)) /\ ToSet(<<o>>) = {o}
    BY <2>2, Owner, SeqOne
  <2>4. Lists(n)' /\ Listed(n)' \subseteq Listed(n) /\ Listed(n) \ Listed(n)' \subseteq {o}
        /\ o \notin Listed(n)'
    BY <2>1, <2>3, <1>1, ListedLess
  <2>5. Queued(n)' = Queued(n) /\ Enters(n) = {} /\ Enters(n)' = {} /\ Doomed(n)' = Doomed(n)
        /\ Out(n)' = Out(n) \ {o}
    BY <2>1, <1>1 DEF Queued, Out, Enters, Entering, Kicking, Doomed
  <2>6. o \notin Regs(n)
    BY <2>1 DEF Regs, Registering
  <2>7. Apart(n)'
    BY <2>1, <2>4, <2>5, <2>6, <1>1 DEF Apart
  <2>8. Covered(n)'
    BY <2>1, <2>4, <2>5, <1>1 DEF Covered
  <2> QED
    BY <2>4, <2>7, <2>8
<1>5. CASE LoopCloses(n)
  <2>1. /\ UNCHANGED <<registerChan, clients>> /\ Free(n)' = Free(n)
        /\ \A b \in Doomed(n) : b \in Doomed(n)' \/ closed'[n][b]
    BY <1>5, <1>p, LoopClosing
  <2>2. \A b \in Object[n] : closed[n][b] => closed'[n][b]
    BY <1>5, LoopClosing, ClosedGrows
  <2>3. Enters(n)' = Enters(n)
    BY <1>5, LoopClosing DEF Enters, Entering
  <2> QED
    BY <2>1, <2>2, <2>3, <1>1, RegSame
<1>6. CASE KicksDone(n)
  <2> DEFINE o == loop[n].new
  <2>1. /\ loop[n].at = "kick" /\ loop[n].kicks = << >>
        /\ UNCHANGED <<registerChan, closed>> /\ Free(n)' = Free(n) /\ Out(n)' = Out(n)
    BY <1>6, <1>p DEF KicksDone, clientVars, chanVars
  <2>2. CASE o = None
    <3>1. loop'[n] = Idle /\ UNCHANGED clients
      BY <1>6, <2>2, <1>0 DEF KicksDone
    <3>2. Enters(n)' = Enters(n) /\ Doomed(n)' = Doomed(n)
      BY <3>1, <2>1, <2>2, <1>1 DEF Enters, Entering, Kicking, Doomed, Idle
    <3> QED
      BY <3>1, <3>2, <2>1, <1>1, RegSame
  <2>3. CASE o # None
    <3>1. loop'[n] = Notifying(o) /\ clients' = [clients EXCEPT ![n][UserID(n, o)] = Append(@, o)]
      BY <1>6, <2>3, <1>0 DEF KicksDone, Set
    <3>2. Enters(n) = {o} /\ Enters(n)' = {} /\ Doomed(n)' = Doomed(n)
      BY <3>1, <2>1, <2>3, <1>1 DEF Enters, Entering, Kicking, Doomed, Notifying
    <3>3. o \in Used(n) \ Listed(n)
      BY <3>2, <2>3, <1>0 DEF Apart
    <3>4. Queued(n)' = Queued(n)
      BY <2>1 DEF Queued
    <3> HIDE DEF o
    <3>5. Lists(n)' /\ Listed(n)' = Listed(n) \cup {o}
      BY <3>1, <3>3, <1>1, ListedMore
    <3>6. Apart(n)'
      BY <3>2, <3>4, <3>5, <2>1, <1>1 DEF Apart
    <3>7. Covered(n)'
      BY <3>2, <3>4, <3>5, <2>1, <1>1 DEF Covered
    <3> QED
      BY <3>5, <3>6, <3>7
  <2> QED
    BY <2>2, <2>3
<1>7. ASSUME NEW k \in Node, Notify(n, k) PROVE Lists(n)' /\ Apart(n)' /\ Covered(n)'
  <2> DEFINE l == loop[n]
  <2>1. /\ l.at = "notify" /\ UNCHANGED <<registerChan, clients, closed>> /\ Free(n)' = Free(n)
        /\ loop'[n] = [l EXCEPT !.todo = @ \ {k}] /\ l \in LoopState(n)
    BY <1>7, <1>0, <1>p DEF Notify, clientVars, mapVars
  <2>2. loop'[n].at = "notify" /\ loop'[n].kicks = l.kicks
    <3> HIDE DEF l
    <3> QED
      BY <2>1 DEF LoopState
  <2>3. Enters(n)' = Enters(n) /\ Doomed(n)' = Doomed(n)
    BY <2>1, <2>2, <1>1 DEF Enters, Entering, Kicking, Doomed
  <2> QED
    BY <2>1, <2>3, <1>1, RegSame
<1>8. CASE RegisterDone(n)
  <2>1. /\ loop[n].at = "notify" /\ UNCHANGED <<registerChan, clients, closed>>
        /\ Free(n)' = Free(n) /\ loop'[n] = Idle
    BY <1>8, <1>0, <1>p DEF RegisterDone, clientVars, chanVars, mapVars
  <2>2. Enters(n)' = Enters(n)
    BY <2>1 DEF Enters, Entering, Kicking, Idle
  <2>3. Doomed(n)' = Doomed(n)
    BY <2>1, <1>0, <1>1 DEF Doomed, Idle
  <2> QED
    BY <2>1, <2>2, <2>3, <1>1, RegSame
<1> QED
  BY <1>2, <1>3, <1>4, <1>5, <1>6, <1>7, <1>8 DEF EventLoop

LEMMA RegKicker ==
  ASSUME TypeOK, LifeInv, NEW n \in Node,
         (\E u \in User, p \in Platform : KickUserOffline(n, u, p)) \/ Kicker(n),
         Lists(n), Apart(n), Covered(n)
  PROVE  Lists(n)' /\ Apart(n)' /\ Covered(n)'
<1>0. /\ DOMAIN kicker = Node /\ kicker[n] \in KickerState(n) /\ kicker[n].old \in Seq(Used(n))
      /\ kicker[n].at # "idle" => kicker[n].old # << >>
  BY DEF TypeOK, Domains, KickerTypes, KickerState
<1>1. /\ UNCHANGED <<handler, object, conn, loop, registerChan>> /\ Free(n)' = Free(n)
      /\ Registering(n)' = Registering(n) /\ Enters(n)' = Enters(n)
  <2>1. UNCHANGED <<handler, object, conn, loop, registerChan, pool>>
    BY KickerClosing DEF Kicker, KickUserOffline, KickerDeletes, connVars, clientVars, chanVars
  <2> QED
    BY <2>1 DEF Registering, Enters, Entering, Free
<1>2. ASSUME NEW u \in User, NEW p \in Platform, KickUserOffline(n, u, p)
      PROVE  Lists(n)' /\ Apart(n)' /\ Covered(n)'
  <2> DEFINE os == OnPlatform(n, u, p)
  <2>1. kicker[n].at = "idle" /\ kicker'[n] = [at |-> "kick", old |-> os] /\ UNCHANGED <<clients, closed>>
    BY <1>2, <1>0 DEF KickUserOffline, mapVars, clientVars
  <2> HIDE DEF os
  <2>2. Doomed(n)' = Doomed(n)
    BY <2>1, <1>1 DEF Doomed
  <2> QED
    BY <2>1, <2>2, <1>1, RegSame
<1>3. CASE KickerDeletes(n)
  <2> DEFINE o == Head(kicker[n].old)
             k == kicker[n]
  <2>1. /\ k.at = "kick" /\ kicker'[n] = [k EXCEPT !.at = "close"] /\ UNCHANGED closed
        /\ clients' = [clients EXCEPT ![n][UserID(n, o)] = Without(n, UserID(n, o), <<o>>)]
    BY <1>3, <1>0 DEF KickerDeletes, clientVars
  <2>2. o \in Used(n)
    BY <2>1, <1>0, SeqHead
  <2>3. kicker'[n].at = "close" /\ kicker'[n].old = k.old
    <3>1. k \in KickerState(n)
      BY <1>0
    <3> HIDE DEF k
    <3> QED
      BY <3>1, <2>1 DEF KickerState
  <2>4. Doomed(n) \subseteq Doomed(n)' /\ o \in Doomed(n)'
    BY <2>1, <2>3, <1>1 DEF Doomed
  <2> HIDE DEF o
  <2>5. UserID(n, o) \in User /\ <<o>> \in Seq(Used(n)) /\ ToSet(<<o>>) = {o}
    BY <2>2, Owner, SeqOne
  <2>6. Lists(n)' /\ Listed(n)' \subseteq Listed(n) /\ Listed(n) \ Listed(n)' \subseteq {o}
    BY <2>1, <2>5, <1>1, ListedLess
  <2>7. Regs(n)' = Regs(n) /\ Queued(n)' = Queued(n) /\ Out(n)' = Out(n)
    BY <1>1 DEF Regs, Queued, Out
  <2>8. Apart(n)'
    BY <2>6, <2>7, <1>1 DEF Apart
  <2>9. Covered(n)'
    BY <2>1, <2>4, <2>6, <2>7, <1>1 DEF Covered
  <2> QED
    BY <2>6, <2>8, <2>9
<1>4. CASE KickerCloses(n)
  <2>1. /\ UNCHANGED clients
        /\ \A b \in Doomed(n) : b \in Doomed(n)' \/ closed'[n][b]
    BY <1>4, KickerClosing
  <2>2. \A b \in Object[n] : closed[n][b] => closed'[n][b]
    BY <1>4, KickerClosing, ClosedGrows
  <2> QED
    BY <2>1, <2>2, <1>1, RegSame
<1> QED
  BY <1>2, <1>3, <1>4 DEF Kicker

LEMMA RegStep ==
  ASSUME LockKept, TypeOK, LifeInv, RegInv, [Next]_vars
  PROVE  RegInv'
<1> SUFFICES ASSUME RegisterFirst, NEW m \in Node
             PROVE  Lists(m)' /\ Apart(m)' /\ Covered(m)'
  BY DEF RegInv
<1>0. Lists(m) /\ Apart(m) /\ Covered(m)
  BY DEF RegInv
<1>1. CASE UNCHANGED vars
  <2>1. UNCHANGED <<handler, object, conn, closed, clients, registerChan, loop, kicker>> /\ Free(m)' = Free(m)
    BY <1>1 DEF vars, connVars, clientVars, chanVars, mapVars, Free
  <2>2. Enters(m)' = Enters(m) /\ Registering(m)' = Registering(m) /\ Doomed(m)' = Doomed(m)
    BY <2>1 DEF Enters, Entering, Registering, Doomed
  <2> QED
    BY <2>1, <2>2, <1>0, RegSame
<1>2. ASSUME NEW c \in Conn, Handler(c) \/ Reader(c) PROVE Lists(m)' /\ Apart(m)' /\ Covered(m)'
  BY <1>0, <1>2, RegConn
<1>3. ASSUME NEW n \in Node,
             EventLoop(n) \/ (\E u \in User, p \in Platform : KickUserOffline(n, u, p)) \/ Kicker(n)
      PROVE  Lists(m)' /\ Apart(m)' /\ Covered(m)'
  <2>1. CASE m # n
    BY <2>1, <1>0, <1>3, RegOther
  <2>2. CASE m = n
    BY <2>2, <1>0, <1>3, RegLoop, RegKicker
  <2> QED
    BY <2>1, <2>2
<1> QED
  BY <1>1, <1>2, <1>3 DEF Next

LEMMA RegistrationHolds == Spec => [](TypeOK /\ (LockKept => LifeInv /\ RegInv))
<1>1. TypeOK /\ (LockKept => LifeInv /\ RegInv) /\ [Next]_vars => (LockKept => LifeInv /\ RegInv)'
  BY LifeStep, RegStep
<1>2. Init => (LockKept => LifeInv /\ RegInv)
  BY InitLife, InitReg
<1> QED
  BY <1>1, <1>2, TypeCorrect, PTL DEF Spec

\* When no object is reset while it is being closed and none unregistered
\* before it is registered, a client listed under a user belongs to that user:
\* the pool may have handed its object to several connections in the meantime,
\* but never while it was listed.
THEOREM OwnClientsOnly == Spec => [](LockKept /\ RegisterFirst => OwnClients)
<1>1. TypeOK /\ (LockKept => LifeInv /\ RegInv) => (LockKept /\ RegisterFirst => OwnClients)
  BY DEF RegInv, Lists, OwnClients
<1> QED
  BY <1>1, RegistrationHolds, PTL

\* Under the same conditions the user map of a quiet gateway lists, for each
\* user, the open connections: each once, none missing and none left over.
THEOREM RosterComplete == Spec => [](LockKept /\ RegisterFirst => Roster)
<1>1. TypeOK /\ (LockKept => LifeInv /\ RegInv) => (LockKept /\ RegisterFirst => Roster)
  <2> SUFFICES ASSUME TypeOK, LifeInv, RegInv, RegisterFirst, NEW n \in Node, NEW u \in User, Quiet(n)
               PROVE  /\ {conn[n][o] : o \in ToSet(clients[n][u])} = {c \in Live(n) : UserOf[c] = u}
                      /\ IsInjective(clients[n][u])
    BY DEF Roster
  <2>1. Lists(n) /\ Apart(n) /\ Covered(n)
    BY DEF RegInv
  <2>2. Regs(n) = {} /\ Queued(n) = {} /\ Enters(n) = {} /\ Doomed(n) = {}
    <3>1. /\ registerChan[n] = << >> /\ loop[n].at = "select" /\ loop[n].kicks = << >>
          /\ kicker[n].at = "idle"
      BY DEF Quiet, Idle
    <3>2. Registering(n) = {}
      BY DEF Quiet, Registering
    <3>3. ToSet(<< >>) = {}
      BY DEF ToSet
    <3> QED
      BY <3>1, <3>2, <3>3 DEF Regs, Queued, Enters, Entering, Kicking, Doomed
  <2>3. \A o \in Out(n) : o \in Listed(n)
    BY <2>1, <2>2, QuietPlace DEF Covered
  <2>4. \A o \in Listed(n) : o \in Out(n)
    BY <2>1, ListType DEF Apart, Out, Listed
  <2>5. ASSUME NEW o \in ToSet(clients[n][u]) PROVE conn[n][o] \in Live(n) /\ UserOf[conn[n][o]] = u
    <3>1. o \in Out(n)
      BY <2>4, <2>5 DEF Listed
    <3> QED
      BY <3>1, <2>1, <2>5, QuietPlace DEF Lists, UserID
  <2>6. ASSUME NEW c \in Live(n), UserOf[c] = u PROVE \E o \in ToSet(clients[n][u]) : conn[n][o] = c
    <3>1. object[c] \in Listed(n) /\ conn[n][object[c]] = c
      BY <2>3, QuietPlace
    <3>2. PICK w \in User : object[c] \in ToSet(clients[n][w])
      BY <3>1 DEF Listed
    <3>3. UserID(n, object[c]) = w
      BY <3>2, <2>1 DEF Lists
    <3> QED
      BY <3>1, <3>2, <3>3, <2>6 DEF UserID
  <2> QED
    BY <2>1, <2>5, <2>6 DEF Lists
<1> QED
  BY <1>1, RegistrationHolds, PTL

-----------------------------------------------------------------------------
(* One instance.  A login that is open is on its way into the user map, in *)
(* it, or about to be closed.  Of two that exclude each other one is still *)
(* waiting to be registered, or about to be closed, or, if they are on two *)
(* gateways, the login of one is being announced to the gateway of the     *)
(* other.  None of this needs a client to be registered before it is       *)
(* unregistered.                                                           *)

Open == {c \in Conn : socket[c] = "open"}

\* Its handler or the channel has it; the loop closes others before it enters
\* it; the user map has it; somebody is about to close it.
Waiting(c) == handler[c] = "registering" \/ object[c] \in Queued(NodeOf[c])
InHand(c) == object[c] \in Enters(NodeOf[c])
OnList(c) == object[c] \in ToSet(clients[NodeOf[c]][UserOf[c]])
Leaving(c) == object[c] \in Doomed(NodeOf[c])
Reached(c) == Waiting(c) \/ InHand(c) \/ OnList(c) \/ Leaving(c)

\* c's loop has just entered it, and has all the gateways to tell.
Announces(c) ==
  loop[NodeOf[c]].at = "notify" /\ loop[NodeOf[c]].new = object[c] /\ loop[NodeOf[c]].todo = Node
\* c's loop has d's gateway to tell; d's gateway has been told.
Telling(c, d) ==
  loop[NodeOf[c]].at = "notify" /\ loop[NodeOf[c]].new = object[c] /\ NodeOf[d] \in loop[NodeOf[c]].todo
Ordered(c, d) ==
  \E k \in ToSet(kickChan[NodeOf[d]]) :
    /\ k.user = UserOf[c] /\ k.platform = PlatformOf[c]
    /\ Policy = "SameTerm" => object[d] \in ToSet(k.old)

Between(c, d) == InHand(c) \/ Telling(c, d) \/ Ordered(c, d)
Resolving(c, d) ==
  \/ Waiting(c) \/ Waiting(d) \/ Leaving(c) \/ Leaving(d)
  \/ NodeOf[c] # NodeOf[d] /\ (Between(c, d) \/ Between(d, c))

ReachInv == \A c \in Open : Reached(c)
PairInv == \A c, d \in Open : Exclusive(c, d) => Resolving(c, d)

LEMMA InitPair == Init => ReachInv /\ PairInv
BY DEF Init, Open, ReachInv, PairInv

\* What is known of the client of an open connection.
LEMMA OpenFacts ==
  ASSUME TypeOK, LifeInv, NEW c \in Open
  PROVE  /\ c \in Conn /\ NodeOf[c] \in Node /\ UserOf[c] \in User /\ PlatformOf[c] \in Platform
         /\ object[c] \in Used(NodeOf[c]) /\ object[c] \in Object[NodeOf[c]] /\ object[c] # None
         /\ conn[NodeOf[c]][object[c]] = c /\ ~closed[NodeOf[c]][object[c]]
         /\ object[c] \notin Free(NodeOf[c])
         /\ UserID(NodeOf[c], object[c]) = UserOf[c]
         /\ PlatformID(NodeOf[c], object[c]) = PlatformOf[c]
<1>1. c \in Conn /\ socket[c] = "open"
  BY DEF Open
<1>2. NodeOf[c] \in Node /\ UserOf[c] \in User /\ PlatformOf[c] \in Platform
  BY <1>1, ConnAssumption
<1>3. /\ object[c] # None /\ object[c] \notin Free(NodeOf[c])
      /\ conn[NodeOf[c]][object[c]] = c /\ ~closed[NodeOf[c]][object[c]]
  BY <1>1 DEF LifeInv, Held
<1>4. object[c] \in Used(NodeOf[c])
  BY <1>1, <1>3 DEF TypeOK, ConnTypes
<1> QED
  BY <1>1, <1>2, <1>3, <1>4 DEF Used, UserID, PlatformID

\* An object that has an open connection is the only one that has it.
LEMMA OwnObject ==
  ASSUME TypeOK, LifeInv, NEW c \in Open, NEW o \in Used(NodeOf[c]), conn[NodeOf[c]][o] = c
  PROVE  o = object[c]
<1>1. o \in Object[NodeOf[c]] /\ conn[NodeOf[c]][o] # None /\ NodeOf[c] \in Node
  BY OpenFacts DEF Used
<1>2. Tied(NodeOf[c], o)
  BY <1>1 DEF LifeInv, Life
<1> QED
  BY <1>1, <1>2 DEF Tied

\* A login on platform p and a client on platform q exclude each other.
Against(p, q) ==
  CASE Policy = "NotKick" -> FALSE
    [] Policy = "SameTerm" -> p = q
    [] Policy = "SameClass" -> ClassOf[p] = ClassOf[q]
    [] Policy = "PCAndOther" -> ClassOf[p] # "PC" /\ ClassOf[q] # "PC"

LEMMA ExclusiveIs ==
  ASSUME NEW c, NEW d, Exclusive(c, d)
  PROVE  c # d /\ UserOf[c] = UserOf[d] /\ Against(PlatformOf[c], PlatformOf[d]) /\ Exclusive(d, c)
<1>1. Policy \in Policies
  BY PolicyAssumption
<1> QED
  BY <1>1 DEF Exclusive, Against, Policies

\* The login check finds every listed client that the policy excludes, if the
\* snapshot it is given under policy 1 has it.
LEMMA VictimsHas ==
  ASSUME TypeOK, NEW n \in Node, NEW u \in User, NEW p, NEW snapshot,
         NEW o \in ToSet(clients[n][u]), Against(p, PlatformID(n, o)),
         Policy = "SameTerm" => o \in ToSet(snapshot)
  PROVE  o \in ToSet(Victims(n, u, p, snapshot))
<1> DEFINE Class(C) == Only(clients[n][u], {b \in ToSet(clients[n][u]) : ClassOf[PlatformID(n, b)] \in C})
<1>1. Policy \in Policies /\ DOMAIN ClassOf = Platform
  BY PolicyAssumption
<1>2. PlatformID(n, o) \in Platform
  BY ListType, Owner
<1>3. \A C : ClassOf[PlatformID(n, o)] \in C => o \in ToSet(Class(C))
  BY ListType, OnlySet
<1>4. ClassOf[PlatformID(n, o)] \in Range(ClassOf)
  BY <1>1, <1>2 DEF Range
<1>5. CASE Policy = "SameTerm"
  BY <1>5 DEF Victims
<1>6. CASE Policy = "SameClass"
  <2>1. ClassOf[PlatformID(n, o)] \in {ClassOf[p]}
    BY <1>6 DEF Against
  <2>2. Victims(n, u, p, snapshot) = Class({ClassOf[p]})
    BY <1>6 DEF Victims
  <2> HIDE DEF Class
  <2> QED
    BY <2>1, <2>2, <1>3
<1>7. CASE Policy = "PCAndOther"
  <2>1. ClassOf[PlatformID(n, o)] \in Range(ClassOf) \ {"PC"} /\ ClassOf[p] # "PC"
    BY <1>4, <1>7 DEF Against
  <2>2. Victims(n, u, p, snapshot) = Class(Range(ClassOf) \ {"PC"})
    BY <2>1, <1>7 DEF Victims
  <2> HIDE DEF Class
  <2> QED
    BY <2>1, <2>2, <1>3
<1> QED
  BY <1>1, <1>5, <1>6, <1>7 DEF Policies, Against

\* What a step makes of a login that is open before it and after it.
Moves(c) ==
  /\ object'[c] = object[c]
  /\ Waiting(c) => Waiting(c)' \/ InHand(c)' \/ (OnList(c)' /\ Announces(c)')
  /\ InHand(c) => InHand(c)' \/ (OnList(c)' /\ Announces(c)')
  /\ OnList(c) => OnList(c)' \/ Leaving(c)'
  /\ Leaving(c) => Leaving(c)'

LEMMA MovesSame ==
  ASSUME NEW c, NEW n, n = NodeOf[c], handler'[c] = handler[c], object'[c] = object[c],
         registerChan'[n] = registerChan[n], clients'[n] = clients[n],
         loop'[n] = loop[n], kicker'[n] = kicker[n]
  PROVE  Moves(c)
<1>1. Queued(n)' = Queued(n) /\ Enters(n)' = Enters(n) /\ Doomed(n)' = Doomed(n)
  BY DEF Queued, Enters, Entering, Doomed
<1> QED
  BY <1>1 DEF Moves, Waiting, InHand, OnList, Leaving

\* A deletion from the map, and an entry into it, seen from such a login.
LEMMA ListsLess ==
  ASSUME TypeOK, LifeInv, NEW c \in Open, NEW n \in Node, n = NodeOf[c],
         NEW u \in User, NEW os \in Seq(Used(n)),
         clients' = [clients EXCEPT ![n][u] = Without(n, u, os)], UNCHANGED object, OnList(c)
  PROVE  OnList(c)' \/ object[c] \in ToSet(os)
<1> DEFINE s == Without(n, u, os)
<1>1. clients'[n] = [clients[n] EXCEPT ![u] = s] /\ DOMAIN clients[n] = User
  BY DEF TypeOK, Domains, MapTypes
<1>2. ToSet(s) = {o \in ToSet(clients[n][u]) : \A v \in ToSet(os) : conn[n][o] # conn[n][v]}
  BY WithoutType
<1> HIDE DEF s
<1>3. \A v \in User : clients'[n][v] = IF v = u THEN s ELSE clients[n][v]
  BY <1>1
<1>4. ASSUME NEW v \in ToSet(os), conn[n][object[c]] = conn[n][v] PROVE v = object[c]
  <2>1. v \in Used(n) /\ conn[n][v] = c
    BY <1>4, SeqSet, OpenFacts
  <2> QED
    BY <2>1, OwnObject
<1> QED
  BY <1>2, <1>3, <1>4, OpenFacts DEF OnList

LEMMA ListsMore ==
  ASSUME TypeOK, LifeInv, NEW c \in Open, NEW n \in Node, n = NodeOf[c],
         NEW o \in Used(n), clients' = [clients EXCEPT ![n][UserID(n, o)] = Append(@, o)],
         UNCHANGED object
  PROVE  /\ OnList(c) => OnList(c)'
         /\ o = object[c] => OnList(c)'
<1> DEFINE u == UserID(n, o)
           s == Append(clients[n][u], o)
<1>0. u \in User
  BY Owner
<1>1. clients'[n] = [clients[n] EXCEPT ![u] = s] /\ DOMAIN clients[n] = User
  BY DEF TypeOK, Domains, MapTypes
<1>2. ToSet(s) = ToSet(clients[n][u]) \cup {o}
  <2> HIDE DEF u
  <2>1. clients[n][u] \in Seq(Used(n))
    BY <1>0, ListType
  <2> QED
    BY <2>1, SeqAppend
<1> HIDE DEF s
<1>3. \A v \in User : clients'[n][v] = IF v = u THEN s ELSE clients[n][v]
  BY <1>1
<1>4. UserOf[c] \in User /\ UserID(n, object[c]) = UserOf[c]
  BY OpenFacts
<1>5. OnList(c) => OnList(c)'
  <2> HIDE DEF u
  <2> QED
    BY <1>2, <1>3, <1>4 DEF OnList
<1>6. o = object[c] => OnList(c)'
  BY <1>2, <1>3, <1>4 DEF OnList
<1> QED
  BY <1>5, <1>6

LEMMA LoopMoves ==
  ASSUME TypeOK, LifeInv, NEW c \in Open, NEW n \in Node, n = NodeOf[c], EventLoop(n),
         ~closed'[n][object[c]]
  PROVE  Moves(c)
<1>0. /\ DOMAIN loop = Node /\ DOMAIN registerChan = Node
      /\ loop[n] \in LoopState(n) /\ loop[n].kicks \in Seq(Used(n)) /\ loop[n].new \in Used(n) \cup {None}
      /\ registerChan[n] \in Seq(Used(n)) /\ unregisterChan[n] \in Seq(Used(n))
      /\ kickChan[n] \in Seq(Kick(n))
      /\ loop[n].at = "select" => loop[n].kicks = << >>
      /\ loop[n].at = "notify" => loop[n].kicks = << >>
  BY DEF TypeOK, Domains, LoopTypes, LoopState, ChanTypes, Idle
<1>1. UNCHANGED <<handler, object, conn, kicker>>
  BY LoopClosing DEF EventLoop, RegisterClient, TakeKick, UnregisterClient, KicksDone, Notify,
                     RegisterDone, connVars, clientVars
<1>e. ToSet(<< >>) = {}
  BY DEF ToSet
<1>2. CASE RegisterClient(n)
  <2> DEFINE o == Head(registerChan[n])
             u == UserID(n, o)
             p == PlatformID(n, o)
             victims == Victims(n, u, p, OnPlatform(n, u, p))
  <2>1. /\ registerChan[n] # << >> /\ registerChan'[n] = Tail(registerChan[n])
        /\ loop[n].at = "select"
    BY <1>2, <1>0 DEF RegisterClient
  <2>2. o \in Used(n) /\ Queued(n) = {o} \cup Queued(n)'
    BY <2>1, <1>0, SeqHead DEF Queued
  <2>3. Enters(n) = {} /\ (Waiting(c) => Waiting(c)' \/ o = object[c])
    BY <2>1, <2>2, <1>1 DEF Enters, Entering, Kicking, Waiting
  <2>4. u \in User
    <3> HIDE DEF o
    <3> QED
      BY <2>2, Owner
  <2>5. CASE clients[n][u] = << >>
    <3>1. clients' = [clients EXCEPT ![n][u] = Append(@, o)] /\ loop' = [loop EXCEPT ![n] = Notifying(o)]
      BY <1>2, <2>5 DEF RegisterClient, Set
    <3>2. loop'[n] = Notifying(o)
      BY <3>1, <1>0
    <3>3. Doomed(n) \subseteq Doomed(n)' /\ (o = object[c] => Announces(c)')
      BY <3>2, <2>1, <1>0, <1>1, <1>e DEF Notifying, Doomed, Announces
    <3>4. (OnList(c) => OnList(c)') /\ (o = object[c] => OnList(c)')
      <4> HIDE DEF o
      <4> QED
        BY <3>1, <2>2, <1>1, ListsMore
    <3> HIDE DEF o
    <3> QED
      BY <3>3, <3>4, <2>3, <1>1 DEF Moves, InHand, Leaving
  <2>6. CASE clients[n][u] # << >>
    <3>1. /\ clients' = [clients EXCEPT ![n][u] = Without(n, u, victims)]
          /\ loop' = [loop EXCEPT ![n] = [at |-> "kick", new |-> o, kicks |-> victims, todo |-> {}]]
      BY <1>2, <2>6 DEF RegisterClient
    <3>2. victims \in Seq(Used(n))
      <4> HIDE DEF u, p
      <4> QED
        BY <2>4, OnPlatformType, VictimsType
    <3>3. o # None
      BY <2>2, NoneAssumption DEF Used
    <3>4. loop'[n] = [at |-> "kick", new |-> o, kicks |-> victims, todo |-> {}]
      BY <3>1, <1>0
    <3> HIDE DEF victims, u, o
    <3>5. Enters(n)' = {o} /\ Doomed(n) \subseteq Doomed(n)' /\ ToSet(victims) \subseteq Doomed(n)'
      BY <3>3, <3>4, <2>1, <1>0, <1>1, <1>e DEF Enters, Entering, Kicking, Doomed
    <3>6. OnList(c) => OnList(c)' \/ object[c] \in ToSet(victims)
      BY <3>1, <3>2, <2>4, <1>1, ListsLess
    <3> QED
      BY <3>5, <3>6, <2>3, <1>1 DEF Moves, InHand, Leaving
  <2> QED
    BY <2>5, <2>6
<1>3. CASE TakeKick(n)
  <2> DEFINE k == Head(kickChan[n])
             victims == Victims(n, k.user, k.platform, k.old)
  <2>1. /\ kickChan[n] # << >> /\ loop[n].at = "select" /\ UNCHANGED registerChan
        /\ loop'[n] = [at |-> "kick", new |-> None, kicks |-> victims, todo |-> {}]
        /\ clients' = [clients EXCEPT ![n][k.user] = Without(n, k.user, victims)]
    BY <1>3, <1>0 DEF TakeKick
  <2>2. k.user \in User /\ k.old \in Seq(Used(n))
    <3>1. k \in Kick(n)
      BY <2>1, <1>0, SeqHead
    <3> QED
      BY <3>1 DEF Kick
  <2> HIDE DEF k
  <2>3. victims \in Seq(Used(n))
    BY <2>2, VictimsType
  <2> HIDE DEF victims
  <2>4. Enters(n) = {} /\ Doomed(n) \subseteq Doomed(n)' /\ ToSet(victims) \subseteq Doomed(n)'
    BY <2>1, <1>0, <1>1, <1>e DEF Enters, Entering, Kicking, Doomed
  <2>5. OnList(c) => OnList(c)' \/ object[c] \in ToSet(victims)
    BY <2>1, <2>2, <2>3, <1>1, ListsLess
  <2> QED
    BY <2>1, <2>4, <2>5, <1>1 DEF Moves, Waiting, Queued, InHand, Leaving
<1>4. CASE UnregisterClient(n)
  <2> DEFINE o == Head(unregisterChan[n])
             u == UserID(n, o)
  <2>1. /\ unregisterChan[n] # << >> /\ UNCHANGED <<registerChan, loop>>
        /\ clients' = [clients EXCEPT ![n][u] = Without(n, u, <<o>>)]
    BY <1>4, <1>0 DEF UnregisterClient
  <2>2. o \in Used(n) /\ o \in ToSet(unregisterChan[n])
    BY <2>1, <1>0, SeqHead
  <2>3. o # object[c]
    <3>1. o \in Object[n]
      BY <2>2 DEF Used
    <3>2. Place(n, o)
      BY <3>1 DEF LifeInv, Life
    <3> QED
      BY <2>2, <3>2, OpenFacts DEF Place
  <2> HIDE DEF o
  <2>4. u \in User /\ <<o>> \in Seq(Used(n)) /\ ToSet(<<o>>) = {o}
    BY <2>2, Owner, SeqOne
  <2>5. OnList(c) => OnList(c)'
    BY <2>1, <2>3, <2>4, <1>1, ListsLess
  <2>6. Enters(n)' = Enters(n) /\ Doomed(n)' = Doomed(n)
    BY <2>1, <1>1 DEF Enters, Entering, Kicking, Doomed
  <2> QED
    BY <2>1, <2>5, <2>6, <1>1 DEF Moves, Waiting, Queued, InHand, Leaving
<1>5. CASE LoopCloses(n)
  <2>1. /\ UNCHANGED <<registerChan, clients>>
        /\ \A b \in Doomed(n) : b \in Doomed(n)' \/ closed'[n][b]
    BY <1>5, LoopClosing
  <2>2. Enters(n)' = Enters(n)
    BY <1>5, LoopClosing DEF Enters, Entering
  <2>3. Leaving(c) => Leaving(c)'
    BY <2>1, <1>1 DEF Leaving
  <2> QED
    BY <2>1, <2>2, <2>3, <1>1 DEF Moves, Waiting, Queued, InHand, OnList
<1>6. CASE KicksDone(n)
  <2> DEFINE o == loop[n].new
  <2>1. /\ loop[n].at = "kick" /\ loop[n].kicks = << >> /\ UNCHANGED registerChan
    BY <1>6 DEF KicksDone, chanVars
  <2>2. CASE o = None
    <3>1. loop'[n] = Idle /\ UNCHANGED clients
      BY <1>6, <2>2, <1>0 DEF KicksDone
    <3>2. Enters(n)' = Enters(n) /\ Doomed(n)' = Doomed(n)
      BY <3>1, <2>1, <2>2, <1>1 DEF Enters, Entering, Kicking, Doomed, Idle
    <3> QED
      BY <3>1, <3>2, <2>1, <1>1 DEF Moves, Waiting, Queued, InHand, OnList, Leaving
  <2>3. CASE o # None
    <3>1. loop'[n] = Notifying(o) /\ clients' = [clients EXCEPT ![n][UserID(n, o)] = Append(@, o)]
      BY <1>6, <2>3, <1>0 DEF KicksDone, Set
    <3>2. Enters(n) = {o} /\ Doomed(n)' = Doomed(n) /\ (o = object[c] => Announces(c)')
      BY <3>1, <2>1, <2>3, <1>1 DEF Enters, Entering, Kicking, Doomed, Notifying, Announces
    <3>3. o \in Used(n)
      BY <2>3, <1>0
    <3> HIDE DEF o
    <3>4. (OnList(c) => OnList(c)') /\ (o = object[c] => OnList(c)')
      BY <3>1, <3>3, <1>1, ListsMore
    <3> QED
      BY <3>2, <3>4, <2>1, <1>1 DEF Moves, Waiting, Queued, InHand, Leaving
  <2> QED
    BY <2>2, <2>3
<1>7. ASSUME NEW k \in Node, Notify(n, k) PROVE Moves(c)
  <2> DEFINE l == loop[n]
  <2>1. /\ l.at = "notify" /\ UNCHANGED <<registerChan, clients>>
        /\ loop'[n] = [l EXCEPT !.todo = @ \ {k}] /\ l \in LoopState(n)
    BY <1>7, <1>0 DEF Notify, mapVars
  <2>2. loop'[n].at = "notify" /\ loop'[n].kicks = l.kicks
    <3> HIDE DEF l
    <3> QED
      BY <2>1 DEF LoopState
  <2>3. Enters(n)' = Enters(n) /\ Doomed(n)' = Doomed(n)
    BY <2>1, <2>2, <1>1 DEF Enters, Entering, Kicking, Doomed
  <2> QED
    BY <2>1, <2>3, <1>1 DEF Moves, Waiting, Queued, InHand, OnList, Leaving
<1>8. CASE RegisterDone(n)
  <2>1. /\ loop[n].at = "notify" /\ UNCHANGED <<registerChan, clients>> /\ loop'[n] = Idle
    BY <1>8, <1>0 DEF RegisterDone, chanVars, mapVars
  <2>2. Enters(n)' = Enters(n) /\ Doomed(n)' = Doomed(n)
    BY <2>1, <1>0, <1>1 DEF Enters, Entering, Kicking, Idle, Doomed
  <2> QED
    BY <2>1, <2>2, <1>1 DEF Moves, Waiting, Queued, InHand, OnList, Leaving
<1> QED
  BY <1>2, <1>3, <1>4, <1>5, <1>6, <1>7, <1>8 DEF EventLoop

LEMMA KickerMoves ==
  ASSUME TypeOK, LifeInv, NEW c \in Open, NEW n \in Node, n = NodeOf[c],
         (\E u \in User, p \in Platform : KickUserOffline(n, u, p)) \/ Kicker(n),
         ~closed'[n][object[c]]
  PROVE  Moves(c)
<1>0. /\ DOMAIN kicker = Node /\ kicker[n] \in KickerState(n) /\ kicker[n].old \in Seq(Used(n))
      /\ kicker[n].at # "idle" => kicker[n].old # << >>
  BY DEF TypeOK, Domains, KickerTypes, KickerState
<1>1. UNCHANGED <<handler, object, conn, loop, registerChan>> /\ Enters(n)' = Enters(n)
  <2>1. UNCHANGED <<handler, object, conn, loop, registerChan>>
    BY KickerClosing DEF Kicker, KickUserOffline, KickerDeletes, connVars, clientVars, chanVars
  <2> QED
    BY <2>1 DEF Enters, Entering
<1>2. ASSUME NEW u \in User, NEW p \in Platform, KickUserOffline(n, u, p) PROVE Moves(c)
  <2> DEFINE os == OnPlatform(n, u, p)
  <2>1. kicker[n].at = "idle" /\ kicker'[n] = [at |-> "kick", old |-> os] /\ UNCHANGED clients
    BY <1>2, <1>0 DEF KickUserOffline, mapVars
  <2> HIDE DEF os
  <2>2. Doomed(n)' = Doomed(n)
    BY <2>1, <1>1 DEF Doomed
  <2> QED
    BY <2>1, <2>2, <1>1 DEF Moves, Waiting, Queued, InHand, OnList, Leaving
<1>3. CASE KickerDeletes(n)
  <2> DEFINE o == Head(kicker[n].old)
             k == kicker[n]
  <2>1. /\ k.at = "kick" /\ kicker'[n] = [k EXCEPT !.at = "close"]
        /\ clients' = [clients EXCEPT ![n][UserID(n, o)] = Without(n, UserID(n, o), <<o>>)]
    BY <1>3, <1>0 DEF KickerDeletes
  <2>2. o \in Used(n)
    BY <2>1, <1>0, SeqHead
  <2>3. kicker'[n].at = "close" /\ kicker'[n].old = k.old
    <3>1. k \in KickerState(n)
      BY <1>0
    <3> HIDE DEF k
    <3> QED
      BY <3>1, <2>1 DEF KickerState
  <2>4. Doomed(n) \subseteq Doomed(n)' /\ o \in Doomed(n)'
    BY <2>1, <2>3, <1>1 DEF Doomed
  <2> HIDE DEF o
  <2>5. UserID(n, o) \in User /\ <<o>> \in Seq(Used(n)) /\ ToSet(<<o>>) = {o}
    BY <2>2, Owner, SeqOne
  <2>6. OnList(c) => OnList(c)' \/ object[c] = o
    BY <2>1, <2>5, <1>1, ListsLess
  <2> QED
    BY <2>4, <2>6, <1>1 DEF Moves, Waiting, Queued, InHand, Leaving
<1>4. CASE KickerCloses(n)
  <2>1. UNCHANGED clients /\ \A b \in Doomed(n) : b \in Doomed(n)' \/ closed'[n][b]
    BY <1>4, KickerClosing
  <2>2. Leaving(c) => Leaving(c)'
    BY <2>1, <1>1 DEF Leaving
  <2> QED
    BY <2>1, <2>2, <1>1 DEF Moves, Waiting, Queued, InHand, OnList
<1> QED
  BY <1>2, <1>3, <1>4 DEF Kicker

LEMMA ConnMoves ==
  ASSUME TypeOK, LifeInv, NEW c \in Open, NEW e \in Conn, Handler(e) \/ Reader(e)
  PROVE  Moves(c) /\ (Waiting(c) => Waiting(c)')
<1> DEFINE n == NodeOf[c]
<1>0. /\ DOMAIN handler = Conn /\ DOMAIN object = Conn /\ DOMAIN registerChan = Node
      /\ n \in Node /\ NodeOf[e] \in Node
      /\ registerChan[n] \in Seq(Used(n)) /\ object[c] \in Used(n) /\ object[c] # None /\ c \in Conn
  BY OpenFacts, ConnAssumption DEF TypeOK, ConnTypes, Domains, ChanTypes
<1>1. UNCHANGED <<clients, loop, kicker>>
  BY ReaderClosing DEF Handler, Reader, Admit, ResetClient, SendRegister, ReadFails, mapVars
<1>2. CASE Admit(e) \/ ReadFails(e) \/ ReaderCloses(e)
  <2>1. UNCHANGED <<registerChan, object>>
    BY <1>2, ReaderClosing DEF Admit, ReadFails, chanVars
  <2>2. handler'[c] = "registering" <=> handler[c] = "registering"
    BY <1>0, <1>2, ReaderClosing DEF Admit, ReadFails
  <2> QED
    BY <2>1, <2>2, <1>1 DEF Moves, Waiting, Queued, InHand, Enters, Entering, OnList, Leaving, Doomed
<1>3. ASSUME NEW b \in Object[NodeOf[e]], ResetClient(e, b)
      PROVE  Moves(c) /\ (Waiting(c) => Waiting(c)')
  <2>1. e # c
    BY <1>0, <1>3 DEF ResetClient, TypeOK, ConnTypes
  <2>2. handler'[c] = handler[c] /\ object'[c] = object[c] /\ UNCHANGED registerChan
    BY <2>1, <1>0, <1>3 DEF ResetClient, chanVars
  <2> QED
    BY <2>2, <1>1, MovesSame DEF Waiting, Queued
<1>4. CASE SendRegister(e)
  <2>1. /\ UNCHANGED object
        /\ handler[e] = "registering" /\ handler' = [handler EXCEPT ![e] = "done"]
        /\ registerChan'[n] = IF NodeOf[e] = n THEN Append(registerChan[n], object[e]) ELSE registerChan[n]
    BY <1>0, <1>4 DEF SendRegister
  <2>2. NodeOf[e] = n => object[e] \in Used(n)
    BY <2>1 DEF TypeOK, ConnTypes
  <2> HIDE DEF n
  <2>3. Queued(n) \subseteq Queued(n)' /\ (e = c => object[c] \in Queued(n)')
    <3>1. CASE NodeOf[e] = n
      <4> DEFINE b == object[e]
      <4>1. b \in Used(n)
        BY <3>1, <2>2
      <4> HIDE DEF b
      <4>2. ToSet(Append(registerChan[n], b)) = ToSet(registerChan[n]) \cup {b}
        BY <4>1, <1>0, SeqAppend
      <4> QED
        BY <4>2, <3>1, <2>1 DEF Queued, b
    <3>2. CASE NodeOf[e] # n
      BY <3>2, <2>1 DEF Queued, n
    <3> QED
      BY <3>1, <3>2
  <2>4. e # c => handler'[c] = handler[c]
    BY <2>1, <1>0
  <2>5. Waiting(c) => Waiting(c)'
    BY <2>1, <2>3, <2>4 DEF Waiting, n
  <2> QED
    BY <2>1, <2>5, <1>1 DEF Moves, InHand, Enters, Entering, OnList, Leaving, Doomed
<1> QED
  BY <1>2, <1>3, <1>4 DEF Handler, Reader

\* A login that is open after a step was open before, or it is waiting now.
LEMMA MovesStep ==
  ASSUME TypeOK, LifeInv, LifeInv', [Next]_vars, NEW c \in Conn, socket'[c] = "open"
  PROVE  Waiting(c)' \/ (c \in Open /\ Moves(c))
<1>1. /\ DOMAIN socket = Conn /\ DOMAIN handler = Conn /\ NodeOf[c] \in Node
      /\ ~closed'[NodeOf[c]][object'[c]]
  BY ConnAssumption DEF TypeOK, ConnTypes, LifeInv, Held
<1>2. Waiting(c)' \/ c \in Open
  <2>1. ASSUME NEW e \in Conn, NEW b \in Object[NodeOf[e]], ResetClient(e, b) PROVE Waiting(c)' \/ c \in Open
    BY <2>1, <1>1 DEF ResetClient, Waiting, Open
  <2>2. ASSUME NEW n \in Node, NEW o, MarkClosed(n, o) PROVE c \in Open
    BY <2>2, <1>1 DEF MarkClosed, Open
  <2>3. ASSUME UNCHANGED socket PROVE c \in Open
    BY <2>3 DEF Open
  <2>4. ASSUME NEW e \in Conn, Handler(e) \/ Reader(e) PROVE Waiting(c)' \/ c \in Open
    <3>1. UNCHANGED socket \/ MarkClosed(NodeOf[e], object[e]) \/ \E b \in Object[NodeOf[e]] : ResetClient(e, b)
      BY <2>4, ReaderClosing DEF Handler, Reader, Admit, SendRegister, ReadFails, clientVars
    <3>2. NodeOf[e] \in Node
      BY ConnAssumption
    <3> QED
      BY <3>1, <3>2, <2>1, <2>2, <2>3
  <2>5. ASSUME NEW n \in Node,
               EventLoop(n) \/ (\E u \in User, p \in Platform : KickUserOffline(n, u, p)) \/ Kicker(n)
        PROVE  c \in Open
    <3>1. UNCHANGED socket \/ MarkClosed(n, Head(loop[n].kicks)) \/ MarkClosed(n, Head(kicker[n].old))
      BY <2>5, LoopClosing, KickerClosing DEF EventLoop, Kicker, RegisterClient, TakeKick, UnregisterClient,
         KicksDone, Notify, RegisterDone, KickUserOffline, KickerDeletes, clientVars
    <3> QED
      BY <3>1, <2>2, <2>3
  <2>6. CASE UNCHANGED vars
    BY <2>3, <2>6 DEF vars, clientVars
  <2> QED
    BY <2>4, <2>5, <2>6 DEF Next
<1>3. ASSUME c \in Open PROVE Moves(c)
  <2>1. CASE UNCHANGED vars
    BY <2>1, MovesSame DEF vars, connVars, chanVars, mapVars
  <2>2. ASSUME NEW e \in Conn, Handler(e) \/ Reader(e) PROVE Moves(c)
    BY <1>3, <2>2, ConnMoves
  <2>3. ASSUME NEW n \in Node,
               EventLoop(n) \/ (\E u \in User, p \in Platform : KickUserOffline(n, u, p)) \/ Kicker(n)
        PROVE  Moves(c)
    <3>1. CASE n # NodeOf[c]
      <4> DEFINE m == NodeOf[c]
      <4>1. /\ UNCHANGED <<handler, object>> /\ clients'[m] = clients[m]
            /\ registerChan'[m] = registerChan[m] /\ loop'[m] = loop[m] /\ kicker'[m] = kicker[m]
        BY <3>1, <2>3, <1>1, Elsewhere
      <4> QED
        BY <4>1, MovesSame
    <3>2. CASE n = NodeOf[c]
      <4>1. UNCHANGED object
        BY <2>3, LoopClosing, KickerClosing DEF EventLoop, Kicker, RegisterClient, TakeKick,
           UnregisterClient, KicksDone, Notify, RegisterDone, KickUserOffline, KickerDeletes, connVars
      <4> QED
        BY <3>2, <4>1, <1>1, <1>3, <2>3, LoopMoves, KickerMoves
    <3> QED
      BY <3>1, <3>2
  <2> QED
    BY <2>1, <2>2, <2>3 DEF Next
<1> QED
  BY <1>2, <1>3

\* Only the event loop takes a login from those that wait.
LEMMA WaitingStep ==
  ASSUME TypeOK, LifeInv, [Next]_vars, NEW c \in Open, ~RegisterClient(NodeOf[c]), Waiting(c)
  PROVE  Waiting(c)'
<1>1. CASE UNCHANGED vars
  BY <1>1 DEF vars, connVars, chanVars, Waiting, Queued
<1>2. ASSUME NEW e \in Conn, Handler(e) \/ Reader(e) PROVE Waiting(c)'
  BY <1>2, ConnMoves
<1>3. ASSUME NEW n \in Node,
             EventLoop(n) \/ (\E u \in User, p \in Platform : KickUserOffline(n, u, p)) \/ Kicker(n)
      PROVE  Waiting(c)'
  <2>1. CASE n # NodeOf[c]
    BY <2>1, <1>3, OpenFacts, Elsewhere DEF Waiting, Queued
  <2>2. CASE n = NodeOf[c]
    <3>1. UNCHANGED <<handler, object, registerChan>>
      BY <2>2, <1>3, LoopClosing, KickerClosing DEF EventLoop, Kicker, TakeKick, UnregisterClient,
         KicksDone, Notify, RegisterDone, KickUserOffline, KickerDeletes, connVars, chanVars
    <3> QED
      BY <3>1 DEF Waiting, Queued
  <2> QED
    BY <2>1, <2>2
<1> QED
  BY <1>1, <1>2, <1>3 DEF Next

\* A login that is taken from them finds the others of its gateway.
LEMMA TakenStep ==
  ASSUME TypeOK, LifeInv, [Next]_vars, NEW c \in Open, NEW d \in Open, Exclusive(c, d),
         NodeOf[c] = NodeOf[d], Moves(c), Moves(d), Reached(d), Waiting(c), ~Waiting(c)'
  PROVE  Waiting(d)' \/ Leaving(d)'
<1> DEFINE n == NodeOf[d]
           o == Head(registerChan[n])
           u == UserID(n, o)
           p == PlatformID(n, o)
           victims == Victims(n, u, p, OnPlatform(n, u, p))
<1>1. RegisterClient(n)
  BY WaitingStep
<1>2. /\ registerChan[n] # << >> /\ registerChan'[n] = Tail(registerChan[n])
      /\ loop[n].at = "select" /\ UNCHANGED <<handler, object>> /\ DOMAIN loop = Node /\ n \in Node
      /\ registerChan[n] \in Seq(Used(n))
  BY <1>1, OpenFacts DEF RegisterClient, connVars, TypeOK, Domains, ChanTypes
<1>3. Queued(n) = {o} \cup Queued(n)'
  BY <1>2, SeqHead DEF Queued
<1>4. o = object[c] /\ o # object[d]
  <2>1. o = object[c]
    BY <1>2, <1>3 DEF Waiting
  <2>2. c # d /\ conn[n][object[c]] = c /\ conn[n][object[d]] = d
    BY ExclusiveIs, OpenFacts
  <2> QED
    BY <2>1, <2>2
<1>5. CASE Waiting(d)
  BY <1>2, <1>3, <1>4, <1>5 DEF Waiting
<1>6. CASE Leaving(d)
  BY <1>6 DEF Moves
<1>7. ~InHand(d)
  BY <1>2 DEF InHand, Enters, Entering, Kicking
<1>8. CASE OnList(d)
  <2>1. /\ u = UserOf[d] /\ p = PlatformOf[c] /\ u \in User /\ Against(p, PlatformOf[d])
        /\ PlatformID(n, object[d]) = PlatformOf[d] /\ object[d] \in ToSet(clients[n][UserOf[d]])
    BY <1>4, <1>8, ExclusiveIs, OpenFacts DEF OnList
  <2>2. clients[n][u] # << >>
    BY <2>1 DEF ToSet
  <2>3. loop'[n] = [at |-> "kick", new |-> o, kicks |-> victims, todo |-> {}]
    BY <1>1, <1>2, <2>2 DEF RegisterClient
  <2> HIDE DEF u, p, o
  <2>4. Policy = "SameTerm" => object[d] \in ToSet(OnPlatform(n, u, p))
    <3>1. Policy = "SameTerm" => PlatformID(n, object[d]) = p
      BY <2>1 DEF Against
    <3> QED
      BY <1>2, <2>1, <3>1, OnPlatformType
  <2>5. object[d] \in ToSet(victims)
    BY <1>2, <2>1, <2>4, VictimsHas
  <2> QED
    BY <1>2, <2>3, <2>5 DEF Leaving, Doomed
<1> QED
  BY <1>5, <1>6, <1>7, <1>8 DEF Reached

\* A login that has to be told to a gateway is told to it, if the call does not
\* fail, and finds there what is listed.
LEMMA TellingStep ==
  ASSUME TypeOK, LifeInv, ~RpcFails, [Next]_vars, NEW c \in Open, NEW d \in Open, Exclusive(c, d),
         NodeOf[c] # NodeOf[d], object'[c] = object[c], object'[d] = object[d],
         Telling(c, d), OnList(d)
  PROVE  Telling(c, d)' \/ Ordered(c, d)'
<1> DEFINE n == NodeOf[c]
           m == NodeOf[d]
           l == loop[n]
<1>0. DOMAIN loop = Node /\ DOMAIN kickChan = Node /\ n \in Node /\ m \in Node /\ l \in LoopState(n)
  BY OpenFacts DEF TypeOK, Domains, LoopTypes
<1>1. l.at = "notify" /\ l.new = object[c] /\ m \in l.todo
  BY DEF Telling
<1>2. ASSUME loop'[n] = loop[n] PROVE Telling(c, d)'
  BY <1>1, <1>2 DEF Telling
<1>3. CASE UNCHANGED vars
  BY <1>2, <1>3 DEF vars
<1>4. ASSUME NEW e \in Conn, Handler(e) \/ Reader(e) PROVE loop'[n] = loop[n]
  BY <1>4, ReaderClosing DEF Handler, Reader, Admit, ResetClient, SendRegister, ReadFails
<1>5. ASSUME NEW k \in Node, k # n,
             EventLoop(k) \/ (\E u \in User, p \in Platform : KickUserOffline(k, u, p)) \/ Kicker(k)
      PROVE  loop'[n] = loop[n]
  BY <1>0, <1>5, Elsewhere
<1>6. CASE (\E u \in User, p \in Platform : KickUserOffline(n, u, p)) \/ Kicker(n)
  BY <1>0, <1>2, <1>6, KickerClosing DEF Kicker, KickUserOffline, KickerDeletes
<1>7. CASE EventLoop(n)
  <2>1. PICK k \in Node : Notify(n, k)
    <3>1. ~LoopCloses(n)
      BY <1>0, <1>1, LoopClosing DEF Kicking
    <3>2. l.todo # {} /\ l.at # "select" /\ l.at # "kick"
      BY <1>1
    <3> QED
      BY <1>7, <3>1, <3>2 DEF EventLoop, RegisterClient, TakeKick, UnregisterClient, KicksDone, RegisterDone
  <2>2. loop'[n] = [l EXCEPT !.todo = @ \ {k}]
    BY <1>0, <2>1 DEF Notify
  <2>3. CASE k # m
    <3>1. loop'[n].at = l.at /\ loop'[n].new = l.new /\ loop'[n].todo = l.todo \ {k}
      <4> HIDE DEF l
      <4> QED
        BY <1>0, <2>2 DEF LoopState
    <3> QED
      BY <1>1, <2>3, <3>1 DEF Telling
  <2>4. CASE k = m
    <3> DEFINE u == UserID(n, loop[n].new)
               p == PlatformID(n, loop[n].new)
               x == [user |-> u, platform |-> p, old |-> OnPlatform(m, u, p)]
    <3>1. /\ u = UserOf[c] /\ p = PlatformOf[c] /\ u = UserOf[d] /\ u \in User
          /\ Against(p, PlatformOf[d]) /\ PlatformID(m, object[d]) = PlatformOf[d]
          /\ object[d] \in ToSet(clients[m][u])
      BY <1>1, OpenFacts, ExclusiveIs DEF OnList
    <3>2. clients[m][u] # << >>
      BY <3>1 DEF ToSet
    <3>3. kickChan'[m] = Append(kickChan[m], x)
      BY <1>0, <2>1, <2>4, <3>2 DEF Notify
    <3> HIDE DEF u, p
    <3>4. Policy = "SameTerm" => object[d] \in ToSet(x.old)
      <4>1. Policy = "SameTerm" => PlatformID(m, object[d]) = p
        BY <3>1 DEF Against
      <4> QED
        BY <1>0, <3>1, <4>1, OnPlatformType
    <3>5. x \in ToSet(kickChan'[m])
      <4>1. kickChan[m] \in Seq(Kick(m)) /\ x \in Kick(m)
        <5>1. u \in User /\ p \in Platform
          BY <3>1, OpenFacts
        <5>2. OnPlatform(m, u, p) \in Seq(Used(m))
          BY <1>0, <5>1, OnPlatformType
        <5> QED
          BY <1>0, <5>1, <5>2 DEF TypeOK, ChanTypes, Kick
      <4> HIDE DEF x
      <4> QED
        BY <3>3, <4>1, SeqAppend
    <3> QED
      BY <3>1, <3>4, <3>5 DEF Ordered
  <2> QED
    BY <2>3, <2>4
<1> QED
  BY <1>2, <1>3, <1>4, <1>5, <1>6, <1>7 DEF Next

\* A gateway that has been told of a login closes what the policy excludes.
LEMMA OrderedStep ==
  ASSUME TypeOK, LifeInv, [Next]_vars, NEW c \in Open, NEW d \in Open, Exclusive(c, d),
         object'[d] = object[d], Ordered(c, d), OnList(d)
  PROVE  Ordered(c, d)' \/ Leaving(d)'
<1> DEFINE m == NodeOf[d]
<1>0. /\ DOMAIN loop = Node /\ DOMAIN kickChan = Node /\ m \in Node /\ kickChan[m] \in Seq(Kick(m))
  BY OpenFacts DEF TypeOK, Domains, ChanTypes
<1>1. PICK k \in ToSet(kickChan[m]) :
        /\ k.user = UserOf[c] /\ k.platform = PlatformOf[c]
        /\ Policy = "SameTerm" => object[d] \in ToSet(k.old)
  BY DEF Ordered
<1>2. ASSUME k \in ToSet(kickChan'[m]) PROVE Ordered(c, d)'
  BY <1>1, <1>2 DEF Ordered
<1>3. CASE UNCHANGED kickChan
  BY <1>2, <1>3
<1>4. ASSUME NEW n \in Node, TakeKick(n) PROVE Ordered(c, d)' \/ Leaving(d)'
  <2>1. CASE n # m
    BY <1>0, <1>2, <1>4, <2>1 DEF TakeKick
  <2>2. CASE n = m
    <3>1. kickChan[m] # << >> /\ kickChan'[m] = Tail(kickChan[m])
      BY <1>0, <1>4, <2>2 DEF TakeKick
    <3>2. ToSet(kickChan[m]) = {Head(kickChan[m])} \cup ToSet(kickChan'[m])
      BY <1>0, <3>1, SeqHead
    <3>3. CASE k = Head(kickChan[m])
      <4> DEFINE victims == Victims(m, k.user, k.platform, k.old)
      <4>1. loop'[m] = [at |-> "kick", new |-> None, kicks |-> victims, todo |-> {}]
        BY <1>0, <1>4, <2>2, <3>3 DEF TakeKick
      <4>2. /\ k.user \in User /\ object[d] \in ToSet(clients[m][k.user])
            /\ Against(k.platform, PlatformID(m, object[d]))
        BY <1>1, ExclusiveIs, OpenFacts DEF OnList
      <4>3. object[d] \in ToSet(victims)
        BY <1>0, <1>1, <4>2, VictimsHas
      <4> HIDE DEF victims
      <4> QED
        BY <4>1, <4>3 DEF Leaving, Doomed
    <3> QED
      BY <1>2, <3>2, <3>3
  <2> QED
    BY <2>1, <2>2
<1>5. ASSUME NEW n \in Node, NEW j \in Node, Notify(n, j) PROVE Ordered(c, d)'
  <2> DEFINE u == UserID(n, loop[n].new)
             p == PlatformID(n, loop[n].new)
             x == [user |-> u, platform |-> p, old |-> OnPlatform(j, u, p)]
  <2>1. UNCHANGED kickChan \/ kickChan' = [kickChan EXCEPT ![j] = Append(@, x)]
    BY <1>5 DEF Notify
  <2>2. x \in Kick(j)
    <3>1. loop[n].at = "notify"
      BY <1>5 DEF Notify
    <3>2. loop[n].new \in Used(n)
      BY <3>1 DEF TypeOK, LoopTypes, LoopState
    <3>3. u \in User /\ p \in Platform
      BY <3>2, Owner
    <3> HIDE DEF u, p
    <3>4. OnPlatform(j, u, p) \in Seq(Used(j))
      BY <3>3, OnPlatformType
    <3> QED
      BY <3>3, <3>4 DEF Kick
  <2> HIDE DEF x
  <2>3. kickChan'[m] = kickChan[m] \/ (j = m /\ kickChan'[m] = Append(kickChan[m], x))
    BY <1>0, <2>1
  <2>4. j = m => ToSet(Append(kickChan[m], x)) = ToSet(kickChan[m]) \cup {x}
    BY <1>0, <2>2, SeqAppend
  <2> QED
    BY <1>2, <2>3, <2>4
<1>6. ASSUME NEW e \in Conn, Handler(e) \/ Reader(e) PROVE UNCHANGED kickChan
  BY <1>6, ReaderClosing DEF Handler, Reader, Admit, ResetClient, SendRegister, ReadFails, chanVars
<1>7. ASSUME NEW n \in Node, EventLoop(n) PROVE Ordered(c, d)' \/ Leaving(d)'
  <2>1. UNCHANGED kickChan \/ TakeKick(n) \/ \E j \in Node : Notify(n, j)
    BY <1>7, LoopClosing DEF EventLoop, RegisterClient, UnregisterClient, KicksDone, RegisterDone, chanVars
  <2> QED
    BY <2>1, <1>3, <1>4, <1>5
<1>8. ASSUME NEW n \in Node,
             (\E u \in User, p \in Platform : KickUserOffline(n, u, p)) \/ Kicker(n)
      PROVE  UNCHANGED kickChan
  BY <1>8, KickerClosing DEF Kicker, KickUserOffline, KickerDeletes, chanVars
<1>9. CASE UNCHANGED vars
  BY <1>9, <1>3 DEF vars, chanVars
<1> QED
  BY <1>3, <1>6, <1>7, <1>8, <1>9 DEF Next

LEMMA ReachStep ==
  ASSUME TypeOK, LifeInv, LifeInv', ReachInv, [Next]_vars
  PROVE  ReachInv'
<1> SUFFICES ASSUME NEW c \in Conn, socket'[c] = "open" PROVE Reached(c)'
  BY DEF ReachInv, Open
<1>1. Waiting(c)' \/ (c \in Open /\ Moves(c))
  BY MovesStep
<1> QED
  BY <1>1 DEF ReachInv, Reached, Moves

\* How c's side of a pair on two gateways moves on.
LEMMA BetweenStep ==
  ASSUME TypeOK, LifeInv, ReachInv, ~RpcFails, [Next]_vars, NEW c \in Open, NEW d \in Open,
         Exclusive(c, d), NodeOf[c] # NodeOf[d], Moves(c), Moves(d)
  PROVE  /\ Between(c, d) => Resolving(c, d)'
         /\ Waiting(c) => Resolving(c, d)'
<1>1. (Waiting(c) \/ InHand(c)) => Waiting(c)' \/ InHand(c)' \/ Announces(c)'
  BY DEF Moves
<1>2. (Waiting(d) \/ InHand(d)) => Waiting(d)' \/ InHand(d)' \/ Announces(d)'
  BY DEF Moves
<1>3. (Announces(c)' => Telling(c, d)') /\ (Announces(d)' => Telling(d, c)')
  BY OpenFacts DEF Announces, Telling
<1>4. Leaving(d) => Leaving(d)'
  BY DEF Moves
<1>5. (Telling(c, d) \/ Ordered(c, d)) /\ OnList(d) => Telling(c, d)' \/ Ordered(c, d)' \/ Leaving(d)'
  BY TellingStep, OrderedStep DEF Moves
<1>6. Waiting(d) \/ InHand(d) \/ OnList(d) \/ Leaving(d)
  BY DEF ReachInv, Reached
<1> QED
  BY <1>1, <1>2, <1>3, <1>4, <1>5, <1>6 DEF Between, Resolving

LEMMA PairStep ==
  ASSUME TypeOK, LifeInv, LifeInv', ReachInv, ~RpcFails, PairInv, [Next]_vars
  PROVE  PairInv'
<1> SUFFICES ASSUME NEW c \in Conn, NEW d \in Conn, socket'[c] = "open", socket'[d] = "open",
                    Exclusive(c, d)
             PROVE  Resolving(c, d)'
  BY DEF PairInv, Open, Exclusive
<1>1. CASE Waiting(c)' \/ Waiting(d)'
  BY <1>1 DEF Resolving
<1>2. CASE ~Waiting(c)' /\ ~Waiting(d)'
  <2>1. c \in Open /\ d \in Open /\ Moves(c) /\ Moves(d) /\ Exclusive(d, c)
    BY <1>2, MovesStep, ExclusiveIs
  <2>2. Resolving(c, d) /\ Reached(c) /\ Reached(d)
    BY <2>1 DEF PairInv, ReachInv
  <2>3. CASE Leaving(c) \/ Leaving(d)
    BY <2>1, <2>3 DEF Moves, Resolving
  <2>4. CASE NodeOf[c] = NodeOf[d]
    <3>1. Waiting(c) => Leaving(d)'
      BY <1>2, <2>1, <2>2, <2>4, TakenStep
    <3>2. Waiting(d) => Leaving(c)'
      BY <1>2, <2>1, <2>2, <2>4, TakenStep
    <3> QED
      BY <2>2, <2>3, <2>4, <3>1, <3>2 DEF Resolving
  <2>5. CASE NodeOf[c] # NodeOf[d]
    <3>1. Between(c, d) \/ Waiting(c) => Resolving(c, d)'
      BY <2>1, <2>5, BetweenStep
    <3>2. Between(d, c) \/ Waiting(d) => Resolving(d, c)'
      BY <2>1, <2>5, BetweenStep
    <3>3. Resolving(d, c)' => Resolving(c, d)'
      BY DEF Resolving
    <3> QED
      BY <2>2, <2>3, <2>5, <3>1, <3>2, <3>3 DEF Resolving
  <2> QED
    BY <2>4, <2>5
<1> QED
  BY <1>1, <1>2

\* If no call between gateways fails and no object is reset while it is being
\* closed, then once all gateways are quiet no user has two open connections
\* that the policy excludes, on one gateway or on two, for every policy, any
\* number of gateways and logins, any order in which the loops take their
\* channels, and however the objects are reused.
THEOREM OneInstanceOnly == Spec => [](LockKept /\ ~RpcFails => OneInstance)
<1> DEFINE IInv == LockKept => LifeInv /\ ReachInv /\ (~RpcFails => PairInv)
<1>1. TypeOK /\ IInv /\ [Next]_vars => IInv'
  <2> SUFFICES ASSUME TypeOK, LockKept, LifeInv, ReachInv, ~RpcFails => PairInv, [Next]_vars
               PROVE  LifeInv' /\ ReachInv' /\ (~RpcFails => PairInv')
    OBVIOUS
  <2>1. LifeInv'
    BY LifeStep
  <2> QED
    BY <2>1, ReachStep, PairStep
<1>2. Init => IInv
  BY InitLife, InitPair
<1>3. ASSUME TypeOK, ReachInv, PairInv PROVE OneInstance
  <2> SUFFICES ASSUME \A n \in Node : Quiet(n),
                      NEW c \in UNION {Live(n) : n \in Node}, NEW d \in UNION {Live(n) : n \in Node},
                      Exclusive(c, d)
               PROVE  FALSE
    BY DEF OneInstance
  <2>1. c \in Open /\ d \in Open /\ NodeOf[c] \in Node /\ NodeOf[d] \in Node
    BY ConnAssumption DEF Live, Open
  <2>2. Resolving(c, d)
    BY <1>3, <2>1 DEF PairInv
  <2>3. ASSUME NEW e \in Open, NodeOf[e] \in Node, NEW f, NodeOf[f] \in Node
        PROVE  ~Waiting(e) /\ ~InHand(e) /\ ~Leaving(e) /\ ~Telling(e, f) /\ ~Ordered(e, f)
    <3>1. Quiet(NodeOf[e]) /\ Quiet(NodeOf[f])
      BY <2>3
    <3>2. /\ handler[e] # "registering" /\ registerChan[NodeOf[e]] = << >>
          /\ loop[NodeOf[e]].at = "select" /\ loop[NodeOf[e]].kicks = << >>
          /\ kicker[NodeOf[e]].at = "idle" /\ kickChan[NodeOf[f]] = << >>
      BY <3>1 DEF Quiet, Idle, Open
    <3>3. ToSet(<< >>) = {}
      BY DEF ToSet
    <3> QED
      BY <3>2, <3>3 DEF Waiting, Queued, InHand, Enters, Entering, Kicking, Leaving, Doomed,
                             Telling, Ordered
  <2> QED
    BY <2>1, <2>2, <2>3 DEF Resolving, Between
<1>4. TypeOK /\ IInv => (LockKept /\ ~RpcFails => OneInstance)
  BY <1>3
<1> QED
  BY <1>1, <1>2, <1>4, TypeCorrect, PTL DEF Spec

=============================================================================
