---------------------------- MODULE BasicLemmas -----------------------------
(***************************************************************************)
(* What several proofs need of data: the least and the greatest of a set   *)
(* of naturals, and what a sum of money does when the mapping it sums      *)
(* changes at one key, is restricted to fewer keys, or is compared with    *)
(* another mapping.  The proofs count unit coins and use that < is         *)
(* well-founded, so none of them needs an induction.                       *)
(***************************************************************************)
EXTENDS Coins, Integers, Functions, FiniteSetTheorems, WellFoundedInduction, TLAPS

\* A set of naturals has a least member.
LEMMA LeastNat ==
  ASSUME NEW S, S \subseteq Nat, S # {}
  PROVE  \E k \in S : \A j \in S : k <= j
<1> DEFINE R == OpToRel(<, Nat)
<1>1. IsWellFoundedOn(R, Nat)
  BY NatLessThanWellFounded
<1>2. \A j, k \in Nat : j < k => <<j, k>> \in R
  BY DEF OpToRel
<1> HIDE DEF R
<1>3. PICK k \in S : \A j \in S : <<j, k>> \notin R
  BY <1>1, WFMin
<1>4. ASSUME NEW j \in S PROVE k <= j
  <2>1. j \in Nat /\ k \in Nat /\ ~(j < k)
    BY <1>2, <1>3
  <2> QED BY <2>1
<1> QED BY <1>4

\* A bounded one has a greatest.
LEMMA GreatestBelow ==
  ASSUME NEW n \in Nat, NEW S, S \subseteq 1 .. n, S # {}
  PROVE  \E k \in S : \A j \in S : j <= k
<1> DEFINE above == {t \in Nat : \A j \in S : j <= t}
<1>1. above \subseteq Nat /\ n \in above
  OBVIOUS
<1>2. PICK t \in above : \A u \in above : t <= u
  <2> HIDE DEF above
  <2> QED BY <1>1, LeastNat
<1>3. SUFFICES ASSUME t \notin S PROVE FALSE
  BY <1>2
<1>4. t \in Nat /\ \A j \in S : j \in Nat /\ 1 <= j /\ j <= t
  OBVIOUS
<1>5. \A j \in S : j <= t - 1
  BY <1>3, <1>4
<1>6. t - 1 \in above
  <2>1. PICK j \in S : TRUE
    OBVIOUS
  <2>2. t - 1 \in Nat
    BY <1>4, <2>1
  <2> QED BY <1>5, <2>2
<1> QED BY <1>2, <1>4, <1>6

-----------------------------------------------------------------------------
\* A purse of finitely many owners is finite, so its worth is a natural.
LEMMA PurseFinite ==
  ASSUME NEW S, IsFiniteSet(S), NEW f, \A x \in S : f[x] \in Nat
  PROVE  IsFiniteSet(Purse(f, S)) /\ Total(f, S) \in Nat
<1> DEFINE T == {CoinsOf(f, x) : x \in S}
           g == [x \in S |-> CoinsOf(f, x)]
<1>1. g \in Surjection(S, T)
  BY DEF Surjection
<1>2. IsFiniteSet(T)
  <2> HIDE DEF T, g
  <2> QED BY <1>1, FS_Surjection
<1>3. ASSUME NEW U \in T PROVE IsFiniteSet(U)
  <2>1. PICK x \in S : U = CoinsOf(f, x)
    OBVIOUS
  <2>2. IsFiniteSet({x})
    BY FS_Singleton
  <2>3. f[x] \in Int /\ 1 \in Int
    OBVIOUS
  <2>4. IsFiniteSet(1 .. f[x])
    BY <2>3, FS_Interval
  <2> QED BY <2>1, <2>2, <2>4, FS_Product DEF CoinsOf
<1>4. IsFiniteSet(UNION T)
  <2> HIDE DEF T
  <2> QED BY <1>2, <1>3, FS_UNION
<1> QED BY <1>4, FS_CardinalityType DEF Purse, Total

\* Nobody's money is no money.
LEMMA TotalEmpty == ASSUME NEW f PROVE Total(f, {}) = 0
<1>1. Purse(f, {}) = {}
  BY DEF Purse
<1> QED BY <1>1, FS_EmptySet DEF Total

\* One owner's coins are as many as the amount they hold.
LEMMA CoinsOfOne ==
  ASSUME NEW f, NEW x, f[x] \in Nat
  PROVE  IsFiniteSet(CoinsOf(f, x)) /\ Cardinality(CoinsOf(f, x)) = f[x]
<1> DEFINE A == {x}
           B == 1 .. f[x]
<1>1. IsFiniteSet(A) /\ Cardinality(A) = 1
  BY FS_Singleton
<1>2. IsFiniteSet(B) /\ Cardinality(B) = f[x]
  <2>1. ASSUME NEW n \in Nat
        PROVE  IsFiniteSet(1 .. n) /\ Cardinality(1 .. n) = n
    BY FS_Interval
  <2> QED BY <2>1, Zenon
<1>3. CoinsOf(f, x) = A \X B
  BY DEF CoinsOf
<1> HIDE DEF A, B
<1>4. IsFiniteSet(A \X B) /\ Cardinality(A \X B) = Cardinality(A) * Cardinality(B)
  BY <1>1, <1>2, FS_Product
<1> QED BY <1>1, <1>2, <1>3, <1>4

\* The total is one owner's amount plus the total of the others.
LEMMA TotalRemove ==
  ASSUME NEW S, IsFiniteSet(S), NEW f, \A y \in S : f[y] \in Nat, NEW x \in S
  PROVE  Total(f, S) = f[x] + Total(f, S \ {x})
<1> DEFINE R == S \ {x}
<1>1. IsFiniteSet(R)
  BY FS_RemoveElement
<1>2. IsFiniteSet(Purse(f, R)) /\ Total(f, R) \in Nat
  BY <1>1, PurseFinite
<1>3. Purse(f, S) = CoinsOf(f, x) \cup Purse(f, R)
  BY DEF Purse
<1>4. CoinsOf(f, x) \cap Purse(f, R) = {}
  BY DEF Purse, CoinsOf
<1>5. IsFiniteSet(CoinsOf(f, x)) /\ Cardinality(CoinsOf(f, x)) = f[x]
  BY CoinsOfOne
<1>6. Cardinality(Purse(f, S)) = Cardinality(CoinsOf(f, x))
        + Cardinality(Purse(f, R)) - Cardinality({})
  <2> DEFINE C == CoinsOf(f, x)
             P == Purse(f, R)
  <2> HIDE DEF C, P
  <2>1. IsFiniteSet(C) /\ IsFiniteSet(P) /\ C \cap P = {}
    BY <1>2, <1>4, <1>5 DEF C, P
  <2>2. Cardinality(C \cup P)
          = Cardinality(C) + Cardinality(P) - Cardinality(C \cap P)
    BY <2>1, FS_Union
  <2> QED BY <1>3, <2>1, <2>2 DEF C, P
<1> QED BY <1>2, <1>5, <1>6, FS_EmptySet DEF Total

\* Two mappings that agree on S have the same total over S.
LEMMA TotalEq ==
  ASSUME NEW S, NEW f, NEW g, \A x \in S : f[x] = g[x]
  PROVE  Total(f, S) = Total(g, S)
<1>1. \A x \in S : CoinsOf(f, x) = CoinsOf(g, x)
  BY DEF CoinsOf
<1>2. Purse(f, S) = Purse(g, S)
  BY <1>1 DEF Purse
<1> QED BY <1>2 DEF Total

\* Mappings that agree everywhere but at one key: their totals differ by
\* what that key's amount changed.
LEMMA TotalChange ==
  ASSUME NEW S, IsFiniteSet(S), NEW f, NEW g, NEW x \in S,
         \A y \in S : f[y] \in Nat /\ g[y] \in Nat,
         \A y \in S \ {x} : f[y] = g[y]
  PROVE  Total(g, S) = Total(f, S) + g[x] - f[x]
<1>1. Total(f, S) = f[x] + Total(f, S \ {x})
  BY TotalRemove
<1>2. Total(g, S) = g[x] + Total(g, S \ {x})
  BY TotalRemove
<1>3. Total(f, S \ {x}) = Total(g, S \ {x})
  BY TotalEq
<1>4. IsFiniteSet(S \ {x})
  BY FS_RemoveElement
<1>5. Total(f, S \ {x}) \in Nat
  BY <1>4, PurseFinite
<1> QED BY <1>1, <1>2, <1>3, <1>5

\* Fewer owners never hold more.
LEMMA TotalSubset ==
  ASSUME NEW S, IsFiniteSet(S), NEW f, \A y \in S : f[y] \in Nat,
         NEW T \in SUBSET S
  PROVE  Total(f, T) <= Total(f, S)
<1>1. Purse(f, T) \in SUBSET Purse(f, S)
  BY DEF Purse
<1> QED BY <1>1, PurseFinite, FS_Subset DEF Total

\* A total is at least each of the amounts it sums.
LEMMA TotalMember ==
  ASSUME NEW S, IsFiniteSet(S), NEW f, \A y \in S : f[y] \in Nat, NEW x \in S
  PROVE  f[x] <= Total(f, S)
<1>1. Total(f, S) = f[x] + Total(f, S \ {x})
  BY TotalRemove
<1>2. IsFiniteSet(S \ {x})
  BY FS_RemoveElement
<1>3. Total(f, S \ {x}) \in Nat
  BY <1>2, PurseFinite
<1> QED BY <1>1, <1>3

\* Owners of nothing can be left out.
LEMMA TotalSupport ==
  ASSUME NEW S, NEW T \in SUBSET S, NEW f, \A x \in S \ T : f[x] = 0
  PROVE  Total(f, S) = Total(f, T)
<1>1. \A x \in S \ T : CoinsOf(f, x) = {}
  BY DEF CoinsOf
<1>2. Purse(f, S) = Purse(f, T)
  BY <1>1 DEF Purse
<1> QED BY <1>2 DEF Total

\* If nobody holds anything the total is nothing, and conversely.
LEMMA TotalZero ==
  ASSUME NEW S, IsFiniteSet(S), NEW f, \A y \in S : f[y] \in Nat
  PROVE  Total(f, S) = 0 <=> \A y \in S : f[y] = 0
<1>1. ASSUME Total(f, S) = 0, NEW y \in S PROVE f[y] = 0
  BY <1>1, TotalMember
<1>2. ASSUME \A y \in S : f[y] = 0 PROVE Total(f, S) = 0
  <2>1. \A y \in S : CoinsOf(f, y) = {}
    BY <1>2 DEF CoinsOf
  <2>2. Purse(f, S) = {}
    BY <2>1 DEF Purse
  <2> QED BY <2>2, FS_EmptySet DEF Total
<1> QED BY <1>1, <1>2

=============================================================================
