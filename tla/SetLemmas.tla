----------------------------- MODULE SetLemmas -----------------------------
(***************************************************************************)
(* Facts about finite sets that the proofs about several components need.  *)
(***************************************************************************)
EXTENDS FiniteSetsExt, FiniteSetTheorems, TLAPS

\* Of the members of a finite set one comes first, whatever they are sorted by: f, and
\* r between equals.  The subsets of a finite set are well-founded: take the member
\* with the least before it.
LEMMA FirstExists ==
  ASSUME NEW S, IsFiniteSet(S), S # {}, NEW f \in [S -> Int], NEW r \in [S -> Int]
  PROVE  \E x \in S : \A y \in S : f[x] < f[y] \/ (f[x] = f[y] /\ r[x] <= r[y])
<1> DEFINE Before(y, x) == f[y] < f[x] \/ (f[y] = f[x] /\ r[y] < r[x])
           Sooner(x) == {y \in S : Before(y, x)}
           T == {Sooner(x) : x \in S}
           R == StrictSubsetOrdering(S)
<1>1. IsWellFoundedOn(R, SUBSET S)
  BY FS_StrictSubsetOrderingWellFounded, FS_FiniteSubsetsOfFinite
<1>2. T \subseteq SUBSET S /\ T # {}
  <2> HIDE DEF Before
  <2> QED
    OBVIOUS
<1>3. \E A \in T : \A B \in T : ~(<<B, A>> \in R)
  <2> HIDE DEF T, R
  <2> QED
    BY <1>1, <1>2, WFMin
<1>4. PICK x \in S : \A z \in S : ~(<<Sooner(z), Sooner(x)>> \in R)
  <2> HIDE DEF R
  <2> QED
    BY <1>3
<1>5. ASSUME NEW y \in S, Before(y, x)
      PROVE  FALSE
  <2>1. \A z \in S : Before(z, y) => Before(z, x)
    BY <1>5
  <2>2. ~Before(y, y)
    OBVIOUS
  <2>3. Sooner(y) \subseteq Sooner(x) /\ y \in Sooner(x) /\ y \notin Sooner(y)
    <3> HIDE DEF Before
    <3> QED
      BY <1>5, <2>1, <2>2
  <2>4. <<Sooner(y), Sooner(x)>> \in R
    BY <2>3 DEF StrictSubsetOrdering
  <2> QED
    BY <1>4, <2>4
<1>6. \A y \in S : f[x] < f[y] \/ (f[x] = f[y] /\ r[x] <= r[y])
  BY <1>5
<1> QED
  BY <1>6

\* A finite set of numbers that is not empty has a least member.
LEMMA LeastIsMember ==
  ASSUME NEW S \in SUBSET Int, IsFiniteSet(S), S # {}
  PROVE  Min(S) \in S /\ \A y \in S : Min(S) <= y
<1> DEFINE f == [x \in S |-> x]
<1>1. f \in [S -> Int]
  OBVIOUS
<1>2. PICK x \in S : \A y \in S : f[x] < f[y] \/ (f[x] = f[y] /\ f[x] <= f[y])
  <2> HIDE DEF f
  <2> QED
    BY <1>1, FirstExists
<1>3. \A y \in S : x <= y
  BY <1>2
<1> QED
  BY <1>3 DEF Min

\* A set of naturals below a bound that is not empty has a greatest member.
LEMMA GreatestIsMember ==
  ASSUME NEW n \in Nat, NEW S \in SUBSET (0..n), S # {}
  PROVE  Max(S) \in S /\ \A y \in S : Max(S) >= y
<1> DEFINE f == [x \in S |-> -x]
<1>1. IsFiniteSet(S)
  BY FS_BoundedSetOfNaturals
<1>2. f \in [S -> Int]
  OBVIOUS
<1>3. PICK x \in S : \A y \in S : f[x] < f[y] \/ (f[x] = f[y] /\ f[x] <= f[y])
  <2> HIDE DEF f
  <2> QED
    BY <1>1, <1>2, FirstExists
<1>4. \A y \in S : x >= y
  BY <1>3
<1> QED
  BY <1>4 DEF Max
=============================================================================
