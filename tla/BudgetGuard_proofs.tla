------------------------- MODULE BudgetGuard_proofs -------------------------
(***************************************************************************)
(* Type correctness of BudgetGuard and the bound on the spend, for any     *)
(* finite set of callers, any limit and any dearest call.                  *)
(***************************************************************************)
EXTENDS BudgetGuard, FiniteSetTheorems, TLAPS

\* A set of callers in flight is finite and no larger than the set of callers.
LEMMA CallingIsFinite ==
  ASSUME NEW S \in SUBSET Callers
  PROVE  /\ IsFiniteSet(S)
         /\ Cardinality(S) \in Nat
         /\ Cardinality(Callers) \in Nat
         /\ Cardinality(S) <= Cardinality(Callers)
BY BudgetAssumption, FS_Subset, FS_CardinalityType DEF BudgetAssumption

\* Admitting one more caller takes one more reserve out of the headroom and
\* never more reserves than there are callers.
LEMMA OneMoreCall ==
  ASSUME NEW S \in SUBSET Callers, NEW c \in Callers, c \notin S
  PROVE  (Cardinality(S \cup {c})) * MaxCost <= Cardinality(Callers) * MaxCost
<1>1. S \cup {c} \in SUBSET Callers
  OBVIOUS
<1>2. /\ Cardinality(S \cup {c}) \in Nat
      /\ Cardinality(Callers) \in Nat
      /\ Cardinality(S \cup {c}) <= Cardinality(Callers)
  BY <1>1, CallingIsFinite
<1>3. ASSUME NEW m \in Nat, NEW n \in Nat, m <= n
      PROVE  m * MaxCost <= n * MaxCost
  BY <1>3, BudgetAssumption, SMT DEF BudgetAssumption
<1>. QED
  BY <1>2, <1>3

\* A call that ends gives its reserve back.
LEMMA OneCallLess ==
  ASSUME NEW S \in SUBSET Callers, NEW c \in S
  PROVE  Cardinality(S) * MaxCost = Cardinality(S \ {c}) * MaxCost + MaxCost
<1>1. IsFiniteSet(S)
  BY CallingIsFinite
<1>2. Cardinality(S \ {c}) = Cardinality(S) - 1
  BY <1>1, FS_RemoveElement
<1>3. Cardinality(S) \in Nat /\ Cardinality(S \ {c}) \in Nat
  BY <1>1, CallingIsFinite
<1>. QED
  BY <1>2, <1>3, BudgetAssumption, SMT DEF BudgetAssumption

\* What a set of callers may still add to the spend is a number.
LEMMA ReservesAreIntegers ==
  ASSUME NEW S \in SUBSET Callers
  PROVE  Cardinality(S) * MaxCost \in Nat
<1>1. Cardinality(S) \in Nat
  BY CallingIsFinite
<1>. QED
  BY <1>1, BudgetAssumption, SMT DEF BudgetAssumption

LEMMA InitEstablishesTypes == Init => TypeOK
<1> SUFFICES ASSUME Init PROVE TypeOK
  OBVIOUS
<1>1. Limit - 1 \in Nat
  BY BudgetAssumption, SMT DEF BudgetAssumption
<1>. QED
  BY <1>1 DEF Init, TypeOK

LEMMA StepKeepsTypes == TypeOK /\ [Next]_vars => TypeOK'
<1> SUFFICES ASSUME TypeOK, [Next]_vars
             PROVE  TypeOK'
  OBVIOUS
<1>. USE DEF TypeOK
<1>1. ASSUME NEW c \in Callers, StartCall(c)
      PROVE  TypeOK'
  BY <1>1 DEF StartCall
<1>2. ASSUME NEW c \in Callers, RefuseCall(c)
      PROVE  TypeOK'
  BY <1>2 DEF RefuseCall
<1>3. ASSUME NEW c \in Callers, FailCall(c)
      PROVE  TypeOK'
  BY <1>3 DEF FailCall
<1>4. ASSUME NEW c \in Callers, NEW cost \in 0..MaxCost, FinishCall(c, cost)
      PROVE  TypeOK'
  BY <1>4, BudgetAssumption DEF FinishCall, BudgetAssumption
<1>5. CASE Acknowledge
  BY <1>5 DEF Acknowledge
<1>6. CASE ResetAcknowledgement
  BY <1>6 DEF ResetAcknowledgement
<1>7. CASE UNCHANGED vars
  BY <1>7 DEF vars
<1>. QED
  BY <1>1, <1>2, <1>3, <1>4, <1>5, <1>6, <1>7 DEF Next

\* The variables keep their types through every step of the guard.
THEOREM TypeCorrect == Spec => []TypeOK
BY InitEstablishesTypes, StepKeepsTypes, PTL DEF Spec

\* Nobody calls at first, and everybody's reserve is still free.
LEMMA InitEstablishesIInv == Init => IInv
<1> SUFFICES ASSUME Init PROVE IInv
  OBVIOUS
<1>1. TypeOK
  BY InitEstablishesTypes
<1>2. Cardinality(calling) = 0
  BY FS_EmptySet DEF Init
<1>3. Cardinality(Callers) * MaxCost \in Nat
  BY ReservesAreIntegers
<1>4. Headroom
  BY <1>2, <1>3, BudgetAssumption, SMT DEF Init, Headroom, BudgetAssumption
<1>. QED
  BY <1>1, <1>4, BudgetAssumption DEF IInv, Init, BudgetAssumption

\* Every step keeps the headroom: starting a call reserves its greatest cost
\* below the ceiling, ending it gives the reserve back, and the operator's steps
\* either suspend the bound or move the ceiling up to what was spent.
LEMMA StepKeepsIInv == IInv /\ [Next]_vars => IInv'
<1> SUFFICES ASSUME IInv, [Next]_vars
             PROVE  IInv'
  OBVIOUS
<1>t. TypeOK'
  BY StepKeepsTypes DEF IInv
<1>. DEFINE All == Cardinality(Callers) * MaxCost
            Reserve(S) == Cardinality(S) * MaxCost
<1>a. /\ All \in Nat
      /\ Reserve(calling) \in Nat
      /\ Reserve(calling') \in Nat
      /\ Reserve(calling) <= All
  <2>1. calling \in SUBSET Callers /\ calling' \in SUBSET Callers
    BY <1>t DEF IInv, TypeOK
  <2>2. Cardinality(calling) \in Nat /\ Cardinality(Callers) \in Nat
        /\ Cardinality(calling) <= Cardinality(Callers)
    BY <2>1, CallingIsFinite
  <2>3. Reserve(calling) <= All
    BY <2>2, BudgetAssumption, SMT DEF BudgetAssumption
  <2>. QED
    BY <2>1, <2>3, ReservesAreIntegers
<1>b. /\ total \in Nat /\ ceiling \in Nat /\ Limit \in Nat /\ MaxCost \in Nat
      /\ total' \in Nat /\ ceiling' \in Nat
      /\ Limit - 1 <= ceiling
      /\ ~acknowledged => total + Reserve(calling) <= ceiling + All
  BY <1>t, BudgetAssumption DEF IInv, TypeOK, Headroom, BudgetAssumption
<1>c. SUFFICES /\ Limit - 1 <= ceiling'
               /\ ~acknowledged' => total' + Reserve(calling') <= ceiling' + All
  BY <1>t DEF IInv, Headroom
<1>1. ASSUME NEW c \in Callers, StartCall(c)
      PROVE  /\ Limit - 1 <= ceiling'
             /\ ~acknowledged' => total' + Reserve(calling') <= ceiling' + All
  <2>1. Reserve(calling') <= All
    BY <1>1, OneMoreCall DEF StartCall, IInv, TypeOK
  <2>2. ~acknowledged => total <= Limit - 1
    BY <1>1, <1>b DEF StartCall, Exceeded
  <2>. HIDE DEF All, Reserve
  <2>. QED
    BY <1>1, <1>a, <1>b, <2>1, <2>2 DEF StartCall
<1>2. ASSUME NEW c \in Callers, RefuseCall(c)
      PROVE  /\ Limit - 1 <= ceiling'
             /\ ~acknowledged' => total' + Reserve(calling') <= ceiling' + All
  BY <1>2, <1>b DEF RefuseCall
<1>3. ASSUME NEW c \in Callers, NEW cost \in 0..MaxCost,
             (FailCall(c) /\ cost = 0) \/ FinishCall(c, cost)
      PROVE  /\ Limit - 1 <= ceiling'
             /\ ~acknowledged' => total' + Reserve(calling') <= ceiling' + All
  <2>1. c \in calling /\ calling' = calling \ {c}
    BY <1>3 DEF FailCall, FinishCall
  <2>2. Reserve(calling) = Reserve(calling') + MaxCost
    BY <2>1, OneCallLess DEF IInv, TypeOK
  <2>3. /\ total' = total + cost
        /\ ceiling' = ceiling
        /\ acknowledged' = acknowledged
    BY <1>3, <1>b DEF FailCall, FinishCall
  <2>. HIDE DEF All, Reserve
  <2>. QED
    BY <1>a, <1>b, <2>2, <2>3
<1>4. CASE Acknowledge
  BY <1>4, <1>b DEF Acknowledge
<1>5. CASE ResetAcknowledgement
  <2>1. total <= ceiling' /\ ceiling <= ceiling'
    BY <1>5, <1>b DEF ResetAcknowledgement
  <2>2. total' = total /\ calling' = calling
    BY <1>5 DEF ResetAcknowledgement
  <2>. HIDE DEF All, Reserve
  <2>. QED
    BY <1>a, <1>b, <2>1, <2>2
<1>6. CASE UNCHANGED vars
  BY <1>6, <1>b DEF vars
<1>7. ASSUME NEW c \in Callers, FailCall(c)
      PROVE  /\ Limit - 1 <= ceiling'
             /\ ~acknowledged' => total' + Reserve(calling') <= ceiling' + All
  <2>1. 0 \in 0..MaxCost
    BY BudgetAssumption DEF BudgetAssumption
  <2>. QED
    BY <1>3, <1>7, <2>1
<1>. QED
  BY <1>1, <1>2, <1>3, <1>4, <1>5, <1>6, <1>7 DEF Next

LEMMA HeadroomBounds == IInv => SpendBounded
<1> SUFFICES ASSUME IInv, ~acknowledged
             PROVE  total <= ceiling + Cardinality(Callers) * MaxCost
  BY DEF SpendBounded
<1>. DEFINE All == Cardinality(Callers) * MaxCost
            Reserve == Cardinality(calling) * MaxCost
<1>1. Reserve \in Nat /\ All \in Nat
  BY ReservesAreIntegers DEF IInv, TypeOK
<1>2. total + Reserve <= ceiling + All /\ total \in Nat /\ ceiling \in Nat
  BY DEF IInv, Headroom, TypeOK
<1>. HIDE DEF All, Reserve
<1>3. total <= ceiling + All
  BY <1>1, <1>2
<1>. QED
  BY <1>3 DEF All

\* Without an acknowledgement the recorded spend exceeds the highest spend at
\* which a call was admitted by at most one dearest call per caller.
THEOREM SpendIsBounded == Spec => []SpendBounded
BY InitEstablishesIInv, StepKeepsIInv, HeadroomBounds, PTL DEF Spec

=============================================================================
