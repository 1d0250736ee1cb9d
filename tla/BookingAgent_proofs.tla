------------------------ MODULE BookingAgent_proofs ------------------------
(***************************************************************************)
(* Proofs about CRMWriter and about BookingAgent, which extends it,        *)
(* whatever the jobs, the limit, the length of the window and the retries  *)
(* are.                                                                    *)
(*                                                                         *)
(* The writer.  The rate limiter holds its window: a limiter forgets the   *)
(* calls that left it, so its count bounds the window only because it      *)
(* remembers all the others.  Remembers is what makes the invariant        *)
(* inductive.  Every write is accounted for, and only a lost answer        *)
(* duplicates one: the invariant is JobInv, what a job has behind it is    *)
(* written, given up, broken off or skipped, and the tries of the current  *)
(* operation that HubSpot carried out are tries whose answer the job did   *)
(* not hear.                                                               *)
(*                                                                         *)
(* The booking agent.  What stands in the calendar is accounted for,       *)
(* create_booking implements Appointments, and a failure that is reported  *)
(* has its notice in HubSpot.  The last rests on the writer's invariants,  *)
(* because the composed specification only takes the writer's steps.       *)
(***************************************************************************)
EXTENDS BookingAgent, SetLemmas


\* The recent calls of the jobs that use limiter k.
RecentOf(k) == {c \in Recent : LimiterOf[c.job] = k}

Remembers == \A k \in Limiters : RecentOf(k) \subseteq slots[k]

Bounded ==
  \A k \in Limiters : IsFiniteSet(slots[k]) /\ Cardinality(slots[k]) <= MaxCalls

Typed ==
  /\ age \in [Calls -> 0..Window]
  /\ slots = [k \in Limiters |-> slots[k]]

IInv == Typed /\ Remembers /\ Bounded

-----------------------------------------------------------------------------

\* What is left after an eviction is finite, no larger, and holds every recent
\* call.
LEMMA KeptIsBounded ==
  ASSUME IInv, NEW k \in Limiters
  PROVE  /\ IsFiniteSet(Kept(k))
         /\ Cardinality(Kept(k)) \in Nat
         /\ Cardinality(Kept(k)) <= MaxCalls
         /\ RecentOf(k) \subseteq Kept(k)
<1>1. Kept(k) \subseteq slots[k] /\ IsFiniteSet(slots[k])
  BY DEF Kept, IInv, Bounded
<1>2. IsFiniteSet(Kept(k)) /\ Cardinality(Kept(k)) <= Cardinality(slots[k])
  BY <1>1, FS_Subset
<1>3. Cardinality(Kept(k)) \in Nat /\ Cardinality(slots[k]) \in Nat
  BY <1>1, <1>2, FS_CardinalityType
<1>4. Cardinality(slots[k]) <= MaxCalls
  BY DEF IInv, Bounded
<1>5. MaxCalls \in Nat
  BY CRMAssumption DEF CRMAssumption
<1>6. RecentOf(k) \subseteq Kept(k)
  BY DEF IInv, Remembers, RecentOf, Recent, Kept
<1>7. QED
  BY <1>2, <1>3, <1>4, <1>5, <1>6

\* Letting a call through keeps the limit, and the call is remembered.
LEMMA AcquireKeepsIInv ==
  ASSUME IInv, NEW j \in Jobs, Acquire(j)
  PROVE  IInv'
<1> DEFINE k == LimiterOf[j]
<1>0. k \in Limiters
  BY CRMAssumption DEF CRMAssumption
<1>1. /\ slots' = [slots EXCEPT ![k] = Kept(k) \cup {Call(j)}]
      /\ age' = [age EXCEPT ![Call(j)] = 0]
      /\ Cardinality(Kept(k)) < MaxCalls
  BY DEF Acquire, HasSlot
<1>2. Typed'
  <2>1. 0 \in 0..Window
    BY CRMAssumption DEF CRMAssumption
  <2>2. QED
    BY <1>0, <1>1, <2>1 DEF IInv, Typed
<1>3. ASSUME NEW q \in Limiters
      PROVE  /\ RecentOf(q)' \subseteq slots'[q]
             /\ IsFiniteSet(slots'[q])
             /\ Cardinality(slots'[q]) <= MaxCalls
  <2>1. CASE q # k
    <3>1. slots'[q] = slots[q]
      BY <1>1, <2>1, <1>3 DEF IInv, Typed
    <3>2. ASSUME NEW c \in RecentOf(q)' PROVE c \in RecentOf(q)
      <4>1. c \in Calls /\ age'[c] < Window /\ LimiterOf[c.job] = q
        BY <3>2 DEF RecentOf, Recent
      <4>2. c # Call(j)
        BY <2>1, <4>1 DEF Call
      <4>3. age'[c] = age[c]
        BY <1>1, <4>1, <4>2 DEF IInv, Typed
      <4>4. QED
        BY <4>1, <4>3 DEF RecentOf, Recent
    <3>3. QED
      BY <3>1, <3>2, <1>3 DEF IInv, Remembers, Bounded
  <2>2. CASE q = k
    <3>1. slots'[q] = Kept(k) \cup {Call(j)}
      BY <1>0, <1>1, <2>2 DEF IInv, Typed
    <3>2. /\ IsFiniteSet(Kept(k))
          /\ Cardinality(Kept(k)) \in Nat
          /\ RecentOf(k) \subseteq Kept(k)
      BY <1>0, KeptIsBounded
    <3>3. /\ IsFiniteSet(Kept(k) \cup {Call(j)})
          /\ \/ Cardinality(Kept(k) \cup {Call(j)}) = Cardinality(Kept(k))
             \/ Cardinality(Kept(k) \cup {Call(j)}) = Cardinality(Kept(k)) + 1
      BY <3>2, FS_AddElement
    <3>4. MaxCalls \in Nat
      BY CRMAssumption DEF CRMAssumption
    <3>5. Cardinality(slots'[q]) <= MaxCalls
      <4>1. Cardinality(Kept(k)) < MaxCalls
        BY <1>1
      <4>2. Cardinality(Kept(k) \cup {Call(j)}) <= MaxCalls
        BY <4>1, <3>2, <3>3, <3>4
      <4>3. QED
        BY <4>2, <3>1
    <3>6. ASSUME NEW c \in RecentOf(q)' PROVE c \in slots'[q]
      <4>1. c \in Calls /\ age'[c] < Window /\ LimiterOf[c.job] = q
        BY <3>6 DEF RecentOf, Recent
      <4>2. CASE c = Call(j)
        BY <3>1, <4>2
      <4>3. CASE c # Call(j)
        <5>1. age'[c] = age[c]
          BY <1>1, <4>1, <4>3 DEF IInv, Typed
        <5>2. c \in RecentOf(k)
          BY <2>2, <4>1, <5>1 DEF RecentOf, Recent
        <5>3. QED
          BY <3>1, <3>2, <5>2
      <4>4. QED
        BY <4>2, <4>3
    <3>7. QED
      BY <3>1, <3>3, <3>5, <3>6
  <2>3. QED
    BY <2>1, <2>2
<1>4. QED
  BY <1>2, <1>3 DEF IInv, Remembers, Bounded

\* A full window is only cleaned.
LEMMA WaitKeepsIInv ==
  ASSUME IInv, NEW j \in Jobs, WaitForSlot(j)
  PROVE  IInv'
<1> DEFINE k == LimiterOf[j]
<1>0. k \in Limiters
  BY CRMAssumption DEF CRMAssumption
<1>1. slots' = [slots EXCEPT ![k] = Kept(k)] /\ age' = age
  BY DEF WaitForSlot
<1>2. Typed'
  BY <1>0, <1>1 DEF IInv, Typed
<1>3. \A q \in Limiters : RecentOf(q)' = RecentOf(q)
  BY <1>1 DEF RecentOf, Recent
<1>4. \A q \in Limiters : slots'[q] = IF q = k THEN Kept(k) ELSE slots[q]
  BY <1>1 DEF IInv, Typed
<1>5. /\ IsFiniteSet(Kept(k))
      /\ Cardinality(Kept(k)) <= MaxCalls
      /\ RecentOf(k) \subseteq Kept(k)
  BY <1>0, KeptIsBounded
<1>6. Remembers'
  BY <1>3, <1>4, <1>5 DEF IInv, Remembers
<1>7. Bounded'
  BY <1>4, <1>5 DEF IInv, Bounded
<1>8. QED
  BY <1>2, <1>6, <1>7 DEF IInv

\* Time only takes calls out of the window.
LEMMA TickKeepsIInv ==
  ASSUME IInv, Tick
  PROVE  IInv'
<1>1. /\ age' = [c \in Calls |-> IF age[c] < Window THEN age[c] + 1 ELSE Window]
      /\ slots' = slots
  BY DEF Tick
<1>2. Window \in Nat /\ age \in [Calls -> 0..Window]
  BY CRMAssumption DEF CRMAssumption, IInv, Typed
<1>3. Typed'
  BY <1>1, <1>2 DEF IInv, Typed
<1>4. \A c \in Calls : age'[c] < Window => age[c] < Window
  BY <1>1, <1>2
<1>5. \A k \in Limiters : RecentOf(k)' \subseteq RecentOf(k)
  BY <1>4 DEF RecentOf, Recent
<1>6. QED
  BY <1>1, <1>3, <1>5 DEF IInv, Remembers, Bounded

\* Initially no call is recent.
LEMMA InitEstablishesIInv == Init => IInv
<1> SUFFICES ASSUME Init PROVE IInv
    OBVIOUS
<1>1. Window \in Nat /\ MaxCalls \in Nat
  BY CRMAssumption DEF CRMAssumption
<1>2. Typed
  BY <1>1 DEF Init, Typed
<1>3. Remembers
  BY <1>1 DEF Init, Remembers, RecentOf, Recent
<1>4. Bounded
  BY <1>1, FS_EmptySet DEF Init, Bounded
<1>5. QED
  BY <1>2, <1>3, <1>4 DEF IInv

\* Every step keeps the limiters bounded and their memory complete.
LEMMA StepKeepsIInv == IInv /\ [Next]_vars => IInv'
<1> SUFFICES ASSUME IInv, [Next]_vars PROVE IInv'
    OBVIOUS
<1>1. CASE UNCHANGED <<slots, age>>
  BY <1>1 DEF IInv, Typed, Remembers, Bounded, RecentOf, Recent
<1>2. ASSUME NEW j \in Jobs, Begin(j) PROVE IInv'
  BY <1>1, <1>2 DEF Begin
<1>3. ASSUME NEW j \in Jobs, Step(j) PROVE IInv'
  <2>1. CASE Acquire(j)
    BY <2>1, AcquireKeepsIInv
  <2>2. CASE WaitForSlot(j)
    BY <2>2, WaitKeepsIInv
  <2>3. CASE Succeed(j) \/ SucceedGarbled(j) \/ Retry(j) \/ GiveUp(j)
    BY <1>1, <2>3 DEF Succeed, SucceedGarbled, Retry, GiveUp
  <2>4. CASE Prepare(j) \/ PreparationRaises(j)
    BY <1>1, <2>4 DEF Prepare, PreparationRaises
  <2>5. QED
    BY <1>3, <2>1, <2>2, <2>3, <2>4 DEF Step
<1>4. CASE Tick
  BY <1>4, TickKeepsIInv
<1>5. CASE UNCHANGED vars
  BY <1>1, <1>5 DEF vars
<1>6. QED
  BY <1>2, <1>3, <1>4, <1>5 DEF Next

\* A limiter that remembers every recent call bounds them by its count.
LEMMA MemoryBoundsWindow == IInv => WindowHolds
<1> SUFFICES ASSUME IInv, NEW k \in Limiters
             PROVE  Cardinality(RecentOf(k)) <= MaxCalls
  BY DEF WindowHolds, RecentOf
<1>1. RecentOf(k) \subseteq slots[k] /\ IsFiniteSet(slots[k])
  BY DEF IInv, Remembers, Bounded
<1>2. Cardinality(RecentOf(k)) <= Cardinality(slots[k])
      /\ IsFiniteSet(RecentOf(k))
  BY <1>1, FS_Subset
<1>3. Cardinality(RecentOf(k)) \in Nat /\ Cardinality(slots[k]) \in Nat
  BY <1>1, <1>2, FS_CardinalityType
<1>4. MaxCalls \in Nat /\ Cardinality(slots[k]) <= MaxCalls
  BY CRMAssumption DEF CRMAssumption, IInv, Bounded
<1> QED
  BY <1>2, <1>3, <1>4

\* No window of a limiter's length holds more than MaxCalls calls of the jobs
\* that share it.
THEOREM RateLimitHolds == Spec => []WindowHolds
BY MemoryBoundsWindow, InitEstablishesIInv, StepKeepsIInv, PTL DEF Spec

-----------------------------------------------------------------------------
(* What happens to the operations of a job. *)

\* The orchestrator's and the booking agent's jobs stop at a failure; the
\* pipeline's goes on behind it.  An operation that fails is never tried again.
LEMMA OperationsOfCaller ==
  ASSUME NEW j \in Jobs
  PROVE  /\ Caller[j] = "orchestrator" => Last(j) = 3
         /\ Caller[j] = "pipeline" => Last(j) = 4
         /\ Caller[j] = "booking" => Last(j) = 1
<1>1. Caller[j] = "orchestrator" =>
        Operations(j) = <<"upsert_contact", "log_activity", "write_brief">>
  BY Zenon DEF Operations
<1>2. Caller[j] = "pipeline" =>
        Operations(j) = <<"upsert_contact", "write_brief", "write_gap_brief", "log_activity">>
  <2>1. "pipeline" # "orchestrator"
    OBVIOUS
  <2> QED
    BY <2>1, Zenon DEF Operations
<1>3. Caller[j] = "booking" => Operations(j) = <<"log_activity">>
  <2>1. "booking" # "orchestrator" /\ "booking" # "pipeline"
    OBVIOUS
  <2> QED
    BY <2>1, Zenon DEF Operations
<1> QED
  BY <1>1, <1>2, <1>3 DEF Last

LEMMA FailureMovesOn ==
  ASSUME NEW j \in Jobs, NEW n \in 1..Last(j)
  PROVE  Last(j) \in 1..4 /\ AfterFailure(j, n) \in (n + 1)..(Last(j) + 1)
<1>1. Caller[j] \in {"orchestrator", "pipeline", "booking"}
  BY CRMAssumption DEF CRMAssumption
<1>2. Last(j) \in 1..4
  BY <1>1, OperationsOfCaller
<1>3. CASE Caller[j] # "pipeline"
  BY <1>2, <1>3 DEF AfterFailure
<1>4. CASE Caller[j] = "pipeline"
  <2>1. Last(j) = 4
    BY <1>4, OperationsOfCaller
  <2> QED
    BY <1>4, <2>1 DEF AfterFailure
<1> QED
  BY <1>2, <1>3, <1>4

LEMMA JobHasOperations ==
  ASSUME NEW j \in Jobs
  PROVE  Last(j) \in 1..4
BY OperationsOfCaller, CRMAssumption DEF CRMAssumption

JobTypes ==
  /\ pc \in [Jobs -> {"idle", "prepare", "ready", "request", "done"}]
  /\ op \in [Jobs -> 1..4]
  /\ try \in [Jobs -> 1..MaxRetries]
  /\ hub \in SUBSET Calls
  /\ \A j \in Jobs : op[j] <= Last(j)

\* A job has left operation n behind.
Past(j, n) == n < op[j] \/ pc[j] = "done"

\* The operation was carried out, or ended with itself or an earlier one given up or
\* broken off.
Covered(j, n) ==
  \/ \E c \in hub : c.job = j /\ c.op = n
  \/ EndedBy(j, n, emitted \cup raised)

PastIsCovered ==
  \A j \in Jobs : \A n \in 1..Last(j) : Past(j, n) => Covered(j, n)

\* What HubSpot has carried out for a job is behind it, or belongs to an earlier
\* try of its present operation whose answer was lost.
TriesAreUnheard ==
  \A c \in hub :
    \/ c.op < op[c.job]
    \/ c.op = op[c.job] /\ pc[c.job] = "done"
    \/ c.op = op[c.job] /\ c.try < try[c.job] /\ c \in unheard

JobInv == JobTypes /\ PastIsCovered /\ TriesAreUnheard /\ DuplicatesNeedLoss

LEMMA JobInvInit == Init => JobInv
<1> SUFFICES ASSUME Init PROVE JobInv
  OBVIOUS
<1>1. MaxRetries \in Nat \ {0}
  BY CRMAssumption DEF CRMAssumption
<1>2. JobTypes
  BY <1>1, JobHasOperations DEF Init, JobTypes
<1>3. PastIsCovered
  BY JobHasOperations DEF Init, PastIsCovered, Past
<1>4. TriesAreUnheard /\ DuplicatesNeedLoss
  BY DEF Init, TriesAreUnheard, DuplicatesNeedLoss
<1> QED
  BY <1>2, <1>3, <1>4 DEF JobInv

\* The call a job has under way is a new one.
LEMMA CallIsNew ==
  ASSUME JobInv, NEW j \in Jobs, pc[j] = "request"
  PROVE  /\ Call(j) \in Calls
         /\ Call(j).job = j /\ Call(j).op = op[j] /\ Call(j).try = try[j]
         /\ \A c \in hub : c.job = j /\ c.op = op[j] => c.try < try[j] /\ c \in unheard
<1>1. Call(j) \in Calls
  BY DEF JobInv, JobTypes, Call, Calls
<1>2. \A c \in hub : c.job = j /\ c.op = op[j] => c.try < try[j] /\ c \in unheard
  BY DEF JobInv, JobTypes, TriesAreUnheard, Calls
<1> QED
  BY <1>1, <1>2 DEF Call

LEMMA SucceedKeepsJobInv ==
  ASSUME JobInv, NEW j \in Jobs, Succeed(j)
  PROVE  JobInv'
<1>1. /\ pc[j] = "request"
      /\ hub' = hub \cup {Call(j)}
      /\ unheard' = unheard /\ emitted' = emitted /\ raised' = raised
      /\ pc' = [pc EXCEPT ![j] = IF op[j] + 1 > Last(j) THEN "done" ELSE "prepare"]
      /\ op' = [op EXCEPT ![j] = IF op[j] + 1 > Last(j) THEN op[j] ELSE op[j] + 1]
      /\ try' = [try EXCEPT ![j] = 1]
  BY DEF Succeed, Continue, JobInv, JobTypes
<1>2. /\ Call(j) \in Calls
      /\ Call(j).job = j /\ Call(j).op = op[j] /\ Call(j).try = try[j]
      /\ \A c \in hub : c.job = j /\ c.op = op[j] => c.try < try[j] /\ c \in unheard
  BY <1>1, CallIsNew
<1>3. MaxRetries \in Nat \ {0} /\ Last(j) \in 1..4
  BY CRMAssumption, JobHasOperations DEF CRMAssumption
<1>4. JobTypes'
  BY <1>1, <1>2, <1>3 DEF JobInv, JobTypes
<1>5. PastIsCovered'
  <2> SUFFICES ASSUME NEW i \in Jobs, NEW n \in 1..Last(i), Past(i, n)'
               PROVE  Covered(i, n)'
    BY DEF PastIsCovered
  <2>1. CASE Past(i, n)
    BY <1>1, <2>1 DEF JobInv, PastIsCovered, Covered, EndedBy
  <2>2. CASE ~Past(i, n)
    <3>1. i = j /\ n = op[j]
      BY <1>1, <1>3, <2>2 DEF Past, JobInv, JobTypes
    <3> QED
      BY <1>1, <1>2, <3>1 DEF Covered
  <2> QED
    BY <2>1, <2>2
<1>6. TriesAreUnheard'
  BY <1>1, <1>2, <1>3 DEF JobInv, JobTypes, TriesAreUnheard, Calls
<1>7. DuplicatesNeedLoss'
  BY <1>1, <1>2 DEF JobInv, JobTypes, DuplicatesNeedLoss, Calls
<1> QED
  BY <1>4, <1>5, <1>6, <1>7 DEF JobInv

\* A failed try is carried out unheard, if at all.
LEMMA FailsKeepsDuplicates ==
  ASSUME JobInv, NEW j \in Jobs, Fails(j)
  PROVE  /\ DuplicatesNeedLoss'
         /\ hub' \in SUBSET Calls /\ hub \subseteq hub' /\ unheard \subseteq unheard'
         /\ \A c \in hub' : c \in hub \/ (c = Call(j) /\ c \in unheard')
<1>1. pc[j] = "request" /\ hub \in SUBSET Calls
  BY DEF Fails, JobInv, JobTypes
<1>2. /\ Call(j) \in Calls
      /\ Call(j).job = j /\ Call(j).op = op[j] /\ Call(j).try = try[j]
      /\ \A c \in hub : c.job = j /\ c.op = op[j] => c.try < try[j] /\ c \in unheard
  BY <1>1, CallIsNew
<1>3. CASE UNCHANGED <<hub, unheard>>
  BY <1>1, <1>3 DEF JobInv, DuplicatesNeedLoss
<1>4. CASE hub' = hub \cup {Call(j)} /\ unheard' = unheard \cup {Call(j)}
  BY <1>1, <1>2, <1>4 DEF JobInv, DuplicatesNeedLoss, Calls
<1> QED
  BY <1>3, <1>4 DEF Fails

LEMMA RetryKeepsJobInv ==
  ASSUME JobInv, NEW j \in Jobs, Retry(j)
  PROVE  JobInv'
<1>1. /\ pc[j] = "request" /\ try[j] < MaxRetries
      /\ pc' = [pc EXCEPT ![j] = "ready"]
      /\ try' = [try EXCEPT ![j] = try[j] + 1]
      /\ op' = op /\ emitted' = emitted /\ raised' = raised
  BY DEF Retry, Fails, TriesLeft, JobInv, JobTypes
<1>2. /\ DuplicatesNeedLoss'
      /\ hub' \in SUBSET Calls /\ hub \subseteq hub' /\ unheard \subseteq unheard'
      /\ \A c \in hub' : c \in hub \/ (c = Call(j) /\ c \in unheard')
  BY FailsKeepsDuplicates DEF Retry
<1>3. /\ Call(j).job = j /\ Call(j).op = op[j] /\ Call(j).try = try[j]
      /\ \A c \in hub : c.job = j /\ c.op = op[j] => c.try < try[j] /\ c \in unheard
  BY <1>1, CallIsNew
<1>4. MaxRetries \in Nat \ {0}
  BY CRMAssumption DEF CRMAssumption
<1>5. JobTypes'
  BY <1>1, <1>2, <1>4 DEF JobInv, JobTypes
<1>6. PastIsCovered'
  <2> SUFFICES ASSUME NEW i \in Jobs, NEW n \in 1..Last(i), Past(i, n)'
               PROVE  Covered(i, n)'
    BY DEF PastIsCovered
  <2>1. Past(i, n)
    BY <1>1 DEF Past, JobInv, JobTypes
  <2> QED
    BY <1>1, <1>2, <2>1 DEF JobInv, PastIsCovered, Covered, EndedBy
<1>7. TriesAreUnheard'
  BY <1>1, <1>2, <1>3 DEF JobInv, JobTypes, TriesAreUnheard, Calls
<1> QED
  BY <1>2, <1>5, <1>6, <1>7 DEF JobInv

\* However an operation fails, what it and its exception leave behind is covered.
LEMMA FailureKeepsJobInv ==
  ASSUME JobInv, NEW j \in Jobs, pc[j] \in {"prepare", "request"},
         Continue(j, AfterFailure(j, op[j])),
         <<j, op[j]>> \in emitted' \cup raised',
         emitted \subseteq emitted', raised \subseteq raised',
         DuplicatesNeedLoss',
         hub' \in SUBSET Calls, hub \subseteq hub', unheard \subseteq unheard',
         \A c \in hub' : c \in hub \/ c = Call(j)
  PROVE  JobInv'
<1> DEFINE next == AfterFailure(j, op[j])
<1>0. op[j] \in 1..Last(j)
  BY DEF JobInv, JobTypes
<1>1. Last(j) \in 1..4 /\ next \in (op[j] + 1)..(Last(j) + 1)
  BY <1>0, FailureMovesOn
<1> HIDE DEF next
<1>2. /\ pc' = [pc EXCEPT ![j] = IF next > Last(j) THEN "done" ELSE "prepare"]
      /\ op' = [op EXCEPT ![j] = IF next > Last(j) THEN op[j] ELSE next]
      /\ try' = [try EXCEPT ![j] = 1]
  BY DEF Continue, JobInv, JobTypes, next
<1>3. Call(j).job = j /\ Call(j).op = op[j]
  BY DEF Call
<1>4. MaxRetries \in Nat \ {0}
  BY CRMAssumption DEF CRMAssumption
<1>5. JobTypes'
  BY <1>0, <1>1, <1>2, <1>4 DEF JobInv, JobTypes
<1>6. PastIsCovered'
  <2> SUFFICES ASSUME NEW i \in Jobs, NEW n \in 1..Last(i), Past(i, n)'
               PROVE  Covered(i, n)'
    BY DEF PastIsCovered
  <2>1. CASE Past(i, n)
    BY <2>1 DEF JobInv, PastIsCovered, Covered, EndedBy
  <2>2. CASE ~Past(i, n)
    <3>1. i = j /\ op[j] <= n /\ next > n
      BY <1>1, <1>2, <2>2 DEF Past, JobInv, JobTypes
    <3>2. op[j] \in 1..n /\ <<i, op[j]>> \in emitted' \cup raised'
      BY <1>0, <1>1, <3>1
    <3> QED
      BY <3>1, <3>2 DEF Covered, EndedBy, next
  <2> QED
    BY <2>1, <2>2
<1>7. TriesAreUnheard'
  BY <1>1, <1>2, <1>3 DEF JobInv, JobTypes, TriesAreUnheard, Calls
<1> QED
  BY <1>5, <1>6, <1>7 DEF JobInv

LEMMA GiveUpKeepsJobInv ==
  ASSUME JobInv, NEW j \in Jobs, GiveUp(j)
  PROVE  JobInv'
<1>1. /\ pc[j] \in {"prepare", "request"}
      /\ Continue(j, AfterFailure(j, op[j]))
      /\ <<j, op[j]>> \in emitted' \cup raised'
      /\ emitted \subseteq emitted' /\ raised \subseteq raised'
  BY DEF GiveUp, Fails
<1>2. /\ DuplicatesNeedLoss'
      /\ hub' \in SUBSET Calls /\ hub \subseteq hub' /\ unheard \subseteq unheard'
      /\ \A c \in hub' : c \in hub \/ (c = Call(j) /\ c \in unheard')
  BY FailsKeepsDuplicates DEF GiveUp
<1> QED
  BY <1>1, <1>2, FailureKeepsJobInv

LEMMA GarbledKeepsJobInv ==
  ASSUME JobInv, NEW j \in Jobs, SucceedGarbled(j)
  PROVE  JobInv'
<1>1. /\ pc[j] = "request" /\ pc[j] \in {"prepare", "request"}
      /\ Continue(j, AfterFailure(j, op[j]))
      /\ <<j, op[j]>> \in emitted' \cup raised'
      /\ emitted \subseteq emitted' /\ raised \subseteq raised'
      /\ hub' = hub \cup {Call(j)} /\ unheard' = unheard
  BY DEF SucceedGarbled
<1>2. /\ Call(j) \in Calls
      /\ Call(j).job = j /\ Call(j).op = op[j] /\ Call(j).try = try[j]
      /\ \A c \in hub : c.job = j /\ c.op = op[j] => c.try < try[j] /\ c \in unheard
  BY <1>1, CallIsNew
<1>3. DuplicatesNeedLoss' /\ hub' \in SUBSET Calls
  BY <1>1, <1>2 DEF JobInv, JobTypes, DuplicatesNeedLoss, Calls
<1> QED
  BY <1>1, <1>3, FailureKeepsJobInv

LEMMA PreparationKeepsJobInv ==
  ASSUME JobInv, NEW j \in Jobs, PreparationRaises(j)
  PROVE  JobInv'
<1>1. /\ pc[j] \in {"prepare", "request"}
      /\ Continue(j, AfterFailure(j, op[j]))
      /\ <<j, op[j]>> \in emitted' \cup raised'
      /\ emitted \subseteq emitted' /\ raised \subseteq raised'
      /\ hub' = hub /\ unheard' = unheard
  BY DEF PreparationRaises
<1>2. DuplicatesNeedLoss' /\ hub' \in SUBSET Calls
  BY <1>1 DEF JobInv, JobTypes, DuplicatesNeedLoss
<1> QED
  BY <1>1, <1>2, FailureKeepsJobInv

LEMMA JobInvStep == JobInv /\ [Next]_vars => JobInv'
<1> SUFFICES ASSUME JobInv, [Next]_vars PROVE JobInv'
  OBVIOUS
<1> USE DEF JobInv, JobTypes, PastIsCovered, TriesAreUnheard, DuplicatesNeedLoss,
        Past, Covered, EndedBy
<1>1. CASE UNCHANGED <<pc, op, try, hub, unheard, emitted, raised>>
  BY <1>1
<1>2. ASSUME NEW j \in Jobs, Begin(j) PROVE JobInv'
  BY <1>2 DEF Begin, Calls
<1>3. ASSUME NEW j \in Jobs, Step(j) PROVE JobInv'
  <2>1. CASE Acquire(j)
    BY <2>1 DEF Acquire, Calls
  <2>2. CASE WaitForSlot(j)
    BY <1>1, <2>2 DEF WaitForSlot
  <2>3. CASE Succeed(j)
    BY <2>3, SucceedKeepsJobInv
  <2>4. CASE Retry(j)
    BY <2>4, RetryKeepsJobInv
  <2>5. CASE GiveUp(j)
    BY <2>5, GiveUpKeepsJobInv
  <2>6. CASE SucceedGarbled(j)
    BY <2>6, GarbledKeepsJobInv
  <2>7. CASE Prepare(j)
    BY <2>7 DEF Prepare, Calls
  <2>8. CASE PreparationRaises(j)
    BY <2>8, PreparationKeepsJobInv
  <2> QED
    BY <1>3, <2>1, <2>2, <2>3, <2>4, <2>5, <2>6, <2>7, <2>8 DEF Step
<1>4. CASE Tick
  BY <1>1, <1>4 DEF Tick
<1>5. CASE UNCHANGED vars
  BY <1>1, <1>5 DEF vars
<1> QED
  BY <1>2, <1>3, <1>4, <1>5 DEF Next

LEMMA EndedIsCovered == JobInv => NothingVanishes
<1> SUFFICES ASSUME JobInv, NEW j \in Jobs, NEW n \in 1..Last(j), pc[j] = "done",
                    ~ \E c \in hub : c.job = j /\ c.op = n
             PROVE  EndedBy(j, n, emitted) \/ EndedBy(j, n, raised)
  BY DEF NothingVanishes
<1>1. EndedBy(j, n, emitted \cup raised)
  BY DEF JobInv, PastIsCovered, Past, Covered
<1> QED
  BY <1>1 DEF EndedBy

LEMMA JobInvHolds == Spec => []JobInv
BY JobInvInit, JobInvStep, PTL DEF Spec

\* Whatever fails, and however the jobs interleave, an operation of a job that is
\* over was carried out by HubSpot, or it or an earlier one that took it along had
\* its payload emitted or was broken off by an exception outside the retry loop.
\* The retry loop itself loses nothing.
THEOREM WritesAreAccounted == Spec => []NothingVanishes
BY EndedIsCovered, JobInvHolds, PTL

\* For any number of retries: only an answer that was lost makes HubSpot carry out
\* an operation again.
THEOREM DuplicatesAreLostAnswers == Spec => []DuplicatesNeedLoss
<1>1. JobInv => DuplicatesNeedLoss
  BY DEF JobInv
<1> QED
  BY <1>1, JobInvHolds, PTL

-----------------------------------------------------------------------------
(* Type correctness: the sleep of a full window is the wait for its oldest *)
(* call, so it is a time only because a full window has one.               *)

\* The oldest call of a full window is younger than the window.
LEMMA WaitIsATime ==
  ASSUME IInv, NEW k \in Limiters, slots[k] \in SUBSET Calls, ~HasSlot(k)
  PROVE  Window - Max({age[c] : c \in Kept(k)}) \in Nat
<1> DEFINE S == {age[c] : c \in Kept(k)}
<1>1. /\ Window \in Nat \ {0} /\ MaxCalls \in Nat \ {0}
      /\ age \in [Calls -> 0..Window]
  BY CRMAssumption DEF CRMAssumption, IInv, Typed
<1>2. Kept(k) # {}
  BY <1>1, FS_EmptySet DEF HasSlot
<1>3. S \in SUBSET (0..Window) /\ S # {}
  BY <1>1, <1>2 DEF Kept
<1>4. Max(S) \in 0..Window
  BY <1>1, <1>3, GreatestIsMember
<1>5. Window - Max(S) \in Nat
  <2> HIDE DEF S
  <2> QED
    BY <1>1, <1>4
<1> QED
  BY <1>5

TypeInv == TypeOK /\ IInv /\ JobInv

LEMMA TypeInit == Init => TypeOK
BY CRMAssumption DEF CRMAssumption, Init, TypeOK

LEMMA TypeStep == TypeInv /\ [Next]_vars => TypeOK'
<1> SUFFICES ASSUME TypeInv, [Next]_vars
             PROVE  TypeOK'
  OBVIOUS
<1>1. JobInv' /\ TypeOK
  BY JobInvStep DEF TypeInv
<1>2. /\ pc' \in [Jobs -> {"idle", "prepare", "ready", "request", "done"}]
      /\ op' \in [Jobs -> 1..4]
      /\ try' \in [Jobs -> 1..MaxRetries]
      /\ hub' \in SUBSET Calls
  BY <1>1 DEF JobInv, JobTypes
<1>3. IInv'
  BY StepKeepsIInv DEF TypeInv
<1>4. age' \in [Calls -> 0..Window]
  BY <1>3 DEF IInv, Typed
<1> SUFFICES /\ slots' \in [Limiters -> SUBSET Calls]
             /\ timer' \in [Jobs -> Nat]
             /\ unheard' \in SUBSET hub'
             /\ emitted' \in SUBSET (Jobs \X (1..4))
             /\ raised' \in SUBSET (Jobs \X (1..4))
  BY <1>2, <1>4 DEF TypeOK
<1> USE DEF TypeOK
<1>5. ASSUME NEW j \in Jobs, Begin(j)
      PROVE  UNCHANGED <<slots, timer, unheard, emitted, raised, hub>>
  BY <1>5 DEF Begin
<1>6. \A j \in Jobs : Call(j) \in Calls /\ LimiterOf[j] \in Limiters
  BY <1>1, CRMAssumption DEF CRMAssumption, Call, Calls
<1>7. ASSUME NEW j \in Jobs, Acquire(j)
      PROVE  slots' \in [Limiters -> SUBSET Calls] /\ UNCHANGED <<timer, unheard, emitted, raised, hub>>
  BY <1>1, <1>6, <1>7 DEF Acquire, Kept
<1>8. ASSUME NEW j \in Jobs, WaitForSlot(j)
      PROVE  /\ slots' \in [Limiters -> SUBSET Calls]
             /\ timer' \in [Jobs -> Nat]
             /\ UNCHANGED <<unheard, emitted, raised, hub>>
  <2> DEFINE wait == Window - Max({age[c] : c \in Kept(LimiterOf[j])})
  <2>1. wait \in Nat
    BY <1>1, <1>6, <1>8, WaitIsATime DEF WaitForSlot, TypeInv
  <2>2. timer' = [timer EXCEPT ![j] = wait]
    BY <1>8 DEF WaitForSlot
  <2> HIDE DEF wait
  <2>3. timer' \in [Jobs -> Nat]
    BY <1>1, <2>1, <2>2
  <2> QED
    BY <1>1, <1>6, <1>8, <2>3 DEF WaitForSlot, Kept
<1>9. ASSUME NEW j \in Jobs, Succeed(j)
      PROVE  UNCHANGED <<slots, timer, unheard, emitted, raised>> /\ hub \subseteq hub'
  BY <1>9 DEF Succeed, Continue
<1>10. ASSUME NEW j \in Jobs, Fails(j)
       PROVE  unheard' \in SUBSET hub'
  BY <1>1, <1>10 DEF Fails
<1>11. ASSUME NEW j \in Jobs, Retry(j)
       PROVE  /\ timer' \in [Jobs -> Nat] /\ unheard' \in SUBSET hub'
              /\ UNCHANGED <<slots, emitted, raised>>
  <2>1. Backoff[try[j]] \in Nat
    BY <1>1, CRMAssumption DEF CRMAssumption
  <2> QED
    BY <1>1, <1>10, <1>11, <2>1 DEF Retry
<1>12. ASSUME NEW j \in Jobs, GiveUp(j)
       PROVE  /\ emitted' \in SUBSET (Jobs \X (1..4)) /\ unheard' \in SUBSET hub'
              /\ UNCHANGED <<slots, timer, raised>>
  BY <1>1, <1>10, <1>12 DEF GiveUp, Continue
<1>13. ASSUME NEW j \in Jobs, Prepare(j)
       PROVE  UNCHANGED <<slots, timer, unheard, emitted, raised, hub>>
  BY <1>13 DEF Prepare
<1>14. ASSUME NEW j \in Jobs, PreparationRaises(j)
       PROVE  /\ raised' \in SUBSET (Jobs \X (1..4))
              /\ UNCHANGED <<slots, timer, unheard, emitted, hub>>
  BY <1>1, <1>14 DEF PreparationRaises, Continue
<1>15. ASSUME NEW j \in Jobs, SucceedGarbled(j)
       PROVE  /\ raised' \in SUBSET (Jobs \X (1..4)) /\ hub \subseteq hub'
              /\ UNCHANGED <<slots, timer, unheard, emitted>>
  BY <1>1, <1>15 DEF SucceedGarbled, Continue
<1>16. CASE Tick
  BY <1>1, <1>16 DEF Tick
<1>17. CASE UNCHANGED vars
  BY <1>1, <1>17 DEF vars
<1> QED
  BY <1>1, <1>5, <1>7, <1>8, <1>9, <1>11, <1>12, <1>13, <1>14, <1>15, <1>16, <1>17
  DEF Next, Step

LEMMA TypeInvHolds == Spec => []TypeInv
<1>1. Init => TypeInv
  BY TypeInit, InitEstablishesIInv, JobInvInit DEF TypeInv
<1>2. TypeInv /\ [Next]_vars => TypeInv'
  BY TypeStep, StepKeepsIInv, JobInvStep DEF TypeInv
<1> QED
  BY <1>1, <1>2, PTL DEF Spec

\* Every variable keeps its type.  In particular no sleep is ever negative: a job
\* that waits for the limiter waits for a call younger than the window.
THEOREM WriterTypes == Spec => []TypeOK
<1>1. TypeInv => TypeOK
  BY DEF TypeInv
<1> QED
  BY <1>1, TypeInvHolds, PTL

-----------------------------------------------------------------------------
(* The booking agent *)


\* The states in which a booking has not selected a slot.
Unchosen == {"new", "offered", "nothing"}

BookingTypes ==
  /\ calendar \in [Times -> Bookings \cup {Free, Others}]
  /\ stage \in [Bookings -> Stages]
  /\ offered \in [Bookings -> SUBSET Times]
  /\ chosen \in [Bookings -> Times \cup {Free}]
  /\ attempt \in [Bookings -> 1..2]
  /\ lost \in SUBSET Bookings

\* A slot is posted, and given up, only once it is selected.
SlotsAreChosen ==
  \A b \in Bookings : stage[b] \notin Unchosen => chosen[b] \in Times

\* A booking stands in the calendar only at the slot selected for it, which is why
\* its second attempt cannot enter it again.
EntriesAreChosen ==
  \A b \in Bookings : \A s \in Times :
    calendar[s] = b => s = chosen[b] /\ stage[b] \notin Unchosen

\* A booking in the calendar that is not reported as made has had an answer lost.
EntriesAccounted ==
  \A b \in Bookings : \A s \in Times :
    calendar[s] = b => stage[b] = "booked" \/ b \in lost

BookingInv == BookingTypes /\ SlotsAreChosen /\ EntriesAreChosen /\ EntriesAccounted

LEMMA NamesDiffer == \A b \in Bookings : b # Free /\ b # Others
BY BookingAssumption DEF Bookings

LEMMA BookingInvInit == BookingInit => BookingInv
BY NamesDiffer DEF BookingInit, BookingInv, BookingTypes, SlotsAreChosen,
   EntriesAreChosen, EntriesAccounted, Stages, Unchosen

LEMMA BookingInvStep == BookingInv /\ [BookingNext]_<<vars, booking>> => BookingInv'
<1> SUFFICES ASSUME BookingInv, [BookingNext]_<<vars, booking>>
             PROVE  BookingInv'
  OBVIOUS
<1> USE DEF BookingInv, BookingTypes, SlotsAreChosen, EntriesAreChosen, EntriesAccounted,
        Stages, Unchosen
<1>1. ASSUME NEW b \in Bookings, Offer(b)
      PROVE  BookingInv'
  BY <1>1 DEF Offer
<1>2. ASSUME NEW b \in Bookings, Choose(b)
      PROVE  BookingInv'
  BY <1>2 DEF Choose
<1>3. ASSUME NEW b \in Bookings, PostSucceeds(b)
      PROVE  BookingInv'
  BY <1>3, NamesDiffer DEF PostSucceeds, Entered, Settle
<1>4. ASSUME NEW b \in Bookings, PostGarbled(b)
      PROVE  BookingInv'
  BY <1>4, NamesDiffer DEF PostGarbled, Entered, Settle
<1>5. ASSUME NEW b \in Bookings, PostFails(b)
      PROVE  BookingInv'
  <2>1. CASE UNCHANGED <<calendar, lost>>
    BY <1>5, <2>1 DEF PostFails, Settle, AfterError
  <2>2. CASE Entered(b) /\ lost' = lost \cup {b}
    BY <1>5, <2>2, NamesDiffer DEF PostFails, Entered, Settle, AfterError
  <2> QED
    BY <1>5, <2>1, <2>2 DEF PostFails
<1>6. ASSUME NEW b \in Bookings, Notify(b)
      PROVE  BookingInv'
  BY <1>6 DEF Notify, Settle
<1>7. ASSUME NEW b \in Bookings, Finish(b)
      PROVE  BookingInv'
  BY <1>7 DEF Finish, Settle
<1>8. ASSUME NEW s \in Times, TakenElsewhere(s)
      PROVE  BookingInv'
  BY <1>8, NamesDiffer DEF TakenElsewhere
<1>9. CASE UNCHANGED booking
  BY <1>9 DEF booking
<1> QED
  BY <1>1, <1>2, <1>3, <1>4, <1>5, <1>6, <1>7, <1>8, <1>9
  DEF BookingNext, BookingStep, vars, booking

LEMMA BookingInvHolds == BookingSpec => []BookingInv
<1>1. BookingInv /\ [BookingNext]_<<vars, booking>> => BookingInv'
  BY BookingInvStep
<1>2. BookingInit => BookingInv
  BY BookingInvInit
<1> QED
  BY <1>1, <1>2, PTL DEF BookingSpec

\* Whatever HubSpot, Cal.com and the others who book in the calendar do, a booking
\* that create_booking reports as failed and that stands in the calendar had the
\* answer to one of its two attempts lost.
THEOREM OrphansAreLostAnswers == BookingSpec => []OrphansNeedLoss
<1>1. BookingInv => OrphansNeedLoss
  BY DEF BookingInv, EntriesAccounted, OrphansNeedLoss
<1> QED
  BY <1>1, BookingInvHolds, PTL

-----------------------------------------------------------------------------
(* Refinement. *)

LEMMA PromiseInit == BookingInit => Promise!Init
BY DEF BookingInit, Promise!Init, Told, Settled

\* What a request is told changes as its stage does.
LEMMA ToldMoves ==
  ASSUME BookingInv, NEW b \in Bookings, NEW s \in Stages,
         stage' = [stage EXCEPT ![b] = s]
  PROVE  /\ s = "booked" => Told' = [Told EXCEPT ![b] = "booked"]
         /\ s \in Settled \ {"booked"} => Told' = [Told EXCEPT ![b] = "failed"]
         /\ s \notin Settled /\ stage[b] \notin Settled => Told' = Told
BY DEF BookingInv, BookingTypes, Told, Settled, Stages

\* A booking whose selected time is free is not in the calendar at all.
LEMMA NotEnteredYet ==
  ASSUME BookingInv, NEW b \in Bookings, calendar[chosen[b]] = Free
  PROVE  \A u \in Times : calendar[u] # b
BY NamesDiffer DEF BookingInv, EntriesAreChosen

\* Entering the calendar is what the promise's request does.
LEMMA EnteringIsPromised ==
  ASSUME BookingInv, NEW b \in Bookings, stage[b] = "posting", Entered(b)
  PROVE  chosen[b] \in Times /\ Promise!Enter(b, chosen[b])
<1>1. chosen[b] \in Times
  BY DEF BookingInv, SlotsAreChosen, Unchosen
<1>2. Told[b] = "open"
  BY DEF Told, Settled
<1>3. \A u \in Times : calendar[u] # b
  BY NotEnteredYet DEF Entered
<1> QED
  BY <1>1, <1>2, <1>3 DEF Entered, Promise!Enter

\* Every step of create_booking is a step of the promise or leaves it as it is.
LEMMA PromiseStep ==
  BookingInv /\ [BookingNext]_<<vars, booking>> => [Promise!Next]_<<calendar, Told>>
<1> SUFFICES ASSUME BookingInv, [BookingNext]_<<vars, booking>>
             PROVE  Promise!Next \/ UNCHANGED <<calendar, Told>>
  OBVIOUS
<1>open. ASSUME NEW b \in Bookings, stage[b] \notin Settled
         PROVE  Told[b] = "open"
  BY <1>open DEF Told, Settled
<1>moved. ASSUME NEW b \in Bookings, NEW s \in Stages \ Settled,
                 stage[b] \notin Settled, Settle(b, s), UNCHANGED calendar
          PROVE  UNCHANGED <<calendar, Told>>
  BY <1>moved, ToldMoves DEF Settle
<1>declined. ASSUME NEW b \in Bookings, NEW s \in Settled \ {"booked"},
                    stage[b] \notin Settled, Settle(b, s), UNCHANGED calendar
             PROVE  Promise!Next
  <2>1. Told' = [Told EXCEPT ![b] = "failed"]
    BY <1>declined, ToldMoves DEF Settle, Settled, Stages
  <2>2. Promise!Decline(b)
    BY <1>declined, <1>open, <2>1 DEF Promise!Decline, Promise!Answer
  <2> QED
    BY <2>2 DEF Promise!Next
<1>1. ASSUME NEW b \in Bookings, Offer(b)
      PROVE  Promise!Next \/ UNCHANGED <<calendar, Told>>
  <2>1. Settle(b, "offered") \/ Settle(b, "nothing")
    BY <1>1 DEF Offer, Settle
  <2> QED
    BY <1>1, <2>1, <1>moved, <1>declined DEF Offer, Stages, Settled
<1>2. ASSUME NEW b \in Bookings, Choose(b)
      PROVE  Promise!Next \/ UNCHANGED <<calendar, Told>>
  <2>1. Settle(b, "posting") \/ Settle(b, "nothing")
    BY <1>2 DEF Choose, Settle
  <2> QED
    BY <1>2, <2>1, <1>moved, <1>declined DEF Choose, Stages, Settled
<1>3. ASSUME NEW b \in Bookings, PostSucceeds(b)
      PROVE  Promise!Next
  <2>1. chosen[b] \in Times /\ Promise!Enter(b, chosen[b])
    BY <1>3, EnteringIsPromised DEF PostSucceeds
  <2>2. Told' = [Told EXCEPT ![b] = "booked"]
    BY <1>3, ToldMoves DEF PostSucceeds, Settle, Stages
  <2>3. Promise!Book(b, chosen[b])
    BY <1>3, <1>open, <2>1, <2>2 DEF PostSucceeds, Settled, Promise!Book, Promise!Answer
  <2> QED
    BY <2>1, <2>3 DEF Promise!Next
<1>4. ASSUME NEW b \in Bookings, PostGarbled(b)
      PROVE  Promise!Next
  <2>1. chosen[b] \in Times /\ Promise!Enter(b, chosen[b])
    BY <1>4, EnteringIsPromised DEF PostGarbled
  <2>2. Told' = [Told EXCEPT ![b] = "failed"]
    BY <1>4, ToldMoves DEF PostGarbled, Settle, Stages, Settled
  <2>3. Promise!DeclineEntered(b, chosen[b])
    BY <1>4, <1>open, <2>1, <2>2
    DEF PostGarbled, Settled, Promise!DeclineEntered, Promise!Answer
  <2> QED
    BY <2>1, <2>3 DEF Promise!Next
<1>5. ASSUME NEW b \in Bookings, PostFails(b)
      PROVE  Promise!Next \/ UNCHANGED <<calendar, Told>>
  <2>1. Told' = Told
    <3>1. AfterError(b) \in Stages \ Settled
      BY DEF AfterError, Stages, Settled
    <3> QED
      BY <1>5, <3>1, ToldMoves DEF PostFails, Settle, Settled
  <2>2. CASE UNCHANGED <<calendar, lost>>
    BY <2>1, <2>2
  <2>3. CASE Entered(b)
    <3>1. chosen[b] \in Times /\ Promise!Enter(b, chosen[b])
      BY <1>5, <2>3, EnteringIsPromised DEF PostFails
    <3> QED
      BY <2>1, <3>1 DEF Promise!Next
  <2> QED
    BY <1>5, <2>2, <2>3 DEF PostFails
<1>6. ASSUME NEW b \in Bookings, Notify(b)
      PROVE  Promise!Next \/ UNCHANGED <<calendar, Told>>
  <2>1. Settle(b, "failed") \/ Settle(b, "notifying")
    BY <1>6 DEF Notify
  <2> QED
    BY <1>6, <2>1, <1>moved, <1>declined DEF Notify, Stages, Settled
<1>7. ASSUME NEW b \in Bookings, Finish(b)
      PROVE  Promise!Next
  <2>1. Settle(b, "raised") \/ Settle(b, "failed")
    BY <1>7 DEF Finish
  <2> QED
    BY <1>7, <2>1, <1>declined DEF Finish, Settled
<1>8. ASSUME NEW s \in Times, TakenElsewhere(s)
      PROVE  Promise!Next
  <2>1. Told' = Told
    BY <1>8 DEF TakenElsewhere, Told
  <2>2. Promise!TakenElsewhere(s)
    BY <1>8, <2>1 DEF TakenElsewhere, Promise!TakenElsewhere
  <2> QED
    BY <2>2 DEF Promise!Next
<1>9. ASSUME UNCHANGED booking
      PROVE  UNCHANGED <<calendar, Told>>
  BY <1>9 DEF booking, Told
<1> QED
  BY <1>1, <1>2, <1>3, <1>4, <1>5, <1>6, <1>7, <1>8, <1>9
  DEF BookingNext, BookingStep, vars, booking

\* For every number of bookings and times: two attempts, lost answers and times
\* taken in between never give a request two places in the calendar, a "booked"
\* without a place, or two answers.
THEOREM BookingImplementsPromise == BookingSpec => KeepsPromise
<1>1. BookingInit => Promise!Init
  BY PromiseInit
<1>2. BookingInv /\ [BookingNext]_<<vars, booking>> => [Promise!Next]_<<calendar, Told>>
  BY PromiseStep
<1> QED
  BY <1>1, <1>2, BookingInvHolds, PTL DEF BookingSpec, KeepsPromise, Promise!Spec

-----------------------------------------------------------------------------
(* The notice of a failed booking, a job of the CRM writer among others.   *)

\* Whatever the booking agent does is a step of the writer, or none for it.
LEMMA WriterMoves == [BookingNext]_<<vars, booking>> => [Next]_vars
<1> SUFFICES ASSUME BookingNext
             PROVE  [Next]_vars
  BY DEF vars, booking
<1>1. ASSUME NEW b \in Bookings, Offer(b) \/ BookingStep(b)
      PROVE  Begin(b) \/ UNCHANGED vars
  BY <1>1 DEF Offer, BookingStep, Choose, PostSucceeds, PostGarbled, PostFails, Notify,
     Finish, vars
<1>2. ASSUME NEW s \in Times, TakenElsewhere(s)
      PROVE  UNCHANGED vars
  BY <1>2 DEF TakenElsewhere, vars
<1> QED
  BY <1>1, <1>2 DEF BookingNext, Next, Bookings

\* The notice is begun after the second attempt and not before; once a failure is
\* reported it has been written.
NoticeInv ==
  \A b \in Bookings :
    /\ stage[b] \notin {"notifying", "failed", "raised"} => pc[b] = "idle"
    /\ stage[b] = "failed" /\ b \notin NoWriter => \E c \in hub : c.job = b

\* A notice that is over and whose payload went nowhere else is in HubSpot.
LEMMA NoticeWritten ==
  ASSUME JobInv, NEW b \in Bookings, pc[b] = "done", ~NoticeRaises(b)
  PROVE  \E c \in hub : c.job = b
<1>1. b \in Jobs /\ Last(b) = 1
  BY OperationsOfCaller DEF Bookings
<1>2. Covered(b, 1)
  BY <1>1 DEF JobInv, PastIsCovered, Past
<1> QED
  BY <1>2 DEF Covered, EndedBy, NoticeRaises

\* Nothing HubSpot has carried out is undone, and a job leaves "idle" only by being
\* begun.
LEMMA WriterOnlyAdds ==
  ASSUME NEW j \in Jobs, Step(j)
  PROVE  /\ hub \subseteq hub'
         /\ pc[j] # "idle" /\ \A i \in Jobs : i # j /\ JobInv => pc'[i] = pc[i]
BY DEF Step, Prepare, PreparationRaises, Acquire, WaitForSlot, Succeed, SucceedGarbled,
   Retry, GiveUp, Fails, Continue, JobInv, JobTypes

LEMMA NoticeInvStep ==
  BookingInv /\ JobInv /\ NoticeInv /\ [BookingNext]_<<vars, booking>> => NoticeInv'
<1> SUFFICES ASSUME BookingInv, JobInv, NoticeInv, [BookingNext]_<<vars, booking>>
             PROVE  NoticeInv'
  OBVIOUS
<1> USE DEF NoticeInv
<1>1. stage \in [Bookings -> Stages]
  BY DEF BookingInv, BookingTypes
<1>2. pc \in [Jobs -> {"idle", "prepare", "ready", "request", "done"}] /\ Bookings \subseteq Jobs
  BY DEF JobInv, JobTypes, Bookings
<1>3. ASSUME NEW b \in Bookings, Offer(b) \/ Choose(b)
      PROVE  NoticeInv'
  BY <1>1, <1>3 DEF Offer, Choose, vars
<1>4. ASSUME NEW b \in Bookings, PostSucceeds(b) \/ PostGarbled(b) \/ PostFails(b)
      PROVE  NoticeInv'
  BY <1>1, <1>4 DEF PostSucceeds, PostGarbled, PostFails, Settle, AfterError, vars
<1>5. ASSUME NEW b \in Bookings, Notify(b)
      PROVE  NoticeInv'
  <2>1. CASE b \in NoWriter
    BY <1>1, <1>5, <2>1 DEF Notify, Settle, vars
  <2>2. CASE b \notin NoWriter
    BY <1>1, <1>2, <1>5, <2>2 DEF Notify, Settle, Begin
  <2> QED
    BY <2>1, <2>2
<1>6. ASSUME NEW b \in Bookings, Finish(b)
      PROVE  NoticeInv'
  <2>1. ~NoticeRaises(b) => \E c \in hub : c.job = b
    BY <1>6, NoticeWritten DEF Finish
  <2> QED
    BY <1>1, <1>6, <2>1 DEF Finish, Settle, vars
<1>7. ASSUME NEW s \in Times, TakenElsewhere(s)
      PROVE  NoticeInv'
  BY <1>7 DEF TakenElsewhere, vars
<1>8. ASSUME NEW j \in Jobs \ Bookings, Begin(j), UNCHANGED booking
      PROVE  NoticeInv'
  BY <1>2, <1>8 DEF Begin, booking
<1>9. ASSUME NEW j \in Jobs, Step(j), UNCHANGED booking
      PROVE  NoticeInv'
  BY <1>2, <1>9, WriterOnlyAdds DEF booking
<1>10. CASE Tick /\ UNCHANGED booking
  BY <1>10 DEF Tick, booking
<1>11. CASE UNCHANGED <<vars, booking>>
  BY <1>11 DEF vars, booking
<1> QED
  BY <1>3, <1>4, <1>5, <1>6, <1>7, <1>8, <1>9, <1>10, <1>11 DEF BookingNext, BookingStep

LEMMA WriterHolds == BookingSpec => [](TypeInv /\ NoticeInv)
<1>1. Init /\ BookingInit => TypeInv /\ NoticeInv
  <2>1. Init => TypeInv
    BY TypeInit, InitEstablishesIInv, JobInvInit DEF TypeInv
  <2>2. Init /\ BookingInit => NoticeInv
    BY DEF Init, BookingInit, NoticeInv, Bookings
  <2> QED
    BY <2>1, <2>2
<1>2. TypeInv /\ [BookingNext]_<<vars, booking>> => TypeInv'
  BY WriterMoves, TypeStep, StepKeepsIInv, JobInvStep DEF TypeInv
<1>3. /\ BookingInv /\ TypeInv /\ NoticeInv
      /\ [BookingNext]_<<vars, booking>>
      => NoticeInv'
  BY NoticeInvStep DEF TypeInv
<1> QED
  BY <1>1, <1>2, <1>3, BookingInvHolds, PTL DEF BookingSpec

\* The types of the writer, with the bookings' own.
THEOREM BookingTypesHold == BookingSpec => []BookingTypeOK
<1>1. BookingInv /\ TypeInv => BookingTypeOK
  BY DEF BookingInv, BookingTypes, TypeInv, BookingTypeOK
<1> QED
  BY <1>1, BookingInvHolds, WriterHolds, PTL

\* For any number of bookings and other jobs behind the same limiter, any retries
\* and any lost answers: whoever is told that a booking failed, and booked through
\* an agent with a CRM writer, finds the notice in HubSpot.
THEOREM FailuresAreNotified == BookingSpec => []FailureIsNotified
<1>1. NoticeInv => FailureIsNotified
  BY DEF NoticeInv, FailureIsNotified
<1> QED
  BY <1>1, WriterHolds, PTL

\* What the writer promises its jobs it keeps when the booking agent's notices are
\* among them: the limit of a shared window, no write unaccounted for, none that is
\* repeated but for a lost answer.
THEOREM WriterKeepsPromises ==
  BookingSpec => [](WindowHolds /\ NothingVanishes /\ DuplicatesNeedLoss)
<1>1. TypeInv => WindowHolds /\ NothingVanishes /\ DuplicatesNeedLoss
  BY MemoryBoundsWindow, EndedIsCovered DEF TypeInv, JobInv
<1> QED
  BY <1>1, WriterHolds, PTL

=============================================================================
