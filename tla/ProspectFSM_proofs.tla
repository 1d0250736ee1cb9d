------------------------- MODULE ProspectFSM_proofs -------------------------
(***************************************************************************)
(* Proofs about ProspectFSM, for every bound and every sequence of calls.  *)
(*                                                                         *)
(* None of the properties is inductive by itself.  IInv adds what links    *)
(* the state to the history: a machine cannot have counted more e-mail     *)
(* replies than were heard, a contacted prospect has not answered since    *)
(* its sequence started, and a cold one has only the attempts made early.  *)
(***************************************************************************)
EXTENDS ProspectFSM, TLAPS

CountIsHeard == replies <= emails

ColdIsUntouched == state = "cold" => attempts = early /\ heard = 0 /\ answered <= early

ContactedIsUnanswered == state = "contacted" => heard = 0 /\ answered <= early

RepliedIsAnswered == state = "replied" => heard >= 1

IInv ==
  /\ TypeOK
  /\ CountIsHeard
  /\ ColdIsUntouched
  /\ ContactedIsUnanswered
  /\ RepliedIsAnswered
  /\ TextingIsEarned
  /\ ThreeAttempts
  /\ WarmTakesTwoReplies

-----------------------------------------------------------------------------

\* The initial states satisfy the inductive invariant.
LEMMA InitEstablishesIInv == Init => IInv
<1> SUFFICES ASSUME Init PROVE IInv
    OBVIOUS
<1>1. TypeOK
  <2>1. 0 \in 0..MaxAttempts /\ 0 \in 0..MaxReplies
    BY ProspectAssumption DEF ProspectAssumption
  <2>2. QED
    BY <2>1, Zenon DEF Init, TypeOK, States
<1>2. QED
  BY <1>1 DEF Init, IInv, CountIsHeard, ColdIsUntouched, ContactedIsUnanswered,
              RepliedIsAnswered, TextingIsEarned, ThreeAttempts,
              WarmTakesTwoReplies

\* A reply moves the prospect to one of the machine's states, and never back to
\* cold or contacted.
LEMMA ReplyMovesForward ==
  ASSUME TypeOK, NEW content \in Replies
  PROVE  /\ AfterReply(content) \in States
         /\ AfterReply(content) \in {"cold", "contacted"} =>
              AfterReply(content) = state /\ state # "contacted"
         /\ AfterReply(content) = "replied" => state \in {"contacted", "replied"}
         /\ AfterReply(content) = "warm" => state \in {"replied", "warm"}
         /\ AfterReply(content) = "dormant" => state = "dormant"
         /\ state = "opted_out" => AfterReply(content) = "opted_out"
         /\ content = "opt_out" => AfterReply(content) = "opted_out"
  BY DEF AfterReply, TypeOK, States, Replies

\* Handling an inbound text preserves the inductive invariant.
LEMMA ReplyKeepsIInv ==
  ASSUME IInv, NEW channel \in {"email", "sms"}, NEW content \in Replies,
         HandleInboundReply(channel, content)
  PROVE  IInv'
<1> USE ProspectAssumption DEF ProspectAssumption
<1> state' = AfterReply(content)
  BY DEF HandleInboundReply
<1>0. TypeOK
  BY DEF IInv
<1> /\ AfterReply(content) \in States
    /\ AfterReply(content) \in {"cold", "contacted"} =>
         AfterReply(content) = state /\ state # "contacted"
    /\ AfterReply(content) = "replied" => state \in {"contacted", "replied"}
    /\ AfterReply(content) = "warm" => state \in {"replied", "warm"}
    /\ content = "opt_out" => AfterReply(content) = "opted_out"
  BY <1>0, ReplyMovesForward
<1>1. CASE content = "opt_out"
  BY <1>1 DEF HandleInboundReply, IInv, TypeOK, States, CountIsHeard,
              ColdIsUntouched, ContactedIsUnanswered, RepliedIsAnswered,
              TextingIsEarned, ThreeAttempts, WarmTakesTwoReplies
<1>2. CASE content # "opt_out"
  <2>1. TypeOK' /\ CountIsHeard' /\ TextingIsEarned'
    BY <1>2 DEF HandleInboundReply, IInv, TypeOK, States, CountIsHeard,
                TextingIsEarned
  <2>2. ColdIsUntouched' /\ ContactedIsUnanswered' /\ ThreeAttempts'
    BY <1>2 DEF HandleInboundReply, IInv, TypeOK, ColdIsUntouched,
                ContactedIsUnanswered, ThreeAttempts
  <2>3. RepliedIsAnswered' /\ WarmTakesTwoReplies'
    BY <1>2 DEF HandleInboundReply, IInv, TypeOK, RepliedIsAnswered,
                WarmTakesTwoReplies
  <2>4. QED
    BY <2>1, <2>2, <2>3 DEF IInv
<1>3. QED
  BY <1>1, <1>2

\* Every step preserves the inductive invariant.
LEMMA StepKeepsIInv == IInv /\ [Next]_vars => IInv'
<1> SUFFICES ASSUME IInv, [Next]_vars PROVE IInv'
    OBVIOUS
<1> USE ProspectAssumption DEF ProspectAssumption
<1>1. CASE Resume
  BY <1>1 DEF Resume, prospect, history, IInv, TypeOK, CountIsHeard,
              ColdIsUntouched, ContactedIsUnanswered, RepliedIsAnswered,
              TextingIsEarned, ThreeAttempts, WarmTakesTwoReplies
<1>2. CASE StartSequence
  BY <1>2 DEF StartSequence, history, IInv, TypeOK, States, CountIsHeard,
              ColdIsUntouched, ContactedIsUnanswered, RepliedIsAnswered,
              TextingIsEarned, ThreeAttempts, WarmTakesTwoReplies
<1>3. ASSUME NEW channel \in {"email", "sms"}, NEW content \in Replies,
             HandleInboundReply(channel, content)
      PROVE  IInv'
  BY <1>3, ReplyKeepsIInv
<1>4. CASE GoDormant
  BY <1>4 DEF GoDormant, history, IInv, TypeOK, States, CountIsHeard,
              ColdIsUntouched, ContactedIsUnanswered, RepliedIsAnswered,
              TextingIsEarned, ThreeAttempts, WarmTakesTwoReplies
<1>5. CASE SendNextOutbound
  <2>1. TypeOK' /\ CountIsHeard' /\ TextingIsEarned'
    <3>1. Channel = "sms" => emails > 0
      BY DEF Channel, IInv, TypeOK, CountIsHeard
    <3>2. early < MaxAttempts \/ state # "cold"
      BY <1>5 DEF SendNextOutbound, IInv, TypeOK, ColdIsUntouched
    <3>3. QED
      BY <1>5, <3>1, <3>2 DEF SendNextOutbound, IInv, TypeOK, CountIsHeard,
                              TextingIsEarned
  <2>2. ColdIsUntouched' /\ ContactedIsUnanswered' /\ RepliedIsAnswered'
        /\ WarmTakesTwoReplies'
    BY <1>5 DEF SendNextOutbound, IInv, TypeOK, ColdIsUntouched,
                ContactedIsUnanswered, RepliedIsAnswered, WarmTakesTwoReplies
  <2>3. ThreeAttempts'
    BY <1>5 DEF SendNextOutbound, Exhausted, IInv, TypeOK, ThreeAttempts,
                DormantAfter
  <2>4. QED
    BY <2>1, <2>2, <2>3 DEF IInv
<1>6. CASE ReceiveOptOut
  BY <1>6 DEF ReceiveOptOut, history, IInv, TypeOK, States, CountIsHeard,
              ColdIsUntouched, ContactedIsUnanswered, RepliedIsAnswered,
              TextingIsEarned, ThreeAttempts, WarmTakesTwoReplies
<1>7. CASE UNCHANGED vars
  BY <1>7 DEF vars, IInv, TypeOK, CountIsHeard, ColdIsUntouched,
              ContactedIsUnanswered, RepliedIsAnswered, TextingIsEarned,
              ThreeAttempts, WarmTakesTwoReplies
<1>8. QED
  BY <1>1, <1>2, <1>3, <1>4, <1>5, <1>6, <1>7 DEF Next

\* The inductive invariant holds in every reachable state.
LEMMA IInvHolds == Spec => []IInv
  BY InitEstablishesIInv, StepKeepsIInv, PTL DEF Spec

-----------------------------------------------------------------------------

\* The state, the counters and the history keep their types.
THEOREM TypeCorrect == Spec => []TypeOK
<1>1. IInv => TypeOK
  BY DEF IInv
<1>2. QED
  BY <1>1, IInvHolds, PTL

\* No SMS is composed for a prospect that never answered an e-mail, however many
\* machines are made over it.
THEOREM SmsIsEarned == Spec => []TextingIsEarned
<1>1. IInv => TextingIsEarned
  BY DEF IInv
<1>2. QED
  BY <1>1, IInvHolds, PTL

\* A contacted prospect is written to three times at most, unless it was written
\* to while it was cold.
THEOREM AttemptsAreLimited == Spec => []ThreeAttempts
<1>1. IInv => ThreeAttempts
  BY DEF IInv
<1>2. QED
  BY <1>1, IInvHolds, PTL

\* A warm prospect has replied at least twice.
THEOREM WarmIsEarned == Spec => []WarmTakesTwoReplies
<1>1. IInv => WarmTakesTwoReplies
  BY DEF IInv
<1>2. QED
  BY <1>1, IInvHolds, PTL

\* Nothing leads out of opted_out, and nothing is composed there.
THEOREM OptOutStays == Spec => OptOutIsFinal
<1>1. IInv /\ [Next]_vars =>
        [state = "opted_out" => state' = "opted_out" /\ attempts' = attempts]_vars
  <2> SUFFICES ASSUME IInv, Next, state = "opted_out"
               PROVE  state' = "opted_out" /\ attempts' = attempts
    OBVIOUS
  <2>1. ASSUME NEW channel \in {"email", "sms"}, NEW content \in Replies,
               HandleInboundReply(channel, content)
        PROVE  state' = "opted_out" /\ attempts' = attempts
    BY <2>1, ReplyMovesForward DEF HandleInboundReply, IInv
  <2>2. QED
    BY <2>1 DEF Next, Resume, StartSequence, GoDormant, SendNextOutbound,
                ReceiveOptOut, Halted, prospect
<1>2. QED
  BY <1>1, IInvHolds, PTL DEF Spec, OptOutIsFinal

\* A prospect is given up after three attempts, none of which it answered but those
\* that were made before its sequence started.
THEOREM GivingUpIsJustified == Spec => SequenceAnswersHeeded
<1>1. IInv /\ [Next]_vars =>
        [state' = "dormant" /\ state # "dormant" =>
           attempts >= DormantAfter /\ answered <= early]_vars
  <2> SUFFICES ASSUME IInv, Next, state' = "dormant", state # "dormant"
               PROVE  attempts >= DormantAfter /\ answered <= early
    OBVIOUS
  <2>1. ASSUME NEW channel \in {"email", "sms"}, NEW content \in Replies,
               HandleInboundReply(channel, content)
        PROVE  FALSE
    BY <2>1, ReplyMovesForward DEF HandleInboundReply, IInv
  <2>2. GoDormant
    BY <2>1 DEF Next, Resume, StartSequence, SendNextOutbound, ReceiveOptOut,
                prospect
  <2>3. QED
    BY <2>2 DEF GoDormant, Exhausted, IInv, ContactedIsUnanswered
<1>2. QED
  BY <1>1, IInvHolds, PTL DEF Spec, SequenceAnswersHeeded

=============================================================================
