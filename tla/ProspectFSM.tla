---------------------------- MODULE ProspectFSM ----------------------------
(***************************************************************************)
(* The nurture sequence of one prospect: nurture_sequencer/state_machine.  *)
(*                                                                         *)
(* The state and the attempt counter live in the Prospect, the count of    *)
(* e-mail replies only in the ProspectFSM driving it: a new machine over   *)
(* the same prospect (Resume) starts that count again.  Nothing orders the *)
(* calls: any of them may come at any time, in any state.                  *)
(***************************************************************************)
EXTENDS Integers

CONSTANTS
  MaxAttempts,  \* bound: messages composed
  MaxReplies    \* bound: replies heard

ASSUME ProspectAssumption ==
  /\ MaxAttempts \in Nat
  /\ MaxReplies \in Nat

VARIABLES
  state,      \* Prospect.current_state
  attempts,   \* Prospect.outbound_attempt_count
  preferred,  \* Prospect.preferred_channel
  replies,    \* ProspectFSM._email_reply_count
  early,      \* history: messages composed while the prospect was cold
  texted,     \* history: an SMS has been composed
  emails,     \* history: e-mail replies, whichever machine handled them
  heard,      \* history: replies on any channel since start_sequence
  answered    \* history: attempts made when the last reply of all came

prospect == <<state, attempts, preferred>>
history  == <<early, texted, emails, heard, answered>>
vars     == <<state, attempts, preferred, replies, early, texted, emails, heard,
              answered>>

\* The states a machine moves its prospect through; it never sets "booking".
States == {"cold", "contacted", "replied", "warm", "dormant", "opted_out"}

Replies == {"opt_out", "booking_intent", "other"}

DormantAfter == 3

Init ==
  /\ state = "cold"
  /\ attempts = 0
  /\ preferred \in {"email", "sms"}
  /\ replies = 0
  /\ early = 0
  /\ texted = FALSE
  /\ emails = 0
  /\ heard = 0
  /\ answered = 0

\* A new machine over the stored prospect.
Resume ==
  /\ replies' = 0
  /\ UNCHANGED <<prospect, history>>

\* start_sequence: raises unless the prospect is cold.
StartSequence ==
  /\ attempts < MaxAttempts
  /\ state = "cold"
  /\ state' = "contacted"
  /\ attempts' = attempts + 1
  /\ UNCHANGED <<preferred, replies, history>>

\* Mutant: the booking words are looked for in the first reply as well.
AfterReplyWarmsAtOnce(content) ==
  CASE content = "opt_out" -> "opted_out"
    [] content = "booking_intent" /\ state \in {"contacted", "replied"} -> "warm"
    [] content = "other" /\ state = "contacted" -> "replied"
    [] OTHER -> state

\* Mutant: booking words move the prospect straight to booking.
AfterReplyBooks(content) ==
  CASE content = "opt_out" -> "opted_out"
    [] content # "opt_out" /\ state = "contacted" -> "replied"
    [] content = "booking_intent" /\ state = "replied" -> "booking"
    [] OTHER -> state

\* The state after an inbound text: opt-out words win in every state, a reply
\* moves contacted to replied, and only then do booking words move it to warm.
AfterReply(content) ==
  CASE content = "opt_out" -> "opted_out"
    [] content # "opt_out" /\ state = "contacted" -> "replied"
    [] content = "booking_intent" /\ state = "replied" -> "warm"
    [] OTHER -> state

\* handle_inbound_reply
HandleInboundReply(channel, content) ==
  /\ emails < MaxReplies /\ heard < MaxReplies
  /\ state' = AfterReply(content)
  /\ IF content = "opt_out"
     THEN UNCHANGED <<replies, emails, heard, answered>>
     ELSE /\ IF channel = "email"
             THEN replies' = replies + 1 /\ emails' = emails + 1
             ELSE UNCHANGED <<replies, emails>>
          /\ heard' = IF state = "cold" THEN heard ELSE heard + 1
          /\ answered' = attempts
  /\ UNCHANGED <<attempts, preferred, early, texted>>

\* Mutant: only a prospect that opted out is left alone.
HaltedForgetsOptOut == state = "dormant"

Halted == state \in {"opted_out", "dormant"}

\* Mutant: the third attempt is not counted.
ExhaustedOneLate == state = "contacted" /\ attempts > DormantAfter

\* Mutant: any prospect without a fourth attempt left goes dormant.
ExhaustedAnywhere == attempts >= DormantAfter

Exhausted == state = "contacted" /\ attempts >= DormantAfter

\* send_next_outbound past three attempts: the prospect goes dormant and nothing
\* is composed.
GoDormant ==
  /\ ~Halted
  /\ Exhausted
  /\ state' = "dormant"
  /\ UNCHANGED <<attempts, preferred, replies, history>>

\* Mutant: a prospect that prefers SMS gets one.
ChannelAsPreferred == preferred

Channel == IF replies >= 1 /\ preferred = "sms" THEN "sms" ELSE "email"

\* send_next_outbound otherwise, also for a prospect that is still cold.
SendNextOutbound ==
  /\ attempts < MaxAttempts
  /\ ~Halted
  /\ ~Exhausted
  /\ attempts' = attempts + 1
  /\ texted' = (texted \/ Channel = "sms")
  /\ early' = IF state = "cold" THEN early + 1 ELSE early
  /\ UNCHANGED <<state, preferred, replies, emails, heard, answered>>

\* receive_opt_out
ReceiveOptOut ==
  /\ state' = "opted_out"
  /\ UNCHANGED <<attempts, preferred, replies, history>>

Next ==
  \/ Resume
  \/ StartSequence
  \/ \E channel \in {"email", "sms"}, content \in Replies :
       HandleInboundReply(channel, content)
  \/ GoDormant
  \/ SendNextOutbound
  \/ ReceiveOptOut

Spec == Init /\ [][Next]_vars

-----------------------------------------------------------------------------
(* Properties. *)

TypeOK ==
  /\ state \in States
  /\ attempts \in 0..MaxAttempts
  /\ preferred \in {"email", "sms"}
  /\ replies \in 0..MaxReplies
  /\ early \in 0..MaxAttempts
  /\ texted \in BOOLEAN
  /\ emails \in 0..MaxReplies
  /\ heard \in 0..MaxReplies
  /\ answered \in 0..MaxAttempts

\* Once opted out, by either call and through any text, a prospect stays opted
\* out and no machine composes another message for it.
OptOutIsFinal ==
  [][state = "opted_out" => state' = "opted_out" /\ attempts' = attempts]_vars

\* An SMS is composed only for a prospect that answered an e-mail, even though
\* the count it is decided by is lost with every new machine (Req 8.2).
TextingIsEarned == texted => emails > 0

\* A contacted prospect is written to three times at most.  What was sent while
\* it was still cold counts, and is the only way to exceed three (Req 8.6).
ThreeAttempts ==
  state = "contacted" => attempts <= DormantAfter \/ attempts <= early + 1

\* Nurturing is given up after three attempts at the earliest, and never on a
\* prospect that answered an attempt of its sequence.  That all three went
\* unanswered (Req 8.6, state_machine.py:442) does not hold: the code counts
\* attempts and no answers, so a reply to what was composed while the prospect was
\* cold is overlooked.  Those are the only attempts that may have been answered.
SequenceAnswersHeeded ==
  [][state' = "dormant" /\ state # "dormant" =>
       attempts >= DormantAfter /\ answered <= early]_vars

\* A prospect becomes warm with its second reply, not before (docstring of
\* ProspectFSM).
WarmTakesTwoReplies == state = "warm" => heard >= 2

=============================================================================
