---------------------------- MODULE PolicyGates ----------------------------
(***************************************************************************)
(* policies/: the gates a proposed action passes before it has effects,    *)
(* and the decision EvidenceCalibratedActionPolicy makes of them.          *)
(*                                                                         *)
(* An action is a record: type, channel, body (the classes of phrases its  *)
(* text contains), flaws (what the tone guard finds in it) and claims.     *)
(* What the gates read of the state is a record too.  A confidence is a    *)
(* number of hundredths, or None.                                          *)
(***************************************************************************)
EXTENDS Integers, FiniteSets

CONSTANT None  \* Python's None

Sends == {"send_email", "send_sms"}

\* Phrases the gates look for.
Phrases == {"aggressive hiring", "sector leaders", "gap", "you are behind",
            "we have capacity", "total contract", "custom pricing"}

-----------------------------------------------------------------------------
(* EvidenceGate *)

AssertiveThreshold == 80
SoftThreshold == 55

\* A claim may be asserted from the assertive threshold on and be put softly from
\* the soft one on.  Without a confidence only the assertion is refused.
ClaimAllowed(claim) ==
  IF claim.confidence = None THEN claim.tier # "assertive"
  ELSE /\ claim.tier = "assertive" => claim.confidence >= AssertiveThreshold
       /\ claim.tier = "soft" => claim.confidence >= SoftThreshold

\* The numbers "aggressive hiring" needs; a number that is not known counts as 0.
HiringIsAggressive(state) ==
  /\ state.posts # None /\ state.posts >= 5
  /\ state.velocity # None /\ state.velocity >= 3

EvidenceGate(action, state) ==
  /\ \A claim \in action.claims : ClaimAllowed(claim)
  /\ "aggressive hiring" \in action.body => HiringIsAggressive(state)

-----------------------------------------------------------------------------
(* GapGate *)

GapLanguage == {"gap", "you are behind"}

\* The gap brief is a number of peers and the confidences of its gaps, or None.
GapGate(action, state) ==
  state.gap # None =>
    /\ "sector leaders" \in action.body => state.gap.peers >= 5
    /\ action.body \cap GapLanguage # {} => state.gap.confidences # {"low"}
    /\ "you are behind" \in action.body => state.segment = "segment_4"

-----------------------------------------------------------------------------
(* BenchGate, ChannelGate, PricingGate, ToneGate, ToolActionGate *)

\* review() is called without a bench summary: only the mismatch counts.
BenchGate(action, state) ==
  state.benchMismatch => "we have capacity" \notin action.body

ChannelGate(action, state) ==
  /\ ~(state.optedOut /\ action.type \in Sends)
  /\ action.channel = "sms" /\ ~state.askedForSms => state.replies >= 1

PricingGate(action) == "total contract" \notin action.body

\* Fifteen points off a hundred for each flaw, seventy to pass.
ToneScore(flaws) == IF 15 * flaws > 100 THEN 0 ELSE 100 - 15 * flaws

TonePasses(flaws) == ToneScore(flaws) >= 70

ToneGate(action) == action.type \in Sends => TonePasses(action.flaws)

\* A send lacks its decision id only when another gate has refused it already.
ToolActionGate(action, state) ==
  /\ action.type = "book_meeting" => state.slotConfirmed
  /\ action.type = "write_crm" => state.traced

-----------------------------------------------------------------------------
(* EvidenceCalibratedActionPolicy.review *)

RewriteGates(action, state) ==
  /\ EvidenceGate(action, state)
  /\ GapGate(action, state)
  /\ BenchGate(action, state)
  /\ PricingGate(action)
  /\ ToneGate(action)

Review(action, state) ==
  [allowed |-> /\ RewriteGates(action, state)
               /\ ChannelGate(action, state)
               /\ ToolActionGate(action, state),
   rewrite |-> ~RewriteGates(action, state),
   human   |-> "custom pricing" \in action.body]

=============================================================================
