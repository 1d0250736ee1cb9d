---------------------------- MODULE Conversation ----------------------------
(***************************************************************************)
(* The decisions one inbound event goes through: the classifier of         *)
(* agent/reply_handler.py, the routing and the send of                     *)
(* orchestrators/conversation_orchestrator.py, the verdict of policies/.   *)
(* They are pure functions of the text, the brief and the channel; the     *)
(* modules that handle events say when they run and what happens between.  *)
(*                                                                         *)
(* A text is the class the first matching pattern puts it in; what a model *)
(* answers or drafts is any value it can answer or draft.                  *)
(***************************************************************************)
EXTENDS FiniteSets

\* The classes of inbound text, in the order in which they are tried.  "empty"
\* is no text at all (an email.opened event, a dispatched first message).
Bodies ==
  {"stop_word", "help_word", "opt_out", "hostile", "pricing", "capacity",
   "asks_sms", "slot", "declines", "corrects", "positive", "other", "empty"}

\* hiring_signal_brief: None, or one whose bench_mismatch is false or true.
Briefs == {"none", "matched", "mismatch"}

Channels == {"email", "sms", "cal"}

\* ProspectState, the values CRMWriter can write.
ProspectStates ==
  {"cold", "contacted", "replied", "warm", "booking", "dormant", "opted_out"}

\* lifecycle_stage after classification: "keep" stands for the lead's own state.
Stages == {"keep", "escalated", "booking", "dormant", "warm"}

Paths ==
  {"command", "opt_out", "escalate", "schedule", "no_action", "compose", "raises"}

Route(path, stage, asked) == [path |-> path, stage |-> stage, asked |-> asked]

\* Mutant: the opt-out words are looked for last, so a text that also asks for a
\* call is answered.
RoutesOptOutLast(body, brief) ==
  CASE body \in {"stop_word", "help_word"} -> {Route("command", "keep", FALSE)}
    [] body = "hostile"  -> {Route("escalate", "escalated", FALSE)}
    [] body = "slot"     -> {Route("schedule", "booking", FALSE)}
    [] OTHER             -> {Route("compose", "keep", FALSE)}

\* What _check_command and classify make of a text, and the branch handle_event
\* takes.  A capacity question on a lead without a brief raises: the key is
\* there and its value is None.  An ambiguous text goes to the LLM when a key is
\* configured; its label decides the branch, without a state update.
Routes(body, brief) ==
  CASE body \in {"stop_word", "help_word"} -> {Route("command", "keep", FALSE)}
    [] body = "opt_out"  -> {Route("opt_out", "keep", FALSE)}
    [] body = "hostile"  -> {Route("escalate", "escalated", FALSE)}
    [] body = "pricing"  -> {Route("escalate", "keep", FALSE)}
    [] body = "capacity" ->
         {Route(CASE brief = "none"     -> "raises"
                  [] brief = "mismatch" -> "escalate"
                  [] brief = "matched"  -> "compose", "keep", FALSE)}
    [] body = "asks_sms" -> {Route("compose", "keep", TRUE)}
    [] body = "slot"     -> {Route("schedule", "booking", FALSE)}
    [] body = "declines" -> {Route("no_action", "dormant", FALSE)}
    [] body \in {"corrects", "positive"} -> {Route("compose", "warm", FALSE)}
    [] body \in {"other", "empty"} ->
         {Route(p, "keep", FALSE) : p \in Paths \ {"command", "raises"}}

\* _compose_via_mechanism: no brief, or any exception, gives an empty draft.
Drafts(brief) == IF brief = "none" THEN {"blank"} ELSE {"blank", "text"}

\* The policy's verdict on a draft.  The channel gate refuses an SMS nobody asked
\* for (the event carries no email_reply_count, so it counts as zero); a blank
\* draft passes every other gate; a written one may fail any of them, and a
\* failure may ask for a human.
Verdicts(draft, channel, asked) ==
  LET unasked == channel = "sms" /\ ~asked
  IN  CASE draft = "blank" -> IF unasked THEN {"blocked"} ELSE {"allowed"}
        [] draft = "text"  -> {"blocked", "human"}
                              \cup IF unasked THEN {} ELSE {"allowed"}

\* Mutant: the destination is the prospect's whenever an address is known.
TargetIgnoresSwitch(live, sink, channel, email, phone) ==
  IF channel = "email" THEN email ELSE phone

\* Where _execute_send addresses a message: the kill switch chooses between the
\* prospect and the staff sink, and without a configured sink address the sink
\* is the prospect's own email address.
Target(live, sink, channel, email, phone) ==
  IF live THEN (IF channel = "email" THEN email ELSE phone)
          ELSE (IF sink # "nobody" THEN sink ELSE email)

=============================================================================
