----------------------------- MODULE AgentGraph -----------------------------
(***************************************************************************)
(* agent/graph.py: the LangGraph conversation graph behind                 *)
(* ConversationAgent.handle, one turn per inbound message.                 *)
(*                                                                         *)
(* A turn runs the nodes one superstep at a time; each of them awaits, so  *)
(* turns interleave, and two turns of one prospect share a thread: what    *)
(* the checkpointer saved last is what the next turn starts from.  The     *)
(* turns share the LLM budget guard and the kill switch.                   *)
(*                                                                         *)
(* External, modelled from their use: LangGraph (thread memory and the     *)
(* recursion limit), the model, Resend and Africa's Talking.  The MCP      *)
(* client behind the tools has a module of its own: here a tool call ends  *)
(* in any of the results it can have.                                      *)
(***************************************************************************)
EXTENDS PolicyGates, Sequences, SequencesExt

CONSTANTS
  Turns,          \* executions of handle_inbound
  Prospects,
  Thread,         \* [Turns -> Prospects]: prospect_id, the thread of a turn
  Events,         \* what can come in on a turn: [channel, phone, text]
  Findings,       \* briefs: [posts, velocity, gap, segment, mismatch]
  Drafts,         \* what the chain can write: [body, flaws]
  Answers,        \* the AIMessages the model gives: kinds of message
  Live,           \* KILL_SWITCH = "enabled", read from the environment
  SinkEmail,      \* STAFF_SINK_EMAIL is set
  SinkPhone,      \* STAFF_SINK_PHONE is set
  RecursionLimit, \* supersteps LangGraph allows a turn (25 by default)
  Limit,          \* LLM_BUDGET_USD
  MaxCost         \* the dearest single call

ASSUME GraphAssumption ==
  /\ IsFiniteSet(Turns) /\ DOMAIN Events = Turns
  /\ Thread \in [Turns -> Prospects]
  /\ \A t \in Turns : \A event \in Events[t] : event.channel \in {"email", "sms"}
  /\ \A draft \in Drafts : draft.flaws \in Nat
  /\ Answers \subseteq {"answer", "silent", "call", "talking_call"}
  /\ Live \in BOOLEAN /\ SinkEmail \in BOOLEAN /\ SinkPhone \in BOOLEAN
  /\ RecursionLimit \in Nat \ {0}
  /\ Limit \in Nat \ {0}
  /\ MaxCost \in Nat

VARIABLES
  pc,            \* the node a turn runs next
  steps,         \* supersteps it has taken
  state,         \* its AgentState, the messages apart, and what it has sent
  messages,      \* its messages
  saved,         \* the messages in the last checkpoint of each thread
  total,         \* the guard's _total_usd
  acknowledged,  \* the guard's _acknowledged
  before         \* history: the turns that had ended when a turn began

guard == <<total, acknowledged>>
vars == <<pc, steps, state, messages, saved, guard, before>>

-----------------------------------------------------------------------------
(* The state of a turn *)

Nodes ==
  {"enrich", "classify", "check_command", "compose_outbound", "llm", "calling",
   "tools", "policy_review", "kill_switch", "send_email", "persist"}

Ended == {"done", "failed"}

\* AIMessages: a text, the usage-limit text, nothing, tool calls, tool calls with a
\* text.  The results of the calls of one message are one ToolMessage here.
Calls  == {"call", "talking_call"}
Spoken == {"answer", "refusal", "talking_call"}
Kinds  == {"human", "silent", "results"} \cup Calls \cup Spoken

Message(t, kind) == [turn |-> t, kind |-> kind]

\* handle_inbound's initial_state.
InitialState(event) ==
  [event |-> event, brief |-> None, segment |-> None, benchMismatch |-> FALSE,
   draft |-> None, reply |-> None, destination |-> None,
   sent |-> None]

\* What the policy reads of the AgentState.  It has no field for an opt-out, a
\* request for SMS, a reply count, a confirmed slot or a trace id.
PolicyState(s) ==
  [posts         |-> IF s.brief = None THEN None ELSE s.brief.posts,
   velocity      |-> IF s.brief = None THEN None ELSE s.brief.velocity,
   gap           |-> IF s.brief = None THEN None ELSE s.brief.gap,
   segment       |-> s.segment,
   benchMismatch |-> s.benchMismatch,
   optedOut |-> FALSE, askedForSms |-> FALSE, replies |-> 0,
   slotConfirmed |-> FALSE, traced |-> FALSE]

\* node_policy_review's proposed_action.
ProposedAction(s) ==
  [type    |-> IF s.event.channel = "sms" THEN "send_sms" ELSE "send_email",
   channel |-> s.event.channel,
   body    |-> s.draft.body,
   flaws   |-> s.draft.flaws,
   claims  |-> {}]

-----------------------------------------------------------------------------
(* Steps *)

Init ==
  /\ pc = [t \in Turns |-> "idle"]
  /\ steps = [t \in Turns |-> 0]
  /\ state = [t \in Turns |-> InitialState(None)]
  /\ messages = [t \in Turns |-> <<>>]
  /\ saved = [p \in Prospects |-> <<>>]
  /\ total = 0
  /\ acknowledged = FALSE
  /\ before = [t \in Turns |-> {}]

Running == {t \in Turns : pc[t] \in Nodes}

\* LangGraph starts no superstep past the limit, and looks at the limit before it
\* sees that no node is left to run.
OutOfSteps(t) == steps[t] >= RecursionLimit

\* A node runs: the turn takes a superstep and goes on to `next`.
Superstep(t, node, next) ==
  /\ pc[t] = node
  /\ ~OutOfSteps(t)
  /\ pc' = [pc EXCEPT ![t] = next]
  /\ steps' = [steps EXCEPT ![t] = @ + 1]

\* add_messages, and the checkpoint written after the superstep.
Append1(t, new) ==
  /\ messages' = [messages EXCEPT ![t] = @ \o new]
  /\ saved' = [saved EXCEPT ![Thread[t]] = messages[t] \o new]

\* The checkpoint of a superstep that adds no message.
Checkpoint(t) == Append1(t, <<>>)

\* ainvoke starts from the thread's last checkpoint.
Loaded(t) == saved[Thread[t]]

\* Mutant: every message opens a thread anew.
BeginAfresh(t, event) ==
  /\ pc[t] = "idle"
  /\ pc' = [pc EXCEPT ![t] = "enrich"]
  /\ state' = [state EXCEPT ![t] = InitialState(event)]
  /\ messages' = [messages EXCEPT ![t] = <<Message(t, "human")>>]
  /\ saved' = [saved EXCEPT ![Thread[t]] = messages'[t]]
  /\ before' = [before EXCEPT ![t] = {u \in Turns : pc[u] \in Ended}]
  /\ UNCHANGED <<steps, guard>>

\* handle_inbound
Begin(t, event) ==
  /\ pc[t] = "idle"
  /\ pc' = [pc EXCEPT ![t] = "enrich"]
  /\ state' = [state EXCEPT ![t] = InitialState(event)]
  /\ messages' =
       [messages EXCEPT ![t] = Append(Loaded(t), Message(t, "human"))]
  /\ saved' = [saved EXCEPT ![Thread[t]] = messages'[t]]
  /\ before' = [before EXCEPT ![t] = {u \in Turns : pc[u] \in Ended}]
  /\ UNCHANGED <<steps, guard>>

\* node_enrich: the pre-baked brief, what the pipeline finds, or no brief.
Enrich(t) ==
  /\ Superstep(t, "enrich", "classify")
  /\ \E brief \in Findings \cup {None} : state' = [state EXCEPT ![t].brief = brief]
  /\ Checkpoint(t)
  /\ UNCHANGED <<guard, before>>

\* node_classify: without a brief, or when it fails, nothing is known to be
\* missing on the bench.
Classify(t) ==
  /\ Superstep(t, "classify", "check_command")
  /\ \/ state' = [state EXCEPT ![t].segment = "unqualified"]
     \/ /\ state[t].brief # None
        /\ state' = [state EXCEPT ![t].segment = state[t].brief.segment,
                                  ![t].benchMismatch = state[t].brief.mismatch]
  /\ Checkpoint(t)
  /\ UNCHANGED <<guard, before>>

\* Mutant: a command is answered without asking the switch.
AfterCommandUnrouted(command) ==
  IF command THEN "send_email" ELSE "compose_outbound"

\* route_after_command
AfterCommand(command) == IF command THEN "kill_switch" ELSE "compose_outbound"

\* node_check_command: STOP, HELP and their variants get a fixed reply.
CheckCommand(t) ==
  LET command == state[t].event.text = "command" IN
  /\ Superstep(t, "check_command", AfterCommand(command))
  /\ state' = IF command THEN [state EXCEPT ![t].reply = "command"] ELSE state
  /\ Checkpoint(t)
  /\ UNCHANGED <<guard, before>>

\* node_compose_outbound and route_after_compose: a draft, or nothing (no brief,
\* or the chain fails).  From there on the brief only fills the prompt and a CRM
\* note, so the model forgets it.
Compose(t) ==
  /\ \/ /\ state[t].brief # None
        /\ Superstep(t, "compose_outbound", "policy_review")
        /\ \E draft \in Drafts :
             state' = [state EXCEPT ![t].draft = draft, ![t].reply = "draft"]
     \/ /\ Superstep(t, "compose_outbound", "llm")
        /\ state' = [state EXCEPT ![t] = InitialState(@.event)]
  /\ Checkpoint(t)
  /\ UNCHANGED <<guard, before>>

-----------------------------------------------------------------------------
(* node_llm and node_tools *)

\* Mutant: the limit itself still passes.
OverBudgetOffByOne == total > Limit /\ ~acknowledged

OverBudget == total >= Limit /\ ~acknowledged

\* guard.check() passes, the model is awaited.
StartLlm(t) ==
  /\ pc[t] = "llm"
  /\ ~OutOfSteps(t)
  /\ ~OverBudget
  /\ pc' = [pc EXCEPT ![t] = "calling"]
  /\ UNCHANGED <<steps, state, messages, saved, guard, before>>


\* guard.check() raises: the usage-limit message is the answer.
RefuseLlm(t) ==
  /\ OverBudget
  /\ Superstep(t, "llm", "policy_review")
  /\ Append1(t, <<Message(t, "refusal")>>)
  /\ UNCHANGED <<state, guard, before>>

\* route_after_llm
AfterLlm(kind) == IF kind \in Calls THEN "tools" ELSE "policy_review"

\* Mutant: the cost is taken off the total.
EndLlmCredits(t) ==
  \E kind \in Answers, cost \in 0..MaxCost :
    /\ Superstep(t, "calling", AfterLlm(kind))
    /\ Append1(t, <<Message(t, kind)>>)
    /\ total' = total - cost
    /\ UNCHANGED <<state, acknowledged, before>>

\* The model answers and guard.record() adds the cost.
EndLlm(t) ==
  \E kind \in Answers, cost \in 0..MaxCost :
    /\ Superstep(t, "calling", AfterLlm(kind))
    /\ Append1(t, <<Message(t, kind)>>)
    /\ total' = total + cost
    /\ UNCHANGED <<state, acknowledged, before>>

\* Mutant: a call that fails is tried again.
FailLlmAndRetry(t) ==
  /\ Superstep(t, "calling", "llm")
  /\ Checkpoint(t)
  /\ UNCHANGED <<state, guard, before>>

\* The call fails: the follow-up message is the answer.
FailLlm(t) ==
  /\ Superstep(t, "calling", "policy_review")
  /\ Append1(t, <<Message(t, "answer")>>)
  /\ UNCHANGED <<state, guard, before>>

\* node_tools: every call ends in a result, if only an error.
Tools(t) ==
  /\ Superstep(t, "tools", "llm")
  /\ Append1(t, <<Message(t, "results")>>)
  /\ UNCHANGED <<state, guard, before>>

-----------------------------------------------------------------------------
(* node_policy_review, node_kill_switch, node_send_email, node_persist *)

\* Mutant: the verdict is recorded and the reply kept.
ReviewedIgnored(s) == s

\* A refused reply is taken back; without a reply there is nothing to review.
Reviewed(s) ==
  IF s.reply = None \/ Review(ProposedAction(s), PolicyState(s)).allowed
  THEN s
  ELSE [s EXCEPT !.reply = None]

PolicyReview(t) ==
  /\ Superstep(t, "policy_review", "kill_switch")
  /\ state' = [state EXCEPT ![t] = Reviewed(state[t])]
  /\ Checkpoint(t)
  /\ UNCHANGED <<guard, before>>

KillSwitch(t) ==
  /\ Superstep(t, "kill_switch", "send_email")
  /\ state' = [state EXCEPT ![t].destination =
                 IF Live THEN "prospect" ELSE "staff_sink"]
  /\ Checkpoint(t)
  /\ UNCHANGED <<guard, before>>

\* The reply, else the last AIMessage of the thread with a text, whichever turn
\* it is of, else a generic line.
Text(t) ==
  LET spoken == {i \in DOMAIN messages[t] : messages[t][i].kind \in Spoken} IN
  CASE state[t].reply # None -> Message(t, state[t].reply)
    [] state[t].reply = None /\ spoken # {} -> messages[t][Max(spoken)]
    [] OTHER -> Message(t, "generic")

\* Where it goes: an SMS stays one when there is a number to send it to, and an
\* email for a sink without an address goes to the prospect's.
Envelope(s) ==
  IF s.destination = "staff_sink"
  THEN IF s.event.channel = "sms" /\ SinkPhone
       THEN [to |-> "staff", channel |-> "sms"]
       ELSE [to |-> IF SinkEmail THEN "staff" ELSE "prospect", channel |-> "email"]
  ELSE [to |-> "prospect",
        channel |-> IF s.event.channel = "sms" /\ s.event.phone THEN "sms" ELSE "email"]

\* A send that fails is logged and no more.
SendEmail(t) ==
  LET text == Text(t)
      envelope == Envelope(state[t])
  IN
  /\ Superstep(t, "send_email", "persist")
  /\ \E delivered \in BOOLEAN :
       state' = [state EXCEPT
         ![t].reply = text.kind,
         ![t].sent = IF delivered
                     THEN [to |-> envelope.to, channel |-> envelope.channel,
                           kind |-> text.kind, of |-> text.turn]
                     ELSE None]
  /\ Checkpoint(t)
  /\ UNCHANGED <<guard, before>>

\* After the last node a turn is done, but one that took as many supersteps as the
\* limit allows raises all the same.
AfterPersist(t) == IF steps[t] + 1 >= RecursionLimit THEN "failed" ELSE "done"

\* The CRM notes go through the tools; every one that fails is logged and no more.
\* Then nothing of the turn is left in the graph.
Persist(t) ==
  /\ Superstep(t, "persist", AfterPersist(t))
  /\ state' = [state EXCEPT ![t] = InitialState(None)]
  /\ Checkpoint(t)
  /\ UNCHANGED <<guard, before>>

\* GraphRecursionError: the turn ends where it is.
Abort(t) ==
  /\ t \in Running
  /\ OutOfSteps(t)
  /\ pc' = [pc EXCEPT ![t] = "failed"]
  /\ UNCHANGED <<steps, state, messages, saved, guard, before>>

\* budget_guard.acknowledge(), once the guard refuses.
Acknowledge ==
  /\ OverBudget
  /\ acknowledged' = TRUE
  /\ UNCHANGED <<pc, steps, state, messages, saved, total, before>>

-----------------------------------------------------------------------------

Step(t) ==
  \/ Enrich(t) \/ Classify(t) \/ CheckCommand(t) \/ Compose(t)
  \/ StartLlm(t) \/ RefuseLlm(t) \/ EndLlm(t) \/ FailLlm(t) \/ Tools(t)
  \/ PolicyReview(t) \/ KillSwitch(t) \/ SendEmail(t) \/ Persist(t)
  \/ Abort(t)

Next ==
  \/ \E t \in Turns : \E event \in Events[t] : Begin(t, event)
  \/ \E t \in Turns : Step(t)
  \/ Acknowledge

\* The event loop runs every node to its next await, and every await of a node
\* ends: the HTTP clients and the MCP reads have timeouts.
Fairness == \A t \in Turns : WF_vars(Step(t))

Spec == Init /\ [][Next]_vars /\ Fairness

-----------------------------------------------------------------------------

TypeOK ==
  /\ pc \in [Turns -> {"idle"} \cup Nodes \cup Ended]
  /\ steps \in [Turns -> 0..RecursionLimit]
  /\ \A t \in Turns :
       /\ state[t].event \in Events[t] \cup {None}
       /\ state[t].brief \in Findings \cup {None}
       /\ state[t].draft \in Drafts \cup {None}
       /\ state[t].destination \in {None, "prospect", "staff_sink"}
       /\ messages[t] \in Seq([turn : Turns, kind : Kinds])
  /\ saved \in [Prospects -> Seq([turn : Turns, kind : Kinds])]
  /\ total \in Nat
  /\ acknowledged \in BOOLEAN

\* Whatever is drafted, and whatever turn it is sent in: what leaves the graph as
\* a draft offers no capacity the bench is known to lack, boasts of hiring only
\* on the numbers, speaks of gaps only with a peer that shows one, keeps the tone
\* and is an email, since the graph's state cannot tell that SMS was earned.
DraftsReviewed ==
  \A t \in Turns :
    state[t].sent # None /\ state[t].sent.kind = "draft" =>
      LET s == state[t] IN
      /\ "we have capacity" \in s.draft.body => ~s.benchMismatch
      /\ "aggressive hiring" \in s.draft.body =>
           s.brief.posts # None /\ s.brief.posts >= 5
      /\ "gap" \in s.draft.body /\ s.brief.gap # None => s.brief.gap.confidences # {"low"}
      /\ s.draft.flaws <= 2
      /\ s.event.channel = "email"

\* With the switch off no prospect hears of a turn, on whatever path the turn
\* got to its send, provided the sink has an address.
DarkMeansSink ==
  ~Live /\ SinkEmail =>
    \A t \in Turns : state[t].sent # None => state[t].sent.to = "staff"

\* The recursion limit never cuts a turn between its send and its record: the
\* tool loop takes two supersteps a round, so with LangGraph's default of 25 (or
\* any odd limit from 9 on) a turn that still sends still runs node_persist, which
\* takes what was sent out of the state.  It may fail after that: a turn of
\* exactly the limit's length has sent and recorded when its caller is told that
\* it failed.
SentIsRecorded == \A t \in Turns : pc[t] \in Ended => state[t].sent = None

\* Two turns of a thread overlap when neither began after the other had ended.
Overlap(t, u) ==
  /\ t # u /\ Thread[t] = Thread[u]
  /\ pc[t] # "idle" /\ pc[u] # "idle"
  /\ t \notin before[u] /\ u \notin before[t]

\* A turn starts from all that was said in the earlier turns of its thread, the
\* ones that failed half-way included, as long as they did not overlap.
ThreadKeepsTurns ==
  \A t, u \in Turns :
    /\ Thread[t] = Thread[u] /\ t \in before[u]
    /\ \A v \in Turns : ~Overlap(t, v)
    => IsPrefix(messages[t], messages[u])

\* "Clear reply_text so send_email node sends nothing to prospect": a turn whose
\* draft the policy refused.
Refused(t) ==
  /\ state[t].draft # None
  /\ ~Review(ProposedAction(state[t]), PolicyState(state[t])).allowed

BlockedSendsNothing ==
  \A t \in Turns : Refused(t) /\ state[t].sent # None => state[t].sent.to # "prospect"


\* The turns use the budget guard as its specification has its callers do: no
\* more calls than the graph can make are needed, and no acknowledgement is
\* withdrawn.
Guard == INSTANCE BudgetGuard WITH
  Callers  <- Turns,
  MaxSpend <- Cardinality(Turns) * RecursionLimit * MaxCost + 1,
  calling  <- {t \in Turns : pc[t] = "calling"},
  refused  <- {t \in Turns : Message(t, "refusal") \in ToSet(messages[t])},
  ceiling  <- Limit - 1

GuardRefined == Guard!Init /\ [][Guard!Next]_(Guard!vars)

=============================================================================
