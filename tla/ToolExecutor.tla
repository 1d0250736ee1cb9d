--------------------------- MODULE ToolExecutor ----------------------------
(***************************************************************************)
(* agent/tool_executor.py over agent/mcp_client.py: execute_tool, which    *)
(* the LLM's tool calls and the persist node of the conversation graph     *)
(* share.  Each tool is one call of the client but the upsert, which       *)
(* searches for the contact when the creation fails with an error that     *)
(* reads like a conflict.                                                  *)
(* Whatever fails comes back as a JSON error, never as an exception.       *)
(***************************************************************************)
EXTENDS McpClient

CONSTANTS
  Uses,      \* the tools a coroutine executes
  LookAlike, \* request ids whose decimal form contains "409"
  MaxUses    \* bound on the executions

\* The notes, activities, briefs, bookings, deals, engagements and look-ups are
\* one call each; a tool that is unknown, misses an argument or finds no
\* HUBSPOT_OWNER_ID calls nothing.
Tools == {"hubspot_upsert_contact", "hubspot_other"}

ASSUME ExecutorAssumption ==
  /\ Uses \in [Callers -> SUBSET Tools]
  /\ LookAlike \in SUBSET Nat
  /\ MaxUses \in Nat

VARIABLES
  tool,    \* the tool a coroutine executes, or "none"
  used,    \* executions so far
  misread  \* history: coroutines that search though nobody said conflict

executorVars == <<tool, used, misread>>

vars == <<clientVars, executorVars>>

Init ==
  /\ ClientInit
  /\ tool = [c \in Callers |-> "none"]
  /\ used = 0
  /\ misread = {}

FirstMethod(t) == IF t = "hubspot_upsert_contact" THEN "create" ELSE "other"

\* Bound: MaxUses executions.
Execute(c, t) ==
  /\ tool[c] = "none"
  /\ used < MaxUses
  /\ used' = used + 1
  /\ Call(c, FirstMethod(t))
  /\ tool' = [tool EXCEPT ![c] = t]
  /\ UNCHANGED misread

\* The call of a tool has ended.
Ended(c) == tool[c] # "none" /\ pc[c] = "idle"

\* Mutant: every failed creation is answered with a search.
EveryFailureIsConflict(c) == outcome[c] \in {"conflict", "alike", "failed", "timeout"}

\* "409", "already" or "Expecting value" in str(exc): a conflict, an error that
\* reads like one, or the message of a timeout, which quotes the request's id.
ReadsAsConflict(c) ==
  \/ outcome[c] \in {"conflict", "alike"}
  \/ outcome[c] = "timeout" /\ req[c] \in LookAlike

FallsBack(c) == method[c] = "create" /\ ReadsAsConflict(c)

\* _upsert_contact looks for the contact that is in the way.
SearchInstead(c) ==
  /\ Ended(c)
  /\ FallsBack(c)
  /\ Call(c, "search")
  /\ misread' = IF outcome[c] \in {"alike", "timeout"} THEN misread \cup {c} ELSE misread
  /\ UNCHANGED <<tool, used>>

\* execute_tool returns the result, or the exception as a JSON error: that of a
\* creation that reads as a conflict, too, if the arguments hold no email.
Return(c) ==
  /\ Ended(c)
  /\ tool' = [tool EXCEPT ![c] = "none"]
  /\ misread' = misread \ {c}
  /\ outcome' = [outcome EXCEPT ![c] = "none"]
  /\ answer' = [answer EXCEPT ![c] = {}]
  /\ req' = [req EXCEPT ![c] = 0]
  /\ method' = [method EXCEPT ![c] = "other"]
  /\ UNCHANGED <<queue, pc, lastId, serverVars, contact, used>>

ExecutorStep(c) == SearchInstead(c) \/ Return(c)

Next ==
  \/ \E c \in Callers : \E t \in Uses[c] : Execute(c, t)
  \/ \E c \in Callers : ExecutorStep(c)
  \/ \E c \in Callers : ClientStep(c) /\ UNCHANGED executorVars
  \/ ServerStep /\ UNCHANGED executorVars

\* The event loop goes on with what can go on, and the two deadlines pass.  The
\* server need not ever answer, and while it reads nothing drain() need not return.
Fairness ==
  \A c \in Callers :
    /\ WF_vars(ExecutorStep(c))
    /\ WF_vars(~Blocked(c) /\ ClientStep(c) /\ UNCHANGED executorVars)

Spec == Init /\ [][Next]_vars /\ Fairness

-----------------------------------------------------------------------------
(* Properties. *)

\* The ids given out so far.
Requests == [id : 1..lastId, by : Callers, method : Methods \cup {"initialize"}]

TypeOK ==
  /\ queue \in Seq(Callers)
  /\ pc \in [Callers -> {"idle", "queued", "handshake", "reading"} \cup Writing]
  /\ req \in [Callers -> 0..lastId]
  /\ \A c \in Callers : pc[c] \notin {"idle", "queued"} => req[c] > 0
  /\ method \in [Callers -> Methods]
  /\ outcome \in [Callers -> Kinds \cup {"none", "failed", "timeout"}]
  /\ answer \in [Callers -> SUBSET Requests]
  /\ lastId \in Nat
  /\ started \in 0..MaxServers
  /\ server \in {"none", "running", "stalled", "exited", "reaped"}
  /\ initialized \in BOOLEAN
  /\ spoiled \in BOOLEAN
  /\ pending \in SUBSET Requests
  /\ stdout \in Seq([request : Requests, kind : Kinds])
  /\ contact \in BOOLEAN
  /\ tool \in [Callers -> Tools \cup {"none"}]
  /\ used \in 0..MaxUses
  /\ misread \in SUBSET Callers

\* A call that returns a result, or raises for an error the server answered with,
\* has read the answer to the very request it sent, however late the answers to
\* the requests given up before it come in, and never takes a server that is gone
\* for one that has answered.
AnswerIsOwn ==
  \A c \in Callers :
    outcome[c] \in Kinds =>
      answer[c] = {[id |-> req[c], by |-> c, method |-> method[c]]}

\* An upsert that returns a contact, or comes back empty-handed from the search it
\* went on to, leaves the contact in HubSpot, whichever of two upserts at a time
\* created it and whatever answers were lost.  Two of its results promise nothing:
\* the text of a refusal, which call() takes for a result, and that of a search
\* an error that only reads like a conflict has sent it on.
UpsertedExists ==
  \A c \in Callers :
    /\ tool[c] = "hubspot_upsert_contact"
    /\ pc[c] = "idle"
    /\ outcome[c] = "ok" \/ (outcome[c] = "nothing" /\ c \notin misread)
    => contact

\* A tool request goes to a server that has not completed its handshake only if a
\* handshake with that very process has failed before.
HandshakeFirst ==
  \A c \in Callers : pc[c] \in {"sending", "reading"} => initialized \/ spoiled

\* Every tool execution returns to the graph, though the server never answers,
\* dies, or comes up and dies again: only a server that lives on for ever without
\* reading can hold the coroutine that writes to it, and all that wait behind it.
ToolsReturn ==
  \A c \in Callers :
    \/ tool[c] # "none" ~> tool[c] = "none"
    \/ <>[](server = "stalled")

=============================================================================
