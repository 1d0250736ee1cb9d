---------------------------- MODULE MCAgentGraph ----------------------------
(***************************************************************************)
(* Instance of AgentGraph for TLC: two turns on one thread, which may      *)
(* overlap or follow each other.  An odd recursion limit, as LangGraph's   *)
(* 25: a turn with one round of tools takes just as many supersteps and    *)
(* fails after its record, one with two is cut.  One call exhausts the     *)
(* budget.                                                                 *)
(***************************************************************************)
EXTENDS AgentGraph

CONSTANTS t1, t2, p1

MCTurns == {t1, t2}
MCProspects == {p1}
MCThread == [t \in MCTurns |-> p1]

Email(text) == [channel |-> "email", phone |-> TRUE, text |-> text]
Sms(phone) == [channel |-> "sms", phone |-> phone, text |-> "message"]

MCEvents ==
  t1 :> {Email("message")} @@ t2 :> {Sms(TRUE), Email("command")}

\* A company that hires, but not for a stack that is on the bench.
MCFindings ==
  {[posts |-> 6, velocity |-> None, segment |-> "segment_2", mismatch |-> TRUE,
    gap |-> [peers |-> 6, confidences |-> {"low"}]]}

MCDrafts ==
  {[body |-> {"we have capacity"}, flaws |-> 2],
   [body |-> {"aggressive hiring", "gap"}, flaws |-> 0]}

\* The model says something with every call: for the search for the last text a
\* call without one is like a silent message.
MCAnswers == {"answer", "silent", "talking_call"}

=============================================================================
