---------------------------- MODULE BudgetGuard ----------------------------
(***************************************************************************)
(* config/budget_guard.py and its only caller, agent/graph.py node_llm.    *)
(*                                                                         *)
(* Every LLM call of the conversation graph is bracketed by check(), which *)
(* raises once the recorded spend has reached the limit, and record(),     *)
(* which adds the cost of the call when its answer has arrived.  Each of   *)
(* the two takes the guard's lock, but the call itself is awaited between  *)
(* them, so several graph runs can have passed check() before the first of *)
(* them records anything.                                                  *)
(*                                                                         *)
(* Money is a whole number of units; a call costs 0..MaxCost of them.      *)
(***************************************************************************)
EXTENDS Integers, FiniteSets

CONSTANTS
  Callers,    \* concurrent executions of node_llm
  Limit,      \* LLM_BUDGET_USD
  MaxCost,    \* the dearest single call
  MaxSpend    \* bound: no call is started once this much has been recorded

ASSUME BudgetAssumption ==
  /\ IsFiniteSet(Callers)
  /\ Limit \in Nat \ {0}
  /\ MaxCost \in Nat
  /\ MaxSpend \in Nat

VARIABLES
  total,         \* _total_usd
  acknowledged,  \* _acknowledged
  calling,       \* callers between check() and the end of llm.ainvoke
  refused,       \* callers whose last check() raised BudgetExceededError
  ceiling        \* history: the highest spend at which a check() may have
                 \* passed: Limit - 1, raised to what was recorded whenever
                 \* the operator withdraws an acknowledgement

vars == <<total, acknowledged, calling, refused, ceiling>>

-----------------------------------------------------------------------------

Init ==
  /\ total = 0
  /\ acknowledged = FALSE
  /\ calling = {}
  /\ refused = {}
  /\ ceiling = Limit - 1

\* Mutant: the limit itself still passes.
ExceededOffByOne == total > Limit /\ ~acknowledged

\* Mutant: once refused, a caller is let through on its next attempt.
ExceededForgets == total >= Limit /\ ~acknowledged /\ refused = {}

\* The condition under which check() raises.
Exceeded == total >= Limit /\ ~acknowledged

\* node_llm passes guard.check() and awaits the model.
StartCall(c) ==
  /\ c \notin calling
  /\ total < MaxSpend
  /\ ~Exceeded
  /\ calling' = calling \cup {c}
  /\ refused' = refused \ {c}
  /\ UNCHANGED <<total, acknowledged, ceiling>>

\* guard.check() raises: node_llm answers with the usage-limit message.
RefuseCall(c) ==
  /\ c \notin calling
  /\ Exceeded
  /\ refused' = refused \cup {c}
  /\ UNCHANGED <<total, acknowledged, calling, ceiling>>

\* The answer arrives and guard.record() adds its cost.
FinishCall(c, cost) ==
  /\ c \in calling
  /\ total' = total + cost
  /\ calling' = calling \ {c}
  /\ UNCHANGED <<acknowledged, refused, ceiling>>

\* Mutant: a failed call is refunded although it was never charged.
FailCallRefunds(c) ==
  /\ c \in calling
  /\ total' = total - MaxCost
  /\ calling' = calling \ {c}
  /\ UNCHANGED <<acknowledged, refused, ceiling>>

\* llm.ainvoke raises: nothing is recorded and node_llm falls back.
FailCall(c) ==
  /\ c \in calling
  /\ calling' = calling \ {c}
  /\ UNCHANGED <<total, acknowledged, refused, ceiling>>

\* acknowledge()
Acknowledge ==
  /\ acknowledged' = TRUE
  /\ UNCHANGED <<total, calling, refused, ceiling>>

\* reset_acknowledgement(): calls admitted under the acknowledgement may still
\* be in flight, whatever has been spent so far.
ResetAcknowledgement ==
  /\ acknowledged' = FALSE
  /\ ceiling' = IF total > ceiling THEN total ELSE ceiling
  /\ UNCHANGED <<total, calling, refused>>

Complete(c) == FailCall(c) \/ \E cost \in 0..MaxCost : FinishCall(c, cost)

Next ==
  \/ \E c \in Callers : StartCall(c)
  \/ \E c \in Callers : RefuseCall(c)
  \/ \E c \in Callers : FailCall(c)
  \/ \E c \in Callers, cost \in 0..MaxCost : FinishCall(c, cost)
  \/ Acknowledge
  \/ ResetAcknowledgement

\* A call that was started ends: the HTTP client of the model has a timeout.
Fairness == \A c \in Callers : WF_vars(Complete(c))

Spec == Init /\ [][Next]_vars /\ Fairness

-----------------------------------------------------------------------------

TypeOK ==
  /\ total \in Nat
  /\ acknowledged \in BOOLEAN
  /\ calling \in SUBSET Callers
  /\ refused \in SUBSET Callers
  /\ ceiling \in Nat

\* check() and record() are not one step, so the limit is not a cap on the
\* spend; but without an acknowledgement the recorded spend passes the highest
\* spend at which a call was admitted by at most one call per concurrent caller.
SpendBounded ==
  ~acknowledged => total <= ceiling + Cardinality(Callers) * MaxCost

\* "Halting new LLM calls until operator acknowledges": if the spend stays at or
\* over the limit and nobody acknowledges it, LLM traffic stops for good, the
\* calls that were in flight when the limit was reached included.
HaltsUntilAcknowledged ==
  <>[](total >= Limit /\ ~acknowledged) => <>[](calling = {})

\* What makes SpendBounded inductive: each call in flight holds back the most it
\* can still add.
Headroom ==
  ~acknowledged =>
    total + Cardinality(calling) * MaxCost
      <= ceiling + Cardinality(Callers) * MaxCost

IInv == TypeOK /\ Limit - 1 <= ceiling /\ Headroom

=============================================================================
