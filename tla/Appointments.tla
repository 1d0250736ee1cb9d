---------------------------- MODULE Appointments ----------------------------
(***************************************************************************)
(* What create_booking promises, without its attempts: a request is given  *)
(* at most one place in the calendar, is told "booked" only when it has    *)
(* one, and is told one thing for good.  The calendar is shared with       *)
(* everybody else who books.                                               *)
(***************************************************************************)
CONSTANTS Requests, Times, Free, Others

VARIABLES
  calendar,  \* [Times -> Requests, Others or Free]
  outcome    \* [Requests -> {"open", "booked", "failed"}]

Init ==
  /\ calendar = [s \in Times |-> Free]
  /\ outcome = [r \in Requests |-> "open"]

\* The request enters the calendar.
Enter(r, s) ==
  /\ outcome[r] = "open"
  /\ calendar[s] = Free
  /\ \A u \in Times : calendar[u] # r
  /\ calendar' = [calendar EXCEPT ![s] = r]

Answer(r, answer) ==
  /\ outcome[r] = "open"
  /\ outcome' = [outcome EXCEPT ![r] = answer]

Confirm(r, s) ==
  /\ calendar[s] = r
  /\ Answer(r, "booked")
  /\ UNCHANGED calendar

\* The request enters the calendar and hears of it at once.
Book(r, s) == Enter(r, s) /\ Answer(r, "booked")

\* It may be in the calendar nevertheless.
Decline(r) == Answer(r, "failed") /\ UNCHANGED calendar

DeclineEntered(r, s) == Enter(r, s) /\ Answer(r, "failed")

TakenElsewhere(s) ==
  /\ calendar[s] = Free
  /\ calendar' = [calendar EXCEPT ![s] = Others]
  /\ UNCHANGED outcome

Next ==
  \/ \E r \in Requests, s \in Times :
       \/ Enter(r, s) /\ UNCHANGED outcome
       \/ Confirm(r, s)
       \/ Book(r, s)
       \/ DeclineEntered(r, s)
  \/ \E r \in Requests : Decline(r)
  \/ \E s \in Times : TakenElsewhere(s)

Spec == Init /\ [][Next]_<<calendar, outcome>>

=============================================================================
