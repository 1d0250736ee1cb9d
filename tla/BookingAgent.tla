---------------------------- MODULE BookingAgent ----------------------------
(***************************************************************************)
(* booking_agent/agent.py: the slots offered, create_booking with its one  *)
(* retry, and the notice to the delivery lead when both attempts failed,   *)
(* which is a job of the CRM writer and competes there with the others.    *)
(*                                                                         *)
(* External, modelled from its use: Cal.com, a calendar other people book  *)
(* in too.  It refuses a time that is taken, by whomever.                  *)
(***************************************************************************)
EXTENDS CRMWriter

CONSTANTS
  Times,      \* the times Cal.com can offer
  Free,       \* nobody's time
  Others,     \* whoever else books in the calendar
  NoWriter    \* bookings made without crm_writer: _NullCRMWriter

Bookings == {j \in Jobs : Caller[j] = "booking"}

ASSUME BookingAssumption ==
  /\ NoWriter \in SUBSET Bookings
  /\ Free \notin Jobs /\ Others \notin Jobs /\ Free # Others

VARIABLES
  calendar,  \* Cal.com: who holds a time
  stage,     \* where a booking is
  offered,   \* the times get_available_slots returned
  chosen,    \* the slot the prospect selected, or Free
  attempt,   \* the loop variable of create_booking, from 1
  lost       \* history: bookings with an attempt that was carried out and not heard of

booking == <<calendar, stage, offered, chosen, attempt, lost>>

Stages ==
  {"new", "offered", "posting", "notify", "notifying",
   "booked", "failed", "raised", "nothing"}

Settled == {"booked", "failed", "raised", "nothing"}

BookingInit ==
  /\ calendar = [s \in Times |-> Free]
  /\ stage = [b \in Bookings |-> "new"]
  /\ offered = [b \in Bookings |-> {}]
  /\ chosen = [b \in Bookings |-> Free]
  /\ attempt = [b \in Bookings |-> 1]
  /\ lost = {}

-----------------------------------------------------------------------------

\* get_available_slots returns what is free, fewer than _MIN_SLOTS included, or
\* raises.
Offer(b) ==
  /\ stage[b] = "new"
  /\ \/ /\ offered' = [offered EXCEPT ![b] = {s \in Times : calendar[s] = Free}]
        /\ stage' = [stage EXCEPT ![b] = "offered"]
     \/ /\ stage' = [stage EXCEPT ![b] = "nothing"]
        /\ UNCHANGED offered
  /\ UNCHANGED <<calendar, chosen, attempt, lost, vars>>

\* The prospect selects one of the offered slots, if there is one, while others
\* go on booking.
Choose(b) ==
  /\ stage[b] = "offered"
  /\ \/ \E s \in offered[b] :
          /\ chosen' = [chosen EXCEPT ![b] = s]
          /\ stage' = [stage EXCEPT ![b] = "posting"]
     \/ /\ offered[b] = {}
        /\ stage' = [stage EXCEPT ![b] = "nothing"]
        /\ UNCHANGED chosen
  /\ UNCHANGED <<calendar, offered, attempt, lost, vars>>

\* Cal.com enters the booking when the time is still free.
Entered(b) ==
  /\ calendar[chosen[b]] = Free
  /\ calendar' = [calendar EXCEPT ![chosen[b]] = b]

Settle(b, s) == stage' = [stage EXCEPT ![b] = s]

\* Mutant: the loop is not left with the answer.
PostSucceedsKeepsTrying(b) ==
  /\ stage[b] = "posting"
  /\ Entered(b)
  /\ Settle(b, IF attempt[b] = 1 THEN "posting" ELSE "booked")
  /\ attempt' = [attempt EXCEPT ![b] = 2]
  /\ UNCHANGED <<offered, chosen, lost, vars>>

\* A 2xx answer, a Booking is returned.
PostSucceeds(b) ==
  /\ stage[b] = "posting"
  /\ Entered(b)
  /\ Settle(b, "booked")
  /\ UNCHANGED <<offered, chosen, attempt, lost, vars>>

\* A 2xx answer whose body is no JSON: the exception is none of those the loop
\* catches.
PostGarbled(b) ==
  /\ stage[b] = "posting"
  /\ Entered(b)
  /\ Settle(b, "raised")
  /\ lost' = lost \cup {b}
  /\ UNCHANGED <<offered, chosen, attempt, vars>>

\* Mutant: a time that is taken counts as booked.
AfterErrorConflictIsSuccess(b) ==
  IF calendar[chosen[b]] # Free THEN "booked"
  ELSE IF attempt[b] = 1 THEN "posting" ELSE "notify"

\* Mutant: the loop never gives up.
AfterErrorAgain(b) == "posting"

\* Where the loop goes on after an error.
AfterError(b) == IF attempt[b] = 1 THEN "posting" ELSE "notify"

\* HTTPStatusError or RequestError: refused, not arrived, or entered with the
\* answer lost.
PostFails(b) ==
  /\ stage[b] = "posting"
  /\ \/ UNCHANGED <<calendar, lost>>
     \/ Entered(b) /\ lost' = lost \cup {b}
  /\ Settle(b, AfterError(b))
  /\ attempt' = [attempt EXCEPT ![b] = IF @ = 1 THEN 2 ELSE @]
  /\ UNCHANGED <<offered, chosen, vars>>

\* crm_writer.log_activity of the booking failure; the null writer only logs.
Notify(b) ==
  /\ stage[b] = "notify"
  /\ IF b \in NoWriter
     THEN Settle(b, "failed") /\ UNCHANGED vars
     ELSE Settle(b, "notifying") /\ Begin(b)
  /\ UNCHANGED <<calendar, offered, chosen, attempt, lost>>

\* Mutant: a notice that fails does not stop BookingFailedError.
NoticeRaisesNever(b) == FALSE

\* The notice failed for good, or its answer could not be read, and the exception
\* takes the place of BookingFailedError.
NoticeRaises(b) == <<b, 1>> \in emitted \cup raised

Finish(b) ==
  /\ stage[b] = "notifying"
  /\ pc[b] = "done"
  /\ Settle(b, IF NoticeRaises(b) THEN "raised" ELSE "failed")
  /\ UNCHANGED <<calendar, offered, chosen, attempt, lost, vars>>

\* Somebody else books.
TakenElsewhere(s) ==
  /\ calendar[s] = Free
  /\ calendar' = [calendar EXCEPT ![s] = Others]
  /\ UNCHANGED <<stage, offered, chosen, attempt, lost, vars>>

-----------------------------------------------------------------------------

BookingStep(b) ==
  \/ Choose(b) \/ PostSucceeds(b) \/ PostGarbled(b) \/ PostFails(b)
  \/ Notify(b) \/ Finish(b)

BookingNext ==
  \/ \E b \in Bookings : Offer(b) \/ BookingStep(b)
  \/ \E s \in Times : TakenElsewhere(s)
  \/ /\ \/ \E j \in Jobs \ Bookings : Begin(j)
        \/ \E j \in Jobs : Step(j)
        \/ Tick
     /\ UNCHANGED booking

\* Besides what the CRM writer's jobs need: the prospect answers, and every
\* request to Cal.com ends within the client's timeout.
BookingFairness == Fairness /\ \A b \in Bookings : WF_<<vars, booking>>(BookingStep(b))

BookingSpec ==
  Init /\ BookingInit /\ [][BookingNext]_<<vars, booking>> /\ BookingFairness

-----------------------------------------------------------------------------

BookingTypeOK ==
  /\ TypeOK
  /\ calendar \in [Times -> Bookings \cup {Free, Others}]
  /\ stage \in [Bookings -> Stages]
  /\ offered \in [Bookings -> SUBSET Times]
  /\ chosen \in [Bookings -> Times \cup {Free}]
  /\ attempt \in [Bookings -> 1..2]
  /\ lost \in SUBSET Bookings

\* "The delivery lead has been notified via CRM before raising": whoever catches
\* BookingFailedError finds the notice in HubSpot, however the notice fared behind
\* the limiter the other writes share.
FailureIsNotified ==
  \A b \in Bookings \ NoWriter :
    stage[b] = "failed" => \E c \in hub : c.job = b

\* A booking reported as failed that stands in the calendar nevertheless had the
\* answer to one of its attempts lost.
OrphansNeedLoss ==
  \A b \in Bookings :
    stage[b] \in {"failed", "raised"} /\ (\E s \in Times : calendar[s] = b) => b \in lost

\* A slot that was selected is settled one way or another.
BookingsEnd == \A b \in Bookings : stage[b] = "posting" ~> stage[b] \in Settled

\* What a request has been told so far: it is left open until create_booking, or
\* the choice of a slot before it, is over.
Told ==
  [b \in Bookings |->
     IF stage[b] = "booked" THEN "booked"
     ELSE IF stage[b] \in Settled THEN "failed" ELSE "open"]

\* create_booking keeps the promise: attempts, lost answers and taken times come
\* to at most one place in the calendar and one answer.
Promise == INSTANCE Appointments WITH Requests <- Bookings, outcome <- Told

KeepsPromise == Promise!Spec

=============================================================================
