----------------------------- MODULE CRMWriter -----------------------------
(***************************************************************************)
(* crm_writer/writer.py and the callers that write to HubSpot with it:     *)
(* ConversationOrchestrator._write_crm, PipelineRunner.run and the booking *)
(* agent's notice of a failed booking.                                     *)
(*                                                                         *)
(* A job is one run of such a caller: operations in a fixed order, each    *)
(* tried MaxRetries times, every try behind the rate limiter of the        *)
(* writer the job uses.  Jobs are coroutines: any of them may take its     *)
(* next step while the others sleep or wait for HubSpot.                   *)
(*                                                                         *)
(* Time is counted in ticks.  The limiter's timestamps and the sleeps are  *)
(* kept as ages and remaining times, which a tick moves on; an age stops   *)
(* at Window, where the limiter evicts it.                                 *)
(***************************************************************************)
EXTENDS Integers, Sequences, FiniteSetsExt

CONSTANTS
  Jobs,
  Caller,      \* who runs a job: "orchestrator", "pipeline" or "booking"
  Limiters,    \* _RateLimiter instances
  LimiterOf,   \* the one in the CRMWriter of a job
  MaxCalls,    \* _RATE_LIMIT_CALLS
  Window,      \* _RATE_LIMIT_WINDOW
  MaxRetries,  \* _MAX_RETRIES
  Backoff      \* _BACKOFF_DELAYS

ASSUME CRMAssumption ==
  /\ Caller \in [Jobs -> {"orchestrator", "pipeline", "booking"}]
  /\ LimiterOf \in [Jobs -> Limiters]
  /\ MaxCalls \in Nat \ {0}
  /\ Window \in Nat \ {0}
  /\ MaxRetries \in Nat \ {0}
  /\ Backoff \in [1..MaxRetries -> Nat]

\* The operations of a job, in order: an event whose reply was sent to a lead with
\* a brief, a pipeline run that found competitors.  Each is prepared, and is then
\* one call of _call.
Operations(j) ==
  CASE Caller[j] = "orchestrator" ->
         <<"upsert_contact", "log_activity", "write_brief">>
    [] Caller[j] = "pipeline" ->
         <<"upsert_contact", "write_brief", "write_gap_brief", "log_activity">>
    [] Caller[j] = "booking" -> <<"log_activity">>

Last(j) == Len(Operations(j))

\* Where a job goes on when operation n has raised: the exception ends it, but for
\* the pipeline, whose three try blocks each skip what is left of themselves.
AfterFailure(j, n) ==
  IF Caller[j] # "pipeline" THEN Last(j) + 1
  ELSE IF n = 1 THEN 2
  ELSE IF n \in {2, 3} THEN 4 ELSE 5

Calls == [job : Jobs, op : 1..4, try : 1..MaxRetries]

VARIABLES
  slots,    \* _RateLimiter._timestamps: the calls it remembers
  age,      \* ticks since a call was let through, up to Window
  pc,       \* "idle", "prepare" the operation, "ready" to ask the limiter,
            \* "request" sent, "done"
  op,       \* the operation a job is at
  try,      \* its attempt
  timer,    \* what is left of a job's asyncio.sleep
  hub,      \* the calls HubSpot carried out
  unheard,  \* history: those whose response never arrived
  emitted,  \* <<job, op>> whose payload went to Langfuse
  raised    \* history: <<job, op>> that an exception broke off outside the retry loop

vars == <<slots, age, pc, op, try, timer, hub, unheard, emitted, raised>>

Init ==
  /\ slots = [k \in Limiters |-> {}]
  /\ age = [c \in Calls |-> Window]
  /\ pc = [j \in Jobs |-> "idle"]
  /\ op = [j \in Jobs |-> 1]
  /\ try = [j \in Jobs |-> 1]
  /\ timer = [j \in Jobs |-> 0]
  /\ hub = {}
  /\ unheard = {}
  /\ emitted = {}
  /\ raised = {}

Call(j) == [job |-> j, op |-> op[j], try |-> try[j]]

Begin(j) ==
  /\ pc[j] = "idle"
  /\ pc' = [pc EXCEPT ![j] = "prepare"]
  /\ UNCHANGED <<slots, age, op, try, timer, hub, unheard, emitted, raised>>

\* On to operation n, or out of the job.
Continue(j, n) ==
  /\ pc' = [pc EXCEPT ![j] = IF n > Last(j) THEN "done" ELSE "prepare"]
  /\ op' = [op EXCEPT ![j] = IF n > Last(j) THEN @ ELSE n]
  /\ try' = [try EXCEPT ![j] = 1]
  /\ UNCHANGED timer

-----------------------------------------------------------------------------
(* What comes before a call: the Prospect and the HiringSignalBrief are     *)
(* rebuilt from the event's dicts, the name is split, the contact id is     *)
(* read as a number.                                                        *)

Prepare(j) ==
  /\ pc[j] = "prepare"
  /\ pc' = [pc EXCEPT ![j] = "ready"]
  /\ UNCHANGED <<slots, age, op, try, timer, hub, unheard, emitted, raised>>

\* The notice of a booking is built from strings alone; an operation behind an
\* upsert that raised has no contact id to read.
MayRaise(j) ==
  /\ Caller[j] # "booking"
  /\ op[j] = 1 \/ <<j, 1>> \notin emitted \cup raised

\* The data is not what the models or int() take: the caller catches the exception,
\* and nobody has seen the payload.
PreparationRaises(j) ==
  /\ pc[j] = "prepare"
  /\ MayRaise(j)
  /\ raised' = raised \cup {<<j, op[j]>>}
  /\ Continue(j, AfterFailure(j, op[j]))
  /\ UNCHANGED <<slots, age, hub, unheard, emitted>>

-----------------------------------------------------------------------------
(* _RateLimiter.acquire *)

\* Mutant: nothing is evicted.
KeptForever(k) == slots[k]

\* The calls left once those outside the window are evicted.
Kept(k) == {c \in slots[k] : age[c] < Window}

\* Mutant: one call more than the limit.
HasSlotAtLimit(k) == Cardinality(Kept(k)) <= MaxCalls

HasSlot(k) == Cardinality(Kept(k)) < MaxCalls

Acquire(j) ==
  LET k == LimiterOf[j]
  IN  /\ pc[j] = "ready"
      /\ timer[j] = 0
      /\ HasSlot(k)
      /\ slots' = [slots EXCEPT ![k] = Kept(k) \cup {Call(j)}]
      /\ age' = [age EXCEPT ![Call(j)] = 0]
      /\ pc' = [pc EXCEPT ![j] = "request"]
      /\ UNCHANGED <<op, try, timer, hub, unheard, emitted, raised>>

\* The window is full: sleep until the oldest call leaves it, then look again.
WaitForSlot(j) ==
  LET k == LimiterOf[j]
  IN  /\ pc[j] = "ready"
      /\ timer[j] = 0
      /\ ~HasSlot(k)
      /\ slots' = [slots EXCEPT ![k] = Kept(k)]
      /\ timer' = [timer EXCEPT ![j] = Window - Max({age[c] : c \in Kept(k)})]
      /\ UNCHANGED <<age, pc, op, try, hub, unheard, emitted, raised>>

-----------------------------------------------------------------------------
(* CRMWriter._call *)

\* Mutant: the loop is not left when HubSpot has answered.
SucceedKeepsTrying(j) ==
  /\ pc[j] = "request"
  /\ hub' = hub \cup {Call(j)}
  /\ IF try[j] < MaxRetries
     THEN /\ pc' = [pc EXCEPT ![j] = "ready"]
          /\ try' = [try EXCEPT ![j] = @ + 1]
          /\ UNCHANGED <<op, timer>>
     ELSE Continue(j, op[j] + 1)
  /\ UNCHANGED <<slots, age, unheard, emitted, raised>>

\* A 2xx answer with the JSON object the operation reads its id from.
Succeed(j) ==
  /\ pc[j] = "request"
  /\ hub' = hub \cup {Call(j)}
  /\ Continue(j, op[j] + 1)
  /\ UNCHANGED <<slots, age, unheard, emitted, raised>>

\* A 2xx answer with any other body: response.json(), or the reading of its
\* result, raises what the loop does not catch.
SucceedGarbled(j) ==
  /\ pc[j] = "request"
  /\ hub' = hub \cup {Call(j)}
  /\ raised' = raised \cup {<<j, op[j]>>}
  /\ Continue(j, AfterFailure(j, op[j]))
  /\ UNCHANGED <<slots, age, unheard, emitted>>

\* The try fails: HubSpot refused it or never saw it, or carried it out and the
\* answer was lost.
Fails(j) ==
  /\ pc[j] = "request"
  /\ \/ UNCHANGED <<hub, unheard>>
     \/ /\ hub' = hub \cup {Call(j)}
        /\ unheard' = unheard \cup {Call(j)}

\* Mutant: one try too many.
TriesLeftOffByOne(j) == try[j] <= MaxRetries

TriesLeft(j) == try[j] < MaxRetries

Retry(j) ==
  /\ Fails(j)
  /\ TriesLeft(j)
  /\ pc' = [pc EXCEPT ![j] = "ready"]
  /\ try' = [try EXCEPT ![j] = @ + 1]
  /\ timer' = [timer EXCEPT ![j] = Backoff[try[j]]]
  /\ UNCHANGED <<slots, age, op, emitted, raised>>

\* Mutant: the payload is dropped.
GiveUpQuietly(j) ==
  /\ Fails(j)
  /\ ~TriesLeft(j)
  /\ Continue(j, AfterFailure(j, op[j]))
  /\ UNCHANGED <<slots, age, emitted, raised>>

\* The payload goes to Langfuse, or to the log, and the exception to the caller.
GiveUp(j) ==
  /\ Fails(j)
  /\ ~TriesLeft(j)
  /\ emitted' = emitted \cup {<<j, op[j]>>}
  /\ Continue(j, AfterFailure(j, op[j]))
  /\ UNCHANGED <<slots, age, raised>>

-----------------------------------------------------------------------------

Tick ==
  /\ age' = [c \in Calls |-> IF age[c] < Window THEN age[c] + 1 ELSE Window]
  /\ timer' = [j \in Jobs |-> IF timer[j] > 0 THEN timer[j] - 1 ELSE 0]
  /\ UNCHANGED <<slots, pc, op, try, hub, unheard, emitted, raised>>

Step(j) ==
  \/ Prepare(j)
  \/ PreparationRaises(j)
  \/ Acquire(j)
  \/ WaitForSlot(j)
  \/ Succeed(j)
  \/ SucceedGarbled(j)
  \/ Retry(j)
  \/ GiveUp(j)

Next ==
  \/ \E j \in Jobs : Begin(j)
  \/ \E j \in Jobs : Step(j)
  \/ Tick

\* Time passes, the event loop resumes what can go on, and a request ends within
\* the client's timeout.
Fairness == WF_vars(Tick) /\ \A j \in Jobs : WF_vars(Step(j))

Spec == Init /\ [][Next]_vars /\ Fairness

-----------------------------------------------------------------------------
(* Properties. *)

TypeOK ==
  /\ slots \in [Limiters -> SUBSET Calls]
  /\ age \in [Calls -> 0..Window]
  /\ pc \in [Jobs -> {"idle", "prepare", "ready", "request", "done"}]
  /\ op \in [Jobs -> 1..4]
  /\ try \in [Jobs -> 1..MaxRetries]
  /\ timer \in [Jobs -> Nat]
  /\ hub \in SUBSET Calls
  /\ unheard \in SUBSET hub
  /\ emitted \in SUBSET (Jobs \X (1..4))
  /\ raised \in SUBSET (Jobs \X (1..4))

\* The calls let through within the last Window ticks.
Recent == {c \in Calls : age[c] < Window}

\* However the jobs sharing a writer interleave their sleeps, retries and calls,
\* no window of the limiter's length holds more than MaxCalls of theirs.
WindowHolds ==
  \A k \in Limiters :
    Cardinality({c \in Recent : LimiterOf[c.job] = k}) <= MaxCalls

\* Operation n of a job, or an earlier one whose failure left it out, is in S.
EndedBy(j, n, S) ==
  \E m \in 1..n : <<j, m>> \in S /\ (m = n \/ AfterFailure(j, m) > n)

\* When a job is over, an operation HubSpot did not carry out is accounted for: it,
\* or an earlier one that took it along, was given up with its payload in Langfuse,
\* or was broken off by an exception outside the retry loop.  Only the last loses a
\* payload, which the docstring's "emitted to Langfuse for manual recovery" does
\* not cover; refusals and lost answers never do.
NothingVanishes ==
  \A j \in Jobs : \A n \in 1..Last(j) :
    pc[j] = "done" =>
      \/ \E c \in hub : c.job = j /\ c.op = n
      \/ EndedBy(j, n, emitted)
      \/ EndedBy(j, n, raised)

\* An operation is carried out twice only when HubSpot's answer to all but the
\* last was lost.
DuplicatesNeedLoss ==
  \A c, d \in hub : c.job = d.job /\ c.op = d.op /\ c.try < d.try => c \in unheard

\* Every job that starts ends, full windows and retries notwithstanding.
JobsEnd == \A j \in Jobs : pc[j] = "prepare" ~> pc[j] = "done"

\* "All writes are queued through a shared rate-limiter enforcing <= 100 HubSpot
\* API calls per 10-second window": refuted, every CRMWriter() makes its own.
GlobalWindowHolds == Cardinality(Recent) <= MaxCalls

=============================================================================
