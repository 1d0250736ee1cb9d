----------------------------- MODULE LeadStore -----------------------------
(***************************************************************************)
(* The operator store and everything that writes it: the webhook, lead and *)
(* dev routers of webhooks/api, and the dispatch_outreach script.          *)
(*                                                                         *)
(* Every handler is a coroutine with a database session of its own.  It    *)
(* loads the lead, hands a copy of the row to run_agent, which sends mail  *)
(* and writes HubSpot, and only then changes the lead and commits.  Other  *)
(* handlers run at every await in between, on sessions that loaded the     *)
(* same row before or after them, and a restart can end any of them.       *)
(*                                                                         *)
(* A request is one HTTP call (or one run of the script).  It is used once *)
(* and takes the steps of its kind:                                        *)
(*                                                                         *)
(*   start     agent [sms] [crm] persist                                   *)
(*   email     [inbound] agent [sms] [crm] persist                         *)
(*   sms       agent [sms] [crm] persist                                   *)
(*   simulate  agent [sms] [crm] persist                                   *)
(*   replay    agent [sms] [crm] persist                                   *)
(*   cal       book agent persist                                          *)
(*   dispatch  next (agent [sms] [crm] persist next)* commit               *)
(***************************************************************************)
EXTENDS Conversation, Integers

CONSTANTS
  Leads,       \* rows of the leads table
  Requests,    \* bound: the calls that ever arrive
  Inbound,     \* classes of text the calls carry
  CalEvents,   \* Cal.com booking uids, '' for a payload without one
  NoBooking,   \* cal_event_id is None
  NoLead,      \* the lead of a call that has not arrived
  NotLoaded,   \* a row that is not in a session
  Brief,       \* the lead's hiring_signal_brief
  Preferred,   \* the lead's preferred_channel
  Email,       \* the lead's address, "prospect_email" or "nobody"
  Phone,       \* the lead's number, "prospect_phone" or "nobody"
  Sink         \* STAFF_SINK_EMAIL, "sink" or "nobody"

Row == [state : ProspectStates, attempts : Nat, cal : CalEvents \cup {NoBooking}]

Addresses == {"prospect_email", "prospect_phone", "sink", "nobody"}

ASSUME LeadStoreAssumption ==
  /\ IsFiniteSet(Requests)
  /\ Inbound \in SUBSET (Bodies \ {"empty"})
  /\ NoBooking \notin CalEvents
  /\ NoLead \notin Leads
  /\ NotLoaded \notin Row
  /\ Brief \in [Leads -> Briefs]
  /\ Preferred \in [Leads -> {"email", "sms"}]
  /\ Email \in [Leads -> {"prospect_email", "nobody"}]
  /\ Phone \in [Leads -> {"prospect_phone", "nobody"}]
  /\ Sink \in {"sink", "nobody"}

Kinds == {"start", "email", "sms", "simulate", "replay", "cal", "dispatch"}

VARIABLES
  row,       \* leads: current_state, outbound_attempt_count, cal_event_id
  events,    \* events: the rows <<request, lead>> committed
  timeline,  \* messages: the rows [req, lead, dir] committed
  outbox,    \* messages [req, lead, to, text, after] a provider accepted
  crm,       \* prospect_state of the lead's HubSpot contact
  live,      \* KILL_SWITCH = "enabled"
  pc,        \* what each request does next
  job,       \* what each request is about: kind, lead, body, chan, uid, and
             \* whether the lead had opted out before it (history)
  snap,      \* the lead rows in each request's session, as they were loaded
  ans,       \* result of the request's run_agent: res, stage, to
  batch      \* a dispatch run's leads: still to do, to change, to log

store == <<row, events, timeline>>
world == <<outbox, crm, live>>
vars  == <<row, events, timeline, outbox, crm, live, pc, job, snap, ans, batch>>

-----------------------------------------------------------------------------
(* Rows, and what a session writes back. *)

\* Mutant: the whole row is written, as it was loaded and changed.
FlushWholeRow(current, loaded, changed) == changed

\* An UPDATE sets the columns whose value differs from the one loaded, and no
\* other.
Flush(current, loaded, changed) ==
  [f \in DOMAIN current |->
     IF changed[f] # loaded[f] THEN changed[f] ELSE current[f]]

Contacted(loaded) == [loaded EXCEPT !.state = "contacted"]

Outreached(loaded) == [Contacted(loaded) EXCEPT !.attempts = @ + 1]

\* Mutant: a simulated reply counts as an attempt.
RepliedCounts(loaded) ==
  [loaded EXCEPT !.state = "replied", !.attempts = @ + 1]

Replied(loaded) == [loaded EXCEPT !.state = "replied"]

Booked(loaded, uid) == [loaded EXCEPT !.state = "warm", !.cal = uid]

Write(l, loaded, changed) ==
  row' = [row EXCEPT ![l] = Flush(@, loaded, changed)]

-----------------------------------------------------------------------------
(* Requests. *)

Jobs == [kind : Kinds, lead : Leads \cup {NoLead}, body : Bodies,
         chan : Channels, uid : CalEvents \cup {NoBooking}, after : BOOLEAN]

NoAnswer == [res |-> "pending", stage |-> "keep", to |-> "nobody"]

NoBatch == [todo |-> {}, dirty |-> {}, logged |-> {}]

Load(S) == [l \in Leads |-> IF l \in S THEN row[l] ELSE NotLoaded]

Loaded(r) == snap[r][job[r].lead]

InFlight == {r \in Requests : pc[r] \notin {"idle", "done", "lost"}}

\* The leads with an opt-out, by mail or SMS, that its handler is done with.
Stopped ==
  {job[r].lead : r \in {q \in Requests :
                           /\ pc[q] = "done"
                           /\ job[q].kind \in {"email", "sms"}
                           /\ job[q].body \in {"stop_word", "opt_out"}}}

Init ==
  /\ row = [l \in Leads |-> [state |-> "cold", attempts |-> 0, cal |-> NoBooking]]
  /\ events = {}
  /\ timeline = {}
  /\ outbox = {}
  /\ crm = [l \in Leads |-> "cold"]
  /\ live \in BOOLEAN
  /\ pc = [r \in Requests |-> "idle"]
  /\ job = [r \in Requests |-> [kind |-> "start", lead |-> NoLead,
                                body |-> "empty", chan |-> "email",
                                uid |-> NoBooking, after |-> FALSE]]
  /\ snap = [r \in Requests |-> Load({})]
  /\ ans = [r \in Requests |-> NoAnswer]
  /\ batch = [r \in Requests |-> NoBatch]

Job(kind, l, body, chan, uid) ==
  [kind |-> kind, lead |-> l, body |-> body, chan |-> chan, uid |-> uid,
   after |-> l \in Stopped]

\* A call arrives and its session loads the lead.
Accept(r, first, kind, l, body, chan, uid) ==
  /\ pc[r] = "idle"
  /\ pc' = [pc EXCEPT ![r] = first]
  /\ job' = [job EXCEPT ![r] = Job(kind, l, body, chan, uid)]
  /\ snap' = [snap EXCEPT ![r] = Load({l})]
  /\ UNCHANGED <<store, world, ans, batch>>

\* POST /leads/{id}/start-outreach
StartOutreach(r, l, body, chan) ==
  Accept(r, "agent", "start", l, body, chan, NoBooking)

\* POST /webhooks/email for a reply with text, or an open without any.
EmailReply(r, l, body) ==
  Accept(r, IF body = "empty" THEN "agent" ELSE "inbound",
         "email", l, body, "email", NoBooking)

\* POST /webhooks/sms: the sender's number identifies the lead.
SmsReply(r, l, body) ==
  /\ Phone[l] # "nobody"
  /\ Accept(r, "agent", "sms", l, body, "sms", NoBooking)

\* POST /dev/simulate-reply
SimulateReply(r, l, body, chan) ==
  Accept(r, "agent", "simulate", l, body, chan, NoBooking)

\* POST /dev/replay-event for a stored event: its payload has a text only when
\* it came from a simulated reply, and a booking's channel is "cal".
ReplayEvent(r, l, e) ==
  /\ <<e, l>> \in events
  /\ Accept(r, "agent", "replay", l,
            IF job[e].kind = "simulate" THEN job[e].body ELSE "empty",
            CASE job[e].kind = "cal"      -> "cal"
              [] job[e].kind = "dispatch" -> Preferred[l]
              [] OTHER                    -> job[e].chan,
            NoBooking)

\* POST /webhooks/cal with BOOKING_CREATED; Cal.com may deliver one twice.  The
\* confirmation text handed to the agent matches the slot pattern.
CalBooking(r, l, uid) ==
  Accept(r, "book", "cal", l, "slot", "email", uid)

\* scripts/dispatch_outreach.py: one session loads every cold lead.
Dispatch(r) ==
  LET cold == {l \in Leads : row[l].state = "cold"}
  IN  /\ pc[r] = "idle"
      /\ cold # {}
      /\ pc' = [pc EXCEPT ![r] = "next"]
      /\ job' = [job EXCEPT ![r] =
                   Job("dispatch", NoLead, "empty", "email", NoBooking)]
      /\ snap' = [snap EXCEPT ![r] = Load(cold)]
      /\ batch' = [batch EXCEPT ![r].todo = cold]
      /\ UNCHANGED <<store, world, ans>>

-----------------------------------------------------------------------------
(* Commits made before the agent runs. *)

CommitInbound(r) ==
  /\ pc[r] = "inbound"
  /\ pc' = [pc EXCEPT ![r] = "agent"]
  /\ timeline' = timeline \cup {[req |-> r, lead |-> job[r].lead, dir |-> "in"]}
  /\ UNCHANGED <<row, events, world, job, snap, ans, batch>>

\* Mutant: the booking is stored without its event.
CommitBookingSilently(r) ==
  LET l == job[r].lead
  IN  /\ pc[r] = "book"
      /\ pc' = [pc EXCEPT ![r] = "agent"]
      /\ Write(l, Loaded(r), Booked(Loaded(r), job[r].uid))
      /\ UNCHANGED <<events, timeline, world, job, snap, ans, batch>>

CommitBooking(r) ==
  LET l == job[r].lead
  IN  /\ pc[r] = "book"
      /\ pc' = [pc EXCEPT ![r] = "agent"]
      /\ Write(l, Loaded(r), Booked(Loaded(r), job[r].uid))
      /\ events' = events \cup {<<r, l>>}
      /\ timeline' = timeline \cup {[req |-> r, lead |-> l, dir |-> "out"]}
      /\ UNCHANGED <<world, job, snap, ans, batch>>

-----------------------------------------------------------------------------
(* run_agent: everything up to its first await is one step. *)

RoutesOf(r) == Routes(job[r].body, Brief[job[r].lead])

Answer(r, res, stage, to, next) ==
  /\ ans' = [ans EXCEPT ![r] = [res |-> res, stage |-> stage, to |-> to]]
  /\ pc' = [pc EXCEPT ![r] = next]

\* A provider takes a message, or the call fails and run_agent goes on.
Deliver(r, to, text) ==
  \/ UNCHANGED outbox
  \/ outbox' = outbox \cup {[req |-> r, lead |-> job[r].lead, to |-> to,
                             text |-> text, after |-> job[r].after]}

\* No side effect: the answer to an opt-out phrase, a booking attempt (whose
\* BookingAgent cannot be imported), a refusal, or an exception.
AgentAnswers(r) ==
  /\ pc[r] = "agent"
  /\ \E rt \in RoutesOf(r) :
       \/ /\ rt.path = "raises"
          /\ Answer(r, "none", "keep", "nobody", "persist")
       \/ /\ rt.path = "opt_out"
          /\ Answer(r, "text", "keep", "nobody", "persist")
       \/ /\ rt.path \in {"schedule", "no_action"}
          /\ Answer(r, "silent", "keep", "nobody", "persist")
  /\ UNCHANGED <<store, world, job, snap, batch>>

\* Nothing is sent, HubSpot is told: a command, an escalation, a blocked draft.
AgentHolds(r) ==
  /\ pc[r] = "agent"
  /\ \E rt \in RoutesOf(r) :
       \/ /\ rt.path = "command"
          /\ Answer(r, "text", "keep", "nobody", "crm")
       \/ /\ rt.path = "escalate"
          /\ Answer(r, "silent", rt.stage, "nobody", "crm")
       \/ /\ rt.path = "compose"
          /\ \E draft \in Drafts(Brief[job[r].lead]) :
               Verdicts(draft, job[r].chan, rt.asked) # {"allowed"}
          /\ Answer(r, "silent", rt.stage, "nobody", "crm")
  /\ UNCHANGED <<store, world, job, snap, batch>>

\* The draft is approved.  Mail is sent in this step; an SMS is awaited, and its
\* destination is the one the kill switch gave here.
AgentSends(r) ==
  LET l == job[r].lead
      chan == job[r].chan
      to == Target(live, Sink, chan, Email[l], Phone[l])
  IN  /\ pc[r] = "agent"
      /\ \E rt \in RoutesOf(r), draft \in Drafts(Brief[l]) :
           /\ rt.path = "compose"
           /\ "allowed" \in Verdicts(draft, chan, rt.asked)
           /\ Answer(r, IF draft = "text" THEN "text" ELSE "silent", rt.stage, to,
                     IF chan = "sms" /\ to # "nobody" THEN "sms" ELSE "crm")
           /\ IF chan = "email" /\ to # "nobody"
              THEN Deliver(r, to, draft = "text")
              ELSE UNCHANGED outbox
      /\ UNCHANGED <<store, crm, live, job, snap, batch>>

SendSms(r) ==
  /\ pc[r] = "sms"
  /\ pc' = [pc EXCEPT ![r] = "crm"]
  /\ Deliver(r, ans[r].to, ans[r].res = "text")
  /\ UNCHANGED <<store, crm, live, job, snap, ans, batch>>

\* Mutant: any stage is written, without the conversion to a ProspectState.
WriteCrmUnchecked(r) ==
  /\ pc[r] = "crm"
  /\ pc' = [pc EXCEPT ![r] = "persist"]
  /\ crm' = [crm EXCEPT ![job[r].lead] =
               IF ans[r].stage = "keep" THEN Loaded(r).state ELSE ans[r].stage]
  /\ UNCHANGED <<store, outbox, live, job, snap, ans, batch>>

\* _write_crm upserts the contact with the lifecycle stage, or with the state the
\* row had when it was loaded.  It fails before any call on a stage that is no
\* ProspectState, and may fail in any call.
WriteCrm(r) ==
  LET stage == IF ans[r].stage = "keep" THEN Loaded(r).state ELSE ans[r].stage
  IN  /\ pc[r] = "crm"
      /\ pc' = [pc EXCEPT ![r] = "persist"]
      /\ \/ UNCHANGED crm
         \/ /\ stage \in ProspectStates
            /\ crm' = [crm EXCEPT ![job[r].lead] = stage]
      /\ UNCHANGED <<store, outbox, live, job, snap, ans, batch>>

-----------------------------------------------------------------------------
(* What each handler commits once run_agent has returned. *)

End(r) ==
  /\ pc' = [pc EXCEPT ![r] = "done"]
  /\ snap' = [snap EXCEPT ![r] = Load({})]
  /\ ans' = [ans EXCEPT ![r] = NoAnswer]
  /\ UNCHANGED <<world, job, batch>>

Ready(r, kind) == pc[r] = "persist" /\ job[r].kind = kind

\* Mutant: only a reply to an e-mail is recorded.
OutboundReplies(r) ==
  IF ans[r].res = "text" /\ job[r].kind = "email"
  THEN {[req |-> r, lead |-> job[r].lead, dir |-> "out"]}
  ELSE {}

\* The messages a handler adds for the answer.
Outbound(r) ==
  IF ans[r].res = "text"
  THEN {[req |-> r, lead |-> job[r].lead, dir |-> "out"]}
  ELSE {}

\* start_outreach: nothing when run_agent returned None; otherwise the attempt,
\* the state, the event and the message in one transaction.
PersistOutreach(r) ==
  LET l == job[r].lead
  IN  /\ Ready(r, "start")
      /\ IF ans[r].res = "none"
         THEN UNCHANGED store
         ELSE /\ Write(l, Loaded(r), Outreached(Loaded(r)))
              /\ events' = events \cup {<<r, l>>}
              /\ timeline' = timeline \cup Outbound(r)
      /\ End(r)

\* handle_email_reply: the lead itself is left as it is.
PersistEmail(r) ==
  /\ Ready(r, "email")
  /\ timeline' = timeline \cup Outbound(r)
  /\ UNCHANGED <<row, events>>
  /\ End(r)

\* simulate_reply: replied, whatever run_agent returned.
PersistSimulated(r) ==
  LET l == job[r].lead
  IN  /\ Ready(r, "simulate")
      /\ Write(l, Loaded(r), Replied(Loaded(r)))
      /\ events' = events \cup {<<r, l>>}
      /\ timeline' = timeline \cup Outbound(r)
                      \cup {[req |-> r, lead |-> l, dir |-> "in"]}
      /\ End(r)

\* handle_sms_reply, replay_event and handle_cal_event store nothing more.
PersistNothing(r) ==
  /\ \E kind \in {"sms", "replay", "cal"} : Ready(r, kind)
  /\ UNCHANGED store
  /\ End(r)

\* Mutant: the script does not take the lead off its list.
NextLeadAgain(r, l) ==
  /\ pc[r] = "next"
  /\ l \in batch[r].todo
  /\ pc' = [pc EXCEPT ![r] = "agent"]
  /\ job' = [job EXCEPT ![r] =
               Job("dispatch", l, "empty", Preferred[l], NoBooking)]
  /\ UNCHANGED <<store, world, snap, ans, batch>>

\* The script takes its next cold lead.
NextLead(r, l) ==
  /\ pc[r] = "next"
  /\ l \in batch[r].todo
  /\ pc' = [pc EXCEPT ![r] = "agent"]
  /\ job' = [job EXCEPT ![r] =
               Job("dispatch", l, "empty", Preferred[l], NoBooking)]
  /\ batch' = [batch EXCEPT ![r].todo = @ \ {l}]
  /\ UNCHANGED <<store, world, snap, ans>>

\* run_agent is back: the lead is marked when there is a result, the event is
\* added either way, and nothing is committed yet.
AfterLead(r) ==
  LET l == job[r].lead
  IN  /\ Ready(r, "dispatch")
      /\ pc' = [pc EXCEPT ![r] = IF batch[r].todo = {} THEN "commit" ELSE "next"]
      /\ batch' = [batch EXCEPT
                     ![r].logged = @ \cup {l},
                     ![r].dirty = IF ans[r].res = "none" THEN @ ELSE @ \cup {l}]
      /\ ans' = [ans EXCEPT ![r] = NoAnswer]
      /\ UNCHANGED <<store, world, job, snap>>

\* The script's only commit.
CommitBatch(r) ==
  /\ pc[r] = "commit"
  /\ row' = [l \in Leads |->
               IF l \in batch[r].dirty
               THEN Flush(row[l], snap[r][l], Contacted(snap[r][l]))
               ELSE row[l]]
  /\ events' = events \cup {<<r, l>> : l \in batch[r].logged}
  /\ pc' = [pc EXCEPT ![r] = "done"]
  /\ snap' = [snap EXCEPT ![r] = Load({})]
  /\ batch' = [batch EXCEPT ![r] = NoBatch]
  /\ UNCHANGED <<timeline, world, job, ans>>

-----------------------------------------------------------------------------
(* The environment. *)

\* The server or the script's process ends: its sessions roll back, and what it
\* sent stays sent.
Kill(R) ==
  /\ R # {}
  /\ pc' = [r \in Requests |-> IF r \in R THEN "lost" ELSE pc[r]]
  /\ snap' = [r \in Requests |-> IF r \in R THEN Load({}) ELSE snap[r]]
  /\ ans' = [r \in Requests |-> IF r \in R THEN NoAnswer ELSE ans[r]]
  /\ batch' = [r \in Requests |-> IF r \in R THEN NoBatch ELSE batch[r]]
  /\ UNCHANGED <<store, world, job>>

CrashServer == Kill({r \in InFlight : job[r].kind # "dispatch"})

CrashDispatcher(r) ==
  /\ job[r].kind = "dispatch"
  /\ Kill({r} \cap InFlight)

FlipKillSwitch ==
  /\ live' = ~live
  /\ UNCHANGED <<store, outbox, crm, pc, job, snap, ans, batch>>

-----------------------------------------------------------------------------

Step(r) ==
  \/ CommitInbound(r)
  \/ CommitBooking(r)
  \/ AgentAnswers(r)
  \/ AgentHolds(r)
  \/ AgentSends(r)
  \/ SendSms(r)
  \/ WriteCrm(r)
  \/ PersistOutreach(r)
  \/ PersistEmail(r)
  \/ PersistSimulated(r)
  \/ PersistNothing(r)
  \/ \E l \in Leads : NextLead(r, l)
  \/ AfterLead(r)
  \/ CommitBatch(r)

Arrive(r) ==
  \/ \E l \in Leads, body \in Inbound \cup {"empty"}, chan \in {"email", "sms"} :
       StartOutreach(r, l, body, chan)
  \/ \E l \in Leads, body \in Inbound \cup {"empty"} : EmailReply(r, l, body)
  \/ \E l \in Leads, body \in Inbound \cup {"empty"} : SmsReply(r, l, body)
  \/ \E l \in Leads, body \in Inbound, chan \in {"email", "sms"} :
       SimulateReply(r, l, body, chan)
  \/ \E l \in Leads, e \in Requests : ReplayEvent(r, l, e)
  \/ \E l \in Leads, uid \in CalEvents : CalBooking(r, l, uid)
  \/ Dispatch(r)

Next ==
  \/ \E r \in Requests : Arrive(r)
  \/ \E r \in Requests : Step(r)
  \/ CrashServer
  \/ \E r \in Requests : CrashDispatcher(r)
  \/ FlipKillSwitch

\* The event loop runs every coroutine that can go on, and every call a handler
\* awaits has a timeout.
Fairness == \A r \in Requests : WF_vars(Step(r))

Spec == Init /\ [][Next]_vars /\ Fairness

-----------------------------------------------------------------------------
(* Properties. *)

TypeOK ==
  /\ row \in [Leads -> Row]
  /\ events \in SUBSET (Requests \X Leads)
  /\ timeline \in SUBSET [req : Requests, lead : Leads, dir : {"in", "out"}]
  /\ outbox \in SUBSET [req : Requests, lead : Leads, to : Addresses,
                         text : BOOLEAN, after : BOOLEAN]
  /\ crm \in [Leads -> ProspectStates]
  /\ live \in BOOLEAN
  /\ pc \in [Requests -> {"idle", "inbound", "book", "agent", "sms", "crm",
                          "persist", "next", "commit", "done", "lost"}]
  /\ job \in [Requests -> Jobs]
  /\ snap \in [Requests -> [Leads -> Row \cup {NotLoaded}]]
  /\ ans \in [Requests -> [res : {"pending", "none", "silent", "text"},
                           stage : Stages, to : Addresses]]
  /\ batch \in [Requests -> [todo : SUBSET Leads, dirty : SUBSET Leads,
                             logged : SUBSET Leads]]

\* The outreach_started events stored for a lead.
Outreaches(l) == {r \in Requests : <<r, l>> \in events /\ job[r].kind = "start"}

\* The attempt counter is read before the agent runs and written after it, so
\* concurrent calls lose attempts and a late one can take the counter back; but
\* no interleaving makes it claim an attempt for which no event was stored.
AttemptsBacked == \A l \in Leads : row[l].attempts <= Cardinality(Outreaches(l))

Caused(l, kinds) == \E r \in Requests : <<r, l>> \in events /\ job[r].kind \in kinds

\* A lead's state and its booking are explained by a stored event of the handler
\* that writes them, whichever sessions were open and whichever were lost.
StateHasCause ==
  \A l \in Leads :
    /\ row[l].state = "contacted" => Caused(l, {"start", "dispatch"})
    /\ row[l].state = "replied" => Caused(l, {"simulate"})
    /\ row[l].state = "warm" => Caused(l, {"cal"})
    /\ row[l].cal # NoBooking =>
         \E r \in Requests : /\ <<r, l>> \in events
                             /\ job[r].kind = "cal"
                             /\ job[r].uid = row[l].cal

\* A session that loaded the lead before it was booked does not erase the booking
\* when it commits afterwards.
BookingSticks ==
  [][\A l \in Leads : row[l].cal # NoBooking => row'[l].cal # NoBooking]_vars

\* No handler, and no replay of its event, answers an opt-out with a message.
OptOutUnanswered ==
  \A d \in outbox : job[d.req].body \notin {"stop_word", "opt_out"}

\* With a sink configured, turning the kill switch off stops every message to a
\* prospect at once, but for an SMS whose destination was already chosen.
SwitchHolds ==
  [][~live /\ Sink = "sink" =>
       \A d \in outbox' \ outbox : d.to = "sink" \/ pc[d.req] = "sms"]_vars

\* What an outreach, an e-mail reply or a simulated reply sent is on the lead's
\* timeline once the call has returned.
SendsAreOnTimeline ==
  \A d \in outbox :
    /\ d.text
    /\ job[d.req].kind \in {"start", "email", "simulate"}
    /\ pc[d.req] = "done"
    => [req |-> d.req, lead |-> d.lead, dir |-> "out"] \in timeline

\* Every call that arrives returns, unless its process dies.
CallsReturn ==
  \A r \in Requests : (r \in InFlight) ~> (pc[r] \in {"done", "lost"})

\* "You will receive no further messages", and "STOP/UNSUB always wins": refuted.
\* The handler stores that answer as a message to the lead at most, and nothing
\* that says the lead opted out, so any later call for it writes to the lead
\* itself while the kill switch is on.
NoSendAfterStop ==
  \A d \in outbox : d.after => d.to \notin {"prospect_email", "prospect_phone"}

=============================================================================
