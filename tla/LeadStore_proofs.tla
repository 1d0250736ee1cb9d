-------------------------- MODULE LeadStore_proofs --------------------------
(***************************************************************************)
(* Proofs about LeadStore, for any leads, any finite set of calls, any     *)
(* texts, addresses and briefs: its types; that no interleaving of         *)
(* sessions makes a lead's attempt counter claim more than the events      *)
(* explain; and what the handlers leave behind, the states they write and  *)
(* the messages they send.                                                 *)
(***************************************************************************)
EXTENDS LeadStore, FiniteSetTheorems, TLAPS

\* The requests that run_agent, or a commit before it, is working for.
Working(r) == pc[r] \in {"inbound", "book", "agent", "sms", "crm", "persist"}

\* A working request's lead is in its session, and so are the leads a dispatch
\* run has yet to do or to change.
SessionsLoaded ==
  \A r \in Requests :
    /\ Working(r) => job[r].lead \in Leads /\ snap[r][job[r].lead] \in Row
    /\ \A l \in batch[r].todo \cup batch[r].dirty : snap[r][l] \in Row

BatchesAreDispatches ==
  \A r \in Requests :
    batch[r].todo \cup batch[r].dirty # {} =>
      job[r].kind = "dispatch" /\ pc[r] # "idle"

TypeInv == TypeOK /\ SessionsLoaded /\ BatchesAreDispatches

-----------------------------------------------------------------------------
(* What the helpers return. *)

\* A flush gives a row, whose counter is the new one if it was changed and the
\* current one otherwise.
LEMMA FlushType ==
  ASSUME NEW current \in Row, NEW loaded \in Row, NEW changed \in Row
  PROVE  /\ Flush(current, loaded, changed) \in Row
         /\ Flush(current, loaded, changed).attempts =
              IF changed.attempts # loaded.attempts THEN changed.attempts
                                                    ELSE current.attempts
  BY DEF Flush, Row

\* Only an outreach changes the counter, by one.
LEMMA ChangesType ==
  ASSUME NEW loaded \in Row
  PROVE  /\ Contacted(loaded) \in Row
         /\ Contacted(loaded).attempts = loaded.attempts
         /\ Outreached(loaded) \in Row
         /\ Outreached(loaded).attempts = loaded.attempts + 1
         /\ Replied(loaded) \in Row
         /\ Replied(loaded).attempts = loaded.attempts
         /\ \A uid \in CalEvents \cup {NoBooking} :
              /\ Booked(loaded, uid) \in Row
              /\ Booked(loaded, uid).attempts = loaded.attempts
<1>1. Contacted(loaded) \in Row /\ Contacted(loaded).attempts = loaded.attempts
  BY DEF Contacted, Row, ProspectStates
<1>2. /\ Outreached(loaded) \in Row
      /\ Outreached(loaded).attempts = loaded.attempts + 1
  BY <1>1 DEF Outreached, Row
<1>3. Replied(loaded) \in Row /\ Replied(loaded).attempts = loaded.attempts
  BY DEF Replied, Row, ProspectStates
<1>4. ASSUME NEW uid \in CalEvents \cup {NoBooking}
      PROVE  /\ Booked(loaded, uid) \in Row
             /\ Booked(loaded, uid).attempts = loaded.attempts
  BY DEF Booked, Row, ProspectStates
<1>5. QED
  BY <1>1, <1>2, <1>3, <1>4

\* A session holds the rows it loaded and no other.
LEMMA LoadType ==
  ASSUME TypeOK, NEW S \in SUBSET Leads
  PROVE  /\ Load(S) \in [Leads -> Row \cup {NotLoaded}]
         /\ \A l \in Leads : Load(S)[l] = IF l \in S THEN row[l] ELSE NotLoaded
         /\ \A l \in S : Load(S)[l] \in Row
  BY DEF TypeOK, Load

\* Every route carries a lifecycle stage.
LEMMA RoutesType ==
  ASSUME NEW body \in Bodies, NEW brief \in Briefs
  PROVE  \A rt \in Routes(body, brief) : rt.stage \in Stages
  BY DEF Routes, Route, Bodies, Briefs, Stages, Paths

\* A message is addressed to a prospect, the sink or nobody.
LEMMA TargetType ==
  ASSUME NEW on \in BOOLEAN, NEW l \in Leads, NEW chan \in Channels
  PROVE  Target(on, Sink, chan, Email[l], Phone[l]) \in Addresses
  BY LeadStoreAssumption DEF LeadStoreAssumption, Target, Addresses

\* Delivering keeps the outbox a set of messages.
LEMMA DeliverType ==
  ASSUME TypeInv, NEW r \in Requests, Working(r), NEW to \in Addresses,
         NEW text \in BOOLEAN, Deliver(r, to, text)
  PROVE  outbox' \in SUBSET [req : Requests, lead : Leads, to : Addresses,
                             text : BOOLEAN, after : BOOLEAN]
<1>1. job[r].lead \in Leads /\ job[r].after \in BOOLEAN
  BY DEF TypeInv, TypeOK, SessionsLoaded, Jobs
<1>2. [req |-> r, lead |-> job[r].lead, to |-> to, text |-> text,
       after |-> job[r].after]
        \in [req : Requests, lead : Leads, to : Addresses, text : BOOLEAN,
             after : BOOLEAN]
  BY <1>1
<1>3. QED
  BY <1>2 DEF Deliver, TypeInv, TypeOK

\* The messages recorded for an answer are timeline entries.
LEMMA OutboundType ==
  ASSUME NEW r \in Requests, job[r].lead \in Leads
  PROVE  Outbound(r) \in SUBSET [req : Requests, lead : Leads, dir : {"in", "out"}]
  BY DEF Outbound

-----------------------------------------------------------------------------
(* Types. *)

\* A job keeps what it was made of.
LEMMA JobType ==
  ASSUME NEW kind \in Kinds, NEW l \in Leads \cup {NoLead}, NEW body \in Bodies,
         NEW chan \in Channels, NEW uid \in CalEvents \cup {NoBooking}
  PROVE  /\ Job(kind, l, body, chan, uid) \in Jobs
         /\ Job(kind, l, body, chan, uid).lead = l
         /\ Job(kind, l, body, chan, uid).kind = kind
<1>1. (l \in Stopped) \in BOOLEAN
  OBVIOUS
<1>2. QED
  BY <1>1 DEF Job, Jobs

\* A call that arrives keeps the types.
LEMMA AcceptKeepsTypeInv ==
  ASSUME TypeInv, NEW r \in Requests, NEW first \in {"inbound", "book", "agent"},
         NEW kind \in Kinds, NEW l \in Leads, NEW body \in Bodies,
         NEW chan \in Channels, NEW uid \in CalEvents \cup {NoBooking},
         Accept(r, first, kind, l, body, chan, uid)
  PROVE  TypeInv'
<1>1. TypeOK /\ SessionsLoaded /\ BatchesAreDispatches
  BY DEF TypeInv
<1> DEFINE j == Job(kind, l, body, chan, uid)
<1>2. j \in Jobs /\ j.lead = l
  BY JobType
<1>3. /\ pc[r] = "idle"
      /\ pc' = [pc EXCEPT ![r] = first]
      /\ job' = [job EXCEPT ![r] = j]
      /\ snap' = [snap EXCEPT ![r] = Load({l})]
      /\ UNCHANGED <<row, events, timeline, outbox, crm, live, ans, batch>>
  BY DEF Accept, store, world
<1> HIDE DEF j
<1>4. Load({l}) \in [Leads -> Row \cup {NotLoaded}] /\ Load({l})[l] \in Row
  <2>1. {l} \in SUBSET Leads /\ l \in {l}
    OBVIOUS
  <2>2. QED
    BY <1>1, <2>1, LoadType
<1>5. TypeOK'
  <2>1. job' \in [Requests -> Jobs]
    BY <1>1, <1>2, <1>3 DEF TypeOK
  <2>2. snap' \in [Requests -> [Leads -> Row \cup {NotLoaded}]]
    BY <1>1, <1>3, <1>4 DEF TypeOK
  <2>3. pc' \in [Requests -> {"idle", "inbound", "book", "agent", "sms", "crm",
                              "persist", "next", "commit", "done", "lost"}]
    BY <1>1, <1>3 DEF TypeOK
  <2>4. QED
    BY <1>1, <1>3, <2>1, <2>2, <2>3 DEF TypeOK
<1>6. ASSUME NEW q \in Requests
      PROVE  /\ Working(q)' => job'[q].lead \in Leads /\ snap'[q][job'[q].lead] \in Row
             /\ \A m \in batch'[q].todo \cup batch'[q].dirty : snap'[q][m] \in Row
             /\ batch'[q].todo \cup batch'[q].dirty # {} =>
                  job'[q].kind = "dispatch" /\ pc'[q] # "idle"
  <2>1. CASE q = r
    <3>1. batch'[q].todo \cup batch'[q].dirty = {}
      BY <1>1, <1>3, <2>1 DEF BatchesAreDispatches
    <3>2. job'[q].lead = l /\ snap'[q][l] \in Row
      BY <1>1, <1>2, <1>3, <1>4, <2>1 DEF TypeOK
    <3>3. QED
      BY <3>1, <3>2
  <2>2. CASE q # r
    BY <1>1, <1>3, <2>2 DEF TypeOK, SessionsLoaded, BatchesAreDispatches, Working
  <2>3. QED
    BY <2>1, <2>2
<1>7. QED
  BY <1>5, <1>6 DEF TypeInv, SessionsLoaded, BatchesAreDispatches

\* A script run that loads the cold leads keeps the types.
LEMMA DispatchKeepsTypeInv ==
  ASSUME TypeInv, NEW r \in Requests, Dispatch(r)
  PROVE  TypeInv'
<1>1. TypeOK /\ SessionsLoaded /\ BatchesAreDispatches
  BY DEF TypeInv
<1> DEFINE cold == {l \in Leads : row[l].state = "cold"}
           j == Job("dispatch", NoLead, "empty", "email", NoBooking)
<1>2. /\ pc[r] = "idle"
      /\ pc' = [pc EXCEPT ![r] = "next"]
      /\ job' = [job EXCEPT ![r] = j]
      /\ snap' = [snap EXCEPT ![r] = Load(cold)]
      /\ batch' = [batch EXCEPT ![r].todo = cold]
      /\ UNCHANGED <<row, events, timeline, outbox, crm, live, ans>>
  BY DEF Dispatch, store, world
<1>3. cold \in SUBSET Leads /\ j \in Jobs /\ j.kind = "dispatch"
  BY JobType DEF Kinds, Bodies, Channels
<1> HIDE DEF cold, j
<1>4. /\ Load(cold) \in [Leads -> Row \cup {NotLoaded}]
      /\ \A l \in cold : Load(cold)[l] \in Row
  BY <1>1, <1>3, LoadType
<1>5. batch[r].todo = {} /\ batch[r].dirty = {}
  BY <1>1, <1>2 DEF BatchesAreDispatches
<1>6. TypeOK'
  <2>1. job' \in [Requests -> Jobs]
    BY <1>1, <1>2, <1>3 DEF TypeOK
  <2>2. snap' \in [Requests -> [Leads -> Row \cup {NotLoaded}]]
    BY <1>1, <1>2, <1>4 DEF TypeOK
  <2>3. pc' \in [Requests -> {"idle", "inbound", "book", "agent", "sms", "crm",
                              "persist", "next", "commit", "done", "lost"}]
    BY <1>1, <1>2 DEF TypeOK
  <2>4. batch' \in [Requests -> [todo : SUBSET Leads, dirty : SUBSET Leads,
                                 logged : SUBSET Leads]]
    <3>1. [batch[r] EXCEPT !.todo = cold]
            \in [todo : SUBSET Leads, dirty : SUBSET Leads, logged : SUBSET Leads]
      BY <1>1, <1>3 DEF TypeOK
    <3>2. batch' = [batch EXCEPT ![r] = [batch[r] EXCEPT !.todo = cold]]
      BY <1>2
    <3>3. QED
      BY <1>1, <3>1, <3>2 DEF TypeOK
  <2>5. QED
    BY <1>1, <1>2, <2>1, <2>2, <2>3, <2>4 DEF TypeOK
<1>7. ASSUME NEW q \in Requests
      PROVE  /\ Working(q)' => job'[q].lead \in Leads /\ snap'[q][job'[q].lead] \in Row
             /\ \A m \in batch'[q].todo \cup batch'[q].dirty : snap'[q][m] \in Row
             /\ batch'[q].todo \cup batch'[q].dirty # {} =>
                  job'[q].kind = "dispatch" /\ pc'[q] # "idle"
  <2>1. CASE q = r
    <3>1. pc'[q] = "next" /\ job'[q].kind = "dispatch" /\ snap'[q] = Load(cold)
      BY <1>1, <1>2, <1>3, <2>1 DEF TypeOK
    <3>2. batch'[q].todo = cold /\ batch'[q].dirty = {}
      BY <1>1, <1>2, <1>5, <2>1 DEF TypeOK
    <3>3. QED
      BY <1>4, <3>1, <3>2 DEF Working
  <2>2. CASE q # r
    BY <1>1, <1>2, <2>2 DEF TypeOK, SessionsLoaded, BatchesAreDispatches, Working
  <2>3. QED
    BY <2>1, <2>2
<1>8. QED
  BY <1>6, <1>7 DEF TypeInv, SessionsLoaded, BatchesAreDispatches

\* A step of a working request that keeps its job and session keeps the types, as
\* long as what it writes has them.
LEMMA ProgressKeepsTypeInv ==
  ASSUME TypeInv, NEW r \in Requests, Working(r),
         NEW next \in {"agent", "sms", "crm", "persist"},
         pc' = [pc EXCEPT ![r] = next],
         UNCHANGED <<live, job, snap, batch>>,
         row' \in [Leads -> Row],
         events' \in SUBSET (Requests \X Leads),
         timeline' \in SUBSET [req : Requests, lead : Leads, dir : {"in", "out"}],
         outbox' \in SUBSET [req : Requests, lead : Leads, to : Addresses,
                             text : BOOLEAN, after : BOOLEAN],
         crm' \in [Leads -> ProspectStates],
         ans' \in [Requests -> [res : {"pending", "none", "silent", "text"},
                                stage : Stages, to : Addresses]]
  PROVE  TypeInv'
<1>1. TypeOK'
  BY DEF TypeInv, TypeOK
<1>2. \A q \in Requests : Working(q)' => Working(q)
  BY DEF TypeInv, TypeOK, Working
<1>3. \A q \in Requests : pc[q] # "idle" => pc'[q] # "idle"
  BY DEF TypeInv, TypeOK
<1>4. QED
  BY <1>1, <1>2, <1>3 DEF TypeInv, SessionsLoaded, BatchesAreDispatches

\* A handler that commits rows, events and messages and returns keeps the types.
LEMMA EndKeepsTypeInv ==
  ASSUME TypeInv, NEW r \in Requests, job[r].kind # "dispatch", End(r),
         row' \in [Leads -> Row],
         events' \in SUBSET (Requests \X Leads),
         timeline' \in SUBSET [req : Requests, lead : Leads, dir : {"in", "out"}]
  PROVE  TypeInv'
<1>1. TypeOK /\ SessionsLoaded /\ BatchesAreDispatches
  BY DEF TypeInv
<1>2. /\ pc' = [pc EXCEPT ![r] = "done"]
      /\ snap' = [snap EXCEPT ![r] = Load({})]
      /\ ans' = [ans EXCEPT ![r] = NoAnswer]
      /\ UNCHANGED <<outbox, crm, live, job, batch>>
  BY DEF End, world
<1>3. Load({}) \in [Leads -> Row \cup {NotLoaded}]
  BY <1>1, LoadType
<1>4. NoAnswer \in [res : {"pending", "none", "silent", "text"},
                   stage : Stages, to : Addresses]
  BY DEF NoAnswer, Stages, Addresses
<1>5. TypeOK'
  <2>1. snap' \in [Requests -> [Leads -> Row \cup {NotLoaded}]]
    BY <1>1, <1>2, <1>3 DEF TypeOK
  <2>2. ans' \in [Requests -> [res : {"pending", "none", "silent", "text"},
                               stage : Stages, to : Addresses]]
    BY <1>1, <1>2, <1>4 DEF TypeOK
  <2>3. pc' \in [Requests -> {"idle", "inbound", "book", "agent", "sms", "crm",
                              "persist", "next", "commit", "done", "lost"}]
    BY <1>1, <1>2 DEF TypeOK
  <2>4. QED
    BY <1>1, <1>2, <2>1, <2>2, <2>3 DEF TypeOK
<1>6. ASSUME NEW q \in Requests
      PROVE  /\ Working(q)' => job'[q].lead \in Leads /\ snap'[q][job'[q].lead] \in Row
             /\ \A m \in batch'[q].todo \cup batch'[q].dirty : snap'[q][m] \in Row
             /\ batch'[q].todo \cup batch'[q].dirty # {} =>
                  job'[q].kind = "dispatch" /\ pc'[q] # "idle"
  <2>1. CASE q = r
    <3>1. pc'[q] = "done"
      BY <1>1, <1>2, <2>1 DEF TypeOK
    <3>2. batch'[q].todo \cup batch'[q].dirty = {}
      BY <1>1, <1>2, <2>1 DEF BatchesAreDispatches
    <3>3. QED
      BY <3>1, <3>2 DEF Working
  <2>2. CASE q # r
    BY <1>1, <1>2, <2>2 DEF TypeOK, SessionsLoaded, BatchesAreDispatches, Working
  <2>3. QED
    BY <2>1, <2>2
<1>7. QED
  BY <1>5, <1>6 DEF TypeInv, SessionsLoaded, BatchesAreDispatches

\* The commits made before the agent runs keep the types and the sessions.
LEMMA CommitsKeepTypeInv ==
  ASSUME TypeInv, NEW r \in Requests, CommitInbound(r) \/ CommitBooking(r)
  PROVE  TypeInv'
<1> DEFINE l == job[r].lead
<1>1. Working(r)
  BY DEF CommitInbound, CommitBooking, Working
<1>2. l \in Leads /\ snap[r][l] \in Row
  BY <1>1 DEF TypeInv, SessionsLoaded
<1>3. CASE CommitInbound(r)
  <2>1. timeline' \in SUBSET [req : Requests, lead : Leads, dir : {"in", "out"}]
    BY <1>2, <1>3 DEF CommitInbound, TypeInv, TypeOK
  <2>2. QED
    BY <1>1, <1>3, <2>1, ProgressKeepsTypeInv
       DEF CommitInbound, world, TypeInv, TypeOK
<1>4. CASE CommitBooking(r)
  <2>1. Booked(Loaded(r), job[r].uid) \in Row /\ Loaded(r) \in Row
    BY <1>2, ChangesType DEF Loaded, TypeInv, TypeOK, Jobs
  <2>2. Flush(row[l], Loaded(r), Booked(Loaded(r), job[r].uid)) \in Row
    BY <1>2, <2>1, FlushType DEF TypeInv, TypeOK
  <2>3. row' \in [Leads -> Row]
    BY <1>4, <2>2 DEF CommitBooking, Write, TypeInv, TypeOK
  <2>4. events' \in SUBSET (Requests \X Leads)
    BY <1>2, <1>4 DEF CommitBooking, TypeInv, TypeOK
  <2>5. timeline' \in SUBSET [req : Requests, lead : Leads, dir : {"in", "out"}]
    BY <1>2, <1>4 DEF CommitBooking, TypeInv, TypeOK
  <2>6. pc' = [pc EXCEPT ![r] = "agent"]
        /\ UNCHANGED <<outbox, crm, live, job, snap, ans, batch>>
    BY <1>4 DEF CommitBooking, world
  <2>7. QED
    BY <1>1, <2>3, <2>4, <2>5, <2>6, ProgressKeepsTypeInv DEF TypeInv, TypeOK
<1>5. QED
  BY <1>3, <1>4

\* run_agent up to its first await: the answer it settles on is well formed.
LEMMA AgentKeepsTypeInv ==
  ASSUME TypeInv, NEW r \in Requests,
         AgentAnswers(r) \/ AgentHolds(r) \/ AgentSends(r)
  PROVE  TypeInv'
<1> DEFINE l == job[r].lead
<1>1. Working(r)
  BY DEF AgentAnswers, AgentHolds, AgentSends, Working
<1>2. l \in Leads /\ job[r].body \in Bodies /\ job[r].chan \in Channels
  BY <1>1 DEF TypeInv, SessionsLoaded, TypeOK, Jobs
<1>3. \A rt \in RoutesOf(r) : rt.stage \in Stages
  BY <1>2, RoutesType, LeadStoreAssumption DEF RoutesOf, LeadStoreAssumption
<1>4. "keep" \in Stages /\ "nobody" \in Addresses
  BY DEF Stages, Addresses
<1>5. \E res \in {"none", "silent", "text"}, stage \in Stages, to \in Addresses,
         next \in {"persist", "crm", "sms"} :
        Answer(r, res, stage, to, next)
  <2>1. CASE AgentAnswers(r)
    BY <1>4, <2>1 DEF AgentAnswers
  <2>2. CASE AgentHolds(r)
    BY <1>3, <1>4, <2>2 DEF AgentHolds
  <2>3. CASE AgentSends(r)
    <3>1. Target(live, Sink, job[r].chan, Email[l], Phone[l]) \in Addresses
      BY <1>2, TargetType DEF TypeInv, TypeOK
    <3>2. QED
      BY <1>3, <2>3, <3>1 DEF AgentSends
  <2>4. QED
    BY <2>1, <2>2, <2>3
<1>6. PICK res \in {"none", "silent", "text"}, stage \in Stages, to \in Addresses,
           next \in {"persist", "crm", "sms"} :
        Answer(r, res, stage, to, next)
  BY <1>5
<1>7. ans' \in [Requests -> [res : {"pending", "none", "silent", "text"},
                             stage : Stages, to : Addresses]]
  BY <1>6 DEF Answer, TypeInv, TypeOK
<1>8. outbox' \in SUBSET [req : Requests, lead : Leads, to : Addresses,
                          text : BOOLEAN, after : BOOLEAN]
  <2>1. CASE UNCHANGED outbox
    BY <2>1 DEF TypeInv, TypeOK
  <2>2. CASE AgentSends(r)
    <3>1. Target(live, Sink, job[r].chan, Email[l], Phone[l]) \in Addresses
      BY <1>2, TargetType DEF TypeInv, TypeOK
    <3>2. \/ UNCHANGED outbox
          \/ \E draft \in Drafts(Brief[l]) :
               Deliver(r, Target(live, Sink, job[r].chan, Email[l], Phone[l]),
                       draft = "text")
      BY <2>2 DEF AgentSends
    <3>3. QED
      BY <1>1, <2>1, <3>1, <3>2, DeliverType
  <2>3. QED
    BY <2>1, <2>2 DEF AgentAnswers, AgentHolds, world
<1>9. /\ pc' = [pc EXCEPT ![r] = next]
      /\ UNCHANGED <<row, events, timeline, crm, live, job, snap, batch>>
  BY <1>6 DEF AgentAnswers, AgentHolds, AgentSends, Answer, store, world
<1>10. QED
  BY <1>1, <1>7, <1>8, <1>9, ProgressKeepsTypeInv DEF TypeInv, TypeOK

\* The awaited SMS and the HubSpot write keep the types; WriteCrm because a stage
\* that is no ProspectState is refused.
LEMMA CallsKeepTypeInv ==
  ASSUME TypeInv, NEW r \in Requests, SendSms(r) \/ WriteCrm(r)
  PROVE  TypeInv'
<1> DEFINE l == job[r].lead
<1>1. Working(r)
  BY DEF SendSms, WriteCrm, Working
<1>2. l \in Leads /\ snap[r][l] \in Row
  BY <1>1 DEF TypeInv, SessionsLoaded
<1>3. CASE SendSms(r)
  <2>1. ans[r].to \in Addresses /\ (ans[r].res = "text") \in BOOLEAN
    BY DEF TypeInv, TypeOK
  <2>2. outbox' \in SUBSET [req : Requests, lead : Leads, to : Addresses,
                            text : BOOLEAN, after : BOOLEAN]
    BY <1>1, <1>3, <2>1, DeliverType DEF SendSms
  <2>3. /\ pc' = [pc EXCEPT ![r] = "crm"]
        /\ UNCHANGED <<row, events, timeline, crm, live, job, snap, ans, batch>>
    BY <1>3 DEF SendSms, store
  <2>4. QED
    BY <1>1, <2>2, <2>3, ProgressKeepsTypeInv DEF TypeInv, TypeOK
<1>4. CASE WriteCrm(r)
  <2>1. crm' \in [Leads -> ProspectStates]
    BY <1>2, <1>4 DEF WriteCrm, TypeInv, TypeOK
  <2>2. /\ pc' = [pc EXCEPT ![r] = "persist"]
        /\ UNCHANGED <<row, events, timeline, outbox, live, job, snap, ans, batch>>
    BY <1>4 DEF WriteCrm, store
  <2>3. QED
    BY <1>1, <2>1, <2>2, ProgressKeepsTypeInv DEF TypeInv, TypeOK
<1>5. QED
  BY <1>3, <1>4

\* What the handlers commit after run_agent keeps the types, and ends the session.
LEMMA PersistsKeepTypeInv ==
  ASSUME TypeInv, NEW r \in Requests,
         \/ PersistOutreach(r) \/ PersistEmail(r)
         \/ PersistSimulated(r) \/ PersistNothing(r)
  PROVE  TypeInv'
<1> DEFINE l == job[r].lead
<1>1. Working(r) /\ job[r].kind # "dispatch" /\ End(r)
  BY DEF PersistOutreach, PersistEmail, PersistSimulated, PersistNothing, Ready,
         Working
<1>2. l \in Leads /\ Loaded(r) \in Row
  BY <1>1 DEF TypeInv, SessionsLoaded, Loaded
<1>3. Outbound(r) \in SUBSET [req : Requests, lead : Leads, dir : {"in", "out"}]
  BY <1>2, OutboundType
<1>4. row' \in [Leads -> Row]
  <2>1. /\ Flush(row[l], Loaded(r), Outreached(Loaded(r))) \in Row
        /\ Flush(row[l], Loaded(r), Replied(Loaded(r))) \in Row
    BY <1>2, ChangesType, FlushType DEF TypeInv, TypeOK
  <2>2. \/ row' = row
        \/ row' = [row EXCEPT ![l] = Flush(@, Loaded(r), Outreached(Loaded(r)))]
        \/ row' = [row EXCEPT ![l] = Flush(@, Loaded(r), Replied(Loaded(r)))]
    BY DEF PersistOutreach, PersistEmail, PersistSimulated, PersistNothing, Write,
           store
  <2>3. QED
    BY <2>1, <2>2 DEF TypeInv, TypeOK
<1>5. events' \in SUBSET (Requests \X Leads)
  BY <1>2 DEF PersistOutreach, PersistEmail, PersistSimulated, PersistNothing,
              store, TypeInv, TypeOK
<1>6. timeline' \in SUBSET [req : Requests, lead : Leads, dir : {"in", "out"}]
  BY <1>2, <1>3 DEF PersistOutreach, PersistEmail, PersistSimulated, PersistNothing,
                    store, TypeInv, TypeOK
<1>7. QED
  BY <1>1, <1>4, <1>5, <1>6, EndKeepsTypeInv

\* The steps of a dispatch run keep the types, its leads being loaded ones.
LEMMA BatchKeepsTypeInv ==
  ASSUME TypeInv, NEW r \in Requests,
         (\E l \in Leads : NextLead(r, l)) \/ AfterLead(r) \/ CommitBatch(r)
  PROVE  TypeInv'
<1>1. TypeOK /\ SessionsLoaded /\ BatchesAreDispatches
  BY DEF TypeInv
<1>2. ASSUME NEW l \in Leads, NextLead(r, l) PROVE TypeInv'
  <2> DEFINE j == Job("dispatch", l, "empty", Preferred[l], NoBooking)
  <2>1. j \in Jobs /\ j.lead = l /\ j.kind = "dispatch"
    <3>1. Preferred[l] \in Channels
      BY LeadStoreAssumption DEF LeadStoreAssumption, Channels
    <3>2. QED
      BY <3>1, JobType DEF Kinds, Bodies
  <2>2. /\ pc[r] = "next" /\ l \in batch[r].todo
        /\ pc' = [pc EXCEPT ![r] = "agent"]
        /\ job' = [job EXCEPT ![r] = j]
        /\ batch' = [batch EXCEPT ![r].todo = @ \ {l}]
        /\ UNCHANGED <<row, events, timeline, outbox, crm, live, snap, ans>>
    BY <1>2 DEF NextLead, store, world
  <2> HIDE DEF j
  <2>3. batch' \in [Requests -> [todo : SUBSET Leads, dirty : SUBSET Leads,
                                 logged : SUBSET Leads]]
    BY <1>1, <2>2 DEF TypeOK
  <2>4. TypeOK'
    BY <1>1, <2>1, <2>2, <2>3 DEF TypeOK
  <2>5. /\ job'[r].lead = l /\ job'[r].kind = "dispatch" /\ pc'[r] = "agent"
        /\ snap[r][l] \in Row
        /\ batch'[r].todo \subseteq batch[r].todo /\ batch'[r].dirty = batch[r].dirty
    BY <1>1, <2>1, <2>2 DEF TypeOK, SessionsLoaded
  <2>6. \A q \in Requests : q # r => /\ job'[q] = job[q] /\ pc'[q] = pc[q]
                                    /\ batch'[q] = batch[q]
    BY <1>1, <2>2 DEF TypeOK
  <2>7. SessionsLoaded' /\ BatchesAreDispatches'
    BY <1>1, <2>2, <2>5, <2>6 DEF SessionsLoaded, BatchesAreDispatches, Working
  <2>8. QED
    BY <2>4, <2>7 DEF TypeInv
<1>3. CASE AfterLead(r)
  <2> DEFINE l == job[r].lead
  <2>1. /\ pc[r] = "persist" /\ job[r].kind = "dispatch"
        /\ pc' = [pc EXCEPT ![r] = IF batch[r].todo = {} THEN "commit" ELSE "next"]
        /\ batch' = [batch EXCEPT
                       ![r].logged = @ \cup {l},
                       ![r].dirty = IF ans[r].res = "none" THEN @ ELSE @ \cup {l}]
        /\ ans' = [ans EXCEPT ![r] = NoAnswer]
        /\ UNCHANGED <<row, events, timeline, outbox, crm, live, job, snap>>
    BY <1>3 DEF AfterLead, Ready, store, world
  <2>2. l \in Leads /\ snap[r][l] \in Row
    BY <1>1, <2>1 DEF SessionsLoaded, Working
  <2>3. NoAnswer \in [res : {"pending", "none", "silent", "text"},
                     stage : Stages, to : Addresses]
    BY DEF NoAnswer, Stages, Addresses
  <2>4. /\ batch' \in [Requests -> [todo : SUBSET Leads, dirty : SUBSET Leads,
                                    logged : SUBSET Leads]]
        /\ batch'[r].todo = batch[r].todo
        /\ batch'[r].dirty \subseteq batch[r].dirty \cup {l}
    <3> DEFINE D == IF ans[r].res = "none" THEN batch[r].dirty
                                           ELSE batch[r].dirty \cup {l}
               b == [batch[r] EXCEPT !.logged = batch[r].logged \cup {l}, !.dirty = D]
    <3>1. batch[r] \in [todo : SUBSET Leads, dirty : SUBSET Leads,
                       logged : SUBSET Leads]
      BY <1>1 DEF TypeOK
    <3>2. D \in SUBSET Leads /\ D \subseteq batch[r].dirty \cup {l}
      BY <2>2, <3>1
    <3>3. batch' = [batch EXCEPT ![r] = b]
      BY <2>1
    <3> HIDE DEF D
    <3>4. /\ b \in [todo : SUBSET Leads, dirty : SUBSET Leads, logged : SUBSET Leads]
          /\ b.todo = batch[r].todo /\ b.dirty = D
      BY <2>2, <3>1, <3>2
    <3> HIDE DEF b
    <3>5. batch'[r] = b
      BY <1>1, <3>3 DEF TypeOK
    <3>6. QED
      BY <1>1, <3>2, <3>3, <3>4, <3>5 DEF TypeOK
  <2>5. TypeOK'
    BY <1>1, <2>1, <2>3, <2>4 DEF TypeOK
  <2>6. pc'[r] \in {"commit", "next"}
    BY <1>1, <2>1 DEF TypeOK
  <2>7. \A q \in Requests : q # r => pc'[q] = pc[q] /\ batch'[q] = batch[q]
    BY <1>1, <2>1 DEF TypeOK
  <2>8. SessionsLoaded' /\ BatchesAreDispatches'
    BY <1>1, <2>1, <2>2, <2>4, <2>6, <2>7
       DEF SessionsLoaded, BatchesAreDispatches, Working
  <2>9. QED
    BY <2>5, <2>8 DEF TypeInv
<1>4. CASE CommitBatch(r)
  <2>1. /\ pc[r] = "commit"
        /\ row' = [l \in Leads |->
                     IF l \in batch[r].dirty
                     THEN Flush(row[l], snap[r][l], Contacted(snap[r][l]))
                     ELSE row[l]]
        /\ events' = events \cup {<<r, l>> : l \in batch[r].logged}
        /\ pc' = [pc EXCEPT ![r] = "done"]
        /\ snap' = [snap EXCEPT ![r] = Load({})]
        /\ batch' = [batch EXCEPT ![r] = NoBatch]
        /\ UNCHANGED <<timeline, outbox, crm, live, job, ans>>
    BY <1>4 DEF CommitBatch, world
  <2>2. row' \in [Leads -> Row]
    <3>1. ASSUME NEW l \in Leads, l \in batch[r].dirty
          PROVE  Flush(row[l], snap[r][l], Contacted(snap[r][l])) \in Row
      BY <1>1, <3>1, ChangesType, FlushType DEF TypeOK, SessionsLoaded
    <3>2. QED
      BY <1>1, <2>1, <3>1 DEF TypeOK
  <2>3. events' \in SUBSET (Requests \X Leads)
    BY <1>1, <2>1 DEF TypeOK
  <2>4. Load({}) \in [Leads -> Row \cup {NotLoaded}]
    BY <1>1, LoadType
  <2>5. NoBatch \in [todo : SUBSET Leads, dirty : SUBSET Leads, logged : SUBSET Leads]
        /\ NoBatch.todo = {} /\ NoBatch.dirty = {}
    BY DEF NoBatch
  <2>6. TypeOK'
    BY <1>1, <2>1, <2>2, <2>3, <2>4, <2>5 DEF TypeOK
  <2>7. pc'[r] = "done" /\ batch'[r].todo = {} /\ batch'[r].dirty = {}
    BY <1>1, <2>1, <2>5 DEF TypeOK
  <2>8. \A q \in Requests : q # r => /\ pc'[q] = pc[q] /\ batch'[q] = batch[q]
                                    /\ snap'[q] = snap[q]
    BY <1>1, <2>1 DEF TypeOK
  <2>9. SessionsLoaded' /\ BatchesAreDispatches'
    BY <1>1, <2>1, <2>7, <2>8 DEF SessionsLoaded, BatchesAreDispatches, Working
  <2>10. QED
    BY <2>6, <2>9 DEF TypeInv
<1>5. QED
  BY <1>2, <1>3, <1>4

\* A process that dies takes its sessions along and leaves the rest as it was.
LEMMA KillKeepsTypeInv ==
  ASSUME TypeInv, NEW R \in SUBSET Requests, Kill(R)
  PROVE  TypeInv'
<1>1. TypeOK /\ SessionsLoaded /\ BatchesAreDispatches
  BY DEF TypeInv
<1>2. /\ pc' = [r \in Requests |-> IF r \in R THEN "lost" ELSE pc[r]]
      /\ snap' = [r \in Requests |-> IF r \in R THEN Load({}) ELSE snap[r]]
      /\ ans' = [r \in Requests |-> IF r \in R THEN NoAnswer ELSE ans[r]]
      /\ batch' = [r \in Requests |-> IF r \in R THEN NoBatch ELSE batch[r]]
      /\ UNCHANGED <<row, events, timeline, outbox, crm, live, job>>
  BY DEF Kill, store, world
<1>3. Load({}) \in [Leads -> Row \cup {NotLoaded}]
  BY <1>1, LoadType
<1>4. NoAnswer \in [res : {"pending", "none", "silent", "text"},
                   stage : Stages, to : Addresses]
  BY DEF NoAnswer, Stages, Addresses
<1>5. NoBatch \in [todo : SUBSET Leads, dirty : SUBSET Leads, logged : SUBSET Leads]
      /\ NoBatch.todo = {} /\ NoBatch.dirty = {}
  BY DEF NoBatch
<1>6. TypeOK'
  <2>1. snap' \in [Requests -> [Leads -> Row \cup {NotLoaded}]]
    BY <1>1, <1>2, <1>3 DEF TypeOK
  <2>2. pc' \in [Requests -> {"idle", "inbound", "book", "agent", "sms", "crm",
                              "persist", "next", "commit", "done", "lost"}]
    BY <1>1, <1>2 DEF TypeOK
  <2>3. ans' \in [Requests -> [res : {"pending", "none", "silent", "text"},
                               stage : Stages, to : Addresses]]
    BY <1>1, <1>2, <1>4 DEF TypeOK
  <2>4. batch' \in [Requests -> [todo : SUBSET Leads, dirty : SUBSET Leads,
                                 logged : SUBSET Leads]]
    BY <1>1, <1>2, <1>5 DEF TypeOK
  <2>5. QED
    BY <1>1, <1>2, <2>1, <2>2, <2>3, <2>4 DEF TypeOK
<1>7. SessionsLoaded' /\ BatchesAreDispatches'
  BY <1>1, <1>2, <1>5 DEF SessionsLoaded, BatchesAreDispatches, Working
<1>8. QED
  BY <1>6, <1>7 DEF TypeInv

\* The initial states have the types.
LEMMA InitEstablishesTypeInv == Init => TypeInv
<1> SUFFICES ASSUME Init PROVE TypeInv
    OBVIOUS
<1>1. [state |-> "cold", attempts |-> 0, cal |-> NoBooking] \in Row
  BY DEF Row, ProspectStates
<1>2. [kind |-> "start", lead |-> NoLead, body |-> "empty", chan |-> "email",
       uid |-> NoBooking, after |-> FALSE] \in Jobs
  BY DEF Jobs, Kinds, Bodies, Channels
<1>3. Load({}) \in [Leads -> Row \cup {NotLoaded}]
  BY DEF Load
<1>4. NoAnswer \in [res : {"pending", "none", "silent", "text"},
                   stage : Stages, to : Addresses]
  BY DEF NoAnswer, Stages, Addresses
<1>5. NoBatch \in [todo : SUBSET Leads, dirty : SUBSET Leads, logged : SUBSET Leads]
      /\ NoBatch.todo = {} /\ NoBatch.dirty = {}
  BY DEF NoBatch
<1>6. TypeOK
  BY <1>1, <1>2, <1>3, <1>4, <1>5 DEF Init, TypeOK, ProspectStates
<1>7. SessionsLoaded /\ BatchesAreDispatches
  BY <1>5 DEF Init, SessionsLoaded, BatchesAreDispatches, Working
<1>8. QED
  BY <1>6, <1>7 DEF TypeInv

\* A call that arrives is one of seven kinds, well formed.
LEMMA ArrivalsAreAccepted ==
  ASSUME TypeInv, NEW r \in Requests, Arrive(r), ~Dispatch(r)
  PROVE  \E first \in {"inbound", "book", "agent"}, kind \in Kinds, l \in Leads,
            body \in Bodies, chan \in Channels, uid \in CalEvents \cup {NoBooking} :
           /\ Accept(r, first, kind, l, body, chan, uid)
           /\ first = "book" => kind = "cal"
<1>1. Inbound \subseteq Bodies /\ "empty" \in Bodies /\ "slot" \in Bodies
  BY LeadStoreAssumption DEF LeadStoreAssumption, Bodies
<1>2. {"email", "sms"} \subseteq Channels /\ "cal" \in Channels
  BY DEF Channels
<1>3. {"start", "email", "sms", "simulate", "replay", "cal"} \subseteq Kinds
  BY DEF Kinds
<1>4. CASE \E l \in Leads, body \in Inbound \cup {"empty"}, chan \in {"email", "sms"} :
             StartOutreach(r, l, body, chan) \/ SimulateReply(r, l, body, chan)
  BY <1>1, <1>2, <1>3, <1>4 DEF StartOutreach, SimulateReply
<1>5. CASE \E l \in Leads, body \in Inbound \cup {"empty"} : EmailReply(r, l, body)
  BY <1>1, <1>2, <1>3, <1>5 DEF EmailReply
<1>6. CASE \E l \in Leads, body \in Inbound \cup {"empty"} : SmsReply(r, l, body)
  BY <1>1, <1>2, <1>3, <1>6 DEF SmsReply
<1>7. CASE \E l \in Leads, e \in Requests : ReplayEvent(r, l, e)
  <2>1. PICK l \in Leads, e \in Requests : ReplayEvent(r, l, e)
    BY <1>7
  <2>2. (IF job[e].kind = "simulate" THEN job[e].body ELSE "empty") \in Bodies
    BY <1>1 DEF TypeInv, TypeOK, Jobs
  <2>3. (CASE job[e].kind = "cal"      -> "cal"
           [] job[e].kind = "dispatch" -> Preferred[l]
           [] OTHER                    -> job[e].chan) \in Channels
    <3>1. Preferred[l] \in Channels
      BY <1>2, LeadStoreAssumption DEF LeadStoreAssumption
    <3>2. job[e].chan \in Channels
      BY DEF TypeInv, TypeOK, Jobs
    <3>3. QED
      BY <1>2, <3>1, <3>2
  <2>4. QED
    BY <1>3, <2>1, <2>2, <2>3 DEF ReplayEvent
<1>8. CASE \E l \in Leads, uid \in CalEvents : CalBooking(r, l, uid)
  BY <1>1, <1>2, <1>3, <1>8 DEF CalBooking
<1>9. QED
  BY <1>4, <1>5, <1>6, <1>7, <1>8 DEF Arrive

\* Every step keeps the types.
LEMMA StepKeepsTypeInv == TypeInv /\ [Next]_vars => TypeInv'
<1> SUFFICES ASSUME TypeInv, [Next]_vars PROVE TypeInv'
    OBVIOUS
<1>1. ASSUME NEW r \in Requests, Arrive(r) PROVE TypeInv'
  <2>1. CASE Dispatch(r)
    BY <2>1, DispatchKeepsTypeInv
  <2>2. CASE ~Dispatch(r)
    BY <1>1, <2>2, ArrivalsAreAccepted, AcceptKeepsTypeInv
  <2>3. QED
    BY <2>1, <2>2
<1>2. ASSUME NEW r \in Requests, Step(r) PROVE TypeInv'
  BY <1>2, CommitsKeepTypeInv, AgentKeepsTypeInv, CallsKeepTypeInv,
     PersistsKeepTypeInv, BatchKeepsTypeInv DEF Step
<1>3. CASE CrashServer
  BY <1>3, KillKeepsTypeInv DEF CrashServer, InFlight
<1>4. ASSUME NEW r \in Requests, CrashDispatcher(r) PROVE TypeInv'
  BY <1>4, KillKeepsTypeInv DEF CrashDispatcher
<1>5. CASE FlipKillSwitch
  BY <1>5 DEF FlipKillSwitch, store, TypeInv, TypeOK, SessionsLoaded,
              BatchesAreDispatches, Working
<1>6. CASE UNCHANGED vars
  BY <1>6 DEF vars, TypeInv, TypeOK, SessionsLoaded, BatchesAreDispatches, Working
<1>7. QED
  BY <1>1, <1>2, <1>3, <1>4, <1>5, <1>6 DEF Next

\* The store, the sessions and everything in flight keep their types, whatever
\* the interleaving and wherever a process dies.
THEOREM TypeCorrect == Spec => []TypeOK
<1>1. TypeInv => TypeOK
  BY DEF TypeInv
<1>2. QED
  BY <1>1, InitEstablishesTypeInv, StepKeepsTypeInv, PTL DEF Spec

-----------------------------------------------------------------------------
(* The attempt counter. *)

\* An event is stored by a call that arrived, and an outreach's in its last step.
EventsAreSettled ==
  \A r \in Requests, l \in Leads :
    <<r, l>> \in events =>
      pc[r] # "idle" /\ (job[r].kind = "start" => pc[r] = "done")

BookingsAreCal == \A r \in Requests : pc[r] = "book" => job[r].kind = "cal"

\* What an open session loaded was explained when it was loaded, and still is.
SnapshotsBacked ==
  \A r \in Requests, l \in Leads :
    snap[r][l] \in Row => snap[r][l].attempts <= Cardinality(Outreaches(l))

AttemptsInv ==
  /\ EventsAreSettled
  /\ BookingsAreCal
  /\ SnapshotsBacked
  /\ AttemptsBacked

\* A set of requests is finite.
LEMMA OutreachesAreFinite ==
  ASSUME NEW l \in Leads
  PROVE  IsFiniteSet(Outreaches(l)) /\ Cardinality(Outreaches(l)) \in Nat
  BY LeadStoreAssumption, FS_Subset, FS_CardinalityType
     DEF LeadStoreAssumption, Outreaches

\* The events of this state are there in the next, stored by the same kinds.
EventsStay ==
  \A r \in Requests, l \in Leads :
    <<r, l>> \in events => <<r, l>> \in events' /\ job'[r].kind = job[r].kind

\* Then no lead has fewer outreaches.
LEMMA OutreachesGrow ==
  ASSUME TypeInv, TypeInv', EventsStay, NEW l \in Leads
  PROVE  /\ Outreaches(l) \subseteq Outreaches(l)'
         /\ Cardinality(Outreaches(l)) \in Nat
         /\ Cardinality(Outreaches(l)') \in Nat
         /\ IsFiniteSet(Outreaches(l)')
         /\ Cardinality(Outreaches(l)) <= Cardinality(Outreaches(l)')
<1>1. Outreaches(l) \subseteq Outreaches(l)'
  BY DEF EventsStay, Outreaches
<1>2. Outreaches(l)' \subseteq Requests
  BY DEF Outreaches
<1>3. IsFiniteSet(Outreaches(l)') /\ Cardinality(Outreaches(l)') \in Nat
  BY <1>2, LeadStoreAssumption, FS_Subset, FS_CardinalityType
     DEF LeadStoreAssumption
<1>4. QED
  BY <1>1, <1>3, OutreachesAreFinite, FS_Subset

\* A step that stores no new attempt and loads only what is in the store keeps
\* every counter explained.
LEMMA NoAttemptKeepsBacked ==
  ASSUME TypeInv, TypeInv', SnapshotsBacked, AttemptsBacked, EventsStay,
         \A l \in Leads : row'[l].attempts = row[l].attempts,
         \A r \in Requests, l \in Leads :
           snap'[r][l] \in Row => snap'[r][l] \in {snap[r][l], row[l]}
  PROVE  SnapshotsBacked' /\ AttemptsBacked'
<1>1. ASSUME NEW l \in Leads PROVE row'[l].attempts <= Cardinality(Outreaches(l)')
  <2>1. row[l].attempts \in Nat /\ row[l].attempts <= Cardinality(Outreaches(l))
    BY DEF TypeInv, TypeOK, Row, AttemptsBacked
  <2>2. QED
    BY <2>1, OutreachesGrow
<1>2. ASSUME NEW r \in Requests, NEW l \in Leads, snap'[r][l] \in Row
      PROVE  snap'[r][l].attempts <= Cardinality(Outreaches(l)')
  <2>1. snap'[r][l].attempts \in Nat
    BY <1>2 DEF Row
  <2>2. snap'[r][l].attempts <= Cardinality(Outreaches(l))
    BY <1>2 DEF SnapshotsBacked, AttemptsBacked
  <2>3. QED
    BY <2>1, <2>2, OutreachesGrow
<1>3. QED
  BY <1>1, <1>2 DEF SnapshotsBacked, AttemptsBacked

\* A session that ends forgets its rows.
LEMMA EndForgets ==
  ASSUME TypeOK, NEW l \in Leads
  PROVE  Load({})[l] \notin Row
  BY LeadStoreAssumption DEF LeadStoreAssumption, Load

\* An arriving call changes the job of a request that has stored nothing.
LEMMA ArrivalKeepsAttemptsInv ==
  ASSUME TypeInv, TypeInv', AttemptsInv, NEW r \in Requests, Arrive(r)
  PROVE  AttemptsInv'
<1>1. \E first \in {"inbound", "book", "agent", "next"}, j \in Jobs,
         S \in SUBSET Leads :
        /\ pc[r] = "idle"
        /\ pc' = [pc EXCEPT ![r] = first]
        /\ job' = [job EXCEPT ![r] = j]
        /\ snap' = [snap EXCEPT ![r] = Load(S)]
        /\ UNCHANGED <<row, events>>
        /\ first = "book" => j.kind = "cal"
  <2>1. CASE Dispatch(r)
    <3>1. Job("dispatch", NoLead, "empty", "email", NoBooking) \in Jobs
      BY JobType DEF Kinds, Bodies, Channels
    <3>2. QED
      BY <2>1, <3>1 DEF Dispatch, store
  <2>2. CASE ~Dispatch(r)
    <3>1. PICK first \in {"inbound", "book", "agent"}, kind \in Kinds, l \in Leads,
               body \in Bodies, chan \in Channels,
               uid \in CalEvents \cup {NoBooking} :
            /\ Accept(r, first, kind, l, body, chan, uid)
            /\ first = "book" => kind = "cal"
      BY <2>2, ArrivalsAreAccepted
    <3>2. /\ Job(kind, l, body, chan, uid) \in Jobs
          /\ Job(kind, l, body, chan, uid).kind = kind
          /\ {l} \in SUBSET Leads
      BY JobType
    <3>3. QED
      BY <3>1, <3>2 DEF Accept, store
  <2>3. QED
    BY <2>1, <2>2
<1>2. PICK first \in {"inbound", "book", "agent", "next"}, j \in Jobs,
           S \in SUBSET Leads :
        /\ pc[r] = "idle"
        /\ pc' = [pc EXCEPT ![r] = first]
        /\ job' = [job EXCEPT ![r] = j]
        /\ snap' = [snap EXCEPT ![r] = Load(S)]
        /\ UNCHANGED <<row, events>>
        /\ first = "book" => j.kind = "cal"
  BY <1>1
<1>3. \A l \in Leads : <<r, l>> \notin events
  BY <1>2 DEF AttemptsInv, EventsAreSettled
<1>4. \A q \in Requests : q # r => pc'[q] = pc[q] /\ job'[q] = job[q]
  BY <1>2 DEF TypeInv, TypeOK
<1>5. EventsStay
  BY <1>2, <1>3, <1>4 DEF EventsStay
<1>6. EventsAreSettled'
  BY <1>2, <1>3, <1>4 DEF AttemptsInv, EventsAreSettled
<1>7. BookingsAreCal'
  BY <1>2, <1>4 DEF AttemptsInv, BookingsAreCal, TypeInv, TypeOK
<1>8. ASSUME NEW q \in Requests, NEW l \in Leads, snap'[q][l] \in Row
      PROVE  snap'[q][l] \in {snap[q][l], row[l]}
  <2>1. Load(S)[l] = IF l \in S THEN row[l] ELSE NotLoaded
    BY LoadType DEF TypeInv
  <2>2. snap'[q] = IF q = r THEN Load(S) ELSE snap[q]
    BY <1>2 DEF TypeInv, TypeOK
  <2>3. NotLoaded \notin Row
    BY LeadStoreAssumption DEF LeadStoreAssumption
  <2>4. QED
    BY <1>8, <2>1, <2>2, <2>3
<1>9. SnapshotsBacked' /\ AttemptsBacked'
  BY <1>2, <1>5, <1>8, NoAttemptKeepsBacked DEF AttemptsInv
<1>10. QED
  BY <1>6, <1>7, <1>9 DEF AttemptsInv

\* A request in flight may store an event, an outreach's only as it returns.
LEMMA ProgressSettles ==
  ASSUME TypeInv, AttemptsInv, NEW r \in Requests, pc[r] \notin {"idle", "done"},
         NEW next \in {"agent", "sms", "crm", "persist", "next", "commit", "done"},
         pc' = [pc EXCEPT ![r] = next],
         \A q \in Requests : job'[q].kind = job[q].kind,
         events \subseteq events',
         \A q \in Requests, l \in Leads :
           <<q, l>> \in events' \ events =>
             q = r /\ (job[r].kind = "start" => next = "done")
  PROVE  EventsAreSettled' /\ BookingsAreCal' /\ EventsStay
<1>1. pc'[r] = next /\ \A q \in Requests : q # r => pc'[q] = pc[q]
  BY DEF TypeInv, TypeOK
<1>2. EventsAreSettled'
  BY <1>1 DEF AttemptsInv, EventsAreSettled
<1>3. BookingsAreCal'
  BY <1>1 DEF AttemptsInv, BookingsAreCal
<1>4. EventsStay
  BY DEF EventsStay
<1>5. QED
  BY <1>2, <1>3, <1>4

\* The steps of a request that leave the counters alone.
LEMMA ProgressKeepsAttemptsInv ==
  ASSUME TypeInv, TypeInv', AttemptsInv, NEW r \in Requests,
         Step(r), ~PersistOutreach(r)
  PROVE  AttemptsInv'
<1>0. Step(r) /\ ~PersistOutreach(r)
  OBVIOUS
<1>1. TypeOK /\ EventsAreSettled
  BY DEF TypeInv, AttemptsInv
<1>2. /\ pc[r] \notin {"idle", "done"}
      /\ \A q \in Requests : job'[q].kind = job[q].kind
      /\ events \subseteq events'
      /\ \E next \in {"agent", "sms", "crm", "persist", "next", "commit", "done"} :
           /\ pc' = [pc EXCEPT ![r] = next]
           /\ \A q \in Requests, l \in Leads :
                <<q, l>> \in events' \ events =>
                  q = r /\ (job[r].kind = "start" => next = "done")
  <2>1. CASE CommitInbound(r) \/ SendSms(r) \/ WriteCrm(r) \/ PersistEmail(r)
             \/ PersistNothing(r)
    BY <2>1 DEF CommitInbound, SendSms, WriteCrm, PersistEmail, PersistNothing,
                Ready, End, world, store
  <2>2. CASE AgentAnswers(r) \/ AgentHolds(r) \/ AgentSends(r)
    BY <2>2 DEF AgentAnswers, AgentHolds, AgentSends, Answer, world, store
  <2>3. CASE CommitBooking(r)
    BY <1>1, <2>3 DEF CommitBooking, world, AttemptsInv, BookingsAreCal
  <2>4. CASE PersistSimulated(r)
    BY <2>4 DEF PersistSimulated, Ready, End, world
  <2>5. ASSUME NEW l \in Leads, NextLead(r, l)
        PROVE  /\ pc[r] = "next" /\ pc' = [pc EXCEPT ![r] = "agent"]
               /\ events' = events
               /\ \A q \in Requests : job'[q].kind = job[q].kind
    <3> DEFINE j == Job("dispatch", l, "empty", Preferred[l], NoBooking)
    <3>1. /\ pc[r] = "next" /\ pc' = [pc EXCEPT ![r] = "agent"]
          /\ events' = events /\ l \in batch[r].todo
          /\ job' = [job EXCEPT ![r] = j]
      BY <2>5 DEF NextLead, store
    <3>2. job[r].kind = "dispatch"
      BY <3>1 DEF TypeInv, BatchesAreDispatches
    <3>3. j.kind = "dispatch"
      BY DEF Job
    <3> HIDE DEF j
    <3>4. QED
      BY <1>1, <3>1, <3>2, <3>3 DEF TypeOK
  <2>6. CASE AfterLead(r)
    BY <2>6 DEF AfterLead, Ready, store, world
  <2>7. CASE CommitBatch(r)
    BY <2>7 DEF CommitBatch, world
  <2>8. QED
    BY <1>0, <2>1, <2>2, <2>3, <2>4, <2>5, <2>6, <2>7 DEF Step
<1>3. EventsAreSettled' /\ BookingsAreCal' /\ EventsStay
  <2>1. PICK next \in {"agent", "sms", "crm", "persist", "next", "commit", "done"} :
          /\ pc' = [pc EXCEPT ![r] = next]
          /\ \A q \in Requests, l \in Leads :
               <<q, l>> \in events' \ events =>
                 q = r /\ (job[r].kind = "start" => next = "done")
    BY <1>2
  <2>2. pc[r] \notin {"idle", "done"}
    BY <1>2
  <2>3. /\ \A q \in Requests : job'[q].kind = job[q].kind
        /\ events \subseteq events'
    BY <1>2
  <2>4. QED
    BY <2>1, <2>2, <2>3, ProgressSettles, Zenon
<1>4. ASSUME NEW l \in Leads PROVE row'[l].attempts = row[l].attempts
  <2>1. CASE UNCHANGED row
    BY <2>1
  <2>2. ASSUME NEW changed \in Row, Working(r), changed.attempts = Loaded(r).attempts,
               Write(job[r].lead, Loaded(r), changed)
        PROVE  row'[l].attempts = row[l].attempts
    <3>1. job[r].lead \in Leads /\ Loaded(r) \in Row /\ row \in [Leads -> Row]
      BY <2>2 DEF TypeInv, TypeOK, SessionsLoaded, Loaded
    <3>2. Flush(row[job[r].lead], Loaded(r), changed).attempts
            = row[job[r].lead].attempts
      BY <2>2, <3>1, FlushType
    <3>3. QED
      BY <2>2, <3>1, <3>2 DEF Write
  <2>3. CASE CommitBooking(r)
    <3>1. Working(r) /\ Write(job[r].lead, Loaded(r), Booked(Loaded(r), job[r].uid))
      BY <2>3 DEF CommitBooking, Working
    <3>2. Loaded(r) \in Row /\ job[r].uid \in CalEvents \cup {NoBooking}
      BY <3>1 DEF TypeInv, TypeOK, SessionsLoaded, Loaded, Jobs
    <3>3. QED
      BY <2>2, <3>1, <3>2, ChangesType
  <2>4. CASE PersistSimulated(r)
    <3>1. Working(r) /\ Write(job[r].lead, Loaded(r), Replied(Loaded(r)))
      BY <2>4 DEF PersistSimulated, Ready, Working
    <3>2. Loaded(r) \in Row
      BY <3>1 DEF TypeInv, SessionsLoaded, Loaded
    <3>3. QED
      BY <2>2, <3>1, <3>2, ChangesType
  <2>5. CASE CommitBatch(r)
    <3>1. row \in [Leads -> Row]
          /\ row'[l] = IF l \in batch[r].dirty
                       THEN Flush(row[l], snap[r][l], Contacted(snap[r][l]))
                       ELSE row[l]
      BY <1>1, <2>5 DEF CommitBatch, TypeOK
    <3>2. CASE l \in batch[r].dirty
      <4>1. snap[r][l] \in Row
        BY <3>2 DEF TypeInv, SessionsLoaded
      <4>2. QED
        BY <3>1, <3>2, <4>1, ChangesType, FlushType
    <3>3. QED
      BY <3>1, <3>2
  <2>6. \/ UNCHANGED row
        \/ CommitBooking(r) \/ PersistSimulated(r) \/ CommitBatch(r)
    BY <1>0 DEF Step, CommitInbound, AgentAnswers, AgentHolds, AgentSends, SendSms,
            WriteCrm, PersistEmail, PersistNothing, NextLead, AfterLead, store
  <2>7. QED
    BY <2>1, <2>3, <2>4, <2>5, <2>6
<1>5. ASSUME NEW q \in Requests, NEW l \in Leads, snap'[q][l] \in Row
      PROVE  snap'[q][l] \in {snap[q][l], row[l]}
  <2>1. UNCHANGED snap \/ snap' = [snap EXCEPT ![r] = Load({})]
    BY <1>0 DEF Step, CommitInbound, CommitBooking, AgentAnswers, AgentHolds,
            AgentSends, SendSms, WriteCrm, PersistEmail, PersistSimulated,
            PersistNothing, NextLead, AfterLead, CommitBatch, End
  <2>2. QED
    BY <1>1, <1>5, <2>1, EndForgets DEF TypeOK
<1>6. SnapshotsBacked' /\ AttemptsBacked'
  BY <1>1, <1>3, <1>4, <1>5, NoAttemptKeepsBacked DEF AttemptsInv
<1>7. QED
  BY <1>3, <1>6 DEF AttemptsInv

\* An outreach writes the count it loaded, plus one, with the event that backs it.
LEMMA OutreachKeepsAttemptsInv ==
  ASSUME TypeInv, TypeInv', AttemptsInv, NEW r \in Requests, PersistOutreach(r)
  PROVE  AttemptsInv'
<1>0. TypeOK /\ EventsAreSettled
  BY DEF TypeInv, AttemptsInv
<1>1. /\ pc[r] = "persist" /\ job[r].kind = "start"
      /\ pc' = [pc EXCEPT ![r] = "done"]
      /\ snap' = [snap EXCEPT ![r] = Load({})]
      /\ UNCHANGED job
  BY DEF PersistOutreach, Ready, End
<1> PICK l \in Leads : l = job[r].lead
  BY <1>1 DEF TypeInv, SessionsLoaded, Working
<1>2. Loaded(r) = snap[r][l] /\ Loaded(r) \in Row
  BY <1>1 DEF TypeInv, SessionsLoaded, Working, Loaded
<1>3. ASSUME NEW q \in Requests, NEW m \in Leads, snap'[q][m] \in Row
      PROVE  snap'[q][m] \in {snap[q][m], row[m]}
  BY <1>0, <1>1, <1>3, EndForgets DEF TypeOK
<1>4. CASE ans[r].res = "none"
  <2>1. UNCHANGED <<row, events>>
    BY <1>4 DEF PersistOutreach, store
  <2>2. EventsAreSettled' /\ BookingsAreCal' /\ EventsStay
    BY <1>1, <2>1, ProgressSettles
  <2>3. SnapshotsBacked' /\ AttemptsBacked'
    BY <1>3, <2>1, <2>2, NoAttemptKeepsBacked DEF AttemptsInv
  <2>4. QED
    BY <2>2, <2>3 DEF AttemptsInv
<1>5. CASE ans[r].res # "none"
  <2>1. /\ row' = [row EXCEPT ![l] = Flush(@, Loaded(r), Outreached(Loaded(r)))]
        /\ events' = events \cup {<<r, l>>}
    BY <1>5 DEF PersistOutreach, Write
  <2>2. EventsAreSettled' /\ BookingsAreCal' /\ EventsStay
    BY <1>1, <2>1, ProgressSettles
  <2>3. row'[l].attempts = Loaded(r).attempts + 1
    <3>1. /\ Outreached(Loaded(r)) \in Row
          /\ Outreached(Loaded(r)).attempts = Loaded(r).attempts + 1
          /\ Loaded(r).attempts \in Nat
      BY <1>2, ChangesType DEF Row
    <3>2. Flush(row[l], Loaded(r), Outreached(Loaded(r))).attempts
            = Loaded(r).attempts + 1
      BY <1>0, <1>2, <3>1, FlushType DEF TypeOK
    <3>3. QED
      BY <1>0, <1>2, <2>1, <3>2 DEF TypeOK
  <2>4. Cardinality(Outreaches(l)') = Cardinality(Outreaches(l)) + 1
    <3>1. r \notin Outreaches(l)
      BY <1>0, <1>1, <1>2 DEF Outreaches, EventsAreSettled
    <3>2. Outreaches(l)' = Outreaches(l) \cup {r}
      BY <1>1, <1>2, <2>1 DEF Outreaches
    <3>3. QED
      BY <1>2, <3>1, <3>2, OutreachesAreFinite, FS_AddElement
  <2>5. row'[l].attempts <= Cardinality(Outreaches(l)')
    <3>1. Loaded(r).attempts <= Cardinality(Outreaches(l))
      BY <1>2 DEF AttemptsInv, SnapshotsBacked
    <3>2. Loaded(r).attempts \in Nat /\ Cardinality(Outreaches(l)) \in Nat
      BY <1>2, OutreachesAreFinite DEF Row
    <3>3. QED
      BY <2>3, <2>4, <3>1, <3>2
  <2>6. ASSUME NEW m \in Leads PROVE row'[m].attempts <= Cardinality(Outreaches(m)')
    <3>1. CASE m = l
      BY <2>5, <3>1
    <3>2. CASE m # l
      <4>1. row'[m] = row[m] /\ row[m].attempts \in Nat
        BY <1>0, <2>1, <3>2 DEF TypeOK, Row
      <4>2. row[m].attempts <= Cardinality(Outreaches(m))
        BY DEF AttemptsInv, AttemptsBacked
      <4>3. QED
        BY <2>2, <4>1, <4>2, OutreachesGrow
    <3>3. QED
      BY <3>1, <3>2
  <2>7. ASSUME NEW q \in Requests, NEW m \in Leads, snap'[q][m] \in Row
        PROVE  snap'[q][m].attempts <= Cardinality(Outreaches(m)')
    <3>1. snap'[q][m].attempts \in Nat
      BY <2>7 DEF Row
    <3>2. snap'[q][m].attempts <= Cardinality(Outreaches(m))
      BY <1>3, <2>7 DEF AttemptsInv, SnapshotsBacked, AttemptsBacked
    <3>3. QED
      BY <2>2, <3>1, <3>2, OutreachesGrow
  <2>8. QED
    BY <2>2, <2>6, <2>7 DEF AttemptsInv, SnapshotsBacked, AttemptsBacked
<1>6. QED
  BY <1>4, <1>5

\* A process that dies takes its sessions along and nothing else.
LEMMA KillKeepsAttemptsInv ==
  ASSUME TypeInv, TypeInv', AttemptsInv, NEW R \in SUBSET InFlight, Kill(R)
  PROVE  AttemptsInv'
<1>1. /\ \A r \in Requests : pc'[r] = IF r \in R THEN "lost" ELSE pc[r]
      /\ \A r \in Requests : snap'[r] = IF r \in R THEN Load({}) ELSE snap[r]
      /\ UNCHANGED <<row, events, job>>
  BY DEF Kill, store
<1>2. \A r \in R : pc[r] # "done"
  BY DEF InFlight
<1>3. EventsAreSettled' /\ BookingsAreCal' /\ EventsStay
  BY <1>1, <1>2 DEF AttemptsInv, EventsAreSettled, BookingsAreCal, EventsStay
<1>4. ASSUME NEW q \in Requests, NEW l \in Leads, snap'[q][l] \in Row
      PROVE  snap'[q][l] \in {snap[q][l], row[l]}
  BY <1>1, <1>4, EndForgets DEF TypeInv
<1>5. SnapshotsBacked' /\ AttemptsBacked'
  BY <1>1, <1>3, <1>4, NoAttemptKeepsBacked DEF AttemptsInv
<1>6. QED
  BY <1>3, <1>5 DEF AttemptsInv

\* Nothing has been attempted at the start.
LEMMA InitEstablishesAttemptsInv == Init => AttemptsInv
<1> SUFFICES ASSUME Init PROVE AttemptsInv
    OBVIOUS
<1>1. EventsAreSettled /\ BookingsAreCal
  BY DEF Init, EventsAreSettled, BookingsAreCal
<1>2. SnapshotsBacked
  <2>1. NotLoaded \notin Row
    BY LeadStoreAssumption DEF LeadStoreAssumption
  <2>2. QED
    BY <2>1 DEF Init, Load, SnapshotsBacked
<1>3. AttemptsBacked
  <2>1. \A l \in Leads : row[l].attempts = 0
    BY DEF Init
  <2>2. QED
    BY <2>1, OutreachesAreFinite DEF AttemptsBacked
<1>4. QED
  BY <1>1, <1>2, <1>3 DEF AttemptsInv

\* Every step keeps the counters explained.
LEMMA StepKeepsAttemptsInv ==
  TypeInv /\ TypeInv' /\ AttemptsInv /\ [Next]_vars => AttemptsInv'
<1> SUFFICES ASSUME TypeInv, TypeInv', AttemptsInv, [Next]_vars PROVE AttemptsInv'
    OBVIOUS
<1>1. ASSUME NEW r \in Requests, Arrive(r) PROVE AttemptsInv'
  BY <1>1, ArrivalKeepsAttemptsInv
<1>2. ASSUME NEW r \in Requests, Step(r) PROVE AttemptsInv'
  BY <1>2, ProgressKeepsAttemptsInv, OutreachKeepsAttemptsInv
<1>3. CASE CrashServer
  BY <1>3, KillKeepsAttemptsInv DEF CrashServer
<1>4. ASSUME NEW r \in Requests, CrashDispatcher(r) PROVE AttemptsInv'
  BY <1>4, KillKeepsAttemptsInv DEF CrashDispatcher
<1>5. CASE UNCHANGED <<row, events, pc, job, snap>>
  BY <1>5 DEF AttemptsInv, EventsAreSettled, BookingsAreCal, SnapshotsBacked,
              AttemptsBacked, Outreaches
<1>6. CASE FlipKillSwitch \/ UNCHANGED vars
  BY <1>5, <1>6 DEF FlipKillSwitch, store, vars
<1>7. QED
  BY <1>1, <1>2, <1>3, <1>4, <1>6 DEF Next

\* However sessions interleave, and whichever are lost, no lead's attempt counter
\* exceeds the outreach_started events stored for it.
THEOREM AttemptsAreBacked == Spec => []AttemptsBacked
<1>1. AttemptsInv => AttemptsBacked
  BY DEF AttemptsInv
<1>2. QED
  BY <1>1, InitEstablishesTypeInv, StepKeepsTypeInv, InitEstablishesAttemptsInv,
     StepKeepsAttemptsInv, PTL DEF Spec

-----------------------------------------------------------------------------
(* What the handlers leave behind.  A request's traces outlive it: an      *)
(* event or a message is explained by the job of the request that left it. *)
(* The invariant says which jobs can stand where, so that a job which is   *)
(* explained by one stays so.                                              *)

\* The texts that ask not to be written to.
OptOuts == {"stop_word", "opt_out"}

\* The kinds of call that record what they send.
Recording == {"start", "email", "simulate"}

\* Only a booking stands before its commit, only a dispatch run between leads,
\* and no opt-out before an SMS; a run logs every lead it will change.
JobsFit ==
  \A r \in Requests :
    /\ pc[r] = "book" => job[r].kind = "cal" /\ job[r].uid \in CalEvents
    /\ pc[r] \in {"next", "commit"} => job[r].kind = "dispatch"
    /\ pc[r] = "sms" => job[r].body \notin OptOuts
    /\ batch[r].dirty \subseteq batch[r].logged

\* An event is stored by a call that arrived.
EventsBegan ==
  \A r \in Requests, l \in Leads : <<r, l>> \in events => pc[r] # "idle"

\* A message is its request's, which has got past its send; a recording call
\* still has the answer to record, or has recorded it.
SendFollows(d) ==
  /\ pc[d.req] # "idle"
  /\ job[d.req].body \notin OptOuts
  /\ d.text /\ job[d.req].kind \in Recording =>
       /\ d.lead = job[d.req].lead
       /\ pc[d.req] \in {"crm", "persist", "done", "lost"}
       /\ pc[d.req] \in {"crm", "persist"} => ans[d.req].res = "text"
       /\ pc[d.req] = "done" =>
            [req |-> d.req, lead |-> d.lead, dir |-> "out"] \in timeline

SendsFollow == \A d \in outbox : SendFollows(d)

EffectsInv == JobsFit /\ EventsBegan /\ StateHasCause /\ SendsFollow

-----------------------------------------------------------------------------
(* Which part of the state a step touches. *)

\* A call that arrives takes up a request that has left nothing behind.
LEMMA ArrivalsBegin ==
  ASSUME TypeInv, NEW r \in Requests, Arrive(r)
  PROVE  /\ pc[r] = "idle"
         /\ \E first \in {"inbound", "book", "agent", "next"} :
              /\ pc' = [pc EXCEPT ![r] = first]
              /\ first = "book" => job'[r].kind = "cal" /\ job'[r].uid \in CalEvents
              /\ first = "next" => job'[r].kind = "dispatch"
         /\ \A q \in Requests \ {r} : job'[q] = job[q]
         /\ \A q \in Requests : /\ batch'[q].dirty = batch[q].dirty
                                /\ batch'[q].logged = batch[q].logged
         /\ UNCHANGED <<row, events, timeline, outbox, ans>>
<1>1. job \in [Requests -> Jobs]
      /\ batch \in [Requests -> [todo : SUBSET Leads, dirty : SUBSET Leads,
                                 logged : SUBSET Leads]]
  BY DEF TypeInv, TypeOK
<1> DEFINE Begins(first, j) ==
      /\ pc[r] = "idle"
      /\ pc' = [pc EXCEPT ![r] = first]
      /\ job' = [job EXCEPT ![r] = j]
      /\ UNCHANGED <<row, events, timeline, outbox, ans, batch>>
<1>2. ASSUME NEW first, NEW kind, NEW l, NEW body, NEW chan, NEW uid,
             Accept(r, first, kind, l, body, chan, uid)
      PROVE  /\ Begins(first, Job(kind, l, body, chan, uid))
             /\ job'[r].kind = kind /\ job'[r].uid = uid
  <2>1. Begins(first, Job(kind, l, body, chan, uid))
    BY <1>2 DEF Accept, store, world
  <2>2. job'[r] = Job(kind, l, body, chan, uid)
    BY <1>1, <2>1
  <2>3. QED
    BY <2>1, <2>2 DEF Job
<1>3. ASSUME NEW first \in {"inbound", "agent"}, NEW kind, NEW l, NEW body,
             NEW chan, Accept(r, first, kind, l, body, chan, NoBooking)
      PROVE  \E j : Begins(first, j)
  BY <1>2, <1>3
<1>4. CASE \E first \in {"inbound", "agent"} : \E j : Begins(first, j)
  BY <1>1, <1>4
<1>5. CASE \E l \in Leads, body \in Inbound \cup {"empty"}, chan \in {"email", "sms"} :
             StartOutreach(r, l, body, chan) \/ SimulateReply(r, l, body, chan)
  BY <1>3, <1>4, <1>5 DEF StartOutreach, SimulateReply
<1>6. CASE \E l \in Leads, body \in Inbound \cup {"empty"} :
             EmailReply(r, l, body) \/ SmsReply(r, l, body)
  BY <1>3, <1>4, <1>6 DEF EmailReply, SmsReply
<1>7. CASE \E l \in Leads, e \in Requests : ReplayEvent(r, l, e)
  BY <1>3, <1>4, <1>7 DEF ReplayEvent
<1>8. ASSUME NEW l \in Leads, NEW uid \in CalEvents, CalBooking(r, l, uid)
      PROVE  /\ \E j : Begins("book", j)
             /\ job'[r].kind = "cal" /\ job'[r].uid \in CalEvents
  BY <1>2, <1>8 DEF CalBooking
<1>9. CASE Dispatch(r)
  <2> DEFINE j == Job("dispatch", NoLead, "empty", "email", NoBooking)
  <2>1. /\ pc[r] = "idle"
        /\ pc' = [pc EXCEPT ![r] = "next"]
        /\ job' = [job EXCEPT ![r] = j]
        /\ batch' = [batch EXCEPT ![r].todo = {l \in Leads : row[l].state = "cold"}]
        /\ UNCHANGED <<row, events, timeline, outbox, ans>>
    BY <1>9 DEF Dispatch, store, world
  <2>2. j.kind = "dispatch"
    BY DEF Job
  <2> HIDE DEF j
  <2>3. QED
    BY <1>1, <2>1, <2>2
<1>10. QED
  BY <1>1, <1>5, <1>6, <1>7, <1>8, <1>9 DEF Arrive

\* A step is its request's: it leaves the others alone, and changes what its own
\* is about only to go to the next lead of a dispatch run.
LEMMA StepsAreOwn ==
  ASSUME TypeInv, JobsFit, NEW r \in Requests, Step(r)
  PROVE  /\ pc[r] \notin {"idle", "done", "lost"}
         /\ pc'[r] \notin {"idle", "book", "inbound", "lost"}
         /\ \A q \in Requests \ {r} : /\ pc'[q] = pc[q] /\ job'[q] = job[q]
                                      /\ ans'[q] = ans[q] /\ batch'[q] = batch[q]
         /\ \/ job' = job
            \/ /\ pc[r] = "next" /\ pc'[r] = "agent"
               /\ job[r].kind = "dispatch" /\ job'[r].kind = "dispatch"
               /\ job'[r].body = "empty"
<1>1. /\ pc \in [Requests -> {"idle", "inbound", "book", "agent", "sms", "crm",
                              "persist", "next", "commit", "done", "lost"}]
      /\ job \in [Requests -> Jobs]
      /\ ans \in [Requests -> [res : {"pending", "none", "silent", "text"},
                               stage : Stages, to : Addresses]]
      /\ batch \in [Requests -> [todo : SUBSET Leads, dirty : SUBSET Leads,
                                 logged : SUBSET Leads]]
  BY DEF TypeInv, TypeOK
<1>2. CASE CommitInbound(r) \/ CommitBooking(r) \/ SendSms(r) \/ WriteCrm(r)
  BY <1>1, <1>2 DEF CommitInbound, CommitBooking, SendSms, WriteCrm, store, world
<1>3. CASE AgentAnswers(r) \/ AgentHolds(r) \/ AgentSends(r)
  <2>1. pc[r] = "agent" /\ UNCHANGED <<job, batch>>
    BY <1>3 DEF AgentAnswers, AgentHolds, AgentSends, store, world
  <2>2. ASSUME NEW res, NEW stage, NEW to, NEW next \in {"sms", "crm", "persist"},
               Answer(r, res, stage, to, next)
        PROVE  /\ pc'[r] \in {"sms", "crm", "persist"}
               /\ \A q \in Requests \ {r} : pc'[q] = pc[q] /\ ans'[q] = ans[q]
    BY <1>1, <2>2 DEF Answer
  <2>3. CASE AgentAnswers(r)
    BY <2>1, <2>2, <2>3 DEF AgentAnswers
  <2>4. CASE AgentHolds(r)
    BY <2>1, <2>2, <2>4 DEF AgentHolds
  <2>5. CASE AgentSends(r)
    BY <2>1, <2>2, <2>5 DEF AgentSends
  <2>6. QED
    BY <1>3, <2>3, <2>4, <2>5
<1>4. CASE PersistOutreach(r) \/ PersistEmail(r) \/ PersistSimulated(r)
           \/ PersistNothing(r)
  BY <1>1, <1>4 DEF PersistOutreach, PersistEmail, PersistSimulated,
                    PersistNothing, Ready, End
<1>5. ASSUME NEW l \in Leads, NextLead(r, l)
      PROVE  /\ pc[r] = "next" /\ pc' = [pc EXCEPT ![r] = "agent"]
             /\ job[r].kind = "dispatch" /\ job'[r].kind = "dispatch"
             /\ job'[r].body = "empty"
             /\ \A q \in Requests \ {r} : job'[q] = job[q] /\ batch'[q] = batch[q]
             /\ UNCHANGED ans
  <2> DEFINE j == Job("dispatch", l, "empty", Preferred[l], NoBooking)
  <2>1. /\ pc[r] = "next" /\ pc' = [pc EXCEPT ![r] = "agent"]
        /\ job' = [job EXCEPT ![r] = j]
        /\ batch' = [batch EXCEPT ![r].todo = @ \ {l}]
        /\ UNCHANGED ans
    BY <1>5 DEF NextLead, store, world
  <2>2. j.kind = "dispatch" /\ j.body = "empty"
    BY DEF Job
  <2> HIDE DEF j
  <2>3. QED
    BY <1>1, <2>1, <2>2 DEF JobsFit
<1>6. CASE AfterLead(r)
  BY <1>1, <1>6 DEF AfterLead, Ready, store, world
<1>7. CASE CommitBatch(r)
  BY <1>1, <1>7 DEF CommitBatch, store, world
<1>8. QED
  BY <1>1, <1>2, <1>3, <1>4, <1>5, <1>6, <1>7 DEF Step
-----------------------------------------------------------------------------
(* Jobs. *)

\* A text that opts out is never one a message is composed for.
LEMMA OptOutsAreNotComposed ==
  ASSUME NEW body \in OptOuts, NEW brief, NEW rt \in Routes(body, brief)
  PROVE  rt.path # "compose"
  BY DEF OptOuts, Routes, Route

\* An arriving call's job fits where it starts.
LEMMA ArrivalKeepsJobsFit ==
  ASSUME TypeInv, JobsFit, NEW r \in Requests, Arrive(r)
  PROVE  JobsFit'
<1>1. PICK first \in {"inbound", "book", "agent", "next"} :
        /\ pc' = [pc EXCEPT ![r] = first]
        /\ first = "book" => job'[r].kind = "cal" /\ job'[r].uid \in CalEvents
        /\ first = "next" => job'[r].kind = "dispatch"
  BY ArrivalsBegin
<1>2. /\ \A q \in Requests \ {r} : job'[q] = job[q]
      /\ \A q \in Requests : /\ batch'[q].dirty = batch[q].dirty
                             /\ batch'[q].logged = batch[q].logged
  BY ArrivalsBegin
<1>3. /\ pc'[r] = first
      /\ \A q \in Requests \ {r} : pc'[q] = pc[q]
  BY <1>1 DEF TypeInv, TypeOK
<1>4. QED
  BY <1>1, <1>2, <1>3 DEF JobsFit

\* A step leaves its job fit for where it goes: only a composed answer goes on to
\* an SMS, and only a dispatch run to its next lead.
LEMMA StepKeepsJobsFit ==
  ASSUME TypeInv, JobsFit, NEW r \in Requests, Step(r)
  PROVE  JobsFit'
<1>1. /\ pc \in [Requests -> {"idle", "inbound", "book", "agent", "sms", "crm",
                              "persist", "next", "commit", "done", "lost"}]
      /\ job \in [Requests -> Jobs]
      /\ batch \in [Requests -> [todo : SUBSET Leads, dirty : SUBSET Leads,
                                 logged : SUBSET Leads]]
  BY DEF TypeInv, TypeOK
<1>2. /\ pc'[r] # "book"
      /\ \A q \in Requests \ {r} : /\ pc'[q] = pc[q] /\ job'[q] = job[q]
                                   /\ batch'[q] = batch[q]
  BY StepsAreOwn
<1>3. /\ pc'[r] \in {"next", "commit"} => job'[r].kind = "dispatch"
      /\ pc'[r] = "sms" => job'[r].body \notin OptOuts
      /\ batch'[r].dirty \subseteq batch'[r].logged
  <2>1. CASE CommitInbound(r) \/ CommitBooking(r) \/ SendSms(r) \/ WriteCrm(r)
    BY <1>1, <2>1 DEF CommitInbound, CommitBooking, SendSms, WriteCrm, store,
                      world, JobsFit
  <2>2. CASE AgentAnswers(r) \/ AgentHolds(r)
    <3>1. pc'[r] \in {"crm", "persist"} /\ UNCHANGED <<job, batch>>
      BY <1>1, <2>2 DEF AgentAnswers, AgentHolds, Answer
    <3>2. QED
      BY <3>1 DEF JobsFit
  <2>3. CASE AgentSends(r)
    <3>1. /\ pc'[r] \in {"sms", "crm"} /\ UNCHANGED <<job, batch>>
          /\ \E rt \in RoutesOf(r) : rt.path = "compose"
      BY <1>1, <2>3 DEF AgentSends, Answer
    <3>2. job[r].body \notin OptOuts
      BY <3>1, OptOutsAreNotComposed DEF RoutesOf
    <3>3. QED
      BY <3>1, <3>2 DEF JobsFit
  <2>4. CASE PersistOutreach(r) \/ PersistEmail(r) \/ PersistSimulated(r)
             \/ PersistNothing(r)
    BY <1>1, <2>4 DEF PersistOutreach, PersistEmail, PersistSimulated,
                      PersistNothing, Ready, End, JobsFit
  <2>5. CASE \E l \in Leads : NextLead(r, l)
    <3>1. pc'[r] = "agent"
      BY <1>1, <2>5 DEF NextLead
    <3>2. batch'[r].dirty = batch[r].dirty /\ batch'[r].logged = batch[r].logged
      BY <1>1, <2>5 DEF NextLead
    <3>3. QED
      BY <3>1, <3>2 DEF JobsFit
  <2>6. CASE AfterLead(r)
    <3>1. /\ job[r].kind = "dispatch" /\ job' = job
          /\ pc'[r] \in {"next", "commit"}
      BY <1>1, <2>6 DEF AfterLead, Ready
    <3>2. /\ batch'[r].logged = batch[r].logged \cup {job[r].lead}
          /\ batch'[r].dirty \subseteq batch[r].dirty \cup {job[r].lead}
      BY <1>1, <2>6 DEF AfterLead
    <3>3. QED
      BY <3>1, <3>2 DEF JobsFit
  <2>7. CASE CommitBatch(r)
    BY <1>1, <2>7 DEF CommitBatch, NoBatch
  <2>8. QED
    BY <2>1, <2>2, <2>3, <2>4, <2>5, <2>6, <2>7 DEF Step
<1>4. QED
  BY <1>2, <1>3 DEF JobsFit

-----------------------------------------------------------------------------
(* Causes. *)

\* A flush changes a column only to the new value it was given.
LEMMA FlushFields ==
  ASSUME NEW current \in Row, NEW loaded \in Row, NEW changed \in Row
  PROVE  /\ Flush(current, loaded, changed).state \in {current.state, changed.state}
         /\ \/ Flush(current, loaded, changed).cal = current.cal
            \/ /\ changed.cal # loaded.cal
               /\ Flush(current, loaded, changed).cal = changed.cal
  BY DEF Flush, Row

\* What each handler writes into the two columns.
LEMMA ChangedFields ==
  ASSUME NEW loaded \in Row
  PROVE  /\ Contacted(loaded) \in Row /\ Outreached(loaded) \in Row
         /\ Replied(loaded) \in Row
         /\ Contacted(loaded).state = "contacted"
         /\ Outreached(loaded).state = "contacted"
         /\ Replied(loaded).state = "replied"
         /\ Contacted(loaded).cal = loaded.cal
         /\ Outreached(loaded).cal = loaded.cal
         /\ Replied(loaded).cal = loaded.cal
         /\ \A uid \in CalEvents \cup {NoBooking} :
              /\ Booked(loaded, uid) \in Row
              /\ Booked(loaded, uid).state = "warm"
              /\ Booked(loaded, uid).cal = uid
<1>1. /\ Contacted(loaded) \in Row /\ Outreached(loaded) \in Row
      /\ Replied(loaded) \in Row
      /\ \A uid \in CalEvents \cup {NoBooking} : Booked(loaded, uid) \in Row
  BY ChangesType
<1>2. /\ Contacted(loaded).state = "contacted" /\ Contacted(loaded).cal = loaded.cal
      /\ Replied(loaded).state = "replied" /\ Replied(loaded).cal = loaded.cal
  BY DEF Contacted, Replied, Row
<1>3. Outreached(loaded).state = "contacted" /\ Outreached(loaded).cal = loaded.cal
  BY <1>1, <1>2 DEF Outreached, Row
<1>4. \A uid \in CalEvents \cup {NoBooking} :
        Booked(loaded, uid).state = "warm" /\ Booked(loaded, uid).cal = uid
  BY DEF Booked, Row
<1>5. QED
  BY <1>1, <1>2, <1>3, <1>4

\* The handlers that write state s.
WritersOf(s) ==
  IF s = "contacted" THEN {"start", "dispatch"}
  ELSE IF s = "replied" THEN {"simulate"} ELSE {"cal"}

\* The state and the booking of a lead are as they were, or the step stores the
\* event that explains them.
Explained(l) ==
  /\ \/ row'[l].state = row[l].state
     \/ /\ row'[l].state \in {"contacted", "replied", "warm"}
        /\ \E r \in Requests : /\ <<r, l>> \in events'
                               /\ job'[r].kind \in WritersOf(row'[l].state)
  /\ \/ row'[l].cal = row[l].cal
     \/ /\ row'[l].cal \in CalEvents
        /\ \E r \in Requests : /\ <<r, l>> \in events' /\ job'[r].kind = "cal"
                               /\ job'[r].uid = row'[l].cal

\* Every event keeps its kind, and a booking's event its uid.
EventsKeepJobs ==
  \A r \in Requests, l \in Leads :
    <<r, l>> \in events =>
      /\ <<r, l>> \in events'
      /\ job'[r].kind = job[r].kind
      /\ job[r].kind = "cal" => job'[r].uid = job[r].uid

\* Then every lead's state and booking stay explained.
LEMMA ExplainedKeepsCauses ==
  ASSUME StateHasCause, EventsKeepJobs, \A l \in Leads : Explained(l)
  PROVE  StateHasCause'
<1> SUFFICES ASSUME NEW l \in Leads
             PROVE  /\ row'[l].state = "contacted" => Caused(l, {"start", "dispatch"})'
                    /\ row'[l].state = "replied" => Caused(l, {"simulate"})'
                    /\ row'[l].state = "warm" => Caused(l, {"cal"})'
                    /\ row'[l].cal # NoBooking =>
                         \E r \in Requests : /\ <<r, l>> \in events'
                                             /\ job'[r].kind = "cal"
                                             /\ job'[r].uid = row'[l].cal
    BY DEF StateHasCause
<1>1. /\ row[l].state = "contacted" => Caused(l, {"start", "dispatch"})
      /\ row[l].state = "replied" => Caused(l, {"simulate"})
      /\ row[l].state = "warm" => Caused(l, {"cal"})
      /\ row[l].cal # NoBooking =>
           \E r \in Requests : /\ <<r, l>> \in events /\ job[r].kind = "cal"
                               /\ job[r].uid = row[l].cal
  BY DEF StateHasCause
<1>2. Explained(l)
  OBVIOUS
<1>3. CASE row'[l].state = row[l].state
  BY <1>1, <1>2, <1>3 DEF Explained, EventsKeepJobs, Caused
<1>4. CASE row'[l].state # row[l].state
  BY <1>1, <1>2, <1>4 DEF Explained, EventsKeepJobs, Caused, WritersOf
<1>5. QED
  BY <1>3, <1>4
\* A step of a request keeps what its events and those of others are about.
LEMMA StepKeepsEventJobs ==
  ASSUME TypeInv, JobsFit, NEW r \in Requests, Step(r)
  PROVE  EventsKeepJobs
<1>1. \A q \in Requests : /\ job'[q].kind = job[q].kind
                          /\ job[q].kind = "cal" => job'[q].uid = job[q].uid
  BY StepsAreOwn
<1>2. events \subseteq events'
  BY DEF Step, CommitInbound, CommitBooking, AgentAnswers, AgentHolds, AgentSends,
         SendSms, WriteCrm, PersistOutreach, PersistEmail, PersistSimulated,
         PersistNothing, NextLead, AfterLead, CommitBatch, store
<1>3. QED
  BY <1>1, <1>2 DEF EventsKeepJobs

\* A handler that writes its lead and stores its event explains the change.
LEMMA WritesAreExplained ==
  ASSUME TypeInv, NEW r \in Requests, Working(r), NEW changed \in Row,
         Write(job[r].lead, Loaded(r), changed),
         events' = events \cup {<<r, job[r].lead>>}, UNCHANGED job,
         changed.state \in {"contacted", "replied", "warm"},
         job[r].kind \in WritersOf(changed.state),
         \/ changed.cal = Loaded(r).cal
         \/ job[r].kind = "cal" /\ job[r].uid = changed.cal /\ changed.cal \in CalEvents
  PROVE  \A l \in Leads : Explained(l)
<1> SUFFICES ASSUME NEW l \in Leads PROVE Explained(l)
    OBVIOUS
<1>1. job[r].lead \in Leads /\ Loaded(r) \in Row /\ row \in [Leads -> Row]
  BY DEF TypeInv, TypeOK, SessionsLoaded, Loaded
<1>2. CASE l # job[r].lead
  BY <1>1, <1>2 DEF Write, Explained
<1>3. CASE l = job[r].lead
  <2>1. row'[l] = Flush(row[l], Loaded(r), changed) /\ <<r, l>> \in events'
    BY <1>1, <1>3 DEF Write
  <2>2. /\ row'[l].state \in {row[l].state, changed.state}
        /\ \/ row'[l].cal = row[l].cal
           \/ changed.cal # Loaded(r).cal /\ row'[l].cal = changed.cal
    BY <1>1, <2>1, FlushFields
  <2>3. QED
    BY <2>1, <2>2 DEF Explained
<1>4. QED
  BY <1>2, <1>3

\* Every step explains what it writes.
LEMMA StepsAreExplained ==
  ASSUME TypeInv, JobsFit, NEW r \in Requests, Step(r)
  PROVE  \A l \in Leads : Explained(l)
<1>1. CASE UNCHANGED row
  BY <1>1 DEF Explained
<1>2. ASSUME Working(r)
      PROVE  Loaded(r) \in Row
  BY <1>2 DEF TypeInv, SessionsLoaded, Loaded
<1>3. CASE CommitBooking(r)
  <2>1. /\ Working(r) /\ job[r].kind = "cal" /\ job[r].uid \in CalEvents
        /\ Write(job[r].lead, Loaded(r), Booked(Loaded(r), job[r].uid))
        /\ events' = events \cup {<<r, job[r].lead>>} /\ UNCHANGED job
    BY <1>3 DEF CommitBooking, Working, JobsFit
  <2>2. /\ Booked(Loaded(r), job[r].uid) \in Row
        /\ Booked(Loaded(r), job[r].uid).state = "warm"
        /\ Booked(Loaded(r), job[r].uid).cal = job[r].uid
    BY <1>2, <2>1, ChangedFields
  <2>3. job[r].kind \in WritersOf("warm")
    BY <2>1 DEF WritersOf
  <2>4. QED
    BY <2>1, <2>2, <2>3, WritesAreExplained
<1>4. CASE PersistOutreach(r) /\ ~UNCHANGED row
  <2>1. /\ Working(r) /\ job[r].kind = "start"
        /\ Write(job[r].lead, Loaded(r), Outreached(Loaded(r)))
        /\ events' = events \cup {<<r, job[r].lead>>} /\ UNCHANGED job
    BY <1>4 DEF PersistOutreach, Ready, End, Working, store
  <2>2. /\ Outreached(Loaded(r)) \in Row
        /\ Outreached(Loaded(r)).state = "contacted"
        /\ Outreached(Loaded(r)).cal = Loaded(r).cal
    BY <1>2, <2>1, ChangedFields
  <2>3. job[r].kind \in WritersOf("contacted")
    BY <2>1 DEF WritersOf
  <2>4. QED
    BY <2>1, <2>2, <2>3, WritesAreExplained
<1>5. CASE PersistSimulated(r)
  <2>1. /\ Working(r) /\ job[r].kind = "simulate"
        /\ Write(job[r].lead, Loaded(r), Replied(Loaded(r)))
        /\ events' = events \cup {<<r, job[r].lead>>} /\ UNCHANGED job
    BY <1>5 DEF PersistSimulated, Ready, End, Working
  <2>2. /\ Replied(Loaded(r)) \in Row
        /\ Replied(Loaded(r)).state = "replied"
        /\ Replied(Loaded(r)).cal = Loaded(r).cal
    BY <1>2, <2>1, ChangedFields
  <2>3. job[r].kind \in WritersOf("replied")
    BY <2>1 DEF WritersOf
  <2>4. QED
    BY <2>1, <2>2, <2>3, WritesAreExplained
<1>6. CASE CommitBatch(r)
  <2> SUFFICES ASSUME NEW l \in Leads PROVE Explained(l)
      OBVIOUS
  <2>1. /\ row'[l] = IF l \in batch[r].dirty
                     THEN Flush(row[l], snap[r][l], Contacted(snap[r][l]))
                     ELSE row[l]
        /\ events' = events \cup {<<r, m>> : m \in batch[r].logged}
        /\ UNCHANGED job
    BY <1>6 DEF CommitBatch, world
  <2>2. CASE l \in batch[r].dirty
    <3>1. snap[r][l] \in Row /\ row[l] \in Row
      BY <2>2 DEF TypeInv, TypeOK, SessionsLoaded
    <3>2. /\ row'[l].state \in {row[l].state, "contacted"}
          /\ row'[l].cal = row[l].cal
      BY <2>1, <2>2, <3>1, ChangedFields, FlushFields
    <3>3. /\ <<r, l>> \in events'
          /\ job'[r].kind \in WritersOf("contacted")
      BY <1>6, <2>1, <2>2 DEF CommitBatch, JobsFit, WritersOf
    <3>4. QED
      BY <3>2, <3>3 DEF Explained
  <2>3. QED
    BY <2>1, <2>2 DEF Explained
<1>7. \/ UNCHANGED row \/ CommitBooking(r) \/ PersistOutreach(r)
      \/ PersistSimulated(r) \/ CommitBatch(r)
  BY DEF Step, CommitInbound, AgentAnswers, AgentHolds, AgentSends, SendSms,
         WriteCrm, PersistEmail, PersistNothing, NextLead, AfterLead, store
<1>8. QED
  BY <1>1, <1>3, <1>4, <1>5, <1>6, <1>7

\* An event stored by a step is of a request that has arrived.
LEMMA StepKeepsEventsBegan ==
  ASSUME TypeInv, JobsFit, EventsBegan, NEW r \in Requests, Step(r)
  PROVE  EventsBegan'
<1>1. \A q \in Requests : pc[q] # "idle" => pc'[q] # "idle"
  BY StepsAreOwn
<1>2. pc[r] # "idle"
  BY StepsAreOwn
<1>3. \A q \in Requests, l \in Leads : <<q, l>> \in events' \ events => q = r
  BY DEF Step, CommitInbound, CommitBooking, AgentAnswers, AgentHolds, AgentSends,
         SendSms, WriteCrm, PersistOutreach, PersistEmail, PersistSimulated,
         PersistNothing, NextLead, AfterLead, CommitBatch, store
<1>4. QED
  BY <1>1, <1>2, <1>3 DEF EventsBegan

-----------------------------------------------------------------------------
(* Messages. *)

\* A message goes on following from its request, whatever steps are taken.
LEMMA OldSendsFollow ==
  ASSUME TypeInv, JobsFit, NEW r \in Requests, Step(r), NEW d \in outbox,
         SendFollows(d)
  PROVE  SendFollows(d)'
<1>1. /\ pc \in [Requests -> {"idle", "inbound", "book", "agent", "sms", "crm",
                              "persist", "next", "commit", "done", "lost"}]
      /\ d.req \in Requests
  BY DEF TypeInv, TypeOK
<1>2. timeline \subseteq timeline'
  BY DEF Step, CommitInbound, CommitBooking, AgentAnswers, AgentHolds, AgentSends,
         SendSms, WriteCrm, PersistOutreach, PersistEmail, PersistSimulated,
         PersistNothing, NextLead, AfterLead, CommitBatch, store
<1>3. CASE d.req # r
  <2>1. /\ pc'[d.req] = pc[d.req] /\ job'[d.req] = job[d.req]
        /\ ans'[d.req] = ans[d.req]
    BY <1>1, <1>3, StepsAreOwn
  <2>2. QED
    BY <1>2, <2>1 DEF SendFollows
<1>4. CASE d.req = r
  <2>1. /\ pc[r] \notin {"done", "lost"} /\ pc'[r] # "idle"
        /\ \/ job' = job
           \/ job'[r].kind = "dispatch" /\ job'[r].body = "empty"
    BY StepsAreOwn
  <2>2. job'[r].body \notin OptOuts
    BY <1>4, <2>1 DEF SendFollows, OptOuts
  <2>3. ASSUME d.text, job'[r].kind \in Recording
        PROVE  /\ d.lead = job'[r].lead
               /\ pc'[r] \in {"persist", "done"}
               /\ pc'[r] = "persist" => ans'[r].res = "text"
               /\ pc'[r] = "done" =>
                    [req |-> r, lead |-> d.lead, dir |-> "out"] \in timeline'
    <3>1. job' = job /\ job[r].kind \in Recording
      BY <2>1, <2>3 DEF Recording
    <3>2. /\ d.lead = job[r].lead /\ pc[r] \in {"crm", "persist"}
          /\ ans[r].res = "text"
      BY <1>4, <2>1, <2>3, <3>1 DEF SendFollows
    <3>3. CASE WriteCrm(r)
      BY <1>1, <3>1, <3>2, <3>3 DEF WriteCrm
    <3>4. CASE PersistOutreach(r) \/ PersistEmail(r) \/ PersistSimulated(r)
      <4>1. pc'[r] = "done"
        BY <1>1, <3>4 DEF PersistOutreach, PersistEmail, PersistSimulated, End
      <4>2. Outbound(r) \subseteq timeline'
        BY <3>2, <3>4 DEF PersistOutreach, PersistEmail, PersistSimulated
      <4>3. [req |-> r, lead |-> job[r].lead, dir |-> "out"] \in timeline'
        BY <3>2, <4>2 DEF Outbound
      <4>4. QED
        BY <3>1, <3>2, <4>1, <4>3
    <3>5. ~PersistNothing(r) /\ ~AfterLead(r)
      BY <3>1 DEF PersistNothing, AfterLead, Ready, Recording
    <3>6. QED
      BY <3>2, <3>3, <3>4, <3>5
         DEF Step, CommitInbound, CommitBooking, AgentAnswers, AgentHolds,
             AgentSends, SendSms, NextLead, CommitBatch
  <2>4. QED
    BY <1>4, <2>1, <2>2, <2>3 DEF SendFollows
<1>5. QED
  BY <1>3, <1>4

\* Only an approved draft and an awaited SMS reach a provider.
LEMMA TwoStepsSend ==
  ASSUME NEW r \in Requests, Step(r), outbox' # outbox
  PROVE  SendSms(r) \/ AgentSends(r)
  BY DEF Step, CommitInbound, CommitBooking, AgentAnswers, AgentHolds, WriteCrm,
         PersistOutreach, PersistEmail, PersistSimulated, PersistNothing, End,
         NextLead, AfterLead, CommitBatch, world

\* A message that leaves follows from the text and the answer of its request.
LEMMA NewSendsFollow ==
  ASSUME TypeInv, JobsFit, NEW r \in Requests, Step(r), NEW d \in outbox' \ outbox
  PROVE  SendFollows(d)'
<1>1. /\ pc \in [Requests -> {"idle", "inbound", "book", "agent", "sms", "crm",
                              "persist", "next", "commit", "done", "lost"}]
      /\ ans \in [Requests -> [res : {"pending", "none", "silent", "text"},
                               stage : Stages, to : Addresses]]
  BY DEF TypeInv, TypeOK
<1>2. CASE SendSms(r)
  <2>1. /\ d.req = r /\ d.lead = job[r].lead /\ d.text = (ans[r].res = "text")
        /\ pc'[r] = "crm" /\ UNCHANGED <<job, ans>>
    BY <1>1, <1>2 DEF SendSms, Deliver
  <2>2. job[r].body \notin OptOuts
    BY <1>2 DEF SendSms, JobsFit
  <2>3. QED
    BY <2>1, <2>2 DEF SendFollows
<1>3. CASE AgentSends(r)
  <2>1. PICK rt \in RoutesOf(r), draft \in Drafts(Brief[job[r].lead]) :
          LET to == Target(live, Sink, job[r].chan, Email[job[r].lead],
                           Phone[job[r].lead])
          IN  /\ rt.path = "compose"
              /\ Answer(r, IF draft = "text" THEN "text" ELSE "silent", rt.stage, to,
                        IF job[r].chan = "sms" /\ to # "nobody" THEN "sms" ELSE "crm")
              /\ IF job[r].chan = "email" /\ to # "nobody"
                 THEN Deliver(r, to, draft = "text")
                 ELSE UNCHANGED outbox
    BY <1>3 DEF AgentSends
  <2>2. job[r].chan = "email"
    BY <2>1
  <2>3. /\ d.req = r /\ d.lead = job[r].lead /\ d.text = (draft = "text")
    BY <2>1 DEF Deliver
  <2>4. /\ pc'[r] = "crm"
        /\ ans'[r].res = IF draft = "text" THEN "text" ELSE "silent"
    BY <1>1, <2>1, <2>2 DEF Answer
  <2>5. UNCHANGED job
    BY <1>3 DEF AgentSends
  <2>6. job[r].body \notin OptOuts
    BY <2>1, OptOutsAreNotComposed DEF RoutesOf
  <2>7. QED
    BY <2>3, <2>4, <2>5, <2>6 DEF SendFollows
<1>4. QED
  BY <1>2, <1>3, TwoStepsSend
-----------------------------------------------------------------------------
(* The invariant. *)

\* An arriving call explains nothing yet, and nothing is left of the request.
LEMMA ArrivalKeepsEffectsInv ==
  ASSUME TypeInv, EffectsInv, NEW r \in Requests, Arrive(r)
  PROVE  EffectsInv'
<1>1. /\ pc[r] = "idle"
      /\ \A q \in Requests \ {r} : job'[q] = job[q]
      /\ UNCHANGED <<row, events, timeline, outbox, ans>>
  BY ArrivalsBegin
<1>2. /\ \A q \in Requests \ {r} : pc'[q] = pc[q]
      /\ \A q \in Requests : pc[q] # "idle" => q # r
  <2>1. PICK first \in {"inbound", "book", "agent", "next"} :
          pc' = [pc EXCEPT ![r] = first]
    BY ArrivalsBegin
  <2>2. QED
    BY <1>1, <2>1 DEF TypeInv, TypeOK
<1>3. JobsFit'
  BY ArrivalKeepsJobsFit DEF EffectsInv
<1>4. EventsBegan'
  BY <1>1, <1>2 DEF EffectsInv, EventsBegan
<1>5. StateHasCause'
  <2>1. EventsKeepJobs
    BY <1>1, <1>2 DEF EffectsInv, EventsBegan, EventsKeepJobs
  <2>2. \A l \in Leads : Explained(l)
    BY <1>1 DEF Explained
  <2>3. QED
    BY <2>1, <2>2, ExplainedKeepsCauses DEF EffectsInv
<1>6. SendsFollow'
  <2> SUFFICES ASSUME NEW d \in outbox PROVE SendFollows(d)'
      BY <1>1 DEF SendsFollow
  <2>1. SendFollows(d) /\ d.req \in Requests
    BY DEF EffectsInv, SendsFollow, TypeInv, TypeOK
  <2>2. d.req # r
    BY <1>1, <2>1 DEF SendFollows
  <2>3. pc'[d.req] = pc[d.req] /\ job'[d.req] = job[d.req] /\ ans'[d.req] = ans[d.req]
    BY <1>1, <1>2, <2>1, <2>2
  <2>4. QED
    BY <1>1, <2>1, <2>3 DEF SendFollows
<1>7. QED
  BY <1>3, <1>4, <1>5, <1>6 DEF EffectsInv

\* A step of a request in flight.
LEMMA StepKeepsEffectsInv ==
  ASSUME TypeInv, EffectsInv, NEW r \in Requests, Step(r)
  PROVE  EffectsInv'
<1>1. JobsFit' /\ EventsBegan'
  BY StepKeepsJobsFit, StepKeepsEventsBegan DEF EffectsInv
<1>2. StateHasCause'
  BY StepKeepsEventJobs, StepsAreExplained, ExplainedKeepsCauses DEF EffectsInv
<1>3. SendsFollow'
  BY OldSendsFollow, NewSendsFollow DEF EffectsInv, SendsFollow
<1>4. QED
  BY <1>1, <1>2, <1>3 DEF EffectsInv

\* What a dying process leaves stays explained: its requests are lost for good.
LEMMA KillKeepsEffectsInv ==
  ASSUME TypeInv, EffectsInv, NEW R \in SUBSET InFlight, Kill(R)
  PROVE  EffectsInv'
<1>1. /\ \A r \in Requests : pc'[r] = IF r \in R THEN "lost" ELSE pc[r]
      /\ \A r \in Requests : ans'[r] = IF r \in R THEN NoAnswer ELSE ans[r]
      /\ \A r \in Requests : batch'[r] = IF r \in R THEN NoBatch ELSE batch[r]
      /\ UNCHANGED <<row, events, timeline, outbox, job>>
  BY DEF Kill, store, world
<1>2. NoBatch.dirty = {}
  BY DEF NoBatch
<1>3. JobsFit'
  BY <1>1, <1>2 DEF EffectsInv, JobsFit
<1>4. EventsBegan' /\ StateHasCause'
  BY <1>1 DEF EffectsInv, EventsBegan, StateHasCause, Caused
<1>5. SendsFollow'
  <2> SUFFICES ASSUME NEW d \in outbox PROVE SendFollows(d)'
      BY <1>1 DEF SendsFollow
  <2>1. SendFollows(d) /\ d.req \in Requests
    BY DEF EffectsInv, SendsFollow, TypeInv, TypeOK
  <2>2. QED
    BY <1>1, <2>1 DEF SendFollows
<1>6. QED
  BY <1>3, <1>4, <1>5 DEF EffectsInv

\* At the start there is nothing to explain.
LEMMA InitEstablishesEffectsInv == Init => EffectsInv
<1> SUFFICES ASSUME Init PROVE EffectsInv
    OBVIOUS
<1>1. JobsFit /\ EventsBegan /\ SendsFollow
  BY DEF Init, JobsFit, EventsBegan, SendsFollow, NoBatch
<1>2. StateHasCause
  BY DEF Init, StateHasCause
<1>3. QED
  BY <1>1, <1>2 DEF EffectsInv

\* Every step keeps the effects explained.
LEMMA NextKeepsEffectsInv == TypeInv /\ EffectsInv /\ [Next]_vars => EffectsInv'
<1> SUFFICES ASSUME TypeInv, EffectsInv, [Next]_vars PROVE EffectsInv'
    OBVIOUS
<1>1. ASSUME NEW r \in Requests, Arrive(r) \/ Step(r) PROVE EffectsInv'
  BY <1>1, ArrivalKeepsEffectsInv, StepKeepsEffectsInv
<1>2. CASE CrashServer
  BY <1>2, KillKeepsEffectsInv DEF CrashServer
<1>3. ASSUME NEW r \in Requests, CrashDispatcher(r) PROVE EffectsInv'
  BY <1>3, KillKeepsEffectsInv DEF CrashDispatcher
<1>4. CASE UNCHANGED <<row, events, timeline, outbox, pc, job, ans, batch>>
  BY <1>4 DEF EffectsInv, JobsFit, EventsBegan, StateHasCause, Caused, SendsFollow,
              SendFollows
<1>5. CASE FlipKillSwitch \/ UNCHANGED vars
  BY <1>4, <1>5 DEF FlipKillSwitch, store, vars
<1>6. QED
  BY <1>1, <1>2, <1>3, <1>5 DEF Next

\* Both invariants hold of every behaviour.
LEMMA InvariantsHold == Spec => [](TypeInv /\ EffectsInv)
  BY InitEstablishesTypeInv, StepKeepsTypeInv, InitEstablishesEffectsInv,
     NextKeepsEffectsInv, PTL DEF Spec

-----------------------------------------------------------------------------
(* Theorems. *)

\* However sessions interleave and whichever are lost, a stored event of the
\* handler that writes it explains a lead's state, and one of its booking the
\* lead's booking.
THEOREM StatesAreCaused == Spec => []StateHasCause
<1>1. EffectsInv => StateHasCause
  BY DEF EffectsInv
<1>2. QED
  BY <1>1, InvariantsHold, PTL

\* No message ever leaves in answer to a text that opts out, whatever handler or
\* replay brought the text.
THEOREM OptOutsAreUnanswered == Spec => []OptOutUnanswered
<1>1. EffectsInv => OptOutUnanswered
  BY DEF EffectsInv, SendsFollow, SendFollows, OptOutUnanswered, OptOuts
<1>2. QED
  BY <1>1, InvariantsHold, PTL

\* What a recording call sent is on the timeline once it has returned.
THEOREM SendsAreRecorded == Spec => []SendsAreOnTimeline
<1>1. EffectsInv => SendsAreOnTimeline
  BY DEF EffectsInv, SendsFollow, SendFollows, SendsAreOnTimeline, Recording
<1>2. QED
  BY <1>1, InvariantsHold, PTL

\* No step erases a booking: a session that loaded the lead before it was booked
\* leaves the column alone, for it writes only what it changed.
THEOREM BookingsStay == Spec => BookingSticks
<1> DEFINE Sticks == \A l \in Leads : row[l].cal # NoBooking => row'[l].cal # NoBooking
<1>1. TypeInv /\ EffectsInv /\ [Next]_vars => [Sticks]_vars
  <2> SUFFICES ASSUME TypeInv, EffectsInv, [Next]_vars,
                      NEW l \in Leads, row[l].cal # NoBooking
               PROVE  row'[l].cal # NoBooking
      OBVIOUS
  <2>1. CASE UNCHANGED row
    BY <2>1
  <2>2. ASSUME NEW r \in Requests, Step(r) PROVE row'[l].cal # NoBooking
    BY <2>2, StepsAreExplained, LeadStoreAssumption
       DEF EffectsInv, Explained, LeadStoreAssumption
  <2>3. ASSUME NEW r \in Requests, Arrive(r) PROVE UNCHANGED row
    BY <2>3, ArrivalsBegin
  <2>4. ASSUME CrashServer \/ (\E r \in Requests : CrashDispatcher(r))
               \/ FlipKillSwitch \/ UNCHANGED vars
        PROVE  UNCHANGED row
    BY <2>4 DEF CrashServer, CrashDispatcher, Kill, FlipKillSwitch, store, vars
  <2>5. QED
    BY <2>1, <2>2, <2>3, <2>4 DEF Next
<1>2. QED
  BY <1>1, InvariantsHold, PTL DEF Spec, BookingSticks

\* With a sink configured, no step taken with the switch off addresses a message
\* to a prospect, but for an SMS that was waiting to be sent.
THEOREM SwitchIsObeyed == Spec => SwitchHolds
<1> DEFINE Holds == ~live /\ Sink = "sink" =>
                      \A d \in outbox' \ outbox : d.to = "sink" \/ pc[d.req] = "sms"
<1>1. TypeInv /\ [Next]_vars => [Holds]_vars
  <2> SUFFICES ASSUME TypeInv, [Next]_vars, ~live, Sink = "sink",
                      NEW d \in outbox' \ outbox
               PROVE  d.to = "sink" \/ pc[d.req] = "sms"
      OBVIOUS
  <2>1. ASSUME NEW r \in Requests, Step(r) PROVE d.to = "sink" \/ pc[d.req] = "sms"
    <3>1. CASE SendSms(r)
      BY <3>1 DEF SendSms, Deliver
    <3>2. CASE AgentSends(r)
      <4>1. Target(live, Sink, job[r].chan, Email[job[r].lead], Phone[job[r].lead])
              = "sink"
        BY DEF Target
      <4>2. QED
        BY <3>2, <4>1 DEF AgentSends, Deliver
    <3>3. QED
      BY <2>1, <3>1, <3>2, TwoStepsSend
  <2>2. ASSUME NEW r \in Requests, Arrive(r) PROVE UNCHANGED outbox
    BY <2>2, ArrivalsBegin
  <2>3. ASSUME CrashServer \/ (\E r \in Requests : CrashDispatcher(r))
               \/ FlipKillSwitch \/ UNCHANGED vars
        PROVE  UNCHANGED outbox
    BY <2>3 DEF CrashServer, CrashDispatcher, Kill, FlipKillSwitch, world, vars
  <2>4. QED
    BY <2>1, <2>2, <2>3 DEF Next
<1>2. QED
  BY <1>1, InvariantsHold, PTL DEF Spec, SwitchHolds
=============================================================================
