------------------------- MODULE AgentGraph_proofs -------------------------
(***************************************************************************)
(* Theorems about the conversation graph, for any number of turns, any     *)
(* events, briefs and drafts: the kill switch holds on every path, no     *)
(* turn ends between its send and its record, a drafted reply was          *)
(* reviewed, a thread keeps its turns, and the turns spend their money as  *)
(* the abstract budget guard allows, so that its bound holds of the graph  *)
(* too.                                                                    *)
(*                                                                         *)
(* The second rests on counting supersteps: each node is reached only      *)
(* after a number of them of known parity, because the tool loop takes two *)
(* a round.  The last needs the money recorded to have room in the guard's *)
(* types, which the calls that every turn can still make bound.            *)
(***************************************************************************)
EXTENDS AgentGraph, SetLemmas

Fields ==
  {"event", "brief", "segment", "benchMismatch", "draft", "reply", "destination", "sent"}

Shape ==
  /\ pc \in [Turns -> {"idle"} \cup Nodes \cup Ended]
  /\ steps \in [Turns -> 0..RecursionLimit]
  /\ DOMAIN state = Turns
  /\ \A t \in Turns : DOMAIN state[t] = Fields

Even(n) == \E k \in Nat : n = 2 * k

\* Limits that no turn reaches between its send and its record: 9, 11, 13, ...
OddLimit == RecursionLimit >= 9 /\ Even(RecursionLimit + 1)

\* What a turn sends is forgotten with its state, so only a turn about to persist
\* has sent.
SentInv == OddLimit => \A t \in Turns : pc[t] # "persist" => state[t].sent = None

\* The switch is asked before every send.
DarkInv ==
  ~Live /\ SinkEmail =>
    \A t \in Turns :
      /\ pc[t] = "send_email" => state[t].destination = "staff_sink"
      /\ state[t].sent # None => state[t].sent.to = "staff"

\* The supersteps a turn has taken when it comes to a node.
StepsInv ==
  \A t \in Turns :
    /\ pc[t] = "idle"             => steps[t] = 0
    /\ pc[t] = "enrich"           => steps[t] = 0
    /\ pc[t] = "classify"         => steps[t] = 1
    /\ pc[t] = "check_command"    => steps[t] = 2
    /\ pc[t] = "compose_outbound" => steps[t] = 3
    /\ pc[t] \in {"llm", "calling"} => Even(steps[t])
    /\ pc[t] = "tools"         => Even(steps[t] + 1)
    /\ pc[t] = "policy_review" => steps[t] = 4 \/ Even(steps[t] + 1)
    /\ pc[t] = "kill_switch"   => steps[t] \in {3, 5} \/ Even(steps[t])
    /\ pc[t] = "send_email"    => steps[t] \in {4, 6} \/ Even(steps[t] + 1)
    /\ pc[t] = "persist"       => steps[t] \in {5, 7} \/ Even(steps[t])

Inv == Shape /\ SentInv /\ DarkInv /\ StepsInv

-----------------------------------------------------------------------------

LEMMA EvenStep == \A n \in Nat : Even(n) => Even(n + 1 + 1)
<1> SUFFICES ASSUME NEW n \in Nat, NEW k \in Nat, n = 2 * k
             PROVE  Even(n + 1 + 1)
  BY DEF Even
<1>1. k + 1 \in Nat /\ n + 1 + 1 = 2 * (k + 1)
  OBVIOUS
<1> QED
  BY <1>1 DEF Even

LEMMA FourIsEven == Even(4)
BY DEF Even

LEMMA InitialShape ==
  \A e : DOMAIN InitialState(e) = Fields /\ InitialState(e).sent = None
BY DEF InitialState, Fields

LEMMA InvInit == Init => Inv
BY InitialShape, GraphAssumption
DEF GraphAssumption, Init, Inv, Shape, SentInv, DarkInv, StepsInv, Nodes, Ended

\* What a superstep from one node to the next does to the count.
LEMMA SuperstepCounts ==
  ASSUME Inv, NEW t \in Turns, NEW node, NEW next \in Nodes \cup Ended, Superstep(t, node, next)
  PROVE  /\ pc' \in [Turns -> {"idle"} \cup Nodes \cup Ended]
         /\ steps' \in [Turns -> 0..RecursionLimit]
         /\ pc[t] = node /\ pc'[t] = next /\ steps'[t] = steps[t] + 1
         /\ steps[t] \in Nat /\ steps[t] < RecursionLimit
         /\ \A u \in Turns : u # t => pc'[u] = pc[u] /\ steps'[u] = steps[u]
BY GraphAssumption DEF GraphAssumption, Inv, Shape, Superstep, OutOfSteps

\* A superstep keeps the count in step with the node if its turn does.
LEMMA StepsKept ==
  ASSUME Inv, NEW t \in Turns, NEW node, NEW next \in Nodes \cup Ended, Superstep(t, node, next),
         \/ node = "enrich" /\ next = "classify"
         \/ node = "classify" /\ next = "check_command"
         \/ node = "check_command" /\ next \in {"kill_switch", "compose_outbound"}
         \/ node = "compose_outbound" /\ next \in {"policy_review", "llm"}
         \/ node = "llm" /\ next = "policy_review"
         \/ node = "calling" /\ next \in {"tools", "policy_review"}
         \/ node = "tools" /\ next = "llm"
         \/ node = "policy_review" /\ next = "kill_switch"
         \/ node = "kill_switch" /\ next = "send_email"
         \/ node = "send_email" /\ next = "persist"
         \/ node = "persist" /\ next \in Ended
  PROVE  StepsInv'
<1>1. /\ pc[t] = node /\ pc'[t] = next /\ steps'[t] = steps[t] + 1
      /\ steps[t] \in Nat
      /\ \A u \in Turns : u # t => pc'[u] = pc[u] /\ steps'[u] = steps[u]
  BY SuperstepCounts
<1>2. Even(steps[t]) => Even(steps[t] + 1 + 1)
  BY <1>1, EvenStep
<1> QED
  BY <1>1, <1>2, FourIsEven DEF Inv, StepsInv, Ended

\* A superstep that leaves the destination and what was sent alone.
LEMMA PlainSuperstepKeeps ==
  ASSUME Inv, NEW t \in Turns, NEW node, NEW next \in Nodes \cup Ended, Superstep(t, node, next),
         node # "persist", next \notin {"send_email", "persist"},
         StepsInv',
         DOMAIN state' = Turns, \A u \in Turns : u # t => state'[u] = state[u],
         DOMAIN state'[t] = Fields,
         state'[t].sent = state[t].sent \/ state'[t].sent = None
  PROVE  Inv'
<1>1. /\ pc' \in [Turns -> {"idle"} \cup Nodes \cup Ended]
      /\ steps' \in [Turns -> 0..RecursionLimit]
      /\ pc[t] = node /\ pc'[t] = next
      /\ \A u \in Turns : u # t => pc'[u] = pc[u]
  BY SuperstepCounts
<1>2. Shape'
  BY <1>1 DEF Inv, Shape
<1>3. SentInv'
  BY <1>1 DEF Inv, SentInv
<1>4. DarkInv'
  BY <1>1 DEF Inv, DarkInv
<1> QED
  BY <1>2, <1>3, <1>4 DEF Inv

\* The nodes that change neither state nor more than the messages and the guard.
LEMMA TalkKeeps ==
  ASSUME Inv, NEW t \in Turns, RefuseLlm(t) \/ EndLlm(t) \/ FailLlm(t) \/ Tools(t)
  PROVE  Inv'
<1>1. CASE RefuseLlm(t)
  BY <1>1, StepsKept, PlainSuperstepKeeps DEF RefuseLlm, Inv, Shape, Nodes
<1>2. CASE EndLlm(t)
  <2>1. PICK kind \in Answers :
          Superstep(t, "calling", AfterLlm(kind)) /\ state' = state
    BY <1>2 DEF EndLlm
  <2>2. AfterLlm(kind) \in {"tools", "policy_review"}
    BY DEF AfterLlm, Calls
  <2> QED
    BY <2>1, <2>2, StepsKept, PlainSuperstepKeeps DEF Inv, Shape, Nodes
<1>3. CASE FailLlm(t)
  BY <1>3, StepsKept, PlainSuperstepKeeps DEF FailLlm, Inv, Shape, Nodes
<1>4. CASE Tools(t)
  BY <1>4, StepsKept, PlainSuperstepKeeps DEF Tools, Inv, Shape, Nodes
<1> QED
  BY <1>1, <1>2, <1>3, <1>4

\* What the nodes before the switch write to the state.
LEMMA WriteKeeps ==
  ASSUME Inv, NEW t \in Turns,
         Enrich(t) \/ Classify(t) \/ CheckCommand(t) \/ Compose(t) \/ PolicyReview(t)
  PROVE  Inv'
<1>0. DOMAIN state = Turns /\ DOMAIN state[t] = Fields
  BY DEF Inv, Shape
<1>1. CASE Enrich(t)
  BY <1>0, <1>1, StepsKept, PlainSuperstepKeeps DEF Enrich, Nodes, Fields
<1>2. CASE Classify(t)
  BY <1>0, <1>2, StepsKept, PlainSuperstepKeeps DEF Classify, Nodes, Fields
<1>3. CASE CheckCommand(t)
  <2> DEFINE command == state[t].event.text = "command"
  <2>1. /\ Superstep(t, "check_command", AfterCommand(command))
        /\ state' = IF command THEN [state EXCEPT ![t].reply = "command"] ELSE state
    BY <1>3 DEF CheckCommand
  <2>2. AfterCommand(command) \in {"kill_switch", "compose_outbound"}
    BY DEF AfterCommand
  <2> QED
    BY <1>0, <2>1, <2>2, StepsKept, PlainSuperstepKeeps DEF Nodes, Fields
<1>4. CASE Compose(t)
  <2>1. CASE /\ Superstep(t, "compose_outbound", "policy_review")
             /\ \E draft \in Drafts :
                  state' = [state EXCEPT ![t].draft = draft, ![t].reply = "draft"]
    BY <1>0, <2>1, StepsKept, PlainSuperstepKeeps DEF Nodes, Fields
  <2>2. CASE /\ Superstep(t, "compose_outbound", "llm")
             /\ state' = [state EXCEPT ![t] = InitialState(state[t].event)]
    BY <1>0, <2>2, InitialShape, StepsKept, PlainSuperstepKeeps DEF Nodes
  <2> QED
    BY <1>4, <2>1, <2>2 DEF Compose
<1>5. CASE PolicyReview(t)
  <2>1. Reviewed(state[t]) = state[t] \/ Reviewed(state[t]) = [state[t] EXCEPT !.reply = None]
    BY DEF Reviewed
  <2> QED
    BY <1>0, <1>5, <2>1, StepsKept, PlainSuperstepKeeps DEF PolicyReview, Nodes, Fields
<1> QED
  BY <1>1, <1>2, <1>3, <1>4, <1>5

\* The switch off, every way to the send has the sink for its destination.
LEMMA KillSwitchKeeps ==
  ASSUME Inv, NEW t \in Turns, KillSwitch(t)
  PROVE  Inv'
<1>1. /\ Superstep(t, "kill_switch", "send_email")
      /\ state' = [state EXCEPT ![t].destination = IF Live THEN "prospect" ELSE "staff_sink"]
  BY DEF KillSwitch
<1>2. StepsInv'
  BY <1>1, StepsKept DEF Nodes
<1>3. /\ pc' \in [Turns -> {"idle"} \cup Nodes \cup Ended]
      /\ steps' \in [Turns -> 0..RecursionLimit]
      /\ pc[t] = "kill_switch" /\ pc'[t] = "send_email"
      /\ \A u \in Turns : u # t => pc'[u] = pc[u]
  BY <1>1, SuperstepCounts DEF Nodes
<1>4. /\ DOMAIN state' = Turns /\ DOMAIN state'[t] = Fields
      /\ state'[t].destination = IF Live THEN "prospect" ELSE "staff_sink"
      /\ state'[t].sent = state[t].sent
      /\ \A u \in Turns : u # t => state'[u] = state[u]
  BY <1>1 DEF Inv, Shape, Fields
<1>5. Shape'
  BY <1>3, <1>4 DEF Inv, Shape
<1>6. SentInv' /\ DarkInv'
  BY <1>3, <1>4 DEF Inv, SentInv, DarkInv
<1> QED
  BY <1>2, <1>5, <1>6 DEF Inv

LEMMA SinkEnvelope ==
  \A s : s.destination = "staff_sink" /\ SinkEmail => Envelope(s).to = "staff"
BY DEF Envelope

LEMMA SendKeeps ==
  ASSUME Inv, NEW t \in Turns, SendEmail(t)
  PROVE  Inv'
<1> DEFINE text == Text(t)
           envelope == Envelope(state[t])
           sent == [to |-> envelope.to, channel |-> envelope.channel,
                    kind |-> text.kind, of |-> text.turn]
<1>1. PICK delivered \in BOOLEAN :
        /\ Superstep(t, "send_email", "persist")
        /\ state' = [state EXCEPT ![t].reply = text.kind,
                                  ![t].sent = IF delivered THEN sent ELSE None]
  BY DEF SendEmail
<1>2. StepsInv'
  BY <1>1, StepsKept DEF Nodes
<1>3. /\ pc' \in [Turns -> {"idle"} \cup Nodes \cup Ended]
      /\ steps' \in [Turns -> 0..RecursionLimit]
      /\ pc[t] = "send_email" /\ pc'[t] = "persist"
      /\ \A u \in Turns : u # t => pc'[u] = pc[u]
  BY <1>1, SuperstepCounts DEF Nodes
<1>4. /\ DOMAIN state' = Turns /\ DOMAIN state'[t] = Fields
      /\ state'[t].sent = IF delivered THEN sent ELSE None
      /\ \A u \in Turns : u # t => state'[u] = state[u]
  BY <1>1 DEF Inv, Shape, Fields
<1>5. Shape'
  BY <1>3, <1>4 DEF Inv, Shape
<1>6. SentInv'
  BY <1>3, <1>4 DEF Inv, SentInv
<1>7. DarkInv'
  <2> SUFFICES ASSUME ~Live, SinkEmail
               PROVE  /\ \A u \in Turns : pc'[u] = "send_email" => state'[u].destination = "staff_sink"
                      /\ \A u \in Turns : state'[u].sent # None => state'[u].sent.to = "staff"
    BY DEF DarkInv
  <2>1. sent.to = "staff"
    BY <1>3, SinkEnvelope DEF Inv, DarkInv
  <2> HIDE DEF sent
  <2> QED
    BY <1>3, <1>4, <2>1 DEF Inv, DarkInv
<1> QED
  BY <1>2, <1>5, <1>6, <1>7 DEF Inv

LEMMA PersistKeeps ==
  ASSUME Inv, NEW t \in Turns, Persist(t)
  PROVE  Inv'
<1>1. PICK next \in Ended :
        Superstep(t, "persist", next) /\ state' = [state EXCEPT ![t] = InitialState(None)]
  BY DEF Persist, AfterPersist, Ended
<1>2. StepsInv'
  BY <1>1, StepsKept DEF Ended
<1>3. /\ pc' \in [Turns -> {"idle"} \cup Nodes \cup Ended]
      /\ steps' \in [Turns -> 0..RecursionLimit]
      /\ pc'[t] \in Ended
      /\ \A u \in Turns : u # t => pc'[u] = pc[u]
  BY <1>1, SuperstepCounts DEF Ended
<1>4. /\ DOMAIN state' = Turns /\ DOMAIN state'[t] = Fields
      /\ state'[t].sent = None
      /\ \A u \in Turns : u # t => state'[u] = state[u]
  BY <1>1, InitialShape DEF Inv, Shape
<1>5. Shape' /\ SentInv' /\ DarkInv'
  BY <1>3, <1>4 DEF Inv, Shape, SentInv, DarkInv, Ended
<1> QED
  BY <1>2, <1>5 DEF Inv

\* At an odd limit a turn about to persist may still do so.
LEMMA PersistHasRoom ==
  ASSUME Inv, OddLimit, NEW t \in Turns, pc[t] = "persist"
  PROVE  ~OutOfSteps(t)
<1>1. steps[t] \in 0..RecursionLimit /\ RecursionLimit \in Nat
  BY GraphAssumption DEF GraphAssumption, Inv, Shape
<1>2. steps[t] \in {5, 7} \/ Even(steps[t])
  BY DEF Inv, StepsInv
<1>3. steps[t] # RecursionLimit
  <2>1. CASE steps[t] \in {5, 7}
    BY <1>1, <2>1 DEF OddLimit
  <2>2. CASE Even(steps[t])
    <3>1. PICK k \in Nat : steps[t] = 2 * k
      BY <2>2 DEF Even
    <3>2. PICK m \in Nat : RecursionLimit + 1 = 2 * m
      BY DEF OddLimit, Even
    <3> QED
      BY <1>1, <3>1, <3>2
  <2> QED
    BY <1>2, <2>1, <2>2
<1> QED
  BY <1>1, <1>3 DEF OutOfSteps

LEMMA AbortKeeps ==
  ASSUME Inv, NEW t \in Turns, Abort(t)
  PROVE  Inv'
<1>1. /\ pc' = [pc EXCEPT ![t] = "failed"] /\ UNCHANGED <<steps, state>>
      /\ OutOfSteps(t)
  BY DEF Abort
<1>2. Shape'
  BY <1>1 DEF Inv, Shape, Ended
<1>3. SentInv'
  <2> SUFFICES ASSUME OddLimit, NEW u \in Turns, pc'[u] # "persist"
               PROVE  state'[u].sent = None
    BY DEF SentInv, OddLimit, Even
  <2>1. pc[u] # "persist"
    BY <1>1, PersistHasRoom DEF Inv, Shape
  <2> QED
    BY <1>1, <2>1 DEF Inv, SentInv
<1>4. DarkInv' /\ StepsInv'
  BY <1>1 DEF Inv, Shape, DarkInv, StepsInv
<1> QED
  BY <1>2, <1>3, <1>4 DEF Inv

LEMMA InvStep == Inv /\ [Next]_vars => Inv'
<1> SUFFICES ASSUME Inv, [Next]_vars PROVE Inv'
  OBVIOUS
<1>1. ASSUME NEW t \in Turns, NEW event \in Events[t], Begin(t, event) PROVE Inv'
  <2>1. /\ pc[t] = "idle" /\ pc' = [pc EXCEPT ![t] = "enrich"] /\ steps' = steps
        /\ state' = [state EXCEPT ![t] = InitialState(event)]
    BY <1>1 DEF Begin
  <2>2. /\ DOMAIN state' = Turns /\ DOMAIN state'[t] = Fields /\ state'[t].sent = None
        /\ \A u \in Turns : u # t => state'[u] = state[u]
    BY <2>1, InitialShape DEF Inv, Shape
  <2>3. Shape'
    BY <2>1, <2>2 DEF Inv, Shape, Nodes
  <2>4. SentInv' /\ DarkInv' /\ StepsInv'
    BY <2>1, <2>2 DEF Inv, Shape, SentInv, DarkInv, StepsInv
  <2> QED
    BY <2>3, <2>4 DEF Inv
<1>2. ASSUME NEW t \in Turns, Step(t) PROVE Inv'
  <2>1. CASE StartLlm(t)
    <3>1. /\ pc[t] = "llm" /\ pc' = [pc EXCEPT ![t] = "calling"]
          /\ UNCHANGED <<steps, state>>
      BY <2>1 DEF StartLlm
    <3>2. Shape'
      BY <3>1 DEF Inv, Shape, Nodes
    <3>3. SentInv' /\ DarkInv' /\ StepsInv'
      BY <3>1 DEF Inv, Shape, SentInv, DarkInv, StepsInv
    <3> QED
      BY <3>2, <3>3 DEF Inv
  <2>2. CASE Abort(t)
    BY <2>2, AbortKeeps
  <2> QED
    BY <1>2, <2>1, <2>2, WriteKeeps, TalkKeeps, KillSwitchKeeps, SendKeeps, PersistKeeps DEF Step
<1>3. CASE UNCHANGED <<pc, steps, state>>
  BY <1>3 DEF Inv, Shape, SentInv, DarkInv, StepsInv
<1> QED
  BY <1>1, <1>2, <1>3 DEF Next, Acknowledge, vars

LEMMA InvHolds == Spec => []Inv
BY InvInit, InvStep, PTL DEF Spec

-----------------------------------------------------------------------------

\* For any turns, threads, events, briefs and drafts: with the switch off and a
\* sink that has an address, nothing that leaves the graph reaches a prospect.
THEOREM SwitchedOffMeansSink == Spec => []DarkMeansSink
<1>1. Inv => DarkMeansSink
  BY DEF Inv, DarkInv, DarkMeansSink
<1> QED
  BY <1>1, InvHolds, PTL

\* At any odd recursion limit from 9 on, LangGraph's 25 included, no turn that ends
\* leaves a message out that node_persist has not been run on: a turn that fails
\* has sent nothing, or is one of exactly the limit's length that fails after it.
THEOREM SendsAreRecorded ==
  ASSUME OddLimit
  PROVE  Spec => []SentIsRecorded
<1>1. Inv => SentIsRecorded
  BY DEF Inv, SentInv, SentIsRecorded, Ended
<1> QED
  BY <1>1, InvHolds, PTL

-----------------------------------------------------------------------------
(* Type correctness, and how a step is seen from outside its turn.         *)

Talk == Seq([turn : Turns, kind : Kinds])

\* What one superstep adds to a conversation.
News(t) == {<<>>} \cup {<<Message(t, kind)>> : kind \in Kinds}

\* A step of a turn moves that turn on, adds at most one message to it, which is
\* the thread's new checkpoint then, and touches no other turn.
LEMMA StepForm ==
  ASSUME Inv, NEW t \in Turns, Step(t)
  PROVE  /\ pc[t] \in Nodes
         /\ \E next \in Nodes \cup Ended : pc' = [pc EXCEPT ![t] = next]
         /\ \/ \E new \in News(t) : Append1(t, new)
            \/ UNCHANGED <<messages, saved>>
         /\ UNCHANGED before
<1> USE DEF Nodes, Ended
<1>1. ASSUME NEW node \in Nodes, NEW next \in Nodes \cup Ended, NEW new \in News(t),
             Superstep(t, node, next), Append1(t, new), UNCHANGED before
      PROVE  /\ pc[t] \in Nodes
             /\ \E n \in Nodes \cup Ended : pc' = [pc EXCEPT ![t] = n]
             /\ \E n \in News(t) : Append1(t, n)
  BY <1>1 DEF Superstep
<1>2. <<>> \in News(t) /\ \A kind \in Kinds : <<Message(t, kind)>> \in News(t)
  BY DEF News
<1>3. CASE Enrich(t) \/ Classify(t) \/ PolicyReview(t) \/ KillSwitch(t) \/ Persist(t)
  BY <1>1, <1>2, <1>3 DEF Enrich, Classify, PolicyReview, KillSwitch, Persist, AfterPersist, Checkpoint
<1>4. CASE CheckCommand(t)
  BY <1>1, <1>2, <1>4 DEF CheckCommand, AfterCommand, Checkpoint
<1>5. CASE Compose(t)
  BY <1>1, <1>2, <1>5 DEF Compose, Checkpoint
<1>6. CASE RefuseLlm(t) \/ FailLlm(t) \/ Tools(t)
  BY <1>1, <1>2, <1>6 DEF RefuseLlm, FailLlm, Tools, Kinds, Spoken
<1>7. CASE EndLlm(t)
  BY <1>1, <1>2, <1>7, GraphAssumption
  DEF GraphAssumption, EndLlm, AfterLlm, Kinds, Calls, Spoken
<1>8. CASE SendEmail(t)
  BY <1>1, <1>2, <1>8 DEF SendEmail, Checkpoint
<1>9. CASE StartLlm(t)
  BY <1>9 DEF StartLlm
<1>10. CASE Abort(t)
  BY <1>10 DEF Abort, Running
<1> QED
  BY <1>3, <1>4, <1>5, <1>6, <1>7, <1>8, <1>9, <1>10 DEF Step

TalkTypes ==
  /\ messages \in [Turns -> Talk]
  /\ saved \in [Prospects -> Talk]

\* A conversation with one superstep's news is a conversation.
LEMMA NewsIsTalk ==
  ASSUME NEW t \in Turns, NEW new \in News(t), NEW talk \in Talk
  PROVE  talk \o new \in Talk /\ new \in Talk
<1> DEFINE Entries == [turn : Turns, kind : Kinds]
<1>1. \A kind \in Kinds : Message(t, kind) \in Entries
  BY DEF Message
<1> HIDE DEF Entries
<1>2. new \in Seq(Entries)
  <2>1. <<>> \in Seq(Entries) /\ \A m \in Entries : <<m>> \in Seq(Entries)
    OBVIOUS
  <2> QED
    BY <1>1, <2>1 DEF News
<1>3. talk \in Seq(Entries)
  BY DEF Talk, Entries
<1>4. talk \o new \in Seq(Entries)
  BY <1>2, <1>3
<1> QED
  BY <1>2, <1>4 DEF Talk, Entries

\* So is one that begins with the lead's message.
LEMMA OpeningIsTalk ==
  ASSUME NEW t \in Turns, NEW talk \in Talk
  PROVE  Append(talk, Message(t, "human")) \in Talk
<1> DEFINE Entries == [turn : Turns, kind : Kinds]
<1>1. Message(t, "human") \in Entries
  BY DEF Message, Kinds
<1>2. talk \in Seq(Entries)
  BY DEF Talk
<1> HIDE DEF Entries
<1>3. Append(talk, Message(t, "human")) \in Seq(Entries)
  BY <1>1, <1>2
<1> QED
  BY <1>3 DEF Talk, Entries

LEMMA TalkInit == Init => TalkTypes
BY DEF Init, TalkTypes, Talk

LEMMA TalkStep == Inv /\ TalkTypes /\ [Next]_vars => TalkTypes'
<1> SUFFICES ASSUME Inv, TalkTypes, [Next]_vars
             PROVE  TalkTypes'
  OBVIOUS
<1>0. \A t \in Turns : Thread[t] \in Prospects
  BY GraphAssumption DEF GraphAssumption
<1>1. ASSUME NEW t \in Turns, NEW event \in Events[t], Begin(t, event)
      PROVE  TalkTypes'
  <2> DEFINE talk == Append(Loaded(t), Message(t, "human"))
  <2>1. talk \in Talk
    BY <1>0, OpeningIsTalk DEF TalkTypes, Loaded
  <2>2. /\ messages' = [messages EXCEPT ![t] = talk]
        /\ saved' = [saved EXCEPT ![Thread[t]] = messages'[t]]
    BY <1>1 DEF Begin
  <2> HIDE DEF talk
  <2> QED
    BY <1>0, <2>1, <2>2 DEF TalkTypes
<1>2. ASSUME NEW t \in Turns, Step(t)
      PROVE  TalkTypes'
  <2>1. ASSUME NEW new \in News(t), Append1(t, new)
        PROVE  TalkTypes'
    <3>1. messages[t] \o new \in Talk
      BY <2>1, NewsIsTalk DEF TalkTypes
    <3> QED
      BY <1>0, <2>1, <3>1 DEF TalkTypes, Append1
  <2> QED
    BY <1>2, <2>1, StepForm DEF TalkTypes
<1>3. CASE Acknowledge \/ UNCHANGED vars
  BY <1>3 DEF Acknowledge, vars, TalkTypes
<1> QED
  BY <1>1, <1>2, <1>3 DEF Next

StateTypes ==
  \A t \in Turns :
    /\ state[t].event \in Events[t] \cup {None}
    /\ state[t].brief \in Findings \cup {None}
    /\ state[t].draft \in Drafts \cup {None}
    /\ state[t].destination \in {None, "prospect", "staff_sink"}

GuardTypes == total \in Nat /\ acknowledged \in BOOLEAN

TypeInv == Inv /\ TalkTypes /\ StateTypes /\ GuardTypes

LEMMA InitialFields ==
  \A e : /\ InitialState(e).event = e
         /\ InitialState(e).brief = None /\ InitialState(e).draft = None
         /\ InitialState(e).reply = None /\ InitialState(e).destination = None
         /\ InitialState(e).sent = None
BY DEF InitialState

LEMMA StateTypesStep == Inv /\ StateTypes /\ [Next]_vars => StateTypes'
<1> SUFFICES ASSUME Inv, StateTypes, [Next]_vars
             PROVE  StateTypes'
  OBVIOUS
<1>0. DOMAIN state = Turns /\ \A t \in Turns : DOMAIN state[t] = Fields
  BY DEF Inv, Shape
<1> USE DEF StateTypes, Fields
<1>1. ASSUME NEW t \in Turns, NEW event \in Events[t], Begin(t, event)
      PROVE  StateTypes'
  BY <1>0, <1>1, InitialFields DEF Begin
<1>2. ASSUME NEW t \in Turns, Step(t)
      PROVE  StateTypes'
  <2>1. CASE UNCHANGED state
    BY <2>1
  <2>2. CASE Enrich(t)
    BY <1>0, <2>2 DEF Enrich
  <2>3. CASE Classify(t)
    BY <1>0, <2>3 DEF Classify
  <2>4. CASE CheckCommand(t)
    BY <1>0, <2>1, <2>4 DEF CheckCommand
  <2>5. CASE Compose(t)
    <3>1. CASE \E draft \in Drafts :
                 state' = [state EXCEPT ![t].draft = draft, ![t].reply = "draft"]
      BY <1>0, <3>1
    <3>2. CASE state' = [state EXCEPT ![t] = InitialState(state[t].event)]
      BY <1>0, <3>2, InitialFields
    <3> QED
      BY <2>5, <3>1, <3>2 DEF Compose
  <2>6. CASE PolicyReview(t)
    BY <1>0, <2>6 DEF PolicyReview, Reviewed
  <2>7. CASE KillSwitch(t)
    BY <1>0, <2>7 DEF KillSwitch
  <2>8. CASE SendEmail(t)
    BY <1>0, <2>8 DEF SendEmail
  <2>9. CASE Persist(t)
    BY <1>0, <2>9, InitialFields DEF Persist
  <2> QED
    BY <1>2, <2>1, <2>2, <2>3, <2>4, <2>5, <2>6, <2>7, <2>8, <2>9
    DEF Step, StartLlm, RefuseLlm, EndLlm, FailLlm, Tools, Abort
<1>3. CASE Acknowledge \/ UNCHANGED vars
  BY <1>3 DEF Acknowledge, vars
<1> QED
  BY <1>1, <1>2, <1>3 DEF Next

\* Only an answer of the model is paid for.
LEMMA OnlyAnswersCost ==
  ASSUME NEW t \in Turns, Step(t)
  PROVE  /\ acknowledged' = acknowledged
         /\ total' = total \/ EndLlm(t)
BY DEF Step, Enrich, Classify, CheckCommand, Compose, StartLlm, RefuseLlm, FailLlm, Tools,
   PolicyReview, KillSwitch, SendEmail, Persist, Abort, guard, EndLlm

LEMMA GuardTypesStep == GuardTypes /\ [Next]_vars => GuardTypes'
<1> SUFFICES ASSUME GuardTypes, [Next]_vars
             PROVE  GuardTypes'
  OBVIOUS
<1>1. ASSUME NEW t \in Turns, EndLlm(t)
      PROVE  GuardTypes'
  BY <1>1, GraphAssumption DEF GraphAssumption, EndLlm, GuardTypes
<1>2. ASSUME NEW t \in Turns, Step(t)
      PROVE  GuardTypes'
  BY <1>1, <1>2, OnlyAnswersCost DEF GuardTypes
<1>3. ASSUME NEW t \in Turns, NEW event \in Events[t], Begin(t, event)
      PROVE  GuardTypes'
  BY <1>3 DEF Begin, guard, GuardTypes
<1> QED
  BY <1>2, <1>3 DEF Next, Acknowledge, vars, guard, GuardTypes

LEMMA TypeInvHolds == Spec => []TypeInv
<1>1. Init => TypeInv
  <2>1. Init => StateTypes
    <3>1. Init => \A t \in Turns : state[t] = InitialState(None)
      BY DEF Init
    <3> QED
      BY <3>1, InitialFields DEF StateTypes
  <2>2. Init => GuardTypes
    <3>1. Init => total \in Nat
      BY DEF Init
    <3>2. Init => acknowledged \in BOOLEAN
      BY Zenon DEF Init
    <3> QED
      BY <3>1, <3>2 DEF GuardTypes
  <2> QED
    BY <2>1, <2>2, InvInit, TalkInit DEF TypeInv
<1>2. TypeInv /\ [Next]_vars => TypeInv'
  BY InvStep, TalkStep, StateTypesStep, GuardTypesStep DEF TypeInv
<1> QED
  BY <1>1, <1>2, PTL DEF Spec

\* Every variable keeps its type, whatever the model, the tools and the senders
\* answer; a conversation holds messages of the graph's turns only.
THEOREM GraphTypes == Spec => []TypeOK
<1>1. TypeInv => TypeOK
  BY DEF TypeInv, Inv, Shape, TalkTypes, Talk, StateTypes, GuardTypes, TypeOK
<1> QED
  BY <1>1, TypeInvHolds, PTL

-----------------------------------------------------------------------------
(* A draft that leaves has passed the review. *)

\* What DraftsReviewed asks of the state of a turn that has sent its draft.
Sound(s) ==
  /\ "we have capacity" \in s.draft.body => ~s.benchMismatch
  /\ "aggressive hiring" \in s.draft.body => s.brief.posts # None /\ s.brief.posts >= 5
  /\ "gap" \in s.draft.body /\ s.brief.gap # None => s.brief.gap.confidences # {"low"}
  /\ s.draft.flaws <= 2
  /\ s.event.channel = "email"

\* The nodes from which no reply is sent without another node writing one.
Unanswered ==
  {"idle", "enrich", "classify", "check_command", "compose_outbound", "llm", "calling",
   "tools", "done"}

Drafted(s) == s.reply # None /\ s.reply = "draft"

\* A drafted reply stems from a brief; past the review it is sound, and a turn
\* sends on the way to persist only, where its state is what was reviewed.
TurnIsSound(t, node, s) ==
  /\ node \notin {"idle", "done", "failed"} => s.event \in Events[t]
  /\ node \in Unanswered => s.reply = None
  /\ node = "policy_review" /\ Drafted(s) => s.brief # None /\ s.draft \in Drafts
  /\ node \in {"kill_switch", "send_email"} /\ Drafted(s) => Sound(s)
  /\ node \notin {"persist", "failed"} => s.sent = None
  /\ s.sent # None /\ s.sent.kind = "draft" => Sound(s)

DraftInv == \A t \in Turns : TurnIsSound(t, pc[t], state[t])

\* The gates the graph's policy consults, on what the graph's state has of them.
LEMMA AllowedIsSound ==
  ASSUME NEW t \in Turns, NEW s, s.event \in Events[t], s.brief # None, s.draft \in Drafts,
         Review(ProposedAction(s), PolicyState(s)).allowed
  PROVE  Sound(s)
<1> DEFINE action == ProposedAction(s)
           known == PolicyState(s)
<1>1. RewriteGates(action, known) /\ ChannelGate(action, known)
  BY DEF Review
<1>2. /\ action.type \in Sends /\ action.channel = s.event.channel
      /\ action.body = s.draft.body /\ action.flaws = s.draft.flaws
  BY DEF ProposedAction, Sends
<1>3. /\ known.posts = s.brief.posts /\ known.gap = s.brief.gap
      /\ known.benchMismatch = s.benchMismatch
      /\ known.askedForSms = FALSE /\ known.replies = 0
  BY DEF PolicyState
<1> HIDE DEF action, known
<1>4. s.event.channel = "email"
  BY <1>1, <1>2, <1>3, GraphAssumption DEF GraphAssumption, ChannelGate
<1>5. s.draft.flaws <= 2
  <2>1. s.draft.flaws \in Nat /\ TonePasses(s.draft.flaws)
    BY <1>1, <1>2, GraphAssumption DEF GraphAssumption, RewriteGates, ToneGate
  <2> QED
    BY <2>1 DEF TonePasses, ToneScore
<1>6. "aggressive hiring" \in s.draft.body => s.brief.posts # None /\ s.brief.posts >= 5
  BY <1>1, <1>2, <1>3 DEF RewriteGates, EvidenceGate, HiringIsAggressive
<1>7. "gap" \in s.draft.body /\ s.brief.gap # None => s.brief.gap.confidences # {"low"}
  BY <1>1, <1>2, <1>3 DEF RewriteGates, GapGate, GapLanguage
<1>8. "we have capacity" \in s.draft.body => ~s.benchMismatch
  BY <1>1, <1>2, <1>3 DEF RewriteGates, BenchGate
<1> QED
  BY <1>4, <1>5, <1>6, <1>7, <1>8 DEF Sound

\* What is sent in want of a reply is no draft.
LEMMA SpokenIsNoDraft ==
  ASSUME TalkTypes, NEW t \in Turns, state[t].reply = None
  PROVE  Text(t).kind # "draft"
<1> DEFINE spoken == {i \in DOMAIN messages[t] : messages[t][i].kind \in Spoken}
<1>1. messages[t] \in Talk
  BY DEF TalkTypes
<1>2. Len(messages[t]) \in Nat /\ DOMAIN messages[t] = 1..Len(messages[t])
  BY <1>1 DEF Talk
<1>3. CASE spoken # {}
  <2>1. spoken \in SUBSET (0..Len(messages[t]))
    BY <1>2
  <2>2. Max(spoken) \in spoken
    <3> HIDE DEF spoken
    <3> QED
      BY <1>2, <1>3, <2>1, GreatestIsMember
  <2>3. messages[t][Max(spoken)].kind \in Spoken
    BY <2>2
  <2>4. Text(t) = messages[t][Max(spoken)]
    BY <1>3 DEF Text
  <2> QED
    BY <2>3, <2>4 DEF Spoken
<1>4. CASE spoken = {}
  <2>1. Text(t) = Message(t, "generic")
    BY <1>4 DEF Text
  <2> QED
    BY <2>1 DEF Message
<1> QED
  BY <1>3, <1>4

\* Only the turn that moves is to be looked at.
LEMMA TurnMoves ==
  ASSUME Inv, DraftInv, NEW t \in Turns, NEW next, pc' = [pc EXCEPT ![t] = next],
         \A u \in Turns \ {t} : state'[u] = state[u],
         TurnIsSound(t, next, state'[t])
  PROVE  DraftInv'
<1>1. ASSUME NEW u \in Turns
      PROVE  TurnIsSound(u, pc'[u], state'[u])
  <2>1. CASE u = t
    BY <2>1 DEF Inv, Shape
  <2>2. CASE u # t
    BY <2>2 DEF Inv, Shape, DraftInv
  <2> QED
    BY <2>1, <2>2
<1> QED
  BY <1>1 DEF DraftInv, TurnIsSound, Drafted, Sound

LEMMA DraftInvStep == TypeInv /\ DraftInv /\ [Next]_vars => DraftInv'
<1> SUFFICES ASSUME TypeInv, DraftInv, [Next]_vars
             PROVE  DraftInv'
  OBVIOUS
<1>0. /\ Inv /\ TalkTypes
      /\ DOMAIN state = Turns /\ \A t \in Turns : DOMAIN state[t] = Fields
  BY DEF TypeInv, Inv, Shape
<1>u. \A t \in Turns : TurnIsSound(t, pc[t], state[t])
  BY DEF DraftInv
<1>1. ASSUME NEW t \in Turns, NEW event \in Events[t], Begin(t, event)
      PROVE  DraftInv'
  <2>1. /\ pc' = [pc EXCEPT ![t] = "enrich"]
        /\ state' = [state EXCEPT ![t] = InitialState(event)]
    BY <1>1 DEF Begin
  <2>2. TurnIsSound(t, "enrich", InitialState(event))
    BY InitialFields DEF TurnIsSound, Drafted, Unanswered
  <2> QED
    BY <1>0, <2>1, <2>2, TurnMoves
<1>2. ASSUME NEW t \in Turns,
             Enrich(t) \/ Classify(t) \/ StartLlm(t) \/ RefuseLlm(t) \/ EndLlm(t)
               \/ FailLlm(t) \/ Tools(t)
      PROVE  DraftInv'
  <2>1. PICK next \in {"classify", "check_command", "calling", "policy_review", "tools", "llm"} :
             pc' = [pc EXCEPT ![t] = next]
    BY <1>2 DEF Enrich, Classify, StartLlm, RefuseLlm, EndLlm, FailLlm, Tools, Superstep, AfterLlm
  <2>2. pc[t] \in {"enrich", "classify", "llm", "calling", "tools"}
    BY <1>2 DEF Enrich, Classify, StartLlm, RefuseLlm, EndLlm, FailLlm, Tools, Superstep
  <2>3. /\ \A u \in Turns \ {t} : state'[u] = state[u]
        /\ state'[t].reply = state[t].reply /\ state'[t].sent = state[t].sent
        /\ state'[t].event = state[t].event
    BY <1>0, <1>2
    DEF Enrich, Classify, StartLlm, RefuseLlm, EndLlm, FailLlm, Tools, Fields
  <2>4. state[t].reply = None /\ state[t].sent = None /\ state[t].event \in Events[t]
    BY <1>u, <2>2 DEF TurnIsSound, Unanswered
  <2>5. TurnIsSound(t, next, state'[t])
    BY <2>1, <2>3, <2>4 DEF TurnIsSound, Drafted, Unanswered
  <2> QED
    BY <1>0, <2>1, <2>3, <2>5, TurnMoves
<1>3. ASSUME NEW t \in Turns, CheckCommand(t)
      PROVE  DraftInv'
  <2>1. pc[t] = "check_command"
    BY <1>3 DEF CheckCommand, Superstep
  <2>2. state[t].reply = None /\ state[t].sent = None /\ state[t].event \in Events[t]
    BY <1>u, <2>1 DEF TurnIsSound, Unanswered
  <2>3. CASE /\ pc' = [pc EXCEPT ![t] = "kill_switch"]
             /\ state' = [state EXCEPT ![t].reply = "command"]
    <3>1. /\ state'[t].reply = "command" /\ state'[t].sent = None
          /\ state'[t].event \in Events[t]
      BY <1>0, <2>2, <2>3 DEF Fields
    <3>2. TurnIsSound(t, "kill_switch", state'[t])
      BY <3>1 DEF TurnIsSound, Drafted, Unanswered
    <3> QED
      BY <1>0, <2>3, <3>2, TurnMoves
  <2>4. CASE pc' = [pc EXCEPT ![t] = "compose_outbound"] /\ state' = state
    <3>1. TurnIsSound(t, "compose_outbound", state'[t])
      BY <2>2, <2>4 DEF TurnIsSound, Drafted, Unanswered
    <3> QED
      BY <1>0, <2>4, <3>1, TurnMoves
  <2> QED
    BY <1>3, <2>3, <2>4 DEF CheckCommand, AfterCommand, Superstep
<1>4. ASSUME NEW t \in Turns, Compose(t)
      PROVE  DraftInv'
  <2>1. pc[t] = "compose_outbound"
    BY <1>4 DEF Compose, Superstep
  <2>2. state[t].sent = None /\ state[t].event \in Events[t]
    BY <1>u, <2>1 DEF TurnIsSound
  <2>3. ASSUME pc' = [pc EXCEPT ![t] = "policy_review"], state[t].brief # None,
               NEW draft \in Drafts,
               state' = [state EXCEPT ![t].draft = draft, ![t].reply = "draft"]
        PROVE  DraftInv'
    <3>1. /\ state'[t].draft = draft /\ state'[t].brief # None
          /\ state'[t].sent = None /\ state'[t].event \in Events[t]
      BY <1>0, <2>2, <2>3 DEF Fields
    <3>2. TurnIsSound(t, "policy_review", state'[t])
      BY <3>1 DEF TurnIsSound, Unanswered
    <3> QED
      BY <1>0, <2>3, <3>2, TurnMoves
  <2>4. CASE /\ pc' = [pc EXCEPT ![t] = "llm"]
             /\ state' = [state EXCEPT ![t] = InitialState(state[t].event)]
    <3>1. TurnIsSound(t, "llm", InitialState(state[t].event))
      BY <2>2, InitialFields DEF TurnIsSound, Drafted, Unanswered
    <3> QED
      BY <1>0, <2>4, <3>1, TurnMoves
  <2> QED
    BY <1>4, <2>3, <2>4 DEF Compose, Superstep
<1>5. ASSUME NEW t \in Turns, PolicyReview(t)
      PROVE  DraftInv'
  <2>1. /\ pc[t] = "policy_review" /\ pc' = [pc EXCEPT ![t] = "kill_switch"]
        /\ state' = [state EXCEPT ![t] = Reviewed(state[t])]
    BY <1>5 DEF PolicyReview, Superstep
  <2>2. TurnIsSound(t, "policy_review", state[t])
    BY <1>u, <2>1
  <2>3. TurnIsSound(t, "kill_switch", Reviewed(state[t]))
    <3>1. CASE state[t].reply # None /\ Review(ProposedAction(state[t]), PolicyState(state[t])).allowed
      <4>1. Reviewed(state[t]) = state[t]
        BY <3>1 DEF Reviewed
      <4>2. Drafted(state[t]) => Sound(state[t])
        BY <2>2, <3>1, AllowedIsSound DEF TurnIsSound
      <4> QED
        BY <2>2, <4>1, <4>2 DEF TurnIsSound, Unanswered
    <3>2. CASE state[t].reply = None
      <4>1. Reviewed(state[t]) = state[t]
        BY <3>2 DEF Reviewed
      <4> QED
        BY <2>2, <3>2, <4>1 DEF TurnIsSound, Drafted, Unanswered
    <3>3. CASE /\ state[t].reply # None
               /\ ~Review(ProposedAction(state[t]), PolicyState(state[t])).allowed
      <4>1. Reviewed(state[t]) = [state[t] EXCEPT !.reply = None]
        BY <3>3 DEF Reviewed
      <4>2. /\ Reviewed(state[t]).reply = None
            /\ Reviewed(state[t]).event = state[t].event
            /\ Reviewed(state[t]).sent = state[t].sent
        BY <1>0, <4>1 DEF Fields
      <4> QED
        BY <2>2, <4>2 DEF TurnIsSound, Drafted, Unanswered
    <3> QED
      BY <3>1, <3>2, <3>3
  <2> QED
    BY <1>0, <2>1, <2>3, TurnMoves
<1>6. ASSUME NEW t \in Turns, KillSwitch(t)
      PROVE  DraftInv'
  <2> DEFINE place == IF Live THEN "prospect" ELSE "staff_sink"
  <2>1. /\ pc[t] = "kill_switch" /\ pc' = [pc EXCEPT ![t] = "send_email"]
        /\ state' = [state EXCEPT ![t].destination = place]
    BY <1>6 DEF KillSwitch, Superstep
  <2>2. TurnIsSound(t, "kill_switch", state[t])
    BY <1>u, <2>1
  <2>3. /\ \A f \in Fields \ {"destination"} : state'[t][f] = state[t][f]
        /\ \A u \in Turns \ {t} : state'[u] = state[u]
    BY <1>0, <2>1
  <2>4. TurnIsSound(t, "send_email", state'[t])
    <3>1. /\ state'[t].event = state[t].event /\ state'[t].brief = state[t].brief
          /\ state'[t].benchMismatch = state[t].benchMismatch
          /\ state'[t].draft = state[t].draft /\ state'[t].reply = state[t].reply
          /\ state'[t].sent = state[t].sent
      BY <2>3 DEF Fields
    <3> QED
      BY <2>2, <3>1 DEF TurnIsSound, Drafted, Unanswered, Sound
  <2> QED
    BY <1>0, <2>1, <2>3, <2>4, TurnMoves
<1>7. ASSUME NEW t \in Turns, SendEmail(t)
      PROVE  DraftInv'
  <2> DEFINE text == Text(t)
             envelope == Envelope(state[t])
             sent == [to |-> envelope.to, channel |-> envelope.channel,
                      kind |-> text.kind, of |-> text.turn]
  <2>1. /\ pc[t] = "send_email" /\ pc' = [pc EXCEPT ![t] = "persist"]
        /\ \E delivered \in BOOLEAN :
             state' = [state EXCEPT ![t].reply = text.kind,
                                    ![t].sent = IF delivered THEN sent ELSE None]
    BY <1>7 DEF SendEmail, Superstep
  <2>2. TurnIsSound(t, "send_email", state[t])
    BY <1>u, <2>1
  <2>3. text.kind = "draft" => Sound(state[t])
    <3>1. state[t].reply # None => text.kind = state[t].reply
      BY DEF Text, Message
    <3> QED
      BY <1>0, <2>2, <3>1, SpokenIsNoDraft DEF Drafted, TurnIsSound
  <2>4. sent.kind = text.kind
    OBVIOUS
  <2> HIDE DEF text, envelope, sent
  <2>5. /\ state'[t].event = state[t].event /\ state'[t].brief = state[t].brief
        /\ state'[t].benchMismatch = state[t].benchMismatch
        /\ state'[t].draft = state[t].draft
        /\ state'[t].sent \in {sent, None}
        /\ \A u \in Turns \ {t} : state'[u] = state[u]
    BY <1>0, <2>1 DEF Fields
  <2>6. TurnIsSound(t, "persist", state'[t])
    BY <2>2, <2>3, <2>4, <2>5 DEF TurnIsSound, Unanswered, Sound
  <2> QED
    BY <1>0, <2>1, <2>5, <2>6, TurnMoves
<1>8. ASSUME NEW t \in Turns, Persist(t)
      PROVE  DraftInv'
  <2>1. PICK next \in Ended :
          /\ pc' = [pc EXCEPT ![t] = next]
          /\ state' = [state EXCEPT ![t] = InitialState(None)]
    BY <1>8 DEF Persist, AfterPersist, Superstep, Ended
  <2>2. TurnIsSound(t, next, InitialState(None))
    BY InitialFields DEF TurnIsSound, Drafted, Ended
  <2> QED
    BY <1>0, <2>1, <2>2, TurnMoves
<1>9. ASSUME NEW t \in Turns, Abort(t)
      PROVE  DraftInv'
  <2>1. /\ pc[t] \in Nodes /\ pc' = [pc EXCEPT ![t] = "failed"] /\ state' = state
    BY <1>9 DEF Abort, Running
  <2>2. TurnIsSound(t, "failed", state'[t])
    BY <1>u, <2>1 DEF TurnIsSound, Unanswered, Nodes
  <2> QED
    BY <1>0, <2>1, <2>2, TurnMoves
<1>10. CASE UNCHANGED <<pc, state>>
  BY <1>u, <1>10 DEF DraftInv, TurnIsSound, Drafted, Sound
<1> QED
  BY <1>1, <1>2, <1>3, <1>4, <1>5, <1>6, <1>7, <1>8, <1>9, <1>10
  DEF Next, Step, Acknowledge, vars

\* For any briefs, drafts and turns, whatever the turns of a thread have said
\* before: what leaves the graph as a draft has passed the gates of the policy, on
\* the brief and the events of the very turn that sends it.
THEOREM DraftsAreReviewed == Spec => []DraftsReviewed
<1>1. Init => DraftInv
  BY InitialFields DEF Init, DraftInv, TurnIsSound, Drafted, Unanswered
<1>2. TypeInv /\ DraftInv /\ [Next]_vars => DraftInv'
  BY DraftInvStep
<1>3. DraftInv => DraftsReviewed
  BY DEF DraftInv, TurnIsSound, DraftsReviewed, Sound
<1> QED
  BY <1>1, <1>2, <1>3, TypeInvHolds, PTL DEF Spec

-----------------------------------------------------------------------------
(* A thread keeps what was said in it. *)

LEMMA PrefixMeans ==
  ASSUME NEW S, NEW s \in Seq(S), NEW u \in Seq(S)
  PROVE  IsPrefix(s, u) <=> Len(s) <= Len(u) /\ \A i \in 1..Len(s) : s[i] = u[i]
<1>1. ASSUME Len(s) <= Len(u)
      PROVE  SubSeq(s, 1, Len(s)) = SubSeq(u, 1, Len(s)) <=> \A i \in 1..Len(s) : s[i] = u[i]
  <2>1. /\ Len(SubSeq(s, 1, Len(s))) = Len(s) /\ Len(SubSeq(u, 1, Len(s))) = Len(s)
        /\ \A i \in 1..Len(s) : SubSeq(s, 1, Len(s))[i] = s[i] /\ SubSeq(u, 1, Len(s))[i] = u[i]
        /\ SubSeq(s, 1, Len(s)) \in Seq(S) /\ SubSeq(u, 1, Len(s)) \in Seq(S)
    BY <1>1
  <2> QED
    BY <2>1
<1> QED
  BY <1>1 DEF IsPrefix

\* What a conversation begins with it goes on beginning with.
LEMMA PrefixGrows ==
  ASSUME NEW S, NEW s \in Seq(S), NEW u \in Seq(S), NEW new \in Seq(S), IsPrefix(s, u)
  PROVE  IsPrefix(s, u \o new)
<1>1. /\ u \o new \in Seq(S) /\ Len(u \o new) = Len(u) + Len(new)
      /\ \A i \in 1..Len(u) : (u \o new)[i] = u[i]
      /\ Len(s) \in Nat /\ Len(u) \in Nat /\ Len(new) \in Nat
  OBVIOUS
<1>2. Len(s) <= Len(u) /\ \A i \in 1..Len(s) : s[i] = u[i]
  BY PrefixMeans
<1>3. Len(s) <= Len(u \o new) /\ \A i \in 1..Len(s) : s[i] = (u \o new)[i]
  BY <1>1, <1>2
<1> QED
  BY <1>1, <1>3, PrefixMeans

LEMMA PrefixOfItself ==
  ASSUME NEW S, NEW s \in Seq(S)
  PROVE  IsPrefix(s, s)
BY PrefixMeans

\* No turn overlaps this one.
Alone(t) == \A v \in Turns : ~Overlap(t, v)

\* A turn begins after turns that have ended; what a turn that was alone in its
\* thread has said stays at the head of the checkpoint, and of what follows it.
ThreadInv ==
  /\ before \in [Turns -> SUBSET Turns]
  /\ \A t, u \in Turns : t \in before[u] => pc[t] \in Ended /\ pc[u] # "idle"
  /\ \A t \in Turns : pc[t] # "idle" /\ Alone(t) => IsPrefix(messages[t], saved[Thread[t]])
  /\ ThreadKeepsTurns

\* What is said in a running turn's thread follows what a turn alone in it said.
LEMMA RunsAfter ==
  ASSUME Inv, ThreadInv, NEW t \in Turns, NEW v \in Turns, Thread[v] = Thread[t],
         pc[t] # "idle", Alone(t), pc[v] \in Nodes, v # t
  PROVE  t \in before[v] /\ IsPrefix(messages[t], messages[v])
<1>1. pc[v] # "idle" /\ pc[v] \notin Ended
  BY DEF Nodes, Ended
<1>2. t \in before[v] \/ v \in before[t]
  BY <1>1 DEF Alone, Overlap
<1>3. t \in before[v]
  BY <1>1, <1>2 DEF ThreadInv
<1>4. \A w \in Turns : ~Overlap(t, w)
  BY DEF Alone
<1> QED
  BY <1>3, <1>4 DEF ThreadInv, ThreadKeepsTurns

\* The steps that say nothing.
LEMMA SilentKeepsThread ==
  ASSUME ThreadInv, UNCHANGED <<messages, saved, before>>,
         \A t \in Turns : /\ pc'[t] = "idle" <=> pc[t] = "idle"
                          /\ pc[t] \in Ended => pc'[t] \in Ended
  PROVE  ThreadInv'
BY DEF ThreadInv, ThreadKeepsTurns, Alone, Overlap

\* A turn that goes on talking.
LEMMA TalkKeepsThread ==
  ASSUME Inv, TalkTypes, ThreadInv, NEW t \in Turns, NEW new \in News(t), Append1(t, new),
         UNCHANGED before, pc[t] \in Nodes,
         NEW next \in Nodes \cup Ended, pc' = [pc EXCEPT ![t] = next]
  PROVE  ThreadInv'
<1> DEFINE Entries == [turn : Turns, kind : Kinds]
<1>1. /\ messages \in [Turns -> Seq(Entries)] /\ saved \in [Prospects -> Seq(Entries)]
      /\ new \in Seq(Entries) /\ Thread \in [Turns -> Prospects]
  BY NewsIsTalk, GraphAssumption DEF GraphAssumption, TalkTypes, Talk
<1> HIDE DEF Entries
<1>2. /\ \A u \in Turns : messages'[u] = IF u = t THEN messages[t] \o new ELSE messages[u]
      /\ \A p \in Prospects : saved'[p] = IF p = Thread[t] THEN messages[t] \o new ELSE saved[p]
  BY <1>1 DEF Append1
<1>3. /\ \A u \in Turns : pc'[u] = IF u = t THEN next ELSE pc[u]
      /\ pc[t] # "idle" /\ pc[t] \notin Ended /\ next # "idle"
  BY DEF Inv, Shape, Nodes, Ended
<1>4. \A u, v \in Turns : Overlap(u, v)' <=> Overlap(u, v)
  BY <1>3 DEF Overlap
<1>5. \A u, v \in Turns : u \in before'[v] => pc'[u] \in Ended /\ pc'[v] # "idle"
  BY <1>3 DEF ThreadInv
<1>6. ASSUME NEW u \in Turns, pc'[u] # "idle", Alone(u)'
      PROVE  IsPrefix(messages'[u], saved'[Thread[u]])
  <2>1. pc[u] # "idle" /\ Alone(u)
    BY <1>3, <1>4, <1>6 DEF Alone
  <2>2. CASE u = t
    <3>1. messages[t] \o new \in Seq(Entries)
      BY <1>1
    <3> QED
      BY <1>1, <1>2, <2>2, <3>1, PrefixOfItself
  <2>3. CASE u # t /\ Thread[u] = Thread[t]
    <3>1. IsPrefix(messages[u], messages[t])
      BY <2>1, <2>3, RunsAfter
    <3>2. IsPrefix(messages[u], messages[t] \o new)
      BY <1>1, <3>1, PrefixGrows
    <3> QED
      BY <1>1, <1>2, <2>3, <3>2
  <2>4. CASE Thread[u] # Thread[t]
    <3>1. IsPrefix(messages[u], saved[Thread[u]])
      BY <2>1 DEF ThreadInv
    <3> QED
      BY <1>1, <1>2, <2>4, <3>1
  <2> QED
    BY <2>2, <2>3, <2>4
<1>7. ASSUME NEW u \in Turns, NEW v \in Turns, Thread[u] = Thread[v], u \in before[v],
             \A w \in Turns : ~Overlap(u, w)'
      PROVE  IsPrefix(messages'[u], messages'[v])
  <2>1. IsPrefix(messages[u], messages[v])
    BY <1>4, <1>7 DEF ThreadInv, ThreadKeepsTurns
  <2>2. u # t
    BY <1>3, <1>7 DEF ThreadInv
  <2>3. CASE v = t
    BY <1>1, <1>2, <2>1, <2>2, <2>3, PrefixGrows
  <2>4. CASE v # t
    BY <1>2, <2>1, <2>2, <2>4
  <2> QED
    BY <2>3, <2>4
<1> QED
  BY <1>5, <1>6, <1>7 DEF ThreadInv, ThreadKeepsTurns

\* A turn that begins takes up its thread's checkpoint, and overlaps whoever runs.
LEMMA BeginKeepsThread ==
  ASSUME Inv, TalkTypes, ThreadInv, NEW t \in Turns, NEW event \in Events[t], Begin(t, event)
  PROVE  ThreadInv'
<1> DEFINE Entries == [turn : Turns, kind : Kinds]
           opening == <<Message(t, "human")>>
           talk == saved[Thread[t]] \o opening
<1>1. /\ messages \in [Turns -> Seq(Entries)] /\ saved \in [Prospects -> Seq(Entries)]
      /\ opening \in Seq(Entries) /\ Thread \in [Turns -> Prospects]
  <2>1. opening \in Seq(Entries)
    <3>1. Message(t, "human") \in Entries
      BY DEF Message, Kinds
    <3> HIDE DEF Entries
    <3> QED
      BY <3>1
  <2> QED
    BY <2>1, GraphAssumption DEF GraphAssumption, TalkTypes, Talk
<1>2. Append(Loaded(t), Message(t, "human")) = talk
  <2> HIDE DEF Entries
  <2>1. saved[Thread[t]] \in Seq(Entries) /\ Message(t, "human") \in Entries
    BY <1>1 DEF Message, Kinds, Entries
  <2> QED
    BY <2>1 DEF Loaded
<1>3. /\ \A u \in Turns : messages'[u] = IF u = t THEN talk ELSE messages[u]
      /\ \A p \in Prospects : saved'[p] = IF p = Thread[t] THEN talk ELSE saved[p]
  BY <1>1, <1>2 DEF Begin
<1> HIDE DEF Entries, opening
<1>4. /\ \A u \in Turns : pc'[u] = IF u = t THEN "enrich" ELSE pc[u]
      /\ pc[t] = "idle" /\ "enrich" \notin Ended
  BY DEF Begin, Inv, Shape, Ended
<1>5. \A u \in Turns : before'[u] = IF u = t THEN {w \in Turns : pc[w] \in Ended} ELSE before[u]
  BY DEF Begin, ThreadInv
<1>6. \A u, v \in Turns : u \in before'[v] => u # t /\ pc'[u] \in Ended /\ pc'[v] # "idle"
  <2> SUFFICES ASSUME NEW u \in Turns, NEW v \in Turns, u \in before'[v]
               PROVE  u # t /\ pc'[u] \in Ended /\ pc'[v] # "idle"
    OBVIOUS
  <2>1. pc[u] \in Ended /\ (v # t => pc[v] # "idle")
    <3>1. CASE v = t
      BY <1>5, <3>1
    <3>2. CASE v # t
      BY <1>5, <3>2 DEF ThreadInv
    <3> QED
      BY <3>1, <3>2
  <2>2. u # t
    BY <1>4, <2>1 DEF Ended
  <2> QED
    BY <1>4, <2>1, <2>2
<1>7. ASSUME NEW u \in Turns \ {t}, \A w \in Turns : ~Overlap(u, w)'
      PROVE  Alone(u)
  <2> SUFFICES ASSUME NEW w \in Turns, Overlap(u, w)
               PROVE  Overlap(u, w)'
    BY <1>7 DEF Alone
  <2> QED
    BY <1>4, <1>5 DEF Overlap
<1>8. ASSUME NEW u \in Turns \ {t}, pc[u] # "idle", Alone(u)
      PROVE  /\ IsPrefix(messages'[u], saved'[Thread[u]])
             /\ Thread[u] = Thread[t] => IsPrefix(messages[u], talk)
  <2>1. IsPrefix(messages[u], saved[Thread[u]])
    BY <1>8 DEF ThreadInv
  <2>2. Thread[u] = Thread[t] => IsPrefix(messages[u], talk)
    BY <1>1, <2>1, PrefixGrows
  <2> QED
    BY <1>1, <1>3, <2>1, <2>2
<1>9. ASSUME NEW u \in Turns, pc'[u] # "idle", Alone(u)'
      PROVE  IsPrefix(messages'[u], saved'[Thread[u]])
  <2>1. CASE u = t
    <3>1. talk \in Seq(Entries)
      BY <1>1
    <3> QED
      BY <1>1, <1>3, <2>1, <3>1, PrefixOfItself
  <2>2. CASE u # t
    BY <1>4, <1>7, <1>8, <1>9, <2>2 DEF Alone
  <2> QED
    BY <2>1, <2>2
<1>10. ASSUME NEW u \in Turns, NEW v \in Turns, Thread[u] = Thread[v], u \in before'[v],
              \A w \in Turns : ~Overlap(u, w)'
       PROVE  IsPrefix(messages'[u], messages'[v])
  <2>1. u # t /\ pc[u] # "idle" /\ Alone(u)
    BY <1>4, <1>6, <1>7, <1>10 DEF Ended
  <2>2. CASE v = t
    BY <1>3, <1>8, <1>10, <2>1, <2>2
  <2>3. CASE v # t
    <3>1. IsPrefix(messages[u], messages[v])
      BY <1>5, <1>10, <2>1, <2>3 DEF Alone, ThreadInv, ThreadKeepsTurns
    <3> QED
      BY <1>3, <2>1, <2>3, <3>1
  <2> QED
    BY <2>2, <2>3
<1>11. before' \in [Turns -> SUBSET Turns]
  BY <1>5 DEF Begin, ThreadInv
<1> QED
  BY <1>6, <1>9, <1>10, <1>11 DEF ThreadInv, ThreadKeepsTurns

LEMMA ThreadInvStep == Inv /\ TalkTypes /\ ThreadInv /\ [Next]_vars => ThreadInv'
<1> SUFFICES ASSUME Inv, TalkTypes, ThreadInv, [Next]_vars
             PROVE  ThreadInv'
  OBVIOUS
<1>1. ASSUME NEW t \in Turns, NEW event \in Events[t], Begin(t, event)
      PROVE  ThreadInv'
  BY <1>1, BeginKeepsThread
<1>2. ASSUME NEW t \in Turns, Step(t)
      PROVE  ThreadInv'
  <2>1. /\ pc[t] \in Nodes /\ UNCHANGED before
        /\ \/ \E new \in News(t) : Append1(t, new)
           \/ UNCHANGED <<messages, saved>>
    BY <1>2, StepForm
  <2>2. PICK next \in Nodes \cup Ended : pc' = [pc EXCEPT ![t] = next]
    BY <1>2, StepForm
  <2>3. CASE \E new \in News(t) : Append1(t, new)
    BY <2>1, <2>2, <2>3, TalkKeepsThread
  <2>4. CASE UNCHANGED <<messages, saved>>
    BY <2>1, <2>2, <2>4, SilentKeepsThread DEF Inv, Shape, Nodes, Ended
  <2> QED
    BY <2>1, <2>3, <2>4
<1>3. CASE UNCHANGED <<pc, messages, saved, before>>
  BY <1>3, SilentKeepsThread
<1> QED
  BY <1>1, <1>2, <1>3 DEF Next, Acknowledge, vars

\* For any number of prospects and turns: a turn finds in its thread all that was
\* said in the earlier ones, aborted ones too, unless another turn of the thread
\* overlapped them.
THEOREM ThreadsKeepTurns == Spec => []ThreadKeepsTurns
<1>1. Init => ThreadInv
  <2>1. Init => \A t \in Turns : pc[t] = "idle" /\ before[t] = {}
    BY DEF Init
  <2> QED
    BY <2>1 DEF Init, ThreadInv, ThreadKeepsTurns
<1>2. TypeInv /\ ThreadInv /\ [Next]_vars => ThreadInv'
  BY ThreadInvStep DEF TypeInv
<1>3. ThreadInv => ThreadKeepsTurns
  BY DEF ThreadInv
<1> QED
  BY <1>1, <1>2, <1>3, TypeInvHolds, PTL DEF Spec
-----------------------------------------------------------------------------
(* The turns use the budget guard as its specification has its callers do. *)

\* Where a turn is once the guard has refused it: it never asks the model again.
AfterRefusal == {"policy_review", "kill_switch", "send_email", "persist"} \cup Ended

\* Wherever a turn's refusal is found, its own conversation or a later one of the
\* thread, that turn is past its last call.
RefusalInv ==
  \A u \in Turns :
    /\ \A t \in Turns : Message(u, "refusal") \in ToSet(messages[t]) => pc[u] \in AfterRefusal
    /\ \A p \in Prospects : Message(u, "refusal") \in ToSet(saved[p]) => pc[u] \in AfterRefusal

\* What any step but a refusal adds.
OtherNews(t) == {<<>>} \cup {<<Message(t, kind)>> : kind \in Kinds \ {"refusal"}}

LEMMA OnlyRefusalsRefuse ==
  ASSUME Inv, NEW t \in Turns, Step(t)
  PROVE  \/ RefuseLlm(t)
         \/ \E new \in OtherNews(t) : Append1(t, new)
         \/ UNCHANGED <<messages, saved>>
<1>1. /\ <<>> \in OtherNews(t)
      /\ \A kind \in Answers \cup {"answer", "results"} : <<Message(t, kind)>> \in OtherNews(t)
  BY GraphAssumption DEF GraphAssumption, OtherNews, Kinds, Calls, Spoken
<1>2. CASE \/ Enrich(t) \/ Classify(t) \/ CheckCommand(t) \/ Compose(t) \/ PolicyReview(t)
           \/ KillSwitch(t) \/ SendEmail(t) \/ Persist(t)
  BY <1>1, <1>2 DEF Enrich, Classify, CheckCommand, Compose, PolicyReview, KillSwitch,
                    SendEmail, Persist, Checkpoint
<1>3. CASE EndLlm(t) \/ FailLlm(t) \/ Tools(t)
  BY <1>1, <1>3 DEF EndLlm, FailLlm, Tools
<1>4. CASE StartLlm(t) \/ Abort(t)
  BY <1>4 DEF StartLlm, Abort
<1> QED
  BY <1>2, <1>3, <1>4 DEF Step

\* No node leads from an answered turn back to the model.
LEMMA RefusedStaysRefused ==
  ASSUME Inv, NEW t \in Turns, Step(t), pc[t] \in AfterRefusal
  PROVE  pc'[t] \in AfterRefusal
<1>1. /\ pc[t] \notin {"enrich", "classify", "check_command", "compose_outbound", "llm",
                       "calling", "tools"}
      /\ DOMAIN pc = Turns
  BY DEF AfterRefusal, Ended, Inv, Shape
<1> QED
  BY <1>1 DEF AfterRefusal, Ended, AfterPersist, Step, Enrich, Classify, CheckCommand, Compose, StartLlm,
              RefuseLlm, EndLlm, FailLlm, Tools, PolicyReview, KillSwitch, SendEmail,
              Persist, Abort, Superstep

\* A message is in a longer conversation if it was in the conversation or is news.
LEMMA SaidInEither ==
  ASSUME NEW S, NEW s \in Seq(S), NEW new \in Seq(S), NEW m
  PROVE  m \in ToSet(s \o new) <=> m \in ToSet(s) \/ m \in ToSet(new)
<1>1. /\ Len(s \o new) = Len(s) + Len(new) /\ Len(s) \in Nat /\ Len(new) \in Nat
      /\ DOMAIN s = 1..Len(s) /\ DOMAIN new = 1..Len(new)
      /\ DOMAIN (s \o new) = 1..(Len(s) + Len(new))
      /\ \A i \in 1..Len(s) : (s \o new)[i] = s[i]
      /\ \A i \in 1..Len(new) : (s \o new)[Len(s) + i] = new[i]
  OBVIOUS
<1>2. ASSUME m \in ToSet(s \o new)
      PROVE  m \in ToSet(s) \/ m \in ToSet(new)
  <2>1. PICK i \in 1..(Len(s) + Len(new)) : m = (s \o new)[i]
    BY <1>1, <1>2 DEF ToSet
  <2>2. CASE i <= Len(s)
    <3>1. i \in 1..Len(s)
      BY <1>1, <2>2
    <3> QED
      BY <1>1, <2>1, <3>1 DEF ToSet
  <2>3. CASE ~(i <= Len(s))
    <3>1. i - Len(s) \in 1..Len(new) /\ Len(s) + (i - Len(s)) = i
      BY <1>1, <2>3
    <3>2. m = new[i - Len(s)]
      BY <1>1, <2>1, <3>1
    <3> QED
      BY <1>1, <3>1, <3>2 DEF ToSet
  <2> QED
    BY <2>2, <2>3
<1>3. ASSUME m \in ToSet(s)
      PROVE  m \in ToSet(s \o new)
  <2>1. PICK i \in 1..Len(s) : m = s[i]
    BY <1>1, <1>3 DEF ToSet
  <2>2. i \in 1..(Len(s) + Len(new)) /\ m = (s \o new)[i]
    BY <1>1, <2>1
  <2> QED
    BY <1>1, <2>2 DEF ToSet
<1>4. ASSUME m \in ToSet(new)
      PROVE  m \in ToSet(s \o new)
  <2>1. PICK i \in 1..Len(new) : m = new[i]
    BY <1>1, <1>4 DEF ToSet
  <2>2. Len(s) + i \in 1..(Len(s) + Len(new)) /\ m = (s \o new)[Len(s) + i]
    BY <1>1, <2>1
  <2> QED
    BY <1>1, <2>2 DEF ToSet
<1> QED
  BY <1>2, <1>3, <1>4

LEMMA OtherNewsRefusesNobody ==
  ASSUME NEW t, NEW new \in OtherNews(t), NEW u
  PROVE  Message(u, "refusal") \notin ToSet(new)
<1>1. \A kind : Message(t, kind) = Message(u, "refusal") => kind = "refusal"
  BY DEF Message
<1>2. new = <<>> \/ \E kind \in Kinds \ {"refusal"} : new = <<Message(t, kind)>>
  BY DEF OtherNews
<1> HIDE DEF Message
<1>3. \A m, x : m \in ToSet(<<x>>) => m = x
  BY DEF ToSet
<1>4. \A m : m \notin ToSet(<<>>)
  BY DEF ToSet
<1> QED
  BY <1>1, <1>2, <1>3, <1>4

LEMMA RefusalRefusesOne ==
  ASSUME NEW t, NEW u
  PROVE  Message(u, "refusal") \in ToSet(<<Message(t, "refusal")>>) <=> u = t
<1>1. Message(t, "refusal") = Message(u, "refusal") <=> t = u
  BY DEF Message
<1> HIDE DEF Message
<1>2. \A m, x : m \in ToSet(<<x>>) <=> m = x
  BY DEF ToSet
<1> QED
  BY <1>1, <1>2

\* Who is refused in the conversation a step leaves, the turn's or the thread's.
LEMMA WhoIsRefused ==
  ASSUME Inv, TalkTypes, NEW t \in Turns, Step(t), NEW u \in Turns
  PROVE  /\ \A v \in Turns \ {t} : messages'[v] = messages[v]
         /\ \A p \in Prospects : saved'[p] \in {saved[p], messages'[t]}
         /\ Message(u, "refusal") \in ToSet(messages'[t])
              <=> Message(u, "refusal") \in ToSet(messages[t]) \/ (u = t /\ RefuseLlm(t))
<1> DEFINE Entries == [turn : Turns, kind : Kinds]
<1>0. Thread[t] \in Prospects /\ DOMAIN messages = Turns /\ DOMAIN saved = Prospects
      /\ messages[t] \in Seq(Entries)
  BY GraphAssumption DEF GraphAssumption, TalkTypes, Talk
<1>1. ASSUME NEW new \in News(t), Append1(t, new)
      PROVE  /\ \A v \in Turns \ {t} : messages'[v] = messages[v]
             /\ \A p \in Prospects : saved'[p] \in {saved[p], messages'[t]}
             /\ Message(u, "refusal") \in ToSet(messages'[t])
                  <=> Message(u, "refusal") \in ToSet(messages[t]) \cup ToSet(new)
  <2>1. new \in Seq(Entries)
    BY <1>0, <1>1, NewsIsTalk DEF TalkTypes, Talk
  <2> HIDE DEF Entries
  <2>2. messages'[t] = messages[t] \o new
    BY <1>0, <1>1 DEF Append1
  <2>3. Message(u, "refusal") \in ToSet(messages'[t])
          <=> Message(u, "refusal") \in ToSet(messages[t]) \/ Message(u, "refusal") \in ToSet(new)
    BY <1>0, <2>1, <2>2, SaidInEither
  <2> QED
    BY <1>0, <1>1, <2>3 DEF Append1
<1>2. CASE RefuseLlm(t)
  <2>1. /\ <<Message(t, "refusal")>> \in News(t)
        /\ Append1(t, <<Message(t, "refusal")>>)
    BY <1>2 DEF RefuseLlm, News, Kinds, Spoken
  <2> QED
    BY <1>1, <1>2, <2>1, RefusalRefusesOne
<1>3. CASE ~RefuseLlm(t) /\ \E new \in OtherNews(t) : Append1(t, new)
  <2>1. PICK new \in OtherNews(t) : Append1(t, new)
    BY <1>3
  <2>2. new \in News(t)
    BY DEF OtherNews, News
  <2> QED
    BY <1>1, <1>3, <2>1, <2>2, OtherNewsRefusesNobody
<1>4. CASE ~RefuseLlm(t) /\ UNCHANGED <<messages, saved>>
  BY <1>4
<1> QED
  BY <1>2, <1>3, <1>4, OnlyRefusalsRefuse

LEMMA RefusalInvStep == Inv /\ TalkTypes /\ RefusalInv /\ [Next]_vars => RefusalInv'
<1> SUFFICES ASSUME Inv, TalkTypes, RefusalInv, [Next]_vars
             PROVE  RefusalInv'
  OBVIOUS
<1>1. ASSUME NEW t \in Turns, NEW event \in Events[t], Begin(t, event)
      PROVE  RefusalInv'
  <2> DEFINE Entries == [turn : Turns, kind : Kinds]
  <2>1. /\ Thread[t] \in Prospects /\ DOMAIN messages = Turns /\ DOMAIN saved = Prospects
        /\ saved[Thread[t]] \in Seq(Entries) /\ Message(t, "human") \in Entries
    BY GraphAssumption DEF GraphAssumption, TalkTypes, Talk, Message, Kinds
  <2>2. \A u \in Turns : Message(t, "human") # Message(u, "refusal")
    BY DEF Message
  <2>3. /\ pc[t] = "idle" /\ pc' = [pc EXCEPT ![t] = "enrich"]
        /\ messages' = [messages EXCEPT ![t] = Append(saved[Thread[t]], Message(t, "human"))]
        /\ saved' = [saved EXCEPT ![Thread[t]] = messages'[t]]
    BY <1>1 DEF Begin, Loaded
  <2> HIDE DEF Entries, Message
  <2>4. /\ <<Message(t, "human")>> \in Seq(Entries)
        /\ messages'[t] = saved[Thread[t]] \o <<Message(t, "human")>>
    <3>1. messages'[t] = Append(saved[Thread[t]], Message(t, "human"))
      BY <2>1, <2>3
    <3>2. ASSUME NEW S, NEW s \in Seq(S), NEW m \in S
          PROVE  <<m>> \in Seq(S) /\ Append(s, m) = s \o <<m>>
      OBVIOUS
    <3> QED
      BY <2>1, <3>1, <3>2
  <2>5. \A u \in Turns : Message(u, "refusal") \notin ToSet(<<Message(t, "human")>>)
    BY <2>2 DEF ToSet
  <2>6. \A u \in Turns : Message(u, "refusal") \in ToSet(messages'[t])
                           => Message(u, "refusal") \in ToSet(saved[Thread[t]])
    BY <2>1, <2>4, <2>5, SaidInEither
  <2>7. \A u \in Turns : pc[u] \in AfterRefusal => pc'[u] \in AfterRefusal
    BY <2>3 DEF Inv, Shape, AfterRefusal, Ended
  <2> QED
    BY <2>1, <2>3, <2>6, <2>7 DEF RefusalInv
<1>2. ASSUME NEW t \in Turns, Step(t)
      PROVE  RefusalInv'
  <2>1. \A u \in Turns : pc[u] \in AfterRefusal => pc'[u] \in AfterRefusal
    BY <1>2, StepForm, RefusedStaysRefused DEF Inv, Shape
  <2>2. RefuseLlm(t) => pc'[t] \in AfterRefusal
    BY DEF RefuseLlm, Superstep, AfterRefusal, Inv, Shape
  <2>3. /\ \A v \in Turns \ {t} : messages'[v] = messages[v]
        /\ \A p \in Prospects : saved'[p] \in {saved[p], messages'[t]}
        /\ \A u \in Turns :
             Message(u, "refusal") \in ToSet(messages'[t])
               => Message(u, "refusal") \in ToSet(messages[t]) \/ (u = t /\ RefuseLlm(t))
    BY <1>2, WhoIsRefused
  <2>4. \A u \in Turns : Message(u, "refusal") \in ToSet(messages'[t]) => pc'[u] \in AfterRefusal
    BY <2>1, <2>2, <2>3 DEF RefusalInv
  <2> QED
    BY <2>1, <2>3, <2>4 DEF RefusalInv
<1>3. CASE UNCHANGED <<pc, messages, saved>>
  BY <1>3 DEF RefusalInv
<1> QED
  BY <1>1, <1>2, <1>3 DEF Next, Acknowledge, vars

\* The supersteps taken so far, a pair for each.
Taken == {p \in Turns \X (1..RecursionLimit) : p[2] <= steps[p[1]]}

\* A superstep pays for one call at most.
SpendInv == total <= Cardinality(Taken) * MaxCost

LEMMA TakenIsFinite ==
  ASSUME NEW S \in SUBSET (Turns \X (1..RecursionLimit))
  PROVE  /\ IsFiniteSet(S) /\ Cardinality(S) \in Nat
         /\ Cardinality(Turns) \in Nat
         /\ Cardinality(S) <= Cardinality(Turns) * RecursionLimit
<1>0. IsFiniteSet(Turns) /\ RecursionLimit \in Nat /\ Cardinality(Turns) \in Nat
  BY GraphAssumption, FS_CardinalityType DEF GraphAssumption
<1>1. IsFiniteSet(1..RecursionLimit) /\ Cardinality(1..RecursionLimit) = RecursionLimit
  BY <1>0, FS_Interval
<1>2. /\ IsFiniteSet(Turns \X (1..RecursionLimit))
      /\ Cardinality(Turns \X (1..RecursionLimit)) = Cardinality(Turns) * RecursionLimit
  BY <1>0, <1>1, FS_Product
<1>3. /\ IsFiniteSet(S)
      /\ Cardinality(S) <= Cardinality(Turns \X (1..RecursionLimit))
  BY <1>2, FS_Subset
<1> QED
  BY <1>0, <1>2, <1>3, FS_CardinalityType

LEMMA TakenIsBounded ==
  /\ Taken \in SUBSET (Turns \X (1..RecursionLimit))
  /\ Taken' \in SUBSET (Turns \X (1..RecursionLimit))
BY DEF Taken

LEMMA CostsGrow ==
  ASSUME NEW m \in Nat, NEW n \in Nat, m <= n
  PROVE  m * MaxCost <= n * MaxCost /\ m * MaxCost \in Nat /\ (m + 1) * MaxCost = m * MaxCost + MaxCost
BY GraphAssumption, SMT DEF GraphAssumption

\* Supersteps are not taken back.
LEMMA TakenGrows ==
  ASSUME Inv, Inv', \A t \in Turns : steps[t] <= steps'[t]
  PROVE  Cardinality(Taken) * MaxCost <= Cardinality(Taken') * MaxCost
<1>1. Taken \in SUBSET Taken'
  <2>1. \A t \in Turns : steps[t] \in Nat /\ steps'[t] \in Nat
    BY GraphAssumption DEF GraphAssumption, Inv, Shape
  <2> QED
    BY <2>1 DEF Taken
<1>2. /\ IsFiniteSet(Taken') /\ Cardinality(Taken') \in Nat
  BY TakenIsBounded, TakenIsFinite
<1>3. Cardinality(Taken) \in Nat /\ Cardinality(Taken) <= Cardinality(Taken')
  BY <1>1, <1>2, TakenIsBounded, TakenIsFinite, FS_Subset
<1> QED
  BY <1>2, <1>3, CostsGrow

\* A superstep takes one more.
LEMMA OneMoreTaken ==
  ASSUME Inv, NEW t \in Turns, NEW node, NEW next \in Nodes \cup Ended, Superstep(t, node, next)
  PROVE  Cardinality(Taken') = Cardinality(Taken) + 1
<1> DEFINE one == <<t, steps[t] + 1>>
<1>1. /\ steps'[t] = steps[t] + 1 /\ steps[t] \in Nat /\ steps[t] < RecursionLimit
      /\ \A u \in Turns : u # t => steps'[u] = steps[u]
      /\ RecursionLimit \in Nat
  BY SuperstepCounts, GraphAssumption DEF GraphAssumption
<1>2. \A p \in Turns \X (1..RecursionLimit) : p[2] <= steps'[p[1]] <=> p[2] <= steps[p[1]] \/ p = one
  <2> SUFFICES ASSUME NEW u \in Turns, NEW i \in 1..RecursionLimit
               PROVE  i <= steps'[u] <=> i <= steps[u] \/ <<u, i>> = one
    OBVIOUS
  <2>1. CASE u = t
    <3>1. i <= steps[t] + 1 <=> i <= steps[t] \/ i = steps[t] + 1
      BY <1>1
    <3> QED
      BY <1>1, <2>1, <3>1
  <2>2. CASE u # t
    BY <1>1, <2>2
  <2> QED
    BY <2>1, <2>2
<1>3. one \in Turns \X (1..RecursionLimit) /\ one \notin Taken
  BY <1>1 DEF Taken
<1> HIDE DEF one
<1>4. Taken' = Taken \cup {one}
  BY <1>2, <1>3 DEF Taken
<1> QED
  BY <1>3, <1>4, TakenIsBounded, TakenIsFinite, FS_AddElement

LEMMA SpendInvStep == TypeInv /\ TypeInv' /\ SpendInv /\ [Next]_vars => SpendInv'
<1> SUFFICES ASSUME TypeInv, TypeInv', SpendInv, [Next]_vars
             PROVE  SpendInv'
  OBVIOUS
<1>0. Inv /\ Inv' /\ total \in Nat
  BY DEF TypeInv, GuardTypes
<1>a. Cardinality(Taken) \in Nat /\ Cardinality(Taken') \in Nat /\ MaxCost \in Nat
  BY TakenIsBounded, TakenIsFinite, GraphAssumption DEF GraphAssumption
<1>b. \A t \in Turns : steps[t] \in Nat /\ steps'[t] \in Nat
  BY <1>0, GraphAssumption DEF GraphAssumption, Inv, Shape
<1>1. ASSUME NEW t \in Turns, EndLlm(t)
      PROVE  SpendInv'
  <2>1. PICK kind \in Answers, cost \in 0..MaxCost :
          Superstep(t, "calling", AfterLlm(kind)) /\ total' = total + cost
    BY <1>1 DEF EndLlm
  <2>2. Cardinality(Taken') = Cardinality(Taken) + 1
    BY <1>0, <2>1, OneMoreTaken DEF AfterLlm, Calls, Nodes
  <2>3. /\ Cardinality(Taken') * MaxCost = Cardinality(Taken) * MaxCost + MaxCost
        /\ Cardinality(Taken) * MaxCost \in Nat
    BY <1>a, <2>2, CostsGrow
  <2>4. total' <= total + MaxCost
    BY <1>0, <1>a, <2>1
  <2> HIDE DEF Taken
  <2>5. ASSUME NEW x \in Nat, total <= x
        PROVE  total' <= x + MaxCost
    BY <1>0, <1>a, <2>1, <2>5
  <2> QED
    BY <2>3, <2>5 DEF SpendInv
<1>2. ASSUME total' = total, \A t \in Turns : steps[t] <= steps'[t]
      PROVE  SpendInv'
  <2>1. /\ Cardinality(Taken) * MaxCost <= Cardinality(Taken') * MaxCost
        /\ Cardinality(Taken) * MaxCost \in Nat /\ Cardinality(Taken') * MaxCost \in Nat
    BY <1>0, <1>2, <1>a, TakenGrows, CostsGrow
  <2>2. ASSUME NEW x \in Nat, NEW y \in Nat, total <= x, x <= y
        PROVE  total' <= y
    BY <1>0, <1>2, <2>2
  <2> QED
    BY <2>1, <2>2 DEF SpendInv
<1>3. ASSUME NEW t \in Turns, Step(t)
      PROVE  \A u \in Turns : steps[u] <= steps'[u]
  <2>1. steps' = steps \/ steps' = [steps EXCEPT ![t] = steps[t] + 1]
    BY <1>3 DEF Step, Enrich, Classify, CheckCommand, Compose, StartLlm, RefuseLlm, EndLlm,
                FailLlm, Tools, PolicyReview, KillSwitch, SendEmail, Persist, Abort, Superstep
  <2>2. steps' = steps \/ \A u \in Turns : steps'[u] = IF u = t THEN steps[t] + 1 ELSE steps[u]
    BY <1>0, <2>1 DEF Inv, Shape
  <2> QED
    BY <1>b, <2>2
<1>4. ASSUME NEW t \in Turns, NEW event \in Events[t], Begin(t, event)
      PROVE  SpendInv'
  BY <1>4, <1>b, <1>2 DEF Begin, guard
<1>5. CASE Acknowledge \/ UNCHANGED vars
  BY <1>5, <1>b, <1>2 DEF Acknowledge, vars, guard
<1> QED
  BY <1>1, <1>2, <1>3, <1>4, <1>5, OnlyAnswersCost DEF Next

RefinementInv == TypeInv /\ RefusalInv /\ SpendInv

LEMMA RefinementInvHolds == Spec => []RefinementInv
<1>1. Init => RefusalInv
  <2>1. \A m : m \notin ToSet(<<>>)
    BY DEF ToSet
  <2> QED
    BY <2>1 DEF Init, RefusalInv
<1>2. Init => SpendInv
  <2> SUFFICES ASSUME Init PROVE SpendInv
    OBVIOUS
  <2>1. Cardinality(Taken) \in Nat
    BY TakenIsBounded, TakenIsFinite
  <2>2. Cardinality(Taken) * MaxCost \in Nat
    BY <2>1, CostsGrow
  <2> HIDE DEF Taken
  <2> QED
    BY <2>2 DEF Init, SpendInv
<1>3. TypeInv /\ RefusalInv /\ [Next]_vars => RefusalInv'
  BY RefusalInvStep DEF TypeInv
<1> QED
  BY <1>1, <1>2, <1>3, SpendInvStep, TypeInvHolds, PTL DEF Spec, RefinementInv

\* The bound of the guard's specification is never what stops a call.
LEMMA SpendHasRoom ==
  ASSUME RefinementInv
  PROVE  total < Cardinality(Turns) * RecursionLimit * MaxCost + 1
<1>1. /\ Cardinality(Taken) \in Nat /\ Cardinality(Turns) \in Nat
      /\ Cardinality(Taken) <= Cardinality(Turns) * RecursionLimit
  BY TakenIsBounded, TakenIsFinite
<1>2. Cardinality(Turns) * RecursionLimit \in Nat
  BY <1>1, GraphAssumption, SMT DEF GraphAssumption
<1>3. /\ Cardinality(Taken) * MaxCost <= Cardinality(Turns) * RecursionLimit * MaxCost
      /\ Cardinality(Taken) * MaxCost \in Nat
      /\ Cardinality(Turns) * RecursionLimit * MaxCost \in Nat
  BY <1>1, <1>2, CostsGrow
<1>4. total \in Nat /\ total <= Cardinality(Taken) * MaxCost
  BY DEF RefinementInv, TypeInv, GuardTypes, SpendInv
<1>5. ASSUME NEW x \in Nat, NEW y \in Nat, total <= x, x <= y
      PROVE  total < y + 1
  BY <1>4, <1>5
<1> QED
  BY <1>3, <1>4, <1>5

\* The guard's view of the turns.
Calling == {t \in Turns : pc[t] = "calling"}
RefusedTurns == {t \in Turns : Message(t, "refusal") \in ToSet(messages[t])}

LEMMA StepSimulates ==
  ASSUME RefinementInv, NEW t \in Turns, Step(t)
  PROVE  [Guard!Next]_(Guard!vars)
<1>0. /\ Inv /\ TalkTypes /\ RefusalInv
      /\ DOMAIN pc = Turns
  BY DEF RefinementInv, TypeInv, Inv, Shape
<1>1. /\ RefuseLlm(t) => RefusedTurns' = RefusedTurns \cup {t}
      /\ ~RefuseLlm(t) => RefusedTurns' = RefusedTurns
  BY <1>0, WhoIsRefused DEF RefusedTurns
<1>2. pc[t] \in {"llm", "calling"} => t \notin RefusedTurns
  BY <1>0 DEF RefusalInv, RefusedTurns, AfterRefusal, Ended
<1>3. CASE StartLlm(t)
  <2>1. /\ pc[t] = "llm" /\ pc' = [pc EXCEPT ![t] = "calling"] /\ ~OverBudget
        /\ UNCHANGED <<total, acknowledged>> /\ messages' = messages
    BY <1>3 DEF StartLlm, guard
  <2>2. Calling' = Calling \cup {t} /\ t \notin Calling
    BY <1>0, <2>1 DEF Calling
  <2>3. RefusedTurns' = RefusedTurns \ {t}
    BY <1>2, <2>1 DEF RefusedTurns
  <2>4. Guard!StartCall(t)
    BY <2>1, <2>2, <2>3, SpendHasRoom
    DEF Guard!StartCall, Guard!Exceeded, OverBudget, Calling, RefusedTurns
  <2> QED
    BY <2>4 DEF Guard!Next
<1>4. CASE RefuseLlm(t)
  <2>1. /\ pc[t] = "llm" /\ pc' = [pc EXCEPT ![t] = "policy_review"] /\ OverBudget
        /\ UNCHANGED <<total, acknowledged>>
    BY <1>4 DEF RefuseLlm, Superstep, guard
  <2>2. Calling' = Calling /\ t \notin Calling
    BY <1>0, <2>1 DEF Calling
  <2>3. Guard!RefuseCall(t)
    BY <1>1, <1>4, <2>1, <2>2
    DEF Guard!RefuseCall, Guard!Exceeded, OverBudget, Calling, RefusedTurns
  <2> QED
    BY <2>3 DEF Guard!Next
<1>5. CASE EndLlm(t)
  <2>1. PICK kind \in Answers, cost \in 0..MaxCost :
          /\ Superstep(t, "calling", AfterLlm(kind))
          /\ total' = total + cost /\ acknowledged' = acknowledged
    BY <1>5 DEF EndLlm
  <2>2. pc[t] = "calling" /\ pc' = [pc EXCEPT ![t] = AfterLlm(kind)] /\ AfterLlm(kind) # "calling"
    BY <2>1 DEF Superstep, AfterLlm
  <2>3. Calling' = Calling \ {t} /\ t \in Calling
    BY <1>0, <2>2 DEF Calling
  <2>4. ~RefuseLlm(t)
    BY <2>2 DEF RefuseLlm, Superstep
  <2>5. Guard!FinishCall(t, cost)
    BY <1>1, <2>1, <2>3, <2>4 DEF Guard!FinishCall, Calling, RefusedTurns
  <2> QED
    BY <2>5 DEF Guard!Next
<1>6. CASE FailLlm(t) \/ (Abort(t) /\ pc[t] = "calling")
  <2>1. /\ pc[t] = "calling" /\ UNCHANGED <<total, acknowledged>>
        /\ \E next \in {"policy_review", "failed"} : pc' = [pc EXCEPT ![t] = next]
    BY <1>6 DEF FailLlm, Abort, Superstep, guard
  <2>2. Calling' = Calling \ {t} /\ t \in Calling
    BY <1>0, <2>1 DEF Calling
  <2>3. ~RefuseLlm(t)
    BY <2>1 DEF RefuseLlm, Superstep
  <2>4. Guard!FailCall(t)
    BY <1>1, <2>1, <2>2, <2>3 DEF Guard!FailCall, Calling, RefusedTurns
  <2> QED
    BY <2>4 DEF Guard!Next
<1>7. CASE \/ Enrich(t) \/ Classify(t) \/ CheckCommand(t) \/ Compose(t) \/ Tools(t)
           \/ PolicyReview(t) \/ KillSwitch(t) \/ SendEmail(t) \/ Persist(t)
           \/ (Abort(t) /\ pc[t] # "calling")
  <2>1. /\ pc[t] # "calling" /\ UNCHANGED <<total, acknowledged>>
        /\ \E next : next # "calling" /\ pc' = [pc EXCEPT ![t] = next]
    BY <1>7 DEF Enrich, Classify, CheckCommand, AfterCommand, Compose, Tools, PolicyReview,
                KillSwitch, SendEmail, Persist, AfterPersist, Abort, Superstep, guard
  <2>2. Calling' = Calling
    BY <1>0, <2>1 DEF Calling
  <2>3. ~RefuseLlm(t)
    BY <1>0, <1>7 DEF RefuseLlm, Enrich, Classify, CheckCommand, Compose, Tools, PolicyReview,
                      KillSwitch, SendEmail, Persist, Abort, Superstep, OutOfSteps
  <2> QED
    BY <1>1, <2>1, <2>2, <2>3 DEF Guard!vars, Calling, RefusedTurns
<1> QED
  BY <1>3, <1>4, <1>5, <1>6, <1>7 DEF Step

\* Step by step, whatever the turns do is what BudgetGuard's callers may do: the
\* graph's calls are admitted, refused, paid for and forgotten as the guard's
\* specification says, for any number of turns and supersteps.
THEOREM TurnsUseTheGuard == Spec => GuardRefined
<1>1. Init => Guard!Init
  <2> SUFFICES ASSUME Init PROVE Guard!Init
    OBVIOUS
  <2>1. Calling = {}
    BY DEF Init, Calling
  <2>2. RefusedTurns = {}
    <3>1. \A m : m \notin ToSet(<<>>)
      BY DEF ToSet
    <3> QED
      BY <3>1 DEF Init, RefusedTurns
  <2> QED
    BY <2>1, <2>2 DEF Init, Guard!Init, Calling, RefusedTurns
<1>2. RefinementInv /\ [Next]_vars => [Guard!Next]_(Guard!vars)
  <2> SUFFICES ASSUME RefinementInv, [Next]_vars
               PROVE  [Guard!Next]_(Guard!vars)
    OBVIOUS
  <2>1. ASSUME NEW t \in Turns, NEW event \in Events[t], Begin(t, event)
        PROVE  [Guard!Next]_(Guard!vars)
    <3>1. /\ pc[t] = "idle" /\ pc' = [pc EXCEPT ![t] = "enrich"]
          /\ UNCHANGED <<total, acknowledged>>
          /\ \A u \in Turns \ {t} : messages'[u] = messages[u]
      BY <2>1 DEF Begin, guard, RefinementInv, TypeInv, TalkTypes
    <3>2. Calling' = Calling
      BY <3>1 DEF Calling, RefinementInv, TypeInv, Inv, Shape
    <3>3. RefusalInv' /\ pc'[t] = "enrich"
      BY <3>1, RefusalInvStep DEF RefinementInv, TypeInv, Inv, Shape
    <3>4. t \notin RefusedTurns /\ t \notin RefusedTurns'
      BY <3>1, <3>3 DEF RefusedTurns, RefinementInv, RefusalInv, AfterRefusal, Ended
    <3>5. RefusedTurns' = RefusedTurns
      BY <3>1, <3>4 DEF RefusedTurns
    <3> QED
      BY <3>1, <3>2, <3>5 DEF Guard!vars, Calling, RefusedTurns
  <2>2. CASE Acknowledge
    BY <2>2 DEF Acknowledge, Guard!Next, Guard!Acknowledge
  <2>3. CASE UNCHANGED vars
    BY <2>3 DEF vars, guard, Guard!vars
  <2> QED
    BY <2>1, <2>2, <2>3, StepSimulates DEF Next
<1> QED
  BY <1>1, <1>2, RefinementInvHolds, PTL DEF Spec, GuardRefined

\* The refinement carries the guard's bound over to the graph.
GraphSpendBounded == ~acknowledged => total <= Limit - 1 + Cardinality(Turns) * MaxCost

\* Each turn whose call is in flight holds back the most that call can still cost.
Headroom ==
  ~acknowledged =>
    total + Cardinality(Calling) * MaxCost <= Limit - 1 + Cardinality(Turns) * MaxCost

LEMMA CallsReserve ==
  ASSUME NEW S \in SUBSET Turns
  PROVE  /\ IsFiniteSet(S) /\ Cardinality(S) \in Nat
         /\ Cardinality(S) * MaxCost \in Nat
         /\ Cardinality(Turns) * MaxCost \in Nat
         /\ Cardinality(S) * MaxCost <= Cardinality(Turns) * MaxCost
         /\ \A t \in S : Cardinality(S) * MaxCost = Cardinality(S \ {t}) * MaxCost + MaxCost
<1>1. /\ IsFiniteSet(Turns) /\ Cardinality(Turns) \in Nat
      /\ IsFiniteSet(S) /\ Cardinality(S) \in Nat /\ Cardinality(S) <= Cardinality(Turns)
  BY GraphAssumption, FS_CardinalityType, FS_Subset DEF GraphAssumption
<1>2. ASSUME NEW t \in S
      PROVE  Cardinality(S) * MaxCost = Cardinality(S \ {t}) * MaxCost + MaxCost
  <2>1. Cardinality(S \ {t}) = Cardinality(S) - 1 /\ Cardinality(S \ {t}) \in Nat
    BY <1>1, FS_RemoveElement, FS_CardinalityType
  <2>2. (Cardinality(S \ {t}) + 1) * MaxCost = Cardinality(S \ {t}) * MaxCost + MaxCost
    BY <2>1, CostsGrow
  <2> QED
    BY <1>1, <2>1, <2>2
<1> QED
  BY <1>1, <1>2, CostsGrow

LEMMA HeadroomStep ==
  GuardTypes /\ GuardTypes' /\ Headroom /\ [Guard!Next]_(Guard!vars) => Headroom'
<1> SUFFICES ASSUME GuardTypes, GuardTypes', Headroom, [Guard!Next]_(Guard!vars)
             PROVE  Headroom'
  OBVIOUS
<1> DEFINE All == Cardinality(Turns) * MaxCost
           Reserve(S) == Cardinality(S) * MaxCost
<1>1. /\ Calling \in SUBSET Turns /\ Calling' \in SUBSET Turns
      /\ total \in Nat /\ total' \in Nat /\ Limit \in Nat /\ MaxCost \in Nat
  BY GraphAssumption DEF GraphAssumption, Calling, GuardTypes
<1>2. /\ All \in Nat /\ Reserve(Calling) \in Nat /\ Reserve(Calling') \in Nat
      /\ Reserve(Calling) <= All /\ Reserve(Calling') <= All
  BY <1>1, CallsReserve
<1>3. ~acknowledged => total + Reserve(Calling) <= Limit - 1 + All
  BY DEF Headroom
<1>4. SUFFICES ~acknowledged' => total' + Reserve(Calling') <= Limit - 1 + All
  BY DEF Headroom
<1>5. ASSUME NEW t \in Turns, Guard!StartCall(t)
      PROVE  ~acknowledged' => total' + Reserve(Calling') <= Limit - 1 + All
  <2>1. /\ UNCHANGED <<total, acknowledged>> /\ ~(total >= Limit /\ ~acknowledged)
    BY <1>5 DEF Guard!StartCall, Guard!Exceeded
  <2>2. ~acknowledged => total <= Limit - 1
    BY <1>1, <2>1
  <2> HIDE DEF All, Reserve
  <2> QED
    BY <1>1, <1>2, <2>1, <2>2
<1>6. ASSUME NEW t \in Turns, NEW cost \in 0..MaxCost, t \in Calling, Calling' = Calling \ {t},
             total' = total + cost, acknowledged' = acknowledged
      PROVE  ~acknowledged' => total' + Reserve(Calling') <= Limit - 1 + All
  <2>1. Reserve(Calling) = Reserve(Calling') + MaxCost
    BY <1>1, <1>6, CallsReserve
  <2> HIDE DEF All, Reserve
  <2> QED
    BY <1>1, <1>2, <1>3, <1>6, <2>1
<1>7. ASSUME NEW t \in Turns, Guard!FailCall(t)
      PROVE  ~acknowledged' => total' + Reserve(Calling') <= Limit - 1 + All
  <2>1. t \in Calling /\ Calling' = Calling \ {t} /\ UNCHANGED <<total, acknowledged>>
    BY <1>7 DEF Guard!FailCall, Calling
  <2>2. 0 \in 0..MaxCost /\ total' = total + 0
    BY <1>1, <2>1
  <2> QED
    BY <1>6, <2>1, <2>2
<1>8. ASSUME NEW t \in Turns, NEW cost \in 0..MaxCost, Guard!FinishCall(t, cost)
      PROVE  ~acknowledged' => total' + Reserve(Calling') <= Limit - 1 + All
  <2>1. /\ t \in Calling /\ Calling' = Calling \ {t}
        /\ total' = total + cost /\ acknowledged' = acknowledged
    BY <1>8 DEF Guard!FinishCall, Calling
  <2> QED
    BY <1>6, <2>1
<1>9. ASSUME NEW t \in Turns, Guard!RefuseCall(t)
      PROVE  ~acknowledged' => total' + Reserve(Calling') <= Limit - 1 + All
  BY <1>3, <1>9 DEF Guard!RefuseCall, Calling
<1>10. CASE Guard!Acknowledge
  BY <1>10 DEF Guard!Acknowledge
<1>11. CASE Guard!ResetAcknowledgement
  <2>1. total' = total /\ total <= Limit - 1
    BY <1>1, <1>11 DEF Guard!ResetAcknowledgement
  <2> HIDE DEF All, Reserve
  <2> QED
    BY <1>1, <1>2, <2>1
<1>12. CASE UNCHANGED Guard!vars
  BY <1>3, <1>12 DEF Guard!vars, Calling
<1> QED
  BY <1>5, <1>7, <1>8, <1>9, <1>10, <1>11, <1>12 DEF Guard!Next

\* However many turns share the guard: until the operator acknowledges, what they
\* spend passes the last unit below the limit by at most one dearest call a turn.
THEOREM GraphSpendIsBounded == Spec => []GraphSpendBounded
<1>1. Init => Headroom
  <2> SUFFICES ASSUME Init PROVE Headroom
    OBVIOUS
  <2>1. Calling = {} /\ total = 0
    BY DEF Init, Calling
  <2>2. Cardinality(Calling) = 0 /\ Cardinality(Turns) * MaxCost \in Nat
    BY <2>1, FS_EmptySet, CallsReserve
  <2>3. Cardinality(Calling) * MaxCost = 0
    BY <2>2, GraphAssumption, SMT DEF GraphAssumption
  <2> QED
    BY <2>1, <2>2, <2>3, GraphAssumption DEF GraphAssumption, Headroom
<1>2. RefinementInv => GuardTypes
  BY DEF RefinementInv, TypeInv
<1>3. GuardTypes /\ Headroom => GraphSpendBounded
  <2> SUFFICES ASSUME GuardTypes, Headroom, ~acknowledged
               PROVE  total <= Limit - 1 + Cardinality(Turns) * MaxCost
    BY DEF GraphSpendBounded
  <2>1. Calling \in SUBSET Turns
    BY DEF Calling
  <2>2. /\ Cardinality(Calling) * MaxCost \in Nat /\ Cardinality(Turns) * MaxCost \in Nat
        /\ total \in Nat /\ Limit \in Nat
        /\ total + Cardinality(Calling) * MaxCost <= Limit - 1 + Cardinality(Turns) * MaxCost
    BY <2>1, CallsReserve, GraphAssumption DEF GraphAssumption, GuardTypes, Headroom
  <2>3. ASSUME NEW x \in Nat, NEW y \in Nat, total + x <= Limit - 1 + y
        PROVE  total <= Limit - 1 + y
    BY <2>2, <2>3
  <2> QED
    BY <2>2, <2>3
<1> QED
  BY <1>1, <1>2, <1>3, HeadroomStep, RefinementInvHolds, TurnsUseTheGuard, PTL DEF Spec, GuardRefined

=============================================================================
