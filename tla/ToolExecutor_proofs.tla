------------------------ MODULE ToolExecutor_proofs ------------------------
(***************************************************************************)
(* Theorems about the HubSpot MCP client and the tool executor above it,   *)
(* for any number of coroutines, requests and stops of the server.         *)
(*                                                                         *)
(* Three arguments, each with its invariant: the lock excludes, so whoever *)
(* finds a server that is alive and in no handshake finds it initialized   *)
(* or spoiled; ids are used once, so an answer with the id awaited is to   *)
(* the request that was sent; a contact stays once it is there, so what    *)
(* has been answered about it stays true.                                  *)
(***************************************************************************)
EXTENDS ToolExecutor, TLAPS

Sent == [id : Nat \ {0}, by : Callers, method : Methods \cup {"initialize"}]

Lines == [request : Sent, kind : Kinds]

Types ==
  /\ queue \in Seq(Callers)
  /\ pc \in [Callers -> {"idle", "queued", "handshake", "reading"} \cup Writing]
  /\ req \in [Callers -> Nat]
  /\ method \in [Callers -> Methods]
  /\ outcome \in [Callers -> Kinds \cup {"none", "failed", "timeout"}]
  /\ answer \in [Callers -> SUBSET Sent]
  /\ lastId \in Nat
  /\ started \in 0..MaxServers
  /\ server \in {"none", "running", "stalled", "exited", "reaped"}
  /\ initialized \in BOOLEAN
  /\ spoiled \in BOOLEAN
  /\ pending \in SUBSET Sent
  /\ stdout \in Seq(Lines)
  /\ contact \in BOOLEAN
  /\ tool \in [Callers -> Tools \cup {"none"}]
  /\ used \in 0..MaxUses
  /\ misread \in SUBSET Callers

\* What is past the acquisition of the lock.
Inside == {"handshake", "reading"} \cup Writing

\* Where a coroutine is at the handshake of the process it has started.
Greeting == {"greeting", "handshake", "notifying"}

InLine(c) == \E i \in 1..Len(queue) : queue[i] = c

\* The lock: a coroutine waits once, as long as its call lasts, and is past the
\* acquisition only at the head of the queue.
LockInv ==
  /\ \A i, k \in 1..Len(queue) : queue[i] = queue[k] => i = k
  /\ \A c \in Callers : pc[c] # "idle" <=> InLine(c)
  /\ \A c \in Callers : pc[c] \in Inside => Holds(c)

\* A process that is alive has been through a handshake, well or badly, or somebody
\* is at it.
ServerInv ==
  /\ Alive => initialized \/ spoiled \/ \E c \in Callers : pc[c] \in Greeting
  /\ HandshakeFirst

\* The requests that may still be answered, or have been.
Open == pending \cup {stdout[i].request : i \in 1..Len(stdout)}

Own(c) == [id |-> req[c], by |-> c, method |-> method[c]]

\* No id is used twice; what answers the id a coroutine awaits is its request.
IdsInv ==
  /\ \A r \in Open : r.id <= lastId
  /\ \A c \in Callers : req[c] <= lastId
  /\ \A c \in Callers : pc[c] \in {"sending", "reading"} =>
       \A r \in Open : r.id = req[c] => r = Own(c)
  /\ \A c \in Callers : pc[c] # "idle" => outcome[c] = "none"
  /\ AnswerIsOwn

\* What a kind of answer to a request tells of the contact.
Tells(kind, m) ==
  /\ kind = "conflict" => contact
  /\ kind = "ok" /\ m \in {"create", "search"} => contact
  /\ kind = "nothing" => m = "search"

\* What is known of the contact by those who have been told of it.
ContactInv ==
  /\ \A i \in 1..Len(stdout) : Tells(stdout[i].kind, stdout[i].request.method)
  /\ \A c \in Callers : Tells(outcome[c], method[c])
  /\ \A c \in Callers : tool[c] = "hubspot_upsert_contact" =>
       \/ method[c] = "create"
       \/ method[c] = "search" /\ (contact \/ c \in misread)

-----------------------------------------------------------------------------
(* The queue of the lock. *)

LEMMA HeadHolds ==
  ASSUME Types, NEW c \in Callers
  PROVE  Holds(c) <=> Len(queue) > 0 /\ queue[1] = c
BY DEF Types, Holds

\* Only the head of the queue is past the acquisition.
LEMMA OneInside ==
  ASSUME Types, LockInv, NEW c \in Callers, Holds(c), NEW d \in Callers, d # c
  PROVE  pc[d] \notin Inside
BY HeadHolds DEF LockInv

LEMMA CallKeepsLock ==
  ASSUME Types, LockInv, NEW c \in Callers, NEW m \in Methods, Call(c, m)
  PROVE  LockInv'
<1>1. /\ pc[c] = "idle" /\ pc' = [pc EXCEPT ![c] = "queued"]
      /\ queue' = Append(queue, c) /\ queue \in Seq(Callers)
  BY DEF Call, Types
<1>2. /\ Len(queue') = Len(queue) + 1
      /\ \A i \in 1..Len(queue) : queue'[i] = queue[i]
      /\ queue'[Len(queue) + 1] = c
      /\ Len(queue) \in Nat
  BY <1>1
<1>3. \A i \in 1..Len(queue) : queue[i] # c
  BY <1>1 DEF LockInv, InLine
<1>4. \A i, k \in 1..Len(queue') : queue'[i] = queue'[k] => i = k
  BY <1>2, <1>3 DEF LockInv
<1>5. ASSUME NEW d \in Callers
      PROVE  pc'[d] # "idle" <=> InLine(d)'
  <2>1. CASE d = c
    BY <1>1, <1>2, <2>1 DEF InLine, Types
  <2>2. CASE d # c
    BY <1>1, <1>2, <2>2 DEF LockInv, InLine, Types
  <2> QED
    BY <2>1, <2>2
<1>6. ASSUME NEW d \in Callers, pc'[d] \in Inside
      PROVE  Holds(d)'
  <2>1. d # c /\ pc[d] \in Inside
    BY <1>1, <1>6 DEF Types, Inside, Writing
  <2>2. Len(queue) > 0 /\ queue[1] = d
    BY <2>1, HeadHolds DEF LockInv
  <2> QED
    BY <1>1, <1>2, <2>2 DEF Holds
<1> QED
  BY <1>4, <1>5, <1>6 DEF LockInv

LEMMA EndKeepsLock ==
  ASSUME Types, LockInv, NEW c \in Callers, NEW how, NEW to, End(c, how, to), Holds(c)
  PROVE  LockInv' /\ queue' \in Seq(Callers)
<1>1. /\ pc' = [pc EXCEPT ![c] = "idle"]
      /\ queue' = Tail(queue) /\ queue \in Seq(Callers)
      /\ Len(queue) > 0 /\ queue[1] = c
  BY HeadHolds DEF End, Types
<1>2. /\ Len(queue) \in Nat
      /\ queue' \in Seq(Callers)
      /\ Len(queue') = Len(queue) - 1
      /\ \A i \in 1..Len(queue') : queue'[i] = queue[i + 1]
  BY <1>1
<1>3. \A i \in 1..Len(queue) : queue[i] = c => i = 1
  BY <1>1, <1>2 DEF LockInv
<1>4. \A i, k \in 1..Len(queue') : queue'[i] = queue'[k] => i = k
  BY <1>2 DEF LockInv
<1>5. ASSUME NEW d \in Callers
      PROVE  pc'[d] # "idle" <=> InLine(d)'
  <2>1. CASE d = c
    BY <1>1, <1>2, <1>3, <2>1 DEF InLine, Types
  <2>2. CASE d # c
    <3>1. InLine(d) <=> \E i \in 2..Len(queue) : queue[i] = d
      BY <1>1, <1>2, <2>2 DEF InLine
    <3>2. InLine(d)' <=> \E i \in 2..Len(queue) : queue[i] = d
      <4>1. ASSUME NEW i \in 2..Len(queue), queue[i] = d PROVE InLine(d)'
        <5>1. i - 1 \in 1..Len(queue') /\ queue'[i - 1] = d
          BY <1>2, <4>1
        <5> QED
          BY <5>1 DEF InLine
      <4>2. ASSUME NEW i \in 1..Len(queue'), queue'[i] = d
            PROVE  i + 1 \in 2..Len(queue) /\ queue[i + 1] = d
        BY <1>2, <4>2
      <4> QED
        BY <4>1, <4>2 DEF InLine
    <3> QED
      BY <1>1, <2>2, <3>1, <3>2 DEF LockInv, Types
  <2> QED
    BY <2>1, <2>2
<1>6. ASSUME NEW d \in Callers, pc'[d] \in Inside
      PROVE  FALSE
  <2>1. d # c /\ pc[d] \in Inside
    BY <1>1, <1>6 DEF Types, Inside, Writing
  <2> QED
    BY <2>1, OneInside
<1> QED
  BY <1>2, <1>4, <1>5, <1>6 DEF LockInv

\* The holder goes on.
LEMMA MoveKeepsLock ==
  ASSUME Types, LockInv, NEW c \in Callers, Holds(c), pc[c] # "idle",
         NEW p \in Inside, pc' = [pc EXCEPT ![c] = p], UNCHANGED queue
  PROVE  LockInv'
BY DEF Types, LockInv, Inside, InLine, Holds, Writing

\* What may still be answered was sent.
LEMMA OpenIsSent == Types => Open \subseteq Sent
<1> SUFFICES ASSUME Types, NEW i \in 1..Len(stdout) PROVE stdout[i].request \in Sent
  BY DEF Types, Open
<1>1. stdout[i] \in Lines
  BY DEF Types
<1> QED
  BY <1>1 DEF Lines

-----------------------------------------------------------------------------
(* The steps, by what they do to the state. *)

Inv == Types /\ LockInv /\ ServerInv /\ IdsInv /\ ContactInv

LEMMA InvInit == Init => Inv
<1> SUFFICES ASSUME Init PROVE Inv
  OBVIOUS
<1> USE DEF Init, ClientInit
<1>1. Types
  <2>1. queue \in Seq(Callers) /\ stdout \in Seq(Lines)
    OBVIOUS
  <2>2. started \in 0..MaxServers /\ used \in 0..MaxUses
    BY McpAssumption, ExecutorAssumption DEF McpAssumption, ExecutorAssumption
  <2> QED
    BY <2>1, <2>2 DEF Types, Methods, Tools, Writing, Kinds
<1>2. LockInv /\ ServerInv
  BY DEF LockInv, ServerInv, HandshakeFirst, Inside, InLine, Alive, Writing
<1>3. IdsInv
  BY DEF IdsInv, Open, AnswerIsOwn, Kinds
<1>4. ContactInv
  BY DEF ContactInv, Tells, Tools
<1> QED
  BY <1>1, <1>2, <1>3, <1>4 DEF Inv

\* A tool makes its first call, or the upsert its second.
LEMMA CallKeeps ==
  ASSUME Inv, NEW c \in Callers, NEW m \in Methods, Call(c, m),
         tool' \in [Callers -> Tools \cup {"none"}], misread' \in SUBSET Callers,
         \A d \in Callers : d # c => tool'[d] = tool[d] /\ (d \in misread => d \in misread'),
         used' \in 0..MaxUses,
         tool'[c] = "hubspot_upsert_contact" =>
           m = "create" \/ (m = "search" /\ (contact \/ c \in misread'))
  PROVE  Inv'
<1>1. Types'
  <2>1. queue' \in Seq(Callers)
    BY DEF Inv, Types, Call
  <2> QED
    BY <2>1 DEF Inv, Types, Call, serverVars
<1>2. LockInv'
  BY CallKeepsLock DEF Inv
<1>3. ServerInv'
  BY DEF Inv, Types, ServerInv, HandshakeFirst, Call, serverVars, Alive, Greeting
<1>4. IdsInv'
  BY DEF Inv, Types, IdsInv, Open, Own, AnswerIsOwn, Call, serverVars, Kinds
<1>5. ContactInv'
  BY DEF Inv, Types, ContactInv, Tells, Call, serverVars
<1> QED
  BY <1>1, <1>2, <1>3, <1>4, <1>5 DEF Inv

LEMMA ReturnKeeps ==
  ASSUME Inv, NEW c \in Callers, Return(c)
  PROVE  Inv'
<1>1. Types'
  BY DEF Inv, Types, Return, serverVars, Tools, Methods
<1>2. LockInv'
  BY DEF Inv, LockInv, Return, InLine, Holds
<1>3. ServerInv'
  BY DEF Inv, ServerInv, HandshakeFirst, Return, serverVars, Alive
<1>4. IdsInv'
  <2>1. /\ pc[c] = "idle" /\ pc' = pc /\ Open' = Open /\ lastId' = lastId
        /\ req' = [req EXCEPT ![c] = 0] /\ method' = [method EXCEPT ![c] = "other"]
        /\ outcome' = [outcome EXCEPT ![c] = "none"] /\ answer' = [answer EXCEPT ![c] = {}]
    BY DEF Return, Ended, Open, serverVars
  <2>2. \A d \in Callers : req'[d] <= lastId'
    BY <2>1 DEF Inv, Types, IdsInv
  <2>3. \A d \in Callers : d # c => Own(d)' = Own(d)
    BY <2>1 DEF Inv, Types, Own
  <2>4. AnswerIsOwn'
    BY <2>1 DEF Inv, Types, IdsInv, AnswerIsOwn, Kinds
  <2> QED
    BY <2>1, <2>2, <2>3, <2>4 DEF Inv, Types, IdsInv
<1>5. ContactInv'
  BY DEF Inv, Types, ContactInv, Tells, Return, serverVars, Tools
<1> QED
  BY <1>1, <1>2, <1>3, <1>4, <1>5 DEF Inv

\* A call ends without an answer.
LEMMA FailedEndKeeps ==
  ASSUME Inv, NEW c \in Callers, Holds(c), pc[c] # "idle",
         NEW how \in {"failed", "timeout"}, End(c, how, {}),
         lastId' \in Nat, lastId <= lastId',
         UNCHANGED <<started, server, initialized, pending, contact, executorVars>>,
         spoiled' \in BOOLEAN, spoiled => spoiled',
         pc[c] \in Greeting => spoiled' \/ ~Alive,
         stdout' \in Seq(Lines),
         \A i \in 1..Len(stdout') : \E k \in 1..Len(stdout) : stdout'[i] = stdout[k]
  PROVE  Inv'
<1>1. Types'
  BY EndKeepsLock DEF Inv, Types, End, executorVars
<1>2. LockInv'
  BY EndKeepsLock DEF Inv
<1>3. ServerInv'
  BY DEF Inv, Types, ServerInv, HandshakeFirst, End, Alive, Greeting
<1>4. IdsInv'
  <2>1. \A r \in Open' : r \in Open
    BY DEF Open
  <2>2. \A r \in Open' : r.id <= lastId'
    BY <2>1, OpenIsSent DEF Inv, Types, IdsInv, Sent
  <2> QED
    BY <2>1, <2>2 DEF Inv, Types, IdsInv, Own, AnswerIsOwn, End, Kinds
<1>5. ContactInv'
  <2>1. /\ \A d \in Callers : outcome'[d] = IF d = c THEN how ELSE outcome[d]
        /\ UNCHANGED <<method, tool, misread, contact>>
    BY DEF Inv, Types, End, executorVars
  <2> QED
    BY <2>1 DEF Inv, ContactInv, Tells
<1> QED
  BY <1>1, <1>2, <1>3, <1>4, <1>5 DEF Inv

\* A request goes out: its id is new, and no handshake is under way.
LEMMA SendKeeps ==
  ASSUME Inv, NEW c \in Callers, Holds(c), SendRequest(c), UNCHANGED executorVars,
         \/ pc[c] = "queued" /\ Alive /\ UNCHANGED initialized
         \/ pc[c] = "notifying" /\ initialized' = TRUE
  PROVE  Inv'
<1> DEFINE request == [id |-> lastId + 1, by |-> c, method |-> method[c]]
<1>1. /\ pc' = [pc EXCEPT ![c] = "sending"]
      /\ req' = [req EXCEPT ![c] = lastId + 1]
      /\ lastId' = lastId + 1
      /\ pending' \subseteq pending \cup {request}
      /\ UNCHANGED <<queue, method, outcome, answer, started, server, spoiled, stdout,
                     contact, tool, used, misread>>
  BY DEF SendRequest, NextId, executorVars
<1>2. request \in Sent
  BY DEF Inv, Types, Sent
<1>3. Types'
  <2>1. initialized' \in BOOLEAN
    BY DEF Inv, Types
  <2>2. /\ pc' \in [Callers -> {"idle", "queued", "handshake", "reading"} \cup Writing]
        /\ req' \in [Callers -> Nat] /\ lastId' \in Nat /\ pending' \in SUBSET Sent
    BY <1>1, <1>2 DEF Inv, Types, Writing
  <2> QED
    BY <1>1, <2>1, <2>2 DEF Inv, Types
<1>4. LockInv'
  BY <1>1, MoveKeepsLock DEF Inv, Inside, Writing
<1>5. ServerInv'
  <2>1. \A d \in Callers : d # c => pc[d] \notin Inside
    BY OneInside DEF Inv
  <2>2. initialized' \/ spoiled
    BY <2>1 DEF Inv, ServerInv, Inside, Greeting, Writing
  <2> QED
    BY <1>1, <2>2 DEF ServerInv, HandshakeFirst
<1>6. IdsInv'
  <2>1. \A r \in Open' : r \in Open \/ r = request
    BY <1>1 DEF Open
  <2>2. \A r \in Open : r.id \in Nat /\ r.id <= lastId
    BY OpenIsSent DEF Inv, IdsInv, Sent
  <2>3. \A r \in Open' : r.id <= lastId'
    <3>1. lastId \in Nat /\ request.id = lastId + 1
      BY DEF Inv, Types
    <3> QED
      BY <1>1, <2>1, <2>2, <3>1
  <2>4. \A d \in Callers : req'[d] <= lastId'
    BY <1>1 DEF Inv, Types, IdsInv
  <2>5. ASSUME NEW d \in Callers, pc'[d] \in {"sending", "reading"}, NEW r \in Open', r.id = req'[d]
        PROVE  r = Own(d)'
    <3>1. CASE d = c
      BY <1>1, <2>1, <2>2, <2>5, <3>1 DEF Inv, Types, Own
    <3>2. CASE d # c
      BY <1>1, <2>1, <2>2, <2>5, <3>2 DEF Inv, Types, IdsInv, Own
    <3> QED
      BY <3>1, <3>2
  <2>6. /\ \A d \in Callers : pc'[d] # "idle" => outcome'[d] = "none"
        /\ AnswerIsOwn'
    BY <1>1 DEF Inv, Types, IdsInv, AnswerIsOwn, Kinds
  <2> QED
    BY <2>3, <2>4, <2>5, <2>6 DEF IdsInv
<1>7. ContactInv'
  BY <1>1 DEF Inv, ContactInv, Tells
<1> QED
  BY <1>3, <1>4, <1>5, <1>6, <1>7 DEF Inv

\* A new process replaces one that is gone; the holder of the lock is at its
\* handshake.
LEMMA StartServerKeeps ==
  ASSUME Inv, NEW c \in Callers, StartServer(c), UNCHANGED executorVars
  PROVE  Inv'
<1> DEFINE request == [id |-> lastId + 1, by |-> c, method |-> "initialize"]
<1>1. /\ pc[c] = "queued" /\ Holds(c)
      /\ pc' = [pc EXCEPT ![c] = "greeting"]
      /\ started < MaxServers /\ started' = started + 1
      /\ req' = [req EXCEPT ![c] = lastId + 1]
      /\ lastId' = lastId + 1
      /\ server' = "running" /\ initialized' = FALSE /\ spoiled' = FALSE
      /\ pending' = {request} /\ stdout' = <<>>
      /\ UNCHANGED <<queue, method, outcome, answer, contact, tool, used, misread>>
  BY DEF StartServer, NextId, executorVars
<1>2. request \in Sent /\ stdout' \in Seq(Lines)
  BY <1>1 DEF Inv, Types, Sent
<1>3. Types'
  <2>1. /\ lastId' \in Nat
        /\ pc' \in [Callers -> {"idle", "queued", "handshake", "reading"} \cup Writing]
    BY <1>1 DEF Inv, Types, Writing
  <2>2. req' \in [Callers -> Nat]
    BY <1>1 DEF Inv, Types
  <2>3. /\ server' \in {"none", "running", "stalled", "exited", "reaped"}
        /\ initialized' \in BOOLEAN /\ spoiled' \in BOOLEAN
    BY <1>1 DEF Inv, Types
  <2>5. started' \in 0..MaxServers
    BY <1>1, McpAssumption DEF Inv, Types, McpAssumption
  <2>4. pending' \in SUBSET Sent
    BY <1>1, <1>2
  <2> QED
    BY <1>1, <1>2, <2>1, <2>2, <2>3, <2>4, <2>5 DEF Inv, Types
<1>4. LockInv'
  BY <1>1, MoveKeepsLock DEF Inv, Inside, Writing
<1>others. \A d \in Callers : d # c => pc[d] \notin Inside
  BY <1>1, OneInside DEF Inv
<1>5. ServerInv'
  BY <1>1, <1>others DEF Inv, Types, ServerInv, HandshakeFirst, Inside, Writing, Greeting
<1>6. IdsInv'
  <2>1. Open' = {request}
    BY <1>1 DEF Open
  <2>2. \A d \in Callers : pc'[d] \notin {"sending", "reading"}
    BY <1>1, <1>others DEF Inv, Types, Inside, Writing
  <2>3. \A d \in Callers : req'[d] <= lastId'
    BY <1>1 DEF Inv, Types, IdsInv
  <2>4. /\ \A d \in Callers : pc'[d] # "idle" => outcome'[d] = "none"
        /\ AnswerIsOwn'
    BY <1>1 DEF Inv, Types, IdsInv, AnswerIsOwn, Kinds
  <2>5. \A r \in Open' : r.id <= lastId'
    BY <1>1, <2>1 DEF Inv, Types
  <2> QED
    BY <2>2, <2>3, <2>4, <2>5 DEF IdsInv
<1>7. ContactInv'
  BY <1>1 DEF Inv, ContactInv, Tells
<1> QED
  BY <1>3, <1>4, <1>5, <1>6, <1>7 DEF Inv

\* What a reader takes off the stream.
LEMMA LineRead ==
  ASSUME Types, stdout # <<>>, stdout' = Tail(stdout)
  PROVE  /\ Head(stdout) = stdout[1] /\ 1 \in 1..Len(stdout) /\ stdout[1] \in Lines
         /\ stdout' \in Seq(Lines)
         /\ \A i \in 1..Len(stdout') : \E k \in 1..Len(stdout) : stdout'[i] = stdout[k]
<1>1. stdout \in Seq(Lines) /\ Len(stdout) > 0 /\ Len(stdout) \in Nat
  BY DEF Types
<1>2. Len(stdout') = Len(stdout) - 1 /\ \A i \in 1..Len(stdout') : stdout'[i] = stdout[i + 1]
  BY <1>1
<1>3. \A i \in 1..Len(stdout') : i + 1 \in 1..Len(stdout)
  BY <1>1, <1>2
<1> QED
  BY <1>1, <1>2, <1>3

\* A step inside the lock that only takes a line off the stream, or ends the
\* handshake with it.
LEMMA LineDroppedKeeps ==
  ASSUME Inv, stdout # <<>>, stdout' = Tail(stdout),
         UNCHANGED <<callVars, lastId, started, server, initialized, spoiled, pending, contact,
                     executorVars>>
  PROVE  Inv'
<1>1. /\ stdout' \in Seq(Lines)
      /\ \A i \in 1..Len(stdout') : \E k \in 1..Len(stdout) : stdout'[i] = stdout[k]
  BY LineRead DEF Inv
<1>2. Open' \subseteq Open
  BY <1>1 DEF Open
<1>3. Types' /\ LockInv' /\ ServerInv'
  BY <1>1 DEF Inv, Types, LockInv, ServerInv, HandshakeFirst, callVars, executorVars, InLine, Holds, Alive
<1>4. IdsInv'
  BY <1>2 DEF Inv, IdsInv, AnswerIsOwn, Own, callVars
<1>5. ContactInv'
  BY <1>1 DEF Inv, ContactInv, Tells, callVars, executorVars
<1> QED
  BY <1>3, <1>4, <1>5 DEF Inv

\* The holder goes on from one point of the handshake to the next, or from the
\* request to its answer.
LEMMA MoveKeeps ==
  ASSUME Inv, NEW c \in Callers, Holds(c), NEW p, pc' = [pc EXCEPT ![c] = p],
         \/ pc[c] \in Greeting /\ p \in Greeting
         \/ pc[c] = "sending" /\ p = "reading",
         stdout' \in Seq(Lines),
         \A i \in 1..Len(stdout') : \E k \in 1..Len(stdout) : stdout'[i] = stdout[k],
         UNCHANGED <<queue, req, method, outcome, answer, lastId, started, server, initialized,
                     spoiled, pending, contact, executorVars>>
  PROVE  Inv'
<1>0. pc[c] \in Inside /\ p \in Inside /\ pc[c] # "idle"
  BY DEF Inside, Greeting, Writing
<1>1. Open' \subseteq Open
  BY DEF Open
<1>2. Types'
  BY <1>0 DEF Inv, Types, Inside, executorVars
<1>3. LockInv'
  BY <1>0, MoveKeepsLock DEF Inv
<1>4. ServerInv'
  BY DEF Inv, Types, ServerInv, HandshakeFirst, Alive, Greeting
<1>5. IdsInv'
  BY <1>0, <1>1 DEF Inv, Types, IdsInv, AnswerIsOwn, Own, Greeting
<1>6. ContactInv'
  BY DEF Inv, ContactInv, Tells, executorVars
<1> QED
  BY <1>2, <1>3, <1>4, <1>5, <1>6 DEF Inv

LEMMA ReadHandshakeKeeps ==
  ASSUME Inv, NEW c \in Callers, ReadHandshake(c), UNCHANGED executorVars
  PROVE  Inv'
<1>0. /\ pc[c] = "handshake" /\ Holds(c)
      /\ stdout # <<>> /\ stdout' = Tail(stdout)
      /\ UNCHANGED <<queue, req, method, outcome, answer, lastId, started, server, initialized,
                     spoiled, pending, contact, executorVars>>
  BY DEF ReadHandshake, Inv, LockInv, Inside
<1>1. /\ stdout' \in Seq(Lines)
      /\ \A i \in 1..Len(stdout') : \E k \in 1..Len(stdout) : stdout'[i] = stdout[k]
  BY <1>0, LineRead DEF Inv
<1>2. CASE pc' = pc
  BY <1>0, <1>2, LineDroppedKeeps DEF callVars
<1>3. CASE pc' = [pc EXCEPT ![c] = "notifying"]
  BY <1>0, <1>1, <1>3, MoveKeeps DEF Greeting
<1> QED
  BY <1>2, <1>3 DEF ReadHandshake

\* drain() returns, or finds that the server is gone.
LEMMA DrainKeeps ==
  ASSUME Inv, NEW c \in Callers, Drained(c) \/ DrainFails(c), UNCHANGED executorVars
  PROVE  Inv'
<1>0. Holds(c) /\ pc[c] # "idle"
  BY DEF Inv, LockInv, Inside, Drained, DrainFails, Writing
<1>1. CASE pc[c] = "notifying" /\ initialized' = TRUE /\ SendRequest(c)
  BY <1>0, <1>1, SendKeeps
<1>2. ASSUME NEW p, pc' = [pc EXCEPT ![c] = p],
             \/ pc[c] = "greeting" /\ p = "handshake"
             \/ pc[c] = "sending" /\ p = "reading",
             UNCHANGED <<queue, req, method, outcome, answer, lastId, serverVars, contact>>
      PROVE  Inv'
  <2>1. /\ stdout' \in Seq(Lines)
        /\ \A i \in 1..Len(stdout') : \E k \in 1..Len(stdout) : stdout'[i] = stdout[k]
    BY <1>2 DEF Inv, Types, serverVars
  <2> QED
    BY <1>0, <1>2, <2>1, MoveKeeps DEF Greeting, serverVars
<1>3. CASE DrainFails(c)
  <2>1. /\ End(c, "failed", {}) /\ spoiled' = (spoiled \/ pc[c] # "sending")
        /\ UNCHANGED <<lastId, started, server, initialized, pending, stdout, contact, executorVars>>
    BY <1>3 DEF DrainFails
  <2>2. lastId' \in Nat /\ lastId <= lastId' /\ stdout' \in Seq(Lines)
    BY <2>1 DEF Inv, Types
  <2>3. /\ spoiled' \in BOOLEAN /\ (spoiled => spoiled')
        /\ pc[c] \in Greeting => spoiled'
    BY <2>1 DEF Inv, Types, Greeting
  <2> QED
    BY <1>0, <2>1, <2>2, <2>3, FailedEndKeeps
<1> QED
  BY <1>1, <1>2, <1>3 DEF Drained

LEMMA ReadLineKeeps ==
  ASSUME Inv, NEW c \in Callers, ReadLine(c), UNCHANGED executorVars
  PROVE  Inv'
<1>0. /\ pc[c] = "reading" /\ Holds(c)
      /\ stdout # <<>> /\ stdout' = Tail(stdout)
      /\ UNCHANGED <<lastId, started, server, initialized, spoiled, pending, contact, executorVars>>
  BY DEF ReadLine, Inv, LockInv, Inside
<1>1. /\ Head(stdout) = stdout[1] /\ 1 \in 1..Len(stdout) /\ stdout[1] \in Lines
      /\ stdout' \in Seq(Lines)
      /\ \A i \in 1..Len(stdout') : \E k \in 1..Len(stdout) : stdout'[i] = stdout[k]
  BY <1>0, LineRead DEF Inv
<1>2. CASE UNCHANGED callVars
  BY <1>0, <1>2, LineDroppedKeeps
<1>3. CASE End(c, "failed", {})
  <2>1. /\ pc[c] # "idle" /\ pc[c] \notin Greeting
        /\ lastId' \in Nat /\ lastId <= lastId'
        /\ spoiled' \in BOOLEAN /\ (spoiled => spoiled')
    BY <1>0 DEF Inv, Types, Greeting
  <2> QED
    BY <1>0, <1>1, <1>3, <2>1, FailedEndKeeps
<1>4. CASE Answers(c, Head(stdout)) /\ End(c, Head(stdout).kind, {Head(stdout).request})
  <2> DEFINE line == stdout[1]
  <2>1. /\ line.kind \in Kinds /\ line.request \in Sent
        /\ line.request \in Open /\ line.request.id = req[c]
        /\ End(c, line.kind, {line.request})
    BY <1>1, <1>4 DEF Lines, Open, Answers
  <2>2. line.request = Own(c)
    BY <1>0, <2>1 DEF Inv, IdsInv
  <2>3. Tells(line.kind, method[c])
    BY <1>1, <2>2 DEF Inv, ContactInv, Own
  <2> HIDE DEF line
  <2>4. /\ pc' = [pc EXCEPT ![c] = "idle"]
        /\ outcome' = [outcome EXCEPT ![c] = line.kind]
        /\ answer' = [answer EXCEPT ![c] = {Own(c)}]
        /\ UNCHANGED <<req, method>>
    BY <2>1, <2>2 DEF End
  <2>5. LockInv' /\ queue' \in Seq(Callers)
    BY <1>0, <2>1, EndKeepsLock DEF Inv
  <2>6. Types'
    BY <1>0, <1>1, <2>1, <2>2, <2>4, <2>5 DEF Inv, Types, executorVars
  <2>7. ServerInv'
    BY <1>0, <2>4 DEF Inv, Types, ServerInv, HandshakeFirst, Alive, Greeting
  <2>8. IdsInv'
    <3>1. Open' \subseteq Open
      BY <1>0, <1>1 DEF Open
    <3>2. \A d \in Callers : Own(d)' = Own(d)
      BY <2>4 DEF Own
    <3>3. AnswerIsOwn'
      BY <2>4, <3>2 DEF Inv, Types, IdsInv, AnswerIsOwn, Own
    <3> QED
      BY <1>0, <2>4, <3>1, <3>2, <3>3 DEF Inv, Types, IdsInv
  <2>9. ContactInv'
    BY <1>0, <1>1, <2>3, <2>4 DEF Inv, Types, ContactInv, Tells, executorVars
  <2> QED
    BY <2>5, <2>6, <2>7, <2>8, <2>9 DEF Inv
<1> QED
  BY <1>2, <1>3, <1>4 DEF ReadLine

\* HubSpot's answer to a request: a contact that was refused as a conflict, or
\* created, is there.
LEMMA AnswerKeeps ==
  ASSUME Inv, NEW request \in pending, Answer(request), UNCHANGED executorVars
  PROVE  Inv'
<1> PICK kind \in Result(request.method) :
      /\ CarryOut(request, kind)
      /\ stdout' = Append(stdout, [request |-> request, kind |-> kind])
  BY DEF Answer
<1> DEFINE line == [request |-> request, kind |-> kind]
<1>1. /\ pending' = pending \ {request}
      /\ UNCHANGED <<queue, pc, req, method, outcome, answer, lastId, started, server,
                     initialized, spoiled, tool, used, misread>>
  BY DEF Answer, callVars, executorVars
<1>2. request \in Sent /\ kind \in Kinds /\ line \in Lines
  BY DEF Inv, Types, Result, Lines, Kinds, Sent, Methods
<1>3. /\ stdout' \in Seq(Lines)
      /\ Len(stdout) \in Nat /\ Len(stdout') = Len(stdout) + 1
      /\ \A i \in 1..Len(stdout) : stdout'[i] = stdout[i]
      /\ stdout'[Len(stdout) + 1] = line
  BY <1>2 DEF Inv, Types
<1>4. /\ contact' \in BOOLEAN /\ (contact => contact')
      /\ Tells(kind, request.method)'
  BY <1>2 DEF CarryOut, Result, Inv, Types, Tells, Sent, Methods
<1>5. \A r \in Open' : r \in Open
  <2>1. ASSUME NEW i \in 1..Len(stdout') PROVE stdout'[i].request \in Open
    <3>1. CASE i \in 1..Len(stdout)
      BY <1>3, <3>1 DEF Open
    <3>2. CASE i = Len(stdout) + 1
      BY <1>3, <3>2 DEF Open
    <3> QED
      BY <1>3, <2>1, <3>1, <3>2
  <2> QED
    BY <1>1, <2>1 DEF Open
<1>6. Types'
  BY <1>1, <1>3, <1>4 DEF Inv, Types
<1>7. LockInv' /\ ServerInv'
  BY <1>1 DEF Inv, LockInv, ServerInv, HandshakeFirst, InLine, Holds, Alive
<1>8. IdsInv'
  BY <1>1, <1>5 DEF Inv, IdsInv, AnswerIsOwn, Own
<1>9. ContactInv'
  <2>1. ASSUME NEW i \in 1..Len(stdout')
        PROVE  Tells(stdout[i].kind, stdout[i].request.method)'
    <3>1. CASE i \in 1..Len(stdout)
      BY <1>3, <1>4, <3>1 DEF Inv, ContactInv, Tells
    <3>2. CASE i = Len(stdout) + 1
      BY <1>3, <1>4, <3>2
    <3> QED
      BY <1>3, <2>1, <3>1, <3>2
  <2> QED
    BY <1>1, <1>4, <2>1 DEF Inv, ContactInv, Tells
<1> QED
  BY <1>6, <1>7, <1>8, <1>9 DEF Inv

LEMMA StopKeeps ==
  ASSUME Inv, Stall \/ Stop \/ Reap, UNCHANGED executorVars
  PROVE  Inv'
<1>1. /\ UNCHANGED <<queue, pc, req, method, outcome, answer, lastId, started, initialized,
                     spoiled, stdout, tool, used, misread>>
      /\ pending' \subseteq pending
      /\ server' \in {"stalled", "exited", "reaped"}
      /\ Alive
  BY DEF Stall, Stop, Reap, callVars, executorVars, Alive
<1>2. contact' \in BOOLEAN /\ (contact => contact')
  BY DEF Stall, Stop, Reap, CarryOut, Inv, Types
<1>3. Open' \subseteq Open
  BY <1>1 DEF Open
<1>4. Types'
  BY <1>1, <1>2 DEF Inv, Types
<1>5. LockInv' /\ ServerInv'
  BY <1>1 DEF Inv, LockInv, ServerInv, HandshakeFirst, InLine, Holds, Alive
<1>6. IdsInv'
  BY <1>1, <1>3 DEF Inv, IdsInv, AnswerIsOwn, Own
<1>7. ContactInv'
  BY <1>1, <1>2 DEF Inv, ContactInv, Tells
<1> QED
  BY <1>4, <1>5, <1>6, <1>7 DEF Inv

\* Every end of a call that takes nothing off the stream.
LEMMA QuietEndKeeps ==
  ASSUME Inv, NEW c \in Callers, Holds(c), pc[c] # "idle",
         NEW how \in {"failed", "timeout"}, End(c, how, {}),
         UNCHANGED <<lastId, serverVars, contact, executorVars>>,
         pc[c] \notin Greeting
  PROVE  Inv'
<1>1. lastId' \in Nat /\ lastId <= lastId'
  BY DEF Inv, Types
<1>2. /\ UNCHANGED <<started, server, initialized, spoiled, pending, stdout, contact, executorVars>>
      /\ spoiled' \in BOOLEAN /\ (spoiled => spoiled') /\ stdout' \in Seq(Lines)
  BY DEF Inv, Types, serverVars
<1> QED
  BY <1>1, <1>2, FailedEndKeeps

LEMMA ClientStepKeeps ==
  ASSUME Inv, NEW c \in Callers, ClientStep(c), UNCHANGED executorVars
  PROVE  Inv'
<1>0. pc[c] \in Inside => Holds(c)
  BY DEF Inv, LockInv
<1>1. CASE UseServer(c)
  BY <1>1, SendKeeps DEF UseServer
<1>2. CASE StartServer(c)
  BY <1>2, StartServerKeeps
<1>3. CASE SpawnFails(c)
  BY <1>3, QuietEndKeeps DEF SpawnFails, Greeting
<1>4. CASE ReadHandshake(c)
  BY <1>4, ReadHandshakeKeeps
<1>5. CASE HandshakeTimeout(c)
  <2>1. /\ Holds(c) /\ pc[c] # "idle" /\ End(c, "failed", {}) /\ spoiled' = TRUE
        /\ UNCHANGED <<lastId, started, server, initialized, pending, stdout, contact, executorVars>>
    BY <1>0, <1>5 DEF HandshakeTimeout, Inside
  <2>2. lastId' \in Nat /\ lastId <= lastId' /\ stdout' \in Seq(Lines)
    BY <2>1 DEF Inv, Types
  <2> QED
    BY <2>1, <2>2, FailedEndKeeps
<1>6. CASE Drained(c) \/ DrainFails(c)
  BY <1>6, DrainKeeps
<1>7. CASE ReadLine(c)
  BY <1>7, ReadLineKeeps
<1>8. CASE ReadEnd(c)
  BY <1>0, <1>8, QuietEndKeeps DEF ReadEnd, Inside, Greeting
<1>9. CASE CallTimeout(c)
  BY <1>0, <1>9, QuietEndKeeps DEF CallTimeout, Inside, Greeting
<1> QED
  BY <1>1, <1>2, <1>3, <1>4, <1>5, <1>6, <1>7, <1>8, <1>9 DEF ClientStep

LEMMA ExecuteKeeps ==
  ASSUME Inv, NEW c \in Callers, NEW t \in Uses[c], Execute(c, t)
  PROVE  Inv'
<1>1. t \in Tools
  BY ExecutorAssumption DEF ExecutorAssumption
<1>2. FirstMethod(t) \in Methods /\ (t = "hubspot_upsert_contact" => FirstMethod(t) = "create")
  BY DEF FirstMethod, Methods
<1>3. /\ Call(c, FirstMethod(t)) /\ tool' = [tool EXCEPT ![c] = t] /\ misread' = misread
      /\ used' \in 0..MaxUses
  BY ExecutorAssumption DEF Execute, Inv, Types, ExecutorAssumption
<1>4. /\ tool' \in [Callers -> Tools \cup {"none"}] /\ misread' \in SUBSET Callers
      /\ \A d \in Callers : d # c => tool'[d] = tool[d] /\ (d \in misread => d \in misread')
      /\ tool'[c] = t
  BY <1>1, <1>3 DEF Inv, Types
<1> QED
  BY <1>2, <1>3, <1>4, CallKeeps

LEMMA SearchKeeps ==
  ASSUME Inv, NEW c \in Callers, SearchInstead(c)
  PROVE  Inv'
<1>1. /\ Call(c, "search") /\ tool' = tool /\ used' = used
      /\ misread' = IF outcome[c] \in {"alike", "timeout"} THEN misread \cup {c} ELSE misread
      /\ outcome[c] \in {"conflict", "alike", "timeout"}
  BY DEF SearchInstead, FallsBack, ReadsAsConflict
<1>2. contact \/ c \in misread'
  BY <1>1 DEF Inv, ContactInv, Tells
<1>3. /\ used' \in 0..MaxUses
      /\ tool' \in [Callers -> Tools \cup {"none"}] /\ misread' \in SUBSET Callers
      /\ \A d \in Callers : d # c => tool'[d] = tool[d] /\ (d \in misread => d \in misread')
      /\ "search" \in Methods
  BY <1>1 DEF Inv, Types, Methods
<1> QED
  BY <1>1, <1>2, <1>3, CallKeeps

LEMMA InvStep == Inv /\ [Next]_vars => Inv'
<1> SUFFICES ASSUME Inv, [Next]_vars PROVE Inv'
  OBVIOUS
<1>1. ASSUME NEW c \in Callers, NEW t \in Uses[c], Execute(c, t) PROVE Inv'
  BY <1>1, ExecuteKeeps
<1>2. ASSUME NEW c \in Callers, ExecutorStep(c) PROVE Inv'
  BY <1>2, SearchKeeps, ReturnKeeps DEF ExecutorStep
<1>3. ASSUME NEW c \in Callers, ClientStep(c), UNCHANGED executorVars PROVE Inv'
  BY <1>3, ClientStepKeeps
<1>4. CASE ServerStep /\ UNCHANGED executorVars
  BY <1>4, AnswerKeeps, StopKeeps DEF ServerStep
<1>5. CASE UNCHANGED vars
  BY <1>5 DEF vars, clientVars, callVars, serverVars, executorVars, Inv, Types, LockInv, ServerInv,
     HandshakeFirst, IdsInv, ContactInv, Tells, InLine, Holds, Alive, Open, Own, AnswerIsOwn
<1> QED
  BY <1>1, <1>2, <1>3, <1>4, <1>5 DEF Next

LEMMA InvHolds == Spec => []Inv
BY InvInit, InvStep, PTL DEF Spec

-----------------------------------------------------------------------------

\* For any number of coroutines and requests: a call that an answer has ended has
\* read that to its own request, however late the answers to others come in.
THEOREM AnswersAreOwn == Spec => []AnswerIsOwn
<1>1. Inv => AnswerIsOwn
  BY DEF Inv, IdsInv
<1> QED
  BY <1>1, InvHolds, PTL

\* A process that has not completed its handshake is sent a request only after a
\* handshake with it has failed.
THEOREM HandshakesComeFirst == Spec => []HandshakeFirst
<1>1. Inv => HandshakeFirst
  BY DEF Inv, ServerInv
<1> QED
  BY <1>1, InvHolds, PTL

\* An upsert that returns a contact leaves it in HubSpot, whoever created it; so does
\* one that comes back empty-handed from the search after a conflict.  A refusal
\* returned as a result, and a search after an error that only reads like a
\* conflict, promise nothing.
THEOREM UpsertsAreReal == Spec => []UpsertedExists
<1>1. Inv => UpsertedExists
  BY DEF Inv, ContactInv, Tells, UpsertedExists
<1> QED
  BY <1>1, InvHolds, PTL

-----------------------------------------------------------------------------
(* The ids. *)

\* A request awaited has an id, and an answer one that was given out.
GivenInv ==
  /\ \A c \in Callers : pc[c] \notin {"idle", "queued"} => req[c] > 0
  /\ \A c \in Callers : \A r \in answer[c] : r.id <= lastId

LEMMA GivenInvStep == Inv /\ GivenInv /\ [Next]_vars => GivenInv'
<1> SUFFICES ASSUME Inv, GivenInv, [Next]_vars PROVE GivenInv'
  OBVIOUS
<1>0. /\ Types /\ lastId \in Nat
      /\ \A r \in Open : r.id <= lastId /\ r.id \in Nat
      /\ \A c \in Callers : \A r \in answer[c] : r.id \in Nat
  BY OpenIsSent DEF Inv, Types, IdsInv, Sent
<1>1. ASSUME NEW c \in Callers,
             \/ pc' = [pc EXCEPT ![c] = "queued"]
             \/ pc' = [pc EXCEPT ![c] = "idle"]
             \/ pc' = pc /\ pc[c] = "idle",
             \A d \in Callers : d # c => req'[d] = req[d],
             lastId' = lastId,
             \A d \in Callers : \A r \in answer'[d] : r \in answer[d] \/ r \in Open
      PROVE  GivenInv'
  <2>1. \A d \in Callers : pc'[d] \notin {"idle", "queued"} => req'[d] > 0
    BY <1>0, <1>1 DEF GivenInv, Types
  <2>2. \A d \in Callers : \A r \in answer'[d] : r.id <= lastId'
    BY <1>0, <1>1 DEF GivenInv
  <2> QED
    BY <2>1, <2>2 DEF GivenInv
<1>2. ASSUME NEW c \in Callers, NEW at, pc' = [pc EXCEPT ![c] = at], UNCHANGED answer,
             req' = [req EXCEPT ![c] = lastId + 1], lastId' = lastId + 1
      PROVE  GivenInv'
  <2>1. \A d \in Callers : pc'[d] \notin {"idle", "queued"} => req'[d] > 0
    BY <1>0, <1>2 DEF GivenInv, Types
  <2>2. \A d \in Callers : \A r \in answer'[d] : r.id <= lastId'
    BY <1>0, <1>2 DEF GivenInv
  <2> QED
    BY <2>1, <2>2 DEF GivenInv
<1>3. ASSUME NEW c \in Callers, NEW m, Call(c, m) PROVE GivenInv'
  <2>1. pc' = [pc EXCEPT ![c] = "queued"] /\ UNCHANGED <<req, answer, lastId>>
    BY <1>3 DEF Call
  <2> QED
    BY <1>1, <2>1
<1>4. ASSUME NEW c \in Callers, NEW how, End(c, how, {}), lastId' = lastId
      PROVE  GivenInv'
  <2>1. \A d \in Callers : \A r \in answer'[d] : r \in answer[d]
    BY <1>0, <1>4 DEF End, Types
  <2>2. pc' = [pc EXCEPT ![c] = "idle"] /\ req' = req
    BY <1>4 DEF End
  <2> QED
    BY <1>1, <1>4, <2>1, <2>2
<1>5. ASSUME NEW c \in Callers, Return(c) PROVE GivenInv'
  <2>1. \A d \in Callers : \A r \in answer'[d] : r \in answer[d]
    BY <1>0, <1>5 DEF Return, Types
  <2> QED
    BY <1>0, <1>1, <1>5, <2>1 DEF Return, Ended, Types
<1>6. ASSUME NEW c \in Callers, ReadLine(c) PROVE GivenInv'
  <2>1. CASE UNCHANGED callVars
    BY <1>6, <2>1 DEF ReadLine, callVars, GivenInv
  <2>2. CASE End(c, "failed", {})
    BY <1>4, <1>6, <2>2 DEF ReadLine
  <2>3. CASE End(c, Head(stdout).kind, {Head(stdout).request})
    <3>1. Head(stdout).request \in Open
      <4>1. Head(stdout) = stdout[1] /\ 1 \in 1..Len(stdout)
        BY <1>0, <1>6, LineRead DEF ReadLine
      <4> QED
        BY <4>1 DEF Open
    <3>2. \A d \in Callers : \A r \in answer'[d] : r \in answer[d] \/ r \in Open
      BY <1>0, <2>3, <3>1 DEF End, Types
    <3>3. pc' = [pc EXCEPT ![c] = "idle"] /\ req' = req /\ lastId' = lastId
      BY <1>6, <2>3 DEF ReadLine, End
    <3> QED
      BY <1>1, <3>2, <3>3
  <2> QED
    BY <1>6, <2>1, <2>2, <2>3 DEF ReadLine
<1>7. ASSUME NEW c \in Callers, ReadHandshake(c) \/ Drained(c), ~SendRequest(c)
      PROVE  GivenInv'
  <2>1. /\ pc[c] \notin {"idle", "queued"} /\ UNCHANGED <<req, answer, lastId>>
        /\ pc' = pc \/ \E p : pc' = [pc EXCEPT ![c] = p]
    BY <1>7 DEF ReadHandshake, Drained
  <2> QED
    BY <1>0, <2>1 DEF GivenInv, Types
<1>8. ASSUME NEW c \in Callers, SendRequest(c) \/ StartServer(c) PROVE GivenInv'
  BY <1>2, <1>8 DEF SendRequest, StartServer, NextId
<1>9. ASSUME NEW c \in Callers,
             DrainFails(c) \/ SpawnFails(c) \/ HandshakeTimeout(c) \/ ReadEnd(c) \/ CallTimeout(c)
      PROVE  GivenInv'
  BY <1>4, <1>9 DEF DrainFails, SpawnFails, HandshakeTimeout, ReadEnd, CallTimeout, serverVars
<1>10. ASSUME NEW c \in Callers, ClientStep(c) PROVE GivenInv'
  BY <1>6, <1>7, <1>8, <1>9, <1>10 DEF ClientStep, UseServer
<1>11. ASSUME NEW c \in Callers, ExecutorStep(c) PROVE GivenInv'
  BY <1>3, <1>5, <1>11 DEF ExecutorStep, SearchInstead
<1>12. ASSUME NEW c \in Callers, NEW t, Execute(c, t) PROVE GivenInv'
  BY <1>3, <1>12 DEF Execute
<1>13. CASE UNCHANGED <<pc, req, answer, lastId>>
  BY <1>13 DEF GivenInv
<1> QED
  BY <1>10, <1>11, <1>12, <1>13 DEF Next, ServerStep, Stall, Stop, Reap, Answer, vars, clientVars, callVars

\* The ids are given out one after the other, so what any line or call refers to
\* lies between the first and the last.
LEMMA TypesFollow ==
  ASSUME Inv, GivenInv
  PROVE  TypeOK
<1>1. \A r \in Sent : r.id <= lastId => r \in Requests
  BY DEF Sent, Requests, Inv, Types
<1>2. pending \in SUBSET Requests
  BY <1>1, OpenIsSent DEF Inv, IdsInv, Open
<1>3. \A c \in Callers : answer[c] \in SUBSET Requests
  BY <1>1 DEF GivenInv, Inv, Types
<1>4. stdout \in Seq([request : Requests, kind : Kinds])
  <2> DEFINE Given == [request : Requests, kind : Kinds]
  <2>1. ASSUME NEW i \in 1..Len(stdout)
        PROVE  stdout[i] \in Given
    <3>1. stdout[i] \in Lines /\ stdout[i].request \in Open
      BY DEF Inv, Types, Open
    <3>2. stdout[i].request \in Requests
      BY <1>1, <3>1 DEF Lines, Inv, IdsInv
    <3> QED
      BY <3>1, <3>2 DEF Lines
  <2>2. stdout \in Seq(Lines)
    BY DEF Inv, Types
  <2> HIDE DEF Given
  <2>3. stdout \in Seq(Given)
    BY <2>1, <2>2
  <2> QED
    BY <2>3 DEF Given
<1>5. req \in [Callers -> 0..lastId]
  BY DEF Inv, Types, IdsInv
<1> QED
  BY <1>2, <1>3, <1>4, <1>5 DEF Inv, Types, GivenInv, TypeOK

\* For any number of coroutines, executions and processes: a request that is
\* awaited has an id, and every id in a call, a request or an answer is one that
\* was given out.
THEOREM ExecutorTypes == Spec => []TypeOK
<1>1. Init => GivenInv
  BY DEF Init, ClientInit, GivenInv
<1> QED
  BY <1>1, GivenInvStep, TypesFollow, InvHolds, PTL DEF Spec

=============================================================================
