----------------------------- MODULE McpClient -----------------------------
(***************************************************************************)
(* agent/mcp_client.py: the client that talks JSON-RPC with the HubSpot    *)
(* MCP server, a subprocess it starts when it first needs it and again     *)
(* when it has died.                                                       *)
(*                                                                         *)
(* call() holds an asyncio.Lock, first come first served, from the start   *)
(* of the server to the end of the read loop: the head of queue is the     *)
(* holder.  The server works on the requests it was sent concurrently, so  *)
(* its answers come in any order; it may stop at any time, and it may live *)
(* on without reading: nobody reads its stderr, and once that pipe is full *)
(* it waits.  A message written to it then need not ever be drained.       *)
(***************************************************************************)
EXTENDS Integers, Sequences, SequencesExt

CONSTANTS
  Callers,   \* coroutines that call tools
  MaxServers \* bound on the processes that are started

ASSUME McpAssumption == MaxServers \in Nat

\* The creation of the contact, the search an upsert falls back on, the rest.
Methods == {"create", "search", "other"}

VARIABLES
  queue,        \* _lock: its holder, then the coroutines waiting for it
  pc,           \* where a coroutine is in call()
  req,          \* the id it waits for
  method,       \* what it was asked to call
  outcome,      \* how the call ended
  answer,       \* history: the request whose answer ended it
  lastId,       \* _req_id
  started,      \* processes started so far
  server,       \* _proc: "none", "running", "stalled" (it lives and reads no more),
                \* "exited" or "reaped" (returncode set)
  initialized,  \* _initialized
  spoiled,      \* history: a handshake with this process has failed
  pending,      \* the requests the server works on
  stdout,       \* the answers it wrote that nobody has read
  contact       \* the contact is in HubSpot

callVars == <<queue, pc, req, method, outcome, answer>>
serverVars == <<started, server, initialized, spoiled, pending, stdout>>
clientVars == <<callVars, lastId, serverVars, contact>>

ClientInit ==
  /\ queue = <<>>
  /\ pc = [c \in Callers |-> "idle"]
  /\ req = [c \in Callers |-> 0]
  /\ method = [c \in Callers |-> "other"]
  /\ outcome = [c \in Callers |-> "none"]
  /\ answer = [c \in Callers |-> {}]
  /\ lastId = 0
  /\ started = 0
  /\ server = "none"
  /\ initialized = FALSE
  /\ spoiled = FALSE
  /\ pending = {}
  /\ stdout = <<>>
  /\ contact \in BOOLEAN

-----------------------------------------------------------------------------
(* The client. *)

Holds(c) == queue # <<>> /\ Head(queue) = c

\* client.call(m, ...): it queues for the lock.
Call(c, m) ==
  /\ pc[c] = "idle"
  /\ pc' = [pc EXCEPT ![c] = "queued"]
  /\ method' = [method EXCEPT ![c] = m]
  /\ outcome' = [outcome EXCEPT ![c] = "none"]
  /\ queue' = Append(queue, c)
  /\ UNCHANGED <<req, answer, lastId, serverVars, contact>>

\* The call returns or raises, with the answer to a request or without any, and
\* async with lets go of the lock.
End(c, how, to) ==
  /\ pc' = [pc EXCEPT ![c] = "idle"]
  /\ outcome' = [outcome EXCEPT ![c] = how]
  /\ answer' = [answer EXCEPT ![c] = to]
  /\ queue' = Tail(queue)
  /\ UNCHANGED <<req, method>>

\* Mutant: the id is read before it is incremented.
StaleId == lastId

\* _next_id
NextId == lastId + 1

\* _ensure_started asks only whether a process is there whose exit is not known.
Alive == server \in {"running", "stalled", "exited"}

\* _send writes the request into the pipe and awaits drain().  A server that has
\* stopped, or reads no more, never works on it.
SendRequest(c) ==
  /\ lastId' = lastId + 1
  /\ req' = [req EXCEPT ![c] = NextId]
  /\ pending' = IF server # "running" THEN pending
                ELSE pending \cup {[id |-> NextId, by |-> c, method |-> method[c]]}
  /\ pc' = [pc EXCEPT ![c] = "sending"]
  /\ UNCHANGED <<queue, method, outcome, answer, started, server, spoiled, stdout, contact>>

\* The lock is had and the server is there: on to the request.
UseServer(c) ==
  /\ pc[c] = "queued" /\ Holds(c)
  /\ Alive
  /\ SendRequest(c)
  /\ UNCHANGED initialized

\* Mutant: the request is sent right behind the handshake.
StartServerWithoutWaiting(c) ==
  /\ pc[c] = "queued" /\ Holds(c)
  /\ ~Alive
  /\ started < MaxServers
  /\ started' = started + 1
  /\ lastId' = lastId + 2
  /\ req' = [req EXCEPT ![c] = lastId + 2]
  /\ server' = "running"
  /\ initialized' = FALSE
  /\ spoiled' = FALSE
  /\ pending' = {[id |-> lastId + 1, by |-> c, method |-> "initialize"],
                 [id |-> lastId + 2, by |-> c, method |-> method[c]]}
  /\ stdout' = <<>>
  /\ pc' = [pc EXCEPT ![c] = "sending"]
  /\ UNCHANGED <<queue, method, outcome, answer, contact>>

\* A new process, with pipes of its own, is sent "initialize".  (Bound: MaxServers.)
StartServer(c) ==
  /\ pc[c] = "queued" /\ Holds(c)
  /\ ~Alive
  /\ started < MaxServers
  /\ started' = started + 1
  /\ lastId' = lastId + 1
  /\ req' = [req EXCEPT ![c] = NextId]
  /\ server' = "running"
  /\ initialized' = FALSE
  /\ spoiled' = FALSE
  /\ pending' = {[id |-> NextId, by |-> c, method |-> "initialize"]}
  /\ stdout' = <<>>
  /\ pc' = [pc EXCEPT ![c] = "greeting"]
  /\ UNCHANGED <<queue, method, outcome, answer, contact>>

\* create_subprocess_exec raises: _proc stays what it was.
SpawnFails(c) ==
  /\ pc[c] = "queued" /\ Holds(c)
  /\ ~Alive
  /\ End(c, "failed", {})
  /\ UNCHANGED <<lastId, serverVars, contact>>

\* Mutant: whatever line comes next is taken for the answer.
AnyLineAnswers(c, line) == TRUE

Answers(c, line) == line.request.id = req[c]

\* Where a coroutine has written a message and awaits drain().
Writing == {"greeting", "notifying", "sending"}

\* drain() returns; the deadline for the answer starts only now.
Drained(c) ==
  \/ /\ pc[c] = "greeting"
     /\ pc' = [pc EXCEPT ![c] = "handshake"]
     /\ UNCHANGED <<queue, req, method, outcome, answer, lastId, serverVars, contact>>
  \/ /\ pc[c] = "notifying"      \* on to the request the server was started for
     /\ initialized' = TRUE
     /\ SendRequest(c)
  \/ /\ pc[c] = "sending"
     /\ pc' = [pc EXCEPT ![c] = "reading"]
     /\ UNCHANGED <<queue, req, method, outcome, answer, lastId, serverVars, contact>>

\* drain() notices that the server is gone.
DrainFails(c) ==
  /\ pc[c] \in Writing
  /\ server \in {"exited", "reaped"}
  /\ spoiled' = (spoiled \/ pc[c] # "sending")
  /\ End(c, "failed", {})
  /\ UNCHANGED <<lastId, started, server, initialized, pending, stdout, contact>>

\* drain() has no deadline: it need not return while the server reads nothing.
Blocked(c) == pc[c] \in Writing /\ server = "stalled"

\* _initialize reads a line.  The result it waits for is answered with the
\* notification; any other line is dropped (an error as well, so that the
\* deadline decides).
ReadHandshake(c) ==
  /\ pc[c] = "handshake"
  /\ stdout # <<>>
  /\ stdout' = Tail(stdout)
  /\ pc' = IF Answers(c, Head(stdout)) THEN [pc EXCEPT ![c] = "notifying"] ELSE pc
  /\ UNCHANGED <<queue, req, method, outcome, answer, lastId, started, server,
                 initialized, spoiled, pending, contact>>

\* The handshake takes longer than _INIT_TIMEOUT (an exit is not looked for), or
\* meets a line that cannot be read.  The process is left as it is.
HandshakeTimeout(c) ==
  /\ pc[c] = "handshake"
  /\ spoiled' = TRUE
  /\ End(c, "failed", {})
  /\ UNCHANGED <<lastId, started, server, initialized, pending, stdout, contact>>

\* _read_response reads a line: the answer to its own request ends the call, any
\* other line is dropped.  A line longer than the stream's limit raises.
ReadLine(c) ==
  /\ pc[c] = "reading"
  /\ stdout # <<>>
  /\ stdout' = Tail(stdout)
  /\ \/ Answers(c, Head(stdout)) /\ End(c, Head(stdout).kind, {Head(stdout).request})
     \/ ~Answers(c, Head(stdout)) /\ UNCHANGED callVars
     \/ End(c, "failed", {})
  /\ UNCHANGED <<lastId, started, server, initialized, spoiled, pending, contact>>

\* The end of the stream of a process whose exit is known.
ReadEnd(c) ==
  /\ pc[c] = "reading"
  /\ stdout = <<>>
  /\ server = "reaped"
  /\ End(c, "failed", {})
  /\ UNCHANGED <<lastId, serverVars, contact>>

\* Mutant: the deadline is looked at only when a line has come.
CallTimeoutAfterLine(c) ==
  /\ pc[c] = "reading"
  /\ stdout # <<>>
  /\ End(c, "timeout", {})
  /\ UNCHANGED <<lastId, serverVars, contact>>

\* No answer within _CALL_TIMEOUT.
CallTimeout(c) ==
  /\ pc[c] = "reading"
  /\ End(c, "timeout", {})
  /\ UNCHANGED <<lastId, serverVars, contact>>

ClientStep(c) ==
  \/ UseServer(c) \/ StartServer(c) \/ SpawnFails(c)
  \/ Drained(c) \/ DrainFails(c)
  \/ ReadHandshake(c) \/ HandshakeTimeout(c)
  \/ ReadLine(c) \/ ReadEnd(c) \/ CallTimeout(c)

-----------------------------------------------------------------------------
(* The server, and HubSpot behind it. *)

\* What the answer to a request may be:
\*   ok        the result of what was carried out: of a search, the contact;
\*   nothing   the result of a search that found nothing (its index may lag behind);
\*   refused   a tool's error, which MCP puts into a result (isError): call()
\*             looks at "error" only, and returns its text like any result;
\*   conflict  an error for a contact that is there;
\*   alike     another error with "409", "already" or "Expecting value" in it;
\* Any other error ends a call as a line that cannot be read does ("failed").
Kinds == {"ok", "nothing", "refused", "conflict", "alike"}

\* Of the other tools no more is told apart: their refusals are results as well.
Result(m) ==
  CASE m = "create" -> {IF contact THEN "conflict" ELSE "ok", "refused", "alike"}
    [] m = "search" -> {"nothing", "refused"} \cup (IF contact THEN {"ok"} ELSE {})
    [] m \in {"other", "initialize"} -> {"ok"}

\* A creation that succeeds leaves the contact behind.
CarryOut(request, kind) ==
  contact' = (contact \/ (request.method = "create" /\ kind = "ok"))

Answer(request) ==
  /\ server = "running"
  /\ \E kind \in Result(request.method) :
       /\ CarryOut(request, kind)
       /\ stdout' = Append(stdout, [request |-> request, kind |-> kind])
  /\ pending' = pending \ {request}
  /\ UNCHANGED <<callVars, lastId, started, server, initialized, spoiled>>

\* The server waits for room in a pipe nobody reads.
Stall ==
  /\ server = "running"
  /\ server' = "stalled"
  /\ UNCHANGED <<callVars, lastId, started, initialized, spoiled, pending, stdout, contact>>

\* The server stops, by itself or because close() terminates it without taking
\* the lock; the creation it was working on may have been carried out.
Stop ==
  /\ server \in {"running", "stalled"}
  /\ server' = "exited"
  /\ pending' = {}
  /\ \/ UNCHANGED contact
     \/ \E request \in pending : request.method = "create" /\ CarryOut(request, "ok")
  /\ UNCHANGED <<callVars, lastId, started, initialized, spoiled, stdout>>

\* The event loop learns of the exit, and sets returncode.
Reap ==
  /\ server = "exited"
  /\ server' = "reaped"
  /\ UNCHANGED <<callVars, lastId, started, initialized, spoiled, pending, stdout, contact>>

ServerStep == Stall \/ Stop \/ Reap \/ \E request \in pending : Answer(request)

=============================================================================
