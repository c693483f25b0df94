------------------------------ MODULE McpClient ------------------------------
(***************************************************************************)
(* The client of one MCP server (src/lilbot/mcp/client.py) and its manager    *)
(* (manager.py): requests of several threads over one pipe, a reader thread    *)
(* that hands each reply to whoever waits for its number, timeouts, and a      *)
(* server that answers in any order, asks something itself, writes a line the  *)
(* reader cannot take, or dies.  When the server is LilBot's own (server.py)   *)
(* its answers are those of Handle.                                          *)
(***************************************************************************)
EXTENDS Naturals, Sequences, FiniteSets

CONSTANTS
  Main,       \* the thread that starts the program and connects the server
  Caller,     \* threads that call the server's tools
  MaxId,      \* bound of the model: requests
  MaxNoise    \* bound of the model: lines of the server nobody asked for

Thread == Caller \cup {Main}

VARIABLES
  process,   \* the server: "none", "running" or "dead"
  reader,    \* the reader thread: "none", "reading" or "ended"
  link,      \* how far connect_all and shutdown have come
  alive,     \* the flag of the client
  offered,   \* the tools of the server are in the registry
  lastId,    \* _id
  pending,   \* the numbers of _pending
  reply,     \* for each number the first message in its queue
  at,        \* where each thread is in _request
  asks,      \* the request of each thread: its number and its method
  answer,    \* what the last call of each thread returned
  unread,    \* requests in the pipe to the server
  lines,     \* lines in the pipe from the server
  noise

vars == << process, reader, link, alive, offered, lastId, pending, reply, at, asks,
           answer, unread, lines, noise >>

Nothing == [id |-> 0, of |-> 0, kind |-> "nothing"]
Methods == {"initialize", "tools/list", "tools/call"}
Line(id, of, kind) == [id |-> id, of |-> of, kind |-> kind]

\* LilBotMCPServer.handle: every known method is answered, a call of a tool that is
\* not exposed with an error.  The tool itself may fail; that is a result, too.
Handle(request, exposed) ==
  IF request.method = "tools/call" /\ ~exposed THEN "error" ELSE "result"

\* _exposed_names: a list that is absent or empty stands for the read-only tools.
Exposed(listed, registered, readOnly) ==
  IF listed # {} THEN listed \cap registered ELSE readOnly \cap registered

(***************************************************************************)
(* _request                                                                *)
(***************************************************************************)

Goto(t, where) == at' = [at EXCEPT ![t] = where]

\* A number is drawn and its queue entered.
Register(t, method) ==
  /\ lastId < MaxId
  /\ lastId' = lastId + 1
  /\ pending' = pending \cup {lastId'}
  /\ asks' = [asks EXCEPT ![t] = [id |-> lastId', method |-> method]]
  /\ Goto(t, "write")

\* finally: the queue is removed, and with it every answer that comes later.
Leave(t, result) ==
  /\ pending' = pending \ {asks[t].id}
  /\ answer' = [answer EXCEPT ![t] = result]

Failed == Line(0, 0, "failed")

\* What the thread that connects does with the outcome of its request: an exception
\* is recorded and the client forgotten; else the next step of start and connect_all.
Proceed(t, result) ==
  IF t # Main THEN Goto(t, "idle") /\ UNCHANGED << link, alive >>
  ELSE /\ Goto(t, "idle")
       /\ IF result.kind \in {"failed", "error"} THEN link' = "failed" /\ UNCHANGED alive
          ELSE IF link = "initializing"
          THEN IF process = "running" THEN link' = "initialized" /\ alive' = TRUE
                                      ELSE link' = "failed" /\ UNCHANGED alive
          ELSE link' = "connected" /\ UNCHANGED alive

\* _write.  The pipe to a dead server is broken.
Write(t) ==
  /\ at[t] = "write"
  /\ IF process = "running"
     THEN /\ unread' = unread \cup {asks[t]}
          /\ Goto(t, "wait")
          /\ UNCHANGED << pending, answer, link, alive >>
     ELSE /\ Leave(t, Failed)
          /\ Proceed(t, Failed)
          /\ UNCHANGED unread
  /\ UNCHANGED << process, reader, offered, lastId, reply, asks, lines, noise >>

\* q.get returns a message, whatever it says; an error raises.
Receive(t) ==
  /\ at[t] = "wait"
  /\ reply[asks[t].id] # Nothing
  /\ Leave(t, reply[asks[t].id])
  /\ Proceed(t, reply[asks[t].id])
  /\ UNCHANGED << process, reader, offered, lastId, reply, asks, unread, lines, noise >>

\* Mutant: the queue of a request that timed out is left in _pending.
TimeOutForgets(t) ==
  /\ at[t] = "wait"
  /\ reply[asks[t].id] = Nothing
  /\ answer' = [answer EXCEPT ![t] = Failed]
  /\ Proceed(t, Failed)
  /\ UNCHANGED << process, reader, offered, lastId, pending, reply, asks, unread, lines, noise >>

\* Mutant: a request gives up only when its server has ended.
TimeOutWhenDead(t) ==
  /\ at[t] = "wait" /\ process = "dead"
  /\ reply[asks[t].id] = Nothing
  /\ Leave(t, Failed)
  /\ Proceed(t, Failed)
  /\ UNCHANGED << process, reader, offered, lastId, reply, asks, unread, lines, noise >>

\* q.get gives up.
TimeOut(t) ==
  /\ at[t] = "wait"
  /\ reply[asks[t].id] = Nothing
  /\ Leave(t, Failed)
  /\ Proceed(t, Failed)
  /\ UNCHANGED << process, reader, offered, lastId, reply, asks, unread, lines, noise >>

\* _read_loop: a message goes to the queue of its number if there is one.  A line that
\* is JSON but no object ends the thread.
ReadLine ==
  /\ reader = "reading"
  /\ lines # << >>
  /\ LET line == Head(lines)
     IN  /\ reader' = IF line.kind = "list" THEN "ended" ELSE reader
         /\ reply' = IF line.id \in pending /\ reply[line.id] = Nothing
                     THEN [reply EXCEPT ![line.id] = line] ELSE reply
  /\ lines' = Tail(lines)
  /\ UNCHANGED << process, link, alive, offered, lastId, pending, at, asks, answer,
                  unread, noise >>

EndOfLines ==
  /\ reader = "reading"
  /\ lines = << >> /\ process = "dead"
  /\ reader' = "ended"
  /\ UNCHANGED << process, link, alive, offered, lastId, pending, reply, at, asks,
                  answer, unread, lines, noise >>

(***************************************************************************)
(* The manager                                                             *)
(***************************************************************************)

\* connect_all starts the process and the reader and sends the first request, ...
Start ==
  /\ link = "off"
  /\ process' = "running"
  /\ reader' = "reading"
  /\ link' = "initializing"
  /\ Register(Main, "initialize")
  /\ UNCHANGED << alive, offered, reply, answer, unread, lines, noise >>

\* ... and after the handshake the second one.
ListTools ==
  /\ link = "initialized" /\ at[Main] = "idle"
  /\ link' = "listing"
  /\ Register(Main, "tools/list")
  /\ UNCHANGED << process, reader, alive, offered, reply, answer, unread, lines, noise >>

\* register_discovered_tools: a handler of its own for every tool.
Offer ==
  /\ link = "connected" /\ ~offered
  /\ offered' = TRUE
  /\ UNCHANGED << process, reader, link, alive, lastId, pending, reply, at, asks, answer,
                  unread, lines, noise >>

\* The process is ended; who still waits for an answer is not told.
Close ==
  /\ alive' = FALSE
  /\ process' = "dead"

\* shutdown: only a client that was connected is closed.
Shutdown ==
  /\ link = "connected"
  /\ link' = "shut"
  /\ Close
  /\ UNCHANGED << reader, offered, lastId, pending, reply, at, asks, answer, unread,
                  lines, noise >>

\* The handler of a tool calls the client it was made for, closed or not.
CallTool(t) ==
  /\ at[t] = "idle" /\ offered
  /\ Register(t, "tools/call")
  /\ UNCHANGED << process, reader, link, alive, offered, reply, answer, unread, lines,
                  noise >>

\* MCPManager.call_tool prefers a client that is alive ...
CallThroughManager(t) ==
  /\ at[t] = "idle"
  /\ link = "connected" /\ alive
  /\ Register(t, "tools/call")
  /\ UNCHANGED << process, reader, link, alive, offered, reply, answer, unread, lines,
                  noise >>

\* ... and otherwise runs a process for this one call.
CallOneShot(t) ==
  /\ at[t] = "idle"
  /\ link \in {"failed", "shut"}
  /\ answer' = [answer EXCEPT ![t] = Line(0, 0, "output")]
  /\ UNCHANGED << process, reader, link, alive, offered, lastId, pending, reply, at,
                  asks, unread, lines, noise >>

(***************************************************************************)
(* The server                                                              *)
(***************************************************************************)

Answer ==
  /\ process = "running"
  /\ \E request \in unread, exposed \in BOOLEAN :
       /\ unread' = unread \ {request}
       /\ lines' = Append(lines, Line(request.id, request.id, Handle(request, exposed)))
  /\ UNCHANGED << process, reader, link, alive, offered, lastId, pending, reply, at, asks,
                  answer, noise >>

\* A notification, a request of the server's own under a number of its own, or a list.
Speak ==
  /\ process = "running"
  /\ noise < MaxNoise
  /\ noise' = noise + 1
  /\ \E line \in {Line(0, 0, "list")} \cup
                  {Line(id, 0, "request") : id \in {0} \cup pending \cup lastId + 1..MaxId} :
       lines' = Append(lines, line)
  /\ UNCHANGED << process, reader, link, alive, offered, lastId, pending, reply, at, asks,
                  answer, unread >>

\* Nobody learns of it but the reader; the client stays "alive".
Die ==
  /\ process = "running"
  /\ process' = "dead"
  /\ UNCHANGED << reader, link, alive, offered, lastId, pending, reply, at, asks, answer,
                  unread, lines, noise >>

Init ==
  /\ process = "none" /\ reader = "none"
  /\ link = "off"
  /\ alive = FALSE /\ offered = FALSE
  /\ lastId = 0
  /\ pending = {}
  /\ reply = [id \in 1..MaxId |-> Nothing]
  /\ at = [t \in Thread |-> "idle"]
  /\ asks = [t \in Thread |-> [id |-> 0, method |-> "none"]]
  /\ answer = [t \in Thread |-> Nothing]
  /\ unread = {}
  /\ lines = << >>
  /\ noise = 0

Requests(t) == Write(t) \/ Receive(t) \/ TimeOut(t)

Next ==
  \/ \E t \in Thread : Requests(t)
  \/ \E t \in Caller : CallTool(t) \/ CallThroughManager(t) \/ CallOneShot(t)
  \/ ReadLine \/ EndOfLines
  \/ Start \/ ListTools \/ Offer \/ Shutdown
  \/ Answer \/ Speak \/ Die

Spec == Init /\ [][Next]_vars

\* A thread inside a request goes on: q.get returns at its timeout at the latest.
Fairness == \A t \in Thread : WF_vars(Requests(t))

(***************************************************************************)
(* Properties                                                              *)
(***************************************************************************)

Waiting == {t \in Thread : at[t] \in {"write", "wait"}}

\* Late, lost and reordered replies: every queue belongs to a thread that still waits,
\* so a reply that comes after its timeout goes nowhere, and what a call returns is the
\* server's answer to that very request - unless the server made a request of its own
\* under the same number, which is the one message the client mistakes for a reply.
RepliesFindTheirCall ==
  /\ pending = {asks[t].id : t \in Waiting}
  /\ \A t \in Thread : at[t] = "idle" /\ answer[t].kind \in {"result", "error"}
                        => answer[t].of = asks[t].id
  /\ \A id \in DOMAIN reply : reply[id] # Nothing => reply[id].id = id

\* Every request returns or raises, even when the server or the reader is gone: no thread
\* waits from some moment on for ever.
RequestsReturn == \A t \in Thread : []<>(t \notin Waiting)

\* Why it holds: numbers are drawn once, so a queue has one owner, and of what the reader
\* puts into a queue only an answer to that number says that it is one.
Message ==
  [id: 0..MaxId, of: 0..MaxId,
   kind: {"nothing", "result", "error", "request", "list", "failed", "output"}]
Genuine(message) == message.kind \in {"result", "error"} => message.of = message.id

TypeOK ==
  /\ process \in {"none", "running", "dead"} /\ reader \in {"none", "reading", "ended"}
  /\ link \in {"off", "initializing", "initialized", "listing", "connected", "failed", "shut"}
  /\ alive \in BOOLEAN /\ offered \in BOOLEAN
  /\ lastId \in 0..MaxId /\ noise \in Nat
  /\ pending \subseteq 1..MaxId
  /\ reply \in [1..MaxId -> Message] /\ answer \in [Thread -> Message]
  /\ at \in [Thread -> {"idle", "write", "wait"}]
  /\ asks \in [Thread -> [id: 0..MaxId, method: Methods \cup {"none"}]]
  /\ unread \subseteq [id: 1..MaxId, method: Methods]
  /\ lines \in Seq(Message)

QueueInv ==
  /\ pending = {asks[t].id : t \in Waiting}
  /\ \A t \in Waiting : asks[t].id \in 1..lastId /\ asks[t].method \in Methods
  /\ \A t, u \in Waiting : asks[t].id = asks[u].id => t = u
  /\ link = "off" => Waiting = {} /\ ~offered

MessageInv ==
  /\ \A i \in DOMAIN lines : Genuine(lines[i])
  /\ \A id \in 1..MaxId : reply[id] # Nothing => reply[id].id = id /\ Genuine(reply[id])

AnswerInv ==
  \A t \in Thread : at[t] = "idle" /\ answer[t].kind \in {"result", "error"}
                      => answer[t].of = asks[t].id

IInv == TypeOK /\ QueueInv /\ MessageInv /\ AnswerInv
=============================================================================
