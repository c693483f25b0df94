---------------------------------- MODULE Lsp ----------------------------------
(***************************************************************************)
(* The code navigation tools of src/lilbot/tools/builtin.py.  Each call that   *)
(* asks a language server runs one of its own for it (_lsp_request): the       *)
(* handshake and the question over a pipe, a reader thread that queues what    *)
(* the server says, a deadline for each, and the shutdown on every way out.     *)
(* Where the server is of no use the tool searches the files itself.           *)
(***************************************************************************)
EXTENDS Naturals, Sequences

CONSTANTS
  MaxRemarks   \* bound of the model: messages of the server that answer nothing

VARIABLES
  tool,      \* the navigation tool that runs, NoTool when it has returned
  server,    \* its process: "none", "running" or "dead"
  ask,       \* number of the request that waits for a reply, 0 for none
  queries,   \* requests the server has not answered
  pipe,      \* messages the reader has not read
  inbox,     \* the queue between the reader and the tool
  outcome,   \* what _lsp_request has: Open, or the message that ended it
  given,     \* what the tool returned last: its provider and its result
  remarks

vars == << tool, server, ask, queries, pipe, inbox, outcome, given, remarks >>

Initialize == 1
Question == 2
Message(id, of, says) == [id |-> id, of |-> of, says |-> says]
Open == Message(0, 0, "open")
Failed == Message(0, 0, "failed")
Given(provider, of, says) == [provider |-> provider, of |-> of, says |-> says]

\* What a server can say to a request: locations or symbols, nothing of the kind, an error.
Says == {"items", "empty", "error"}

\* What each tool needs to ask a server - a file, a file and a position, or any source
\* file at all - whether it takes a result without items for an answer or searches after
\* all, and whether an item outside of the workspace makes it raise (_symbol_record).
Tool(needs, takesEmpty, raises) ==
  [needs |-> needs, takesEmpty |-> takesEmpty, raises |-> raises]
DocumentSymbols == Tool("file", TRUE, TRUE)
WorkspaceSymbols == Tool("source", TRUE, TRUE)
Definition == Tool("position", FALSE, FALSE)
References == Tool("position", FALSE, FALSE)
Diagnostics == Tool("file", TRUE, FALSE)
RenamePreview == Tool("file", TRUE, FALSE)
Tools == {DocumentSymbols, WorkspaceSymbols, Definition, References, Diagnostics,
          RenamePreview}
NoTool == Tool("none", FALSE, FALSE)

\* The forms of a path argument: a directory, a file, a file with a position in it.
Forms == {"directory", "file", "position"}
Suffices(form, needs) ==
  \/ needs = "source" \/ form = needs
  \/ needs = "file" /\ form = "position"

\* What is not of the expected form is dropped, and nothing is left of a null.
Items(message) == IF message.says = "items" THEN "items" ELSE "empty"

\* The searches without a server, in the text of the files or with the parser.
Searched == {Given("fallback", 0, says) : says \in {"items", "empty"}}

\* What the tool makes of the end of its request.
Results(message) ==
  IF message.says \in {"failed", "error"} THEN Searched
  ELSE IF Items(message) = "empty" /\ ~tool.takesEmpty THEN Searched
  ELSE {Given("lsp", message.of, Items(message))}
       \cup IF tool.raises /\ message.says = "items" THEN {Given("none", 0, "raised")} ELSE {}

(***************************************************************************)
(* The tool and _lsp_request                                                *)
(***************************************************************************)

\* A call that cannot ask, or finds no server on the PATH, or one that does not start,
\* searches at once; else Popen, the reader, and the first request.
Call(t, form, available) ==
  /\ tool = NoTool
  /\ IF Suffices(form, t.needs) /\ available
     THEN /\ tool' = t
          /\ server' = "running"
          /\ ask' = Initialize
          /\ queries' = {Initialize}
          /\ UNCHANGED given
     ELSE /\ given' \in Searched
          /\ UNCHANGED << tool, server, ask, queries >>
  /\ UNCHANGED << pipe, inbox, outcome, remarks >>

Waiting == tool # NoTool /\ outcome = Open

\* The reply to the handshake lets the question follow, if the server still reads; the
\* reply to the question ends the request.
Reply(message) ==
  IF message.says = "error" \/ (ask = Initialize /\ server # "running")
  THEN outcome' = (IF message.says = "error" THEN message ELSE Failed) /\ UNCHANGED << ask, queries >>
  ELSE IF ask = Initialize
  THEN ask' = Question /\ queries' = queries \cup {Question} /\ UNCHANGED outcome
  ELSE outcome' = message /\ UNCHANGED << ask, queries >>

\* Mutant: the first message is taken for the reply.
NextMessageTakesAny ==
  /\ Waiting
  /\ inbox # << >>
  /\ inbox' = Tail(inbox)
  /\ Reply(Head(inbox))
  /\ UNCHANGED << tool, server, pipe, given, remarks >>

\* messages.get: the first message with the number of the request; others are dropped.
NextMessage ==
  /\ Waiting
  /\ inbox # << >>
  /\ inbox' = Tail(inbox)
  /\ IF Head(inbox).says = "list" THEN outcome' = Failed /\ UNCHANGED << ask, queries >>
     ELSE IF Head(inbox).id = ask THEN Reply(Head(inbox))
     ELSE UNCHANGED << outcome, ask, queries >>
  /\ UNCHANGED << tool, server, pipe, given, remarks >>

\* The server has exited and the queue is empty - what the reader still has to read is
\* not waited for - or time is up.
Exited ==
  /\ Waiting
  /\ server = "dead" /\ inbox = << >>
  /\ outcome' = Failed
  /\ UNCHANGED << tool, server, ask, queries, pipe, inbox, given, remarks >>

\* Mutant: a request without an answer is waited for as long as its server runs.
DeadlineNever ==
  /\ Waiting /\ server = "dead"
  /\ outcome' = Failed
  /\ UNCHANGED << tool, server, ask, queries, pipe, inbox, given, remarks >>

Deadline ==
  /\ Waiting
  /\ outcome' = Failed
  /\ UNCHANGED << tool, server, ask, queries, pipe, inbox, given, remarks >>

\* Mutant: a tool returns without the finally of its request.
ReturnLeavesServer ==
  /\ tool # NoTool /\ outcome # Open
  /\ given' \in Results(outcome)
  /\ tool' = NoTool
  /\ UNCHANGED << server, ask, queries, pipe, inbox, outcome, remarks >>

\* finally: the server is told to exit, terminated, or killed; then the tool goes on with
\* what it has.
Return ==
  /\ tool # NoTool /\ outcome # Open
  /\ given' \in Results(outcome)
  /\ server' = "dead"
  /\ tool' = NoTool
  /\ ask' = 0 /\ queries' = {}
  /\ pipe' = << >> /\ inbox' = << >>
  /\ outcome' = Open
  /\ UNCHANGED remarks

(***************************************************************************)
(* The reader and the server                                                *)
(***************************************************************************)

\* _lsp_reader: a body that is not JSON is dropped.
Read ==
  /\ pipe # << >>
  /\ pipe' = Tail(pipe)
  /\ inbox' = IF Head(pipe).says = "noise" THEN inbox ELSE Append(inbox, Head(pipe))
  /\ UNCHANGED << tool, server, ask, queries, outcome, given, remarks >>

Answer ==
  /\ server = "running"
  /\ \E id \in queries, says \in Says :
       /\ queries' = queries \ {id}
       /\ pipe' = Append(pipe, Message(id, id, says))
  /\ UNCHANGED << tool, server, ask, inbox, outcome, given, remarks >>

\* A notification or a broken body, a list, or a request of the server's own.
Remark ==
  /\ server = "running"
  /\ remarks < MaxRemarks
  /\ remarks' = remarks + 1
  /\ \E message \in {Message(0, 0, says) : says \in {"noise", "list", "note"}}
                    \cup {Message(id, 0, "request") : id \in {Initialize, Question}} :
       pipe' = Append(pipe, message)
  /\ UNCHANGED << tool, server, ask, queries, inbox, outcome, given >>

Die ==
  /\ server = "running"
  /\ server' = "dead"
  /\ UNCHANGED << tool, ask, queries, pipe, inbox, outcome, given, remarks >>

Init ==
  /\ tool = NoTool /\ server = "none"
  /\ ask = 0 /\ queries = {}
  /\ pipe = << >> /\ inbox = << >>
  /\ outcome = Open
  /\ given = Given("none", 0, "empty")
  /\ remarks = 0

Working == NextMessage \/ Exited \/ Deadline \/ Return

Next ==
  \/ \E t \in Tools, form \in Forms, available \in BOOLEAN : Call(t, form, available)
  \/ NextMessage \/ Exited \/ Deadline \/ Return
  \/ Read \/ Answer \/ Remark \/ Die

Spec == Init /\ [][Next]_vars

\* The thread of the tool goes on: messages.get and the loop around it end in time.
Fairness == WF_vars(Working)

(***************************************************************************)
(* Properties                                                              *)
(***************************************************************************)

\* What a tool returns as the server's word is the server's answer to the tool's question
\* - never the answer to the handshake, nor a notification (a request of the server's own
\* under the same number is the one message that passes, as nothing) - and no server
\* outlives the call that started it.
ServerAnsweredQuestion ==
  /\ given.provider = "lsp" => given.of = Question \/ given.says = "empty"
  /\ tool = NoTool => server # "running" /\ inbox = << >>

\* A tool that has asked a server returns, whatever the server does.
NavigationReturns == []<>(tool = NoTool)

\* Why it holds: only an answer has items, and it has the number of what it answers; and
\* the pipes of a server are gone with it.
Messages ==
  {m \in [id: 0..2, of: 0..2,
          says: Says \cup {"open", "failed", "noise", "list", "note", "request"}] :
     m.says = "items" => m.of = m.id}

IInv ==
  /\ tool \in Tools \cup {NoTool}
  /\ server \in {"none", "running", "dead"}
  /\ ask \in 0..2 /\ queries \subseteq {Initialize, Question}
  /\ pipe \in Seq(Messages) /\ inbox \in Seq(Messages)
  /\ outcome \in Messages
  /\ outcome.says = "items" => outcome.of = Question
  /\ given.provider = "lsp" => given.of = Question \/ given.says = "empty"
  /\ remarks \in Nat
  /\ tool = NoTool =>
       server # "running" /\ pipe = << >> /\ inbox = << >> /\ outcome = Open
  /\ tool # NoTool => ask \in {Initialize, Question}
=============================================================================
