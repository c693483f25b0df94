-------------------------------- MODULE SubTurn --------------------------------
(***************************************************************************)
(* One turn of a subagent (run_agent_turn in src/lilbot/subagents/manager.py): *)
(* the gates of its creation, the tools it is offered, the loop of requests     *)
(* and tool calls, and the gates every call passes.  A name stands for all tools *)
(* of a list that the code treats alike.                                       *)
(***************************************************************************)
EXTENDS Naturals, Sequences, SequencesExt

CONSTANTS
  Limit,      \* SUBAGENT_MAX_TOOL_STEPS, or TEAMMATE_MAX_TOOL_STEPS
  MaxBatch    \* bound of the model: tool calls in one answer

(***************************************************************************)
(* Tools, names and roles                                                  *)
(***************************************************************************)

\* READ_ONLY_CODE_TOOLS, DIAGNOSTIC_TOOLS, WEB_TOOLS, WRITE_TOOLS, load_skill, the
\* shells, what else writes or executes, and the tools that manage agents and plans.
Builtin == {"read", "diagnose", "web", "write", "skill", "bash", "exec", "note", "Task",
            "plan"}
External == {"mcp__s__t"}     \* registered when a server is connected
AlwaysDisallowed == {"Task", "plan"}
WriteAndExecution == {"write", "bash", "exec", "note"}

Group == {"bash", "exec"}     \* TOOL_COMPATIBILITY_GROUPS: all shells go by one name

\* Names a model or a definition may use: of tools, and others that are resolved.
Name == Builtin \cup External \cup {"Write", "Bash(ls)", "nonsense"}

Roles == {"general", "explore", "researcher", "plan", "implementer", "verifier", "custom"}

\* allowed_tools and disallowed_tools of the roles; review is as explore, tool_agent
\* nearly so, writer and critic are as plan.
AllowedOf(role) ==
  CASE role = "general"     -> {"read", "skill", "diagnose", "web", "write"}
    [] role = "explore"     -> {"read", "diagnose"}
    [] role = "researcher"  -> {"web"}
    [] role = "implementer" -> {"read", "write", "diagnose", "bash"}
    [] role = "verifier"    -> {"read", "diagnose"}
    [] OTHER                -> {}

DeniedOf(role) ==
  CASE role \in {"explore", "researcher", "plan"} -> WriteAndExecution
    [] role = "verifier" -> {"write"}
    [] OTHER -> {}

\* _tool_spec_name, ToolRegistry.resolve
SpecName(spec) == IF spec = "Bash(ls)" THEN "bash" ELSE spec
Resolve(name, tools) ==
  IF name \in tools THEN name ELSE IF name = "Write" THEN "write" ELSE name

\* _resolve_tool_family: "bash" stands for every shell.
Family(spec, tools) ==
  LET name == SpecName(spec)
      candidates == IF name = "bash" THEN Group ELSE {name}
  IN  candidates \cup {Resolve(c, tools) : c \in candidates}

\* _tool_denied_by_specs
DeniedBy(name, specs, tools) ==
  LET requested == Family(name, tools) \cup {Resolve(SpecName(name), tools)}
  IN  \E spec \in specs :
        requested \cap (Family(spec, tools) \cup {Resolve(SpecName(spec), tools)}) # {}

\* _tool_allowed
AllowedBy(name, allowed, tools) ==
  \/ "*" \in allowed
  \/ Resolve(name, tools) \in UNION {Family(item, tools) : item \in allowed}
  \/ name \in allowed

\* Gates 4 and 5 of a call.
Passes(name, role, allowed, tools) ==
  /\ AllowedBy(name, allowed, tools)
  /\ ~DeniedBy(name, AlwaysDisallowed, tools)
  /\ ~DeniedBy(name, DeniedOf(role), tools)

\* Mutant: what the role may not do is offered all the same.
SchemasOfList(role, allowed, tools) ==
  {tool \in tools : /\ ~DeniedBy(tool, AlwaysDisallowed, tools)
                    /\ AllowedBy(tool, allowed, tools)}

\* _tool_schemas_for_task
Schemas(role, allowed, tools) ==
  {tool \in tools : /\ ~DeniedBy(tool, AlwaysDisallowed, tools)
                    /\ ~DeniedBy(tool, DeniedOf(role), tools)
                    /\ AllowedBy(tool, allowed, tools)}

\* _validate_creation_gates: only for custom agents, whose list must be given, known
\* and free of what no subagent gets.
SpecResolves(spec, tools) ==
  spec \in External \/ \E c \in Family(spec, tools) : Resolve(c, tools) \in tools

CreationGates(role, given, allowed, tools) ==
  role = "custom" =>
    /\ given
    /\ \A spec \in allowed \ {"*"} :
         SpecResolves(spec, tools) /\ ~DeniedBy(spec, AlwaysDisallowed, tools)

(***************************************************************************)
(* The turn                                                                *)
(***************************************************************************)
VARIABLES
  role, allowed,   \* the definition, and allowed_tools of the task
  tools,           \* registered tools
  shown,         \* tool_schemas of this turn
  turn,            \* where the turn is
  taken,           \* steps
  asked,           \* requests made of the provider
  batches,         \* announcements in messages: calls announced, results appended
  queue,           \* calls of the last answer still to be run
  used             \* history: tools that ran

vars == << role, allowed, tools, shown, turn, taken, asked, batches, queue, used >>

\* open, with the role's list or with one of the caller's; then run_agent_turn begins.
Open(r, given, list) ==
  /\ turn = "new"
  /\ role' = r
  /\ allowed' = IF given THEN list ELSE AllowedOf(r)
  /\ IF CreationGates(r, given, allowed', tools)
     THEN /\ turn' = "asking"
          /\ shown' = IF allowed' = {} THEN {} ELSE Schemas(r, allowed', tools)
          /\ asked' = 1
     ELSE /\ turn' = "refused"
          /\ UNCHANGED << shown, asked >>
  /\ UNCHANGED << tools, taken, batches, queue, used >>

\* A server is connected while a recovered task is running already.
Connect ==
  /\ External \cap tools = {}
  /\ tools' = tools \cup External
  /\ UNCHANGED << role, allowed, shown, turn, taken, asked, batches, queue, used >>

\* The model answers without a call, or with calls but no steps are left: the turn ends
\* with its text or with a report of what was collected.
Conclude ==
  /\ turn = "asking"
  /\ turn' \in IF taken < Limit THEN {"answered"} ELSE {"answered", "reported"}
  /\ UNCHANGED << role, allowed, tools, shown, taken, asked, batches, queue, used >>

\* Mutant: what is announced is run, steps or no steps.
AnnounceAll(calls) ==
  /\ turn = "asking" /\ taken < Limit
  /\ batches' = Append(batches, [calls |-> Len(calls), results |-> 0])
  /\ queue' = calls
  /\ turn' = "running"
  /\ UNCHANGED << role, allowed, tools, shown, taken, asked, used >>

\* It calls tools: all of them are announced, but no more than there are steps are run.
Announce(calls) ==
  /\ turn = "asking" /\ taken < Limit
  /\ batches' = Append(batches, [calls |-> Len(calls), results |-> 0])
  /\ queue' = SubSeq(calls, 1, Min({Len(calls), Limit - taken}))
  /\ turn' = "running"
  /\ UNCHANGED << role, allowed, tools, shown, taken, asked, used >>

\* _execute_tool_call: a gate refuses the call or the registry executes it; either way
\* there is a result.  Behind the last one the next request is made.
RunCall ==
  /\ turn = "running"
  /\ LET name == Head(queue)
     IN  used' = IF Passes(name, role, allowed, tools) /\ Resolve(name, tools) \in tools
                 THEN used \cup {Resolve(name, tools)} ELSE used
  /\ batches' = [batches EXCEPT ![Len(batches)].results = @ + 1]
  /\ taken' = taken + 1
  /\ queue' = Tail(queue)
  /\ IF queue' # << >>
     THEN UNCHANGED << turn, asked >>
     ELSE turn' = "asking" /\ asked' = asked + 1
  /\ UNCHANGED << role, allowed, tools, shown >>

\* The provider raises: the task fails.
Raise ==
  /\ turn = "asking"
  /\ turn' = "failed"
  /\ UNCHANGED << role, allowed, tools, shown, taken, asked, batches, queue, used >>

Init ==
  /\ role = "custom" /\ allowed = {}
  /\ tools \in {Builtin, Builtin \cup External}
  /\ shown = {}
  /\ turn = "new"
  /\ taken = 0 /\ asked = 0
  /\ batches = << >> /\ queue = << >>
  /\ used = {}

\* Lists a caller gives, and answers: one tool, called up to MaxBatch times.
Given == {{}, {"*"}, {"read", "Write"}, {"Bash(ls)", "nonsense"}, {"exec", "mcp__s__t"},
          {"bash", "Task"}}
Answers == {[i \in 1..n |-> name] : name \in Name, n \in 1..MaxBatch}

Next ==
  \/ \E r \in Roles : Open(r, FALSE, {}) \/ \E list \in Given : Open(r, TRUE, list)
  \/ Connect \/ Conclude \/ RunCall \/ Raise
  \/ \E calls \in Answers : Announce(calls)

Spec == Init /\ [][Next]_vars

(***************************************************************************)
(* Properties                                                              *)
(***************************************************************************)

\* What of messages the provider does not send: _messages leaves out an announcement
\* without all its results, together with the results it has.
LeftOut == {i \in DOMAIN batches : batches[i].results # batches[i].calls}

\* The loop, the cut at the budget and the filter of requests together: no more than
\* Limit calls are run for at most Limit + 1 requests, and every request carries the
\* results of all calls so far - except the last one of a turn that used up its steps in
\* the middle of an answer, which carries none of that answer's.
EvidenceReachesModel ==
  /\ taken <= Limit /\ asked <= taken + 1
  /\ turn = "asking" =>
       \/ LeftOut = {}
       \/ taken = Limit /\ LeftOut = {Len(batches)}

\* Whatever names and lists a caller uses, the model is offered exactly what it may
\* call: no offered tool is refused by a gate, and no tool ran that was not offered,
\* unless it was registered only after the turn had begun.
OfferedIsAccepted ==
  turn \notin {"new", "refused"} =>
    /\ \A tool \in shown : Passes(tool, role, allowed, tools)
    /\ used \subseteq shown \cup External

\* Why they hold: connecting a server changes no name that a gate looks up; and only the
\* last announcement lacks results, as many as calls are waiting, but for a cut.
TypeOK ==
  /\ tools \in {Builtin, Builtin \cup External}
  /\ turn \in {"new", "refused", "asking", "running", "answered", "reported", "failed"}
  /\ taken \in Nat /\ asked \in Nat
  /\ batches \in Seq([calls: Nat, results: Nat])
  /\ queue \in Seq(Name)

GatesInv ==
  IF turn \in {"new", "refused"} THEN used = {}
  ELSE /\ shown \subseteq Schemas(role, allowed, tools)
       /\ allowed # {} => Schemas(role, allowed, Builtin) \subseteq shown
       /\ used \subseteq shown \cup External

EvidenceInv ==
  /\ taken <= Limit /\ asked <= taken + 1
  /\ turn = "new" => batches = << >>
  /\ turn = "asking" => LeftOut = {} \/ (taken = Limit /\ LeftOut = {Len(batches)})
  /\ turn = "running" =>
       /\ queue # << >> /\ batches # << >> /\ taken + Len(queue) <= Limit
       /\ \A i \in 1..Len(batches) - 1 : batches[i].results = batches[i].calls
       /\ LET last == batches[Len(batches)]
          IN  /\ last.results + Len(queue) <= last.calls
              /\ \/ last.results + Len(queue) = last.calls
                 \/ taken + Len(queue) = Limit

IInv == TypeOK /\ GatesInv /\ EvidenceInv
=============================================================================
