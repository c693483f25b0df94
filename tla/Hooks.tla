--------------------------------- MODULE Hooks ---------------------------------
(***************************************************************************)
(* The hook engine (src/lilbot/hooks) and the agent loop around it            *)
(* (src/lilbot/core/agent.py): hooks of a turn, before and after each tool     *)
(* call, and at the end; their output waits for the next request.  Calls of    *)
(* read-only tools run in a pool of threads, each with its hooks.             *)
(***************************************************************************)
EXTENDS Naturals, Sequences

CONSTANTS
  Main,              \* the thread of the turn
  Worker,            \* threads of the pool
  MaxContinuations,  \* MAX_STOP_CONTINUATIONS
  MaxRuns,           \* bound of the model: executions of hooks
  MaxReloads         \* bound of the model: changes of hooks.json

Thread == Worker \cup {Main}

VARIABLES
  hookFile,   \* hooks.json: its version and its hooks
  engine,     \* the engine in use: its version, its hooks and which were executed
  turnAt,     \* where run_turn is
  continued,  \* _stop_continuations
  doing,      \* what each thread does
  guidance,   \* whether _prompt_messages or _notifications hold anything
  log         \* history: executions, in the order they began

vars == << hookFile, engine, turnAt, continued, doing, guidance, log >>

(***************************************************************************)
(* Hooks.  _parse_hook skips an entry with an unknown event or action, and a   *)
(* file that does not parse has none.                                         *)
(***************************************************************************)
Event == {"start", "pre", "post", "stop", "end"}
Hook(event, type, once, path) == [event |-> event, type |-> type, once |-> once, path |-> path]

\* The arguments of a call, as far as hooks look at them: the file it is about.
File == {"a", "b"}

HookLists ==
  {<< >>,
   << Hook("pre", "command", TRUE, "a"), Hook("pre", "block", FALSE, "b") >>,
   << Hook("pre", "command", FALSE, "any"), Hook("post", "prompt", TRUE, "any") >>,
   << Hook("stop", "command", FALSE, "any"), Hook("end", "prompt", TRUE, "any"),
      Hook("start", "prompt", FALSE, "any") >>}

\* What _run_action makes of a hook: a command may exit with an error, time out, or
\* print a decision, a new input or context as JSON.
Quiet == [ok |-> TRUE, decision |-> "", input |-> "none", context |-> FALSE]
Results(hook) ==
  CASE hook.type = "prompt"  -> {Quiet}
    [] hook.type = "block"   -> {[Quiet EXCEPT !.decision = "block"]}
    [] hook.type = "command" ->
         [ok: BOOLEAN, decision: {"", "approve", "block"}, input: {"none"}, context: {FALSE}]
           \cup {[Quiet EXCEPT !.input = f, !.context = TRUE] : f \in File}

\* run_pre_tool: a non-zero exit blocks unless the hook approved; run_stop has no
\* such exception.
Blocks(hook, result) ==
  \/ result.decision = "block"
  \/ ~result.ok /\ result.decision # "approve"
Forces(hook, result) == result.decision = "block" \/ ~result.ok

\* Mutant: run_once is not looked at.
MayRunAlways(i) == i \in DOMAIN engine.hooks

\* _matching: hooks of the event whose pattern fits and that may still run.
MayRun(i) == ~(engine.hooks[i].once /\ i \in engine.executed)
Fits(hook, event, file) == hook.event = event /\ hook.path \in {"any", file}

Matching(event, file) ==
  {i \in DOMAIN engine.hooks : Fits(engine.hooks[i], event, file) /\ MayRun(i)}

(***************************************************************************)
(* A thread runs the hooks of an event one after the other, in their order   *)
(***************************************************************************)
First(left) == CHOOSE i \in left : \A j \in left : i <= j

Idle == [pc |-> "idle", event |-> "none", file |-> "none", left |-> {}, blocked |-> FALSE,
         input |-> "none", from |-> 0]

\* from: how many executions had begun when the hooks were matched.
Fire(event, file) ==
  [pc |-> "matched", event |-> event, file |-> file, left |-> Matching(event, file),
   blocked |-> FALSE, input |-> "none", from |-> Len(log)]

Does(t, what) == doing' = [doing EXCEPT ![t] = what]

\* mark_executed, and the action begins.
Execute(t) ==
  /\ doing[t].pc = "matched" /\ doing[t].left # {}
  /\ Len(log) < MaxRuns
  /\ LET i == First(doing[t].left)
     IN  /\ engine' = [engine EXCEPT !.executed = @ \cup {i}]
         /\ log' = Append(log, [version |-> engine.version, hook |-> i,
                                thread |-> t, from |-> doing[t].from])
  /\ Does(t, [doing[t] EXCEPT !.pc = "acting"])
  /\ UNCHANGED << hookFile, turnAt, continued, guidance >>

\* It ends.  The first stop hook that wants to go on is the last that runs.
Finish(t) ==
  /\ doing[t].pc = "acting"
  /\ LET i    == First(doing[t].left)
         hook == engine.hooks[i]
     IN  \E result \in Results(hook) :
           LET stops == hook.event = "stop" /\ Forces(hook, result)
           IN  /\ guidance' = TRUE
               /\ Does(t, [doing[t] EXCEPT
                    !.pc = "matched",
                    !.left = IF stops THEN {} ELSE @ \ {i},
                    !.input = IF hook.event = "pre" /\ result.input # "none"
                              THEN result.input ELSE @,
                    !.blocked = @ \/ stops \/ (hook.event = "pre" /\ Blocks(hook, result))])
  /\ UNCHANGED << hookFile, engine, turnAt, continued, log >>

Through(t, event) == doing[t].pc = "matched" /\ doing[t].event = event /\ doing[t].left = {}

\* _run_one_call: a blocked call is not executed; any other is, with its new input,
\* and its post hooks look at that.
CallTool(t) ==
  /\ Through(t, "pre")
  /\ Does(t, IF doing[t].blocked THEN Idle
             ELSE Fire("post", IF doing[t].input = "none" THEN doing[t].file
                                                          ELSE doing[t].input))
  /\ UNCHANGED << hookFile, engine, turnAt, continued, guidance, log >>

CallEnds(t) ==
  /\ Through(t, "post")
  /\ Does(t, Idle)
  /\ UNCHANGED << hookFile, engine, turnAt, continued, guidance, log >>

(***************************************************************************)
(* run_turn                                                                *)
(***************************************************************************)

\* A new engine if hooks.json has changed: what the old one had to say is forgotten.
BeginTurn ==
  /\ turnAt = "between"
  /\ turnAt' = "starting"
  /\ continued' = 0
  /\ IF engine.version = hookFile.version THEN UNCHANGED << engine, guidance >>
     ELSE /\ engine' = [version |-> hookFile.version, hooks |-> hookFile.hooks, executed |-> {}]
          /\ guidance' = FALSE
  /\ UNCHANGED << hookFile, doing, log >>

FireStart ==
  /\ turnAt = "starting" /\ doing[Main] = Idle
  /\ Does(Main, Fire("start", "none"))
  /\ UNCHANGED << hookFile, engine, turnAt, continued, guidance, log >>

\* _provider_messages drains what the hooks had to say into the request.
Ask ==
  /\ Through(Main, "start") \/ (turnAt = "asking" /\ doing[Main] = Idle)
  /\ turnAt' = "asked"
  /\ Does(Main, Idle)
  /\ guidance' = FALSE
  /\ UNCHANGED << hookFile, engine, continued, log >>

\* One call on the thread of the turn, ...
RunSingle(file) ==
  /\ turnAt = "asked"
  /\ turnAt' = "acting"
  /\ Does(Main, Fire("pre", file))
  /\ UNCHANGED << hookFile, engine, continued, guidance, log >>

\* ... or several, each on a thread of the pool.
RunParallel(file) ==
  /\ turnAt = "asked"
  /\ turnAt' = "parallel"
  /\ doing' = [t \in Thread |-> IF t \in Worker THEN [Idle EXCEPT !.pc = "submitted",
                                                                  !.file = file] ELSE Idle]
  /\ UNCHANGED << hookFile, engine, continued, guidance, log >>

StartCall(t) ==
  /\ doing[t].pc = "submitted"
  /\ Does(t, Fire("pre", doing[t].file))
  /\ UNCHANGED << hookFile, engine, turnAt, continued, guidance, log >>

BatchEnds ==
  /\ turnAt \in {"acting", "parallel"}
  /\ \A t \in Thread : doing[t] = Idle
  /\ turnAt' = "asking"
  /\ UNCHANGED << hookFile, engine, continued, doing, guidance, log >>

\* An answer without calls: the stop hooks, unless they had their way too often.
FireStop ==
  /\ turnAt = "asked"
  /\ turnAt' = "stopping"
  /\ Does(Main, IF continued < MaxContinuations THEN Fire("stop", "none")
                ELSE [Idle EXCEPT !.pc = "matched", !.event = "stop"])
  /\ UNCHANGED << hookFile, engine, continued, guidance, log >>

Continue ==
  /\ Through(Main, "stop") /\ doing[Main].blocked
  /\ continued' = continued + 1
  /\ turnAt' = "asking"
  /\ Does(Main, Idle)
  /\ UNCHANGED << hookFile, engine, guidance, log >>

FireEnd ==
  /\ Through(Main, "stop") /\ ~doing[Main].blocked
  /\ turnAt' = "ending"
  /\ Does(Main, Fire("end", "none"))
  /\ UNCHANGED << hookFile, engine, continued, guidance, log >>

EndTurn ==
  /\ Through(Main, "end")
  /\ turnAt' = "between"
  /\ Does(Main, Idle)
  /\ UNCHANGED << hookFile, engine, continued, guidance, log >>

\* The user saves hooks.json.
EditHooks ==
  /\ hookFile.version < MaxReloads
  /\ \E hooks \in HookLists :
       hookFile' = [version |-> hookFile.version + 1, hooks |-> hooks]
  /\ UNCHANGED << engine, turnAt, continued, doing, guidance, log >>

Init ==
  /\ \E hooks \in HookLists :
       /\ hookFile = [version |-> 0, hooks |-> hooks]
       /\ engine = [version |-> 0, hooks |-> hooks, executed |-> {}]
  /\ turnAt = "between"
  /\ continued = 0
  /\ doing = [t \in Thread |-> Idle]
  /\ guidance = FALSE /\ log = << >>

Next ==
  \/ \E t \in Thread : Execute(t) \/ Finish(t) \/ StartCall(t) \/ CallTool(t) \/ CallEnds(t)
  \/ \E file \in File : RunSingle(file) \/ RunParallel(file)
  \/ BeginTurn \/ FireStart \/ Ask \/ BatchEnds \/ FireStop \/ Continue \/ FireEnd \/ EndTurn
  \/ EditHooks

Spec == Init /\ [][Next]_vars

(***************************************************************************)
(* Properties                                                              *)
(***************************************************************************)

\* A run-once hook is executed once for as long as its engine lives - except that the
\* threads of one batch match their hooks before any of them has marked it: no thread
\* executes it twice, and nothing that is matched after it began runs it again.
OnceButForBatch ==
  \A i, j \in DOMAIN log :
    LET same == log[i].version = log[j].version /\ log[i].hook = log[j].hook
    IN  i < j /\ same /\ engine.version = log[i].version /\ engine.hooks[log[i].hook].once
          => log[i].thread # log[j].thread /\ log[j].from < i

\* Why it holds: hooks are matched before a thread runs any of them, and whatever was
\* executed between is marked; and a new engine finds no hook under way.
Doings ==
  [pc: {"idle", "submitted", "matched", "acting"}, event: Event \cup {"none"},
   file: File \cup {"none"}, left: SUBSET Nat, blocked: BOOLEAN,
   input: File \cup {"none"}, from: Nat]

TypeOK ==
  /\ hookFile \in [version: Nat, hooks: HookLists]
  /\ engine \in [version: Nat, hooks: HookLists, executed: SUBSET Nat]
  /\ turnAt \in {"between", "starting", "asking", "asked", "acting", "parallel", "stopping",
                 "ending"}
  /\ doing \in [Thread -> Doings]
  /\ log \in Seq([version: Nat, hook: Nat, thread: Thread, from: Nat])

VersionInv ==
  /\ engine.version <= hookFile.version
  /\ \A k \in DOMAIN log :
       /\ log[k].version <= engine.version
       /\ log[k].version = engine.version => log[k].hook \in engine.executed

\* The hooks a thread has matched and not begun.
Ahead(t) == IF doing[t].pc = "acting" THEN doing[t].left \ {First(doing[t].left)}
                                      ELSE doing[t].left
AheadInv(t) ==
  /\ doing[t].from <= Len(log) /\ doing[t].left \subseteq DOMAIN engine.hooks
  /\ doing[t].pc = "acting" => doing[t].left # {}
  /\ \A k \in DOMAIN log :
       log[k].version = engine.version /\ log[k].hook \in Ahead(t)
         /\ engine.hooks[log[k].hook].once
       => doing[t].from < k /\ log[k].thread # t

PlaceInv ==
  /\ \A t \in Thread :
       /\ doing[t].event = "none" =>
            \/ doing[t] = Idle
            \/ doing[t] = [Idle EXCEPT !.pc = "submitted", !.file = doing[t].file]
               /\ turnAt = "parallel"
       /\ doing[t].pc = "submitted" => turnAt = "parallel"
       /\ doing[t].event \in {"pre", "post"} => turnAt \in {"acting", "parallel"}
       /\ doing[t].event = "start" => turnAt = "starting"
       /\ doing[t].event = "stop" => turnAt = "stopping"
       /\ doing[t].event = "end" => turnAt = "ending"
       /\ t # Main /\ turnAt # "parallel" => doing[t] = Idle

IInv ==
  TypeOK /\ VersionInv /\ PlaceInv /\ (\A t \in Thread : AheadInv(t)) /\ OnceButForBatch
=============================================================================
