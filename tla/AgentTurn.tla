------------------------------ MODULE AgentTurn ------------------------------
(***************************************************************************)
(* The agent's loop (src/lilbot/core/agent.py, run_turn): a turn asks the    *)
(* model, runs the tools it calls, puts their results into the transcript    *)
(* and asks again.  Around it is everything that rewrites the transcript:    *)
(* the tool result budget (core/tool_budget.py), compaction                 *)
(* (core/compaction.py), sessions on disk (core/session.py), an exception   *)
(* that breaks a turn off; and the filter every request to the model passes *)
(* (llm/providers.py, _messages).                                          *)
(*                                                                         *)
(* Texts have no content here, so sizes are not computed: whatever the code  *)
(* decides by counting tokens or characters may go either way.               *)
(***************************************************************************)
EXTENDS Naturals, Sequences, FiniteSets, FiniteSetsExt

CONSTANTS
  MaxSteps,          \* config.max_steps: tool calls in a turn
  MaxTruncations,    \* MAX_OUTPUT_TRUNCATIONS
  MaxContinuations,  \* MAX_STOP_CONTINUATIONS
  MaxRecoveries,     \* MAX_OVERFLOW_RECOVERIES
  MaxFailures,       \* CompactCircuitBreaker.max_failures
  MinKeep,           \* MIN_KEEP_MESSAGES
  KeepRecent,        \* KEEP_RECENT_TOOL_RESULTS
  LongHistory,       \* config.compact_after_messages * 4
  MaxTurns,          \* bound of the model: turns
  MaxCalls,          \* bound of the model: tool calls in one answer
  MaxNotes,          \* bound of the model: notes from teammates
  MaxRestarts        \* bound of the model: restarts of the program

ASSUME AgentTurnAssumption ==
  /\ {MaxSteps, MaxTruncations, MaxContinuations, MaxRecoveries, MaxFailures} \subseteq Nat
  /\ {KeepRecent, LongHistory, MaxTurns, MaxNotes, MaxRestarts} \subseteq Nat
  /\ {MinKeep, MaxCalls} \subseteq Nat \ {0}

VARIABLES
  messages,     \* Agent.messages
  saved,        \* the newest session file, empty if there is none
  pc,           \* where run_turn is
  steps,        \* tool calls of this turn whose results are reported
  truncations,  \* _output_truncations
  stops,        \* _stop_continuations
  attempts,     \* recoveries in this request
  rounds,       \* answers of the model in this turn so far
  calls,        \* number of the last call announced: calls are numbered from 1
  ran,          \* number of the last call that was run
  reported,     \* number of the last call whose result is in the transcript
  failures,     \* compact_breaker.consecutive_failures, up to MaxFailures
  seen,         \* _tool_budget.seen_ids
  replaced,     \* the keys of _tool_budget.replacements
  broken,       \* calls of answers whose execution was broken off
  turns, notes, restarts

turnVars == << steps, truncations, stops, attempts, rounds >>
callVars == << calls, ran, reported >>
budgetVars == << seen, replaced >>
countVars == << turns, notes, restarts >>
vars == << messages, saved, pc, turnVars, callVars, failures, budgetVars, broken,
           countVars >>

(***************************************************************************)
(* Messages                                                                *)
(***************************************************************************)

\* Of role "system": the prompt, a summary.  Of role "user": a question, a remark
\* of the program's own.  Of role "assistant": an answer, an announcement of calls.
Kind == {"prompt", "summary", "question", "remark", "answer", "calls", "result"}
Body == {"full", "preview", "cleared"}

\* A result names the call it answers, an announcement the calls it makes.
Message ==
  {m \in [kind: Kind, ids: SUBSET Nat, body: Body] :
     CASE m.kind = "calls"  -> IsFiniteSet(m.ids) /\ m.ids # {}
       [] m.kind = "result" -> \E id \in m.ids : m.ids = {id}
       [] OTHER             -> m.ids = {}}

Plain(kind) == [kind |-> kind, ids |-> {}, body |-> "full"]
Calls(ids) == [kind |-> "calls", ids |-> ids, body |-> "full"]
Result(id) == [kind |-> "result", ids |-> {id}, body |-> "full"]

IsResult(m) == m.kind = "result"

\* The results that follow position j without a gap.
Block(s, j) == {i \in j + 1 .. Len(s) : \A k \in j + 1 .. i : IsResult(s[k])}

\* Each result follows the announcement of its call, and each announcement is
\* followed by the results of its calls, one each.
Paired(s) ==
  /\ \A i \in DOMAIN s : IsResult(s[i]) =>
       \E j \in 1 .. i - 1 : s[j].kind = "calls" /\ i \in Block(s, j)
  /\ \A j \in DOMAIN s : s[j].kind = "calls" =>
       /\ s[j].ids = UNION {s[i].ids : i \in Block(s, j)}
       /\ Cardinality(Block(s, j)) = Cardinality(s[j].ids)

(***************************************************************************)
(* OpenAICompatibleProvider._messages: what of a transcript is sent          *)
(***************************************************************************)

\* Mutant: an incomplete block is sent.
DropNothing(f) == [f EXCEPT !.pending = {}]

\* drop_incomplete_tool_block
DropIncomplete(f) ==
  [f EXCEPT !.pending = {},
            !.clean = IF f.pending = {} THEN @ ELSE SubSeq(@, 1, f.start - 1)]

Filter(f, m) ==
  IF IsResult(m)
  THEN IF m.ids \subseteq f.pending
       THEN [f EXCEPT !.clean = Append(@, m), !.pending = @ \ m.ids]
       ELSE f
  ELSE LET g == DropIncomplete(f)
       IN  [clean |-> Append(g.clean, m), pending |-> m.ids, start |-> Len(g.clean) + 1]

Unfiltered == [clean |-> << >>, pending |-> {}, start |-> 0]

Request(s) ==
  LET upTo[i \in 0 .. Len(s)] ==
        IF i = 0 THEN Unfiltered ELSE Filter(upTo[i - 1], s[i])
  IN  DropIncomplete(upTo[Len(s)]).clean

(***************************************************************************)
(* Compaction                                                              *)
(***************************************************************************)

\* Mutants: the kept tail may begin with a result; it may be empty; results are
\* cleared in the kept tail too.
WalkBackNowhere(s, i) == Max({2, i})

StopLate(s) == {i \in 2 .. Len(s) + 1 : Len(s) - i < MinKeep}

PruneEverything(s, start) ==
  [i \in DOMAIN s |-> IF IsResult(s[i]) THEN [s[i] EXCEPT !.body = "cleared"] ELSE s[i]]

\* _align_keep_start: back over results, to the first message after the prompt at
\* most.
WalkBack(s, i) == Max({2} \cup {j \in 2 .. i : j > Len(s) \/ ~IsResult(s[j])})

\* Where compute_keep_start may stop, by the tokens it has counted: at one of the
\* last MinKeep messages.
Stop(s) == {i \in 2 .. Len(s) : Len(s) - i < MinKeep}

KeepStarts(s) == {WalkBack(s, i) : i \in Stop(s)}

\* prune_tool_results
Prune(s, start) ==
  [i \in DOMAIN s |-> IF i < start /\ IsResult(s[i])
                        THEN [s[i] EXCEPT !.body = "cleared"] ELSE s[i]]

RecordFailure == failures' = IF failures < MaxFailures THEN failures + 1 ELSE failures

\* auto_compact, and compact, which adopts its result.  Nothing to do, or too little
\* to summarise; pruning is enough; a summary takes the place of what is older than
\* the kept tail; or no attempt at a summary succeeds.
Compact(manual) ==
  \/ UNCHANGED << messages, failures >>
  \/ /\ manual \/ failures < MaxFailures
     /\ \E start \in KeepStarts(messages) :
          \/ /\ ~manual
             /\ Prune(messages, start) # messages
             /\ messages' = Prune(messages, start)
             /\ failures' = 0
          \/ /\ start > 2
             /\ messages' = << messages[1], Plain("summary") >>
                              \o SubSeq(Prune(messages, start), start, Len(messages))
             /\ failures' = 0
          \/ /\ start > 2
             /\ RecordFailure
             /\ UNCHANGED messages

(***************************************************************************)
(* The tool result budget                                                  *)
(***************************************************************************)

Results(s) == {i \in DOMAIN s : IsResult(s[i])}

\* All but the last KeepRecent results.
Unprotected(s) ==
  {i \in Results(s) : Cardinality({j \in Results(s) : j > i}) >= KeepRecent}

Fresh == (UNION {messages[i].ids : i \in Unprotected(messages)}) \ (seen \cup replaced)

\* enforce_tool_result_budget and _apply; the agent adopts the new transcript only
\* if something was replaced now.
ApplyBudget ==
  \E newly \in SUBSET Fresh :
    /\ replaced' = replaced \cup newly
    /\ seen' = seen \cup Fresh
    /\ messages' = [i \in DOMAIN messages |->
                      IF /\ newly # {}
                         /\ IsResult(messages[i])
                         /\ messages[i].ids \subseteq replaced'
                      THEN [messages[i] EXCEPT !.body = "preview"]
                      ELSE messages[i]]

(***************************************************************************)
(* A turn                                                                  *)
(***************************************************************************)

Say(kind) == messages' = Append(messages, Plain(kind))

\* run_turn, up to _maybe_compact.
Ask ==
  /\ pc = "idle"
  /\ turns < MaxTurns
  /\ turns' = turns + 1
  /\ Say("question")
  /\ pc' = "budget"
  /\ UNCHANGED << saved, turnVars, callVars, failures, budgetVars, broken,
                  notes, restarts >>

\* _maybe_compact: the budget, a compaction if the context is large, and another if
\* the history is still long.
Budget ==
  /\ pc = "budget"
  /\ ApplyBudget
  /\ pc' = "auto"
  /\ UNCHANGED << saved, turnVars, callVars, failures, broken, countVars >>

CompactIfLarge ==
  /\ pc = "auto"
  /\ Compact(FALSE)
  /\ pc' = "long"
  /\ UNCHANGED << saved, turnVars, callVars, budgetVars, broken, countVars >>

CompactIfLong ==
  /\ pc = "long"
  /\ IF Len(messages) > LongHistory THEN Compact(TRUE) ELSE UNCHANGED << messages, failures >>
  /\ pc' = "loop"
  /\ UNCHANGED << saved, turnVars, callVars, budgetVars, broken, countVars >>

\* _drain_team_notifications appends what there is.
Drain ==
  /\ notes' \in notes .. MaxNotes
  /\ messages' = messages \o [i \in 1 .. notes' - notes |-> Plain("remark")]

\* The head of the loop.
Loop ==
  /\ pc = "loop"
  /\ IF steps < MaxSteps
       THEN Drain /\ pc' = "request"
       ELSE UNCHANGED << messages, notes >> /\ pc' = "limit"
  /\ UNCHANGED << saved, turnVars, callVars, failures, budgetVars, broken,
                  turns, restarts >>

\* _stream_turn: the request is too large; compact and try again.
Overflow ==
  /\ pc = "request"
  /\ attempts < MaxRecoveries
  /\ attempts' = attempts + 1
  /\ Compact(TRUE)
  /\ UNCHANGED << saved, pc, steps, truncations, stops, rounds, callVars,
                  budgetVars, broken, countVars >>

\* The model has answered.
Answered == rounds' = rounds + 1 /\ attempts' = 0

\* Mutant: the continuations that a stop hook asks for are not counted.
StopHookUncounted ==
  /\ stops < MaxContinuations
  /\ UNCHANGED << truncations, stops >>

\* An answer that was cut off, or that a stop hook is not content with, does not
\* end the turn.
CutOff ==
  /\ truncations < MaxTruncations
  /\ truncations' = truncations + 1
  /\ UNCHANGED stops

StopHook ==
  /\ stops < MaxContinuations
  /\ stops' = stops + 1
  /\ UNCHANGED truncations

GoOn ==
  /\ pc = "request"
  /\ Answered
  /\ CutOff \/ StopHook
  /\ messages' = messages \o << Plain("answer"), Plain("remark") >>
  /\ pc' = "loop"
  /\ UNCHANGED << saved, steps, callVars, failures, budgetVars, broken,
                  countVars >>

\* The locals of run_turn are gone, and nobody reads the counters of the agent before
\* the next turn resets them.
Leave ==
  /\ pc' = "idle"
  /\ steps' = 0 /\ truncations' = 0 /\ stops' = 0 /\ attempts' = 0 /\ rounds' = 0

\* _persist_session; a file that cannot be written stays as it was.
Persist == saved' \in {saved, messages'}

\* The turn ends with an answer.
End ==
  /\ Say("answer")
  /\ Persist
  /\ Leave
  /\ UNCHANGED << callVars, failures, budgetVars, broken, countVars >>

Answer == pc = "request" /\ End

\* _synthesize_after_step_limit always has an answer, the model's or its own.
Synthesize == pc = "limit" /\ End

\* Mutant: more calls are accepted than there are steps left.
AnnounceAll ==
  /\ pc = "request"
  /\ Answered
  /\ \E n \in 1 .. MaxCalls :
       /\ calls' = calls + n
       /\ messages' = Append(messages, Calls(calls + 1 .. calls + n))
  /\ pc' = "act"
  /\ UNCHANGED << saved, steps, truncations, stops, ran, reported, failures,
                  budgetVars, broken, countVars >>

\* The answer calls tools; calls beyond the step budget are cut off.
Announce ==
  /\ pc = "request"
  /\ Answered
  /\ \E n \in 1 .. MaxCalls :
       /\ steps + n <= MaxSteps
       /\ calls' = calls + n
       /\ messages' = Append(messages, Calls(calls + 1 .. calls + n))
  /\ pc' = "act"
  /\ UNCHANGED << saved, steps, truncations, stops, ran, reported, failures,
                  budgetVars, broken, countVars >>

\* _partition_calls: the next batch is the calls up to some later one.
RunBatch ==
  /\ pc = "act"
  /\ ran = reported
  /\ ran' \in ran + 1 .. calls
  /\ UNCHANGED << messages, saved, pc, turnVars, calls, reported, failures,
                  budgetVars, broken, countVars >>

\* The results of a batch are appended in order; after the last one the model is
\* asked again.
Report ==
  /\ pc = "act"
  /\ reported < ran
  /\ reported' = reported + 1
  /\ steps' = steps + 1
  /\ messages' = Append(messages, Result(reported + 1))
  /\ pc' = IF reported + 1 = calls THEN "loop" ELSE "act"
  /\ UNCHANGED << saved, truncations, stops, attempts, rounds, calls, ran,
                  failures, budgetVars, broken, countVars >>

\* The calls of the last announcement.
Announced(s) ==
  UNION {s[i].ids : i \in {j \in DOMAIN s : /\ s[j].kind = "calls"
                                            /\ \A k \in j + 1 .. Len(s) : s[k].kind # "calls"}}

\* An exception leaves run_turn: of the provider, of a hook, of a tool.  Calls that
\* were announced stay announced.
Raise ==
  /\ pc # "idle"
  /\ broken' = broken \cup IF pc = "act" THEN Announced(messages) ELSE {}
  /\ ran' = calls /\ reported' = calls
  /\ Leave
  /\ UNCHANGED << messages, saved, calls, failures, budgetVars, countVars >>

(***************************************************************************)
(* Between turns                                                           *)
(***************************************************************************)

\* /compact; /clear; /resume, which brings back the file of the last session.
CompactNow ==
  /\ pc = "idle"
  /\ Compact(TRUE)
  /\ UNCHANGED << saved, pc, turnVars, callVars, budgetVars, broken, countVars
                  >>

Reset ==
  /\ pc = "idle"
  /\ messages' = << Plain("prompt") >>
  /\ UNCHANGED << saved, pc, turnVars, callVars, failures, budgetVars, broken,
                  countVars >>

Resume ==
  /\ pc = "idle"
  /\ saved # << >>
  /\ messages' = saved
  /\ UNCHANGED << saved, pc, turnVars, callVars, failures, budgetVars, broken,
                  countVars >>

\* Ctrl-C, a crash: the next program begins with nothing but the files.
Restart ==
  /\ restarts < MaxRestarts
  /\ restarts' = restarts + 1
  /\ messages' = << Plain("prompt") >>
  /\ Leave
  /\ ran' = calls /\ reported' = calls
  /\ failures' = 0 /\ seen' = {} /\ replaced' = {}
  /\ UNCHANGED << saved, calls, broken, turns, notes >>

Init ==
  /\ messages = << Plain("prompt") >> /\ saved = << >>
  /\ pc = "idle"
  /\ steps = 0 /\ truncations = 0 /\ stops = 0 /\ attempts = 0 /\ rounds = 0
  /\ calls = 0 /\ ran = 0 /\ reported = 0
  /\ failures = 0 /\ seen = {} /\ replaced = {} /\ broken = {}
  /\ turns = 0 /\ notes = 0 /\ restarts = 0

Turn ==
  \/ Budget \/ CompactIfLarge \/ CompactIfLong \/ Loop \/ Overflow \/ GoOn \/ Answer
  \/ Announce \/ RunBatch \/ Report \/ Synthesize

Next == Ask \/ Turn \/ Raise \/ CompactNow \/ Reset \/ Resume \/ Restart

Spec == Init /\ [][Next]_vars

\* A turn goes on: the model and the tools return or raise.
Fairness == WF_vars(Turn)

(***************************************************************************)
(* Properties                                                              *)
(***************************************************************************)

\* The values the variables take: a call is announced, run and reported in order.
TypeOK ==
  /\ messages \in Seq(Message) /\ messages # << >> /\ saved \in Seq(Message)
  /\ pc \in {"idle", "budget", "auto", "long", "loop", "request", "act", "limit"}
  /\ {steps, rounds, calls, ran, reported} \subseteq Nat
  /\ reported <= ran /\ ran <= calls
  /\ truncations \in 0 .. MaxTruncations /\ stops \in 0 .. MaxContinuations
  /\ attempts \in 0 .. MaxRecoveries
  /\ failures \in 0 .. MaxFailures
  /\ seen \subseteq 1 .. calls /\ replaced \subseteq seen /\ broken \subseteq 1 .. calls
  /\ turns \in 0 .. MaxTurns /\ notes \in 0 .. MaxNotes /\ restarts \in 0 .. MaxRestarts

\* Whatever compaction, the budget, broken turns and resumed sessions made of the
\* transcript, a request has each announced call with its result and no result
\* without its call: providers refuse anything else.
RequestIsPaired == pc = "request" => Paired(Request(messages))

\* What of a transcript belongs to no call whose execution was broken off.
Unbroken(s) ==
  LET upTo[i \in 0 .. Len(s)] ==
        IF i = 0 THEN << >>
        ELSE IF s[i].ids \cap broken = {} THEN Append(upTo[i - 1], s[i]) ELSE upTo[i - 1]
  IN  upTo[Len(s)]

\* The filter never has to drop anything but what a broken turn left: no compaction
\* parts a call from its result.
OnlyBrokenIsDropped == pc = "request" => Request(messages) = Unbroken(messages)

\* The results at the end of a transcript are as the tools returned them.
EndIntact(s) ==
  \A i \in DOMAIN s :
    (\A k \in i .. Len(s) : IsResult(s[k])) => s[i].body = "full"

\* The results at the end of the transcript, which the model is asked about, are in
\* the request in full, after a recovery from overflow as well.
CurrentResultsIntact == pc = "request" => EndIntact(messages)

\* The user's question is in the first request of the turn word for word, however
\* much the compactions at the start of the turn summarise.
QuestionReachesModel ==
  pc = "request" /\ rounds = 0 /\ attempts = 0 =>
    \E i \in DOMAIN messages :
      /\ messages[i].kind = "question"
      /\ \A k \in i + 1 .. Len(messages) : messages[k].kind = "remark"

\* The strengthening of these.  A transcript begins with the prompt, which no
\* compaction takes away, and ends with results as they were returned, or with
\* something else; n calls have been announced so far:
Transcript(s, n) ==
  /\ s \in Seq(Message)
  /\ s # << >> /\ s[1].kind = "prompt"
  /\ \A i \in DOMAIN s : s[i].ids \subseteq 1 .. n
  /\ EndIntact(s)

QuestionIsLast == messages[Len(messages)].kind = "question"

\* In a turn that has no answer yet, nothing but notes comes after the question:
QuestionInv ==
  /\ pc \in {"budget", "auto", "long"} \/ (pc = "loop" /\ rounds = 0) => QuestionIsLast
  /\ pc = "act" => rounds > 0
  /\ QuestionReachesModel

IInv ==
  /\ TypeOK
  /\ Transcript(messages, calls)
  /\ saved # << >> => Transcript(saved, calls)
  /\ QuestionInv

\* The messages that are not results, and the calls whose results follow one of them.
Leads(s) == {j \in DOMAIN s : ~IsResult(s[j])}

ResultsOf(s, j) == UNION {s[i].ids : i \in Block(s, j)}

\* Why nothing else is dropped.  Results follow the announcement of their calls, one
\* each, and no call is announced twice;
InBlocks(s) ==
  /\ 1 \in Leads(s)
  /\ \A j \in Leads(s) : \A i \in Block(s, j) :
       /\ s[i].ids \subseteq s[j].ids
       /\ \A k \in Block(s, j) : k # i => s[k].ids \cap s[i].ids = {}
  /\ \A j, k \in Leads(s) : j # k => s[j].ids \cap s[k].ids = {}

\* an announcement has the results of all its calls, or its execution was broken off
\* before it had;
Settled(s, j, brokenOff) ==
  IF s[j].ids \cap brokenOff = {}
  THEN s[j].ids \subseteq ResultsOf(s, j)
  ELSE s[j].ids \subseteq brokenOff /\ ~(s[j].ids \subseteq ResultsOf(s, j))

\* and the calls that are being run are those of the last announcement, which is new.
UnderWay(j) ==
  /\ messages[j].kind = "calls"
  /\ Block(messages, j) = j + 1 .. Len(messages)
  /\ reported < calls
  /\ messages[j].ids \ ResultsOf(messages, j) = reported + 1 .. calls
  /\ messages[j].ids \cap broken = {}
  /\ \A k \in Leads(saved) : saved[k].ids \cap messages[j].ids = {}

BlocksInv ==
  /\ InBlocks(messages)
  /\ saved # << >> => InBlocks(saved)
  /\ \A j \in Leads(saved) : Settled(saved, j, broken)
  /\ IF pc = "act"
       THEN \E j \in Leads(messages) :
              /\ UnderWay(j)
              /\ \A k \in Leads(messages) \ {j} : Settled(messages, k, broken)
       ELSE \A k \in Leads(messages) : Settled(messages, k, broken)

\* No turn goes on for ever: it runs at most MaxSteps calls, and before its last
\* answer the model gives at most one for each of them and one for each
\* continuation, whatever it answers and however stop hooks decide.
BoundedTurn ==
  /\ steps <= MaxSteps
  /\ rounds <= MaxSteps + MaxTruncations + MaxContinuations

\* Why it is: the calls that are announced fit into the step budget, and each answer
\* of the model is paid for by a step, a continuation, or the calls it announces,
\* which are still to be run.
StepsPayForRounds ==
  /\ {steps, rounds, calls, ran, reported, truncations, stops} \subseteq Nat
  /\ reported <= ran /\ ran <= calls
  /\ pc = "act" <=> reported < calls
  /\ steps + (calls - reported) <= MaxSteps
  /\ truncations <= MaxTruncations /\ stops <= MaxContinuations
  /\ rounds <= steps + truncations + stops + IF pc = "act" THEN 1 ELSE 0

\* Every turn ends: the loop is outside of a turn again and again.
TurnEnds == []<>(pc = "idle")

\* What tool_budget.py says of itself: it never rewrites a result that was sent to
\* the model.  A result was sent if the model has answered since.
SentStaysSent ==
  [][\A i, j \in DOMAIN messages :
       /\ pc = "budget" /\ pc' = "auto"
       /\ i < j /\ IsResult(messages[i]) /\ messages[j].kind \in {"answer", "calls"}
       /\ messages[i].ids \cap broken = {}
       => messages'[i] = messages[i]]_vars
=============================================================================
