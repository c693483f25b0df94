------------------------------- MODULE ToolGate -------------------------------
(***************************************************************************)
(* What stands between a tool call and its effect, in the dashboard:         *)
(*   - the plan gate of the tool registry (tools/registry.py), which reads   *)
(*     plan_mode.json;                                                      *)
(*   - the permission manager (sandbox/permissions.py) with its mode, its    *)
(*     remembered rules and, when neither decides, a question to the user;   *)
(*   - the dashboard (tui/dashboard.py), where threads that ask share one     *)
(*     popup, one answer and one event with the thread that reads the        *)
(*     keyboard, and where a line that answers nothing starts a turn or a     *)
(*     slash command in a thread of its own.                                *)
(*                                                                         *)
(* Calls are made by the turns of the agent and by subagents, all in threads *)
(* of one process that share the one registry and the one manager.          *)
(***************************************************************************)
EXTENDS Naturals, FiniteSets

CONSTANTS
  Worker,    \* threads of the lines typed; their number is a bound of the model
  Sub,       \* threads of running subagents
  Action,    \* keys of permission: write:<path>, bash:<command>, ...
  Safe,      \* those that are commands known to be read-only
  MaxLines,  \* bound of the model: lines typed
  None       \* no thread, no line, no call

Agent == Worker \cup Sub

Mode == {"ask", "accept-all", "deny-all"}

\* What plan_mode.json says once a plan was made: it is being made, it waits for
\* a verdict, it has one.
PlanState == {"planning", "pending", "open"}

\* Lines: answers, the arguments of /permissions, /plan (planning) and /do (open),
\* and any other text, which is a prompt.
Command == Mode \cup {"planning", "open"}
Line == {"y", "a", "d", "text"} \cup Command

ASSUME GateAssumption ==
  /\ Worker \cap Sub = {} /\ None \notin Agent
  /\ Safe \subseteq Action /\ None \notin Action
  /\ Action \cap (Line \cup PlanState) = {} /\ None \notin Line \cup PlanState
  /\ MaxLines \in Nat

VARIABLES
  pc,       \* where each thread is
  call,     \* the action, or the command, it works on
  line,     \* the line between _answer_permission and the test of busy
  busy,     \* dashboard: a turn is running
  pending,  \* dashboard: the request displayed; the code stores its label
  answer,   \* dashboard: permission_answer, "" when there is none
  event,    \* dashboard: permission_event is set
  mode, rules,  \* permission manager
  plan,     \* what plan_mode.json says; "torn" is an empty or broken file
  typed,    \* lines typed so far
  asked,    \* history: lines typed when each thread asked
  stamp     \* history: number of the line that is the answer, and the request
            \* displayed when it was typed

vars == << pc, call, line, busy, pending, answer, event, mode, rules, plan,
           typed, asked, stamp >>

\* A thread inside a turn of the agent or of a subagent.
InTurn == {"turn", "saving", "cleared", "undecided", "asking", "waiting", "woken", "allowed"}
PC == {"free", "started", "slash", "storing"} \cup InTurn

\* Threads between the question and the answer.
Asking == {a \in Agent : pc[a] \in {"asking", "waiting", "woken"}}

Goto(a, there) == pc' = [pc EXCEPT ![a] = there]

\* A call, or a thread's whole work, is over.
Back(a, there) == Goto(a, there) /\ call' = [call EXCEPT ![a] = None]

dashboard == << busy, pending, answer, event, line, typed, asked, stamp >>
manager == << mode, rules >>

TypeOK ==
  /\ pc \in [Agent -> PC]
  /\ call \in [Agent -> Action \cup Command \cup PlanState \cup {None}]
  /\ line \in Line \cup {None}
  /\ busy \in BOOLEAN
  /\ pending \in Agent \cup {None}
  /\ answer \in Line \cup {""}
  /\ event \in BOOLEAN
  /\ mode \in Mode
  /\ rules \in [Action -> {"none", "allow", "deny"}]
  /\ plan \in PlanState \cup {"none", "torn"}
  /\ typed \in 0 .. MaxLines
  /\ asked \in [Agent -> 0 .. MaxLines]
  /\ stamp \in [no : 0 .. MaxLines, shown : Agent \cup {None}]

Init ==
  /\ pc = [a \in Agent |-> IF a \in Worker THEN "free" ELSE "turn"]
  /\ call = [a \in Agent |-> None]
  /\ line = None /\ busy = FALSE
  /\ pending = None /\ answer = "" /\ event = FALSE
  /\ mode = "ask"
  /\ rules = [x \in Action |-> "none"]
  /\ plan = "none"
  /\ typed = 0
  /\ asked = [a \in Agent |-> 0]
  /\ stamp = [no |-> 0, shown |-> None]

(***************************************************************************)
(* The keyboard                                                            *)
(***************************************************************************)

\* _answer_permission: a line typed while a request is displayed answers it.
\* Event.set wakes all that wait, and lets pass those that come later.
Answer(l) ==
  /\ pending # None
  /\ answer' = l
  /\ event' = TRUE
  /\ pc' = [a \in Agent |-> IF pc[a] = "waiting" THEN "woken" ELSE pc[a]]
  /\ stamp' = [no |-> typed + 1, shown |-> pending]
  /\ UNCHANGED << line, pending >>

\* _accept, first half.
Type(l) ==
  /\ typed < MaxLines /\ line = None
  /\ typed' = typed + 1
  /\ \/ Answer(l)
     \/ /\ pending = None
        /\ line' = l
        /\ UNCHANGED << answer, event, pc, stamp, pending >>
  /\ UNCHANGED << call, busy, asked, manager, plan >>

\* _accept, second half: refused while busy, else a thread is started for it.
Route ==
  /\ line # None
  /\ line' = None
  /\ \/ busy /\ UNCHANGED << pc, call >>
     \/ \E w \in Worker :
          /\ ~busy /\ pc[w] = "free"
          /\ IF line \in Command
             THEN Goto(w, "slash") /\ call' = [call EXCEPT ![w] = line]
             ELSE Goto(w, "started") /\ UNCHANGED call
  /\ UNCHANGED << busy, pending, answer, event, typed, asked, stamp, manager, plan >>

(***************************************************************************)
(* The threads of _process_line                                            *)
(***************************************************************************)

\* The turn begins: only now does the keyboard see that the agent is busy.
BeginTurn(w) ==
  /\ pc[w] = "started" /\ Goto(w, "turn")
  /\ busy' = TRUE
  /\ UNCHANGED << call, line, pending, answer, event, typed, asked, stamp, manager, plan >>

\* Mutant of EndTurn: busy is not reset in a finally.
EndTurnStaysBusy(w) ==
  /\ w \in Worker /\ pc[w] = "turn" /\ Goto(w, "free")
  /\ UNCHANGED << call, dashboard, manager, plan >>

\* The turn ends, however it ends.
EndTurn(w) ==
  /\ w \in Worker /\ pc[w] = "turn" /\ Goto(w, "free")
  /\ busy' = FALSE
  /\ UNCHANGED << call, line, pending, answer, event, typed, asked, stamp, manager, plan >>

\* /permissions, in a popup: busy is left alone.
SetMode(w) ==
  /\ pc[w] = "slash" /\ call[w] \in Mode
  /\ mode' = call[w]
  /\ Back(w, "free")
  /\ UNCHANGED << dashboard, rules, plan >>

(***************************************************************************)
(* Plan mode                                                               *)
(***************************************************************************)

\* EnterPlanMode and ExitPlanMode, called in a turn of the agent or by /plan and
\* /do, put a new state into the file, which write_text first empties.
\* ExitPlanMode without a verdict, which only a turn can call, leaves the plan
\* pending.  Subagents are refused both tools.
SavePlan(w) ==
  /\ w \in Worker
  /\ \/ pc[w] = "slash" /\ call[w] \in PlanState /\ Goto(w, "storing") /\ UNCHANGED call
     \/ /\ pc[w] = "turn" /\ Goto(w, "saving")
        /\ \E s \in PlanState : call' = [call EXCEPT ![w] = s]
  /\ plan' = "torn"
  /\ UNCHANGED << dashboard, manager >>

\* The new state is written; what another thread wrote in between may stick out
\* behind it.
PlanSaved(w) ==
  /\ \/ pc[w] = "storing" /\ Back(w, "free")
     \/ pc[w] = "saving" /\ Back(w, "turn")
  /\ plan' \in {call[w]} \cup (IF plan = "torn" THEN {} ELSE {"torn"})
  /\ UNCHANGED << dashboard, manager >>

\* _plan_approval_gate: a file that cannot be read or parsed blocks nothing.
PlanBlocks == plan \in {"planning", "pending"}

(***************************************************************************)
(* A call                                                                  *)
(***************************************************************************)

\* A turn or a subagent calls a gated tool.  A call refused by a hook, by the
\* tools allowed to a subagent, by validation or by the plan gate changes nothing.
Execute(a, x) ==
  /\ pc[a] = "turn" /\ ~PlanBlocks
  /\ Goto(a, "cleared")
  /\ call' = [call EXCEPT ![a] = x]
  /\ UNCHANGED << dashboard, manager, plan >>

\* _shell_permission and the part of check that needs no user.
Decide(a) ==
  /\ pc[a] = "cleared"
  /\ LET x == call[a]
         quick == x \in Safe \/ mode = "accept-all"
         known == mode = "ask" /\ rules[x] # "none"
     IN  \/ /\ quick \/ (known /\ rules[x] = "allow")
            /\ Goto(a, "allowed") /\ UNCHANGED call
         \/ /\ ~quick
            /\ mode = "deny-all" \/ (known /\ rules[x] = "deny")
            /\ Back(a, "turn")
         \/ /\ ~quick /\ mode = "ask" /\ ~known
            /\ Goto(a, "undecided") /\ UNCHANGED call
  /\ UNCHANGED << dashboard, manager, plan >>

\* Mutant of Ask: the answer and the event of the last popup are still there.
AskAgain(a) ==
  /\ pc[a] = "undecided" /\ Goto(a, "asking")
  /\ pending' = a
  /\ asked' = [asked EXCEPT ![a] = typed]
  /\ UNCHANGED << call, busy, answer, event, line, typed, stamp, manager, plan >>

\* permission_prompt up to the wait: the request displayed before, if any, is
\* replaced, and its answer and its event are reset.
Ask(a) ==
  /\ pc[a] = "undecided" /\ Goto(a, "asking")
  /\ pending' = a /\ answer' = "" /\ event' = FALSE
  /\ asked' = [asked EXCEPT ![a] = typed]
  /\ UNCHANGED << call, busy, line, typed, stamp, manager, plan >>

\* Event.wait.
Wait(a) ==
  /\ pc[a] = "asking"
  /\ Goto(a, IF event THEN "woken" ELSE "waiting")
  /\ UNCHANGED << call, dashboard, manager, plan >>

\* Mutant of Take: the popup stays.
TakeButShow(a) ==
  /\ pc[a] = "woken"
  /\ rules' = IF answer \in {"a", "d"}
              THEN [rules EXCEPT ![call[a]] = IF answer = "a" THEN "allow" ELSE "deny"]
              ELSE rules
  /\ IF answer \in {"a", "y"}
     THEN Goto(a, "allowed") /\ UNCHANGED call
     ELSE Back(a, "turn")
  /\ UNCHANGED << dashboard, mode, plan >>

\* The rest of permission_prompt and of check.
Take(a) ==
  /\ pc[a] = "woken"
  /\ pending' = None
  /\ rules' = IF answer \in {"a", "d"}
              THEN [rules EXCEPT ![call[a]] = IF answer = "a" THEN "allow" ELSE "deny"]
              ELSE rules
  /\ IF answer \in {"a", "y"}
     THEN Goto(a, "allowed") /\ UNCHANGED call
     ELSE Back(a, "turn")
  /\ UNCHANGED << busy, answer, event, line, typed, asked, stamp, mode, plan >>

\* The tool does its work.
Perform(a) ==
  /\ pc[a] = "allowed" /\ Back(a, "turn")
  /\ UNCHANGED << dashboard, manager, plan >>

Next ==
  \/ \E l \in Line : Type(l)
  \/ Route
  \/ \E w \in Worker : BeginTurn(w) \/ EndTurn(w) \/ SetMode(w) \/ SavePlan(w) \/ PlanSaved(w)
  \/ \E a \in Agent :
       \/ \E x \in Action : Execute(a, x)
       \/ Decide(a) \/ Ask(a) \/ Wait(a) \/ Take(a) \/ Perform(a)

Spec == Init /\ [][Next]_vars

(***************************************************************************)
(* Properties                                                              *)
(***************************************************************************)

\* A popup is never an orphan: while permission_prompt has its request on the
\* screen, the thread that made it still waits for the answer.  Otherwise every
\* line typed later would be swallowed by _answer_permission.
PopupHasWaiter == pending # None => pending \in Asking

\* The dashboard refuses a prompt ("Agent is still working") only while some
\* thread of _process_line is inside a turn.
RefusalHasReason == busy => \E w \in Worker : pc[w] \in InTurn

\* A request is granted by the user only through a line typed after it was
\* made: permission_prompt never takes an answer left over from another popup.
GrantIsFresh ==
  [][\A a \in Agent : pc[a] = "woken" /\ pc'[a] = "allowed" => stamp.no > asked[a]]_vars

\* A request is granted by the user only through a line typed while that request
\* was the one displayed ("Local sandbox request is paused until you choose").
GrantIsForRequest ==
  [][\A a \in Agent : pc[a] = "woken" /\ pc'[a] = "allowed" => stamp.shown = a]_vars
=============================================================================
