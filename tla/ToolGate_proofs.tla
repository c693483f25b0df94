---------------------------- MODULE ToolGate_proofs ----------------------------
(***************************************************************************)
(* Proofs about ToolGate, for any number of threads, actions and lines.      *)
(***************************************************************************)
EXTENDS ToolGate, TLAPS

\* Nobody asked later than now, and the answer that stands, if there is one, was
\* typed after every question that is still open.
AnswerIsFresh ==
  /\ \A a \in Agent : asked[a] <= typed
  /\ answer # "" => \A a \in Asking : asked[a] < stamp.no

\* A thread that writes plan_mode.json has a state to write.
Writing(a) == pc[a] \in {"storing", "saving"}
StateToWrite == \A a \in Agent : Writing(a) => call[a] \in PlanState

IInv == TypeOK /\ StateToWrite /\ PopupHasWaiter /\ RefusalHasReason /\ AnswerIsFresh

\* What TypeOK says of the line counts.
LEMMA Numbers ==
  ASSUME TypeOK
  PROVE  /\ MaxLines \in Nat /\ typed \in Nat /\ typed <= MaxLines
         /\ \A a \in Agent : asked[a] \in Nat
         /\ stamp.no \in Nat
<1>1. MaxLines \in Nat
  BY GateAssumption DEF GateAssumption
<1>2. typed \in 0 .. MaxLines /\ asked \in [Agent -> 0 .. MaxLines] /\ stamp.no \in 0 .. MaxLines
  BY DEF TypeOK
<1> QED BY <1>1, <1>2

(***************************************************************************)
(* The program counters                                                    *)
(***************************************************************************)

LEMMA GotoType ==
  ASSUME TypeOK, NEW a \in Agent, NEW there \in PC, Goto(a, there)
  PROVE  /\ pc' \in [Agent -> PC]
         /\ pc'[a] = there
         /\ \A b \in Agent \ {a} : pc'[b] = pc[b]
BY DEF TypeOK, Goto

LEMMA BackType ==
  ASSUME TypeOK, NEW a \in Agent, NEW there \in PC, Back(a, there)
  PROVE  /\ pc' \in [Agent -> PC]
         /\ pc'[a] = there
         /\ \A b \in Agent \ {a} : pc'[b] = pc[b] /\ call'[b] = call[b]
         /\ call' \in [Agent -> Action \cup Command \cup PlanState \cup {None}]
<1>1. /\ pc' \in [Agent -> PC]
      /\ pc'[a] = there
      /\ \A b \in Agent \ {a} : pc'[b] = pc[b]
  BY GotoType DEF Back
<1>2. /\ \A b \in Agent \ {a} : call'[b] = call[b]
      /\ call' \in [Agent -> Action \cup Command \cup PlanState \cup {None}]
  BY DEF TypeOK, Back
<1> QED BY <1>1, <1>2

\* A function changed at one place.
LEMMA Update ==
  ASSUME NEW S, NEW f \in [Agent -> S], NEW g, NEW a \in Agent, NEW v \in S,
         g = [f EXCEPT ![a] = v]
  PROVE  g \in [Agent -> S] /\ g[a] = v /\ \A b \in Agent \ {a} : g[b] = f[b]
OBVIOUS

\* A step that leaves the popup alone, and takes nobody out of Asking, keeps the
\* two invariants about questions.
LEMMA PopupUntouched ==
  ASSUME PopupHasWaiter, AnswerIsFresh, Asking' = Asking,
         UNCHANGED << pending, answer, typed, asked, stamp >>
  PROVE  PopupHasWaiter' /\ AnswerIsFresh'
BY DEF PopupHasWaiter, AnswerIsFresh

\* A thread that goes from one place of a turn to another keeps the turn going.
LEMMA TurnGoesOn ==
  ASSUME RefusalHasReason, busy' = busy,
         \A w \in Worker : pc[w] \in InTurn => pc'[w] \in InTurn
  PROVE  RefusalHasReason'
BY DEF RefusalHasReason

\* No thread begins to write, and none that writes is given another call.
LEMMA NoNewWriter ==
  ASSUME StateToWrite,
         \A a \in Agent : Writing(a)' => Writing(a) /\ call'[a] = call[a]
  PROVE  StateToWrite'
BY DEF StateToWrite

\* What one thread does without touching the dashboard disturbs no invariant if it
\* stays among those that ask or outside them, does not leave its turn, and does
\* not begin to write without a state.
LEMMA OneThreadMoves ==
  ASSUME IInv, NEW a \in Agent, UNCHANGED dashboard,
         \A b \in Agent \ {a} : pc'[b] = pc[b] /\ call'[b] = call[b],
         a \in Asking <=> a \in Asking',
         pc[a] \in InTurn => pc'[a] \in InTurn,
         Writing(a)' => call'[a] \in PlanState
  PROVE  StateToWrite' /\ PopupHasWaiter' /\ RefusalHasReason' /\ AnswerIsFresh'
<1>1. Asking' = Asking
  BY DEF Asking
<1>2. PopupHasWaiter' /\ AnswerIsFresh'
  BY <1>1, PopupUntouched DEF IInv, dashboard
<1>3. RefusalHasReason'
  BY TurnGoesOn DEF IInv, dashboard, Agent
<1>4. StateToWrite'
  BY DEF IInv, StateToWrite, Writing
<1> QED BY <1>2, <1>3, <1>4

LEMMA InitIInv == Init => IInv
<1> SUFFICES ASSUME Init PROVE IInv
  OBVIOUS
<1>1. TypeOK
  <2>1. pc \in [Agent -> PC]
    BY DEF Init, PC, InTurn
  <2>2. /\ call \in [Agent -> Action \cup Command \cup PlanState \cup {None}]
        /\ line \in Line \cup {None} /\ busy \in BOOLEAN
        /\ pending \in Agent \cup {None} /\ answer \in Line \cup {""} /\ event \in BOOLEAN
    BY DEF Init
  <2>3. /\ mode \in Mode /\ rules \in [Action -> {"none", "allow", "deny"}]
        /\ plan \in PlanState \cup {"none", "torn"}
    BY DEF Init, Mode
  <2>4. /\ typed \in 0 .. MaxLines /\ asked \in [Agent -> 0 .. MaxLines]
        /\ stamp \in [no : 0 .. MaxLines, shown : Agent \cup {None}]
    <3>1. 0 \in 0 .. MaxLines
      BY GateAssumption DEF GateAssumption
    <3> QED BY <3>1 DEF Init
  <2> QED BY <2>1, <2>2, <2>3, <2>4 DEF TypeOK
<1>2. StateToWrite /\ PopupHasWaiter /\ RefusalHasReason
  BY DEF Init, StateToWrite, Writing, PopupHasWaiter, RefusalHasReason
<1>3. AnswerIsFresh
  <2>1. answer = "" /\ typed = 0 /\ \A a \in Agent : asked[a] = 0
    BY DEF Init
  <2>2. \A a \in Agent : asked[a] <= typed
    <3>1. 0 <= 0
      OBVIOUS
    <3> QED BY <2>1, <3>1, Zenon
  <2> QED BY <2>1, <2>2 DEF AnswerIsFresh
<1> QED BY <1>1, <1>2, <1>3 DEF IInv

(***************************************************************************)
(* The keyboard                                                            *)
(***************************************************************************)

LEMMA TypeStep ==
  ASSUME IInv, NEW l \in Line, Type(l)
  PROVE  IInv'
<1> USE DEF IInv
<1>1. typed' = typed + 1 /\ typed \in Nat /\ typed' \in 0 .. MaxLines
  BY Numbers DEF Type
<1>4. StateToWrite'
  <2>1. \A a \in Agent : Writing(a)' => Writing(a) /\ call'[a] = call[a]
    BY DEF Type, Answer, Writing, TypeOK
  <2> QED BY <2>1, NoNewWriter
<1>2. CASE Answer(l)
  <2>1. /\ pc' \in [Agent -> PC]
        /\ \A a \in Agent : (pc[a] \in InTurn => pc'[a] \in InTurn)
        /\ Asking' = Asking
    BY <1>2 DEF Answer, TypeOK, PC, InTurn, Asking
  <2>2. TypeOK'
    BY <1>1, <1>2, <2>1 DEF Type, Answer, TypeOK, manager
  <2>3. PopupHasWaiter'
    BY <1>2, <2>1 DEF Answer, PopupHasWaiter
  <2>4. RefusalHasReason'
    BY <2>1, TurnGoesOn DEF Type, Agent
  <2>5. AnswerIsFresh'
    <3>1. asked' = asked /\ stamp'.no = typed + 1
      BY <1>2 DEF Type, Answer
    <3>2. \A a \in Agent : asked[a] \in Nat /\ asked[a] <= typed
      BY Numbers DEF AnswerIsFresh
    <3>3. \A a \in Agent : asked'[a] <= typed' /\ asked'[a] < stamp'.no
      BY <1>1, <3>1, <3>2
    <3> QED BY <3>3 DEF AnswerIsFresh, Asking
  <2> QED BY <1>4, <2>2, <2>3, <2>4, <2>5
<1>3. CASE pending = None /\ line' = l /\ UNCHANGED << answer, event, pc, stamp, pending >>
  <2>1. TypeOK'
    BY <1>1, <1>3 DEF Type, TypeOK, manager
  <2>2. PopupHasWaiter' /\ RefusalHasReason'
    BY <1>3 DEF Type, PopupHasWaiter, RefusalHasReason, Asking
  <2>3. AnswerIsFresh'
    <3>1. \A a \in Agent : asked'[a] = asked[a] /\ asked[a] \in Nat /\ asked[a] <= typed
      BY Numbers DEF Type, AnswerIsFresh
    <3>2. \A a \in Agent : asked'[a] <= typed'
      BY <1>1, <3>1
    <3> QED BY <1>3, <3>1, <3>2 DEF AnswerIsFresh, Asking
  <2> QED BY <1>4, <2>1, <2>2, <2>3
<1> QED BY <1>2, <1>3 DEF Type

LEMMA RouteStep ==
  ASSUME IInv, Route
  PROVE  IInv'
<1> USE DEF IInv
<1>1. CASE UNCHANGED << pc, call >>
  <2>1. TypeOK'
    BY <1>1 DEF Route, TypeOK, manager
  <2>2. PopupHasWaiter' /\ AnswerIsFresh'
    BY <1>1, PopupUntouched DEF Route, Asking
  <2>3. RefusalHasReason'
    BY <1>1 DEF Route, RefusalHasReason
  <2>4. StateToWrite'
    BY <1>1 DEF StateToWrite, Writing
  <2> QED BY <2>1, <2>2, <2>3, <2>4
<1>2. CASE \E w \in Worker : ~busy /\ pc[w] = "free" /\ (Goto(w, "slash") \/ Goto(w, "started"))
  <2> PICK w \in Worker : ~busy /\ pc[w] = "free" /\ (Goto(w, "slash") \/ Goto(w, "started"))
    BY <1>2
  <2>1. w \in Agent
    BY DEF Agent
  <2>2. /\ pc' \in [Agent -> PC]
        /\ pc'[w] \in {"slash", "started"}
        /\ \A b \in Agent \ {w} : pc'[b] = pc[b]
    BY <2>1, GotoType DEF PC
  <2>3. /\ call' \in [Agent -> Action \cup Command \cup PlanState \cup {None}]
        /\ \A b \in Agent : Writing(b) => call'[b] = call[b]
    BY <1>2, <2>1 DEF Route, TypeOK, Writing
  <2>4. TypeOK'
    BY <2>2, <2>3 DEF Route, TypeOK, manager
  <2>5. PopupHasWaiter' /\ AnswerIsFresh'
    BY <2>1, <2>2, PopupUntouched DEF Route, Asking
  <2>6. RefusalHasReason'
    BY DEF Route, RefusalHasReason
  <2>7. StateToWrite'
    BY <2>2, <2>3, NoNewWriter DEF Writing
  <2> QED BY <2>4, <2>5, <2>6, <2>7
<1> QED BY <1>1, <1>2 DEF Route

(***************************************************************************)
(* Turns and slash commands                                                *)
(***************************************************************************)

LEMMA BeginTurnStep ==
  ASSUME IInv, NEW w \in Worker, BeginTurn(w)
  PROVE  IInv'
<1> USE DEF IInv
<1>1. w \in Agent /\ "turn" \in PC
  BY DEF Agent, PC, InTurn
<1>2. /\ pc' \in [Agent -> PC] /\ pc'[w] = "turn"
      /\ \A b \in Agent \ {w} : pc'[b] = pc[b]
  BY <1>1, GotoType DEF BeginTurn
<1>3. TypeOK'
  BY <1>2 DEF BeginTurn, TypeOK, manager
<1>4. PopupHasWaiter' /\ AnswerIsFresh'
  BY <1>1, <1>2, PopupUntouched DEF BeginTurn, Asking
<1>5. RefusalHasReason'
  BY <1>2 DEF RefusalHasReason, InTurn
<1>6. StateToWrite'
  BY <1>2, NoNewWriter DEF BeginTurn, Writing
<1> QED BY <1>3, <1>4, <1>5, <1>6

LEMMA EndTurnStep ==
  ASSUME IInv, NEW w \in Worker, EndTurn(w)
  PROVE  IInv'
<1> USE DEF IInv
<1>1. w \in Agent /\ "free" \in PC
  BY DEF Agent, PC
<1>2. /\ pc' \in [Agent -> PC] /\ pc'[w] = "free"
      /\ \A b \in Agent \ {w} : pc'[b] = pc[b]
  BY <1>1, GotoType DEF EndTurn
<1>3. TypeOK'
  BY <1>2 DEF EndTurn, TypeOK, manager
<1>4. PopupHasWaiter' /\ AnswerIsFresh'
  BY <1>1, <1>2, PopupUntouched DEF EndTurn, Asking
<1>5. RefusalHasReason'
  BY DEF EndTurn, RefusalHasReason
<1>6. StateToWrite'
  BY <1>2, NoNewWriter DEF EndTurn, Writing
<1> QED BY <1>3, <1>4, <1>5, <1>6

LEMMA SetModeStep ==
  ASSUME IInv, NEW w \in Worker, SetMode(w)
  PROVE  IInv'
<1> USE DEF IInv
<1>1. w \in Agent /\ "free" \in PC
  BY DEF Agent, PC
<1>2. /\ pc' \in [Agent -> PC] /\ pc[w] = "slash" /\ pc'[w] = "free"
      /\ \A b \in Agent \ {w} : pc'[b] = pc[b] /\ call'[b] = call[b]
      /\ call' \in [Agent -> Action \cup Command \cup PlanState \cup {None}]
  BY <1>1, BackType DEF SetMode
<1>3. TypeOK'
  BY <1>2 DEF SetMode, TypeOK, dashboard
<1>4. UNCHANGED dashboard /\ ~Writing(w)' /\ w \notin Asking /\ w \notin Asking'
  BY <1>2 DEF SetMode, Writing, Asking
<1> QED BY <1>1, <1>2, <1>3, <1>4, OneThreadMoves DEF InTurn

LEMMA SavePlanStep ==
  ASSUME IInv, NEW w \in Worker, SavePlan(w)
  PROVE  IInv'
<1> USE DEF IInv
<1>1. w \in Agent /\ {"storing", "saving"} \subseteq PC
  BY DEF Agent, PC, InTurn
<1>2. /\ pc' \in [Agent -> PC]
      /\ pc[w] \in {"slash", "turn"} /\ pc'[w] \in {"storing", "saving"}
      /\ pc[w] = "turn" => pc'[w] = "saving"
      /\ \A b \in Agent \ {w} : pc'[b] = pc[b]
  BY <1>1, GotoType DEF SavePlan
<1>3. /\ call' \in [Agent -> Action \cup Command \cup PlanState \cup {None}]
      /\ call'[w] \in PlanState
      /\ \A b \in Agent \ {w} : call'[b] = call[b]
  <2>1. CASE call[w] \in PlanState /\ UNCHANGED call
    BY <2>1 DEF TypeOK
  <2>2. CASE \E s \in PlanState : call' = [call EXCEPT ![w] = s]
    <3> PICK s \in PlanState : call' = [call EXCEPT ![w] = s]
      BY <2>2
    <3>1. call \in [Agent -> Action \cup Command \cup PlanState \cup {None}]
      BY DEF TypeOK
    <3> QED BY <1>1, <3>1, Update
  <2> QED BY <2>1, <2>2 DEF SavePlan
<1>4. TypeOK'
  BY <1>2, <1>3 DEF SavePlan, TypeOK, dashboard, manager
<1>5. UNCHANGED dashboard /\ w \notin Asking /\ w \notin Asking'
  BY <1>2 DEF SavePlan, Asking
<1> QED BY <1>1, <1>2, <1>3, <1>4, <1>5, OneThreadMoves DEF InTurn

LEMMA PlanSavedStep ==
  ASSUME IInv, NEW w \in Worker, PlanSaved(w)
  PROVE  IInv'
<1> USE DEF IInv
<1>1. w \in Agent /\ {"free", "turn"} \subseteq PC
  BY DEF Agent, PC, InTurn
<1>2. /\ pc' \in [Agent -> PC]
      /\ pc[w] \in {"storing", "saving"} /\ pc'[w] \in {"free", "turn"}
      /\ pc[w] = "saving" => pc'[w] = "turn"
      /\ \A b \in Agent \ {w} : pc'[b] = pc[b] /\ call'[b] = call[b]
      /\ call' \in [Agent -> Action \cup Command \cup PlanState \cup {None}]
  BY <1>1, BackType DEF PlanSaved
<1>3. plan' \in PlanState \cup {"none", "torn"}
  BY <1>1, <1>2 DEF PlanSaved, StateToWrite, Writing
<1>4. TypeOK'
  BY <1>2, <1>3 DEF PlanSaved, TypeOK, dashboard, manager
<1>5. UNCHANGED dashboard /\ ~Writing(w)' /\ w \notin Asking /\ w \notin Asking'
  BY <1>2 DEF PlanSaved, Writing, Asking
<1> QED BY <1>1, <1>2, <1>4, <1>5, OneThreadMoves DEF InTurn

(***************************************************************************)
(* A call                                                                  *)
(***************************************************************************)

LEMMA ExecuteStep ==
  ASSUME IInv, NEW a \in Agent, NEW x \in Action, Execute(a, x)
  PROVE  IInv'
<1> USE DEF IInv
<1>1. /\ pc' \in [Agent -> PC] /\ pc[a] = "turn" /\ pc'[a] = "cleared"
      /\ \A b \in Agent \ {a} : pc'[b] = pc[b]
  BY GotoType DEF Execute, PC, InTurn
<1>2. /\ call' \in [Agent -> Action \cup Command \cup PlanState \cup {None}]
      /\ \A b \in Agent \ {a} : call'[b] = call[b]
  BY DEF Execute, TypeOK
<1>3. TypeOK'
  BY <1>1, <1>2 DEF Execute, TypeOK, dashboard, manager
<1>4. UNCHANGED dashboard /\ ~Writing(a)' /\ a \notin Asking /\ a \notin Asking'
  BY <1>1 DEF Execute, Writing, Asking
<1> QED BY <1>1, <1>2, <1>3, <1>4, OneThreadMoves DEF InTurn

LEMMA DecideStep ==
  ASSUME IInv, NEW a \in Agent, Decide(a)
  PROVE  IInv'
<1> USE DEF IInv
<1>1. /\ pc' \in [Agent -> PC]
      /\ pc[a] = "cleared" /\ pc'[a] \in {"allowed", "turn", "undecided"}
      /\ \A b \in Agent \ {a} : pc'[b] = pc[b] /\ call'[b] = call[b]
      /\ call' \in [Agent -> Action \cup Command \cup PlanState \cup {None}]
  <2>1. {"allowed", "turn", "undecided"} \subseteq PC
    BY DEF PC, InTurn
  <2>2. CASE Goto(a, "allowed") /\ UNCHANGED call
    BY <2>1, <2>2, GotoType DEF Decide, TypeOK
  <2>3. CASE Back(a, "turn")
    BY <2>1, <2>3, BackType DEF Decide, Back, TypeOK
  <2>4. CASE Goto(a, "undecided") /\ UNCHANGED call
    BY <2>1, <2>4, GotoType DEF Decide, TypeOK
  <2> QED BY <2>2, <2>3, <2>4 DEF Decide
<1>2. TypeOK'
  BY <1>1 DEF Decide, TypeOK, dashboard, manager
<1>3. UNCHANGED dashboard /\ ~Writing(a)' /\ a \notin Asking /\ a \notin Asking'
  BY <1>1 DEF Decide, Writing, Asking
<1> QED BY <1>1, <1>2, <1>3, OneThreadMoves DEF InTurn

LEMMA AskStep ==
  ASSUME IInv, NEW a \in Agent, Ask(a)
  PROVE  IInv'
<1> USE DEF IInv
<1>1. /\ pc' \in [Agent -> PC] /\ pc[a] = "undecided" /\ pc'[a] = "asking"
      /\ \A b \in Agent \ {a} : pc'[b] = pc[b]
  BY GotoType DEF Ask, PC, InTurn
<1>2. asked' \in [Agent -> 0 .. MaxLines]
  BY DEF Ask, TypeOK
<1>3. TypeOK'
  BY <1>1, <1>2 DEF Ask, TypeOK, manager
<1>4. PopupHasWaiter'
  BY <1>1 DEF Ask, PopupHasWaiter, Asking
<1>5. AnswerIsFresh'
  <2>1. \A b \in Agent : asked'[b] <= typed'
    <3>1. typed' = typed /\ typed \in Nat /\ asked' = [asked EXCEPT ![a] = typed]
      BY Numbers DEF Ask
    <3>2. asked'[a] = typed /\ \A b \in Agent \ {a} : asked'[b] = asked[b]
      BY <3>1 DEF TypeOK
    <3>3. \A b \in Agent : asked[b] <= typed
      BY DEF AnswerIsFresh
    <3> QED BY <3>1, <3>2, <3>3
  <2> QED BY <2>1 DEF Ask, AnswerIsFresh
<1>6. RefusalHasReason'
  BY <1>1, TurnGoesOn DEF Ask, InTurn, Agent
<1>7. StateToWrite'
  BY <1>1, NoNewWriter DEF Ask, Writing
<1> QED BY <1>3, <1>4, <1>5, <1>6, <1>7

LEMMA WaitStep ==
  ASSUME IInv, NEW a \in Agent, Wait(a)
  PROVE  IInv'
<1> USE DEF IInv
<1>1. /\ pc' \in [Agent -> PC]
      /\ pc[a] = "asking" /\ pc'[a] \in {"woken", "waiting"}
      /\ \A b \in Agent \ {a} : pc'[b] = pc[b]
  BY GotoType DEF Wait, PC, InTurn
<1>2. TypeOK'
  BY <1>1 DEF Wait, TypeOK, dashboard, manager
<1>3. UNCHANGED dashboard /\ ~Writing(a)' /\ a \in Asking /\ a \in Asking'
  BY <1>1 DEF Wait, Writing, Asking
<1> QED BY <1>1, <1>2, <1>3, OneThreadMoves DEF InTurn, Wait

LEMMA TakeStep ==
  ASSUME IInv, NEW a \in Agent, Take(a)
  PROVE  IInv'
<1> USE DEF IInv
<1>1. /\ pc' \in [Agent -> PC]
      /\ pc[a] = "woken" /\ pc'[a] \in {"allowed", "turn"}
      /\ \A b \in Agent \ {a} : pc'[b] = pc[b] /\ call'[b] = call[b]
      /\ call' \in [Agent -> Action \cup Command \cup PlanState \cup {None}]
  <2>1. {"allowed", "turn"} \subseteq PC
    BY DEF PC, InTurn
  <2>2. CASE Goto(a, "allowed") /\ UNCHANGED call
    BY <2>1, <2>2, GotoType DEF Take, TypeOK
  <2>3. CASE Back(a, "turn")
    BY <2>1, <2>3, BackType DEF Take, Back, TypeOK
  <2> QED BY <2>2, <2>3 DEF Take
<1>2. rules' \in [Action -> {"none", "allow", "deny"}]
  BY DEF Take, TypeOK
<1>3. TypeOK'
  BY <1>1, <1>2 DEF Take, TypeOK
<1>4. PopupHasWaiter'
  BY DEF Take, PopupHasWaiter
<1>5. AnswerIsFresh'
  BY <1>1 DEF Take, AnswerIsFresh, Asking
<1>6. RefusalHasReason'
  BY <1>1, TurnGoesOn DEF Take, InTurn, Agent
<1>7. StateToWrite'
  BY <1>1, NoNewWriter DEF Take, Writing
<1> QED BY <1>3, <1>4, <1>5, <1>6, <1>7

LEMMA PerformStep ==
  ASSUME IInv, NEW a \in Agent, Perform(a)
  PROVE  IInv'
<1> USE DEF IInv
<1>1. /\ pc' \in [Agent -> PC] /\ pc[a] = "allowed" /\ pc'[a] = "turn"
      /\ \A b \in Agent \ {a} : pc'[b] = pc[b] /\ call'[b] = call[b]
      /\ call' \in [Agent -> Action \cup Command \cup PlanState \cup {None}]
  <2>1. "turn" \in PC
    BY DEF PC, InTurn
  <2> QED BY <2>1, BackType DEF Perform
<1>2. TypeOK'
  BY <1>1 DEF Perform, TypeOK, dashboard, manager
<1>3. UNCHANGED dashboard /\ ~Writing(a)' /\ a \notin Asking /\ a \notin Asking'
  BY <1>1 DEF Perform, Writing, Asking
<1> QED BY <1>1, <1>2, <1>3, OneThreadMoves DEF InTurn

(***************************************************************************)
(* The theorems                                                            *)
(***************************************************************************)

LEMMA NextIInv == IInv /\ [Next]_vars => IInv'
<1> SUFFICES ASSUME IInv, [Next]_vars PROVE IInv'
  OBVIOUS
<1>1. CASE \E l \in Line : Type(l)
  BY <1>1, TypeStep
<1>2. CASE Route
  BY <1>2, RouteStep
<1>3. CASE \E w \in Worker : BeginTurn(w) \/ EndTurn(w) \/ SetMode(w) \/ SavePlan(w) \/ PlanSaved(w)
  BY <1>3, BeginTurnStep, EndTurnStep, SetModeStep, SavePlanStep, PlanSavedStep
<1>4. CASE \E a \in Agent : \E x \in Action : Execute(a, x)
  BY <1>4, ExecuteStep
<1>5. CASE \E a \in Agent : Decide(a) \/ Ask(a) \/ Wait(a) \/ Take(a) \/ Perform(a)
  BY <1>5, DecideStep, AskStep, WaitStep, TakeStep, PerformStep
<1>6. CASE UNCHANGED vars
  BY <1>6 DEF IInv, vars, TypeOK, StateToWrite, Writing, PopupHasWaiter,
              RefusalHasReason, AnswerIsFresh, Asking
<1> QED BY <1>1, <1>2, <1>3, <1>4, <1>5, <1>6 DEF Next

\* The invariant from which the theorems follow.
THEOREM Invariance == Spec => []IInv
BY InitIInv, NextIInv, PTL DEF Spec

\* Every variable keeps its type.
THEOREM TypeCorrect == Spec => []TypeOK
<1>1. IInv => TypeOK
  BY DEF IInv
<1> QED BY <1>1, Invariance, PTL

\* permission_prompt leaves no popup on the screen that nobody waits behind, for
\* any number of threads that ask at once.
THEOREM NoOrphanPopup == Spec => []PopupHasWaiter
<1>1. IInv => PopupHasWaiter
  BY DEF IInv
<1> QED BY <1>1, Invariance, PTL

\* _accept refuses prompts only while a turn runs, however many lines are typed.
THEOREM RefusalsAreJustified == Spec => []RefusalHasReason
<1>1. IInv => RefusalHasReason
  BY DEF IInv
<1> QED BY <1>1, Invariance, PTL

\* No other step lets a thread pass that waited for the user.
LEMMA OnlyTakeGrants ==
  ASSUME TypeOK, [Next]_vars, NEW a \in Agent, pc[a] = "woken", pc'[a] = "allowed"
  PROVE  Take(a)
<1>1. ASSUME NEW b \in Agent, NEW there, Goto(b, there), pc[b] # "woken"
      PROVE  FALSE
  BY <1>1 DEF Goto, TypeOK
<1>2. ASSUME NEW l \in Line, Type(l) PROVE FALSE
  BY <1>2 DEF Type, Answer
<1>3. ASSUME Route PROVE FALSE
  BY <1>1, <1>3 DEF Route, Agent
<1>4. ASSUME NEW w \in Worker,
             BeginTurn(w) \/ EndTurn(w) \/ SetMode(w) \/ SavePlan(w) \/ PlanSaved(w)
      PROVE  FALSE
  BY <1>1, <1>4 DEF Agent, BeginTurn, EndTurn, SetMode, SavePlan, PlanSaved, Back
<1>5. ASSUME NEW b \in Agent,
             (\E x \in Action : Execute(b, x)) \/ Decide(b) \/ Ask(b) \/ Wait(b) \/ Perform(b)
      PROVE  FALSE
  BY <1>1, <1>5 DEF Execute, Decide, Ask, Wait, Perform, Back
<1>6. ASSUME NEW b \in Agent, b # a, Take(b) PROVE FALSE
  BY <1>6 DEF Take, Goto, Back, TypeOK
<1>7. ASSUME UNCHANGED vars PROVE FALSE
  BY <1>7 DEF vars
<1> QED BY <1>2, <1>3, <1>4, <1>5, <1>6, <1>7 DEF Next

\* permission_prompt grants nothing on a line typed before the question.
THEOREM GrantsAreFresh == Spec => GrantIsFresh
<1>1. IInv /\ [Next]_vars
        => \A a \in Agent : pc[a] = "woken" /\ pc'[a] = "allowed" => stamp.no > asked[a]
  <2> SUFFICES ASSUME IInv, [Next]_vars, NEW a \in Agent, pc[a] = "woken", pc'[a] = "allowed"
               PROVE  stamp.no > asked[a]
    OBVIOUS
  <2>1. answer # ""
    <3>1. Take(a)
      BY OnlyTakeGrants DEF IInv
    <3>2. ~Back(a, "turn")
      BY DEF Back, Goto, IInv, TypeOK
    <3> QED BY <3>1, <3>2 DEF Take
  <2>2. a \in Asking /\ asked[a] \in Nat /\ stamp.no \in Nat
    BY Numbers DEF Asking, IInv
  <2> QED BY <2>1, <2>2 DEF IInv, AnswerIsFresh
<1> QED BY <1>1, Invariance, PTL DEF Spec, GrantIsFresh
=============================================================================
