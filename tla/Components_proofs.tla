--------------------------- MODULE Components_proofs ---------------------------
(***************************************************************************)
(* Proofs about the components around a turn: what the model is offered, the  *)
(* requests to other processes, hooks, worktrees, the turn of a subagent, the   *)
(* summary of a compaction and a response on its way to the screen.           *)
(* Each has its inductive invariant in its own module; Records_proofs has the   *)
(* components that keep records.                                             *)
(***************************************************************************)
EXTENDS Components, Induction, SequencesExt, SequenceTheorems, FiniteSetTheorems

(***************************************************************************)
(* The schemas of the tools                                                 *)
(***************************************************************************)
\* A step of a component's own, or none of it.
LEMMA CatalogSteps == [Next]_vars => G!Next \/ UNCHANGED catalogVars
BY DEF Next, vars

LEMMA CatalogInit == G!Init => G!IInv
<1> SUFFICES ASSUME G!Init PROVE G!IInv
  OBVIOUS
<1>1. \A t \in Lead : working[t].pc = "idle"
  BY DEF G!Init, G!Idle
<1>2. G!TypeOK
  BY DEF G!Init, G!TypeOK, G!Tool, G!Builtin, G!NoCache, G!Idle
<1> QED BY <1>1, <1>2
        DEF G!IInv, G!Init, G!NoCache, G!OneAtATime, G!InCall, G!CacheFits, G!CallFits

LEMMA CatalogNext == G!IInv /\ (G!Next \/ UNCHANGED catalogVars) => G!IInv'
<1> SUFFICES ASSUME G!IInv, G!Next \/ UNCHANGED catalogVars PROVE G!IInv'
  OBVIOUS
<1> USE DEF G!IInv, G!TypeOK, G!OneAtATime, G!InCall, G!CacheFits, G!CallFits, G!Visible,
            G!Deferred
<1>1. CASE UNCHANGED catalogVars
  BY <1>1 DEF catalogVars
<1>2. ASSUME NEW new \in G!Mcp, G!Register(new) PROVE G!IInv'
  BY <1>2 DEF G!Register, G!NoCache, G!Idle, G!Tool, G!Builtin
<1>3. ASSUME NEW found \in SUBSET registered, G!Discover(found) PROVE G!IInv'
  BY <1>3 DEF G!Discover
<1>4. ASSUME NEW name \in G!Name, G!Execute(name) PROVE G!IInv'
  BY <1>4 DEF G!Execute
<1>5. ASSUME NEW t \in Lead, G!Sign(t) PROVE G!IInv'
  <2>1. /\ working' \in [Lead -> [pc: {"idle", "signed", "built", "stored", "returned"},
                                 sig: SUBSET G!Tool, list: SUBSET G!Tool]]
        /\ working'[t].pc = "signed" /\ working'[t].sig = G!Visible
        /\ \A u \in Lead \ {t} : working'[u] = working[u]
    BY <1>5 DEF G!Sign, G!Does, G!Idle
  <2>2. G!TypeOK'
    BY <1>5, <2>1 DEF G!Sign
  <2> HIDE DEF G!TypeOK
  <2>3. SUFFICES ASSUME ~overlapped' PROVE (G!OneAtATime /\ G!CacheFits /\ \A u \in Lead : G!CallFits(u))'
    BY <2>2
  <2>0. \A u \in Lead \ {t} : ~G!InCall(u)
    BY <1>5, <2>3 DEF G!Sign
  <2>4. G!OneAtATime'
    BY <2>0, <2>1
  <2>5. G!CacheFits'
    BY <1>5, <2>1, <2>3 DEF G!Sign
  <2>6. ASSUME NEW u \in Lead PROVE G!CallFits(u)'
    <3>1. CASE u = t
      <4>1. /\ working'[t].pc = "signed" /\ working'[t].sig = G!Visible
            /\ due'[t] = G!Visible /\ G!Visible' = G!Visible
        BY <1>5, <2>1 DEF G!Sign, G!TypeOK
      <4> QED BY <3>1, <4>1
    <3>2. CASE u # t
      <4>1. /\ working'[u] = working[u] /\ due'[u] = due[u] /\ ~G!InCall(u)
            /\ registered' = registered
        BY <1>5, <2>0, <2>1, <3>2 DEF G!Sign
      <4> QED BY <2>3, <4>1, <1>5 DEF G!Sign
    <3> QED BY <3>1, <3>2
  <2> QED BY <2>4, <2>5, <2>6
<1>6. ASSUME NEW t \in Lead, G!Reuse(t) PROVE G!IInv'
  <2>1. /\ working' \in [Lead -> [pc: {"idle", "signed", "built", "stored", "returned"},
                                 sig: SUBSET G!Tool, list: SUBSET G!Tool]]
        /\ working'[t].pc = "returned" /\ working'[t].list = cache.tools
        /\ \A u \in Lead \ {t} : working'[u] = working[u]
    BY <1>6, cache.tools \in SUBSET G!Tool, working[t] \in [pc: {"idle", "signed", "built", "stored", "returned"}, sig: SUBSET G!Tool, list: SUBSET G!Tool] DEF G!Reuse, G!Does
  <2>2. G!TypeOK'
    BY <1>6, <2>1 DEF G!Reuse
  <2> HIDE DEF G!TypeOK
  <2>3. SUFFICES ASSUME ~overlapped' PROVE (G!OneAtATime /\ G!CacheFits /\ \A u \in Lead : G!CallFits(u))'
    BY <2>2
  <2>4. G!OneAtATime'
    BY <1>6, <2>1, <2>3 DEF G!Reuse
  <2>5. G!CacheFits'
    BY <1>6, <2>1, <2>3 DEF G!Reuse
  <2>6. ASSUME NEW u \in Lead PROVE G!CallFits(u)'
    BY <1>6, <2>1, <2>3 DEF G!Reuse
  <2> QED BY <2>4, <2>5, <2>6
<1>7. ASSUME NEW t \in Lead, G!Rebuild(t) PROVE G!IInv'
  <2>1. /\ working' \in [Lead -> [pc: {"idle", "signed", "built", "stored", "returned"},
                                 sig: SUBSET G!Tool, list: SUBSET G!Tool]]
        /\ working'[t].pc = "built" /\ working'[t].sig = working[t].sig /\ working'[t].list = G!Visible
        /\ \A u \in Lead \ {t} : working'[u] = working[u]
    BY <1>7 DEF G!Rebuild, G!Does
  <2>2. G!TypeOK'
    BY <1>7, <2>1 DEF G!Rebuild
  <2> HIDE DEF G!TypeOK
  <2>3. SUFFICES ASSUME ~overlapped' PROVE (G!OneAtATime /\ G!CacheFits /\ \A u \in Lead : G!CallFits(u))'
    BY <2>2
  <2>4. G!OneAtATime'
    BY <1>7, <2>1, <2>3 DEF G!Rebuild
  <2>5. G!CacheFits'
    BY <1>7, <2>1, <2>3 DEF G!Rebuild
  <2>6. ASSUME NEW u \in Lead PROVE G!CallFits(u)'
    BY <1>7, <2>1, <2>3 DEF G!Rebuild
  <2> QED BY <2>4, <2>5, <2>6
<1>8. ASSUME NEW t \in Lead, G!StoreCache(t) PROVE G!IInv'
  BY <1>8 DEF G!StoreCache, G!Does, G!Cached
<1>9. ASSUME NEW t \in Lead, G!StoreSignature(t) PROVE G!IInv'
  <2>1. /\ working' \in [Lead -> [pc: {"idle", "signed", "built", "stored", "returned"},
                                 sig: SUBSET G!Tool, list: SUBSET G!Tool]]
        /\ working'[t].pc = "returned" /\ working'[t].list = cache.tools
        /\ \A u \in Lead \ {t} : working'[u] = working[u]
    BY <1>9 DEF G!StoreSignature, G!Does
  <2>2. G!TypeOK'
    BY <1>9, <2>1 DEF G!StoreSignature
  <2> HIDE DEF G!TypeOK
  <2>3. SUFFICES ASSUME ~overlapped' PROVE (G!OneAtATime /\ G!CacheFits /\ \A u \in Lead : G!CallFits(u))'
    BY <2>2
  <2>4. G!OneAtATime'
    BY <1>9, <2>1, <2>3 DEF G!StoreSignature
  <2>5. G!CacheFits'
    BY <1>9, <2>1, <2>3 DEF G!StoreSignature
  <2>6. ASSUME NEW u \in Lead PROVE G!CallFits(u)'
    BY <1>9, <2>1, <2>3 DEF G!StoreSignature
  <2> QED BY <2>4, <2>5, <2>6
<1>10. ASSUME NEW names \in SUBSET G!Name, G!SearchByName(names) PROVE G!IInv'
  <2>1. UNION {G!Resolve(name) : name \in names} \in SUBSET registered
    BY DEF G!Resolve
  <2> QED BY <1>3, <1>10, <2>1 DEF G!SearchByName
<1>11. CASE G!SearchByWords
  BY <1>3, <1>11 DEF G!SearchByWords
<1> QED
  <2>1. \A name, other \in G!Name : {name, other} \in SUBSET G!Name
    OBVIOUS
  <2> QED BY <1>1, <1>2, <1>4, <1>5, <1>6, <1>7, <1>8, <1>9, <1>10, <1>11, <2>1
          DEF G!Next, G!Schemas

\* What the model had discovered by tool_search before its request was built is among the
\* schemas of that request, and nothing unregistered is, as long as no two calls to
\* ToolRegistry.schemas overlap: a cache that is complete was built from the visible
\* tools its signature names.
THEOREM SchemasAreWhole == Spec => []DiscoveredIsOffered
<1>1. Init => G!IInv
  BY CatalogInit DEF Init
<1>2. G!IInv /\ [Next]_vars => G!IInv'
  BY CatalogNext, CatalogSteps
<1>3. G!IInv => DiscoveredIsOffered
  BY DEF G!IInv, G!CallFits, G!TypeOK, DiscoveredIsOffered, G!DiscoveredIsOffered
<1> QED BY <1>1, <1>2, <1>3, PTL DEF Spec

(***************************************************************************)
(* Recall of memories                                                      *)
(***************************************************************************)
LEMMA RecallSteps == [Next]_vars => R!Next \/ UNCHANGED recallVars
BY DEF Next, vars

LEMMA NothingShown ==
  /\ R!IsHistory({}, R!Nothing) /\ R!Nothing \in [R!Turn -> SUBSET Memory]
  /\ [t \in R!Turn |-> R!NoJob]
       \in [R!Turn -> [state: {"none", "asking", "done"}, ids: SUBSET Memory]]
BY DEF R!IsHistory, R!Nothing, R!NoJob

LEMMA RecallInit == R!Init => R!IInv
<1> SUFFICES ASSUME R!Init PROVE R!IInv
  OBVIOUS
<1>1. R!TypeOK
  <2>1. /\ R!NoSession \in [exists: BOOLEAN, turns: 0..MaxRecalls, surfaced: SUBSET Memory]
        /\ 0 \in 0..MaxRecalls
    BY LimitsAssumption DEF R!NoSession
  <2> QED BY <2>1, NothingShown DEF R!Init, R!TypeOK
<1> QED BY <1>1, NothingShown DEF R!Init, R!IInv, R!NoSession

LEMMA RecallNext == R!IInv /\ (R!Next \/ UNCHANGED recallVars) => R!IInv'
<1> SUFFICES ASSUME R!IInv, R!Next \/ UNCHANGED recallVars PROVE R!IInv'
  OBVIOUS
<1> USE LimitsAssumption DEF R!IInv, R!TypeOK, R!Turn
<1>1. CASE UNCHANGED recallVars
  BY <1>1 DEF recallVars, R!IsHistory
<1>2. ASSUME NEW m \in Memory, R!Save(m) \/ R!Delete(m) PROVE R!IInv'
  <2>1. known' \subseteq Memory
    BY <1>2 DEF R!Save, R!Delete
  <2>2. UNCHANGED << surfaced, prefetch, jobs, reminder, session, now, inTurn, seenIn,
                     savedSeenIn >>
    BY <1>2 DEF R!Save, R!Delete
  <2>3. R!TypeOK'
    BY <2>1, <2>2
  <2> QED BY <2>2, <2>3 DEF R!IsHistory
<1>3. CASE R!BeginTurn
  <2>1. /\ now' \in R!Turn /\ now' # 0 /\ inTurn' /\ reminder' = {}
        /\ UNCHANGED << known, surfaced, session, seenIn, savedSeenIn >>
    BY <1>3 DEF R!BeginTurn
  <2>2. CASE known = {}
    <3>1. prefetch' = 0 /\ jobs' = jobs
      BY <1>3, <2>2 DEF R!BeginTurn
    <3> QED BY <2>1, <3>1 DEF R!IsHistory
  <2>3. CASE known # {}
    <3>1. prefetch' = now'
      BY <1>3, <2>3 DEF R!BeginTurn
    <3>2. jobs' = [jobs EXCEPT ![now'] = [state |-> "asking", ids |-> known \ surfaced]]
      BY <1>3, <2>3 DEF R!BeginTurn
    <3>3. /\ jobs' \in [R!Turn -> [state: {"none", "asking", "done"}, ids: SUBSET Memory]]
          /\ jobs'[now'].ids = known \ surfaced
      BY <2>1, <3>2
    <3>4. jobs'[now'].ids \cap surfaced = {}
      BY <3>3
    <3> QED BY <2>1, <3>1, <3>3, <3>4 DEF R!IsHistory
  <2> QED BY <2>2, <2>3
<1>4. CASE R!Request
  BY <1>4 DEF R!Request, R!Ready, R!IsHistory
<1>5. CASE R!EndTurn
  BY <1>5 DEF R!EndTurn
<1>6. CASE R!Raise
  BY <1>6 DEF R!Raise
<1>7. CASE R!Resume
  BY <1>7 DEF R!Resume
<1>8. CASE R!Restart
    <2>1. /\ now' = 0 /\ prefetch' = 0 /\ inTurn' = FALSE
        /\ jobs' = [t \in R!Turn |-> R!NoJob]
        /\ reminder' = {} /\ surfaced' = {} /\ seenIn' = R!Nothing
        /\ UNCHANGED << known, session, savedSeenIn >>
    BY <1>8 DEF R!Restart
  <2>2. R!TypeOK'
    <3>1. 0 \in 0..MaxRecalls
      OBVIOUS
    <3>2. jobs' \in [R!Turn -> [state: {"none", "asking", "done"}, ids: SUBSET Memory]]
      BY <2>1, NothingShown
    <3>3. seenIn' \in [R!Turn -> SUBSET Memory]
      BY <2>1, NothingShown
    <3> HIDE DEF R!Turn
    <3> QED BY <2>1, <3>1, <3>2, <3>3
  <2> QED BY <2>1, <2>2, NothingShown DEF R!IsHistory
<1>9. ASSUME NEW t \in R!Turn, R!Answer(t) PROVE R!IInv'
  BY <1>9 DEF R!Answer
<1> QED BY <1>1, <1>2, <1>3, <1>4, <1>5, <1>6, <1>7, <1>8, <1>9 DEF R!Next

\* A memory is recalled in one turn of a session only, and what counts as surfaced is what
\* was shown (_start_recall_prefetch and _consume_recall_prefetch): what a turn has yet to
\* take from its selection was not surfaced when the turn began, and the reminder is the
\* turn's own.
THEOREM ReminderComesOnce == Spec => []RecalledOnce
<1>1. Init => R!IInv
  BY RecallInit DEF Init
<1>2. R!IInv /\ [Next]_vars => R!IInv'
  BY RecallNext, RecallSteps
<1>3. R!IInv => RecalledOnce
  BY DEF R!IInv, R!IsHistory, RecalledOnce, R!RecalledOnce
<1> QED BY <1>1, <1>2, <1>3, PTL DEF Spec

(***************************************************************************)
(* Requests to a language server                                           *)
(***************************************************************************)
LEMMA LspSteps == [Next]_vars => L!Next \/ UNCHANGED lspVars
BY DEF Next, vars

LEMMA LspInit == L!Init => L!IInv
BY DEF L!Init, L!IInv, L!Messages, L!Says, L!Open, L!Message, L!Given

LEMMA LspConstants ==
  /\ L!NoTool \notin L!Tools
  /\ L!Failed \in L!Messages /\ L!Failed.says = "failed"
  /\ L!Open \in L!Messages /\ L!Open.says = "open"
  /\ \A g \in L!Searched : g.provider = "fallback"
<1>1. L!NoTool.needs = "none" /\ \A t \in L!Tools : t.needs # "none"
  BY DEF L!NoTool, L!Tools, L!Tool, L!DocumentSymbols, L!WorkspaceSymbols, L!Definition,
         L!References, L!Diagnostics, L!RenamePreview
<1>2. \A g \in L!Searched : g.provider = "fallback"
  BY DEF L!Searched, L!Given
<1>3. /\ L!Failed \in L!Messages /\ L!Failed.says = "failed"
      /\ L!Open \in L!Messages /\ L!Open.says = "open"
  BY DEF L!Failed, L!Open, L!Message, L!Messages
<1> QED BY <1>1, <1>2, <1>3

LEMMA LspNext == L!IInv /\ (L!Next \/ UNCHANGED lspVars) => L!IInv'
<1> SUFFICES ASSUME L!IInv, L!Next \/ UNCHANGED lspVars PROVE L!IInv'
  OBVIOUS
<1> USE LspConstants DEF L!IInv, L!Initialize, L!Question
<1>1. CASE UNCHANGED lspVars
  BY <1>1 DEF lspVars
<1>2. ASSUME NEW t \in L!Tools, NEW form \in L!Forms, NEW available \in BOOLEAN,
             L!Call(t, form, available)
      PROVE  L!IInv'
  <2>1. CASE L!Suffices(form, t.needs) /\ available
    <3>1. /\ tool' = t /\ server' = "running" /\ ask' = 1 /\ queries' = {1}
          /\ tool = L!NoTool /\ UNCHANGED << navigated, pipe, inbox, outcome, remarks >>
      BY <1>2, <2>1 DEF L!Call
    <3> QED BY <3>1
  <2>2. CASE ~(L!Suffices(form, t.needs) /\ available)
    <3>1. /\ navigated' \in L!Searched
          /\ UNCHANGED << tool, server, ask, queries, pipe, inbox, outcome, remarks >>
      BY <1>2, <2>2 DEF L!Call
    <3>2. navigated'.provider # "lsp"
      BY <3>1
    <3> QED BY <3>1, <3>2
  <2> QED BY <2>1, <2>2
<1>3. CASE L!NextMessage
  <2> DEFINE m == Head(inbox)
  <2>1. /\ m \in L!Messages /\ inbox' \in Seq(L!Messages)
        /\ tool # L!NoTool /\ ask \in {1, 2}
        /\ UNCHANGED << tool, server, pipe, navigated, remarks >>
    BY <1>3 DEF L!NextMessage, L!Waiting
  <2>2. CASE L!Reply(m) /\ m.id = ask
    <3>0. ask' \in {1, 2} /\ queries' \subseteq {1, 2}
      <4>1. UNCHANGED << ask, queries >> \/ (ask' = 2 /\ queries' = queries \cup {2})
        BY <2>2 DEF L!Reply
      <4> QED BY <2>1, <4>1
    <3>1. CASE UNCHANGED outcome
      BY <2>1, <3>0, <3>1
    <3>2. CASE outcome' = L!Failed
      BY <2>1, <3>0, <3>2
    <3>3. CASE outcome' = m /\ (m.says = "error" \/ ask = 2) /\ UNCHANGED << ask, queries >>
      <4>1. m.says = "items" => m.of = 2
        BY <2>1, <2>2, <3>3 DEF L!Messages
      <4> QED BY <2>1, <3>3, <4>1
    <3> QED BY <2>1, <2>2, <3>1, <3>2, <3>3 DEF L!Reply
  <2>3. CASE outcome' \in {outcome, L!Failed} /\ UNCHANGED << ask, queries >>
    BY <2>1, <2>3
  <2> QED BY <1>3, <2>2, <2>3 DEF L!NextMessage
<1>4. CASE L!Exited \/ L!Deadline
  BY <1>4 DEF L!Exited, L!Deadline, L!Waiting
<1>5. CASE L!Return
  <2>1. /\ server' = "dead" /\ tool' = L!NoTool /\ ask' = 0 /\ queries' = {}
        /\ pipe' = << >> /\ inbox' = << >> /\ outcome' = L!Open /\ remarks' = remarks
        /\ navigated' \in L!Results(outcome)
    BY <1>5 DEF L!Return
  <2>2. navigated'.provider = "lsp" => navigated'.of = 2 \/ navigated'.says = "empty"
    <3>1. CASE navigated' \in L!Searched
      BY <3>1
    <3>2. CASE navigated' = L!Given("lsp", outcome.of, L!Items(outcome))
      <4>1. navigated'.of = outcome.of /\ navigated'.says = L!Items(outcome)
        BY <3>2 DEF L!Given
      <4>2. outcome.says = "items" => outcome.of = 2
        OBVIOUS
      <4>3. L!Items(outcome) = "empty" \/ outcome.says = "items"
        BY DEF L!Items
      <4> HIDE DEF L!IInv
      <4> QED BY <4>1, <4>2, <4>3
    <3>3. CASE navigated' = L!Given("none", 0, "raised")
      BY <3>3 DEF L!Given
    <3> QED BY <2>1, <3>1, <3>2, <3>3 DEF L!Results
  <2>3. << >> \in Seq(L!Messages)
    OBVIOUS
  <2> QED BY <2>1, <2>2, <2>3
<1>6. CASE L!Read
  BY <1>6 DEF L!Read
<1>7. CASE L!Answer
  BY <1>7 DEF L!Answer, L!Message, L!Messages, L!Says
<1>8. CASE L!Remark
  BY <1>8 DEF L!Remark, L!Message, L!Messages
<1>9. CASE L!Die
  BY <1>9 DEF L!Die
<1> QED BY <1>1, <1>2, <1>3, <1>4, <1>5, <1>6, <1>7, <1>8, <1>9 DEF L!Next

(***************************************************************************)
(* Requests to an MCP server                                               *)
(***************************************************************************)
LEMMA McpSteps == [Next]_vars => C!Next \/ UNCHANGED mcpClientVars
BY DEF Next, vars

LEMMA McpMessages ==
  /\ C!Nothing \in C!Message /\ C!Nothing.kind = "nothing" /\ C!Nothing.id = 0
  /\ C!Failed \in C!Message /\ C!Failed.kind = "failed"
BY LimitsAssumption DEF C!Nothing, C!Failed, C!Line, C!Message

LEMMA McpInit == C!Init => C!IInv
<1> SUFFICES ASSUME C!Init PROVE C!IInv
  OBVIOUS
<1>1. C!TypeOK
  <2>1. /\ 0 \in 0..MaxId /\ 0 \in Nat
        /\ [id |-> 0, method |-> "none"] \in [id: 0..MaxId, method: C!Methods \cup {"none"}]
        /\ << >> \in Seq(C!Message)
    BY LimitsAssumption
  <2> QED BY <2>1, McpMessages DEF C!Init, C!TypeOK
<1>2. C!Waiting = {}
  BY DEF C!Init, C!Waiting
<1> QED BY <1>1, <1>2, McpMessages
        DEF C!Init, C!IInv, C!QueueInv, C!MessageInv, C!AnswerInv

\* A number is drawn.
LEMMA McpRegister ==
  ASSUME C!IInv, NEW t \in C!Thread, NEW method \in C!Methods, C!Register(t, method),
         at[t] = "idle", link' \in {"initializing", "listing", link}, link' # "off",
         process' \in {"running", process}, reader' \in {"reading", reader},
         UNCHANGED << alive, offered, reply, answer, unread, lines, noise >>
  PROVE  C!IInv'
<1>1. C!TypeOK'
  BY LimitsAssumption DEF C!IInv, C!TypeOK, C!Register, C!Goto
<1>2. /\ lastId' = lastId + 1 /\ asks'[t].id = lastId' /\ asks'[t].method = method
      /\ at'[t] = "write" /\ pending' = pending \cup {lastId'}
      /\ \A u \in C!Thread \ {t} : at'[u] = at[u] /\ asks'[u] = asks[u]
  BY DEF C!IInv, C!TypeOK, C!Register, C!Goto
<1>3. C!Waiting' = C!Waiting \cup {t} /\ t \notin C!Waiting
  BY <1>2 DEF C!Waiting
<1>4. C!QueueInv'
  <2>1. /\ C!Waiting \subseteq C!Thread /\ lastId \in Nat
        /\ \A u \in C!Waiting : asks[u].id \in 1..lastId /\ asks[u].method \in C!Methods
    BY DEF C!IInv, C!TypeOK, C!QueueInv, C!Waiting
  <2>2. \A u \in C!Waiting : asks'[u].id # asks'[t].id
    BY <1>2, <1>3, <2>1
  <2>3. pending' = {asks'[u].id : u \in C!Waiting'}
    BY <1>2, <1>3, <2>1 DEF C!IInv, C!QueueInv
  <2>4. \A u \in C!Waiting' : asks'[u].id \in 1..lastId' /\ asks'[u].method \in C!Methods
    BY <1>2, <1>3, <2>1
  <2>5. \A u, v \in C!Waiting' : asks'[u].id = asks'[v].id => u = v
    BY <1>2, <1>3, <2>1, <2>2 DEF C!IInv, C!QueueInv
  <2> QED BY <2>3, <2>4, <2>5 DEF C!QueueInv
<1>5. C!MessageInv' /\ C!AnswerInv'
  BY <1>2 DEF C!IInv, C!MessageInv, C!AnswerInv
<1> QED BY <1>1, <1>4, <1>5 DEF C!IInv

\* A thread leaves its request.
LEMMA McpLeave ==
  ASSUME C!IInv, NEW t \in C!Waiting, NEW result \in C!Message,
         C!Leave(t, result), C!Proceed(t, result),
         result.kind \in {"result", "error"} => result.of = asks[t].id,
         UNCHANGED << process, reader, offered, lastId, reply, asks, unread, lines, noise >>
  PROVE  C!IInv'
<1>1. C!TypeOK'
  BY DEF C!IInv, C!TypeOK, C!Leave, C!Proceed, C!Goto, C!Waiting
<1>2. /\ at'[t] = "idle" /\ pending' = pending \ {asks[t].id} /\ answer'[t] = result
      /\ \A u \in C!Thread \ {t} : at'[u] = at[u] /\ answer'[u] = answer[u]
  BY DEF C!IInv, C!TypeOK, C!Leave, C!Proceed, C!Goto, C!Waiting
<1>3. C!Waiting' = C!Waiting \ {t}
  BY <1>2 DEF C!Waiting
<1>4. link' # "off"
  BY DEF C!IInv, C!QueueInv, C!Proceed
<1>5. C!QueueInv'
  BY <1>2, <1>3, <1>4 DEF C!IInv, C!QueueInv
<1>6. C!MessageInv' /\ C!AnswerInv'
  BY <1>2 DEF C!IInv, C!MessageInv, C!AnswerInv
<1> QED BY <1>1, <1>5, <1>6 DEF C!IInv

LEMMA McpNext == C!IInv /\ (C!Next \/ UNCHANGED mcpClientVars) => C!IInv'
<1> SUFFICES ASSUME C!IInv, C!Next \/ UNCHANGED mcpClientVars PROVE C!IInv'
  OBVIOUS
<1> USE LimitsAssumption, McpMessages
        DEF C!IInv, C!TypeOK, C!QueueInv, C!MessageInv, C!AnswerInv, C!Waiting
<1>1. CASE UNCHANGED mcpClientVars
  BY <1>1 DEF mcpClientVars
<1>2. ASSUME NEW t \in C!Thread, C!Write(t) PROVE C!IInv'
  <2>1. CASE process = "running"
    <3>1. /\ at' = [at EXCEPT ![t] = "wait"] /\ unread' = unread \cup {asks[t]}
          /\ UNCHANGED << process, reader, link, alive, offered, lastId, pending, reply, asks,
                          answer, lines, noise >>
          /\ at[t] = "write"
      BY <1>2, <2>1 DEF C!Write, C!Goto
    <3>2. asks[t] \in [id: 1..MaxId, method: C!Methods]
      BY <3>1
    <3>3. C!TypeOK'
      BY <3>1, <3>2
    <3>4. C!Waiting' = C!Waiting /\ (C!QueueInv' <=> C!QueueInv)
      BY <3>1
    <3>5. C!AnswerInv' /\ C!MessageInv'
      BY <3>1
    <3> HIDE DEF C!TypeOK, C!QueueInv, C!AnswerInv, C!MessageInv
    <3> QED BY <3>3, <3>4, <3>5
  <2>2. CASE process # "running"
    BY <1>2, <2>2, McpLeave DEF C!Write
  <2> QED BY <2>1, <2>2
<1>3. ASSUME NEW t \in C!Thread, C!Receive(t) PROVE C!IInv'
  <2> DEFINE got == reply[asks[t].id]
  <2>1. /\ t \in C!Waiting /\ got # C!Nothing /\ C!Leave(t, got) /\ C!Proceed(t, got)
        /\ UNCHANGED << process, reader, offered, lastId, reply, asks, unread, lines, noise >>
    BY <1>3 DEF C!Receive
  <2>2. asks[t].id \in 1..MaxId
    BY <2>1
  <2>3. got \in C!Message /\ got.id = asks[t].id /\ C!Genuine(got)
    BY <2>1, <2>2
  <2>4. got.kind \in {"result", "error"} => got.of = asks[t].id
    BY <2>3 DEF C!Genuine
  <2> HIDE DEF got, C!TypeOK, C!QueueInv, C!MessageInv, C!AnswerInv, C!Waiting
  <2> QED BY <2>1, <2>3, <2>4, McpLeave
<1>4. ASSUME NEW t \in C!Thread, C!TimeOut(t) PROVE C!IInv'
  BY <1>4, McpLeave DEF C!TimeOut
<1>5. ASSUME NEW t \in Caller, C!CallTool(t) \/ C!CallThroughManager(t) PROVE C!IInv'
  BY <1>5, McpRegister DEF C!CallTool, C!CallThroughManager, C!Thread, C!Methods
<1>6. ASSUME NEW t \in Caller, C!CallOneShot(t) PROVE C!IInv'
  BY <1>6 DEF C!CallOneShot, C!Line, C!Message, C!Thread
<1>7. CASE C!ReadLine
  BY <1>7 DEF C!ReadLine, C!Genuine
<1>8. CASE C!EndOfLines
  BY <1>8 DEF C!EndOfLines
<1>9. CASE C!Start \/ C!ListTools
  BY <1>9, McpRegister DEF C!Start, C!ListTools, C!Thread, C!Methods
<1>10. CASE C!Offer \/ C!Shutdown
  <2>1. /\ C!TypeOK' /\ C!Waiting' = C!Waiting /\ link # "off" /\ link' # "off"
        /\ UNCHANGED << lastId, pending, reply, at, asks, answer, lines >>
    BY <1>10 DEF C!Offer, C!Shutdown, C!Close
  <2> QED BY <2>1
<1>11. CASE C!Answer
  <2>1. PICK request \in unread, exposed \in BOOLEAN :
          /\ unread' = unread \ {request}
          /\ lines' = Append(lines, C!Line(request.id, request.id, C!Handle(request, exposed)))
    BY <1>11 DEF C!Answer
  <2> DEFINE line0 == C!Line(request.id, request.id, C!Handle(request, exposed))
  <2>2. line0 \in C!Message /\ C!Genuine(line0)
    BY DEF C!Line, C!Handle, C!Message, C!Genuine
  <2>3. UNCHANGED << process, reader, link, alive, offered, lastId, pending, reply, at, asks,
                     answer, noise >>
    BY <1>11 DEF C!Answer
  <2> HIDE DEF line0
  <2>4. lines' \in Seq(C!Message) /\ \A i \in DOMAIN lines' : C!Genuine(lines'[i])
    BY <2>1, <2>2 DEF line0
  <2> QED BY <2>1, <2>3, <2>4
<1>12. CASE C!Speak
  <2>1. PICK said \in {C!Line(0, 0, "list")} \cup
                       {C!Line(id, 0, "request") : id \in {0} \cup pending \cup lastId + 1..MaxId} :
          lines' = Append(lines, said)
    BY <1>12 DEF C!Speak
  <2>2. said \in C!Message /\ C!Genuine(said)
    BY DEF C!Line, C!Message, C!Genuine
  <2>3. /\ noise' \in Nat
        /\ UNCHANGED << process, reader, link, alive, offered, lastId, pending, reply, at, asks,
                        answer, unread >>
    BY <1>12 DEF C!Speak
  <2>4. lines' \in Seq(C!Message) /\ \A i \in DOMAIN lines' : C!Genuine(lines'[i])
    BY <2>1, <2>2
  <2> QED BY <2>3, <2>4
<1>13. CASE C!Die
  BY <1>13 DEF C!Die
<1> QED BY <1>1, <1>2, <1>3, <1>4, <1>5, <1>6, <1>7, <1>8, <1>9, <1>10, <1>11, <1>12, <1>13
        DEF C!Next, C!Requests

\* A call to an MCP server returns the server's answer to this very request, since the ids
\* of the requests that wait differ and a queue takes the lines of its own id only
\* (_request and _read_loop in mcp/client.py); and a language server is heard to say only what
\* answers the question (_lsp_request).
THEOREM RepliesAreTheirs == Spec => []RepliesFindTheirCall
<1>1. Init => C!IInv /\ L!IInv
  BY McpInit, LspInit DEF Init
<1>2. C!IInv /\ L!IInv /\ [Next]_vars => C!IInv' /\ L!IInv'
  BY McpNext, McpSteps, LspNext, LspSteps
<1>3. C!IInv => C!RepliesFindTheirCall
  BY DEF C!IInv, C!TypeOK, C!QueueInv, C!MessageInv, C!AnswerInv, C!RepliesFindTheirCall
<1>4. L!IInv => L!ServerAnsweredQuestion
  BY DEF L!IInv, L!ServerAnsweredQuestion
<1> QED BY <1>1, <1>2, <1>3, <1>4, PTL DEF Spec, RepliesFindTheirCall

(***************************************************************************)
(* Hooks                                                                   *)
(***************************************************************************)
LEMMA HooksSteps == [Next]_vars => K!Next \/ UNCHANGED hooksVars
BY DEF Next, vars

LEMMA FirstIsMember ==
  ASSUME NEW left \in SUBSET Nat, left # {}
  PROVE  K!First(left) \in left
BY Least DEF K!First

LEMMA HookNumbers == \A hooks \in K!HookLists : DOMAIN hooks \subseteq Nat
BY DEF K!HookLists

\* Whatever a hook comes to, the new input of its call is a file.
LEMMA ResultInputs ==
  ASSUME NEW hooks \in K!HookLists, NEW i \in DOMAIN hooks, NEW result \in K!Results(hooks[i])
  PROVE  result.input \in K!File \cup {"none"}
<1>1. hooks[i].type \in {"prompt", "block", "command"}
  BY DEF K!HookLists, K!Hook
<1>2. CASE hooks[i].type = "prompt"
  <2>1. K!Results(hooks[i]) = {K!Quiet}
    BY <1>2 DEF K!Results
  <2>2. result = K!Quiet
    BY <2>1
  <2>3. K!Quiet.input = "none"
    BY DEF K!Quiet
  <2> QED BY <2>2, <2>3
<1>3. CASE hooks[i].type = "block"
  BY <1>3 DEF K!Results, K!Quiet
<1>4. CASE hooks[i].type = "command"
  BY <1>4 DEF K!Results, K!Quiet
<1> QED BY <1>1, <1>2, <1>3, <1>4

LEMMA IdleThread ==
  /\ K!Idle.pc = "idle" /\ K!Idle.event = "none" /\ K!Idle.left = {} /\ K!Idle.from = 0
  /\ K!Idle \in K!Doings
BY DEF K!Idle, K!Doings

LEMMA HooksInit == K!Init => K!IInv
<1> SUFFICES ASSUME K!Init PROVE K!IInv
  OBVIOUS
<1>1. K!TypeOK
  BY IdleThread DEF K!Init, K!TypeOK
<1> QED BY <1>1, IdleThread DEF K!Init, K!IInv, K!VersionInv, K!PlaceInv, K!AheadInv, K!OnceButForBatch, K!Event

\* A thread that matches hooks.
LEMMA Matched ==
  ASSUME K!TypeOK, NEW event \in K!Event, NEW f \in K!File \cup {"none"}
  PROVE  /\ K!Fire(event, f) \in K!Doings
         /\ K!Fire(event, f).pc = "matched" /\ K!Fire(event, f).event = event
         /\ K!Fire(event, f).from = Len(log)
         /\ K!Fire(event, f).left = K!Matching(event, f)
         /\ K!Matching(event, f) \subseteq {i \in DOMAIN engine.hooks : K!MayRun(i)}
<1>1. K!Matching(event, f) \in SUBSET Nat
  BY HookNumbers DEF K!Matching, K!TypeOK
<1>2. Len(log) \in Nat
  BY DEF K!TypeOK
<1> QED BY <1>1, <1>2 DEF K!Fire, K!Doings, K!Matching

\* A thread that has new hooks, or none, has none that were executed before.
LEMMA NewDoing ==
  ASSUME K!IInv, NEW t \in K!Thread, NEW d \in K!Doings,
         firing' = [firing EXCEPT ![t] = d], d.pc # "acting", d.from <= Len(log),
         \A i \in d.left : i \in DOMAIN engine.hooks /\ K!MayRun(i),
         UNCHANGED << engine, log >>
  PROVE  /\ firing' \in [K!Thread -> K!Doings]
         /\ firing'[t] = d /\ \A u \in K!Thread \ {t} : firing'[u] = firing[u]
         /\ \A u \in K!Thread : K!AheadInv(u)'
<1>1. /\ firing' \in [K!Thread -> K!Doings]
      /\ firing'[t] = d /\ \A u \in K!Thread \ {t} : firing'[u] = firing[u]
  BY DEF K!IInv, K!TypeOK
<1>2. ASSUME NEW u \in K!Thread \ {t} PROVE K!AheadInv(u)'
  <2>1. K!AheadInv(u) /\ firing'[u] = firing[u]
    BY <1>1 DEF K!IInv
  <2> QED BY <2>1 DEF K!AheadInv, K!Ahead
<1>3. \A k \in DOMAIN log : log[k].version = engine.version /\ engine.hooks[log[k].hook].once
                            => ~K!MayRun(log[k].hook)
  BY DEF K!IInv, K!VersionInv, K!MayRun
<1>4. K!AheadInv(t)'
  BY <1>1, <1>3 DEF K!AheadInv, K!Ahead
<1> QED BY <1>1, <1>2, <1>4

\* A step of the turn's thread while no batch runs.
LEMMA MainMoves ==
  ASSUME K!IInv, NEW d \in K!Doings, firing' = [firing EXCEPT ![MainThread] = d],
         d.pc \in {"idle", "matched"}, d.from <= Len(log), \A i \in d.left : i \in DOMAIN engine.hooks /\ K!MayRun(i),
         UNCHANGED << hookFile, engine, log >>,
         turnAt # "parallel",
         \/ d = K!Idle /\ turnAt' \in {"asking", "asked", "between"}
         \/ << d.event, turnAt' >> \in {<< "start", "starting" >>, << "pre", "acting" >>,
                                       << "stop", "stopping" >>, << "end", "ending" >>}
  PROVE  K!IInv'
<1>1. /\ MainThread \in K!Thread /\ d.pc # "acting"
      /\ turnAt' \in {"between", "starting", "asking", "asked", "acting", "parallel", "stopping",
                     "ending"} \ {"parallel"}
  BY DEF K!Thread
<1>2. /\ firing' \in [K!Thread -> K!Doings]
      /\ firing'[MainThread] = d /\ \A u \in K!Thread \ {MainThread} : firing'[u] = firing[u]
      /\ \A u \in K!Thread : K!AheadInv(u)'
  BY <1>1, NewDoing
<1>3. K!TypeOK'
  BY <1>1, <1>2 DEF K!IInv, K!TypeOK
<1>4. \A u \in K!Thread \ {MainThread} : firing'[u] = K!Idle
  BY <1>2 DEF K!IInv, K!PlaceInv
<1>5. K!PlaceInv'
  BY <1>1, <1>2, <1>4, IdleThread DEF K!PlaceInv
<1>6. K!VersionInv' /\ K!OnceButForBatch'
  BY DEF K!IInv, K!VersionInv, K!OnceButForBatch
<1> QED BY <1>2, <1>3, <1>5, <1>6 DEF K!IInv

\* A step of a thread inside its call.
LEMMA CallMoves ==
  ASSUME K!IInv, NEW t \in K!Thread, NEW d \in K!Doings, firing' = [firing EXCEPT ![t] = d],
         d.pc # "acting", d.from <= Len(log), \A i \in d.left : i \in DOMAIN engine.hooks /\ K!MayRun(i),
         UNCHANGED << hookFile, engine, log, turnAt >>,
         \/ d = K!Idle
         \/ d.pc = "matched" /\ d.event \in {"pre", "post"} /\ turnAt \in {"acting", "parallel"}
             /\ (t # MainThread => turnAt = "parallel")
  PROVE  K!IInv'
<1>1. /\ firing' \in [K!Thread -> K!Doings]
      /\ firing'[t] = d /\ \A u \in K!Thread \ {t} : firing'[u] = firing[u]
      /\ \A u \in K!Thread : K!AheadInv(u)'
  BY NewDoing
<1>2. K!TypeOK'
  BY <1>1 DEF K!IInv, K!TypeOK
<1>3. K!PlaceInv'
  BY <1>1, IdleThread DEF K!IInv, K!PlaceInv
<1>4. K!VersionInv' /\ K!OnceButForBatch'
  BY DEF K!IInv, K!VersionInv, K!OnceButForBatch
<1> QED BY <1>1, <1>2, <1>3, <1>4 DEF K!IInv

\* mark_executed.
LEMMA ExecuteMarks == ASSUME K!IInv, NEW t \in K!Thread, K!Execute(t) PROVE K!IInv'
<1> DEFINE i == K!First(firing[t].left)
           new == [version |-> engine.version, hook |-> i, thread |-> t, from |-> firing[t].from]
<1>1. /\ firing[t].left \in SUBSET Nat /\ firing[t].left # {} /\ firing[t].from \in Nat
      /\ firing[t].pc = "matched" /\ firing[t] \in K!Doings
      /\ i \in Nat /\ i \in firing[t].left
  BY FirstIsMember DEF K!IInv, K!TypeOK, K!Doings, K!Execute
<1>2. /\ engine' = [engine EXCEPT !.executed = @ \cup {i}]
      /\ log' = Append(log, new)
      /\ firing' = [firing EXCEPT ![t] = [firing[t] EXCEPT !.pc = "acting"]]
      /\ UNCHANGED << hookFile, turnAt >>
  BY DEF K!Execute, K!Does
<1>3. /\ engine'.version = engine.version /\ engine'.hooks = engine.hooks
      /\ engine'.executed = engine.executed \cup {i}
      /\ engine' \in [version: Nat, hooks: K!HookLists, executed: SUBSET Nat]
  BY <1>1, <1>2 DEF K!IInv, K!TypeOK
<1>4. /\ Len(log) \in Nat /\ Len(log') = Len(log) + 1 /\ log'[Len(log) + 1] = new
      /\ \A k \in 1 .. Len(log) : log'[k] = log[k]
      /\ DOMAIN log = 1 .. Len(log) /\ DOMAIN log' = 1 .. Len(log) + 1
  BY <1>2 DEF K!IInv, K!TypeOK
<1>5. /\ firing'[t].pc = "acting" /\ firing'[t].left = firing[t].left
      /\ firing'[t].from = firing[t].from /\ firing'[t].event = firing[t].event
      /\ \A u \in K!Thread \ {t} : firing'[u] = firing[u]
      /\ firing' \in [K!Thread -> K!Doings]
  BY <1>1, <1>2 DEF K!IInv, K!TypeOK, K!Doings
<1>6. K!TypeOK'
  <2>1. new \in [version: Nat, hook: Nat, thread: K!Thread, from: Nat]
    BY <1>1 DEF K!IInv, K!TypeOK
  <2> QED BY <1>2, <1>3, <1>5, <2>1 DEF K!IInv, K!TypeOK
<1>7. K!VersionInv'
  BY <1>2, <1>3, <1>4 DEF K!IInv, K!TypeOK, K!VersionInv
<1>8. K!PlaceInv'
  <2>1. /\ firing[t].event # "none" /\ firing[t] # K!Idle
        /\ firing'[t].event # "none" /\ firing'[t].pc # "submitted"
    BY <1>1, <1>5, IdleThread DEF K!IInv, K!PlaceInv, K!Idle
  <2>2. \A u \in K!Thread : firing'[u].event = firing[u].event
    BY <1>5
  <2>3. \A u \in K!Thread : firing'[u].event = "none" => firing'[u] = firing[u]
    BY <1>5, <2>1
  <2>4. \A u \in K!Thread : firing'[u].pc = "submitted" => firing'[u] = firing[u]
    BY <1>5, <2>1
  <2>5. \A u \in K!Thread : u # MainThread /\ turnAt # "parallel" => firing'[u] = firing[u]
    BY <1>5, <2>1 DEF K!IInv, K!PlaceInv
  <2>6. turnAt' = turnAt
    BY <1>2
  <2> QED BY <2>2, <2>3, <2>4, <2>5, <2>6 DEF K!IInv, K!PlaceInv
<1>9. ASSUME NEW u \in K!Thread PROVE K!AheadInv(u)'
  <2>1. /\ K!AheadInv(u) /\ firing[u].from \in Nat /\ firing'[u].from = firing[u].from
        /\ firing[u].from <= Len(log)
    BY <1>5 DEF K!IInv, K!TypeOK, K!Doings, K!AheadInv
  <2>2. K!Ahead(u)' \subseteq K!Ahead(u) /\ firing'[u].left = firing[u].left
    BY <1>1, <1>5 DEF K!Ahead
  <2>3. firing'[u].from <= Len(log') /\ firing'[u].left \subseteq DOMAIN engine'.hooks
        /\ (firing'[u].pc = "acting" => firing'[u].left # {})
    BY <1>1, <1>3, <1>4, <1>5, <2>1, <2>2 DEF K!AheadInv
  <2>4. ASSUME NEW k \in 1 .. Len(log), log'[k].version = engine'.version,
               log'[k].hook \in K!Ahead(u)', engine'.hooks[log'[k].hook].once
        PROVE  firing'[u].from < k /\ log'[k].thread # u
    BY <1>3, <1>4, <2>1, <2>2, <2>4 DEF K!AheadInv
  <2>5. u = t => i \notin K!Ahead(u)'
    BY <1>5 DEF K!Ahead
  <2>6. /\ firing'[u].from < Len(log) + 1
        /\ log'[Len(log) + 1].hook \in K!Ahead(u)' => log'[Len(log) + 1].thread # u
    BY <1>4, <2>1, <2>5
  <2>7. DOMAIN log' = (1 .. Len(log)) \cup {Len(log) + 1}
    BY <1>4
  <2> QED BY <2>3, <2>4, <2>6, <2>7 DEF K!AheadInv
<1>10. K!OnceButForBatch'
  <2>1. \A k \in 1 .. Len(log) :
          log[k].version = engine.version /\ log[k].hook = i /\ engine.hooks[i].once
            => firing[t].from < k /\ log[k].thread # t
    BY <1>1, <1>4 DEF K!IInv, K!AheadInv, K!Ahead
  <2> QED BY <1>3, <1>4, <2>1 DEF K!IInv, K!OnceButForBatch
<1> QED BY <1>6, <1>7, <1>8, <1>9, <1>10 DEF K!IInv

\* What the action came to.
LEMMA FinishLeaves == ASSUME K!IInv, NEW t \in K!Thread, K!Finish(t) PROVE K!IInv'
<1> DEFINE i == K!First(firing[t].left)
<1>1. PICK result \in K!Results(engine.hooks[i]) :
        LET goesOn == engine.hooks[i].event = "stop" /\ K!Forces(engine.hooks[i], result)
        IN  firing' = [firing EXCEPT ![t] = [firing[t] EXCEPT
              !.pc = "matched",
              !.left = IF goesOn THEN {} ELSE @ \ {i},
              !.input = IF engine.hooks[i].event = "pre" /\ result.input # "none"
                        THEN result.input ELSE @,
              !.blocked = @ \/ goesOn \/ (engine.hooks[i].event = "pre"
                                           /\ K!Blocks(engine.hooks[i], result))]]
  BY DEF K!Finish, K!Does
<1> DEFINE d == firing'[t]
<1>2. /\ UNCHANGED << hookFile, engine, turnAt, log >> /\ firing[t].pc = "acting"
      /\ firing[t] \in K!Doings /\ firing \in [K!Thread -> K!Doings]
  BY DEF K!Finish, K!IInv, K!TypeOK
<1>3. /\ i \in DOMAIN engine.hooks /\ engine.hooks \in K!HookLists
      /\ result.input \in K!File \cup {"none"}
  <2>1. firing[t].left \in SUBSET Nat /\ firing[t].left # {}
        /\ firing[t].left \subseteq DOMAIN engine.hooks /\ engine.hooks \in K!HookLists
    BY <1>2 DEF K!IInv, K!TypeOK, K!Doings, K!AheadInv
  <2>2. i \in DOMAIN engine.hooks
    BY <2>1, FirstIsMember
  <2> QED BY <1>1, <2>1, <2>2, ResultInputs
<1>4. /\ d.pc = "matched" /\ d.event = firing[t].event /\ d.from = firing[t].from
      /\ d.left \subseteq firing[t].left \ {i} /\ d \in K!Doings
      /\ firing' \in [K!Thread -> K!Doings]
      /\ \A u \in K!Thread \ {t} : firing'[u] = firing[u]
  <2> DEFINE goesOn == engine.hooks[i].event = "stop" /\ K!Forces(engine.hooks[i], result)
             left == IF goesOn THEN {} ELSE firing[t].left \ {i}
             input == IF engine.hooks[i].event = "pre" /\ result.input # "none"
                      THEN result.input ELSE firing[t].input
             blocked == firing[t].blocked \/ goesOn \/ (engine.hooks[i].event = "pre"
                                           /\ K!Blocks(engine.hooks[i], result))
  <2>1. firing' = [firing EXCEPT ![t] = [firing[t] EXCEPT
          !.pc = "matched", !.left = left, !.input = input, !.blocked = blocked]]
    BY <1>1
  <2>2. /\ left \subseteq firing[t].left \ {i} /\ left \in SUBSET Nat
        /\ input \in K!File \cup {"none"} /\ blocked \in BOOLEAN
    BY <1>2, <1>3 DEF K!Doings
  <2> HIDE DEF left, input, blocked
  <2> QED BY <1>2, <2>1, <2>2 DEF K!Doings
<1>5. K!TypeOK'
  BY <1>2, <1>4 DEF K!IInv, K!TypeOK
<1>6. firing[t].event # "none" /\ firing[t] # K!Idle
  BY <1>2, IdleThread DEF K!IInv, K!PlaceInv, K!Idle
<1>7. K!PlaceInv'
  <2>1. \A u \in K!Thread : firing'[u].event = firing[u].event
    BY <1>4
  <2>2. \A u \in K!Thread : firing'[u].event = "none" \/ firing'[u].pc = "submitted"
                              => firing'[u] = firing[u]
    BY <1>4, <1>6
  <2>3. \A u \in K!Thread : u # MainThread /\ turnAt # "parallel" => firing'[u] = firing[u]
    BY <1>4, <1>6 DEF K!IInv, K!PlaceInv
  <2> QED BY <1>2, <2>1, <2>2, <2>3 DEF K!IInv, K!PlaceInv
<1>8. ASSUME NEW u \in K!Thread PROVE K!AheadInv(u)'
  <2>1. /\ K!Ahead(u)' \subseteq K!Ahead(u) /\ firing'[u].from = firing[u].from
        /\ firing'[u].left \subseteq firing[u].left
        /\ firing'[u].pc = "acting" => firing'[u].left # {}
    BY <1>2, <1>4 DEF K!Ahead, K!IInv, K!AheadInv
  <2>2. K!AheadInv(u) /\ UNCHANGED << engine, log >>
    BY <1>2 DEF K!IInv
  <2> QED BY <2>1, <2>2 DEF K!AheadInv
<1>9. K!VersionInv' /\ K!OnceButForBatch'
  BY <1>2 DEF K!IInv, K!VersionInv, K!OnceButForBatch
<1> QED BY <1>5, <1>7, <1>8, <1>9 DEF K!IInv

\* A thread that begins its call, runs the tool, or ends it.
LEMMA CallSteps ==
  ASSUME K!IInv, NEW t \in K!Thread, K!StartCall(t) \/ K!CallTool(t) \/ K!CallEnds(t)
  PROVE  K!IInv'
<1>1. /\ UNCHANGED << hookFile, engine, log, turnAt >> /\ Len(log) \in Nat /\ K!TypeOK
      /\ firing[t] \in K!Doings /\ firing[t].file \in K!File \cup {"none"}
      /\ firing[t].input \in K!File \cup {"none"}
  BY DEF K!IInv, K!TypeOK, K!Doings, K!StartCall, K!CallTool, K!CallEnds
<1>2. ASSUME firing' = [firing EXCEPT ![t] = K!Idle] PROVE K!IInv'
  <2> DEFINE d == K!Idle
  <2>1. /\ d = K!Idle /\ d \in K!Doings /\ d.pc # "acting" /\ d.from <= Len(log) /\ d.left = {}
        /\ firing' = [firing EXCEPT ![t] = d]
    BY <1>1, <1>2, IdleThread
  <2> HIDE DEF d
  <2> QED BY <1>1, <2>1, CallMoves
<1>3. ASSUME NEW event \in {"pre", "post"}, NEW f \in K!File \cup {"none"},
             firing' = [firing EXCEPT ![t] = K!Fire(event, f)],
             turnAt \in {"acting", "parallel"}, t # MainThread => turnAt = "parallel"
      PROVE  K!IInv'
  <2> DEFINE d == K!Fire(event, f)
  <2>1. /\ d \in K!Doings /\ d.pc = "matched" /\ d.event = event /\ d.from <= Len(log)
        /\ \A i \in d.left : i \in DOMAIN engine.hooks /\ K!MayRun(i)
    <3>1. event \in K!Event
      BY DEF K!Event
    <3> QED BY <1>1, <3>1, Matched
  <2> HIDE DEF d
  <2>2. firing' = [firing EXCEPT ![t] = d]
    BY <1>3 DEF d
  <2> QED BY <1>1, <1>3, <2>1, <2>2, CallMoves
<1>4. firing[t].event \in {"pre", "post"} \/ firing[t].pc = "submitted"
      => turnAt \in {"acting", "parallel"} /\ (t # MainThread => turnAt = "parallel")
  <2>1. turnAt # "parallel" /\ t # MainThread
        => firing[t].pc # "submitted" /\ firing[t].event \notin {"pre", "post"}
    BY IdleThread DEF K!IInv, K!PlaceInv
  <2> QED BY <2>1 DEF K!IInv, K!PlaceInv
<1>5. CASE K!StartCall(t)
  BY <1>1, <1>3, <1>4, <1>5 DEF K!StartCall, K!Does
<1>6. CASE K!CallTool(t)
  BY <1>1, <1>2, <1>3, <1>4, <1>6 DEF K!CallTool, K!Does, K!Through
<1>7. CASE K!CallEnds(t)
  BY <1>2, <1>7 DEF K!CallEnds, K!Does
<1> QED BY <1>5, <1>6, <1>7

\* A thread that is through with its hooks is where its event belongs.
LEMMA ThroughAt ==
  ASSUME K!IInv, NEW event \in {"start", "stop", "end"}, K!Through(MainThread, event)
  PROVE  turnAt \notin {"parallel"}
BY DEF K!IInv, K!PlaceInv, K!Through, K!Thread

\* The thread of the turn goes on.
LEMMA TurnSteps ==
  ASSUME K!IInv,
         \/ K!FireStart \/ K!Ask \/ K!FireStop \/ K!Continue \/ K!FireEnd \/ K!EndTurn
         \/ \E f \in K!File : K!RunSingle(f)
  PROVE  K!IInv'
<1>1. /\ UNCHANGED << hookFile, engine, log >> /\ Len(log) \in Nat /\ K!TypeOK
  BY DEF K!IInv, K!TypeOK, K!FireStart, K!Ask, K!FireStop, K!Continue, K!FireEnd, K!EndTurn,
         K!RunSingle
<1>2. ASSUME firing' = [firing EXCEPT ![MainThread] = K!Idle], turnAt # "parallel",
             turnAt' \in {"asking", "asked", "between"}
      PROVE  K!IInv'
  <2> DEFINE d == K!Idle
  <2>1. /\ d = K!Idle /\ d \in K!Doings /\ d.pc = "idle" /\ d.from <= Len(log) /\ d.left = {}
        /\ firing' = [firing EXCEPT ![MainThread] = d]
    BY <1>1, <1>2, IdleThread
  <2> HIDE DEF d
  <2> QED BY <1>1, <1>2, <2>1, MainMoves
<1>3. ASSUME NEW event \in K!Event, NEW f \in K!File \cup {"none"},
             firing' = [firing EXCEPT ![MainThread] = K!Fire(event, f)], turnAt # "parallel",
             << event, turnAt' >> \in {<< "start", "starting" >>, << "pre", "acting" >>,
                                       << "stop", "stopping" >>, << "end", "ending" >>}
      PROVE  K!IInv'
  <2> DEFINE d == K!Fire(event, f)
  <2>1. /\ d \in K!Doings /\ d.pc = "matched" /\ d.event = event /\ d.from <= Len(log)
        /\ \A i \in d.left : i \in DOMAIN engine.hooks /\ K!MayRun(i)
    BY <1>1, Matched
  <2> HIDE DEF d
  <2>2. firing' = [firing EXCEPT ![MainThread] = d]
    BY <1>3 DEF d
  <2> QED BY <1>1, <1>3, <2>1, <2>2, MainMoves
<1>4. {"start", "pre", "stop", "end"} \subseteq K!Event
  BY DEF K!Event
<1>5. CASE K!FireStart
  BY <1>3, <1>4, <1>5 DEF K!FireStart, K!Does
<1>6. CASE K!Ask
  BY <1>2, <1>6, ThroughAt DEF K!Ask, K!Does
<1>7. CASE \E f \in K!File : K!RunSingle(f)
  BY <1>3, <1>4, <1>7 DEF K!RunSingle, K!Does
<1>8. CASE K!FireStop
  <2>1. CASE continued < MaxContinuations
    BY <1>3, <1>4, <1>8, <2>1 DEF K!FireStop, K!Does
  <2>2. CASE ~(continued < MaxContinuations)
    <3> DEFINE d == [K!Idle EXCEPT !.pc = "matched", !.event = "stop"]
    <3>1. /\ d \in K!Doings /\ d.pc = "matched" /\ d.event = "stop" /\ d.left = {}
          /\ d.from = 0
      BY DEF K!Idle, K!Doings, K!Event
    <3> HIDE DEF d
    <3>2. d.from <= Len(log)
      BY <1>1, <3>1
    <3>3. firing' = [firing EXCEPT ![MainThread] = d] /\ turnAt = "asked" /\ turnAt' = "stopping"
      BY <1>8, <2>2 DEF K!FireStop, K!Does, d
    <3> QED BY <1>1, <3>1, <3>2, <3>3, MainMoves
  <2> QED BY <2>1, <2>2
<1>9. CASE K!Continue
  BY <1>2, <1>9, ThroughAt DEF K!Continue, K!Does
<1>10. CASE K!FireEnd
  BY <1>3, <1>4, <1>10, ThroughAt DEF K!FireEnd, K!Does
<1>11. CASE K!EndTurn
  BY <1>2, <1>11, ThroughAt DEF K!EndTurn, K!Does
<1> QED BY <1>5, <1>6, <1>7, <1>8, <1>9, <1>10, <1>11

\* A batch of calls is given to the threads of the pool.
LEMMA BatchBegins == ASSUME K!IInv, NEW f \in K!File, K!RunParallel(f) PROVE K!IInv'
<1> DEFINE submitted == [K!Idle EXCEPT !.pc = "submitted", !.file = f]
<1>1. /\ submitted \in K!Doings /\ submitted.pc = "submitted" /\ submitted.event = "none"
      /\ submitted.left = {} /\ submitted.from = 0 /\ submitted.file = f
  BY DEF K!Idle, K!Doings, K!File
<1>2. /\ \A t \in K!Thread : firing'[t] \in {submitted, K!Idle}
      /\ firing' \in [K!Thread -> K!Doings] /\ turnAt' = "parallel"
      /\ UNCHANGED << hookFile, engine, log >>
  BY <1>1, IdleThread DEF K!RunParallel
<1>3. K!TypeOK'
  BY <1>2 DEF K!IInv, K!TypeOK
<1>4. \A t \in K!Thread : firing'[t] = submitted
        => firing'[t] = [K!Idle EXCEPT !.pc = "submitted", !.file = firing'[t].file]
  BY <1>1
<1> HIDE DEF submitted
<1>5. K!PlaceInv'
  BY <1>1, <1>2, <1>4, IdleThread DEF K!PlaceInv
<1>6. \A t \in K!Thread : K!AheadInv(t)'
  BY <1>1, <1>2, IdleThread DEF K!IInv, K!TypeOK, K!AheadInv, K!Ahead
<1>7. K!VersionInv' /\ K!OnceButForBatch'
  BY <1>2 DEF K!IInv, K!VersionInv, K!OnceButForBatch
<1> QED BY <1>3, <1>5, <1>6, <1>7 DEF K!IInv

\* Between two turns no thread has a hook under way; a new engine has executed nothing.
LEMMA TurnBegins == ASSUME K!IInv, K!BeginTurn PROVE K!IInv'
<1>1. \A t \in K!Thread : firing[t] = K!Idle /\ firing'[t] = K!Idle
  BY DEF K!IInv, K!TypeOK, K!Doings, K!Event, K!PlaceInv, K!BeginTurn
<1>2. /\ turnAt' = "starting" /\ UNCHANGED << hookFile, firing, log >>
      /\ \/ UNCHANGED engine
         \/ /\ engine.version # hookFile.version
            /\ engine' = [version |-> hookFile.version, hooks |-> hookFile.hooks,
                          executed |-> {}]
  BY DEF K!BeginTurn
<1>3. K!TypeOK'
  BY <1>2 DEF K!IInv, K!TypeOK
<1>4. K!PlaceInv'
  BY <1>1, <1>2, IdleThread DEF K!PlaceInv
<1>5. \A t \in K!Thread : K!AheadInv(t)'
  BY <1>1, <1>2, IdleThread DEF K!IInv, K!TypeOK, K!AheadInv, K!Ahead
<1>6. CASE UNCHANGED engine
  BY <1>2, <1>3, <1>4, <1>5, <1>6 DEF K!IInv, K!VersionInv, K!OnceButForBatch
<1>7. CASE engine.version # hookFile.version /\ engine'.version = hookFile.version
  <2>1. engine.version \in Nat /\ hookFile.version \in Nat /\ engine.version < hookFile.version
    BY <1>7 DEF K!IInv, K!TypeOK, K!VersionInv
  <2>2. \A k \in DOMAIN log : log[k].version \in Nat /\ log[k].version < engine'.version
    <3>1. log \in Seq([version: Nat, hook: Nat, thread: K!Thread, from: Nat])
      BY DEF K!IInv, K!TypeOK
    <3>2. \A k \in DOMAIN log : log[k] \in [version: Nat, hook: Nat, thread: K!Thread, from: Nat]
      BY <3>1, SequenceElements
    <3>3. \A k \in DOMAIN log : log[k].version \in Nat
      BY <3>2
    <3> QED BY <1>7, <2>1, <3>3 DEF K!IInv, K!VersionInv
  <2>3. K!VersionInv' /\ K!OnceButForBatch'
    BY <1>2, <1>7, <2>1, <2>2 DEF K!VersionInv, K!OnceButForBatch
  <2> QED BY <1>3, <1>4, <1>5, <2>3 DEF K!IInv
<1> QED BY <1>2, <1>6, <1>7

LEMMA HooksNext == K!IInv /\ (K!Next \/ UNCHANGED hooksVars) => K!IInv'
<1> SUFFICES ASSUME K!IInv, K!Next \/ UNCHANGED hooksVars PROVE K!IInv'
  OBVIOUS
<1>1. CASE K!BatchEnds
  <2>1. /\ \A t \in K!Thread : firing'[t] = K!Idle
        /\ turnAt' = "asking" /\ UNCHANGED << hookFile, engine, firing, log >>
    BY <1>1 DEF K!BatchEnds
  <2>2. K!TypeOK' /\ K!PlaceInv'
    BY <2>1, IdleThread DEF K!IInv, K!TypeOK, K!PlaceInv
  <2> QED BY <2>1, <2>2 DEF K!IInv, K!VersionInv, K!AheadInv, K!Ahead, K!OnceButForBatch
<1>2. CASE K!EditHooks
  <2>1. PICK hooks \in K!HookLists :
          hookFile' = [version |-> hookFile.version + 1, hooks |-> hooks]
    BY <1>2 DEF K!EditHooks
  <2>2. UNCHANGED << engine, turnAt, firing, log >>
    BY <1>2 DEF K!EditHooks
  <2>3. K!TypeOK' /\ K!VersionInv'
    BY <2>1, <2>2 DEF K!IInv, K!TypeOK, K!VersionInv
  <2> QED BY <2>2, <2>3 DEF K!IInv, K!PlaceInv, K!AheadInv, K!Ahead, K!OnceButForBatch
<1>3. CASE UNCHANGED hooksVars
  BY <1>3 DEF hooksVars, K!IInv, K!TypeOK, K!VersionInv, K!PlaceInv, K!AheadInv, K!Ahead,
              K!OnceButForBatch
<1> QED BY <1>1, <1>2, <1>3, ExecuteMarks, FinishLeaves, CallSteps, TurnSteps, BatchBegins,
           TurnBegins DEF K!Next

\* A run-once hook is executed once for as long as its engine lives, but for threads of
\* one batch that matched it before any of them had begun it (HookEngine.mark_executed
\* and _matching): hooks are matched before any of them runs, what is executed is marked
\* at once, and a new engine finds no thread with hooks under way.
THEOREM HooksRunOnce == Spec => []OnceButForBatch
<1>1. Spec => []K!IInv
  <2>1. Init => K!IInv
    BY HooksInit DEF Init
  <2>2. K!IInv /\ [Next]_vars => K!IInv'
    BY HooksSteps, HooksNext
  <2> QED BY <2>1, <2>2, PTL DEF Spec
<1>2. K!IInv => OnceButForBatch
  BY DEF K!IInv, OnceButForBatch
<1> QED BY <1>1, <1>2, PTL

(***************************************************************************)
(* Worktrees                                                               *)
(***************************************************************************)
LEMMA WorktreesSteps == [Next]_vars => W!Next \/ UNCHANGED worktreesVars
BY DEF Next, vars

LEMMA WorktreesInit == W!Init => W!IInv
<1>1. << >> \in Seq(TreeName \cup Subagent)
  OBVIOUS
<1>2. W!NoTree \in W!Trees
  BY <1>1 DEF W!NoTree, W!Trees, W!Main
<1>3. ASSUME W!Init PROVE W!TypeOK
  <2>1. /\ W!NoRecord.status = "none" /\ W!NoRecord.created = FALSE
        /\ record = W!NoRecord /\ root = << >>
    BY <1>3 DEF W!Init, W!NoRecord, W!Main
  <2>2. record \in [status: {"none", "active", "exited", "cleaned", "error"},
                    path: Seq(TreeName \cup Subagent), previous: Seq(TreeName \cup Subagent),
                    created: BOOLEAN]
    BY <1>1, <2>1 DEF W!NoRecord, W!Main
  <2>3. tree \in [Subagent -> W!Trees] /\ dirs = {} /\ stale = {} /\ nested = FALSE
    BY <1>2, <1>3 DEF W!Init
  <2> QED BY <1>1, <2>1, <2>2, <2>3 DEF W!TypeOK
<1>4. W!NoRecord.created = FALSE /\ W!NoRecord.previous = W!Main
  BY DEF W!NoRecord
<1> QED BY <1>3, <1>4 DEF W!Init, W!IInv, W!WayBackIsKept, W!Exists

\* A directory is a sequence of names; what is further down is longer.
LEMMA Directories ==
  /\ W!Directory \subseteq Seq(TreeName \cup Subagent)
  /\ \A dir \in Seq(TreeName \cup Subagent) :
       \A below \in W!Below(dir) :
         below \in Seq(TreeName \cup Subagent) /\ Len(dir) < Len(below)
<1>1. \A dir \in Seq(TreeName \cup Subagent) :
        \A below \in W!Below(dir) :
          below \in Seq(TreeName \cup Subagent) /\ Len(dir) < Len(below)
  BY DEF W!Below
<1>2. << >> \in Seq(TreeName \cup Subagent)
  OBVIOUS
<1>3. W!Below(W!Main) \subseteq Seq(TreeName \cup Subagent)
  BY <1>1, <1>2 DEF W!Main
<1> QED BY <1>1, <1>2, <1>3 DEF W!Directory, W!Main

LEMMA PrefixesAreShorter ==
  ASSUME NEW a \in Seq(TreeName \cup Subagent), NEW b \in Seq(TreeName \cup Subagent)
  PROVE  /\ W!IsPrefix(a, b) => Len(a) <= Len(b)
         /\ W!IsPrefix(a, b) /\ a # b => Len(a) < Len(b)
<1>1. ASSUME W!IsPrefix(a, b), ~(Len(a) < Len(b)) PROVE a = b
  <2>1. /\ Len(a) = Len(b) /\ SubSeq(a, 1, Len(a)) = SubSeq(b, 1, Len(b))
    BY <1>1 DEF W!IsPrefix
  <2>2. \A k \in 1 .. Len(a) : SubSeq(a, 1, Len(a))[k] = a[k] /\ SubSeq(b, 1, Len(b))[k] = b[k]
    BY <2>1
  <2> QED BY <2>1, <2>2
<1> QED BY <1>1 DEF W!IsPrefix

\* Removing what is further down than a directory leaves the directory.
LEMMA RemovedBelow ==
  ASSUME W!TypeOK, NEW gone \in SUBSET Seq(TreeName \cup Subagent),
         NEW dir \in Seq(TreeName \cup Subagent), W!Exists(dir),
         \A g \in gone : Len(dir) < Len(g)
  PROVE  /\ W!Without(gone) \subseteq dirs
         /\ dir \in W!Without(gone) \cup {W!Main}
<1>1. \A g \in gone : ~W!IsPrefix(g, dir)
  BY PrefixesAreShorter
<1> QED BY <1>1 DEF W!Without, W!Exists

LEMMA WorktreesNext == W!IInv /\ (W!Next \/ UNCHANGED worktreesVars) => W!IInv'
<1> SUFFICES ASSUME W!IInv, W!Next \/ UNCHANGED worktreesVars PROVE W!IInv'
  OBVIOUS
<1> USE DEF W!Exists
<1>1. ASSUME NEW dir \in W!Directory, W!Enter(dir) PROVE W!IInv'
  <2>1. /\ dir \in Seq(TreeName \cup Subagent) /\ root \in Seq(TreeName \cup Subagent)
        /\ W!IsPrefix(root, dir)
    BY <1>1, Directories DEF W!Enter, W!Targets, W!IInv, W!TypeOK
  <2>2. ~W!Exists(dir) => Len(root) < Len(dir)
    BY <2>1, PrefixesAreShorter DEF W!IInv, W!WayBackIsKept
  <2>3. /\ stale = {} /\ dirs \subseteq dirs' /\ dir \in dirs' \cup {W!Main}
        /\ dirs' \subseteq dirs \cup {dir}
        /\ record' = [status |-> "active", path |-> dir, previous |-> root,
                      created |-> ~W!Exists(dir)]
        /\ root' = dir /\ nested' = (nested \/ root # W!Main)
        /\ UNCHANGED << stale, tree >>
    BY <1>1 DEF W!Enter, W!Asking
  <2>4. W!TypeOK'
    BY <2>1, <2>3 DEF W!IInv, W!TypeOK
  <2> QED BY <2>2, <2>3, <2>4 DEF W!IInv, W!WayBackIsKept
<1>2. ASSUME NEW cleanup \in BOOLEAN, W!Exit(cleanup) PROVE W!IInv'
  <2>1. /\ stale = {} /\ record.status = "active" /\ W!Exists(record.previous)
        /\ root' = record.previous /\ UNCHANGED << stale, tree, nested >>
        /\ dirs' \in {dirs, W!Without({record.path})}
        /\ dirs' # dirs => record.created
        /\ \E status \in {"cleaned", "exited"} : record' = [record EXCEPT !.status = status]
    BY <1>2 DEF W!Exit, W!Asking
  <2>2. /\ record.path \in Seq(TreeName \cup Subagent)
        /\ record.previous \in Seq(TreeName \cup Subagent)
        /\ record'.path = record.path /\ record'.previous = record.previous
        /\ record'.created = record.created
    BY <2>1 DEF W!IInv, W!TypeOK
  <2>3. dirs' \subseteq dirs /\ root' \in dirs' \cup {W!Main}
    <3>1. CASE dirs' = dirs
      BY <2>1, <3>1
    <3>2. CASE dirs' # dirs
      <4>1. Len(record.previous) < Len(record.path)
        BY <2>1, <3>2 DEF W!IInv
      <4>2. W!TypeOK /\ {record.path} \in SUBSET Seq(TreeName \cup Subagent)
        BY <2>2 DEF W!IInv
      <4> QED BY <2>1, <2>2, <3>2, <4>1, <4>2, RemovedBelow
    <3> QED BY <3>1, <3>2
  <2>4. W!TypeOK'
    BY <2>1, <2>2, <2>3 DEF W!IInv, W!TypeOK
  <2>5. ~nested => record.previous = W!Main
    BY DEF W!IInv
  <2> QED BY <2>1, <2>2, <2>3, <2>4, <2>5 DEF W!IInv, W!WayBackIsKept
<1>3. CASE W!ExitNowhere
  <2>1. nested /\ UNCHANGED << dirs, root, stale, tree, nested >>
        /\ record' = [record EXCEPT !.status = "error"]
    BY <1>3 DEF W!ExitNowhere, W!IInv
  <2>2. W!TypeOK' /\ record'.previous = record.previous /\ record'.path = record.path
        /\ record'.created = record.created
    BY <2>1 DEF W!IInv, W!TypeOK
  <2> QED BY <2>1, <2>2 DEF W!IInv, W!WayBackIsKept
<1>4. CASE W!ListStale
  <2>1. stale' \subseteq W!Below(root) /\ UNCHANGED << dirs, root, record, tree, nested >>
    BY <1>4 DEF W!ListStale
  <2>2. \A dir \in stale' : dir \in Seq(TreeName \cup Subagent) /\ Len(root) < Len(dir)
    BY <2>1, Directories DEF W!IInv, W!TypeOK
  <2> QED BY <2>1, <2>2 DEF W!IInv, W!TypeOK, W!WayBackIsKept
<1>5. CASE W!Prune
  <2>1. PICK gone \in SUBSET stale : dirs' = W!Without(gone)
    BY <1>5 DEF W!Prune
  <2>2. stale' = {} /\ UNCHANGED << root, record, tree, nested >>
    BY <1>5 DEF W!Prune
  <2>3. /\ W!TypeOK /\ gone \in SUBSET Seq(TreeName \cup Subagent) /\ W!Exists(root)
        /\ root \in Seq(TreeName \cup Subagent) /\ \A g \in gone : Len(root) < Len(g)
    BY <2>1 DEF W!IInv, W!TypeOK, W!WayBackIsKept
  <2>4. dirs' \subseteq dirs /\ root \in dirs' \cup {W!Main}
    BY <2>1, <2>3, RemovedBelow
  <2> QED BY <2>2, <2>4 DEF W!IInv, W!TypeOK, W!WayBackIsKept
<1>6. ASSUME NEW s \in Subagent, W!Prepare(s) PROVE W!IInv'
  <2>1. /\ Append(root, s) \in Seq(TreeName \cup Subagent) /\ dirs' = dirs \cup {Append(root, s)}
        /\ tree' = [tree EXCEPT ![s] = [path |-> Append(root, s), state |-> "active"]]
        /\ UNCHANGED << root, record, stale, nested >>
    BY <1>6, Directories DEF W!Prepare
  <2>2. W!TypeOK'
    BY <2>1 DEF W!IInv, W!TypeOK, W!Trees
  <2> QED BY <2>1, <2>2 DEF W!IInv, W!WayBackIsKept
<1>7. ASSUME NEW s \in Subagent, W!Cleanup(s) PROVE W!IInv'
  <2>1. /\ tree[s].path \in Seq(TreeName \cup Subagent) /\ root \in Seq(TreeName \cup Subagent)
        /\ W!TypeOK /\ W!Exists(root)
    BY DEF W!IInv, W!TypeOK, W!WayBackIsKept, W!Trees
  <2>2. /\ UNCHANGED << root, record, stale, nested >>
        /\ dirs' \in {dirs, W!Without({tree[s].path})}
        /\ dirs' # dirs => W!IsStrictPrefix(root, tree[s].path)
        /\ \E state \in {"cleaned", "cleanup_error", "cleanup_refused"} :
             tree' = [tree EXCEPT ![s].state = state]
    BY <1>7 DEF W!Cleanup
  <2>3. dirs' \subseteq dirs /\ root \in dirs' \cup {W!Main}
    <3>1. CASE dirs' = dirs
      BY <2>1, <3>1
    <3>2. CASE dirs' # dirs
      <4>1. Len(root) < Len(tree[s].path)
        BY <2>1, <2>2, <3>2, PrefixesAreShorter DEF W!IsStrictPrefix
      <4>2. {tree[s].path} \in SUBSET Seq(TreeName \cup Subagent)
        BY <2>1
      <4> QED BY <2>1, <2>2, <3>2, <4>1, <4>2, RemovedBelow
    <3> QED BY <3>1, <3>2
  <2>4. W!TypeOK'
    <3>1. PICK state \in {"cleaned", "cleanup_error", "cleanup_refused"} :
            tree' = [tree EXCEPT ![s] = [tree[s] EXCEPT !.state = state]]
      BY <2>2
    <3>2. tree' \in [Subagent -> W!Trees]
      BY <3>1 DEF W!IInv, W!TypeOK, W!Trees
    <3> QED BY <2>2, <2>3, <3>2 DEF W!IInv, W!TypeOK
  <2> QED BY <2>2, <2>3, <2>4 DEF W!IInv, W!WayBackIsKept
<1>8. CASE W!Restart
  BY <1>8 DEF W!Restart, W!Main, W!IInv, W!TypeOK, W!WayBackIsKept
<1>9. CASE UNCHANGED worktreesVars
  BY <1>9 DEF worktreesVars, W!IInv, W!TypeOK, W!WayBackIsKept
<1> QED BY <1>1, <1>2, <1>3, <1>4, <1>5, <1>6, <1>7, <1>8, <1>9 DEF W!Next

\* The lead never works in a directory that is gone, and unless worktrees were nested its
\* record leads back to the main checkout (EnterWorktree, ExitWorktree and
\* worktree_prune in builtin.py; _cleanup_worktree): what a removal takes is always further
\* down than the root of the moment.
THEOREM LeadFindsWayBack == Spec => []WayBackIsKept
<1>1. Init => W!IInv
  BY WorktreesInit DEF Init
<1>2. W!IInv /\ [Next]_vars => W!IInv'
  BY WorktreesNext, WorktreesSteps
<1>3. W!IInv => WayBackIsKept
  BY DEF W!IInv, WayBackIsKept
<1> QED BY <1>1, <1>2, <1>3, PTL DEF Spec

(***************************************************************************)
(* The turn of a subagent                                                  *)
(***************************************************************************)
LEMMA SubTurnSteps == [Next]_vars => S!Next \/ UNCHANGED subTurnVars
BY DEF Next, vars

\* Whether a server is connected or not, a name is resolved to the same tool.
LEMMA NamesAreSteady ==
  ASSUME NEW registered1 \in {S!Builtin, S!Builtin \cup S!External},
         NEW registered2 \in {S!Builtin, S!Builtin \cup S!External}
  PROVE  /\ \A name : S!Resolve(name, registered1) = S!Resolve(name, registered2)
         /\ \A spec : S!Family(spec, registered1) = S!Family(spec, registered2)
         /\ \A name, specs : S!DeniedBy(name, specs, registered1)
                               = S!DeniedBy(name, specs, registered2)
         /\ \A name, list : S!AllowedBy(name, list, registered1)
                               = S!AllowedBy(name, list, registered2)
         /\ \A name, r, list : S!Passes(name, r, list, registered1)
                               = S!Passes(name, r, list, registered2)
<1>1. \A name : S!Resolve(name, registered1) = S!Resolve(name, registered2)
  BY DEF S!Resolve, S!Builtin, S!External
<1>2. \A spec : S!Family(spec, registered1) = S!Family(spec, registered2)
  BY <1>1 DEF S!Family
<1>3. \A name, specs : S!DeniedBy(name, specs, registered1)
                         = S!DeniedBy(name, specs, registered2)
  BY <1>1, <1>2 DEF S!DeniedBy
<1>4. \A name, list : S!AllowedBy(name, list, registered1)
                         = S!AllowedBy(name, list, registered2)
  BY <1>1, <1>2 DEF S!AllowedBy
<1>5. \A name, r, list : S!Passes(name, r, list, registered1)
                           = S!Passes(name, r, list, registered2)
  BY <1>3, <1>4 DEF S!Passes
<1> QED BY <1>1, <1>2, <1>3, <1>4, <1>5

\* More tools are offered when a server is connected, and none that was is not.
LEMMA MoreIsOffered ==
  ASSUME NEW r, NEW list
  PROVE  S!Schemas(r, list, S!Builtin) \subseteq S!Schemas(r, list, S!Builtin \cup S!External)
BY NamesAreSteady DEF S!Schemas

\* The tool a call comes to, if a gate lets the call through, is one that is offered.
LEMMA CallIsOffered ==
  ASSUME NEW registered1 \in {S!Builtin, S!Builtin \cup S!External}, NEW r, NEW list, NEW name,
         S!Passes(name, r, list, registered1), S!Resolve(name, registered1) \in registered1
  PROVE  /\ list # {}
         /\ S!Resolve(name, registered1) \in S!Schemas(r, list, S!Builtin) \cup S!External
<1> DEFINE t == S!Resolve(name, registered1)
<1>1. list # {}
  BY DEF S!Passes, S!AllowedBy
<1>2. S!AllowedBy(t, list, registered1)
  BY DEF S!Passes, S!AllowedBy, S!Resolve, S!Family, S!SpecName, S!Builtin, S!External
<1>3. \A specs : S!DeniedBy(t, specs, registered1) => S!DeniedBy(name, specs, registered1)
  BY DEF S!DeniedBy, S!Resolve, S!Family, S!SpecName, S!Builtin, S!External
<1>4. CASE t \in S!External
  BY <1>1, <1>4
<1>5. CASE t \notin S!External
  <2>1. t \in S!Builtin
    BY <1>5
  <2>2. /\ S!AllowedBy(t, list, S!Builtin)
        /\ ~S!DeniedBy(t, S!AlwaysDisallowed, S!Builtin)
        /\ ~S!DeniedBy(t, S!DeniedOf(r), S!Builtin)
    BY <1>2, <1>3, NamesAreSteady DEF S!Passes
  <2> QED BY <1>1, <2>1, <2>2 DEF S!Schemas
<1> QED BY <1>4, <1>5

LEMMA SubTurnInit == S!Init => S!IInv
BY LimitsAssumption DEF S!Init, S!IInv, S!TypeOK, S!GatesInv, S!EvidenceInv

\* What the smaller of two numbers is.
LEMMA SmallerOfTwo ==
  ASSUME NEW m \in Nat, NEW n \in Nat
  PROVE  /\ S!Min({m, n}) \in {m, n} /\ S!Min({m, n}) <= m /\ S!Min({m, n}) <= n
<1>1. \E x \in {m, n} : \A y \in {m, n} : x <= y
  OBVIOUS
<1> QED BY <1>1 DEF S!Min

LEMMA AnnounceCuts ==
  ASSUME S!IInv, NEW calls1 \in S!Answers, S!Announce(calls1)
  PROVE  S!TypeOK' /\ S!EvidenceInv'
<1>1. PICK n \in 1..MaxBatch, name \in S!Name : calls1 = [k \in 1..n |-> name]
  BY DEF S!Answers
<1>2. calls1 \in Seq(S!Name) /\ Len(calls1) = n /\ n \in Nat /\ n >= 1
  BY <1>1, LimitsAssumption
<1> DEFINE m == S!Min({Len(calls1), Limit - taken})
<1>3. /\ turn = "asking" /\ taken < Limit /\ turn' = "running"
      /\ batches' = Append(batches, [calls |-> Len(calls1), results |-> 0])
      /\ queue' = SubSeq(calls1, 1, m)
      /\ UNCHANGED << role, allowed, tools, shown, taken, asked, used >>
  BY DEF S!Announce
<1>4. taken \in Nat /\ asked \in Nat /\ Limit \in Nat /\ batches \in Seq([calls: Nat, results: Nat])
  BY LimitsAssumption DEF S!IInv, S!TypeOK
<1>5. /\ m \in Nat /\ 1 <= m /\ m <= n /\ m <= Limit - taken /\ (m = n \/ m = Limit - taken)
  <2>1. Limit - taken \in Nat /\ Limit - taken >= 1
    BY <1>3, <1>4
  <2> QED BY <1>2, <2>1, SmallerOfTwo
<1> HIDE DEF m
<1>6. queue' \in Seq(S!Name) /\ Len(queue') = m
  BY <1>2, <1>3, <1>5
<1>7. S!TypeOK'
  BY <1>2, <1>3, <1>6 DEF S!IInv, S!TypeOK
<1>8. \A i \in 1..Len(batches) : batches[i].results = batches[i].calls
  <2>1. DOMAIN batches = 1..Len(batches) /\ S!LeftOut = {}
    BY <1>3, <1>4 DEF S!IInv, S!EvidenceInv
  <2> QED BY <2>1 DEF S!LeftOut
<1>9. /\ Len(batches') = Len(batches) + 1 /\ Len(batches) \in Nat
      /\ batches'[Len(batches')] = [calls |-> n, results |-> 0]
      /\ \A i \in 1..Len(batches') - 1 : batches'[i].results = batches'[i].calls
  BY <1>2, <1>3, <1>4, <1>8
<1>10. taken <= Limit /\ asked <= taken + 1
  BY DEF S!IInv, S!EvidenceInv
<1> QED BY <1>3, <1>4, <1>5, <1>6, <1>7, <1>9, <1>10 DEF S!EvidenceInv

LEMMA RunCallAnswers ==
  ASSUME S!IInv, S!RunCall
  PROVE  S!IInv'
<1> DEFINE name == Head(queue)
           n == Len(batches)
           last == batches[n]
<1>1. /\ turn = "running" /\ UNCHANGED << role, allowed, tools, shown >>
      /\ batches' = [batches EXCEPT ![n] = [last EXCEPT !.results = last.results + 1]]
      /\ taken' = taken + 1 /\ queue' = Tail(queue)
      /\ \/ queue' # << >> /\ turn' = turn /\ asked' = asked
         \/ queue' = << >> /\ turn' = "asking" /\ asked' = asked + 1
      /\ \/ used' = used
         \/ /\ S!Passes(name, role, allowed, tools) /\ S!Resolve(name, tools) \in tools
            /\ used' = used \cup {S!Resolve(name, tools)}
  BY DEF S!RunCall
<1>2. /\ taken \in Nat /\ asked \in Nat /\ Limit \in Nat
      /\ batches \in Seq([calls: Nat, results: Nat]) /\ queue \in Seq(S!Name)
      /\ queue # << >> /\ batches # << >> /\ taken + Len(queue) <= Limit
      /\ \A i \in 1..n - 1 : batches[i].results = batches[i].calls
      /\ last.results + Len(queue) <= last.calls
      /\ last.results + Len(queue) = last.calls \/ taken + Len(queue) = Limit
      /\ asked <= taken + 1
  BY <1>1, LimitsAssumption DEF S!IInv, S!TypeOK, S!EvidenceInv
<1>3. /\ n \in Nat /\ n >= 1 /\ DOMAIN batches = 1..n
      /\ last \in [calls: Nat, results: Nat]
      /\ Len(queue) \in Nat /\ Len(queue) >= 1 /\ queue' \in Seq(S!Name)
      /\ Len(queue') = Len(queue) - 1
  <2>1. n \in Nat /\ n >= 1 /\ DOMAIN batches = 1..n
    BY <1>2
  <2>2. last \in [calls: Nat, results: Nat]
    <3>1. n \in DOMAIN batches
      BY <2>1
    <3> HIDE DEF n
    <3> QED BY <1>2, <3>1, SequenceElements
  <2>3. /\ Len(queue) \in Nat /\ Len(queue) >= 1 /\ queue' \in Seq(S!Name)
        /\ Len(queue') = Len(queue) - 1
    BY <1>1, <1>2
  <2> QED BY <2>1, <2>2, <2>3
<1>0. n = Len(batches)
  OBVIOUS
<1> HIDE DEF n, last
<1>4. /\ batches' \in Seq([calls: Nat, results: Nat]) /\ Len(batches') = n
      /\ DOMAIN batches' = 1..n
      /\ batches'[n].results = last.results + 1 /\ batches'[n].calls = last.calls
      /\ \A i \in 1..n - 1 : batches'[i] = batches[i]
  <2>1. [last EXCEPT !.results = last.results + 1] \in [calls: Nat, results: Nat]
    BY <1>3
  <2>2. batches' \in Seq([calls: Nat, results: Nat]) /\ Len(batches') = Len(batches)
    BY <1>0, <1>1, <1>2, <1>3, <2>1, ElementReplaced
  <2>3. /\ batches'[n] = [last EXCEPT !.results = last.results + 1]
        /\ \A i \in 1..n - 1 : batches'[i] = batches[i]
    BY <1>1, <1>2, <1>3
  <2>4. batches'[n].results = last.results + 1 /\ batches'[n].calls = last.calls
    BY <1>3, <2>3
  <2>5. Len(batches') = n /\ DOMAIN batches' = 1..n
    BY <1>0, <1>3, <2>2
  <2> QED BY <2>2, <2>3, <2>4, <2>5
<1>5. S!TypeOK'
  <2>1. taken' \in Nat /\ asked' \in Nat /\ turn' \in {"running", "asking"} /\ tools' = tools
    BY <1>1, <1>2
  <2> QED BY <1>3, <1>4, <2>1 DEF S!IInv, S!TypeOK
<1>6. S!GatesInv'
  <2>1. S!GatesInv /\ turn \notin {"new", "refused"} /\ turn' \notin {"new", "refused"}
        /\ tools \in {S!Builtin, S!Builtin \cup S!External}
    BY <1>1 DEF S!IInv, S!TypeOK
  <2>2. used' \subseteq shown \cup S!External
    <3>1. CASE used' = used
      BY <2>1, <3>1 DEF S!GatesInv
    <3>2. CASE /\ S!Passes(name, role, allowed, tools) /\ S!Resolve(name, tools) \in tools
               /\ used' = used \cup {S!Resolve(name, tools)}
      <4>1. /\ allowed # {}
            /\ S!Resolve(name, tools) \in S!Schemas(role, allowed, S!Builtin) \cup S!External
        BY <2>1, <3>2, CallIsOffered
      <4> QED BY <2>1, <3>2, <4>1 DEF S!GatesInv
    <3> QED BY <1>1, <3>1, <3>2
  <2> QED BY <1>1, <2>1, <2>2 DEF S!GatesInv
<1>7. S!EvidenceInv'
  <2>1. CASE queue' # << >>
    <3>1. taken' + Len(queue') <= Limit /\ asked' <= taken' + 1 /\ taken' <= Limit
      <4>1. taken' = taken + 1 /\ asked' = asked /\ Len(queue') = Len(queue) - 1
        BY <1>1, <1>3, <2>1
      <4> QED BY <1>2, <1>3, <4>1
    <3>2. /\ batches'[n].results + Len(queue') <= batches'[n].calls
          /\ \/ batches'[n].results + Len(queue') = batches'[n].calls
             \/ taken' + Len(queue') = Limit
      <4>1. taken' = taken + 1 /\ Len(queue') = Len(queue) - 1
        BY <1>1, <1>3
      <4>2. last.results \in Nat /\ last.calls \in Nat
        BY <1>3
      <4>3. /\ batches'[n].results + Len(queue') = last.results + Len(queue)
            /\ taken' + Len(queue') = taken + Len(queue) /\ batches'[n].calls = last.calls
        BY <1>2, <1>3, <1>4, <4>1, <4>2
      <4> QED BY <1>2, <4>3
    <3>3. batches' # << >> /\ turn' = "running"
      BY <1>1, <1>3, <1>4, <2>1
    <3> QED BY <1>2, <1>4, <2>1, <3>1, <3>2, <3>3 DEF S!EvidenceInv
  <2>2. CASE queue' = << >>
    <3>1. /\ Len(queue) = 1 /\ turn' = "asking" /\ asked' = asked + 1
      BY <1>1, <1>3, <2>2
    <3>2. batches'[n].results = batches'[n].calls \/ taken' = Limit
      BY <1>1, <1>2, <1>3, <1>4, <3>1
    <3>3. S!LeftOut' = {} \/ (taken' = Limit /\ S!LeftOut' = {Len(batches')})
      <4>1. \A i \in DOMAIN batches' : i \in S!LeftOut' => i = n
        <5>1. \A i \in 1..n : i = n \/ i \in 1..n - 1
          BY <1>3
        <5> QED BY <1>2, <1>4, <5>1 DEF S!LeftOut
      <4>2. S!LeftOut' \subseteq DOMAIN batches'
        BY DEF S!LeftOut
      <4>3. batches'[n].results = batches'[n].calls => n \notin S!LeftOut'
        BY DEF S!LeftOut
      <4> QED BY <1>4, <3>2, <4>1, <4>2, <4>3
    <3> QED BY <1>1, <1>2, <3>1, <3>3 DEF S!EvidenceInv
  <2> QED BY <2>1, <2>2
<1> QED BY <1>5, <1>6, <1>7 DEF S!IInv

LEMMA SubTurnNext == S!IInv /\ (S!Next \/ UNCHANGED subTurnVars) => S!IInv'
<1> SUFFICES ASSUME S!IInv, S!Next \/ UNCHANGED subTurnVars PROVE S!IInv'
  OBVIOUS
<1>1. ASSUME NEW r, NEW given1, NEW list, S!Open(r, given1, list) PROVE S!IInv'
  <2>1. /\ turn = "new" /\ UNCHANGED << tools, taken, batches, queue, used >>
        /\ \/ /\ turn' = "asking" /\ asked' = 1
              /\ shown' = IF allowed' = {} THEN {} ELSE S!Schemas(role', allowed', tools)
           \/ turn' = "refused" /\ asked' = asked
    BY <1>1 DEF S!Open
  <2>2. S!TypeOK'
    BY <2>1 DEF S!IInv, S!TypeOK
  <2>3. S!GatesInv'
    BY <2>1, MoreIsOffered DEF S!IInv, S!TypeOK, S!GatesInv
  <2>4. batches = << >> /\ S!LeftOut' = {}
    BY <2>1 DEF S!IInv, S!EvidenceInv, S!LeftOut
  <2>5. S!EvidenceInv'
    BY <2>1, <2>4 DEF S!IInv, S!TypeOK, S!EvidenceInv
  <2> QED BY <2>2, <2>3, <2>5 DEF S!IInv
<1>2. CASE S!Connect
  <2>1. /\ tools' = tools \cup S!External
        /\ UNCHANGED << role, allowed, shown, turn, taken, asked, batches, queue, used >>
    BY <1>2 DEF S!Connect
  <2>2. S!TypeOK' /\ tools' = S!Builtin \cup S!External
    BY <2>1 DEF S!IInv, S!TypeOK
  <2>3. S!EvidenceInv'
    BY <2>1 DEF S!IInv, S!EvidenceInv, S!LeftOut
  <2>4. S!Schemas(role, allowed, tools) \subseteq S!Schemas(role, allowed, tools')
    BY <2>2, MoreIsOffered DEF S!IInv, S!TypeOK
  <2>5. S!GatesInv'
    BY <2>1, <2>4 DEF S!IInv, S!GatesInv
  <2> QED BY <2>2, <2>3, <2>5 DEF S!IInv
<1>3. CASE S!Conclude \/ S!Raise
  <2>1. /\ turn = "asking" /\ turn' \in {"answered", "reported", "failed"}
        /\ UNCHANGED << role, allowed, tools, shown, taken, asked, batches, queue, used >>
    BY <1>3 DEF S!Conclude, S!Raise
  <2> QED BY <2>1 DEF S!IInv, S!TypeOK, S!GatesInv, S!EvidenceInv
<1>4. ASSUME NEW calls1 \in S!Answers, S!Announce(calls1) PROVE S!IInv'
  <2>1. turn' = "running" /\ turn = "asking" /\ UNCHANGED << role, allowed, tools, shown, used >>
    BY <1>4 DEF S!Announce
  <2>2. S!GatesInv'
    BY <2>1 DEF S!IInv, S!GatesInv
  <2> QED BY <1>4, <2>2, AnnounceCuts DEF S!IInv
<1>5. CASE UNCHANGED subTurnVars
  BY <1>5 DEF subTurnVars, S!IInv, S!TypeOK, S!GatesInv, S!EvidenceInv, S!LeftOut
<1> QED BY <1>1, <1>2, <1>3, <1>4, <1>5, RunCallAnswers DEF S!Next

LEMMA SubTurnInvariance == Spec => []S!IInv
<1>1. Init => S!IInv
  BY SubTurnInit DEF Init
<1>2. S!IInv /\ [Next]_vars => S!IInv'
  BY SubTurnNext, SubTurnSteps
<1> QED BY <1>1, <1>2, PTL DEF Spec

\* A subagent is offered exactly what its gates let through (_tool_schemas_for_task and
\* gates 4 and 5 of _execute_tool_call): the two walk the same families of names, and
\* connecting a server changes none of them.
THEOREM OffersAreAccepted == Spec => []OfferedIsAccepted
<1>1. S!IInv => OfferedIsAccepted
  BY DEF S!IInv, S!GatesInv, S!Schemas, S!Passes, OfferedIsAccepted, S!OfferedIsAccepted
<1> QED BY <1>1, SubTurnInvariance, PTL

\* A subagent runs at most its budget of calls, and each of its requests carries the
\* results of all of them, except for an answer that the budget cut (run_agent_turn).
THEOREM SubagentSeesItsResults == Spec => []S!EvidenceReachesModel
<1>1. S!IInv => S!EvidenceReachesModel
  BY DEF S!IInv, S!EvidenceInv, S!EvidenceReachesModel
<1> QED BY <1>1, SubTurnInvariance, PTL

(***************************************************************************)
(* Flattening                                                               *)
(***************************************************************************)
\* A flattened sequence is put together from its parts one after the other.
Flattens(f, q, Value) ==
  /\ f \in [0..Len(q) -> Seq(Value)] /\ f[0] = << >>
  /\ \A i \in 1..Len(q) : f[i] = f[i - 1] \o q[i]
  /\ FlattenSeq(q) = f[Len(q)]

LEMMA Flattening ==
  ASSUME NEW Value, NEW q \in Seq(Seq(Value))
  PROVE  \E f : Flattens(f, q, Value)
<1> DEFINE n == Len(q)
<1>1. n \in Nat /\ DOMAIN q = 1..n /\ \A i \in 1..n : q[i] \in Seq(Value)
  OBVIOUS
<1> DEFINE Lists == Seq(Value)
           joins == [i \in 1..n |-> [x \in Lists |-> x \o q[i]]]
<1>2. PICK f : Follows(f, n, Lists, << >>, joins)
  <2>1. joins \in Steps(n, Lists)
    <3>1. \A i \in 1..n, x \in Lists : x \o q[i] \in Lists
      BY <1>1
    <3> QED BY <3>1 DEF Steps
  <2>2. << >> \in Lists
    OBVIOUS
  <2> HIDE DEF joins, Lists
  <2> QED BY <1>1, <2>1, <2>2, DefinedByRecursion
<1>3. f \in [0..n -> Seq(Value)] /\ f[0] = << >>
  BY <1>2 DEF Follows
<1>4. \A i \in 1..n : f[i] = f[i - 1] \o q[i]
  <2> TAKE i \in 1..n
  <2>1. i - 1 \in 0..n
    BY <1>1
  <2>2. f[i] = joins[i][f[i - 1]] /\ f[i - 1] \in Lists
    BY <1>2, <2>1 DEF Follows
  <2> QED BY <2>2
<1> HIDE DEF joins, Lists, n
<1>5. CASE n = 0
  <2>1. q = << >> /\ FlattenSeq(q) = q
    BY <1>1, <1>5 DEF FlattenSeq, n
  <2> QED BY <1>3, <1>4, <1>5, <2>1 DEF Flattens, n
<1>6. CASE n # 0
  <2> DEFINE flat == CHOOSE flat : flat = [i \in 1..Len(q) |-> IF i = 1 THEN q[i] ELSE flat[i - 1] \o q[i]]
             g == [i \in 1..n |-> f[i]]
  <2>1. FlattenSeq(q) = flat[Len(q)]
    BY <1>6 DEF FlattenSeq, n
  <2>2. \A i \in 1..n : g[i] = IF i = 1 THEN q[i] ELSE g[i - 1] \o q[i]
    <3> TAKE i \in 1..n
    <3>1. CASE i = 1
      <4>0. 1 \in 1..n /\ 1 - 1 = 0
        BY <3>1
      <4>1. f[1] = << >> \o q[1] /\ q[1] \in Seq(Value)
        BY <1>1, <1>3, <1>4, <4>0
      <4>2. f[1] = q[1]
        BY <4>1
      <4> QED BY <3>1, <4>2
    <3>2. CASE i # 1
      <4>1. i - 1 \in 1..n
        BY <1>1, <3>2
      <4> QED BY <1>4, <3>2, <4>1
    <3> QED BY <3>1, <3>2
  <2>3. g = [i \in 1..Len(q) |-> IF i = 1 THEN q[i] ELSE g[i - 1] \o q[i]]
    BY <2>2 DEF n
  <2> HIDE DEF g
  <2>4. flat = [i \in 1..Len(q) |-> IF i = 1 THEN q[i] ELSE flat[i - 1] \o q[i]]
    BY <2>3
  <2> HIDE DEF flat
  <2>5. \A i \in 1..n : flat[i] = IF i = 1 THEN q[i] ELSE flat[i - 1] \o q[i]
    BY <2>4 DEF n
  <2> DEFINE Same == {i \in 0..n : i = 0 \/ flat[i] = f[i]}
  <2>6. 0 \in Same
    BY <1>1
  <2>7. ASSUME NEW i \in 0..n - 1, i \in Same PROVE i + 1 \in Same
    <3>1. i + 1 \in 1..n /\ (i + 1) - 1 = i /\ i \in Nat
      BY <1>1
    <3>2. CASE i = 0
      <4>0. 1 \in 1..n /\ 1 - 1 = 0
        BY <3>1, <3>2
      <4>1. flat[1] = q[1] /\ f[1] = << >> \o q[1] /\ q[1] \in Seq(Value)
        BY <1>1, <1>3, <1>4, <2>5, <4>0
      <4>2. flat[1] = f[1]
        BY <4>1
      <4> QED BY <3>1, <3>2, <4>2
    <3>3. CASE i # 0
      <4>0. i + 1 # 1 /\ flat[i] = f[i]
        BY <2>7, <3>1, <3>3
      <4>1. f[i + 1] = f[i] \o q[i + 1]
        BY <1>4, <3>1
      <4>2. flat[i + 1] = flat[i] \o q[i + 1]
        BY <2>5, <3>1, <4>0
      <4>3. flat[i + 1] = f[i + 1] /\ i + 1 \in 0..n
        BY <3>1, <4>0, <4>1, <4>2
      <4> HIDE DEF flat
      <4> QED BY <4>3
    <3> QED BY <3>2, <3>3
  <2>8. n \in Same
    <3> HIDE DEF Same
    <3>1. \A i \in 0..n : i \in Same
      BY <1>1, <2>6, <2>7, UpTo
    <3> QED BY <1>1, <3>1
  <2>9. FlattenSeq(q) = f[n]
    BY <1>6, <2>1, <2>8 DEF n
  <2> QED BY <1>3, <1>4, <2>9 DEF Flattens, n
<1> QED BY <1>5, <1>6

(***************************************************************************)
(* Requests for a summary                                                   *)
(***************************************************************************)
LEMMA SummarySteps == [Next]_vars => Y!Next \/ UNCHANGED summaryVars
BY DEF Next, vars

LEMMA SummaryMarker ==
  /\ Y!Marker = [role |-> "marker", round |-> 0] /\ Y!Marker \notin Y!Messages
  /\ \A m \in Y!Messages : m.role # "marker"
BY DEF Y!Marker, Y!Message, Y!Messages

LEMMA JoinedRoundsAreWhole ==
  ASSUME NEW x, NEW y, Y!WholeRounds(x), Y!WholeRounds(y)
  PROVE  Y!WholeRounds(x \o y)
<1>1. x \in Seq(Y!Messages) /\ y \in Seq(Y!Messages) /\ Len(x) \in Nat /\ Len(y) \in Nat
  BY DEF Y!WholeRounds
<1>2. /\ x \o y \in Seq(Y!Messages) /\ DOMAIN (x \o y) = 1..Len(x) + Len(y)
      /\ \A i \in 1..Len(x) : (x \o y)[i] = x[i]
      /\ \A i \in Len(x) + 1..Len(x) + Len(y) : (x \o y)[i] = y[i - Len(x)]
  BY <1>1
<1> DEFINE z == x \o y
<1> HIDE DEF z
<1>3. ASSUME NEW i \in 1..Len(x) + Len(y), z[i].role = "tool"
      PROVE  \E j \in 1..i - 1 :
                /\ z[j].role = "assistant" /\ z[j].round = z[i].round
                /\ \A l \in j + 1..i : z[l].role # "assistant"
  <2>1. CASE i <= Len(x)
    <3>1. i \in DOMAIN x /\ z[i] = x[i]
      BY <1>1, <1>2, <2>1 DEF z
    <3>2. PICK j \in 1..i - 1 : /\ x[j].role = "assistant" /\ x[j].round = x[i].round
                                /\ \A l \in j + 1..i : x[l].role # "assistant"
      BY <1>3, <3>1 DEF Y!WholeRounds
    <3>3. \A l \in j..i : z[l] = x[l]
      BY <1>1, <1>2, <2>1 DEF z
    <3> QED BY <3>1, <3>2, <3>3
  <2>2. CASE i > Len(x)
    <3>1. i - Len(x) \in DOMAIN y /\ z[i] = y[i - Len(x)]
      BY <1>1, <1>2, <2>2 DEF z
    <3>2. PICK j \in 1..(i - Len(x)) - 1 :
            /\ y[j].role = "assistant" /\ y[j].round = y[i - Len(x)].round
            /\ \A l \in j + 1..i - Len(x) : y[l].role # "assistant"
      BY <1>3, <3>1 DEF Y!WholeRounds
    <3>3. /\ Len(x) + j \in 1..i - 1 /\ z[Len(x) + j] = y[j]
          /\ \A l \in (Len(x) + j) + 1..i : /\ l - Len(x) \in j + 1..i - Len(x)
                                            /\ z[l] = y[l - Len(x)]
      <4>1. Len(x) + j \in 1..i - 1 /\ Len(x) + j \in Len(x) + 1..Len(x) + Len(y)
            /\ (Len(x) + j) - Len(x) = j
        BY <1>1, <2>2, <3>1
      <4>2. \A l \in (Len(x) + j) + 1..i : /\ l - Len(x) \in j + 1..i - Len(x)
                                           /\ l \in Len(x) + 1..Len(x) + Len(y)
        BY <1>1, <2>2, <3>1
      <4> QED BY <1>2, <4>1, <4>2 DEF z
    <3> QED BY <3>1, <3>2, <3>3
  <2> QED BY <1>1, <2>1, <2>2
<1> QED BY <1>2, <1>3 DEF z, Y!WholeRounds

LEMMA OneRoundIsWhole ==
  ASSUME NEW k \in Nat, NEW called \in BOOLEAN, NEW said \in BOOLEAN
  PROVE  Y!WholeRounds(Y!Round(k, called, said))
<1> DEFINE a == Y!Message("assistant", k)
           t == Y!Message("tool", k)
           u == Y!Message("user", k)
<1>1. a \in Y!Messages /\ t \in Y!Messages /\ u \in Y!Messages
  BY DEF Y!Message, Y!Messages
<1>2. a.role = "assistant" /\ a.round = k /\ t.role = "tool" /\ t.round = k /\ u.role = "user"
  BY DEF Y!Message
<1> HIDE DEF a, t, u
<1>3. << a >> \in Seq(Y!Messages) /\ << a >> \o << >> = << a >>
  BY <1>1
<1>4. << a >> \o << t, t >> = << a, t, t >>
  <2>1. << a >> \in Seq(Y!Messages) /\ << t, t >> \in Seq(Y!Messages)
    BY <1>1
  <2>2. Len(<< a >> \o << t, t >>) = 3 /\ \A i \in 1..3 : (<< a >> \o << t, t >>)[i] = << a, t, t >>[i]
    BY <2>1
  <2>3. << a >> \o << t, t >> \in Seq(Y!Messages) /\ << a, t, t >> \in Seq(Y!Messages)
        /\ Len(<< a, t, t >>) = 3
    BY <1>1, <2>1
  <2> DEFINE x == << a >> \o << t, t >>
             y == << a, t, t >>
  <2>4. x \in Seq(Y!Messages) /\ y \in Seq(Y!Messages) /\ Len(x) = Len(y)
        /\ \A i \in 1..Len(x) : x[i] = y[i]
    BY <2>2, <2>3
  <2> HIDE DEF x, y
  <2>5. x = y
    BY <2>4, SeqEqual
  <2> QED BY <2>5 DEF x, y
<1>5. Y!WholeRounds(<< a >>)
  <2>1. << a >> \in Seq(Y!Messages) /\ DOMAIN << a >> = {1} /\ << a >>[1].role = "assistant"
    BY <1>1, <1>2
  <2> QED BY <2>1 DEF Y!WholeRounds
<1>6. Y!WholeRounds(<< u >>)
  <2>1. << u >> \in Seq(Y!Messages) /\ DOMAIN << u >> = {1} /\ << u >>[1].role = "user"
    BY <1>1, <1>2
  <2> QED BY <2>1 DEF Y!WholeRounds
<1>7. Y!WholeRounds(<< a, t, t >>)
  <2> DEFINE q == << a, t, t >>
  <2>1. q \in Seq(Y!Messages) /\ DOMAIN q = 1..3 /\ q[1] = a /\ q[2] = t /\ q[3] = t
    BY <1>1
  <2> HIDE DEF q
  <2>2. ASSUME NEW i \in 1..3, q[i].role = "tool"
        PROVE  1 \in 1..i - 1 /\ q[i].round = k /\ \A l \in 2..i : q[l].role # "assistant"
    BY <1>2, <2>1, <2>2
  <2> QED BY <1>2, <2>1, <2>2 DEF Y!WholeRounds, q
<1>8. Y!WholeRounds(<< >>)
  BY DEF Y!WholeRounds
<1>9. Y!Round(k, called, said)
        = (<< a >> \o (IF called THEN << t, t >> ELSE << >>)) \o (IF said THEN << u >> ELSE << >>)
  BY DEF Y!Round, a, t, u
<1>10. Y!WholeRounds(<< a >> \o (IF called THEN << t, t >> ELSE << >>))
  BY <1>3, <1>4, <1>5, <1>7
<1>11. Y!WholeRounds(IF said THEN << u >> ELSE << >>)
  BY <1>6, <1>8
<1> QED BY <1>9, <1>10, <1>11, JoinedRoundsAreWhole

\* The prefix of a compaction, whatever rounds it has.
LEMMA PrefixIsWhole ==
  ASSUME NEW n \in 0..MaxRounds, NEW called \in SUBSET {0, 1}, NEW said \in SUBSET {0, 1}
  PROVE  Y!WholeRounds(Y!Prefix(n, called, said)) /\ Y!Prefix(n, called, said) # << >>
<1> DEFINE question == << Y!Message("user", 0) >>
           one(k) == Y!Round(k, k % 2 \in called, k % 3 \in said)
           parts == [k \in 1..n |-> one(k)]
<1>1. n \in Nat
  BY LimitsAssumption
<1>2. \A k \in 1..n : Y!WholeRounds(one(k))
  <2> TAKE k \in 1..n
  <2>1. k \in Nat /\ (k % 2 \in called) \in BOOLEAN /\ (k % 3 \in said) \in BOOLEAN
    BY <1>1
  <2> QED BY <2>1, OneRoundIsWhole
<1>3. \A k \in 1..n : one(k) \in Seq(Y!Messages)
  BY <1>2 DEF Y!WholeRounds
<1>4. Y!Prefix(n, called, said) = question \o FlattenSeq(parts)
  BY DEF Y!Prefix, Y!FlattenSeq, FlattenSeq
<1> HIDE DEF one
<1>5. parts \in Seq(Seq(Y!Messages)) /\ Len(parts) = n /\ \A k \in 1..n : parts[k] = one(k)
  BY <1>1, <1>3
<1> HIDE DEF parts
<1>6. PICK f : Flattens(f, parts, Y!Messages)
  BY <1>5, Flattening
<1>7. /\ f \in [0..n -> Seq(Y!Messages)] /\ f[0] = << >>
      /\ (\A i \in 1..n : f[i] = f[i - 1] \o parts[i]) /\ FlattenSeq(parts) = f[n]
  BY <1>5, <1>6 DEF Flattens
<1> DEFINE Good == {i \in 0..n : Y!WholeRounds(f[i])}
<1>8. 0 \in Good
  BY <1>1, <1>7 DEF Y!WholeRounds
<1>9. ASSUME NEW i \in 0..n - 1, i \in Good PROVE i + 1 \in Good
  <2>1. i + 1 \in 1..n /\ (i + 1) - 1 = i /\ i + 1 \in 0..n
    BY <1>1
  <2>2. f[i + 1] = f[i] \o one(i + 1)
    BY <1>5, <1>7, <2>1
  <2> QED BY <1>2, <1>9, <2>1, <2>2, JoinedRoundsAreWhole
<1>10. Y!WholeRounds(f[n])
  <2> HIDE DEF Good
  <2>1. \A i \in 0..n : i \in Good
    BY <1>1, <1>8, <1>9, UpTo
  <2> QED BY <1>1, <2>1 DEF Good
<1>11. Y!WholeRounds(question)
  <2>1. question \in Seq(Y!Messages) /\ DOMAIN question = {1} /\ question[1].role = "user"
    BY DEF Y!Message, Y!Messages
  <2> QED BY <2>1 DEF Y!WholeRounds
<1>12. question \o f[n] # << >>
  <2>1. question \in Seq(Y!Messages) /\ Len(question) = 1 /\ f[n] \in Seq(Y!Messages)
    BY <1>11, <1>10 DEF Y!WholeRounds
  <2>2. Len(question \o f[n]) >= 1
    BY <2>1
  <2> QED BY <2>2
<1> QED BY <1>4, <1>7, <1>10, <1>11, <1>12, JoinedRoundsAreWhole

\* The request and what of the prefix it has.
LEMMA MarkerComesOff ==
  ASSUME NEW q \in Seq(Y!Messages), q # << >>
  PROVE  Y!WithoutMarker(q) = q /\ Y!WithoutMarker(<< Y!Marker >> \o q) = q
<1>1. 1 \in DOMAIN q /\ q[1] \in Y!Messages
  BY SequenceElements
<1>2. Y!WithoutMarker(q) = q
  BY <1>1, SummaryMarker DEF Y!WithoutMarker
<1> DEFINE z == << Y!Marker >> \o q
<1>3. z # << >> /\ z[1] = Y!Marker /\ Tail(z) = q
  OBVIOUS
<1>4. Y!WithoutMarker(z) = q
  <2> HIDE DEF z
  <2> QED BY <1>3 DEF Y!WithoutMarker
<1> QED BY <1>2, <1>4

LEMMA FromRound ==
  ASSUME NEW k \in Y!RoundStarts(prefix), Y!WholeRounds(prefix), prefix # << >>
  PROVE  LET rest == Y!From(k)
         IN  /\ k \in 1..Len(prefix) /\ Len(prefix) \in Nat
             /\ rest \in Seq(Y!Messages) /\ rest # << >> /\ Len(rest) = Len(prefix) + 1 - k
             /\ DOMAIN rest = 1..Len(prefix) + 1 - k
             /\ \A i \in 1..Len(prefix) + 1 - k : rest[i] = prefix[k + i - 1]
<1>1. prefix \in Seq(Y!Messages) /\ k \in 1..Len(prefix) /\ Len(prefix) \in Nat
  BY DEF Y!WholeRounds, Y!RoundStarts
<1>2. k \in Nat /\ 1 <= k /\ k <= Len(prefix) + 1 /\ Len(prefix) <= Len(prefix)
  BY <1>1
<1>3. /\ Y!From(k) \in Seq(Y!Messages) /\ Len(Y!From(k)) = Len(prefix) + 1 - k
      /\ DOMAIN Y!From(k) = 1..Len(prefix) + 1 - k
      /\ \A i \in 1..Len(prefix) + 1 - k : Y!From(k)[i] = prefix[k + i - 1]
  BY <1>1, <1>2, PartOfSequence DEF Y!From
<1>4. Y!From(k) # << >>
  BY <1>1, <1>3
<1> QED BY <1>1, <1>3, <1>4

LEMMA AskedIsRest ==
  ASSUME Y!IInv, summaryOutcome # "none"
  PROVE  \E k \in Y!RoundStarts(prefix) :
            /\ Y!Asked = Y!From(k)
            /\ summaryRequest \in {Y!From(k), << Y!Marker >> \o Y!From(k)}
<1>1. PICK k \in Y!RoundStarts(prefix) : summaryRequest \in {Y!From(k), << Y!Marker >> \o Y!From(k)}
  BY DEF Y!IInv, Y!RequestInv
<1>2. Y!From(k) \in Seq(Y!Messages) /\ Y!From(k) # << >>
  BY FromRound DEF Y!IInv, Y!RequestInv
<1> QED BY <1>1, <1>2, MarkerComesOff DEF Y!Asked

\* The end of the prefix, from a round on, is a suffix of it, with whole rounds.
LEMMA RequestIsWhole == Y!IInv => Y!RoundsStayWhole
<1> SUFFICES ASSUME Y!IInv PROVE Y!RoundsStayWhole
  OBVIOUS
<1>1. CASE summaryOutcome = "none"
  <2>1. prefix = << >> /\ summaryRequest = << >>
    BY <1>1 DEF Y!IInv
  <2>2. Y!Asked = << >>
    BY <2>1 DEF Y!Asked, Y!WithoutMarker
  <2>3. Y!IsSuffix(Y!Asked, prefix)
    BY <2>1, <2>2 DEF Y!IsSuffix, Y!IsPrefix, Y!Reverse
  <2> QED BY <2>1, <2>3 DEF Y!RoundsStayWhole
<1>2. CASE summaryOutcome # "none"
  <2> DEFINE n == Len(prefix)
  <2>1. PICK k \in Y!RoundStarts(prefix) :
            /\ Y!Asked = Y!From(k)
            /\ summaryRequest \in {Y!From(k), << Y!Marker >> \o Y!From(k)}
    BY <1>2, AskedIsRest
  <2> DEFINE rest == Y!From(k)
  <2>2. /\ k \in 1..n /\ n \in Nat
        /\ rest \in Seq(Y!Messages) /\ rest # << >> /\ Len(rest) = n + 1 - k
        /\ DOMAIN rest = 1..n + 1 - k
        /\ \A i \in 1..n + 1 - k : rest[i] = prefix[k + i - 1]
    BY <1>2, FromRound DEF Y!IInv, Y!RequestInv
  <2>3. prefix \in Seq(Y!Messages) /\ DOMAIN prefix = 1..n
    BY DEF Y!IInv, Y!WholeRounds
  <2> HIDE DEF rest, n
  <2>4. ASSUME NEW i \in DOMAIN rest, rest[i].role = "tool"
        PROVE  \E j \in 1..i - 1 : rest[j].role = "assistant" /\ rest[j].round = rest[i].round
    <3>1. k + i - 1 \in 1..n /\ rest[i] = prefix[k + i - 1] /\ i \in Nat
      BY <2>2, <2>4
    <3>2. PICK j \in 1..(k + i - 1) - 1 :
            /\ prefix[j].role = "assistant" /\ prefix[j].round = rest[i].round
            /\ \A l \in j + 1..k + i - 1 : prefix[l].role # "assistant"
      BY <2>3, <2>4, <3>1 DEF Y!IInv, Y!WholeRounds
    <3>3. k = 1 \/ prefix[k].role = "assistant"
      BY DEF Y!RoundStarts
    <3>4. k <= j
      <4>1. SUFFICES ASSUME j < k PROVE FALSE
        BY <2>2, <3>1, <3>2
      <4>2. k \in j + 1..k + i - 1 /\ k # 1
        BY <2>2, <3>1, <3>2, <4>1, <2>4
      <4> QED BY <3>2, <3>3, <4>2
    <3>5. j - k + 1 \in 1..i - 1 /\ j - k + 1 \in 1..n + 1 - k /\ k + (j - k + 1) - 1 = j
      BY <2>2, <3>1, <3>2, <3>4
    <3>6. rest[j - k + 1] = prefix[j]
      BY <2>2, <3>5
    <3> QED BY <3>2, <3>5, <3>6
  <2>5. ASSUME NEW i \in DOMAIN summaryRequest, summaryRequest[i] = Y!Marker PROVE i = 1
    <3>1. \A l \in DOMAIN rest : rest[l] # Y!Marker
      BY <2>2, SequenceElements, SummaryMarker
    <3>2. CASE summaryRequest = rest
      BY <2>5, <3>1, <3>2
    <3>3. CASE summaryRequest = << Y!Marker >> \o rest
      <4>1. i \in 1..1 + Len(rest) /\ (i # 1 => summaryRequest[i] = rest[i - 1] /\ i - 1 \in 1..Len(rest))
        BY <2>2, <3>3
      <4> QED BY <2>2, <2>5, <3>1, <4>1
    <3> QED BY <2>1, <3>2, <3>3 DEF rest
  <2>6. ASSUME NEW i \in DOMAIN summaryRequest, summaryRequest[i].role = "tool"
        PROVE  \E j \in 1..i - 1 : /\ summaryRequest[j].role = "assistant"
                                   /\ summaryRequest[j].round = summaryRequest[i].round
    <3>1. CASE summaryRequest = rest
      BY <2>4, <2>6, <3>1
    <3>2. CASE summaryRequest = << Y!Marker >> \o rest
      <4>1. /\ DOMAIN summaryRequest = 1..1 + Len(rest) /\ summaryRequest[1] = Y!Marker
            /\ \A l \in 1..Len(rest) : summaryRequest[l + 1] = rest[l]
        <5> DEFINE kind == Y!Messages \cup {Y!Marker}
                   front == << Y!Marker >>
        <5>1. front \in Seq(kind) /\ rest \in Seq(kind) /\ Len(front) = 1 /\ front[1] = Y!Marker
          BY <2>2
        <5> HIDE DEF kind, front
        <5>2. /\ DOMAIN (front \o rest) = 1..1 + Len(rest) /\ (front \o rest)[1] = front[1]
              /\ \A l \in 2..1 + Len(rest) : (front \o rest)[l] = rest[l - 1]
          <6>1. /\ Len(front \o rest) = Len(front) + Len(rest) /\ front \o rest \in Seq(kind)
                /\ \A l \in 1..Len(front) + Len(rest) :
                     (front \o rest)[l] = IF l <= Len(front) THEN front[l] ELSE rest[l - Len(front)]
            BY <5>1, ConcatProperties
          <6> QED BY <2>2, <5>1, <6>1
        <5>3. \A l \in 1..Len(rest) : l + 1 \in 2..1 + Len(rest) /\ (l + 1) - 1 = l
          BY <2>2
        <5> QED BY <3>2, <5>1, <5>2, <5>3 DEF front
      <4>2. i # 1
        BY <2>6, <4>1, SummaryMarker
      <4>3. i - 1 \in DOMAIN rest /\ (i - 1) + 1 = i /\ i \in Nat
        <5>1. i \in 1..1 + Len(rest) /\ Len(rest) \in Nat /\ DOMAIN rest = 1..Len(rest)
          BY <2>2, <4>1
        <5> QED BY <4>2, <5>1
      <4>4. summaryRequest[i] = rest[i - 1]
        BY <2>2, <4>1, <4>3
      <4>5. PICK j \in 1..(i - 1) - 1 : /\ rest[j].role = "assistant"
                                        /\ rest[j].round = rest[i - 1].round
        BY <2>4, <2>6, <4>3, <4>4
      <4>6. j + 1 \in 1..i - 1 /\ j \in 1..Len(rest)
        BY <2>2, <4>3, <4>5
      <4>7. summaryRequest[j + 1] = rest[j]
        BY <4>1, <4>6
      <4> QED BY <4>4, <4>5, <4>6, <4>7
    <3> QED BY <2>1, <3>1, <3>2 DEF rest
  <2>7. Y!IsSuffix(Y!Asked, prefix)
    <3> DEFINE back == [i \in 1..Len(rest) |-> rest[Len(rest) - i + 1]]
               whole == [i \in 1..n |-> prefix[n - i + 1]]
    <3>1. Y!Reverse(rest) = back /\ Y!Reverse(prefix) = whole
      BY DEF Y!Reverse, n
    <3>2. \A i \in 1..Len(rest) : /\ Len(rest) - i + 1 \in 1..n + 1 - k /\ i \in 1..n
                                  /\ k + (Len(rest) - i + 1) - 1 = n - i + 1
      BY <2>2
    <3>3. \A i \in 1..Len(rest) : rest[Len(rest) - i + 1] = prefix[n - i + 1]
      BY <2>2, <3>2
    <3>4. Len(back) = Len(rest) /\ Len(whole) = n /\ Len(rest) <= n /\ Len(rest) \in Nat
      BY <2>2
    <3>5. /\ SubSeq(back, 1, Len(rest)) = [i \in 1..Len(rest) |-> back[i]]
          /\ SubSeq(whole, 1, Len(rest)) = [i \in 1..Len(rest) |-> whole[i]]
      BY <3>4
    <3>6. \A i \in 1..Len(rest) : back[i] = whole[i]
      BY <3>2, <3>3
    <3> HIDE DEF back, whole
    <3>7. Y!IsPrefix(back, whole)
      BY <3>4, <3>5, <3>6 DEF Y!IsPrefix
    <3> QED BY <2>1, <3>1, <3>7 DEF Y!IsSuffix, rest
  <2> QED BY <2>5, <2>6, <2>7 DEF Y!RoundsStayWhole
<1> QED BY <1>1, <1>2

\* The modules' cardinalities are one.
LEMMA SameCardinality == \A x : Y!Cardinality(x) = Cardinality(x)
BY DEF Y!Cardinality, Cardinality, Y!IsFiniteSet, IsFiniteSet

\* The rounds that are left of a sequence when some are dropped.
LEMMA RoundsLeft ==
  ASSUME NEW q \in Seq(Y!Messages), NEW first0 \in Y!RoundStarts(q), first0 > 1
  PROVE  LET rest == SubSeq(q, first0, Len(q))
         IN  Cardinality(Y!RoundStarts(rest)) = Cardinality({j \in Y!RoundStarts(q) : j >= first0})
<1> DEFINE n == Len(q)
           rest == SubSeq(q, first0, n)
           left == {j \in Y!RoundStarts(q) : j >= first0}
           begins == Y!RoundStarts(rest)
<1>1. n \in Nat /\ DOMAIN q = 1..n /\ first0 \in 1..n
  BY DEF Y!RoundStarts
<1>2. DOMAIN rest = 1..n + 1 - first0 /\ \A i \in 1..n + 1 - first0 : rest[i] = q[first0 + i - 1]
  BY <1>1, PartOfSequence
<1> HIDE DEF n, rest
<1>3. begins = {i \in 1..n + 1 - first0 : i = 1 \/ q[first0 + i - 1].role = "assistant"}
  BY <1>2 DEF Y!RoundStarts
<1>4. left = {j \in first0..n : q[j].role = "assistant"}
  BY <1>1 DEF Y!RoundStarts
<1>5. q[first0].role = "assistant"
  BY DEF Y!RoundStarts
<1>6. IsFiniteSet(1..n)
  <2>1. 1 \in Int /\ n \in Int
    BY <1>1
  <2> QED BY <2>1, FS_Interval
<1>7. IsFiniteSet(begins) /\ IsFiniteSet(left)
  <2>1. begins \subseteq 1..n /\ left \subseteq 1..n
    BY <1>1, <1>3, <1>4
  <2> QED BY <1>6, <2>1, FS_Subset
<1> DEFINE up == [i \in 1..n |-> first0 + i - 1]
           down == [j \in 1..n |-> j - first0 + 1]
<1>8. \A i \in begins : up[i] \in left /\ down[up[i]] = i
  <2> TAKE i \in begins
  <2>1. i \in 1..n + 1 - first0 /\ i \in 1..n /\ first0 + i - 1 \in first0..n
        /\ first0 + i - 1 \in 1..n
    BY <1>1, <1>3
  <2>2. q[first0 + i - 1].role = "assistant"
    <3>1. i = 1 => first0 + i - 1 = first0
      BY <1>1
    <3> QED BY <1>3, <1>5, <3>1
  <2>3. up[i] = first0 + i - 1 /\ down[first0 + i - 1] = i
    BY <1>1, <2>1
  <2> HIDE DEF up, down
  <2> QED BY <1>4, <2>1, <2>2, <2>3
<1>9. \A j \in left : down[j] \in begins /\ up[down[j]] = j
  BY <1>1, <1>3, <1>4
<1> HIDE DEF up, down, begins, left
<1>10. left = {up[i] : i \in begins}
  BY <1>8, <1>9
<1>11. begins = {down[j] : j \in left}
  BY <1>8, <1>9
<1>12. Cardinality(left) <= Cardinality(begins) /\ Cardinality(begins) <= Cardinality(left)
  BY <1>7, <1>10, <1>11, ImageIsSmaller
<1>13. Cardinality(left) \in Nat /\ Cardinality(begins) \in Nat
  BY <1>7, FS_CardinalityType
<1>14. Cardinality(begins) = Cardinality(left)
  BY <1>12, <1>13
<1> QED BY <1>14 DEF begins, left, rest, n

\* A cut drops a round and keeps one.
LEMMA CutDropsRounds ==
  ASSUME NEW q \in Seq(Y!Messages), q # << >>, NEW r \in {q, << Y!Marker >> \o q},
         Cardinality(Y!RoundStarts(q)) # 1
  PROVE  \E k \in Y!RoundStarts(q) :
            /\ k > 1 /\ Y!Truncated(r) = << Y!Marker >> \o SubSeq(q, k, Len(q))
            /\ Cardinality(Y!RoundStarts(SubSeq(q, k, Len(q)))) < Cardinality(Y!RoundStarts(q))
<1> DEFINE begins == Y!RoundStarts(q)
           count == Cardinality(begins)
           dropped == IF count < 5 THEN 1 ELSE count \div 5
           k == CHOOSE i \in begins : Cardinality({j \in begins : j < i}) = dropped
<1>1. Len(q) \in Nat /\ DOMAIN q = 1..Len(q) /\ 1 \in begins
  BY DEF Y!RoundStarts
<1>2. IsFiniteSet(begins) /\ begins \subseteq 1..Len(q) /\ begins \in SUBSET Nat
  <2>1. 1 \in Int /\ Len(q) \in Int
    BY <1>1
  <2>2. IsFiniteSet(1..Len(q))
    BY <2>1, FS_Interval
  <2>3. begins \subseteq 1..Len(q)
    BY <1>1 DEF Y!RoundStarts
  <2> QED BY <1>1, <2>2, <2>3, FS_Subset
<1>3. count \in Nat /\ count >= 2
  <2>1. count \in Nat
    BY <1>2, FS_CardinalityType
  <2>2. count # 0
    BY <1>1, <1>2, FS_EmptySet
  <2> QED BY <2>1, <2>2
<1>4. Y!WithoutMarker(r) = q
  BY MarkerComesOff
<1>5. Y!Truncated(r) = << Y!Marker >> \o SubSeq(q, k, Len(q))
  <2>1. ~(count < 2)
    BY <1>3
  <2> QED BY <1>4, <2>1, SameCardinality DEF Y!Truncated
<1> HIDE DEF begins
<1>6. dropped \in Nat /\ dropped >= 1 /\ dropped < count
  <2> HIDE DEF count
  <2> QED BY <1>3
<1> HIDE DEF count, dropped
<1>7. k \in begins /\ Cardinality({j \in begins : j < k}) = dropped
  <2>1. \E i \in begins : Cardinality({j \in begins : j < i}) = dropped
    BY <1>2, <1>6, InItsPlace DEF count
  <2> QED BY <2>1
<1> HIDE DEF k
<1>8. k > 1
  <2>1. SUFFICES ASSUME k = 1 PROVE FALSE
    BY <1>1, <1>2, <1>7
  <2>2. {j \in begins : j < k} = {}
    <3>1. \A j \in begins : ~(j < k)
      <4> TAKE j \in begins
      <4>1. j \in Nat /\ j >= 1
        BY <1>1, <1>2
      <4> QED BY <2>1, <4>1
    <3> QED BY <3>1
  <2>3. Cardinality({j \in begins : j < k}) = 0
    BY <2>2, FS_EmptySet
  <2> QED BY <1>6, <1>7, <2>3
<1>9. Cardinality({j \in begins : j >= k}) < count
  <2> DEFINE low == {j \in begins : j < k}
             high == {j \in begins : j >= k}
  <2>1. IsFiniteSet(low) /\ IsFiniteSet(high) /\ begins = low \cup high /\ low \cap high = {}
    <3>1. \A j \in begins : j < k \/ j >= k
      BY <1>2, <1>7
    <3>2. low \subseteq begins /\ high \subseteq begins /\ begins = low \cup high
      BY <3>1
    <3>3. \A j \in begins : ~(j < k /\ j >= k)
      BY <1>2, <1>7
    <3>4. low \cap high = {}
      BY <3>3
    <3> QED BY <1>2, <3>2, <3>4, FS_Subset
  <2> HIDE DEF low, high
  <2>2. Cardinality(begins) = Cardinality(low) + Cardinality(high) - Cardinality(low \cap high)
    BY <2>1, FS_Union
  <2>3. Cardinality(low \cap high) = 0
    BY <2>1, FS_EmptySet
  <2>4. Cardinality(low) = dropped /\ Cardinality(high) \in Nat
    BY <1>7, <2>1, FS_CardinalityType DEF low
  <2> QED BY <1>6, <2>2, <2>3, <2>4 DEF count, high
<1>10. Cardinality(Y!RoundStarts(SubSeq(q, k, Len(q)))) = Cardinality({j \in begins : j >= k})
  BY <1>7, <1>8, RoundsLeft DEF begins
<1> QED BY <1>5, <1>7, <1>8, <1>9, <1>10 DEF begins, count

LEMMA SummaryInit == Y!Init => Y!IInv
BY DEF Y!Init, Y!IInv, Y!WholeRounds, Y!RefusalsShorten

LEMMA SummaryBegins == ASSUME Y!IInv, Y!Begin PROVE Y!IInv'
<1>1. PICK n \in 0..MaxRounds, called \in SUBSET {0, 1}, said \in SUBSET {0, 1} :
         prefix' = Y!Prefix(n, called, said)
  BY DEF Y!Begin
<1>2. summaryOutcome' = "asking" /\ summaryRequest' = prefix' /\ overflows' = overflows
      /\ summaryOutcome = "none"
  BY DEF Y!Begin
<1>3. Y!WholeRounds(prefix') /\ prefix' # << >>
  BY <1>1, PrefixIsWhole
<1>4. prefix' \in Seq(Y!Messages) /\ Len(prefix') \in Nat /\ 1 \in Y!RoundStarts(prefix')
  BY <1>3 DEF Y!WholeRounds, Y!RoundStarts
<1>5. Y!From(1)' = prefix'
  <2>1. SubSeq(prefix', 1, Len(prefix')) = prefix'
    BY <1>4
  <2> QED BY <2>1 DEF Y!From
<1>6. Y!RequestInv'
  BY <1>2, <1>3, <1>4, <1>5 DEF Y!RequestInv
<1>7. overflows = 0
  BY <1>2 DEF Y!IInv
<1>8. Y!Asked' = prefix'
  BY <1>2, <1>3, <1>4, MarkerComesOff DEF Y!Asked
<1>9. Y!RefusalsShorten'
  <2>1. Cardinality(Y!RoundStarts(prefix')) \in Nat
    <3>1. 1 \in Int /\ Len(prefix') \in Int /\ Y!RoundStarts(prefix') \subseteq 1..Len(prefix')
      BY <1>4 DEF Y!RoundStarts
    <3> QED BY <3>1, FS_Interval, FS_Subset, FS_CardinalityType
  <2> QED BY <1>2, <1>7, <1>8, <2>1, SameCardinality DEF Y!RefusalsShorten
<1> QED BY <1>2, <1>3, <1>6, <1>9 DEF Y!IInv

LEMMA SummaryGoesOn ==
  ASSUME Y!IInv, UNCHANGED << prefix, summaryRequest, overflows >>,
         (summaryOutcome = "none") <=> (summaryOutcome' = "none")
  PROVE  Y!IInv'
<1>1. Y!WholeRounds(prefix)' /\ (overflows \in Nat)'
  BY DEF Y!IInv
<1>2. Y!RequestInv' <=> Y!RequestInv
  BY DEF Y!RequestInv, Y!From
<1>3. Y!RefusalsShorten'
  BY DEF Y!IInv, Y!RefusalsShorten, Y!Asked
<1> QED BY <1>1, <1>2, <1>3 DEF Y!IInv

LEMMA SummaryIsCut == ASSUME Y!IInv, Y!TooLong PROVE Y!IInv'
<1>1. /\ summaryOutcome = "asking" /\ summaryOutcome' # "none" /\ prefix' = prefix
      /\ summaryRequest' = Y!Truncated(summaryRequest) /\ overflows' = overflows + 1
  BY DEF Y!TooLong, Y!TryAgain
<1>2. PICK k \in Y!RoundStarts(prefix) :
            /\ Y!Asked = Y!From(k)
            /\ summaryRequest \in {Y!From(k), << Y!Marker >> \o Y!From(k)}
  BY <1>1, AskedIsRest
<1>3. PICK rest, n : rest = Y!From(k) /\ n = Len(prefix)
  OBVIOUS
<1>4. /\ k \in 1..n /\ n \in Nat
      /\ rest \in Seq(Y!Messages) /\ rest # << >> /\ Len(rest) = n + 1 - k
      /\ DOMAIN rest = 1..n + 1 - k
      /\ \A i \in 1..n + 1 - k : rest[i] = prefix[k + i - 1]
  BY <1>1, <1>3, FromRound DEF Y!IInv, Y!RequestInv
<1>5. /\ overflows \in Nat /\ prefix \in Seq(Y!Messages) /\ prefix # << >>
      /\ DOMAIN prefix = 1..n
  BY <1>1, <1>3 DEF Y!IInv, Y!WholeRounds, Y!RequestInv
<1>6. ASSUME NEW x \in Seq(Y!Messages) PROVE Cardinality(Y!RoundStarts(x)) \in Nat
  <2>1. 1 \in Int /\ Len(x) \in Int /\ Y!RoundStarts(x) \subseteq 1..Len(x)
    BY DEF Y!RoundStarts
  <2> QED BY <2>1, FS_Interval, FS_Subset, FS_CardinalityType
<1> DEFINE all == Cardinality(Y!RoundStarts(prefix))
           count == Cardinality(Y!RoundStarts(rest))
<1>7. all \in Nat /\ count \in Nat
  BY <1>4, <1>5, <1>6
<1>8. count = 1 \/ all - count >= overflows
  BY <1>1, <1>2, <1>3, SameCardinality DEF Y!IInv, Y!RefusalsShorten
<1>9. CASE count = 1
  <2>1. Y!Truncated(summaryRequest) = summaryRequest
    <3>1. Y!WithoutMarker(summaryRequest) = rest
      BY <1>2, <1>3, <1>4, MarkerComesOff
    <3>2. count < 2
      BY <1>9
    <3> QED BY <3>1, <3>2, SameCardinality DEF Y!Truncated
  <2>2. Y!RequestInv' /\ Y!Asked' = rest
    BY <1>1, <1>2, <1>3, <2>1 DEF Y!IInv, Y!RequestInv, Y!From, Y!Asked
  <2>3. Y!RefusalsShorten'
    BY <1>9, <2>2, SameCardinality DEF Y!RefusalsShorten
  <2> QED BY <1>1, <1>5, <2>2, <2>3 DEF Y!IInv
<1>10. CASE count # 1
  <2>1. PICK m \in Y!RoundStarts(rest) :
            /\ m > 1
            /\ Y!Truncated(summaryRequest) = << Y!Marker >> \o SubSeq(rest, m, Len(rest))
            /\ Cardinality(Y!RoundStarts(SubSeq(rest, m, Len(rest)))) < count
    BY <1>2, <1>3, <1>4, <1>10, CutDropsRounds
  <2>2. m \in 1..n + 1 - k /\ rest[m].role = "assistant"
    BY <1>4, <2>1 DEF Y!RoundStarts
  <2> DEFINE j == k + m - 1
  <2>3. j \in Y!RoundStarts(prefix)
    <3>1. j \in 1..n /\ prefix[j] = rest[m]
      BY <1>4, <2>2
    <3> QED BY <1>5, <2>2, <3>1 DEF Y!RoundStarts
  <2>4. SubSeq(rest, m, Len(rest)) = Y!From(j)
    <3>1. /\ SubSeq(rest, m, Len(rest)) \in Seq(Y!Messages)
          /\ Len(SubSeq(rest, m, Len(rest))) = Len(rest) + 1 - m
          /\ \A i \in 1..Len(rest) + 1 - m : SubSeq(rest, m, Len(rest))[i] = rest[m + i - 1]
      <4>1. m \in Nat /\ Len(rest) \in Nat /\ 1 <= m /\ m <= Len(rest) + 1 /\ Len(rest) <= Len(rest)
        BY <1>4, <2>2
      <4> QED BY <1>4, <4>1, PartOfSequence
    <3>2. /\ Y!From(j) \in Seq(Y!Messages) /\ Len(Y!From(j)) = n + 1 - j
          /\ \A i \in 1..n + 1 - j : Y!From(j)[i] = prefix[j + i - 1]
      BY <1>1, <1>3, <2>3, FromRound DEF Y!IInv, Y!RequestInv
    <3>3. Len(rest) + 1 - m = n + 1 - j
      BY <1>4, <2>2
    <3>4. \A i \in 1..n + 1 - j : rest[m + i - 1] = prefix[j + i - 1]
      <4> TAKE i \in 1..n + 1 - j
      <4>1. m + i - 1 \in 1..n + 1 - k /\ k + (m + i - 1) - 1 = j + i - 1
        BY <1>4, <2>2
      <4> QED BY <1>4, <4>1
    <3> DEFINE x == SubSeq(rest, m, Len(rest))
               y == Y!From(j)
    <3>5. /\ x \in Seq(Y!Messages) /\ y \in Seq(Y!Messages) /\ Len(x) = Len(y)
          /\ \A i \in 1..Len(x) : x[i] = y[i]
      BY <3>1, <3>2, <3>3, <3>4
    <3> HIDE DEF x, y
    <3>6. x = y
      BY <3>5, SeqEqual
    <3> QED BY <3>6 DEF x, y
  <2> HIDE DEF j
  <2>5. Y!From(j)' = Y!From(j)
    <3>1. j' = j
      BY DEF j
    <3> QED BY <1>1, <3>1 DEF Y!From
  <2>6. Y!RequestInv'
    BY <1>1, <1>5, <2>1, <2>3, <2>4, <2>5 DEF Y!RequestInv
  <2>7. Y!Asked' = Y!From(j)
    <3>1. Y!From(j) \in Seq(Y!Messages) /\ Y!From(j) # << >>
      BY <1>1, <2>3, FromRound DEF Y!IInv, Y!RequestInv
    <3> QED BY <1>1, <2>1, <2>4, <3>1, MarkerComesOff DEF Y!Asked
  <2>8. Y!RefusalsShorten'
    <3>1. Cardinality(Y!RoundStarts(Y!From(j))) < count
      BY <2>1, <2>4
    <3>2. Cardinality(Y!RoundStarts(Y!From(j))) \in Nat
      BY <1>1, <1>6, <2>3, FromRound DEF Y!IInv, Y!RequestInv
    <3>3. all - Cardinality(Y!RoundStarts(Y!From(j))) >= overflows'
      <4> HIDE DEF all, count
      <4> QED BY <1>1, <1>5, <1>7, <1>8, <1>10, <3>1, <3>2
    <3> QED BY <1>1, <2>7, <3>3, SameCardinality DEF Y!RefusalsShorten
  <2> QED BY <1>1, <1>5, <2>6, <2>8 DEF Y!IInv
<1> QED BY <1>9, <1>10

LEMMA SummaryNext == Y!IInv /\ (Y!Next \/ UNCHANGED summaryVars) => Y!IInv'
<1> SUFFICES ASSUME Y!IInv, Y!Next \/ UNCHANGED summaryVars PROVE Y!IInv'
  OBVIOUS
<1>1. CASE UNCHANGED summaryVars
  BY <1>1, SummaryGoesOn DEF summaryVars
<1>2. CASE Y!Begin
  BY <1>2, SummaryBegins
<1>3. CASE Y!Summarize
  BY <1>3, SummaryGoesOn DEF Y!Summarize
<1>4. CASE Y!Fail
  BY <1>4, SummaryGoesOn DEF Y!Fail, Y!TryAgain
<1>5. CASE Y!TooLong
  BY <1>5, SummaryIsCut
<1> QED BY <1>1, <1>2, <1>3, <1>4, <1>5 DEF Y!Next

\* EvidenceReachesModel: each request of a subagent carries the results of all calls
\* before it, within the budget (run_one_turn), and a request for a summary is the end of
\* the prefix from a round on, one round shorter at least for each refusal until one is
\* left (truncate_head_for_retry), whatever the rounds of the prefix are.
THEOREM EvidenceReaches == Spec => []EvidenceReachesModel
<1>1. Init => Y!IInv
  BY SummaryInit DEF Init
<1>2. Y!IInv /\ [Next]_vars => Y!IInv'
  BY SummarySteps, SummaryNext
<1>3. Y!IInv /\ S!EvidenceReachesModel => EvidenceReachesModel
  BY RequestIsWhole DEF EvidenceReachesModel, Y!IInv
<1> QED BY <1>1, <1>2, <1>3, SubagentSeesItsResults, PTL DEF Spec


(***************************************************************************)
(* A turn from the endpoint to the screen                                   *)
(***************************************************************************)
\* One part more makes a flattened sequence longer by that part.
LEMMA FlattenedAppend ==
  ASSUME NEW Value, NEW q \in Seq(Seq(Value)), NEW x \in Seq(Value)
  PROVE  FlattenSeq(q) \in Seq(Value) /\ FlattenSeq(Append(q, x)) = FlattenSeq(q) \o x
<1> DEFINE n == Len(q)
           longer == Append(q, x)
<1>1. /\ n \in Nat /\ longer \in Seq(Seq(Value)) /\ Len(longer) = n + 1
      /\ \A i \in 1..n : longer[i] = q[i]
      /\ longer[n + 1] = x
  BY AppendProperties
<1> HIDE DEF longer
<1>2. PICK f : Flattens(f, q, Value)
  BY Flattening
<1>3. PICK g : Flattens(g, longer, Value)
  BY <1>1, Flattening
<1>4. /\ f \in [0..n -> Seq(Value)] /\ f[0] = << >> /\ FlattenSeq(q) = f[n]
      /\ \A i \in 1..n : f[i] = f[i - 1] \o q[i]
  BY <1>2 DEF Flattens
<1>5. /\ g[0] = << >> /\ FlattenSeq(longer) = g[n + 1]
      /\ \A i \in 1..n + 1 : g[i] = g[i - 1] \o longer[i]
  BY <1>1, <1>3 DEF Flattens
<1> HIDE DEF n
<1> DEFINE Same == {i \in 0..n : g[i] = f[i]}
<1>6. 0 \in Same
  <2>1. 0 \in 0..n
    BY <1>1
  <2>2. g[0] = f[0]
    BY <1>4, <1>5
  <2> QED BY <2>1, <2>2
<1>7. ASSUME NEW i \in 0..n - 1, i \in Same PROVE i + 1 \in Same
  <2>1. i + 1 \in 1..n /\ i + 1 \in 1..n + 1 /\ (i + 1) - 1 = i /\ i + 1 \in 0..n
    BY <1>1
  <2>2. g[i + 1] = g[i] \o q[i + 1] /\ f[i + 1] = f[i] \o q[i + 1] /\ g[i] = f[i]
    BY <1>1, <1>4, <1>5, <1>7, <2>1
  <2> QED BY <2>1, <2>2
<1>8. n \in Same
  <2> HIDE DEF Same
  <2>1. \A i \in 0..n : i \in Same
    BY <1>1, <1>6, <1>7, UpTo
  <2> QED BY <1>1, <2>1
<1>9. g[n + 1] = f[n] \o x /\ f[n] \in Seq(Value)
  <2>1. n + 1 \in 1..n + 1 /\ (n + 1) - 1 = n /\ n \in 0..n
    BY <1>1
  <2>2. g[n + 1] = g[n] \o longer[n + 1] /\ g[n] = f[n]
    BY <1>5, <1>8, <2>1
  <2> QED BY <1>1, <1>4, <2>1, <2>2
<1> QED BY <1>4, <1>5, <1>9 DEF longer

LEMMA StreamSteps == [Next]_vars => P!Next \/ UNCHANGED streamVars
BY DEF Next, vars

LEMMA StreamFlattens ==
  /\ P!FlattenSeq(<< >>) = << >>
  /\ \A q \in Seq(Seq(Int)), x \in Seq(Int) :
       /\ P!FlattenSeq(q) \in Seq(Int)
       /\ P!FlattenSeq(Append(q, x)) = P!FlattenSeq(q) \o x
<1>1. \A q : P!FlattenSeq(q) = FlattenSeq(q)
  BY DEF P!FlattenSeq, FlattenSeq
<1>2. FlattenSeq(<< >>) = << >>
  BY DEF FlattenSeq
<1> QED BY <1>1, <1>2, FlattenedAppend

\* What is in a sequence that got longer by one element, or by a part.
LEMMA ElementsJoined ==
  ASSUME NEW a \in Seq(Int), NEW b \in Seq(Int)
  PROVE  P!ToSet(a \o b) = P!ToSet(a) \cup P!ToSet(b)
<1>1. /\ a \o b \in Seq(Int) /\ Len(a \o b) = Len(a) + Len(b)
      /\ \A i \in 1..Len(a) + Len(b) : (a \o b)[i] = IF i <= Len(a) THEN a[i] ELSE b[i - Len(a)]
  BY ConcatProperties
<1>2. Len(a) \in Nat /\ Len(b) \in Nat /\ DOMAIN a = 1..Len(a) /\ DOMAIN b = 1..Len(b)
      /\ DOMAIN (a \o b) = 1..Len(a) + Len(b)
  BY <1>1
<1>3. ASSUME NEW i \in DOMAIN (a \o b) PROVE (a \o b)[i] \in P!ToSet(a) \cup P!ToSet(b)
  <2>1. CASE i <= Len(a)
    BY <1>1, <1>2, <2>1 DEF P!ToSet
  <2>2. CASE ~(i <= Len(a))
    <3>1. i - Len(a) \in DOMAIN b
      BY <1>2, <2>2
    <3> QED BY <1>1, <1>2, <2>2, <3>1 DEF P!ToSet
  <2> QED BY <2>1, <2>2
<1>4. ASSUME NEW i \in DOMAIN a PROVE a[i] \in P!ToSet(a \o b)
  <2>1. i \in DOMAIN (a \o b) /\ (a \o b)[i] = a[i]
    BY <1>1, <1>2
  <2> QED BY <2>1 DEF P!ToSet
<1>5. ASSUME NEW i \in DOMAIN b PROVE b[i] \in P!ToSet(a \o b)
  <2>1. Len(a) + i \in 1..Len(a) + Len(b) /\ ~(Len(a) + i <= Len(a)) /\ (Len(a) + i) - Len(a) = i
    BY <1>2
  <2>2. (a \o b)[Len(a) + i] = b[i]
    BY <1>1, <2>1
  <2> QED BY <1>2, <2>1, <2>2 DEF P!ToSet
<1> QED BY <1>3, <1>4, <1>5 DEF P!ToSet

\* The trace with one entry more at its end.
LEMMA OneMore ==
  ASSUME P!TypeOK, NEW e \in Int,
         P!Shown' = P!Shown \o << e >>, P!Shown \in Seq(Int)
  PROVE  /\ P!ToSet(P!Shown)' = P!ToSet(P!Shown) \cup {e}
         /\ P!InOrder /\ e = texts + 1 /\ texts' = texts + 1 /\ cards' = cards => P!InOrder'
         /\ P!InOrder /\ e = -(cards + 1) /\ texts' = texts /\ cards' = cards + 1 => P!InOrder'
<1>1. PICK old : old = P!Shown
  OBVIOUS
<1>2. /\ P!Shown' = old \o << e >> /\ old \in Seq(Int) /\ Len(old) \in Nat
      /\ DOMAIN old = 1..Len(old) /\ DOMAIN (P!Shown') = 1..Len(old) + 1
      /\ \A i \in 1..Len(old) : (P!Shown')[i] = old[i]
      /\ (P!Shown')[Len(old) + 1] = e
      /\ \A i \in 1..Len(old) : old[i] \in Int
  <2>1. old \in Seq(Int) /\ << e >> \in Seq(Int) /\ Len(<< e >>) = 1 /\ << e >>[1] = e
    BY <1>1
  <2>2. /\ old \o << e >> \in Seq(Int) /\ Len(old \o << e >>) = Len(old) + Len(<< e >>)
        /\ \A i \in 1..Len(old) + Len(<< e >>) :
             (old \o << e >>)[i] = IF i <= Len(old) THEN old[i] ELSE << e >>[i - Len(old)]
    BY <2>1, ConcatProperties
  <2>3. \A i \in 1..Len(old) : (old \o << e >>)[i] = old[i]
    BY <2>1, <2>2
  <2>4. (old \o << e >>)[Len(old) + 1] = e
    BY <2>1, <2>2
  <2> QED BY <1>1, <2>1, <2>2, <2>3, <2>4
<1>3. P!ToSet(P!Shown') = P!ToSet(old) \cup {e}
  <2>1. P!ToSet(<< e >>) = {e}
    BY DEF P!ToSet
  <2>2. << e >> \in Seq(Int)
    OBVIOUS
  <2>3. P!ToSet(old \o << e >>) = P!ToSet(old) \cup P!ToSet(<< e >>)
    BY <1>2, <2>2, ElementsJoined
  <2> QED BY <1>2, <2>1, <2>3
<1>4. ASSUME NEW i \in DOMAIN old, P!InOrder
      PROVE  old[i] \in 1..texts \/ -old[i] \in 1..cards
  <2>1. old[i] \in 1..texts \/ \E m \in 1..cards : old[i] = -m
    BY <1>1, <1>4 DEF P!InOrder, P!ToSet
  <2> QED BY <1>2, <2>1 DEF P!TypeOK
<1>5. ASSUME P!InOrder, texts' >= texts, cards' >= cards,
             (e = texts + 1 /\ e = texts' /\ cards' = cards) \/ (-e = cards + 1 /\ -e = cards' /\ texts' = texts)
      PROVE  P!InOrder'
  <2>1. P!ToSet(P!Shown') = 1..texts' \cup {-m : m \in 1..cards'}
    <3>1. P!ToSet(old) = 1..texts \cup {-m : m \in 1..cards}
      BY <1>1, <1>5 DEF P!InOrder
    <3>2. CASE e = texts + 1 /\ e = texts' /\ cards' = cards
      <4>1. 1..texts' = 1..texts \cup {e}
        BY <3>2 DEF P!TypeOK
      <4> QED BY <1>3, <3>1, <3>2, <4>1
    <3>3. CASE -e = cards + 1 /\ -e = cards' /\ texts' = texts
      <4>1. 1..cards' = 1..cards \cup {-e} /\ -(-e) = e
        BY <3>3 DEF P!TypeOK
      <4>2. {-m : m \in 1..cards'} = {-m : m \in 1..cards} \cup {e}
        <5>1. \A m \in 1..cards' : -m \in {-l : l \in 1..cards} \cup {e}
          BY <4>1
        <5>2. \A m \in 1..cards : m \in 1..cards' /\ -m \in {-l : l \in 1..cards'}
          BY <4>1
        <5>3. e \in {-l : l \in 1..cards'}
          BY <4>1
        <5> QED BY <5>1, <5>2, <5>3
      <4> QED BY <1>3, <3>1, <3>3, <4>2
    <3> QED BY <1>5, <3>2, <3>3
  <2>2. ASSUME NEW i \in DOMAIN (P!Shown'), NEW j \in DOMAIN (P!Shown'), i < j
        PROVE  /\ (P!Shown')[i] > 0 /\ (P!Shown')[j] > 0 => (P!Shown')[i] < (P!Shown')[j]
               /\ (P!Shown')[i] < 0 /\ (P!Shown')[j] < 0 => (P!Shown')[i] > (P!Shown')[j]
    <3>1. i \in 1..Len(old) /\ (P!Shown')[i] = old[i] /\ old[i] \in Int
      BY <1>2, <2>2
    <3>2. CASE j \in 1..Len(old)
      <4>1. (P!Shown')[j] = old[j]
        BY <1>2, <3>2
      <4> QED BY <1>1, <1>2, <1>5, <2>2, <3>1, <3>2, <4>1 DEF P!InOrder
    <3>3. CASE j = Len(old) + 1
      <4>1. (P!Shown')[j] = e
        BY <1>2, <3>3
      <4>2. old[i] \in 1..texts \/ -old[i] \in 1..cards
        BY <1>2, <1>4, <1>5, <3>1
      <4>3. e > 0 => e = texts + 1
        BY <1>5 DEF P!TypeOK
      <4>4. e < 0 => e = -(cards + 1)
        BY <1>5 DEF P!TypeOK
      <4>5. (old[i] > 0 => old[i] <= texts) /\ (old[i] < 0 => old[i] >= -cards)
        BY <3>1, <4>2 DEF P!TypeOK
      <4>6. texts \in Int /\ cards \in Int
        BY DEF P!TypeOK
      <4>7. old[i] > 0 /\ e > 0 => old[i] < e
        BY <3>1, <4>3, <4>5, <4>6
      <4>8. old[i] < 0 /\ e < 0 => old[i] > e
        BY <3>1, <4>4, <4>5, <4>6
      <4> QED BY <3>1, <4>1, <4>7, <4>8
    <3>4. j \in 1..Len(old) \/ j = Len(old) + 1
      BY <1>2
    <3> QED BY <3>2, <3>3, <3>4
  <2> QED BY <2>1, <2>2 DEF P!InOrder
<1>6. texts \in Nat /\ cards \in Nat /\ -(-(cards + 1)) = cards + 1
  BY DEF P!TypeOK
<1> QED BY <1>1, <1>3, <1>5, <1>6

LEMMA StreamInit == P!Init => P!IInv
<1> SUFFICES ASSUME P!Init PROVE P!IInv
  OBVIOUS
<1>1. P!TypeOK /\ P!LiveInv
  <2>1. << >> \in Seq(Int) /\ << >> \in Seq(Seq(Int))
    OBVIOUS
  <2>2. P!TypeOK
    BY <2>1 DEF P!Init, P!TypeOK
  <2> QED BY <2>2 DEF P!Init, P!LiveInv
<1>2. P!SlotsInv
  BY DEF P!Init, P!SlotsInv
<1>3. P!Shown = << >>
  BY StreamFlattens DEF P!Init, P!Shown
<1>4. P!TraceComplete
  BY <1>3 DEF P!Init, P!TraceComplete, P!InOrder, P!ToSet
<1> QED BY <1>1, <1>2, <1>4 DEF P!IInv

LEMMA ShownIsInt == P!TypeOK => P!Shown \in Seq(Int)
BY StreamFlattens DEF P!TypeOK, P!Shown

\* A card is one entry more; a live line that is not ended is no longer the last one.
LEMMA CardIsAdded ==
  ASSUME P!IInv, P!AppendCard, texts' = texts,
         \/ live' = FALSE /\ line' = << >> /\ disturbed' = disturbed
         \/ live' = live /\ line' = line /\ disturbed' = (disturbed \/ live)
  PROVE  /\ cards' \in Nat /\ live' \in BOOLEAN /\ disturbed' \in BOOLEAN /\ line' \in Seq(Int)
         /\ trace' \in Seq(Seq(Int)) /\ P!LiveInv' /\ P!TraceComplete'
<1>1. PICK card : card = -(cards + 1)
  OBVIOUS
<1>2. /\ cards' = cards + 1 /\ trace' = Append(trace, << card >>) /\ card \in Int /\ card < 0
      /\ cards \in Nat /\ texts \in Nat /\ trace \in Seq(Seq(Int)) /\ << card >> \in Seq(Int)
  BY <1>1 DEF P!AppendCard, P!IInv, P!TypeOK
<1>3. /\ cards' \in Nat /\ live' \in BOOLEAN /\ disturbed' \in BOOLEAN /\ line' \in Seq(Int)
      /\ trace' \in Seq(Seq(Int))
  <2>1. Append(trace, << card >>) \in Seq(Seq(Int))
    BY <1>2, AppendProperties
  <2>2. live \in BOOLEAN /\ disturbed \in BOOLEAN /\ line \in Seq(Int) /\ << >> \in Seq(Int)
    BY DEF P!IInv, P!TypeOK
  <2>3. (disturbed \/ live) \in BOOLEAN
    OBVIOUS
  <2>4. live' \in BOOLEAN /\ disturbed' \in BOOLEAN
    BY <2>2, <2>3, Zenon
  <2>5. line' \in Seq(Int)
    BY <2>2
  <2> QED BY <1>2, <2>1, <2>4, <2>5
<1>4. P!IsCard(<< card >>)
  BY <1>2 DEF P!IsCard
<1>5. P!LiveInv'
  BY <1>2, <1>4 DEF P!LiveInv
<1>6. P!Shown' = P!Shown \o << card >> /\ P!Shown \in Seq(Int)
  BY <1>2, StreamFlattens DEF P!Shown
<1>7. /\ P!ToSet(P!Shown)' = P!ToSet(P!Shown) \cup {card}
      /\ P!InOrder => P!InOrder'
  BY <1>1, <1>2, <1>6, OneMore DEF P!IInv
<1>8. P!TraceComplete'
  BY <1>7 DEF P!IInv, P!TraceComplete
<1> QED BY <1>3, <1>5, <1>8

LEMMA JoinsAssociate == \A x, y, z \in Seq(Int) : (x \o y) \o z = x \o (y \o z)
BY ConcatAssociative

\* A fragment is one entry more, unless something else was written behind the live line.
LEMMA FragmentIsAdded ==
  ASSUME P!IInv, NEW breaks \in BOOLEAN, P!StreamChunk(texts + 1, breaks), texts' = texts + 1
  PROVE  /\ live' \in BOOLEAN /\ disturbed' \in BOOLEAN /\ line' \in Seq(Int) /\ cards' \in Nat
         /\ trace' \in Seq(Seq(Int)) /\ P!LiveInv' /\ P!TraceComplete'
<1>1. PICK piece, above, grown, before :
        /\ piece = texts + 1 /\ above = (IF live THEN trace ELSE Append(trace, << >>))
        /\ before = (IF live THEN line ELSE << >>) /\ grown = Append(before, piece)
  OBVIOUS
<1>2. /\ live' = TRUE /\ line' = (IF breaks THEN << >> ELSE grown) /\ cards' = cards
      /\ disturbed' = disturbed
      /\ trace' = [above EXCEPT ![Len(above)] = grown] \o (IF breaks THEN << << >> >> ELSE << >>)
  BY <1>1 DEF P!StreamChunk
<1>3. /\ piece \in Int /\ piece > 0 /\ texts \in Nat /\ cards \in Nat /\ trace \in Seq(Seq(Int))
      /\ before \in Seq(Int) /\ disturbed \in BOOLEAN
  BY <1>1 DEF P!IInv, P!TypeOK
<1>4. grown \in Seq(Int) /\ grown = before \o << piece >> /\ << piece >> \in Seq(Int)
  BY <1>1, <1>3
<1>5. PICK front \in Seq(Seq(Int)), last \in Seq(Int) :
        /\ above = Append(front, last)
        /\ last = before \/ (disturbed /\ live /\ P!IsCard(last))
        /\ P!Shown = P!FlattenSeq(front) \o last
  <2>1. CASE live
    <3>1. PICK front \in Seq(Seq(Int)), last \in Seq(Int) :
            trace = Append(front, last) /\ (last = line \/ (disturbed /\ P!IsCard(last)))
      BY <2>1 DEF P!IInv, P!LiveInv
    <3>2. P!Shown = P!FlattenSeq(front) \o last
      BY <3>1, StreamFlattens DEF P!Shown
    <3> QED BY <1>1, <2>1, <3>1, <3>2
  <2>2. CASE ~live
    <3>1. P!FlattenSeq(trace) \o << >> = P!FlattenSeq(trace)
      BY <1>3, StreamFlattens, ConcatEmptySeq
    <3> QED BY <1>1, <1>3, <2>2, <3>1 DEF P!Shown
  <2> QED BY <2>1, <2>2 DEF P!IInv, P!TypeOK
<1>6. [above EXCEPT ![Len(above)] = grown] = Append(front, grown)
  <2>1. /\ Len(above) = Len(front) + 1 /\ Len(front) \in Nat /\ above \in Seq(Seq(Int))
        /\ \A i \in 1..Len(front) : above[i] = front[i]
    BY <1>5, AppendProperties
  <2>2. /\ Append(front, grown) \in Seq(Seq(Int)) /\ Len(Append(front, grown)) = Len(front) + 1
        /\ \A i \in 1..Len(front) : Append(front, grown)[i] = front[i]
        /\ Append(front, grown)[Len(front) + 1] = grown
    BY <1>4, AppendProperties
  <2> DEFINE x == [above EXCEPT ![Len(above)] = grown]
             y == Append(front, grown)
  <2>3. /\ x \in Seq(Seq(Int)) /\ Len(x) = Len(above) /\ x[Len(above)] = grown
        /\ \A i \in 1..Len(front) : x[i] = above[i]
    <3>1. Len(above) \in DOMAIN above
      BY <2>1
    <3>2. x \in Seq(Seq(Int)) /\ Len(x) = Len(above)
      BY <1>4, <2>1, <3>1, ElementReplaced
    <3>3. x[Len(above)] = grown /\ \A i \in DOMAIN above \ {Len(above)} : x[i] = above[i]
      BY <3>1
    <3>4. \A i \in 1..Len(front) : i \in DOMAIN above \ {Len(above)}
      BY <2>1
    <3> QED BY <3>2, <3>3, <3>4
  <2> HIDE DEF x, y
  <2>4. \A i \in 1..Len(x) : x[i] = y[i]
    <3> TAKE i \in 1..Len(x)
    <3>1. i \in 1..Len(front) \/ i = Len(front) + 1
      BY <2>1, <2>3
    <3> QED BY <2>1, <2>2, <2>3, <3>1 DEF y
  <2>5. x = y
    <3>1. x \in Seq(Seq(Int)) /\ y \in Seq(Seq(Int)) /\ Len(x) = Len(y)
      BY <2>1, <2>2, <2>3 DEF y
    <3> QED BY <2>4, <3>1, SeqEqual
  <2> QED BY <2>5 DEF x, y
<1>7. PICK next \in Seq(Seq(Int)) : next = Append(front, grown)
  BY <1>4, AppendProperties
<1>8. trace' = IF breaks THEN Append(next, << >>) ELSE next
  <2>1. next \o << << >> >> = Append(next, << >>) /\ next \o << >> = next
    BY <1>7, ConcatEmptySeq
  <2> QED BY <1>2, <1>6, <1>7, <2>1
<1>9. trace' \in Seq(Seq(Int)) /\ line' \in Seq(Int)
  <2>1. << >> \in Seq(Int)
    OBVIOUS
  <2>2. Append(next, << >>) \in Seq(Seq(Int))
    BY <1>7, <2>1, AppendProperties
  <2> QED BY <1>2, <1>4, <1>7, <1>8, <2>1, <2>2
<1>10. P!LiveInv'
  <2>1. << >> \in Seq(Int)
    OBVIOUS
  <2>2. \E front1 \in Seq(Seq(Int)), last1 \in Seq(Int) :
          trace' = Append(front1, last1) /\ last1 = line'
    <3>1. CASE breaks
      BY <1>2, <1>7, <1>8, <2>1, <3>1
    <3>2. CASE ~breaks
      BY <1>2, <1>4, <1>5, <1>7, <1>8, <3>2
    <3> QED BY <3>1, <3>2
  <2> QED BY <2>2 DEF P!LiveInv
<1>11. P!Shown' = P!FlattenSeq(front) \o grown /\ P!FlattenSeq(front) \in Seq(Int)
  <2>1. P!FlattenSeq(next) = P!FlattenSeq(front) \o grown /\ P!FlattenSeq(front) \in Seq(Int)
        /\ P!FlattenSeq(next) \in Seq(Int)
    BY <1>4, <1>7, StreamFlattens
  <2>2. P!FlattenSeq(Append(next, << >>)) = P!FlattenSeq(next) \o << >>
    <3>1. << >> \in Seq(Int)
      OBVIOUS
    <3> QED BY <1>7, <3>1, StreamFlattens
  <2>3. P!FlattenSeq(next) \o << >> = P!FlattenSeq(next)
    BY <2>1, ConcatEmptySeq
  <2> QED BY <1>8, <2>1, <2>2, <2>3 DEF P!Shown
<1>12. \A m \in 1..texts' : m \in P!ToSet(P!Shown)'
  <2>1. /\ P!ToSet(P!Shown') = P!ToSet(P!FlattenSeq(front)) \cup P!ToSet(grown)
        /\ P!ToSet(P!Shown) = P!ToSet(P!FlattenSeq(front)) \cup P!ToSet(last)
        /\ P!ToSet(grown) = P!ToSet(before) \cup P!ToSet(<< piece >>)
    BY <1>3, <1>4, <1>5, <1>11, ElementsJoined
  <2>2. piece \in P!ToSet(<< piece >>)
    BY DEF P!ToSet
  <2>3. ASSUME NEW m \in 1..texts PROVE m \in P!ToSet(P!Shown')
    <3>1. m \in P!ToSet(P!Shown)
      BY <2>3 DEF P!IInv, P!TraceComplete
    <3>2. CASE last = before
      BY <2>1, <3>1, <3>2
    <3>3. CASE P!IsCard(last)
      <4>1. m \notin P!ToSet(last)
        BY <1>3, <3>3 DEF P!IsCard, P!ToSet
      <4> QED BY <2>1, <3>1, <4>1
    <3> QED BY <1>5, <3>2, <3>3
  <2>4. \A m \in 1..texts' : m \in 1..texts \/ m = piece
    BY <1>1, <1>3
  <2> QED BY <2>1, <2>2, <2>3, <2>4
<1>13. ~disturbed => P!InOrder'
  <2> SUFFICES ASSUME ~disturbed PROVE P!InOrder'
    OBVIOUS
  <2>1. last = before
    BY <1>5
  <2>2. P!Shown' = P!Shown \o << piece >>
    BY <1>3, <1>4, <1>5, <1>11, <2>1, JoinsAssociate
  <2>3. P!Shown \in Seq(Int)
    BY ShownIsInt DEF P!IInv
  <2>4. P!InOrder
    BY DEF P!IInv, P!TraceComplete
  <2> QED BY <1>1, <1>2, <1>3, <2>2, <2>3, <2>4, OneMore DEF P!IInv
<1>14. P!TraceComplete'
  BY <1>2, <1>12, <1>13 DEF P!TraceComplete
<1> QED BY <1>2, <1>3, <1>9, <1>10, <1>14

\* The slots of the calls while nothing is put together, ...
LEMMA SlotsAreKept ==
  ASSUME P!IInv, sent' = sent, slots' = slots,
         phase' = "ended" => modelTurn'.calls = slots \/ (phase = "ended" /\ modelTurn' = modelTurn)
  PROVE  sent' \in [Index -> Nat] /\ DOMAIN slots' = Index /\ P!SlotsInv'
<1>1. sent' \in [Index -> Nat] /\ DOMAIN slots' = Index
  BY DEF P!IInv, P!TypeOK
<1>2. phase = "ended" => modelTurn.calls = slots
  BY DEF P!IInv, P!SlotsInv
<1>3. \A i \in Index : slots'[i] = [n \in 1..sent'[i] |-> << i, n >>]
  BY DEF P!IInv, P!SlotsInv
<1> QED BY <1>1, <1>2, <1>3 DEF P!SlotsInv

\* ... when a request begins ...
LEMMA SlotsAreCleared ==
  ASSUME sent' = [i \in Index |-> 0], slots' = [i \in Index |-> << >>], phase' # "ended"
  PROVE  sent' \in [Index -> Nat] /\ DOMAIN slots' = Index /\ P!SlotsInv'
<1>1. \A i \in Index : slots'[i] = << >> /\ sent'[i] = 0
  OBVIOUS
<1>2. \A i \in Index : [n \in 1..sent'[i] |-> << i, n >>] = << >>
  BY <1>1
<1> QED BY <1>1, <1>2 DEF P!SlotsInv

\* ... and when a fragment of one of them comes.
LEMMA PieceIsAdded ==
  ASSUME P!IInv, NEW i \in Index, P!CallPiece(i)
  PROVE  sent' \in [Index -> Nat] /\ DOMAIN slots' = Index /\ P!SlotsInv'
<1>1. /\ sent' = [sent EXCEPT ![i] = sent[i] + 1]
      /\ slots' = [slots EXCEPT ![i] = Append(slots[i], << i, sent'[i] >>)]
      /\ phase' = "streaming"
  BY DEF P!CallPiece
<1>2. sent \in [Index -> Nat] /\ DOMAIN slots = Index
  BY DEF P!IInv, P!TypeOK
<1>3. PICK k \in Nat : k = sent[i]
  BY <1>2
<1>4. sent' \in [Index -> Nat] /\ sent'[i] = k + 1 /\ \A j \in Index \ {i} : sent'[j] = sent[j]
  BY <1>1, <1>2, <1>3
<1>5. /\ DOMAIN slots' = Index /\ slots'[i] = Append(slots[i], << i, k + 1 >>)
      /\ \A j \in Index \ {i} : slots'[j] = slots[j]
  BY <1>1, <1>2, <1>4
<1>6. \A j \in Index : slots[j] = [n \in 1..sent[j] |-> << j, n >>]
  BY DEF P!IInv, P!SlotsInv
<1>7. slots'[i] = [n \in 1..k + 1 |-> << i, n >>]
  <2> DEFINE had == [n \in 1..k |-> << i, n >>]
             has == [n \in 1..k + 1 |-> << i, n >>]
             Piece == {i} \X Nat
  <2>1. had \in Seq(Piece) /\ has \in Seq(Piece) /\ Len(had) = k /\ Len(has) = k + 1
    <3>1. \A n \in 1..k + 1 : << i, n >> \in Piece
      BY <1>3
    <3>2. k + 1 \in Nat /\ \A n \in 1..k : n \in 1..k + 1
      BY <1>3
    <3> HIDE DEF Piece
    <3> QED BY <1>3, <3>1, <3>2
  <2>2. /\ \A n \in 1..k : had[n] = << i, n >>
        /\ \A n \in 1..k + 1 : has[n] = << i, n >>
    OBVIOUS
  <2>3. << i, k + 1 >> \in Piece
    BY <1>3
  <2> HIDE DEF had, has, Piece
  <2>4. PICK more : more = Append(had, << i, k + 1 >>)
    OBVIOUS
  <2>5. /\ more \in Seq(Piece) /\ Len(more) = k + 1 /\ more[k + 1] = << i, k + 1 >>
        /\ \A n \in 1..k : more[n] = had[n]
    BY <2>1, <2>3, <2>4, AppendProperties
  <2>6. \A n \in 1..Len(more) : more[n] = has[n]
    <3> TAKE n \in 1..Len(more)
    <3>1. n \in 1..k \/ n = k + 1
      BY <1>3, <2>5
    <3>2. n \in 1..k + 1
      BY <2>5
    <3> QED BY <2>2, <2>5, <3>1, <3>2
  <2>7. more = has
    BY <2>1, <2>5, <2>6, SeqEqual
  <2>8. slots[i] = had
    BY <1>3, <1>6 DEF had
  <2> QED BY <1>5, <2>4, <2>7, <2>8 DEF has
<1>8. \A j \in Index : slots'[j] = [n \in 1..sent'[j] |-> << j, n >>]
  <2> TAKE j \in Index
  <2>1. CASE j = i
    BY <1>4, <1>7, <2>1
  <2>2. CASE j # i
    BY <1>4, <1>5, <1>6, <2>2
  <2> QED BY <2>1, <2>2
<1> QED BY <1>1, <1>4, <1>5, <1>8 DEF P!SlotsInv

\* What the trace consists of is left alone.
LEMMA TraceIsKept ==
  ASSUME P!IInv, texts' = texts, cards' = cards, live' = live, disturbed' = disturbed,
         line' = line, trace' = trace
  PROVE  /\ texts' \in Nat /\ cards' \in Nat /\ live' \in BOOLEAN /\ disturbed' \in BOOLEAN
         /\ line' \in Seq(Int) /\ trace' \in Seq(Seq(Int)) /\ P!LiveInv' /\ P!TraceComplete'
<1>1. P!Shown' = P!Shown
  BY DEF P!Shown
<1>2. P!InOrder' <=> P!InOrder
  BY <1>1 DEF P!InOrder
<1>3. P!TraceComplete'
  BY <1>1, <1>2 DEF P!TraceComplete, P!IInv
<1>4. /\ texts' \in Nat /\ cards' \in Nat /\ live' \in BOOLEAN /\ disturbed' \in BOOLEAN
      /\ line' \in Seq(Int) /\ trace' \in Seq(Seq(Int))
  BY DEF P!IInv, P!TypeOK
<1>5. P!LiveInv'
  BY DEF P!IInv, P!LiveInv
<1> QED BY <1>3, <1>4, <1>5

LEMMA StreamTogether ==
  ASSUME texts' \in Nat /\ cards' \in Nat /\ live' \in BOOLEAN /\ disturbed' \in BOOLEAN,
         line' \in Seq(Int) /\ trace' \in Seq(Seq(Int)) /\ P!LiveInv' /\ P!TraceComplete',
         sent' \in [Index -> Nat] /\ DOMAIN slots' = Index /\ P!SlotsInv'
  PROVE  P!IInv'
BY DEF P!IInv, P!TypeOK

LEMMA StreamNext == P!IInv /\ (P!Next \/ UNCHANGED streamVars) => P!IInv'
<1> SUFFICES ASSUME P!IInv, P!Next \/ UNCHANGED streamVars PROVE P!IInv'
  OBVIOUS
<1>0. texts \in Nat
  BY DEF P!IInv, P!TypeOK
<1>1. CASE P!Submit
  <2>1. /\ P!AppendCard /\ live' = live /\ line' = line /\ disturbed' = (disturbed \/ live)
        /\ texts' = texts
    BY <1>1 DEF P!Submit
  <2>2. sent' \in [Index -> Nat] /\ DOMAIN slots' = Index /\ P!SlotsInv'
    <3>1. CASE P!Busy
      <4>1. sent' = sent /\ slots' = slots /\ phase' = phase /\ modelTurn' = modelTurn
        BY <1>1, <3>1 DEF P!Submit
      <4> QED BY <4>1, SlotsAreKept
    <3>2. CASE ~P!Busy
      <4>1. /\ sent' = [i \in Index |-> 0] /\ slots' = [i \in Index |-> << >>]
            /\ phase' = "asked"
        BY <1>1, <3>2 DEF P!Submit
      <4> QED BY <4>1, SlotsAreCleared
    <3> QED BY <3>1, <3>2
  <2> QED BY <1>0, <2>1, <2>2, CardIsAdded, StreamTogether
<1>2. CASE P!Respond
  BY <1>2, SlotsAreKept, StreamTogether, TraceIsKept DEF P!Respond
<1>3. CASE P!Done
  <2>1. /\ sent' = sent /\ slots' = slots /\ texts' = texts /\ phase' = "ended"
        /\ modelTurn'.calls = slots
    BY <1>3 DEF P!Done, P!Final
  <2>2. /\ cards' = cards /\ live' = live /\ disturbed' = disturbed /\ line' = line
        /\ trace' = trace
    BY <1>3 DEF P!Done
  <2> QED BY <2>1, <2>2, SlotsAreKept, StreamTogether, TraceIsKept
<1>4. CASE P!CutOff
  <2>1. /\ sent' = sent /\ slots' = slots /\ texts' = texts /\ phase' = "ended"
        /\ modelTurn'.calls = slots
    BY <1>4 DEF P!CutOff, P!Final
  <2>2. /\ cards' = cards /\ live' = live /\ disturbed' = disturbed /\ line' = line
        /\ trace' = trace
    BY <1>4 DEF P!CutOff
  <2> QED BY <2>1, <2>2, SlotsAreKept, StreamTogether, TraceIsKept
<1>5. CASE P!Whole
  <2>1. /\ sent' \in [Index -> {0, Pieces}]
        /\ slots' = [i \in Index |-> [n \in 1..sent'[i] |-> << i, n >>]]
        /\ modelTurn'.calls = slots'
    BY <1>5 DEF P!Whole
  <2>2. sent' \in [Index -> Nat] /\ DOMAIN slots' = Index /\ P!SlotsInv'
    BY <2>1, LimitsAssumption DEF P!SlotsInv
  <2>3. /\ texts' = texts /\ cards' = cards /\ live' = live /\ disturbed' = disturbed
        /\ line' = line /\ trace' = trace
    BY <1>5 DEF P!Whole
  <2> QED BY <2>2, <2>3, StreamTogether, TraceIsKept
<1>6. CASE P!Fail
  BY <1>6, SlotsAreKept, StreamTogether, TraceIsKept DEF P!Fail
<1>7. CASE \E breaks \in BOOLEAN : P!Text(breaks)
  <2> PICK breaks \in BOOLEAN : P!Text(breaks)
    BY <1>7
  <2>1. /\ texts' = texts + 1 /\ P!StreamChunk(texts + 1, breaks)
        /\ sent' = sent /\ slots' = slots /\ phase' = phase /\ modelTurn' = modelTurn
    BY DEF P!Text
  <2>2. texts' \in Nat
    BY <1>0, <2>1
  <2> QED BY <2>1, <2>2, FragmentIsAdded, SlotsAreKept, StreamTogether
<1>8. CASE \E i \in Index : P!CallPiece(i)
  <2> PICK i \in Index : P!CallPiece(i)
    BY <1>8
  <2>1. /\ texts' = texts /\ cards' = cards /\ live' = live /\ disturbed' = disturbed
        /\ line' = line /\ trace' = trace
    BY DEF P!CallPiece
  <2> QED BY <2>1, PieceIsAdded, StreamTogether, TraceIsKept
<1>9. CASE P!ShowTools
  <2>1. /\ P!AppendCard /\ live' = FALSE /\ line' = << >> /\ disturbed' = disturbed
        /\ texts' = texts
    BY <1>9 DEF P!ShowTools, P!Event
  <2>2. /\ sent' = [i \in Index |-> 0] /\ slots' = [i \in Index |-> << >>]
        /\ phase' = "asked"
    BY <1>9 DEF P!ShowTools
  <2> QED BY <1>0, <2>1, <2>2, CardIsAdded, SlotsAreCleared, StreamTogether
<1>10. CASE P!ShowEnd
  <2>1. /\ P!AppendCard /\ live' = FALSE /\ line' = << >> /\ disturbed' = disturbed
        /\ texts' = texts
    BY <1>10 DEF P!ShowEnd, P!Event
  <2>2. sent' = sent /\ slots' = slots /\ phase' = "idle"
    BY <1>10 DEF P!ShowEnd
  <2> QED BY <1>0, <2>1, <2>2, CardIsAdded, SlotsAreKept, StreamTogether
<1>11. CASE P!ShowError
  <2>1. /\ P!AppendCard /\ live' = live /\ line' = line /\ disturbed' = (disturbed \/ live)
        /\ texts' = texts
    BY <1>11 DEF P!ShowError
  <2>2. sent' = sent /\ slots' = slots /\ phase' = "idle"
    BY <1>11 DEF P!ShowError
  <2> QED BY <1>0, <2>1, <2>2, CardIsAdded, SlotsAreKept, StreamTogether
<1>12. CASE UNCHANGED streamVars
  BY <1>12, SlotsAreKept, StreamTogether, TraceIsKept DEF streamVars
<1> QED BY <1>1, <1>2, <1>3, <1>4, <1>5, <1>6, <1>7, <1>8, <1>9, <1>10, <1>11, <1>12 DEF P!Next

\* Every fragment of text the endpoint sends is in the trace, in order and with every card
\* unless something was written into a live stream; and the turn the agent acts on has the
\* fragments of each call as they were sent (_iter_stream_events, _stream_chunk).
THEOREM ResponseArrives == Spec => []ArrivesAsSent
<1>1. Init => P!IInv
  BY StreamInit DEF Init
<1>2. P!IInv /\ [Next]_vars => P!IInv'
  BY StreamNext, StreamSteps
<1>3. P!IInv => ArrivesAsSent
  <2> SUFFICES ASSUME P!IInv PROVE ArrivesAsSent
    OBVIOUS
  <2>1. P!TraceComplete /\ P!SlotsInv
    BY DEF P!IInv
  <2>2. ASSUME phase = "ended", NEW i \in Index
        PROVE  modelTurn.calls[i] = [n \in 1..sent[i] |-> << i, n >>]
    BY <2>1, <2>2 DEF P!SlotsInv
  <2> QED BY <2>1, <2>2 DEF ArrivesAsSent, P!ArrivesAsSent, P!TurnAsSent
<1> QED BY <1>1, <1>2, <1>3, PTL DEF Spec
===============================================================================
