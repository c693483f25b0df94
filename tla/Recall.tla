-------------------------------- MODULE Recall --------------------------------
(***************************************************************************)
(* What the agent loop carries from its background queries into requests      *)
(* (src/lilbot/core/agent.py): the recall of memories, selected on a thread    *)
(* while the turn runs (memory/recall.py).                                    *)
(***************************************************************************)
EXTENDS Naturals, FiniteSets

CONSTANTS
  Memory,       \* memories
  MaxSelected,  \* MAX_SELECTED
  MaxTurns      \* bound of the model: turns

VARIABLES
  known,       \* ids the store lists
  surfaced,    \* _surfaced_memory_ids
  prefetch,    \* _recall_prefetch: the turn whose object it is, or 0
  jobs,        \* for each turn its selection: candidates, or the ids it came to
  reminder,    \* ids _pending_recall shows
  session,     \* the saved session: turns and surfaced ids, or none
  now,         \* _turn_count; 0 before the first one
  inTurn,      \* run_turn is under way
  shown,       \* history: ids the requests of each turn showed
  savedShown   \* history: shown as it was when the session was saved

vars == << known, surfaced, prefetch, jobs, reminder, session, now, inTurn,
           shown, savedShown >>

Turn == 1..MaxTurns
NoJob == [state |-> "none", ids |-> {}]
NoSession == [exists |-> FALSE, turns |-> 0, surfaced |-> {}]
Nothing == [t \in Turn |-> {}]

\* memory_save, memory_delete and extractions change the store at any time.
Save(m) ==
  /\ m \notin known
  /\ known' = known \cup {m}
  /\ UNCHANGED << surfaced, prefetch, jobs, reminder, session, now, inTurn, shown,
                  savedShown >>

Delete(m) ==
  /\ m \in known
  /\ known' = known \ {m}
  /\ UNCHANGED << surfaced, prefetch, jobs, reminder, session, now, inTurn, shown,
                  savedShown >>

\* Mutant: the reminder of the last turn stays.
BeginTurnKeepsReminder ==
  /\ ~inTurn
  /\ now < MaxTurns
  /\ now' = now + 1
  /\ inTurn' = TRUE
  /\ IF known = {}
     THEN prefetch' = 0 /\ UNCHANGED jobs
     ELSE /\ prefetch' = now'
          /\ jobs' = [jobs EXCEPT ![now'] = [state |-> "asking", ids |-> known \ surfaced]]
  /\ UNCHANGED << known, surfaced, reminder, session, shown, savedShown >>

\* run_turn, _start_recall_prefetch: entries and surfaced ids are read here, on the
\* thread of the turn.  recall asks nothing when there are no candidates.
BeginTurn ==
  /\ ~inTurn
  /\ now < MaxTurns
  /\ now' = now + 1
  /\ inTurn' = TRUE
  /\ reminder' = {}
  /\ IF known = {}
     THEN prefetch' = 0 /\ UNCHANGED jobs
     ELSE /\ prefetch' = now'
          /\ jobs' = [jobs EXCEPT ![now'] = [state |-> "asking", ids |-> known \ surfaced]]
  /\ UNCHANGED << known, surfaced, session, shown, savedShown >>

\* The selector answers with some of the candidates, or with nothing that parses.
Answer(t) ==
  /\ jobs[t].state = "asking"
  /\ \E ids \in SUBSET jobs[t].ids :
       /\ Cardinality(ids) <= MaxSelected
       /\ jobs' = [jobs EXCEPT ![t] = [state |-> "done", ids |-> ids]]
  /\ UNCHANGED << known, surfaced, prefetch, reminder, session, now, inTurn, shown,
                  savedShown >>

\* _consume_recall_prefetch and the request it is called for.  The first request of a
\* turn waits for a second, and goes without if that was not enough.
Ready == prefetch # 0 /\ jobs[prefetch].state = "done"

Request ==
  /\ inTurn
  /\ LET ids == IF Ready THEN jobs[prefetch].ids ELSE {}
     IN  /\ reminder' = IF ids # {} THEN ids ELSE reminder
         /\ surfaced' = surfaced \cup ids
  /\ prefetch' = IF Ready THEN 0 ELSE prefetch
  /\ shown' = [shown EXCEPT ![now] = @ \cup reminder']
  /\ UNCHANGED << known, jobs, session, now, inTurn, savedShown >>

\* _persist_session at the end of the turn.
EndTurn ==
  /\ inTurn
  /\ inTurn' = FALSE
  /\ session' = [exists |-> TRUE, turns |-> now, surfaced |-> surfaced]
  /\ savedShown' = shown
  /\ UNCHANGED << known, surfaced, prefetch, jobs, reminder, now, shown >>

\* The provider raises, and the turn with it: nothing is saved.
Raise ==
  /\ inTurn
  /\ inTurn' = FALSE
  /\ UNCHANGED << known, surfaced, prefetch, jobs, reminder, session, now, shown,
                  savedShown >>

\* /resume, with the agent as it is or in a new process: the session brings its ids.
Resume ==
  /\ ~inTurn
  /\ session.exists
  /\ now' = session.turns
  /\ surfaced' = session.surfaced
  /\ shown' = savedShown
  /\ UNCHANGED << known, prefetch, jobs, reminder, session, inTurn, savedShown >>

\* The process ends in the middle of a turn or between two.
Restart ==
  /\ now # 0
  /\ now' = 0
  /\ inTurn' = FALSE
  /\ prefetch' = 0
  /\ jobs' = [t \in Turn |-> NoJob]
  /\ reminder' = {} /\ surfaced' = {}
  /\ shown' = Nothing
  /\ UNCHANGED << known, session, savedShown >>

Init ==
  /\ known \in SUBSET Memory
  /\ surfaced = {} /\ reminder = {}
  /\ inTurn = FALSE
  /\ prefetch = 0 /\ now = 0
  /\ jobs = [t \in Turn |-> NoJob]
  /\ session = NoSession
  /\ shown = Nothing /\ savedShown = Nothing

Next ==
  \/ \E m \in Memory : Save(m) \/ Delete(m)
  \/ BeginTurn \/ Request \/ EndTurn \/ Raise \/ Resume \/ Restart
  \/ \E t \in Turn : Answer(t)

Spec == Init /\ [][Next]_vars

(***************************************************************************)
(* Properties                                                              *)
(***************************************************************************)

\* A memory is shown in the requests of one turn of a session only, whether its
\* selection came in time, late or never, and through /resume and restarts; and what
\* is marked as surfaced is what the session's requests have shown, so a selection that
\* no request carried stays eligible.
RecalledOnce ==
  /\ surfaced = UNION {shown[t] : t \in Turn}
  /\ \A t, u \in Turn : t # u => shown[t] \cap shown[u] = {}

\* Why it holds: what a turn has yet to take from its selection was not surfaced when
\* the turn began, and the reminder is the turn's own.
TypeOK ==
  /\ known \subseteq Memory /\ surfaced \subseteq Memory /\ reminder \subseteq Memory
  /\ prefetch \in 0..MaxTurns /\ now \in 0..MaxTurns
  /\ jobs \in [Turn -> [state: {"none", "asking", "done"}, ids: SUBSET Memory]]
  /\ session \in [exists: BOOLEAN, turns: 0..MaxTurns, surfaced: SUBSET Memory]
  /\ inTurn \in BOOLEAN
  /\ shown \in [Turn -> SUBSET Memory] /\ savedShown \in [Turn -> SUBSET Memory]

IsHistory(ids, of) ==
  /\ ids = UNION {of[t] : t \in Turn}
  /\ \A t, u \in Turn : t # u => of[t] \cap of[u] = {}

IInv ==
  /\ TypeOK
  /\ IsHistory(surfaced, shown)
  /\ session.exists => IsHistory(session.surfaced, savedShown)
  /\ inTurn =>
       /\ now # 0
       /\ reminder \subseteq shown[now]
       /\ prefetch # 0 => prefetch = now /\ jobs[now].ids \cap surfaced = {}
=============================================================================
