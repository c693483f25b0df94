---------------------------------- MODULE Notes ----------------------------------
(***************************************************************************)
(* The living document session-memory.md (src/lilbot/core/session_memory.py):  *)
(* threads started at the end of turns ask the model which sections have       *)
(* changed and merge them into the file (_maybe_update_session_memory in        *)
(* src/lilbot/core/agent.py).  Compaction reads it without their lock, as Load.  *)
(***************************************************************************)
EXTENDS Naturals

CONSTANTS
  Section,     \* headings of the template
  Job,         \* threads that update the document
  MaxUpdates,  \* bound of the model: updates begun
  MaxStops     \* bound of the model: ends of the process

VARIABLES
  doc,      \* the file: for each section the update it is from, 0 for the template's text
  torn,     \* the file is open for writing and empty
  lock,     \* the thread that holds _sm_lock, or "free"
  stage,    \* what each thread does: "idle", "waiting", "asking", "merged", "writing"
  draft,    \* the sections each thread is about to write
  updates,  \* updates begun: each has a number
  number,   \* that of each thread
  latest,   \* history: for each section the last update that was saved
  stops,
  lost      \* history: the process ended with the file torn

vars == << doc, torn, lock, stage, draft, updates, number, latest, stops, lost >>

Template == [s \in Section |-> 0]
Goto(j, to) == stage' = [stage EXCEPT ![j] = to]

\* load: what a reader makes of the file, or of one that is not there or empty.
Load == IF torn THEN Template ELSE doc

\* At the end of some turns a thread is started, whatever the earlier ones do.
Update(j) ==
  /\ stage[j] = "idle"
  /\ updates < MaxUpdates
  /\ updates' = updates + 1
  /\ number' = [number EXCEPT ![j] = updates']
  /\ Goto(j, "waiting")
  /\ UNCHANGED << doc, torn, lock, draft, latest, stops, lost >>

\* Mutant: no lock.
BeginUnlocked(j) ==
  /\ stage[j] = "waiting"
  /\ Goto(j, "asking")
  /\ UNCHANGED << doc, torn, lock, draft, updates, number, latest, stops, lost >>

\* with self._sm_lock: held for the question to the model, the merge and the save.
Begin(j) ==
  /\ stage[j] = "waiting" /\ lock = "free"
  /\ lock' = j
  /\ Goto(j, "asking")
  /\ UNCHANGED << doc, torn, draft, updates, number, latest, stops, lost >>

Leave(j) ==
  /\ Goto(j, "idle")
  /\ lock' = IF lock = j THEN "free" ELSE lock

\* No answer, no object in it, an empty one.
Decline(j) ==
  /\ stage[j] = "asking"
  /\ Leave(j)
  /\ UNCHANGED << doc, torn, draft, updates, number, latest, stops, lost >>

\* merge_updates: the sections of the answer - unknown and empty ones are ignored -
\* replace those of the file as it is now.
Merge(j) ==
  /\ stage[j] = "asking"
  /\ \E changed \in SUBSET Section :
       draft' = [draft EXCEPT ![j] = [s \in Section |-> IF s \in changed THEN number[j]
                                                        ELSE Load[s]]]
  /\ Goto(j, "merged")
  /\ UNCHANGED << doc, torn, lock, updates, number, latest, stops, lost >>

\* save: write_text empties the file ...
Open(j) ==
  /\ stage[j] = "merged"
  /\ torn' = TRUE
  /\ Goto(j, "writing")
  /\ UNCHANGED << doc, lock, draft, updates, number, latest, stops, lost >>

\* ... and fills it.
Write(j) ==
  /\ stage[j] = "writing"
  /\ doc' = draft[j]
  /\ torn' = FALSE
  /\ latest' = [s \in Section |-> IF draft[j][s] = number[j] THEN number[j] ELSE latest[s]]
  /\ Leave(j)
  /\ UNCHANGED << draft, updates, number, stops, lost >>

\* An OSError is swallowed: the file stays as it was.
OpenFails(j) ==
  /\ stage[j] = "merged"
  /\ Leave(j)
  /\ UNCHANGED << doc, torn, draft, updates, number, latest, stops, lost >>

\* The threads are daemons.
Stop ==
  /\ stops < MaxStops
  /\ stops' = stops + 1
  /\ doc' = Load /\ torn' = FALSE
  /\ lost' = (lost \/ torn)
  /\ lock' = "free"
  /\ stage' = [j \in Job |-> "idle"]
  /\ UNCHANGED << draft, updates, number, latest >>

Init ==
  /\ doc = Template /\ torn = FALSE
  /\ lock = "free"
  /\ stage = [j \in Job |-> "idle"]
  /\ draft = [j \in Job |-> Template]
  /\ updates = 0
  /\ number = [j \in Job |-> 0]
  /\ latest = Template
  /\ stops = 0 /\ lost = FALSE

Next ==
  \/ \E j \in Job : \/ Update(j) \/ Begin(j) \/ Decline(j) \/ Merge(j)
                    \/ Open(j) \/ Write(j) \/ OpenFails(j)
  \/ Stop

Spec == Init /\ [][Next]_vars

(***************************************************************************)
(* Properties                                                              *)
(***************************************************************************)

\* No update undoes another: each section of the file is from the last update that gave
\* it, through threads that overlap, answers that fail and restarts - unless the process
\* has ended between the emptying of the file and its writing.
NotesKept == ~torn /\ ~lost => doc = latest

\* Why it holds: one thread at a time is between its question and its save, and what it
\* does not give is what the file holds.
TypeOK ==
  /\ doc \in [Section -> Nat] /\ latest \in [Section -> Nat]
  /\ torn \in BOOLEAN /\ lost \in BOOLEAN
  /\ stage \in [Job -> {"idle", "waiting", "asking", "merged", "writing"}]
  /\ draft \in [Job -> [Section -> Nat]]
  /\ updates \in Nat /\ number \in [Job -> Nat]

LockInv ==
  /\ \A j \in Job : stage[j] \in {"asking", "merged", "writing"} => lock = j
  /\ torn => \E j \in Job : stage[j] = "writing"

DraftInv ==
  \A j \in Job : stage[j] \in {"merged", "writing"} =>
    \A s \in Section : draft[j][s] \in {number[j], doc[s]}

IInv == TypeOK /\ LockInv /\ DraftInv /\ (~lost => doc = latest)
=============================================================================
