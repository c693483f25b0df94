------------------------------- MODULE Sessions -------------------------------
(***************************************************************************)
(* Saved sessions (src/lilbot/core/session.py, Agent._persist_session and     *)
(* Agent.resume): every process keeps its conversation in a file named after    *)
(* its session, written beside it and moved into place.  AgentTurn has the      *)
(* conversation itself and takes a save for one step; here are its steps, with   *)
(* the crashes and the other processes that come between them.                 *)
(*                                                                         *)
(* A conversation is the set of its turns.  A file is a number, as a process    *)
(* that has one open goes on writing to it when it is renamed.                  *)
(***************************************************************************)
EXTENDS Naturals, FiniteSets

CONSTANTS
  Process,   \* LilBot processes of one workspace
  Seconds,   \* bound of the model: the clock, which sessions are named after
  MaxTalks   \* bound of the model: turns of all processes together

Id == 1..Seconds
File == 1..(2 * Seconds + Cardinality(Process))
None == 0

\* What is in a file that does not parse.
Torn == {}

VARIABLES
  clock,
  session,    \* session_id of each process, None if it does not run
  talk,       \* messages: the turns of its conversation
  saving,     \* "no", or the next step of save: "open", "write" or "replace"
  handle,     \* the file it has open
  content,    \* of each file
  final,      \* <id>.json, None if there is none
  temp,       \* <id>.json.tmp
  talks,      \* turns so far, each of which is named by its number
  saved,      \* history: the turns of each session that a completed save contained
  cleared,    \* history: turns that the user has cleared
  ambiguous   \* history: sessions given out twice, or open in two processes at a time

procVars == << session, talk, saving, handle >>
fileVars == << content, final, temp >>
histVars == << saved, cleared, ambiguous >>
vars == << clock, procVars, fileVars, talks, histVars >>

Init ==
  /\ clock = 1 /\ talks = 0
  /\ session = [p \in Process |-> None]
  /\ talk = [p \in Process |-> {}]
  /\ saving = [p \in Process |-> "no"]
  /\ handle = [p \in Process |-> None]
  /\ content = [f \in File |-> Torn]
  /\ final = [i \in Id |-> None] /\ temp = [i \in Id |-> None]
  /\ saved = [i \in Id |-> {}]
  /\ cleared = {} /\ ambiguous = {}

Ready(p) == session[p] # None /\ saving[p] = "no"
Open(id, p) == \E q \in Process \ {p} : session[q] = id

(***************************************************************************)
(* save                                                                     *)
(***************************************************************************)
Fresh == CHOOSE f \in File :
  (\A i \in Id : final[i] # f /\ temp[i] # f) /\ \A p \in Process : handle[p] # f

\* Mutant: the session file itself is written.
TargetInPlace(id) ==
  IF final[id] # None THEN final[id] ELSE IF temp[id] = None THEN Fresh ELSE temp[id]

Target(id) == IF temp[id] = None THEN Fresh ELSE temp[id]

\* The payload is made before; opening empties what an earlier save has left behind.
OpenTemp(p) ==
  LET file == Target(session[p])
  IN  /\ saving[p] = "open"
      /\ saving' = [saving EXCEPT ![p] = "write"]
      /\ handle' = [handle EXCEPT ![p] = file]
      /\ temp' = [temp EXCEPT ![session[p]] = file]
      /\ content' = [content EXCEPT ![file] = Torn]
      /\ UNCHANGED << clock, session, talk, final, talks, histVars >>

\* What another process has written meanwhile is written over; its end stays if longer.
WriteTemp(p) ==
  /\ saving[p] = "write"
  /\ saving' = [saving EXCEPT ![p] = "replace"]
  /\ content' = [content EXCEPT ![handle[p]] =
                   IF Cardinality(@) > Cardinality(talk[p]) THEN Torn ELSE talk[p]]
  /\ handle' = [handle EXCEPT ![p] = None]
  /\ UNCHANGED << clock, session, talk, final, temp, talks, histVars >>

\* tmp.replace: whatever has that name is moved; if nothing has, the save has failed.
Replace(p) ==
  LET id == session[p]
  IN  /\ saving[p] = "replace"
      /\ saving' = [saving EXCEPT ![p] = "no"]
      /\ IF temp[id] # None
         THEN /\ final' = [final EXCEPT ![id] = temp[id]]
              /\ temp' = [temp EXCEPT ![id] = None]
              /\ saved' = [saved EXCEPT ![id] = @ \cup talk[p]]
         ELSE UNCHANGED << final, temp, saved >>
      /\ UNCHANGED << clock, session, talk, handle, content, talks, cleared, ambiguous >>

\* An OSError at any of the steps ends the save, and nobody is told.
SaveFails(p) ==
  /\ saving[p] # "no"
  /\ saving' = [saving EXCEPT ![p] = "no"]
  /\ handle' = [handle EXCEPT ![p] = None]
  /\ UNCHANGED << clock, session, talk, fileVars, talks, histVars >>

(***************************************************************************)
(* What a process does between two saves                                    *)
(***************************************************************************)
\* Two processes that start in the same second have one session id.
Start(p) ==
  /\ session[p] = None
  /\ session' = [session EXCEPT ![p] = clock]
  /\ talk' = [talk EXCEPT ![p] = {}]
  /\ ambiguous' = IF saved[clock] # {} \/ Open(clock, p) THEN ambiguous \cup {clock}
                  ELSE ambiguous
  /\ UNCHANGED << clock, saving, handle, fileVars, talks, saved, cleared >>

Tick ==
  /\ clock < Seconds
  /\ clock' = clock + 1
  /\ UNCHANGED << procVars, fileVars, talks, histVars >>

\* A turn is saved at its end, unless an exception ends it.
Turn(p) ==
  /\ Ready(p) /\ talks < MaxTalks
  /\ talks' = talks + 1
  /\ talk' = [talk EXCEPT ![p] = @ \cup {talks'}]
  /\ \E next \in {"open", "no"} : saving' = [saving EXCEPT ![p] = next]
  /\ UNCHANGED << clock, session, handle, fileVars, histVars >>

\* /clear keeps the session: its file is written over after the next turn.
Clear(p) ==
  /\ Ready(p)
  /\ cleared' = cleared \cup talk[p]
  /\ talk' = [talk EXCEPT ![p] = {}]
  /\ UNCHANGED << clock, session, saving, handle, fileVars, talks, saved, ambiguous >>

\* The end of a process, wherever it is.
Exit(p) ==
  /\ session[p] # None
  /\ session' = [session EXCEPT ![p] = None]
  /\ talk' = [talk EXCEPT ![p] = {}]
  /\ saving' = [saving EXCEPT ![p] = "no"]
  /\ handle' = [handle EXCEPT ![p] = None]
  /\ UNCHANGED << clock, fileVars, talks, histVars >>

\* load: None for a file that is not there or does not parse.
Load(id) == IF final[id] = None THEN Torn ELSE content[final[id]]
Loadable == {id \in Id : Load(id) # Torn}

\* list and latest_id: a session was saved when its last turn was over.
LastTurn(id) == CHOOSE n \in Load(id) : \A m \in Load(id) : m <= n
LatestId == {id \in Loadable : \A i \in Loadable : LastTurn(i) <= LastTurn(id)}

\* The session goes on in this process from here, whatever it was in before.
Resume(p, id) ==
  /\ Ready(p) /\ id \in Loadable
  /\ session' = [session EXCEPT ![p] = id]
  /\ talk' = [talk EXCEPT ![p] = Load(id)]
  /\ ambiguous' = IF Open(id, p) THEN ambiguous \cup {id} ELSE ambiguous
  /\ UNCHANGED << clock, saving, handle, fileVars, talks, saved, cleared >>

ResumeLatest(p) == \E id \in LatestId : Resume(p, id)

Next ==
  \/ \E p \in Process : OpenTemp(p) \/ WriteTemp(p) \/ Replace(p) \/ SaveFails(p)
  \/ \E p \in Process : Start(p) \/ Turn(p) \/ Clear(p) \/ Exit(p) \/ ResumeLatest(p)
  \/ \E p \in Process, id \in Id : Resume(p, id)
  \/ Tick

Spec == Init /\ [][Next]_vars

(***************************************************************************)
(* Property                                                                 *)
(***************************************************************************)
\* A turn that was saved once is in its session whenever that is loaded, until the user
\* clears it: neither a save that ends half way nor the process that resumes the session
\* after another died loses it ("so a crash mid-write doesn't corrupt the session file",
\* session.py:48).  Only a session that two processes have at a time is left out: they
\* write to one temporary file, and the last one to save has the other's turns away.
SavedTurnsStay ==
  \A id \in Id \ ambiguous : saved[id] \ cleared \subseteq Load(id)

\* Why it holds: no two sessions share a file, and the one process that has a session has
\* every turn of it that was saved, so what it moves into place lacks none.
TypeOK ==
  /\ clock \in Id /\ talks \in Nat
  /\ session \in [Process -> Id \cup {None}] /\ talk \in [Process -> SUBSET (1..talks)]
  /\ saving \in [Process -> {"no", "open", "write", "replace"}]
  /\ handle \in [Process -> File \cup {None}]
  /\ content \in [File -> SUBSET (1..talks)]
  /\ final \in [Id -> File \cup {None}] /\ temp \in [Id -> File \cup {None}]
  /\ saved \in [Id -> SUBSET (1..talks)]
  /\ cleared \subseteq 1..talks /\ ambiguous \subseteq Id

PlaceInv ==
  \A p \in Process : /\ session[p] = None => saving[p] = "no"
                     /\ handle[p] # None <=> saving[p] = "write"

FilesOf(i) == {final[i], temp[i]} \ {None}

OwnedInv ==
  /\ \A i, j \in Id : i # j => FilesOf(i) \cap FilesOf(j) = {}
  /\ \A i \in Id : final[i] # None => final[i] # temp[i]
  /\ \A p \in Process, i \in Id : handle[p] \in FilesOf(i) => session[p] = i

\* A session that one process has.
SoleInv(i) ==
  /\ saved[i] \ cleared \subseteq Load(i)
  /\ \A p, q \in Process : session[p] = i /\ session[q] = i => p = q
  /\ \A p \in Process : session[p] = i =>
       /\ saved[i] \ cleared \subseteq talk[p]
       /\ saving[p] = "write" => handle[p] = temp[i] /\ content[temp[i]] = Torn
       /\ saving[p] = "replace" => temp[i] # None /\ content[temp[i]] = talk[p]

IInv == TypeOK /\ PlaceInv /\ OwnedInv /\ \A i \in Id \ ambiguous : SoleInv(i)
===============================================================================
