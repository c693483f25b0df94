-------------------------------- MODULE Rewind --------------------------------
(***************************************************************************)
(* The history of file edits (src/lilbot/core/history.py): before the lead's  *)
(* edit tools run, the file is copied to <seq>.bak and a line is appended to  *)
(* journal.jsonl; /rewind restores the copies, newest first, and rewrites the *)
(* journal.  Patches and the edits of subagents are not recorded.  All of it  *)
(* is on disk and done in steps, and the process may end between two of them. *)
(***************************************************************************)
EXTENDS Naturals, Sequences

CONSTANTS
  Path,        \* files of the workspace
  MaxEdits,    \* bound of the model: changes of files
  MaxStops     \* bound of the model: ends of the process

Absent  == 0     \* content of a file that does not exist
BadLine == [seq |-> 0]

VARIABLES
  content,   \* what each file holds: a version, 0 for no file
  backup,    \* the .bak files: version saved under each number, or Missing
  journal,   \* the lines of journal.jsonl; a line that was cut off is BadLine
  doing,     \* where the lead is in an edit or a rewind
  entry,     \* the entry being recorded, or the edit under way
  undo,      \* entries a rewind has yet to undo, newest first
  keep,      \* entries the rewind will leave in the journal
  undone,    \* history: entries the rewind has undone
  holes,     \* history: numbers whose backup an interrupted rewind has removed
  edits, stops

vars == << content, backup, journal, doing, entry, undo, keep, undone, holes, edits, stops >>

Seqs == 1..(MaxEdits + 1)
Missing == MaxEdits + 1
NoEntry == [seq |-> 0, path |-> CHOOSE p \in Path : TRUE, existed |-> FALSE, was |-> Absent]

\* list(): the lines up to the first that cannot be parsed.
Readable(written) ==
  LET bad == {i \in DOMAIN written : written[i] = BadLine}
  IN  IF bad = {} THEN written
      ELSE SubSeq(written, 1, (CHOOSE i \in bad : \A j \in bad : i <= j) - 1)
List == Readable(journal)

\* Mutant: the number of the last entry is used again.
NextSeqOfLast == IF List = << >> THEN 1 ELSE List[Len(List)].seq

\* _next_seq
NextSeq == IF List = << >> THEN 1 ELSE List[Len(List)].seq + 1

\* A line is appended behind the last newline: to a line that was cut off, if it has none.
Appended(line) ==
  IF journal # << >> /\ journal[Len(journal)] = BadLine THEN journal
  ELSE Append(journal, line)

(***************************************************************************)
(* An edit by the lead: record, then the tool                              *)
(***************************************************************************)

\* record: the number is drawn and an existing file copied.
Copy(p) ==
  /\ doing = "nothing"
  /\ edits < MaxEdits
  /\ entry' = [seq |-> NextSeq, path |-> p, existed |-> content[p] # Absent,
               was |-> content[p]]
  /\ backup' = IF content[p] # Absent THEN [backup EXCEPT ![NextSeq] = content[p]] ELSE backup
  /\ doing' = "recording"
  /\ UNCHANGED << content, journal, undo, keep, undone, holes, edits, stops >>

\* The line is appended.
Log ==
  /\ doing = "recording"
  /\ journal' = Appended(entry)
  /\ holes' = holes \ {entry.seq}
  /\ doing' = "editing"
  /\ UNCHANGED << content, backup, entry, undo, keep, undone, edits, stops >>

\* An OSError on the way is swallowed, and the edit goes on unrecorded.
LogFails ==
  /\ doing = "recording"
  /\ doing' = "editing"
  /\ UNCHANGED << content, backup, journal, entry, undo, keep, undone, holes, edits, stops >>

\* write_file and edit_file write a new version.
Edit ==
  /\ doing = "editing"
  /\ edits' = edits + 1
  /\ content' = [content EXCEPT ![entry.path] = edits']
  /\ doing' = "nothing"
  /\ UNCHANGED << backup, journal, entry, undo, keep, undone, holes, stops >>

\* Permission denied, text not found or an exception: the entry stays in the journal.
EditFails ==
  /\ doing = "editing"
  /\ edits' = edits + 1
  /\ doing' = "nothing"
  /\ UNCHANGED << content, backup, journal, entry, undo, keep, undone, holes, stops >>

\* apply_patch, which git applies as a whole and the fallback file by file up to the
\* first that does not fit; or an edit of a subagent, a command or the user.
Patch(touched) ==
  /\ doing = "nothing"
  /\ edits < MaxEdits
  /\ edits' = edits + 1
  /\ content' = [p \in Path |-> IF p \in touched THEN edits' ELSE content[p]]
  /\ UNCHANGED << backup, journal, doing, entry, undo, keep, undone, holes, stops >>

(***************************************************************************)
(* /rewind                                                                 *)
(***************************************************************************)

Reversed(s) == [i \in DOMAIN s |-> s[Len(s) + 1 - i]]

Outcome(e, restored) == [seq |-> e.seq, path |-> e.path, was |-> e.was, restored |-> restored]

\* Mutant: the oldest entry is undone first.
BeginRewindOldestFirst(steps) ==
  /\ doing = "nothing"
  /\ List # << >>
  /\ LET left == IF steps < Len(List) THEN Len(List) - steps ELSE 0
     IN  /\ keep' = SubSeq(List, 1, left)
         /\ undo' = SubSeq(List, left + 1, Len(List))
  /\ undone' = << >>
  /\ doing' = "restoring"
  /\ UNCHANGED << content, backup, journal, entry, holes, edits, stops >>

\* The last steps entries, or all of them.
BeginRewind(steps) ==
  /\ doing = "nothing"
  /\ List # << >>
  /\ LET left == IF steps < Len(List) THEN Len(List) - steps ELSE 0
     IN  /\ keep' = SubSeq(List, 1, left)
         /\ undo' = Reversed(SubSeq(List, left + 1, Len(List)))
  /\ undone' = << >>
  /\ doing' = "restoring"
  /\ UNCHANGED << content, backup, journal, entry, holes, edits, stops >>

\* The copy is written back, a file that was created is removed; without its copy an
\* entry is skipped.
Restore ==
  /\ doing = "restoring"
  /\ undo # << >>
  /\ LET e == Head(undo)
     IN  content' = [content EXCEPT ![e.path] =
           IF ~e.existed THEN Absent
           ELSE IF backup[e.seq] # Missing THEN backup[e.seq] ELSE @]
  /\ doing' = "unlinking"
  /\ UNCHANGED << backup, journal, entry, undo, keep, undone, holes, edits, stops >>

\* The copy is removed, and the next entry is looked at.
Unlink ==
  /\ doing = "unlinking"
  /\ backup' = IF Head(undo).existed THEN [backup EXCEPT ![Head(undo).seq] = Missing]
                                     ELSE backup
  /\ undone' = Append(undone, Outcome(Head(undo), TRUE))
  /\ undo' = Tail(undo)
  /\ doing' = "restoring"
  /\ UNCHANGED << content, journal, entry, keep, holes, edits, stops >>

\* An OSError leaves file and copy alone; the entry is dropped all the same.
RestoreFails ==
  /\ doing = "restoring"
  /\ undo # << >>
  /\ undo' = Tail(undo)
  /\ undone' = Append(undone, Outcome(Head(undo), FALSE))
  /\ UNCHANGED << content, backup, journal, doing, entry, keep, holes, edits, stops >>

\* The journal is opened, which empties it, ...
OpenJournal ==
  /\ doing = "restoring"
  /\ undo = << >>
  /\ journal' = << >>
  /\ doing' = "rewriting"
  /\ UNCHANGED << content, backup, entry, undo, keep, undone, holes, edits, stops >>

\* ... and what is left is written.
WriteJournal ==
  /\ doing = "rewriting"
  /\ journal' = keep
  /\ undone' = << >>
  /\ doing' = "nothing"
  /\ UNCHANGED << content, backup, entry, undo, keep, holes, edits, stops >>

\* The process ends.  A line that was being appended may be cut off, a file that was
\* being written be broken; a rewind that was under way is not taken up again.
Stop ==
  /\ stops < MaxStops
  /\ doing # "nothing"
  /\ stops' = stops + 1
  /\ journal' \in IF doing = "recording" THEN {journal, Appended(BadLine)} ELSE {journal}
  /\ edits' = IF doing = "editing" THEN edits + 1 ELSE edits
  /\ content' \in IF doing = "editing"
                  THEN {content, [content EXCEPT ![entry.path] = edits']} ELSE {content}
  /\ holes' = holes \cup {undone[i].seq : i \in {j \in DOMAIN undone : undone[j].restored}}
  /\ doing' = "nothing"
  /\ undo' = << >> /\ undone' = << >> /\ keep' = << >>
  /\ UNCHANGED << backup, entry >>

Init ==
  /\ content \in [Path -> {Absent}]
  /\ backup = [s \in Seqs |-> Missing]
  /\ journal = << >>
  /\ doing = "nothing"
  /\ entry = NoEntry
  /\ undo = << >> /\ keep = << >> /\ undone = << >>
  /\ holes = {}
  /\ edits = 0 /\ stops = 0

Next ==
  \/ \E p \in Path : Copy(p)
  \/ Log \/ LogFails \/ Edit \/ EditFails
  \/ \E touched \in SUBSET Path \ {{}} : Patch(touched)
  \/ \E steps \in 1..2 : BeginRewind(steps)
  \/ Restore \/ Unlink \/ RestoreFails \/ OpenJournal \/ WriteJournal
  \/ Stop

Spec == Init /\ [][Next]_vars

(***************************************************************************)
(* Properties                                                              *)
(***************************************************************************)

Undone(e) == \E i \in DOMAIN undone : undone[i].seq = e.seq /\ undone[i].restored

\* A copy never stands for another edit than its own, although numbers are used again
\* after a rewind, after a journal was lost and behind a line that was cut off: what
\* /history lists can be restored, except what an interrupted rewind has restored.
BackupsAreTrue ==
  doing # "recording" =>
    \A i \in DOMAIN List :
      LET e == List[i]
      IN  e.existed => \/ backup[e.seq] = e.was
                       \/ backup[e.seq] = Missing /\ (e.seq \in holes \/ Undone(e))

\* When a rewind is through, every file holds what it held before the oldest of the
\* undone edits, however often it was edited, and whether or not the edits had
\* succeeded; a file that could not be written is reported.
RewindRestores ==
  [][doing = "restoring" /\ doing' = "rewriting" =>
       \A i \in DOMAIN undone :
         (\A j \in DOMAIN undone : undone[j].path = undone[i].path => undone[j].seq >= undone[i].seq)
           => \/ content[undone[i].path] = undone[i].was
              \/ ~undone[i].restored \/ undone[i].seq \in holes]_vars

\* Why they hold: the entry in line i has the number i, so a number is drawn again only
\* when its entry is in the journal no more; and a rewind goes from the last line down,
\* so what it does to a file last is what its oldest edit calls for.
Versions == 0..MaxEdits
Entries == [seq: Seqs, path: Path, existed: BOOLEAN, was: Versions]
Outcomes == [seq: Seqs, path: Path, was: Versions, restored: BOOLEAN]
Numbered(list) ==
  /\ list \in Seq(Entries)
  /\ \A i \in DOMAIN list : list[i].seq = i /\ (list[i].existed <=> list[i].was # Absent)

TypeOK ==
  /\ doing \in {"nothing", "recording", "editing", "restoring", "unlinking", "rewriting"}
  /\ edits \in 0..MaxEdits /\ stops \in Nat
  /\ content \in [Path -> Versions]
  /\ backup \in [Seqs -> Versions \cup {Missing}]
  /\ holes \subseteq Seqs
  /\ keep \in Seq(Entries) /\ undo \in Seq(Entries) /\ undone \in Seq(Outcomes)

Restoring == doing \in {"restoring", "unlinking"}

JournalInv ==
  /\ Numbered(List) /\ journal \in {List, Append(List, BadLine)}
  /\ Len(List) <= IF doing = "editing" THEN edits + 1 ELSE edits
  /\ doing \in {"recording", "editing"} => edits < MaxEdits /\ entry \in Entries
  /\ doing = "recording" =>
       /\ entry.seq = Len(List) + 1 /\ (entry.existed <=> entry.was # Absent)
       /\ entry.existed => backup[entry.seq] = entry.was

\* How far a rewind has come.
PlaceInv ==
  /\ ~Restoring /\ doing # "rewriting" => undone = << >>
  /\ doing = "rewriting" => Numbered(keep) /\ Len(keep) <= edits
  /\ Restoring =>
       /\ Len(keep) + Len(undo) + Len(undone) = Len(List)
       /\ \A i \in DOMAIN keep : keep[i] = List[i]
       /\ \A i \in DOMAIN undo : undo[i] = List[Len(keep) + Len(undo) + 1 - i]
       /\ \A i \in DOMAIN undone : undone[i].seq = Len(List) + 1 - i
  /\ doing = "unlinking" => undo # << >>

Copied(e) ==
  e.existed => backup[e.seq] = e.was \/ (backup[e.seq] = Missing /\ e.seq \in holes)

CopyInv ==
  /\ \A i \in DOMAIN List :
       \/ Copied(List[i])
       \/ Restoring /\ i > Len(keep) + Len(undo) /\ backup[i] = Missing /\ Undone(List[i])
  /\ doing = "rewriting" => \A i \in DOMAIN keep : Copied(keep[i])

\* The last that was done to the file of an entry was to undo that entry.
LastOfItsFile(i) ==
  \A j \in DOMAIN undone : undone[j].path = undone[i].path => undone[j].seq >= undone[i].seq

ContentInv ==
  /\ Restoring => \A i \in DOMAIN undone :
       LastOfItsFile(i) /\ (doing = "unlinking" => undone[i].path # Head(undo).path)
         => \/ content[undone[i].path] = undone[i].was
            \/ ~undone[i].restored \/ undone[i].seq \in holes
  /\ doing = "unlinking" =>
       content[Head(undo).path] = Head(undo).was \/ Head(undo).seq \in holes

IInv == TypeOK /\ JournalInv /\ PlaceInv /\ CopyInv /\ ContentInv
=============================================================================
