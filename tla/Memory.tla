-------------------------------- MODULE Memory --------------------------------
(***************************************************************************)
(* The memory store (src/lilbot/memory/file_store.py), the extraction that    *)
(* fills it (memory/extract.py, Agent._maybe_extract) and the tools that save  *)
(* and delete (src/lilbot/tools/builtin.py).                                 *)
(*                                                                         *)
(* A memory is a file of its own, named after the slug of its name; the index  *)
(* MEMORY.md is written anew after every change.  Nothing is locked: threads   *)
(* of the lead, of its extraction and of subagents come between the steps.     *)
(***************************************************************************)
EXTENDS Naturals

CONSTANTS
  Thread,      \* threads that save or delete
  FoldsCase,   \* the file system takes memory.md and MEMORY.md for one file
  MaxSaves,    \* bound of the model: calls of add
  MaxDeletes   \* bound of the model: calls of delete

\* A name with its slug.  Names without a letter or digit all have the slug "memory".
Names == {"plan b", "Plan b!", "memory"}
Slug(name) == IF name = "memory" THEN "memory" ELSE "plan-b"

\* user and feedback go to the home directory, the rest to the workspace.
Dirs == {"user", "project"}

VARIABLES
  files,      \* files of both directories, the index not among them
  at,         \* for each thread the call it is in
  stored,     \* history: memories saved and not deleted
  alone,      \* history: slugs that never had two calls at work on them at a time
  saves, deletes

vars == << files, at, stored, alone, saves, deletes >>

(***************************************************************************)
(* Files.  suffix is 0, or the memory whose id the name ends with; entry is   *)
(* the memory the file holds, or 0 if it does not parse as one.               *)
(***************************************************************************)
Entry(id, name) == [id |-> id, name |-> name]
NoEntry == Entry(0, "memory")
File(dir, slug, suffix, entry) ==
  [dir |-> dir, slug |-> slug, suffix |-> suffix, entry |-> entry]
Same(f, g) == f.dir = g.dir /\ f.slug = g.slug /\ f.suffix = g.suffix

Put(f) == {g \in files : ~Same(f, g)} \cup {f}

\* _scan: every file that parses.
Scan(dir, all) == {f \in all : f.dir = dir /\ f.entry # NoEntry}
Listed(all) == {f.entry : f \in Scan("user", all) \cup Scan("project", all)}

\* _unique_path: named after the slug alone if there is no such file.  When case does
\* not count, the index is one, once it has been written.
IndexIs(dir) == FoldsCase /\ \E f \in files : f.dir = dir
\* Mutant: a file of that name is written over.
UniquePathOverwrites(dir, name, id) == File(dir, Slug(name), 0, Entry(id, name))

UniquePath(dir, name, id) ==
  LET taken == \/ \E f \in files : Same(f, File(dir, Slug(name), 0, NoEntry))
               \/ Slug(name) = "memory" /\ IndexIs(dir)
  IN  File(dir, Slug(name), IF taken THEN id ELSE 0, Entry(id, name))

\* _rewrite_index replaces a memory.md without a suffix, if that is the same file.
Indexed(dir, all) ==
  {IF FoldsCase /\ f.dir = dir /\ f.slug = "memory" /\ f.suffix = 0
   THEN [f EXCEPT !.entry = NoEntry] ELSE f : f \in all}

(***************************************************************************)
(* Calls                                                                   *)
(***************************************************************************)
Idle == [pc |-> "idle", slug |-> "", file |-> File("user", "", 0, NoEntry),
         bulk |-> FALSE, names |-> {}]
At(t, pc) == at[t].pc = pc
Move(t, record) == at' = [at EXCEPT ![t] = record]

\* Slugs on which another thread is at work.
Contended(t) == {at[u].slug : u \in {u \in Thread \ {t} : ~At(u, "idle")}}
Enter(t, slug) == alone' = IF slug \in Contended(t) THEN alone \ {slug} ELSE alone

\* add: the path is chosen, ...  An extraction adds from its thread the names that were
\* not listed when it looked, and so chooses again for each.
Choose(t, dir, name) ==
  /\ saves < MaxSaves
  /\ At(t, "idle") \/ (At(t, "extracting") /\ name \notin at[t].names)
  /\ saves' = saves + 1
  /\ Move(t, [at[t] EXCEPT !.pc = "chosen", !.slug = Slug(name),
                           !.file = UniquePath(dir, name, saves + 1),
                           !.names = IF at[t].bulk THEN @ \cup {name} ELSE {}])
  /\ Enter(t, Slug(name))
  /\ UNCHANGED << files, stored, deletes >>

\* ... the file is opened, which empties it, ...
Create(t) ==
  /\ At(t, "chosen")
  /\ files' = Put([at[t].file EXCEPT !.entry = NoEntry])
  /\ Move(t, [at[t] EXCEPT !.pc = "opened"])
  /\ UNCHANGED << stored, alone, saves, deletes >>

\* ... and written.
Fill(t) ==
  /\ At(t, "opened")
  /\ files' = Put(at[t].file)
  /\ stored' = stored \cup {at[t].file.entry}
  /\ Move(t, [at[t] EXCEPT !.pc = "written"])
  /\ UNCHANGED << alone, saves, deletes >>

\* _rewrite_index ends add and delete.  An extraction goes on with its next item.
WriteIndex(t) ==
  /\ At(t, "written")
  /\ files' = Indexed(at[t].file.dir, files)
  /\ Move(t, IF at[t].bulk THEN [at[t] EXCEPT !.pc = "extracting", !.slug = ""] ELSE Idle)
  /\ UNCHANGED << stored, alone, saves, deletes >>

\* An extraction has its answer and looks which names there are.
Extract(t) ==
  /\ At(t, "idle")
  /\ \A u \in Thread : ~at[u].bulk      \* _extract_lock
  /\ Move(t, [Idle EXCEPT !.pc = "extracting", !.bulk = TRUE,
                          !.names = {m.name : m \in Listed(files)}])
  /\ UNCHANGED << files, stored, alone, saves, deletes >>

ExtractionEnds(t) ==
  /\ At(t, "extracting")
  /\ Move(t, Idle)
  /\ UNCHANGED << files, stored, alone, saves, deletes >>

\* delete: _find_path looks through the home directory first, by name or by id, ...
Keys == {Entry(0, name) : name \in Names} \cup {Entry(id, "") : id \in 1..MaxSaves}
Matches(dir, key) ==
  {f \in Scan(dir, files) : f.entry.id = key.id \/ f.entry.name = key.name}
Found(key) ==
  IF Matches("user", key) # {} THEN Matches("user", key) ELSE Matches("project", key)

Find(t, key) ==
  /\ At(t, "idle")
  /\ deletes < MaxDeletes
  /\ deletes' = deletes + 1
  /\ \E f \in Found(key) :
       /\ Move(t, [Idle EXCEPT !.pc = "found", !.slug = f.slug, !.file = f])
       /\ Enter(t, f.slug)
  /\ UNCHANGED << files, stored, saves >>

\* ... and the file is removed, whatever it holds by now; if it is gone, delete returns.
Unlink(t) ==
  /\ At(t, "found")
  /\ IF \E f \in files : Same(f, at[t].file)
     THEN /\ files' = {f \in files : ~Same(f, at[t].file)}
          /\ Move(t, [at[t] EXCEPT !.pc = "written"])
          /\ stored' = stored \ {at[t].file.entry}
     ELSE Move(t, Idle) /\ UNCHANGED << files, stored >>
  /\ UNCHANGED << alone, saves, deletes >>

\* The process ends, and with it every call.
Die ==
  /\ \E t \in Thread : ~At(t, "idle")
  /\ at' = [t \in Thread |-> Idle]
  /\ UNCHANGED << files, stored, alone, saves, deletes >>

Init ==
  /\ files = {}
  /\ at = [t \in Thread |-> Idle]
  /\ stored = {}
  /\ alone = {Slug(name) : name \in Names}
  /\ saves = 0 /\ deletes = 0

Next ==
  \/ \E t \in Thread :
       \/ \E dir \in Dirs, name \in Names : Choose(t, dir, name)
       \/ Create(t) \/ Fill(t) \/ WriteIndex(t)
       \/ Extract(t) \/ ExtractionEnds(t)
       \/ \E key \in Keys : Find(t, key)
       \/ Unlink(t)
  \/ Die

Spec == Init /\ [][Next]_vars

(***************************************************************************)
(* Properties                                                              *)
(***************************************************************************)

\* What was saved is listed until it is deleted, and what was deleted is not, however
\* calls overlap and wherever the process ends, as long as no two calls are at work on
\* names of one slug at a time: two saves may choose one path, and a delete may remove
\* a file that has been written anew since it was found.
MemoriesKept ==
  \A slug \in alone :
    {m \in Listed(files) : Slug(m.name) = slug} = {m \in stored : Slug(m.name) = slug}

\* Why it holds where case counts: memories have ids of their own, no two files have one
\* name, and what a thread is about to do to a file of its slug nobody else prevents.
Slugs == {Slug(name) : name \in Names}
Entries == [id: Nat, name: Names]
Files == [dir: Dirs, slug: Slugs \cup {""}, suffix: Nat, entry: Entries]
Calls == [pc: {"idle", "extracting", "chosen", "opened", "written", "found"},
          slug: Slugs \cup {""}, file: Files, bulk: BOOLEAN, names: SUBSET Names]

TypeOK ==
  /\ files \subseteq Files /\ at \in [Thread -> Calls]
  /\ stored \subseteq Entries /\ alone \subseteq Slugs /\ saves \in Nat

FilesInv ==
  /\ \A f \in files :
       /\ f.suffix <= saves
       /\ f.entry # NoEntry =>
            f.entry.id \in 1..saves /\ Slug(f.entry.name) = f.slug
  /\ \A f, g \in files :
       Same(f, g) \/ (f.entry # NoEntry /\ f.entry.id = g.entry.id) => f = g

\* A memory that has been given an id and is not in its file.
Unwritten(t) == at[t].pc \in {"chosen", "opened"}

SlugInv(t) ==
  /\ at[t].pc \in {"idle", "extracting"} => at[t].slug = ""
  /\ Unwritten(t) \/ at[t].pc = "found" =>
       /\ at[t].slug = at[t].file.slug /\ at[t].file.entry.id \in 1..saves
       /\ Slug(at[t].file.entry.name) = at[t].file.slug /\ at[t].file.suffix <= saves

IdInv(t) ==
  Unwritten(t) =>
    /\ \A f \in files : f.entry.id # at[t].file.entry.id
    /\ \A u \in Thread \ {t} : Unwritten(u) => at[u].file.entry.id # at[t].file.entry.id

AloneInv(t) ==
  at[t].slug \in alone =>
    /\ \A u \in Thread \ {t} : at[u].slug # at[t].slug
    /\ at[t].pc = "chosen" => \A f \in files : ~Same(f, at[t].file)
    /\ at[t].pc = "opened" => \A f \in files : Same(f, at[t].file) => f.entry = NoEntry
    /\ at[t].pc = "found" => at[t].file \in files

CallInv(t) == SlugInv(t) /\ IdInv(t) /\ AloneInv(t)

IInv == TypeOK /\ FilesInv /\ (\A t \in Thread : CallInv(t)) /\ MemoriesKept
=============================================================================
