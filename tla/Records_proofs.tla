---------------------------- MODULE Records_proofs ----------------------------
(***************************************************************************)
(* Proofs about the components that keep records: the task board, session    *)
(* notes, memories, the file history, saved sessions and the files of the     *)
(* built-in tools.  Each has its inductive invariant in its own module.      *)
(***************************************************************************)
EXTENDS Components, Induction, Sequences, SequenceTheorems, FiniteSetTheorems

(***************************************************************************)
(* The task board                                                          *)
(***************************************************************************)
LEMMA BoardSteps == [Next]_vars => B!Next \/ UNCHANGED boardVars
BY DEF Next, vars

LEMMA BoardInit == B!Init => B!IInv
BY DEF B!Init, B!IInv, B!OnDisk, B!Empty, B!CallInv, B!FileInv, B!Holds, B!Pending,
       B!Returned, B!Number

\* A step of the call of one thread concerns nobody else while calls do not overlap.
LEMMA BoardCall ==
  ASSUME B!IInv, apart, NEW m \in Member, step[m] # "idle",
         UNCHANGED << apart, uses, deaths >>,
         step' = [step EXCEPT ![m] = step'[m]],
         store' = [next |-> store'.next, tasks |-> store'.tasks],
         use' = [use EXCEPT ![m] = use'[m]], data' = [data EXCEPT ![m] = data'[m]],
         given' \in [B!Number -> Nat],
         B!CallInv(m)', B!FileInv', \A n \in B!Number : given'[n] <= 1
  PROVE  B!IInv'
<1>1. /\ \A n \in Member \ {m} : step[n] = "idle" /\ step'[n] = "idle"
  BY DEF B!IInv
<1>2. \A n \in Member : step'[n] # "idle" => n = m
  BY <1>1
<1>3. \A n \in Member : B!CallInv(n)'
  BY <1>1 DEF B!CallInv
<1> QED BY <1>2, <1>3 DEF B!IInv

LEMMA BoardNext == B!IInv /\ (B!Next \/ UNCHANGED boardVars) => B!IInv'
<1> SUFFICES ASSUME B!IInv, B!Next \/ UNCHANGED boardVars PROVE B!IInv'
  OBVIOUS
<1> USE DEF B!IInv, B!CallInv, B!FileInv, B!Holds, B!Pending, B!Returned, B!Step
<1>1. CASE UNCHANGED boardVars
  BY <1>1 DEF boardVars
<1>2. ASSUME NEW m \in Member, NEW u \in B!Use, B!Enter(m, u) PROVE B!IInv'
  <2>1. u[1] # "created"
    BY DEF B!Use
  <2> QED BY <1>2, <2>1 DEF B!Enter
<1>3. ASSUME NEW m \in Member, B!Read(m) PROVE B!IInv'
  BY <1>3 DEF B!Read
<1>4. ASSUME NEW m \in Member, B!Clear(m) PROVE B!IInv'
  <2>1. /\ store' = [next |-> data[m].next, tasks |-> << >>]
        /\ step' = [step EXCEPT ![m] = "fill"] /\ UNCHANGED << disk, use, data, given, apart >>
    BY <1>4 DEF B!Clear
  <2>2. /\ store'.next = data[m].next /\ DOMAIN store'.tasks = {}
        /\ store' = [next |-> store'.next, tasks |-> store'.tasks]
    BY <2>1
  <2>3. CASE ~apart
    BY <2>1, <2>2, <2>3
  <2>4. CASE apart
    <3>1. B!CallInv(m)' /\ B!FileInv'
      BY <1>4, <2>1, <2>2, <2>4 DEF B!Clear
    <3>2. \A n \in B!Number : given'[n] <= 1
      BY <2>1, <2>4
    <3> HIDE DEF B!CallInv, B!FileInv
    <3> QED BY <1>4, <2>1, <2>2, <2>4, <3>1, <3>2, BoardCall DEF B!Clear
  <2> QED BY <2>3, <2>4
<1>5. ASSUME NEW m \in Member, B!Fill(m) PROVE B!IInv'
  BY <1>5 DEF B!Merged, B!Fill
<1>6. ASSUME NEW m \in Member, B!ReturnUnchanged(m) PROVE B!IInv'
  BY <1>6 DEF B!ReturnUnchanged
<1>7. ASSUME NEW m \in Member, B!Create(m) PROVE B!IInv'
  <2> DEFINE n == store.next
  <2>1. /\ use[m][1] = "create"
        /\ use' = [use EXCEPT ![m] = << "created", n >>] /\ step' = [step EXCEPT ![m] = "save"]
        /\ UNCHANGED << disk, data, given, apart >>
    BY <1>7 DEF B!Create
  <2>2. /\ store'.next = n + 1
        /\ DOMAIN store'.tasks = {n} \cup DOMAIN store.tasks
        /\ store' = [next |-> store'.next, tasks |-> store'.tasks]
    BY <1>7 DEF B!Create, B!Merged, B!NewTask
  <2>3. /\ use'[m][1] = "created" /\ use'[m][2] = n /\ step'[m] = "save"
        /\ \A k \in Member \ {m} : use'[k] = use[k] /\ step'[k] = step[k]
    BY <2>1
  <2>4. CASE ~apart
    BY <2>1, <2>2, <2>3, <2>4
  <2> SUFFICES ASSUME apart PROVE B!IInv'
    BY <2>4
  <2>5. B!Holds(store) /\ step[m] = "apply"
    BY <1>7 DEF B!Create
  <2>6. n \in Nat /\ n \notin B!Returned /\ B!Returned' = B!Returned
    BY <2>1, <2>5
  <2>7. B!CallInv(m)'
    BY <2>2, <2>3, <2>5, <2>6
  <2>8. B!FileInv'
    BY <2>1, <2>3, <2>5
  <2>9. \A k \in B!Number : given'[k] <= 1
    BY <2>1
  <2> HIDE DEF B!CallInv, B!FileInv
  <2> QED BY <1>7, <2>1, <2>2, <2>3, <2>7, <2>8, <2>9, BoardCall DEF B!Create
<1>8. ASSUME NEW m \in Member, B!Update(m) PROVE B!IInv'
  BY <1>8 DEF B!Update
<1>9. ASSUME NEW m \in Member, B!Open(m) PROVE B!IInv'
  BY <1>9 DEF B!Torn, B!Open
<1>10. ASSUME NEW m \in Member, B!Write(m) PROVE B!IInv'
  <2>1. /\ disk' = B!OnDisk(data[m]) /\ step' = [step EXCEPT ![m] = "idle"]
        /\ UNCHANGED << store, use, data, apart, uses, deaths >>
        /\ step[m] = "write"
        /\ given' = IF use[m][1] = "created" THEN [given EXCEPT ![use[m][2]] = @ + 1] ELSE given
    BY <1>10 DEF B!Write
  <2>2. given' \in [B!Number -> Nat]
    <3>1. given \in [B!Number -> Nat]
      OBVIOUS
    <3> DEFINE x == use[m][2]
    <3>2. [given EXCEPT ![x] = given[x] + 1] \in [B!Number -> Nat]
      <4> HIDE DEF x
      <4>1. \A k \in B!Number : given[k] \in Nat /\ given[k] + 1 \in Nat
        BY <3>1
      <4>2. \A k \in B!Number :
              [given EXCEPT ![x] = given[x] + 1][k] = IF k = x THEN given[k] + 1 ELSE given[k]
        BY <3>1
      <4> QED BY <3>1, <4>1, <4>2
    <3> QED BY <2>1, <3>1, <3>2
  <2>3. CASE ~apart
    BY <2>1, <2>2, <2>3
  <2>4. CASE apart
    <3>1. B!Holds(data[m]) /\ B!Pending(m, data[m])
      BY <2>1, <2>4
    <3>2. /\ disk'.whole /\ disk'.next = data[m].next /\ disk'.tasks = data[m].tasks
      BY <2>1 DEF B!OnDisk
    <3>3. \A n \in B!Number : given'[n] <= 1 /\ (given'[n] > 0 => n \in DOMAIN data[m].tasks)
      BY <2>1, <2>4, <3>1
    <3>4. B!FileInv'
      BY <3>1, <3>2, <3>3
    <3>5. B!CallInv(m)'
      BY <2>1
    <3> HIDE DEF B!CallInv, B!FileInv
    <3> QED BY <2>1, <2>2, <2>4, <3>3, <3>4, <3>5, BoardCall
  <2> QED BY <2>3, <2>4
<1>11. CASE B!Restart
  BY <1>11 DEF B!Restart, B!Empty
<1> QED BY <1>1, <1>2, <1>3, <1>4, <1>5, <1>6, <1>7, <1>8, <1>9, <1>10, <1>11 DEF B!Next

\* As long as calls of SharedTaskStore do not overlap, no number is given to two tasks, and
\* every task that create returned is in the file unless a restart broke its writing:
\* whatever a call carries from the file to the object and back has all returned tasks.
THEOREM TasksStayOnBoard == Spec => []BoardKeepsTasks
<1>1. Init => B!IInv
  BY BoardInit DEF Init
<1>2. B!IInv /\ [Next]_vars => B!IInv'
  BY BoardNext, BoardSteps
<1>3. B!IInv => BoardKeepsTasks
  BY DEF B!IInv, B!FileInv, B!Holds, BoardKeepsTasks, B!BoardKeepsTasks
<1> QED BY <1>1, <1>2, <1>3, PTL DEF Spec

(***************************************************************************)
(* Session notes                                                           *)
(***************************************************************************)
LEMMA NotesSteps == [Next]_vars => N!Next \/ UNCHANGED notesVars
BY DEF Next, vars

LEMMA NotesInit == N!Init => N!IInv
<1>1. N!Template \in [Section -> Nat]
  BY DEF N!Template
<1>2. [j \in Job |-> N!Template] \in [Job -> [Section -> Nat]]
  BY <1>1
<1>3. ASSUME N!Init PROVE N!TypeOK
  <2>1. doc \in [Section -> Nat] /\ latest \in [Section -> Nat]
        /\ draft \in [Job -> [Section -> Nat]]
    BY <1>1, <1>2, <1>3 DEF N!Init
  <2>2. /\ torn \in BOOLEAN /\ lost \in BOOLEAN /\ updates \in Nat
        /\ stage \in [Job -> {"idle", "waiting", "asking", "merged", "writing"}]
        /\ number \in [Job -> Nat]
    BY <1>3 DEF N!Init
  <2> QED BY <2>1, <2>2 DEF N!TypeOK
<1> QED BY <1>3 DEF N!Init, N!IInv, N!LockInv, N!DraftInv

LEMMA NotesNext == N!IInv /\ (N!Next \/ UNCHANGED notesVars) => N!IInv'
<1> SUFFICES ASSUME N!IInv, N!Next \/ UNCHANGED notesVars PROVE N!IInv'
  OBVIOUS
<1> USE DEF N!Goto
<1>1. ASSUME NEW j \in Job, N!Update(j) PROVE N!IInv'
  <2>1. /\ stage[j] = "idle" /\ stage' = [stage EXCEPT ![j] = "waiting"]
        /\ updates' = updates + 1 /\ number' = [number EXCEPT ![j] = updates']
        /\ UNCHANGED << doc, torn, lock, draft, latest, lost >>
    BY <1>1 DEF N!Update
  <2>2. N!TypeOK'
    BY <2>1 DEF N!IInv, N!TypeOK
  <2> QED BY <2>1, <2>2 DEF N!IInv, N!TypeOK, N!LockInv, N!DraftInv
<1>2. ASSUME NEW j \in Job, N!Begin(j) PROVE N!IInv'
  <2>1. /\ stage[j] = "waiting" /\ lock = "free" /\ lock' = j
        /\ stage' = [stage EXCEPT ![j] = "asking"]
        /\ UNCHANGED << doc, torn, draft, updates, number, latest, lost >>
    BY <1>2 DEF N!Begin
  <2>2. N!TypeOK'
    BY <2>1 DEF N!IInv, N!TypeOK
  <2>3. \A k \in Job : stage[k] \notin {"asking", "merged", "writing"}
    BY <2>1, JobsAssumption DEF N!IInv, N!LockInv
  <2> QED BY <2>1, <2>2, <2>3 DEF N!IInv, N!TypeOK, N!LockInv, N!DraftInv
<1>3. ASSUME NEW j \in Job, N!Decline(j) \/ N!OpenFails(j) PROVE N!IInv'
  <2>1. /\ stage[j] \in {"asking", "merged"} /\ stage' = [stage EXCEPT ![j] = "idle"]
        /\ lock' = IF lock = j THEN "free" ELSE lock
        /\ UNCHANGED << doc, torn, draft, updates, number, latest, lost >>
    BY <1>3 DEF N!Decline, N!OpenFails, N!Leave
  <2>2. N!TypeOK'
    BY <2>1 DEF N!IInv, N!TypeOK
  <2> QED BY <2>1, <2>2 DEF N!IInv, N!TypeOK, N!LockInv, N!DraftInv
<1>4. ASSUME NEW j \in Job, N!Merge(j) PROVE N!IInv'
  <2>1. PICK changed \in SUBSET Section :
          draft' = [draft EXCEPT ![j] = [s \in Section |-> IF s \in changed THEN number[j]
                                                           ELSE N!Load[s]]]
    BY <1>4 DEF N!Merge
  <2>2. /\ stage[j] = "asking" /\ stage' = [stage EXCEPT ![j] = "merged"]
        /\ UNCHANGED << doc, torn, lock, updates, number, latest, lost >>
    BY <1>4 DEF N!Merge
  <2>3. ~torn /\ N!Load = doc
    BY <2>2 DEF N!IInv, N!TypeOK, N!LockInv, N!Load
  <2>4. N!TypeOK'
    BY <2>1, <2>2, <2>3 DEF N!IInv, N!TypeOK
  <2>5. N!LockInv'
    BY <2>2, <2>3 DEF N!IInv, N!TypeOK, N!LockInv
  <2>6. N!DraftInv'
    BY <2>1, <2>2, <2>3 DEF N!IInv, N!TypeOK, N!DraftInv
  <2> QED BY <2>2, <2>4, <2>5, <2>6 DEF N!IInv
<1>5. ASSUME NEW j \in Job, N!Open(j) PROVE N!IInv'
  <2>1. /\ stage[j] = "merged" /\ stage' = [stage EXCEPT ![j] = "writing"] /\ torn' = TRUE
        /\ UNCHANGED << doc, lock, draft, updates, number, latest, lost >>
    BY <1>5 DEF N!Open
  <2>2. N!TypeOK'
    BY <2>1 DEF N!IInv, N!TypeOK
  <2> QED BY <2>1, <2>2 DEF N!IInv, N!TypeOK, N!LockInv, N!DraftInv
<1>6. ASSUME NEW j \in Job, N!Write(j) PROVE N!IInv'
  <2>1. /\ stage[j] = "writing" /\ doc' = draft[j] /\ torn' = FALSE
        /\ latest' = [s \in Section |-> IF draft[j][s] = number[j] THEN number[j]
                                        ELSE latest[s]]
        /\ stage' = [stage EXCEPT ![j] = "idle"]
        /\ lock' = IF lock = j THEN "free" ELSE lock
        /\ UNCHANGED << draft, updates, number, lost >>
    BY <1>6 DEF N!Write, N!Leave
  <2>2. N!TypeOK'
    BY <2>1 DEF N!IInv, N!TypeOK
  <2>3. \A k \in Job \ {j} : stage[k] \notin {"asking", "merged", "writing"}
    BY <2>1 DEF N!IInv, N!LockInv
  <2>4. N!LockInv' /\ N!DraftInv'
    BY <2>1, <2>3 DEF N!IInv, N!TypeOK, N!LockInv, N!DraftInv
  <2>5. ~lost => doc' = latest'
    <3>1. \A s \in Section : draft[j][s] \in {number[j], doc[s]}
      BY <2>1 DEF N!IInv, N!DraftInv
    <3>2. ~lost => \A s \in Section : doc'[s] = latest'[s]
      BY <2>1, <3>1 DEF N!IInv
    <3>3. doc' \in [Section -> Nat] /\ latest' \in [Section -> Nat]
      BY <2>2 DEF N!TypeOK
    <3> QED BY <3>2, <3>3
  <2> QED BY <2>1, <2>2, <2>4, <2>5 DEF N!IInv
<1>7. CASE N!Stop
  <2>1. /\ doc' = N!Load /\ torn' = FALSE /\ lost' = (lost \/ torn)
        /\ stage' = [j \in Job |-> "idle"]
        /\ UNCHANGED << draft, updates, number, latest >>
    BY <1>7 DEF N!Stop
  <2>2. N!TypeOK'
    BY <2>1 DEF N!IInv, N!TypeOK, N!Load, N!Template
  <2> QED BY <2>1, <2>2 DEF N!IInv, N!TypeOK, N!LockInv, N!DraftInv, N!Load
<1>8. CASE UNCHANGED notesVars
  BY <1>8 DEF notesVars, N!IInv, N!TypeOK, N!LockInv, N!DraftInv
<1> QED BY <1>1, <1>2, <1>3, <1>4, <1>5, <1>6, <1>7, <1>8 DEF N!Next

\* No update of the session notes undoes another (the lock of
\* _maybe_update_session_memory): what a thread merges it with is what the file still
\* holds when it writes.
THEOREM UpdatesAreKept == Spec => []N!NotesKept
<1>1. Init => N!IInv
  BY NotesInit DEF Init
<1>2. N!IInv /\ [Next]_vars => N!IInv'
  BY NotesNext, NotesSteps
<1>3. N!IInv => N!NotesKept
  BY DEF N!IInv, N!NotesKept
<1> QED BY <1>1, <1>2, <1>3, PTL DEF Spec

(***************************************************************************)
(* Memory                                                                  *)
(***************************************************************************)
LEMMA MemorySteps == [Next]_vars => M!Next \/ UNCHANGED memoryVars
BY DEF Next, vars

\* What the slugs are, and what is a memory and what is not.
LEMMA MemoryNames ==
  /\ M!Slugs = {"plan-b", "memory"} /\ \A name \in M!Names : M!Slug(name) \in M!Slugs
  /\ "" \notin M!Slugs /\ M!NoEntry \in M!Entries /\ M!NoEntry.id = 0
  /\ \A f \in M!Files : /\ f.entry \in M!Entries /\ f.entry.id \in Nat /\ f.entry.name \in M!Names
                        /\ f.suffix \in Nat /\ f.slug \in M!Slugs \cup {""}
  /\ \A d \in M!Calls : d.file \in M!Files /\ d.slug \in M!Slugs \cup {""}
BY DEF M!Slugs, M!Slug, M!Names, M!NoEntry, M!Entry, M!Entries, M!Files, M!Calls

LEMMA MemoryListed ==
  ASSUME NEW all \in SUBSET M!Files
  PROVE  \A m : m \in M!Listed(all) <=> \E f \in all : f.entry = m /\ m # M!NoEntry
BY DEF M!Listed, M!Scan, M!Files, M!Dirs

LEMMA MemoryPut ==
  ASSUME M!TypeOK, NEW f0 \in M!Files
  PROVE  /\ M!Put(f0) \subseteq M!Files /\ f0 \in M!Put(f0)
         /\ \A f \in M!Put(f0) : f = f0 \/ (f \in files /\ ~M!Same(f, f0))
         /\ \A f \in files : ~M!Same(f, f0) => f \in M!Put(f0)
<1>1. files \subseteq M!Files
  BY DEF M!TypeOK
<1>2. M!Put(f0) = {f \in files : ~M!Same(f0, f)} \cup {f0}
  BY DEF M!Put
<1>3. M!Put(f0) \subseteq M!Files /\ f0 \in M!Put(f0)
  BY <1>1, <1>2
<1>4. /\ \A f \in M!Put(f0) : f = f0 \/ (f \in files /\ ~M!Same(f, f0))
      /\ \A f \in files : ~M!Same(f, f0) => f \in M!Put(f0)
  BY <1>2 DEF M!Same
<1> QED BY <1>3, <1>4

LEMMA MemoryIds ==
  ASSUME M!TypeOK, M!FilesInv
  PROVE  /\ saves \in Nat
         /\ \A f \in files : /\ f \in M!Files /\ f.entry.id \in Nat /\ f.entry.id <= saves
                             /\ f.suffix \in Nat /\ f.suffix <= saves
<1>1. saves \in Nat /\ files \subseteq M!Files
  BY DEF M!TypeOK
<1>2. \A f \in files : f.entry = M!NoEntry => f.entry.id = 0
  BY MemoryNames
<1>3. \A f \in files : f.entry # M!NoEntry => f.entry.id \in 1..saves
  BY DEF M!FilesInv
<1>4. \A f \in files : f.suffix <= saves
  BY DEF M!FilesInv
<1>5. \A f \in files : f \in M!Files /\ f.entry.id \in Nat /\ f.suffix \in Nat
  BY <1>1, MemoryNames
<1> QED BY <1>1, <1>2, <1>3, <1>4, <1>5

\* A memory is in a file of its slug.
LEMMA ListedBySlug ==
  ASSUME M!TypeOK, M!FilesInv, NEW m \in M!Listed(files)
  PROVE  \E f \in files : /\ f.entry = m /\ m # M!NoEntry /\ M!Slug(m.name) = f.slug
                          /\ m \in M!Entries
<1>1. files \in SUBSET M!Files
  BY DEF M!TypeOK
<1>2. PICK f \in files : f.entry = m /\ m # M!NoEntry
  BY <1>1, MemoryListed
<1> QED BY <1>1, <1>2, MemoryNames DEF M!FilesInv

\* A thread leaves its call, or waits inside an extraction.
LEMMA QuietMoves ==
  ASSUME M!IInv, NEW t \in Writer, NEW d \in M!Calls, saving' = [saving EXCEPT ![t] = d],
         d.pc \in {"idle", "extracting"}, d.slug = "",
         UNCHANGED << files, stored, alone, saves >>
  PROVE  M!IInv'
<1>1. saving'[t] = d /\ (\A u \in Writer \ {t} : saving'[u] = saving[u]) /\ M!TypeOK'
  BY DEF M!IInv, M!TypeOK
<1>2. M!FilesInv' /\ M!MemoriesKept'
  BY DEF M!IInv, M!FilesInv, M!MemoriesKept, M!Listed, M!Scan
<1>3. "" \notin alone
  BY MemoryNames DEF M!IInv, M!TypeOK
<1>4. /\ ~M!Unwritten(t)' /\ saving'[t].slug = "" /\ saving'[t].pc # "found"
      /\ saving'[t].pc \notin {"chosen", "opened"}
      /\ \A u \in Writer \ {t} : M!Unwritten(u)' = M!Unwritten(u)
  BY <1>1 DEF M!Unwritten
<1>5. ASSUME NEW u \in Writer PROVE M!CallInv(u)'
  <2>1. CASE u = t
    <3>1. M!SlugInv(t)' /\ M!IdInv(t)'
      BY <1>4 DEF M!SlugInv, M!IdInv
    <3>2. saving'[t].slug \notin alone'
      <4>1. alone' = alone
        OBVIOUS
      <4> QED BY <1>3, <1>4, <4>1
    <3>3. M!AloneInv(t)'
      BY <3>2 DEF M!AloneInv
    <3> QED BY <2>1, <3>3, <3>1, <3>2 DEF M!CallInv
  <2>2. CASE u # t
    <3>1. M!SlugInv(u) /\ M!IdInv(u) /\ M!AloneInv(u) /\ saving'[u] = saving[u]
          /\ M!Unwritten(u)' = M!Unwritten(u)
      BY <1>1, <1>4, <2>2 DEF M!IInv, M!CallInv
    <3>2. M!SlugInv(u)'
      BY <3>1 DEF M!SlugInv
    <3>3. M!IdInv(u)'
      BY <1>1, <1>4, <3>1 DEF M!IdInv
    <3>4. M!AloneInv(u)'
      <4>1. saving[u].slug \in alone => \A w \in Writer \ {u} : saving'[w].slug # saving[u].slug
        <5>1. saving[u].slug \in alone => saving'[t].slug # saving[u].slug
          BY <1>3, <1>4
        <5> QED BY <1>1, <3>1, <5>1 DEF M!AloneInv
      <4>2. alone' = alone /\ files' = files
        OBVIOUS
      <4> QED BY <3>1, <4>1, <4>2 DEF M!AloneInv
    <3> QED BY <3>2, <3>3, <3>4 DEF M!CallInv
  <2> QED BY <2>1, <2>2
<1> QED BY <1>1, <1>2, <1>5 DEF M!IInv

\* A thread goes to work on a slug, for a new memory or for one that it has found.
LEMMA WorkBegins ==
  ASSUME M!IInv, NEW t \in Writer, NEW d \in M!Calls, saving' = [saving EXCEPT ![t] = d],
         M!Enter(t, d.slug), UNCHANGED << files, stored >>,
         d.slug = d.file.slug, M!Slug(d.file.entry.name) = d.file.slug,
         saves' \in Nat, saves <= saves', d.file.suffix <= saves', d.file.entry.id \in 1..saves',
         \/ d.pc = "found" /\ d.file \in files
         \/ /\ d.pc = "chosen" /\ d.file.entry.id > saves
            /\ \A f \in files : ~M!Same(f, d.file)
  PROVE  M!IInv'
<1>1. /\ saving'[t] = d /\ (\A u \in Writer \ {t} : saving'[u] = saving[u])
      /\ alone' \subseteq alone /\ M!TypeOK'
  BY DEF M!IInv, M!TypeOK, M!Enter
<1>2. /\ saves \in Nat /\ d.file.entry.id \in Nat
      /\ \A f \in files : /\ f.entry.id \in Nat /\ f.entry.id <= saves
                          /\ f.suffix \in Nat /\ f.suffix <= saves
  BY MemoryIds, MemoryNames DEF M!IInv
<1>3. M!FilesInv'
  <2>1. \A f \in files : f.suffix <= saves' /\ (f.entry.id \in 1..saves => f.entry.id \in 1..saves')
    BY <1>2
  <2> QED BY <2>1 DEF M!IInv, M!FilesInv
<1>4. M!MemoriesKept'
  BY <1>1 DEF M!IInv, M!MemoriesKept, M!Listed, M!Scan
<1>5. d.slug # ""
  BY MemoryNames
<1>6. ASSUME d.slug \in alone', NEW u \in Writer \ {t} PROVE saving[u].slug # d.slug
  <2>1. saving[u].pc = "idle" => saving[u].slug = ""
    BY DEF M!IInv, M!CallInv, M!SlugInv
  <2>2. d.slug \notin M!Contended(t)
    BY <1>6 DEF M!Enter
  <2> QED BY <1>5, <2>1, <2>2 DEF M!Contended, M!At
<1>7. /\ \A u \in Writer \ {t} : M!Unwritten(u)' = M!Unwritten(u)
      /\ M!Unwritten(t)' => d.file.entry.id > saves
  BY <1>1 DEF M!Unwritten
<1>8. \A u \in Writer \ {t} : M!Unwritten(u) =>
        saving[u].file.entry.id \in Nat /\ saving[u].file.entry.id <= saves
  <2>1. \A u \in Writer \ {t} : M!Unwritten(u) => saving[u].file.entry.id \in 1..saves
    BY DEF M!IInv, M!CallInv, M!SlugInv
  <2> QED BY <1>2, <2>1
<1>9. ASSUME NEW u \in Writer \ {t} PROVE M!CallInv(u)'
  <2>1. /\ M!SlugInv(u) /\ M!IdInv(u) /\ M!AloneInv(u) /\ saving'[u] = saving[u]
        /\ M!Unwritten(u)' = M!Unwritten(u)
    BY <1>1, <1>7 DEF M!IInv, M!CallInv
  <2>2. M!SlugInv(u)'
    <3>1. saving[u].file.suffix \in Nat /\ saving[u].file.entry.id \in Nat
      BY MemoryNames DEF M!IInv, M!TypeOK
    <3>2. saving[u].file.suffix <= saves => saving[u].file.suffix <= saves'
      BY <1>2, <3>1
    <3>3. saving[u].file.entry.id \in 1..saves => saving[u].file.entry.id \in 1..saves'
      BY <1>2, <3>1
    <3> QED BY <2>1, <3>2, <3>3 DEF M!SlugInv
  <2>3. M!IdInv(u)'
    <3>1. M!Unwritten(u) /\ M!Unwritten(t)' => d.file.entry.id # saving[u].file.entry.id
      BY <1>2, <1>7, <1>8
    <3> QED BY <1>1, <1>7, <2>1, <3>1 DEF M!IdInv
  <2>4. M!AloneInv(u)'
    <3>1. saving[u].slug \in alone' => saving[u].slug # d.slug
      BY <1>6
    <3> QED BY <1>1, <2>1, <3>1 DEF M!AloneInv
  <2> QED BY <2>2, <2>3, <2>4 DEF M!CallInv
<1>10. M!CallInv(t)'
  <2>1. M!SlugInv(t)'
    BY <1>1, <1>5 DEF M!SlugInv, M!Unwritten
  <2>2. M!IdInv(t)'
    <3>1. M!Unwritten(t)' => \A f \in files : f.entry.id # d.file.entry.id
      BY <1>2, <1>7
    <3>2. M!Unwritten(t)' => \A u \in Writer \ {t} : M!Unwritten(u)' =>
            saving[u].file.entry.id # d.file.entry.id
      BY <1>2, <1>7, <1>8
    <3> QED BY <1>1, <3>1, <3>2 DEF M!IdInv
  <2>3. M!AloneInv(t)'
    BY <1>1, <1>6 DEF M!AloneInv
  <2> QED BY <2>1, <2>2, <2>3 DEF M!CallInv
<1> QED BY <1>1, <1>3, <1>4, <1>9, <1>10 DEF M!IInv

\* A thread changes files of its slug: what the others are about to do stays as it was.
LEMMA OthersStay ==
  ASSUME M!IInv, NEW t \in Writer, NEW pc1 \in {"opened", "written"},
         saving' = [saving EXCEPT ![t] = [saving[t] EXCEPT !.pc = pc1]],
         UNCHANGED << alone, saves >>, files' \subseteq M!Files, stored' \subseteq M!Entries,
         \A f \in files' \ files :
           f.slug = saving[t].slug
             /\ \/ f.entry = M!NoEntry
                \/ M!Unwritten(t) /\ f.entry.id = saving[t].file.entry.id /\ pc1 = "written",
         \A f \in files \ files' : f.slug = saving[t].slug,
         pc1 = "opened" => saving[t].pc = "chosen",
         pc1 = "opened" => \A f \in files' : M!Same(f, saving[t].file) => f.entry = M!NoEntry
  PROVE  M!TypeOK' /\ \A u \in Writer : M!CallInv(u)'
<1>1. /\ saving'[t].pc = pc1 /\ saving'[t].slug = saving[t].slug
      /\ saving'[t].file = saving[t].file
      /\ \A u \in Writer \ {t} : saving'[u] = saving[u]
      /\ M!TypeOK'
  BY DEF M!IInv, M!TypeOK, M!Calls
<1>2. \A u \in Writer : M!SlugInv(u) /\ M!IdInv(u) /\ M!AloneInv(u)
  BY DEF M!IInv, M!CallInv
<1>3. /\ \A u \in Writer : /\ saving'[u].slug = saving[u].slug /\ saving'[u].file = saving[u].file
                           /\ M!Unwritten(u)' => M!Unwritten(u)
      /\ M!Unwritten(t)' => pc1 = "opened"
      /\ \A u \in Writer \ {t} : M!Unwritten(u)' = M!Unwritten(u)
  BY <1>1 DEF M!Unwritten
<1>4. \A u \in Writer : M!Unwritten(u) => saving[u].file.entry.id # 0
  <2>1. \A u \in Writer : M!Unwritten(u) => saving[u].file.entry.id \in 1..saves
    BY <1>2 DEF M!SlugInv
  <2>2. saves \in Nat
    BY DEF M!IInv, M!TypeOK
  <2> QED BY <2>1, <2>2
<1>5. ASSUME NEW u \in Writer PROVE M!IdInv(u)'
  <2>1. ASSUME M!Unwritten(u)', NEW f \in files' \ files
        PROVE  f.entry.id # saving[u].file.entry.id
    <3>1. CASE f.entry = M!NoEntry
      <4>1. f.entry.id = 0
        BY <3>1, MemoryNames
      <4> QED BY <1>3, <1>4, <2>1, <4>1
    <3>2. CASE M!Unwritten(t) /\ f.entry.id = saving[t].file.entry.id /\ pc1 = "written"
      <4>1. u # t /\ M!Unwritten(u)
        BY <1>3, <2>1, <3>2
      <4> QED BY <1>2, <3>2, <4>1 DEF M!IdInv
    <3> QED BY <3>1, <3>2
  <2>2. M!Unwritten(u)' => \A f \in files : f.entry.id # saving[u].file.entry.id
    BY <1>2, <1>3 DEF M!IdInv
  <2>3. M!Unwritten(u)' => \A f \in files' : f.entry.id # saving'[u].file.entry.id
    BY <1>3, <2>1, <2>2
  <2>4. M!Unwritten(u)' => \A w \in Writer \ {u} : M!Unwritten(w)' =>
          saving'[w].file.entry.id # saving'[u].file.entry.id
    BY <1>2, <1>3 DEF M!IdInv
  <2> QED BY <2>3, <2>4 DEF M!IdInv
<1>6. ASSUME NEW u \in Writer PROVE M!SlugInv(u)'
  <2>1. CASE u # t
    BY <1>1, <1>2, <1>3, <2>1 DEF M!SlugInv
  <2>2. CASE u = t
    BY <1>1, <1>2, <1>3, <2>2 DEF M!SlugInv
  <2> QED BY <2>1, <2>2
<1>7. ASSUME NEW u \in Writer PROVE M!AloneInv(u)'
  <2>1. saving[u].slug \in alone => \A w \in Writer \ {u} : saving'[w].slug # saving'[u].slug
    BY <1>2, <1>3 DEF M!AloneInv
  <2>2. CASE u = t
    BY <1>1, <2>1, <2>2 DEF M!AloneInv
  <2>3. CASE u # t /\ saving[u].slug \in alone
    <3>1. saving[t].slug # saving[u].slug /\ saving'[u] = saving[u]
      BY <1>1, <1>2, <2>3 DEF M!AloneInv
    <3>2. /\ \A f \in files' : f.slug = saving[u].slug => f \in files
          /\ \A f \in files : f.slug = saving[u].slug => f \in files'
      BY <3>1
    <3>3. saving[u].pc \in {"chosen", "opened", "found"} => saving[u].file.slug = saving[u].slug
      BY <1>2 DEF M!SlugInv, M!Unwritten
    <3>4. saving[u].pc = "chosen" => \A f \in files' : ~M!Same(f, saving[u].file)
      BY <1>2, <2>3, <3>2, <3>3 DEF M!AloneInv, M!Same
    <3>5. saving[u].pc = "opened" =>
            \A f \in files' : M!Same(f, saving[u].file) => f.entry = M!NoEntry
      BY <1>2, <2>3, <3>2, <3>3 DEF M!AloneInv, M!Same
    <3>6. saving[u].pc = "found" => saving[u].file \in files'
      BY <1>2, <2>3, <3>2, <3>3 DEF M!AloneInv
    <3> QED BY <2>1, <2>3, <3>1, <3>4, <3>5, <3>6 DEF M!AloneInv
  <2>4. CASE saving[u].slug \notin alone
    BY <1>3, <2>4 DEF M!AloneInv
  <2> QED BY <2>2, <2>3, <2>4
<1> QED BY <1>1, <1>5, <1>6, <1>7 DEF M!CallInv

\* A new memory takes a name that no file has.
LEMMA ChooseBegins ==
  ASSUME FoldsCase = FALSE, M!IInv, NEW t \in Writer, NEW dir \in M!Dirs, NEW name \in M!Names,
         M!Choose(t, dir, name)
  PROVE  M!IInv'
<1> DEFINE d == [saving[t] EXCEPT
             !.pc = "chosen", !.slug = M!Slug(name), !.file = M!UniquePath(dir, name, saves + 1),
             !.names = IF saving[t].bulk THEN @ \cup {name} ELSE {}]
           f0 == M!UniquePath(dir, name, saves + 1)
<1>1. /\ saving' = [saving EXCEPT ![t] = d] /\ saves' = saves + 1
      /\ M!Enter(t, M!Slug(name)) /\ UNCHANGED << files, stored >>
  BY DEF M!Choose, M!Move
<1>2. saves \in Nat /\ saving[t] \in M!Calls /\ M!Slug(name) \in M!Slugs
  BY MemoryNames DEF M!IInv, M!TypeOK
<1>3. /\ f0.dir = dir /\ f0.slug = M!Slug(name) /\ f0.entry.id = saves + 1
      /\ f0.entry.name = name /\ f0.suffix \in {0, saves + 1} /\ f0 \in M!Files
      /\ f0.suffix = 0 => ~\E f \in files :
           M!Same(f, M!File(dir, M!Slug(name), 0, M!NoEntry))
  <2> DEFINE taken1 == \E f \in files : M!Same(f, M!File(dir, M!Slug(name), 0, M!NoEntry))
  <2>1. f0 = M!File(dir, M!Slug(name), IF taken1 THEN saves + 1 ELSE 0, M!Entry(saves + 1, name))
    BY DEF M!UniquePath, M!IndexIs
  <2> DEFINE suffix1 == IF taken1 THEN saves + 1 ELSE 0
  <2>4. suffix1 \in {0, saves + 1} /\ suffix1 \in Nat /\ (suffix1 = 0 => ~taken1)
    BY <1>2
  <2>5. f0 = M!File(dir, M!Slug(name), suffix1, M!Entry(saves + 1, name))
    BY <2>1
  <2> HIDE DEF taken1, suffix1, f0
  <2>2. M!Entry(saves + 1, name) \in M!Entries
    BY <1>2 DEF M!Entry, M!Entries
  <2>3. /\ f0.dir = dir /\ f0.slug = M!Slug(name) /\ f0.entry = M!Entry(saves + 1, name)
        /\ f0.suffix = suffix1 /\ f0 \in M!Files
    BY <1>2, <2>2, <2>4, <2>5 DEF M!File, M!Files
  <2> QED BY <2>3, <2>4 DEF M!Entry, taken1
<1>4. \A f \in files : ~M!Same(f, f0)
  <2>1. CASE f0.suffix = 0
    BY <1>3, <2>1 DEF M!Same, M!File
  <2>2. CASE f0.suffix = saves + 1
    <3>1. \A f \in files : f.suffix \in Nat /\ f.suffix <= saves
      BY MemoryIds DEF M!IInv
    <3> QED BY <1>2, <2>2, <3>1 DEF M!Same
  <2> QED BY <1>3, <2>1, <2>2
<1>5. /\ d \in M!Calls /\ d.pc = "chosen" /\ d.slug = M!Slug(name) /\ d.file = f0
  <2> HIDE DEF f0
  <2>1. (IF saving[t].bulk THEN saving[t].names \cup {name} ELSE {}) \in SUBSET M!Names
    BY <1>2 DEF M!Calls
  <2> QED BY <1>2, <1>3, <2>1 DEF M!Calls, f0
<1> HIDE DEF d, f0
<1>6. saves' \in Nat /\ saves <= saves' /\ d.file.suffix <= saves' /\ d.file.entry.id \in 1..saves'
      /\ d.file.entry.id > saves
  BY <1>1, <1>2, <1>3, <1>5
<1> QED BY <1>1, <1>3, <1>4, <1>5, <1>6, WorkBegins

\* A memory to delete is one that is listed.
LEMMA FindBegins ==
  ASSUME M!IInv, NEW t \in Writer, NEW key, M!Find(t, key)
  PROVE  M!IInv'
<1>1. PICK f \in M!Found(key) :
        /\ saving' = [saving EXCEPT ![t] = [M!Idle EXCEPT !.pc = "found", !.slug = f.slug,
                                                         !.file = f]]
        /\ M!Enter(t, f.slug)
  BY DEF M!Find, M!Move
<1>2. UNCHANGED << files, stored, saves >> /\ M!TypeOK /\ M!FilesInv
  BY DEF M!Find, M!IInv
<1>3. f \in files /\ f.entry # M!NoEntry /\ f \in M!Files
  BY <1>2 DEF M!Found, M!Matches, M!Scan, M!TypeOK
<1>4. f.entry.id \in 1..saves /\ M!Slug(f.entry.name) = f.slug /\ f.suffix <= saves
  BY <1>2, <1>3 DEF M!FilesInv
<1>5. f.slug \in M!Slugs /\ saves \in Nat
  BY <1>2, <1>3, <1>4, MemoryNames DEF M!TypeOK
<1> DEFINE d == [M!Idle EXCEPT !.pc = "found", !.slug = f.slug, !.file = f]
<1>6. d \in M!Calls /\ d.pc = "found" /\ d.slug = f.slug /\ d.file = f
  BY <1>3, <1>5 DEF M!Idle, M!Calls
<1>7. saving' = [saving EXCEPT ![t] = d]
  BY <1>1
<1> HIDE DEF d
<1>8. /\ M!Enter(t, d.slug) /\ saves' \in Nat /\ saves <= saves' /\ d.file.suffix <= saves'
      /\ d.file.entry.id \in 1..saves' /\ M!Slug(d.file.entry.name) = d.file.slug
  BY <1>1, <1>2, <1>4, <1>5, <1>6
<1> QED BY <1>2, <1>3, <1>6, <1>7, <1>8, WorkBegins

\* The file of a new memory is emptied: where the thread is alone there was none.
LEMMA CreateEmpties ==
  ASSUME M!IInv, NEW t \in Writer, M!Create(t)
  PROVE  M!IInv'
<1> DEFINE f0 == [saving[t].file EXCEPT !.entry = M!NoEntry]
<1>1. /\ saving[t].pc = "chosen" /\ files' = M!Put(f0)
      /\ saving' = [saving EXCEPT ![t] = [saving[t] EXCEPT !.pc = "opened"]]
      /\ UNCHANGED << stored, alone, saves >>
  BY DEF M!Create, M!Move, M!At
<1>2. /\ saving[t] \in M!Calls /\ saving[t].file \in M!Files /\ M!Unwritten(t)
      /\ saving[t].slug = saving[t].file.slug /\ saving[t].file.suffix <= saves
      /\ M!TypeOK /\ M!FilesInv
  BY <1>1, MemoryNames DEF M!IInv, M!TypeOK, M!CallInv, M!SlugInv, M!Unwritten
<1>3. /\ f0 \in M!Files /\ f0.entry = M!NoEntry /\ f0.slug = saving[t].slug
      /\ f0.suffix = saving[t].file.suffix
      /\ \A f : M!Same(f, f0) <=> M!Same(f, saving[t].file)
  BY <1>2, MemoryNames DEF M!Files, M!Same
<1> HIDE DEF f0
<1>4. /\ files' \subseteq M!Files /\ f0 \in files'
      /\ \A f \in files' : f = f0 \/ (f \in files /\ ~M!Same(f, f0))
      /\ \A f \in files : ~M!Same(f, f0) => f \in files'
  BY <1>1, <1>2, <1>3, MemoryPut
<1>5. M!FilesInv'
  <2>1. \A f \in files' : f.entry # M!NoEntry => f \in files /\ ~M!Same(f, f0)
    BY <1>3, <1>4
  <2>2. \A f \in files' : f.suffix <= saves
    BY <1>2, <1>3, <1>4 DEF M!FilesInv
  <2>3. \A f, g \in files' : M!Same(f, g) => f = g
    BY <1>2, <1>4 DEF M!FilesInv, M!Same
  <2>4. \A f, g \in files' : f.entry # M!NoEntry /\ f.entry.id = g.entry.id => f = g
    <3>1. \A f \in files : f.entry # M!NoEntry => f.entry.id # 0
      <4>1. saves \in Nat /\ \A f \in files : f.entry # M!NoEntry => f.entry.id \in 1..saves
        BY <1>2 DEF M!TypeOK, M!FilesInv
      <4> QED BY <4>1
    <3>2. f0.entry.id = 0
      BY <1>3, MemoryNames
    <3> QED BY <1>2, <1>4, <2>1, <3>1, <3>2 DEF M!FilesInv
  <2> QED BY <1>1, <1>2, <2>1, <2>2, <2>3, <2>4 DEF M!FilesInv
<1>6. M!TypeOK' /\ \A u \in Writer : M!CallInv(u)'
  <2>1. \A f \in files' \ files : f = f0
    BY <1>4
  <2>2. \A f \in files \ files' : f.slug = saving[t].slug
    BY <1>3, <1>4 DEF M!Same
  <2>3. \A f \in files' : M!Same(f, saving[t].file) => f.entry = M!NoEntry
    BY <1>3, <1>4
  <2>4. stored' \subseteq M!Entries
    BY <1>1, <1>2 DEF M!TypeOK
  <2> QED BY <1>1, <1>3, <1>4, <2>1, <2>2, <2>3, <2>4, OthersStay
<1>7. M!MemoriesKept'
  <2> SUFFICES ASSUME NEW slug \in alone, NEW m, M!Slug(m.name) = slug
               PROVE  m \in M!Listed(files') <=> m \in M!Listed(files)
    BY <1>1 DEF M!IInv, M!MemoriesKept, M!Listed, M!Scan
  <2>1. files \in SUBSET M!Files /\ files' \in SUBSET M!Files
    BY <1>2, <1>4 DEF M!TypeOK
  <2>2. m \in M!Listed(files') => m \in M!Listed(files)
    BY <1>3, <1>4, <2>1, MemoryListed
  <2>3. ASSUME m \in M!Listed(files) PROVE m \in M!Listed(files')
    <3>1. PICK f \in files : f.entry = m /\ m # M!NoEntry /\ M!Slug(m.name) = f.slug
      BY <1>2, <2>3, ListedBySlug
    <3>2. ~M!Same(f, f0)
      <4>1. CASE slug = saving[t].slug
        BY <1>1, <1>3, <3>1, <4>1 DEF M!IInv, M!CallInv, M!AloneInv
      <4>2. CASE slug # saving[t].slug
        BY <1>3, <3>1, <4>2 DEF M!Same
      <4> QED BY <4>1, <4>2
    <3> QED BY <1>4, <2>1, <3>1, <3>2, MemoryListed
  <2> QED BY <2>2, <2>3
<1> QED BY <1>5, <1>6, <1>7 DEF M!IInv

\* It is written: where the thread is alone nothing listed is lost.
LEMMA FillWrites ==
  ASSUME M!IInv, NEW t \in Writer, M!Fill(t)
  PROVE  M!IInv'
<1> DEFINE f0 == saving[t].file
<1>1. /\ saving[t].pc = "opened" /\ files' = M!Put(f0) /\ stored' = stored \cup {f0.entry}
      /\ saving' = [saving EXCEPT ![t] = [saving[t] EXCEPT !.pc = "written"]]
      /\ UNCHANGED << alone, saves >>
  BY DEF M!Fill, M!Move, M!At
<1>2. /\ f0 \in M!Files /\ f0.slug = saving[t].slug /\ f0.entry \in M!Entries
      /\ M!Unwritten(t) /\ M!Slug(f0.entry.name) = f0.slug
      /\ f0.suffix <= saves /\ f0.entry.id \in 1..saves
      /\ \A f \in files : f.entry.id # f0.entry.id
      /\ M!TypeOK /\ M!FilesInv
  BY <1>1, MemoryNames DEF M!IInv, M!TypeOK, M!CallInv, M!SlugInv, M!IdInv, M!Unwritten
<1>3. saving[t].slug \in alone => \A f \in files : M!Same(f, f0) => f.entry = M!NoEntry
  BY <1>1 DEF M!IInv, M!CallInv, M!AloneInv
<1> HIDE DEF f0
<1>4. /\ files' \subseteq M!Files /\ f0 \in files'
      /\ \A f \in files' : f = f0 \/ (f \in files /\ ~M!Same(f, f0))
      /\ \A f \in files : ~M!Same(f, f0) => f \in files'
  BY <1>1, <1>2, MemoryPut
<1>5. M!FilesInv'
  <2>1. \A f \in files' : f.suffix <= saves
    BY <1>2, <1>4 DEF M!FilesInv
  <2>2. \A f \in files' : f.entry # M!NoEntry =>
          f.entry.id \in 1..saves /\ M!Slug(f.entry.name) = f.slug
    BY <1>2, <1>4 DEF M!FilesInv
  <2>3. \A f, g \in files' : M!Same(f, g) => f = g
    BY <1>2, <1>4 DEF M!FilesInv, M!Same
  <2>4. \A f, g \in files' : f.entry # M!NoEntry /\ f.entry.id = g.entry.id => f = g
    BY <1>2, <1>4 DEF M!FilesInv
  <2> QED BY <1>1, <2>1, <2>2, <2>3, <2>4 DEF M!FilesInv
<1>6. M!TypeOK' /\ \A u \in Writer : M!CallInv(u)'
  <2>1. \A f \in files' \ files :
          f.slug = saving[t].slug /\ f.entry.id = saving[t].file.entry.id
    BY <1>2, <1>4 DEF f0
  <2>2. \A f \in files \ files' : f.slug = saving[t].slug
    BY <1>2, <1>4 DEF M!Same
  <2>3. stored' \subseteq M!Entries
    BY <1>1, <1>2 DEF M!TypeOK
  <2> QED BY <1>1, <1>2, <1>4, <2>1, <2>2, <2>3, OthersStay
<1>7. M!MemoriesKept'
  <2> SUFFICES ASSUME NEW slug \in alone, NEW m, M!Slug(m.name) = slug
               PROVE  m \in M!Listed(files') <=> m \in M!Listed(files) \/ m = f0.entry
    BY <1>1 DEF M!IInv, M!MemoriesKept
  <2>1. files \in SUBSET M!Files /\ files' \in SUBSET M!Files /\ f0.entry # M!NoEntry
    <3>1. saves \in Nat
      BY <1>2 DEF M!TypeOK
    <3>2. f0.entry.id # 0
      BY <1>2, <3>1
    <3>3. f0.entry # M!NoEntry
      BY <3>2, MemoryNames
    <3> QED BY <1>2, <1>4, <3>3 DEF M!TypeOK
  <2>2. m \in M!Listed(files') => m \in M!Listed(files) \/ m = f0.entry
    BY <1>4, <2>1, MemoryListed
  <2>3. m = f0.entry => m \in M!Listed(files')
    BY <1>4, <2>1, MemoryListed
  <2>4. ASSUME m \in M!Listed(files) PROVE m \in M!Listed(files')
    <3>1. PICK f \in files : f.entry = m /\ m # M!NoEntry /\ M!Slug(m.name) = f.slug
      BY <1>2, <2>4, ListedBySlug
    <3>2. ~M!Same(f, f0)
      <4>1. CASE slug = saving[t].slug
        BY <1>3, <3>1, <4>1
      <4>2. CASE slug # saving[t].slug
        BY <1>2, <3>1, <4>2 DEF M!Same
      <4> QED BY <4>1, <4>2
    <3> QED BY <1>4, <2>1, <3>1, <3>2, MemoryListed
  <2> QED BY <2>2, <2>3, <2>4
<1> QED BY <1>5, <1>6, <1>7 DEF M!IInv

\* A file is removed: where the thread is alone it holds what was found.
LEMMA UnlinkRemoves ==
  ASSUME M!IInv, NEW t \in Writer, M!Unlink(t), \E f \in files : M!Same(f, saving[t].file)
  PROVE  M!IInv'
<1> DEFINE f0 == saving[t].file
<1>1. /\ saving[t].pc = "found" /\ files' = {f \in files : ~M!Same(f, f0)}
      /\ stored' = stored \ {f0.entry}
      /\ saving' = [saving EXCEPT ![t] = [saving[t] EXCEPT !.pc = "written"]]
      /\ UNCHANGED << alone, saves >>
  BY DEF M!Unlink, M!Move, M!At
<1>2. /\ f0 \in M!Files /\ f0.slug = saving[t].slug /\ M!Slug(f0.entry.name) = f0.slug
      /\ f0.entry.id \in 1..saves /\ M!TypeOK /\ M!FilesInv
  BY <1>1, MemoryNames DEF M!IInv, M!TypeOK, M!CallInv, M!SlugInv
<1>3. saving[t].slug \in alone => f0 \in files
  BY <1>1 DEF M!IInv, M!CallInv, M!AloneInv
<1> HIDE DEF f0
<1>4. M!FilesInv'
  BY <1>1, <1>2 DEF M!FilesInv
<1>5. M!TypeOK' /\ \A u \in Writer : M!CallInv(u)'
  <2>1. \A f \in files \ files' : f.slug = saving[t].slug
    BY <1>1, <1>2 DEF M!Same
  <2>2. files' \subseteq files /\ files' \subseteq M!Files /\ stored' \subseteq M!Entries
    BY <1>1, <1>2 DEF M!TypeOK
  <2> QED BY <1>1, <2>1, <2>2, OthersStay
<1>6. M!MemoriesKept'
  <2> SUFFICES ASSUME NEW slug \in alone, NEW m, M!Slug(m.name) = slug
               PROVE  m \in M!Listed(files') <=> m \in M!Listed(files) /\ m # f0.entry
    BY <1>1 DEF M!IInv, M!MemoriesKept
  <2>1. files \in SUBSET M!Files /\ files' \in SUBSET M!Files /\ f0.entry # M!NoEntry
    <3>1. saves \in Nat
      BY <1>2 DEF M!TypeOK
    <3>2. f0.entry.id # 0
      BY <1>2, <3>1
    <3>3. f0.entry # M!NoEntry
      BY <3>2, MemoryNames
    <3> QED BY <1>1, <1>2, <3>3 DEF M!TypeOK
  <2>2. CASE slug = saving[t].slug
    <3>1. f0 \in files /\ files' = files \ {f0}
      BY <1>1, <1>2, <1>3, <2>2 DEF M!FilesInv, M!Same
    <3>2. \A f \in files : f.entry = f0.entry => f = f0
      BY <1>2, <2>1, <3>1 DEF M!FilesInv
    <3> QED BY <2>1, <3>1, <3>2, MemoryListed
  <2>3. CASE slug # saving[t].slug
    <3>1. m # f0.entry
      BY <1>2, <2>3
    <3>2. m \in M!Listed(files') => m \in M!Listed(files)
      BY <1>1, <2>1, MemoryListed
    <3>3. ASSUME m \in M!Listed(files) PROVE m \in M!Listed(files')
      <4>1. PICK f \in files : f.entry = m /\ m # M!NoEntry /\ M!Slug(m.name) = f.slug
        BY <1>2, <3>3, ListedBySlug
      <4>2. f \in files'
        BY <1>1, <1>2, <2>3, <4>1 DEF M!Same
      <4> QED BY <2>1, <4>1, <4>2, MemoryListed
    <3> QED BY <3>1, <3>2, <3>3
  <2> QED BY <2>2, <2>3
<1> QED BY <1>4, <1>5, <1>6 DEF M!IInv

LEMMA MemoryInit == M!Init => M!IInv
<1> SUFFICES ASSUME M!Init PROVE M!IInv
  OBVIOUS
<1>1. M!Idle \in M!Calls /\ M!Idle.pc = "idle" /\ M!Idle.slug = ""
  BY MemoryNames DEF M!Idle, M!Calls, M!File, M!Files, M!Dirs
<1>2. \A t \in Writer : saving[t] = M!Idle
  BY DEF M!Init
<1>3. M!TypeOK
  BY <1>1 DEF M!Init, M!TypeOK, M!Slugs
<1>4. \A t \in Writer : M!CallInv(t)
  BY <1>1, <1>2, <1>3, MemoryNames DEF M!TypeOK, M!CallInv, M!SlugInv, M!IdInv, M!AloneInv,
                                       M!Unwritten
<1>5. M!FilesInv /\ M!MemoriesKept
  BY DEF M!Init, M!FilesInv, M!MemoriesKept, M!Listed, M!Scan
<1> QED BY <1>3, <1>4, <1>5 DEF M!IInv

LEMMA MemoryNext == FoldsCase = FALSE /\ M!IInv /\ (M!Next \/ UNCHANGED memoryVars) => M!IInv'
<1> SUFFICES ASSUME FoldsCase = FALSE, M!IInv, M!Next \/ UNCHANGED memoryVars PROVE M!IInv'
  OBVIOUS
<1>1. M!Idle \in M!Calls /\ M!Idle.pc = "idle" /\ M!Idle.slug = ""
  BY MemoryNames DEF M!Idle, M!Calls, M!File, M!Files, M!Dirs
<1>2. ASSUME NEW t \in Writer, M!WriteIndex(t) PROVE M!IInv'
  <2>1. files' = files /\ UNCHANGED << stored, alone, saves >>
    BY <1>2 DEF M!WriteIndex, M!Indexed
  <2>2. saving[t] \in M!Calls
    BY DEF M!IInv, M!TypeOK
  <2>3. CASE saving[t].bulk
    <3> DEFINE d == [saving[t] EXCEPT !.pc = "extracting", !.slug = ""]
    <3>1. d \in M!Calls /\ d.pc = "extracting" /\ d.slug = ""
      BY <2>2 DEF M!Calls
    <3>2. saving' = [saving EXCEPT ![t] = d]
      BY <1>2, <2>3 DEF M!WriteIndex, M!Move
    <3> HIDE DEF d
    <3> QED BY <2>1, <3>1, <3>2, QuietMoves
  <2>4. CASE ~saving[t].bulk
    <3>1. saving' = [saving EXCEPT ![t] = M!Idle]
      BY <1>2, <2>4 DEF M!WriteIndex, M!Move
    <3> QED BY <1>1, <2>1, <3>1, QuietMoves
  <2> QED BY <2>3, <2>4
<1>3. ASSUME NEW t \in Writer, M!Extract(t) PROVE M!IInv'
  <2> DEFINE names == {m.name : m \in M!Listed(files)}
             d == [M!Idle EXCEPT !.pc = "extracting", !.bulk = TRUE, !.names = names]
  <2>1. names \in SUBSET M!Names
    <3>1. \A m \in M!Listed(files) : m.name \in M!Names
      BY ListedBySlug, MemoryNames DEF M!IInv, M!Entries
    <3> QED BY <3>1
  <2>2. saving' = [saving EXCEPT ![t] = d] /\ UNCHANGED << files, stored, alone, saves >>
    BY <1>3 DEF M!Extract, M!Move
  <2> HIDE DEF names
  <2>3. d \in M!Calls /\ d.pc = "extracting" /\ d.slug = ""
    BY <1>1, <2>1 DEF M!Calls
  <2> HIDE DEF d
  <2> QED BY <2>2, <2>3, QuietMoves
<1>4. ASSUME NEW t \in Writer, M!ExtractionEnds(t) PROVE M!IInv'
  <2>1. saving' = [saving EXCEPT ![t] = M!Idle] /\ UNCHANGED << files, stored, alone, saves >>
    BY <1>4 DEF M!ExtractionEnds, M!Move
  <2> QED BY <1>1, <2>1, QuietMoves
<1>5. ASSUME NEW t \in Writer, M!Unlink(t), ~\E f \in files : M!Same(f, saving[t].file)
      PROVE  M!IInv'
  <2>1. saving' = [saving EXCEPT ![t] = M!Idle] /\ UNCHANGED << files, stored, alone, saves >>
    BY <1>5 DEF M!Unlink, M!Move
  <2> QED BY <1>1, <2>1, QuietMoves
<1>6. CASE M!Die
  <2>1. saving' = [t \in Writer |-> M!Idle] /\ UNCHANGED << files, stored, alone, saves >>
    BY <1>6 DEF M!Die
  <2>2. \A t \in Writer : saving'[t] = M!Idle
    BY <2>1
  <2>3. M!TypeOK'
    BY <1>1, <2>1 DEF M!IInv, M!TypeOK
  <2>4. \A t \in Writer : M!CallInv(t)'
    BY <1>1, <2>2, <2>3, MemoryNames DEF M!TypeOK, M!CallInv, M!SlugInv, M!IdInv, M!AloneInv,
                                         M!Unwritten
  <2>5. M!FilesInv' /\ M!MemoriesKept'
    BY <2>1 DEF M!IInv, M!FilesInv, M!MemoriesKept, M!Listed, M!Scan
  <2> QED BY <2>3, <2>4, <2>5 DEF M!IInv
<1>7. CASE UNCHANGED memoryVars
  <2> USE <1>7 DEF memoryVars, M!IInv
  <2>1. M!TypeOK' /\ M!FilesInv'
    BY DEF M!TypeOK, M!FilesInv
  <2>2. \A t \in Writer : M!CallInv(t)'
    BY DEF M!CallInv, M!SlugInv, M!IdInv, M!AloneInv, M!Unwritten
  <2>3. M!MemoriesKept'
    BY DEF M!MemoriesKept, M!Listed, M!Scan
  <2> QED BY <2>1, <2>2, <2>3
<1> QED BY <1>2, <1>3, <1>4, <1>5, <1>6, <1>7, ChooseBegins, CreateEmpties, FillWrites,
           FindBegins, UnlinkRemoves DEF M!Next

\* Where case counts in file names, what was saved is listed until it is deleted as long as
\* no two calls are at work on one slug (MemoryFileStore.add and delete); and no update of the
\* session notes undoes another (_maybe_update_session_memory).
THEOREM MemoriesStay == FoldsCase = FALSE => (Spec => []MemoriesKept)
<1> SUFFICES ASSUME FoldsCase = FALSE PROVE Spec => []MemoriesKept
  OBVIOUS
<1>1. Init => M!IInv
  BY MemoryInit DEF Init
<1>2. M!IInv /\ [Next]_vars => M!IInv'
  BY MemoryNext, MemorySteps
<1>3. M!IInv /\ N!NotesKept => MemoriesKept
  BY DEF M!IInv, MemoriesKept
<1> QED BY <1>1, <1>2, <1>3, UpdatesAreKept, PTL DEF Spec

(***************************************************************************)
(* The history of edits                                                    *)
(***************************************************************************)
LEMMA RewindSteps == [Next]_vars => H!Next \/ UNCHANGED rewindVars
BY DEF Next, vars

\* What is read of whole lines, and of lines with a broken one at the end, are the whole ones.
LEMMA ReadableLines ==
  ASSUME NEW s \in Seq(H!Entries)
  PROVE  H!Readable(s) = s /\ H!Readable(Append(s, H!BadLine)) = s
<1>1. \A i \in DOMAIN s : s[i].seq \in H!Seqs
  <2>1. \A i \in DOMAIN s : s[i] \in H!Entries
    BY SequenceElements
  <2> QED BY <2>1 DEF H!Entries
<1>2. \A i \in DOMAIN s : s[i] # H!BadLine
  <2>1. H!BadLine.seq = 0 /\ 0 \notin H!Seqs
    BY DEF H!BadLine, H!Seqs
  <2> QED BY <1>1, <2>1
<1>3. H!Readable(s) = s
  BY <1>2 DEF H!Readable
<1> DEFINE longer == Append(s, H!BadLine)
           bad == {i \in DOMAIN longer : longer[i] = H!BadLine}
<1>4. Len(s) \in Nat /\ DOMAIN longer = 1..Len(s) + 1 /\ longer[Len(s) + 1] = H!BadLine
  OBVIOUS
<1>5. \A i \in 1..Len(s) : longer[i] = s[i] /\ i \in DOMAIN s
  OBVIOUS
<1>6. bad = {Len(s) + 1}
  BY <1>2, <1>4, <1>5
<1>7. (CHOOSE i \in bad : \A j \in bad : i <= j) = Len(s) + 1
  BY <1>4, <1>6
<1>8. SubSeq(longer, 1, Len(s)) = s
  OBVIOUS
<1>9. H!Readable(longer) = SubSeq(longer, 1, (CHOOSE i \in bad : \A j \in bad : i <= j) - 1)
  BY <1>6 DEF H!Readable
<1>10. (Len(s) + 1) - 1 = Len(s)
  BY <1>4
<1> HIDE DEF longer, bad
<1>11. H!Readable(longer) = s
  BY <1>7, <1>8, <1>9, <1>10
<1> QED BY <1>3, <1>11 DEF longer

\* The number that is drawn is that of the next line.
LEMMA NumberDrawn == ASSUME H!JournalInv PROVE H!NextSeq = Len(H!List) + 1
<1> DEFINE lines0 == H!List
<1>1. H!NextSeq = IF lines0 = << >> THEN 1 ELSE lines0[Len(lines0)].seq + 1
  BY DEF H!NextSeq
<1>2. lines0 \in Seq(H!Entries) /\ \A i \in DOMAIN lines0 : lines0[i].seq = i
  BY DEF H!JournalInv, H!Numbered
<1> HIDE DEF lines0
<1>3. CASE lines0 = << >>
  BY <1>1, <1>3 DEF lines0
<1>4. CASE lines0 # << >>
  <2>1. Len(lines0) \in DOMAIN lines0
    BY <1>2, <1>4
  <2> QED BY <1>1, <1>2, <1>4, <2>1 DEF lines0
<1> QED BY <1>3, <1>4

LEMMA RewindInit == H!Init => H!IInv
<1> SUFFICES ASSUME H!Init PROVE H!IInv
  OBVIOUS
<1>1. H!List = << >> /\ << >> \in Seq(H!Entries)
  <2>1. << >> \in Seq(H!Entries) /\ journal = << >>
    BY DEF H!Init
  <2> QED BY <2>1, ReadableLines DEF H!List
<1>2. H!TypeOK
  BY LimitsAssumption DEF H!Init, H!TypeOK, H!Versions, H!Absent, H!Missing, H!Seqs
<1>3. H!JournalInv /\ H!PlaceInv /\ H!CopyInv /\ H!ContentInv
  BY <1>1, LimitsAssumption DEF H!Init, H!JournalInv, H!Numbered, H!PlaceInv, H!CopyInv,
     H!ContentInv, H!Restoring
<1> QED BY <1>2, <1>3 DEF H!IInv


\* Steps that leave the journal, the copies and what is restored alone.
LEMMA EditSteps ==
  ASSUME H!IInv, \/ H!LogFails \/ H!Edit \/ H!EditFails
                 \/ \E touched \in SUBSET Path \ {{}} : H!Patch(touched)
  PROVE  H!IInv'
<1> USE LimitsAssumption DEF H!IInv
<1>1. /\ UNCHANGED << backup, journal, entry, undo, keep, undone, holes, stops >>
      /\ ~H!Restoring /\ ~H!Restoring' /\ doing # "rewriting" /\ doing' # "rewriting"
      /\ doing' # "recording" /\ doing' # "unlinking"
  BY DEF H!LogFails, H!Edit, H!EditFails, H!Patch, H!Restoring, H!TypeOK
<1>2. /\ doing' \in {"nothing", "editing"} /\ edits' \in 0..MaxEdits /\ edits' >= edits
      /\ doing = "editing" => edits' = edits + 1 /\ doing' = "nothing"
      /\ doing' = "editing" => doing = "recording" /\ edits' = edits
  BY DEF H!LogFails, H!Edit, H!EditFails, H!Patch, H!TypeOK, H!JournalInv
<1>3. content' \in [Path -> H!Versions]
  <2>1. CASE H!LogFails \/ H!EditFails
    BY <1>2, <2>1 DEF H!LogFails, H!EditFails, H!TypeOK, H!Versions
  <2>2. CASE H!Edit
    BY <1>2, <2>2 DEF H!Edit, H!TypeOK, H!Versions, H!JournalInv, H!Entries
  <2>3. CASE \E touched \in SUBSET Path \ {{}} : H!Patch(touched)
    BY <1>2, <2>3 DEF H!Patch, H!TypeOK, H!Versions
  <2> QED BY <2>1, <2>2, <2>3
<1>4. H!TypeOK'
  BY <1>1, <1>2, <1>3 DEF H!TypeOK
<1>5. H!List' = H!List
  BY <1>1 DEF H!List
<1>6. H!JournalInv'
  BY <1>1, <1>2, <1>5 DEF H!JournalInv, H!TypeOK
<1>7. H!PlaceInv' /\ H!ContentInv'
  BY <1>1 DEF H!PlaceInv, H!ContentInv
<1>8. H!CopyInv'
  BY <1>1, <1>5 DEF H!CopyInv, H!Copied
<1> QED BY <1>4, <1>6, <1>7, <1>8

LEMMA CopyKeeps == ASSUME H!IInv, NEW p \in Path, H!Copy(p) PROVE H!IInv'
<1> USE LimitsAssumption DEF H!IInv
<1>1. /\ doing = "nothing" /\ doing' = "recording" /\ edits < MaxEdits
      /\ UNCHANGED << content, journal, undo, keep, undone, holes, edits, stops >>
  BY DEF H!Copy
<1> DEFINE n == Len(H!List) + 1
<1>2. H!NextSeq = n /\ n \in H!Seqs
  BY <1>1, NumberDrawn DEF H!JournalInv, H!Numbered, H!TypeOK, H!Seqs
<1> HIDE DEF n
<1>3. /\ entry' = [seq |-> n, path |-> p, existed |-> content[p] # H!Absent, was |-> content[p]]
      /\ backup' = IF content[p] # H!Absent THEN [backup EXCEPT ![n] = content[p]] ELSE backup
  BY <1>2 DEF H!Copy
<1>4. content[p] \in H!Versions /\ entry' \in H!Entries
  BY <1>2, <1>3 DEF H!TypeOK, H!Entries
<1>5. H!TypeOK'
  BY <1>1, <1>2, <1>3, <1>4 DEF H!TypeOK
<1>6. H!List' = H!List
  BY <1>1 DEF H!List
<1>7. /\ entry'.seq = n /\ entry'.was = content[p] /\ (entry'.existed <=> content[p] # H!Absent)
      /\ entry'.existed => backup'[n] = entry'.was
  BY <1>2, <1>3 DEF H!TypeOK
<1>8. H!JournalInv'
  BY <1>1, <1>4, <1>6, <1>7 DEF H!JournalInv, n
<1>9. H!PlaceInv' /\ H!ContentInv'
  BY <1>1 DEF H!PlaceInv, H!ContentInv, H!Restoring
<1>10. \A i \in DOMAIN H!List : H!List[i].seq = i /\ i # n
  BY DEF H!JournalInv, H!Numbered, n
<1>11. \A i \in DOMAIN H!List : backup'[i] = backup[i]
  BY <1>2, <1>3, <1>10 DEF H!TypeOK
<1>12. H!CopyInv'
  BY <1>1, <1>6, <1>10, <1>11 DEF H!CopyInv, H!Copied, H!Restoring
<1> QED BY <1>5, <1>8, <1>9, <1>12

LEMMA LogKeeps == ASSUME H!IInv, H!Log PROVE H!IInv'
<1> USE LimitsAssumption DEF H!IInv
<1>1. /\ doing = "recording" /\ doing' = "editing" /\ journal' = H!Appended(entry)
      /\ holes' = holes \ {entry.seq}
      /\ UNCHANGED << content, backup, entry, undo, keep, undone, edits, stops >>
  BY DEF H!Log
<1>0. PICK old : old = H!List
  OBVIOUS
<1> DEFINE n == Len(old)
<1>2. /\ old \in Seq(H!Entries) /\ n \in Nat /\ entry \in H!Entries /\ n <= edits
      /\ \A i \in DOMAIN old : old[i].seq = i /\ (old[i].existed <=> old[i].was # H!Absent)
      /\ entry.seq = n + 1 /\ edits < MaxEdits /\ (entry.existed <=> entry.was # H!Absent)
      /\ entry.existed => backup[entry.seq] = entry.was
      /\ journal \in {old, Append(old, H!BadLine)}
  BY <1>0, <1>1 DEF H!JournalInv, H!Numbered
<1>3. /\ ~H!Restoring /\ ~H!Restoring' /\ H!TypeOK'
      /\ \A i \in DOMAIN old : old[i].seq \in holes => old[i].seq \in holes'
  BY <1>1, <1>2 DEF H!Restoring, H!TypeOK
<1>4. \A i \in DOMAIN old : H!Copied(old[i])'
  BY <1>0, <1>1, <1>2, <1>3 DEF H!CopyInv, H!Copied
<1>5. H!PlaceInv' /\ H!ContentInv'
  BY <1>1, <1>3 DEF H!PlaceInv, H!ContentInv
<1>6. CASE journal = Append(old, H!BadLine)
  <2>1. journal' = journal
    BY <1>1, <1>2, <1>6 DEF H!Appended
  <2>2. H!List' = old
    BY <1>0, <2>1 DEF H!List
  <2>3. H!JournalInv'
    <3>1. H!Numbered(old)
      BY <1>2 DEF H!Numbered
    <3>2. edits' \in 0..MaxEdits /\ edits' = edits
      BY <1>1 DEF H!TypeOK
    <3> QED BY <1>1, <1>2, <1>6, <2>1, <2>2, <3>1, <3>2 DEF H!JournalInv
  <2>4. H!CopyInv'
    BY <1>1, <1>4, <2>2 DEF H!CopyInv
  <2> QED BY <1>3, <1>5, <2>3, <2>4
<1>7. CASE journal = old
  <2>1. journal # << >> => journal[Len(journal)] # H!BadLine
    <3> SUFFICES ASSUME old # << >> PROVE old[n] # H!BadLine
      BY <1>7
    <3>1. n \in DOMAIN old /\ old[n].seq = n /\ n # 0
      BY <1>2
    <3>2. H!BadLine.seq = 0
      BY DEF H!BadLine
    <3> QED BY <3>1, <3>2
  <2>2. journal' = Append(old, entry)
    BY <1>1, <1>7, <2>1 DEF H!Appended
  <2>3. Append(old, entry) \in Seq(H!Entries)
    BY <1>2
  <2>4. H!List' = Append(old, entry)
    BY <2>2, <2>3, ReadableLines DEF H!List
  <2> DEFINE new == Append(old, entry)
  <2>5. /\ Len(new) = n + 1 /\ DOMAIN new = 1..n + 1 /\ DOMAIN old = 1..n
        /\ new[n + 1] = entry /\ \A i \in 1..n : new[i] = old[i]
    BY <1>2
  <2> HIDE DEF new
  <2>6. H!Numbered(new)
    BY <1>2, <2>3, <2>5 DEF H!Numbered, new
  <2>7. H!JournalInv'
    <3>1. edits' \in 0..MaxEdits /\ edits' = edits
      BY <1>1 DEF H!TypeOK
    <3>2. H!List' = new /\ journal' = new
      BY <2>2, <2>4 DEF new
    <3> QED BY <1>1, <1>2, <2>5, <2>6, <3>1, <3>2 DEF H!JournalInv
  <2>8. H!Copied(entry)'
    BY <1>1, <1>2 DEF H!Copied
  <2>9. H!CopyInv'
    BY <1>1, <1>4, <2>4, <2>5, <2>8 DEF H!CopyInv, new, H!Copied
  <2> QED BY <1>3, <1>5, <2>7, <2>9
<1> QED BY <1>2, <1>6, <1>7

LEMMA BeginKeeps == ASSUME H!IInv, NEW count \in 1..2, H!BeginRewind(count) PROVE H!IInv'
<1> USE LimitsAssumption DEF H!IInv
<1> DEFINE old == H!List
           n == Len(old)
           left == IF count < n THEN n - count ELSE 0
<1>1. /\ doing = "nothing" /\ doing' = "restoring" /\ old # << >>
      /\ keep' = SubSeq(old, 1, left) /\ undo' = H!Reversed(SubSeq(old, left + 1, n))
      /\ undone' = << >>
      /\ UNCHANGED << content, backup, journal, entry, holes, edits, stops >>
  BY DEF H!BeginRewind
<1>2. /\ old \in Seq(H!Entries) /\ n \in Nat /\ n <= edits
      /\ \A i \in DOMAIN old : old[i] \in H!Entries
  BY <1>1, SequenceElements DEF H!JournalInv, H!Numbered
<1>3. H!List' = old
  BY <1>1 DEF H!List
<1> HIDE DEF old
<1>4. left \in 0..n
  BY <1>2
<1> HIDE DEF left, n
<1>5. n = Len(old) /\ DOMAIN old = 1..n
  BY <1>2 DEF n
<1>6. /\ Len(keep') = left /\ DOMAIN keep' = 1..left /\ keep' \in Seq(H!Entries)
      /\ \A i \in 1..left : keep'[i] = old[i]
  BY <1>1, <1>2, <1>4, <1>5
<1> DEFINE rest == SubSeq(old, left + 1, n)
<1>7. /\ Len(rest) = n - left /\ DOMAIN rest = 1..n - left
      /\ \A i \in 1..n - left : rest[i] = old[left + i]
  <2>1. left + 1 \in Nat /\ 1 <= left + 1 /\ left + 1 <= n + 1 /\ n + 1 - (left + 1) = n - left
    BY <1>2, <1>4
  <2>2. /\ Len(rest) = n - left /\ DOMAIN rest = 1..n - left
        /\ \A i \in 1..n - left : rest[i] = old[(left + 1) + i - 1]
    BY <1>2, <1>5, <2>1, PartOfSequence
  <2>3. \A i \in 1..n - left : (left + 1) + i - 1 = left + i
    BY <1>2, <1>4
  <2> QED BY <2>2, <2>3
<1> HIDE DEF rest
<1>8. undo' = [i \in 1..n - left |-> old[n + 1 - i]]
  <2>1. undo' = [i \in DOMAIN rest |-> rest[Len(rest) + 1 - i]]
    BY <1>1 DEF rest, H!Reversed
  <2>2. \A i \in 1..n - left : rest[Len(rest) + 1 - i] = old[n + 1 - i]
    <3> TAKE i \in 1..n - left
    <3>1. Len(rest) + 1 - i \in 1..n - left /\ left + (Len(rest) + 1 - i) = n + 1 - i
      BY <1>2, <1>4, <1>7
    <3> QED BY <1>7, <3>1
  <2> QED BY <1>7, <2>1, <2>2
<1>9. \A i \in 1..n - left : old[n + 1 - i] \in H!Entries
  <2> TAKE i \in 1..n - left
  <2>1. n + 1 - i \in 1..n
    BY <1>2, <1>4
  <2> QED BY <1>2, <1>5, <2>1
<1>10. Len(undo') = n - left /\ DOMAIN undo' = 1..n - left /\ undo' \in Seq(H!Entries)
  BY <1>2, <1>4, <1>8, <1>9
<1>11. H!TypeOK'
  BY <1>1, <1>6, <1>10 DEF H!TypeOK
<1>12. H!JournalInv'
  BY <1>1, <1>3 DEF H!JournalInv, old
<1>13. H!PlaceInv'
  <2>1. Len(undone') = 0 /\ DOMAIN undone' = {}
    BY <1>1
  <2>2. Len(keep') + Len(undo') + Len(undone') = n
    BY <1>2, <1>4, <1>6, <1>10, <2>1
  <2>3. \A i \in DOMAIN undo' : undo'[i] = old[Len(keep') + Len(undo') + 1 - i]
    <3>1. Len(keep') + Len(undo') = n
      BY <1>2, <1>4, <1>6, <1>10
    <3> QED BY <1>8, <1>10, <3>1
  <2> QED BY <1>1, <1>3, <1>5, <1>6, <2>1, <2>2, <2>3 DEF H!PlaceInv, H!Restoring
<1>14. H!CopyInv'
  <2>1. \A i \in DOMAIN old : H!Copied(old[i])
    BY <1>1 DEF H!CopyInv, H!Restoring, old
  <2> QED BY <1>1, <1>3, <2>1 DEF H!CopyInv, H!Copied
<1>15. H!ContentInv'
  BY <1>1 DEF H!ContentInv
<1> QED BY <1>11, <1>12, <1>13, <1>14, <1>15


\* What a rewind is at: the entry in the last line that it has not undone.
LEMMA AtWork ==
  ASSUME H!IInv, H!Restoring, undo # << >>
  PROVE  LET e == Head(undo)
             k == Len(keep) + Len(undo)
         IN  /\ e \in H!Entries /\ k \in DOMAIN H!List /\ e = H!List[k] /\ e.seq = k
             /\ k \in H!Seqs /\ (e.existed <=> e.was # H!Absent) /\ H!Copied(e)
             /\ Len(keep) \in Nat /\ Len(undo) \in Nat /\ Len(undone) \in Nat
             /\ DOMAIN undone = 1..Len(undone) /\ Len(undo) >= 1
             /\ \A i \in DOMAIN undone : undone[i].seq > k /\ undone[i] \in H!Outcomes
<1> USE LimitsAssumption
<1>0. PICK old : old = H!List
  OBVIOUS
<1> DEFINE e == Head(undo)
           k == Len(keep) + Len(undo)
<1>1. /\ keep \in Seq(H!Entries) /\ undo \in Seq(H!Entries) /\ undone \in Seq(H!Outcomes)
  BY DEF H!IInv, H!TypeOK
<1>2. \A i \in DOMAIN undone : undone[i] \in H!Outcomes
  BY <1>1, SequenceElements
<1>3. /\ Len(keep) \in Nat /\ Len(undo) \in Nat /\ Len(undone) \in Nat
      /\ DOMAIN undone = 1..Len(undone) /\ Len(undo) >= 1 /\ 1 \in DOMAIN undo /\ e = undo[1]
  BY <1>1
<1>4. /\ old \in Seq(H!Entries) /\ Len(old) <= MaxEdits + 1
      /\ \A i \in DOMAIN old : old[i].seq = i /\ (old[i].existed <=> old[i].was # H!Absent)
      /\ \A i \in DOMAIN old : H!Copied(old[i]) \/ i > k
  BY <1>0 DEF H!IInv, H!TypeOK, H!JournalInv, H!Numbered, H!CopyInv
<1>5. /\ k + Len(undone) = Len(old) /\ undo[1] = old[k + 1 - 1]
      /\ \A i \in DOMAIN undone : undone[i].seq = Len(old) + 1 - i
  BY <1>0, <1>3 DEF H!IInv, H!PlaceInv
<1> HIDE DEF k, e
<1>6. k \in Nat /\ k = Len(keep) + Len(undo)
  BY <1>3 DEF k
<1>7. k \in 1..Len(old) /\ DOMAIN old = 1..Len(old) /\ k + 1 - 1 = k /\ Len(old) \in Nat
  BY <1>3, <1>4, <1>5, <1>6
<1>8. e = old[k] /\ e.seq = k
  BY <1>3, <1>4, <1>5, <1>7
<1>9. e \in H!Entries
  BY <1>4, <1>7, <1>8, SequenceElements
<1>10. k \in H!Seqs
  BY <1>4, <1>7 DEF H!Seqs
<1>11. \A i \in DOMAIN undone : undone[i].seq > k
  BY <1>3, <1>5, <1>6
<1>12. (e.existed <=> e.was # H!Absent) /\ H!Copied(e)
  <2>1. ~(k > k)
    BY <1>6
  <2> QED BY <1>4, <1>7, <1>8, <2>1
<1> QED BY <1>0, <1>2, <1>3, <1>7, <1>8, <1>9, <1>10, <1>11, <1>12 DEF e, k

LEMMA RestoreKeeps == ASSUME H!IInv, H!Restore PROVE H!IInv'
<1> USE LimitsAssumption DEF H!IInv
<1>1. /\ doing = "restoring" /\ undo # << >> /\ doing' = "unlinking" /\ H!Restoring /\ H!Restoring'
      /\ UNCHANGED << backup, journal, entry, undo, keep, undone, holes, edits, stops >>
  BY DEF H!Restore, H!Restoring
<1>0. PICK e : e = Head(undo)
  OBVIOUS
<1>2. content' = [content EXCEPT ![e.path] = IF ~e.existed THEN H!Absent
                    ELSE IF backup[e.seq] # H!Missing THEN backup[e.seq] ELSE content[e.path]]
  BY <1>0 DEF H!Restore
<1>3. /\ e \in H!Entries /\ e.seq \in H!Seqs /\ (e.existed <=> e.was # H!Absent) /\ H!Copied(e)
  BY <1>0, <1>1, AtWork
<1>4. /\ e.path \in Path /\ e.was \in H!Versions /\ e.was # H!Missing
      /\ backup[e.seq] \in H!Versions \cup {H!Missing} /\ content[e.path] \in H!Versions
      /\ H!Absent \in H!Versions
  BY <1>3 DEF H!TypeOK, H!Entries, H!Versions, H!Missing, H!Absent
<1>5. /\ content'[e.path] = e.was \/ e.seq \in holes
      /\ content' \in [Path -> H!Versions]
      /\ \A p \in Path \ {e.path} : content'[p] = content[p]
  BY <1>2, <1>3, <1>4 DEF H!TypeOK, H!Copied
<1>6. H!TypeOK'
  BY <1>1, <1>5 DEF H!TypeOK
<1>7. H!List' = H!List
  BY <1>1 DEF H!List
<1>8. H!JournalInv' /\ H!PlaceInv'
  BY <1>1, <1>7 DEF H!JournalInv, H!PlaceInv
<1>9. H!CopyInv'
  BY <1>1, <1>7 DEF H!CopyInv, H!Copied, H!Undone
<1>10. H!ContentInv'
  <2>1. \A i \in DOMAIN undone : undone[i].path \in Path
    <3>1. \A i \in DOMAIN undone : undone[i] \in H!Outcomes
      BY SequenceElements DEF H!TypeOK
    <3> QED BY <3>1 DEF H!Outcomes
  <2> QED BY <1>0, <1>1, <1>5, <2>1 DEF H!ContentInv, H!LastOfItsFile
<1> QED BY <1>6, <1>8, <1>9, <1>10

\* The next entry is through, undone or given up.
LEMMA EntryIsThrough ==
  ASSUME H!IInv, H!Unlink \/ H!RestoreFails
  PROVE  H!IInv'
<1> USE LimitsAssumption DEF H!IInv
<1>0. PICK e, k, done, old : /\ e = Head(undo) /\ k = Len(keep) + Len(undo)
                             /\ done = (doing = "unlinking") /\ old = H!List
  OBVIOUS
<1>1. /\ H!Restoring /\ H!Restoring' /\ undo # << >> /\ doing' = "restoring" /\ done \in BOOLEAN
      /\ undo' = Tail(undo) /\ undone' = Append(undone, H!Outcome(e, done))
      /\ backup' = IF done /\ e.existed THEN [backup EXCEPT ![e.seq] = H!Missing] ELSE backup
      /\ UNCHANGED << content, journal, entry, keep, holes, edits, stops >>
  BY <1>0 DEF H!Unlink, H!RestoreFails, H!Restoring, H!PlaceInv
<1>2. /\ e \in H!Entries /\ k \in DOMAIN old /\ e = old[k] /\ e.seq = k
      /\ k \in H!Seqs /\ (e.existed <=> e.was # H!Absent) /\ H!Copied(e)
      /\ Len(keep) \in Nat /\ Len(undo) \in Nat /\ Len(undone) \in Nat
      /\ DOMAIN undone = 1..Len(undone) /\ Len(undo) >= 1
      /\ \A i \in DOMAIN undone : undone[i].seq > k /\ undone[i] \in H!Outcomes
  BY <1>0, <1>1, AtWork
<1>3. /\ keep \in Seq(H!Entries) /\ undo \in Seq(H!Entries) /\ undone \in Seq(H!Outcomes)
  BY DEF H!TypeOK
<1> DEFINE new == H!Outcome(e, done)
           n == Len(undone)
<1>4. new \in H!Outcomes /\ new.seq = k /\ new.path = e.path /\ new.was = e.was /\ new.restored = done
  BY <1>1, <1>2 DEF H!Outcome, H!Outcomes, H!Entries
<1> HIDE DEF new
<1>5. /\ undone' \in Seq(H!Outcomes) /\ Len(undone') = n + 1 /\ DOMAIN undone' = 1..n + 1
      /\ undone'[n + 1] = new /\ \A i \in 1..n : undone'[i] = undone[i]
  BY <1>1, <1>3, <1>4 DEF new
<1>6. /\ undo' \in Seq(H!Entries) /\ Len(undo') = Len(undo) - 1 /\ DOMAIN undo' = 1..Len(undo) - 1
      /\ \A i \in 1..Len(undo) - 1 : undo'[i] = undo[i + 1]
  BY <1>1, <1>3
<1> HIDE DEF n
<1>7. n \in Nat /\ n = Len(undone) /\ DOMAIN undone = 1..n /\ k \in Nat /\ Len(keep') + Len(undo') = k - 1
  BY <1>0, <1>1, <1>2, <1>6 DEF n
<1>8. /\ backup' \in [H!Seqs -> H!Versions \cup {H!Missing}]
      /\ \A i \in H!Seqs \ {k} : backup'[i] = backup[i]
      /\ backup'[k] = IF done /\ e.existed THEN H!Missing ELSE backup[k]
  BY <1>1, <1>2 DEF H!TypeOK
<1>9. H!TypeOK'
  BY <1>1, <1>5, <1>6, <1>8 DEF H!TypeOK
<1>10. H!List' = old
  BY <1>0, <1>1 DEF H!List
<1>11. H!JournalInv'
  BY <1>0, <1>1, <1>10 DEF H!JournalInv, H!Restoring
<1>12. H!PlaceInv'
  <2>1. /\ k + n = Len(old) /\ \A i \in DOMAIN keep : keep[i] = old[i]
        /\ \A i \in DOMAIN undo : undo[i] = old[k + 1 - i]
        /\ \A i \in 1..n : undone[i].seq = Len(old) + 1 - i
    BY <1>0, <1>1, <1>7 DEF H!PlaceInv
  <2>2. Len(keep') + Len(undo') + Len(undone') = Len(old)
    BY <1>5, <1>7, <2>1
  <2>3. \A i \in DOMAIN undo' : undo'[i] = old[Len(keep') + Len(undo') + 1 - i]
    <3> TAKE i \in DOMAIN undo'
    <3>1. i \in 1..Len(undo) - 1 /\ i + 1 \in DOMAIN undo
      BY <1>3, <1>6
    <3>2. k + 1 - (i + 1) = Len(keep') + Len(undo') + 1 - i
      BY <1>7, <3>1
    <3> QED BY <1>6, <2>1, <3>1, <3>2
  <2>4. \A i \in DOMAIN undone' : undone'[i].seq = Len(old) + 1 - i
    <3>1. Len(old) + 1 - (n + 1) = k
      BY <1>7, <2>1
    <3> QED BY <1>4, <1>5, <1>7, <2>1, <3>1
  <2> QED BY <1>1, <1>10, <2>1, <2>2, <2>3, <2>4 DEF H!PlaceInv
<1>13. H!CopyInv'
  <2>1. \A i \in DOMAIN old : /\ i \in H!Seqs /\ old[i].seq = i
                              /\ \/ H!Copied(old[i])
                                 \/ i > k /\ backup[i] = H!Missing /\ H!Undone(old[i])
    <3>1. \A i \in DOMAIN old : old[i].seq = i /\ old[i] \in H!Entries
      BY <1>0, SequenceElements DEF H!JournalInv, H!Numbered
    <3>2. \A i \in DOMAIN old : i \in H!Seqs
      BY <3>1 DEF H!Entries
    <3> QED BY <1>0, <3>1, <3>2 DEF H!CopyInv
  <2>2. ASSUME NEW i \in DOMAIN old
        PROVE  \/ H!Copied(old[i])'
               \/ i > k - 1 /\ backup'[i] = H!Missing /\ H!Undone(old[i])'
    <3>1. CASE i = k
      <4>1. CASE done /\ e.existed
        <5>1. n + 1 \in DOMAIN undone' /\ undone'[n + 1] = new
          BY <1>5, <1>7
        <5>2. new.seq = old[i].seq
          BY <1>2, <1>4, <3>1
        <5>3. new.restored
          BY <1>4, <4>1
        <5>4. H!Undone(old[i])'
          BY <5>1, <5>2, <5>3 DEF H!Undone
        <5> QED BY <1>7, <1>8, <3>1, <4>1, <5>4
      <4>2. CASE ~(done /\ e.existed)
        BY <1>1, <1>2, <1>8, <3>1, <4>2 DEF H!Copied
      <4> QED BY <4>1, <4>2
    <3>2. CASE i # k
      <4>1. backup'[i] = backup[i] /\ old[i].seq = i
        BY <1>8, <2>1, <3>2
      <4>2. H!Copied(old[i]) => H!Copied(old[i])'
        BY <1>1, <4>1 DEF H!Copied
      <4>3. H!Undone(old[i]) => H!Undone(old[i])'
        BY <1>5, <1>7 DEF H!Undone
      <4>4. i > k => i > k - 1
        BY <1>7, <2>1 DEF H!Seqs
      <4> QED BY <2>1, <4>1, <4>2, <4>3, <4>4
    <3> QED BY <3>1, <3>2
  <2> QED BY <1>1, <1>7, <1>10, <2>2 DEF H!CopyInv
<1>14. H!ContentInv'
  <2>1. done => content[e.path] = e.was \/ k \in holes
    BY <1>0, <1>2 DEF H!ContentInv
  <2>2. ASSUME NEW i \in DOMAIN undone', H!LastOfItsFile(i)'
        PROVE  \/ content'[undone'[i].path] = undone'[i].was
               \/ ~undone'[i].restored \/ undone'[i].seq \in holes'
    <3>1. CASE i = n + 1
      BY <1>1, <1>4, <1>5, <2>1, <3>1
    <3>2. CASE i \in 1..n
      <4>1. undone'[i] = undone[i] /\ undone[i].seq > k /\ undone[i].seq \in Nat
        BY <1>2, <1>5, <1>7, <3>2 DEF H!Outcomes, H!Seqs
      <4>2. undone[i].path # e.path
        <5>1. n + 1 \in DOMAIN undone'
          BY <1>5, <1>7
        <5>2. ~(k >= undone[i].seq)
          BY <1>7, <4>1
        <5> QED BY <1>4, <1>5, <2>2, <4>1, <5>1, <5>2 DEF H!LastOfItsFile
      <4>3. H!LastOfItsFile(i)
        BY <1>5, <1>7, <2>2, <3>2, <4>1 DEF H!LastOfItsFile
      <4>4. \/ content[undone[i].path] = undone[i].was
            \/ ~undone[i].restored \/ undone[i].seq \in holes
        BY <1>0, <1>1, <1>7, <3>2, <4>2, <4>3 DEF H!ContentInv
      <4> QED BY <1>1, <4>1, <4>4
    <3> QED BY <1>5, <1>7, <3>1, <3>2
  <2> QED BY <1>1, <2>2 DEF H!ContentInv
<1> QED BY <1>9, <1>11, <1>12, <1>13, <1>14


LEMMA OpenKeeps == ASSUME H!IInv, H!OpenJournal PROVE H!IInv'
<1> USE LimitsAssumption DEF H!IInv
<1>0. PICK old : old = H!List
  OBVIOUS
<1>1. /\ doing = "restoring" /\ doing' = "rewriting" /\ H!Restoring /\ ~H!Restoring' /\ journal' = << >>
      /\ UNCHANGED << content, backup, entry, undo, keep, undone, holes, edits, stops >>
  BY DEF H!OpenJournal, H!Restoring
<1>2. H!List' = << >> /\ H!Numbered(<< >>)
  <2>1. << >> \in Seq(H!Entries)
    OBVIOUS
  <2>2. H!Readable(<< >>) = << >>
    BY <2>1, ReadableLines
  <2>3. H!List' = << >>
    BY <1>1, <2>2 DEF H!List
  <2>4. H!Numbered(<< >>)
    BY <2>1 DEF H!Numbered
  <2> QED BY <2>3, <2>4
<1>3. H!TypeOK'
  BY <1>1 DEF H!TypeOK
<1>4. edits \in Nat /\ edits' = edits /\ Len(<< >>) = 0
  BY <1>1 DEF H!TypeOK
<1>5. H!JournalInv'
  BY <1>1, <1>2, <1>4 DEF H!JournalInv
<1>6. /\ keep \in Seq(H!Entries) /\ Len(keep) \in Nat /\ Len(undo) \in Nat /\ Len(undone) \in Nat
      /\ DOMAIN keep = 1..Len(keep)
  BY DEF H!TypeOK
<1>7. /\ old \in Seq(H!Entries) /\ Len(old) <= edits /\ DOMAIN old = 1..Len(old)
      /\ \A i \in DOMAIN old : /\ old[i].seq = i /\ (old[i].existed <=> old[i].was # H!Absent)
                               /\ (H!Copied(old[i]) \/ i > Len(keep) + Len(undo))
      /\ Len(keep) + Len(undo) + Len(undone) = Len(old)
      /\ \A i \in DOMAIN keep : keep[i] = old[i]
  BY <1>0, <1>1 DEF H!JournalInv, H!Numbered, H!CopyInv, H!PlaceInv
<1>8. Len(keep) <= edits /\ \A i \in DOMAIN keep : i \in DOMAIN old /\ ~(i > Len(keep) + Len(undo))
  BY <1>4, <1>6, <1>7
<1>9. H!Numbered(keep) /\ \A i \in DOMAIN keep : H!Copied(keep[i])
  BY <1>6, <1>7, <1>8 DEF H!Numbered
<1>10. H!PlaceInv'
  BY <1>1, <1>8, <1>9 DEF H!PlaceInv
<1>11. H!CopyInv'
  BY <1>1, <1>2, <1>9 DEF H!CopyInv, H!Copied
<1>12. H!ContentInv'
  BY <1>1 DEF H!ContentInv
<1> QED BY <1>3, <1>5, <1>10, <1>11, <1>12

LEMMA WriteKeeps == ASSUME H!IInv, H!WriteJournal PROVE H!IInv'
<1> USE LimitsAssumption DEF H!IInv
<1>1. /\ doing = "rewriting" /\ doing' = "nothing" /\ ~H!Restoring' /\ journal' = keep
      /\ undone' = << >>
      /\ UNCHANGED << content, backup, entry, undo, keep, holes, edits, stops >>
  BY DEF H!WriteJournal, H!Restoring
<1>2. H!Numbered(keep) /\ keep \in Seq(H!Entries) /\ Len(keep) <= edits
  BY <1>1 DEF H!PlaceInv, H!Numbered
<1>3. H!List' = keep
  BY <1>1, <1>2, ReadableLines DEF H!List
<1>4. H!TypeOK'
  BY <1>1 DEF H!TypeOK
<1>5. H!JournalInv'
  BY <1>1, <1>2, <1>3 DEF H!JournalInv
<1>6. H!PlaceInv' /\ H!ContentInv'
  BY <1>1 DEF H!PlaceInv, H!ContentInv
<1>7. H!CopyInv'
  BY <1>1, <1>3 DEF H!CopyInv, H!Copied
<1> QED BY <1>4, <1>5, <1>6, <1>7

LEMMA StopKeeps == ASSUME H!IInv, H!Stop PROVE H!IInv'
<1> USE LimitsAssumption DEF H!IInv
<1>0. PICK old : old = H!List
  OBVIOUS
<1>1. /\ doing # "nothing" /\ doing' = "nothing" /\ ~H!Restoring'
      /\ stops' = stops + 1 /\ keep' = << >> /\ undo' = << >> /\ undone' = << >>
      /\ edits' = IF doing = "editing" THEN edits + 1 ELSE edits
      /\ journal' \in {journal, H!Appended(H!BadLine)}
      /\ holes \subseteq holes' /\ UNCHANGED << backup, entry >>
      /\ holes' = holes \cup {undone[i].seq : i \in {j \in DOMAIN undone : undone[j].restored}}
      /\ content' \in {content, [content EXCEPT ![entry.path] = edits']}
      /\ doing # "editing" => content' = content
  BY DEF H!Stop, H!Restoring
<1>2. /\ old \in Seq(H!Entries) /\ H!Numbered(old) /\ journal \in {old, Append(old, H!BadLine)}
      /\ edits \in 0..MaxEdits /\ edits' \in 0..MaxEdits /\ Len(old) <= edits'
  BY <1>0, <1>1 DEF H!JournalInv, H!Numbered, H!TypeOK
<1>3. journal' \in {old, Append(old, H!BadLine)}
  BY <1>1, <1>2 DEF H!Appended
<1>4. H!List' = old
  BY <1>2, <1>3, ReadableLines DEF H!List
<1>5. \A i \in DOMAIN undone : undone[i].seq \in H!Seqs
  <2>1. \A i \in DOMAIN undone : undone[i] \in H!Outcomes
    BY SequenceElements DEF H!TypeOK
  <2> QED BY <2>1 DEF H!Outcomes
<1>6. content' \in [Path -> H!Versions]
  BY <1>1, <1>2 DEF H!TypeOK, H!JournalInv, H!Entries, H!Versions
<1>7. H!TypeOK'
  <2>1. << >> \in Seq(H!Entries) /\ << >> \in Seq(H!Outcomes)
    OBVIOUS
  <2>2. holes' \subseteq H!Seqs
    BY <1>1, <1>5 DEF H!TypeOK
  <2> QED BY <1>1, <1>2, <1>6, <2>1, <2>2 DEF H!TypeOK
<1>8. H!JournalInv'
  BY <1>1, <1>2, <1>3, <1>4 DEF H!JournalInv
<1>9. H!PlaceInv' /\ H!ContentInv'
  BY <1>1 DEF H!PlaceInv, H!ContentInv
<1>10. \A i \in DOMAIN old : H!Copied(old[i])'
  <2> TAKE i \in DOMAIN old
  <2>1. CASE H!Copied(old[i])
    BY <1>1, <2>1 DEF H!Copied
  <2>2. CASE backup[i] = H!Missing /\ H!Undone(old[i])
    <3>1. old[i].seq = i
      BY <1>2 DEF H!Numbered
    <3>2. old[i].seq \in holes'
      BY <1>1, <2>2 DEF H!Undone
    <3> QED BY <1>1, <2>2, <3>1, <3>2 DEF H!Copied
  <2> QED BY <1>0, <2>1, <2>2 DEF H!CopyInv
<1>11. H!CopyInv'
  BY <1>1, <1>4, <1>10 DEF H!CopyInv
<1> QED BY <1>7, <1>8, <1>9, <1>11

LEMMA RewindNext == H!IInv /\ (H!Next \/ UNCHANGED rewindVars) => H!IInv'
<1> SUFFICES ASSUME H!IInv, H!Next \/ UNCHANGED rewindVars PROVE H!IInv'
  OBVIOUS
<1>1. CASE UNCHANGED rewindVars
  BY <1>1 DEF rewindVars, H!IInv, H!TypeOK, H!JournalInv, H!PlaceInv, H!CopyInv, H!ContentInv,
              H!List, H!Restoring, H!Copied, H!Undone, H!LastOfItsFile
<1> QED BY <1>1, EditSteps, CopyKeeps, LogKeeps, BeginKeeps, RestoreKeeps, EntryIsThrough,
           OpenKeeps, WriteKeeps, StopKeeps DEF H!Next

LEMMA RewindInvariance == Spec => []H!IInv
<1>1. Init => H!IInv
  BY RewindInit DEF Init
<1>2. H!IInv /\ [Next]_vars => H!IInv'
  BY RewindNext, RewindSteps
<1> QED BY <1>1, <1>2, PTL DEF Spec

\* A copy in the history stands for no other edit than its own, although numbers are drawn
\* again (FileHistory.record and _next_seq): the entry in line i has the number i, so a
\* number is drawn again only when its entry is gone.
THEOREM CopiesAreTrue == Spec => []H!BackupsAreTrue
<1>1. H!IInv => H!BackupsAreTrue
  <2> SUFFICES ASSUME H!IInv, NEW i \in DOMAIN H!List, H!List[i].existed
               PROVE  LET e == H!List[i]
                      IN  \/ backup[e.seq] = e.was
                          \/ backup[e.seq] = H!Missing /\ (e.seq \in holes \/ H!Undone(e))
    BY DEF H!BackupsAreTrue
  <2>1. H!List[i].seq = i
    BY DEF H!IInv, H!JournalInv, H!Numbered
  <2> QED BY <2>1 DEF H!IInv, H!CopyInv, H!Copied
<1> QED BY <1>1, RewindInvariance, PTL

\* When a rewind has gone through its entries, every file holds what it held before the
\* oldest edit that was undone, or the user was told, or an interrupted rewind had
\* restored it before (FileHistory.rewind): the entries are undone from the last line
\* down, so the one that is undone last of a file is its oldest.
THEOREM RewindGoesBack == Spec => RewindRestores
<1>1. H!IInv /\ doing = "restoring" =>
        \A i \in DOMAIN undone :
          (\A j \in DOMAIN undone : undone[j].path = undone[i].path => undone[j].seq >= undone[i].seq)
            => \/ content[undone[i].path] = undone[i].was
               \/ ~undone[i].restored \/ undone[i].seq \in holes
  BY DEF H!IInv, H!ContentInv, H!Restoring, H!LastOfItsFile
<1> QED BY <1>1, RewindInvariance, PTL DEF RewindRestores, H!RewindRestores

(***************************************************************************)
(* Saved sessions                                                          *)
(***************************************************************************)
LEMMA SessionsSteps == [Next]_vars => Z!Next \/ UNCHANGED sessionsVars
BY DEF Next, vars

LEMMA SessionsConstants ==
  /\ Z!None = 0 /\ Z!None \notin Z!Id /\ Z!None \notin Z!File /\ Z!Torn = {} /\ 1 \in Z!Id
  /\ \A n \in Nat : Z!Torn \in SUBSET (1..n)
BY SecondsAssumption DEF Z!None, Z!Id, Z!File, Z!Torn

LEMMA SessionsInit == Z!Init => Z!IInv
<1> SUFFICES ASSUME Z!Init PROVE Z!IInv
  OBVIOUS
<1>1. Z!TypeOK
  BY SessionsConstants DEF Z!Init, Z!TypeOK
<1>2. Z!PlaceInv /\ Z!OwnedInv
  BY SessionsConstants DEF Z!Init, Z!PlaceInv, Z!OwnedInv, Z!FilesOf
<1>3. \A i \in Z!Id : Z!SoleInv(i)
  BY SessionsConstants DEF Z!Init, Z!SoleInv, Z!Load
<1> QED BY <1>1, <1>2, <1>3 DEF Z!IInv

\* There is a file for a process that has none open.
LEMMA FreshIsFree ==
  ASSUME Z!TypeOK, NEW p \in Process, openFile[p] = Z!None
  PROVE  /\ Z!Fresh \in Z!File
         /\ \A i \in Z!Id : final[i] # Z!Fresh /\ tempFile[i] # Z!Fresh
         /\ \A q \in Process : openFile[q] # Z!Fresh
<1> DEFINE Others == Process \ {p}
           Final == {final[i] : i \in Z!Id}
           Temp == {tempFile[i] : i \in Z!Id}
           Opened == {openFile[q] : q \in Others}
           Used == Final \cup Temp \cup Opened
<1>1. /\ IsFiniteSet(Z!Id) /\ Cardinality(Z!Id) = Seconds
      /\ IsFiniteSet(Process) /\ Cardinality(Process) \in Nat
      /\ IsFiniteSet(Others) /\ Cardinality(Others) = Cardinality(Process) - 1
  <2>1. 1 \in Int /\ Seconds \in Int /\ ~(1 > Seconds) /\ Seconds - 1 + 1 = Seconds
    BY SecondsAssumption
  <2>2. IsFiniteSet(Z!Id) /\ Cardinality(Z!Id) = Seconds
    BY <2>1, FS_Interval DEF Z!Id
  <2>3. IsFiniteSet(Process) /\ Cardinality(Process) \in Nat
    BY ProcessAssumption, FS_CardinalityType
  <2>4. IsFiniteSet(Others) /\ Cardinality(Others) = Cardinality(Process) - 1
    BY ProcessAssumption, FS_RemoveElement
  <2> QED BY <2>2, <2>3, <2>4
<1>2. /\ IsFiniteSet(Final) /\ Cardinality(Final) <= Seconds
      /\ IsFiniteSet(Temp) /\ Cardinality(Temp) <= Seconds
  <2>1. IsFiniteSet(Final) /\ Cardinality(Final) <= Cardinality(Z!Id)
    BY <1>1, ImageIsSmaller
  <2>2. IsFiniteSet(Temp) /\ Cardinality(Temp) <= Cardinality(Z!Id)
    BY <1>1, ImageIsSmaller
  <2> QED BY <1>1, <2>1, <2>2
<1>3. IsFiniteSet(Opened) /\ Cardinality(Opened) <= Cardinality(Process) - 1
  <2>1. IsFiniteSet(Opened) /\ Cardinality(Opened) <= Cardinality(Others)
    BY <1>1, ImageIsSmaller
  <2> QED BY <1>1, <2>1
<1> HIDE DEF Others, Final, Temp, Opened
<1>4. /\ Cardinality(Final) \in Nat /\ Cardinality(Temp) \in Nat /\ Cardinality(Opened) \in Nat
  BY <1>2, <1>3, FS_CardinalityType
<1>5. IsFiniteSet(Final \cup Temp) /\ Cardinality(Final \cup Temp) <= Seconds + Seconds
  <2>1. /\ IsFiniteSet(Final \cup Temp)
        /\ Cardinality(Final \cup Temp)
             = Cardinality(Final) + Cardinality(Temp) - Cardinality(Final \cap Temp)
    BY <1>2, FS_Union
  <2>2. Cardinality(Final \cap Temp) \in Nat
    BY <1>2, FS_Intersection, FS_CardinalityType
  <2> QED BY <1>2, <1>4, <2>1, <2>2, SecondsAssumption
<1>6. Cardinality(Final \cup Temp) \in Nat
  BY <1>5, FS_CardinalityType
<1>7. IsFiniteSet(Used) /\ Cardinality(Used) <= Seconds + Seconds + Cardinality(Process) - 1
  <2>1. /\ IsFiniteSet(Used)
        /\ Cardinality(Used) = Cardinality(Final \cup Temp) + Cardinality(Opened)
                                 - Cardinality((Final \cup Temp) \cap Opened)
    BY <1>3, <1>5, FS_Union
  <2>2. Cardinality((Final \cup Temp) \cap Opened) \in Nat
    BY <1>5, FS_Intersection, FS_CardinalityType
  <2> QED BY <1>1, <1>3, <1>4, <1>5, <1>6, <2>1, <2>2, SecondsAssumption
<1>8. IsFiniteSet(Z!File) /\ Cardinality(Z!File) = 2 * Seconds + Cardinality(Process)
  <2> DEFINE n == 2 * Seconds + Cardinality(Process)
  <2>1. 1 \in Int /\ n \in Int /\ ~(1 > n) /\ n - 1 + 1 = n
    BY <1>1, SecondsAssumption
  <2>2. Z!File = 1..n
    BY DEF Z!File, Z!Cardinality, Cardinality, Z!IsFiniteSet, IsFiniteSet
  <2> HIDE DEF n
  <2>3. IsFiniteSet(Z!File) /\ Cardinality(Z!File) = n
    BY <2>1, <2>2, FS_Interval
  <2> QED BY <2>3 DEF n
<1> HIDE DEF Used
<1>9. PICK free \in Z!File : free \notin Used
  <2>1. SUFFICES ASSUME Z!File \subseteq Used PROVE FALSE
    OBVIOUS
  <2>2. Cardinality(Z!File) <= Cardinality(Used)
    BY <1>7, <2>1, FS_Subset
  <2>3. Cardinality(Used) \in Nat
    BY <1>7, FS_CardinalityType
  <2> QED BY <1>1, <1>7, <1>8, <2>2, <2>3, SecondsAssumption
<1>10. /\ \A i \in Z!Id : final[i] # free /\ tempFile[i] # free
       /\ \A q \in Process : openFile[q] # free
  <2>1. free # openFile[p]
    BY <1>9, SessionsConstants
  <2>2. \A q \in Process : q = p \/ q \in Others
    BY DEF Others
  <2> QED BY <1>9, <2>1, <2>2 DEF Used, Final, Temp, Opened
<1> QED BY <1>10 DEF Z!Fresh

\* What a step does to a session it does not touch.
LEMMA SoleStays ==
  ASSUME Z!IInv, NEW i \in Z!Id \ ambiguous,
         UNCHANGED << sessionOf, talk, cleared >>,
         final'[i] = final[i], tempFile'[i] = tempFile[i], savedTalks'[i] = savedTalks[i],
         \A f \in Z!FilesOf(i) : sessionText'[f] = sessionText[f],
         \A p \in Process : sessionOf[p] = i =>
            persisting'[p] = persisting[p] /\ openFile'[p] = openFile[p]
  PROVE  Z!SoleInv(i)'
<1>1. Z!SoleInv(i)
  BY DEF Z!IInv
<1>2. final[i] # Z!None => sessionText'[final[i]] = sessionText[final[i]]
  BY DEF Z!FilesOf
<1>3. Z!Load(i)' = Z!Load(i)
  BY <1>2 DEF Z!Load
<1>4. ASSUME NEW p \in Process, sessionOf[p] = i, persisting[p] \in {"write", "replace"}
      PROVE  tempFile[i] # Z!None /\ sessionText'[tempFile[i]] = sessionText[tempFile[i]]
  <2>1. tempFile[i] # Z!None
    BY <1>1, <1>4 DEF Z!IInv, Z!PlaceInv, Z!SoleInv
  <2> QED BY <2>1 DEF Z!FilesOf
<1> QED BY <1>1, <1>3, <1>4 DEF Z!SoleInv

\* Where a process is in its save.
LEMMA PlaceOf ==
  ASSUME Z!IInv, NEW p \in Process
  PROVE  /\ persisting[p] # "no" => sessionOf[p] \in Z!Id
         /\ persisting[p] = "write" => openFile[p] # Z!None /\ openFile[p] \in Z!File
         /\ persisting[p] # "write" => openFile[p] = Z!None
<1>0. Z!PlaceInv
  BY DEF Z!IInv
<1>1. /\ (sessionOf[p] = Z!None) => (persisting[p] = "no")
      /\ (openFile[p] # Z!None) <=> (persisting[p] = "write")
  BY <1>0, Zenon DEF Z!PlaceInv
<1>2. sessionOf[p] \in Z!Id \cup {Z!None} /\ openFile[p] \in Z!File \cup {Z!None}
  BY DEF Z!IInv, Z!TypeOK
<1> QED BY <1>1, <1>2

\* A step of one process keeps the others' places.
LEMMA PlaceStays ==
  ASSUME Z!IInv, NEW p \in Process,
         \A q \in Process \ {p} : /\ persisting'[q] = persisting[q]
                                  /\ openFile'[q] = openFile[q] /\ sessionOf'[q] = sessionOf[q],
         (sessionOf'[p] = Z!None) => (persisting'[p] = "no"),
         (openFile'[p] # Z!None) <=> (persisting'[p] = "write")
  PROVE  Z!PlaceInv'
<1> SUFFICES ASSUME NEW q \in Process
             PROVE  /\ (sessionOf'[q] = Z!None) => (persisting'[q] = "no")
                    /\ (openFile'[q] # Z!None) <=> (persisting'[q] = "write")
  BY DEF Z!PlaceInv, Z!None
<1>1. CASE q = p
  BY <1>1
<1>2. CASE q # p
  <2>1. /\ persisting[q] # "no" => sessionOf[q] \in Z!Id
        /\ persisting[q] = "write" => openFile[q] # Z!None /\ openFile[q] \in Z!File
        /\ persisting[q] # "write" => openFile[q] = Z!None
    BY PlaceOf
  <2> QED BY <1>2, <2>1, SessionsConstants
<1> QED BY <1>1, <1>2

LEMMA OpenTempKeeps == ASSUME Z!IInv, NEW p \in Process, Z!OpenTemp(p) PROVE Z!IInv'
<1>0. PICK i, file0 : i = sessionOf[p] /\ file0 = Z!Target(i)
  OBVIOUS
<1>1. /\ persisting[p] = "open" /\ persisting' = [persisting EXCEPT ![p] = "write"]
      /\ openFile' = [openFile EXCEPT ![p] = file0]
      /\ tempFile' = [tempFile EXCEPT ![i] = file0]
      /\ sessionText' = [sessionText EXCEPT ![file0] = Z!Torn]
      /\ UNCHANGED << second, sessionOf, talk, final, talks, savedTalks, cleared, ambiguous >>
  BY <1>0 DEF Z!OpenTemp, Z!histVars
<1>2. i \in Z!Id /\ openFile[p] = Z!None /\ i # Z!None
  BY <1>0, <1>1, PlaceOf, SessionsConstants
<1>3. /\ file0 \in Z!File
      /\ \A j \in Z!Id : final[j] # file0 /\ (j # i => tempFile[j] # file0)
      /\ \A q \in Process : openFile[q] = file0 => sessionOf[q] = i
  <2>1. CASE tempFile[i] = Z!None
    BY <1>0, <1>2, <2>1, FreshIsFree DEF Z!Target, Z!IInv
  <2>2. CASE tempFile[i] # Z!None
    <3>1. file0 = tempFile[i] /\ file0 \in Z!FilesOf(i)
      BY <1>0, <2>2 DEF Z!Target, Z!FilesOf
    <3>2. \A j \in Z!Id : j # i => file0 \notin Z!FilesOf(j)
      BY <1>2, <3>1 DEF Z!IInv, Z!OwnedInv
    <3>3. file0 # final[i]
      BY <1>2, <2>2, <3>1 DEF Z!IInv, Z!OwnedInv
    <3> QED BY <1>2, <2>2, <3>1, <3>2, <3>3 DEF Z!IInv, Z!TypeOK, Z!OwnedInv, Z!FilesOf
  <2> QED BY <2>1, <2>2
<1>4. file0 # Z!None
  BY <1>3, SessionsConstants
<1>5. Z!TypeOK'
  BY <1>1, <1>2, <1>3, SessionsConstants DEF Z!IInv, Z!TypeOK
<1>7. /\ tempFile'[i] = file0 /\ \A j \in Z!Id \ {i} : tempFile'[j] = tempFile[j]
      /\ openFile'[p] = file0 /\ \A q \in Process \ {p} : openFile'[q] = openFile[q]
      /\ persisting'[p] = "write" /\ \A q \in Process \ {p} : persisting'[q] = persisting[q]
      /\ sessionText'[file0] = Z!Torn
      /\ \A f \in Z!File \ {file0} : sessionText'[f] = sessionText[f]
  BY <1>1, <1>2, <1>3 DEF Z!IInv, Z!TypeOK
<1>6. Z!PlaceInv'
  BY <1>0, <1>1, <1>2, <1>4, <1>7, PlaceStays
<1>8. Z!FilesOf(i)' = {final[i], file0} \ {Z!None} /\ \A j \in Z!Id \ {i} : Z!FilesOf(j)' = Z!FilesOf(j)
  BY <1>1, <1>7 DEF Z!FilesOf
<1>9. Z!OwnedInv'
  <2>1. ASSUME NEW j \in Z!Id, NEW m \in Z!Id, j # m PROVE (Z!FilesOf(j) \cap Z!FilesOf(m))' = {}
    BY <1>3, <1>8, <2>1 DEF Z!IInv, Z!OwnedInv, Z!FilesOf
  <2>2. \A j \in Z!Id : final'[j] # Z!None => final'[j] # tempFile'[j]
    BY <1>1, <1>3, <1>7 DEF Z!IInv, Z!OwnedInv
  <2>3. \A q \in Process, j \in Z!Id : openFile'[q] \in Z!FilesOf(j)' => sessionOf'[q] = j
    BY <1>0, <1>1, <1>3, <1>7, <1>8 DEF Z!IInv, Z!OwnedInv, Z!FilesOf
  <2> QED BY <2>1, <2>2, <2>3 DEF Z!OwnedInv
<1>10. ASSUME NEW j \in Z!Id \ ambiguous PROVE Z!SoleInv(j)'
  <2>1. CASE j # i
    <3>1. \A f \in Z!FilesOf(j) : f \in Z!File \ {file0}
      BY <1>3, <2>1 DEF Z!IInv, Z!TypeOK, Z!FilesOf
    <3> QED BY <1>0, <1>1, <1>7, <2>1, <3>1, SoleStays
  <2>2. CASE j = i
    <3>1. Z!SoleInv(j)
      BY DEF Z!IInv
    <3>2. Z!Load(j)' = Z!Load(j)
      BY <1>1, <1>3, <1>7 DEF Z!Load, Z!IInv, Z!TypeOK
    <3>3. \A q \in Process : sessionOf[q] = j => q = p
      BY <1>0, <2>2, <3>1 DEF Z!SoleInv
    <3> QED BY <1>1, <1>7, <2>2, <3>1, <3>2, <3>3 DEF Z!SoleInv
  <2> QED BY <2>1, <2>2
<1> QED BY <1>1, <1>5, <1>6, <1>9, <1>10 DEF Z!IInv

LEMMA WriteTempKeeps == ASSUME Z!IInv, NEW p \in Process, Z!WriteTemp(p) PROVE Z!IInv'
<1>0. PICK i, file0, text : /\ i = sessionOf[p] /\ file0 = openFile[p]
                            /\ text = IF Cardinality(sessionText[file0]) > Cardinality(talk[p])
                                      THEN Z!Torn ELSE talk[p]
  OBVIOUS
<1>1. /\ persisting[p] = "write" /\ persisting' = [persisting EXCEPT ![p] = "replace"]
      /\ openFile' = [openFile EXCEPT ![p] = Z!None]
      /\ sessionText' = [sessionText EXCEPT ![file0] = text]
      /\ UNCHANGED << second, sessionOf, talk, final, tempFile, talks, savedTalks, cleared, ambiguous >>
  BY <1>0 DEF Z!WriteTemp, Z!histVars, Z!Cardinality, Cardinality, Z!IsFiniteSet, IsFiniteSet
<1>2. /\ file0 \in Z!File /\ file0 # Z!None /\ i \in Z!Id /\ talk[p] \in SUBSET (1..talks)
      /\ text \in SUBSET (1..talks) /\ talks \in Nat
  BY <1>0, <1>1, PlaceOf, SessionsConstants DEF Z!IInv, Z!TypeOK
<1>3. \A j \in Z!Id : file0 \in Z!FilesOf(j) => j = i
  BY <1>0, <1>2 DEF Z!IInv, Z!OwnedInv
<1>4. Z!TypeOK'
  BY <1>1, <1>2 DEF Z!IInv, Z!TypeOK
<1>6. /\ openFile'[p] = Z!None /\ \A q \in Process \ {p} : openFile'[q] = openFile[q]
      /\ persisting'[p] = "replace" /\ \A q \in Process \ {p} : persisting'[q] = persisting[q]
      /\ sessionText'[file0] = text
      /\ \A f \in Z!File \ {file0} : sessionText'[f] = sessionText[f]
  BY <1>1, <1>2 DEF Z!IInv, Z!TypeOK
<1>5. Z!PlaceInv'
  <2>1. i # Z!None
    BY <1>2, SessionsConstants
  <2> QED BY <1>0, <1>1, <1>6, <2>1, PlaceStays
<1>7. Z!OwnedInv'
  BY <1>1, <1>6 DEF Z!IInv, Z!OwnedInv, Z!FilesOf
<1>8. ASSUME NEW j \in Z!Id \ ambiguous PROVE Z!SoleInv(j)'
  <2>1. CASE j # i
    <3>1. \A f \in Z!FilesOf(j) : f \in Z!File \ {file0}
      BY <1>3, <2>1 DEF Z!IInv, Z!TypeOK, Z!FilesOf
    <3> QED BY <1>0, <1>1, <1>6, <2>1, <3>1, SoleStays
  <2>2. CASE j = i
    <3>1. Z!SoleInv(j)
      BY DEF Z!IInv
    <3>2. file0 = tempFile[j] /\ sessionText[file0] = {} /\ final[j] # file0
      BY <1>0, <1>1, <1>2, <2>2, <3>1, SessionsConstants DEF Z!SoleInv, Z!IInv, Z!OwnedInv
    <3>3. text = talk[p]
      <4>1. IsFiniteSet(talk[p])
        <5>1. 1 \in Int /\ talks \in Int
          BY <1>2
        <5>2. IsFiniteSet(1..talks)
          BY <5>1, FS_Interval
        <5> QED BY <1>2, <5>2, FS_Subset
      <4>2. Cardinality(talk[p]) \in Nat /\ Cardinality({}) = 0
        BY <4>1, FS_CardinalityType, FS_EmptySet
      <4>3. ~(0 > Cardinality(talk[p]))
        BY <4>2
      <4> QED BY <1>0, <3>2, <4>2, <4>3
    <3>4. Z!Load(j)' = Z!Load(j)
      BY <1>1, <1>6, <3>2 DEF Z!Load, Z!IInv, Z!TypeOK
    <3>5. \A q \in Process : sessionOf[q] = j => q = p
      BY <1>0, <2>2, <3>1 DEF Z!SoleInv
    <3> QED BY <1>1, <1>2, <1>6, <2>2, <3>1, <3>2, <3>3, <3>4, <3>5 DEF Z!SoleInv
  <2> QED BY <2>1, <2>2
<1> QED BY <1>1, <1>4, <1>5, <1>7, <1>8 DEF Z!IInv

LEMMA ReplaceKeeps == ASSUME Z!IInv, NEW p \in Process, Z!Replace(p) PROVE Z!IInv'
<1>0. PICK i, file0 : i = sessionOf[p] /\ file0 = tempFile[i]
  OBVIOUS
<1>1. /\ persisting[p] = "replace" /\ persisting' = [persisting EXCEPT ![p] = "no"]
      /\ UNCHANGED << second, sessionOf, talk, openFile, sessionText, talks, cleared, ambiguous >>
  BY DEF Z!Replace
<1>2. i \in Z!Id /\ openFile[p] = Z!None
  BY <1>0, <1>1, PlaceOf
<1>4. /\ persisting'[p] = "no" /\ \A q \in Process \ {p} : persisting'[q] = persisting[q]
      /\ \A f \in Z!File : sessionText'[f] = sessionText[f]
  BY <1>1 DEF Z!IInv, Z!TypeOK
<1>3. Z!PlaceInv'
  BY <1>1, <1>2, <1>4, PlaceStays
<1>5. CASE file0 = Z!None
  <2>1. UNCHANGED << final, tempFile, savedTalks >>
    BY <1>0, <1>5 DEF Z!Replace
  <2>2. Z!TypeOK'
    BY <1>1, <2>1 DEF Z!IInv, Z!TypeOK
  <2>3. Z!OwnedInv'
    BY <1>1, <2>1 DEF Z!IInv, Z!OwnedInv, Z!FilesOf
  <2>4. ASSUME NEW j \in Z!Id \ ambiguous PROVE Z!SoleInv(j)'
    <3>1. Z!SoleInv(j)
      BY DEF Z!IInv
    <3>2. j # i
      BY <1>0, <1>1, <1>5, <3>1 DEF Z!SoleInv
    <3> QED BY <1>0, <1>1, <1>4, <2>1, <3>2, SoleStays DEF Z!IInv, Z!TypeOK, Z!FilesOf
  <2> QED BY <1>1, <1>3, <2>2, <2>3, <2>4 DEF Z!IInv
<1>6. CASE file0 # Z!None
  <2>1. /\ final' = [final EXCEPT ![i] = file0] /\ tempFile' = [tempFile EXCEPT ![i] = Z!None]
        /\ savedTalks' = [savedTalks EXCEPT ![i] = savedTalks[i] \cup talk[p]]
    BY <1>0, <1>6 DEF Z!Replace
  <2>2. /\ final'[i] = file0 /\ tempFile'[i] = Z!None /\ savedTalks'[i] = savedTalks[i] \cup talk[p]
        /\ \A j \in Z!Id \ {i} : /\ final'[j] = final[j] /\ tempFile'[j] = tempFile[j]
                                 /\ savedTalks'[j] = savedTalks[j]
    BY <1>2, <2>1 DEF Z!IInv, Z!TypeOK
  <2>3. Z!TypeOK'
    BY <1>0, <1>1, <1>2, <1>6, <2>1 DEF Z!IInv, Z!TypeOK
  <2>4. Z!FilesOf(i)' \subseteq Z!FilesOf(i) /\ \A j \in Z!Id \ {i} : Z!FilesOf(j)' = Z!FilesOf(j)
    BY <1>0, <2>2 DEF Z!FilesOf
  <2>5. Z!OwnedInv'
    <3>1. ASSUME NEW j \in Z!Id, NEW m \in Z!Id, j # m PROVE (Z!FilesOf(j) \cap Z!FilesOf(m))' = {}
      BY <2>4, <3>1 DEF Z!IInv, Z!OwnedInv
    <3>2. \A j \in Z!Id : final'[j] # Z!None => final'[j] # tempFile'[j]
      BY <1>6, <2>2 DEF Z!IInv, Z!OwnedInv
    <3>3. \A q \in Process, j \in Z!Id : openFile'[q] \in Z!FilesOf(j)' => sessionOf'[q] = j
      BY <1>1, <2>4 DEF Z!IInv, Z!OwnedInv
    <3> QED BY <3>1, <3>2, <3>3 DEF Z!OwnedInv
  <2>6. ASSUME NEW j \in Z!Id \ ambiguous PROVE Z!SoleInv(j)'
    <3>1. CASE j # i
      BY <1>0, <1>1, <1>4, <2>2, <3>1, SoleStays DEF Z!IInv, Z!TypeOK, Z!FilesOf
    <3>2. CASE j = i
      <4>1. Z!SoleInv(j)
        BY DEF Z!IInv
      <4>2. sessionText[file0] = talk[p] /\ savedTalks[j] \ cleared \subseteq talk[p]
        BY <1>0, <1>1, <3>2, <4>1 DEF Z!SoleInv
      <4>3. Z!Load(j)' = talk[p]
        BY <1>1, <1>6, <2>2, <3>2, <4>2 DEF Z!Load
      <4>4. \A q \in Process : sessionOf[q] = j => q = p
        BY <1>0, <3>2, <4>1 DEF Z!SoleInv
      <4>5. (savedTalks[j] \ cleared)' \subseteq talk[p]
        BY <1>1, <2>2, <3>2, <4>2
      <4> QED BY <1>1, <1>4, <4>3, <4>4, <4>5 DEF Z!SoleInv
    <3> QED BY <3>1, <3>2
  <2> QED BY <1>1, <1>3, <2>3, <2>5, <2>6 DEF Z!IInv
<1> QED BY <1>5, <1>6


\* Steps that leave the files alone.
LEMMA OtherSteps ==
  ASSUME Z!IInv, Z!TypeOK', NEW p \in Process,
         UNCHANGED << sessionText, final, tempFile, savedTalks >>,
         cleared \subseteq cleared', ambiguous \subseteq ambiguous',
         \A q \in Process \ {p} : /\ persisting'[q] = persisting[q] /\ openFile'[q] = openFile[q]
                                  /\ sessionOf'[q] = sessionOf[q] /\ talk'[q] = talk[q],
         openFile'[p] = Z!None, persisting'[p] \in {"no", "open"},
         (sessionOf'[p] = Z!None) => (persisting'[p] = "no"),
         \A i \in Z!Id \ ambiguous' : sessionOf'[p] = i =>
            /\ savedTalks[i] \ cleared' \subseteq talk'[p]
            /\ \A q \in Process : sessionOf[q] = i => q = p
  PROVE  Z!IInv'
<1>1. Z!PlaceInv'
  BY PlaceStays
<1>2. Z!OwnedInv'
  <2>1. \A i \in Z!Id : Z!FilesOf(i)' = Z!FilesOf(i) /\ Z!None \notin Z!FilesOf(i)
    BY DEF Z!FilesOf
  <2>2. ASSUME NEW q \in Process, NEW i \in Z!Id, openFile'[q] \in Z!FilesOf(i)'
        PROVE  sessionOf'[q] = i
    <3>1. q # p
      BY <2>1, <2>2
    <3>2. openFile[q] \in Z!FilesOf(i) /\ sessionOf'[q] = sessionOf[q]
      BY <2>1, <2>2, <3>1
    <3> QED BY <3>2 DEF Z!IInv, Z!OwnedInv
  <2> QED BY <2>1, <2>2 DEF Z!IInv, Z!OwnedInv
<1>3. ASSUME NEW i \in Z!Id \ ambiguous' PROVE Z!SoleInv(i)'
  <2>1. i \in Z!Id \ ambiguous /\ Z!SoleInv(i)
    BY DEF Z!IInv
  <2>2. Z!Load(i)' = Z!Load(i)
    BY DEF Z!Load
  <2>3. savedTalks[i] \ cleared' \subseteq Z!Load(i)
    BY <2>1 DEF Z!SoleInv
  <2>4. ASSUME NEW q \in Process, sessionOf'[q] = i
        PROVE  savedTalks[i] \ cleared' \subseteq talk'[q]
    <3>1. CASE q = p
      BY <1>3, <2>4, <3>1
    <3>2. CASE q # p
      <4>1. savedTalks[i] \ cleared \subseteq talk[q]
        BY <2>1, <2>4, <3>2 DEF Z!SoleInv
      <4> QED BY <3>2, <4>1
    <3> QED BY <3>1, <3>2
  <2>5. ASSUME NEW q \in Process, NEW r \in Process, sessionOf'[q] = i, sessionOf'[r] = i
        PROVE  q = r
    <3>1. CASE q = p \/ r = p
      BY <1>3, <2>5, <3>1
    <3>2. CASE q # p /\ r # p
      BY <2>1, <2>5, <3>2 DEF Z!SoleInv
    <3> QED BY <3>1, <3>2
  <2>6. ASSUME NEW q \in Process, sessionOf'[q] = i
        PROVE  /\ persisting'[q] = "write" => openFile'[q] = tempFile[i] /\ sessionText[tempFile[i]] = Z!Torn
               /\ persisting'[q] = "replace" => tempFile[i] # Z!None /\ sessionText[tempFile[i]] = talk'[q]
    <3>1. CASE q = p
      BY <3>1
    <3>2. CASE q # p
      BY <2>1, <2>6, <3>2 DEF Z!SoleInv
    <3> QED BY <3>1, <3>2
  <2> QED BY <2>2, <2>3, <2>4, <2>5, <2>6 DEF Z!SoleInv
<1> QED BY <1>1, <1>2, <1>3 DEF Z!IInv

LEMMA SaveFailsKeeps == ASSUME Z!IInv, NEW p \in Process, Z!SaveFails(p) PROVE Z!IInv'
<1>1. /\ persisting[p] # "no" /\ persisting' = [persisting EXCEPT ![p] = "no"]
      /\ openFile' = [openFile EXCEPT ![p] = Z!None]
      /\ UNCHANGED << second, sessionOf, talk, sessionText, final, tempFile, talks, savedTalks,
                      cleared, ambiguous >>
  BY DEF Z!SaveFails, Z!fileVars, Z!histVars
<1>2. Z!TypeOK'
  BY <1>1 DEF Z!IInv, Z!TypeOK
<1>3. /\ openFile'[p] = Z!None /\ \A q \in Process \ {p} : openFile'[q] = openFile[q]
      /\ persisting'[p] = "no" /\ \A q \in Process \ {p} : persisting'[q] = persisting[q]
  BY <1>1 DEF Z!IInv, Z!TypeOK
<1>4. \A i \in Z!Id \ ambiguous : sessionOf[p] = i =>
         savedTalks[i] \ cleared \subseteq talk[p] /\ \A q \in Process : sessionOf[q] = i => q = p
  BY DEF Z!IInv, Z!SoleInv
<1> QED BY <1>1, <1>2, <1>3, <1>4, OtherSteps

LEMMA StartKeeps == ASSUME Z!IInv, NEW p \in Process, Z!Start(p) PROVE Z!IInv'
<1>1. /\ sessionOf[p] = Z!None /\ sessionOf' = [sessionOf EXCEPT ![p] = second]
      /\ talk' = [talk EXCEPT ![p] = {}]
      /\ ambiguous' = IF savedTalks[second] # {} \/ Z!Open(second, p) THEN ambiguous \cup {second}
                      ELSE ambiguous
      /\ UNCHANGED << second, persisting, openFile, sessionText, final, tempFile, talks, savedTalks,
                      cleared >>
  BY DEF Z!Start, Z!fileVars
<1>2. second \in Z!Id /\ second # Z!None
  BY SessionsConstants DEF Z!IInv, Z!TypeOK
<1>3. Z!TypeOK'
  BY <1>1, <1>2 DEF Z!IInv, Z!TypeOK
<1>4. persisting[p] = "no" /\ openFile[p] = Z!None
  BY <1>1, PlaceOf, SessionsConstants
<1>5. /\ sessionOf'[p] = second /\ talk'[p] = {}
      /\ \A q \in Process \ {p} : sessionOf'[q] = sessionOf[q] /\ talk'[q] = talk[q]
  BY <1>1 DEF Z!IInv, Z!TypeOK
<1>6. ASSUME NEW i \in Z!Id \ ambiguous', sessionOf'[p] = i
      PROVE  savedTalks[i] \ cleared \subseteq talk'[p] /\ \A q \in Process : sessionOf[q] = i => q = p
  <2>1. i = second /\ ~(savedTalks[second] # {} \/ Z!Open(second, p))
    BY <1>1, <1>5, <1>6
  <2> QED BY <2>1 DEF Z!Open
<1> QED BY <1>1, <1>2, <1>3, <1>4, <1>5, <1>6, OtherSteps

LEMMA TurnKeeps == ASSUME Z!IInv, NEW p \in Process, Z!Turn(p) PROVE Z!IInv'
<1>1. /\ Z!Ready(p) /\ talks' = talks + 1 /\ talk' = [talk EXCEPT ![p] = talk[p] \cup {talks + 1}]
      /\ UNCHANGED << second, sessionOf, openFile, sessionText, final, tempFile, savedTalks,
                      cleared, ambiguous >>
  BY DEF Z!Turn, Z!fileVars, Z!histVars
<1>2. PICK next \in {"open", "no"} : persisting' = [persisting EXCEPT ![p] = next]
  BY DEF Z!Turn
<1>3. Z!TypeOK'
  <2>1. talks' \in Nat /\ talks + 1 \in 1..talks' /\ 1..talks \subseteq 1..talks'
    BY <1>1 DEF Z!IInv, Z!TypeOK
  <2>2. talk' \in [Process -> SUBSET (1..talks')]
    BY <1>1, <2>1 DEF Z!IInv, Z!TypeOK
  <2>3. /\ sessionText' \in [Z!File -> SUBSET (1..talks')] /\ savedTalks' \in [Z!Id -> SUBSET (1..talks')]
        /\ cleared' \in SUBSET (1..talks')
    BY <1>1, <2>1 DEF Z!IInv, Z!TypeOK
  <2> QED BY <1>1, <1>2, <2>1, <2>2, <2>3 DEF Z!IInv, Z!TypeOK
<1>4. persisting[p] = "no" /\ openFile[p] = Z!None /\ sessionOf[p] # Z!None
  BY <1>1, PlaceOf DEF Z!Ready
<1>5. /\ talk[p] \subseteq talk'[p] /\ persisting'[p] = next
      /\ \A q \in Process \ {p} : talk'[q] = talk[q] /\ persisting'[q] = persisting[q]
  BY <1>1, <1>2 DEF Z!IInv, Z!TypeOK
<1>6. \A i \in Z!Id \ ambiguous : sessionOf[p] = i =>
         savedTalks[i] \ cleared \subseteq talk'[p] /\ \A q \in Process : sessionOf[q] = i => q = p
  BY <1>5 DEF Z!IInv, Z!SoleInv
<1> QED BY <1>1, <1>2, <1>3, <1>4, <1>5, <1>6, OtherSteps

LEMMA ClearKeeps == ASSUME Z!IInv, NEW p \in Process, Z!Clear(p) PROVE Z!IInv'
<1>1. /\ Z!Ready(p) /\ cleared' = cleared \cup talk[p] /\ talk' = [talk EXCEPT ![p] = {}]
      /\ UNCHANGED << second, sessionOf, persisting, openFile, sessionText, final, tempFile, talks,
                      savedTalks, ambiguous >>
  BY DEF Z!Clear, Z!fileVars
<1>2. Z!TypeOK'
  BY <1>1 DEF Z!IInv, Z!TypeOK
<1>3. persisting[p] = "no" /\ openFile[p] = Z!None /\ sessionOf[p] # Z!None
  BY <1>1, PlaceOf DEF Z!Ready
<1>4. talk'[p] = {} /\ \A q \in Process \ {p} : talk'[q] = talk[q]
  BY <1>1 DEF Z!IInv, Z!TypeOK
<1>5. ASSUME NEW i \in Z!Id \ ambiguous, sessionOf[p] = i
      PROVE  savedTalks[i] \ cleared' \subseteq talk'[p] /\ \A q \in Process : sessionOf[q] = i => q = p
  <2>1. Z!SoleInv(i)
    BY DEF Z!IInv
  <2>2. savedTalks[i] \ cleared \subseteq talk[p]
    BY <1>5, <2>1 DEF Z!SoleInv
  <2>3. \A q \in Process : sessionOf[q] = i => q = p
    BY <1>5, <2>1 DEF Z!SoleInv
  <2> QED BY <1>1, <1>4, <2>2, <2>3
<1> QED BY <1>1, <1>2, <1>3, <1>4, <1>5, OtherSteps

LEMMA ExitKeeps == ASSUME Z!IInv, NEW p \in Process, Z!Exit(p) PROVE Z!IInv'
<1>1. /\ sessionOf' = [sessionOf EXCEPT ![p] = Z!None] /\ talk' = [talk EXCEPT ![p] = {}]
      /\ persisting' = [persisting EXCEPT ![p] = "no"]
      /\ openFile' = [openFile EXCEPT ![p] = Z!None]
      /\ UNCHANGED << second, sessionText, final, tempFile, talks, savedTalks, cleared, ambiguous >>
  BY DEF Z!Exit, Z!fileVars, Z!histVars
<1>2. Z!TypeOK'
  BY <1>1 DEF Z!IInv, Z!TypeOK
<1>3. /\ sessionOf'[p] = Z!None /\ persisting'[p] = "no" /\ openFile'[p] = Z!None
      /\ \A q \in Process \ {p} : /\ sessionOf'[q] = sessionOf[q] /\ talk'[q] = talk[q]
                                  /\ persisting'[q] = persisting[q] /\ openFile'[q] = openFile[q]
  BY <1>1 DEF Z!IInv, Z!TypeOK
<1> QED BY <1>1, <1>2, <1>3, SessionsConstants, OtherSteps

LEMMA ResumeKeeps ==
  ASSUME Z!IInv, NEW p \in Process, NEW id \in Z!Id, Z!Resume(p, id) PROVE Z!IInv'
<1>1. /\ Z!Ready(p) /\ sessionOf' = [sessionOf EXCEPT ![p] = id]
      /\ talk' = [talk EXCEPT ![p] = Z!Load(id)]
      /\ ambiguous' = IF Z!Open(id, p) THEN ambiguous \cup {id} ELSE ambiguous
      /\ UNCHANGED << second, persisting, openFile, sessionText, final, tempFile, talks, savedTalks,
                      cleared >>
  BY DEF Z!Resume, Z!fileVars
<1>2. id # Z!None
  BY SessionsConstants
<1>3. Z!TypeOK'
  <2>1. Z!Load(id) \in SUBSET (1..talks)
    BY SessionsConstants DEF Z!IInv, Z!TypeOK, Z!Load
  <2> QED BY <1>1, <2>1 DEF Z!IInv, Z!TypeOK
<1>4. persisting[p] = "no" /\ openFile[p] = Z!None
  BY <1>1, PlaceOf DEF Z!Ready
<1>5. /\ sessionOf'[p] = id /\ talk'[p] = Z!Load(id)
      /\ \A q \in Process \ {p} : sessionOf'[q] = sessionOf[q] /\ talk'[q] = talk[q]
  BY <1>1 DEF Z!IInv, Z!TypeOK
<1>6. ASSUME NEW i \in Z!Id \ ambiguous', sessionOf'[p] = i
      PROVE  savedTalks[i] \ cleared \subseteq talk'[p] /\ \A q \in Process : sessionOf[q] = i => q = p
  <2>1. i = id /\ ~Z!Open(id, p) /\ i \in Z!Id \ ambiguous
    BY <1>1, <1>5, <1>6
  <2>2. savedTalks[i] \ cleared \subseteq Z!Load(i)
    BY <2>1 DEF Z!IInv, Z!SoleInv
  <2>3. \A q \in Process : sessionOf[q] = i => q = p
    BY <2>1 DEF Z!Open
  <2> QED BY <1>5, <2>1, <2>2, <2>3
<1> QED BY <1>1, <1>2, <1>3, <1>4, <1>5, <1>6, OtherSteps

LEMMA SessionsNext == Z!IInv /\ (Z!Next \/ UNCHANGED sessionsVars) => Z!IInv'
<1> SUFFICES ASSUME Z!IInv, Z!Next \/ UNCHANGED sessionsVars PROVE Z!IInv'
  OBVIOUS
<1>1. CASE UNCHANGED sessionsVars \/ Z!Tick
  <2>1. /\ second' \in Z!Id
        /\ UNCHANGED << sessionOf, talk, persisting, openFile, sessionText, final, tempFile, talks,
                        savedTalks, cleared, ambiguous >>
    BY <1>1, SecondsAssumption
    DEF sessionsVars, Z!Tick, Z!procVars, Z!fileVars, Z!histVars, Z!IInv, Z!TypeOK, Z!Id
  <2>2. Z!TypeOK' /\ Z!PlaceInv' /\ Z!OwnedInv'
    BY <2>1 DEF Z!IInv, Z!TypeOK, Z!PlaceInv, Z!OwnedInv, Z!FilesOf
  <2>3. \A i \in Z!Id \ ambiguous : Z!SoleInv(i)'
    BY <2>1 DEF Z!IInv, Z!SoleInv, Z!Load
  <2> QED BY <2>1, <2>2, <2>3 DEF Z!IInv
<1>2. CASE Z!Next
  <2>1. CASE \E p \in Process : Z!OpenTemp(p) \/ Z!WriteTemp(p) \/ Z!Replace(p) \/ Z!SaveFails(p)
    BY <2>1, OpenTempKeeps, WriteTempKeeps, ReplaceKeeps, SaveFailsKeeps
  <2>2. CASE \E p \in Process : Z!Start(p) \/ Z!Turn(p) \/ Z!Clear(p) \/ Z!Exit(p)
    BY <2>2, StartKeeps, TurnKeeps, ClearKeeps, ExitKeeps
  <2>3. CASE \E p \in Process, id \in Z!Id : Z!Resume(p, id)
    BY <2>3, ResumeKeeps
  <2>4. CASE \E p \in Process : Z!ResumeLatest(p)
    BY <2>4, ResumeKeeps DEF Z!ResumeLatest, Z!LatestId, Z!Loadable
  <2> QED BY <1>1, <1>2, <2>1, <2>2, <2>3, <2>4 DEF Z!Next
<1> QED BY <1>1, <1>2

\* The state of the saved sessions, with every turn that was saved in the session it was
\* saved in, and in the one process that has the session (core/session.py).
LEMMA SessionsInvariance == Spec => []Z!IInv
<1>1. Init => Z!IInv
  BY SessionsInit DEF Init
<1>2. Z!IInv /\ [Next]_vars => Z!IInv'
  BY SessionsSteps, SessionsNext
<1> QED BY <1>1, <1>2, PTL DEF Spec

\* SavedTurnsStay: however many processes of the workspace start, save, fail to, die and
\* resume each other's sessions, a turn that was saved once is in its session whenever that
\* is loaded, until the user clears it or two processes have the session at a time
\* (SessionStore.save and load, Agent.resume).
THEOREM SavedTurnsStayLoaded == Spec => []Z!SavedTurnsStay
<1>1. Z!IInv => Z!SavedTurnsStay
  BY DEF Z!IInv, Z!SoleInv, Z!SavedTurnsStay
<1> QED BY <1>1, SessionsInvariance, PTL

(***************************************************************************)
(* The files of the built-in tools                                          *)
(***************************************************************************)
LEMMA StateFilesSteps == [Next]_vars => F!Next \/ UNCHANGED stateFilesVars
BY DEF Next, vars

LEMMA StateFilesInit == F!Init => F!IInv
<1> SUFFICES ASSUME F!Init PROVE F!IInv
  OBVIOUS
<1>1. \A f \in F!File : /\ file[f] = [ok |-> FALSE, items |-> << >>]
                        /\ kept[f] = {} /\ F!Ids(F!Loaded(f)) = {}
  BY DEF F!Init, F!Unreadable, F!Ids, F!Loaded
<1>2. F!TypeOK
  <2>1. \A f \in F!File : file[f] \in [ok : BOOLEAN, items : Seq(F!Record(f))]
    <3> TAKE f \in F!File
    <3>1. << >> \in Seq(F!Record(f))
      OBVIOUS
    <3>2. [ok |-> FALSE, items |-> << >>] \in [ok : BOOLEAN, items : Seq(F!Record(f))]
      BY <3>1
    <3>3. file[f] = [ok |-> FALSE, items |-> << >>]
      BY <1>1
    <3> QED BY <3>2, <3>3, Zenon
  <2>2. DOMAIN file = F!File /\ DOMAIN frames = Agent /\ \A a \in Agent : F!StackOK(frames[a])
    BY DEF F!Init, F!StackOK
  <2>3. issued \in Nat /\ clean \in [F!File -> BOOLEAN] /\ kept \in [F!File -> SUBSET Nat]
    BY DEF F!Init
  <2> QED BY <2>1, <2>2, <2>3 DEF F!TypeOK
<1>3. \A f \in F!File : F!FileInv(f)
  BY <1>1 DEF F!FileInv, F!Drawn, F!Refers, F!Ids
<1>4. \A a \in Agent : \A i \in DOMAIN frames[a] : F!FrameInv(frames[a][i])
  BY DEF F!Init
<1>5. F!ListsKept
  BY <1>1 DEF F!ListsKept
<1> QED BY <1>2, <1>3, <1>4, <1>5 DEF F!IInv

\* Which files a tool uses.
LEMMA ToolFiles ==
  ASSUME NEW call \in F!CallSet
  PROVE  /\ F!FileOf(call) \in F!File
         /\ F!FileOf(call) = "automations" <=>
              call.tool \in {"automation_create", "automation_update", "automation_delete",
                             "automation_run"}
         /\ F!FileOf(call) = "tasks" <=>
              call.tool \in {"task_create", "task_cancel", "task_gate_run"}
<1>1. call.tool \in F!Tool
  BY DEF F!CallSet
<1> QED BY <1>1 DEF F!FileOf, F!File, F!Tool, F!Simple, F!Keyed

\* The items of a list but those with an identifier.
LEMMA WithoutOneRecord ==
  ASSUME NEW Value, NEW items \in Seq(Value), NEW id
  PROVE  /\ F!Without(items, id) \in Seq(Value)
         /\ F!Ids(F!Without(items, id)) = F!Ids(items) \ {id}
         /\ \A i \in DOMAIN F!Without(items, id) :
              \E j \in DOMAIN items : F!Without(items, id)[i] = items[j]
<1> DEFINE n == Len(items)
           Lists == Seq(Value)
           adds == [i \in 1..n |-> [x \in Lists |->
                      IF items[i].id = id THEN x ELSE Append(x, items[i])]]
<1>1. n \in Nat /\ DOMAIN items = 1..n /\ \A i \in 1..n : items[i] \in Value
  OBVIOUS
<1>2. PICK f : Follows(f, n, Lists, << >>, adds)
  <2>1. \A i \in 1..n, x \in Lists :
          (IF items[i].id = id THEN x ELSE Append(x, items[i])) \in Lists
    BY <1>1
  <2>2. << >> \in Lists
    OBVIOUS
  <2> HIDE DEF Lists, n
  <2>3. adds \in Steps(n, Lists)
    BY <2>1 DEF Steps
  <2> HIDE DEF adds
  <2> QED BY <1>1, <2>2, <2>3, DefinedByRecursion
<1>3. f \in [0..n -> Seq(Value)] /\ f[0] = << >>
  BY <1>2 DEF Follows
<1>4. \A i \in 1..n : f[i] = IF items[i].id = id THEN f[i - 1] ELSE Append(f[i - 1], items[i])
  <2> TAKE i \in 1..n
  <2>1. i - 1 \in 0..n
    BY <1>1
  <2>2. f[i] = adds[i][f[i - 1]] /\ f[i - 1] \in Lists
    BY <1>2, <2>1 DEF Follows
  <2> QED BY <2>2
<1> HIDE DEF adds, Lists, n
<1> DEFINE others == CHOOSE others : others = [i \in 0..Len(items) |->
                       IF i = 0 THEN << >>
                       ELSE IF items[i].id = id THEN others[i - 1]
                            ELSE Append(others[i - 1], items[i])]
<1>5. F!Without(items, id) = others[Len(items)]
  BY DEF F!Without
<1>6. f = [i \in 0..Len(items) |->
             IF i = 0 THEN << >>
             ELSE IF items[i].id = id THEN f[i - 1] ELSE Append(f[i - 1], items[i])]
  <2>1. \A i \in 0..n : f[i] = IF i = 0 THEN << >>
                               ELSE IF items[i].id = id THEN f[i - 1]
                                    ELSE Append(f[i - 1], items[i])
    <3> TAKE i \in 0..n
    <3>1. i = 0 \/ i \in 1..n
      BY <1>1
    <3> QED BY <1>1, <1>3, <1>4, <3>1
  <2> QED BY <1>3, <2>1 DEF n
<1>7. others = [i \in 0..Len(items) |->
                  IF i = 0 THEN << >>
                  ELSE IF items[i].id = id THEN others[i - 1] ELSE Append(others[i - 1], items[i])]
  BY <1>6
<1> HIDE DEF others
<1>8. others[0] = << >>
  BY <1>1, <1>7 DEF n
<1>9. \A i \in 1..n : others[i] = IF items[i].id = id THEN others[i - 1]
                                  ELSE Append(others[i - 1], items[i])
  <2> TAKE i \in 1..n
  <2>1. i \in 0..Len(items) /\ i # 0
    BY <1>1 DEF n
  <2> QED BY <1>7, <2>1
<1> DEFINE Before(i) == {items[j].id : j \in 1..i} \ {id}
           Right(i) == /\ others[i] \in Seq(Value)
                       /\ F!Ids(others[i]) = Before(i)
                       /\ \A k \in DOMAIN others[i] : \E j \in 1..n : others[i][k] = items[j]
           Done == {i \in 0..n : Right(i)}
<1>10. 0 \in Done
  <2>1. Right(0)
    BY <1>8 DEF F!Ids
  <2> HIDE DEF Right
  <2> QED BY <1>1, <2>1
<1>11. ASSUME NEW i \in 0..n - 1, i \in Done PROVE i + 1 \in Done
  <2>1. i + 1 \in 1..n /\ (i + 1) - 1 = i /\ i \in Nat /\ i + 1 \in 0..n
    BY <1>1
  <2>2. Right(i)
    BY <1>11
  <2>3. PICK x, had : x = items[i + 1] /\ had = others[i]
    OBVIOUS
  <2>4. {items[j].id : j \in 1..i + 1} = {items[j].id : j \in 1..i} \cup {x.id}
    <3>1. 1..i + 1 = 1..i \cup {i + 1}
      BY <2>1
    <3> QED BY <2>3, <3>1
  <2>5. CASE x.id = id
    <3>1. others[i + 1] = others[i]
      BY <1>9, <2>1, <2>3, <2>5
    <3>2. Before(i + 1) = Before(i)
      BY <2>4, <2>5
    <3>3. Right(i + 1)
      BY <2>2, <3>1, <3>2
    <3> HIDE DEF Right
    <3> QED BY <2>1, <3>3
  <2>6. CASE x.id # id
    <3>1. others[i + 1] = Append(had, x) /\ had \in Seq(Value) /\ x \in Value
      BY <1>1, <1>9, <2>1, <2>2, <2>3, <2>6
    <3>2. /\ Append(had, x) \in Seq(Value) /\ Len(Append(had, x)) = Len(had) + 1
          /\ \A k \in 1..Len(had) : Append(had, x)[k] = had[k]
          /\ Append(had, x)[Len(had) + 1] = x
      BY <3>1, AppendProperties
    <3>3. /\ Len(had) \in Nat /\ DOMAIN had = 1..Len(had)
          /\ DOMAIN Append(had, x) = 1..Len(had) + 1
      BY <3>1, <3>2
    <3>4. PICK has : has = Append(had, x)
      OBVIOUS
    <3>5. \A k \in DOMAIN has : (k \in DOMAIN had /\ has[k] = had[k]) \/ has[k] = x
      BY <3>2, <3>3, <3>4
    <3>6. /\ \A k \in DOMAIN had : k \in DOMAIN has /\ has[k] = had[k]
          /\ Len(had) + 1 \in DOMAIN has /\ has[Len(had) + 1] = x
      BY <3>2, <3>3, <3>4
    <3>7. F!Ids(has) = F!Ids(had) \cup {x.id}
      BY <3>5, <3>6 DEF F!Ids
    <3>8. Before(i + 1) = Before(i) \cup {x.id}
      BY <2>4, <2>6
    <3>9. \A k \in DOMAIN has : \E j \in 1..n : has[k] = items[j]
      BY <2>1, <2>2, <2>3, <3>5
    <3>10. others[i + 1] = has /\ has \in Seq(Value)
      BY <3>1, <3>2, <3>4
    <3>11. F!Ids(has) = Before(i + 1)
      BY <2>2, <2>3, <3>7, <3>8
    <3>12. Right(i + 1)
      <4> HIDE DEF Before
      <4> QED BY <3>9, <3>10, <3>11
    <3> HIDE DEF Right
    <3> QED BY <2>1, <3>12
  <2> QED BY <2>5, <2>6
<1>12. Right(n)
  <2> HIDE DEF Right
  <2>1. n \in Done
    <3> HIDE DEF Done
    <3>1. \A i \in 0..n : i \in Done
      BY <1>1, <1>10, <1>11, UpTo
    <3> QED BY <1>1, <3>1
  <2> QED BY <2>1
<1>13. Before(n) = F!Ids(items) \ {id}
  BY <1>1 DEF F!Ids
<1>14. others[n] = F!Without(items, id)
  BY <1>5 DEF n
<1> QED BY <1>1, <1>12, <1>13, <1>14

\* A list whose items have the identifiers and marks they had.
SameItems(f, items, out) ==
  /\ out \in Seq(F!Record(f)) /\ DOMAIN out = DOMAIN items
  /\ \A i \in DOMAIN items : out[i].id = items[i].id /\ out[i].marks = items[i].marks

LEMMA StatusIsSet ==
  ASSUME NEW f, NEW items \in Seq(F!Record(f)), NEW found, NEW status \in F!Status
  PROVE  SameItems(f, items, F!FirstSet(items, found, status).items)
<1>1. SameItems(f, items, items)
  BY DEF SameItems
<1>2. CASE found = {}
  BY <1>1, <1>2 DEF F!FirstSet, F!NotFound
<1>3. CASE found # {}
  <2>1. PICK k : k = F!First(found)
    OBVIOUS
  <2>2. PICK out : out = [items EXCEPT ![k] = [items[k] EXCEPT !.status = status]]
    OBVIOUS
  <2>3. F!FirstSet(items, found, status).items = out
    BY <1>3, <2>1, <2>2 DEF F!FirstSet, F!Saves
  <2>4. CASE k \in DOMAIN items
    <3>1. items[k] \in F!Record(f)
      BY <2>4, SequenceElements
    <3>2. /\ [items[k] EXCEPT !.status = status] \in F!Record(f)
          /\ [items[k] EXCEPT !.status = status].id = items[k].id
          /\ [items[k] EXCEPT !.status = status].marks = items[k].marks
      BY <3>1 DEF F!Record
    <3>3. out \in Seq(F!Record(f))
      BY <2>2, <2>4, <3>2, ElementReplaced
    <3> QED BY <2>2, <2>3, <2>4, <3>2, <3>3 DEF SameItems
  <2>5. CASE k \notin DOMAIN items
    <3>1. out = items
      <4>1. \A i \in DOMAIN items : out[i] = items[i]
        BY <2>2, <2>5
      <4>2. DOMAIN out = DOMAIN items /\ out = [i \in DOMAIN items |-> out[i]]
        BY <2>2
      <4>3. items = [i \in DOMAIN items |-> items[i]]
        OBVIOUS
      <4> QED BY <4>1, <4>2, <4>3
    <3> QED BY <1>1, <2>3, <3>1
  <2> QED BY <2>4, <2>5
<1> QED BY <1>2, <1>3

LEMMA SameIds ==
  ASSUME NEW f, NEW items, NEW out, SameItems(f, items, out)
  PROVE  F!Ids(out) = F!Ids(items)
BY DEF SameItems, F!Ids

\* What a tool makes of a list it has loaded: identifiers are old or new ones, ...
OutcomeOK(call, items, out) ==
  /\ out \in Seq(F!Record(F!FileOf(call)))
  /\ \A id \in F!Ids(out) : id <= F!Fresh
\* ... they are those of the list with the change of the tool, ...
  /\ call.tool \notin F!Blind =>
       F!Ids(out) = (F!Ids(items) \ F!Removed(call, F!Ids(out))) \cup F!Added(call, F!Ids(out))
  /\ call.tool = "task_create" => F!Added(call, F!Ids(out)) # {}
\* ... and a run is entered for the task that has been created.
  /\ F!FileOf(call) = "automations" =>
       \A i \in DOMAIN out : \A m \in out[i].marks :
         (\E j \in DOMAIN items : m \in items[j].marks) \/ (m = call.task /\ call.task # 0)

\* The tools that change no identifiers, ...
LEMMA SameOutcome ==
  ASSUME NEW call \in F!CallSet, NEW items, NEW out,
         SameItems(F!FileOf(call), items, out), F!Drawn(items), issued \in Nat,
         call.tool \notin F!Blind, call.tool # "automation_delete", call.tool # "checklist_add",
         call.tool # "task_create"
  PROVE  OutcomeOK(call, items, out)
<1>1. F!Ids(out) = F!Ids(items)
  BY SameIds
<1>2. F!Removed(call, F!Ids(out)) = {} /\ F!Added(call, F!Ids(out)) \subseteq F!Ids(out)
  BY DEF F!Removed, F!Added
<1>3. \A id \in F!Ids(out) : id \in Nat /\ id <= F!Fresh
  <2>1. ASSUME NEW id \in F!Ids(out) PROVE id \in Nat
    <3>1. PICK i \in DOMAIN out : id = out[i].id
      BY DEF F!Ids
    <3>2. out[i] \in F!Record(F!FileOf(call))
      BY SequenceElements DEF SameItems
    <3> QED BY <3>1, <3>2 DEF F!Record
  <2> QED BY <1>1, <2>1 DEF F!Drawn, F!Fresh
<1>4. \A i \in DOMAIN out : \A m \in out[i].marks : \E j \in DOMAIN items : m \in items[j].marks
  BY DEF SameItems
<1> QED BY <1>1, <1>2, <1>3, <1>4 DEF OutcomeOK, SameItems

\* ... those that add an item at the end, ...
LEMMA LongerOutcome ==
  ASSUME NEW call \in F!CallSet, NEW items \in Seq(F!Record(F!FileOf(call))),
         F!Drawn(items), issued \in Nat, NEW id \in Nat, NEW text \in Nat, NEW status \in F!Status,
         call.tool \in F!Simple \cup {"checklist_add"}, call.tool \notin F!Blind,
         id = IF call.tool = "checklist_add" /\ call.key # 0 THEN call.key ELSE F!Fresh,
         id <= F!Fresh
  PROVE  OutcomeOK(call, items, Append(items, F!Item(id, text, status)))
<1>1. PICK new, out : new = F!Item(id, text, status) /\ out = Append(items, new)
  OBVIOUS
<1>2. new \in F!Record(F!FileOf(call)) /\ new.id = id /\ new.marks = {}
  BY <1>1 DEF F!Item, F!Record
<1>3. /\ out \in Seq(F!Record(F!FileOf(call))) /\ Len(out) = Len(items) + 1 /\ Len(items) \in Nat
      /\ \A i \in 1..Len(items) : out[i] = items[i]
      /\ out[Len(items) + 1] = new
  BY <1>1, <1>2, AppendProperties
<1>4. DOMAIN items = 1..Len(items) /\ DOMAIN out = 1..Len(items) + 1
  BY <1>3
<1>5. \A i \in DOMAIN out : (i \in DOMAIN items /\ out[i] = items[i]) \/ out[i] = new
  BY <1>3, <1>4
<1>6. F!Ids(out) = F!Ids(items) \cup {id}
  <2>1. \A i \in DOMAIN items : i \in DOMAIN out /\ out[i] = items[i]
    BY <1>3, <1>4
  <2>2. Len(items) + 1 \in DOMAIN out
    BY <1>3, <1>4
  <2> QED BY <1>2, <1>3, <1>5, <2>1, <2>2 DEF F!Ids
<1>7. \A other \in F!Ids(items) : other \in Nat /\ other < F!Fresh
  <2> TAKE other \in F!Ids(items)
  <2>1. PICK i \in DOMAIN items : other = items[i].id
    BY DEF F!Ids
  <2>2. items[i] \in F!Record(F!FileOf(call))
    BY SequenceElements
  <2> QED BY <2>1, <2>2 DEF F!Record, F!Drawn
<1>8. F!Removed(call, F!Ids(out)) = {} /\ F!Added(call, F!Ids(out)) = {id}
  <2>1. F!Removed(call, F!Ids(out)) = {}
    BY DEF F!Removed, F!Simple
  <2>2. CASE call.tool = "checklist_add" /\ call.key # 0
    <3>1. F!Added(call, F!Ids(out)) = {call.key}
      BY <2>2 DEF F!Added
    <3> QED BY <2>1, <2>2, <3>1
  <2>3. CASE ~(call.tool = "checklist_add" /\ call.key # 0)
    <3>1. F!Added(call, F!Ids(out)) = {x \in F!Ids(out) : \A other \in F!Ids(out) : other <= x}
      BY <2>3 DEF F!Added
    <3>2. id = F!Fresh
      BY <2>3
    <3>3. \A other \in F!Ids(out) : other <= id
      BY <1>6, <1>7, <3>2
    <3>4. \A x \in F!Ids(items) : ~(id <= x)
      BY <1>7, <3>2
    <3>5. \A x \in F!Ids(out) : (\A other \in F!Ids(out) : other <= x) => x = id
      BY <1>6, <3>4
    <3>6. id \in F!Ids(out)
      BY <1>6
    <3>7. id \in F!Added(call, F!Ids(out)) /\ \A x \in F!Added(call, F!Ids(out)) : x = id
      BY <3>1, <3>3, <3>5, <3>6
    <3> QED BY <2>1, <3>7
  <2> QED BY <2>1, <2>2, <2>3
<1>9. \A x \in F!Ids(out) : x <= F!Fresh
  <2>1. F!Fresh \in Nat
    BY DEF F!Fresh
  <2> QED BY <1>6, <1>7, <2>1
<1>10. \A i \in DOMAIN out : \A m \in out[i].marks : \E j \in DOMAIN items : m \in items[j].marks
  BY <1>2, <1>5
<1>11. OutcomeOK(call, items, out)
  BY <1>3, <1>6, <1>8, <1>9, <1>10 DEF OutcomeOK
<1> QED BY <1>1, <1>11

\* ... those that begin a new list and the one that leaves items out.
LEMMA ToolOutcome ==
  ASSUME NEW call \in F!CallSet, call.tool = "checklist_add" => call.key \in {0, 1},
         NEW items \in Seq(F!Record(F!FileOf(call))), F!Drawn(items), issued \in Nat,
         F!Outcome(call, items).save,
         call.tool = "automation_run" /\ call.task = 0 => call.key \notin F!Ids(items)
  PROVE  OutcomeOK(call, items, F!Outcome(call, items).items)
<1>0. /\ F!Fresh \in Nat /\ 10 <= F!Fresh
      /\ call.tool \in F!Tool /\ call.key \in {0, 1, 10, 11} /\ call.text \in Nat
      /\ call.list \in {<< >>, << 0, 0 >>, << 10 >>} /\ call.task \in Nat
  BY DEF F!Fresh, F!CallSet, F!Key
<1>1. CASE call.tool \in {"update_plan", "create_goal"}
  <2>1. PICK new : new = F!Item(F!Fresh, 0, "active")
    OBVIOUS
  <2>2. F!Outcome(call, items).items = << new >>
    BY <1>1, <2>1 DEF F!Outcome, F!Saves
  <2>3. new \in F!Record(F!FileOf(call)) /\ new.id = F!Fresh
    BY <1>0, <2>1 DEF F!Item, F!Record, F!Status
  <2>4. << new >> \in Seq(F!Record(F!FileOf(call))) /\ F!Ids(<< new >>) = {F!Fresh}
    <3>1. << new >> \in Seq(F!Record(F!FileOf(call)))
      BY <2>3
    <3> QED BY <2>3, <3>1 DEF F!Ids
  <2>5. call.tool \in F!Blind /\ F!FileOf(call) # "automations"
    BY <1>1, ToolFiles DEF F!Blind
  <2> QED BY <1>0, <1>1, <2>2, <2>4, <2>5 DEF OutcomeOK
<1>2. CASE call.tool = "checklist_write"
  <2>1. PICK out : out = [i \in DOMAIN call.list |->
                            F!Item(IF call.list[i] = 0 THEN i ELSE call.list[i], 0, "pending")]
    OBVIOUS
  <2>2. F!Outcome(call, items).items = out
    BY <1>2, <2>1 DEF F!Outcome, F!ChecklistWrite, F!Saves
  <2>3. /\ DOMAIN call.list = 1..Len(call.list) /\ Len(call.list) \in 0..2
        /\ \A i \in DOMAIN call.list : i \in 1..2 /\ call.list[i] \in {0, 10}
    BY <1>0
  <2>4. \A i \in DOMAIN out : out[i] \in F!Record(F!FileOf(call)) /\ out[i].id <= 10
    <3> TAKE i \in DOMAIN out
    <3>0. (IF call.list[i] = 0 THEN i ELSE call.list[i]) \in 1..10
      BY <2>1, <2>3
    <3>1. PICK id \in 1..10 : out[i] = F!Item(id, 0, "pending")
      BY <2>1, <3>0
    <3> QED BY <3>1 DEF F!Item, F!Record, F!Status
  <2>5. out \in Seq(F!Record(F!FileOf(call)))
    <3>1. DOMAIN out = 1..Len(call.list) /\ Len(call.list) \in Nat
      BY <2>1, <2>3
    <3>2. out = [i \in 1..Len(call.list) |-> out[i]]
      BY <2>1, <2>3
    <3> QED BY <2>4, <3>1, <3>2
  <2>6. \A id \in F!Ids(out) : id <= F!Fresh
    <3> TAKE id \in F!Ids(out)
    <3>1. PICK i \in DOMAIN out : id = out[i].id
      BY DEF F!Ids
    <3>2. id \in Nat
      BY <2>4, <3>1 DEF F!Record
    <3> QED BY <1>0, <2>4, <3>1, <3>2
  <2>7. call.tool \in F!Blind /\ F!FileOf(call) # "automations"
    BY <1>2, ToolFiles DEF F!Blind
  <2> QED BY <1>2, <2>2, <2>5, <2>6, <2>7 DEF OutcomeOK
<1>3. CASE call.tool = "checklist_add"
  <2>1. PICK id : id = IF call.key = 0 THEN F!Fresh ELSE call.key
    OBVIOUS
  <2>2. F!Outcome(call, items).items = Append(items, F!Item(id, call.text, "pending"))
    BY <1>3, <2>1 DEF F!Outcome, F!ChecklistAdd, F!Saves
  <2>3. id \in Nat /\ id <= F!Fresh
    BY <1>0, <1>3, <2>1
  <2>4. call.tool \notin F!Blind
    BY <1>3 DEF F!Blind
  <2>5. "pending" \in F!Status /\ call.tool \in F!Simple \cup {"checklist_add"}
    BY <1>3 DEF F!Status
  <2> QED BY <1>0, <1>3, <2>1, <2>2, <2>3, <2>4, <2>5, LongerOutcome
<1>4. CASE call.tool \in {"task_create", "pr_attempt_record", "automation_create",
                          "slop_ledger_append"}
  <2>1. F!Outcome(call, items).items = Append(items, F!Item(F!Fresh, 0, "new"))
    BY <1>4 DEF F!Outcome, F!Saves
  <2>2. call.tool \in F!Simple /\ call.tool \notin F!Blind /\ call.tool # "checklist_add"
    BY <1>4 DEF F!Simple, F!Blind
  <2>3. "new" \in F!Status
    BY DEF F!Status
  <2> QED BY <1>0, <2>1, <2>2, <2>3, LongerOutcome
<1>5. CASE call.tool \in {"checklist_update", "update_goal", "task_cancel", "automation_update",
                          "slop_ledger_update"}
  <2>1. \E status \in F!Status : \E found :
          F!Outcome(call, items) = F!FirstSet(items, found, status)
    <3>1. \A s \in {"done", "complete", "canceled", "paused", "closed"} : s \in F!Status
      BY DEF F!Status
    <3>2. CASE call.tool = "checklist_update"
      <4>1. F!Outcome(call, items) =
              F!FirstSet(items, F!HasId(items, call.key) \cup {i \in DOMAIN items : items[i].text = call.key}, "done")
        BY <3>2 DEF F!Outcome, F!ChecklistUpdate
      <4> QED BY <3>1, <4>1
    <3>3. CASE call.tool = "update_goal"
      <4>1. F!Outcome(call, items) =
              F!FirstSet(items, DOMAIN items, "complete")
        BY <3>3 DEF F!Outcome, F!UpdateGoal
      <4> QED BY <3>1, <4>1
    <3>4. CASE call.tool = "task_cancel"
      <4>1. F!Outcome(call, items) =
              F!FirstSet(items, F!HasId(items, call.key), "canceled")
        BY <3>4 DEF F!Outcome, F!TaskCancel
      <4> QED BY <3>1, <4>1
    <3>5. CASE call.tool = "automation_update"
      <4>1. F!Outcome(call, items) =
              F!FirstSet(items, F!HasId(items, call.key), "paused")
        BY <3>5 DEF F!Outcome, F!AutomationUpdate
      <4> QED BY <3>1, <4>1
    <3>6. CASE call.tool = "slop_ledger_update"
      <4>1. F!Outcome(call, items) =
              F!FirstSet(items, IF call.key = 0 THEN DOMAIN items ELSE F!HasId(items, call.key), "closed")
        BY <3>6 DEF F!Outcome, F!SlopUpdate
      <4> QED BY <3>1, <4>1
    <3> QED BY <1>5, <3>2, <3>3, <3>4, <3>5, <3>6
  <2>2. PICK status \in F!Status : \E found :
          F!Outcome(call, items) = F!FirstSet(items, found, status)
    BY <2>1
  <2>3. SameItems(F!FileOf(call), items, F!Outcome(call, items).items)
    BY <2>2, StatusIsSet
  <2>4. /\ call.tool \notin F!Blind /\ call.tool # "automation_delete"
        /\ call.tool # "checklist_add" /\ call.tool # "task_create"
    BY <1>5 DEF F!Blind
  <2> QED BY <2>3, <2>4, SameOutcome
<1>6. CASE call.tool = "task_gate_run"
  <2>1. PICK out : out = [i \in DOMAIN items |->
                            IF i \in F!HasId(items, call.key)
                            THEN [items[i] EXCEPT !.marks = items[i].marks \cup {"gate"}]
                            ELSE items[i]]
    OBVIOUS
  <2>2. F!Outcome(call, items).items = out
    BY <1>6, <2>1 DEF F!Outcome, F!TaskGateRun, F!Saves, F!NotFound
  <2>3. F!FileOf(call) = "tasks"
    BY <1>6, ToolFiles
  <2>4. \A i \in DOMAIN items : out[i] \in F!Record("tasks") /\ out[i].id = items[i].id
    <3> TAKE i \in DOMAIN items
    <3>1. items[i] \in F!Record("tasks")
      BY <2>3, SequenceElements
    <3>2. out[i] = items[i] \/ out[i] = [items[i] EXCEPT !.marks = items[i].marks \cup {"gate"}]
      BY <2>1
    <3> QED BY <3>1, <3>2 DEF F!Record
  <2>5. out \in Seq(F!Record("tasks")) /\ DOMAIN out = DOMAIN items
    <3>1. Len(items) \in Nat /\ DOMAIN items = 1..Len(items)
      OBVIOUS
    <3>2. out = [i \in 1..Len(items) |-> out[i]] /\ DOMAIN out = 1..Len(items)
      BY <2>1, <3>1
    <3> QED BY <2>4, <3>1, <3>2
  <2>6. F!Ids(out) = F!Ids(items)
    BY <2>4, <2>5 DEF F!Ids
  <2>7. F!Removed(call, F!Ids(out)) = {} /\ F!Added(call, F!Ids(out)) = {}
    BY <1>6 DEF F!Removed, F!Added, F!Blind, F!Simple
  <2>8. \A id \in F!Ids(out) : id <= F!Fresh
    <3> TAKE id \in F!Ids(out)
    <3>1. PICK i \in DOMAIN out : id = out[i].id
      BY DEF F!Ids
    <3>2. id \in Nat
      BY <2>4, <2>5, <3>1 DEF F!Record
    <3> QED BY <1>0, <2>6, <3>2 DEF F!Drawn
  <2> QED BY <1>6, <2>2, <2>3, <2>5, <2>6, <2>7, <2>8 DEF OutcomeOK
<1>7. CASE call.tool = "automation_delete"
  <2>1. PICK out : out = F!Without(items, call.key)
    OBVIOUS
  <2>2. F!Outcome(call, items).items = out
    BY <1>7, <2>1 DEF F!Outcome, F!AutomationDelete, F!Saves
  <2>3. /\ out \in Seq(F!Record(F!FileOf(call))) /\ F!Ids(out) = F!Ids(items) \ {call.key}
        /\ \A i \in DOMAIN out : \E j \in DOMAIN items : out[i] = items[j]
    BY <2>1, WithoutOneRecord
  <2>4. F!Removed(call, F!Ids(out)) = {call.key} /\ F!Added(call, F!Ids(out)) = {}
    BY <1>7 DEF F!Removed, F!Added, F!Blind, F!Simple
  <2>5. \A id \in F!Ids(out) : id <= F!Fresh
    <3> TAKE id \in F!Ids(out)
    <3>1. PICK i \in DOMAIN items : id = items[i].id
      BY <2>3 DEF F!Ids
    <3>2. items[i] \in F!Record(F!FileOf(call))
      BY SequenceElements
    <3>3. id \in Nat
      BY <3>1, <3>2 DEF F!Record
    <3> QED BY <1>0, <2>3, <3>3 DEF F!Drawn
  <2>6. \A i \in DOMAIN out : \A m \in out[i].marks : \E j \in DOMAIN items : m \in items[j].marks
    BY <2>3
  <2> QED BY <1>7, <2>2, <2>3, <2>4, <2>5, <2>6 DEF OutcomeOK
<1>8. CASE call.tool = "automation_run"
  <2>1. F!Outcome(call, items) = F!AutomationRan(call, items)
    BY <1>8 DEF F!Outcome
  <2>2. F!HasId(items, call.key) # {}
    BY <2>1 DEF F!AutomationRan, F!NotFound
  <2>3. call.task # 0
    BY <1>8, <2>2 DEF F!HasId, F!Ids
  <2>4. PICK k : k = F!First(F!HasId(items, call.key))
    OBVIOUS
  <2>5. PICK out : out = [items EXCEPT ![k] =
                            [items[k] EXCEPT !.marks = items[k].marks \cup {call.task}]]
    OBVIOUS
  <2>6. F!Outcome(call, items).items = out
    BY <2>1, <2>2, <2>4, <2>5 DEF F!AutomationRan, F!Saves
  <2>7. F!FileOf(call) = "automations"
    BY <1>8, ToolFiles
  <2>8. \A i \in DOMAIN items :
          /\ out[i] \in F!Record("automations") /\ out[i].id = items[i].id
          /\ \A m \in out[i].marks : m \in items[i].marks \/ m = call.task
    <3> TAKE i \in DOMAIN items
    <3>1. items[i] \in F!Record("automations")
      BY <2>7, SequenceElements
    <3>2. PICK more : more = items[i].marks \cup {call.task}
      OBVIOUS
    <3>3. out[i] = items[i] \/ out[i] = [items[i] EXCEPT !.marks = more]
      BY <2>5, <3>2
    <3>4. items[i].marks \in SUBSET Nat
      BY <3>1 DEF F!Record
    <3>5. more \in SUBSET Nat
      BY <1>0, <3>2, <3>4
    <3>6. /\ [items[i] EXCEPT !.marks = more] \in F!Record("automations")
          /\ [items[i] EXCEPT !.marks = more].id = items[i].id
          /\ [items[i] EXCEPT !.marks = more].marks = more
      BY <3>1, <3>5 DEF F!Record
    <3> QED BY <3>1, <3>2, <3>3, <3>6
  <2>9. out \in Seq(F!Record("automations")) /\ DOMAIN out = DOMAIN items
    <3>1. Len(items) \in Nat /\ DOMAIN items = 1..Len(items)
      OBVIOUS
    <3>2. out = [i \in 1..Len(items) |-> out[i]] /\ DOMAIN out = 1..Len(items)
      BY <2>5, <3>1
    <3> QED BY <2>8, <3>1, <3>2
  <2>10. F!Ids(out) = F!Ids(items)
    BY <2>8, <2>9 DEF F!Ids
  <2>11. F!Removed(call, F!Ids(out)) = {} /\ F!Added(call, F!Ids(out)) = {}
    BY <1>8 DEF F!Removed, F!Added, F!Blind, F!Simple
  <2>12. \A id \in F!Ids(out) : id <= F!Fresh
    <3> TAKE id \in F!Ids(out)
    <3>1. PICK i \in DOMAIN out : id = out[i].id
      BY DEF F!Ids
    <3>2. id \in Nat
      BY <2>8, <2>9, <3>1 DEF F!Record
    <3> QED BY <1>0, <2>10, <3>2 DEF F!Drawn
  <2> QED BY <1>8, <2>3, <2>6, <2>7, <2>8, <2>9, <2>10, <2>11, <2>12 DEF OutcomeOK
<1> QED BY <1>0, <1>1, <1>2, <1>3, <1>4, <1>5, <1>6, <1>7, <1>8 DEF F!Tool, F!Simple, F!Keyed

\* Sequences of one and two elements.
LEMMA SmallTuples ==
  /\ \A q : q = [i \in 1..1 |-> q[i]] => q = << q[1] >>
  /\ \A q : q = [i \in 1..2 |-> q[i]] => q = << q[1], q[2] >>
  /\ \A x : << x >> \o << >> = << x >>
  /\ \A x, y : << x >> \o << y >> = << x, y >>
<1>1. ASSUME NEW q, q = [i \in 1..1 |-> q[i]] PROVE q = << q[1] >>
  <2>1. PICK x : x = q[1]
    OBVIOUS
  <2>2. q \in Seq({x}) /\ Len(q) = 1
    <3>1. \A i \in 1..1 : q[i] \in {x}
      BY <2>1
    <3>2. [i \in 1..1 |-> q[i]] \in Seq({x}) /\ Len([i \in 1..1 |-> q[i]]) = 1
      BY <3>1
    <3> QED BY <1>1, <3>2, Zenon
  <2>3. << x >> \in Seq({x}) /\ Len(<< x >>) = 1 /\ << x >>[1] = x
    OBVIOUS
  <2>4. \A i \in 1..Len(q) : q[i] = << x >>[i]
    BY <2>1, <2>2, <2>3
  <2>5. q = << x >>
    BY <2>2, <2>3, <2>4, SeqEqual
  <2> QED BY <2>1, <2>5
<1>2. ASSUME NEW q, q = [i \in 1..2 |-> q[i]] PROVE q = << q[1], q[2] >>
  <2>1. PICK x, y : x = q[1] /\ y = q[2]
    OBVIOUS
  <2>2. q \in Seq({x, y}) /\ Len(q) = 2
    <3>1. \A i \in 1..2 : q[i] \in {x, y}
      BY <2>1
    <3>2. [i \in 1..2 |-> q[i]] \in Seq({x, y}) /\ Len([i \in 1..2 |-> q[i]]) = 2
      BY <3>1
    <3> QED BY <1>2, <3>2, Zenon
  <2>3. /\ << x, y >> \in Seq({x, y}) /\ Len(<< x, y >>) = 2
        /\ << x, y >>[1] = x /\ << x, y >>[2] = y
    OBVIOUS
  <2>4. \A i \in 1..Len(q) : q[i] = << x, y >>[i]
    BY <2>1, <2>2, <2>3
  <2>5. q = << x, y >>
    BY <2>2, <2>3, <2>4, SeqEqual
  <2> QED BY <2>1, <2>5
<1>3. ASSUME NEW x PROVE << x >> \o << >> = << x >>
  <2>1. << x >> \in Seq({x})
    OBVIOUS
  <2> QED BY <2>1, ConcatEmptySeq
<1>4. ASSUME NEW x, NEW y PROVE << x >> \o << y >> = << x, y >>
  <2> DEFINE V == {x, y}
  <2>1. /\ << x >> \in Seq(V) /\ Len(<< x >>) = 1 /\ << x >>[1] = x
        /\ << y >> \in Seq(V) /\ Len(<< y >>) = 1 /\ << y >>[1] = y
        /\ << x, y >> \in Seq(V) /\ Len(<< x, y >>) = 2
        /\ << x, y >>[1] = x /\ << x, y >>[2] = y
    OBVIOUS
  <2> HIDE DEF V
  <2>2. PICK p, q, r : p = << x >> /\ q = << y >> /\ r = << x, y >>
    OBVIOUS
  <2>3. /\ p \in Seq(V) /\ Len(p) = 1 /\ p[1] = x /\ q \in Seq(V) /\ Len(q) = 1 /\ q[1] = y
        /\ r \in Seq(V) /\ Len(r) = 2 /\ r[1] = x /\ r[2] = y
    BY <2>1, <2>2
  <2>4. /\ p \o q \in Seq(V) /\ Len(p \o q) = Len(p) + Len(q)
        /\ \A i \in 1..Len(p) + Len(q) :
             (p \o q)[i] = IF i <= Len(p) THEN p[i] ELSE q[i - Len(p)]
    BY <2>3, ConcatProperties
  <2>5. /\ Len(p \o q) = 2 /\ (p \o q)[1] = x /\ (p \o q)[2] = y
    BY <2>3, <2>4
  <2>6. \A i \in 1..Len(r) : (p \o q)[i] = r[i]
    BY <2>3, <2>5
  <2>7. p \o q = r
    BY <2>3, <2>4, <2>5, <2>6, SeqEqual
  <2> QED BY <2>2, <2>7
<1> QED BY <1>1, <1>2, <1>3, <1>4

\* The calls an agent is in: one, or automation_run with the task_create it called.
LEMMA StackShape ==
  ASSUME NEW stack, F!StackOK(stack), stack # << >>
  PROVE  /\ Head(stack) = stack[1] /\ F!FrameOK(stack[1]) /\ 1 \in DOMAIN stack
         /\ \/ stack = << stack[1] >> /\ Tail(stack) = << >> /\ DOMAIN stack = {1}
            \/ /\ stack = << stack[1], stack[2] >> /\ Tail(stack) = << stack[2] >>
               /\ DOMAIN stack = {1, 2}
               /\ stack[1].call.tool = "task_create" /\ F!FrameOK(stack[2])
               /\ stack[2].call.tool = "automation_run" /\ stack[2].pc = "loaded"
<1>1. CASE stack = << stack[1] >> /\ F!FrameOK(stack[1])
  <2>1. \A x : Head(<< x >>) = x /\ Tail(<< x >>) = << >> /\ DOMAIN << x >> = {1}
    OBVIOUS
  <2> QED BY <1>1, <2>1
<1>2. CASE /\ stack = << stack[1], stack[2] >>
           /\ F!FrameOK(stack[1]) /\ stack[1].call.tool = "task_create"
           /\ F!FrameOK(stack[2]) /\ stack[2].call.tool = "automation_run"
           /\ stack[2].pc = "loaded"
  <2>1. \A x, y : /\ Head(<< x, y >>) = x /\ Tail(<< x, y >>) = << y >>
                  /\ DOMAIN << x, y >> = {1, 2}
    OBVIOUS
  <2> QED BY <1>2, <2>1
<1> QED BY <1>1, <1>2 DEF F!StackOK

\* The innermost of them goes on.
GoesOn(stack, x, own) ==
  /\ F!StackOK(own) /\ own # << >> /\ DOMAIN own = DOMAIN stack /\ own[1] = x
  /\ \A i \in DOMAIN own : i = 1 \/ (own[i] = stack[i] /\ stack[i].pc = "loaded")

LEMMA TopReplaced ==
  ASSUME NEW stack, F!StackOK(stack), stack # << >>,
         NEW x, F!FrameOK(x), x.call = stack[1].call
  PROVE  GoesOn(stack, x, << x >> \o Tail(stack))
<1>0. PICK own : own = << x >> \o Tail(stack)
  OBVIOUS
<1>1. CASE stack = << stack[1] >> /\ Tail(stack) = << >> /\ DOMAIN stack = {1}
  <2>1. << x >>[1] = x /\ DOMAIN << x >> = {1} /\ << x >> # << >>
    OBVIOUS
  <2>2. own = << x >>
    BY <1>0, <1>1, SmallTuples
  <2>3. own = << own[1] >> /\ own[1] = x
    BY <2>1, <2>2
  <2>4. F!StackOK(own)
    BY <2>3 DEF F!StackOK
  <2>5. own # << >> /\ DOMAIN own = DOMAIN stack
    BY <1>1, <2>1, <2>2, Zenon
  <2>6. \A i \in DOMAIN own : i = 1
    BY <1>1, <2>5
  <2>7. GoesOn(stack, x, own)
    BY <2>3, <2>4, <2>5, <2>6 DEF GoesOn
  <2> QED BY <1>0, <2>7
<1>2. CASE /\ stack = << stack[1], stack[2] >> /\ Tail(stack) = << stack[2] >>
           /\ DOMAIN stack = {1, 2}
           /\ stack[1].call.tool = "task_create" /\ F!FrameOK(stack[2])
           /\ stack[2].call.tool = "automation_run" /\ stack[2].pc = "loaded"
  <2>1. PICK y : y = stack[2]
    OBVIOUS
  <2>2. << x, y >>[1] = x /\ << x, y >>[2] = y /\ DOMAIN << x, y >> = {1, 2}
        /\ << x, y >> # << >>
    OBVIOUS
  <2>3. own = << x, y >>
    <3>1. own = << x >> \o << y >>
      BY <1>0, <1>2, <2>1
    <3> QED BY <3>1, SmallTuples
  <2>4. own = << own[1], own[2] >> /\ own[1] = x /\ own[2] = y
    BY <2>2, <2>3
  <2>5. F!StackOK(own)
    BY <1>2, <2>1, <2>4 DEF F!StackOK
  <2>6. own # << >> /\ DOMAIN own = DOMAIN stack
    BY <1>2, <2>2, <2>3, Zenon
  <2>7. GoesOn(stack, x, own)
    BY <1>2, <2>1, <2>4, <2>5, <2>6 DEF GoesOn
  <2> QED BY <1>0, <2>7
<1> QED BY <1>1, <1>2, StackShape

\* A caller whose list is old now.
Late(frame) == [frame EXCEPT !.stale = TRUE]

LEMMA LateFrame ==
  ASSUME NEW frame, F!FrameOK(frame)
  PROVE  /\ F!FrameOK(Late(frame)) /\ Late(frame).call = frame.call
         /\ Late(frame).pc = frame.pc /\ Late(frame).view = frame.view /\ Late(frame).stale
<1>1. frame \in [call : F!CallSet, pc : {"called", "loaded", "saving"},
                 view : Seq(F!Record(F!FileOf(frame.call))), stale : BOOLEAN]
  BY DEF F!FrameOK
<1>2. /\ Late(frame) \in [call : F!CallSet, pc : {"called", "loaded", "saving"},
                          view : Seq(F!Record(F!FileOf(frame.call))), stale : BOOLEAN]
      /\ Late(frame).call = frame.call
      /\ Late(frame).pc = frame.pc /\ Late(frame).view = frame.view /\ Late(frame).stale
  BY <1>1 DEF Late
<1> QED BY <1>2 DEF F!FrameOK

LEMMA LateStack ==
  ASSUME NEW f, NEW stack, F!StackOK(stack), NEW late,
         late = [i \in DOMAIN stack |->
                   IF F!On(f, {"loaded", "saving"}, stack[i])
                   THEN [stack[i] EXCEPT !.stale = TRUE] ELSE stack[i]]
  PROVE  /\ F!StackOK(late) /\ DOMAIN late = DOMAIN stack
         /\ \A i \in DOMAIN stack :
              /\ F!FrameOK(stack[i])
              /\ late[i].call = stack[i].call /\ late[i].pc = stack[i].pc
              /\ \/ late[i] = Late(stack[i])
                 \/ late[i] = stack[i] /\ ~F!On(f, {"loaded", "saving"}, stack[i])
<1>1. \A i \in DOMAIN stack : \/ late[i] = Late(stack[i])
                              \/ late[i] = stack[i] /\ ~F!On(f, {"loaded", "saving"}, stack[i])
  BY DEF Late
<1>2. \A i \in DOMAIN stack : F!FrameOK(stack[i])
  <2>1. CASE stack = << >>
    BY <2>1
  <2>2. CASE stack # << >>
    BY <2>2, StackShape
  <2> QED BY <2>1, <2>2
<1>3. \A i \in DOMAIN stack :
        F!FrameOK(late[i]) /\ late[i].call = stack[i].call /\ late[i].pc = stack[i].pc
  <2> TAKE i \in DOMAIN stack
  <2>1. CASE late[i] = Late(stack[i])
    BY <1>2, <2>1, LateFrame
  <2>2. CASE late[i] = stack[i]
    BY <1>2, <2>2
  <2> QED BY <1>1, <2>1, <2>2
<1>4. CASE stack = << >>
  <2>1. late = << >>
    BY <1>4
  <2> QED BY <1>4, <2>1 DEF F!StackOK
<1>5. CASE stack = << stack[1] >> /\ DOMAIN stack = {1}
  <2>1. late = << late[1] >>
    <3>1. {1} = 1..1
      OBVIOUS
    <3>2. late = [i \in 1..1 |-> late[i]]
      BY <1>5, <3>1
    <3> QED BY <3>2, SmallTuples
  <2>2. F!StackOK(late)
    BY <1>3, <1>5, <2>1 DEF F!StackOK
  <2> QED BY <1>1, <1>2, <1>3, <2>2
<1>6. CASE /\ stack = << stack[1], stack[2] >> /\ DOMAIN stack = {1, 2}
           /\ stack[1].call.tool = "task_create"
           /\ stack[2].call.tool = "automation_run" /\ stack[2].pc = "loaded"
  <2>1. late = << late[1], late[2] >>
    <3>1. {1, 2} = 1..2
      OBVIOUS
    <3>2. late = [i \in 1..2 |-> late[i]]
      BY <1>6, <3>1
    <3> QED BY <3>2, SmallTuples
  <2>2. F!StackOK(late)
    BY <1>3, <1>6, <2>1 DEF F!StackOK
  <2> QED BY <1>1, <1>2, <1>3, <2>2
<1> QED BY <1>4, <1>5, <1>6, StackShape

\* What is known of a call stays known while its list is the last, or once it is late.
LEMMA FrameStays ==
  ASSUME NEW frame, F!FrameOK(frame), F!FrameInv(frame),
         issued \in Nat, issued' \in Nat, issued' >= issued,
         kept["tasks"] \subseteq kept'["tasks"],
         NEW later,
         \/ later = Late(frame)
         \/ later = frame /\ \/ frame.pc = "called"
                             \/ /\ kept'[F!FileOf(frame.call)] = kept[F!FileOf(frame.call)]
                                /\ clean'[F!FileOf(frame.call)] => clean[F!FileOf(frame.call)]
  PROVE  F!FrameInv(later)'
<1>1. /\ F!FrameOK(later) /\ later.call = frame.call
      /\ later.pc = frame.pc /\ later.view = frame.view
  BY LateFrame
<1>2. later.stale \/ later = frame
  BY LateFrame
<1>3. F!Ids(frame.view) \subseteq Nat
  <2>1. ASSUME NEW id \in F!Ids(frame.view) PROVE id \in Nat
    <3>1. PICK i \in DOMAIN frame.view : id = frame.view[i].id
      BY DEF F!Ids
    <3>2. frame.view \in Seq(F!Record(F!FileOf(frame.call)))
      BY DEF F!FrameOK
    <3>3. frame.view[i] \in F!Record(F!FileOf(frame.call))
      BY <3>2, SequenceElements
    <3> QED BY <3>1, <3>3 DEF F!Record
  <2> QED BY <2>1
<1>4. F!Drawn(frame.view)'
  <2>1. \A id \in F!Ids(frame.view) : id < F!Fresh
    BY DEF F!FrameInv, F!Drawn
  <2>2. \A id \in F!Ids(frame.view) : id < 10 + issued'
    BY <1>3, <2>1 DEF F!Fresh
  <2> QED BY <2>2 DEF F!Drawn, F!Fresh
<1>5. F!Refers(frame.view) => F!Refers(frame.view)'
  BY DEF F!Refers
<1>6. F!FileOf(frame.call) = "automations" =>
        F!Refers(frame.view)' /\ (frame.call.task = 0 \/ frame.call.task \in kept'["tasks"])
  BY <1>5 DEF F!FrameInv
<1>7. /\ clean'[F!FileOf(frame.call)] /\ ~later.stale /\ frame.pc = "loaded"
           /\ frame.call.tool \notin F!Blind =>
             F!Ids(frame.view) = kept'[F!FileOf(frame.call)]
      /\ clean'[F!FileOf(frame.call)] /\ ~later.stale /\ frame.pc = "saving" =>
           F!Ids(frame.view) =
             (kept'[F!FileOf(frame.call)] \ F!Removed(frame.call, F!Ids(frame.view))')
               \cup F!Added(frame.call, F!Ids(frame.view))
  <2>1. CASE later.stale
    BY <2>1
  <2>2. CASE frame.pc = "called"
    BY <2>2
  <2>3. CASE /\ kept'[F!FileOf(frame.call)] = kept[F!FileOf(frame.call)]
             /\ clean'[F!FileOf(frame.call)] => clean[F!FileOf(frame.call)]
             /\ later = frame
    <3>1. F!Removed(frame.call, F!Ids(frame.view))' = F!Removed(frame.call, F!Ids(frame.view))
      BY <2>3 DEF F!Removed
    <3> QED BY <2>3, <3>1 DEF F!FrameInv
  <2> QED BY <1>2, <2>1, <2>2, <2>3, LateFrame
<1>8. frame.pc = "saving" /\ frame.call.tool = "task_create" =>
        F!Added(frame.call, F!Ids(frame.view)) # {}
  BY DEF F!FrameInv
<1>9. F!Added(frame.call, F!Ids(frame.view))' = F!Added(frame.call, F!Ids(frame.view))
  BY DEF F!Added
<1> QED BY <1>1, <1>4, <1>6, <1>7, <1>8, <1>9 DEF F!FrameInv

\* A step of one agent that leaves the files alone.
LEMMA OwnChanges ==
  ASSUME F!IInv, NEW a \in Agent, NEW own, frames' = [frames EXCEPT ![a] = own],
         F!StackOK(own), \A i \in DOMAIN own : F!FrameInv(own[i]),
         file' = file, issued' = issued, kept' = kept, clean' = clean,
         \A i \in DOMAIN frames[a] : frames[a][i].pc # "saving"
  PROVE  F!IInv'
<1>1. F!TypeOK
  BY DEF F!IInv
<1>2. DOMAIN frames = Agent /\ DOMAIN frames' = Agent /\ frames'[a] = own
      /\ \A b \in Agent : b # a => frames'[b] = frames[b]
  BY <1>1 DEF F!TypeOK
<1>3. \A x : F!FrameInv(x) => F!FrameInv(x)'
  BY DEF F!FrameInv, F!Drawn, F!Refers, F!Fresh, F!Removed
<1>4. \A b \in Agent : F!StackOK(frames'[b])
  BY <1>1, <1>2 DEF F!TypeOK
<1>5. \A b \in Agent : \A i \in DOMAIN frames'[b] : F!FrameInv(frames[b][i])'
  <2> TAKE b \in Agent
  <2>1. CASE b = a
    BY <1>2, <1>3, <2>1 DEF F!FrameInv
  <2>2. CASE b # a
    <3>1. frames'[b] = frames[b] /\ \A i \in DOMAIN frames[b] : F!FrameInv(frames[b][i])
      BY <1>2, <2>2 DEF F!IInv
    <3>2. \A i \in DOMAIN frames[b] : F!FrameInv(frames[b][i])'
      BY <1>3, <3>1 DEF F!FrameInv
    <3> QED BY <3>1, <3>2
  <2> QED BY <2>1, <2>2
<1>6. F!TypeOK'
  BY <1>1, <1>2, <1>4 DEF F!TypeOK
<1>7. \A f \in F!File : F!FileInv(f)'
  BY DEF F!IInv, F!FileInv, F!Drawn, F!Refers, F!Fresh
<1>8. F!ListsKept'
  <2>1. ASSUME NEW f, F!Saving(f) PROVE F!Saving(f)'
    <3>1. PICK b \in Agent : \E i \in DOMAIN frames[b] : F!On(f, {"saving"}, frames[b][i])
      BY <2>1 DEF F!Saving
    <3>2. b # a
      BY <3>1 DEF F!On
    <3>3. frames'[b] = frames[b]
      BY <1>2, <3>2
    <3> QED BY <3>1, <3>3 DEF F!Saving
  <2> QED BY <2>1 DEF F!IInv, F!ListsKept, F!Loaded
<1> QED BY <1>5, <1>6, <1>7, <1>8 DEF F!IInv

\* A file that is left alone.
LEMMA FileStays ==
  ASSUME NEW f \in F!File, F!FileInv(f), file'[f] = file[f],
         file[f].items \in Seq(F!Record(f)),
         issued \in Nat, issued' \in Nat, issued' >= issued, kept["tasks"] \subseteq kept'["tasks"]
  PROVE  F!FileInv(f)'
<1>1. ASSUME NEW id \in F!Ids(file[f].items) PROVE id \in Nat /\ id < 10 + issued
  <2>1. PICK i \in DOMAIN file[f].items : id = file[f].items[i].id
    BY DEF F!Ids
  <2>2. file[f].items[i] \in F!Record(f)
    BY SequenceElements
  <2> QED BY <2>1, <2>2 DEF F!Record, F!FileInv, F!Drawn, F!Fresh
<1>2. \A id \in F!Ids(file[f].items) : id < 10 + issued'
  BY <1>1
<1> QED BY <1>2 DEF F!FileInv, F!Drawn, F!Refers, F!Fresh

\* A step of one agent that changes a file: the lists of the others are late.
ListsChange(a, own) ==
  /\ DOMAIN frames' = Agent /\ frames'[a] = own
  /\ \A b \in Agent :
       F!StackOK(frames'[b]) /\ \A i \in DOMAIN frames'[b] : F!FrameInv(frames[b][i])'
  /\ \A b \in Agent \ {a} : \A i \in DOMAIN frames[b] :
       /\ i \in DOMAIN frames'[b] /\ frames'[b][i].call = frames[b][i].call
       /\ frames'[b][i].pc = frames[b][i].pc

LEMMA ListChanges ==
  ASSUME F!IInv, NEW a \in Agent, NEW f \in F!File, NEW own, frames' = F!Outdated(a, f, own),
         F!StackOK(own), \A i \in DOMAIN own : F!FrameInv(own[i])',
         issued' \in Nat, issued' >= issued, kept["tasks"] \subseteq kept'["tasks"],
         clean'[f] => clean[f],
         \A g \in F!File \ {f} : kept'[g] = kept[g] /\ clean'[g] = clean[g]
  PROVE  ListsChange(a, own)
<1>1. DOMAIN frames' = Agent /\ frames'[a] = own
  BY DEF F!Outdated
<1>2. ASSUME NEW b \in Agent, b # a
      PROVE  /\ F!StackOK(frames'[b])
             /\ \A i \in DOMAIN frames'[b] : F!FrameInv(frames[b][i])'
             /\ \A i \in DOMAIN frames[b] :
                  /\ i \in DOMAIN frames'[b] /\ frames'[b][i].call = frames[b][i].call
                  /\ frames'[b][i].pc = frames[b][i].pc
  <2>1. PICK stack, late : stack = frames[b] /\ late = frames'[b]
    OBVIOUS
  <2>2. late = [i \in DOMAIN stack |->
                  IF F!On(f, {"loaded", "saving"}, stack[i])
                  THEN [stack[i] EXCEPT !.stale = TRUE] ELSE stack[i]]
    BY <1>2, <2>1 DEF F!Outdated
  <2>3. F!StackOK(stack) /\ \A i \in DOMAIN stack : F!FrameInv(stack[i])
    BY <2>1 DEF F!IInv, F!TypeOK
  <2>4. /\ F!StackOK(late) /\ DOMAIN late = DOMAIN stack
        /\ \A i \in DOMAIN stack :
             /\ F!FrameOK(stack[i])
             /\ late[i].call = stack[i].call /\ late[i].pc = stack[i].pc
             /\ \/ late[i] = Late(stack[i])
                \/ late[i] = stack[i] /\ ~F!On(f, {"loaded", "saving"}, stack[i])
    BY <2>2, <2>3, LateStack
  <2>5. ASSUME NEW i \in DOMAIN stack PROVE F!FrameInv(late[i])'
    <3>1. PICK frame, later : frame = stack[i] /\ later = late[i]
      OBVIOUS
    <3>2. /\ F!FrameOK(frame) /\ F!FrameInv(frame)
          /\ later = Late(frame) \/ (later = frame /\ ~F!On(f, {"loaded", "saving"}, frame))
      BY <2>3, <2>4, <2>5, <3>1
    <3>3. issued \in Nat
      BY DEF F!IInv, F!TypeOK
    <3>4. CASE later = Late(frame)
      <4>1. F!FrameInv(later)'
        BY <3>2, <3>3, <3>4, FrameStays
      <4> QED BY <3>1, <4>1
    <3>5. CASE later = frame /\ ~F!On(f, {"loaded", "saving"}, frame)
      <4>1. frame.pc \in {"called", "loaded", "saving"} /\ frame.call \in F!CallSet
        BY <3>2 DEF F!FrameOK
      <4>2. F!FileOf(frame.call) \in F!File
        BY <4>1, ToolFiles
      <4>3. frame.pc = "called" \/ F!FileOf(frame.call) # f
        BY <3>5, <4>1 DEF F!On
      <4>4. frame.pc = "called" \/ /\ kept'[F!FileOf(frame.call)] = kept[F!FileOf(frame.call)]
                                   /\ clean'[F!FileOf(frame.call)] => clean[F!FileOf(frame.call)]
        BY <4>2, <4>3
      <4>5. F!FrameInv(later)'
        BY <3>2, <3>3, <3>5, <4>4, FrameStays
      <4> QED BY <3>1, <4>5
    <3> QED BY <3>2, <3>4, <3>5
  <2>6. \A i \in DOMAIN frames'[b] : F!FrameInv(frames[b][i])'
    BY <2>1, <2>4, <2>5 DEF F!FrameInv
  <2> QED BY <2>1, <2>4, <2>6
<1>3. \A b \in Agent :
        F!StackOK(frames'[b]) /\ \A i \in DOMAIN frames'[b] : F!FrameInv(frames[b][i])'
  <2> TAKE b \in Agent
  <2>1. CASE b # a
    BY <1>2, <2>1
  <2>2. CASE b = a
    <3>1. \A i \in DOMAIN frames'[b] : F!FrameInv(frames[b][i])'
      BY <1>1, <2>2 DEF F!FrameInv
    <3> QED BY <1>1, <2>2, <3>1
  <2> QED BY <2>1, <2>2
<1> QED BY <1>1, <1>2, <1>3 DEF ListsChange

\* An agent calls a tool, ...
LEMMA CallBegins ==
  ASSUME F!IInv, NEW a \in Agent, NEW call \in F!Calls, F!Begin(a, call)
  PROVE  F!IInv'
<1>1. PICK frame : frame = F!Frame(call)
  OBVIOUS
<1>2. /\ frames' = [frames EXCEPT ![a] = << frame >>] /\ frames[a] = << >>
      /\ file' = file /\ issued' = issued /\ kept' = kept /\ clean' = clean
  BY <1>1 DEF F!Begin, F!Busy
<1>3. call \in F!CallSet /\ call.task = 0
      /\ (call.tool = "checklist_add" => call.key \in {0, 1})
  BY DEF F!Calls, F!Call, F!CallSet, F!Key, F!Tool, F!Simple, F!Keyed
<1>4. /\ frame.call = call /\ frame.pc = "called" /\ frame.view = << >>
      /\ F!FrameOK(frame)
  <2>1. << >> \in Seq(F!Record(F!FileOf(call)))
    OBVIOUS
  <2>2. frame = [call |-> call, pc |-> "called", view |-> << >>, stale |-> FALSE]
    BY <1>1 DEF F!Frame
  <2> QED BY <1>3, <2>1, <2>2 DEF F!FrameOK
<1>5. F!FrameInv(frame)
  BY <1>3, <1>4 DEF F!FrameInv, F!Drawn, F!Refers, F!Ids
<1>6. << frame >>[1] = frame /\ DOMAIN << frame >> = {1}
  OBVIOUS
<1>7. F!StackOK(<< frame >>) /\ \A i \in DOMAIN << frame >> : F!FrameInv(<< frame >>[i])
  BY <1>4, <1>5, <1>6 DEF F!StackOK
<1>8. \A i \in DOMAIN frames[a] : frames[a][i].pc # "saving"
  BY <1>2
<1> QED BY <1>2, <1>7, <1>8, OwnChanges

\* ... which reads its file, ...
LEMMA ListIsLoaded ==
  ASSUME F!IInv, NEW a \in Agent, F!Load(a)
  PROVE  F!IInv'
<1>1. PICK stack, top, x : /\ stack = frames[a] /\ top = stack[1]
        /\ x = [top EXCEPT !.pc = "loaded",
                  !.view = IF top.call.tool \in F!Blind THEN << >> ELSE F!Loaded(F!FileOf(top.call)),
                  !.stale = top.call.tool \notin F!Blind /\ F!Saving(F!FileOf(top.call))]
  OBVIOUS
<1>2. F!StackOK(stack) /\ stack # << >>
  BY <1>1 DEF F!IInv, F!TypeOK, F!Load, F!At, F!Busy
<1>3. Head(stack) = top /\ F!FrameOK(top) /\ 1 \in DOMAIN stack
  BY <1>1, <1>2, StackShape
<1>4. /\ top.pc = "called" /\ frames' = [frames EXCEPT ![a] = << x >> \o Tail(stack)]
      /\ file' = file /\ issued' = issued /\ kept' = kept /\ clean' = clean
  <2>1. F!Top(a) = top
    BY <1>1, <1>3 DEF F!Top
  <2> QED BY <1>1, <2>1 DEF F!Load, F!At, F!Replace
<1>5. PICK f \in F!File : f = F!FileOf(top.call)
  BY <1>3, ToolFiles DEF F!FrameOK
<1>6. F!FrameInv(top) /\ F!FileInv(f) /\ F!ListsKept /\ file[f].items \in Seq(F!Record(f))
  BY <1>1, <1>3 DEF F!IInv, F!TypeOK
<1>7. PICK view \in Seq(F!Record(f)), stale1 \in BOOLEAN :
        /\ view = IF top.call.tool \in F!Blind THEN << >> ELSE file[f].items
        /\ stale1 = (top.call.tool \notin F!Blind /\ F!Saving(f))
  <2>1. << >> \in Seq(F!Record(f))
    OBVIOUS
  <2>2. (IF top.call.tool \in F!Blind THEN << >> ELSE file[f].items) \in Seq(F!Record(f))
    BY <1>6, <2>1
  <2>3. (top.call.tool \notin F!Blind /\ F!Saving(f)) \in BOOLEAN
    OBVIOUS
  <2> QED BY <2>2, <2>3, Zenon
<1>8. x = [top EXCEPT !.pc = "loaded", !.view = view, !.stale = stale1]
  BY <1>1, <1>5, <1>7 DEF F!Loaded
<1>9. /\ F!FrameOK(x) /\ x.call = top.call /\ x.pc = "loaded" /\ x.view = view
      /\ x.stale = stale1
  BY <1>3, <1>5, <1>8 DEF F!FrameOK
<1>10. F!FrameInv(x)
  <2>1. F!Drawn(view) /\ (f = "automations" => F!Refers(view))
    BY <1>6, <1>7 DEF F!FileInv, F!Drawn, F!Refers, F!Ids
  <2>2. f = "automations" => top.call.task = 0 \/ top.call.task \in kept["tasks"]
    BY <1>5, <1>6 DEF F!FrameInv
  <2>3. clean[f] /\ ~stale1 /\ top.call.tool \notin F!Blind => F!Ids(view) = kept[f]
    BY <1>6, <1>7 DEF F!ListsKept, F!Loaded
  <2> QED BY <1>5, <1>9, <2>1, <2>2, <2>3 DEF F!FrameInv
<1>11. PICK own : own = << x >> \o Tail(stack)
  OBVIOUS
<1>12. /\ F!StackOK(own) /\ DOMAIN own = DOMAIN stack /\ own[1] = x
       /\ \A i \in DOMAIN own : i = 1 \/ (own[i] = stack[i] /\ stack[i].pc = "loaded")
  <2>1. x.call = stack[1].call /\ F!FrameOK(x)
    BY <1>1, <1>9
  <2>2. GoesOn(stack, x, own)
    BY <1>2, <1>11, <2>1, TopReplaced
  <2> QED BY <2>2 DEF GoesOn
<1>13. \A i \in DOMAIN own : F!FrameInv(own[i])
  BY <1>1, <1>10, <1>12 DEF F!IInv
<1>14. \A i \in DOMAIN frames[a] : frames[a][i].pc # "saving"
  BY <1>1, <1>4, <1>12
<1> QED BY <1>4, <1>11, <1>12, <1>13, <1>14, OwnChanges

\* ... calls another or finds nothing, ...
LEMMA TaskIsQueued ==
  ASSUME F!IInv, NEW a \in Agent, F!RunAutomation(a) \/ F!Reject(a)
  PROVE  F!IInv'
<1>1. PICK stack, top : stack = frames[a] /\ top = stack[1]
  OBVIOUS
<1>2. F!StackOK(stack) /\ stack # << >> /\ \A i \in DOMAIN stack : F!FrameInv(stack[i])
  BY <1>1 DEF F!IInv, F!TypeOK, F!RunAutomation, F!Reject, F!At, F!Busy
<1>3. /\ Head(stack) = top /\ F!FrameOK(top) /\ 1 \in DOMAIN stack /\ top.pc = "loaded"
      /\ \/ stack = << top >> /\ Tail(stack) = << >> /\ DOMAIN stack = {1}
         \/ /\ Tail(stack) = << stack[2] >> /\ DOMAIN stack = {1, 2}
            /\ top.call.tool = "task_create" /\ F!FrameOK(stack[2]) /\ stack[2].pc = "loaded"
  <2>1. F!Top(a) = top
    BY <1>1, <1>2, StackShape DEF F!Top
  <2>2. top.pc = "loaded"
    BY <2>1 DEF F!RunAutomation, F!Reject, F!At
  <2> QED BY <1>1, <1>2, <2>2, StackShape
<1>4. \A i \in DOMAIN frames[a] : frames[a][i].pc # "saving"
  BY <1>1, <1>3
<1>5. file' = file /\ issued' = issued /\ kept' = kept /\ clean' = clean
  BY DEF F!RunAutomation, F!Reject
<1>6. CASE F!RunAutomation(a)
  <2>1. PICK call, frame : call = F!Call("task_create", 0, 0, << >>) /\ frame = F!Frame(call)
    OBVIOUS
  <2>2. top.call.tool = "automation_run"
    BY <1>1, <1>3, <1>6 DEF F!RunAutomation, F!NeedsTask, F!Top
  <2>3. stack = << top >>
    BY <1>3, <2>2
  <2>4. call.tool = "task_create" /\ call.task = 0 /\ call \in F!CallSet
    BY <2>1 DEF F!Call, F!CallSet, F!Key, F!Tool, F!Simple
  <2>5. /\ frame.call = call /\ frame.pc = "called" /\ frame.view = << >>
        /\ F!FrameOK(frame)
    <3>1. << >> \in Seq(F!Record(F!FileOf(call)))
      OBVIOUS
    <3>2. frame = [call |-> call, pc |-> "called", view |-> << >>, stale |-> FALSE]
      BY <2>1 DEF F!Frame
    <3> QED BY <2>4, <3>1, <3>2 DEF F!FrameOK
  <2>6. F!FrameInv(frame)
    BY <2>4, <2>5 DEF F!FrameInv, F!Drawn, F!Refers, F!Ids
  <2>7. PICK own : own = << frame, top >>
    OBVIOUS
  <2>8. frames' = [frames EXCEPT ![a] = own]
    <3>1. frames' = [frames EXCEPT ![a] = << frame >> \o << top >>]
      BY <1>1, <1>6, <2>1, <2>3 DEF F!RunAutomation
    <3> QED BY <2>7, <3>1, SmallTuples
  <2>9. own[1] = frame /\ own[2] = top /\ DOMAIN own = {1, 2} /\ own = << own[1], own[2] >>
    BY <2>7
  <2>10. F!StackOK(own)
    BY <1>3, <2>2, <2>4, <2>5, <2>9 DEF F!StackOK
  <2>11. \A i \in DOMAIN own : F!FrameInv(own[i])
    BY <1>1, <1>2, <1>3, <2>6, <2>9
  <2> QED BY <1>4, <1>5, <2>8, <2>10, <2>11, OwnChanges
<1>7. CASE F!Reject(a)
  <2>1. PICK own : own = Tail(stack)
    OBVIOUS
  <2>2. frames' = [frames EXCEPT ![a] = own]
    BY <1>1, <1>7, <2>1 DEF F!Reject
  <2>3. F!StackOK(own) /\ \A i \in DOMAIN own : F!FrameInv(own[i])
    <3>1. CASE own = << >>
      BY <3>1 DEF F!StackOK
    <3>2. CASE own = << stack[2] >> /\ F!FrameOK(stack[2]) /\ DOMAIN stack = {1, 2}
      <4>1. own[1] = stack[2] /\ DOMAIN own = {1} /\ own = << own[1] >>
        BY <3>2
      <4> QED BY <1>2, <3>2, <4>1 DEF F!StackOK
    <3> QED BY <1>3, <2>1, <3>1, <3>2
  <2> QED BY <1>4, <1>5, <2>2, <2>3, OwnChanges
<1> QED BY <1>6, <1>7

\* ... opens its file to write, ...
LEMMA FileIsTruncated ==
  ASSUME F!IInv, NEW a \in Agent, F!Truncate(a)
  PROVE  F!IInv'
<1>1. PICK stack, top : stack = frames[a] /\ top = stack[1]
  OBVIOUS
<1>2. F!TypeOK /\ F!StackOK(stack) /\ stack # << >> /\ F!ListsKept
  BY <1>1 DEF F!IInv, F!TypeOK, F!Truncate, F!At, F!Busy
<1>3. Head(stack) = top /\ F!FrameOK(top) /\ 1 \in DOMAIN stack
  BY <1>1, <1>2, StackShape
<1>4. F!Top(a) = top
  BY <1>1, <1>3 DEF F!Top
<1>5. PICK f \in F!File : f = F!FileOf(top.call)
  BY <1>3, ToolFiles DEF F!FrameOK
<1>6. PICK out, x : /\ out = F!Outcome(top.call, top.view)
                    /\ x = [top EXCEPT !.pc = "saving", !.view = out.items]
  OBVIOUS
<1>7. PICK own : own = << x >> \o Tail(stack)
  OBVIOUS
<1>8. /\ top.pc = "loaded" /\ ~F!NeedsTask(a) /\ out.save
      /\ file' = [file EXCEPT ![f] = F!Unreadable]
      /\ frames' = F!Outdated(a, f, own)
      /\ issued' = IF F!Fresh \in F!Ids(out.items) THEN issued + 1 ELSE issued
      /\ clean' = [clean EXCEPT ![f] = clean[f] /\ ~top.stale]
      /\ kept' = kept
  BY <1>1, <1>4, <1>5, <1>6, <1>7 DEF F!Truncate, F!At
<1>9. /\ top.call \in F!CallSet /\ top.view \in Seq(F!Record(f)) /\ top.stale \in BOOLEAN
      /\ (top.call.tool = "checklist_add" => top.call.key \in {0, 1})
  BY <1>3, <1>5 DEF F!FrameOK
<1>10. F!FrameInv(top) /\ F!FileInv(f) /\ issued \in Nat /\ clean \in [F!File -> BOOLEAN]
  BY <1>1, <1>2, <1>3 DEF F!IInv, F!TypeOK
<1>11. F!Drawn(top.view)
  BY <1>10 DEF F!FrameInv
<1>12. top.call.tool = "automation_run" /\ top.call.task = 0 => top.call.key \notin F!Ids(top.view)
  BY <1>4, <1>8 DEF F!NeedsTask
<1>13. OutcomeOK(top.call, top.view, out.items)
  BY <1>5, <1>6, <1>8, <1>9, <1>10, <1>11, <1>12, ToolOutcome
<1>14. PICK items : items = out.items
  OBVIOUS
<1>15. /\ items \in Seq(F!Record(f)) /\ \A id \in F!Ids(items) : id \in Nat /\ id <= F!Fresh
  <2>1. items \in Seq(F!Record(f)) /\ \A id \in F!Ids(items) : id <= F!Fresh
    BY <1>5, <1>13, <1>14 DEF OutcomeOK
  <2>2. ASSUME NEW id \in F!Ids(items) PROVE id \in Nat
    <3>1. PICK i \in DOMAIN items : id = items[i].id
      BY DEF F!Ids
    <3>2. items[i] \in F!Record(f)
      BY <2>1, SequenceElements
    <3> QED BY <3>1, <3>2 DEF F!Record
  <2> QED BY <2>1, <2>2
<1>16. /\ F!FrameOK(x) /\ x.call = top.call /\ x.pc = "saving" /\ x.view = items
       /\ x.stale = top.stale
  BY <1>3, <1>5, <1>6, <1>14, <1>15 DEF F!FrameOK
<1>17. issued' \in Nat /\ issued' >= issued /\ \A id \in F!Ids(items) : id < 10 + issued'
  <2>1. CASE F!Fresh \in F!Ids(items)
    BY <1>8, <1>10, <1>14, <1>15, <2>1 DEF F!Fresh
  <2>2. CASE F!Fresh \notin F!Ids(items)
    <3>1. \A id \in F!Ids(items) : id # F!Fresh
      BY <2>2
    <3> QED BY <1>8, <1>10, <1>14, <1>15, <2>2, <3>1 DEF F!Fresh
  <2> QED BY <2>1, <2>2
<1>18. F!FrameInv(x)'
  <2>1. F!Drawn(items)'
    BY <1>17 DEF F!Drawn, F!Fresh
  <2>2. f = "automations" =>
          F!Refers(items)' /\ (top.call.task = 0 \/ top.call.task \in kept'["tasks"])
    <3> SUFFICES ASSUME f = "automations"
                 PROVE  F!Refers(items)' /\ (top.call.task = 0 \/ top.call.task \in kept'["tasks"])
      OBVIOUS
    <3>1. F!Refers(top.view) /\ (top.call.task = 0 \/ top.call.task \in kept["tasks"])
      BY <1>5, <1>10 DEF F!FrameInv
    <3>2. \A i \in DOMAIN items : \A m \in items[i].marks :
            (\E j \in DOMAIN top.view : m \in top.view[j].marks)
              \/ (m = top.call.task /\ top.call.task # 0)
      BY <1>5, <1>13, <1>14 DEF OutcomeOK
    <3>3. \A i \in DOMAIN items : items[i].marks \subseteq kept["tasks"]
      BY <3>1, <3>2 DEF F!Refers
    <3> QED BY <1>8, <3>1, <3>3 DEF F!Refers
  <2>3. clean'[f] /\ ~top.stale =>
          F!Ids(items) = (kept'[f] \ F!Removed(top.call, F!Ids(items))') \cup F!Added(top.call, F!Ids(items))'
    <3> SUFFICES ASSUME clean'[f], ~top.stale
                 PROVE  F!Ids(items) = (kept[f] \ F!Removed(top.call, F!Ids(items)))
                                         \cup F!Added(top.call, F!Ids(items))
      BY <1>8 DEF F!Removed, F!Added
    <3>1. clean[f]
      BY <1>8, <1>10
    <3>2. CASE top.call.tool \in F!Blind
      BY <1>5, <3>2 DEF F!Removed, F!Added
    <3>3. CASE top.call.tool \notin F!Blind
      <4>1. F!Ids(top.view) = kept[f]
        BY <1>5, <1>8, <1>10, <3>1, <3>3 DEF F!FrameInv
      <4> QED BY <1>13, <1>14, <3>3, <4>1 DEF OutcomeOK
    <3> QED BY <3>2, <3>3
  <2>4. top.call.tool = "task_create" => F!Added(top.call, F!Ids(items))' # {}
    <3>1. top.call.tool = "task_create" => F!Added(top.call, F!Ids(items)) # {}
      BY <1>13, <1>14 DEF OutcomeOK
    <3>2. F!Added(top.call, F!Ids(items))' = F!Added(top.call, F!Ids(items))
      BY DEF F!Added
    <3> QED BY <3>1, <3>2
  <2> QED BY <1>5, <1>16, <2>1, <2>2, <2>3, <2>4 DEF F!FrameInv
<1>19. /\ F!StackOK(own) /\ own # << >> /\ DOMAIN own = DOMAIN stack /\ own[1] = x
       /\ \A i \in DOMAIN own : i = 1 \/ (own[i] = stack[i] /\ stack[i].pc = "loaded")
  <2>1. x.call = stack[1].call /\ F!FrameOK(x)
    BY <1>1, <1>16
  <2>2. GoesOn(stack, x, own)
    BY <1>2, <1>7, <2>1, TopReplaced
  <2> QED BY <2>2 DEF GoesOn
<1>20. ASSUME NEW i \in DOMAIN own PROVE F!FrameInv(own[i])'
  <2>1. CASE i = 1
    BY <1>18, <1>19, <2>1 DEF F!FrameInv
  <2>2. CASE i # 1
    <3>1. PICK frame : frame = stack[i]
      OBVIOUS
    <3>2. own[i] = frame /\ i \in DOMAIN stack /\ frame.pc = "loaded"
      BY <1>19, <1>20, <2>2, <3>1
    <3>3. /\ F!FrameOK(frame) /\ frame.call.tool = "automation_run"
          /\ top.call.tool = "task_create"
      BY <1>1, <1>2, <2>2, <3>1, <3>2, StackShape
    <3>4. F!FrameInv(frame)
      BY <1>1, <3>1, <3>2 DEF F!IInv
    <3>5. F!FileOf(frame.call) = "automations" /\ f = "tasks"
      BY <1>5, <1>9, <3>3, ToolFiles DEF F!FrameOK
    <3>6. clean'["automations"] = clean["automations"]
      BY <1>8, <3>5
    <3>7. F!FrameInv(frame)'
      BY <1>8, <1>10, <1>17, <3>3, <3>4, <3>5, <3>6, FrameStays
    <3> QED BY <3>2, <3>7 DEF F!FrameInv
  <2> QED BY <2>1, <2>2
<1>21. clean'[f] => clean[f]
  BY <1>8, <1>10
<1>22. \A g \in F!File \ {f} : kept'[g] = kept[g] /\ clean'[g] = clean[g]
  BY <1>8, <1>10
<1>23. ListsChange(a, own)
  BY <1>8, <1>17, <1>19, <1>20, <1>21, <1>22, ListChanges
<1>24. F!TypeOK'
  <2>1. clean' \in [F!File -> BOOLEAN]
    <3>1. (clean[f] /\ ~top.stale) \in BOOLEAN
      OBVIOUS
    <3> QED BY <1>8, <1>10, <3>1, Zenon
  <2>2. DOMAIN file' = F!File /\ \A g \in F!File : file'[g] \in [ok : BOOLEAN, items : Seq(F!Record(g))]
    <3>1. [ok |-> FALSE, items |-> << >>] \in [ok : BOOLEAN, items : Seq(F!Record(f))]
      <4>1. << >> \in Seq(F!Record(f))
        OBVIOUS
      <4> QED BY <4>1
    <3>2. DOMAIN file = F!File /\ \A g \in F!File : file[g] \in [ok : BOOLEAN, items : Seq(F!Record(g))]
      BY <1>2 DEF F!TypeOK
    <3>3. file'[f] = [ok |-> FALSE, items |-> << >>] /\ \A g \in F!File \ {f} : file'[g] = file[g]
      BY <1>8, <3>2 DEF F!Unreadable
    <3>4. DOMAIN file' = F!File
      BY <1>8, <3>2
    <3>5. ASSUME NEW g \in F!File
          PROVE  file'[g] \in [ok : BOOLEAN, items : Seq(F!Record(g))]
      <4>1. CASE g = f
        BY <3>1, <3>3, <4>1
      <4>2. CASE g # f
        BY <3>2, <3>3, <4>2
      <4> QED BY <4>1, <4>2
    <3> QED BY <3>4, <3>5
  <2> QED BY <1>2, <1>8, <1>17, <1>23, <2>1, <2>2 DEF F!TypeOK, ListsChange
<1>25. \A g \in F!File : F!FileInv(g)'
  <2> TAKE g \in F!File
  <2>1. CASE g = f
    <3>1. file'[f].items = << >>
      BY <1>2, <1>8 DEF F!Unreadable, F!TypeOK
    <3> QED BY <2>1, <3>1 DEF F!FileInv, F!Drawn, F!Refers, F!Ids
  <2>2. CASE g # f
    <3>1. file'[g] = file[g]
      BY <1>2, <1>8, <2>2 DEF F!TypeOK
    <3> QED BY <1>8, <1>10, <1>17, <3>1, FileStays DEF F!IInv, F!TypeOK
  <2> QED BY <2>1, <2>2
<1>26. F!ListsKept'
  <2> SUFFICES ASSUME NEW g \in F!File, clean'[g], ~F!Saving(g)'
               PROVE  F!Ids(F!Loaded(g))' = kept'[g]
    BY DEF F!ListsKept
  <2>1. CASE g = f
    <3>1. F!On(f, {"saving"}, x)
      BY <1>5, <1>16 DEF F!On
    <3>2. F!Saving(f)'
      BY <1>3, <1>19, <1>23, <3>1 DEF F!Saving, ListsChange
    <3> QED BY <2>1, <3>2
  <2>2. CASE g # f
    <3>1. ~F!Saving(g)
      <4> SUFFICES ASSUME F!Saving(g) PROVE F!Saving(g)'
        OBVIOUS
      <4>1. PICK b \in Agent : \E i \in DOMAIN frames[b] : F!On(g, {"saving"}, frames[b][i])
        BY DEF F!Saving
      <4>2. PICK i \in DOMAIN frames[b] : F!On(g, {"saving"}, frames[b][i])
        BY <4>1
      <4>3. b # a
        <5>1. \A j \in DOMAIN stack : stack[j].pc = "loaded"
          BY <1>1, <1>8, <1>19
        <5> QED BY <1>1, <4>2, <5>1 DEF F!On
      <4>4. i \in DOMAIN frames'[b] /\ F!On(g, {"saving"}, frames'[b][i])
        BY <1>23, <4>2, <4>3 DEF F!On, ListsChange
      <4> QED BY <4>4 DEF F!Saving
    <3>2. clean[g] /\ file'[g] = file[g] /\ kept'[g] = kept[g]
      BY <1>2, <1>8, <1>22, <2>2 DEF F!TypeOK
    <3> QED BY <1>2, <3>1, <3>2 DEF F!ListsKept, F!Loaded
  <2> QED BY <2>1, <2>2
<1> QED BY <1>23, <1>24, <1>25, <1>26 DEF F!IInv, ListsChange

\* ... and writes its list, ...
LEMMA ListIsWritten ==
  ASSUME F!IInv, NEW a \in Agent, F!Write(a)
  PROVE  F!IInv'
<1>1. PICK stack, top : stack = frames[a] /\ top = stack[1]
  OBVIOUS
<1>2. F!TypeOK /\ F!StackOK(stack) /\ stack # << >> /\ F!ListsKept
  BY <1>1 DEF F!IInv, F!TypeOK, F!Write, F!At, F!Busy
<1>3. Head(stack) = top /\ F!FrameOK(top) /\ 1 \in DOMAIN stack
  BY <1>1, <1>2, StackShape
<1>4. F!Top(a) = top
  BY <1>1, <1>3 DEF F!Top
<1>5. PICK f \in F!File : f = F!FileOf(top.call)
  BY <1>3, ToolFiles DEF F!FrameOK
<1>6a. PICK view, ids, new, rest :
         /\ view = top.view /\ ids = F!Ids(view)
         /\ new = F!Added(top.call, ids) /\ rest = Tail(stack)
  OBVIOUS
<1>6b. PICK task : task = (CHOOSE id \in new : TRUE)
  OBVIOUS
<1>6c. PICK own :
         own = IF rest = << >> THEN << >>
               ELSE << [Head(rest) EXCEPT !.call.task = task] >> \o Tail(rest)
  OBVIOUS
<1>6. /\ view = top.view /\ ids = F!Ids(view) /\ new = F!Added(top.call, ids)
      /\ task = (CHOOSE id \in new : TRUE) /\ rest = Tail(stack)
      /\ own = IF rest = << >> THEN << >>
               ELSE << [Head(rest) EXCEPT !.call.task = task] >> \o Tail(rest)
  BY <1>6a, <1>6b, <1>6c
<1>7. /\ top.pc = "saving"
      /\ file' = [file EXCEPT ![f] = F!Whole(view)]
      /\ kept' = [kept EXCEPT ![f] = (kept[f] \ F!Removed(top.call, ids)) \cup new]
      /\ clean' = [clean EXCEPT ![f] = clean[f] /\ ~top.stale]
      /\ frames' = F!Outdated(a, f, own)
      /\ issued' = issued
  BY <1>1, <1>4, <1>5, <1>6 DEF F!Write, F!At
<1>8. /\ top.call \in F!CallSet /\ view \in Seq(F!Record(f)) /\ top.stale \in BOOLEAN
  BY <1>3, <1>5, <1>6 DEF F!FrameOK
<1>9. /\ F!FrameInv(top) /\ issued \in Nat /\ clean \in [F!File -> BOOLEAN]
      /\ kept \in [F!File -> SUBSET Nat] /\ DOMAIN file = F!File
  BY <1>1, <1>2, <1>3 DEF F!IInv, F!TypeOK
<1>10. /\ F!Drawn(view) /\ (f = "automations" => F!Refers(view))
       /\ clean[f] /\ ~top.stale => ids = (kept[f] \ F!Removed(top.call, ids)) \cup new
       /\ top.call.tool = "task_create" => new # {}
  BY <1>5, <1>6, <1>7, <1>9 DEF F!FrameInv
<1>11. ids \subseteq Nat
  <2>1. ASSUME NEW id \in ids PROVE id \in Nat
    <3>1. PICK i \in DOMAIN view : id = view[i].id
      BY <1>6 DEF F!Ids
    <3>2. view[i] \in F!Record(f)
      BY <1>8, SequenceElements
    <3> QED BY <3>1, <3>2 DEF F!Record
  <2> QED BY <2>1
<1>12. new \subseteq Nat
  <2>1. top.call.key \in Nat
    BY <1>8 DEF F!CallSet, F!Key
  <2> QED BY <1>6, <1>11, <2>1 DEF F!Added
<1>13. kept["tasks"] \subseteq kept'["tasks"]
  <2>1. CASE f = "tasks"
    <3>1. F!Removed(top.call, ids) = {}
      BY <1>5, <1>8, <2>1, ToolFiles DEF F!Removed, F!Blind
    <3> QED BY <1>7, <1>9, <2>1, <3>1
  <2>2. CASE f # "tasks"
    BY <1>7, <2>2
  <2> QED BY <2>1, <2>2
<1>14. /\ F!StackOK(own) /\ \A i \in DOMAIN own : F!FrameInv(own[i])'
       /\ \A i \in DOMAIN stack : i = 1 \/ stack[i].pc = "loaded"
  <2>1. CASE stack = << top >> /\ Tail(stack) = << >> /\ DOMAIN stack = {1}
    <3>1. own = << >>
      BY <1>6, <2>1
    <3> QED BY <2>1, <3>1 DEF F!StackOK
  <2>2. CASE /\ Tail(stack) = << stack[2] >> /\ DOMAIN stack = {1, 2}
             /\ top.call.tool = "task_create" /\ F!FrameOK(stack[2])
             /\ stack[2].call.tool = "automation_run" /\ stack[2].pc = "loaded"
    <3>1. PICK below, call : below = stack[2] /\ call = [below.call EXCEPT !.task = task]
      OBVIOUS
    <3>2. PICK later : later = [below EXCEPT !.call = call]
      OBVIOUS
    <3>3. own = << later >>
      <4>1. /\ << below >> # << >> /\ Head(<< below >>) = below /\ Tail(<< below >>) = << >>
        OBVIOUS
      <4>2. rest = << below >>
        BY <1>6, <2>2, <3>1
      <4>3. [below EXCEPT !.call.task = task] = later
        BY <3>1, <3>2
      <4>4. own = << later >> \o << >>
        BY <1>6, <4>1, <4>2, <4>3
      <4> QED BY <4>4, SmallTuples
    <3>4. task \in new /\ task \in Nat
      BY <1>6, <1>10, <1>12, <2>2
    <3>5. f = "tasks" /\ F!FileOf(below.call) = "automations" /\ below.call \in F!CallSet
      BY <1>5, <1>8, <2>2, <3>1, ToolFiles DEF F!FrameOK
    <3>6. /\ call \in F!CallSet /\ call.tool = "automation_run" /\ call.task = task
          /\ F!FileOf(call) = "automations"
      <4>1. call \in F!CallSet /\ call.tool = below.call.tool /\ call.task = task
        BY <3>1, <3>4, <3>5 DEF F!CallSet
      <4> QED BY <2>2, <3>1, <4>1, ToolFiles
    <3>7. /\ F!FrameOK(later) /\ later.call = call /\ later.pc = "loaded"
          /\ later.view = below.view /\ later.stale = below.stale
      BY <2>2, <3>1, <3>2, <3>5, <3>6 DEF F!FrameOK
    <3>8. F!FrameInv(below)
      BY <1>1, <2>2, <3>1 DEF F!IInv
    <3>9. F!FrameInv(later)'
      <4>1. F!Drawn(below.view)'
        BY <1>7, <3>8 DEF F!FrameInv, F!Drawn, F!Fresh
      <4>2. F!Refers(below.view)'
        BY <1>13, <3>5, <3>8 DEF F!FrameInv, F!Refers
      <4>3. task \in kept'["tasks"]
        BY <1>7, <1>9, <3>4, <3>5
      <4>4. clean'["automations"] /\ ~below.stale => F!Ids(below.view) = kept'["automations"]
        <5>1. clean'["automations"] = clean["automations"]
              /\ kept'["automations"] = kept["automations"]
          BY <1>7, <3>5
        <5>2. below.call.tool \notin F!Blind
          BY <2>2, <3>1 DEF F!Blind
        <5> QED BY <2>2, <3>1, <3>5, <3>8, <5>1, <5>2 DEF F!FrameInv
      <4> QED BY <3>6, <3>7, <4>1, <4>2, <4>3, <4>4 DEF F!FrameInv
    <3>10. own[1] = later /\ DOMAIN own = {1} /\ own = << own[1] >>
      BY <3>3
    <3>11. \A i \in DOMAIN own : F!FrameInv(own[i])'
      BY <3>9, <3>10 DEF F!FrameInv
    <3> QED BY <2>2, <3>7, <3>10, <3>11 DEF F!StackOK
  <2> QED BY <1>1, <1>2, <2>1, <2>2, StackShape
<1>15. clean'[f] => clean[f] /\ ~top.stale
  BY <1>7, <1>9
<1>16. \A g \in F!File \ {f} : kept'[g] = kept[g] /\ clean'[g] = clean[g]
  BY <1>7
<1>17. ListsChange(a, own)
  <2>1. issued' \in Nat /\ issued' >= issued
    BY <1>7, <1>9
  <2> QED BY <1>7, <1>13, <1>14, <1>15, <1>16, <2>1, ListChanges
<1>18. /\ DOMAIN file' = F!File /\ file'[f] = [ok |-> TRUE, items |-> view]
       /\ \A g \in F!File \ {f} : file'[g] = file[g]
  BY <1>7, <1>9 DEF F!Whole
<1>19. F!TypeOK'
  <2>1. clean' \in [F!File -> BOOLEAN]
    <3>1. (clean[f] /\ ~top.stale) \in BOOLEAN
      OBVIOUS
    <3> QED BY <1>7, <1>9, <3>1, Zenon
  <2>2. kept' \in [F!File -> SUBSET Nat]
    <3>1. (kept[f] \ F!Removed(top.call, ids)) \cup new \in SUBSET Nat
      BY <1>9, <1>12
    <3> QED BY <1>7, <1>9, <3>1
  <2>3. ASSUME NEW g \in F!File
        PROVE  file'[g] \in [ok : BOOLEAN, items : Seq(F!Record(g))]
    <3>1. CASE g = f
      <4>1. [ok |-> TRUE, items |-> view] \in [ok : BOOLEAN, items : Seq(F!Record(f))]
        BY <1>8
      <4> QED BY <1>18, <3>1, <4>1
    <3>2. CASE g # f
      BY <1>2, <1>18, <3>2 DEF F!TypeOK
    <3> QED BY <3>1, <3>2
  <2> QED BY <1>2, <1>7, <1>17, <1>18, <2>1, <2>2, <2>3 DEF F!TypeOK, ListsChange
<1>20. \A g \in F!File : F!FileInv(g)'
  <2> TAKE g \in F!File
  <2>1. CASE g = f
    <3>1. F!Drawn(view)'
      BY <1>7, <1>10 DEF F!Drawn, F!Fresh
    <3>2. f = "automations" => F!Refers(view)'
      BY <1>10, <1>13 DEF F!Refers
    <3> QED BY <1>18, <2>1, <3>1, <3>2 DEF F!FileInv
  <2>2. CASE g # f
    <3>1. /\ file'[g] = file[g] /\ F!FileInv(g) /\ file[g].items \in Seq(F!Record(g))
          /\ issued' \in Nat /\ issued' >= issued
      BY <1>7, <1>9, <1>18, <2>2 DEF F!IInv, F!TypeOK
    <3> QED BY <1>9, <1>13, <3>1, FileStays
  <2> QED BY <2>1, <2>2
<1>21. F!ListsKept'
  <2> SUFFICES ASSUME NEW g \in F!File, clean'[g], ~F!Saving(g)'
               PROVE  F!Ids(F!Loaded(g))' = kept'[g]
    BY DEF F!ListsKept
  <2>1. CASE g = f
    <3>1. ids = (kept[f] \ F!Removed(top.call, ids)) \cup new
      BY <1>10, <1>15, <2>1
    <3>2. kept'[f] = ids /\ file'[f].items = view
      BY <1>7, <1>9, <1>18, <3>1
    <3> QED BY <1>6, <2>1, <3>2 DEF F!Loaded
  <2>2. CASE g # f
    <3>1. ~F!Saving(g)
      <4> SUFFICES ASSUME F!Saving(g) PROVE F!Saving(g)'
        OBVIOUS
      <4>1. PICK b \in Agent : \E i \in DOMAIN frames[b] : F!On(g, {"saving"}, frames[b][i])
        BY DEF F!Saving
      <4>2. PICK i \in DOMAIN frames[b] : F!On(g, {"saving"}, frames[b][i])
        BY <4>1
      <4>3. b # a
        <5>1. ASSUME b = a PROVE FALSE
          <6>1. F!On(g, {"saving"}, stack[i]) /\ i \in DOMAIN stack
            BY <1>1, <4>2, <5>1
          <6>2. i = 1
            BY <1>14, <6>1 DEF F!On
          <6> QED BY <1>1, <1>5, <2>2, <6>1, <6>2 DEF F!On
        <5> QED BY <5>1
      <4>4. i \in DOMAIN frames'[b] /\ F!On(g, {"saving"}, frames'[b][i])
        BY <1>17, <4>2, <4>3 DEF F!On, ListsChange
      <4> QED BY <4>4 DEF F!Saving
    <3>2. clean[g] /\ file'[g] = file[g] /\ kept'[g] = kept[g]
      BY <1>16, <1>18, <2>2
    <3> QED BY <1>2, <3>1, <3>2 DEF F!ListsKept, F!Loaded
  <2> QED BY <2>1, <2>2
<1> QED BY <1>17, <1>19, <1>20, <1>21 DEF F!IInv, ListsChange

\* ... unless the process ends.
LEMMA ProcessEnds ==
  ASSUME F!IInv, F!Crash
  PROVE  F!IInv'
<1>1. /\ clean' = [f \in F!File |-> clean[f] /\ ~F!Saving(f)]
      /\ frames' = [a \in Agent |-> << >>]
      /\ file' = file /\ issued' = issued /\ kept' = kept
  BY DEF F!Crash
<1>2. F!TypeOK'
  <2>1. clean' \in [F!File -> BOOLEAN]
    <3>1. \A f \in F!File : (clean[f] /\ ~F!Saving(f)) \in BOOLEAN
      OBVIOUS
    <3> QED BY <1>1, <3>1, Zenon
  <2>2. DOMAIN frames' = Agent /\ \A a \in Agent : F!StackOK(frames'[a])
    BY <1>1 DEF F!StackOK
  <2> QED BY <1>1, <2>1, <2>2 DEF F!IInv, F!TypeOK
<1>3. \A f \in F!File : F!FileInv(f)'
  BY <1>1 DEF F!IInv, F!FileInv, F!Drawn, F!Refers, F!Fresh
<1>4. \A a \in Agent : \A i \in DOMAIN frames'[a] : F!FrameInv(frames[a][i])'
  BY <1>1
<1>5. F!ListsKept'
  BY <1>1 DEF F!IInv, F!ListsKept, F!Loaded
<1> QED BY <1>2, <1>3, <1>4, <1>5 DEF F!IInv

LEMMA StateFilesNext == F!IInv /\ (F!Next \/ UNCHANGED stateFilesVars) => F!IInv'
<1> SUFFICES ASSUME F!IInv, F!Next \/ UNCHANGED stateFilesVars PROVE F!IInv'
  OBVIOUS
<1>1. CASE UNCHANGED stateFilesVars
  <2>1. /\ file' = file /\ issued' = issued /\ kept' = kept /\ clean' = clean
        /\ frames' = frames
    BY <1>1 DEF stateFilesVars
  <2>2. F!TypeOK' /\ \A f \in F!File : F!FileInv(f)'
    BY <2>1 DEF F!IInv, F!TypeOK, F!FileInv, F!Drawn, F!Refers, F!Fresh
  <2>3. \A a \in Agent : \A i \in DOMAIN frames'[a] : F!FrameInv(frames[a][i])'
    BY <2>1 DEF F!IInv, F!FrameInv, F!Drawn, F!Refers, F!Fresh, F!Removed
  <2>4. F!ListsKept'
    BY <2>1 DEF F!IInv, F!ListsKept, F!Loaded, F!Saving
  <2> QED BY <2>2, <2>3, <2>4 DEF F!IInv
<1>2. CASE F!Crash
  BY <1>2, ProcessEnds
<1>3. ASSUME NEW a \in Agent,
             \/ F!Load(a) \/ F!RunAutomation(a) \/ F!Reject(a) \/ F!Truncate(a) \/ F!Write(a)
             \/ \E call \in F!Calls : F!Begin(a, call)
      PROVE  F!IInv'
  BY <1>3, CallBegins, ListIsLoaded, TaskIsQueued, FileIsTruncated, ListIsWritten
<1> QED BY <1>1, <1>2, <1>3 DEF F!Next

\* Records of plans, checklists, goals, tasks, automations, attempts and the slop ledger
\* survive the calls of the tools that do not overlap, whichever tools are called and
\* whatever automation_run calls in between (_save_state and its callers), and an automation
\* never refers to a task that is not there; every copy in the file history is that of its
\* own edit; and a turn that was saved stays in its session.
THEOREM RecordsAreKept == Spec => []KeptWithoutOverlap
<1>1. Init => F!IInv
  BY StateFilesInit DEF Init
<1>2. F!IInv /\ [Next]_vars => F!IInv'
  BY StateFilesNext, StateFilesSteps
<1>3. F!IInv => F!KeptWithoutOverlap
  <2> SUFFICES ASSUME F!IInv PROVE F!KeptWithoutOverlap
    OBVIOUS
  <2>1. F!ListsKept /\ F!FileInv("automations")
    BY DEF F!IInv, F!File
  <2>2. F!Refers(file["automations"].items)
    BY <2>1 DEF F!FileInv
  <2>3. ASSUME clean["tasks"], ~F!Saving("tasks") PROVE F!Ids(F!Loaded("tasks")) = kept["tasks"]
    BY <2>1, <2>3 DEF F!ListsKept, F!File
  <2>4. F!RunHasTask
    BY <2>2, <2>3 DEF F!RunHasTask, F!Loaded, F!Refers
  <2> QED BY <2>1, <2>4 DEF F!KeptWithoutOverlap
<1>4. Spec => []F!KeptWithoutOverlap
  BY <1>1, <1>2, <1>3, PTL DEF Spec
<1>5. F!KeptWithoutOverlap /\ H!BackupsAreTrue /\ Z!SavedTurnsStay => KeptWithoutOverlap
  BY DEF KeptWithoutOverlap
<1> QED BY <1>4, <1>5, CopiesAreTrue, SavedTurnsStayLoaded, PTL
=============================================================================
