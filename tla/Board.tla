-------------------------------- MODULE Board --------------------------------
(***************************************************************************)
(* The shared task board of a team (src/lilbot/teams/shared_task.py): one     *)
(* SharedTaskStore object and its tasks.json, used by the threads of the lead *)
(* and of the teammates through the team_task tools.  Every call reloads the  *)
(* file into the object first; no call takes a lock.  Titles, assignees and   *)
(* dependencies are left out: a task is its number and its status.            *)
(***************************************************************************)
EXTENDS Naturals

CONSTANTS
  Member,     \* threads that use the board
  MaxUses,    \* bound of the model: calls
  MaxDeaths   \* bound of the model: ends of the process

VARIABLES
  disk,      \* tasks.json: whether it parses, next_id and the tasks
  store,     \* the object: _next_id and _tasks
  step,      \* where each thread is in its call
  use,       \* the call it is in
  data,      \* what it read, and later what it is about to write
  given,     \* history: how often each number was returned by create
  apart,     \* history: no two calls overlapped, and none was cut short in its write
  uses, deaths

vars == << disk, store, step, use, data, given, apart, uses, deaths >>

Number == 1..MaxUses
Status == {"pending", "completed"}
Empty == [next |-> 1, tasks |-> << >>]
Torn  == [whole |-> FALSE, next |-> 1, tasks |-> << >>]
OnDisk(s) == [whole |-> TRUE, next |-> s.next, tasks |-> s.tasks]

\* Tasks entered into a dictionary that may hold others.
Merged(new, tasks) ==
  [n \in DOMAIN new \cup DOMAIN tasks |-> IF n \in DOMAIN new THEN new[n] ELSE tasks[n]]
NewTask(n) == [i \in {n} |-> "pending"]

Use == {<< "create" >>, << "list" >>} \cup ({"update"} \X Number)

Step(m, at) == step' = [step EXCEPT ![m] = at]

\* A thread calls create, update, get or list_tasks.
Enter(m, u) ==
  /\ step[m] = "idle"
  /\ uses < MaxUses
  /\ uses' = uses + 1
  /\ use' = [use EXCEPT ![m] = u]
  /\ Step(m, "read")
  /\ apart' = (apart /\ \A n \in Member : step[n] = "idle")
  /\ UNCHANGED << disk, store, data, given, deaths >>

\* _load: a file that does not parse leaves the object as it is, ...
Read(m) ==
  /\ step[m] = "read"
  /\ IF disk.whole
     THEN /\ data' = [data EXCEPT ![m] = [next |-> disk.next, tasks |-> disk.tasks]]
          /\ Step(m, "clear")
     ELSE /\ Step(m, "apply")
          /\ UNCHANGED data
  /\ UNCHANGED << disk, store, use, given, apart, uses, deaths >>

\* ... otherwise _next_id and _tasks are replaced, ...
Clear(m) ==
  /\ step[m] = "clear"
  /\ store' = [next |-> data[m].next, tasks |-> << >>]
  /\ Step(m, "fill")
  /\ UNCHANGED << disk, use, data, given, apart, uses, deaths >>

\* ... and the tasks entered into the new dictionary.
Fill(m) ==
  /\ step[m] = "fill"
  /\ store' = [store EXCEPT !.tasks = Merged(data[m].tasks, @)]
  /\ Step(m, "apply")
  /\ UNCHANGED << disk, use, data, given, apart, uses, deaths >>

\* list_tasks and get return; so does update when there is no such task.
ReturnUnchanged(m) ==
  /\ step[m] = "apply"
  /\ \/ use[m] = << "list" >>
     \/ use[m][1] = "update" /\ use[m][2] \notin DOMAIN store.tasks
  /\ Step(m, "idle")
  /\ UNCHANGED << disk, store, use, data, given, apart, uses, deaths >>

\* Mutant: the number is not counted up.
CreateSameNumber(m) ==
  /\ step[m] = "apply"
  /\ use[m] = << "create" >>
  /\ store' = [store EXCEPT !.tasks = Merged(NewTask(store.next), @)]
  /\ use' = [use EXCEPT ![m] = << "created", store.next >>]
  /\ Step(m, "save")
  /\ UNCHANGED << disk, data, given, apart, uses, deaths >>

\* create takes the next number and enters its task, ...
Create(m) ==
  /\ step[m] = "apply"
  /\ use[m] = << "create" >>
  /\ store' = [next  |-> store.next + 1,
               tasks |-> Merged(NewTask(store.next), store.tasks)]
  /\ use' = [use EXCEPT ![m] = << "created", store.next >>]
  /\ Step(m, "save")
  /\ UNCHANGED << disk, data, given, apart, uses, deaths >>

\* ... and update changes its task in place.
Update(m) ==
  /\ step[m] = "apply"
  /\ use[m][1] = "update"
  /\ use[m][2] \in DOMAIN store.tasks
  /\ store' = [store EXCEPT !.tasks[use[m][2]] = "completed"]
  /\ Step(m, "save")
  /\ UNCHANGED << disk, use, data, given, apart, uses, deaths >>

\* _save copies the object and opens the file, which empties it, ...
Open(m) ==
  /\ step[m] = "save"
  /\ data' = [data EXCEPT ![m] = store]
  /\ disk' = Torn
  /\ Step(m, "write")
  /\ UNCHANGED << store, use, given, apart, uses, deaths >>

\* ... writes the copy, and the call returns its task.
Write(m) ==
  /\ step[m] = "write"
  /\ disk' = OnDisk(data[m])
  /\ given' = IF use[m][1] = "created" THEN [given EXCEPT ![use[m][2]] = @ + 1] ELSE given
  /\ Step(m, "idle")
  /\ UNCHANGED << store, use, data, apart, uses, deaths >>

\* The process ends; get_task_store of the next one makes a new object, which loads.
Restart ==
  /\ deaths < MaxDeaths
  /\ deaths' = deaths + 1
  /\ store' = IF disk.whole THEN [next |-> disk.next, tasks |-> disk.tasks] ELSE Empty
  /\ step' = [m \in Member |-> "idle"]
  /\ apart' = (apart /\ \A m \in Member : step[m] # "write")
  /\ UNCHANGED << disk, use, data, given, uses >>

\* create_team leaves an empty board on disk.
Init ==
  /\ disk = OnDisk(Empty)
  /\ store = Empty
  /\ step = [m \in Member |-> "idle"]
  /\ use = [m \in Member |-> << "list" >>]
  /\ data = [m \in Member |-> Empty]
  /\ given = [n \in Number |-> 0]
  /\ apart = TRUE
  /\ uses = 0
  /\ deaths = 0

Next ==
  \/ \E m \in Member :
       \/ Read(m) \/ Clear(m) \/ Fill(m) \/ ReturnUnchanged(m)
       \/ Create(m) \/ Update(m) \/ Open(m) \/ Write(m)
       \/ \E u \in Use : Enter(m, u)
  \/ Restart

Spec == Init /\ [][Next]_vars

(***************************************************************************)
(* Properties                                                              *)
(***************************************************************************)

Returned == {n \in Number : given[n] > 0}

\* Calls that do not overlap keep the board: a number is given once, and its task is
\* on disk whenever the file can be read, across restarts between the calls and in
\* the middle of one.
BoardKeepsTasks ==
  apart => /\ \A n \in Number : given[n] <= 1
           /\ disk.whole => Returned \subseteq DOMAIN disk.tasks

\* Why it holds: as long as calls do not overlap, whatever a call carries from the file to
\* the object and back has all tasks that were returned, and its next number is new.
Holds(board) ==
  /\ board.next \in Nat
  /\ DOMAIN board.tasks \subseteq 0 .. board.next - 1
  /\ Returned \subseteq DOMAIN board.tasks

\* The task a call of create is about to return.
Pending(m, board) ==
  use[m][1] = "created" => use[m][2] \in DOMAIN board.tasks \ Returned

CallInv(m) ==
  /\ step[m] \in {"idle", "read", "clear", "fill", "apply", "save", "write"}
  /\ step[m] \in {"read", "clear", "fill", "apply"} => use[m][1] # "created"
  /\ step[m] \in {"clear", "fill"} => Holds(data[m])
  /\ step[m] = "fill" => store.next = data[m].next /\ DOMAIN store.tasks = {}
  /\ step[m] = "apply" => Holds(store)
  /\ step[m] = "save" => Holds(store) /\ Pending(m, store)
  /\ step[m] = "write" => Holds(data[m]) /\ Pending(m, data[m])

FileInv ==
  /\ disk.whole \in BOOLEAN
  /\ disk.whole => Holds(disk)
  /\ ~disk.whole => \E m \in Member : step[m] = "write"

IInv ==
  /\ store = [next |-> store.next, tasks |-> store.tasks]
  /\ step = [m \in Member |-> step[m]]
  /\ use = [m \in Member |-> use[m]]
  /\ data = [m \in Member |-> data[m]]
  /\ given \in [Number -> Nat]
  /\ apart \in BOOLEAN
  /\ apart =>
       /\ \A m, n \in Member : step[m] # "idle" /\ step[n] # "idle" => m = n
       /\ \A m \in Member : CallInv(m)
       /\ FileInv
       /\ \A n \in Number : given[n] <= 1
=============================================================================
