------------------------------ MODULE StateFiles ------------------------------
(***************************************************************************)
(* The built-in tools that keep their records in JSON files of the state     *)
(* directory (src/lilbot/tools/builtin.py): plan, checklist, goal, tasks with *)
(* their gates, patch attempts, automations and the slop ledger.             *)
(*                                                                         *)
(* Every such tool loads a whole file, changes the list and writes it back,  *)
(* without a lock and in place: the file is empty between the open and the    *)
(* write.  The lead and its subagents call them from threads of their own.    *)
(* Times, texts and all fields that no tool looks at are left out.            *)
(***************************************************************************)
EXTENDS Naturals, Sequences

CONSTANTS
  Agent,       \* threads that call tools: the lead and its subagents
  MaxCalls,    \* bound of the model: calls
  MaxCrashes   \* bound of the model: ends of the process inside a call

File == {"plan", "checklist", "goal", "tasks", "attempts", "automations", "slop"}

\* No call touches files of two groups, so each behaviour looks at one of them.
Groups == {{"plan"}, {"checklist"}, {"goal"}, {"tasks", "automations"}, {"attempts"}, {"slop"}}

VARIABLES
  file,     \* what each file holds: ok = FALSE when it does not exist or parse
  frames,   \* for each agent the calls it is in, the innermost first
  issued,   \* identifiers drawn by uuid4 so far
  kept,     \* history: the identifiers a reader is entitled to find
  clean,    \* history: no list was saved over one that its caller had not seen
  group,    \* the files this behaviour is about
  calls, crashes

vars == << group, file, frames, issued, kept, clean, calls, crashes >>

(***************************************************************************)
(* Records and lists.  Identifiers are numbers: 0 stands for the empty one,  *)
(* 1..9 for the positions a checklist numbers its items with, and 10 and more *)
(* for uuid4.  A text may happen to be equal to an identifier.               *)
(***************************************************************************)
Item(id, text, status) == [id |-> id, text |-> text, status |-> status, marks |-> {}]
Fresh == 10 + issued
Ids(items) == {items[i].id : i \in DOMAIN items}

Whole(items) == [ok |-> TRUE, items |-> items]
Unreadable == [ok |-> FALSE, items |-> << >>]

\* _load_state: the default stands in for a file that is missing or does not parse.
Loaded(f) == file[f].items

FileOf(call) ==
  CASE call.tool = "update_plan" -> "plan"
    [] call.tool \in {"checklist_write", "checklist_add", "checklist_update"} -> "checklist"
    [] call.tool \in {"create_goal", "update_goal"} -> "goal"
    [] call.tool \in {"task_create", "task_cancel", "task_gate_run"} -> "tasks"
    [] call.tool = "pr_attempt_record" -> "attempts"
    [] call.tool \in {"automation_create", "automation_update", "automation_delete",
                      "automation_run"} -> "automations"
    [] call.tool \in {"slop_ledger_append", "slop_ledger_update"} -> "slop"

(***************************************************************************)
(* What each tool makes of the list it loaded: the list it saves, if it saves *)
(* at all.                                                                   *)
(***************************************************************************)
Saves(items) == [save |-> TRUE, items |-> items]
NotFound(items) == [save |-> FALSE, items |-> items]

\* The first of the items found gets a new status; if none is found, nothing is saved.
First(found) == CHOOSE i \in found : \A j \in found : i <= j

FirstSet(items, found, status) ==
  IF found = {} THEN NotFound(items)
  ELSE Saves([items EXCEPT ![First(found)].status = status])

HasId(items, id) == {i \in DOMAIN items : items[i].id = id}

ChecklistWrite(call) ==
  Saves([i \in DOMAIN call.list |->
           Item(IF call.list[i] = 0 THEN i ELSE call.list[i], 0, "pending")])

ChecklistAdd(call, items) ==
  Saves(Append(items, Item(IF call.key = 0 THEN Fresh ELSE call.key, call.text, "pending")))

ChecklistUpdate(call, items) ==
  FirstSet(items, HasId(items, call.key) \cup {i \in DOMAIN items : items[i].text = call.key},
           "done")

UpdateGoal(items) == FirstSet(items, DOMAIN items, "complete")

TaskCancel(call, items) == FirstSet(items, HasId(items, call.key), "canceled")

\* Mutant: only the task that was found is saved.
TaskGateRunTaskOnly(call, items) ==
  Saves(SelectSeq(items, LAMBDA item : item.id = call.key))

\* The gate has been run; its result is added to the task it was run for, and the list
\* is saved even if there is no such task.
TaskGateRun(call, items) ==
  IF call.key = 0 THEN NotFound(items)
  ELSE Saves([i \in DOMAIN items |->
                IF i \in HasId(items, call.key)
                THEN [items[i] EXCEPT !.marks = @ \cup {"gate"}] ELSE items[i]])

AutomationUpdate(call, items) == FirstSet(items, HasId(items, call.key), "paused")

\* The items but those with an identifier.
Without(items, id) ==
  LET others[n \in 0 .. Len(items)] ==
        IF n = 0 THEN << >>
        ELSE IF items[n].id = id THEN others[n - 1] ELSE Append(others[n - 1], items[n])
  IN  others[Len(items)]

\* Saved even if nothing is left out.
AutomationDelete(call, items) == Saves(Without(items, call.key))

\* The second half of automation_run: the task it created is entered as a run.
AutomationRan(call, items) ==
  LET found == HasId(items, call.key)
  IN  IF found = {} THEN NotFound(items)
      ELSE Saves([items EXCEPT ![First(found)].marks = @ \cup {call.task}])

\* An identifier is found by a prefix, and the empty one is a prefix of every other.
SlopUpdate(call, items) ==
  FirstSet(items, IF call.key = 0 THEN DOMAIN items ELSE HasId(items, call.key), "closed")

\* update_plan and create_goal put a new record in the place of the old one.
Outcome(call, items) ==
  CASE call.tool \in {"update_plan", "create_goal"} -> Saves(<< Item(Fresh, 0, "active") >>)
    [] call.tool = "checklist_write"    -> ChecklistWrite(call)
    [] call.tool = "checklist_add"      -> ChecklistAdd(call, items)
    [] call.tool = "checklist_update"   -> ChecklistUpdate(call, items)
    [] call.tool = "update_goal"        -> UpdateGoal(items)
    [] call.tool \in {"task_create", "pr_attempt_record", "automation_create",
                      "slop_ledger_append"} -> Saves(Append(items, Item(Fresh, 0, "new")))
    [] call.tool = "task_cancel"        -> TaskCancel(call, items)
    [] call.tool = "task_gate_run"      -> TaskGateRun(call, items)
    [] call.tool = "automation_update"  -> AutomationUpdate(call, items)
    [] call.tool = "automation_delete"  -> AutomationDelete(call, items)
    [] call.tool = "automation_run"     -> AutomationRan(call, items)
    [] call.tool = "slop_ledger_update" -> SlopUpdate(call, items)

(***************************************************************************)
(* A call of a tool, step by step                                          *)
(***************************************************************************)

\* These replace the whole file and do not look at what it held.
Blind == {"update_plan", "create_goal", "checklist_write"}

Simple == {"update_plan", "create_goal", "update_goal", "task_create", "pr_attempt_record",
           "automation_create", "slop_ledger_append"}
Keyed == {"checklist_update", "task_cancel", "task_gate_run", "automation_update",
          "automation_delete", "automation_run", "slop_ledger_update"}

\* A key is empty, a position, or what uuid4 gave out first or second.
Key == {0, 1, 10, 11}

Call(tool, key, text, list) ==
  [tool |-> tool, key |-> key, text |-> text, list |-> list, task |-> 0]

Calls ==
  {Call(t, 0, 0, << >>) : t \in Simple}
    \cup {Call(t, k, 0, << >>) : t \in Keyed, k \in Key}
    \cup {Call("checklist_add", k, t, << >>) : k \in {0, 1}, t \in {0, 10}}
    \cup {Call("checklist_write", 0, 0, l) : l \in {<< 0, 0 >>, << 10 >>}}

Frame(call) == [call |-> call, pc |-> "called", view |-> << >>, stale |-> FALSE]

Busy(a) == frames[a] # << >>
Top(a)  == Head(frames[a])
At(a, pc) == Busy(a) /\ Top(a).pc = pc
Replace(a, frame) == frames' = [frames EXCEPT ![a] = << frame >> \o Tail(@)]

On(f, pcs, frame) == FileOf(frame.call) = f /\ frame.pc \in pcs
Saving(f) == \E a \in Agent : \E i \in DOMAIN frames[a] : On(f, {"saving"}, frames[a][i])

\* Whoever holds a list of f when the file changes holds an old one from now on.
Outdated(a, f, own) ==
  [b \in Agent |->
     IF b = a THEN own
     ELSE [i \in DOMAIN frames[b] |->
             IF On(f, {"loaded", "saving"}, frames[b][i])
             THEN [frames[b][i] EXCEPT !.stale = TRUE] ELSE frames[b][i]]]

\* An agent calls a tool.
Begin(a, call) ==
  /\ ~Busy(a)
  /\ calls < MaxCalls /\ FileOf(call) \in group
  /\ calls' = calls + 1
  /\ frames' = [frames EXCEPT ![a] = << Frame(call) >>]
  /\ UNCHANGED << group, file, issued, kept, clean, crashes >>

\* _load_state.  A file that is being written reads as empty.
Load(a) ==
  /\ At(a, "called")
  /\ LET f == FileOf(Top(a).call)
     IN  Replace(a, [Top(a) EXCEPT
           !.pc = "loaded",
           !.view = IF Top(a).call.tool \in Blind THEN << >> ELSE Loaded(f),
           !.stale = Top(a).call.tool \notin Blind /\ Saving(f)])
  /\ UNCHANGED << group, file, issued, kept, clean, calls, crashes >>

\* automation_run, once it has found its automation, calls task_create.
NeedsTask(a) ==
  /\ Top(a).call.tool = "automation_run" /\ Top(a).call.task = 0
  /\ Top(a).call.key \in Ids(Top(a).view)

RunAutomation(a) ==
  /\ At(a, "loaded")
  /\ NeedsTask(a)
  /\ frames' = [frames EXCEPT ![a] = << Frame(Call("task_create", 0, 0, << >>)) >> \o @]
  /\ UNCHANGED << group, file, issued, kept, clean, calls, crashes >>

\* "... not found.": the call returns and nothing is written.
Reject(a) ==
  /\ At(a, "loaded")
  /\ ~Outcome(Top(a).call, Top(a).view).save
  /\ frames' = [frames EXCEPT ![a] = Tail(@)]
  /\ UNCHANGED << group, file, issued, kept, clean, calls, crashes >>

\* _save_state opens the file, which empties it, ...
Truncate(a) ==
  /\ At(a, "loaded")
  /\ ~NeedsTask(a)
  /\ LET f == FileOf(Top(a).call)
         outcome == Outcome(Top(a).call, Top(a).view)
     IN  /\ outcome.save
         /\ file' = [file EXCEPT ![f] = Unreadable]
         /\ frames' = Outdated(a, f, << [Top(a) EXCEPT !.pc = "saving", !.view = outcome.items] >>
                                       \o Tail(frames[a]))
         /\ issued' = IF Fresh \in Ids(outcome.items) THEN issued + 1 ELSE issued
         /\ clean' = [clean EXCEPT ![f] = @ /\ ~Top(a).stale]
  /\ UNCHANGED << group, kept, calls, crashes >>

\* ... and writes the list.  A task created for an automation is handed to it.
Added(call, ids) ==
  IF call.tool \in Blind THEN ids
  ELSE IF call.tool = "checklist_add" /\ call.key # 0 THEN {call.key}
  ELSE IF call.tool \in Simple \cup {"checklist_add"}
  THEN {id \in ids : \A other \in ids : other <= id}
  ELSE {}

Removed(call, ids) ==
  IF call.tool \in Blind THEN kept[FileOf(call)]
  ELSE IF call.tool = "automation_delete" THEN {call.key} ELSE {}

Write(a) ==
  /\ At(a, "saving")
  /\ LET call == Top(a).call
         f    == FileOf(call)
         ids  == Ids(Top(a).view)
         new  == Added(call, ids)
         rest == Tail(frames[a])
         task == CHOOSE id \in new : TRUE
     IN  /\ file' = [file EXCEPT ![f] = Whole(Top(a).view)]
         /\ kept' = [kept EXCEPT ![f] = (@ \ Removed(call, ids)) \cup new]
         /\ clean' = [clean EXCEPT ![f] = @ /\ ~Top(a).stale]
         /\ frames' = Outdated(a, f,
              IF rest = << >> THEN << >>
              ELSE << [Head(rest) EXCEPT !.call.task = task] >> \o Tail(rest))
  /\ UNCHANGED << group, issued, calls, crashes >>

\* The process ends.  A file that was being written stays as it is: unreadable.
Crash ==
  /\ crashes < MaxCrashes
  /\ crashes' = crashes + 1
  /\ \E a \in Agent : Busy(a)
  /\ clean' = [f \in File |-> clean[f] /\ ~Saving(f)]
  /\ frames' = [a \in Agent |-> << >>]
  /\ UNCHANGED << group, file, issued, kept, calls >>

Init ==
  /\ group \in Groups
  /\ file = [f \in File |-> Unreadable]
  /\ frames = [a \in Agent |-> << >>]
  /\ issued = 0
  /\ kept = [f \in File |-> {}]
  /\ clean = [f \in File |-> TRUE]
  /\ calls = 0
  /\ crashes = 0

Next ==
  \/ \E a \in Agent :
       \/ Load(a) \/ RunAutomation(a) \/ Reject(a) \/ Truncate(a) \/ Write(a)
       \/ \E call \in Calls : Begin(a, call)
  \/ Crash

Spec == Init /\ [][Next]_vars

(***************************************************************************)
(* Properties                                                              *)
(***************************************************************************)

\* What a tool reported as added is found by the next one until a tool takes it away.
ListsKept ==
  \A f \in File : clean[f] /\ ~Saving(f) => Ids(Loaded(f)) = kept[f]

\* automation_run writes two files, and the process may end between the two.
RunHasTask ==
  clean["tasks"] /\ ~Saving("tasks") =>
    \A i \in DOMAIN Loaded("automations") :
      Loaded("automations")[i].marks \subseteq Ids(Loaded("tasks"))

\* Calls that do not overlap keep every record, whichever tools are called in between,
\* and a failed lookup, an unknown task or a missing file costs nothing; and a run
\* entered in automations.json never refers to a task that tasks.json does not hold.
KeptWithoutOverlap == ListsKept /\ RunHasTask

\* Why they hold.  Identifiers in a file or in a caller's hand have been drawn; a caller
\* that nobody overlapped has read the list a reader is entitled to find, and what it is
\* about to write is that list with its own change; and the runs of automations refer to
\* tasks that have been written.
Tool == Simple \cup Keyed \cup {"checklist_add", "checklist_write"}
CallSet ==
  [tool : Tool, key : Key, text : {0, 10}, list : {<< >>, << 0, 0 >>, << 10 >>}, task : Nat]
Status == {"pending", "active", "new", "done", "complete", "canceled", "paused", "closed"}
Record(f) ==
  [id : Nat, text : Nat, status : Status, marks : SUBSET IF f = "tasks" THEN {"gate"} ELSE Nat]

FrameOK(frame) ==
  /\ frame \in [call : CallSet, pc : {"called", "loaded", "saving"},
                view : Seq(Record(FileOf(frame.call))), stale : BOOLEAN]
  /\ frame.call.tool = "checklist_add" => frame.call.key \in {0, 1}

\* Only automation_run calls another tool.
StackOK(stack) ==
  \/ stack = << >>
  \/ stack = << stack[1] >> /\ FrameOK(stack[1])
  \/ /\ stack = << stack[1], stack[2] >>
     /\ FrameOK(stack[1]) /\ stack[1].call.tool = "task_create"
     /\ FrameOK(stack[2]) /\ stack[2].call.tool = "automation_run" /\ stack[2].pc = "loaded"

TypeOK ==
  /\ issued \in Nat
  /\ clean \in [File -> BOOLEAN]
  /\ kept \in [File -> SUBSET Nat]
  /\ DOMAIN file = File
  /\ \A f \in File : file[f] \in [ok : BOOLEAN, items : Seq(Record(f))]
  /\ DOMAIN frames = Agent
  /\ \A a \in Agent : StackOK(frames[a])

Drawn(items) == \A id \in Ids(items) : id < Fresh
Refers(items) == \A i \in DOMAIN items : items[i].marks \subseteq kept["tasks"]

FileInv(f) ==
  /\ Drawn(file[f].items)
  /\ f = "automations" => Refers(file[f].items)

FrameInv(frame) ==
  LET f == FileOf(frame.call)
      ids == Ids(frame.view)
  IN  /\ Drawn(frame.view)
      /\ f = "automations" =>
           Refers(frame.view) /\ (frame.call.task = 0 \/ frame.call.task \in kept["tasks"])
      /\ clean[f] /\ ~frame.stale /\ frame.pc = "loaded" /\ frame.call.tool \notin Blind =>
           ids = kept[f]
      /\ clean[f] /\ ~frame.stale /\ frame.pc = "saving" =>
           ids = (kept[f] \ Removed(frame.call, ids)) \cup Added(frame.call, ids)
      /\ frame.pc = "saving" /\ frame.call.tool = "task_create" => Added(frame.call, ids) # {}

IInv ==
  /\ TypeOK
  /\ \A f \in File : FileInv(f)
  /\ \A a \in Agent : \A i \in DOMAIN frames[a] : FrameInv(frames[a][i])
  /\ ListsKept
=============================================================================
