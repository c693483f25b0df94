------------------------------ MODULE SubAgents ------------------------------
(***************************************************************************)
(* The lifecycle of the tasks that src/lilbot/subagents/manager.py runs:   *)
(* one-shot subagents (SubAgentManager.open, one thread per task executing *)
(* _run) and the persisted tasks of long-running teammates                 *)
(* (build_teammate_task, driven by the spawning code in                    *)
(* tools/builtin.py:_spawn_teammate and by the teammate's own loop).       *)
(*                                                                         *)
(* All of them share one BoundedSemaphore, one JSON file of task records   *)
(* that is rewritten under the manager's lock, and the git repository in   *)
(* which isolated tasks get a branch and a worktree directory.  The        *)
(* program may stop at any step: memory is lost, the JSON file and the git *)
(* repository are not.                                                     *)
(***************************************************************************)
EXTENDS Integers, FiniteSets

CONSTANTS
  Task,           \* identifiers that open / build_teammate_task may hand out
  MaxConcurrent,  \* size of the semaphore (max_concurrent)
  MaxFollowUps,   \* bound of the model: follow-ups sent to one task
  MaxCrashes      \* bound of the model: restarts of the program

ASSUME SubAgentsAssumption ==
  /\ IsFiniteSet(Task)
  /\ MaxConcurrent \in Nat \ {0}
  /\ MaxFollowUps \in Nat
  /\ MaxCrashes \in Nat

VARIABLES
  task,           \* SubAgentManager.tasks: the records in memory
  disk,           \* .lilbot/subagent-tasks.json: the records as last written
  pc,             \* where the thread that executes a task is
  free,           \* the semaphore's counter
  used,           \* the prompt the task's last turn was given
  resumeStarted,  \* SubAgentManager._resume_started
  configured,     \* configure_tools has run in this process
  issued,         \* identifiers handed out so far (uuid4: never again)
  branch,         \* tasks whose git branch lilbot/<id> exists
  dir,            \* tasks whose directory .lilbot/worktrees/<id> exists
  members,        \* tasks listed as teammates in a team's config.json
  housed,         \* those of them listed with a worktree_path
  crashes         \* restarts so far

vars == << task, disk, pc, free, used, resumeStarted, configured, issued,
           branch, dir, members, housed, crashes >>

(***************************************************************************)
(* Task records                                                            *)
(***************************************************************************)

Terminal == {"completed", "failed", "cancelled"}
Status   == {"absent", "queued", "running"} \cup Terminal
Worktree == {"none", "requested", "active", "error", "cleaned", "cleanup_error"}

\* The persisted fields the lifecycle depends on.  A prompt is the number of
\* follow-ups appended to it, messages the number of follow-ups received.
Record == [ status: Status, isolated: BOOLEAN, cleanup: BOOLEAN,
            created: BOOLEAN, wt: Worktree, prompt: Nat, messages: Nat,
            recovered: BOOLEAN ]

Absent == [ status |-> "absent", isolated |-> FALSE, cleanup |-> FALSE,
            created |-> FALSE, wt |-> "none", prompt |-> 0, messages |-> 0,
            recovered |-> FALSE ]

NewRecord(status, isolated, cleanup) ==
  [ Absent EXCEPT !.status   = status,
                  !.isolated = isolated,
                  !.cleanup  = cleanup,
                  !.wt       = IF isolated THEN "requested" ELSE "none" ]

IsTerminal(t) == task[t].status \in Terminal

\* _persist_tasks_locked: the whole table is written, under the lock, by every
\* step that changes a record.
Store(t, record) ==
  /\ task' = [task EXCEPT ![t] = record]
  /\ disk' = task'

(***************************************************************************)
(* Threads                                                                 *)
(***************************************************************************)

NotAsked == -1

\* The thread of a one-shot task between semaphore.acquire and release.
Holding  == {"slot", "prepare", "added", "ask", "turn", "cleanup",
             "cleaned", "uncleaned"}
\* The lead's thread inside _spawn_teammate, before the teammate's loop starts.
Spawning == {"spawning", "spawn_added", "spawn_failed"}
\* The teammate's own thread: outside a turn, and inside one (holds a slot).
Looping  == {"tm_idle", "tm_turn"}
PC       == {"off", "waiting", "done", "tm_gone"}
              \cup Holding \cup Spawning \cup Looping

Holders == {t \in Task : pc[t] \in Holding \cup {"tm_turn"}}

\* The lead runs its tool calls that change state one at a time, and spends one
\* of them inside _spawn_teammate.
LeadFree == configured /\ \A t \in Task : pc[t] \notin Spawning

Goto(t, to) == pc' = [pc EXCEPT ![t] = to]

(***************************************************************************)
(* Operations of the lead                                                  *)
(***************************************************************************)

\* open: the record is stored before the task's thread starts.  (With
\* background=False the same _run happens on the lead's thread: fewer
\* interleavings of the same steps.)
Open(t, isolated, cleanup) ==
  /\ LeadFree
  /\ t \notin issued
  /\ cleanup => isolated
  /\ Store(t, NewRecord("queued", isolated, cleanup))
  /\ issued' = issued \cup {t}
  /\ Goto(t, "waiting")
  /\ UNCHANGED << free, used, resumeStarted, configured, branch, dir, members, housed,
                  crashes >>

\* build_teammate_task: persisted as running at once, with no thread and no
\* slot; isolation is set (in memory) by _spawn_teammate just after.
BuildTeammate(t, isolated) ==
  /\ LeadFree
  /\ t \notin issued
  /\ disk' = [task EXCEPT ![t] = [Absent EXCEPT !.status = "running", !.cleanup = TRUE]]
  /\ task' = [task EXCEPT ![t] = NewRecord("running", isolated, TRUE)]
  /\ issued' = issued \cup {t}
  /\ Goto(t, IF isolated THEN "spawning" ELSE "tm_idle")
  /\ members' = IF isolated THEN members ELSE members \cup {t}
  /\ UNCHANGED << free, used, resumeStarted, configured, branch, dir, housed,
                  crashes >>

\* Mutant: the prompt of a running task is extended too.
FollowUpWhileRunning(t) ==
  /\ LeadFree
  /\ task[t].status \in {"queued", "running"}
  /\ task[t].messages < MaxFollowUps
  /\ Store(t, [task[t] EXCEPT !.messages = @ + 1, !.prompt = @ + 1])
  /\ UNCHANGED << pc, free, used, resumeStarted, configured, issued, branch,
                  dir, members, housed, crashes >>

\* eval with a message: only a queued task's prompt is extended.  (A message to
\* a terminal task is stored too, and nothing ever reads it: left out.)
FollowUp(t) ==
  /\ LeadFree
  /\ task[t].status \in {"queued", "running"}
  /\ task[t].messages < MaxFollowUps
  /\ Store(t, [task[t] EXCEPT
                 !.messages = @ + 1,
                 !.prompt   = IF task[t].status = "queued" THEN @ + 1 ELSE @])
  /\ UNCHANGED << pc, free, used, resumeStarted, configured, issued, branch,
                  dir, members, housed, crashes >>

\* close: the record changes, the thread is not told.
Close(t) ==
  /\ LeadFree
  /\ task[t].status \in {"queued", "running"}
  /\ Store(t, [task[t] EXCEPT !.status = "cancelled"])
  /\ UNCHANGED << pc, free, used, resumeStarted, configured, issued, branch,
                  dir, members, housed, crashes >>

\* delete_team for one member: its loop is told to stop and git is asked to
\* remove its worktree; the task's record is left alone.
DeleteTeammate(t) ==
  /\ LeadFree
  /\ t \in members
  /\ members' = members \ {t}
  /\ housed' = housed \ {t}
  /\ dir' \in {dir} \cup {dir \ {h} : h \in housed \cap {t}}
  /\ UNCHANGED << task, disk, pc, free, used, resumeStarted, configured,
                  issued, branch, crashes >>

(***************************************************************************)
(* The worktree of an isolated task, prepared on the task's own thread     *)
(* (_run) or on the lead's (_spawn_teammate).                              *)
(***************************************************************************)

Preparing(t) == pc[t] = "spawning" \/ (pc[t] = "prepare" /\ task[t].isolated)

\* `git worktree add -b branch dir HEAD` refuses a branch or a directory that
\* exists.
AddWorktree(t) ==
  /\ Preparing(t)
  /\ t \notin branch \cup dir
  /\ branch' = branch \cup {t}
  /\ dir' = dir \cup {t}
  /\ Goto(t, IF pc[t] = "spawning" THEN "spawn_added" ELSE "added")
  /\ UNCHANGED << task, disk, free, used, resumeStarted, configured, issued,
                  members, housed, crashes >>

\* _prepare_worktree's lock section after git succeeded.
RecordWorktree(t) ==
  /\ pc[t] \in {"added", "spawn_added"}
  /\ Store(t, [task[t] EXCEPT !.created = TRUE, !.wt = "active"])
  /\ Goto(t, IF pc[t] = "added" THEN "ask" ELSE "tm_idle")
  /\ IF pc[t] = "added"
       THEN UNCHANGED << members, housed >>
       ELSE members' = members \cup {t} /\ housed' = housed \cup {t}
  /\ UNCHANGED << free, used, resumeStarted, configured, issued, branch, dir,
                  crashes >>

\* Mutant: an isolated task without a worktree runs in the shared workspace.
FailWorktreeQuietly(t) ==
  /\ Preparing(t)
  /\ Store(t, [task[t] EXCEPT !.wt = "error"])
  /\ Goto(t, IF pc[t] = "spawning" THEN "spawn_failed" ELSE "ask")
  /\ UNCHANGED << free, used, resumeStarted, configured, issued, branch, dir,
                  members, housed, crashes >>

\* _fail_worktree: no git, no repository, or git said no.  The status becomes
\* "failed" whatever it was.
FailWorktree(t) ==
  /\ Preparing(t)
  /\ Store(t, [task[t] EXCEPT !.status = "failed", !.wt = "error"])
  /\ Goto(t, IF pc[t] = "spawning" THEN "spawn_failed" ELSE "cleanup")
  /\ UNCHANGED << free, used, resumeStarted, configured, issued, branch, dir,
                  members, housed, crashes >>

\* _spawn_teammate degrades to the shared workspace: the status is put back in
\* memory and the member is registered.
Degrade(t) ==
  /\ pc[t] = "spawn_failed"
  /\ task' = [task EXCEPT ![t].status = "running"]
  /\ Goto(t, "tm_idle")
  /\ members' = members \cup {t}
  /\ UNCHANGED << disk, free, used, resumeStarted, configured, issued, branch,
                  dir, housed, crashes >>

(***************************************************************************)
(* The thread of a one-shot task: _run                                     *)
(***************************************************************************)

\* Mutant: the semaphore is tried, and its answer ignored.
AcquireWithoutWaiting(t) ==
  /\ pc[t] = "waiting"
  /\ free' = IF free > 0 THEN free - 1 ELSE free
  /\ Goto(t, "slot")
  /\ UNCHANGED << task, disk, used, resumeStarted, configured, issued, branch,
                  dir, members, housed, crashes >>

Acquire(t) ==
  /\ pc[t] = "waiting"
  /\ free > 0
  /\ free' = free - 1
  /\ Goto(t, "slot")
  /\ UNCHANGED << task, disk, used, resumeStarted, configured, issued, branch,
                  dir, members, housed, crashes >>

\* Mutant: the early return forgets the slot.
GiveUpKeepingSlot(t) ==
  /\ pc[t] = "slot"
  /\ task[t].status = "cancelled"
  /\ Store(t, task[t])
  /\ Goto(t, "done")
  /\ UNCHANGED << free, used, resumeStarted, configured, issued, branch, dir,
                  members, housed, crashes >>

\* The first lock section: a task cancelled while it waited gives its slot back.
GiveUp(t) ==
  /\ pc[t] = "slot"
  /\ task[t].status = "cancelled"
  /\ Store(t, task[t])
  /\ free' = free + 1
  /\ Goto(t, "done")
  /\ UNCHANGED << used, resumeStarted, configured, issued, branch, dir,
                  members, housed, crashes >>

Begin(t) ==
  /\ pc[t] = "slot"
  /\ task[t].status # "cancelled"
  /\ Store(t, [task[t] EXCEPT !.status = "running"])
  /\ Goto(t, "prepare")
  /\ UNCHANGED << free, used, resumeStarted, configured, issued, branch, dir,
                  members, housed, crashes >>

SkipWorktree(t) ==
  /\ pc[t] = "prepare"
  /\ ~task[t].isolated
  /\ Goto(t, "ask")
  /\ UNCHANGED << task, disk, free, used, resumeStarted, configured, issued,
                  branch, dir, members, housed, crashes >>

\* task.prompt is read when run_agent_turn is called.
Ask(t) ==
  /\ pc[t] = "ask"
  /\ used' = [used EXCEPT ![t] = task[t].prompt]
  /\ Goto(t, "turn")
  /\ UNCHANGED << task, disk, free, resumeStarted, configured, issued, branch,
                  dir, members, housed, crashes >>

\* Mutant: the second lock section does not look for a cancellation.
EndTurnUnchecked(t, outcome) ==
  /\ pc[t] = "turn"
  /\ Store(t, [task[t] EXCEPT !.status = outcome])
  /\ Goto(t, "cleanup")
  /\ UNCHANGED << free, used, resumeStarted, configured, issued, branch, dir,
                  members, housed, crashes >>

\* run_agent_turn returned ("completed") or raised ("failed"): the second lock
\* section leaves a cancelled task alone.
EndTurn(t, outcome) ==
  /\ pc[t] = "turn"
  /\ IF task[t].status = "cancelled"
       THEN UNCHANGED << task, disk >>
       ELSE Store(t, [task[t] EXCEPT !.status = outcome])
  /\ Goto(t, "cleanup")
  /\ UNCHANGED << free, used, resumeStarted, configured, issued, branch, dir,
                  members, housed, crashes >>

Cleans(t) == task[t].isolated /\ task[t].cleanup /\ task[t].created

\* Mutant: a failing git command raises out of the finally block.
RemoveWorktreeOrDie(t) ==
  /\ pc[t] = "cleanup"
  /\ Cleans(t)
  /\ t \in dir
  /\ dir' = dir \ {t}
  /\ Goto(t, "cleaned")
  /\ UNCHANGED << task, disk, free, used, resumeStarted, configured, issued,
                  branch, members, housed, crashes >>

\* `git worktree remove --force`, which may fail.
RemoveWorktree(t) ==
  /\ pc[t] = "cleanup"
  /\ Cleans(t)
  /\ \/ /\ t \in dir
        /\ dir' = dir \ {t}
        /\ Goto(t, "cleaned")
     \/ /\ dir' = dir
        /\ Goto(t, "uncleaned")
  /\ UNCHANGED << task, disk, free, used, resumeStarted, configured, issued,
                  branch, members, housed, crashes >>

\* Mutant: a cancelled task skips its cleanup.
FinishCancelledEarly(t) ==
  /\ \/ pc[t] = "cleanup" /\ (~Cleans(t) \/ task[t].status = "cancelled")
     \/ pc[t] \in {"cleaned", "uncleaned"}
  /\ Store(t, [task[t] EXCEPT !.wt = CASE pc[t] = "cleaned"   -> "cleaned"
                                       [] pc[t] = "uncleaned" -> "cleanup_error"
                                       [] OTHER -> @])
  /\ free' = free + 1
  /\ Goto(t, "done")
  /\ UNCHANGED << used, resumeStarted, configured, issued, branch, dir,
                  members, housed, crashes >>

\* The rest of the finally block: record the cleanup, store, release the slot.
Finish(t) ==
  /\ \/ pc[t] = "cleanup" /\ ~Cleans(t)
     \/ pc[t] \in {"cleaned", "uncleaned"}
  /\ Store(t, [task[t] EXCEPT !.wt = CASE pc[t] = "cleaned"   -> "cleaned"
                                       [] pc[t] = "uncleaned" -> "cleanup_error"
                                       [] OTHER -> @])
  /\ free' = free + 1
  /\ Goto(t, "done")
  /\ UNCHANGED << used, resumeStarted, configured, issued, branch, dir,
                  members, housed, crashes >>

(***************************************************************************)
(* The teammate's loop, as far as slots and files are concerned            *)
(***************************************************************************)

TeammateTurn(t) ==
  /\ pc[t] = "tm_idle"
  /\ free > 0
  /\ free' = free - 1
  /\ Goto(t, "tm_turn")
  /\ UNCHANGED << task, disk, used, resumeStarted, configured, issued, branch,
                  dir, members, housed, crashes >>

TeammateTurnEnds(t) ==
  /\ pc[t] = "tm_turn"
  /\ free' = free + 1
  /\ Goto(t, "tm_idle")
  /\ UNCHANGED << task, disk, used, resumeStarted, configured, issued, branch,
                  dir, members, housed, crashes >>

\* A shutdown request, a cancelled handle or an exception ends the loop.  The
\* record keeps the status it had.
TeammateStops(t) ==
  /\ pc[t] = "tm_idle"
  /\ Goto(t, "tm_gone")
  /\ UNCHANGED << task, disk, free, used, resumeStarted, configured, issued,
                  branch, dir, members, housed, crashes >>

(***************************************************************************)
(* Restart: _load_persisted_tasks, then configure_tools                    *)
(***************************************************************************)

\* Mutant: a restart queues terminal tasks again.
RecoveredAlways(record) ==
  IF record.status # "absent"
    THEN [record EXCEPT !.status = "queued", !.recovered = TRUE]
    ELSE record

Recovered(record) ==
  IF record.status \in {"queued", "running"}
    THEN [record EXCEPT !.status = "queued", !.recovered = TRUE]
    ELSE record

\* Every thread is a daemon thread and dies with the process.  write_text is not
\* atomic: a process that stops while it writes the file leaves one that does
\* not parse, and the new process starts with no task at all.
Crash(torn) ==
  /\ crashes < MaxCrashes
  /\ torn => \E t \in Task : task[t].status # "absent"
  /\ crashes' = crashes + 1
  /\ task' = [t \in Task |-> IF torn THEN Absent ELSE Recovered(disk[t])]
  /\ disk' = task'
  /\ pc' = [t \in Task |-> "off"]
  /\ free' = MaxConcurrent
  /\ used' = [t \in Task |-> NotAsked]
  /\ resumeStarted' = {}
  /\ configured' = FALSE
  /\ UNCHANGED << issued, branch, dir, members, housed >>

\* Mutant: configure_tools does not remember which tasks it resumed.
ResumableAgain == {t \in Task : task[t].recovered /\ task[t].status = "queued"}

Resumable == {t \in Task : /\ task[t].recovered
                           /\ task[t].status = "queued"
                           /\ t \notin resumeStarted}

\* configure_tools: a thread for every recovered task that has none yet.
Configure ==
  /\ configured' = TRUE
  /\ resumeStarted' = resumeStarted \cup Resumable
  /\ pc' = [t \in Task |-> IF t \in Resumable THEN "waiting" ELSE pc[t]]
  /\ UNCHANGED << task, disk, free, used, issued, branch, dir, members, housed, crashes >>

(***************************************************************************)
(* The specification                                                       *)
(***************************************************************************)

Init ==
  /\ task = [t \in Task |-> Absent]
  /\ disk = task
  /\ pc = [t \in Task |-> "off"]
  /\ free = MaxConcurrent
  /\ used = [t \in Task |-> NotAsked]
  /\ resumeStarted = {}
  /\ configured = FALSE
  /\ issued = {}
  /\ branch = {}
  /\ dir = {}
  /\ members = {}
  /\ housed = {}
  /\ crashes = 0

Lead(t) ==
  \/ \E isolated, cleanup \in BOOLEAN : Open(t, isolated, cleanup)
  \/ \E isolated \in BOOLEAN : BuildTeammate(t, isolated)
  \/ FollowUp(t)
  \/ Close(t)
  \/ DeleteTeammate(t)

Prepare(t) ==
  \/ AddWorktree(t)
  \/ RecordWorktree(t)
  \/ FailWorktree(t)
  \/ Degrade(t)

Run(t) ==
  \/ GiveUp(t)
  \/ Begin(t)
  \/ SkipWorktree(t)
  \/ Ask(t)
  \/ EndTurn(t, "completed")
  \/ EndTurn(t, "failed")
  \/ RemoveWorktree(t)
  \/ Finish(t)

Teammate(t) ==
  \/ TeammateTurn(t)
  \/ TeammateTurnEnds(t)
  \/ TeammateStops(t)

Next ==
  \/ \E t \in Task : Lead(t) \/ Prepare(t) \/ Acquire(t) \/ Run(t) \/ Teammate(t)
  \/ \E torn \in BOOLEAN : Crash(torn)
  \/ Configure

Spec == Init /\ [][Next]_vars
\* Scheduling the code justifies: a thread that can run does, run_agent_turn is
\* bounded by its step budget and the timeouts of provider and tools, and the
\* program configures its runtime at every start.  A waiting thread gets the
\* semaphore even if others take it in between: waiters are woken in order, and
\* a teammate sleeps between two turns.  The lead is not obliged to do anything.
Fairness ==
  /\ WF_vars(Configure)
  /\ \A t \in Task : /\ WF_vars(Prepare(t))
                     /\ SF_vars(Acquire(t))
                     /\ WF_vars(Run(t))
                     /\ WF_vars(TeammateTurnEnds(t))

FairSpec == Spec /\ Fairness

(***************************************************************************)
(* Properties                                                              *)
(***************************************************************************)

\* Every variable has its type.
TypeOK ==
  /\ task \in [Task -> Record]
  /\ disk \in [Task -> Record]
  /\ pc \in [Task -> PC]
  /\ free \in 0..MaxConcurrent
  /\ used \in [Task -> Nat \cup {NotAsked}]
  /\ resumeStarted \subseteq Task
  /\ configured \in BOOLEAN
  /\ issued \subseteq Task
  /\ branch \subseteq Task
  /\ dir \subseteq Task
  /\ members \subseteq Task
  /\ housed \subseteq members
  /\ crashes \in Nat

\* No path through _run, and no teammate turn, leaks a slot of the semaphore or
\* releases one twice: the counter and the threads inside always add up.
SlotAccounting == free + Cardinality(Holders) = MaxConcurrent

OneShotRunning ==
  {t \in Task : /\ task[t].status = "running"
                /\ pc[t] \notin Spawning \cup Looping \cup {"tm_gone"}}

\* However threads, cancellations and restarts interleave, no more one-shot
\* tasks are reported running than max_concurrent allows.
BoundedConcurrency == Cardinality(OneShotRunning) <= MaxConcurrent

\* The strengthening under which these are inductive.  What a task's status can
\* be while its thread is at a given place:
PhaseInv ==
  \A t \in Task :
    /\ pc[t] = "off" => task[t].status # "running"
    /\ pc[t] \in {"waiting", "slot"} => task[t].status \in {"queued", "cancelled"}
    /\ pc[t] \in {"prepare", "added", "ask", "turn"} =>
         task[t].status \in {"running", "cancelled"}
    /\ pc[t] \in {"cleanup", "cleaned", "uncleaned", "done"} => IsTerminal(t)
    /\ pc[t] \in Spawning \cup Looping \cup {"tm_gone"} =>
         task[t].status \in {"running"} \cup Terminal

\* An identifier that was not handed out has no record and no thread:
IssuedInv ==
  \A t \in Task \ issued :
    pc[t] = "off" /\ task[t] = Absent /\ disk[t] = Absent

\* A recovered task has no thread until configure_tools starts it:
ResumeInv ==
  \A t \in Task \ resumeStarted : task[t].recovered => pc[t] = "off"

\* Memory and file agree on the status, except for a teammate whose record is
\* put right in memory only:
DiskInv ==
  \A t \in Task :
    \/ disk[t].status = task[t].status
    \/ /\ pc[t] \in Spawning \cup Looping \cup {"tm_gone"}
       /\ task[t].status = "running"
       /\ disk[t].status # "absent"

IInv ==
  TypeOK /\ SlotAccounting /\ PhaseInv /\ IssuedInv /\ ResumeInv /\ DiskInv

\* A prompt that was handed to a turn is the whole prompt: a follow-up accepted
\* while the task was queued is never missed by the turn, even when it races
\* with the thread that starts, or when the program restarted in between.
FollowUpInPrompt ==
  \A t \in Task : used[t] # NotAsked => used[t] = task[t].prompt

\* A task that asked for isolation never runs its turn in the shared workspace:
\* when its thread asks the model, its worktree exists.
IsolatedTurnHasWorktree ==
  \A t \in Task : pc[t] \in {"ask", "turn"} /\ task[t].isolated => t \in dir

\* What the finally block of _run leaves of a task's worktree: nothing, unless git
\* refused to remove it, or the task was recovered with it and gave up at once.
NotLeaked(t) ==
  pc[t] = "done" /\ Cleans(t) /\ t \in dir =>
    \/ task[t].wt = "cleanup_error"
    \/ task[t].recovered /\ task[t].status = "cancelled"

\* A finished thread leaves no managed worktree behind unless git refused to
\* remove it, on the success, failure and cancellation paths alike.  The one way
\* to leak it: a task recovered with a worktree from its earlier life and
\* cancelled before it got a slot returns before the finally block.
WorktreeNotLeaked == \A t \in Task : NotLeaked(t)

\* The strengthening of these three, for one task.  A prompt has been handed out
\* only where the turn was reached, and there FollowUp no longer extends it:
Prompted(t) ==
  used[t] # NotAsked =>
    /\ pc[t] \in {"turn", "cleanup", "cleaned", "uncleaned", "done"}
    /\ used[t] = task[t].prompt

\* A branch is never removed, so a recovered teammate cannot get a worktree again;
\* that is why delete_team never takes the one an isolated turn works in:
AtHome(t) ==
  /\ t \in housed \/ pc[t] \in {"added", "spawn_added"} => t \in branch
  /\ pc[t] \in {"added", "ask", "turn"} /\ task[t].isolated =>
       t \in dir /\ t \notin housed

\* A thread that has not begun finds a worktree only from the task's earlier life:
TidiedUp(t) ==
  /\ pc[t] \in {"waiting", "slot"} /\ task[t].created => task[t].recovered
  /\ pc[t] = "cleaned" => t \notin dir
  /\ NotLeaked(t)

FilesInv == \A t \in Task : Prompted(t) /\ AtHome(t) /\ TidiedUp(t)

\* A terminal one-shot task stays terminal across every race and restart, and the
\* only terminal status that is ever overwritten is a cancellation that met a
\* failing worktree.  (A torn file forgets the task.)
TerminalIsStable ==
  [][\A t \in Task :
       IsTerminal(t) /\ pc[t] \notin Spawning =>
         \/ task'[t].status \in {task[t].status, "absent"}
         \/ /\ task[t].status = "cancelled"
            /\ task'[t].status = "failed"
            /\ pc[t] = "prepare"
    ]_vars

\* Within one process a task is executed by one _run thread at most: resuming
\* recovered tasks never starts a thread for a task that has, or had, one.
ThreadStartsOnce ==
  [][\A t \in Task :
       pc'[t] = "waiting" /\ pc[t] # "waiting" => pc[t] = "off"]_vars

Stage(t) ==
  IF task[t].status = "absent" THEN "absent"
  ELSE IF pc[t] \in Spawning THEN "resident"
  ELSE IF IsTerminal(t) THEN "settled"
  ELSE IF task[t].status = "queued" THEN "pending"
  ELSE IF t \in OneShotRunning THEN "active"
  ELSE "resident"

\* The runtime implements the abstract pool of jobs.
Pool == INSTANCE JobPool WITH Job <- Task, Max <- MaxConcurrent,
                              stage <- [t \in Task |-> Stage(t)]
ImplementsPool == Pool!Spec

\* Every task that is queued settles (a torn file may forget it): no task waits
\* for a slot for ever, however many are cancelled or fail before it.
QueuedSettles ==
  \A t \in Task :
    task[t].status = "queued" ~> task[t].status \in Terminal \cup {"absent"}

\* Every slot that is taken is given back.
SlotReturns ==
  \A t \in Task : t \in Holders ~> t \notin Holders

\* A follow-up sent to a task that is queued or running is part of what the task
\* was asked by the time it completes.  (Not so: eval only stores a message for a
\* running task.)
FollowUpDelivered ==
  \A t \in Task :
    pc[t] = "done" /\ task[t].status = "completed"
      => used[t] = task[t].messages
=============================================================================
