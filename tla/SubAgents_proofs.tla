--------------------------- MODULE SubAgents_proofs ---------------------------
(***************************************************************************)
(* Proofs about the lifecycle of subagent tasks, for every set of tasks and *)
(* every size of the semaphore.  The inductive invariant IInv is defined in *)
(* SubAgents.                                                              *)
(***************************************************************************)
EXTENDS SubAgents, FiniteSetTheorems, TLAPS

(***************************************************************************)
(* Lemmas about the operators                                              *)
(***************************************************************************)

\* Storing a record keeps both tables tables of records.
LEMMA StoreType ==
  ASSUME task \in [Task -> Record], NEW t \in Task, NEW r \in Record, Store(t, r)
  PROVE  /\ task' \in [Task -> Record]
         /\ disk' \in [Task -> Record]
         /\ task'[t] = r
         /\ \A u \in Task \ {t} : task'[u] = task[u]
         /\ disk' = task'
BY DEF Store

\* Moving one thread leaves the others where they are.
LEMMA GotoType ==
  ASSUME pc \in [Task -> PC], NEW t \in Task, NEW to \in PC, Goto(t, to)
  PROVE  /\ pc' \in [Task -> PC]
         /\ pc'[t] = to
         /\ \A u \in Task \ {t} : pc'[u] = pc[u]
BY DEF Goto

\* The records that the manager creates are records.
LEMMA NewRecordType ==
  ASSUME NEW status \in Status, NEW isolated \in BOOLEAN, NEW cleanup \in BOOLEAN
  PROVE  /\ NewRecord(status, isolated, cleanup) \in Record
         /\ NewRecord(status, isolated, cleanup).status = status
         /\ NewRecord(status, isolated, cleanup).recovered = FALSE
         /\ Absent \in Record
         /\ Absent.status = "absent"
         /\ Absent.recovered = FALSE
BY DEF NewRecord, Absent, Record, Status, Worktree

\* A restart turns records into records, and none of them is running.
LEMMA RecoveredType ==
  ASSUME NEW r \in Record
  PROVE  /\ Recovered(r) \in Record
         /\ Recovered(r).status # "running"
         /\ r.status \in {"queued", "running"} => Recovered(r).status = "queued"
         /\ r.status \notin {"queued", "running"} => Recovered(r) = r
BY DEF Recovered, Record, Status, Terminal

\* The set of threads that hold a slot is finite, and so is every part of it.
LEMMA HoldersFinite ==
  /\ IsFiniteSet(Holders)
  /\ Cardinality(Holders) \in Nat
BY SubAgentsAssumption, FS_Subset, FS_CardinalityType DEF Holders

\* A thread that holds a slot is one of those counted.
LEMMA HolderCounts ==
  ASSUME NEW t \in Task, t \in Holders
  PROVE  Cardinality(Holders) >= 1
BY HoldersFinite, FS_EmptySet

\* When no thread enters or leaves, the count is the same.
LEMMA HoldersSame ==
  ASSUME \A u \in Task : u \in Holders' <=> u \in Holders
  PROVE  Cardinality(Holders') = Cardinality(Holders)
<1>1. Holders' = Holders
  BY DEF Holders
<1> QED BY <1>1

\* When one thread enters, the count goes up by one.
LEMMA HoldersEnter ==
  ASSUME NEW t \in Task, t \notin Holders, t \in Holders',
         \A u \in Task \ {t} : u \in Holders' <=> u \in Holders
  PROVE  Cardinality(Holders') = Cardinality(Holders) + 1
<1>1. Holders' = Holders \cup {t}
  BY DEF Holders
<1> QED BY <1>1, HoldersFinite, FS_AddElement

\* When one thread leaves, the count goes down by one.
LEMMA HoldersLeave ==
  ASSUME NEW t \in Task, t \in Holders, t \notin Holders',
         \A u \in Task \ {t} : u \in Holders' <=> u \in Holders
  PROVE  Cardinality(Holders') = Cardinality(Holders) - 1
<1>1. Holders' = Holders \ {t}
  BY DEF Holders
<1> QED BY <1>1, HoldersFinite, FS_RemoveElement

\* A record with some of its fields replaced is a record.
LEMMA ChangeType ==
  ASSUME NEW rec \in Record
  PROVE  /\ LET new == [rec EXCEPT !.status = "failed", !.wt = "error"]
            IN  new \in Record /\ new.status = "failed" /\ new.recovered = rec.recovered
         /\ \A x \in Status :
              LET new == [rec EXCEPT !.status = x]
              IN  new \in Record /\ new.status = x /\ new.recovered = rec.recovered
         /\ \A w \in Worktree :
              LET new == [rec EXCEPT !.wt = w]
              IN  new \in Record /\ new.status = rec.status /\ new.recovered = rec.recovered
         /\ LET new == [rec EXCEPT !.created = TRUE, !.wt = "active"]
            IN  new \in Record /\ new.status = rec.status /\ new.recovered = rec.recovered
         /\ rec.messages \in Nat /\ rec.prompt \in Nat
         /\ rec.status \in Status /\ rec.wt \in Worktree
BY DEF Record, Worktree, Status, Terminal

\* So is a record that received a message.
LEMMA MessageType ==
  ASSUME NEW rec \in Record
  PROVE  LET new == [rec EXCEPT
                       !.messages = @ + 1,
                       !.prompt   = IF rec.status = "queued" THEN @ + 1 ELSE @]
         IN  new \in Record /\ new.status = rec.status /\ new.recovered = rec.recovered
<1> DEFINE m == rec.messages + 1
           p == IF rec.status = "queued" THEN rec.prompt + 1 ELSE rec.prompt
           new == [rec EXCEPT !.messages = m, !.prompt = p]
<1>1. m \in Nat /\ p \in Nat
  BY DEF Record
<1>2. new \in Record /\ new.status = rec.status /\ new.recovered = rec.recovered
  <2> HIDE DEF m, p
  <2> QED BY <1>1 DEF Record
<1> QED BY <1>2

\* A task with a record or a thread has an identifier that was handed out.
LEMMA Issued ==
  ASSUME IssuedInv, NEW t \in Task, task[t].status # "absent" \/ pc[t] # "off"
  PROVE  t \in issued
BY DEF IssuedInv, Absent

(***************************************************************************)
(* Every action that moves one thread keeps the inductive invariant: its    *)
(* type, the accounting of slots, and what is known of threads and records. *)
(***************************************************************************)

ThreadInv == PhaseInv /\ IssuedInv /\ ResumeInv /\ DiskInv

\* Opening a one-shot task keeps IInv.
LEMMA OpenStep ==
  ASSUME IInv, NEW t \in Task, NEW isolated \in BOOLEAN, NEW cleanup \in BOOLEAN, Open(t, isolated, cleanup)
  PROVE  IInv'
<1> USE SubAgentsAssumption DEF IInv, Open
<1> DEFINE r == NewRecord("queued", isolated, cleanup)
<1>1. r \in Record /\ r.status = "queued" /\ r.recovered = FALSE
  BY NewRecordType DEF Status
<1>2. /\ task' \in [Task -> Record]
      /\ disk' = task'
      /\ task'[t] = r
      /\ \A u \in Task \ {t} : task'[u] = task[u]
  BY <1>1, StoreType DEF TypeOK
<1> HIDE DEF r
<1>3. /\ pc' \in [Task -> PC]
      /\ \A u \in Task \ {t} : pc'[u] = pc[u]
  BY DEF TypeOK, Goto, PC, Holding, Spawning, Looping
<1>4. Cardinality(Holders') = Cardinality(Holders) /\ free' = free
  <2>1. \A u \in Task : u \in Holders' <=> u \in Holders
    BY <1>3 DEF TypeOK, IssuedInv, Holders, Preparing, Holding, Spawning, Looping, Goto
  <2> QED BY <2>1, HoldersSame
<1>5. SlotAccounting'
  BY <1>4 DEF SlotAccounting
<1>6. TypeOK'
  BY <1>2, <1>3, <1>4 DEF TypeOK
<1>7. ThreadInv'
  <2>1. issued' = issued \cup {t}
    BY Issued DEF Preparing, Spawning
  <2>2. PhaseInv'
    BY <1>1, <1>2, <1>3, <2>1 DEF PhaseInv, TypeOK, IsTerminal, Terminal, Preparing, Holding, Spawning, Looping, Goto
  <2>3. IssuedInv'
    BY <1>1, <1>2, <1>3, <2>1 DEF IssuedInv, TypeOK, IsTerminal, Terminal, Preparing, Holding, Spawning, Looping, Goto
  <2>4. ResumeInv'
    BY <1>1, <1>2, <1>3, <2>1 DEF ResumeInv, TypeOK, IsTerminal, Terminal, Preparing, Holding, Spawning, Looping, Goto
  <2>5. DiskInv'
    BY <1>1, <1>2, <1>3, <2>1 DEF DiskInv, TypeOK, IsTerminal, Terminal, Preparing, Holding, Spawning, Looping, Goto
  <2> QED BY <2>2, <2>3, <2>4, <2>5 DEF ThreadInv
<1> QED BY <1>5, <1>6, <1>7 DEF ThreadInv

\* Building a teammate keeps IInv.
LEMMA BuildTeammateStep ==
  ASSUME IInv, NEW t \in Task, NEW isolated \in BOOLEAN, BuildTeammate(t, isolated)
  PROVE  IInv'
<1> USE SubAgentsAssumption DEF IInv
<1> DEFINE r == NewRecord("running", isolated, TRUE)
           d == [Absent EXCEPT !.status = "running", !.cleanup = TRUE]
<1>1. /\ r \in Record /\ r.status = "running" /\ r.recovered = FALSE
      /\ d \in Record /\ d.status = "running"
  <2>1. r \in Record /\ r.status = "running" /\ r.recovered = FALSE
    BY NewRecordType DEF Status
  <2>2. d \in Record /\ d.status = "running"
    BY DEF Absent, Record, Status, Worktree
  <2> QED BY <2>1, <2>2
<1>2. /\ task' \in [Task -> Record] /\ disk' \in [Task -> Record]
      /\ task'[t].status = "running" /\ task'[t].recovered = FALSE
      /\ disk'[t].status = "running"
      /\ \A u \in Task \ {t} : task'[u] = task[u] /\ disk'[u] = task[u]
  <2>1. task' = [task EXCEPT ![t] = r] /\ disk' = [task EXCEPT ![t] = d]
    BY DEF BuildTeammate
  <2> HIDE DEF r, d
  <2> QED BY <1>1, <2>1 DEF TypeOK
<1>3. /\ pc' \in [Task -> PC]
      /\ pc[t] = "off" /\ pc'[t] \in {"spawning", "tm_idle"}
      /\ \A u \in Task \ {t} : pc'[u] = pc[u]
  BY DEF BuildTeammate, TypeOK, Goto, PC, Spawning, Looping, IssuedInv
<1>4. Cardinality(Holders') = Cardinality(Holders)
  <2>1. \A u \in Task : u \in Holders' <=> u \in Holders
    BY <1>3 DEF Holders, Holding
  <2> QED BY <2>1, HoldersSame
<1>5. SlotAccounting'
  BY <1>4 DEF BuildTeammate, SlotAccounting
<1>6. TypeOK'
  BY <1>2, <1>3 DEF BuildTeammate, TypeOK
<1>7. ThreadInv'
  <2>5. issued' = issued \cup {t} /\ resumeStarted' = resumeStarted
    BY DEF BuildTeammate
  <2>1. PhaseInv'
    BY <1>2, <1>3 DEF PhaseInv, IsTerminal, Terminal, Spawning, Looping
  <2>2. IssuedInv'
    BY <1>2, <1>3, <2>5 DEF IssuedInv
  <2>3. ResumeInv'
    BY <1>2, <1>3, <2>5 DEF ResumeInv
  <2>4. DiskInv'
    BY <1>2, <1>3 DEF DiskInv, Spawning, Looping
  <2> QED BY <2>1, <2>2, <2>3, <2>4 DEF ThreadInv
<1> QED BY <1>5, <1>6, <1>7 DEF ThreadInv

\* Sending a follow-up keeps IInv.
LEMMA FollowUpStep ==
  ASSUME IInv, NEW t \in Task, FollowUp(t)
  PROVE  IInv'
<1> USE SubAgentsAssumption DEF IInv, FollowUp
<1> DEFINE r == [task[t] EXCEPT
          !.messages = @ + 1,
          !.prompt   = IF task[t].status = "queued" THEN @ + 1 ELSE @]
<1>1. r \in Record /\ r.status = task[t].status /\ r.recovered = task[t].recovered
  <2>1. task[t] \in Record
    BY DEF TypeOK
  <2> QED BY <2>1, MessageType
<1>2. /\ task' \in [Task -> Record]
      /\ disk' = task'
      /\ task'[t] = r
      /\ \A u \in Task \ {t} : task'[u] = task[u]
  BY <1>1, StoreType DEF TypeOK
<1> HIDE DEF r
<1>3. pc' = pc
  OBVIOUS
<1>4. Cardinality(Holders') = Cardinality(Holders) /\ free' = free
  <2>1. \A u \in Task : u \in Holders' <=> u \in Holders
    BY <1>3 DEF TypeOK, IssuedInv, Holders, Preparing, Holding, Spawning, Looping
  <2> QED BY <2>1, HoldersSame
<1>5. SlotAccounting'
  BY <1>4 DEF SlotAccounting
<1>6. TypeOK'
  BY <1>2, <1>3, <1>4 DEF TypeOK
<1>7. ThreadInv'
  <2>1. t \in issued /\ issued' = issued
    BY Issued DEF Preparing, Spawning
  <2>2. PhaseInv'
    BY <1>1, <1>2, <1>3, <2>1 DEF PhaseInv, TypeOK, IsTerminal, Terminal, Preparing, Holding, Spawning, Looping
  <2>3. IssuedInv'
    BY <1>1, <1>2, <1>3, <2>1 DEF IssuedInv, TypeOK, IsTerminal, Terminal, Preparing, Holding, Spawning, Looping
  <2>4. ResumeInv'
    BY <1>1, <1>2, <1>3, <2>1 DEF ResumeInv, TypeOK, IsTerminal, Terminal, Preparing, Holding, Spawning, Looping
  <2>5. DiskInv'
    BY <1>1, <1>2, <1>3, <2>1 DEF DiskInv, TypeOK, IsTerminal, Terminal, Preparing, Holding, Spawning, Looping
  <2> QED BY <2>2, <2>3, <2>4, <2>5 DEF ThreadInv
<1> QED BY <1>5, <1>6, <1>7 DEF ThreadInv

\* Cancelling a task keeps IInv.
LEMMA CloseStep ==
  ASSUME IInv, NEW t \in Task, Close(t)
  PROVE  IInv'
<1> USE SubAgentsAssumption DEF IInv, Close
<1> DEFINE r == [task[t] EXCEPT !.status = "cancelled"]
<1>1. r \in Record /\ r.status = "cancelled" /\ r.recovered = task[t].recovered
  <2>1. task[t] \in Record
    BY DEF TypeOK
  <2>2. /\ "cancelled" \in Status
    BY <2>1, ChangeType DEF Status, Worktree, Terminal
  <2> QED BY <2>1, <2>2, ChangeType
<1>2. /\ task' \in [Task -> Record]
      /\ disk' = task'
      /\ task'[t] = r
      /\ \A u \in Task \ {t} : task'[u] = task[u]
  BY <1>1, StoreType DEF TypeOK
<1> HIDE DEF r
<1>3. pc' = pc
  OBVIOUS
<1>4. Cardinality(Holders') = Cardinality(Holders) /\ free' = free
  <2>1. \A u \in Task : u \in Holders' <=> u \in Holders
    BY <1>3 DEF TypeOK, IssuedInv, Holders, Preparing, Holding, Spawning, Looping
  <2> QED BY <2>1, HoldersSame
<1>5. SlotAccounting'
  BY <1>4 DEF SlotAccounting
<1>6. TypeOK'
  BY <1>2, <1>3, <1>4 DEF TypeOK
<1>7. ThreadInv'
  <2>1. t \in issued /\ issued' = issued
    BY Issued DEF Preparing, Spawning
  <2>2. PhaseInv'
    BY <1>1, <1>2, <1>3, <2>1 DEF PhaseInv, TypeOK, IsTerminal, Terminal, Preparing, Holding, Spawning, Looping
  <2>3. IssuedInv'
    BY <1>1, <1>2, <1>3, <2>1 DEF IssuedInv, TypeOK, IsTerminal, Terminal, Preparing, Holding, Spawning, Looping
  <2>4. ResumeInv'
    BY <1>1, <1>2, <1>3, <2>1 DEF ResumeInv, TypeOK, IsTerminal, Terminal, Preparing, Holding, Spawning, Looping
  <2>5. DiskInv'
    BY <1>1, <1>2, <1>3, <2>1 DEF DiskInv, TypeOK, IsTerminal, Terminal, Preparing, Holding, Spawning, Looping
  <2> QED BY <2>2, <2>3, <2>4, <2>5 DEF ThreadInv
<1> QED BY <1>5, <1>6, <1>7 DEF ThreadInv

\* Deleting a teammate keeps IInv.
LEMMA DeleteTeammateStep ==
  ASSUME IInv, NEW t \in Task, DeleteTeammate(t)
  PROVE  IInv'
<1> USE SubAgentsAssumption DEF IInv, DeleteTeammate
<1>2. task' = task /\ disk' = disk
  OBVIOUS
<1>3. pc' = pc
  OBVIOUS
<1>4. Cardinality(Holders') = Cardinality(Holders) /\ free' = free
  <2>1. \A u \in Task : u \in Holders' <=> u \in Holders
    BY <1>3 DEF TypeOK, IssuedInv, Holders, Preparing, Holding, Spawning, Looping
  <2> QED BY <2>1, HoldersSame
<1>5. SlotAccounting'
  BY <1>4 DEF SlotAccounting
<1>6. TypeOK'
  BY <1>2, <1>3, <1>4 DEF TypeOK
<1>7. ThreadInv'
  <2>2. PhaseInv'
    BY <1>2, <1>3 DEF PhaseInv, TypeOK, IsTerminal, Terminal, Preparing, Holding, Spawning, Looping
  <2>3. IssuedInv'
    BY <1>2, <1>3 DEF IssuedInv, TypeOK, IsTerminal, Terminal, Preparing, Holding, Spawning, Looping
  <2>4. ResumeInv'
    BY <1>2, <1>3 DEF ResumeInv, TypeOK, IsTerminal, Terminal, Preparing, Holding, Spawning, Looping
  <2>5. DiskInv'
    BY <1>2, <1>3 DEF DiskInv, TypeOK, IsTerminal, Terminal, Preparing, Holding, Spawning, Looping
  <2> QED BY <2>2, <2>3, <2>4, <2>5 DEF ThreadInv
<1> QED BY <1>5, <1>6, <1>7 DEF ThreadInv

\* Adding a worktree keeps IInv.
LEMMA AddWorktreeStep ==
  ASSUME IInv, NEW t \in Task, AddWorktree(t)
  PROVE  IInv'
<1> USE SubAgentsAssumption DEF IInv, AddWorktree
<1>2. task' = task /\ disk' = disk
  OBVIOUS
<1>3. /\ pc' \in [Task -> PC]
      /\ \A u \in Task \ {t} : pc'[u] = pc[u]
  BY DEF TypeOK, Goto, PC, Holding, Spawning, Looping
<1>4. Cardinality(Holders') = Cardinality(Holders) /\ free' = free
  <2>1. \A u \in Task : u \in Holders' <=> u \in Holders
    BY <1>3 DEF TypeOK, IssuedInv, Holders, Preparing, Holding, Spawning, Looping, Goto
  <2> QED BY <2>1, HoldersSame
<1>5. SlotAccounting'
  BY <1>4 DEF SlotAccounting
<1>6. TypeOK'
  BY <1>2, <1>3, <1>4 DEF TypeOK
<1>7. ThreadInv'
  <2>1. t \in issued /\ issued' = issued
    BY Issued DEF Preparing, Spawning
  <2>2. PhaseInv'
    BY <1>2, <1>3, <2>1 DEF PhaseInv, TypeOK, IsTerminal, Terminal, Preparing, Holding, Spawning, Looping, Goto
  <2>3. IssuedInv'
    BY <1>2, <1>3, <2>1 DEF IssuedInv, TypeOK, IsTerminal, Terminal, Preparing, Holding, Spawning, Looping, Goto
  <2>4. ResumeInv'
    BY <1>2, <1>3, <2>1 DEF ResumeInv, TypeOK, IsTerminal, Terminal, Preparing, Holding, Spawning, Looping, Goto
  <2>5. DiskInv'
    BY <1>2, <1>3, <2>1 DEF DiskInv, TypeOK, IsTerminal, Terminal, Preparing, Holding, Spawning, Looping, Goto
  <2> QED BY <2>2, <2>3, <2>4, <2>5 DEF ThreadInv
<1> QED BY <1>5, <1>6, <1>7 DEF ThreadInv

\* Recording a worktree keeps IInv.
LEMMA RecordWorktreeStep ==
  ASSUME IInv, NEW t \in Task, RecordWorktree(t)
  PROVE  IInv'
<1> USE SubAgentsAssumption DEF IInv, RecordWorktree
<1> DEFINE r == [task[t] EXCEPT !.created = TRUE, !.wt = "active"]
<1>1. r \in Record /\ r.status = task[t].status /\ r.recovered = task[t].recovered
  <2>1. task[t] \in Record
    BY DEF TypeOK
  <2> QED BY <2>1, ChangeType
<1>2. /\ task' \in [Task -> Record]
      /\ disk' = task'
      /\ task'[t] = r
      /\ \A u \in Task \ {t} : task'[u] = task[u]
  BY <1>1, StoreType DEF TypeOK
<1> HIDE DEF r
<1>3. /\ pc' \in [Task -> PC]
      /\ \A u \in Task \ {t} : pc'[u] = pc[u]
  BY DEF TypeOK, Goto, PC, Holding, Spawning, Looping
<1>4. Cardinality(Holders') = Cardinality(Holders) /\ free' = free
  <2>1. \A u \in Task : u \in Holders' <=> u \in Holders
    BY <1>3 DEF TypeOK, IssuedInv, Holders, Preparing, Holding, Spawning, Looping, Goto
  <2> QED BY <2>1, HoldersSame
<1>5. SlotAccounting'
  BY <1>4 DEF SlotAccounting
<1>6. TypeOK'
  BY <1>2, <1>3, <1>4 DEF TypeOK
<1>7. ThreadInv'
  <2>1. t \in issued /\ issued' = issued
    BY Issued DEF Preparing, Spawning
  <2>2. PhaseInv'
    BY <1>1, <1>2, <1>3, <2>1 DEF PhaseInv, TypeOK, IsTerminal, Terminal, Preparing, Holding, Spawning, Looping, Goto
  <2>3. IssuedInv'
    BY <1>1, <1>2, <1>3, <2>1 DEF IssuedInv, TypeOK, IsTerminal, Terminal, Preparing, Holding, Spawning, Looping, Goto
  <2>4. ResumeInv'
    BY <1>1, <1>2, <1>3, <2>1 DEF ResumeInv, TypeOK, IsTerminal, Terminal, Preparing, Holding, Spawning, Looping, Goto
  <2>5. DiskInv'
    BY <1>1, <1>2, <1>3, <2>1 DEF DiskInv, TypeOK, IsTerminal, Terminal, Preparing, Holding, Spawning, Looping, Goto
  <2> QED BY <2>2, <2>3, <2>4, <2>5 DEF ThreadInv
<1> QED BY <1>5, <1>6, <1>7 DEF ThreadInv

\* Failing to add a worktree keeps IInv.
LEMMA FailWorktreeStep ==
  ASSUME IInv, NEW t \in Task, FailWorktree(t)
  PROVE  IInv'
<1> USE SubAgentsAssumption DEF IInv, FailWorktree
<1> DEFINE r == [task[t] EXCEPT !.status = "failed", !.wt = "error"]
<1>1. r \in Record /\ r.status = "failed" /\ r.recovered = task[t].recovered
  <2>1. task[t] \in Record
    BY DEF TypeOK
  <2> QED BY <2>1, ChangeType
<1>2. /\ task' \in [Task -> Record]
      /\ disk' = task'
      /\ task'[t] = r
      /\ \A u \in Task \ {t} : task'[u] = task[u]
  BY <1>1, StoreType DEF TypeOK
<1> HIDE DEF r
<1>3. /\ pc' \in [Task -> PC]
      /\ \A u \in Task \ {t} : pc'[u] = pc[u]
  BY DEF TypeOK, Goto, PC, Holding, Spawning, Looping
<1>4. Cardinality(Holders') = Cardinality(Holders) /\ free' = free
  <2>1. \A u \in Task : u \in Holders' <=> u \in Holders
    BY <1>3 DEF TypeOK, IssuedInv, Holders, Preparing, Holding, Spawning, Looping, Goto
  <2> QED BY <2>1, HoldersSame
<1>5. SlotAccounting'
  BY <1>4 DEF SlotAccounting
<1>6. TypeOK'
  BY <1>2, <1>3, <1>4 DEF TypeOK
<1>7. ThreadInv'
  <2>1. t \in issued /\ issued' = issued
    BY Issued DEF Preparing, Spawning
  <2>2. PhaseInv'
    BY <1>1, <1>2, <1>3, <2>1 DEF PhaseInv, TypeOK, IsTerminal, Terminal, Preparing, Holding, Spawning, Looping, Goto
  <2>3. IssuedInv'
    BY <1>1, <1>2, <1>3, <2>1 DEF IssuedInv, TypeOK, IsTerminal, Terminal, Preparing, Holding, Spawning, Looping, Goto
  <2>4. ResumeInv'
    BY <1>1, <1>2, <1>3, <2>1 DEF ResumeInv, TypeOK, IsTerminal, Terminal, Preparing, Holding, Spawning, Looping, Goto
  <2>5. DiskInv'
    BY <1>1, <1>2, <1>3, <2>1 DEF DiskInv, TypeOK, IsTerminal, Terminal, Preparing, Holding, Spawning, Looping, Goto
  <2> QED BY <2>2, <2>3, <2>4, <2>5 DEF ThreadInv
<1> QED BY <1>5, <1>6, <1>7 DEF ThreadInv

\* Degrading to the shared workspace keeps IInv.
LEMMA DegradeStep ==
  ASSUME IInv, NEW t \in Task, Degrade(t)
  PROVE  IInv'
<1> USE SubAgentsAssumption DEF IInv, Degrade
<1> DEFINE r == [task[t] EXCEPT !.status = "running"]
<1>1. /\ task' \in [Task -> Record]
      /\ task'[t].status = "running"
      /\ task'[t].recovered = task[t].recovered
      /\ \A u \in Task \ {t} : task'[u] = task[u]
  <2>1. task[t] \in Record /\ "running" \in Status
    BY DEF TypeOK, Status
  <2>2. r \in Record /\ r.status = "running" /\ r.recovered = task[t].recovered
    BY <2>1, ChangeType
  <2>3. task' = [task EXCEPT ![t] = r]
    OBVIOUS
  <2> HIDE DEF r
  <2> QED BY <2>2, <2>3 DEF TypeOK
<1>2. /\ pc' \in [Task -> PC]
      /\ pc[t] = "spawn_failed" /\ pc'[t] = "tm_idle"
      /\ \A u \in Task \ {t} : pc'[u] = pc[u]
  BY DEF TypeOK, Goto, PC, Looping
<1>3. Cardinality(Holders') = Cardinality(Holders)
  <2>1. \A u \in Task : u \in Holders' <=> u \in Holders
    BY <1>2 DEF Holders, Holding
  <2> QED BY <2>1, HoldersSame
<1>4. SlotAccounting'
  BY <1>3 DEF SlotAccounting
<1>5. TypeOK'
  BY <1>1, <1>2 DEF TypeOK
<1>6. ThreadInv'
  <2>1. t \in issued
    BY <1>2, Issued
  <2>2. PhaseInv'
    BY <1>1, <1>2 DEF PhaseInv, IsTerminal, Terminal, Spawning, Looping
  <2>3. IssuedInv'
    BY <1>1, <1>2, <2>1 DEF IssuedInv
  <2>4. ResumeInv'
    BY <1>1, <1>2 DEF ResumeInv, Spawning
  <2>5. DiskInv'
    BY <1>1, <1>2 DEF DiskInv, PhaseInv, Terminal, Spawning, Looping
  <2> QED BY <2>2, <2>3, <2>4, <2>5 DEF ThreadInv
<1> QED BY <1>4, <1>5, <1>6 DEF ThreadInv

\* Taking a slot keeps IInv.
LEMMA AcquireStep ==
  ASSUME IInv, NEW t \in Task, Acquire(t)
  PROVE  IInv'
<1> USE SubAgentsAssumption DEF IInv, Acquire
<1>2. task' = task /\ disk' = disk
  OBVIOUS
<1>3. /\ pc' \in [Task -> PC]
      /\ \A u \in Task \ {t} : pc'[u] = pc[u]
  BY DEF TypeOK, Goto, PC, Holding, Spawning, Looping
<1>4. Cardinality(Holders') = Cardinality(Holders) + 1 /\ free' = free - 1
  <2>1. /\ t \notin Holders /\ t \in Holders'
        /\ \A u \in Task \ {t} : u \in Holders' <=> u \in Holders
    BY <1>3 DEF TypeOK, Holders, Holding, Spawning, Looping, Goto
  <2> QED BY <2>1, HoldersEnter
<1>5. SlotAccounting'
  BY <1>4, HoldersFinite DEF SlotAccounting, TypeOK
<1>6. TypeOK'
  BY <1>2, <1>3, <1>4 DEF TypeOK
<1>7. ThreadInv'
  <2>1. t \in issued /\ issued' = issued
    BY Issued DEF Preparing, Spawning
  <2>2. PhaseInv'
    BY <1>2, <1>3, <2>1 DEF PhaseInv, TypeOK, IsTerminal, Terminal, Preparing, Holding, Spawning, Looping, Goto
  <2>3. IssuedInv'
    BY <1>2, <1>3, <2>1 DEF IssuedInv, TypeOK, IsTerminal, Terminal, Preparing, Holding, Spawning, Looping, Goto
  <2>4. ResumeInv'
    BY <1>2, <1>3, <2>1 DEF ResumeInv, TypeOK, IsTerminal, Terminal, Preparing, Holding, Spawning, Looping, Goto
  <2>5. DiskInv'
    BY <1>2, <1>3, <2>1 DEF DiskInv, TypeOK, IsTerminal, Terminal, Preparing, Holding, Spawning, Looping, Goto
  <2> QED BY <2>2, <2>3, <2>4, <2>5 DEF ThreadInv
<1> QED BY <1>5, <1>6, <1>7 DEF ThreadInv

\* Giving up before the turn keeps IInv.
LEMMA GiveUpStep ==
  ASSUME IInv, NEW t \in Task, GiveUp(t)
  PROVE  IInv'
<1> USE SubAgentsAssumption DEF IInv, GiveUp
<1> DEFINE r == task[t]
<1>1. r \in Record /\ r.status = task[t].status /\ r.recovered = task[t].recovered
  BY ChangeType DEF TypeOK
<1>2. /\ task' \in [Task -> Record]
      /\ disk' = task'
      /\ task'[t] = r
      /\ \A u \in Task \ {t} : task'[u] = task[u]
  BY <1>1, StoreType DEF TypeOK
<1> HIDE DEF r
<1>3. /\ pc' \in [Task -> PC]
      /\ \A u \in Task \ {t} : pc'[u] = pc[u]
  BY DEF TypeOK, Goto, PC, Holding, Spawning, Looping
<1>4. /\ Cardinality(Holders') = Cardinality(Holders) - 1
      /\ Cardinality(Holders) >= 1
      /\ free' = free + 1
  <2>1. /\ t \in Holders /\ t \notin Holders'
        /\ \A u \in Task \ {t} : u \in Holders' <=> u \in Holders
    BY <1>3 DEF TypeOK, Holders, Holding, Spawning, Looping, Goto
  <2> QED BY <2>1, HoldersLeave, HolderCounts
<1>5. SlotAccounting'
  BY <1>4, HoldersFinite DEF SlotAccounting, TypeOK
<1>6. TypeOK'
  <2>1. free' \in 0..MaxConcurrent
    BY <1>4, HoldersFinite DEF TypeOK, SlotAccounting
  <2> QED BY <1>2, <1>3, <2>1 DEF TypeOK
<1>7. ThreadInv'
  <2>1. t \in issued /\ issued' = issued
    BY Issued DEF Preparing, Spawning
  <2>2. PhaseInv'
    BY <1>1, <1>2, <1>3, <2>1 DEF PhaseInv, TypeOK, IsTerminal, Terminal, Preparing, Holding, Spawning, Looping, Goto
  <2>3. IssuedInv'
    BY <1>1, <1>2, <1>3, <2>1 DEF IssuedInv, TypeOK, IsTerminal, Terminal, Preparing, Holding, Spawning, Looping, Goto
  <2>4. ResumeInv'
    BY <1>1, <1>2, <1>3, <2>1 DEF ResumeInv, TypeOK, IsTerminal, Terminal, Preparing, Holding, Spawning, Looping, Goto
  <2>5. DiskInv'
    BY <1>1, <1>2, <1>3, <2>1 DEF DiskInv, TypeOK, IsTerminal, Terminal, Preparing, Holding, Spawning, Looping, Goto
  <2> QED BY <2>2, <2>3, <2>4, <2>5 DEF ThreadInv
<1> QED BY <1>5, <1>6, <1>7 DEF ThreadInv

\* Marking the task running keeps IInv.
LEMMA BeginStep ==
  ASSUME IInv, NEW t \in Task, Begin(t)
  PROVE  IInv'
<1> USE SubAgentsAssumption DEF IInv, Begin
<1> DEFINE r == [task[t] EXCEPT !.status = "running"]
<1>1. r \in Record /\ r.status = "running" /\ r.recovered = task[t].recovered
  <2>1. task[t] \in Record
    BY DEF TypeOK
  <2>2. /\ "running" \in Status
    BY <2>1, ChangeType DEF Status, Worktree, Terminal
  <2> QED BY <2>1, <2>2, ChangeType
<1>2. /\ task' \in [Task -> Record]
      /\ disk' = task'
      /\ task'[t] = r
      /\ \A u \in Task \ {t} : task'[u] = task[u]
  BY <1>1, StoreType DEF TypeOK
<1> HIDE DEF r
<1>3. /\ pc' \in [Task -> PC]
      /\ \A u \in Task \ {t} : pc'[u] = pc[u]
  BY DEF TypeOK, Goto, PC, Holding, Spawning, Looping
<1>4. Cardinality(Holders') = Cardinality(Holders) /\ free' = free
  <2>1. \A u \in Task : u \in Holders' <=> u \in Holders
    BY <1>3 DEF TypeOK, IssuedInv, Holders, Preparing, Holding, Spawning, Looping, Goto
  <2> QED BY <2>1, HoldersSame
<1>5. SlotAccounting'
  BY <1>4 DEF SlotAccounting
<1>6. TypeOK'
  BY <1>2, <1>3, <1>4 DEF TypeOK
<1>7. ThreadInv'
  <2>1. t \in issued /\ issued' = issued
    BY Issued DEF Preparing, Spawning
  <2>2. PhaseInv'
    BY <1>1, <1>2, <1>3, <2>1 DEF PhaseInv, TypeOK, IsTerminal, Terminal, Preparing, Holding, Spawning, Looping, Goto
  <2>3. IssuedInv'
    BY <1>1, <1>2, <1>3, <2>1 DEF IssuedInv, TypeOK, IsTerminal, Terminal, Preparing, Holding, Spawning, Looping, Goto
  <2>4. ResumeInv'
    BY <1>1, <1>2, <1>3, <2>1 DEF ResumeInv, TypeOK, IsTerminal, Terminal, Preparing, Holding, Spawning, Looping, Goto
  <2>5. DiskInv'
    BY <1>1, <1>2, <1>3, <2>1 DEF DiskInv, TypeOK, IsTerminal, Terminal, Preparing, Holding, Spawning, Looping, Goto
  <2> QED BY <2>2, <2>3, <2>4, <2>5 DEF ThreadInv
<1> QED BY <1>5, <1>6, <1>7 DEF ThreadInv

\* Going on without a worktree keeps IInv.
LEMMA SkipWorktreeStep ==
  ASSUME IInv, NEW t \in Task, SkipWorktree(t)
  PROVE  IInv'
<1> USE SubAgentsAssumption DEF IInv, SkipWorktree
<1>2. task' = task /\ disk' = disk
  OBVIOUS
<1>3. /\ pc' \in [Task -> PC]
      /\ \A u \in Task \ {t} : pc'[u] = pc[u]
  BY DEF TypeOK, Goto, PC, Holding, Spawning, Looping
<1>4. Cardinality(Holders') = Cardinality(Holders) /\ free' = free
  <2>1. \A u \in Task : u \in Holders' <=> u \in Holders
    BY <1>3 DEF TypeOK, IssuedInv, Holders, Preparing, Holding, Spawning, Looping, Goto
  <2> QED BY <2>1, HoldersSame
<1>5. SlotAccounting'
  BY <1>4 DEF SlotAccounting
<1>6. TypeOK'
  BY <1>2, <1>3, <1>4 DEF TypeOK
<1>7. ThreadInv'
  <2>1. t \in issued /\ issued' = issued
    BY Issued DEF Preparing, Spawning
  <2>2. PhaseInv'
    BY <1>2, <1>3, <2>1 DEF PhaseInv, TypeOK, IsTerminal, Terminal, Preparing, Holding, Spawning, Looping, Goto
  <2>3. IssuedInv'
    BY <1>2, <1>3, <2>1 DEF IssuedInv, TypeOK, IsTerminal, Terminal, Preparing, Holding, Spawning, Looping, Goto
  <2>4. ResumeInv'
    BY <1>2, <1>3, <2>1 DEF ResumeInv, TypeOK, IsTerminal, Terminal, Preparing, Holding, Spawning, Looping, Goto
  <2>5. DiskInv'
    BY <1>2, <1>3, <2>1 DEF DiskInv, TypeOK, IsTerminal, Terminal, Preparing, Holding, Spawning, Looping, Goto
  <2> QED BY <2>2, <2>3, <2>4, <2>5 DEF ThreadInv
<1> QED BY <1>5, <1>6, <1>7 DEF ThreadInv

\* Handing the prompt to the model keeps IInv.
LEMMA AskStep ==
  ASSUME IInv, NEW t \in Task, Ask(t)
  PROVE  IInv'
<1> USE SubAgentsAssumption DEF IInv, Ask
<1>2. task' = task /\ disk' = disk
  OBVIOUS
<1>3. /\ pc' \in [Task -> PC]
      /\ \A u \in Task \ {t} : pc'[u] = pc[u]
  BY DEF TypeOK, Goto, PC, Holding, Spawning, Looping
<1>4. Cardinality(Holders') = Cardinality(Holders) /\ free' = free
  <2>1. \A u \in Task : u \in Holders' <=> u \in Holders
    BY <1>3 DEF TypeOK, IssuedInv, Holders, Preparing, Holding, Spawning, Looping, Goto
  <2> QED BY <2>1, HoldersSame
<1>5. SlotAccounting'
  BY <1>4 DEF SlotAccounting
<1>6. TypeOK'
  <2>1. task[t].prompt \in Nat
    BY ChangeType DEF TypeOK
  <2> QED BY <1>2, <1>3, <1>4, <2>1 DEF TypeOK
<1>7. ThreadInv'
  <2>1. t \in issued /\ issued' = issued
    BY Issued DEF Preparing, Spawning
  <2>2. PhaseInv'
    BY <1>2, <1>3, <2>1 DEF PhaseInv, TypeOK, IsTerminal, Terminal, Preparing, Holding, Spawning, Looping, Goto
  <2>3. IssuedInv'
    BY <1>2, <1>3, <2>1 DEF IssuedInv, TypeOK, IsTerminal, Terminal, Preparing, Holding, Spawning, Looping, Goto
  <2>4. ResumeInv'
    BY <1>2, <1>3, <2>1 DEF ResumeInv, TypeOK, IsTerminal, Terminal, Preparing, Holding, Spawning, Looping, Goto
  <2>5. DiskInv'
    BY <1>2, <1>3, <2>1 DEF DiskInv, TypeOK, IsTerminal, Terminal, Preparing, Holding, Spawning, Looping, Goto
  <2> QED BY <2>2, <2>3, <2>4, <2>5 DEF ThreadInv
<1> QED BY <1>5, <1>6, <1>7 DEF ThreadInv

\* Ending the turn keeps IInv.
LEMMA EndTurnStep ==
  ASSUME IInv, NEW t \in Task, NEW outcome \in {"completed", "failed"},
         EndTurn(t, outcome)
  PROVE  IInv'
<1> USE SubAgentsAssumption DEF IInv, EndTurn
<1>1. /\ task' \in [Task -> Record] /\ disk' \in [Task -> Record]
      /\ \A u \in Task \ {t} : task'[u] = task[u]
      /\ \/ /\ task[t].status = "cancelled"
            /\ task' = task /\ disk' = disk
         \/ /\ disk' = task'
            /\ task'[t].status = outcome
            /\ task'[t].recovered = task[t].recovered
  <2>1. CASE task[t].status = "cancelled"
    BY <2>1 DEF TypeOK
  <2>2. CASE task[t].status # "cancelled"
    <3> DEFINE r == [task[t] EXCEPT !.status = outcome]
    <3>1. task[t] \in Record /\ outcome \in Status
      BY DEF TypeOK, Status, Terminal
    <3>2. r \in Record /\ r.status = outcome /\ r.recovered = task[t].recovered
      BY <3>1, ChangeType
    <3>3. Store(t, r)
      BY <2>2
    <3> HIDE DEF r
    <3> QED BY <3>2, <3>3, StoreType DEF TypeOK
  <2> QED BY <2>1, <2>2
<1>2. /\ pc' \in [Task -> PC]
      /\ pc[t] = "turn" /\ pc'[t] = "cleanup"
      /\ \A u \in Task \ {t} : pc'[u] = pc[u]
  BY DEF TypeOK, Goto, PC, Holding
<1>3. Cardinality(Holders') = Cardinality(Holders)
  <2>1. \A u \in Task : u \in Holders' <=> u \in Holders
    BY <1>2 DEF Holders, Holding
  <2> QED BY <2>1, HoldersSame
<1>4. SlotAccounting'
  BY <1>3 DEF SlotAccounting
<1>5. TypeOK'
  BY <1>1, <1>2 DEF TypeOK
<1>6. ThreadInv'
  <2>1. t \in issued
    BY <1>2, Issued
  <2>2. PhaseInv'
    BY <1>1, <1>2 DEF PhaseInv, IsTerminal, Terminal, Spawning, Looping
  <2>3. IssuedInv'
    BY <1>1, <1>2, <2>1 DEF IssuedInv
  <2>4. ResumeInv'
    BY <1>1, <1>2 DEF ResumeInv
  <2>5. DiskInv'
    BY <1>1, <1>2 DEF DiskInv, Spawning, Looping
  <2> QED BY <2>2, <2>3, <2>4, <2>5 DEF ThreadInv
<1> QED BY <1>4, <1>5, <1>6 DEF ThreadInv

\* Removing the worktree keeps IInv.
LEMMA RemoveWorktreeStep ==
  ASSUME IInv, NEW t \in Task, RemoveWorktree(t)
  PROVE  IInv'
<1> USE SubAgentsAssumption DEF IInv, RemoveWorktree
<1>2. task' = task /\ disk' = disk
  OBVIOUS
<1>3. /\ pc' \in [Task -> PC]
      /\ \A u \in Task \ {t} : pc'[u] = pc[u]
  BY DEF TypeOK, Goto, PC, Holding, Spawning, Looping
<1>4. Cardinality(Holders') = Cardinality(Holders) /\ free' = free
  <2>1. \A u \in Task : u \in Holders' <=> u \in Holders
    BY <1>3 DEF TypeOK, IssuedInv, Holders, Preparing, Holding, Spawning, Looping, Goto
  <2> QED BY <2>1, HoldersSame
<1>5. SlotAccounting'
  BY <1>4 DEF SlotAccounting
<1>6. TypeOK'
  BY <1>2, <1>3, <1>4 DEF TypeOK
<1>7. ThreadInv'
  <2>1. t \in issued /\ issued' = issued
    BY Issued DEF Preparing, Spawning
  <2>2. PhaseInv'
    BY <1>2, <1>3, <2>1 DEF PhaseInv, TypeOK, IsTerminal, Terminal, Preparing, Holding, Spawning, Looping, Goto
  <2>3. IssuedInv'
    BY <1>2, <1>3, <2>1 DEF IssuedInv, TypeOK, IsTerminal, Terminal, Preparing, Holding, Spawning, Looping, Goto
  <2>4. ResumeInv'
    BY <1>2, <1>3, <2>1 DEF ResumeInv, TypeOK, IsTerminal, Terminal, Preparing, Holding, Spawning, Looping, Goto
  <2>5. DiskInv'
    BY <1>2, <1>3, <2>1 DEF DiskInv, TypeOK, IsTerminal, Terminal, Preparing, Holding, Spawning, Looping, Goto
  <2> QED BY <2>2, <2>3, <2>4, <2>5 DEF ThreadInv
<1> QED BY <1>5, <1>6, <1>7 DEF ThreadInv

\* Releasing the slot keeps IInv.
LEMMA FinishStep ==
  ASSUME IInv, NEW t \in Task, Finish(t)
  PROVE  IInv'
<1> USE SubAgentsAssumption DEF IInv, Finish
<1> DEFINE r == [task[t] EXCEPT !.wt = CASE pc[t] = "cleaned"   -> "cleaned"
                                   [] pc[t] = "uncleaned" -> "cleanup_error"
                                   [] OTHER -> @]
<1>1. r \in Record /\ r.status = task[t].status /\ r.recovered = task[t].recovered
  <2>1. task[t] \in Record
    BY DEF TypeOK
  <2>2. /\ {task[t].wt, "cleaned", "cleanup_error"} \subseteq Worktree
    BY <2>1, ChangeType DEF Status, Worktree, Terminal
  <2> QED BY <2>1, <2>2, ChangeType
<1>2. /\ task' \in [Task -> Record]
      /\ disk' = task'
      /\ task'[t] = r
      /\ \A u \in Task \ {t} : task'[u] = task[u]
  BY <1>1, StoreType DEF TypeOK
<1> HIDE DEF r
<1>3. /\ pc' \in [Task -> PC]
      /\ \A u \in Task \ {t} : pc'[u] = pc[u]
  BY DEF TypeOK, Goto, PC, Holding, Spawning, Looping
<1>4. /\ Cardinality(Holders') = Cardinality(Holders) - 1
      /\ Cardinality(Holders) >= 1
      /\ free' = free + 1
  <2>1. /\ t \in Holders /\ t \notin Holders'
        /\ \A u \in Task \ {t} : u \in Holders' <=> u \in Holders
    BY <1>3 DEF TypeOK, Holders, Holding, Spawning, Looping, Goto
  <2> QED BY <2>1, HoldersLeave, HolderCounts
<1>5. SlotAccounting'
  BY <1>4, HoldersFinite DEF SlotAccounting, TypeOK
<1>6. TypeOK'
  <2>1. free' \in 0..MaxConcurrent
    BY <1>4, HoldersFinite DEF TypeOK, SlotAccounting
  <2> QED BY <1>2, <1>3, <2>1 DEF TypeOK
<1>7. ThreadInv'
  <2>1. t \in issued /\ issued' = issued
    BY Issued DEF Preparing, Spawning
  <2>2. PhaseInv'
    BY <1>1, <1>2, <1>3, <2>1 DEF PhaseInv, TypeOK, IsTerminal, Terminal, Preparing, Holding, Spawning, Looping, Goto
  <2>3. IssuedInv'
    BY <1>1, <1>2, <1>3, <2>1 DEF IssuedInv, TypeOK, IsTerminal, Terminal, Preparing, Holding, Spawning, Looping, Goto
  <2>4. ResumeInv'
    BY <1>1, <1>2, <1>3, <2>1 DEF ResumeInv, TypeOK, IsTerminal, Terminal, Preparing, Holding, Spawning, Looping, Goto
  <2>5. DiskInv'
    BY <1>1, <1>2, <1>3, <2>1 DEF DiskInv, TypeOK, IsTerminal, Terminal, Preparing, Holding, Spawning, Looping, Goto
  <2> QED BY <2>2, <2>3, <2>4, <2>5 DEF ThreadInv
<1> QED BY <1>5, <1>6, <1>7 DEF ThreadInv

\* Starting a teammate's turn keeps IInv.
LEMMA TeammateTurnStep ==
  ASSUME IInv, NEW t \in Task, TeammateTurn(t)
  PROVE  IInv'
<1> USE SubAgentsAssumption DEF IInv, TeammateTurn
<1>2. task' = task /\ disk' = disk
  OBVIOUS
<1>3. /\ pc' \in [Task -> PC]
      /\ \A u \in Task \ {t} : pc'[u] = pc[u]
  BY DEF TypeOK, Goto, PC, Holding, Spawning, Looping
<1>4. Cardinality(Holders') = Cardinality(Holders) + 1 /\ free' = free - 1
  <2>1. /\ t \notin Holders /\ t \in Holders'
        /\ \A u \in Task \ {t} : u \in Holders' <=> u \in Holders
    BY <1>3 DEF TypeOK, Holders, Holding, Spawning, Looping, Goto
  <2> QED BY <2>1, HoldersEnter
<1>5. SlotAccounting'
  BY <1>4, HoldersFinite DEF SlotAccounting, TypeOK
<1>6. TypeOK'
  BY <1>2, <1>3, <1>4 DEF TypeOK
<1>7. ThreadInv'
  <2>1. t \in issued /\ issued' = issued
    BY Issued DEF Preparing, Spawning
  <2>2. PhaseInv'
    BY <1>2, <1>3, <2>1 DEF PhaseInv, TypeOK, IsTerminal, Terminal, Preparing, Holding, Spawning, Looping, Goto
  <2>3. IssuedInv'
    BY <1>2, <1>3, <2>1 DEF IssuedInv, TypeOK, IsTerminal, Terminal, Preparing, Holding, Spawning, Looping, Goto
  <2>4. ResumeInv'
    BY <1>2, <1>3, <2>1 DEF ResumeInv, TypeOK, IsTerminal, Terminal, Preparing, Holding, Spawning, Looping, Goto
  <2>5. DiskInv'
    BY <1>2, <1>3, <2>1 DEF DiskInv, TypeOK, IsTerminal, Terminal, Preparing, Holding, Spawning, Looping, Goto
  <2> QED BY <2>2, <2>3, <2>4, <2>5 DEF ThreadInv
<1> QED BY <1>5, <1>6, <1>7 DEF ThreadInv

\* Ending a teammate's turn keeps IInv.
LEMMA TeammateTurnEndsStep ==
  ASSUME IInv, NEW t \in Task, TeammateTurnEnds(t)
  PROVE  IInv'
<1> USE SubAgentsAssumption DEF IInv, TeammateTurnEnds
<1>2. task' = task /\ disk' = disk
  OBVIOUS
<1>3. /\ pc' \in [Task -> PC]
      /\ \A u \in Task \ {t} : pc'[u] = pc[u]
  BY DEF TypeOK, Goto, PC, Holding, Spawning, Looping
<1>4. /\ Cardinality(Holders') = Cardinality(Holders) - 1
      /\ Cardinality(Holders) >= 1
      /\ free' = free + 1
  <2>1. /\ t \in Holders /\ t \notin Holders'
        /\ \A u \in Task \ {t} : u \in Holders' <=> u \in Holders
    BY <1>3 DEF TypeOK, Holders, Holding, Spawning, Looping, Goto
  <2> QED BY <2>1, HoldersLeave, HolderCounts
<1>5. SlotAccounting'
  BY <1>4, HoldersFinite DEF SlotAccounting, TypeOK
<1>6. TypeOK'
  <2>1. free' \in 0..MaxConcurrent
    BY <1>4, HoldersFinite DEF TypeOK, SlotAccounting
  <2> QED BY <1>2, <1>3, <2>1 DEF TypeOK
<1>7. ThreadInv'
  <2>1. t \in issued /\ issued' = issued
    BY Issued DEF Preparing, Spawning
  <2>2. PhaseInv'
    BY <1>2, <1>3, <2>1 DEF PhaseInv, TypeOK, IsTerminal, Terminal, Preparing, Holding, Spawning, Looping, Goto
  <2>3. IssuedInv'
    BY <1>2, <1>3, <2>1 DEF IssuedInv, TypeOK, IsTerminal, Terminal, Preparing, Holding, Spawning, Looping, Goto
  <2>4. ResumeInv'
    BY <1>2, <1>3, <2>1 DEF ResumeInv, TypeOK, IsTerminal, Terminal, Preparing, Holding, Spawning, Looping, Goto
  <2>5. DiskInv'
    BY <1>2, <1>3, <2>1 DEF DiskInv, TypeOK, IsTerminal, Terminal, Preparing, Holding, Spawning, Looping, Goto
  <2> QED BY <2>2, <2>3, <2>4, <2>5 DEF ThreadInv
<1> QED BY <1>5, <1>6, <1>7 DEF ThreadInv

\* Ending a teammate's loop keeps IInv.
LEMMA TeammateStopsStep ==
  ASSUME IInv, NEW t \in Task, TeammateStops(t)
  PROVE  IInv'
<1> USE SubAgentsAssumption DEF IInv, TeammateStops
<1>2. task' = task /\ disk' = disk
  OBVIOUS
<1>3. /\ pc' \in [Task -> PC]
      /\ \A u \in Task \ {t} : pc'[u] = pc[u]
  BY DEF TypeOK, Goto, PC, Holding, Spawning, Looping
<1>4. Cardinality(Holders') = Cardinality(Holders) /\ free' = free
  <2>1. \A u \in Task : u \in Holders' <=> u \in Holders
    BY <1>3 DEF TypeOK, IssuedInv, Holders, Preparing, Holding, Spawning, Looping, Goto
  <2> QED BY <2>1, HoldersSame
<1>5. SlotAccounting'
  BY <1>4 DEF SlotAccounting
<1>6. TypeOK'
  BY <1>2, <1>3, <1>4 DEF TypeOK
<1>7. ThreadInv'
  <2>1. t \in issued /\ issued' = issued
    BY Issued DEF Preparing, Spawning
  <2>2. PhaseInv'
    BY <1>2, <1>3, <2>1 DEF PhaseInv, TypeOK, IsTerminal, Terminal, Preparing, Holding, Spawning, Looping, Goto
  <2>3. IssuedInv'
    BY <1>2, <1>3, <2>1 DEF IssuedInv, TypeOK, IsTerminal, Terminal, Preparing, Holding, Spawning, Looping, Goto
  <2>4. ResumeInv'
    BY <1>2, <1>3, <2>1 DEF ResumeInv, TypeOK, IsTerminal, Terminal, Preparing, Holding, Spawning, Looping, Goto
  <2>5. DiskInv'
    BY <1>2, <1>3, <2>1 DEF DiskInv, TypeOK, IsTerminal, Terminal, Preparing, Holding, Spawning, Looping, Goto
  <2> QED BY <2>2, <2>3, <2>4, <2>5 DEF ThreadInv
<1> QED BY <1>5, <1>6, <1>7 DEF ThreadInv

(***************************************************************************)
(* The steps of the whole program                                          *)
(***************************************************************************)

\* A restart keeps IInv.
LEMMA CrashStep ==
  ASSUME IInv, NEW torn \in BOOLEAN, Crash(torn)
  PROVE  IInv'
<1> USE SubAgentsAssumption DEF IInv, Crash
<1>1. Absent \in Record /\ Absent.status = "absent" /\ Recovered(Absent) = Absent
  BY DEF Absent, Record, Status, Worktree, Recovered
<1>2. /\ task' \in [Task -> Record] /\ disk' = task'
      /\ \A u \in Task : task'[u].status # "running"
      /\ \A u \in Task \ issued : task'[u] = Absent
  <2>1. \A u \in Task : /\ Recovered(disk[u]) \in Record
                        /\ Recovered(disk[u]).status # "running"
    BY RecoveredType DEF TypeOK
  <2>2. \A u \in Task \ issued : disk[u] = Absent
    BY DEF IssuedInv
  <2>3. CASE torn
    BY <1>1, <2>3
  <2>4. CASE ~torn
    <3>1. task' = [u \in Task |-> Recovered(disk[u])]
      BY <2>4
    <3> QED BY <1>1, <2>1, <2>2, <3>1
  <2> QED BY <2>3, <2>4
<1>3. pc' = [u \in Task |-> "off"]
  OBVIOUS
<1>4. Cardinality(Holders') = 0
  <2>1. Holders' = {}
    BY <1>3 DEF Holders, Holding
  <2> QED BY <2>1, FS_EmptySet
<1>5. SlotAccounting'
  BY <1>4 DEF SlotAccounting
<1>6. TypeOK'
  <2>1. pc' \in [Task -> PC]
    BY <1>3 DEF PC
  <2>2. free' \in 0..MaxConcurrent /\ crashes' \in Nat
    BY DEF TypeOK
  <2>3. used' \in [Task -> Nat \cup {NotAsked}]
    OBVIOUS
  <2> QED BY <1>2, <2>1, <2>2, <2>3 DEF TypeOK
<1>7. ThreadInv'
  BY <1>2, <1>3 DEF ThreadInv, PhaseInv, IssuedInv, ResumeInv, DiskInv, Spawning, Looping
<1> QED BY <1>5, <1>6, <1>7 DEF ThreadInv

\* Resuming the recovered tasks keeps IInv.
LEMMA ConfigureStep ==
  ASSUME IInv, Configure
  PROVE  IInv'
<1> USE SubAgentsAssumption DEF IInv, Configure
<1>1. \A u \in Resumable : /\ u \in Task /\ pc[u] = "off" /\ u \notin resumeStarted
                           /\ task[u].status = "queued"
  BY DEF Resumable, ResumeInv
<1>2. /\ pc' \in [Task -> PC]
      /\ \A u \in Task : pc'[u] = IF u \in Resumable THEN "waiting" ELSE pc[u]
  BY DEF TypeOK, PC
<1>3. Cardinality(Holders') = Cardinality(Holders)
  <2>1. \A u \in Task : u \in Holders' <=> u \in Holders
    BY <1>1, <1>2 DEF Holders, Holding
  <2> QED BY <2>1, HoldersSame
<1>4. SlotAccounting'
  BY <1>3 DEF SlotAccounting
<1>5. TypeOK'
  BY <1>1, <1>2 DEF TypeOK
<1>6. ThreadInv'
  <2>1. PhaseInv'
    BY <1>1, <1>2 DEF PhaseInv, IsTerminal, Terminal, Spawning, Looping
  <2>2. IssuedInv'
    BY <1>1, <1>2 DEF IssuedInv, Absent
  <2>3. ResumeInv'
    BY <1>1, <1>2 DEF ResumeInv
  <2>4. DiskInv'
    BY <1>1, <1>2 DEF DiskInv, Spawning, Looping
  <2> QED BY <2>1, <2>2, <2>3, <2>4 DEF ThreadInv
<1> QED BY <1>4, <1>5, <1>6 DEF ThreadInv

\* The program starts in IInv.
LEMMA InitIInv == Init => IInv
<1> SUFFICES ASSUME Init PROVE IInv
  OBVIOUS
<1> USE SubAgentsAssumption DEF Init
<1>1. Absent \in Record /\ Absent.status = "absent" /\ ~Absent.recovered
  BY DEF Absent, Record, Status, Worktree
<1>2. TypeOK
  <2>1. pc \in [Task -> PC]
    BY DEF PC
  <2>2. task \in [Task -> Record] /\ disk \in [Task -> Record]
    BY <1>1
  <2>3. free \in 0..MaxConcurrent
    OBVIOUS
  <2>4. used \in [Task -> Nat \cup {NotAsked}]
    OBVIOUS
  <2> QED BY <2>1, <2>2, <2>3, <2>4 DEF TypeOK
<1>3. SlotAccounting
  <2>1. Holders = {}
    BY DEF Holders, Holding
  <2> QED BY <2>1, FS_EmptySet DEF SlotAccounting
<1>4. ThreadInv
  BY <1>1 DEF ThreadInv, PhaseInv, IssuedInv, ResumeInv, DiskInv, Spawning, Looping
<1> QED BY <1>2, <1>3, <1>4 DEF IInv, ThreadInv

\* A step that changes nothing keeps IInv.
LEMMA StutterStep == IInv /\ UNCHANGED vars => IInv'
BY DEF IInv, vars, TypeOK, SlotAccounting, Holders, PhaseInv, IsTerminal,
       IssuedInv, ResumeInv, DiskInv

\* IInv is inductive.
LEMMA NextIInv == IInv /\ [Next]_vars => IInv'
<1> SUFFICES ASSUME IInv, [Next]_vars PROVE IInv'
  OBVIOUS
<1>1. ASSUME NEW t \in Task, Lead(t) PROVE IInv'
  BY <1>1, OpenStep, BuildTeammateStep, FollowUpStep, CloseStep,
     DeleteTeammateStep DEF Lead
<1>2. ASSUME NEW t \in Task, Prepare(t) PROVE IInv'
  BY <1>2, AddWorktreeStep, RecordWorktreeStep, FailWorktreeStep, DegradeStep
     DEF Prepare
<1>3. ASSUME NEW t \in Task, Run(t) PROVE IInv'
  BY <1>3, GiveUpStep, BeginStep, SkipWorktreeStep, AskStep, EndTurnStep,
     RemoveWorktreeStep, FinishStep DEF Run
<1>4. ASSUME NEW t \in Task, Teammate(t) PROVE IInv'
  BY <1>4, TeammateTurnStep, TeammateTurnEndsStep, TeammateStopsStep DEF Teammate
<1>5. ASSUME NEW t \in Task, Acquire(t) PROVE IInv'
  BY <1>5, AcquireStep
<1>6. ASSUME NEW torn \in BOOLEAN, Crash(torn) PROVE IInv'
  BY <1>6, CrashStep
<1>7. CASE Configure
  BY <1>7, ConfigureStep
<1>8. CASE UNCHANGED vars
  BY <1>8, StutterStep
<1> QED BY <1>1, <1>2, <1>3, <1>4, <1>5, <1>6, <1>7, <1>8 DEF Next

\* In every state of the program IInv holds.
THEOREM Invariance == Spec => []IInv
BY InitIInv, NextIInv, PTL DEF Spec

(***************************************************************************)
(* The results                                                             *)
(***************************************************************************)

\* Every variable always has its type; in particular the semaphore's counter
\* never goes below zero and never above its size.
THEOREM TypeCorrect == Spec => []TypeOK
<1>1. IInv => TypeOK
  BY DEF IInv
<1> QED BY Invariance, <1>1, PTL

\* No slot of the semaphore is ever leaked or given back twice.
THEOREM SlotsAddUp == Spec => []SlotAccounting
<1>1. IInv => SlotAccounting
  BY DEF IInv
<1> QED BY Invariance, <1>1, PTL

\* The tasks reported running are among those that hold a slot, so there are
\* never more of them than max_concurrent.
THEOREM NeverTooManyRunning == Spec => []BoundedConcurrency
<1>1. IInv => BoundedConcurrency
  <2> SUFFICES ASSUME IInv PROVE BoundedConcurrency
    OBVIOUS
  <2>1. OneShotRunning \subseteq Holders
    BY DEF IInv, PhaseInv, TypeOK, PC, IsTerminal, Terminal, OneShotRunning,
           Holders, Holding, Spawning, Looping
  <2>2. Cardinality(OneShotRunning) <= Cardinality(Holders)
    BY <2>1, HoldersFinite, FS_Subset
  <2>3. Cardinality(OneShotRunning) \in Nat
    BY <2>1, HoldersFinite, FS_Subset, FS_CardinalityType
  <2> QED BY <2>2, <2>3, HoldersFinite, SubAgentsAssumption
          DEF IInv, TypeOK, SlotAccounting, BoundedConcurrency
<1> QED BY Invariance, <1>1, PTL

\* Whether a step lets task u keep a terminal status, as TerminalIsStable says.
KeepsTerminal(u) ==
  \/ task'[u].status \in {task[u].status, "absent"}
  \/ /\ task[u].status = "cancelled"
     /\ task'[u].status = "failed"
     /\ pc[u] = "prepare"

\* A step that stores a record with the same status, or a record of a task that
\* is not terminal, keeps every terminal status.
LEMMA StoreKeeps ==
  ASSUME TypeOK, NEW t \in Task, NEW r \in Record, Store(t, r),
         r.status = task[t].status \/ ~IsTerminal(t),
         NEW u \in Task, IsTerminal(u)
  PROVE  KeepsTerminal(u)
<1>1. task'[t] = r /\ \A v \in Task \ {t} : task'[v] = task[v]
  BY StoreType DEF TypeOK
<1> QED BY <1>1 DEF KeepsTerminal

\* No step of the program takes a terminal status away from a task.
LEMMA TerminalKept ==
  ASSUME IInv, [Next]_vars, NEW u \in Task, IsTerminal(u), pc[u] \notin Spawning
  PROVE  KeepsTerminal(u)
<1> USE DEF IInv
<1>1. \A t \in Task : task[t] \in Record
  BY DEF TypeOK
<1>2. CASE UNCHANGED task
  BY <1>2 DEF KeepsTerminal
<1>3. ASSUME NEW t \in Task, Lead(t) PROVE KeepsTerminal(u)
  <2>1. ASSUME NEW isolated \in BOOLEAN, NEW cleanup \in BOOLEAN, Open(t, isolated, cleanup)
        PROVE  KeepsTerminal(u)
    <3>1. ~IsTerminal(t)
      BY <2>1 DEF Open, IssuedInv, Absent, IsTerminal, Terminal
    <3>2. NewRecord("queued", isolated, cleanup) \in Record
      BY NewRecordType DEF Status
    <3>3. Store(t, NewRecord("queued", isolated, cleanup))
      BY <2>1 DEF Open
    <3> QED BY <3>1, <3>2, <3>3, StoreKeeps
  <2>2. ASSUME NEW isolated \in BOOLEAN, BuildTeammate(t, isolated)
        PROVE  KeepsTerminal(u)
    <3>1. ~IsTerminal(t)
      <4>1. t \notin issued
        BY <2>2 DEF BuildTeammate
      <4> QED BY <4>1 DEF IssuedInv, Absent, IsTerminal, Terminal
    <3> DEFINE r == NewRecord("running", isolated, TRUE)
    <3>2. task' = [task EXCEPT ![t] = r]
      BY <2>2 DEF BuildTeammate
    <3> HIDE DEF r
    <3> QED BY <3>1, <3>2 DEF KeepsTerminal, TypeOK
  <2>3. CASE FollowUp(t)
    <3> DEFINE r == [task[t] EXCEPT
          !.messages = @ + 1,
          !.prompt   = IF task[t].status = "queued" THEN @ + 1 ELSE @]
    <3>1. r \in Record /\ r.status = task[t].status
      BY <1>1, MessageType
    <3>2. Store(t, r)
      BY <2>3 DEF FollowUp
    <3> HIDE DEF r
    <3> QED BY <3>1, <3>2, StoreKeeps
  <2>4. CASE Close(t)
    <3> DEFINE r == [task[t] EXCEPT !.status = "cancelled"]
    <3>1. r \in Record
      <4>1. "cancelled" \in Status
        BY DEF Status, Terminal
      <4> QED BY <1>1, <4>1, ChangeType
    <3>2. Store(t, r) /\ ~IsTerminal(t)
      BY <2>4 DEF Close, IsTerminal, Terminal
    <3> HIDE DEF r
    <3> QED BY <3>1, <3>2, StoreKeeps
  <2>5. CASE DeleteTeammate(t)
    BY <1>2, <2>5 DEF DeleteTeammate
  <2> QED BY <1>3, <2>1, <2>2, <2>3, <2>4, <2>5 DEF Lead
<1>4. ASSUME NEW t \in Task, Prepare(t) PROVE KeepsTerminal(u)
  <2>1. CASE AddWorktree(t)
    BY <1>2, <2>1 DEF AddWorktree
  <2>2. CASE RecordWorktree(t)
    <3> DEFINE r == [task[t] EXCEPT !.created = TRUE, !.wt = "active"]
    <3>1. r \in Record /\ r.status = task[t].status
      BY <1>1, ChangeType
    <3>2. Store(t, r)
      BY <2>2 DEF RecordWorktree
    <3> HIDE DEF r
    <3> QED BY <3>1, <3>2, StoreKeeps
  <2>3. CASE FailWorktree(t)
    <3> DEFINE r == [task[t] EXCEPT !.status = "failed", !.wt = "error"]
    <3>1. r \in Record /\ r.status = "failed"
      BY <1>1, ChangeType
    <3>2. Store(t, r)
      BY <2>3 DEF FailWorktree
    <3>3. task'[t] = r /\ \A v \in Task \ {t} : task'[v] = task[v]
      BY <3>1, <3>2, StoreType DEF TypeOK
    <3> HIDE DEF r
    <3>4. u = t => pc[u] = "prepare" /\ task[u].status = "cancelled"
      BY <2>3 DEF FailWorktree, Preparing, Spawning, PhaseInv, IsTerminal, Terminal
    <3> QED BY <3>1, <3>3, <3>4 DEF KeepsTerminal
  <2>4. CASE Degrade(t)
    <3> DEFINE r == [task[t] EXCEPT !.status = "running"]
    <3>1. task' = [task EXCEPT ![t] = r] /\ u # t
      BY <2>4 DEF Degrade, Spawning
    <3> HIDE DEF r
    <3> QED BY <3>1 DEF KeepsTerminal, TypeOK
  <2> QED BY <1>4, <2>1, <2>2, <2>3, <2>4 DEF Prepare
<1>5. ASSUME NEW t \in Task, Run(t) PROVE KeepsTerminal(u)
  <2>1. CASE GiveUp(t)
    BY <1>1, <2>1, StoreKeeps DEF GiveUp
  <2>2. CASE Begin(t)
    <3> DEFINE r == [task[t] EXCEPT !.status = "running"]
    <3>1. r \in Record
      <4>1. "running" \in Status
        BY DEF Status
      <4> QED BY <1>1, <4>1, ChangeType
    <3>2. Store(t, r) /\ ~IsTerminal(t)
      BY <2>2 DEF Begin, PhaseInv, IsTerminal, Terminal
    <3> HIDE DEF r
    <3> QED BY <3>1, <3>2, StoreKeeps
  <2>3. ASSUME NEW outcome \in {"completed", "failed"}, EndTurn(t, outcome)
        PROVE  KeepsTerminal(u)
    <3>1. CASE task[t].status = "cancelled"
      BY <1>2, <2>3, <3>1 DEF EndTurn
    <3>2. CASE task[t].status # "cancelled"
      <4> DEFINE r == [task[t] EXCEPT !.status = outcome]
      <4>1. r \in Record
        <5>1. outcome \in Status
          BY DEF Status, Terminal
        <5> QED BY <1>1, <5>1, ChangeType
      <4>2. Store(t, r)
        BY <2>3, <3>2 DEF EndTurn
      <4>3. ~IsTerminal(t)
        BY <2>3, <3>2 DEF EndTurn, PhaseInv, IsTerminal, Terminal
      <4> HIDE DEF r
      <4> QED BY <4>1, <4>2, <4>3, StoreKeeps
    <3> QED BY <3>1, <3>2
  <2>4. CASE Finish(t)
    <3> DEFINE w == CASE pc[t] = "cleaned"   -> "cleaned"
                      [] pc[t] = "uncleaned" -> "cleanup_error"
                      [] OTHER -> task[t].wt
               r == [task[t] EXCEPT !.wt = w]
    <3>1. w \in Worktree
      BY <1>1, ChangeType DEF Worktree
    <3>2. r \in Record /\ r.status = task[t].status
      <4> HIDE DEF w
      <4> QED BY <1>1, <3>1, ChangeType
    <3>3. Store(t, r)
      BY <2>4 DEF Finish
    <3> HIDE DEF r
    <3> QED BY <3>2, <3>3, StoreKeeps
  <2>5. CASE SkipWorktree(t) \/ Ask(t) \/ RemoveWorktree(t)
    BY <1>2, <2>5 DEF SkipWorktree, Ask, RemoveWorktree
  <2> QED BY <1>5, <2>1, <2>2, <2>3, <2>4, <2>5 DEF Run
<1>6. ASSUME NEW t \in Task, Acquire(t) \/ Teammate(t) PROVE KeepsTerminal(u)
  BY <1>2, <1>6 DEF Acquire, Teammate, TeammateTurn, TeammateTurnEnds, TeammateStops
<1>7. ASSUME NEW torn \in BOOLEAN, Crash(torn) PROVE KeepsTerminal(u)
  <2>1. disk[u] \in Record /\ disk[u].status = task[u].status
    BY DEF TypeOK, DiskInv, IsTerminal, Terminal
  <2>2. Recovered(disk[u]) = disk[u]
    BY <2>1 DEF Recovered, IsTerminal, Terminal
  <2>3. CASE torn
    BY <1>7, <2>3 DEF Crash, Absent, KeepsTerminal
  <2>4. CASE ~torn
    BY <1>7, <2>1, <2>2, <2>4 DEF Crash, KeepsTerminal
  <2> QED BY <2>3, <2>4
<1>8. CASE Configure \/ UNCHANGED vars
  BY <1>2, <1>8 DEF Configure, vars
<1> QED BY <1>3, <1>4, <1>5, <1>6, <1>7, <1>8 DEF Next

\* Whatever the interleaving, a task that reached a terminal status keeps it, but
\* for a cancellation that meets a failing worktree.
THEOREM TerminalStays == Spec => TerminalIsStable
<1>1. IInv /\ [Next]_vars =>
        \A t \in Task : IsTerminal(t) /\ pc[t] \notin Spawning => KeepsTerminal(t)
  BY TerminalKept
<1>2. IInv /\ [Next]_vars =>
        [\A t \in Task :
           IsTerminal(t) /\ pc[t] \notin Spawning =>
             \/ task'[t].status \in {task[t].status, "absent"}
             \/ /\ task[t].status = "cancelled"
                /\ task'[t].status = "failed"
                /\ pc[t] = "prepare"]_vars
  BY <1>1 DEF KeepsTerminal
<1> QED BY Invariance, <1>2, PTL DEF Spec, TerminalIsStable

\* No task is ever given a second thread in one process: a thread starts only
\* where there was none.
THEOREM OneThreadPerTask == Spec => ThreadStartsOnce
<1>1. ASSUME IInv, [Next]_vars, NEW u \in Task, pc'[u] = "waiting", pc[u] # "waiting"
      PROVE  pc[u] = "off"
  <2> USE DEF IInv
  <2>1. ASSUME NEW t \in Task, NEW to \in PC \ {"waiting"}, Goto(t, to)
        PROVE  FALSE
    BY <1>1, <2>1 DEF Goto, TypeOK
  <2>2. CASE pc' = pc
    BY <1>1, <2>2
  <2>3. ASSUME NEW t \in Task, Lead(t) PROVE pc[u] = "off"
    <3>1. ASSUME NEW isolated \in BOOLEAN, NEW cleanup \in BOOLEAN,
                 Open(t, isolated, cleanup)
          PROVE  pc[u] = "off"
      BY <1>1, <3>1 DEF Open, Goto, IssuedInv, TypeOK
    <3>2. ASSUME NEW isolated \in BOOLEAN, BuildTeammate(t, isolated)
          PROVE  FALSE
      <4>1. Goto(t, IF isolated THEN "spawning" ELSE "tm_idle")
        BY <3>2 DEF BuildTeammate
      <4> QED BY <2>1, <4>1 DEF PC, Spawning, Looping
    <3> QED BY <2>2, <2>3, <3>1, <3>2 DEF Lead, FollowUp, Close, DeleteTeammate
  <2>4. ASSUME NEW t \in Task, Prepare(t) PROVE FALSE
    <3>1. \E to \in PC \ {"waiting"} : Goto(t, to)
      BY <2>4 DEF Prepare, AddWorktree, RecordWorktree, FailWorktree, Degrade,
                  PC, Holding, Spawning, Looping
    <3> QED BY <2>1, <3>1
  <2>5. ASSUME NEW t \in Task, Acquire(t) \/ Run(t) \/ Teammate(t) PROVE FALSE
    <3>1. \E to \in PC \ {"waiting"} : Goto(t, to)
      BY <2>5 DEF Acquire, Run, GiveUp, Begin, SkipWorktree, Ask, EndTurn,
                  RemoveWorktree, Finish, Teammate, TeammateTurn, TeammateTurnEnds,
                  TeammateStops, PC, Holding, Spawning, Looping
    <3> QED BY <2>1, <3>1
  <2>6. ASSUME NEW torn \in BOOLEAN, Crash(torn) PROVE FALSE
    BY <1>1, <2>6 DEF Crash
  <2>7. CASE Configure
    BY <1>1, <2>7 DEF Configure, Resumable, ResumeInv, TypeOK
  <2>8. CASE UNCHANGED vars
    BY <2>2, <2>8 DEF vars
  <2> QED BY <1>1, <2>3, <2>4, <2>5, <2>6, <2>7, <2>8 DEF Next
<1>2. IInv /\ [Next]_vars =>
        [\A t \in Task : pc'[t] = "waiting" /\ pc[t] # "waiting" => pc[t] = "off"]_vars
  BY <1>1
<1> QED BY Invariance, <1>2, PTL DEF Spec, ThreadStartsOnce

(***************************************************************************)
(* Prompts and worktrees: what FilesInv says of one task is kept by every    *)
(* step, of that task or of another.                                       *)
(***************************************************************************)

Files(t) == Prompted(t) /\ AtHome(t) /\ TidiedUp(t)

\* A step that leaves a task and its files alone keeps what is known of them.
LEMMA FilesSame ==
  ASSUME NEW u \in Task, Files(u), task'[u] = task[u], pc'[u] = pc[u],
         used'[u] = used[u], u \in branch' <=> u \in branch, u \in dir' <=> u \in dir,
         u \in housed' <=> u \in housed
  PROVE  Files(u)'
BY DEF Files, Prompted, AtHome, TidiedUp, NotLeaked, Cleans

\* What the lead does to a task: delete_team removes no worktree that a turn is in.
LEMMA LeadFiles ==
  ASSUME IInv, NEW t \in Task, Lead(t), NEW u \in Task, Files(u)
  PROVE  Files(u)'
<1> USE DEF IInv, TypeOK
<1> USE FilesSame
      DEF Store, Goto, Files, Prompted, AtHome, TidiedUp, NotLeaked, Cleans
<1>1. ASSUME NEW isolated \in BOOLEAN, NEW cleanup \in BOOLEAN, Open(t, isolated, cleanup)
      PROVE  Files(u)'
  BY <1>1 DEF Open, IssuedInv, NewRecord, Absent
<1>2. ASSUME NEW isolated \in BOOLEAN, BuildTeammate(t, isolated)
      PROVE  Files(u)'
  BY <1>2 DEF BuildTeammate, IssuedInv, NewRecord, Absent
<1>3. ASSUME FollowUp(t) PROVE  Files(u)'
  BY <1>3 DEF FollowUp, PhaseInv, IsTerminal, Terminal, Record
<1>4. ASSUME Close(t) PROVE  Files(u)'
  BY <1>4 DEF Close, PhaseInv, IsTerminal, Terminal, Record
<1>5. ASSUME DeleteTeammate(t) PROVE  Files(u)'
  BY <1>5 DEF DeleteTeammate
<1> QED BY <1>1, <1>2, <1>3, <1>4, <1>5 DEF Lead

\* Preparing a worktree, for a task or for a teammate.
LEMMA PrepareFiles ==
  ASSUME IInv, NEW t \in Task, Prepare(t), NEW u \in Task, Files(u)
  PROVE  Files(u)'
<1> USE DEF IInv, TypeOK
<1> USE FilesSame
      DEF Store, Goto, Files, Prompted, AtHome, TidiedUp, NotLeaked, Cleans
<1>1. ASSUME AddWorktree(t) PROVE  Files(u)'
  BY <1>1 DEF AddWorktree, Preparing
<1>2. ASSUME RecordWorktree(t) PROVE  Files(u)'
  BY <1>2 DEF RecordWorktree, Record
<1>3. ASSUME FailWorktree(t) PROVE  Files(u)'
  BY <1>3 DEF FailWorktree, Preparing, Record
<1>4. ASSUME Degrade(t) PROVE  Files(u)'
  BY <1>4 DEF Degrade, Record
<1> QED BY <1>1, <1>2, <1>3, <1>4 DEF Prepare

\* A task's own thread, from its slot to the end of the finally block.
LEMMA RunFiles ==
  ASSUME IInv, NEW t \in Task, Acquire(t) \/ Run(t), NEW u \in Task, Files(u)
  PROVE  Files(u)'
<1> USE DEF IInv, TypeOK
<1> USE FilesSame
      DEF Store, Goto, Files, Prompted, AtHome, TidiedUp, NotLeaked, Cleans
<1>1. ASSUME Acquire(t) PROVE  Files(u)'
  BY <1>1 DEF Acquire
<1>2. ASSUME GiveUp(t) PROVE  Files(u)'
  BY <1>2 DEF GiveUp
<1>3. ASSUME Begin(t) PROVE  Files(u)'
  BY <1>3 DEF Begin, Record
<1>4. ASSUME SkipWorktree(t) PROVE  Files(u)'
  BY <1>4 DEF SkipWorktree
<1>5. ASSUME Ask(t) PROVE  Files(u)'
  BY <1>5 DEF Ask
<1>6. ASSUME NEW outcome \in {"completed", "failed"}, EndTurn(t, outcome) PROVE  Files(u)'
  BY <1>6 DEF EndTurn, Record
<1>7. ASSUME RemoveWorktree(t) PROVE  Files(u)'
  BY <1>7 DEF RemoveWorktree
<1>8. ASSUME Finish(t) PROVE  Files(u)'
  BY <1>8 DEF Finish, Record
<1> QED BY <1>1, <1>2, <1>3, <1>4, <1>5, <1>6, <1>7, <1>8 DEF Run

\* A teammate's loop touches no file of a task; after a restart no thread is left.
LEMMA OtherFiles ==
  ASSUME IInv, NEW u \in Task, Files(u),
         \/ \E t \in Task : Teammate(t)
         \/ \E torn \in BOOLEAN : Crash(torn)
         \/ Configure
         \/ UNCHANGED vars
  PROVE  Files(u)'
<1> USE DEF IInv, TypeOK
<1> USE FilesSame
      DEF Store, Goto, Files, Prompted, AtHome, TidiedUp, NotLeaked, Cleans
<1>1. ASSUME NEW t \in Task, Teammate(t) PROVE  Files(u)'
  BY <1>1 DEF Teammate, TeammateTurn, TeammateTurnEnds, TeammateStops
<1>2. ASSUME NEW torn \in BOOLEAN, Crash(torn) PROVE  Files(u)'
  BY <1>2 DEF Crash
<1>3. ASSUME Configure PROVE  Files(u)'
  BY <1>3 DEF Configure, Resumable, ResumeInv
<1>4. ASSUME UNCHANGED vars PROVE  Files(u)'
  BY <1>4 DEF vars
<1> QED BY <1>1, <1>2, <1>3, <1>4

\* In every state of the runtime: which prompts were handed out, which worktrees exist
\* and who may remove them.
THEOREM FilesInvariance == Spec => []FilesInv
<1>1. Init => FilesInv
  BY DEF Init, FilesInv, Prompted, AtHome, TidiedUp, NotLeaked, Cleans, Absent
<1>2. IInv /\ FilesInv /\ [Next]_vars => FilesInv'
  <2> SUFFICES ASSUME IInv, FilesInv, [Next]_vars, NEW t \in Task PROVE Files(t)'
    BY DEF FilesInv, Files
  <2>1. Files(t)
    BY DEF FilesInv, Files
  <2> QED BY <2>1, LeadFiles, PrepareFiles, RunFiles, OtherFiles DEF Next
<1> QED BY <1>1, <1>2, Invariance, PTL DEF Spec

\* The turn of a task gets every follow-up that was accepted while it was queued,
\* however follow-ups, threads and restarts interleave.
THEOREM PromptIsWhole == Spec => []FollowUpInPrompt
<1>1. FilesInv => FollowUpInPrompt
  BY DEF FilesInv, Prompted, FollowUpInPrompt
<1> QED BY <1>1, FilesInvariance, PTL

\* No isolated task ever works outside its worktree.
THEOREM IsolationHolds == Spec => []IsolatedTurnHasWorktree
<1>1. FilesInv => IsolatedTurnHasWorktree
  BY DEF FilesInv, AtHome, IsolatedTurnHasWorktree
<1> QED BY <1>1, FilesInvariance, PTL

\* On every path out of _run the worktree is gone, or its record says why not.
THEOREM NoWorktreeLeaks == Spec => []WorktreeNotLeaked
<1>1. FilesInv => WorktreeNotLeaked
  BY DEF FilesInv, TidiedUp, WorktreeNotLeaked
<1> QED BY <1>1, FilesInvariance, PTL

(***************************************************************************)
(* The runtime implements the pool of jobs of module JobPool: every step of *)
(* it submits, hires, starts or settles one job, restarts the pool, or      *)
(* leaves every job's stage alone.                                         *)
(***************************************************************************)

\* The value of the pool's variable.
PoolStage == [t \in Task |-> Stage(t)]

\* A step of the runtime as the pool sees it.
PoolStep == Pool!Next \/ UNCHANGED PoolStage

(***************************************************************************)
(* Stages                                                                  *)
(***************************************************************************)

\* A task whose status and thread a step leaves alone keeps its stage.
LEMMA SameStage ==
  ASSUME NEW u \in Task, task'[u].status = task[u].status, pc'[u] = pc[u]
  PROVE  Stage(u)' = Stage(u)
BY DEF Stage, IsTerminal, OneShotRunning

\* A step that keeps all stages is a stuttering step of the pool.
LEMMA Stutters ==
  ASSUME \A u \in Task : Stage(u)' = Stage(u)
  PROVE  PoolStep
BY DEF PoolStep, PoolStage

\* A step that changes the stage of one task moves one job.
LEMMA Moves ==
  ASSUME NEW t \in Task, NEW from, NEW to,
         Stage(t) \in from, Stage(t)' = to,
         \A u \in Task \ {t} : Stage(u)' = Stage(u)
  PROVE  Pool!Move(t, from, to)
<1>1. PoolStage[t] \in from
  BY DEF PoolStage
<1>2. PoolStage' = [PoolStage EXCEPT ![t] = to]
  BY DEF PoolStage
<1> QED BY <1>1, <1>2 DEF Pool!Move, PoolStage

\* The pool counts as this module does.
LEMMA SameCount ==
  ASSUME NEW S
  PROVE  Pool!Cardinality(S) = Cardinality(S)
BY DEF Pool!Cardinality, Cardinality

\* The four moves are steps of the pool; a start needs room in it.
LEMMA MoveIsStep ==
  ASSUME NEW t \in Task
  PROVE  /\ Pool!Move(t, {"absent"}, "pending") => PoolStep
         /\ Pool!Move(t, {"absent"}, "resident") => PoolStep
         /\ Pool!Move(t, {"pending", "active", "resident"}, "settled") => PoolStep
         /\ Pool!Move(t, {"pending"}, "active")
              /\ Cardinality(Pool!Active) < MaxConcurrent => PoolStep
BY SameCount DEF PoolStep, Pool!Next, Pool!Submit, Pool!Hire, Pool!Settle, Pool!Start

\* An active job's thread holds a slot.
LEMMA ActiveHolds ==
  ASSUME IInv
  PROVE  Pool!Active \subseteq Holders
BY DEF IInv, PhaseInv, TypeOK, PC, IsTerminal, Terminal, Stage, OneShotRunning,
       Pool!Active, Holders, Holding, Spawning, Looping

\* A thread that has a slot and has not begun leaves room in the pool.
LEMMA RoomInPool ==
  ASSUME IInv, NEW t \in Task, t \in Holders, Stage(t) # "active"
  PROVE  Cardinality(Pool!Active) < MaxConcurrent
<1>1. Pool!Active \subseteq Holders \ {t}
  BY ActiveHolds DEF Pool!Active
<1>2. /\ IsFiniteSet(Holders \ {t})
      /\ Cardinality(Holders \ {t}) = Cardinality(Holders) - 1
  BY HoldersFinite, FS_RemoveElement
<1>3. /\ Cardinality(Pool!Active) <= Cardinality(Holders \ {t})
      /\ Cardinality(Pool!Active) \in Nat
  BY <1>1, <1>2, FS_Subset, FS_CardinalityType
<1> QED BY <1>2, <1>3, HoldersFinite, SubAgentsAssumption
        DEF IInv, TypeOK, SlotAccounting

\* When only the thread of t moves, and t keeps its status, all that matters is t's
\* stage.
LEMMA OnlyThread ==
  ASSUME TypeOK, NEW t \in Task, NEW to \in PC, task' = task, Goto(t, to)
  PROVE  /\ pc'[t] = to
         /\ \A u \in Task \ {t} : Stage(u)' = Stage(u)
<1>1. pc'[t] = to /\ \A u \in Task \ {t} : pc'[u] = pc[u]
  BY DEF Goto, TypeOK
<1> QED BY <1>1, SameStage

\* The same when a record of t is stored.
LEMMA OnlyRecord ==
  ASSUME TypeOK, NEW t \in Task, NEW r \in Record, Store(t, r),
         pc' \in [Task -> PC], \A u \in Task \ {t} : pc'[u] = pc[u]
  PROVE  /\ task'[t] = r
         /\ \A u \in Task \ {t} : Stage(u)' = Stage(u)
<1>1. task'[t] = r /\ \A u \in Task \ {t} : task'[u] = task[u]
  BY StoreType DEF TypeOK
<1> QED BY <1>1, SameStage

(***************************************************************************)
(* Steps                                                                   *)
(***************************************************************************)

\* The operations of the lead submit, hire or settle one job.
LEMMA LeadSteps ==
  ASSUME IInv, NEW t \in Task, Lead(t)
  PROVE  PoolStep
<1> USE DEF IInv
<1>1. task[t] \in Record
  BY DEF TypeOK
<1>2. ASSUME NEW isolated \in BOOLEAN, NEW cleanup \in BOOLEAN, Open(t, isolated, cleanup)
      PROVE  PoolStep
  <2> DEFINE r == NewRecord("queued", isolated, cleanup)
  <2>1. r \in Record /\ r.status = "queued"
    BY NewRecordType DEF Status
  <2>2. task[t].status = "absent" /\ Store(t, r) /\ Goto(t, "waiting")
    BY <1>2 DEF Open, IssuedInv, Absent
  <2> HIDE DEF r
  <2>3. pc' \in [Task -> PC] /\ pc'[t] = "waiting" /\ \A u \in Task \ {t} : pc'[u] = pc[u]
    BY <2>2 DEF Goto, TypeOK, PC
  <2>4. task'[t] = r /\ \A u \in Task \ {t} : Stage(u)' = Stage(u)
    BY <2>1, <2>2, <2>3, OnlyRecord
  <2>5. Stage(t) = "absent" /\ Stage(t)' = "pending"
    BY <2>1, <2>2, <2>3, <2>4 DEF Stage, IsTerminal, Terminal, Spawning
  <2> QED BY <2>4, <2>5, Moves, MoveIsStep
<1>3. ASSUME NEW isolated \in BOOLEAN, BuildTeammate(t, isolated)
      PROVE  PoolStep
  <2> DEFINE r == NewRecord("running", isolated, TRUE)
  <2>1. r.status = "running"
    BY NewRecordType DEF Status
  <2>2. /\ task[t].status = "absent"
        /\ task' = [task EXCEPT ![t] = r]
        /\ Goto(t, IF isolated THEN "spawning" ELSE "tm_idle")
    BY <1>3 DEF BuildTeammate, IssuedInv, Absent
  <2> HIDE DEF r
  <2>3. /\ task'[t].status = "running" /\ pc'[t] \in {"spawning", "tm_idle"}
        /\ \A u \in Task \ {t} : task'[u] = task[u] /\ pc'[u] = pc[u]
    BY <2>1, <2>2 DEF Goto, TypeOK
  <2>4. \A u \in Task \ {t} : Stage(u)' = Stage(u)
    BY <2>3, SameStage
  <2>5. Stage(t) = "absent" /\ Stage(t)' = "resident"
    BY <2>2, <2>3 DEF Stage, IsTerminal, Terminal, OneShotRunning, Spawning, Looping
  <2> QED BY <2>4, <2>5, Moves, MoveIsStep
<1>4. CASE FollowUp(t)
  <2> DEFINE r == [task[t] EXCEPT
          !.messages = @ + 1,
          !.prompt   = IF task[t].status = "queued" THEN @ + 1 ELSE @]
  <2>1. r \in Record /\ r.status = task[t].status
    BY <1>1, MessageType
  <2>2. Store(t, r) /\ pc' = pc
    BY <1>4 DEF FollowUp
  <2> HIDE DEF r
  <2>3. \A u \in Task : task'[u].status = task[u].status /\ pc'[u] = pc[u]
    BY <2>1, <2>2, StoreType DEF TypeOK
  <2> QED BY <2>3, SameStage, Stutters
<1>5. CASE Close(t)
  <2> DEFINE r == [task[t] EXCEPT !.status = "cancelled"]
  <2>1. r \in Record /\ r.status = "cancelled"
    <3>1. "cancelled" \in Status
      BY DEF Status, Terminal
    <3> QED BY <1>1, <3>1, ChangeType
  <2>2. /\ Store(t, r) /\ pc' = pc /\ pc[t] \notin Spawning
        /\ task[t].status \in {"queued", "running"}
    BY <1>5 DEF Close, LeadFree
  <2> HIDE DEF r
  <2>3. task'[t] = r /\ \A u \in Task \ {t} : Stage(u)' = Stage(u)
    BY <2>1, <2>2, OnlyRecord DEF TypeOK
  <2>4. Stage(t) \in {"pending", "active", "resident"} /\ Stage(t)' = "settled"
    BY <2>1, <2>2, <2>3 DEF Stage, IsTerminal, Terminal
  <2> QED BY <2>3, <2>4, Moves, MoveIsStep
<1>6. CASE DeleteTeammate(t)
  BY <1>6, SameStage, Stutters DEF DeleteTeammate
<1> QED BY <1>2, <1>3, <1>4, <1>5, <1>6 DEF Lead

\* Preparing a worktree may settle the job.
LEMMA PrepareSteps ==
  ASSUME IInv, NEW t \in Task, Prepare(t)
  PROVE  PoolStep
<1> USE DEF IInv
<1>1. task[t] \in Record
  BY DEF TypeOK
<1>2. CASE AddWorktree(t)
  <2>1. \E to \in PC : task' = task /\ Goto(t, to) /\ (pc[t] = "spawning" <=> to = "spawn_added")
                        /\ to \in {"spawn_added", "added"}
    BY <1>2 DEF AddWorktree, PC, Spawning, Holding
  <2>2. PICK to \in {"spawn_added", "added"} :
          /\ to \in PC /\ task' = task /\ Goto(t, to)
          /\ pc[t] = "spawning" <=> to = "spawn_added"
    BY <2>1
  <2>3. pc'[t] = to /\ \A u \in Task \ {t} : Stage(u)' = Stage(u)
    BY <2>2, OnlyThread
  <2>4. pc[t] \in {"spawning", "prepare"}
    BY <1>2 DEF AddWorktree, Preparing
  <2>5. Stage(t)' = Stage(t)
    BY <2>2, <2>3, <2>4 DEF Stage, IsTerminal, OneShotRunning, Spawning, Looping
  <2> QED BY <2>3, <2>5, Stutters
<1>3. CASE RecordWorktree(t)
  <2> DEFINE r == [task[t] EXCEPT !.created = TRUE, !.wt = "active"]
             to == IF pc[t] = "added" THEN "ask" ELSE "tm_idle"
  <2>1. r \in Record /\ r.status = task[t].status
    BY <1>1, ChangeType
  <2>2. Store(t, r) /\ Goto(t, to) /\ pc[t] \in {"added", "spawn_added"}
    BY <1>3 DEF RecordWorktree
  <2> HIDE DEF r
  <2>3. pc' \in [Task -> PC] /\ pc'[t] = to /\ \A u \in Task \ {t} : pc'[u] = pc[u]
    BY <2>2 DEF Goto, TypeOK, PC, Holding, Looping
  <2>4. task'[t] = r /\ \A u \in Task \ {t} : Stage(u)' = Stage(u)
    BY <2>1, <2>2, <2>3, OnlyRecord
  <2>5. CASE pc[t] = "added"
    <3>1. Stage(t)' = Stage(t)
      BY <2>1, <2>3, <2>4, <2>5 DEF Stage, IsTerminal, OneShotRunning, Spawning, Looping
    <3> QED BY <2>4, <3>1, Stutters
  <2>6. CASE pc[t] = "spawn_added"
    <3>1. task[t].status \in {"running"} \cup Terminal
      BY <2>6 DEF PhaseInv, Spawning
    <3>2. Stage(t) = "resident"
      BY <2>6, <3>1 DEF Stage, Spawning, Terminal
    <3>3. Stage(t)' \in {"resident", "settled"}
      BY <2>1, <2>3, <2>4, <2>6, <3>1
      DEF Stage, IsTerminal, Terminal, OneShotRunning, Spawning, Looping
    <3>4. CASE Stage(t)' = "resident"
      BY <2>4, <3>2, <3>4, Stutters
    <3>5. CASE Stage(t)' = "settled"
      BY <2>4, <3>2, <3>5, Moves, MoveIsStep
    <3> QED BY <3>3, <3>4, <3>5
  <2> QED BY <2>2, <2>5, <2>6
<1>4. CASE FailWorktree(t)
  <2> DEFINE r == [task[t] EXCEPT !.status = "failed", !.wt = "error"]
             to == IF pc[t] = "spawning" THEN "spawn_failed" ELSE "cleanup"
  <2>1. r \in Record /\ r.status = "failed"
    BY <1>1, ChangeType
  <2>2. Store(t, r) /\ Goto(t, to) /\ pc[t] \in {"spawning", "prepare"}
    BY <1>4 DEF FailWorktree, Preparing
  <2> HIDE DEF r
  <2>3. pc' \in [Task -> PC] /\ pc'[t] = to /\ \A u \in Task \ {t} : pc'[u] = pc[u]
    BY <2>2 DEF Goto, TypeOK, PC, Holding, Spawning
  <2>4. task'[t] = r /\ \A u \in Task \ {t} : Stage(u)' = Stage(u)
    BY <2>1, <2>2, <2>3, OnlyRecord
  <2>5. CASE pc[t] = "spawning"
    <3>1. task[t].status \in {"running"} \cup Terminal
      BY <2>5 DEF PhaseInv, Spawning
    <3>2. Stage(t) = "resident" /\ Stage(t)' = "resident"
      BY <2>1, <2>3, <2>4, <2>5, <3>1 DEF Stage, Spawning, Terminal
    <3> QED BY <2>4, <3>2, Stutters
  <2>6. CASE pc[t] = "prepare"
    <3>1. task[t].status \in {"running", "cancelled"}
      BY <2>6 DEF PhaseInv
    <3>2. Stage(t)' = "settled"
      BY <2>1, <2>3, <2>4, <2>6 DEF Stage, IsTerminal, Terminal, Spawning
    <3>3. Stage(t) \in {"active", "settled"}
      BY <2>6, <3>1 DEF Stage, IsTerminal, Terminal, OneShotRunning, Spawning, Looping
    <3>4. CASE Stage(t) = "settled"
      BY <2>4, <3>2, <3>4, Stutters
    <3>5. CASE Stage(t) = "active"
      BY <2>4, <3>2, <3>5, Moves, MoveIsStep
    <3> QED BY <3>3, <3>4, <3>5
  <2> QED BY <2>2, <2>5, <2>6
<1>5. CASE Degrade(t)
  <2> DEFINE r == [task[t] EXCEPT !.status = "running"]
  <2>1. r.status = "running"
    BY <1>1 DEF Record
  <2>2. task' = [task EXCEPT ![t] = r] /\ Goto(t, "tm_idle") /\ pc[t] = "spawn_failed"
    BY <1>5 DEF Degrade
  <2> HIDE DEF r
  <2>3. /\ task'[t].status = "running" /\ pc'[t] = "tm_idle"
        /\ \A u \in Task \ {t} : task'[u] = task[u] /\ pc'[u] = pc[u]
    BY <2>1, <2>2 DEF Goto, TypeOK
  <2>4. task[t].status \in {"running"} \cup Terminal
    BY <2>2 DEF PhaseInv, Spawning
  <2>5. Stage(t) = "resident" /\ Stage(t)' = "resident"
    BY <2>2, <2>3, <2>4 DEF Stage, IsTerminal, Terminal, OneShotRunning, Spawning, Looping
  <2>6. \A u \in Task \ {t} : Stage(u)' = Stage(u)
    BY <2>3, SameStage
  <2> QED BY <2>5, <2>6, Stutters
<1> QED BY <1>2, <1>3, <1>4, <1>5 DEF Prepare

\* A step that moves the thread of t between places that mean the same for the pool.
LEMMA ThreadOnly ==
  ASSUME IInv, NEW t \in Task, NEW to \in PC, task' = task, Goto(t, to),
         pc[t] \in Spawning <=> to \in Spawning,
         pc[t] \in Spawning \cup Looping \cup {"tm_gone"}
           <=> to \in Spawning \cup Looping \cup {"tm_gone"}
  PROVE  PoolStep
<1>1. pc'[t] = to /\ \A u \in Task \ {t} : Stage(u)' = Stage(u)
  BY OnlyThread DEF IInv
<1>2. Stage(t)' = Stage(t)
  BY <1>1 DEF Stage, IsTerminal, OneShotRunning
<1> QED BY <1>1, <1>2, Stutters

\* The thread of a one-shot task starts and settles its job.
LEMMA RunSteps ==
  ASSUME IInv, NEW t \in Task, Acquire(t) \/ Run(t)
  PROVE  PoolStep
<1> USE DEF IInv
<1>1. task[t] \in Record
  BY DEF TypeOK
<1>2. CASE Acquire(t)
  BY <1>2, ThreadOnly DEF Acquire, PC, Holding, Spawning, Looping
<1>3. CASE GiveUp(t)
  <2>1. \A u \in Task : task'[u].status = task[u].status
    BY <1>1, <1>3, StoreType DEF GiveUp, TypeOK
  <2>2. /\ pc[t] = "slot" /\ pc'[t] = "done" /\ task[t].status = "cancelled"
        /\ \A u \in Task \ {t} : pc'[u] = pc[u]
    BY <1>3 DEF GiveUp, Goto, TypeOK
  <2>3. Stage(t)' = Stage(t)
    BY <2>1, <2>2 DEF Stage, IsTerminal, Terminal, Spawning
  <2> QED BY <2>1, <2>2, <2>3, SameStage, Stutters
<1>4. CASE Begin(t)
  <2> DEFINE r == [task[t] EXCEPT !.status = "running"]
  <2>1. r \in Record /\ r.status = "running"
    <3>1. "running" \in Status
      BY DEF Status
    <3> QED BY <1>1, <3>1, ChangeType
  <2>2. Store(t, r) /\ Goto(t, "prepare") /\ pc[t] = "slot" /\ task[t].status = "queued"
    BY <1>4 DEF Begin, PhaseInv
  <2> HIDE DEF r
  <2>3. pc' \in [Task -> PC] /\ pc'[t] = "prepare" /\ \A u \in Task \ {t} : pc'[u] = pc[u]
    BY <2>2 DEF Goto, TypeOK, PC, Holding
  <2>4. task'[t] = r /\ \A u \in Task \ {t} : Stage(u)' = Stage(u)
    BY <2>1, <2>2, <2>3, OnlyRecord
  <2>5. Stage(t) = "pending"
    BY <2>2 DEF Stage, IsTerminal, Terminal, Spawning
  <2>6. Stage(t)' = "active"
    BY <2>1, <2>3, <2>4 DEF Stage, IsTerminal, Terminal, OneShotRunning, Spawning, Looping
  <2>7. Cardinality(Pool!Active) < MaxConcurrent
    BY <2>2, <2>5, RoomInPool DEF Holders, Holding
  <2> QED BY <2>4, <2>5, <2>6, <2>7, Moves, MoveIsStep
<1>5. CASE SkipWorktree(t)
  BY <1>5, ThreadOnly DEF SkipWorktree, PC, Holding, Spawning, Looping
<1>6. CASE Ask(t)
  BY <1>6, ThreadOnly DEF Ask, PC, Holding, Spawning, Looping
<1>7. ASSUME NEW outcome \in {"completed", "failed"}, EndTurn(t, outcome)
      PROVE  PoolStep
  <2>1. CASE task[t].status = "cancelled"
    BY <1>7, <2>1, ThreadOnly DEF EndTurn, PC, Holding, Spawning, Looping
  <2>2. CASE task[t].status # "cancelled"
    <3> DEFINE r == [task[t] EXCEPT !.status = outcome]
    <3>1. r \in Record /\ r.status = outcome
      <4>1. outcome \in Status
        BY DEF Status, Terminal
      <4> QED BY <1>1, <4>1, ChangeType
    <3>2. Store(t, r) /\ Goto(t, "cleanup") /\ pc[t] = "turn" /\ task[t].status = "running"
      BY <1>7, <2>2 DEF EndTurn, PhaseInv
    <3> HIDE DEF r
    <3>3. pc' \in [Task -> PC] /\ pc'[t] = "cleanup" /\ \A u \in Task \ {t} : pc'[u] = pc[u]
      BY <3>2 DEF Goto, TypeOK, PC, Holding
    <3>4. task'[t] = r /\ \A u \in Task \ {t} : Stage(u)' = Stage(u)
      BY <3>1, <3>2, <3>3, OnlyRecord
    <3>5. Stage(t) = "active"
      BY <3>2 DEF Stage, IsTerminal, Terminal, OneShotRunning, Spawning, Looping
    <3>6. Stage(t)' = "settled"
      BY <3>1, <3>3, <3>4 DEF Stage, IsTerminal, Terminal, Spawning
    <3> QED BY <3>4, <3>5, <3>6, Moves, MoveIsStep
  <2> QED BY <2>1, <2>2
<1>8. CASE RemoveWorktree(t)
  <2>1. \E to \in {"cleaned", "uncleaned"} : task' = task /\ Goto(t, to) /\ pc[t] = "cleanup"
    BY <1>8 DEF RemoveWorktree
  <2> QED BY <2>1, ThreadOnly DEF PC, Holding, Spawning, Looping
<1>9. CASE Finish(t)
  <2> DEFINE w == CASE pc[t] = "cleaned"   -> "cleaned"
                    [] pc[t] = "uncleaned" -> "cleanup_error"
                    [] OTHER -> task[t].wt
             r == [task[t] EXCEPT !.wt = w]
  <2>1. r \in Record /\ r.status = task[t].status
    <3>1. w \in Worktree
      BY <1>1, ChangeType DEF Worktree
    <3> HIDE DEF w
    <3> QED BY <1>1, <3>1, ChangeType
  <2>2. Store(t, r) /\ Goto(t, "done") /\ pc[t] \in {"cleanup", "cleaned", "uncleaned"}
    BY <1>9 DEF Finish
  <2> HIDE DEF r
  <2>3. /\ pc'[t] = "done"
        /\ \A u \in Task : task'[u].status = task[u].status
        /\ \A u \in Task \ {t} : pc'[u] = pc[u]
    BY <2>1, <2>2, StoreType DEF Goto, TypeOK
  <2>4. Stage(t)' = Stage(t)
    BY <2>2, <2>3 DEF PhaseInv, Stage, IsTerminal, Spawning
  <2> QED BY <2>3, <2>4, SameStage, Stutters
<1> QED BY <1>2, <1>3, <1>4, <1>5, <1>6, <1>7, <1>8, <1>9 DEF Run

\* A teammate's turns do not concern the pool.
LEMMA TeammateSteps ==
  ASSUME IInv, NEW t \in Task, Teammate(t)
  PROVE  PoolStep
BY ThreadOnly
DEF Teammate, TeammateTurn, TeammateTurnEnds, TeammateStops, PC, Holding, Spawning, Looping

\* A restart keeps the books, every unsettled job pending, or loses them.
LEMMA CrashSteps ==
  ASSUME IInv, NEW torn \in BOOLEAN, Crash(torn)
  PROVE  PoolStep
<1> USE DEF IInv
<1>1. PoolStage' \in [Task -> Pool!Stage]
  BY DEF PoolStage, Stage, Pool!Stage
<1>2. \A t \in Task : pc'[t] = "off" /\ task'[t] = IF torn THEN Absent ELSE Recovered(disk[t])
  BY DEF Crash
<1>3. CASE torn
  <2>1. \A t \in Task : PoolStage'[t] = "absent"
    BY <1>2, <1>3 DEF PoolStage, Stage, Absent
  <2> QED BY <1>1, <2>1 DEF PoolStep, PoolStage, Pool!Next, Pool!Restart
<1>4. CASE ~torn
  <2>1. ASSUME NEW t \in Task PROVE Stage(t)' \in Pool!After(Stage(t))
    <3>1. disk[t] \in Record /\ disk[t].status \in Status
      BY ChangeType DEF TypeOK
    <3>2. /\ disk[t].status \in {"queued", "running"} => Stage(t)' = "pending"
          /\ disk[t].status \in Terminal => Stage(t)' = "settled"
          /\ disk[t].status = "absent" => Stage(t)' = "absent"
      BY <1>2, <1>4, <3>1, RecoveredType DEF Stage, IsTerminal, Terminal, Spawning
    <3>3. CASE disk[t].status = task[t].status
      <4>1. pc[t] \in Spawning => task[t].status \in {"running"} \cup Terminal
        BY DEF PhaseInv
      <4> QED BY <3>1, <3>2, <3>3, <4>1 DEF Pool!After, Stage, IsTerminal, Status, Terminal
    <3>4. CASE disk[t].status # task[t].status
      <4>1. /\ pc[t] \in Spawning \cup Looping \cup {"tm_gone"}
            /\ task[t].status = "running" /\ disk[t].status # "absent"
        BY <3>4 DEF DiskInv
      <4>2. Stage(t) = "resident"
        BY <4>1 DEF Stage, IsTerminal, Terminal, OneShotRunning
      <4> QED BY <3>1, <3>2, <4>1, <4>2 DEF Pool!After, Status
    <3> QED BY <3>3, <3>4
  <2>2. \A t \in Task : PoolStage'[t] \in Pool!After(PoolStage[t])
    BY <2>1 DEF PoolStage
  <2> QED BY <1>1, <2>2 DEF PoolStep, PoolStage, Pool!Next, Pool!Restart
<1> QED BY <1>3, <1>4

\* Resuming recovered tasks gives threads to pending jobs.
LEMMA ConfigureSteps ==
  ASSUME IInv, Configure
  PROVE  PoolStep
<1>1. /\ task' = task
      /\ \A t \in Task : pc'[t] = IF t \in Resumable THEN "waiting" ELSE pc[t]
  BY DEF Configure
<1>2. ASSUME NEW t \in Resumable PROVE Stage(t)' = Stage(t)
  <2>1. t \in Task /\ pc[t] = "off" /\ task[t].status = "queued" /\ pc'[t] = "waiting"
    BY <1>1 DEF IInv, ResumeInv, Resumable
  <2> QED BY <1>1, <2>1 DEF Stage, IsTerminal, Terminal, Spawning
<1> QED BY <1>1, <1>2, SameStage, Stutters

(***************************************************************************)
(* Refinement                                                              *)
(***************************************************************************)

\* No step of the runtime, the lead, a teammate or a restart does to the jobs
\* anything that the pool does not: at most Max at a time, and what is settled is
\* settled for good.
THEOREM RuntimeIsAPool == Spec => ImplementsPool
<1>1. Init => Pool!Init
  BY DEF Init, Pool!Init, Stage, Absent
<1>2. IInv /\ [Next]_vars => [Pool!Next]_PoolStage
  <2> SUFFICES ASSUME IInv, [Next]_vars PROVE PoolStep
    BY DEF PoolStep
  <2>1. CASE UNCHANGED vars
    BY <2>1, SameStage, Stutters DEF vars
  <2> QED BY <2>1, LeadSteps, PrepareSteps, RunSteps, TeammateSteps, CrashSteps,
             ConfigureSteps DEF Next
<1> QED BY <1>1, <1>2, Invariance, PTL DEF Spec, ImplementsPool, Pool!Spec, PoolStage
=============================================================================
