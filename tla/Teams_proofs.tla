----------------------------- MODULE Teams_proofs -----------------------------
(***************************************************************************)
(* Proofs about teams, for every set of teammates and messages and any number *)
(* of restarts.  The inductive invariant IInv is defined in Teams.            *)
(***************************************************************************)
EXTENDS Teams, TLAPS

(***************************************************************************)
(* Every action keeps the inductive invariant                              *)
(***************************************************************************)

\* The lead spawns a teammate.
LEMMA SpawnStep ==
  ASSUME IInv, NEW t \in Teammate, Spawn(t)
  PROVE  IInv'
<1>1. TypeOK'
  BY DEF IInv, Spawn, Goto, Fetched, PC, TypeOK
<1>2. AddressInv'
  BY DEF IInv, Spawn, Goto, AddressInv
<1>3. DirectoryInv'
  BY DEF IInv, Spawn, DirectoryInv
<1>4. ReportInv'
  BY DEF IInv, Spawn, Goto, ReportInv
<1>5. TakenIsWorkedOn'
  BY DEF IInv, Spawn, Goto, Exiting, TakenIsWorkedOn
<1> QED BY <1>1, <1>2, <1>3, <1>4, <1>5 DEF IInv

\* A message is sent.
LEMMA SendStep ==
  ASSUME IInv, NEW t \in Teammate, NEW m \in Message, Send(m, t)
  PROVE  IInv'
<1>1. TypeOK'
  BY DEF IInv, Send, Move, Fetched, TypeOK, Place
<1>2. AddressInv'
  BY DEF IInv, Send, Move, AddressInv, TypeOK
<1>3. DirectoryInv'
  BY DEF IInv, Send, DirectoryInv
<1>4. ReportInv'
  BY DEF IInv, Send, ReportInv
<1>5. TakenIsWorkedOn'
  BY DEF IInv, Send, Move, TakenIsWorkedOn
<1> QED BY <1>1, <1>2, <1>3, <1>4, <1>5 DEF IInv

\* The lead drains its inbox.
LEMMA DrainLeadStep ==
  ASSUME IInv, DrainLead
  PROVE  IInv'
<1>1. TypeOK'
  BY DEF IInv, DrainLead, Fetched, TypeOK
<1>2. AddressInv'
  BY DEF IInv, DrainLead, AddressInv
<1>3. DirectoryInv'
  BY DEF IInv, DrainLead, DirectoryInv
<1>4. ReportInv'
  BY DEF IInv, DrainLead, ReportInv
<1>5. TakenIsWorkedOn'
  BY DEF IInv, DrainLead, TakenIsWorkedOn
<1> QED BY <1>1, <1>2, <1>3, <1>4, <1>5 DEF IInv

\* A team on disk is put into the cache.
LEMMA LookUpStep ==
  ASSUME IInv, LookUp
  PROVE  IInv'
<1>1. TypeOK'
  BY DEF IInv, LookUp, GetTeam, TypeOK
<1>2. AddressInv'
  BY DEF IInv, LookUp, AddressInv
<1>3. DirectoryInv'
  BY DEF IInv, LookUp, DirectoryInv
<1>4. ReportInv'
  BY DEF IInv, LookUp, ReportInv
<1>5. TakenIsWorkedOn'
  BY DEF IInv, LookUp, TakenIsWorkedOn
<1> QED BY <1>1, <1>2, <1>3, <1>4, <1>5 DEF IInv

\* The team is deleted: its threads are told to stop,
LEMMA DeleteCancelStep ==
  ASSUME IInv, DeleteCancel
  PROVE  IInv'
<1>1. TypeOK'
  BY DEF IInv, DeleteCancel, Fetched, TypeOK
<1>2. AddressInv'
  BY DEF IInv, DeleteCancel, AddressInv
<1>3. DirectoryInv'
  BY DEF IInv, DeleteCancel, DirectoryInv
<1>4. ReportInv'
  BY DEF DeleteCancel, ReportInv
<1>5. TakenIsWorkedOn'
  BY DEF IInv, DeleteCancel, TakenIsWorkedOn
<1> QED BY <1>1, <1>2, <1>3, <1>4, <1>5 DEF IInv

\* its inboxes are emptied,
LEMMA DeleteInboxesStep ==
  ASSUME IInv, DeleteInboxes
  PROVE  IInv'
<1>1. TypeOK'
  BY DEF IInv, DeleteInboxes, Move, TypeOK, Place
<1>2. AddressInv'
  BY DEF IInv, DeleteInboxes, Move, AddressInv
<1>3. DirectoryInv'
  BY DEF IInv, DeleteInboxes, DirectoryInv
<1>4. ReportInv'
  BY DEF DeleteInboxes, ReportInv
<1>5. TakenIsWorkedOn'
  BY DEF IInv, DeleteInboxes, Move, TakenIsWorkedOn
<1> QED BY <1>1, <1>2, <1>3, <1>4, <1>5 DEF IInv

\* its directory is removed,
LEMMA DeleteDirectoryStep ==
  ASSUME IInv, DeleteDirectory
  PROVE  IInv'
<1>1. TypeOK'
  BY DEF IInv, DeleteDirectory, Move, TypeOK, Place
<1>2. AddressInv'
  BY DEF IInv, DeleteDirectory, Move, AddressInv
<1>3. DirectoryInv'
  BY DEF DeleteDirectory, DirectoryInv
<1>4. ReportInv'
  BY DEF DeleteDirectory, ReportInv
<1>5. TakenIsWorkedOn'
  BY DEF IInv, DeleteDirectory, Move, TakenIsWorkedOn
<1> QED BY <1>1, <1>2, <1>3, <1>4, <1>5 DEF IInv

\* and it is forgotten.
LEMMA DeleteForgetStep ==
  ASSUME IInv, DeleteForget
  PROVE  IInv'
<1>1. TypeOK'
  BY DEF IInv, DeleteForget, TypeOK
<1>2. AddressInv'
  BY DEF IInv, DeleteForget, AddressInv
<1>3. DirectoryInv'
  BY DEF IInv, DeleteForget, DirectoryInv
<1>4. ReportInv'
  BY DEF DeleteForget, ReportInv
<1>5. TakenIsWorkedOn'
  BY DEF IInv, DeleteForget, TakenIsWorkedOn
<1> QED BY <1>1, <1>2, <1>3, <1>4, <1>5 DEF IInv

\* The thread of a teammate looks at its stop event,
LEMMA TopStep ==
  ASSUME IInv, NEW t \in Teammate, Top(t)
  PROVE  IInv'
<1>1. TypeOK'
  BY DEF IInv, Top, Goto, Move, Exiting, PC, TypeOK, Place
<1>2. AddressInv'
  BY DEF IInv, Top, Goto, Move, In, AddressInv
<1>3. DirectoryInv'
  BY DEF IInv, Top, DirectoryInv
<1>4. ReportInv'
  BY DEF IInv, Top, Goto, ReportInv
<1>5. TakenIsWorkedOn'
  BY DEF IInv, Top, Goto, Move, In, Exiting, TakenIsWorkedOn, TypeOK
<1> QED BY <1>1, <1>2, <1>3, <1>4, <1>5 DEF IInv

\* takes in what was sent to it, or finds its mailbox gone,
LEMMA DrainStep ==
  ASSUME IInv, NEW t \in Teammate, Drain(t)
  PROVE  IInv'
<1>1. TypeOK'
  BY DEF IInv, Drain, Goto, Move, Raise, PC, TypeOK, Place
<1>2. AddressInv'
  BY DEF IInv, Drain, Goto, Move, In, Raise, AddressInv, TypeOK
<1>3. DirectoryInv'
  BY DEF IInv, Drain, DirectoryInv
<1>4. ReportInv'
  BY DEF IInv, Drain, Goto, Raise, ReportInv, TypeOK
<1>5. TakenIsWorkedOn'
  BY DEF IInv, Drain, Goto, Move, In, Exiting, Raise, AddressInv, TakenIsWorkedOn,
     TypeOK
<1> QED BY <1>1, <1>2, <1>3, <1>4, <1>5 DEF IInv

\* ends a turn,
LEMMA TurnEndsStep ==
  ASSUME IInv, NEW t \in Teammate, TurnEnds(t)
  PROVE  IInv'
<1>1. TypeOK'
  BY DEF IInv, TurnEnds, Goto, PC, TypeOK
<1>2. AddressInv'
  BY DEF IInv, TurnEnds, Goto, AddressInv
<1>3. DirectoryInv'
  BY DEF IInv, TurnEnds, DirectoryInv
<1>4. ReportInv'
  BY DEF IInv, TurnEnds, Goto, ReportInv
<1>5. TakenIsWorkedOn'
  BY DEF IInv, TurnEnds, Goto, Exiting, TakenIsWorkedOn
<1> QED BY <1>1, <1>2, <1>3, <1>4, <1>5 DEF IInv

\* or fails in it,
LEMMA TurnRaisesStep ==
  ASSUME IInv, NEW t \in Teammate, TurnRaises(t)
  PROVE  IInv'
<1>1. TypeOK'
  BY DEF IInv, TurnRaises, Goto, PC, TypeOK
<1>2. AddressInv'
  BY DEF IInv, TurnRaises, Goto, AddressInv
<1>3. DirectoryInv'
  BY DEF IInv, TurnRaises, DirectoryInv
<1>4. ReportInv'
  BY DEF IInv, TurnRaises, Goto, ReportInv
<1>5. TakenIsWorkedOn'
  BY DEF IInv, TurnRaises, Goto, TakenIsWorkedOn
<1> QED BY <1>1, <1>2, <1>3, <1>4, <1>5 DEF IInv

\* tells the lead,
LEMMA ReportStep ==
  ASSUME IInv, NEW t \in Teammate, Report(t)
  PROVE  IInv'
<1>1. TypeOK'
  BY DEF IInv, Report, Goto, Move, Raise, Fetched, PC, TypeOK, Place
<1>2. AddressInv'
  BY DEF IInv, Report, Goto, Move, In, Raise, AddressInv, TypeOK
<1>3. DirectoryInv'
  BY DEF IInv, Report, DirectoryInv
<1>4. ReportInv'
  BY TeamsAssumption DEF IInv, Report, Goto, Move, In, Exiting, Raise, Fetched, Known,
     AddressInv, DirectoryInv, PC, ReportInv, TypeOK
<1>5. TakenIsWorkedOn'
  BY DEF IInv, Report, Goto, Move, In, Exiting, Raise, AddressInv, TakenIsWorkedOn,
     TypeOK
<1> QED BY <1>1, <1>2, <1>3, <1>4, <1>5 DEF IInv

\* looks its team up
LEMMA MarkStep ==
  ASSUME IInv, NEW t \in Teammate, Mark(t)
  PROVE  IInv'
<1>1. TypeOK'
  BY DEF IInv, Mark, Goto, GetTeam, PC, TypeOK
<1>2. AddressInv'
  BY DEF IInv, Mark, Goto, AddressInv
<1>3. DirectoryInv'
  BY DEF IInv, Mark, DirectoryInv
<1>4. ReportInv'
  BY DEF IInv, Mark, Goto, Known, Fetched, DirectoryInv, ReportInv
<1>5. TakenIsWorkedOn'
  BY DEF IInv, Mark, Goto, Exiting, TakenIsWorkedOn
<1> QED BY <1>1, <1>2, <1>3, <1>4, <1>5 DEF IInv

\* and marks itself idle,
LEMMA SaveStep ==
  ASSUME IInv, NEW t \in Teammate, Save(t)
  PROVE  IInv'
<1>1. TypeOK'
  BY DEF IInv, Save, Goto, SetIdle, PC, TypeOK
<1>2. AddressInv'
  BY DEF IInv, Save, Goto, SetIdle, AddressInv
<1>3. DirectoryInv'
  BY DEF IInv, Save, SetIdle, DirectoryInv
<1>4. ReportInv'
  BY DEF IInv, Save, Goto, SetIdle, AddressInv, ReportInv
<1>5. TakenIsWorkedOn'
  BY DEF IInv, Save, Goto, Exiting, SetIdle, TakenIsWorkedOn
<1> QED BY <1>1, <1>2, <1>3, <1>4, <1>5 DEF IInv

\* sleeps
LEMMA SleepStep ==
  ASSUME IInv, NEW t \in Teammate, Sleep(t)
  PROVE  IInv'
<1>1. TypeOK'
  BY DEF IInv, Sleep, Goto, Exiting, PC, TypeOK
<1>2. AddressInv'
  BY DEF IInv, Sleep, Goto, AddressInv
<1>3. DirectoryInv'
  BY DEF IInv, Sleep, DirectoryInv
<1>4. ReportInv'
  BY DEF IInv, Sleep, Goto, ReportInv
<1>5. TakenIsWorkedOn'
  BY DEF IInv, Sleep, Goto, Exiting, TakenIsWorkedOn
<1> QED BY <1>1, <1>2, <1>3, <1>4, <1>5 DEF IInv

\* and takes from its inbox what it waits for;
LEMMA PollStep ==
  ASSUME IInv, NEW t \in Teammate, Poll(t)
  PROVE  IInv'
<1>1. TypeOK'
  BY DEF IInv, Poll, Goto, Move, Exiting, Raise, PC, TypeOK, Place
<1>2. AddressInv'
  BY DEF IInv, Poll, Goto, Move, In, Raise, AddressInv, TypeOK
<1>3. DirectoryInv'
  BY DEF IInv, Poll, DirectoryInv
<1>4. ReportInv'
  BY DEF IInv, Poll, Goto, Raise, ReportInv, TypeOK
<1>5. TakenIsWorkedOn'
  BY DEF IInv, Poll, Goto, Move, In, Exiting, Raise, AddressInv, TakenIsWorkedOn, TypeOK
<1> QED BY <1>1, <1>2, <1>3, <1>4, <1>5 DEF IInv

\* after an exception, and after the loop, it
LEMMA FailStep ==
  ASSUME IInv, NEW t \in Teammate, Fail(t)
  PROVE  IInv'
<1>1. TypeOK'
  BY DEF IInv, Fail, Goto, Exiting, Fetched, PC, TypeOK
<1>2. AddressInv'
  BY DEF IInv, Fail, Goto, AddressInv
<1>3. DirectoryInv'
  BY DEF IInv, Fail, DirectoryInv
<1>4. ReportInv'
  BY DEF IInv, Fail, Goto, ReportInv
<1>5. TakenIsWorkedOn'
  BY DEF IInv, Fail, Goto, Exiting, TakenIsWorkedOn
<1> QED BY <1>1, <1>2, <1>3, <1>4, <1>5 DEF IInv

\* looks its team up
LEMMA LeaveStep ==
  ASSUME IInv, NEW t \in Teammate, Leave(t)
  PROVE  IInv'
<1>1. TypeOK'
  BY DEF IInv, Leave, Goto, Exiting, GetTeam, PC, TypeOK
<1>2. AddressInv'
  BY DEF IInv, Leave, Goto, AddressInv
<1>3. DirectoryInv'
  BY DEF IInv, Leave, DirectoryInv
<1>4. ReportInv'
  BY DEF IInv, Leave, Goto, ReportInv
<1>5. TakenIsWorkedOn'
  BY DEF IInv, Leave, Goto, Exiting, TakenIsWorkedOn
<1> QED BY <1>1, <1>2, <1>3, <1>4, <1>5 DEF IInv

\* and marks itself idle.
LEMMA UnlistStep ==
  ASSUME IInv, NEW t \in Teammate, Unlist(t)
  PROVE  IInv'
<1>1. TypeOK'
  BY DEF IInv, Unlist, Goto, Exiting, SetIdle, PC, TypeOK
<1>2. AddressInv'
  BY DEF IInv, Unlist, Goto, SetIdle, AddressInv
<1>3. DirectoryInv'
  BY DEF IInv, Unlist, SetIdle, DirectoryInv
<1>4. ReportInv'
  BY DEF IInv, Unlist, Goto, SetIdle, ReportInv
<1>5. TakenIsWorkedOn'
  BY DEF IInv, Unlist, Goto, Exiting, SetIdle, TakenIsWorkedOn
<1> QED BY <1>1, <1>2, <1>3, <1>4, <1>5 DEF IInv

\* The program is restarted.
LEMMA RestartStep ==
  ASSUME IInv, Restart
  PROVE  IInv'
<1>1. TypeOK'
  BY TeamsAssumption DEF IInv, Restart, Move, Exiting, PC, TypeOK, Place
<1>2. AddressInv'
  BY DEF IInv, Restart, Move, AddressInv
<1>3. DirectoryInv'
  BY DEF IInv, Restart, DirectoryInv
<1>4. ReportInv'
  BY DEF Restart, ReportInv
<1>5. TakenIsWorkedOn'
  BY DEF IInv, Restart, Move, Exiting, AddressInv, TakenIsWorkedOn
<1> QED BY <1>1, <1>2, <1>3, <1>4, <1>5 DEF IInv

(***************************************************************************)
(* The theorems                                                            *)
(***************************************************************************)

\* The invariant holds at the beginning.
LEMMA InitInv == Init => IInv
<1> SUFFICES ASSUME Init PROVE IInv
  OBVIOUS
<1>1. TypeOK
  <2>1. restarts \in 0 .. MaxRestarts
    BY TeamsAssumption DEF Init
  <2>2. pc \in [Teammate -> PC]
    BY DEF Init, PC
  <2>3. place \in [Message -> Place]
    BY DEF Init, Place
  <2>4. to \in [Message -> Teammate \cup {Nobody}]
    BY DEF Init
  <2>5. owed \subseteq Teammate /\ news \in BOOLEAN
    BY DEF Init
  <2>6. config \in BOOLEAN /\ boxes \in BOOLEAN /\ cached \subseteq {"team", "mailbox"}
    BY DEF Init
  <2>7. members \subseteq Teammate /\ idle \subseteq members /\ stop \subseteq members
    BY DEF Init
  <2>8. deleting \in {"no", "cancelled", "emptied", "removed", "done"}
    BY DEF Init
  <2> QED BY <2>1, <2>2, <2>3, <2>4, <2>5, <2>6, <2>7, <2>8 DEF TypeOK
<1>2. AddressInv /\ DirectoryInv /\ ReportInv /\ TakenIsWorkedOn
  BY DEF Init, AddressInv, DirectoryInv, ReportInv, TakenIsWorkedOn
<1> QED BY <1>1, <1>2 DEF IInv

\* Every step of the lead, of a teammate, or of the program keeps it.
LEMMA NextInv == IInv /\ [Next]_vars => IInv'
<1> SUFFICES ASSUME IInv, [Next]_vars PROVE IInv'
  OBVIOUS
<1>1. ASSUME NEW t \in Teammate, Spawn(t) \/ Loop(t) PROVE IInv'
  BY <1>1, SpawnStep, TopStep, DrainStep, TurnEndsStep, TurnRaisesStep, ReportStep,
     MarkStep, SaveStep, SleepStep, PollStep, FailStep, LeaveStep, UnlistStep DEF Loop
<1>2. ASSUME NEW t \in Teammate, NEW m \in Message, Send(m, t) PROVE IInv'
  BY <1>2, SendStep
<1>3. CASE DrainLead \/ LookUp \/ DeleteCancel \/ DeleteRest \/ Restart
  BY <1>3, DrainLeadStep, LookUpStep, DeleteCancelStep, DeleteInboxesStep,
     DeleteDirectoryStep, DeleteForgetStep, RestartStep DEF DeleteRest
<1>4. CASE UNCHANGED vars
  BY <1>4 DEF vars, IInv, TypeOK, AddressInv, DirectoryInv, ReportInv, TakenIsWorkedOn
<1> QED BY <1>1, <1>2, <1>3, <1>4 DEF Next

\* In every state of a team: where its messages are, which of its directories exist, and
\* how far each thread has come.
THEOREM Invariance == Spec => []IInv
BY InitInv, NextInv, PTL DEF Spec

\* The variables of a team keep their types.
THEOREM TypeCorrect == Spec => []TypeOK
<1>1. IInv => TypeOK
  BY DEF IInv
<1> QED BY <1>1, Invariance, PTL

\* What a teammate took from its inbox while it waited goes into its next turn; only
\* a loop that is over drops it.
THEOREM TakenStaysHeld == Spec => []TakenIsWorkedOn
<1>1. IInv => TakenIsWorkedOn
  BY DEF IInv
<1> QED BY <1>1, Invariance, PTL

\* A teammate that waits has reported its turns and stands as idle, as long as nobody
\* deletes the team.
THEOREM WaitingHasReported == Spec => []WaitingIsReported
<1>1. IInv => WaitingIsReported
  BY DEF IInv, ReportInv, WaitingIsReported
<1> QED BY <1>1, Invariance, PTL

\* No teammate begins a turn once delete_team has returned: it would need its mailbox.
THEOREM DeletedTakesNoTurn == Spec => NoTurnAfterDeletion
<1> DEFINE Step == \A t \in Teammate :
                     deleting = "done" /\ pc'[t] = "turn" => pc[t] = "turn"
<1>1. IInv /\ [Next]_vars => Step
  <2> SUFFICES ASSUME IInv, [Next]_vars, NEW t \in Teammate, deleting = "done",
                      pc'[t] = "turn", pc[t] # "turn"
               PROVE  FALSE
    OBVIOUS
  <2>1. ~boxes
    BY DEF IInv, DirectoryInv
  <2>2. ~ \E u \in Teammate : Drain(u)
    BY <2>1 DEF Drain, Raise, Goto, IInv, TypeOK
  <2> QED
    BY <2>2 DEF IInv, TypeOK, Next, vars, Spawn, Loop, Send, DrainLead, LookUp,
                DeleteCancel, DeleteRest, DeleteInboxes, DeleteDirectory, DeleteForget,
                Restart, Top, TurnEnds, TurnRaises, Report, Raise, Mark, Save, SetIdle,
                Sleep, Poll, Fail, Leave, Unlist, Goto
<1>2. IInv /\ [Next]_vars => [Step]_vars
  BY <1>1
<1> QED BY <1>2, Invariance, PTL DEF Spec, NoTurnAfterDeletion
===============================================================================
