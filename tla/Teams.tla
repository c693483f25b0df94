-------------------------------- MODULE Teams --------------------------------
(***************************************************************************)
(* A team of long-running teammates (src/lilbot/teams): the thread of each   *)
(* teammate (spawn_inprocess.py), the manager's cache and the team directory *)
(* on disk (manager.py), and the lead, who spawns teammates, sends messages, *)
(* drains its own inbox and deletes the team in several steps while the      *)
(* teammates' threads go on.                                               *)
(*                                                                         *)
(* An inbox is the atomic one of module Inbox, which module Mailbox is shown *)
(* to implement.  A message is at one place at a time, so the state of all   *)
(* inboxes is the place of every message.                                  *)
(***************************************************************************)
EXTENDS Naturals, FiniteSets

CONSTANTS
  Teammate,     \* names; each is spawned at most once
  Text,         \* messages with text, sent to one teammate each
  Shutdown,     \* shutdown requests, sent to one teammate each
  MaxRestarts,  \* bound of the model: restarts of the program
  Nobody        \* the addressee of a message that was not sent

ASSUME TeamsAssumption ==
  /\ IsFiniteSet(Teammate) /\ Nobody \notin Teammate
  /\ Text \cap Shutdown = {}
  /\ MaxRestarts \in Nat

Message == Text \cup Shutdown

VARIABLES
  config,    \* <team>/config.json exists
  boxes,     \* <team>/mailbox exists
  cached,    \* what the manager has in memory: the team, its mailbox
  members,   \* the members of the team object
  idle,      \* those of them with is_active = False
  stop,      \* teammates whose stop event is set
  pc,        \* where each teammate's thread is
  to, place, \* each message's addressee, and where it is
  owed,      \* teammates that finished a turn the lead has not been told of
  news,      \* the lead's inbox has unread messages
  deleting,  \* how far delete_team has come
  restarts

vars == << config, boxes, cached, members, idle, stop, pc, to, place,
           owed, news, deleting, restarts >>

Exiting == {"leaving", "unlisting", "gone"}
PC == {"none", "top", "drain", "turn", "report", "mark", "save", "sleep", "poll",
       "failing"} \cup Exiting
Place == {"unsent", "inbox", "held", "turn", "dropped", "erased"}

Goto(t, there) == pc' = [pc EXCEPT ![t] = there]

In(t, p) == {m \in Message : to[m] = t /\ place[m] = p}

Move(messages, p) ==
  place' = [m \in Message |-> IF m \in messages THEN p ELSE place[m]]

\* get_team and get_mailbox: the cache, or else the disk, which is then cached.
Fetched == cached \cup (IF config THEN {"team"} ELSE {})
                  \cup (IF boxes THEN {"mailbox"} ELSE {})
GetTeam == cached \cup ({"team"} \cap Fetched)
Known == "team" \in Fetched

LeadFree == deleting \in {"no", "done"}

(***************************************************************************)
(* The lead                                                                *)
(***************************************************************************)

\* _spawn_teammate: the member is registered and saved, the thread started and
\* its handle kept.
Spawn(t) ==
  /\ LeadFree
  /\ Known
  /\ pc[t] = "none"
  /\ cached' = Fetched
  /\ config' = TRUE
  /\ members' = members \cup {t}
  /\ Goto(t, "top")
  /\ UNCHANGED << boxes, idle, stop, to, place, owed, news, deleting, restarts
                  >>

\* send_message, by the lead or by a teammate in its turn: only to a member of a
\* team that has a mailbox.
Send(m, t) ==
  /\ Known /\ boxes
  /\ LeadFree \/ \E u \in Teammate : pc[u] = "turn"
  /\ t \in members
  /\ place[m] = "unsent"
  /\ cached' = Fetched
  /\ to' = [to EXCEPT ![m] = t]
  /\ Move({m}, "inbox")
  /\ UNCHANGED << config, boxes, members, idle, stop, pc, owed, news, deleting,
                  restarts >>

\* drain_lead_mailbox, at the top of each iteration of the lead's loop: teams that
\* are not in the cache are not looked at.
DrainLead ==
  /\ LeadFree
  /\ "team" \in cached
  /\ boxes
  /\ news
  /\ news' = FALSE
  /\ cached' = Fetched
  /\ UNCHANGED << config, boxes, members, idle, stop, pc, to, place, owed,
                  deleting, restarts >>

\* list_teams puts a team from disk into the cache.
LookUp ==
  /\ LeadFree
  /\ GetTeam # cached
  /\ cached' = GetTeam
  /\ UNCHANGED << config, boxes, members, idle, stop, pc, to, place, owed,
                  news, deleting, restarts >>

\* delete_team, first the members: a handle that is there is cancelled.
DeleteCancel ==
  /\ LeadFree
  /\ Known
  /\ cached' = Fetched
  /\ stop' = stop \cup {t \in members : pc[t] \notin {"none", "gone"}}
  /\ deleting' = "cancelled"
  /\ UNCHANGED << config, boxes, members, idle, pc, to, place, owed, news,
                  restarts >>

\* Mutant: rmtree leaves the mailbox's directory.
DeleteDirectoryButMailbox ==
  /\ deleting = "emptied"
  /\ config' = FALSE
  /\ deleting' = "removed"
  /\ UNCHANGED << boxes, cached, members, idle, stop, pc, to, place, owed,
                  news, restarts >>

\* then the inboxes (cleanup_all), then the directory (_remove_dir),
DeleteInboxes ==
  /\ deleting = "cancelled"
  /\ Move({m \in Message : place[m] = "inbox"}, "erased")
  /\ news' = FALSE
  /\ deleting' = "emptied"
  /\ UNCHANGED << config, boxes, cached, members, idle, stop, pc, to, owed,
                  restarts >>

DeleteDirectory ==
  /\ deleting = "emptied"
  /\ config' = FALSE
  /\ boxes' = FALSE
  /\ Move({m \in Message : place[m] = "inbox"}, "erased")
  /\ news' = FALSE
  /\ deleting' = "removed"
  /\ UNCHANGED << cached, members, idle, stop, pc, to, owed, restarts >>

\* and last the cache.
DeleteForget ==
  /\ deleting = "removed"
  /\ cached' = {}
  /\ deleting' = "done"
  /\ UNCHANGED << config, boxes, members, idle, stop, pc, to, place, owed,
                  news, restarts >>

(***************************************************************************)
(* The thread of a teammate: _loop                                         *)
(***************************************************************************)

\* `while not stop.is_set()`
Top(t) ==
  /\ pc[t] = "top"
  /\ Goto(t, IF t \in stop THEN "leaving" ELSE "drain")
  /\ Move(IF t \in stop THEN In(t, "held") ELSE {}, "dropped")
  /\ UNCHANGED << config, boxes, cached, members, idle, stop, to, owed, news,
                  deleting, restarts >>

\* Mutant: a mailbox that cannot be read is taken for an empty one.
RaiseNothing(t) ==
  /\ ~boxes
  /\ Goto(t, "sleep")
  /\ UNCHANGED place

\* Without the mailbox directory the lock cannot be created: consume raises.
Raise(t) ==
  /\ ~boxes
  /\ Goto(t, "failing")
  /\ Move(In(t, "held"), "dropped")

\* _inject_pending, and the start of the turn.
Drain(t) ==
  /\ pc[t] = "drain"
  /\ \/ Raise(t)
     \/ /\ boxes
        /\ Move(In(t, "inbox") \cup In(t, "held"), "turn")
        /\ Goto(t, "turn")
  /\ UNCHANGED << config, boxes, cached, members, idle, stop, to, owed, news,
                  deleting, restarts >>

\* Mutant: the lead is told of failures only.
TurnEndsUnreported(t) ==
  /\ pc[t] = "turn"
  /\ owed' = owed \cup {t}
  /\ Goto(t, "mark")
  /\ UNCHANGED << config, boxes, cached, members, idle, stop, to, place, news,
                  deleting, restarts >>

\* run_one_turn returns, or raises.
TurnEnds(t) ==
  /\ pc[t] = "turn"
  /\ owed' = owed \cup {t}
  /\ Goto(t, "report")
  /\ UNCHANGED << config, boxes, cached, members, idle, stop, to, place, news,
                  deleting, restarts >>

TurnRaises(t) ==
  /\ pc[t] = "turn"
  /\ Goto(t, "failing")
  /\ UNCHANGED << config, boxes, cached, members, idle, stop, to, place, owed,
                  news, deleting, restarts >>

\* notify_lead: nothing if the team or its mailbox is gone; an exception if only
\* the mailbox's directory is; else a message in the lead's inbox.
Report(t) ==
  /\ pc[t] = "report"
  /\ \/ /\ Fetched # {"team", "mailbox"}
        /\ Goto(t, "mark")
        /\ UNCHANGED << place, owed, news >>
     \/ /\ Fetched = {"team", "mailbox"}
        /\ Raise(t)
        /\ UNCHANGED << owed, news >>
     \/ /\ Known /\ boxes
        /\ owed' = owed \ {t}
        /\ news' = TRUE
        /\ Goto(t, "mark")
        /\ UNCHANGED place
  /\ cached' = Fetched
  /\ UNCHANGED << config, boxes, members, idle, stop, to, deleting, restarts >>

\* set_member_idle: get_team,
Mark(t) ==
  /\ pc[t] = "mark"
  /\ Goto(t, IF Known THEN "save" ELSE "sleep")
  /\ cached' = GetTeam
  /\ UNCHANGED << config, boxes, members, idle, stop, to, place, owed, news,
                  deleting, restarts >>

\* then is_active = False and team.save(), which creates the team's directory if
\* it has to.
SetIdle(t, next) ==
  /\ idle' = idle \cup ({t} \cap members)
  /\ config' = TRUE
  /\ Goto(t, next)
  /\ UNCHANGED << boxes, cached, members, stop, to, place, owed, news,
                  deleting, restarts >>

Save(t) == pc[t] = "save" /\ SetIdle(t, "sleep")

\* _wait_for_next, one round: the stop event, the pause,
Sleep(t) ==
  /\ pc[t] = "sleep"
  /\ Goto(t, IF t \in stop THEN "leaving" ELSE "poll")
  /\ UNCHANGED << config, boxes, cached, members, idle, stop, to, place, owed,
                  news, deleting, restarts >>

\* Mutant: only the text of a batch is looked at.
PollForText(t) ==
  /\ pc[t] = "poll"
  /\ \/ Raise(t)
     \/ /\ boxes
        /\ Move(In(t, "inbox"), "held")
        /\ Goto(t, IF In(t, "inbox") \cap Text = {} THEN "sleep" ELSE "top")
  /\ UNCHANGED << config, boxes, cached, members, idle, stop, to, owed, news,
                  deleting, restarts >>

\* Mutant: a shutdown request is taken from the inbox only together with text.
PollOneKind(t) ==
  /\ pc[t] = "poll"
  /\ \/ Raise(t)
     \/ /\ boxes
        /\ IF In(t, "inbox") \cap Text = {}
             THEN Goto(t, "sleep") /\ UNCHANGED place
             ELSE Goto(t, "top") /\ Move(In(t, "inbox"), "held")
  /\ UNCHANGED << config, boxes, cached, members, idle, stop, to, owed, news,
                  deleting, restarts >>

\* consume: a shutdown request ends the loop, and what came with it is dropped;
\* so is everything once the stop event is set.
Poll(t) ==
  /\ pc[t] = "poll"
  /\ \/ Raise(t)
     \/ /\ boxes
        /\ In(t, "inbox") = {}
        /\ Goto(t, "sleep")
        /\ UNCHANGED place
     \/ /\ boxes
        /\ In(t, "inbox") # {}
        /\ IF In(t, "inbox") \cap Shutdown # {} \/ t \in stop
             THEN /\ Move(In(t, "inbox"), "dropped")
                  /\ Goto(t, "leaving")
             ELSE /\ Move(In(t, "inbox"), "held")
                  /\ Goto(t, "top")
  /\ UNCHANGED << config, boxes, cached, members, idle, stop, to, owed, news,
                  deleting, restarts >>

\* The exception handler: a last message to the lead, which may fail silently.
Fail(t) ==
  /\ pc[t] = "failing"
  /\ news' = (news \/ (Fetched = {"team", "mailbox"} /\ boxes))
  /\ cached' = Fetched
  /\ Goto(t, "leaving")
  /\ UNCHANGED << config, boxes, members, idle, stop, to, place, owed,
                  deleting, restarts >>

\* The finally block: on_teammate_completed is set_member_idle again.
Leave(t) ==
  /\ pc[t] = "leaving"
  /\ Goto(t, IF Known THEN "unlisting" ELSE "gone")
  /\ cached' = GetTeam
  /\ UNCHANGED << config, boxes, members, idle, stop, to, place, owed, news,
                  deleting, restarts >>

Unlist(t) == pc[t] = "unlisting" /\ SetIdle(t, "gone")

(***************************************************************************)
(* A restart: threads, events, handles and caches are gone; files are not.  *)
(***************************************************************************)

Restart ==
  /\ restarts < MaxRestarts
  /\ restarts' = restarts + 1
  /\ cached' = {}
  /\ stop' = {}
  /\ pc' = [t \in Teammate |-> IF pc[t] = "none" THEN "none" ELSE "gone"]
  /\ Move({m \in Message : place[m] = "held"}, "dropped")
  /\ deleting' = IF deleting = "done" THEN "done" ELSE "no"
  /\ UNCHANGED << config, boxes, members, idle, to, owed, news >>

Init ==
  /\ config = TRUE /\ boxes = TRUE /\ cached = {"team", "mailbox"}
  /\ members = {} /\ idle = {} /\ stop = {}
  /\ pc = [t \in Teammate |-> "none"]
  /\ to = [m \in Message |-> Nobody]
  /\ place = [m \in Message |-> "unsent"]
  /\ owed = {} /\ news = FALSE
  /\ deleting = "no"
  /\ restarts = 0

DeleteRest == DeleteInboxes \/ DeleteDirectory \/ DeleteForget

Loop(t) ==
  \/ Top(t) \/ Drain(t) \/ TurnEnds(t) \/ TurnRaises(t) \/ Report(t) \/ Mark(t)
  \/ Save(t) \/ Sleep(t) \/ Poll(t) \/ Fail(t) \/ Leave(t) \/ Unlist(t)

Next ==
  \/ \E t \in Teammate : Spawn(t) \/ Loop(t)
  \/ \E t \in Teammate, m \in Message : Send(m, t)
  \/ DrainLead \/ LookUp \/ DeleteCancel \/ DeleteRest \/ Restart

Spec == Init /\ [][Next]_vars

(***************************************************************************)
(* A thread that can go on does: the model's calls and the tools return, or  *)
(* raise.  delete_team, once begun, runs to its end.  Nothing else is       *)
(* assumed of the lead.                                                    *)
(***************************************************************************)
FairSpec == Spec /\ WF_vars(DeleteRest) /\ \A t \in Teammate : WF_vars(Loop(t))

(***************************************************************************)
(* Properties                                                              *)
(***************************************************************************)

\* The values the variables take.
TypeOK ==
  /\ config \in BOOLEAN /\ boxes \in BOOLEAN
  /\ cached \subseteq {"team", "mailbox"}
  /\ members \subseteq Teammate /\ idle \subseteq members /\ stop \subseteq members
  /\ pc \in [Teammate -> PC]
  /\ to \in [Message -> Teammate \cup {Nobody}]
  /\ place \in [Message -> Place]
  /\ owed \subseteq Teammate /\ news \in BOOLEAN
  /\ deleting \in {"no", "cancelled", "emptied", "removed", "done"}
  /\ restarts \in 0 .. MaxRestarts

\* consume marks messages read before anyone has acted on them.  What a teammate
\* took while it waited it holds until its next turn takes it in: it is never
\* forgotten by a teammate that goes back to waiting, and it is thrown away only
\* by a teammate whose loop is over.
TakenIsWorkedOn ==
  \A m \in Message :
    /\ place[m] = "held" => pc[to[m]] \in {"top", "drain"}
    /\ place[m] = "dropped" => pc[to[m]] \in Exiting \cup {"failing"}

\* As long as nobody deletes the team, a teammate that waits for work has told the
\* lead of every turn it finished and stands on disk as idle; the lead, which
\* neither blocks nor polls, has nothing else to learn it from.
WaitingIsReported ==
  \A t \in Teammate :
    pc[t] \in {"sleep", "poll"} /\ deleting = "no" =>
      t \notin owed /\ t \in idle

\* Once delete_team has returned no teammate starts another turn (which would edit
\* files on behalf of a team that is gone); one in the middle of a turn may end it.
NoTurnAfterDeletion ==
  [][\A t \in Teammate :
       deleting = "done" /\ pc'[t] = "turn" => pc[t] = "turn"]_vars

(***************************************************************************)
(* Why they hold: an invariant that is inductive.                           *)
(***************************************************************************)

\* A message that was sent has an addressee, and a thread belongs to a member.
AddressInv ==
  /\ \A m \in Message : place[m] # "unsent" => to[m] \in Teammate
  /\ \A t \in Teammate : pc[t] # "none" => t \in members

\* The mailbox's directory is in the team's, and both are removed before the team is
\* forgotten.
DirectoryInv ==
  /\ boxes => config
  /\ deleting \in {"removed", "done"} => ~boxes

\* While nobody deletes the team, a thread that has come as far as a turn has found its
\* mailbox; after its report the lead knows of the turn, and before it waits it is idle.
ReportInv ==
  deleting = "no" =>
    \A t \in Teammate :
      /\ pc[t] \in {"turn", "report", "mark", "save", "sleep", "poll"} => boxes
      /\ pc[t] \in {"mark", "save", "sleep", "poll"} => t \notin owed
      /\ pc[t] \in {"sleep", "poll"} => t \in idle

IInv == TypeOK /\ AddressInv /\ DirectoryInv /\ ReportInv /\ TakenIsWorkedOn

\* Every thread of a deleted team ends, by its stop event or by the exception that
\* the missing mailbox raises, wherever delete_team met it.
DeletionEndsThreads ==
  \A t \in Teammate : deleting = "done" ~> pc[t] \in {"none", "gone"}

\* A message in the inbox of a teammate is taken in the end, unless the team is
\* deleted or the thread of the teammate is over.
InboxIsRead ==
  \A m \in Message :
    place[m] = "inbox" ~> (place[m] # "inbox" \/ pc[to[m]] = "gone")

\* A shutdown request that finds its teammate waiting ends it, whatever else comes
\* with it in the batch.
ShutdownEndsWaiting ==
  \A m \in Shutdown, t \in Teammate :
    to[m] = t /\ place[m] = "inbox" /\ pc[t] \in {"sleep", "poll"} ~> pc[t] = "gone"

\* What test_teams.py expects of delete_team: the team is gone for get_team, on
\* disk as in memory.  It is not: set_member_idle of a thread that has its team
\* object in hand saves it afterwards.
DeletedStaysDeleted == deleting = "done" => ~Known
=============================================================================
