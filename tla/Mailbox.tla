------------------------------- MODULE Mailbox -------------------------------
(***************************************************************************)
(* One inbox of src/lilbot/teams/mailbox.py: a JSON file and the companion  *)
(* lock file that Mailbox._with_lock creates with O_EXCL around every       *)
(* read-modify-write.  The actors are threads of any process: the lead,     *)
(* teammates, a second program on the same workspace.  Any of them may be   *)
(* slow at any point, and may die there, leaving its lock file behind.      *)
(***************************************************************************)
EXTENDS Integers, Sequences, FiniteSets

CONSTANTS
  Actor,      \* threads that use the inbox
  Message,    \* messages that may be written to it, each at most once
  Retries,    \* attempts at the lock before going on without it (40)
  MaxTakes,   \* bound of the model: calls of consume
  MaxDeaths,  \* bound of the model: actors that die
  Take, None  \* the operation "consume"; no operation, no owner

ASSUME MailboxAssumption ==
  /\ Retries \in Nat \ {0}
  /\ MaxTakes \in Nat
  /\ MaxDeaths \in Nat
  /\ Take \notin Message
  /\ None \notin Message \cup {Take} \cup Actor

VARIABLES
  file,       \* the entries of {agent_id}.json
  torn,       \* the file was truncated and is not yet written
  lock,       \* who created {agent_id}.json.lock, None if it does not exist
  aged,       \* the lock file is more than 10 seconds old
  pc,         \* where each actor is in _with_lock
  op,         \* what it is doing: a message to append, or Take
  tries,      \* how often it was refused the lock
  denied,     \* it met a PermissionError on the way (last_err)
  list,       \* its copy of the inbox, after fn
  got,        \* what its consume found unread
  sent,       \* messages that some write was called with
  written,    \* messages whose write returned normally
  delivered,  \* what the calls of consume handed out, in order
  takes,      \* calls of consume so far
  orderly     \* no actor worked beside the protection of the lock so far

vars == << file, torn, lock, aged, pc, op, tries, denied, list, got, sent,
           written, delivered, takes, orderly >>

Entry == [msg: Message, read: BOOLEAN]

Waiting == {"try", "stat", "reclaim"}
Inside  == {"read", "truncate", "fill", "unlock"}
Live(a) == pc[a] # "dead"

Goto(a, to) == pc' = [pc EXCEPT ![a] = to]

\* The messages that are not marked as read, in the order of the file.
Unread(entries) ==
  LET upTo[i \in 0 .. Len(entries)] ==
        IF i = 0 THEN << >>
        ELSE IF entries[i].read THEN upTo[i - 1]
        ELSE Append(upTo[i - 1], entries[i].msg)
  IN  upTo[Len(entries)]

MarkRead(entries) == [i \in DOMAIN entries |-> [entries[i] EXCEPT !.read = TRUE]]

(***************************************************************************)
(* Calls                                                                   *)
(***************************************************************************)

Call(a, o) ==
  /\ pc[a] = "idle"
  /\ op' = [op EXCEPT ![a] = o]
  /\ tries' = [tries EXCEPT ![a] = 0]
  /\ denied' = [denied EXCEPT ![a] = FALSE]
  /\ Goto(a, "try")
  /\ UNCHANGED << file, torn, lock, aged, list, got, written, delivered, orderly >>

Write(a, m) ==
  /\ m \notin sent
  /\ sent' = sent \cup {m}
  /\ Call(a, m)
  /\ UNCHANGED takes

Consume(a) ==
  /\ takes < MaxTakes
  /\ takes' = takes + 1
  /\ Call(a, Take)
  /\ UNCHANGED sent

(***************************************************************************)
(* The retry loop of _with_lock                                            *)
(***************************************************************************)

\* Mutant: the file is opened without O_EXCL.
CreateLockAnyway(a) ==
  /\ pc[a] = "try"
  /\ lock' = a
  /\ aged' = FALSE
  /\ Goto(a, "read")
  /\ UNCHANGED << file, torn, op, tries, denied, list, got, sent, written,
                  delivered, takes, orderly >>

CreateLock(a) ==
  /\ pc[a] = "try"
  /\ lock = None
  /\ lock' = a
  /\ aged' = FALSE
  /\ Goto(a, "read")
  /\ UNCHANGED << file, torn, op, tries, denied, list, got, sent, written,
                  delivered, takes, orderly >>

Refused(a) ==
  /\ pc[a] = "try"
  /\ lock # None
  /\ Goto(a, "stat")
  /\ UNCHANGED << file, torn, lock, aged, op, tries, denied, list, got, sent,
                  written, delivered, takes, orderly >>

\* Mutant: attempts are not counted.
EndAttemptUncounted(a, error, clean) ==
  /\ Goto(a, "try")
  /\ orderly' = (orderly /\ clean)
  /\ UNCHANGED tries

\* The end of an attempt that failed.  After the last one the loop is over: the
\* call raises if it met a PermissionError, and goes on without the lock if not.
EndAttempt(a, error, clean) ==
  /\ tries' = [tries EXCEPT ![a] = @ + 1]
  /\ Goto(a, IF tries[a] + 1 < Retries THEN "try"
             ELSE IF error THEN "idle" ELSE "read")
  /\ orderly' = (orderly /\ clean /\ (tries[a] + 1 = Retries => error))

\* A lock file that is not old, or is gone by now, is left alone.
Look(a) ==
  /\ pc[a] = "stat"
  /\ IF lock # None /\ aged
       THEN Goto(a, "reclaim") /\ UNCHANGED << tries, orderly >>
       ELSE EndAttempt(a, denied[a], TRUE)
  /\ UNCHANGED << file, torn, lock, aged, op, denied, list, got, sent, written,
                  delivered, takes >>

\* unlink removes whatever lock file is there by now.
Reclaim(a) ==
  /\ pc[a] = "reclaim"
  /\ lock' = None
  /\ aged' = FALSE
  /\ EndAttempt(a, denied[a], lock # None => ~Live(lock))
  /\ UNCHANGED << file, torn, op, denied, list, got, sent, written, delivered,
                  takes >>

\* PermissionError: on Windows, another thread is just creating or unlinking.
Denied(a) ==
  /\ pc[a] = "try"
  /\ denied' = [denied EXCEPT ![a] = TRUE]
  /\ EndAttempt(a, TRUE, TRUE)
  /\ UNCHANGED << file, torn, lock, aged, op, list, got, sent, written,
                  delivered, takes >>

\* Any other OSError ends the call at once.
OpenFails(a) ==
  /\ pc[a] = "try"
  /\ Goto(a, "idle")
  /\ UNCHANGED << file, torn, lock, aged, op, tries, denied, list, got, sent,
                  written, delivered, takes, orderly >>

(***************************************************************************)
(* The read-modify-write                                                   *)
(***************************************************************************)

\* Mutant: consume does not mark what it returns.
ReadUnmarked(a) ==
  /\ pc[a] = "read"
  /\ LET entries == IF torn THEN << >> ELSE file
     IN  /\ list' = [list EXCEPT ![a] =
                       IF op[a] = Take
                         THEN entries
                         ELSE Append(entries, [msg |-> op[a], read |-> FALSE])]
         /\ got' = [got EXCEPT ![a] =
                      IF op[a] = Take THEN Unread(entries) ELSE << >>]
  /\ Goto(a, "truncate")
  /\ UNCHANGED << file, torn, lock, aged, op, tries, denied, sent, written,
                  delivered, takes, orderly >>

\* _read_inbox, then fn: a file that does not parse counts as empty.
Read(a) ==
  /\ pc[a] = "read"
  /\ LET entries == IF torn THEN << >> ELSE file
     IN  /\ list' = [list EXCEPT ![a] =
                       IF op[a] = Take
                         THEN MarkRead(entries)
                         ELSE Append(entries, [msg |-> op[a], read |-> FALSE])]
         /\ got' = [got EXCEPT ![a] =
                      IF op[a] = Take THEN Unread(entries) ELSE << >>]
  /\ Goto(a, "truncate")
  /\ UNCHANGED << file, torn, lock, aged, op, tries, denied, sent, written,
                  delivered, takes, orderly >>

\* write_text opens the file, which empties it, and then writes it.
Truncate(a) ==
  /\ pc[a] = "truncate"
  /\ torn' = TRUE
  /\ Goto(a, "fill")
  /\ UNCHANGED << file, lock, aged, op, tries, denied, list, got, sent, written,
                  delivered, takes, orderly >>

Fill(a) ==
  /\ pc[a] = "fill"
  /\ file' = list[a]
  /\ torn' = FALSE
  /\ delivered' = delivered \o got[a]
  /\ Goto(a, "unlock")
  /\ UNCHANGED << lock, aged, op, tries, denied, list, got, sent, written, takes,
                  orderly >>

\* The finally block unlinks the lock file, whoever created it.
Unlock(a) ==
  /\ pc[a] = "unlock"
  /\ lock' = None
  /\ aged' = FALSE
  /\ written' = written \cup ({op[a]} \ {Take})
  /\ op' = [op EXCEPT ![a] = None]
  /\ tries' = [tries EXCEPT ![a] = 0]
  /\ denied' = [denied EXCEPT ![a] = FALSE]
  /\ list' = [list EXCEPT ![a] = << >>]
  /\ got' = [got EXCEPT ![a] = << >>]
  /\ Goto(a, "idle")
  /\ UNCHANGED << file, torn, sent, delivered, takes, orderly >>

(***************************************************************************)
(* The environment                                                         *)
(***************************************************************************)

\* Ten seconds pass.  A live owner that takes so long is out of order.
Age ==
  /\ lock # None /\ ~aged
  /\ aged' = TRUE
  /\ UNCHANGED << file, torn, lock, pc, op, tries, denied, list, got, sent,
                  written, delivered, takes, orderly >>

\* The process of an actor dies.  If it does so while the file is truncated, the
\* messages are gone.
Die(a) ==
  /\ Live(a)
  /\ Cardinality({b \in Actor : ~Live(b)}) < MaxDeaths
  /\ Goto(a, "dead")
  /\ orderly' = (orderly /\ pc[a] # "fill")
  /\ UNCHANGED << file, torn, lock, aged, op, tries, denied, list, got, sent,
                  written, delivered, takes >>

Init ==
  /\ file = << >>
  /\ torn = FALSE
  /\ lock = None
  /\ aged = FALSE
  /\ pc = [a \in Actor |-> "idle"]
  /\ op = [a \in Actor |-> None]
  /\ tries = [a \in Actor |-> 0]
  /\ denied = [a \in Actor |-> FALSE]
  /\ list = [a \in Actor |-> << >>]
  /\ got = [a \in Actor |-> << >>]
  /\ sent = {}
  /\ written = {}
  /\ delivered = << >>
  /\ takes = 0
  /\ orderly = TRUE

WithLock(a) ==
  \/ CreateLock(a) \/ Refused(a) \/ Look(a) \/ Reclaim(a) \/ Denied(a) \/ OpenFails(a)
  \/ Read(a) \/ Truncate(a) \/ Fill(a) \/ Unlock(a)

Next ==
  \/ \E a \in Actor : WithLock(a) \/ Consume(a) \/ Die(a)
  \/ \E a \in Actor, m \in Message : Write(a, m)
  \/ Age

Spec == Init /\ [][Next]_vars

\* A thread that is inside a call goes on with it: every sleep is finite.
FairSpec == Spec /\ \A a \in Actor : WF_vars(WithLock(a))

(***************************************************************************)
(* Properties                                                              *)
(***************************************************************************)

TypeOK ==
  /\ file \in Seq(Entry)
  /\ torn \in BOOLEAN
  /\ lock \in Actor \cup {None}
  /\ aged \in BOOLEAN
  /\ pc \in [Actor -> {"idle", "dead"} \cup Waiting \cup Inside]
  /\ op \in [Actor -> Message \cup {Take, None}]
  /\ tries \in [Actor -> 0..Retries]
  /\ denied \in [Actor -> BOOLEAN]
  /\ list \in [Actor -> Seq(Entry)]
  /\ got \in [Actor -> Seq(Message)]
  /\ written \subseteq sent /\ sent \subseteq Message
  /\ delivered \in Seq(Message)
  /\ takes \in 0..MaxTakes
  /\ orderly \in BOOLEAN

\* As long as no actor outlasted the retries of another, no live owner's lock was
\* taken for a dead one's, and none died inside a write: one actor at a time is
\* between reading and writing the inbox.
OneInside ==
  orderly => Cardinality({a \in Actor : pc[a] \in Inside}) <= 1

\* Every message whose write returned is in the inbox or was handed out.
NoMessageLost ==
  \A m \in written :
    \/ \E i \in DOMAIN file : file[i].msg = m
    \/ \E i \in DOMAIN delivered : delivered[i] = m

Box == INSTANCE Inbox WITH unread <- Unread(file)

\* As long as order is kept, the inbox is the abstract one: each message is taken
\* once, in the order of the writes, and a lock whose owner died between two
\* steps is reclaimed without loss.
OrderlyInbox ==
  [][orderly' => Box!Next \/ UNCHANGED Box!box]_vars

(***************************************************************************)
(* Why the inbox is exclusive and orderly: an invariant that is inductive.   *)
(***************************************************************************)

\* A call has something to do, and a message that is being written was sent.
CallInv ==
  \A a \in Actor :
    /\ op[a] \in sent \cup {Take, None}
    /\ pc[a] \in Waiting \cup Inside => op[a] # None

\* Who still tries for the lock has attempts left.
AttemptInv == \A a \in Actor : pc[a] \in Waiting => tries[a] < Retries

\* Who is inside owns the lock file.
OwnerInv == orderly => \A a \in Actor : pc[a] \in Inside => lock = a

\* The file is torn only while somebody writes it.
TornInv == orderly /\ torn => \E a \in Actor : pc[a] = "fill"

\* What is about to be written is what the file has become since, changed by the call.
CopyInv ==
  orderly =>
    \A a \in Actor : pc[a] \in {"truncate", "fill"} =>
      IF op[a] = Take
        THEN list[a] = MarkRead(file) /\ got[a] = Unread(file)
        ELSE /\ list[a] = Append(file, [msg |-> op[a], read |-> FALSE])
             /\ got[a] = << >>

IInv == TypeOK /\ CallInv /\ AttemptInv /\ OwnerInv /\ TornInv /\ CopyInv

\* No call waits for ever, not even for the lock of an owner that died: the
\* attempts are counted.
CallsReturn ==
  \A a \in Actor : pc[a] \notin {"idle", "dead"} ~> pc[a] \in {"idle", "dead"}
=============================================================================
