---------------------------- MODULE Mailbox_proofs ----------------------------
(***************************************************************************)
(* Proofs about the inbox: for every number of actors, messages and attempts, *)
(* its lock is exclusive as long as nobody outlasts it, and then the inbox is  *)
(* the abstract one of module Inbox.  The inductive invariant IInv is in       *)
(* Mailbox.                                                                *)
(***************************************************************************)
EXTENDS Mailbox, SequenceTheorems, FiniteSetTheorems, Induction, TLAPS

(***************************************************************************)
(* What consume finds unread                                               *)
(***************************************************************************)

\* The recursion that defines Unread: the unread messages among the first i entries.
LEMMA UnreadRecursion ==
  ASSUME NEW entries \in Seq(Entry)
  PROVE  \E f \in [0 .. Len(entries) -> Seq(Message)] :
           /\ f[0] = << >>
           /\ \A i \in 1 .. Len(entries) :
                f[i] = IF entries[i].read THEN f[i - 1]
                       ELSE Append(f[i - 1], entries[i].msg)
           /\ Unread(entries) = f[Len(entries)]
<1> DEFINE n == Len(entries)
           next(x, i) == IF entries[i].read THEN x ELSE Append(x, entries[i].msg)
           step == [i \in 1 .. n |-> [x \in Seq(Message) |-> next(x, i)]]
           F == CHOOSE f : f = [i \in 0 .. n |-> IF i = 0 THEN << >>
                                                 ELSE IF entries[i].read THEN f[i - 1]
                                                 ELSE Append(f[i - 1], entries[i].msg)]
<1>1. n \in Nat /\ \A i \in 1 .. n : entries[i] \in Entry
  OBVIOUS
<1>2. \A i \in 1 .. n, x \in Seq(Message) : next(x, i) \in Seq(Message)
  BY <1>1, AppendProperties DEF Entry
<1>3. step \in [1 .. n -> [Seq(Message) -> Seq(Message)]]
  <2> HIDE DEF next
  <2> QED BY <1>2
<1>4. \A i \in 1 .. n, x \in Seq(Message) : step[i][x] = next(x, i)
  <2> HIDE DEF next
  <2> QED OBVIOUS
<1>5. PICK f \in [0 .. n -> Seq(Message)] :
        f[0] = << >> /\ \A i \in 1 .. n : f[i] = step[i][f[i - 1]]
  <2> DEFINE S == Seq(Message)
             base == << >>
  <2>1. base \in S /\ n \in Nat /\ step \in Steps(n, S)
    BY <1>1, <1>3 DEF Steps
  <2> HIDE DEF step, n, S, base
  <2>2. PICK f : Follows(f, n, S, base, step)
    BY <2>1, DefinedByRecursion
  <2> QED BY <2>2 DEF Follows, S, base
<1>6. \A i \in 1 .. n : f[i] = next(f[i - 1], i)
  <2> SUFFICES ASSUME NEW i \in 1 .. n
               PROVE  step[i][f[i - 1]] = next(f[i - 1], i)
    BY <1>5
  <2>1. f[i - 1] \in Seq(Message)
    OBVIOUS
  <2> HIDE DEF step, next
  <2> QED BY <1>4, <2>1
<1>7. f = [i \in 0 .. n |-> IF i = 0 THEN << >>
                            ELSE IF entries[i].read THEN f[i - 1]
                            ELSE Append(f[i - 1], entries[i].msg)]
  <2>1. f = [i \in 0 .. n |-> f[i]]
    OBVIOUS
  <2>2. \A i \in 0 .. n : i # 0 => i \in 1 .. n
    BY <1>1
  <2>3. \A i \in 0 .. n : f[i] = IF i = 0 THEN << >>
                                 ELSE IF entries[i].read THEN f[i - 1]
                                 ELSE Append(f[i - 1], entries[i].msg)
    BY <1>5, <1>6, <2>2
  <2> HIDE DEF step, n
  <2> QED BY <2>1, <2>3
<1>8. F = [i \in 0 .. n |-> IF i = 0 THEN << >>
                            ELSE IF entries[i].read THEN F[i - 1]
                            ELSE Append(F[i - 1], entries[i].msg)]
  BY <1>7
<1>9. Unread(entries) = F[n]
  BY DEF Unread
<1> HIDE DEF F
<1>10. F[0] = << >> /\ \A i \in 1 .. n : F[i] = next(F[i - 1], i)
  <2>1. 0 \in 0 .. n /\ \A i \in 1 .. n : i \in 0 .. n /\ i # 0
    BY <1>1
  <2> HIDE DEF n
  <2>2. F[0] = << >>
    BY <1>8, <2>1
  <2>3. \A i \in 1 .. n : F[i] = next(F[i - 1], i)
    BY <1>8, <2>1
  <2> QED BY <2>2, <2>3
<1>11. \A i \in 0 .. n : F[i] \in Seq(Message)
  <2> DEFINE P == {i \in 0 .. n : F[i] \in Seq(Message)}
  <2>1. 0 \in P
    <3>1. << >> \in Seq(Message) /\ 0 \in 0 .. n
      BY <1>1
    <3> QED BY <1>10, <3>1
  <2>2. ASSUME NEW i \in 0 .. n - 1, i \in P PROVE i + 1 \in P
    <3>1. i + 1 \in 1 .. n /\ (i + 1) - 1 = i
      BY <1>1
    <3> HIDE DEF next
    <3> QED BY <1>2, <1>10, <2>2, <3>1
  <2>3. \A i \in 0 .. n : i \in P
    <3> HIDE DEF P
    <3> QED BY <1>1, <2>1, <2>2, UpTo
  <2> QED BY <2>3
<1>12. F \in [0 .. n -> Seq(Message)]
  BY <1>8, <1>11
<1> QED BY <1>9, <1>10, <1>12

\* A message written to the inbox is unread, and comes last.
LEMMA UnreadAppend ==
  ASSUME NEW entries \in Seq(Entry), NEW m \in Message
  PROVE  /\ Append(entries, [msg |-> m, read |-> FALSE]) \in Seq(Entry)
         /\ Unread(Append(entries, [msg |-> m, read |-> FALSE]))
              = Append(Unread(entries), m)
<1> DEFINE n == Len(entries)
           e == [msg |-> m, read |-> FALSE]
           longer == Append(entries, e)
<1>1. e \in Entry /\ e.msg = m /\ e.read = FALSE
  BY DEF Entry
<1> HIDE DEF e
<1>2. /\ n \in Nat /\ longer \in Seq(Entry) /\ Len(longer) = n + 1
      /\ longer[n + 1] = e /\ \A i \in 1 .. n : longer[i] = entries[i]
  BY <1>1, AppendProperties
<1> HIDE DEF longer
<1>3. PICK f \in [0 .. n -> Seq(Message)] :
        /\ f[0] = << >>
        /\ \A i \in 1 .. n : f[i] = IF entries[i].read THEN f[i - 1]
                                    ELSE Append(f[i - 1], entries[i].msg)
        /\ Unread(entries) = f[n]
  BY UnreadRecursion
<1>4. PICK g \in [0 .. n + 1 -> Seq(Message)] :
        /\ g[0] = << >>
        /\ \A i \in 1 .. n + 1 : g[i] = IF longer[i].read THEN g[i - 1]
                                        ELSE Append(g[i - 1], longer[i].msg)
        /\ Unread(longer) = g[n + 1]
  BY <1>2, UnreadRecursion
<1>5. \A i \in 0 .. n : f[i] = g[i]
  <2> DEFINE P == {i \in 0 .. n : f[i] = g[i]}
  <2>1. 0 \in P
    BY <1>2, <1>3, <1>4
  <2>2. ASSUME NEW i \in 0 .. n - 1, i \in P PROVE i + 1 \in P
    <3>1. /\ i + 1 \in 1 .. n /\ i + 1 \in 1 .. n + 1 /\ (i + 1) - 1 = i
          /\ longer[i + 1] = entries[i + 1]
      BY <1>2
    <3> QED BY <1>3, <1>4, <2>2, <3>1
  <2>3. \A i \in 0 .. n : i \in P
    <3> HIDE DEF P
    <3> QED BY <1>2, <2>1, <2>2, UpTo
  <2> QED BY <2>3
<1>6. n + 1 \in 1 .. n + 1 /\ n \in 0 .. n /\ (n + 1) - 1 = n
  BY <1>2
<1>7. Unread(longer) = Append(Unread(entries), m)
  BY <1>1, <1>2, <1>3, <1>4, <1>5, <1>6
<1> QED BY <1>2, <1>7 DEF longer, e

\* Of an inbox that is marked read nothing is unread.
LEMMA UnreadMarked ==
  ASSUME NEW entries \in Seq(Entry)
  PROVE  /\ MarkRead(entries) \in Seq(Entry)
         /\ Unread(MarkRead(entries)) = << >>
<1> DEFINE marked == MarkRead(entries)
           n == Len(entries)
<1>1. n \in Nat /\ DOMAIN entries = 1 .. n /\ \A i \in 1 .. n : entries[i] \in Entry
  OBVIOUS
<1>2. \A i \in 1 .. n : /\ [entries[i] EXCEPT !.read = TRUE] \in Entry
                        /\ [entries[i] EXCEPT !.read = TRUE].read = TRUE
  BY <1>1 DEF Entry
<1>3. marked = [i \in 1 .. n |-> [entries[i] EXCEPT !.read = TRUE]]
  BY <1>1 DEF MarkRead
<1>4. marked \in Seq(Entry) /\ Len(marked) = n /\ \A i \in 1 .. n : marked[i].read = TRUE
  <2> HIDE DEF marked
  <2>1. marked \in [1 .. n -> Entry]
    BY <1>2, <1>3
  <2>2. marked \in Seq(Entry) /\ Len(marked) = n
    BY <1>1, <2>1
  <2>3. \A i \in 1 .. n : marked[i].read = TRUE
    BY <1>2, <1>3
  <2> QED BY <2>2, <2>3
<1> HIDE DEF marked
<1>5. PICK f \in [0 .. n -> Seq(Message)] :
        /\ f[0] = << >>
        /\ \A i \in 1 .. n : f[i] = IF marked[i].read THEN f[i - 1]
                                    ELSE Append(f[i - 1], marked[i].msg)
        /\ Unread(marked) = f[n]
  BY <1>4, UnreadRecursion
<1>6. \A i \in 0 .. n : f[i] = << >>
  <2> DEFINE P == {i \in 0 .. n : f[i] = << >>}
  <2>1. 0 \in P
    BY <1>1, <1>5
  <2>2. ASSUME NEW i \in 0 .. n - 1, i \in P PROVE i + 1 \in P
    <3>1. i + 1 \in 1 .. n /\ (i + 1) - 1 = i
      BY <1>1
    <3> QED BY <1>4, <1>5, <2>2, <3>1
  <2>3. \A i \in 0 .. n : i \in P
    <3> HIDE DEF P
    <3> QED BY <1>1, <2>1, <2>2, UpTo
  <2> QED BY <2>3
<1> QED BY <1>1, <1>4, <1>5, <1>6 DEF marked

\* What is unread are messages.
LEMMA UnreadType ==
  ASSUME NEW entries \in Seq(Entry)
  PROVE  Unread(entries) \in Seq(Message)
<1>1. Len(entries) \in Nat
  OBVIOUS
<1>2. Len(entries) \in 0 .. Len(entries)
  BY <1>1
<1> QED BY <1>2, UnreadRecursion

(***************************************************************************)
(* Every action keeps the inductive invariant                              *)
(***************************************************************************)

\* Moving one actor leaves the others where they are.
LEMMA GotoType ==
  ASSUME TypeOK, NEW a \in Actor, NEW to \in {"idle", "dead"} \cup Waiting \cup Inside,
         Goto(a, to)
  PROVE  /\ pc' \in [Actor -> {"idle", "dead"} \cup Waiting \cup Inside]
         /\ pc'[a] = to
         /\ \A b \in Actor \ {a} : pc'[b] = pc[b]
BY DEF TypeOK, Goto

\* An attempt that has failed leaves another one, or ends the call with an error, or the
\* order is gone.
LEMMA EndAttemptType ==
  ASSUME IInv, NEW a \in Actor, pc[a] \in Waiting,
         NEW error \in BOOLEAN, NEW clean \in BOOLEAN, EndAttempt(a, error, clean)
  PROVE  /\ pc' \in [Actor -> {"idle", "dead"} \cup Waiting \cup Inside]
         /\ tries' \in [Actor -> 0 .. Retries]
         /\ orderly' \in BOOLEAN
         /\ orderly' => orderly /\ clean /\ pc'[a] # "read"
         /\ pc'[a] \in {"try", "idle", "read"}
         /\ pc'[a] = "try" => tries'[a] < Retries
         /\ \A b \in Actor \ {a} : pc'[b] = pc[b] /\ tries'[b] = tries[b]
<1> USE MailboxAssumption DEF IInv, EndAttempt
<1>1. tries[a] \in Nat /\ tries[a] < Retries
  BY DEF TypeOK, AttemptInv
<1>2. /\ tries' \in [Actor -> 0 .. Retries]
      /\ tries'[a] = tries[a] + 1
      /\ \A b \in Actor \ {a} : tries'[b] = tries[b]
  BY <1>1 DEF TypeOK
<1>3. orderly' \in BOOLEAN /\ (orderly' => orderly /\ clean)
  BY DEF TypeOK
<1>4. PICK to \in {"try", "idle", "read"} :
        /\ Goto(a, to)
        /\ to = IF tries[a] + 1 < Retries THEN "try" ELSE IF error THEN "idle" ELSE "read"
  OBVIOUS
<1>5. /\ pc' \in [Actor -> {"idle", "dead"} \cup Waiting \cup Inside]
      /\ pc'[a] = to
      /\ \A b \in Actor \ {a} : pc'[b] = pc[b]
  BY <1>4, GotoType DEF Waiting, Inside
<1>6. to = "try" => tries'[a] < Retries
  BY <1>1, <1>2, <1>4
<1>7. orderly' => to # "read"
  <2> SUFFICES ASSUME orderly', to = "read" PROVE FALSE
    OBVIOUS
  <2>1. ~(tries[a] + 1 < Retries) /\ ~error
    BY <1>4
  <2>2. tries[a] + 1 = Retries
    BY <1>1, <2>1
  <2> QED BY <2>1, <2>2
<1> QED BY <1>2, <1>3, <1>4, <1>5, <1>6, <1>7

\* An actor that moves about outside of the protected part disturbs nothing.
LEMMA OutsideStep ==
  ASSUME IInv, NEW a \in Actor, pc[a] \notin Inside,
         pc' \in [Actor -> {"idle", "dead"} \cup Waiting \cup Inside],
         tries' \in [Actor -> 0 .. Retries],
         \A b \in Actor \ {a} : pc'[b] = pc[b] /\ tries'[b] = tries[b],
         pc'[a] \in Waiting => tries'[a] < Retries,
         pc'[a] \in {"truncate", "fill"} => FALSE,
         pc'[a] \in Waiting \cup Inside => op'[a] # None,
         op' \in [Actor -> Message \cup {Take, None}],
         op'[a] \in sent' \cup {Take, None},
         \A b \in Actor \ {a} : op'[b] = op[b],
         denied' \in [Actor -> BOOLEAN], takes' \in 0 .. MaxTakes,
         sent \subseteq sent', sent' \subseteq Message,
         lock' \in Actor \cup {None}, aged' \in BOOLEAN, orderly' \in BOOLEAN,
         UNCHANGED << file, torn, list, got, written, delivered >>,
         orderly' => /\ orderly
                     /\ pc'[a] \in Inside => lock = None /\ lock' = a
                     /\ \A b \in Actor \ {a} : pc[b] \in Inside /\ lock = b => lock' = b
  PROVE  IInv'
<1> USE DEF IInv
<1>1. TypeOK'
  BY DEF TypeOK
<1>2. CallInv'
  BY DEF CallInv
<1>3. AttemptInv'
  BY DEF AttemptInv
<1>4. OwnerInv'
  BY MailboxAssumption DEF OwnerInv
<1>5. TornInv'
  BY DEF TornInv, Inside
<1>6. CopyInv'
  BY DEF CopyInv
<1> QED BY <1>1, <1>2, <1>3, <1>4, <1>5, <1>6

\* A call begins.
LEMMA CallStep ==
  ASSUME IInv, NEW a \in Actor, NEW o \in Message \cup {Take}, Call(a, o),
         o \in sent' \cup {Take}, sent \subseteq sent', sent' \subseteq Message,
         takes' \in 0 .. MaxTakes
  PROVE  IInv'
<1> USE MailboxAssumption DEF IInv
<1>1. /\ pc' \in [Actor -> {"idle", "dead"} \cup Waiting \cup Inside]
      /\ pc[a] = "idle" /\ pc'[a] = "try"
      /\ \A b \in Actor \ {a} : pc'[b] = pc[b]
  BY GotoType DEF Call, Waiting
<1>2. /\ tries' \in [Actor -> 0 .. Retries] /\ tries'[a] = 0
      /\ \A b \in Actor \ {a} : tries'[b] = tries[b]
  <2>1. 0 \in 0 .. Retries /\ tries' = [tries EXCEPT ![a] = 0]
    BY DEF Call
  <2> QED BY <2>1 DEF TypeOK
<1>3. /\ op' \in [Actor -> Message \cup {Take, None}] /\ op'[a] = o /\ o # None
      /\ \A b \in Actor \ {a} : op'[b] = op[b]
  BY DEF Call, TypeOK
<1>4. denied' \in [Actor -> BOOLEAN]
  BY DEF Call, TypeOK
<1>5. /\ UNCHANGED << file, torn, lock, aged, list, got, written, delivered, orderly >>
      /\ lock' \in Actor \cup {None} /\ aged' \in BOOLEAN /\ orderly' \in BOOLEAN
  BY DEF Call, TypeOK
<1>6. 0 < Retries
  OBVIOUS
<1> QED
  BY <1>1, <1>2, <1>3, <1>4, <1>5, <1>6, OutsideStep DEF Waiting, Inside

\* The lock file is created, or its creation is refused.
LEMMA CreateLockStep ==
  ASSUME IInv, NEW a \in Actor, CreateLock(a)
  PROVE  IInv'
<1>1. /\ pc' \in [Actor -> {"idle", "dead"} \cup Waiting \cup Inside]
      /\ pc[a] = "try" /\ pc'[a] = "read"
      /\ \A b \in Actor \ {a} : pc'[b] = pc[b]
  BY GotoType DEF IInv, CreateLock, Inside
<1>2. /\ lock = None /\ lock' = a /\ aged' = FALSE
      /\ UNCHANGED << file, torn, op, tries, denied, list, got, sent, written, delivered,
                      takes, orderly >>
  BY DEF CreateLock
<1>3. \A b \in Actor : lock # b
  BY <1>2, MailboxAssumption
<1>4. op[a] # None /\ op[a] \in sent \cup {Take, None}
  BY <1>1 DEF IInv, CallInv, Waiting
<1> QED
  BY <1>1, <1>2, <1>3, <1>4, OutsideStep DEF IInv, TypeOK, Waiting, Inside

LEMMA RefusedStep ==
  ASSUME IInv, NEW a \in Actor, Refused(a)
  PROVE  IInv'
<1>1. /\ pc' \in [Actor -> {"idle", "dead"} \cup Waiting \cup Inside]
      /\ pc[a] = "try" /\ pc'[a] = "stat"
      /\ \A b \in Actor \ {a} : pc'[b] = pc[b]
  BY GotoType DEF IInv, Refused, Waiting
<1> QED
  BY <1>1, OutsideStep DEF Refused, IInv, TypeOK, CallInv, AttemptInv, Waiting, Inside

\* A lock file that is old may be reclaimed.
LEMMA LookStep ==
  ASSUME IInv, NEW a \in Actor, Look(a)
  PROVE  IInv'
<1> USE DEF IInv
<1>0. pc[a] = "stat"
  BY DEF Look
<1>1. CASE lock # None /\ aged
  <2>1. /\ pc' \in [Actor -> {"idle", "dead"} \cup Waiting \cup Inside]
        /\ pc'[a] = "reclaim"
        /\ \A b \in Actor \ {a} : pc'[b] = pc[b]
    BY <1>1, GotoType DEF Look, Waiting
  <2>2. UNCHANGED << tries, orderly >>
    BY <1>1 DEF Look
  <2> QED
    BY <1>0, <2>1, <2>2, OutsideStep
    DEF Look, TypeOK, CallInv, AttemptInv, Waiting, Inside
<1>2. CASE ~(lock # None /\ aged)
  <2>1. EndAttempt(a, denied[a], TRUE) /\ denied[a] \in BOOLEAN
    BY <1>2 DEF Look, TypeOK
  <2>2. /\ pc' \in [Actor -> {"idle", "dead"} \cup Waiting \cup Inside]
        /\ tries' \in [Actor -> 0 .. Retries]
        /\ orderly' \in BOOLEAN
        /\ orderly' => orderly /\ pc'[a] # "read"
        /\ pc'[a] \in {"try", "idle", "read"}
        /\ pc'[a] = "try" => tries'[a] < Retries
        /\ \A b \in Actor \ {a} : pc'[b] = pc[b] /\ tries'[b] = tries[b]
    BY <1>0, <2>1, EndAttemptType DEF Waiting
  <2> QED
    BY <1>0, <2>2, OutsideStep DEF Look, TypeOK, CallInv, Waiting, Inside
<1> QED BY <1>1, <1>2

\* A lock file is reclaimed: in order only that of an actor that died.
LEMMA ReclaimStep ==
  ASSUME IInv, NEW a \in Actor, Reclaim(a)
  PROVE  IInv'
<1> USE DEF IInv
<1> DEFINE clean == lock # None => ~Live(lock)
<1>1. pc[a] = "reclaim" /\ EndAttempt(a, denied[a], clean)
  BY DEF Reclaim
<1>2. clean \in BOOLEAN /\ denied[a] \in BOOLEAN
  BY DEF TypeOK
<1>3. orderly /\ clean => \A b \in Actor : pc[b] \notin Inside
  BY MailboxAssumption DEF OwnerInv, Live, Inside, TypeOK
<1> HIDE DEF clean
<1>4. /\ pc' \in [Actor -> {"idle", "dead"} \cup Waiting \cup Inside]
      /\ tries' \in [Actor -> 0 .. Retries]
      /\ orderly' \in BOOLEAN
      /\ orderly' => orderly /\ clean /\ pc'[a] # "read"
      /\ pc'[a] \in {"try", "idle", "read"}
      /\ pc'[a] = "try" => tries'[a] < Retries
      /\ \A b \in Actor \ {a} : pc'[b] = pc[b] /\ tries'[b] = tries[b]
  BY <1>1, <1>2, EndAttemptType DEF Waiting
<1>5. /\ lock' = None /\ aged' = FALSE
      /\ UNCHANGED << file, torn, op, denied, list, got, sent, written, delivered, takes >>
  BY DEF Reclaim
<1> QED
  BY <1>1, <1>3, <1>4, <1>5, OutsideStep DEF TypeOK, CallInv, Waiting, Inside

\* Creating the lock file fails for another reason: another attempt, or the call ends.
LEMMA DeniedStep ==
  ASSUME IInv, NEW a \in Actor, Denied(a)
  PROVE  IInv'
<1> USE DEF IInv
<1>1. pc[a] = "try" /\ EndAttempt(a, TRUE, TRUE)
  BY DEF Denied
<1>2. /\ pc' \in [Actor -> {"idle", "dead"} \cup Waiting \cup Inside]
      /\ tries' \in [Actor -> 0 .. Retries]
      /\ orderly' \in BOOLEAN
      /\ orderly' => orderly /\ pc'[a] # "read"
      /\ pc'[a] \in {"try", "idle", "read"}
      /\ pc'[a] = "try" => tries'[a] < Retries
      /\ \A b \in Actor \ {a} : pc'[b] = pc[b] /\ tries'[b] = tries[b]
  BY <1>1, EndAttemptType DEF Waiting
<1>3. denied' \in [Actor -> BOOLEAN]
  BY DEF Denied, TypeOK
<1> QED
  BY <1>1, <1>2, <1>3, OutsideStep DEF Denied, TypeOK, CallInv, Waiting, Inside

LEMMA OpenFailsStep ==
  ASSUME IInv, NEW a \in Actor, OpenFails(a)
  PROVE  IInv'
<1>1. /\ pc' \in [Actor -> {"idle", "dead"} \cup Waiting \cup Inside]
      /\ pc[a] = "try" /\ pc'[a] = "idle"
      /\ \A b \in Actor \ {a} : pc'[b] = pc[b]
  BY GotoType DEF IInv, OpenFails
<1> QED
  BY <1>1, OutsideStep DEF OpenFails, IInv, TypeOK, CallInv, Waiting, Inside

\* The inbox is read and changed in memory.  In order the file is not torn: the reader
\* is the only one inside.
LEMMA ReadStep ==
  ASSUME IInv, NEW a \in Actor, Read(a)
  PROVE  IInv'
<1> USE MailboxAssumption DEF IInv
<1> DEFINE entries == IF torn THEN << >> ELSE file
           new == IF op[a] = Take THEN MarkRead(entries)
                  ELSE Append(entries, [msg |-> op[a], read |-> FALSE])
           found == IF op[a] = Take THEN Unread(entries) ELSE << >>
<1>1. /\ pc' \in [Actor -> {"idle", "dead"} \cup Waiting \cup Inside]
      /\ pc[a] = "read" /\ pc'[a] = "truncate"
      /\ \A b \in Actor \ {a} : pc'[b] = pc[b]
  BY GotoType DEF Read, Inside
<1>2. entries \in Seq(Entry)
  BY DEF TypeOK
<1>3. op[a] # Take => op[a] \in Message
  BY <1>1 DEF TypeOK, CallInv, Inside
<1>4. new \in Seq(Entry) /\ found \in Seq(Message)
  <2> HIDE DEF entries
  <2>1. << >> \in Seq(Message)
    OBVIOUS
  <2> QED BY <1>2, <1>3, <2>1, UnreadAppend, UnreadMarked, UnreadType
<1>5. list' = [list EXCEPT ![a] = new] /\ got' = [got EXCEPT ![a] = found]
  BY DEF Read
<1>6. orderly => entries = file
  BY <1>1 DEF TornInv, OwnerInv, Inside
<1> HIDE DEF entries
<1>7. orderly => IF op[a] = Take
                   THEN new = MarkRead(file) /\ found = Unread(file)
                   ELSE /\ new = Append(file, [msg |-> op[a], read |-> FALSE])
                        /\ found = << >>
  BY <1>6
<1> HIDE DEF new, found
<1>8. /\ list' \in [Actor -> Seq(Entry)] /\ list'[a] = new
      /\ got' \in [Actor -> Seq(Message)] /\ got'[a] = found
      /\ \A b \in Actor \ {a} : list'[b] = list[b] /\ got'[b] = got[b]
  BY <1>4, <1>5 DEF TypeOK
<1>9. UNCHANGED << file, torn, lock, aged, op, tries, denied, sent, written, delivered,
                   takes, orderly >>
  BY DEF Read
<1>10. TypeOK'
  BY <1>1, <1>8, <1>9 DEF TypeOK
<1>11. CallInv' /\ AttemptInv' /\ OwnerInv' /\ TornInv'
  BY <1>1, <1>9 DEF CallInv, AttemptInv, OwnerInv, TornInv, Waiting, Inside
<1>12. CopyInv'
  BY <1>1, <1>7, <1>8, <1>9 DEF CopyInv
<1> QED BY <1>10, <1>11, <1>12

\* Opening the file for writing empties it.
LEMMA TruncateStep ==
  ASSUME IInv, NEW a \in Actor, Truncate(a)
  PROVE  IInv'
<1> USE DEF IInv
<1>1. /\ pc' \in [Actor -> {"idle", "dead"} \cup Waiting \cup Inside]
      /\ pc[a] = "truncate" /\ pc'[a] = "fill"
      /\ \A b \in Actor \ {a} : pc'[b] = pc[b]
  BY GotoType DEF Truncate, Inside
<1>2. /\ torn' = TRUE
      /\ UNCHANGED << file, lock, aged, op, tries, denied, list, got, sent, written,
                      delivered, takes, orderly >>
  BY DEF Truncate
<1>3. TypeOK'
  BY <1>1, <1>2 DEF TypeOK
<1>4. CallInv' /\ AttemptInv' /\ OwnerInv' /\ TornInv' /\ CopyInv'
  BY <1>1, <1>2 DEF CallInv, AttemptInv, OwnerInv, TornInv, CopyInv, Waiting, Inside
<1> QED BY <1>3, <1>4

\* The file is written.  In order nobody else has read it.
LEMMA FillStep ==
  ASSUME IInv, NEW a \in Actor, Fill(a)
  PROVE  IInv'
<1> USE DEF IInv
<1>1. /\ pc' \in [Actor -> {"idle", "dead"} \cup Waiting \cup Inside]
      /\ pc[a] = "fill" /\ pc'[a] = "unlock"
      /\ \A b \in Actor \ {a} : pc'[b] = pc[b]
  BY GotoType DEF Fill, Inside
<1>2. /\ file' = list[a] /\ torn' = FALSE /\ delivered' = delivered \o got[a]
      /\ UNCHANGED << lock, aged, op, tries, denied, list, got, sent, written, takes,
                      orderly >>
  BY DEF Fill
<1>3. TypeOK'
  <2>1. list[a] \in Seq(Entry) /\ delivered \o got[a] \in Seq(Message)
    BY ConcatProperties DEF TypeOK
  <2> QED BY <1>1, <1>2, <2>1 DEF TypeOK
<1>4. CallInv' /\ AttemptInv' /\ OwnerInv' /\ TornInv'
  BY <1>1, <1>2 DEF CallInv, AttemptInv, OwnerInv, TornInv, Waiting, Inside
<1>5. CopyInv'
  BY <1>1, <1>2 DEF CopyInv, OwnerInv, Inside
<1> QED BY <1>3, <1>4, <1>5

\* The lock file is removed.
LEMMA UnlockStep ==
  ASSUME IInv, NEW a \in Actor, Unlock(a)
  PROVE  IInv'
<1> USE MailboxAssumption DEF IInv
<1>1. /\ pc' \in [Actor -> {"idle", "dead"} \cup Waiting \cup Inside]
      /\ pc[a] = "unlock" /\ pc'[a] = "idle"
      /\ \A b \in Actor \ {a} : pc'[b] = pc[b]
  BY GotoType DEF Unlock
<1>2. /\ lock' = None /\ aged' = FALSE
      /\ UNCHANGED << file, torn, sent, delivered, takes, orderly >>
  BY DEF Unlock
<1>3. /\ op' \in [Actor -> Message \cup {Take, None}]
      /\ tries' \in [Actor -> 0 .. Retries]
      /\ denied' \in [Actor -> BOOLEAN]
      /\ list' \in [Actor -> Seq(Entry)]
      /\ got' \in [Actor -> Seq(Message)]
      /\ op'[a] = None
      /\ \A b \in Actor \ {a} :
           op'[b] = op[b] /\ tries'[b] = tries[b] /\ list'[b] = list[b] /\ got'[b] = got[b]
  <2>1. 0 \in 0 .. Retries /\ << >> \in Seq(Entry) /\ << >> \in Seq(Message)
    OBVIOUS
  <2> QED BY <2>1 DEF Unlock, TypeOK
<1>4. written' \subseteq sent'
  BY <1>2 DEF Unlock, CallInv, TypeOK
<1>5. TypeOK'
  BY <1>1, <1>2, <1>3, <1>4 DEF TypeOK
<1>6. CallInv' /\ AttemptInv'
  BY <1>1, <1>2, <1>3 DEF CallInv, AttemptInv, Waiting, Inside
<1>7. OwnerInv' /\ TornInv' /\ CopyInv'
  BY <1>1, <1>2, <1>3 DEF OwnerInv, TornInv, CopyInv, Inside
<1> QED BY <1>5, <1>6, <1>7

\* Time passes.
LEMMA AgeStep ==
  ASSUME IInv, Age
  PROVE  IInv'
BY DEF Age, IInv, TypeOK, CallInv, AttemptInv, OwnerInv, TornInv, CopyInv

\* An actor dies.
LEMMA DieStep ==
  ASSUME IInv, NEW a \in Actor, Die(a)
  PROVE  IInv'
<1> USE DEF IInv
<1>1. /\ pc' \in [Actor -> {"idle", "dead"} \cup Waiting \cup Inside]
      /\ pc'[a] = "dead"
      /\ \A b \in Actor \ {a} : pc'[b] = pc[b]
  BY GotoType DEF Die
<1>2. /\ orderly' = (orderly /\ pc[a] # "fill")
      /\ UNCHANGED << file, torn, lock, aged, op, tries, denied, list, got, sent, written,
                      delivered, takes >>
  BY DEF Die
<1>3. TypeOK'
  BY <1>1, <1>2 DEF TypeOK
<1>4. CallInv' /\ AttemptInv' /\ OwnerInv' /\ TornInv' /\ CopyInv'
  BY <1>1, <1>2 DEF CallInv, AttemptInv, OwnerInv, TornInv, CopyInv, Waiting, Inside
<1> QED BY <1>3, <1>4

(***************************************************************************)
(* The theorems                                                            *)
(***************************************************************************)

\* The invariant holds at the beginning.
LEMMA InitInv == Init => IInv
<1> SUFFICES ASSUME Init PROVE IInv
  OBVIOUS
<1>1. << >> \in Seq(Entry) /\ << >> \in Seq(Message) /\ 0 \in 0 .. Retries /\ 0 \in 0 .. MaxTakes
  BY MailboxAssumption
<1>2. TypeOK
  BY <1>1 DEF Init, TypeOK, Waiting, Inside
<1>3. CallInv /\ AttemptInv /\ OwnerInv /\ TornInv /\ CopyInv
  BY DEF Init, CallInv, AttemptInv, OwnerInv, TornInv, CopyInv, Waiting, Inside
<1> QED BY <1>2, <1>3 DEF IInv

\* Every step of an actor or of time keeps it.
LEMMA NextInv == IInv /\ [Next]_vars => IInv'
<1> SUFFICES ASSUME IInv, [Next]_vars PROVE IInv'
  OBVIOUS
<1>1. ASSUME NEW a \in Actor, WithLock(a) PROVE IInv'
  BY <1>1, CreateLockStep, RefusedStep, LookStep, ReclaimStep, DeniedStep, OpenFailsStep,
     ReadStep, TruncateStep, FillStep, UnlockStep DEF WithLock
<1>2. ASSUME NEW a \in Actor, Consume(a) PROVE IInv'
  <2>1. /\ Call(a, Take) /\ sent' = sent /\ sent \subseteq Message
        /\ takes' \in 0 .. MaxTakes
    BY <1>2, MailboxAssumption DEF Consume, IInv, TypeOK
  <2> QED BY <2>1, CallStep
<1>3. ASSUME NEW a \in Actor, NEW m \in Message, Write(a, m) PROVE IInv'
  <2>1. /\ Call(a, m) /\ sent' = sent \cup {m} /\ sent \subseteq Message
        /\ takes' \in 0 .. MaxTakes
    BY <1>3 DEF Write, IInv, TypeOK
  <2> QED BY <2>1, CallStep
<1>4. CASE UNCHANGED vars
  BY <1>4 DEF vars, IInv, TypeOK, CallInv, AttemptInv, OwnerInv, TornInv, CopyInv
<1> QED BY <1>1, <1>2, <1>3, <1>4, AgeStep, DieStep DEF Next

\* In every state of _with_lock and its callers: who holds the lock, what they have
\* read, and what is left of their attempts.
THEOREM Invariance == Spec => []IInv
BY InitInv, NextInv, PTL DEF Spec

\* The variables of the inbox keep their types.
THEOREM TypeCorrect == Spec => []TypeOK
<1>1. IInv => TypeOK
  BY DEF IInv
<1> QED BY <1>1, Invariance, PTL

\* As long as order is kept, one actor at a time is inside _with_lock.
THEOREM LockExcludes == Spec => []OneInside
<1>1. IInv => OneInside
  <2> SUFFICES ASSUME IInv, orderly
               PROVE  Cardinality({a \in Actor : pc[a] \in Inside}) <= 1
    BY DEF OneInside
  <2> DEFINE I == {a \in Actor : pc[a] \in Inside}
  <2>1. I \subseteq {lock}
    BY DEF IInv, OwnerInv
  <2>2. I = {} \/ I = {lock}
    BY <2>1
  <2> HIDE DEF I
  <2>3. Cardinality(I) <= 1
    <3>1. Cardinality({}) = 0 /\ Cardinality({lock}) = 1
      BY FS_EmptySet, FS_Singleton
    <3> QED BY <2>2, <3>1
  <2> QED BY <2>3 DEF I
<1> QED BY <1>1, Invariance, PTL

\* As long as order is kept, writes and calls of consume act on the inbox as on the
\* abstract one: what a write appends comes last, and consume takes all that is unread,
\* once and in order, whatever else goes on in between and whoever died before.
THEOREM InboxIsOrderly == Spec => OrderlyInbox
<1> DEFINE Step == orderly' => Box!Next \/ UNCHANGED Box!box
<1>1. IInv /\ [Next]_vars => Step
  <2> SUFFICES ASSUME IInv, [Next]_vars, orderly'
               PROVE  Box!Next \/ UNCHANGED Box!box
    OBVIOUS
  <2>1. CASE \E a \in Actor : Fill(a)
    <3>1. PICK a \in Actor : Fill(a)
      BY <2>1
    <3>2. /\ orderly /\ pc[a] = "fill"
          /\ file' = list[a] /\ delivered' = delivered \o got[a]
      BY <3>1 DEF Fill
    <3>3. file \in Seq(Entry) /\ delivered \in Seq(Message)
      BY DEF IInv, TypeOK
    <3>4. CASE op[a] = Take
      <4>1. file' = MarkRead(file) /\ delivered' = delivered \o Unread(file)
        BY <3>2, <3>4 DEF IInv, CopyInv
      <4>2. Unread(file)' = << >>
        BY <3>3, <4>1, UnreadMarked
      <4> QED BY <4>1, <4>2 DEF Box!Next, Box!TakeAll
    <3>5. CASE op[a] # Take
      <4>1. op[a] \in Message
        BY <3>2, <3>5 DEF IInv, TypeOK, CallInv, Inside
      <4>2. /\ file' = Append(file, [msg |-> op[a], read |-> FALSE])
            /\ delivered' = delivered \o << >>
        BY <3>2, <3>5 DEF IInv, CopyInv
      <4>3. Unread(file)' = Append(Unread(file), op[a])
        BY <3>3, <4>1, <4>2, UnreadAppend
      <4>4. delivered' = delivered
        BY <3>3, <4>2, ConcatEmptySeq
      <4> QED BY <4>1, <4>3, <4>4 DEF Box!Next, Box!Append1
    <3> QED BY <3>4, <3>5
  <2>2. CASE ~\E a \in Actor : Fill(a)
    <3>1. UNCHANGED << file, delivered >>
      BY <2>2 DEF Next, WithLock, CreateLock, Refused, Look, Reclaim, Denied, OpenFails,
                  Read, Truncate, Unlock, Consume, Write, Call, Die, Age, vars
    <3>2. Unread(file)' = Unread(file)
      BY <3>1
    <3> QED BY <3>1, <3>2 DEF Box!box
  <2> QED BY <2>1, <2>2
<1>2. IInv /\ [Next]_vars => [Step]_vars
  BY <1>1
<1> QED BY <1>2, Invariance, PTL DEF Spec, OrderlyInbox
===============================================================================
