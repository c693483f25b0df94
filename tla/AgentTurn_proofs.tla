-------------------------- MODULE AgentTurn_proofs --------------------------
(***************************************************************************)
(* Proofs about the agent's loop, for any limits and any number of turns: it  *)
(* asks the model a bounded number of times per turn, its requests have every  *)
(* call with its results and lack nothing that was not broken off, and the     *)
(* question and the latest results are in them in full.  The inductive          *)
(* invariants StepsPayForRounds, IInv and BlocksInv are in AgentTurn.           *)
(***************************************************************************)
EXTENDS AgentTurn, SequenceTheorems, FiniteSetTheorems, Induction, TLAPS

\* The limits are numbers.
LEMMA Limits ==
  /\ MaxSteps \in Nat /\ MaxTruncations \in Nat /\ MaxContinuations \in Nat
  /\ MaxCalls \in Nat /\ MaxRecoveries \in Nat /\ MaxFailures \in Nat
  /\ MaxTurns \in Nat /\ MaxNotes \in Nat /\ MaxRestarts \in Nat
BY AgentTurnAssumption

\* So are the counters, and calls are announced, run and reported in order.
LEMMA Numbers ==
  ASSUME TypeOK
  PROVE  /\ steps \in Nat /\ rounds \in Nat /\ calls \in Nat /\ ran \in Nat /\ reported \in Nat
         /\ reported <= ran /\ ran <= calls
         /\ truncations \in Nat /\ stops \in Nat /\ attempts \in Nat
         /\ turns \in Nat /\ notes \in Nat /\ restarts \in Nat
<1>1. {steps, rounds, calls, ran, reported} \subseteq Nat
  BY DEF TypeOK
<1>2. reported <= ran /\ ran <= calls
  BY DEF TypeOK
<1>3. truncations \in Nat /\ stops \in Nat /\ attempts \in Nat
  BY Limits DEF TypeOK
<1>4. turns \in Nat /\ notes \in Nat /\ restarts \in Nat
  BY Limits DEF TypeOK
<1> QED BY <1>1, <1>2, <1>3, <1>4

(***************************************************************************)
(* How often the model is asked                                            *)
(***************************************************************************)

LEMMA InitCounts == Init => StepsPayForRounds
  BY Limits DEF Init, StepsPayForRounds

\* Steps that neither count nor move the control into or out of the execution of
\* calls.
LEMMA ElsewhereCounts ==
  ASSUME StepsPayForRounds, UNCHANGED << steps, truncations, stops, rounds >>,
         UNCHANGED callVars, pc # "act", pc' # "act"
  PROVE  StepsPayForRounds'
  BY DEF StepsPayForRounds, callVars

\* Leaving a turn in whatever state.
LEMMA LeaveCounts ==
  ASSUME StepsPayForRounds, Leave, calls' = calls, ran' = calls, reported' = calls
  PROVE  StepsPayForRounds'
  BY Limits DEF StepsPayForRounds, Leave

LEMMA TurnCounts == StepsPayForRounds /\ Turn => StepsPayForRounds'
  <1> SUFFICES ASSUME StepsPayForRounds, Turn PROVE StepsPayForRounds'
    OBVIOUS
  <1> USE Limits
  <1>1. CASE Budget \/ CompactIfLarge \/ CompactIfLong \/ Overflow
    <2>1. /\ UNCHANGED << steps, truncations, stops, rounds >> /\ UNCHANGED callVars
          /\ pc # "act" /\ pc' # "act"
      BY <1>1 DEF Budget, CompactIfLarge, CompactIfLong, Overflow, turnVars
    <2> QED BY <2>1, ElsewhereCounts
  <1>2. CASE Loop
    <2>1. /\ UNCHANGED << steps, truncations, stops, rounds >> /\ UNCHANGED callVars
          /\ pc # "act" /\ pc' # "act"
      BY <1>2 DEF Loop, turnVars
    <2> QED BY <2>1, ElsewhereCounts
  <1>3. CASE GoOn
    <2>1. /\ pc = "request" /\ pc' = "loop" /\ rounds' = rounds + 1 /\ steps' = steps
          /\ calls' = calls /\ ran' = ran /\ reported' = reported
      BY <1>3 DEF GoOn, Answered, callVars
    <2>2. \/ /\ truncations < MaxTruncations
             /\ truncations' = truncations + 1 /\ stops' = stops
          \/ /\ stops < MaxContinuations
             /\ stops' = stops + 1 /\ truncations' = truncations
      BY <1>3 DEF GoOn, CutOff, StopHook
    <2> QED BY <2>1, <2>2 DEF StepsPayForRounds
  <1>4. CASE Answer \/ Synthesize
    <2>0. pc # "act"
      BY <1>4 DEF Answer, Synthesize
    <2>1. calls = reported /\ calls = ran
      <3>1. /\ calls \in Nat /\ ran \in Nat /\ reported \in Nat
            /\ reported <= ran /\ ran <= calls /\ ~(reported < calls)
        BY <2>0 DEF StepsPayForRounds
      <3> QED BY <3>1
    <2>2. Leave /\ UNCHANGED callVars
      BY <1>4 DEF Answer, Synthesize, End
    <2> QED BY <2>1, <2>2, LeaveCounts DEF callVars
  <1>5. CASE Announce
    <2>1. PICK n \in 1 .. MaxCalls : steps + n <= MaxSteps /\ calls' = calls + n
      BY <1>5 DEF Announce
    <2>2. /\ pc = "request" /\ pc' = "act" /\ rounds' = rounds + 1
          /\ UNCHANGED << steps, truncations, stops, ran, reported >>
      BY <1>5 DEF Announce, Answered
    <2> QED BY <2>1, <2>2 DEF StepsPayForRounds
  <1>6. CASE RunBatch
    <2>1. /\ UNCHANGED << pc, steps, truncations, stops, rounds, calls, reported >>
          /\ ran' \in ran + 1 .. calls
      BY <1>6 DEF RunBatch, turnVars
    <2> QED BY <2>1 DEF StepsPayForRounds
  <1>7. CASE Report
    <2>1. /\ pc = "act" /\ reported < ran /\ reported' = reported + 1
          /\ steps' = steps + 1 /\ UNCHANGED << truncations, stops, rounds, calls, ran >>
          /\ pc' = IF reported + 1 = calls THEN "loop" ELSE "act"
      BY <1>7 DEF Report
    <2> QED BY <2>1 DEF StepsPayForRounds
  <1> QED BY <1>1, <1>2, <1>3, <1>4, <1>5, <1>6, <1>7 DEF Turn

LEMMA OtherCounts ==
  StepsPayForRounds /\ (Ask \/ Raise \/ CompactNow \/ Reset \/ Resume \/ Restart)
    => StepsPayForRounds'
  <1> SUFFICES ASSUME StepsPayForRounds,
                      Ask \/ Raise \/ CompactNow \/ Reset \/ Resume \/ Restart
               PROVE  StepsPayForRounds'
    OBVIOUS
  <1>1. CASE Ask \/ CompactNow \/ Reset \/ Resume
    <2>1. /\ UNCHANGED << steps, truncations, stops, rounds >> /\ UNCHANGED callVars
          /\ pc # "act" /\ pc' # "act"
      BY <1>1 DEF Ask, CompactNow, Reset, Resume, turnVars
    <2> QED BY <2>1, ElsewhereCounts
  <1>2. CASE Raise \/ Restart
    <2>1. Leave /\ calls' = calls /\ ran' = calls /\ reported' = calls
      BY <1>2 DEF Raise, Restart
    <2> QED BY <2>1, LeaveCounts
  <1> QED BY <1>1, <1>2

\* In every turn, the calls fit into the step budget and the answers of the model
\* are paid for: the inductive invariant of run_turn's loop.
THEOREM RoundsArePaidFor == Spec => []StepsPayForRounds
  <1>1. StepsPayForRounds /\ [Next]_vars => StepsPayForRounds'
    <2>1. StepsPayForRounds /\ UNCHANGED vars => StepsPayForRounds'
      BY DEF StepsPayForRounds, vars, turnVars, callVars
    <2> QED BY <2>1, TurnCounts, OtherCounts DEF Next
  <1> QED BY <1>1, InitCounts, PTL DEF Spec

\* No turn of run_turn runs more than max_steps calls, and none asks the model more
\* often than its limits allow, whatever the model, the tools, the stop hooks and
\* the compactions do.
THEOREM TurnsAreBounded == Spec => []BoundedTurn
  <1>1. StepsPayForRounds => BoundedTurn
    BY Limits DEF StepsPayForRounds, BoundedTurn
  <1> QED BY <1>1, RoundsArePaidFor, PTL

(***************************************************************************)
(* What the filter makes of a transcript: Request                          *)
(***************************************************************************)

\* The results that follow a message are the same in a longer transcript, if it goes on
\* with something that is not a result.
LEMMA SameBlock ==
  ASSUME NEW p \in Seq(Message), NEW s \in Seq(Message), Len(p) <= Len(s),
         \A k \in 1 .. Len(p) : s[k] = p[k],
         Len(p) < Len(s) => ~IsResult(s[Len(p) + 1]),
         NEW j \in 1 .. Len(p)
  PROVE  Block(s, j) = Block(p, j)
<1>1. Len(p) \in Nat /\ Len(s) \in Nat
  OBVIOUS
<1>2. ASSUME NEW i \in Block(s, j) PROVE i \in Block(p, j)
  <2>1. i \in j + 1 .. Len(s) /\ \A k \in j + 1 .. i : IsResult(s[k])
    BY <1>2 DEF Block
  <2>2. i <= Len(p)
    <3>1. SUFFICES ASSUME i > Len(p) PROVE FALSE
      BY <1>1, <2>1
    <3>2. Len(p) + 1 \in j + 1 .. i /\ Len(p) < Len(s)
      BY <1>1, <2>1, <3>1
    <3> QED BY <2>1, <3>2
  <2>3. \A k \in j + 1 .. i : s[k] = p[k]
    BY <1>1, <2>1, <2>2
  <2> QED BY <1>1, <2>1, <2>2, <2>3 DEF Block, IsResult
<1>3. ASSUME NEW i \in Block(p, j) PROVE i \in Block(s, j)
  <2>1. i \in j + 1 .. Len(p) /\ \A k \in j + 1 .. i : IsResult(p[k])
    BY <1>3 DEF Block
  <2>2. \A k \in j + 1 .. i : s[k] = p[k]
    BY <1>1, <2>1
  <2> QED BY <1>1, <2>1, <2>2 DEF Block, IsResult
<1> QED BY <1>2, <1>3

\* A paired transcript stays so when a block of calls and results that is complete, or
\* no block at all, is put after it.
LEMMA PairedPrefix ==
  ASSUME NEW p \in Seq(Message), NEW s \in Seq(Message), Len(p) < Len(s),
         \A k \in 1 .. Len(p) : s[k] = p[k],
         Paired(p),
         ~IsResult(s[Len(p) + 1]),
         \A k \in Len(p) + 2 .. Len(s) : IsResult(s[k]),
         \/ s[Len(p) + 1].kind # "calls" /\ Len(s) = Len(p) + 1
         \/ /\ s[Len(p) + 1].kind = "calls"
            /\ s[Len(p) + 1].ids = UNION {s[k].ids : k \in Len(p) + 2 .. Len(s)}
            /\ Cardinality(s[Len(p) + 1].ids) = Len(s) - (Len(p) + 1)
  PROVE  Paired(s)
<1> DEFINE l == Len(p)
           n == Len(s)
           b == l + 1
<1>1. /\ l \in Nat /\ n \in Nat /\ b \in 1 .. n /\ b = l + 1
      /\ DOMAIN s = 1 .. n /\ DOMAIN p = 1 .. l
  OBVIOUS
<1>shape. /\ \A k \in 1 .. l : s[k] = p[k]
          /\ ~IsResult(s[b])
          /\ \A k \in b + 1 .. n : IsResult(s[k])
          /\ \/ s[b].kind # "calls" /\ n = b
             \/ /\ s[b].kind = "calls"
                /\ s[b].ids = UNION {s[k].ids : k \in b + 1 .. n}
                /\ Cardinality(s[b].ids) = n - b
  OBVIOUS
<1>2. \A j \in 1 .. l : Block(s, j) = Block(p, j)
  BY SameBlock
<1>block. Block(s, b) = {i \in b + 1 .. n : \A k \in b + 1 .. i : IsResult(s[k])}
  BY DEF Block
<1>inside. \A j \in 1 .. l : \A i \in Block(p, j) : i \in j + 1 .. l
  BY DEF Block
<1> HIDE DEF b, l, n
<1>3. Block(s, b) = b + 1 .. n
  <2>1. ASSUME NEW i \in b + 1 .. n, NEW k \in b + 1 .. i PROVE IsResult(s[k])
    <3>1. k \in b + 1 .. n
      BY <1>1, <2>1
    <3> QED BY <1>shape, <3>1
  <2> QED BY <1>block, <2>1
<1>4. \A i \in 1 .. n : i \in 1 .. l \/ i = b \/ i \in b + 1 .. n
  BY <1>1
<1>5. ASSUME NEW i \in DOMAIN s, IsResult(s[i])
      PROVE  \E j \in 1 .. i - 1 : s[j].kind = "calls" /\ i \in Block(s, j)
  <2>1. CASE i \in 1 .. l
    <3>1. IsResult(p[i])
      BY <1>shape, <1>5, <2>1 DEF IsResult
    <3>2. PICK j \in 1 .. i - 1 : p[j].kind = "calls" /\ i \in Block(p, j)
      BY <1>1, <2>1, <3>1 DEF Paired
    <3>3. j \in 1 .. l
      BY <1>1, <2>1
    <3> QED BY <1>shape, <1>2, <3>2, <3>3
  <2>2. CASE i \in b + 1 .. n
    <3>1. s[b].kind = "calls" /\ b \in 1 .. i - 1
      BY <1>shape, <1>1, <2>2
    <3> QED BY <1>3, <2>2, <3>1
  <2>3. i # b
    BY <1>shape, <1>5
  <2> QED BY <1>1, <1>4, <2>1, <2>2, <2>3
<1>6. ASSUME NEW j \in DOMAIN s, s[j].kind = "calls"
      PROVE  /\ s[j].ids = UNION {s[i].ids : i \in Block(s, j)}
             /\ Cardinality(Block(s, j)) = Cardinality(s[j].ids)
  <2>1. CASE j \in 1 .. l
    <3>1. /\ p[j].ids = UNION {p[i].ids : i \in Block(p, j)}
          /\ Cardinality(Block(p, j)) = Cardinality(p[j].ids)
      BY <1>shape, <1>1, <1>6, <2>1 DEF Paired
    <3>2. \A i \in Block(p, j) : i \in 1 .. l
      BY <1>1, <1>inside, <2>1
    <3>3. {p[i].ids : i \in Block(p, j)} = {s[i].ids : i \in Block(p, j)}
      BY <1>shape, <3>2
    <3> QED BY <1>shape, <1>2, <2>1, <3>1, <3>3
  <2>2. CASE j = b
    <3>1. Cardinality(b + 1 .. n) = n - b
      <4>1. b + 1 \in Int /\ n \in Int /\ (b + 1 > n => n - b = 0) /\ n - (b + 1) + 1 = n - b
        BY <1>1
      <4> QED BY <4>1, FS_Interval
    <3> QED BY <1>shape, <1>1, <1>3, <1>6, <2>2, <3>1
  <2>3. ~(j \in b + 1 .. n)
    BY <1>shape, <1>6 DEF IsResult
  <2> QED BY <1>1, <1>4, <2>1, <2>2, <2>3
<1> QED BY <1>5, <1>6 DEF Paired

\* The calls whose results come after a message.
Returned(s, j) == UNION {s[k].ids : k \in j + 1 .. Len(s)}

\* What the filter has made of the messages so far: a transcript that is paired, and
\* perhaps, after it, an announcement with some of its results, while the others are
\* pending.
Filtering ==
  {f \in [clean: Seq(Message), pending: SUBSET Nat, start: Nat] :
     IF f.pending = {} THEN Paired(f.clean)
     ELSE /\ f.start \in 1 .. Len(f.clean)
          /\ Paired(SubSeq(f.clean, 1, f.start - 1))
          /\ f.clean[f.start].kind = "calls"
          /\ \A k \in f.start + 1 .. Len(f.clean) : IsResult(f.clean[k])
          /\ f.clean[f.start].ids = f.pending \cup Returned(f.clean, f.start)
          /\ IsFiniteSet(f.clean[f.start].ids)
          /\ Cardinality(f.clean[f.start].ids) =
               Cardinality(f.pending) + Len(f.clean) - f.start}

\* A filter in the middle of a block.
LEMMA InBlock ==
  ASSUME NEW clean \in Seq(Message), NEW pending \in SUBSET Nat, pending # {},
         NEW start \in 1 .. Len(clean),
         Paired(SubSeq(clean, 1, start - 1)),
         clean[start].kind = "calls",
         \A k \in start + 1 .. Len(clean) : IsResult(clean[k]),
         clean[start].ids = pending \cup Returned(clean, start),
         IsFiniteSet(clean[start].ids),
         Cardinality(clean[start].ids) = Cardinality(pending) + Len(clean) - start
  PROVE  [clean |-> clean, pending |-> pending, start |-> start] \in Filtering
<1> DEFINE r == [clean |-> clean, pending |-> pending, start |-> start]
<1>1. /\ r \in [clean: Seq(Message), pending: SUBSET Nat, start: Nat]
      /\ r.clean = clean /\ r.pending = pending /\ r.start = start
  OBVIOUS
<1> HIDE DEF r
<1>2. /\ r.start \in 1 .. Len(r.clean)
      /\ Paired(SubSeq(r.clean, 1, r.start - 1))
      /\ r.clean[r.start].kind = "calls"
  BY <1>1
<1>3. \A k \in r.start + 1 .. Len(r.clean) : IsResult(r.clean[k])
  BY <1>1
<1>4. /\ r.clean[r.start].ids = r.pending \cup Returned(r.clean, r.start)
      /\ IsFiniteSet(r.clean[r.start].ids)
      /\ Cardinality(r.clean[r.start].ids)
           = Cardinality(r.pending) + Len(r.clean) - r.start
  BY <1>1
<1> QED BY <1>1, <1>2, <1>3, <1>4 DEF Filtering

\* Nothing is filtered yet.
LEMMA UnfilteredIsFiltering == Unfiltered \in Filtering
<1>1. Paired(<< >>)
  BY DEF Paired
<1>2. Unfiltered \in [clean: Seq(Message), pending: SUBSET Nat, start: Nat]
  BY DEF Unfiltered
<1> QED BY <1>1, <1>2 DEF Filtering, Unfiltered

\* What a message's calls are.
LEMMA MessageIds ==
  ASSUME NEW m \in Message
  PROVE  /\ m.ids \in SUBSET Nat /\ IsFiniteSet(m.ids)
         /\ IsResult(m) => \E id \in Nat : m.ids = {id}
         /\ m.kind = "calls" => m.ids # {}
         /\ ~IsResult(m) /\ m.kind # "calls" => m.ids = {}
<1>1. m.ids \in SUBSET Nat
  BY DEF Message
<1>2. CASE m.kind = "calls"
  BY <1>1, <1>2 DEF Message, IsResult
<1>3. CASE m.kind = "result"
  BY <1>1, <1>3, FS_Singleton DEF Message, IsResult
<1>4. CASE m.kind # "calls" /\ m.kind # "result"
  <2>1. m.ids = {}
    BY <1>4 DEF Message
  <2> QED BY <1>1, <1>4, <2>1, FS_EmptySet DEF IsResult
<1> QED BY <1>2, <1>3, <1>4

\* Dropping an incomplete block leaves a paired transcript with nothing pending.
LEMMA DropPairs ==
  ASSUME NEW f \in Filtering
  PROVE  /\ DropIncomplete(f) \in Filtering
         /\ DropIncomplete(f).pending = {}
         /\ DropIncomplete(f).clean \in Seq(Message)
         /\ Paired(DropIncomplete(f).clean)
<1> DEFINE g == DropIncomplete(f)
           shorter == SubSeq(f.clean, 1, f.start - 1)
<1>1. /\ f \in [clean: Seq(Message), pending: SUBSET Nat, start: Nat]
      /\ f.clean \in Seq(Message) /\ f.start \in Nat
  BY DEF Filtering
<1>2. CASE f.pending = {}
  <2>1. g = f
    BY <1>1, <1>2 DEF DropIncomplete
  <2>2. Paired(f.clean)
    BY <1>2 DEF Filtering
  <2> QED BY <1>1, <1>2, <2>1, <2>2
<1>3. CASE f.pending # {}
  <2>1. f.start \in 1 .. Len(f.clean) /\ Paired(shorter)
    BY <1>3 DEF Filtering
  <2>2. shorter \in Seq(Message)
    BY <1>1, <2>1, SubSeqProperties
  <2> HIDE DEF shorter
  <2>3. g = [f EXCEPT !.pending = {}, !.clean = shorter]
    BY <1>3 DEF DropIncomplete, shorter
  <2>4. g.pending = {} /\ g.clean = shorter
        /\ g \in [clean: Seq(Message), pending: SUBSET Nat, start: Nat]
    BY <1>1, <2>2, <2>3
  <2> HIDE DEF g
  <2>5. g \in Filtering
    BY <2>1, <2>4 DEF Filtering
  <2> QED BY <2>1, <2>2, <2>4, <2>5 DEF g
<1> QED BY <1>2, <1>3

\* The filter takes a message that is not a result.
LEMMA FilterOther ==
  ASSUME NEW f \in Filtering, NEW m \in Message, ~IsResult(m)
  PROVE  Filter(f, m) \in Filtering
<1> DEFINE g == DropIncomplete(f)
           clean == Append(g.clean, m)
           new == [clean |-> clean, pending |-> m.ids, start |-> Len(g.clean) + 1]
           n == Len(g.clean)
<1>1. g.clean \in Seq(Message) /\ Paired(g.clean)
  BY DropPairs
<1>2. Filter(f, m) = new
  BY DEF Filter
<1>3. /\ clean \in Seq(Message) /\ n \in Nat /\ Len(clean) = n + 1
      /\ clean[n + 1] = m /\ \A k \in 1 .. n : clean[k] = g.clean[k]
  BY <1>1, AppendProperties
<1>4. /\ new \in [clean: Seq(Message), pending: SUBSET Nat, start: Nat]
      /\ new.clean = clean /\ new.pending = m.ids /\ new.start = n + 1
  <2>1. m.ids \in SUBSET Nat
    BY MessageIds
  <2> HIDE DEF clean
  <2> QED BY <1>3, <2>1
<1>5. CASE m.kind = "calls"
  <2>1. SubSeq(clean, 1, n) = g.clean
    BY <1>1, <1>3, SubSeqProperties
  <2>2. m.ids # {} /\ IsFiniteSet(m.ids) /\ Cardinality(m.ids) \in Nat
    BY <1>5, MessageIds, FS_CardinalityType
  <2> HIDE DEF new, clean, g, n
  <2>3. UNION {clean[k].ids : k \in (n + 1) + 1 .. n + 1} = {}
    BY <1>3
  <2>4. (n + 1) - 1 = n /\ n + 1 \in 1 .. n + 1
        /\ Cardinality(m.ids) = Cardinality(m.ids) + (n + 1) - (n + 1)
    BY <1>3, <2>2
  <2>5. \A k \in (n + 1) + 1 .. n + 1 : IsResult(clean[k])
    BY <1>3
  <2>6. m.ids = m.ids \cup UNION {clean[k].ids : k \in (n + 1) + 1 .. n + 1}
    BY <2>3
  <2>7. new \in Filtering
    <3>1. /\ n + 1 \in 1 .. Len(clean)
          /\ Paired(SubSeq(clean, 1, (n + 1) - 1))
          /\ clean[n + 1].kind = "calls" /\ clean[n + 1].ids = m.ids
          /\ \A k \in (n + 1) + 1 .. Len(clean) : IsResult(clean[k])
          /\ m.ids = m.ids \cup Returned(clean, n + 1)
          /\ Cardinality(m.ids) = Cardinality(m.ids) + Len(clean) - (n + 1)
      BY <1>1, <1>3, <1>5, <2>1, <2>4, <2>5, <2>6 DEF Returned
    <3> QED BY <1>3, <1>4, <2>2, <3>1, InBlock DEF new
  <2> QED BY <1>2, <2>7
<1>6. CASE m.kind # "calls"
  <2>1. m.ids = {}
    BY <1>6, MessageIds
  <2> HIDE DEF new, clean, g
  <2>2. Paired(clean)
    BY <1>1, <1>3, <1>6, PairedPrefix
  <2>3. new \in Filtering
    BY <1>4, <2>1, <2>2 DEF Filtering
  <2> QED BY <1>2, <2>3
<1> QED BY <1>5, <1>6

\* The numbers of an interval that is one longer.
LEMMA LastOrEarlier ==
  ASSUME NEW b \in Nat, NEW n \in Nat, NEW k \in b + 1 .. n + 1
  PROVE  k = n + 1 \/ (k \in b + 1 .. n /\ k \in 1 .. n)
OBVIOUS

\* The filter takes a result: of a pending call, or of one it does not know.
LEMMA FilterResult ==
  ASSUME NEW f \in Filtering, NEW m \in Message, IsResult(m)
  PROVE  Filter(f, m) \in Filtering
<1> DEFINE s == f.clean
           b == f.start
           n == Len(s)
           clean == Append(s, m)
           left == f.pending \ m.ids
           new == [f EXCEPT !.clean = clean, !.pending = left]
           ids == s[b].ids
<1>1. /\ f \in [clean: Seq(Message), pending: SUBSET Nat, start: Nat]
      /\ s \in Seq(Message) /\ b \in Nat /\ n \in Nat /\ f.pending \in SUBSET Nat
  BY DEF Filtering
<1>2. CASE ~(m.ids \subseteq f.pending)
  BY <1>2 DEF Filter
<1>3. CASE m.ids \subseteq f.pending
  <2>1. PICK id \in Nat : m.ids = {id}
    BY MessageIds
  <2>2. Filter(f, m) = new
    BY <1>3 DEF Filter
  <2>3. /\ b \in 1 .. n /\ Paired(SubSeq(s, 1, b - 1)) /\ s[b].kind = "calls"
        /\ \A k \in b + 1 .. n : IsResult(s[k])
        /\ ids = f.pending \cup UNION {s[k].ids : k \in b + 1 .. n}
        /\ IsFiniteSet(ids)
        /\ Cardinality(ids) = Cardinality(f.pending) + n - b
    BY <1>3, <2>1 DEF Filtering, Returned
  <2>4. /\ clean \in Seq(Message) /\ Len(clean) = n + 1
        /\ clean[n + 1] = m /\ \A k \in 1 .. n : clean[k] = s[k]
    BY <1>1, AppendProperties
  <2>5. new.clean = clean /\ new.pending = left /\ new.start = b
        /\ new \in [clean: Seq(Message), pending: SUBSET Nat, start: Nat]
    <3> HIDE DEF clean
    <3> QED BY <1>1, <2>4
  <2>6. IsFiniteSet(f.pending) /\ IsFiniteSet(left)
        /\ Cardinality(left) = Cardinality(f.pending) - 1
        /\ Cardinality(left) \in Nat /\ Cardinality(f.pending) \in Nat
    <3>1. f.pending \subseteq ids
      BY <2>3
    <3>2. IsFiniteSet(f.pending)
      BY <2>3, <3>1, FS_Subset
    <3> QED BY <1>3, <2>1, <3>2, FS_RemoveElement, FS_CardinalityType
  <2>7. ids = left \cup UNION {clean[k].ids : k \in b + 1 .. n + 1}
    <3> HIDE DEF clean, n, b, s
    <3>1. \A k \in b + 1 .. n + 1 : k = n + 1 \/ (k \in b + 1 .. n /\ k \in 1 .. n)
      BY <1>1, LastOrEarlier
    <3>2. n + 1 \in b + 1 .. n + 1 /\ \A k \in b + 1 .. n : k \in b + 1 .. n + 1
      BY <1>1, <2>3
    <3>3. \A k \in b + 1 .. n : clean[k] = s[k]
      BY <1>1, <2>3, <2>4
    <3>4. UNION {clean[k].ids : k \in b + 1 .. n + 1} =
            m.ids \cup UNION {s[k].ids : k \in b + 1 .. n}
      BY <2>4, <3>1, <3>2, <3>3
    <3> QED BY <1>3, <2>3, <3>4
  <2>8. /\ clean[b] = s[b] /\ \A k \in b + 1 .. n + 1 : IsResult(clean[k])
        /\ SubSeq(clean, 1, b - 1) = SubSeq(s, 1, b - 1)
        /\ \A k \in 1 .. b - 1 : clean[k] = SubSeq(s, 1, b - 1)[k]
        /\ SubSeq(s, 1, b - 1) \in Seq(Message) /\ Len(SubSeq(s, 1, b - 1)) = b - 1
    <3>1. /\ SubSeq(s, 1, b - 1) \in Seq(Message) /\ Len(SubSeq(s, 1, b - 1)) = b - 1
          /\ \A k \in 1 .. b - 1 : SubSeq(s, 1, b - 1)[k] = s[k]
      BY <1>1, <2>3, SubSeqProperties
    <3>2. /\ SubSeq(clean, 1, b - 1) \in Seq(Message) /\ Len(SubSeq(clean, 1, b - 1)) = b - 1
          /\ \A k \in 1 .. b - 1 : SubSeq(clean, 1, b - 1)[k] = clean[k]
      <4> HIDE DEF clean
      <4> QED BY <1>1, <2>3, <2>4, SubSeqProperties
    <3>3. \A k \in 1 .. b - 1 : k \in 1 .. n
      BY <1>1, <2>3
    <3>4. SubSeq(clean, 1, b - 1) = SubSeq(s, 1, b - 1)
      <4> HIDE DEF clean, s, b, n
      <4> QED BY <2>4, <3>1, <3>2, <3>3, SeqEqual
    <3>5. \A k \in b + 1 .. n + 1 : IsResult(clean[k])
      <4> HIDE DEF clean, s, b, n
      <4>1. \A k \in b + 1 .. n + 1 : k = n + 1 \/ (k \in b + 1 .. n /\ k \in 1 .. n)
        BY <1>1, LastOrEarlier
      <4> QED BY <2>3, <2>4, <4>1
    <3> QED BY <2>3, <2>4, <3>1, <3>3, <3>4, <3>5
  <2>9. CASE left # {}
    <3>1. /\ b \in 1 .. n + 1 /\ Cardinality(ids) = Cardinality(left) + (n + 1) - b
      BY <1>1, <2>3, <2>6
    <3> HIDE DEF new, clean, left, b, s, n
    <3>2. /\ b \in 1 .. Len(clean) /\ Paired(SubSeq(clean, 1, b - 1))
          /\ clean[b].kind = "calls"
          /\ \A k \in b + 1 .. Len(clean) : IsResult(clean[k])
          /\ clean[b].ids = left \cup Returned(clean, b)
          /\ IsFiniteSet(clean[b].ids)
          /\ Cardinality(clean[b].ids) = Cardinality(left) + Len(clean) - b
      BY <2>3, <2>4, <2>7, <2>8, <3>1 DEF ids, Returned
    <3>3. new = [clean |-> clean, pending |-> left, start |-> b]
      BY <2>5
    <3>4. [clean |-> clean, pending |-> left, start |-> b] \in Filtering
      <4>1. left \in SUBSET Nat
        BY <1>1 DEF left
      <4> QED BY <2>4, <2>9, <3>2, <4>1, InBlock
    <3> QED BY <2>2, <3>3, <3>4
  <2>10. CASE left = {}
    <3> DEFINE p == SubSeq(s, 1, b - 1)
    <3>1. /\ clean[b].ids = UNION {clean[k].ids : k \in b + 1 .. n + 1}
          /\ Cardinality(clean[b].ids) = (n + 1) - b
      <4>1. Cardinality(left) = 0
        BY <2>10, FS_EmptySet
      <4>2. clean[b].ids = ids
        BY <2>8
      <4> HIDE DEF clean, left, ids, b, n, s
      <4>3. Cardinality(ids) = (n + 1) - b
        BY <1>1, <2>3, <2>6, <4>1
      <4> QED BY <2>7, <2>10, <4>2, <4>3
    <3>2. (b - 1) + 1 = b /\ (b - 1) + 2 = b + 1 /\ b - 1 < n + 1
      BY <1>1, <2>3
    <3>3. Paired(clean)
      <4>1. /\ p \in Seq(Message) /\ Len(p) = b - 1 /\ Paired(p)
            /\ \A k \in 1 .. b - 1 : clean[k] = p[k]
            /\ clean[b].kind = "calls" /\ \A k \in b + 1 .. n + 1 : IsResult(clean[k])
        BY <2>3, <2>8
      <4>2. Len(p) + 1 = b /\ Len(p) + 2 = b + 1 /\ Len(p) < n + 1
        BY <3>2, <4>1
      <4> HIDE DEF p, clean, s, b, n
      <4>3. ~IsResult(clean[b])
        BY <4>1 DEF IsResult
      <4> QED BY <2>4, <3>1, <4>1, <4>2, <4>3, PairedPrefix
    <3> HIDE DEF new, clean, left
    <3>4. new \in Filtering
      BY <2>5, <2>10, <3>3 DEF Filtering
    <3> QED BY <2>2, <3>4
  <2> QED BY <2>9, <2>10
<1> QED BY <1>2, <1>3

\* The recursion that defines Request: what the filter has made of the first i messages.
LEMMA RequestRecursion ==
  ASSUME NEW s \in Seq(Message)
  PROVE  \E f \in [0 .. Len(s) -> Filtering] :
           /\ f[0] = Unfiltered
           /\ \A i \in 1 .. Len(s) : f[i] = Filter(f[i - 1], s[i])
           /\ Request(s) = DropIncomplete(f[Len(s)]).clean
<1> DEFINE n == Len(s)
           step == [i \in 1 .. n |-> [x \in Filtering |-> Filter(x, s[i])]]
           F == CHOOSE f : f = [i \in 0 .. n |-> IF i = 0 THEN Unfiltered
                                                 ELSE Filter(f[i - 1], s[i])]
<1>1. n \in Nat /\ \A i \in 1 .. n : s[i] \in Message
  OBVIOUS
<1>2. \A x \in Filtering, m \in Message : Filter(x, m) \in Filtering
  BY FilterOther, FilterResult
<1>3. step \in Steps(n, Filtering)
  <2> HIDE DEF n
  <2> QED BY <1>1, <1>2 DEF Steps
<1>4. \A i \in 1 .. n, x \in Filtering : step[i][x] = Filter(x, s[i])
  OBVIOUS
<1> HIDE DEF step
<1>5. PICK f : Follows(f, n, Filtering, Unfiltered, step)
  BY <1>1, <1>3, UnfilteredIsFiltering, DefinedByRecursion
<1>6. /\ f \in [0 .. n -> Filtering] /\ f[0] = Unfiltered
      /\ \A i \in 1 .. n : f[i] = step[i][f[i - 1]]
  BY <1>5 DEF Follows
<1>7. \A i \in 1 .. n : f[i] = Filter(f[i - 1], s[i])
  <2> SUFFICES ASSUME NEW i \in 1 .. n PROVE f[i] = Filter(f[i - 1], s[i])
    OBVIOUS
  <2>1. i - 1 \in 0 .. n
    BY <1>1
  <2> HIDE DEF n
  <2>2. f[i - 1] \in Filtering
    BY <1>6, <2>1
  <2> QED BY <1>4, <1>6, <2>2
<1>8. f = [i \in 0 .. n |-> IF i = 0 THEN Unfiltered ELSE Filter(f[i - 1], s[i])]
  <2>1. \A i \in 0 .. n : i # 0 => i \in 1 .. n
    BY <1>1
  <2> HIDE DEF n
  <2>2. f = [i \in 0 .. n |-> f[i]]
    BY <1>6
  <2>3. \A i \in 0 .. n : f[i] = IF i = 0 THEN Unfiltered ELSE Filter(f[i - 1], s[i])
    BY <1>6, <1>7, <2>1
  <2> QED BY <2>2, <2>3
<1>9. F = [i \in 0 .. n |-> IF i = 0 THEN Unfiltered ELSE Filter(F[i - 1], s[i])]
  BY <1>8
<1>10. Request(s) = DropIncomplete(F[n]).clean
  BY DEF Request
<1> HIDE DEF F
<1>11. F[0] = Unfiltered /\ \A i \in 1 .. n : F[i] = Filter(F[i - 1], s[i])
  <2>1. 0 \in 0 .. n /\ \A i \in 1 .. n : i \in 0 .. n /\ i # 0
    BY <1>1
  <2> HIDE DEF n
  <2>2. F[0] = Unfiltered
    BY <1>9, <2>1
  <2>3. \A i \in 1 .. n : F[i] = Filter(F[i - 1], s[i])
    BY <1>9, <2>1
  <2> QED BY <2>2, <2>3
<1>12. \A i \in 0 .. n : F[i] \in Filtering
  <2> DEFINE P == {i \in 0 .. n : F[i] \in Filtering}
  <2>1. 0 \in P
    BY <1>1, <1>11, UnfilteredIsFiltering
  <2>2. ASSUME NEW i \in 0 .. n - 1, i \in P PROVE i + 1 \in P
    <3>1. i + 1 \in 1 .. n /\ (i + 1) - 1 = i /\ i + 1 \in 0 .. n
      BY <1>1
    <3>2. F[i + 1] = Filter(F[i], s[i + 1])
      BY <1>11, <3>1
    <3> QED BY <1>1, <1>2, <2>2, <3>1, <3>2
  <2>3. \A i \in 0 .. n : i \in P
    <3> HIDE DEF P
    <3> QED BY <1>1, <2>1, <2>2, UpTo
  <2> QED BY <2>3
<1>13. F \in [0 .. n -> Filtering]
  BY <1>9, <1>12
<1> QED BY <1>10, <1>11, <1>13

\* Whatever the transcript, the request that the filter makes of it is paired.
THEOREM FilterPairs ==
  ASSUME NEW s \in Seq(Message)
  PROVE  Request(s) \in Seq(Message) /\ Paired(Request(s))
<1>1. PICK f \in [0 .. Len(s) -> Filtering] :
        Request(s) = DropIncomplete(f[Len(s)]).clean
  BY RequestRecursion
<1>2. f[Len(s)] \in Filtering
  OBVIOUS
<1> QED BY <1>1, <1>2, DropPairs

(***************************************************************************)
(* What compaction, the budget and the turn make of a transcript           *)
(***************************************************************************)

\* The greatest of some numbers is one of them.
LEMMA MaxIsMember ==
  ASSUME NEW n \in Nat, NEW S \in SUBSET (0 .. n), S # {}
  PROVE  Max(S) \in S
<1> DEFINE T == {n - x : x \in S}
<1>1. T \in SUBSET Nat /\ T # {}
  <2>1. \A x \in S : x \in 0 .. n /\ n - x \in Nat
    OBVIOUS
  <2> QED BY <2>1
<1>2. PICK m \in T : \A k \in T : m <= k
  <2> HIDE DEF T
  <2> QED BY <1>1, Least
<1>3. PICK x \in S : m = n - x
  BY <1>2
<1>4. \A y \in S : x >= y
  <2>1. ASSUME NEW y \in S PROVE x >= y
    <3>1. n - x <= n - y
      BY <1>2, <1>3
    <3> QED BY <3>1
  <2> QED BY <2>1
<1>5. \E z \in S : \A y \in S : z >= y
  BY <1>4
<1> QED BY <1>5 DEF Max

\* A message with another body is a message.
LEMMA OtherBody ==
  ASSUME NEW m \in Message, NEW b \in Body
  PROVE  LET new == [m EXCEPT !.body = b]
         IN  /\ new \in Message /\ new.kind = m.kind /\ new.ids = m.ids
             /\ new.body = b
<1> DEFINE new == [m EXCEPT !.body = b]
<1>1. /\ new \in [kind: Kind, ids: SUBSET Nat, body: Body]
      /\ new.kind = m.kind /\ new.ids = m.ids /\ new.body = b
  BY DEF Message
<1> HIDE DEF new
<1>2. new \in Message
  BY <1>1 DEF Message
<1> QED BY <1>1, <1>2 DEF new

\* The messages that the loop makes.
LEMMA PlainType ==
  ASSUME NEW kind \in Kind \ {"calls", "result"}
  PROVE  /\ Plain(kind) \in Message /\ Plain(kind).kind = kind /\ Plain(kind).ids = {}
         /\ ~IsResult(Plain(kind))
BY DEF Plain, Message, Kind, Body, IsResult

LEMMA CallsType ==
  ASSUME NEW a \in Nat, NEW n \in Nat \ {0}
  PROVE  /\ Calls(a + 1 .. a + n) \in Message
         /\ Calls(a + 1 .. a + n).ids = a + 1 .. a + n
         /\ Calls(a + 1 .. a + n).kind = "calls"
<1> DEFINE ids == a + 1 .. a + n
<1>1. ids \in SUBSET Nat /\ ids # {}
  <2>1. a + 1 \in ids
    OBVIOUS
  <2> QED BY <2>1
<1>2. IsFiniteSet(ids)
  <2>1. a + 1 \in Int /\ a + n \in Int
    OBVIOUS
  <2> QED BY <2>1, FS_Interval
<1> HIDE DEF ids
<1>3. Calls(ids) \in Message /\ Calls(ids).ids = ids /\ Calls(ids).kind = "calls"
  BY <1>1, <1>2 DEF Calls, Message, Kind, Body
<1> QED BY <1>3 DEF ids

LEMMA ResultType ==
  ASSUME NEW id \in Nat
  PROVE  /\ Result(id) \in Message /\ Result(id).ids = {id}
         /\ Result(id).body = "full" /\ Result(id).kind = "result"
BY DEF Result, Message, Kind, Body

\* A transcript of so many calls is one of more.
LEMMA MoreCalls ==
  ASSUME NEW s, NEW n \in Nat, NEW k \in Nat, n <= k, Transcript(s, n)
  PROVE  Transcript(s, k)
<1>1. 1 .. n \subseteq 1 .. k
  OBVIOUS
<1> QED BY <1>1 DEF Transcript

\* A transcript to which a message is added.
LEMMA OneMore ==
  ASSUME NEW s, NEW n \in Nat, Transcript(s, n), NEW m \in Message,
         m.ids \subseteq 1 .. n, IsResult(m) => m.body = "full"
  PROVE  /\ Transcript(Append(s, m), n)
         /\ Append(s, m)[Len(Append(s, m))] = m
<1> DEFINE l == Len(s)
           t == Append(s, m)
<1>1. s \in Seq(Message) /\ s # << >> /\ l \in Nat /\ l >= 1 /\ DOMAIN s = 1 .. l
  BY DEF Transcript
<1>2. /\ t \in Seq(Message) /\ Len(t) = l + 1 /\ t[l + 1] = m /\ DOMAIN t = 1 .. l + 1
      /\ \A i \in 1 .. l : t[i] = s[i]
  BY <1>1, AppendProperties
<1> HIDE DEF t, l
<1>3. t # << >> /\ t[1].kind = "prompt"
  BY <1>1, <1>2 DEF Transcript
<1>4. \A i \in 1 .. l + 1 : i = l + 1 \/ i \in 1 .. l
  BY <1>1
<1>5. \A i \in 1 .. l + 1 : t[i].ids \subseteq 1 .. n
  BY <1>1, <1>2, <1>4 DEF Transcript
<1>6. ASSUME NEW i \in 1 .. l + 1, \A k \in i .. l + 1 : IsResult(t[k])
      PROVE  t[i].body = "full"
  <2>1. CASE i = l + 1
    <3>1. IsResult(t[l + 1])
      BY <1>1, <1>6, <2>1
    <3> QED BY <1>2, <2>1, <3>1
  <2>2. CASE i \in 1 .. l
    <3>1. \A k \in i .. l : k \in 1 .. l /\ k \in i .. l + 1
      BY <1>1, <2>2
    <3>2. \A k \in i .. l : IsResult(s[k])
      BY <1>2, <1>6, <3>1
    <3>3. s[i].body = "full"
      BY <1>1, <2>2, <3>2 DEF Transcript, EndIntact, l
    <3> QED BY <1>2, <2>2, <3>3
  <2> QED BY <1>4, <2>1, <2>2
<1>7. EndIntact(t)
  BY <1>2, <1>6 DEF EndIntact
<1>8. Transcript(t, n)
  BY <1>2, <1>3, <1>5, <1>7 DEF Transcript
<1> QED BY <1>2, <1>8 DEF t

\* A transcript in which bodies are replaced, but not of the results at its end.
LEMMA SameShape ==
  ASSUME NEW s, NEW n, Transcript(s, n), NEW t \in Seq(Message), Len(t) = Len(s),
         \A i \in 1 .. Len(s) :
           /\ t[i].kind = s[i].kind /\ t[i].ids = s[i].ids
           /\ t[i].body = s[i].body \/ \E k \in i .. Len(s) : ~IsResult(s[k])
  PROVE  Transcript(t, n)
<1> DEFINE l == Len(s)
<1>1. s \in Seq(Message) /\ l \in Nat /\ l >= 1 /\ DOMAIN s = 1 .. l /\ DOMAIN t = 1 .. l
      /\ Len(t) = l
  BY DEF Transcript
<1>2. \A i \in 1 .. l :
           /\ t[i].kind = s[i].kind /\ t[i].ids = s[i].ids
           /\ t[i].body = s[i].body \/ \E k \in i .. l : ~IsResult(s[k])
  OBVIOUS
<1> HIDE DEF l
<1>3. t # << >> /\ t[1].kind = "prompt"
  BY <1>1, <1>2 DEF Transcript
<1>4. \A i \in DOMAIN t : t[i].ids \subseteq 1 .. n
  BY <1>1, <1>2 DEF Transcript
<1>5. ASSUME NEW i \in 1 .. l, \A k \in i .. l : IsResult(t[k])
      PROVE  t[i].body = "full"
  <2>1. \A k \in i .. l : k \in 1 .. l
    BY <1>1
  <2>2. \A k \in i .. l : IsResult(s[k])
    BY <1>2, <1>5, <2>1 DEF IsResult
  <2>3. s[i].body = "full"
    BY <1>1, <2>2 DEF Transcript, EndIntact, l
  <2> QED BY <1>2, <2>2, <2>3
<1>6. EndIntact(t)
  BY <1>1, <1>5 DEF EndIntact
<1> QED BY <1>3, <1>4, <1>6 DEF Transcript

\* Where a kept tail starts, what is older is not the end of the transcript.
LEMMA KeepStart ==
  ASSUME NEW s, NEW n, Transcript(s, n), NEW start \in KeepStarts(s)
  PROVE  /\ start \in 2 .. Len(s)
         /\ \A i \in 1 .. start - 1 : \E k \in i .. Len(s) : ~IsResult(s[k])
<1> DEFINE l == Len(s)
<1>1. s \in Seq(Message) /\ l \in Nat /\ s[1].kind = "prompt"
  BY DEF Transcript
<1>2. PICK i \in Stop(s) : start = WalkBack(s, i)
  BY DEF KeepStarts
<1>3. i \in 2 .. l
  BY <1>2 DEF Stop
<1> DEFINE S == {2} \cup {j \in 2 .. i : j > l \/ ~IsResult(s[j])}
<1>4. start \in S
  <2>1. start = Max(S)
    BY <1>2 DEF WalkBack
  <2>2. S \in SUBSET (0 .. l) /\ S # {}
    BY <1>1, <1>3
  <2> HIDE DEF S, l
  <2> QED BY <1>1, <2>1, <2>2, MaxIsMember
<1>5. start \in 2 .. l
  BY <1>1, <1>3, <1>4
<1> HIDE DEF l
<1>6. ASSUME NEW k \in 1 .. start - 1 PROVE \E j \in k .. l : ~IsResult(s[j])
  <2>1. CASE k = 1
    <3>1. ~IsResult(s[1]) /\ 1 \in k .. l
      BY <1>1, <1>5, <2>1 DEF IsResult
    <3> QED BY <3>1
  <2>2. CASE k # 1
    <3>1. start # 2 /\ start \in k .. l /\ ~(start > l)
      BY <1>1, <1>5, <2>2
    <3>2. ~IsResult(s[start])
      BY <1>4, <3>1 DEF l
    <3> QED BY <3>1, <3>2
  <2> QED BY <2>1, <2>2
<1> QED BY <1>5, <1>6 DEF l

\* Pruning what is older than the kept tail.
LEMMA PruneKeeps ==
  ASSUME NEW s, NEW n, Transcript(s, n), NEW start \in KeepStarts(s)
  PROVE  /\ Transcript(Prune(s, start), n)
         /\ Len(Prune(s, start)) = Len(s)
         /\ \A i \in start .. Len(s) : Prune(s, start)[i] = s[i]
         /\ Prune(s, start)[1] = s[1]
<1> DEFINE l == Len(s)
           t == Prune(s, start)
<1>1. s \in Seq(Message) /\ l \in Nat /\ DOMAIN s = 1 .. l /\ s[1].kind = "prompt"
  BY DEF Transcript
<1>2. /\ start \in 2 .. l
      /\ \A i \in 1 .. start - 1 : \E k \in i .. l : ~IsResult(s[k])
  BY KeepStart
<1>3. \A i \in 1 .. l :
        t[i] = IF i < start /\ IsResult(s[i]) THEN [s[i] EXCEPT !.body = "cleared"] ELSE s[i]
  BY <1>1 DEF Prune
<1>4. DOMAIN t = 1 .. l
  BY <1>1 DEF Prune
<1>5. \A i \in 1 .. l : s[i] \in Message
  BY <1>1
<1>6. ASSUME NEW i \in 1 .. l
      PROVE  /\ t[i] \in Message
             /\ t[i].kind = s[i].kind /\ t[i].ids = s[i].ids
             /\ t[i].body = s[i].body \/ i < start
  <2> HIDE DEF l, t
  <2>1. "cleared" \in Body
    BY DEF Body
  <2>2. CASE i < start /\ IsResult(s[i])
    <3> DEFINE r == [s[i] EXCEPT !.body = "cleared"]
    <3>1. s[i] \in Message
      BY <1>5
    <3>2. r \in Message /\ r.kind = s[i].kind /\ r.ids = s[i].ids
      BY <2>1, <3>1, OtherBody
    <3>3. t[i] = r
      BY <1>3, <2>2
    <3> HIDE DEF r
    <3> QED BY <2>2, <3>2, <3>3
  <2>3. CASE ~(i < start /\ IsResult(s[i]))
    BY <1>3, <1>5, <2>3
  <2> QED BY <2>2, <2>3
<1>7. t \in Seq(Message) /\ Len(t) = l
  <2>1. t = [i \in 1 .. l |-> t[i]]
    BY <1>1 DEF Prune
  <2> HIDE DEF t, l
  <2>2. t \in [1 .. l -> Message]
    BY <1>6, <2>1
  <2> QED BY <1>1, <2>2, SeqDef, LenProperties
<1>8. Transcript(t, n)
  <2>1. \A i \in 1 .. l : i < start => i \in 1 .. start - 1
    BY <1>1, <1>2
  <2> HIDE DEF t
  <2> QED BY <1>2, <1>6, <1>7, <2>1, SameShape
<1>9. \A i \in start .. l : i \in 1 .. l /\ ~(i < start)
  BY <1>1, <1>2
<1>10. t[1] = s[1]
  <2>1. 1 \in 1 .. l
    BY <1>1, <1>2
  <2> QED BY <1>1, <1>3, <2>1 DEF IsResult
<1> HIDE DEF l
<1>11. \A i \in start .. l : t[i] = s[i]
  BY <1>3, <1>9
<1> QED BY <1>7, <1>8, <1>10, <1>11 DEF l

\* A summary in the place of what is older than the kept tail.
LEMMA SummaryKeeps ==
  ASSUME NEW s, NEW n \in Nat, Transcript(s, n), NEW start \in 3 .. Len(s)
  PROVE  LET t == << s[1], Plain("summary") >> \o SubSeq(s, start, Len(s))
         IN  Transcript(t, n) /\ t[Len(t)] = s[Len(s)]
<1> DEFINE l == Len(s)
           head == << s[1], Plain("summary") >>
           tail == SubSeq(s, start, l)
           t == head \o tail
           m == l - start + 1
<1>1. /\ s \in Seq(Message) /\ l \in Nat /\ DOMAIN s = 1 .. l /\ s[1].kind = "prompt"
      /\ \A i \in 1 .. l : s[i].ids \subseteq 1 .. n
  BY DEF Transcript
<1>2. start \in 3 .. l /\ m \in Nat /\ m >= 1
  BY <1>1
<1>3. Plain("summary") \in Message /\ Plain("summary").ids = {}
  BY PlainType DEF Kind
<1>4. head \in Seq(Message) /\ Len(head) = 2 /\ head[1] = s[1] /\ head[2] = Plain("summary")
  <2>1. s[1] \in Message
    BY <1>1, <1>2
  <2> QED BY <1>3, <2>1
<1>5. tail \in Seq(Message) /\ Len(tail) = m /\ \A i \in 1 .. m : tail[i] = s[start + i - 1]
  <2>1. \A i \in start .. l : s[i] \in Message
    BY <1>1, <1>2
  <2>2. start \in Int /\ l \in Int /\ start <= l
    BY <1>1, <1>2
  <2> QED BY <2>1, <2>2, SubSeqProperties
<1> HIDE DEF head, tail
<1>6. /\ t \in Seq(Message) /\ Len(t) = 2 + m
      /\ \A i \in 1 .. 2 : t[i] = head[i]
      /\ \A i \in 3 .. 2 + m : t[i] = tail[i - 2]
  <2>1. /\ t \in Seq(Message) /\ Len(t) = Len(head) + Len(tail)
        /\ \A i \in 1 .. Len(head) + Len(tail) :
             t[i] = IF i <= Len(head) THEN head[i] ELSE tail[i - Len(head)]
    BY <1>4, <1>5, ConcatProperties
  <2> HIDE DEF t, m
  <2>2. \A i \in 1 .. 2 : i \in 1 .. 2 + m /\ i <= 2
    BY <1>2
  <2>3. \A i \in 3 .. 2 + m : i \in 1 .. 2 + m /\ ~(i <= 2)
    BY <1>2
  <2> QED BY <1>4, <1>5, <2>1, <2>2, <2>3
<1> HIDE DEF t, m
<1>7. \A i \in 3 .. 2 + m : t[i] = s[start + i - 3] /\ start + i - 3 \in 1 .. l
  <2> SUFFICES ASSUME NEW i \in 3 .. 2 + m
               PROVE  t[i] = s[start + i - 3] /\ start + i - 3 \in 1 .. l
    OBVIOUS
  <2>1. i - 2 \in 1 .. m /\ start + (i - 2) - 1 = start + i - 3 /\ start + i - 3 \in 1 .. l
    BY <1>1, <1>2 DEF m
  <2> QED BY <1>5, <1>6, <2>1
<1>8. t # << >> /\ t[1].kind = "prompt" /\ DOMAIN t = 1 .. 2 + m
  BY <1>1, <1>2, <1>4, <1>6
<1>9. \A i \in 1 .. 2 + m : t[i].ids \subseteq 1 .. n
  <2>1. \A i \in 1 .. 2 + m : i = 1 \/ i = 2 \/ i \in 3 .. 2 + m
    BY <1>2
  <2>2. 1 \in 1 .. l
    BY <1>1, <1>2
  <2>3. t[1].ids \subseteq 1 .. n /\ t[2].ids \subseteq 1 .. n
    BY <1>1, <1>3, <1>4, <1>6, <2>2
  <2>4. \A i \in 3 .. 2 + m : t[i].ids \subseteq 1 .. n
    BY <1>1, <1>7
  <2> QED BY <2>1, <2>3, <2>4
<1>10. ASSUME NEW i \in 1 .. 2 + m, \A k \in i .. 2 + m : IsResult(t[k])
       PROVE  t[i].body = "full"
  <2>1. i \in 3 .. 2 + m
    <3>1. ~IsResult(t[2])
      BY <1>4, <1>6, PlainType DEF Kind
    <3>2. 2 \in 1 .. 2 + m /\ (i \in 3 .. 2 + m \/ 2 \in i .. 2 + m)
      BY <1>2
    <3> QED BY <1>10, <3>1, <3>2
  <2>2. start + i - 3 \in 1 .. l
    BY <1>7, <2>1
  <2>3. ASSUME NEW k \in start + i - 3 .. l PROVE IsResult(s[k])
    <3>1. /\ k - start + 3 \in i .. 2 + m /\ k - start + 3 \in 3 .. 2 + m
          /\ start + (k - start + 3) - 3 = k
      BY <1>1, <1>2, <2>1 DEF m
    <3> QED BY <1>7, <1>10, <3>1
  <2>4. s[start + i - 3].body = "full"
    BY <1>1, <2>2, <2>3 DEF Transcript, EndIntact, l
  <2> QED BY <1>7, <2>1, <2>4
<1>11. Transcript(t, n)
  <2>1. EndIntact(t)
    BY <1>6, <1>8, <1>10 DEF EndIntact
  <2> QED BY <1>6, <1>8, <1>9, <2>1 DEF Transcript
<1>12. t[2 + m] = s[l]
  <2>1. 2 + m \in 3 .. 2 + m /\ start + (2 + m) - 3 = l
    BY <1>1, <1>2 DEF m
  <2> QED BY <1>7, <2>1
<1> QED BY <1>6, <1>11, <1>12 DEF t, head, tail, l

\* What a compaction makes of the transcript.
LEMMA CompactKeeps ==
  ASSUME TypeOK, Transcript(messages, calls), NEW manual \in BOOLEAN, Compact(manual)
  PROVE  /\ Transcript(messages', calls)
         /\ messages'[Len(messages')] = messages[Len(messages)]
         /\ failures' \in 0 .. MaxFailures
<1>1. failures \in 0 .. MaxFailures /\ calls \in Nat /\ MaxFailures \in Nat
  BY AgentTurnAssumption DEF TypeOK
<1>2. CASE UNCHANGED << messages, failures >>
  BY <1>1, <1>2
<1>3. ASSUME NEW start \in KeepStarts(messages),
             messages' = Prune(messages, start), failures' = 0
      PROVE  /\ Transcript(messages', calls)
             /\ messages'[Len(messages')] = messages[Len(messages)]
             /\ failures' \in 0 .. MaxFailures
  <2>1. start \in 2 .. Len(messages) /\ Len(messages) \in start .. Len(messages)
    <3>1. messages \in Seq(Message)
      BY DEF Transcript
    <3> QED BY <3>1, KeepStart
  <2> QED BY <1>1, <1>3, <2>1, PruneKeeps
<1>4. ASSUME NEW start \in KeepStarts(messages), start > 2, failures' = 0,
             messages' = << messages[1], Plain("summary") >>
                           \o SubSeq(Prune(messages, start), start, Len(messages))
      PROVE  /\ Transcript(messages', calls)
             /\ messages'[Len(messages')] = messages[Len(messages)]
             /\ failures' \in 0 .. MaxFailures
  <2> DEFINE p == Prune(messages, start)
  <2>1. /\ Transcript(p, calls) /\ Len(p) = Len(messages) /\ p[1] = messages[1]
        /\ \A i \in start .. Len(messages) : p[i] = messages[i]
    BY <1>4, PruneKeeps
  <2>2. start \in 3 .. Len(messages) /\ Len(messages) \in start .. Len(messages)
    <3>1. messages \in Seq(Message)
      BY DEF Transcript
    <3> QED BY <1>4, <3>1, KeepStart
  <2> HIDE DEF p
  <2>3. messages' = << p[1], Plain("summary") >> \o SubSeq(p, start, Len(p))
    BY <1>4, <2>1 DEF p
  <2>4. Transcript(messages', calls) /\ messages'[Len(messages')] = p[Len(p)]
    BY <1>1, <2>1, <2>2, <2>3, SummaryKeeps
  <2> QED BY <1>1, <1>4, <2>1, <2>2, <2>4
<1>5. CASE RecordFailure /\ UNCHANGED messages
  BY <1>1, <1>5 DEF RecordFailure
<1> QED BY <1>2, <1>3, <1>4, <1>5 DEF Compact

\* What the tool result budget makes of it, when its last message is not a result.
LEMMA BudgetKeeps ==
  ASSUME TypeOK, Transcript(messages, calls), QuestionIsLast, ApplyBudget
  PROVE  /\ Transcript(messages', calls)
         /\ messages'[Len(messages')] = messages[Len(messages)]
         /\ seen' \subseteq 1 .. calls /\ replaced' \subseteq seen'
<1> DEFINE l == Len(messages)
<1>1. /\ messages \in Seq(Message) /\ l \in Nat /\ DOMAIN messages = 1 .. l /\ l >= 1
      /\ \A i \in 1 .. l : messages[i].ids \subseteq 1 .. calls /\ messages[i] \in Message
  BY DEF Transcript
<1>2. PICK newly \in SUBSET Fresh :
        /\ replaced' = replaced \cup newly
        /\ seen' = seen \cup Fresh
        /\ messages' = [i \in DOMAIN messages |->
                          IF /\ newly # {}
                             /\ IsResult(messages[i])
                             /\ messages[i].ids \subseteq replaced'
                          THEN [messages[i] EXCEPT !.body = "preview"]
                          ELSE messages[i]]
  BY DEF ApplyBudget
<1> DEFINE t == messages'
<1>3. ASSUME NEW i \in 1 .. l
      PROVE  /\ t[i] \in Message
             /\ t[i].kind = messages[i].kind /\ t[i].ids = messages[i].ids
             /\ ~IsResult(messages[i]) => t[i] = messages[i]
  <2> DEFINE r == [messages[i] EXCEPT !.body = "preview"]
  <2>1. (t[i] = r /\ IsResult(messages[i])) \/ t[i] = messages[i]
    BY <1>1, <1>2
  <2>2. "preview" \in Body /\ messages[i] \in Message
    BY <1>1 DEF Body
  <2>3. r \in Message /\ r.kind = messages[i].kind /\ r.ids = messages[i].ids
    BY <2>2, OtherBody
  <2> HIDE DEF r
  <2> QED BY <2>1, <2>2, <2>3
<1>4. t \in Seq(Message) /\ Len(t) = l
  <2>1. t = [i \in 1 .. l |-> t[i]]
    BY <1>1, <1>2
  <2> HIDE DEF l
  <2>2. t \in [1 .. l -> Message]
    BY <1>3, <2>1
  <2> QED BY <1>1, <2>2, SeqDef, LenProperties
<1>5. l \in 1 .. l /\ ~IsResult(messages[l])
  BY <1>1 DEF QuestionIsLast, IsResult
<1>6. \A i \in 1 .. l : l \in i .. l
  BY <1>1
<1>7. Transcript(t, calls)
  BY <1>3, <1>4, <1>5, <1>6, SameShape
<1>8. t[Len(t)] = messages[l]
  BY <1>3, <1>4, <1>5
<1>9. Fresh \subseteq 1 .. calls
  BY <1>1 DEF Fresh, Unprotected, Results
<1> QED BY <1>2, <1>7, <1>8, <1>9 DEF TypeOK

(***************************************************************************)
(* The steps of the loop                                                   *)
(***************************************************************************)

\* Messages of the program's own, added at the end.
LEMMA SomeMore ==
  ASSUME NEW s, NEW n \in Nat, Transcript(s, n), NEW t \in Seq(Message),
         \A i \in 1 .. Len(t) : ~IsResult(t[i]) /\ t[i].ids = {}
  PROVE  /\ Transcript(s \o t, n)
         /\ Len(s \o t) = Len(s) + Len(t)
         /\ \A i \in 1 .. Len(s) : (s \o t)[i] = s[i]
         /\ \A i \in Len(s) + 1 .. Len(s) + Len(t) : (s \o t)[i] = t[i - Len(s)]
<1> DEFINE l == Len(s)
           m == Len(t)
           u == s \o t
<1>1. /\ s \in Seq(Message) /\ l \in Nat /\ m \in Nat /\ l >= 1 /\ DOMAIN s = 1 .. l
      /\ s[1].kind = "prompt" /\ \A i \in 1 .. l : s[i].ids \subseteq 1 .. n
  BY DEF Transcript
<1>2. /\ u \in Seq(Message) /\ Len(u) = l + m
      /\ \A i \in 1 .. l + m : u[i] = IF i <= l THEN s[i] ELSE t[i - l]
  BY <1>1, ConcatProperties
<1>3. \A i \in 1 .. m : ~IsResult(t[i]) /\ t[i].ids = {}
  OBVIOUS
<1> HIDE DEF u, m
<1>4. DOMAIN u = 1 .. l + m
  BY <1>2
<1>5. EndIntact(s)
  BY DEF Transcript
<1>6. \A i \in DOMAIN s : (\A k \in i .. l : IsResult(s[k])) => s[i].body = "full"
  BY <1>5 DEF EndIntact
<1> HIDE DEF l
<1>7. \A i \in 1 .. l : u[i] = s[i]
  <2>1. \A i \in 1 .. l : i \in 1 .. l + m /\ i <= l
    BY <1>1
  <2> QED BY <1>2, <2>1
<1>8. \A i \in l + 1 .. l + m : u[i] = t[i - l] /\ i - l \in 1 .. m
  <2>1. \A i \in l + 1 .. l + m : i \in 1 .. l + m /\ ~(i <= l) /\ i - l \in 1 .. m
    BY <1>1
  <2> QED BY <1>2, <2>1
<1>9. \A i \in 1 .. l + m : i \in 1 .. l \/ i \in l + 1 .. l + m
  BY <1>1
<1>10. u # << >> /\ u[1].kind = "prompt"
  <2>1. 1 \in 1 .. l /\ l + m > 0
    BY <1>1
  <2> QED BY <1>1, <1>2, <1>7, <2>1
<1>11. \A i \in 1 .. l + m : u[i].ids \subseteq 1 .. n
  BY <1>1, <1>3, <1>7, <1>8, <1>9
<1>12. ASSUME NEW i \in 1 .. l + m, \A k \in i .. l + m : IsResult(u[k])
       PROVE  u[i].body = "full"
  <2>1. m = 0
    <3>1. m # 0 => l + m \in i .. l + m /\ l + m \in l + 1 .. l + m
      BY <1>1
    <3> QED BY <1>3, <1>8, <1>12, <3>1
  <2>2. i \in 1 .. l /\ \A k \in i .. l : k \in 1 .. l /\ k \in i .. l + m
    BY <1>1, <2>1
  <2>3. \A k \in i .. l : IsResult(s[k])
    BY <1>7, <1>12, <2>2
  <2> QED BY <1>1, <1>6, <1>7, <2>2, <2>3
<1>13. Transcript(u, n)
  <2>1. EndIntact(u)
    BY <1>2, <1>4, <1>12 DEF EndIntact
  <2> QED BY <1>2, <1>4, <1>10, <1>11, <2>1 DEF Transcript
<1> QED BY <1>2, <1>7, <1>8, <1>13 DEF u, l, m

\* A turn begins with a question,
LEMMA AskStep ==
  ASSUME IInv, Ask
  PROVE  IInv'
<1>1. /\ Plain("question") \in Message /\ Plain("question").kind = "question"
      /\ Plain("question").ids = {} /\ ~IsResult(Plain("question"))
  BY PlainType DEF Kind
<1>2. /\ Transcript(messages', calls)
      /\ messages'[Len(messages')] = Plain("question")
  <2>1. messages' = Append(messages, Plain("question"))
    BY DEF Ask, Say
  <2>2. calls \in Nat
    BY DEF IInv, TypeOK
  <2> QED BY <1>1, <2>1, <2>2, OneMore DEF IInv
<1>3. TypeOK'
  <2>1. turns' \in 0 .. MaxTurns
    BY Limits DEF IInv, TypeOK, Ask
  <2> QED BY <1>2, <2>1 DEF IInv, TypeOK, Ask, Transcript, turnVars, callVars, budgetVars
<1>4. QuestionInv'
  BY <1>1, <1>2 DEF Ask, QuestionInv, QuestionIsLast, QuestionReachesModel
<1> QED BY <1>2, <1>3, <1>4 DEF IInv, Ask, callVars

\* goes through the budget
LEMMA BudgetStep ==
  ASSUME IInv, Budget
  PROVE  IInv'
<1>1. QuestionIsLast
  BY DEF IInv, Budget, QuestionInv
<1>2. /\ Transcript(messages', calls)
      /\ messages'[Len(messages')] = messages[Len(messages)]
      /\ seen' \subseteq 1 .. calls /\ replaced' \subseteq seen'
  BY <1>1, BudgetKeeps DEF IInv, Budget
<1>3. TypeOK'
  BY <1>2 DEF IInv, TypeOK, Budget, Transcript, turnVars, callVars, countVars
<1>4. QuestionInv'
  BY <1>1, <1>2 DEF Budget, QuestionInv, QuestionIsLast, QuestionReachesModel
<1> QED BY <1>2, <1>3, <1>4 DEF IInv, Budget, callVars

\* and two compactions,
LEMMA CompactStep ==
  ASSUME IInv, CompactIfLarge \/ CompactIfLong
  PROVE  IInv'
<1>1. /\ Transcript(messages', calls)
      /\ messages'[Len(messages')] = messages[Len(messages)]
      /\ failures' \in 0 .. MaxFailures
  <2>1. CASE \E manual \in BOOLEAN : Compact(manual)
    BY <2>1, CompactKeeps DEF IInv
  <2>2. CASE UNCHANGED << messages, failures >>
    BY <2>2 DEF IInv, TypeOK
  <2> QED BY <2>1, <2>2 DEF CompactIfLarge, CompactIfLong
<1>2. QuestionIsLast
  BY DEF IInv, CompactIfLarge, CompactIfLong, QuestionInv
<1>3. TypeOK'
  BY <1>1 DEF IInv, TypeOK, CompactIfLarge, CompactIfLong, Transcript, turnVars, callVars,
              budgetVars, countVars
<1>4. QuestionInv'
  BY <1>1, <1>2 DEF CompactIfLarge, CompactIfLong, QuestionInv, QuestionIsLast,
                    QuestionReachesModel
<1> QED BY <1>1, <1>3, <1>4 DEF IInv, CompactIfLarge, CompactIfLong, callVars

\* and then asks the model; notes that have come are told it first.
LEMMA LoopStep ==
  ASSUME IInv, Loop
  PROVE  IInv'
<1>1. messages \in Seq(Message) /\ messages # << >> /\ calls \in Nat
  BY DEF IInv, TypeOK
<1>2. CASE steps < MaxSteps
  <2>1. /\ notes' \in notes .. MaxNotes /\ pc' = "request"
        /\ messages' = messages \o [i \in 1 .. notes' - notes |-> Plain("remark")]
    BY <1>2 DEF Loop, Drain
  <2>2. notes' \in 0 .. MaxNotes /\ notes' - notes \in Nat
    <3>1. notes \in Nat
      BY Numbers DEF IInv
    <3>2. notes' \in notes .. MaxNotes
      BY <2>1
    <3> HIDE DEF IInv
    <3>3. MaxNotes \in Nat
      BY Limits
    <3>4. \A a, b, c \in Nat : c \in a .. b => c \in 0 .. b /\ c - a \in Nat
      OBVIOUS
    <3>5. notes' \in Nat
      BY <3>1, <3>2, <3>3
    <3> QED BY <3>1, <3>2, <3>3, <3>4, <3>5
  <2> DEFINE t == [i \in 1 .. notes' - notes |-> Plain("remark")]
             l == Len(messages)
             m == Len(t)
  <2>3. /\ Plain("remark") \in Message /\ Plain("remark").kind = "remark"
        /\ Plain("remark").ids = {} /\ ~IsResult(Plain("remark"))
    BY PlainType DEF Kind
  <2>4. t \in Seq(Message) /\ m \in Nat /\ \A i \in 1 .. m : t[i] = Plain("remark")
    BY <2>2, <2>3
  <2>5. l \in Nat /\ l \in 1 .. l
    BY <1>1
  <2>6. messages' = messages \o t
    BY <2>1
  <2> HIDE DEF t, m
  <2>7. \A i \in 1 .. Len(t) : ~IsResult(t[i]) /\ t[i].ids = {}
    BY <2>3, <2>4 DEF m
  <2>8. /\ Transcript(messages', calls) /\ Len(messages') = l + m
        /\ \A i \in 1 .. l : messages'[i] = messages[i]
        /\ \A i \in l + 1 .. l + m : messages'[i] = t[i - l]
    BY <1>1, <2>4, <2>6, <2>7, SomeMore DEF IInv, m
  <2>9. TypeOK'
    BY <2>1, <2>2, <2>8 DEF IInv, TypeOK, Loop, Transcript, turnVars, callVars, budgetVars
  <2>10. QuestionReachesModel'
    <3>1. SUFFICES ASSUME rounds' = 0
                   PROVE  \E i \in DOMAIN messages' :
                            /\ messages'[i].kind = "question"
                            /\ \A k \in i + 1 .. Len(messages') : messages'[k].kind = "remark"
      BY DEF QuestionReachesModel
    <3>2. messages[l].kind = "question"
      BY <3>1 DEF IInv, QuestionInv, QuestionIsLast, Loop, turnVars
    <3>3. DOMAIN messages' = 1 .. l + m
      BY <2>8, LenProperties DEF Transcript
    <3>4. l \in 1 .. l + m
      BY <2>4, <2>5
    <3> HIDE DEF l
    <3>5. \A k \in l + 1 .. l + m : k - l \in 1 .. m
      BY <2>4, <2>5
    <3>6. \A k \in l + 1 .. l + m : messages'[k].kind = "remark"
      BY <2>3, <2>4, <2>8, <3>5
    <3> QED BY <2>5, <2>8, <3>2, <3>3, <3>4, <3>6
  <2>11. QuestionInv'
    BY <2>1, <2>10 DEF QuestionInv
  <2> QED BY <2>8, <2>9, <2>11 DEF IInv, Loop, callVars
<1>3. CASE ~(steps < MaxSteps)
  <2>1. TypeOK'
    BY <1>3 DEF IInv, TypeOK, Loop, turnVars, callVars, budgetVars
  <2>2. QuestionInv'
    BY <1>3 DEF Loop, QuestionInv, QuestionReachesModel
  <2> QED BY <1>3, <2>1, <2>2 DEF IInv, Loop, callVars
<1> QED BY <1>2, <1>3

\* A request that was too large is sent again, after a compaction.
LEMMA OverflowStep ==
  ASSUME IInv, Overflow
  PROVE  IInv'
<1>1. /\ Transcript(messages', calls)
      /\ failures' \in 0 .. MaxFailures
  BY CompactKeeps DEF IInv, Overflow
<1>2. attempts' \in 0 .. MaxRecoveries /\ attempts' # 0
  BY Limits DEF IInv, TypeOK, Overflow
<1>3. TypeOK'
  BY <1>1, <1>2 DEF IInv, TypeOK, Overflow, Transcript, callVars, budgetVars, countVars
<1>4. QuestionInv'
  BY <1>2 DEF Overflow, QuestionInv, QuestionReachesModel
<1> QED BY <1>1, <1>3, <1>4 DEF IInv, Overflow, callVars

\* The model's answer is followed by a remark, and the loop goes on;
LEMMA GoOnStep ==
  ASSUME IInv, GoOn
  PROVE  IInv'
<1>1. messages' = messages \o << Plain("answer"), Plain("remark") >>
  BY DEF GoOn
<1>2. /\ Plain("answer") \in Message /\ Plain("answer").ids = {} /\ ~IsResult(Plain("answer"))
      /\ Plain("remark") \in Message /\ Plain("remark").ids = {} /\ ~IsResult(Plain("remark"))
  BY PlainType DEF Kind
<1> DEFINE t == << Plain("answer"), Plain("remark") >>
<1>3. t \in Seq(Message) /\ Len(t) = 2 /\ t[1] = Plain("answer") /\ t[2] = Plain("remark")
  BY <1>2
<1>4. \A i \in 1 .. Len(t) : ~IsResult(t[i]) /\ t[i].ids = {}
  <2>1. \A i \in 1 .. Len(t) : i = 1 \/ i = 2
    BY <1>3
  <2> HIDE DEF t
  <2> QED BY <1>2, <1>3, <2>1
<1> HIDE DEF t
<1>5. Transcript(messages', calls)
  <2>1. messages' = messages \o t /\ calls \in Nat
    BY <1>1 DEF t, IInv, TypeOK
  <2> QED BY <1>3, <1>4, <2>1, SomeMore DEF IInv
<1>6. /\ rounds' \in Nat /\ rounds' # 0 /\ attempts' = 0
      /\ truncations' \in 0 .. MaxTruncations /\ stops' \in 0 .. MaxContinuations
  <2>1. rounds \in Nat /\ truncations \in Nat /\ stops \in Nat
    BY Numbers DEF IInv
  <2>2. truncations \in 0 .. MaxTruncations /\ stops \in 0 .. MaxContinuations
    BY DEF IInv, TypeOK
  <2>3. /\ rounds' = rounds + 1 /\ attempts' = 0
        /\ \/ /\ truncations < MaxTruncations
              /\ truncations' = truncations + 1 /\ stops' = stops
           \/ /\ stops < MaxContinuations
              /\ stops' = stops + 1 /\ truncations' = truncations
    BY DEF GoOn, Answered, CutOff, StopHook
  <2> QED BY <2>1, <2>2, <2>3, Limits
<1>7. TypeOK'
  <2>1. attempts' \in 0 .. MaxRecoveries
    BY <1>6, Limits
  <2> QED BY <1>5, <1>6, <2>1
     DEF IInv, TypeOK, GoOn, Transcript, callVars, budgetVars, countVars
<1>8. QuestionInv'
  BY <1>6 DEF GoOn, QuestionInv, QuestionReachesModel
<1> QED BY <1>5, <1>7, <1>8 DEF IInv, GoOn, callVars

\* or the turn is over;
LEMMA EndStep ==
  ASSUME IInv, Answer \/ Synthesize
  PROVE  IInv'
<1>1. End
  BY DEF Answer, Synthesize
<1>2. /\ Plain("answer") \in Message /\ Plain("answer").ids = {} /\ ~IsResult(Plain("answer"))
  BY PlainType DEF Kind
<1>3. Transcript(messages', calls)
  <2>1. messages' = Append(messages, Plain("answer")) /\ calls \in Nat
    BY <1>1 DEF End, Say, IInv, TypeOK
  <2> QED BY <1>2, <2>1, OneMore DEF IInv
<1>4. saved' # << >> => Transcript(saved', calls)
  BY <1>1, <1>3 DEF End, Persist, IInv
<1>5. saved' \in Seq(Message)
  BY <1>1, <1>3 DEF End, Persist, Transcript, IInv, TypeOK
<1>6. TypeOK'
  BY <1>1, <1>3, <1>5, Limits
     DEF IInv, TypeOK, End, Leave, Transcript, callVars, budgetVars, countVars
<1>7. QuestionInv'
  BY <1>1 DEF End, Leave, QuestionInv, QuestionReachesModel
<1> QED BY <1>1, <1>3, <1>4, <1>6, <1>7 DEF IInv, End, callVars

\* or calls are announced,
LEMMA AnnounceStep ==
  ASSUME IInv, Announce
  PROVE  IInv'
<1>1. PICK n \in 1 .. MaxCalls :
        calls' = calls + n /\ messages' = Append(messages, Calls(calls + 1 .. calls + n))
  BY DEF Announce
<1>2. calls \in Nat /\ n \in Nat \ {0} /\ calls' \in Nat /\ calls <= calls'
  <2>1. calls \in Nat
    BY Numbers DEF IInv
  <2> QED BY <1>1, <2>1, Limits
<1> DEFINE m == Calls(calls + 1 .. calls + n)
<1>3. m \in Message /\ m.ids = calls + 1 .. calls + n /\ m.kind = "calls"
  BY <1>2, CallsType
<1>4. Transcript(messages, calls')
  BY <1>2, MoreCalls DEF IInv
<1>5. Transcript(messages', calls')
  <2>1. m.ids \subseteq 1 .. calls' /\ ~IsResult(m)
    BY <1>1, <1>2, <1>3 DEF IsResult
  <2> HIDE DEF m
  <2>2. messages' = Append(messages, m)
    BY <1>1 DEF m
  <2> QED BY <1>2, <1>3, <1>4, <2>1, <2>2, OneMore
<1>6. saved' # << >> => Transcript(saved', calls')
  BY <1>2, MoreCalls DEF IInv, Announce
<1>7. rounds' \in Nat /\ rounds' > 0 /\ attempts' = 0
  <2>1. rounds \in Nat
    BY Numbers DEF IInv
  <2> QED BY <2>1 DEF Announce, Answered
<1>8. TypeOK'
  <2>1. ran <= calls' /\ 1 .. calls \subseteq 1 .. calls'
    BY <1>2, Numbers DEF IInv
  <2>2. attempts' \in 0 .. MaxRecoveries
    BY <1>7, Limits
  <2> QED BY <1>2, <1>5, <1>7, <2>1, <2>2
          DEF IInv, TypeOK, Announce, Transcript, budgetVars, countVars
<1>9. QuestionInv'
  BY <1>7 DEF Announce, QuestionInv, QuestionReachesModel
<1> QED BY <1>5, <1>6, <1>8, <1>9 DEF IInv

\* run, batch by batch,
LEMMA RunBatchStep ==
  ASSUME IInv, RunBatch
  PROVE  IInv'
<1>1. ran' \in Nat /\ reported <= ran' /\ ran' <= calls
  BY DEF IInv, TypeOK, RunBatch
<1>2. TypeOK'
  BY <1>1 DEF IInv, TypeOK, RunBatch, turnVars, budgetVars, countVars
<1>3. QuestionInv'
  BY DEF IInv, RunBatch, turnVars, QuestionInv, QuestionReachesModel, QuestionIsLast
<1> QED BY <1>2, <1>3 DEF IInv, RunBatch

\* and reported, one by one.
LEMMA ReportStep ==
  ASSUME IInv, Report
  PROVE  IInv'
<1>1. /\ calls \in Nat /\ reported \in Nat /\ ran \in Nat /\ reported + 1 \in Nat
      /\ reported + 1 <= ran /\ ran <= calls /\ steps + 1 \in Nat
  BY Numbers DEF IInv, Report
<1>2. /\ Result(reported + 1) \in Message /\ Result(reported + 1).ids = {reported + 1}
      /\ Result(reported + 1).body = "full"
  BY <1>1, ResultType
<1>3. Transcript(messages', calls)
  <2>1. messages' = Append(messages, Result(reported + 1))
    BY DEF Report
  <2>2. {reported + 1} \subseteq 1 .. calls
    BY <1>1
  <2> QED BY <1>1, <1>2, <2>1, <2>2, OneMore DEF IInv
<1>4. TypeOK'
  BY <1>1, <1>3 DEF IInv, TypeOK, Report, Transcript, budgetVars, countVars
<1>5. QuestionInv'
  <2>1. rounds' > 0 /\ rounds' \in Nat
    BY DEF IInv, TypeOK, QuestionInv, Report
  <2> QED BY <2>1 DEF Report, QuestionInv, QuestionReachesModel
<1> QED BY <1>3, <1>4, <1>5 DEF IInv, Report

\* An exception leaves the turn.
LEMMA RaiseStep ==
  ASSUME IInv, Raise
  PROVE  IInv'
<1>1. Announced(messages) \subseteq 1 .. calls
  BY DEF IInv, Transcript, Announced
<1>2. TypeOK'
  <2>1. calls \in Nat /\ calls <= calls
    BY Numbers DEF IInv
  <2>2. 0 \in Nat /\ 0 \in 0 .. MaxTruncations /\ 0 \in 0 .. MaxContinuations
        /\ 0 \in 0 .. MaxRecoveries
    BY Limits
  <2> QED BY <1>1, <2>1, <2>2 DEF IInv, TypeOK, Raise, Leave, budgetVars, countVars
<1>3. QuestionInv'
  BY DEF Raise, Leave, QuestionInv, QuestionReachesModel
<1> QED BY <1>2, <1>3 DEF IInv, Raise

\* Between turns the transcript is compacted, cleared, or one from a file.
LEMMA BetweenStep ==
  ASSUME IInv, CompactNow \/ Reset \/ Resume \/ Restart
  PROVE  IInv'
<1>1. Transcript(<< Plain("prompt") >>, calls)
  <2>1. Plain("prompt") \in Message /\ Plain("prompt").kind = "prompt"
        /\ Plain("prompt").ids = {} /\ ~IsResult(Plain("prompt"))
    BY PlainType DEF Kind
  <2> DEFINE s == << Plain("prompt") >>
  <2>2. s \in Seq(Message) /\ Len(s) = 1 /\ s[1] = Plain("prompt") /\ DOMAIN s = {1}
        /\ s # << >>
    BY <2>1
  <2> HIDE DEF s
  <2>3. EndIntact(s)
    <3>1. 1 \in 1 .. 1
      OBVIOUS
    <3> QED BY <2>1, <2>2, <3>1 DEF EndIntact
  <2>4. Transcript(s, calls)
    BY <2>1, <2>2, <2>3 DEF Transcript
  <2> QED BY <2>4 DEF s
<1>2. Transcript(messages', calls) /\ failures' \in 0 .. MaxFailures
  <2>1. CASE CompactNow
    BY <2>1, CompactKeeps DEF IInv, CompactNow
  <2>2. CASE Reset \/ Restart
    BY <1>1, <2>2, Limits DEF IInv, TypeOK, Reset, Restart
  <2>3. CASE Resume
    BY <2>3 DEF IInv, TypeOK, Resume
  <2> QED BY <2>1, <2>2, <2>3
<1>3. TypeOK'
  <2>1. CASE CompactNow \/ Reset \/ Resume
    BY <1>2, <2>1 DEF IInv, TypeOK, CompactNow, Reset, Resume, Transcript, turnVars,
                      callVars, budgetVars, countVars
  <2>2. CASE Restart
    <3>1. restarts' \in 0 .. MaxRestarts
      BY <2>2, Numbers, Limits DEF IInv, Restart
    <3>2. calls \in Nat /\ calls <= calls
      BY Numbers DEF IInv
    <3>3. 0 \in Nat /\ 0 \in 0 .. MaxTruncations /\ 0 \in 0 .. MaxContinuations
          /\ 0 \in 0 .. MaxRecoveries
      BY Limits
    <3> QED BY <1>2, <2>2, <3>1, <3>2, <3>3 DEF IInv, TypeOK, Restart, Leave, Transcript
  <2> QED BY <2>1, <2>2
<1>4. QuestionInv' /\ calls' = calls /\ saved' = saved
  BY DEF CompactNow, Reset, Resume, Restart, Leave, callVars, QuestionInv,
         QuestionReachesModel
<1> QED BY <1>2, <1>3, <1>4 DEF IInv

\* The loop begins like this, and every step of it leaves it so.
LEMMA InitIInv == Init => IInv
<1> SUFFICES ASSUME Init PROVE IInv
  OBVIOUS
<1>1. Plain("prompt") \in Message /\ Plain("prompt").kind = "prompt"
      /\ Plain("prompt").ids = {} /\ ~IsResult(Plain("prompt"))
  BY PlainType DEF Kind
<1>2. messages \in Seq(Message) /\ Len(messages) = 1 /\ messages[1] = Plain("prompt")
      /\ DOMAIN messages = {1} /\ messages # << >>
  BY <1>1 DEF Init
<1>3. Transcript(messages, calls)
  <2>1. 1 \in 1 .. 1
    OBVIOUS
  <2>2. EndIntact(messages)
    BY <1>1, <1>2, <2>1 DEF EndIntact
  <2> QED BY <1>1, <1>2, <2>2 DEF Transcript
<1>4. TypeOK
  <2>1. /\ 0 \in Nat /\ 0 \in 0 .. MaxTruncations /\ 0 \in 0 .. MaxContinuations
        /\ 0 \in 0 .. MaxRecoveries /\ 0 \in 0 .. MaxFailures /\ 0 \in 0 .. MaxTurns
        /\ 0 \in 0 .. MaxNotes /\ 0 \in 0 .. MaxRestarts /\ 0 <= 0
    BY Limits
  <2>2. saved \in Seq(Message)
    BY DEF Init
  <2> QED BY <1>2, <2>1, <2>2 DEF Init, TypeOK
<1>5. QuestionInv
  BY DEF Init, QuestionInv, QuestionReachesModel
<1> QED BY <1>3, <1>4, <1>5 DEF Init, IInv

LEMMA NextIInv == IInv /\ [Next]_vars => IInv'
<1> SUFFICES ASSUME IInv, [Next]_vars PROVE IInv'
  OBVIOUS
<1>1. CASE UNCHANGED vars
  BY <1>1 DEF vars, turnVars, callVars, budgetVars, countVars, IInv, TypeOK, QuestionInv,
              QuestionIsLast, QuestionReachesModel
<1>2. CASE Turn
  BY <1>2, BudgetStep, CompactStep, LoopStep, OverflowStep, GoOnStep, EndStep,
     AnnounceStep, RunBatchStep, ReportStep DEF Turn
<1>3. CASE Ask \/ Raise \/ CompactNow \/ Reset \/ Resume \/ Restart
  BY <1>3, AskStep, RaiseStep, BetweenStep
<1> QED BY <1>1, <1>2, <1>3 DEF Next

\* In every state of the loop, for any limits: what kind of transcript there is, in memory
\* and on disk, and where the question of the turn is.
THEOREM Invariance == Spec => []IInv
BY InitIInv, NextIInv, PTL DEF Spec

\* The variables of the loop keep their types.
THEOREM TypeCorrect == Spec => []TypeOK
<1>1. IInv => TypeOK
  BY DEF IInv
<1> QED BY <1>1, Invariance, PTL

\* No request to the model has a call without its results or a result without its
\* call, whatever compactions, exceptions, restarts and resumed sessions left behind.
THEOREM RequestsArePaired == Spec => []RequestIsPaired
<1>1. IInv => RequestIsPaired
  BY FilterPairs DEF IInv, TypeOK, RequestIsPaired
<1> QED BY <1>1, Invariance, PTL

\* The results that the model is asked about reach it as the tools returned them:
\* neither a compaction nor the budget touches them, not even after an overflow.
THEOREM ResultsStayIntact == Spec => []CurrentResultsIntact
<1>1. IInv => CurrentResultsIntact
  BY DEF IInv, Transcript, CurrentResultsIntact
<1> QED BY <1>1, Invariance, PTL

\* The first request of a turn ends with the user's question and the notes that came
\* after it, whatever the compactions before it made of the history.
THEOREM QuestionArrives == Spec => []QuestionReachesModel
<1>1. IInv => QuestionReachesModel
  BY DEF IInv, QuestionInv
<1> QED BY <1>1, Invariance, PTL

(***************************************************************************)
(* What the filter drops                                                   *)
(***************************************************************************)

\* What is left of the first i messages.
UnbrokenUpTo(s, g) ==
  /\ g[0] = << >>
  /\ \A i \in 1 .. Len(s) :
       g[i] = IF s[i].ids \cap broken = {} THEN Append(g[i - 1], s[i]) ELSE g[i - 1]

\* The recursion that defines Unbroken.
LEMMA UnbrokenRecursion ==
  ASSUME NEW s \in Seq(Message)
  PROVE  \E g \in [0 .. Len(s) -> Seq(Message)] :
           UnbrokenUpTo(s, g) /\ Unbroken(s) = g[Len(s)]
<1> DEFINE n == Len(s)
           V == Seq(Message)
           Go(x, m) == IF m.ids \cap broken = {} THEN Append(x, m) ELSE x
           step == [i \in 1 .. n |-> [x \in V |-> Go(x, s[i])]]
           G == CHOOSE g : g = [i \in 0 .. n |-> IF i = 0 THEN << >>
                                                 ELSE Go(g[i - 1], s[i])]
<1>1. n \in Nat /\ \A i \in 1 .. n : s[i] \in Message
  OBVIOUS
<1>2. \A x \in V, m \in Message : Go(x, m) \in V
  BY AppendProperties
<1>3. << >> \in V
  OBVIOUS
<1> HIDE DEF Go, V
<1>4. step \in Steps(n, V)
  <2> HIDE DEF n
  <2> QED BY <1>1, <1>2 DEF Steps
<1>5. \A i \in 1 .. n, x \in V : step[i][x] = Go(x, s[i])
  OBVIOUS
<1> HIDE DEF step
<1>6. PICK g : Follows(g, n, V, << >>, step)
  BY <1>1, <1>3, <1>4, DefinedByRecursion
<1>7. /\ g \in [0 .. n -> V] /\ g[0] = << >>
      /\ \A i \in 1 .. n : g[i] = step[i][g[i - 1]]
  BY <1>6 DEF Follows
<1>8. \A i \in 1 .. n : g[i] = Go(g[i - 1], s[i])
  <2> SUFFICES ASSUME NEW i \in 1 .. n PROVE g[i] = Go(g[i - 1], s[i])
    OBVIOUS
  <2>1. i - 1 \in 0 .. n
    BY <1>1
  <2> HIDE DEF n
  <2>2. g[i - 1] \in V
    BY <1>7, <2>1
  <2> QED BY <1>5, <1>7, <2>2
<1>9. g = [i \in 0 .. n |-> IF i = 0 THEN << >> ELSE Go(g[i - 1], s[i])]
  <2>1. \A i \in 0 .. n : i # 0 => i \in 1 .. n
    BY <1>1
  <2> HIDE DEF n
  <2>2. g = [i \in 0 .. n |-> g[i]]
    BY <1>7
  <2>3. \A i \in 0 .. n : g[i] = IF i = 0 THEN << >> ELSE Go(g[i - 1], s[i])
    BY <1>7, <1>8, <2>1
  <2> QED BY <2>2, <2>3
<1>10. G = [i \in 0 .. n |-> IF i = 0 THEN << >> ELSE Go(G[i - 1], s[i])]
  BY <1>9
<1>11. Unbroken(s) = G[n]
  BY DEF Unbroken, Go
<1> HIDE DEF G
<1>12. G[0] = << >> /\ \A i \in 1 .. n : G[i] = Go(G[i - 1], s[i])
  <2>1. 0 \in 0 .. n /\ \A i \in 1 .. n : i \in 0 .. n /\ i # 0
    BY <1>1
  <2> HIDE DEF n
  <2>2. G[0] = << >>
    BY <1>10, <2>1
  <2>3. \A i \in 1 .. n : G[i] = Go(G[i - 1], s[i])
    BY <1>10, <2>1
  <2> QED BY <2>2, <2>3
<1>13. \A i \in 0 .. n : G[i] \in V
  <2> DEFINE P == {i \in 0 .. n : G[i] \in V}
  <2>1. 0 \in P
    BY <1>1, <1>3, <1>12
  <2>2. ASSUME NEW i \in 0 .. n - 1, i \in P PROVE i + 1 \in P
    <3>1. i + 1 \in 1 .. n /\ (i + 1) - 1 = i /\ i + 1 \in 0 .. n
      BY <1>1
    <3>2. G[i + 1] = Go(G[i], s[i + 1])
      BY <1>12, <3>1
    <3> QED BY <1>1, <1>2, <2>2, <3>1, <3>2
  <2>3. \A i \in 0 .. n : i \in P
    <3> HIDE DEF P
    <3> QED BY <1>1, <2>1, <2>2, UpTo
  <2> QED BY <2>3
<1>14. G \in [0 .. n -> V]
  BY <1>10, <1>13
<1>15. UnbrokenUpTo(s, G)
  BY <1>12 DEF UnbrokenUpTo, Go
<1> QED BY <1>11, <1>14, <1>15 DEF V

\* The results after a message are those up to the next message that is not one.
LEMMA BlockEnds ==
  ASSUME NEW s \in Seq(Message), NEW j \in DOMAIN s, NEW n \in j .. Len(s),
         \A k \in j + 1 .. n : IsResult(s[k]),
         n = Len(s) \/ ~IsResult(s[n + 1])
  PROVE  Block(s, j) = j + 1 .. n
<1>1. j \in 1 .. Len(s) /\ Len(s) \in Nat /\ n \in Nat
  OBVIOUS
<1>2. ASSUME NEW i \in Block(s, j) PROVE i \in j + 1 .. n
  <2>1. i \in j + 1 .. Len(s) /\ \A k \in j + 1 .. i : IsResult(s[k])
    BY DEF Block
  <2>2. CASE n < i
    <3>1. n + 1 \in j + 1 .. i /\ n # Len(s)
      BY <1>1, <2>1, <2>2
    <3> QED BY <2>1, <3>1
  <2> QED BY <1>1, <2>1, <2>2
<1>3. ASSUME NEW i \in j + 1 .. n PROVE i \in Block(s, j)
  <2>1. i \in j + 1 .. Len(s) /\ \A k \in j + 1 .. i : k \in j + 1 .. n
    BY <1>1
  <2> QED BY <2>1 DEF Block
<1> QED BY <1>2, <1>3

\* What the filter has made of the first n messages, the last block of which begins at j.
Half(s, g, f, n, j) ==
  /\ ~IsResult(s[j]) /\ \A k \in j + 1 .. n : IsResult(s[k])
  /\ f.pending = s[j].ids \ UNION {s[k].ids : k \in j + 1 .. n}
  /\ s[j].ids \cap broken = {} => f.clean = g[n]
  /\ s[j].ids \cap broken # {} => /\ f.start \in 1 .. Len(f.clean)
                                  /\ SubSeq(f.clean, 1, f.start - 1) = g[n]

\* At the end of a block it drops the block if its execution was broken off.
LEMMA DropAtEnd ==
  ASSUME NEW s \in Seq(Message), NEW g, NEW f \in Filtering, NEW n \in 1 .. Len(s),
         NEW j \in 1 .. n, Half(s, g, f, n, j), Settled(s, j, broken),
         n = Len(s) \/ ~IsResult(s[n + 1])
  PROVE  DropIncomplete(f).clean = g[n]
<1>1. j \in DOMAIN s /\ n \in j .. Len(s)
  OBVIOUS
<1>2. Block(s, j) = j + 1 .. n
  BY <1>1, BlockEnds DEF Half
<1>3. ResultsOf(s, j) = UNION {s[k].ids : k \in j + 1 .. n}
  BY <1>2 DEF ResultsOf
<1>4. f.clean \in Seq(Message) /\ f = [clean |-> f.clean, pending |-> f.pending, start |-> f.start]
  BY DEF Filtering
<1>5. CASE s[j].ids \cap broken = {}
  <2>1. f.pending = {}
    BY <1>3, <1>5 DEF Half, Settled
  <2> QED BY <1>4, <1>5, <2>1 DEF Half, DropIncomplete
<1>6. CASE s[j].ids \cap broken # {}
  <2>1. f.pending # {}
    BY <1>3, <1>6 DEF Half, Settled
  <2> QED BY <1>4, <1>6, <2>1 DEF Half, DropIncomplete
<1> QED BY <1>5, <1>6

\* A message that is not a result begins a block;
LEMMA LeadPasses ==
  ASSUME NEW s \in Seq(Message), NEW g \in [0 .. Len(s) -> Seq(Message)], UnbrokenUpTo(s, g),
         NEW f \in Filtering, NEW n \in 0 .. Len(s) - 1, ~IsResult(s[n + 1]),
         DropIncomplete(f).clean = g[n]
  PROVE  Half(s, g, Filter(f, s[n + 1]), n + 1, n + 1)
<1>1. PICK m, old : m = s[n + 1] /\ old = g[n]
  OBVIOUS
<1>2. n + 1 \in 1 .. Len(s) /\ n \in 0 .. Len(s) /\ (n + 1) - 1 = n /\ n \in Nat
  OBVIOUS
<1>3. m \in Message /\ old \in Seq(Message)
  BY <1>1, <1>2
<1>4. Filter(f, m) = [clean |-> Append(old, m), pending |-> m.ids, start |-> Len(old) + 1]
  BY <1>1 DEF Filter
<1>5. PICK h : h = Filter(f, m)
  OBVIOUS
<1>6. h.clean = Append(old, m) /\ h.pending = m.ids /\ h.start = Len(old) + 1
  BY <1>4, <1>5
<1>7. g[n + 1] = IF m.ids \cap broken = {} THEN Append(old, m) ELSE old
  BY <1>1, <1>2 DEF UnbrokenUpTo
<1>8. \A k \in (n + 1) + 1 .. n + 1 : FALSE
  BY <1>2
<1>9. h.start \in 1 .. Len(h.clean) /\ SubSeq(h.clean, 1, h.start - 1) = old
  <2>1. Len(h.clean) = Len(old) + 1 /\ Len(old) \in Nat
    BY <1>3, <1>6, AppendProperties
  <2>2. SubSeq(Append(old, m), 1, Len(old)) = old
    BY <1>3
  <2>3. h.start - 1 = Len(old)
    BY <1>6, <2>1
  <2> QED BY <1>6, <2>1, <2>2, <2>3
<1>10. UNION {s[k].ids : k \in (n + 1) + 1 .. n + 1} = {}
  BY <1>8
<1>11. m = s[n + 1] /\ ~IsResult(m)
  BY <1>1
<1>12. Half(s, g, h, n + 1, n + 1)
  BY <1>6, <1>7, <1>8, <1>9, <1>10, <1>11 DEF Half
<1> QED BY <1>1, <1>5, <1>12

\* and a result in a block goes the way of the block.
LEMMA ResultPasses ==
  ASSUME NEW s \in Seq(Message), InBlocks(s), NEW g \in [0 .. Len(s) -> Seq(Message)],
         UnbrokenUpTo(s, g), NEW f \in Filtering, NEW n \in 1 .. Len(s) - 1,
         NEW j \in 1 .. n, Half(s, g, f, n, j), Settled(s, j, broken), IsResult(s[n + 1])
  PROVE  Half(s, g, Filter(f, s[n + 1]), n + 1, j)
<1>1. PICK m, p : m = s[n + 1] /\ p = n + 1
  OBVIOUS
<1>2. /\ p \in 1 .. Len(s) /\ n \in 0 .. Len(s) /\ p - 1 = n /\ n \in Nat
      /\ j \in DOMAIN s /\ p \in j + 1 .. Len(s) /\ p = n + 1
      /\ \A k \in j + 1 .. p : k = p \/ k \in j + 1 .. n
      /\ \A k \in j + 1 .. n : k # p /\ k \in j + 1 .. Len(s) /\ k \in j + 1 .. p
                             /\ \A i \in j + 1 .. k : i \in j + 1 .. n
  BY <1>1
<1>3. \A k \in j + 1 .. p : IsResult(s[k])
  BY <1>1, <1>2 DEF Half
<1>4. p \in Block(s, j) /\ \A k \in j + 1 .. n : k \in Block(s, j)
  BY <1>2, <1>3 DEF Block
<1>5. j \in Leads(s)
  BY <1>2 DEF Half, Leads
<1>6. m.ids \subseteq s[j].ids /\ \A k \in j + 1 .. n : s[k].ids \cap m.ids = {}
  <2>1. p \in Block(s, j) /\ s[p] = m
    BY <1>1, <1>4
  <2>2. /\ s[p].ids \subseteq s[j].ids
        /\ \A k \in Block(s, j) : k # p => s[k].ids \cap s[p].ids = {}
    BY <1>5, <2>1 DEF InBlocks
  <2> QED BY <1>2, <1>4, <2>1, <2>2
<1>7. m.ids \subseteq f.pending
  BY <1>6 DEF Half
<1>8. PICK clean, pending, start : f = [clean |-> clean, pending |-> pending, start |-> start]
                                   /\ clean \in Seq(Message) /\ start \in Nat
  BY DEF Filtering
<1>9. Filter(f, m) = [clean |-> Append(clean, m), pending |-> pending \ m.ids, start |-> start]
  BY <1>1, <1>7, <1>8 DEF Filter
<1>10. PICK h : h = Filter(f, m)
  OBVIOUS
<1>11. h.clean = Append(clean, m) /\ h.pending = pending \ m.ids /\ h.start = start
  BY <1>9, <1>10
<1>12. h.pending = s[j].ids \ UNION {s[k].ids : k \in j + 1 .. p}
  <2>1. PICK A, B, C : /\ A = UNION {s[k].ids : k \in j + 1 .. p}
                       /\ B = UNION {s[k].ids : k \in j + 1 .. n}
                       /\ C = s[j].ids
    OBVIOUS
  <2>2. \A x : x \in A <=> \E k \in j + 1 .. p : x \in s[k].ids
    BY <2>1
  <2>3. \A x : x \in B <=> \E k \in j + 1 .. n : x \in s[k].ids
    BY <2>1
  <2>4. p \in j + 1 .. p /\ s[p] = m
    BY <1>1, <1>2
  <2>5. ASSUME NEW x \in A PROVE x \in B \/ x \in m.ids
    <3>1. PICK k \in j + 1 .. p : x \in s[k].ids
      BY <2>2
    <3>2. k = p \/ k \in j + 1 .. n
      BY <1>2
    <3> QED BY <2>3, <2>4, <3>1, <3>2
  <2>6. ASSUME NEW x \in B PROVE x \in A
    <3>1. PICK k \in j + 1 .. n : x \in s[k].ids
      BY <2>3
    <3>2. k \in j + 1 .. p
      BY <1>2
    <3> QED BY <2>2, <3>1, <3>2
  <2>7. \A x : x \in m.ids => x \in A
    BY <2>2, <2>4
  <2>8. pending = C \ B /\ h.pending = pending \ m.ids
    BY <1>8, <1>11, <2>1 DEF Half
  <2>9. h.pending = C \ A
    BY <2>5, <2>6, <2>7, <2>8
  <2> QED BY <2>1, <2>9
<1>13. g[p] = IF m.ids \cap broken = {} THEN Append(g[n], m) ELSE g[n]
  BY <1>1, <1>2 DEF UnbrokenUpTo
<1>14. CASE s[j].ids \cap broken = {}
  <2>1. h.clean = g[p]
    BY <1>6, <1>8, <1>11, <1>13, <1>14 DEF Half
  <2>2. Half(s, g, h, p, j)
    BY <1>3, <1>5, <1>12, <1>14, <2>1 DEF Half, Leads
  <2> QED BY <1>1, <1>10, <2>2
<1>15. CASE s[j].ids \cap broken # {}
  <2>1. m \in Message /\ m.ids # {}
    <3>1. m \in Message
      BY <1>1, <1>2
    <3> QED BY <1>1, <3>1, MessageIds
  <2>2. g[p] = g[n]
    BY <1>6, <1>13, <1>15, <2>1 DEF Settled
  <2>3. start \in 1 .. Len(clean) /\ SubSeq(clean, 1, start - 1) = g[n]
    BY <1>8, <1>15 DEF Half
  <2>4. h.start \in 1 .. Len(h.clean) /\ SubSeq(h.clean, 1, h.start - 1) = g[p]
    <3>1. Len(Append(clean, m)) = Len(clean) + 1 /\ Len(clean) \in Nat
      BY <1>8, <2>1, AppendProperties
    <3>2. SubSeq(Append(clean, m), 1, start - 1) = SubSeq(clean, 1, start - 1)
      BY <1>8, <2>1, <2>3
    <3> QED BY <1>11, <2>2, <2>3, <3>1, <3>2
  <2>5. Half(s, g, h, p, j)
    BY <1>3, <1>5, <1>12, <1>15, <2>4 DEF Half, Leads
  <2> QED BY <1>1, <1>10, <2>5
<1> QED BY <1>14, <1>15

\* A transcript in blocks that are complete, or broken off, loses those that are broken
\* off and nothing else.
LEMMA FilterDrops ==
  ASSUME NEW s \in Seq(Message), InBlocks(s), \A j \in Leads(s) : Settled(s, j, broken)
  PROVE  Request(s) = Unbroken(s)
<1>1. PICK g \in [0 .. Len(s) -> Seq(Message)] :
        UnbrokenUpTo(s, g) /\ Unbroken(s) = g[Len(s)]
  BY UnbrokenRecursion
<1>2. PICK f \in [0 .. Len(s) -> Filtering] :
        /\ f[0] = Unfiltered
        /\ \A i \in 1 .. Len(s) : f[i] = Filter(f[i - 1], s[i])
        /\ Request(s) = DropIncomplete(f[Len(s)]).clean
  BY RequestRecursion
<1>3. Len(s) \in Nat \ {0} /\ 1 \in DOMAIN s /\ ~IsResult(s[1])
  BY DEF InBlocks, Leads
<1> DEFINE P == {n \in 0 .. Len(s) : n = 0 \/ \E j \in 1 .. n : Half(s, g, f[n], n, j)}
<1>4. 0 \in P
  BY <1>3
<1>5. \A n \in 1 .. Len(s) : \A j \in 1 .. n : ~IsResult(s[j]) => Settled(s, j, broken)
  BY DEF Leads
<1>6. ASSUME NEW n \in 0 .. Len(s) - 1, n \in P PROVE n + 1 \in P
  <2>1. /\ n + 1 \in 1 .. Len(s) /\ n \in 0 .. Len(s) /\ (n + 1) - 1 = n
        /\ n + 1 \in 0 .. Len(s) /\ n + 1 \in 1 .. n + 1
    BY <1>3
  <2>2. f[n] \in Filtering /\ f[n + 1] = Filter(f[n], s[n + 1])
    BY <1>2, <2>1
  <2>3. CASE n = 0
    <3>1. DropIncomplete(Unfiltered).clean = << >>
      BY DEF DropIncomplete, Unfiltered
    <3>2. DropIncomplete(f[n]).clean = g[n]
      BY <1>1, <1>2, <2>3, <3>1 DEF UnbrokenUpTo
    <3>3. ~IsResult(s[n + 1])
      BY <1>3, <2>3
    <3>4. Half(s, g, f[n + 1], n + 1, n + 1)
      BY <1>1, <2>2, <3>2, <3>3, LeadPasses
    <3> QED BY <2>1, <3>4
  <2>4. CASE n # 0
    <3>1. n \in 1 .. Len(s) /\ n \in 1 .. Len(s) - 1
      BY <1>3, <2>4
    <3>2. PICK j \in 1 .. n : Half(s, g, f[n], n, j)
      BY <1>6, <2>4
    <3>3. Settled(s, j, broken)
      BY <1>5, <3>1, <3>2 DEF Half
    <3>4. CASE IsResult(s[n + 1])
      <4>1. Half(s, g, f[n + 1], n + 1, j)
        BY <1>1, <2>2, <3>1, <3>2, <3>3, <3>4, ResultPasses
      <4>2. j \in 1 .. n + 1
        BY <2>1
      <4> QED BY <2>1, <4>1, <4>2
    <3>5. CASE ~IsResult(s[n + 1])
      <4>1. DropIncomplete(f[n]).clean = g[n]
        BY <2>2, <3>1, <3>2, <3>3, <3>5, DropAtEnd
      <4>2. Half(s, g, f[n + 1], n + 1, n + 1)
        BY <1>1, <2>2, <3>5, <4>1, LeadPasses
      <4> QED BY <2>1, <4>2
    <3> QED BY <3>4, <3>5
  <2> QED BY <2>3, <2>4
<1>7. \A n \in 0 .. Len(s) : n \in P
  <2> HIDE DEF P
  <2> QED BY <1>3, <1>4, <1>6, UpTo
<1>8. PICK j \in 1 .. Len(s) : Half(s, g, f[Len(s)], Len(s), j)
  <2>1. Len(s) \in 0 .. Len(s)
    BY <1>3
  <2> QED BY <1>3, <1>7, <2>1
<1>9. Len(s) \in 1 .. Len(s) /\ Len(s) \in 0 .. Len(s) /\ f[Len(s)] \in Filtering
  BY <1>3
<1>10. DropIncomplete(f[Len(s)]).clean = g[Len(s)]
  <2>1. Settled(s, j, broken)
    BY <1>5, <1>8, <1>9 DEF Half
  <2> QED BY <1>8, <1>9, <2>1, DropAtEnd
<1> QED BY <1>1, <1>2, <1>10

(***************************************************************************)
(* Blocks of a transcript that changes                                      *)
(***************************************************************************)
Whole(s, brokenOff) == InBlocks(s) /\ \A j \in Leads(s) : Settled(s, j, brokenOff)

\* What it takes for a block to be in order.
Orderly(s, j) ==
  \A i \in Block(s, j) : /\ s[i].ids \subseteq s[j].ids
                         /\ \A k \in Block(s, j) : k # i => s[k].ids \cap s[i].ids = {}

\* A block with the same calls in the same place.
LEMMA SameBlockOrderly ==
  ASSUME NEW s, NEW t, NEW j, Block(t, j) = Block(s, j), t[j].ids = s[j].ids,
         \A i \in Block(s, j) : t[i].ids = s[i].ids
  PROVE  /\ Orderly(s, j) => Orderly(t, j)
         /\ ResultsOf(t, j) = ResultsOf(s, j)
         /\ \A b : Settled(t, j, b) <=> Settled(s, j, b)
<1>1. {t[i].ids : i \in Block(t, j)} = {s[i].ids : i \in Block(s, j)}
  OBVIOUS
<1>2. ResultsOf(t, j) = ResultsOf(s, j)
  BY <1>1 DEF ResultsOf
<1>3. \A b : Settled(t, j, b) <=> Settled(s, j, b)
  BY <1>2 DEF Settled
<1>4. Orderly(s, j) => Orderly(t, j)
  BY DEF Orderly
<1> QED BY <1>2, <1>3, <1>4

\* Bodies are replaced.
LEMMA WholeSame ==
  ASSUME NEW b, NEW s \in Seq(Message), Whole(s, b), NEW t \in Seq(Message), Len(t) = Len(s),
         \A i \in 1 .. Len(s) : t[i].kind = s[i].kind /\ t[i].ids = s[i].ids
  PROVE  Whole(t, b)
<1>1. DOMAIN s = 1 .. Len(s) /\ DOMAIN t = 1 .. Len(s) /\ Len(s) \in Nat
  OBVIOUS
<1>2. \A i \in 1 .. Len(s) : IsResult(t[i]) <=> IsResult(s[i])
  BY DEF IsResult
<1>3. Leads(t) = Leads(s)
  BY <1>1, <1>2 DEF Leads
<1>4. ASSUME NEW j \in 1 .. Len(s)
      PROVE  /\ Block(t, j) = Block(s, j) /\ \A i \in Block(s, j) : i \in 1 .. Len(s)
  <2>1. \A i \in j + 1 .. Len(s) : i \in 1 .. Len(s) /\ \A k \in j + 1 .. i : k \in 1 .. Len(s)
    BY <1>1
  <2>2. \A i \in j + 1 .. Len(s) : (\A k \in j + 1 .. i : IsResult(t[k]))
                                     <=> (\A k \in j + 1 .. i : IsResult(s[k]))
    BY <1>2, <2>1
  <2>3. Block(t, j) = {i \in j + 1 .. Len(s) : \A k \in j + 1 .. i : IsResult(t[k])}
    BY DEF Block
  <2> QED BY <2>1, <2>2, <2>3 DEF Block
<1>5. ASSUME NEW j \in Leads(s) PROVE Settled(t, j, b) /\ Orderly(t, j)
  <2>1. j \in 1 .. Len(s)
    BY <1>1 DEF Leads
  <2>2. Orderly(s, j) /\ Settled(s, j, b)
    BY DEF Whole, InBlocks, Orderly
  <2> QED BY <1>4, <2>1, <2>2, SameBlockOrderly
<1>6. 1 \in Leads(t) /\ \A j, k \in Leads(t) : j # k => t[j].ids \cap t[k].ids = {}
  <2>1. \A j \in Leads(s) : t[j].ids = s[j].ids
    BY <1>1 DEF Leads
  <2> QED BY <1>3, <2>1 DEF Whole, InBlocks
<1> QED BY <1>3, <1>5, <1>6 DEF Whole, InBlocks, Orderly

\* Messages that are not results are added.
LEMMA LeadsAdded ==
  ASSUME NEW s \in Seq(Message), InBlocks(s), NEW t \in Seq(Message), Len(s) <= Len(t),
         \A k \in 1 .. Len(s) : t[k] = s[k],
         \A k \in Len(s) + 1 .. Len(t) :
           /\ ~IsResult(t[k])
           /\ \A j \in 1 .. Len(t) : j # k => t[j].ids \cap t[k].ids = {}
  PROVE  /\ InBlocks(t)
         /\ Leads(t) = Leads(s) \cup Len(s) + 1 .. Len(t)
         /\ \A j \in Leads(s) : \A b : Settled(t, j, b) <=> Settled(s, j, b)
         /\ \A j \in Len(s) + 1 .. Len(t) : Block(t, j) = {}
<1>1. /\ DOMAIN s = 1 .. Len(s) /\ DOMAIN t = 1 .. Len(t) /\ Len(s) \in Nat /\ Len(t) \in Nat
      /\ \A j \in 1 .. Len(t) : j \in 1 .. Len(s) \/ j \in Len(s) + 1 .. Len(t)
      /\ \A j \in 1 .. Len(s) : j \in 1 .. Len(t) /\ j \notin Len(s) + 1 .. Len(t)
      /\ \A j \in Len(s) + 1 .. Len(t) : j \in 1 .. Len(t)
  OBVIOUS
<1>2. Leads(t) = Leads(s) \cup Len(s) + 1 .. Len(t)
  BY <1>1 DEF Leads, IsResult
<1>3. ASSUME NEW j \in 1 .. Len(s)
      PROVE  /\ Block(t, j) = Block(s, j) /\ t[j].ids = s[j].ids
             /\ \A i \in Block(s, j) : t[i].ids = s[i].ids
  <2>1. Len(s) < Len(t) => Len(s) + 1 \in Len(s) + 1 .. Len(t)
    BY <1>1
  <2>2. Block(t, j) = Block(s, j)
    BY <2>1, SameBlock
  <2>3. \A i \in Block(s, j) : i \in 1 .. Len(s)
    <3>1. Block(s, j) \subseteq j + 1 .. Len(s)
      BY DEF Block
    <3>2. j + 1 .. Len(s) \subseteq 1 .. Len(s)
      BY <1>1
    <3> QED BY <3>1, <3>2
  <2> QED BY <2>2, <2>3
<1>4. ASSUME NEW j \in Len(s) + 1 .. Len(t) PROVE Block(t, j) = {}
  <2>1. SUFFICES ASSUME NEW i \in Block(t, j) PROVE FALSE
    OBVIOUS
  <2>2. i \in j + 1 .. Len(t) /\ \A k \in j + 1 .. i : IsResult(t[k])
    BY DEF Block
  <2>3. i \in Len(s) + 1 .. Len(t) /\ i \in j + 1 .. i
    BY <1>1, <2>2
  <2> QED BY <2>2, <2>3
<1>5. ASSUME NEW j \in Leads(s)
      PROVE  Orderly(t, j) /\ \A b : Settled(t, j, b) <=> Settled(s, j, b)
  <2>1. j \in 1 .. Len(s) /\ Orderly(s, j)
    BY <1>1 DEF Leads, InBlocks, Orderly
  <2> QED BY <1>3, <2>1, SameBlockOrderly
<1>6. \A j \in Len(s) + 1 .. Len(t) : Orderly(t, j)
  BY <1>4 DEF Orderly
<1>7. ASSUME NEW j \in Leads(t), NEW k \in Leads(t), j # k PROVE t[j].ids \cap t[k].ids = {}
  <2>1. CASE j \in Leads(s) /\ k \in Leads(s)
    <3>1. t[j] = s[j] /\ t[k] = s[k]
      BY <1>1, <2>1 DEF Leads
    <3> QED BY <1>7, <2>1, <3>1 DEF InBlocks
  <2>2. CASE k \in Len(s) + 1 .. Len(t)
    BY <1>1, <1>7, <2>2 DEF Leads
  <2>3. CASE j \in Len(s) + 1 .. Len(t)
    <3>1. t[k].ids \cap t[j].ids = {}
      BY <1>1, <1>7, <2>3 DEF Leads
    <3> QED BY <3>1
  <2> QED BY <1>2, <2>1, <2>2, <2>3
<1>8. InBlocks(t)
  <2>1. 1 \in Leads(t)
    BY <1>2 DEF InBlocks
  <2>2. \A j \in Leads(t) : Orderly(t, j)
    BY <1>2, <1>5, <1>6
  <2> QED BY <1>7, <2>1, <2>2 DEF InBlocks, Orderly
<1> QED BY <1>2, <1>4, <1>5, <1>8

\* Messages are added that announce nothing.
LEMMA WholeMore ==
  ASSUME NEW b, NEW s \in Seq(Message), Whole(s, b), NEW t \in Seq(Message),
         Len(s) <= Len(t), \A k \in 1 .. Len(s) : t[k] = s[k],
         \A k \in Len(s) + 1 .. Len(t) : ~IsResult(t[k]) /\ t[k].ids = {}
  PROVE  Whole(t, b)
<1>1. \A k \in Len(s) + 1 .. Len(t) :
        /\ ~IsResult(t[k])
        /\ \A j \in 1 .. Len(t) : j # k => t[j].ids \cap t[k].ids = {}
  OBVIOUS
<1>2. /\ InBlocks(t)
      /\ Leads(t) = Leads(s) \cup Len(s) + 1 .. Len(t)
      /\ \A j \in Leads(s) : \A c : Settled(t, j, c) <=> Settled(s, j, c)
  BY <1>1, LeadsAdded DEF Whole
<1>3. \A j \in Len(s) + 1 .. Len(t) : Settled(t, j, b)
  BY DEF Settled
<1> QED BY <1>2, <1>3 DEF Whole

\* The result of a call is added that the last announcement made.
Adds(s, t, j, m) ==
  /\ InBlocks(t) /\ Leads(t) = Leads(s)
  /\ Block(t, j) = j + 1 .. Len(t) /\ t[j] = s[j]
  /\ ResultsOf(t, j) = ResultsOf(s, j) \cup m.ids
  /\ \A k \in Leads(s) \ {j} : \A b : Settled(t, k, b) <=> Settled(s, k, b)

LEMMA ResultAdded ==
  ASSUME NEW s \in Seq(Message), InBlocks(s), NEW j \in Leads(s),
         Block(s, j) = j + 1 .. Len(s), NEW m \in Message, IsResult(m),
         m.ids \subseteq s[j].ids, m.ids \cap ResultsOf(s, j) = {},
         NEW t, t = Append(s, m)
  PROVE  Adds(s, t, j, m)
<1>1. PICK l : l = Len(s)
  OBVIOUS
<1>2. /\ t \in Seq(Message) /\ Len(t) = l + 1 /\ t[l + 1] = m /\ l \in Nat
      /\ DOMAIN t = 1 .. l + 1 /\ DOMAIN s = 1 .. l /\ \A i \in 1 .. l : t[i] = s[i]
      /\ j \in 1 .. l
  BY <1>1, AppendProperties DEF Leads
<1>place. j \in 1 .. l /\ l \in Nat /\ j \in Nat
  <2>1. j \in 1 .. l /\ l \in Nat
    BY <1>2
  <2> QED BY <2>1
<1>3. Leads(t) = Leads(s)
  <2>1. \A i \in 1 .. l + 1 : i = l + 1 \/ i \in 1 .. l
    BY <1>2
  <2>2. \A i \in 1 .. l : i \in 1 .. l + 1 /\ i # l + 1
    BY <1>2
  <2> QED BY <1>2, <2>1, <2>2 DEF Leads
<1>4. \A i \in j + 1 .. l : IsResult(s[i])
  <2>1. \A i \in Block(s, j) : i \in j + 1 .. i
    BY <1>1, <1>2
  <2> QED BY <1>1, <2>1 DEF Block
<1>5. Block(t, j) = j + 1 .. l + 1
  <2>1. \A i \in j + 1 .. l + 1 : i = l + 1 \/ (i \in j + 1 .. l /\ i \in 1 .. l)
    BY <1>place
  <2>2. \A i \in j + 1 .. l + 1 : IsResult(t[i])
    BY <1>2, <1>4, <2>1
  <2>3. l + 1 \in j .. Len(t) /\ l + 1 = Len(t) /\ j \in DOMAIN t
    BY <1>2
  <2> QED BY <1>2, <2>2, <2>3, BlockEnds
<1>6. /\ \A i \in Block(t, j) : i = l + 1 \/ (i \in Block(s, j) /\ i \in 1 .. l)
      /\ \A i \in Block(s, j) : i \in Block(t, j) /\ i # l + 1 /\ i \in 1 .. l
      /\ l + 1 \in Block(t, j)
  <2>1. Block(s, j) = j + 1 .. l
    BY <1>1
  <2> QED BY <1>place, <1>5, <2>1
<1>7. t[j] = s[j] /\ t[l + 1].ids = m.ids /\ \A i \in Block(s, j) : t[i].ids = s[i].ids
  BY <1>2, <1>6
<1>8. ResultsOf(t, j) = ResultsOf(s, j) \cup m.ids
  <2>1. PICK A, B : A = ResultsOf(t, j) /\ B = ResultsOf(s, j)
    OBVIOUS
  <2>2. /\ \A x : x \in A <=> \E i \in Block(t, j) : x \in t[i].ids
        /\ \A x : x \in B <=> \E i \in Block(s, j) : x \in s[i].ids
    BY <2>1 DEF ResultsOf
  <2>3. \A x \in A : x \in B \/ x \in m.ids
    BY <1>6, <1>7, <2>2
  <2>4. \A x \in B : x \in A
    BY <1>6, <1>7, <2>2
  <2>5. \A x \in m.ids : x \in A
    BY <1>6, <1>7, <2>2
  <2> QED BY <2>1, <2>3, <2>4, <2>5
<1>9. Orderly(t, j)
  <2>1. Orderly(s, j)
    BY DEF InBlocks, Orderly
  <2>2. ASSUME NEW i \in Block(s, j) PROVE s[i].ids \cap m.ids = {}
    BY DEF ResultsOf
  <2>3. \A i \in Block(t, j) : t[i].ids \subseteq t[j].ids
    BY <1>6, <1>7, <2>1 DEF Orderly
  <2>4. ASSUME NEW i \in Block(t, j), NEW k \in Block(t, j), i # k
        PROVE  t[k].ids \cap t[i].ids = {}
    <3>1. CASE i \in Block(s, j) /\ k \in Block(s, j)
      BY <1>7, <2>1, <2>4, <3>1 DEF Orderly
    <3>2. CASE i = l + 1 /\ k \in Block(s, j)
      BY <1>7, <2>2, <3>2
    <3>3. CASE k = l + 1 /\ i \in Block(s, j)
      BY <1>7, <2>2, <3>3
    <3> QED BY <1>6, <2>4, <3>1, <3>2, <3>3
  <2> QED BY <2>3, <2>4 DEF Orderly
<1>10. ASSUME NEW k \in Leads(s) \ {j}
       PROVE  Orderly(t, k) /\ \A b : Settled(t, k, b) <=> Settled(s, k, b)
  <2>1. k \in 1 .. l /\ ~IsResult(s[k]) /\ ~IsResult(s[j])
    BY <1>2 DEF Leads
  <2>2. k < j
    <3>1. k \notin j + 1 .. l
      BY <1>4, <2>1
    <3> QED BY <1>2, <2>1, <3>1
  <2>3. \A i \in Block(t, k) : i \in Block(s, k)
    <3> TAKE i \in Block(t, k)
    <3>1. i \in k + 1 .. l + 1 /\ \A n \in k + 1 .. i : IsResult(t[n])
      BY <1>2 DEF Block
    <3>2. i < j
      <4>1. j \in k + 1 .. i => IsResult(s[j])
        BY <1>7, <3>1
      <4> QED BY <1>2, <2>1, <2>2, <3>1, <4>1
    <3>3. i \in k + 1 .. l /\ \A n \in k + 1 .. i : n \in 1 .. l
      BY <1>2, <2>1, <3>1, <3>2
    <3>4. \A n \in k + 1 .. i : IsResult(s[n])
      BY <1>2, <3>1, <3>3
    <3> QED BY <1>1, <3>3, <3>4 DEF Block
  <2>4. \A i \in Block(s, k) : i \in Block(t, k) /\ i \in 1 .. l
    <3> TAKE i \in Block(s, k)
    <3>1. i \in k + 1 .. l /\ \A n \in k + 1 .. i : IsResult(s[n])
      BY <1>1 DEF Block
    <3>2. i \in k + 1 .. Len(t) /\ i \in 1 .. l /\ \A n \in k + 1 .. i : n \in 1 .. l
      BY <1>2, <2>1, <3>1
    <3>3. \A n \in k + 1 .. i : IsResult(t[n])
      BY <1>2, <3>1, <3>2
    <3> QED BY <3>2, <3>3 DEF Block
  <2>5. Block(t, k) = Block(s, k)
    BY <2>3, <2>4
  <2>6. t[k].ids = s[k].ids /\ \A i \in Block(s, k) : t[i].ids = s[i].ids
    BY <1>2, <2>1, <2>4
  <2>7. Orderly(s, k)
    BY DEF InBlocks, Orderly
  <2> QED BY <2>5, <2>6, <2>7, SameBlockOrderly
<1>11. InBlocks(t)
  <2>1. \A k \in Leads(t) : Orderly(t, k)
    BY <1>3, <1>9, <1>10
  <2>2. \A k \in Leads(s) : t[k] = s[k]
    BY <1>2 DEF Leads
  <2>3. ASSUME NEW i \in Leads(t), NEW k \in Leads(t), i # k
        PROVE  t[i].ids \cap t[k].ids = {}
    <3>1. s[i].ids \cap s[k].ids = {}
      BY <1>3, <2>3 DEF InBlocks
    <3>2. t[i] = s[i] /\ t[k] = s[k]
      BY <1>3, <2>2
    <3> QED BY <3>1, <3>2
  <2>4. 1 \in Leads(t)
    BY <1>3 DEF InBlocks
  <2> QED BY <2>1, <2>3, <2>4 DEF InBlocks, Orderly
<1> QED BY <1>2, <1>3, <1>5, <1>7, <1>8, <1>10, <1>11 DEF Adds

\* A summary takes the place of what is older than a block.
LEMMA WholeSummary ==
  ASSUME NEW b, NEW n, NEW s, Transcript(s, n), Whole(s, b), NEW start \in 3 .. Len(s),
         ~IsResult(s[start])
  PROVE  Whole(<< s[1], Plain("summary") >> \o SubSeq(s, start, Len(s)), b)
<1>1. PICK l, m, d, head, tail, t :
        /\ l = Len(s) /\ m = l - start + 1 /\ d = start - 3
        /\ head = << s[1], Plain("summary") >>
        /\ tail = SubSeq(s, start, l)
        /\ t = head \o tail
  OBVIOUS
<1>2. /\ s \in Seq(Message) /\ l \in Nat /\ start \in 3 .. l /\ DOMAIN s = 1 .. l
      /\ s[1].kind = "prompt"
  BY <1>1 DEF Transcript
<1>3. m \in Nat /\ d \in Nat /\ m >= 1 /\ l = 2 + m + d /\ start = 3 + d
  BY <1>1, <1>2
<1>4. /\ Plain("summary") \in Message /\ Plain("summary").ids = {}
      /\ ~IsResult(Plain("summary"))
  BY PlainType DEF Kind
<1>5. head \in Seq(Message) /\ Len(head) = 2 /\ head[1] = s[1] /\ head[2] = Plain("summary")
  <2>1. s[1] \in Message
    BY <1>2, <1>3
  <2> QED BY <1>1, <1>4, <2>1
<1>6. tail \in Seq(Message) /\ Len(tail) = m /\ \A i \in 1 .. m : tail[i] = s[start + i - 1]
  <2>1. \A i \in start .. l : s[i] \in Message
    BY <1>2, <1>3
  <2>2. start \in Int /\ l \in Int /\ start <= l
    BY <1>2, <1>3
  <2> QED BY <1>1, <2>1, <2>2, SubSeqProperties
<1>7. /\ t \in Seq(Message) /\ Len(t) = 2 + m
      /\ \A i \in 1 .. 2 + m : t[i] = IF i <= 2 THEN head[i] ELSE tail[i - 2]
  BY <1>1, <1>5, <1>6, ConcatProperties
<1>8. /\ t[1] = s[1] /\ t[2] = Plain("summary") /\ DOMAIN t = 1 .. 2 + m
      /\ \A i \in 3 .. 2 + m : t[i] = s[i + d]
  <2>1. ASSUME NEW i \in 3 .. 2 + m PROVE t[i] = s[i + d]
    <3>1. i \in 1 .. 2 + m /\ ~(i <= 2) /\ i - 2 \in 1 .. m /\ start + (i - 2) - 1 = i + d
      BY <1>3
    <3> QED BY <1>6, <1>7, <3>1
  <2>2. 1 \in 1 .. 2 + m /\ 2 \in 1 .. 2 + m
    BY <1>3
  <2> QED BY <1>5, <1>7, <2>1, <2>2
<1>9. /\ ~IsResult(t[1]) /\ ~IsResult(t[2]) /\ ~IsResult(t[3])
      /\ t[1].ids = {} /\ t[2].ids = {}
  <2>1. ~IsResult(s[1]) /\ s[1].kind # "calls" /\ s[1] \in Message
    BY <1>2, <1>3 DEF IsResult
  <2>2. 3 \in 3 .. 2 + m
    BY <1>3
  <2> QED BY <1>3, <1>4, <1>8, <2>1, <2>2, MessageIds
<1>10. \A i \in 1 .. 2 + m : i = 1 \/ i = 2 \/ i \in 3 .. 2 + m
  BY <1>3
<1>11. \A i \in 3 .. 2 + m : i + d \in 1 .. l /\ (i \in Leads(t) => i + d \in Leads(s))
  <2>1. \A i \in 3 .. 2 + m : i + d \in 1 .. l
    BY <1>3
  <2> QED BY <1>2, <1>8, <2>1 DEF Leads
<1>12. Block(t, 1) = {} /\ Block(t, 2) = {}
  <2>1. \A i \in 1 + 1 .. 2 + m : 2 \in 1 + 1 .. i
    OBVIOUS
  <2>2. \A i \in 2 + 1 .. 2 + m : 3 \in 2 + 1 .. i
    OBVIOUS
  <2> QED BY <1>7, <1>9, <2>1, <2>2 DEF Block
<1>13. ASSUME NEW j \in 3 .. 2 + m
       PROVE  /\ \A i \in Block(t, j) : i + d \in Block(s, j + d) /\ t[i].ids = s[i + d].ids
              /\ \A k \in Block(s, j + d) : k - d \in Block(t, j) /\ k = (k - d) + d
  <2>1. ASSUME NEW i \in Block(t, j)
        PROVE  i + d \in Block(s, j + d) /\ t[i].ids = s[i + d].ids
    <3>1. i \in j + 1 .. 2 + m /\ \A k \in j + 1 .. i : IsResult(t[k])
      BY <1>7 DEF Block
    <3>2. i \in 3 .. 2 + m /\ i + d \in (j + d) + 1 .. l
      BY <1>3, <3>1
    <3>3. ASSUME NEW k \in (j + d) + 1 .. i + d PROVE IsResult(s[k])
      <4>1. k - d \in j + 1 .. i /\ k - d \in 3 .. 2 + m /\ (k - d) + d = k
        BY <1>3, <3>2
      <4> QED BY <1>8, <3>1, <4>1
    <3> QED BY <1>1, <1>8, <3>2, <3>3 DEF Block
  <2>2. ASSUME NEW i \in Block(s, j + d) PROVE i - d \in Block(t, j) /\ i = (i - d) + d
    <3>1. i \in (j + d) + 1 .. l /\ \A k \in (j + d) + 1 .. i : IsResult(s[k])
      BY <1>1 DEF Block
    <3>2. i - d \in j + 1 .. 2 + m /\ i = (i - d) + d
      BY <1>3, <3>1
    <3>3. ASSUME NEW k \in j + 1 .. i - d PROVE IsResult(t[k])
      <4>1. k + d \in (j + d) + 1 .. i /\ k \in 3 .. 2 + m
        BY <1>3, <3>1, <3>2
      <4> QED BY <1>8, <3>1, <4>1
    <3> QED BY <1>7, <3>2, <3>3 DEF Block
  <2> QED BY <2>1, <2>2
<1>14. ASSUME NEW j \in Leads(t) PROVE Orderly(t, j) /\ Settled(t, j, b)
  <2>1. CASE j \in {1, 2}
    BY <1>9, <1>12, <2>1 DEF Orderly, Settled
  <2>2. CASE j \in 3 .. 2 + m
    <3>1. Orderly(s, j + d) /\ Settled(s, j + d, b) /\ t[j].ids = s[j + d].ids
      BY <1>8, <1>11, <2>2 DEF Whole, InBlocks, Orderly
    <3>2. Orderly(t, j)
      <4>1. ASSUME NEW i \in Block(t, j), NEW k \in Block(t, j), k # i
            PROVE  t[k].ids \cap t[i].ids = {}
        <5>1. i + d \in Block(s, j + d) /\ k + d \in Block(s, j + d)
          BY <1>13, <2>2
        <5>2. k + d # i + d
          <6>1. i \in j + 1 .. 2 + m /\ k \in j + 1 .. 2 + m
            BY <1>7 DEF Block
          <6> QED BY <1>3, <4>1, <6>1
        <5> QED BY <1>13, <2>2, <3>1, <5>1, <5>2 DEF Orderly
      <4>2. \A i \in Block(t, j) : t[i].ids \subseteq t[j].ids
        BY <1>13, <2>2, <3>1 DEF Orderly
      <4> QED BY <4>1, <4>2 DEF Orderly
    <3>3. ResultsOf(t, j) = ResultsOf(s, j + d)
      <4>1. PICK A, B : A = ResultsOf(t, j) /\ B = ResultsOf(s, j + d)
        OBVIOUS
      <4>2. /\ \A x : x \in A <=> \E i \in Block(t, j) : x \in t[i].ids
            /\ \A x : x \in B <=> \E i \in Block(s, j + d) : x \in s[i].ids
        BY <4>1 DEF ResultsOf
      <4>3. \A x \in A : x \in B
        BY <1>13, <2>2, <4>2
      <4>4. ASSUME NEW x \in B PROVE x \in A
        <5>1. PICK i \in Block(s, j + d) : x \in s[i].ids
          BY <4>2
        <5>2. i - d \in Block(t, j) /\ i = (i - d) + d
          BY <1>13, <2>2
        <5>3. t[i - d].ids = s[i].ids
          BY <1>13, <2>2, <5>2
        <5> QED BY <4>2, <5>1, <5>2, <5>3
      <4> QED BY <4>1, <4>3, <4>4
    <3> QED BY <3>1, <3>2, <3>3 DEF Settled
  <2> QED BY <1>8, <1>10, <2>1, <2>2 DEF Leads
<1>15. ASSUME NEW j \in Leads(t), NEW k \in Leads(t), j # k PROVE t[j].ids \cap t[k].ids = {}
  <2>1. CASE j \in 3 .. 2 + m /\ k \in 3 .. 2 + m
    <3>1. j + d \in Leads(s) /\ k + d \in Leads(s) /\ j + d # k + d
      BY <1>3, <1>11, <1>15, <2>1
    <3> QED BY <1>8, <2>1, <3>1 DEF Whole, InBlocks
  <2> QED BY <1>8, <1>9, <1>10, <2>1 DEF Leads
<1>16. 1 \in Leads(t)
  BY <1>3, <1>8, <1>9 DEF Leads
<1>17. Whole(t, b)
  BY <1>14, <1>15, <1>16 DEF Whole, InBlocks, Orderly
<1> QED BY <1>1, <1>17

\* Pruning replaces bodies.
LEMMA WholePrune ==
  ASSUME NEW b, NEW s, NEW n, Transcript(s, n), Whole(s, b), NEW start \in KeepStarts(s)
  PROVE  Whole(Prune(s, start), b)
<1>1. PICK t : t = Prune(s, start)
  OBVIOUS
<1>2. Transcript(t, n) /\ Len(t) = Len(s) /\ s \in Seq(Message) /\ t \in Seq(Message)
  BY <1>1, PruneKeeps DEF Transcript
<1>3. ASSUME NEW i \in 1 .. Len(s) PROVE t[i].kind = s[i].kind /\ t[i].ids = s[i].ids
  <2>1. i \in DOMAIN s /\ s[i] \in Message
    BY <1>2
  <2>2. t[i] = IF i < start /\ IsResult(s[i]) THEN [s[i] EXCEPT !.body = "cleared"] ELSE s[i]
    BY <1>1, <2>1 DEF Prune
  <2>3. "cleared" \in Body
    BY DEF Body
  <2> QED BY <2>1, <2>2, <2>3, OtherBody
<1> QED BY <1>1, <1>2, <1>3, WholeSame

\* A compaction leaves whole what was whole.
LEMMA WholeCompact ==
  ASSUME NEW b, Transcript(messages, calls), Whole(messages, b), NEW manual \in BOOLEAN,
         Compact(manual)
  PROVE  Whole(messages', b)
<1>1. PICK s : s = messages
  OBVIOUS
<1>2. CASE messages' = messages
  BY <1>2
<1>3. ASSUME NEW start \in KeepStarts(s), messages' = Prune(s, start)
      PROVE  Whole(messages', b)
  BY <1>1, <1>3, WholePrune
<1>4. ASSUME NEW start \in KeepStarts(s), start > 2,
             messages' = << s[1], Plain("summary") >>
                           \o SubSeq(Prune(s, start), start, Len(s))
      PROVE  Whole(messages', b)
  <2>1. PICK p : p = Prune(s, start)
    OBVIOUS
  <2>2. /\ Transcript(p, calls) /\ Whole(p, b) /\ Len(p) = Len(s) /\ p[1] = s[1]
        /\ \A i \in start .. Len(s) : p[i] = s[i]
    BY <1>1, <1>4, <2>1, PruneKeeps, WholePrune
  <2>3. s \in Seq(Message) /\ Len(s) \in Nat
    BY <1>1 DEF Transcript
  <2>4. start \in 2 .. Len(s)
    BY <1>1, <1>4, KeepStart
  <2>5. start \in 3 .. Len(s) /\ start \in start .. Len(s) /\ ~(start > Len(s)) /\ start # 2
    BY <1>4, <2>3, <2>4
  <2>6. ~IsResult(s[start])
    <3>1. PICK i \in Stop(s) : start = WalkBack(s, i)
      BY <1>4 DEF KeepStarts
    <3>2. i \in 2 .. Len(s)
      BY <3>1 DEF Stop
    <3> DEFINE S == {2} \cup {j \in 2 .. i : j > Len(s) \/ ~IsResult(s[j])}
    <3>3. S \in SUBSET (0 .. Len(s)) /\ S # {}
      BY <2>3, <3>2
    <3>4. start = Max(S)
      BY <3>1 DEF WalkBack
    <3>5. start \in S
      <4> HIDE DEF S
      <4> QED BY <2>3, <3>3, <3>4, MaxIsMember
    <3> QED BY <2>5, <3>5
  <2>7. messages' = << p[1], Plain("summary") >> \o SubSeq(p, start, Len(p))
    BY <1>4, <2>1, <2>2
  <2>8. ~IsResult(p[start])
    BY <2>2, <2>5, <2>6
  <2> QED BY <2>2, <2>5, <2>7, <2>8, WholeSummary
<1> QED BY <1>1, <1>2, <1>3, <1>4 DEF Compact

\* The budget replaces bodies.
LEMMA WholeBudget ==
  ASSUME NEW b, Transcript(messages, calls), Whole(messages, b), ApplyBudget,
         messages' \in Seq(Message)
  PROVE  Whole(messages', b)
<1>1. PICK s : s = messages
  OBVIOUS
<1>2. PICK newly \in SUBSET Fresh :
        messages' = [i \in DOMAIN s |->
                       IF /\ newly # {}
                          /\ IsResult(s[i])
                          /\ s[i].ids \subseteq replaced'
                       THEN [s[i] EXCEPT !.body = "preview"]
                       ELSE s[i]]
  BY <1>1 DEF ApplyBudget
<1>3. s \in Seq(Message) /\ DOMAIN messages' = DOMAIN s
  BY <1>1, <1>2 DEF Transcript
<1>4. Len(messages') = Len(s)
  BY <1>3
<1>5. ASSUME NEW i \in 1 .. Len(s)
      PROVE  messages'[i].kind = s[i].kind /\ messages'[i].ids = s[i].ids
  <2>1. i \in DOMAIN s /\ s[i] \in Message
    BY <1>3
  <2>2. messages'[i] = s[i] \/ messages'[i] = [s[i] EXCEPT !.body = "preview"]
    BY <1>2, <2>1
  <2>3. PICK other : other = [s[i] EXCEPT !.body = "preview"]
    OBVIOUS
  <2>4. other.kind = s[i].kind /\ other.ids = s[i].ids
    BY <2>1, <2>3 DEF Message
  <2> QED BY <2>2, <2>3, <2>4
<1> QED BY <1>1, <1>3, <1>4, <1>5, WholeSame

(***************************************************************************)
(* Blocks at every step of the loop                                         *)
(***************************************************************************)

\* Outside of the execution of calls both transcripts are whole.
LEMMA WholeOutside ==
  /\ BlocksInv /\ pc # "act" => Whole(messages, broken)
  /\ BlocksInv /\ saved # << >> => Whole(saved, broken)
  /\ \A b : Leads(<< >>) = {}
BY DEF BlocksInv, Whole, Leads

LEMMA WholePrompt == \A b : Whole(<< Plain("prompt") >>, b)
<1> SUFFICES ASSUME NEW b PROVE Whole(<< Plain("prompt") >>, b)
  OBVIOUS
<1>1. PICK s : s = << Plain("prompt") >>
  OBVIOUS
<1>2. ~IsResult(Plain("prompt")) /\ Plain("prompt").ids = {}
  BY PlainType DEF Kind
<1>3. DOMAIN s = {1} /\ s[1] = Plain("prompt") /\ Len(s) = 1
  BY <1>1
<1>4. Leads(s) = {1}
  BY <1>2, <1>3 DEF Leads
<1>5. Block(s, 1) = {}
  BY <1>3 DEF Block
<1>6. Whole(s, b)
  BY <1>2, <1>3, <1>4, <1>5 DEF Whole, InBlocks, Settled
<1> QED BY <1>1, <1>6

\* A step that leaves both transcripts whole and no calls in execution.
LEMMA StaysOutside ==
  ASSUME pc' # "act", broken' = broken, Whole(messages', broken),
         saved' # << >> => Whole(saved', broken)
  PROVE  BlocksInv'
<1>1. saved' = << >> => Leads(saved') = {}
  BY DEF Leads
<1> QED BY <1>1 DEF BlocksInv, Whole

\* A compaction, wherever the code calls it.
LEMMA BlocksCompact ==
  ASSUME IInv, BlocksInv, CompactIfLarge \/ CompactIfLong \/ Overflow \/ CompactNow
  PROVE  BlocksInv'
<1>1. /\ pc # "act" /\ pc' # "act" /\ broken' = broken /\ saved' = saved
      /\ messages' = messages \/ \E manual \in BOOLEAN : Compact(manual)
  BY DEF CompactIfLarge, CompactIfLong, Overflow, CompactNow
<1>2. Whole(messages, broken) /\ (saved # << >> => Whole(saved, broken))
  BY <1>1, WholeOutside
<1>3. Whole(messages', broken)
  BY <1>1, <1>2, WholeCompact DEF IInv
<1> QED BY <1>1, <1>2, <1>3, StaysOutside

\* The budget.
LEMMA BlocksBudget ==
  ASSUME IInv, BlocksInv, IInv', Budget
  PROVE  BlocksInv'
<1>1. pc # "act" /\ pc' # "act" /\ broken' = broken /\ saved' = saved /\ ApplyBudget
  BY DEF Budget
<1>2. Whole(messages, broken) /\ (saved # << >> => Whole(saved, broken))
  BY <1>1, WholeOutside
<1>3. Whole(messages', broken)
  BY <1>1, <1>2, WholeBudget DEF IInv, TypeOK
<1> QED BY <1>1, <1>2, <1>3, StaysOutside

\* Messages that the loop says, hears from teammates or gets as an answer.
LEMMA Said ==
  ASSUME NEW b, NEW s, NEW n, Transcript(s, n), Whole(s, b), NEW kind \in Kind \ {"calls", "result"}
  PROVE  Whole(Append(s, Plain(kind)), b)
<1>1. PICK t, m : t = Append(s, m) /\ m = Plain(kind)
  OBVIOUS
<1>2. m \in Message /\ ~IsResult(m) /\ m.ids = {}
  BY <1>1, PlainType
<1>3. /\ s \in Seq(Message) /\ t \in Seq(Message) /\ Len(t) = Len(s) + 1 /\ t[Len(s) + 1] = m
      /\ \A k \in 1 .. Len(s) : t[k] = s[k]
  BY <1>1, <1>2, AppendProperties DEF Transcript
<1>4. Len(s) <= Len(t) /\ \A k \in Len(s) + 1 .. Len(t) : k = Len(s) + 1
  BY <1>3
<1>5. Whole(t, b)
  BY <1>2, <1>3, <1>4, WholeMore
<1> QED BY <1>1, <1>5

LEMMA SaidMore ==
  ASSUME NEW b, NEW s, NEW n \in Nat, Transcript(s, n), Whole(s, b), NEW t \in Seq(Message),
         \A i \in 1 .. Len(t) : ~IsResult(t[i]) /\ t[i].ids = {}
  PROVE  Whole(s \o t, b)
<1>1. PICK u : u = s \o t
  OBVIOUS
<1>2. /\ Transcript(u, n) /\ Len(u) = Len(s) + Len(t)
      /\ \A i \in 1 .. Len(s) : u[i] = s[i]
      /\ \A i \in Len(s) + 1 .. Len(s) + Len(t) : u[i] = t[i - Len(s)]
  BY <1>1, SomeMore
<1>3. s \in Seq(Message) /\ u \in Seq(Message) /\ Len(s) \in Nat /\ Len(t) \in Nat
  BY <1>2 DEF Transcript
<1>4. ASSUME NEW k \in Len(s) + 1 .. Len(u) PROVE ~IsResult(u[k]) /\ u[k].ids = {}
  <2>1. k - Len(s) \in 1 .. Len(t) /\ k \in Len(s) + 1 .. Len(s) + Len(t)
    BY <1>2, <1>3
  <2> QED BY <1>2, <2>1
<1>5. Len(s) <= Len(u)
  BY <1>2, <1>3
<1>6. Whole(u, b)
  BY <1>2, <1>3, <1>4, <1>5, WholeMore
<1> QED BY <1>1, <1>6

LEMMA BlocksSaid ==
  ASSUME IInv, BlocksInv, Ask \/ Loop \/ GoOn \/ Answer \/ Synthesize
  PROVE  BlocksInv'
<1>1. pc # "act" /\ pc' # "act" /\ broken' = broken
  BY DEF Ask, Loop, GoOn, Answer, Synthesize, End, Leave
<1>2. /\ Whole(messages, broken) /\ (saved # << >> => Whole(saved, broken))
      /\ Transcript(messages, calls) /\ calls \in Nat
  BY <1>1, WholeOutside DEF IInv, TypeOK
<1>3. CASE Ask
  <2>1. messages' = Append(messages, Plain("question")) /\ saved' = saved
    BY <1>3 DEF Ask, Say
  <2>2. Whole(messages', broken)
    BY <1>2, <2>1, Said DEF Kind
  <2> QED BY <1>1, <1>2, <2>1, <2>2, StaysOutside
<1>4. CASE Answer \/ Synthesize
  <2>1. messages' = Append(messages, Plain("answer")) /\ saved' \in {saved, messages'}
    BY <1>4 DEF Answer, Synthesize, End, Say, Persist
  <2>2. Whole(messages', broken)
    BY <1>2, <2>1, Said DEF Kind
  <2> QED BY <1>1, <1>2, <2>1, <2>2, StaysOutside
<1>5. CASE GoOn
  <2>1. PICK t : t = << Plain("answer"), Plain("remark") >>
    OBVIOUS
  <2>2. messages' = messages \o t /\ saved' = saved
    BY <1>5, <2>1 DEF GoOn
  <2>3. /\ Plain("answer") \in Message /\ Plain("answer").ids = {} /\ ~IsResult(Plain("answer"))
        /\ Plain("remark") \in Message /\ Plain("remark").ids = {} /\ ~IsResult(Plain("remark"))
    BY PlainType DEF Kind
  <2>4. t \in Seq(Message) /\ Len(t) = 2 /\ t[1] = Plain("answer") /\ t[2] = Plain("remark")
    BY <2>1, <2>3
  <2>5. \A i \in 1 .. Len(t) : ~IsResult(t[i]) /\ t[i].ids = {}
    <3>1. \A i \in 1 .. Len(t) : i = 1 \/ i = 2
      BY <2>4
    <3> QED BY <2>3, <2>4, <3>1
  <2>6. Whole(messages', broken)
    BY <1>2, <2>2, <2>4, <2>5, SaidMore
  <2> QED BY <1>1, <1>2, <2>2, <2>6, StaysOutside
<1>6. CASE Loop
  <2>1. saved' = saved
    BY <1>6 DEF Loop
  <2>2. CASE messages' = messages
    BY <1>1, <1>2, <2>1, <2>2, StaysOutside
  <2>3. CASE Drain
    <3>1. PICK n, t : n = notes' - notes /\ t = [i \in 1 .. n |-> Plain("remark")]
      OBVIOUS
    <3>2. n \in Nat
      <4>1. notes \in Nat
        BY Numbers DEF IInv
      <4>2. notes' \in notes .. MaxNotes
        BY <2>3 DEF Drain
      <4>3. MaxNotes \in Nat
        BY Limits
      <4>4. \A a, c, e \in Nat : e \in a .. c => e - a \in Nat
        OBVIOUS
      <4>5. notes' \in Nat
        BY <4>1, <4>2, <4>3
      <4> QED BY <3>1, <4>1, <4>2, <4>3, <4>4, <4>5
    <3>3. messages' = messages \o t
      BY <2>3, <3>1 DEF Drain
    <3>4. /\ Plain("remark") \in Message /\ Plain("remark").ids = {}
          /\ ~IsResult(Plain("remark"))
      BY PlainType DEF Kind
    <3>5. t \in Seq(Message) /\ \A i \in 1 .. Len(t) : t[i] = Plain("remark")
      BY <3>1, <3>2, <3>4
    <3>6. Whole(messages', broken)
      BY <1>2, <3>3, <3>4, <3>5, SaidMore
    <3> QED BY <1>1, <1>2, <2>1, <3>6, StaysOutside
  <2> QED BY <1>6, <2>2, <2>3 DEF Loop
<1> QED BY <1>3, <1>4, <1>5, <1>6

\* The transcript is that of a new program, of a cleared one, or the saved one.
LEMMA BlocksReplaced ==
  ASSUME BlocksInv, Reset \/ Resume \/ Restart
  PROVE  BlocksInv'
<1>1. /\ pc' # "act" /\ broken' = broken /\ saved' = saved
      /\ messages' = << Plain("prompt") >> \/ (messages' = saved /\ saved # << >>)
  <2>1. CASE Reset \/ Resume
    BY <2>1 DEF Reset, Resume, BlocksInv
  <2>2. CASE Restart
    BY <2>2 DEF Restart, Leave
  <2> QED BY <2>1, <2>2
<1>2. saved # << >> => Whole(saved, broken)
  BY WholeOutside
<1>3. Whole(messages', broken)
  BY <1>1, <1>2, WholePrompt
<1> QED BY <1>1, <1>2, <1>3, StaysOutside

\* Calls are announced that nobody has announced before.
LEMMA BlocksAnnounce ==
  ASSUME IInv, StepsPayForRounds, BlocksInv, Announce
  PROVE  BlocksInv'
<1>1. PICK n \in 1 .. MaxCalls : /\ calls' = calls + n
                                 /\ messages' = Append(messages, Calls(calls + 1 .. calls + n))
  BY DEF Announce
<1>2. /\ pc # "act" /\ pc' = "act" /\ broken' = broken /\ saved' = saved
      /\ reported' = reported
  BY DEF Announce
<1>3. calls \in Nat /\ n \in Nat \ {0} /\ reported = calls
  <2>1. calls \in Nat /\ MaxCalls \in Nat
    BY Limits DEF IInv, TypeOK
  <2>2. reported \in Nat /\ reported <= calls
    BY Numbers DEF IInv
  <2>3. ~(reported < calls)
    BY <1>2 DEF StepsPayForRounds
  <2> QED BY <2>1, <2>2, <2>3
<1>4. PICK s, m, t, l : /\ s = messages /\ m = Calls(calls + 1 .. calls + n)
                        /\ t = Append(s, m) /\ l = Len(s)
  OBVIOUS
<1>5. m \in Message /\ m.ids = calls + 1 .. calls + n /\ m.kind = "calls" /\ ~IsResult(m)
  BY <1>3, <1>4, CallsType DEF IsResult
<1>6. /\ s \in Seq(Message) /\ \A i \in DOMAIN s : s[i].ids \subseteq 1 .. calls
      /\ \A i \in Leads(saved) : saved[i].ids \subseteq 1 .. calls
  <2>1. saved # << >> => \A i \in DOMAIN saved : saved[i].ids \subseteq 1 .. calls
    BY DEF IInv, Transcript
  <2>2. saved = << >> => Leads(saved) = {}
    BY DEF Leads
  <2> QED BY <1>4, <2>1, <2>2 DEF IInv, Transcript, Leads
<1>7. /\ t \in Seq(Message) /\ Len(t) = l + 1 /\ t[l + 1] = m /\ l \in Nat
      /\ \A k \in 1 .. l : t[k] = s[k]
      /\ \A k \in 1 .. l + 1 : k = l + 1 \/ k \in 1 .. l
      /\ l <= l + 1 /\ \A k \in l + 1 .. l + 1 : k = l + 1
      /\ l + 1 \in l + 1 .. l + 1 /\ DOMAIN s = 1 .. l
  BY <1>4, <1>5, <1>6, AppendProperties
<1>8. \A ids : ids \subseteq 1 .. calls => ids \cap m.ids = {}
  BY <1>3, <1>5
<1>9. \A k \in l + 1 .. Len(t) :
        ~IsResult(t[k]) /\ \A j \in 1 .. Len(t) : j # k => t[j].ids \cap t[k].ids = {}
  BY <1>5, <1>6, <1>7, <1>8
<1>10. Whole(s, broken) /\ (saved # << >> => Whole(saved, broken))
  BY <1>2, <1>4, WholeOutside
<1>11. /\ InBlocks(t) /\ Leads(t) = Leads(s) \cup l + 1 .. Len(t)
       /\ \A j \in Leads(s) : \A b : Settled(t, j, b) <=> Settled(s, j, b)
       /\ \A j \in l + 1 .. Len(t) : Block(t, j) = {}
  <2>1. /\ InBlocks(s) /\ Len(s) <= Len(t) /\ \A k \in 1 .. Len(s) : t[k] = s[k]
        /\ \A k \in Len(s) + 1 .. Len(t) :
             /\ ~IsResult(t[k])
             /\ \A j \in 1 .. Len(t) : j # k => t[j].ids \cap t[k].ids = {}
    BY <1>4, <1>7, <1>9, <1>10 DEF Whole
  <2>2. /\ InBlocks(t) /\ Leads(t) = Leads(s) \cup Len(s) + 1 .. Len(t)
        /\ \A j \in Leads(s) : \A b : Settled(t, j, b) <=> Settled(s, j, b)
        /\ \A j \in Len(s) + 1 .. Len(t) : Block(t, j) = {}
    BY <1>6, <1>7, <2>1, LeadsAdded
  <2> QED BY <1>4, <2>2
<1>12. l + 1 \in Leads(t) /\ Block(t, l + 1) = {} /\ ResultsOf(t, l + 1) = {}
  BY <1>7, <1>11 DEF ResultsOf
<1>13. messages' = t
  BY <1>1, <1>4
<1>14. UnderWay(l + 1)'
  <2>1. messages'[l + 1] = m /\ Block(messages', l + 1) = (l + 1) + 1 .. Len(messages')
    <3>1. (l + 1) + 1 .. l + 1 = {}
      BY <1>7
    <3> QED BY <1>7, <1>12, <1>13, <3>1
  <2>2. reported' < calls' /\ reported' + 1 .. calls' = m.ids
    BY <1>1, <1>2, <1>3, <1>5
  <2>3. messages'[l + 1].ids \ ResultsOf(messages', l + 1) = m.ids
    BY <1>12, <1>13, <2>1
  <2>4. m.ids \cap broken = {}
    <3>1. broken \subseteq 1 .. calls
      BY DEF IInv, TypeOK
    <3> QED BY <1>8, <3>1
  <2>5. \A k \in Leads(saved') : saved'[k].ids \cap m.ids = {}
    BY <1>2, <1>6, <1>8
  <2> QED BY <1>2, <1>5, <2>1, <2>2, <2>3, <2>4, <2>5 DEF UnderWay
<1>15. \A k \in Leads(messages') \ {l + 1} : Settled(messages', k, broken')
  BY <1>2, <1>7, <1>10, <1>11, <1>13 DEF Whole
<1>16. /\ saved' # << >> => InBlocks(saved')
       /\ \A j \in Leads(saved') : Settled(saved', j, broken')
  BY <1>2 DEF BlocksInv
<1> QED BY <1>2, <1>11, <1>12, <1>13, <1>14, <1>15, <1>16 DEF BlocksInv

\* A result is reported: that of a call that is under way.
LEMMA BlocksReport ==
  ASSUME IInv, BlocksInv, Report
  PROVE  BlocksInv'
<1>1. /\ pc = "act" /\ messages' = Append(messages, Result(reported + 1))
      /\ reported' = reported + 1 /\ calls' = calls
      /\ pc' = IF reported + 1 = calls THEN "loop" ELSE "act"
      /\ broken' = broken /\ saved' = saved
  BY DEF Report
<1>2. PICK j \in Leads(messages) :
        /\ UnderWay(j)
        /\ \A k \in Leads(messages) \ {j} : Settled(messages, k, broken)
  BY <1>1 DEF BlocksInv
<1>3. PICK s, m, t : s = messages /\ m = Result(reported + 1) /\ t = Append(s, m)
  OBVIOUS
<1>4. reported \in Nat /\ calls \in Nat /\ reported < calls
  BY <1>2 DEF UnderWay, IInv, TypeOK
<1>5. m \in Message /\ m.ids = {reported + 1} /\ IsResult(m)
  BY <1>3, <1>4, ResultType DEF IsResult
<1>6. /\ s \in Seq(Message) /\ InBlocks(s) /\ j \in Leads(s)
      /\ Block(s, j) = j + 1 .. Len(s) /\ s[j].kind = "calls"
      /\ s[j].ids \ ResultsOf(s, j) = reported + 1 .. calls
      /\ s[j].ids \cap broken = {}
      /\ \A k \in Leads(saved) : saved[k].ids \cap s[j].ids = {}
  BY <1>2, <1>3 DEF UnderWay, BlocksInv, IInv, TypeOK
<1>7. m.ids \subseteq s[j].ids /\ m.ids \cap ResultsOf(s, j) = {}
  <2>1. reported + 1 \in reported + 1 .. calls
    BY <1>4
  <2> QED BY <1>5, <1>6, <2>1
<1>8. /\ InBlocks(t) /\ Leads(t) = Leads(s)
      /\ Block(t, j) = j + 1 .. Len(t) /\ t[j] = s[j]
      /\ ResultsOf(t, j) = ResultsOf(s, j) \cup m.ids
      /\ \A k \in Leads(s) \ {j} : \A b : Settled(t, k, b) <=> Settled(s, k, b)
  <2>1. Adds(s, t, j, m)
    BY <1>3, <1>5, <1>6, <1>7, ResultAdded
  <2> QED BY <2>1 DEF Adds
<1>9. messages' = t
  BY <1>1, <1>3
<1>10. t[j].ids \ ResultsOf(t, j) = (reported + 1) + 1 .. calls
  <2>1. (reported + 1 .. calls) \ {reported + 1} = (reported + 1) + 1 .. calls
    BY <1>4
  <2>2. t[j].ids \ ResultsOf(t, j) = (s[j].ids \ ResultsOf(s, j)) \ m.ids
    BY <1>8
  <2> QED BY <1>5, <1>6, <2>1, <2>2
<1>11. \A k \in Leads(t) \ {j} : Settled(t, k, broken)
  BY <1>2, <1>3, <1>8
<1>12. /\ saved' # << >> => InBlocks(saved')
       /\ \A k \in Leads(saved') : Settled(saved', k, broken')
  BY <1>1 DEF BlocksInv
<1>13. CASE reported + 1 = calls
  <2>1. (reported + 1) + 1 .. calls = {}
    BY <1>4, <1>13
  <2>2. t[j].ids \subseteq ResultsOf(t, j)
    BY <1>10, <2>1
  <2>3. Settled(t, j, broken)
    BY <1>6, <1>8, <2>2 DEF Settled
  <2>4. \A k \in Leads(t) : Settled(t, k, broken)
    BY <1>11, <2>3
  <2> QED BY <1>1, <1>8, <1>9, <1>12, <1>13, <2>4 DEF BlocksInv
<1>14. CASE reported + 1 # calls
  <2>1. reported' < calls' /\ pc' = "act"
    BY <1>1, <1>4, <1>14
  <2>2. UnderWay(j)'
    BY <1>1, <1>6, <1>8, <1>9, <1>10, <2>1 DEF UnderWay
  <2>3. j \in Leads(t)
    BY <1>6, <1>8
  <2>4. \A k \in Leads(messages') \ {j} : Settled(messages', k, broken')
    BY <1>1, <1>9, <1>11
  <2> QED BY <1>1, <1>8, <1>9, <1>12, <2>1, <2>2, <2>3, <2>4 DEF BlocksInv
<1> QED BY <1>13, <1>14

\* What is broken off by an exception is what is under way.
LEMMA AnnouncedUnderWay ==
  ASSUME NEW s \in Seq(Message), NEW j \in Leads(s), s[j].kind = "calls",
         Block(s, j) = j + 1 .. Len(s)
  PROVE  Announced(s) = s[j].ids
<1>1. j \in 1 .. Len(s) /\ Len(s) \in Nat /\ DOMAIN s = 1 .. Len(s)
  BY DEF Leads
<1>2. \A i \in j + 1 .. Len(s) : IsResult(s[i]) /\ s[i].kind # "calls"
  <2>1. \A i \in Block(s, j) : i \in j + 1 .. i
    BY <1>1
  <2> QED BY <2>1 DEF Block, IsResult
<1>3. ASSUME NEW i \in DOMAIN s, s[i].kind = "calls",
             \A k \in i + 1 .. Len(s) : s[k].kind # "calls"
      PROVE  i = j
  <2>1. ~(i < j)
    <3>1. i < j => j \in i + 1 .. Len(s)
      BY <1>1
    <3> QED BY <1>3, <3>1
  <2>2. ~(i > j)
    <3>1. i > j => i \in j + 1 .. Len(s)
      BY <1>1
    <3> QED BY <1>2, <1>3, <3>1
  <2> QED BY <1>1, <2>1, <2>2
<1>4. PICK S : S = {i \in DOMAIN s : /\ s[i].kind = "calls"
                                     /\ \A k \in i + 1 .. Len(s) : s[k].kind # "calls"}
  OBVIOUS
<1>5. S = {j}
  BY <1>1, <1>2, <1>3, <1>4
<1>6. Announced(s) = UNION {s[i].ids : i \in S}
  BY <1>4 DEF Announced
<1> QED BY <1>5, <1>6

\* An exception breaks the calls off.
LEMMA BlocksRaise ==
  ASSUME IInv, BlocksInv, Raise
  PROVE  BlocksInv'
<1>1. /\ pc' # "act" /\ messages' = messages /\ saved' = saved
      /\ broken' = broken \cup IF pc = "act" THEN Announced(messages) ELSE {}
  BY DEF Raise, Leave
<1>2. CASE pc # "act"
  <2>1. broken' = broken
    BY <1>1, <1>2
  <2>2. Whole(messages, broken) /\ (saved # << >> => Whole(saved, broken))
    BY <1>2, WholeOutside
  <2> QED BY <1>1, <2>1, <2>2, StaysOutside
<1>3. CASE pc = "act"
  <2>1. PICK j \in Leads(messages) :
          /\ UnderWay(j)
          /\ \A k \in Leads(messages) \ {j} : Settled(messages, k, broken)
    BY <1>3 DEF BlocksInv
  <2>2. PICK ids : ids = messages[j].ids
    OBVIOUS
  <2>3. broken' = broken \cup ids
    <3>1. messages \in Seq(Message)
      BY DEF IInv, TypeOK
    <3>2. Announced(messages) = ids
      BY <2>1, <2>2, <3>1, AnnouncedUnderWay DEF UnderWay
    <3> QED BY <1>1, <1>3, <3>2
  <2>4. ASSUME NEW s, NEW k \in Leads(s), Settled(s, k, broken), s[k].ids \cap ids = {}
        PROVE  Settled(s, k, broken')
    <3>1. s[k].ids \cap broken' = s[k].ids \cap broken
      BY <2>3, <2>4
    <3> QED BY <2>3, <2>4, <3>1 DEF Settled
  <2>5. \A k \in Leads(messages) \ {j} : messages[k].ids \cap ids = {}
    BY <2>2 DEF BlocksInv, InBlocks
  <2>6. \A k \in Leads(saved) : saved[k].ids \cap ids = {} /\ Settled(saved, k, broken)
    BY <2>1, <2>2 DEF BlocksInv, UnderWay
  <2>7. Settled(messages, j, broken')
    <3>1. calls \in ids \ ResultsOf(messages, j)
      <4>1. calls \in reported + 1 .. calls
        BY <2>1 DEF UnderWay, IInv, TypeOK
      <4> QED BY <2>1, <2>2, <4>1 DEF UnderWay
    <3> QED BY <2>2, <2>3, <3>1 DEF Settled
  <2>8. Whole(messages, broken')
    BY <2>1, <2>4, <2>5, <2>7 DEF BlocksInv, Whole
  <2>9. saved # << >> => Whole(saved, broken')
    BY <2>4, <2>6 DEF BlocksInv, Whole
  <2>10. Leads(saved') = {} \/ saved' # << >>
    BY DEF Leads
  <2> QED BY <1>1, <2>8, <2>9, <2>10 DEF BlocksInv, Whole
<1> QED BY <1>2, <1>3

LEMMA InitBlocks == Init => BlocksInv
<1> SUFFICES ASSUME Init PROVE BlocksInv
  OBVIOUS
<1>1. Whole(messages, broken) /\ saved = << >> /\ pc # "act"
  BY WholePrompt DEF Init
<1>2. Leads(saved) = {}
  BY <1>1 DEF Leads
<1> QED BY <1>1, <1>2 DEF BlocksInv, Whole

LEMMA NextBlocks ==
  ASSUME IInv, IInv', StepsPayForRounds, BlocksInv, [Next]_vars
  PROVE  BlocksInv'
<1>1. CASE UNCHANGED vars \/ RunBatch
  <2>1. \/ UNCHANGED << messages, saved, pc, reported, calls, broken >>
        \/ RunBatch
    BY <1>1 DEF vars, callVars
  <2>2. UNCHANGED << messages, saved, pc, reported, calls, broken >>
    BY <2>1 DEF RunBatch
  <2> QED BY <2>2 DEF BlocksInv, UnderWay
<1>2. CASE Turn
  BY <1>1, <1>2, BlocksBudget, BlocksCompact, BlocksSaid, BlocksAnnounce, BlocksReport DEF Turn
<1>3. CASE Ask \/ Raise \/ CompactNow \/ Reset \/ Resume \/ Restart
  BY <1>3, BlocksSaid, BlocksRaise, BlocksCompact, BlocksReplaced
<1> QED BY <1>1, <1>2, <1>3 DEF Next

\* No request loses anything but the calls of an announcement whose execution was broken
\* off, with the results they had: no compaction, no restart and no saved session parts a
\* call from its result (drop_incomplete_tool_block has nothing else to do).
THEOREM OnlyBrokenGoes == Spec => []OnlyBrokenIsDropped
<1>1. Init => BlocksInv
  BY InitBlocks
<1>2. IInv /\ IInv' /\ StepsPayForRounds /\ BlocksInv /\ [Next]_vars => BlocksInv'
  BY NextBlocks
<1>3. IInv /\ BlocksInv => OnlyBrokenIsDropped
  <2> SUFFICES ASSUME IInv, BlocksInv, pc = "request"
               PROVE  Request(messages) = Unbroken(messages)
    BY DEF OnlyBrokenIsDropped
  <2>1. Whole(messages, broken) /\ messages \in Seq(Message)
    BY WholeOutside DEF IInv, TypeOK
  <2> QED BY <2>1, FilterDrops DEF Whole
<1>4. Spec => []BlocksInv
  BY <1>1, <1>2, Invariance, RoundsArePaidFor, PTL DEF Spec
<1> QED BY <1>3, <1>4, Invariance, PTL
=============================================================================
