--------------------------------- MODULE Stream ---------------------------------
(***************************************************************************)
(* One model turn from the endpoint to the screen: the lines of the response   *)
(* (src/lilbot/llm/providers.py), the agent that drives them (_drive_stream in  *)
(* src/lilbot/core/agent.py) and the trace of the dashboard                     *)
(* (src/lilbot/tui/dashboard.py), which writes the text into its last line as   *)
(* it comes while the user goes on typing.  Reasoning and usage are left out.   *)
(***************************************************************************)
EXTENDS Integers, Sequences, SequencesExt

CONSTANTS
  Index,       \* positions of the tool calls of a turn
  Pieces,      \* fragments the arguments of a call come in
  MaxTexts,    \* bound of the model: fragments of text
  MaxCards     \* bound of the model: other entries of the trace

VARIABLES
  phase,      \* "idle", "asked", "streaming", "ended" or "failed"
  texts,      \* fragments of text sent so far, numbered through all turns
  first,      \* the first of them in this turn
  sent,       \* fragments sent of each call
  slots,      \* tool_slots: what has been put together of each call
  turn,       \* the final ProviderTurn
  lines,      \* the trace: each line a sequence of fragments, or of one card
  live,       \* _stream_active
  line,       \* _stream_line
  cards,      \* cards appended, numbered -1, -2, ...
  disturbed   \* history: a line was appended while a stream was live

vars == << phase, texts, first, sent, slots, turn, lines, live, line, cards, disturbed >>
Trace == << lines, live, line, cards, disturbed >>
Parsed == << texts, first, sent, slots >>

NoTurn == [content |-> << >>, calls |-> [i \in Index |-> << >>], finish |-> "none"]
Numbers(from, to) == [n \in 1 .. to - from |-> from + n]
Busy == phase # "idle"

(***************************************************************************)
(* The trace                                                               *)
(***************************************************************************)

\* _append, from any thread.
AppendCard ==
  /\ cards < MaxCards
  /\ cards' = cards + 1
  /\ lines' = Append(lines, << -(cards + 1) >>)

\* _stream_chunk: the last line of the trace becomes the live line with the fragment; a
\* fragment that ends a line begins the next.
StreamChunk(piece, breaks) ==
  LET shown == IF live THEN lines ELSE Append(lines, << >>)
      grown == Append(IF live THEN line ELSE << >>, piece)
  IN  /\ live' = TRUE
      /\ line' = IF breaks THEN << >> ELSE grown
      /\ lines' = [shown EXCEPT ![Len(shown)] = grown] \o IF breaks THEN << << >> >> ELSE << >>
      /\ UNCHANGED << cards, disturbed >>

\* Mutant: the live line is not ended.
EventGoesOn == AppendCard /\ UNCHANGED << live, line, disturbed >>

\* event: anything but a fragment ends the live line; then its card is appended.
Event ==
  /\ AppendCard
  /\ live' = FALSE /\ line' = << >>
  /\ UNCHANGED disturbed

\* _on_submit: the prompt, or while the agent works the word that it does.
Submit ==
  /\ phase \in {"idle", "asked", "streaming"}
  /\ AppendCard
  /\ disturbed' = (disturbed \/ live)
  /\ IF Busy THEN UNCHANGED << phase, texts, first, sent, slots, turn >>
     ELSE /\ phase' = "asked"
          /\ first' = texts
          /\ sent' = [i \in Index |-> 0]
          /\ slots' = [i \in Index |-> << >>]
          /\ turn' = NoTurn
          /\ UNCHANGED texts
  /\ UNCHANGED << live, line >>

(***************************************************************************)
(* The response                                                            *)
(***************************************************************************)

\* An answer that is no error: its lines follow.  Comments, lines that do not parse and
\* chunks without a choice change nothing.
Respond ==
  /\ phase = "asked"
  /\ phase' = "streaming"
  /\ UNCHANGED << texts, first, sent, slots, turn, lines, live, line, cards, disturbed >>

Text(breaks) ==
  /\ phase = "streaming"
  /\ texts < MaxTexts
  /\ texts' = texts + 1
  /\ StreamChunk(texts + 1, breaks)
  /\ UNCHANGED << phase, first, sent, slots, turn >>

\* Mutant: a fragment goes to the call that was begun last.
CallPieceToLast(i) ==
  /\ phase = "streaming"
  /\ sent[i] < Pieces
  /\ sent' = [sent EXCEPT ![i] = @ + 1]
  /\ LET to == IF \E j \in Index : j > i /\ sent[j] > 0
               THEN CHOOSE j \in Index : j > i /\ sent[j] > 0 ELSE i
     IN  slots' = [slots EXCEPT ![to] = Append(@, << i, sent'[i] >>)]
  /\ UNCHANGED << phase, texts, first, turn, lines, live, line, cards, disturbed >>

\* The fragments of several calls come in any order; each names its call.
CallPiece(i) ==
  /\ phase = "streaming"
  /\ sent[i] < Pieces
  /\ sent' = [sent EXCEPT ![i] = @ + 1]
  /\ slots' = [slots EXCEPT ![i] = Append(@, << i, sent'[i] >>)]
  /\ UNCHANGED << phase, texts, first, turn, lines, live, line, cards, disturbed >>

\* The last event: the turn put together.
Final(finish) ==
  /\ phase' = "ended"
  /\ turn' = [content |-> Numbers(first, texts), calls |-> slots, finish |-> finish]
  /\ UNCHANGED << texts, first, sent, slots >>

\* [DONE], after every call has been sent or the output has reached its limit.
Done ==
  /\ phase = "streaming"
  /\ \/ Final("stop") /\ \A i \in Index : sent[i] \in {0, Pieces}
     \/ Final("length")
  /\ UNCHANGED << lines, live, line, cards, disturbed >>

\* The lines end without it: what is there is the turn.
CutOff ==
  /\ phase = "streaming"
  /\ Final("none")
  /\ UNCHANGED << lines, live, line, cards, disturbed >>

\* complete, and the provider without an endpoint: the turn in one piece, one event.
Whole ==
  /\ phase = "asked"
  /\ sent' \in [Index -> {0, Pieces}]
  /\ slots' = [i \in Index |-> [n \in 1 .. sent'[i] |-> << i, n >>]]
  /\ turn' = [content |-> << >>, calls |-> slots', finish |-> "stop"]
  /\ phase' = "ended"
  /\ UNCHANGED << texts, first, lines, live, line, cards, disturbed >>

\* A status of 400 or more, a broken connection, a line of a form nobody expects: no turn.
Fail ==
  /\ phase \in {"asked", "streaming"}
  /\ phase' = "failed"
  /\ UNCHANGED << texts, first, sent, slots, turn, lines, live, line, cards, disturbed >>

(***************************************************************************)
(* What follows                                                            *)
(***************************************************************************)

\* The agent asks again with the results of the calls, whose cards are shown, ...
ShowTools ==
  /\ phase = "ended"
  /\ \E i \in Index : turn.calls[i] # << >>
  /\ phase' = "asked"
  /\ first' = texts
  /\ sent' = [i \in Index |-> 0]
  /\ slots' = [i \in Index |-> << >>]
  /\ turn' = NoTurn
  /\ Event
  /\ UNCHANGED texts

\* ... or the turn of the user is finished.
ShowEnd ==
  /\ phase = "ended"
  /\ \A i \in Index : turn.calls[i] = << >>
  /\ phase' = "idle"
  /\ Event
  /\ UNCHANGED << texts, first, sent, slots, turn >>

\* _process_line: the error is printed, and that is no event.
ShowError ==
  /\ phase = "failed"
  /\ phase' = "idle"
  /\ AppendCard
  /\ disturbed' = (disturbed \/ live)
  /\ UNCHANGED << texts, first, sent, slots, turn, live, line >>

Init ==
  /\ phase = "idle"
  /\ texts = 0 /\ first = 0
  /\ sent = [i \in Index |-> 0]
  /\ slots = [i \in Index |-> << >>]
  /\ turn = NoTurn
  /\ lines = << >>
  /\ live = FALSE /\ line = << >>
  /\ cards = 0
  /\ disturbed = FALSE

Next ==
  \/ Submit \/ Respond \/ Done \/ CutOff \/ Whole \/ Fail
  \/ \E breaks \in BOOLEAN : Text(breaks)
  \/ \E i \in Index : CallPiece(i)
  \/ ShowTools \/ ShowEnd \/ ShowError

Spec == Init /\ [][Next]_vars

(***************************************************************************)
(* Properties                                                              *)
(***************************************************************************)

Shown == FlattenSeq(lines)

\* Exactly what was said, with every card: texts and cards each in their order.
InOrder ==
  /\ ToSet(Shown) = 1 .. texts \cup {-n : n \in 1 .. cards}
  /\ \A i, j \in DOMAIN Shown : i < j =>
       /\ Shown[i] > 0 /\ Shown[j] > 0 => Shown[i] < Shown[j]
       /\ Shown[i] < 0 /\ Shown[j] < 0 => Shown[i] > Shown[j]

\* Every fragment of text is on the screen, and unless something else was written while a
\* stream was live the trace is exactly what was said, in order, with every card.
TraceComplete ==
  /\ \A n \in 1 .. texts : n \in ToSet(Shown)
  /\ ~disturbed => InOrder

\* The turn the agent acts on: each call has its own fragments and no others, in their
\* order, however the calls were interleaved.
TurnAsSent ==
  phase = "ended" => \A i \in Index : turn.calls[i] = [n \in 1 .. sent[i] |-> << i, n >>]

\* The response reaches the agent and the screen as it was sent.
ArrivesAsSent == TraceComplete /\ TurnAsSent

\* Why it does: a fragment replaces the last line of the trace, which is the live line or,
\* if something else was written meanwhile, a card; and each slot has what was sent so far.
TypeOK ==
  /\ texts \in Nat /\ cards \in Nat /\ live \in BOOLEAN /\ disturbed \in BOOLEAN
  /\ line \in Seq(Int) /\ lines \in Seq(Seq(Int))
  /\ sent \in [Index -> Nat] /\ DOMAIN slots = Index

IsCard(entry) == \A i \in DOMAIN entry : entry[i] < 0

LiveInv ==
  live => \E front \in Seq(Seq(Int)), last \in Seq(Int) :
            lines = Append(front, last) /\ (last = line \/ (disturbed /\ IsCard(last)))

SlotsInv ==
  /\ \A i \in Index : slots[i] = [n \in 1 .. sent[i] |-> << i, n >>]
  /\ phase = "ended" => turn.calls = slots

IInv == TypeOK /\ LiveInv /\ SlotsInv /\ TraceComplete
=============================================================================
