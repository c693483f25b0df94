------------------------------- MODULE Summary -------------------------------
(***************************************************************************)
(* The request for the summary that a compaction makes                       *)
(* (src/lilbot/core/compaction.py): when it is itself too long for the model,  *)
(* its oldest rounds are dropped and it is tried again.  AgentTurn has the     *)
(* compaction around it, and what becomes of the summary.                      *)
(*                                                                         *)
(* Left out: the system message, which every request keeps in front, the       *)
(* instruction behind it, and the pause between two attempts.                  *)
(***************************************************************************)
EXTENDS Naturals, FiniteSets, SequencesExt

CONSTANTS
  MaxRounds,    \* bound of the model: rounds in the prefix that is summarised
  MaxAttempts   \* MAX_SUMMARY_RETRIES

VARIABLES
  prefix,     \* to_summarize: the messages in front of the kept tail
  request,    \* msgs: the messages of the next attempt
  shared,     \* the provider gets the messages themselves, not their text
  attempt,    \* attempts begun
  outcome,    \* "none", "asking", "summary" or "failed"
  overflows   \* history: attempts refused for their length

vars == << prefix, request, shared, attempt, outcome, overflows >>

(***************************************************************************)
(* Messages and rounds                                                      *)
(***************************************************************************)
Message(role, round) == [role |-> role, round |-> round]
Marker == Message("marker", 0)   \* PTL_RETRY_MARKER, a user message

\* What a turn leaves behind: a response, its results if it calls tools, and what the
\* user, a hook or a reminder says next.  The question is in front of the first response.
Round(k, calls, asked) ==
  << Message("assistant", k) >>
    \o (IF calls THEN << Message("tool", k), Message("tool", k) >> ELSE << >>)
    \o (IF asked THEN << Message("user", k) >> ELSE << >>)
Prefix(n, calls, asked) ==
  << Message("user", 0) >>
    \o FlattenSeq([k \in 1..n |-> Round(k, k % 2 \in calls, k % 3 \in asked)])

\* Mutant: messages are dropped, not rounds.
RoundStartsAnywhere(messages) == DOMAIN messages

\* group_messages_by_round: where the rounds begin.
RoundStarts(messages) ==
  {i \in DOMAIN messages : i = 1 \/ messages[i].role = "assistant"}

\* Mutant: the marker of an earlier retry stays, as a round of its own.
WithoutMarkerNever(messages) == messages

WithoutMarker(messages) ==
  IF messages # << >> /\ messages[1] = Marker THEN Tail(messages) ELSE messages

\* truncate_head_for_retry: a fifth of the rounds goes, one at least, and one stays.
Truncated(messages) ==
  LET body == WithoutMarker(messages)
      starts == RoundStarts(body)
      rounds == Cardinality(starts)
      drop == IF rounds < 5 THEN 1 ELSE rounds \div 5
      first == CHOOSE i \in starts : Cardinality({j \in starts : j < i}) = drop
  IN  IF rounds < 2 THEN messages
      ELSE << Marker >> \o SubSeq(body, first, Len(body))

(***************************************************************************)
(* Attempts                                                                 *)
(***************************************************************************)
Init ==
  /\ prefix = << >> /\ request = << >>
  /\ shared = FALSE
  /\ attempt = 0
  /\ outcome = "none"
  /\ overflows = 0

\* auto_compact has a prefix worth a summary; a provider that streams shares its cache.
Begin ==
  /\ outcome = "none"
  /\ outcome' = "asking"
  /\ attempt' = 1
  /\ shared' \in BOOLEAN
  /\ \E n \in 0..MaxRounds, calls \in SUBSET {0, 1}, asked \in SUBSET {0, 1} :
       prefix' = Prefix(n, calls, asked)
  /\ request' = prefix'
  /\ UNCHANGED overflows

\* The first answer with text in it is the summary.
Summarize ==
  /\ outcome = "asking"
  /\ outcome' = "summary"
  /\ UNCHANGED << prefix, request, shared, attempt, overflows >>

\* After the last attempt there is no summary: the compaction fails.
TryAgain ==
  /\ outcome = "asking"
  /\ IF attempt < MaxAttempts
     THEN attempt' = attempt + 1 /\ UNCHANGED outcome
     ELSE outcome' = "failed" /\ UNCHANGED attempt
  /\ UNCHANGED << prefix, shared >>

\* An empty answer or an exception; as text, a request that is too long is one as well.
Fail ==
  /\ TryAgain
  /\ UNCHANGED << request, overflows >>

\* is_context_overflow_error
TooLong ==
  /\ shared
  /\ TryAgain
  /\ request' = Truncated(request)
  /\ overflows' = overflows + 1

Next == Begin \/ Summarize \/ Fail \/ TooLong

Spec == Init /\ [][Next]_vars

(***************************************************************************)
(* Properties                                                               *)
(***************************************************************************)
Asked == WithoutMarker(request)

\* However often a request is cut, it is the end of the prefix behind at most one marker,
\* and it has no result without the response that called for it: a provider would refuse
\* that one for another reason than its length (truncate_head_for_retry).
RoundsStayWhole ==
  /\ IsSuffix(Asked, prefix)
  /\ \A i \in DOMAIN request : request[i] = Marker => i = 1
  /\ \A i \in DOMAIN request : request[i].role = "tool" =>
       \E j \in 1..i - 1 :
          request[j].role = "assistant" /\ request[j].round = request[i].round

\* Every refusal for length makes the next request shorter by a round until one is left:
\* a retry never sends the same again ("stall the 20% fallback", compaction.py:404).
RefusalsShorten ==
  outcome # "none" =>
    \/ Cardinality(RoundStarts(Asked)) = 1
    \/ Cardinality(RoundStarts(prefix)) - Cardinality(RoundStarts(Asked)) >= overflows

\* Why they hold: what is asked is the prefix from the beginning of one of its rounds on,
\* and every result of the prefix comes right behind its response.
Messages == [role : {"assistant", "tool", "user"}, round : Nat]

WholeRounds(messages) ==
  /\ messages \in Seq(Messages)
  /\ \A i \in DOMAIN messages : messages[i].role = "tool" =>
       \E j \in 1..i - 1 :
          /\ messages[j].role = "assistant" /\ messages[j].round = messages[i].round
          /\ \A l \in j + 1..i : messages[l].role # "assistant"

From(k) == SubSeq(prefix, k, Len(prefix))

RequestInv ==
  /\ prefix # << >>
  /\ \E k \in RoundStarts(prefix) : request \in {From(k), << Marker >> \o From(k)}

IInv ==
  /\ WholeRounds(prefix) /\ overflows \in Nat
  /\ IF outcome = "none" THEN prefix = << >> /\ request = << >> /\ overflows = 0
     ELSE RequestInv
  /\ RefusalsShorten
===============================================================================
