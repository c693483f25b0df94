------------------------------ MODULE Components ------------------------------
(***************************************************************************)
(* The components that share no state with each other, side by side: in each   *)
(* behaviour one of them, "part", takes all the steps and the others stay where  *)
(* they began, so one run checks each by itself.  Constants and variables of     *)
(* one name that mean two things are renamed by the instances.  The modules      *)
(* define what happens and state the properties; this one puts them together.    *)
(***************************************************************************)
EXTENDS Naturals, FiniteSets

CONSTANTS
  Agent, MaxCalls, MaxCrashes,
  Member, MaxUses, MaxDeaths,
  TreeName, Subagent, MaxEnters, MaxStarts,
  Path, MaxEdits, MaxStops,
  MaxRemarks,
  MainThread, Caller, MaxId, MaxNoise,
  Lead, MaxResults,
  Worker, MaxContinuations, MaxRuns, MaxReloads,
  Writer, FoldsCase, MaxSaves, MaxDeletes,
  Memory, MaxSelected, MaxRecalls,
  Section, Job, MaxUpdates,
  Index, Pieces, MaxTexts, MaxCards,
  Limit, MaxBatch,
  Process, Seconds, MaxTalks,
  MaxRounds, MaxAttempts,
  MaxSteps, MaxTruncations, MaxRecoveries, MaxFailures, MinKeep, KeepRecent,
  LongHistory, MaxTurns, MaxAnnounced, MaxNotes, MaxRestarts

\* Limits and bounds are numbers.
ASSUME LimitsAssumption ==
  /\ MaxUses \in Nat /\ MaxRecalls \in Nat /\ MaxId \in Nat /\ Limit \in Nat /\ MaxBatch \in Nat
  /\ MaxEdits \in Nat /\ MaxRounds \in Nat /\ Pieces \in Nat

\* There is a first second, and processes can be counted.
ASSUME SecondsAssumption == Seconds \in Nat \ {0}
ASSUME ProcessAssumption == IsFiniteSet(Process)

\* A free lock is no thread's.
ASSUME JobsAssumption == "free" \notin Job

VARIABLES
  part,     \* the component this behaviour is about
  file, frames, issued, kept, clean, group, calls, crashes,
  disk, store, step, use, data, given, apart, uses, deaths,
  dirs, root, record, stale, tree, nested, enters, starts,
  content, backup, journal, doing, entry, undo, keep, undone, holes, edits, stops,
  tool, server, ask, queries, pipe, inbox, outcome, navigated, remarks,
  process, reader, link, alive, offered, lastId, pending, reply, at, asks, answer,
  unread, lines, noise,
  registered, discovered, cache, signature, working, due, overlapped,
  hookFile, engine, turnAt, continued, firing, guidance, log,
  files, saving, stored, alone, saves, deletes,
  known, surfaced, prefetch, jobs, reminder, session, now, inTurn, seenIn, savedSeenIn,
  doc, torn, lock, stage, draft, updates, number, latest, noteStops, lost,
  phase, texts, first, sent, slots, modelTurn, trace, live, line, cards, disturbed,
  role, allowed, tools, shown, turn, taken, asked, batches, queue, used,
  second, sessionOf, talk, persisting, openFile, sessionText, final, tempFile, talks,
  savedTalks, cleared, ambiguous,
  prefix, summaryRequest, shared, attempt, summaryOutcome, overflows,
  messages, saved, pc, steps, truncations, continuations, attempts, rounds, announced,
  ran, reported, failures, seen, replaced, broken, turns, notes, restarts

stateFilesVars == << file, frames, issued, kept, clean, group, calls, crashes >>
boardVars == << disk, store, step, use, data, given, apart, uses, deaths >>
worktreesVars == << dirs, root, record, stale, tree, nested, enters, starts >>
rewindVars == << content, backup, journal, doing, entry, undo, keep, undone, holes,
                 edits, stops >>
lspVars == << tool, server, ask, queries, pipe, inbox, outcome, navigated, remarks >>
mcpClientVars == << process, reader, link, alive, offered, lastId, pending, reply, at,
                    asks, answer, unread, lines, noise >>
catalogVars == << registered, discovered, cache, signature, working, due, overlapped >>
hooksVars == << hookFile, engine, turnAt, continued, firing, guidance, log >>
memoryVars == << files, saving, stored, alone, saves, deletes >>
recallVars == << known, surfaced, prefetch, jobs, reminder, session, now, inTurn,
                 seenIn, savedSeenIn >>
notesVars == << doc, torn, lock, stage, draft, updates, number, latest, noteStops,
                lost >>
streamVars == << phase, texts, first, sent, slots, modelTurn, trace, live, line, cards,
                 disturbed >>
subTurnVars == << role, allowed, tools, shown, turn, taken, asked, batches, queue,
                  used >>
sessionsVars == << second, sessionOf, talk, persisting, openFile, sessionText, final,
                   tempFile, talks, savedTalks, cleared, ambiguous >>
summaryVars == << prefix, summaryRequest, shared, attempt, summaryOutcome, overflows >>
agentTurnVars == << messages, saved, pc, steps, truncations, continuations, attempts,
                    rounds, announced, ran, reported, failures, seen, replaced, broken,
                    turns, notes, restarts >>

F == INSTANCE StateFiles
B == INSTANCE Board
W == INSTANCE Worktrees WITH Name <- TreeName
H == INSTANCE Rewind
L == INSTANCE Lsp WITH given <- navigated
C == INSTANCE McpClient WITH Main <- MainThread
G == INSTANCE Catalog
K == INSTANCE Hooks WITH Main <- MainThread, doing <- firing
M == INSTANCE Memory WITH Thread <- Writer, at <- saving
R == INSTANCE Recall WITH MaxTurns <- MaxRecalls, shown <- seenIn, savedShown <- savedSeenIn
N == INSTANCE Notes WITH stops <- noteStops
P == INSTANCE Stream WITH lines <- trace, turn <- modelTurn
S == INSTANCE SubTurn
Z == INSTANCE Sessions WITH saving <- persisting, saved <- savedTalks, session <- sessionOf, content <-
        sessionText, temp <- tempFile, handle <- openFile, clock <- second
Y == INSTANCE Summary WITH request <- summaryRequest, outcome <- summaryOutcome
A == INSTANCE AgentTurn WITH MaxCalls <- MaxAnnounced, calls <- announced, stops <- continuations

Parts == {"state_files", "task_board", "worktrees", "history", "navigation", "mcp",
          "catalog", "hooks", "memory", "recall", "notes", "stream", "subagent_turn",
          "sessions", "summary", "turn"}

\* Where a component may begin in several ways, the others see one of them.
Init ==
  /\ part \in Parts
  /\ F!Init /\ B!Init /\ W!Init /\ H!Init /\ L!Init /\ C!Init /\ G!Init /\ K!Init /\
     M!Init /\ R!Init /\ N!Init /\ P!Init /\ S!Init /\ Z!Init /\ Y!Init /\ A!Init
  /\ part # "state_files" => group = {"plan"}
  /\ part # "subagent_turn" => tools = S!Builtin
  /\ part # "recall" => known = {}
  /\ part # "hooks" => engine.hooks = << >>

Next ==
  \/ /\ part = "state_files" /\ F!Next
     /\ UNCHANGED << part, boardVars, worktreesVars, rewindVars, lspVars, mcpClientVars,
                   catalogVars, hooksVars, memoryVars, recallVars, notesVars,
                   streamVars, subTurnVars, sessionsVars, summaryVars, agentTurnVars >>
  \/ /\ part = "task_board" /\ B!Next
     /\ UNCHANGED << part, stateFilesVars, worktreesVars, rewindVars, lspVars,
                   mcpClientVars, catalogVars, hooksVars, memoryVars, recallVars,
                   notesVars, streamVars, subTurnVars, sessionsVars, summaryVars,
                   agentTurnVars >>
  \/ /\ part = "worktrees" /\ W!Next
     /\ UNCHANGED << part, stateFilesVars, boardVars, rewindVars, lspVars,
                   mcpClientVars, catalogVars, hooksVars, memoryVars, recallVars,
                   notesVars, streamVars, subTurnVars, sessionsVars, summaryVars,
                   agentTurnVars >>
  \/ /\ part = "history" /\ H!Next
     /\ UNCHANGED << part, stateFilesVars, boardVars, worktreesVars, lspVars,
                   mcpClientVars, catalogVars, hooksVars, memoryVars, recallVars,
                   notesVars, streamVars, subTurnVars, sessionsVars, summaryVars,
                   agentTurnVars >>
  \/ /\ part = "navigation" /\ L!Next
     /\ UNCHANGED << part, stateFilesVars, boardVars, worktreesVars, rewindVars,
                   mcpClientVars, catalogVars, hooksVars, memoryVars, recallVars,
                   notesVars, streamVars, subTurnVars, sessionsVars, summaryVars,
                   agentTurnVars >>
  \/ /\ part = "mcp" /\ C!Next
     /\ UNCHANGED << part, stateFilesVars, boardVars, worktreesVars, rewindVars,
                   lspVars, catalogVars, hooksVars, memoryVars, recallVars, notesVars,
                   streamVars, subTurnVars, sessionsVars, summaryVars, agentTurnVars >>
  \/ /\ part = "catalog" /\ G!Next
     /\ UNCHANGED << part, stateFilesVars, boardVars, worktreesVars, rewindVars,
                   lspVars, mcpClientVars, hooksVars, memoryVars, recallVars, notesVars,
                   streamVars, subTurnVars, sessionsVars, summaryVars, agentTurnVars >>
  \/ /\ part = "hooks" /\ K!Next
     /\ UNCHANGED << part, stateFilesVars, boardVars, worktreesVars, rewindVars,
                   lspVars, mcpClientVars, catalogVars, memoryVars, recallVars,
                   notesVars, streamVars, subTurnVars, sessionsVars, summaryVars,
                   agentTurnVars >>
  \/ /\ part = "memory" /\ M!Next
     /\ UNCHANGED << part, stateFilesVars, boardVars, worktreesVars, rewindVars,
                   lspVars, mcpClientVars, catalogVars, hooksVars, recallVars,
                   notesVars, streamVars, subTurnVars, sessionsVars, summaryVars,
                   agentTurnVars >>
  \/ /\ part = "recall" /\ R!Next
     /\ UNCHANGED << part, stateFilesVars, boardVars, worktreesVars, rewindVars,
                   lspVars, mcpClientVars, catalogVars, hooksVars, memoryVars,
                   notesVars, streamVars, subTurnVars, sessionsVars, summaryVars,
                   agentTurnVars >>
  \/ /\ part = "notes" /\ N!Next
     /\ UNCHANGED << part, stateFilesVars, boardVars, worktreesVars, rewindVars,
                   lspVars, mcpClientVars, catalogVars, hooksVars, memoryVars,
                   recallVars, streamVars, subTurnVars, sessionsVars, summaryVars,
                   agentTurnVars >>
  \/ /\ part = "stream" /\ P!Next
     /\ UNCHANGED << part, stateFilesVars, boardVars, worktreesVars, rewindVars,
                   lspVars, mcpClientVars, catalogVars, hooksVars, memoryVars,
                   recallVars, notesVars, subTurnVars, sessionsVars, summaryVars,
                   agentTurnVars >>
  \/ /\ part = "subagent_turn" /\ S!Next
     /\ UNCHANGED << part, stateFilesVars, boardVars, worktreesVars, rewindVars,
                   lspVars, mcpClientVars, catalogVars, hooksVars, memoryVars,
                   recallVars, notesVars, streamVars, sessionsVars, summaryVars,
                   agentTurnVars >>
  \/ /\ part = "sessions" /\ Z!Next
     /\ UNCHANGED << part, stateFilesVars, boardVars, worktreesVars, rewindVars,
                   lspVars, mcpClientVars, catalogVars, hooksVars, memoryVars,
                   recallVars, notesVars, streamVars, subTurnVars, summaryVars,
                   agentTurnVars >>
  \/ /\ part = "summary" /\ Y!Next
     /\ UNCHANGED << part, stateFilesVars, boardVars, worktreesVars, rewindVars,
                   lspVars, mcpClientVars, catalogVars, hooksVars, memoryVars,
                   recallVars, notesVars, streamVars, subTurnVars, sessionsVars,
                   agentTurnVars >>
  \/ /\ part = "turn" /\ A!Next
     /\ UNCHANGED << part, stateFilesVars, boardVars, worktreesVars, rewindVars,
                   lspVars, mcpClientVars, catalogVars, hooksVars, memoryVars,
                   recallVars, notesVars, streamVars, subTurnVars, sessionsVars,
                   summaryVars >>

vars == << part, stateFilesVars, boardVars, worktreesVars, rewindVars, lspVars,
          mcpClientVars, catalogVars, hooksVars, memoryVars, recallVars, notesVars,
          streamVars, subTurnVars, sessionsVars, summaryVars, agentTurnVars >>

\* Fairness is that of the components, for a thread inside a request or a turn: a request
\* ends at its timeout, a navigation at its deadline, and a turn goes on.
Spec == Init /\ [][Next]_vars /\ C!Fairness /\ L!Fairness /\ A!Fairness

(***************************************************************************)
(* Properties: each part of one is stated and explained in its module        *)
(***************************************************************************)

\* Records of plans, checklists, goals, tasks, automations, attempts and the slop ledger
\* (_save_state and its callers) survive calls that do not overlap, and an automation's
\* run never refers to a task that is not there; every copy in the file history is that of
\* its own edit (FileHistory.record), although numbers are used again; and a turn that was
\* saved stays in its session (SessionStore.save) unless two processes share it.
KeptWithoutOverlap == F!KeptWithoutOverlap /\ H!BackupsAreTrue /\ Z!SavedTurnsStay

\* A task that SharedTaskStore.create has returned stays on the board under its number as
\* long as calls do not overlap.
BoardKeepsTasks == B!BoardKeepsTasks

\* The lead is never in a worktree that has been removed, and without nesting its record
\* (EnterWorktree, ExitWorktree) leads back to the main checkout.
WayBackIsKept == W!WayBackIsKept

\* A rewind takes each file back to what it was before the oldest edit it undoes, or says
\* that it did not (FileHistory.rewind).
RewindRestores == H!RewindRestores

\* A call to a server returns that server's answer to this very request: the MCP client's
\* by the number of its queue, the language server's by the number it polls for, whose
\* process does not outlive the call.
RepliesFindTheirCall == C!RepliesFindTheirCall /\ L!ServerAnsweredQuestion

\* The schemas offered to the model (ToolRegistry.schemas) contain every tool discovered
\* before it was asked, although they are cached.
DiscoveredIsOffered == G!DiscoveredIsOffered

\* A run-once hook (HookEngine._matching) is executed once, but for one batch.
OnceButForBatch == K!OnceButForBatch

\* Memories that were saved are listed until they are deleted, and a section of the
\* session notes is from the last update that gave it, however their threads overlap.
MemoriesKept == M!MemoriesKept /\ N!NotesKept

\* A memory is recalled in one turn of a session only (_start_recall_prefetch,
\* _consume_recall_prefetch).
RecalledOnce == R!RecalledOnce

\* The fragments of a response become the turn and the trace as they were sent
\* (_iter_stream_events, _stream_chunk).
ArrivesAsSent == P!ArrivesAsSent

\* A subagent's requests carry the results of all its calls, within its budget; and a
\* request for a summary that is too long is cut by whole rounds, never sent again as it
\* was (truncate_head_for_retry).
EvidenceReachesModel ==
  S!EvidenceReachesModel /\ Y!RoundsStayWhole /\ Y!RefusalsShorten

\* A subagent is offered exactly the tools its gates let through.
OfferedIsAccepted == S!OfferedIsAccepted

\* Everything that waits goes on: each request to an MCP server and each call of a
\* navigation tool returns, whether or not the server answers or lives, and every turn of
\* the lead ends, whatever the model, the tools and the hooks answer.
WaitsEnd == C!RequestsReturn /\ L!NavigationReturns /\ A!TurnEnds
===============================================================================
