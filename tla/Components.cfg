SPECIFICATION Spec
CONSTANTS
  Agent = {a1, a2}
  MaxCalls = 3
  MaxCrashes = 1
  Member = {b1, b2}
  MaxUses = 3
  MaxDeaths = 1
  TreeName = {w1}
  Subagent = {s1}
  MaxEnters = 3
  MaxStarts = 1
  Path = {p1, p2}
  MaxEdits = 3
  MaxStops = 1
  MaxRemarks = 1
  MainThread = main
  Caller = {c1, c2}
  MaxId = 4
  MaxNoise = 1
  Lead = {l1, l2}
  MaxResults = 1
  Worker = {h1, h2}
  MaxContinuations = 1
  MaxRuns = 2
  MaxReloads = 1
  Writer = {t1, t2}
  FoldsCase = FALSE
  MaxSaves = 2
  MaxDeletes = 1
  Memory = {m1, m2}
  MaxSelected = 1
  MaxRecalls = 2
  Section = {title, state}
  Job = {j1, j2}
  MaxUpdates = 3
  Index = {0, 1}
  Pieces = 2
  MaxTexts = 2
  MaxCards = 4
  Limit = 2
  MaxBatch = 2
  MaxSteps = 2
  MaxTruncations = 1
  MaxRecoveries = 1
  MaxFailures = 1
  MinKeep = 2
  KeepRecent = 1
  LongHistory = 5
  Process = {q1, q2}
  Seconds = 2
  MaxTalks = 2
  MaxRounds = 11
  MaxAttempts = 3
  MaxTurns = 1
  MaxAnnounced = 2
  MaxNotes = 1
  MaxRestarts = 1
 
INVARIANT BoardKeepsTasks
INVARIANT WayBackIsKept
INVARIANT RepliesFindTheirCall
INVARIANT DiscoveredIsOffered
INVARIANT OnceButForBatch
 
INVARIANT RecalledOnce
INVARIANT ArrivesAsSent
INVARIANT EvidenceReachesModel
 
PROPERTY RewindRestores
 
CHECK_DEADLOCK FALSE
