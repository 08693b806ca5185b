SPECIFICATION Spec
CONSTANTS
  Keys = {k1, k2}
  Procs = {p1, p2}
  MaxFailures = 2
  Installers = {p1, p2, p3}
  Savers = {s1, s2}
  Inodes = {1}
  SETTINGS_LOCK_MAX_ATTEMPTS = 1
  MaxUses = 2
  MaxDeaths = 1
  SlotIds = {1}
  Hosts = {h}
  Editors = {m, n}
  MaxExports = 2
  Pis = {p}
  Neovims = {m, n}
  BridgeIds = {1}
  MaxBridges = 3
  MaxCommands = 3
  MaxGenerations = 2
  MaxSnapshots = 2
  MAX_CACHE_ENTRIES = 1
  SnapshotsReturn = FALSE
  MaxInstances = 2
  MaxTexts = 2
  MaxSubmissions = 1
  MaxAttachments = 2
  Requests = {1, 2}
  Compactions = {1, 2}
  Models = {gpt, grok, claude}
  Decorated = {gpt, grok}
  Supported = {gpt}
  Codex = {gpt}
  REMOTE_COMPACTION_MAX_ATTEMPTS = 2
  HooksAwait = FALSE
  MaxTree = 4
  MaxRequests = 2
  MaxCompactions = 1
  MaxResets = 1
  MaxMessages = 4
  MaxContextEntries = 6
  MaxStarts = 2
  MaxEvents = 2
  MaxExchanges = 2
  MaxEdits = 2
  Budgets = {None, 9}
  Reserves = {3}
  Reminds = {TRUE}
  Caps = {2}
  GuardModes = {"withhold"}
  Windows = {None, 11}
  Counts = {6}
  Sizes = {4}
  MARGIN = 1
  MAX_TOKENS = 4
  MaxHooks = 3
  MaxChanges = 1
  MaxRaw = 3
  Files = {1, 2}
  Texts = {1, 2}
  Lines = {1}
  EditCalls = {1, 2}
  HASH_HISTORY_DEPTH = 2
  MaxReads = 2
  MaxMishaps = 1
  MaxLines = 2
  MaxOperations = 3
  Claudes = {c, d}
  CommandIsWritten = TRUE
  MaxClaudeSessions = 2
  MaxTranscript = 5
  MAX_SEEN_IDS = 3
  MaxPrompts = 2
  MaxPieces = 1
  MaxTrims = 1
  MaxPiSessions = 2
  Runs = {1, 2}
  MaxShutdowns = 1
  None = None
  Nobody = None
  Absent = None
  Dead = Dead
INVARIANTS
  ServedStays
  LossIsContained
  SharedNamesHaveOneOwner
  FeedbackArrivesOnce
  HistoryIsKept
  ContextIsTrue
  EditsTouchWhatWasShown
  DocumentsAndFilesAreTrue
  DetachedRunsAreAnswered
PROPERTIES
  EditsLandWhole
  NothingIsTakenAway
CHECK_DEADLOCK FALSE
