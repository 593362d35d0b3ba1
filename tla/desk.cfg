CONSTANTS
  Transfers = {t1, t2}
  Callers = {c1}
  HistoryMax = 1
  Torn = Torn
  Asking = {a1, a2}
  Tabs = {tab1}
  Answers = {"skip"}
  LastPrompt = 2
  NoTab = NoTab
  Debounce = 2
  LastSave = 2
  Uploads = {1, 2}
  Sites = {"a", "b"}
  Servers = {"x", "y", "z"}
  MaxRecent = 2
  Consumers = {"d", "u"}
  Limits = {0, 2, 3}
  Blocks = {2, 5}
  BurstTicks = 2
  LastTime = 5
  LastSaved = 2
  FileSizes = {1, 2}
  Tolerance = 1
  NoTime = NoTime
  Things = {"d", "e", "f", "g"}
  Folders = {"d", "e"}
  Within <- MCWithin
  Top = Top
  TabIds = {"v"}
  Dirs = {"a", "b"}
  MaxBack = 2
  Slots = {1, 2}
  LastSession = 2

SPECIFICATION Spec

INVARIANTS
  DeskTypeOK
  QuietFileAgrees
  
  
  PasswordsFollowTree
  AtMostOneLimitEach
  
  DropEndsWell
  SessionsAreHeld
  PaneIsOfSession
  LoadingIsAwaited
PROPERTIES
  CrashTakesTheUnsaved
  IdleForgets
  
  EscapeEndsDrop

\* The folders' clock ends, and nobody has to go on transferring.
CHECK_DEADLOCK FALSE
