CONSTANTS
  Transfers = {t1}
  Callers = {c1}
  HistoryMax = 1
  Torn = Torn
  Asking = {a1}
  Tabs = {tab1}
  Answers = {"skip"}
  LastPrompt = 1
  NoTab = NoTab
  Debounce = 1
  LastSave = 0
  Uploads = {}
  Sites = {}
  Servers = {}
  MaxRecent = 1
  Consumers = {"d", "u"}
  Limits = {0, 2}
  Blocks = {2, 5}
  BurstTicks = 2
  LastTime = 0
  LastSaved = 0
  FileSizes = {1}
  Tolerance = 1
  NoTime = NoTime
  Things = {}
  Folders = {}
  Within <- MCWithin
  Top = Top
  TabIds = {}
  Dirs = {}
  MaxBack = 1
  Slots = {}
  LastSession = 0

SPECIFICATION Spec

INVARIANT WithinTheLimit

CHECK_DEADLOCK FALSE
