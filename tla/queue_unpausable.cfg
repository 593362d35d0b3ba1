CONSTANTS
  BatchOf <- MCBatchOf
  SiteOf <- MCSiteOf
  MaxTransfers <- MCMaxTransfers
  NoSession = NoSession
  NoControl = NoControl
  NoItem = NoItem
  Items = {f1}
  Dirs = {}
  Sessions = {s1}
  MaxRetries = 0
  Generations = {g1, g2}

SPECIFICATION Spec

INVARIANT RunningCanBePaused
