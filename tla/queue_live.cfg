CONSTANTS
  BatchOf <- MCBatchOf
  SiteOf <- MCSiteOf
  MaxTransfers <- MCMaxTransfers
  NoSession = NoSession
  NoControl = NoControl
  NoItem = NoItem
  Items = {d1, f1}
  Dirs = {d1}
  Sessions = {s1}
  MaxRetries = 1
  Generations = {g1}

SPECIFICATION OneWaySpec

PROPERTIES
  CapKept
  EveryTransferSettles
