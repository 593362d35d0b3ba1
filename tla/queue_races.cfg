CONSTANTS
  BatchOf <- MCBatchOf
  SiteOf <- MCSiteOf
  MaxTransfers <- MCMaxTransfers
  NoSession = NoSession
  NoControl = NoControl
  NoItem = NoItem
  Items = {f1}
  Dirs = {}
  Sessions = {s1, s2}
  MaxRetries = 1
  Generations = {g1, g2}

SPECIFICATION Spec
SYMMETRY MCSymmetry

INVARIANTS
  OneOwner
  AttemptsCurrent
  RetriesLeft
  OnlyRemovedIsDropped

PROPERTIES
  StoppedStaysStopped
  LifecycleSpec
