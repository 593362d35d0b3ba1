CONSTANTS
  Users = {"copy", "get"}
  Leases <- MCLeases
  Clients = {c1, c2, c3, c4}
  Paths = {"root", "a", "b", "f"}
  Dirs = {"root", "a", "b"}
  Parent <- MCParent
  Readers = {r1}
  Writers = {w1}
  LastChange = 2
  NotCached = NotCached
  LastAsk = 3

SPECIFICATION Spec

INVARIANTS
  SessionTypeOK
  InOnePlace
  OpenedWhenNeeded
  CacheFresh
  YesIsTheUsers
PROPERTIES
  DisconnectSettles
  LoginEnds

\* A session that was closed has nothing left to do.
CHECK_DEADLOCK FALSE
