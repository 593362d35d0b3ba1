\* The calls that must return, with one request in flight for each.
SPECIFICATION FairSpec
CONSTANTS
  Users = {"reader", "writer"}
  Size = 1
  Partial = TRUE
  Window = 1
  Capacity = 1
  Pipe = 1
PROPERTY EarlyCallsReturn
\* A transfer that ended does nothing more.
CHECK_DEADLOCK FALSE
