\* A file read and another one written over one connection.
SPECIFICATION Spec
CONSTANTS
  Users = {"reader", "writer"}
  Size = 3
  Partial = TRUE
  Window = 2
  Capacity = 1
  Pipe = 2
INVARIANTS ReadInOrder WriteIsStored
\* A transfer that ended does nothing more.
CHECK_DEADLOCK FALSE
