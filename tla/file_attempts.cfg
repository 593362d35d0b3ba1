CONSTANTS
  Directions = {"download", "upload", "copy"}
  Policies = {"ask", "overwrite", "skip", "rename", "resume", "newer"}
  Sizes = {0, 1, 2}
  LastVersion = 2
  LastName = 1
  Window = 2
  Hashed = {"upload"}
  NoFile = NoFile

SPECIFICATION Spec

INVARIANTS
  TypeOK
  DoneIsWhole
  OwnHalfIsNotSkipped
PROPERTIES
  
  ProgressKept

\* A transfer that ended stays so.
CHECK_DEADLOCK FALSE
