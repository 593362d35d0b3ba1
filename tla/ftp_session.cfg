\* Every operation on one passive connection, with late replies anywhere.
SPECIFICATION Spec
CONSTANTS
  Ops = {"retr", "stor", "list", "single", "rename", "path", "stat", "hash",
         "keepalive"}
  Passive = TRUE
  Epsv = TRUE
  MaxOwed = 4
INVARIANTS  TransferHonest
