\* What the commands say on the same connection.
SPECIFICATION Spec
CONSTANTS
  Ops = {"list", "single", "rename"}
  Passive = TRUE
  Epsv = TRUE
  MaxOwed = 2
INVARIANT CommandHonest
CHECK_DEADLOCK FALSE
