SPECIFICATION Spec
CONSTANTS
  Servers = {"ours", "theirs"}
  Expected = "ours"
  MaxIds = 2
  MaxPids = 2
  Longer <- MCLonger
INVARIANTS ReinstallKeepsService
CHECK_DEADLOCK FALSE
