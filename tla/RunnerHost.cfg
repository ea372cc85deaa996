SPECIFICATION Spec
CONSTANTS
  Servers = {"ours", "theirs"}
  Expected = "ours"
  MaxIds = 2
  MaxPids = 2
  Longer <- MCLonger
INVARIANTS TypeOK InstalledRight DifferentRunnersKept
CHECK_DEADLOCK FALSE
