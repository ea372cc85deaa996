SPECIFICATION Spec
CONSTANTS
  None = None
  w1 = w1
  w2 = w2
  w3 = w3
  r1 = r1
  r2 = r2
  Environments = {"staging"}
  Protected = {}
  ForwardOnly = {}
  Artifacts = {"v1", "v2"}
  Kinds = {"application"}
  People = {"ann"}
  Administrators = {"ann"}
  Runners = {r1}
  Workers = {w1, w2}
  MaxDeployments = 2
  MaxAssignments = 1
  MaxSequence = 6
  MaxFailures = 0
  MayDieAlone = FALSE
  MayCancel = FALSE
SYMMETRY Interchangeable
INVARIANTS QueuedWaitsForActive
CHECK_DEADLOCK FALSE
