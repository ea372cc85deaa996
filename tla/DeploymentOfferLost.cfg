SPECIFICATION ServedSpec
CONSTANTS
  None = None
  w1 = w1
  w2 = w2
  w3 = w3
  r1 = r1
  r2 = r2
  Environments = {"staging"}
  Protected = {}
  ForwardOnly = {}
  Artifacts = {"v1"}
  Kinds = {"application"}
  People = {"ann"}
  Administrators = {"ann"}
  Runners = {r1}
  Workers = {w1, w2}
  MaxDeployments = 1
  MaxAssignments = 1
  MaxSequence = 6
  MaxFailures = 1
  MayDieAlone = FALSE
  MayCancel = FALSE
PROPERTIES AssignedSettles
CHECK_DEADLOCK FALSE
