SPECIFICATION FairSpec
CONSTANTS
  None = None
  w1 = w1
  w2 = w2
  w3 = w3
  r1 = r1
  r2 = r2
  Environments = {"staging"}
  Protected = {}
  ForwardOnly = {}
  Artifacts = {"v1"}
  Kinds = {"application"}
  People = {"ann"}
  Administrators = {"ann"}
  Runners = {r1}
  Workers = {w1, w2}
  MaxDeployments = 2
  MaxAssignments = 2
  MaxSequence = 6
  MaxFailures = 1
  MayDieAlone = TRUE
  MayCancel = TRUE
PROPERTIES VerifyingSettles
CHECK_DEADLOCK FALSE
