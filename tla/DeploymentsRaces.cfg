SPECIFICATION Spec
CONSTANTS
  None = None
  w1 = w1
  w2 = w2
  w3 = w3
  r1 = r1
  r2 = r2
  Environments = {"production"}
  Protected = {"production"}
  ForwardOnly = {}
  Artifacts = {"v1"}
  Kinds = {"application"}
  People = {"ann", "bob"}
  Administrators = {"bob"}
  Runners = {r1, r2}
  Workers = {w1, w2}
  MaxDeployments = 2
  MaxAssignments = 2
  MaxSequence = 8
  MaxFailures = 2
  MayDieAlone = TRUE
  MayCancel = TRUE
SYMMETRY Interchangeable
INVARIANTS TypeOK OneActive OneAssignmentExecutes ApprovedByAnother
PROPERTIES TerminalDecisionKept VerdictOfThisRound
CHECK_DEADLOCK FALSE
