CONSTANTS
  Pipelines <- TwoPipelines
  Jobs <- TwoJobs
  PipelineOf <- TwoPipelineOf
  Needs <- TwoNeeds
  Condition <- TwoCondition
  RepositoryOf <- TwoRepositoryOf
  Runners = {r1, r2}
  Local = Local
  Attempts = {a1, a2}
  Clients = {c1}
  GlobalLimit = 2
  RepositoryLimit = 1
  AdminStates = {}
  MayBeLocal = {a2}
  MayExpire = {}
  MayGoStale = {}
  Perishable = {}
  Isolated = FALSE
SPECIFICATION Spec
SYMMETRY Fleets
INVARIANTS RemoteCapacityBound
CHECK_DEADLOCK FALSE
