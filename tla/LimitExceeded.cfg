CONSTANTS
  Pipelines <- ChainPipelines
  Jobs <- OneJobs
  PipelineOf <- OnePipelineOf
  Needs <- OneNeeds
  Condition <- OneCondition
  RepositoryOf <- ChainRepositoryOf
  Runners = {r1}
  Local = Local
  Attempts = {a1, a2}
  Clients = {c1}
  GlobalLimit = 1
  RepositoryLimit = 1
  AdminStates = {}
  MayBeLocal = {a1, a2}
  MayExpire = {a1}
  MayGoStale = {}
  Perishable = {}
  Isolated = FALSE
SPECIFICATION Spec
INVARIANTS CapacityBound
CHECK_DEADLOCK FALSE
