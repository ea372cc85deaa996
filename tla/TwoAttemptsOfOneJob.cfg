CONSTANTS
  Pipelines <- ChainPipelines
  Jobs <- OneJobs
  PipelineOf <- OnePipelineOf
  Needs <- OneNeeds
  Condition <- OneCondition
  RepositoryOf <- ChainRepositoryOf
  Runners = {r1, r2}
  Local = Local
  Attempts = {a1, a2}
  Clients = {c1}
  GlobalLimit = 2
  RepositoryLimit = 2
  AdminStates = {}
  MayBeLocal = {}
  MayExpire = {}
  MayGoStale = {}
  Perishable = {}
  Isolated = FALSE
SPECIFICATION Spec
INVARIANTS OneActiveAttempt
CHECK_DEADLOCK FALSE
