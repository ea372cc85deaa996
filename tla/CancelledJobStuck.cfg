CONSTANTS
  Pipelines <- ChainPipelines
  Jobs <- PairJobs
  PipelineOf <- PairPipelineOf
  Needs <- PairNeeds
  Condition <- PairCondition
  RepositoryOf <- ChainRepositoryOf
  Runners = {r1}
  Local = Local
  Attempts = {a1, a2}
  Clients = {c1}
  GlobalLimit = 2
  RepositoryLimit = 2
  AdminStates = {}
  MayBeLocal = {}
  MayExpire = {}
  MayGoStale = {}
  Perishable = {"build"}
  Isolated = TRUE
SPECIFICATION Spec
INVARIANTS CancelledJobsRetryable
CHECK_DEADLOCK FALSE
