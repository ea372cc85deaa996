CONSTANTS
  Pipelines <- ChainPipelines
  Jobs <- ParallelJobs
  PipelineOf <- ParallelPipelineOf
  Needs <- ParallelNeeds
  Condition <- ParallelCondition
  RepositoryOf <- ChainRepositoryOf
  Runners = {r1}
  Local = Local
  Attempts = {a1, a2}
  Clients = {c1}
  GlobalLimit = 2
  RepositoryLimit = 2
  AdminStates = {"revoked"}
  MayBeLocal = {a2}
  MayExpire = {a1, a2}
  MayGoStale = {r1}
  Perishable = {}
  Isolated = TRUE
SPECIFICATION FairSpec
PROPERTIES ExpiredLeasesEnd
CHECK_DEADLOCK FALSE
