CONSTANTS
  Pipelines <- ChainPipelines
  Jobs <- OneJobs
  PipelineOf <- OnePipelineOf
  Needs <- OneNeeds
  Condition <- OneCondition
  RepositoryOf <- ChainRepositoryOf
  Runners = {r1}
  Local = Local
  Attempts = {a1}
  Clients = {c1}
  GlobalLimit = 2
  RepositoryLimit = 2
  AdminStates = {}
  MayBeLocal = {}
  MayExpire = {a1}
  MayGoStale = {r1}
  Perishable = {}
  Isolated = FALSE
SPECIFICATION FairSpec
PROPERTIES ExpiredLeasesEnd
CHECK_DEADLOCK FALSE
