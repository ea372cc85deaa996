CONSTANTS
  Pipelines <- ChainPipelines
  Jobs <- OneJobs
  PipelineOf <- OnePipelineOf
  Needs <- OneNeeds
  Condition <- OneCondition
  RepositoryOf <- ChainRepositoryOf
  Runners = {r1, r2}
  Local = Local
  Attempts = {a1, a2}
  Clients = {c1}
  GlobalLimit = 2
  RepositoryLimit = 2
  AdminStates = {}
  MayBeLocal = {a2}
  MayExpire = {a2}
  MayGoStale = {}
  Perishable = {}
  Isolated = FALSE
SPECIFICATION Spec
SYMMETRY Fleets
INVARIANTS RunnerSlot
PROPERTIES EndedRemoteAttemptsKept
CHECK_DEADLOCK FALSE
