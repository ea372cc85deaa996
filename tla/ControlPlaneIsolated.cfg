CONSTANTS
  Pipelines <- ChainPipelines
  Jobs <- ForkJobs
  PipelineOf <- ForkPipelineOf
  Needs <- ForkNeeds
  Condition <- ForkCondition
  RepositoryOf <- ChainRepositoryOf
  Runners = {r1}
  Local = Local
  Attempts = {a1, a2, a3}
  Clients = {c1}
  GlobalLimit = 4
  RepositoryLimit = 2
  AdminStates = {}
  MayBeLocal = {a1, a2, a3}
  MayExpire = {}
  MayGoStale = {}
  Perishable = {"build"}
  Isolated = TRUE
SPECIFICATION Spec
SYMMETRY Identities
INVARIANTS TypeOK OneActiveAttempt OwnedJobs VerdictSound JobsWaitForNeeds LatestAttemptDecides NotStranded
PROPERTIES TerminalPipelineKept
CHECK_DEADLOCK FALSE
