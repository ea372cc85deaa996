CONSTANTS
  Pipelines <- OnePipeline
  Jobs <- OneJob
  PipelineOf <- OnePipelineOf
  Needs <- OneNeeds
  Condition <- OneCondition
  a1 = a1
  a2 = a2
  Attempts = {a1}
  MaxSessions = 1
  MayRestart = FALSE
  MayCancel = TRUE
  MayTimeOut = FALSE
SPECIFICATION Spec
INVARIANTS ReportSettles
CHECK_DEADLOCK FALSE
