CONSTANTS
  Pipelines <- OnePipeline
  Jobs <- OneJob
  PipelineOf <- OnePipelineOf
  Needs <- OneNeeds
  Condition <- OneCondition
  a1 = a1
  a2 = a2
  Attempts = {a1, a2}
  MaxSessions = 2
  MayRestart = FALSE
  MayCancel = FALSE
  MayTimeOut = FALSE
SPECIFICATION FairSpec
PROPERTIES AttemptEnds
CHECK_DEADLOCK FALSE
