CONSTANTS
  Pipelines <- OnePipeline
  Jobs <- OneJob
  PipelineOf <- OnePipelineOf
  Needs <- OneNeeds
  Condition <- OneCondition
SPECIFICATION Spec
PROPERTIES EndedAttemptKept
CHECK_DEADLOCK FALSE
