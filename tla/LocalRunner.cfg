CONSTANTS
  Pipelines <- OnePipeline
  Jobs <- OneJob
  PipelineOf <- OnePipelineOf
  Needs <- OneNeeds
  Condition <- OneCondition
SPECIFICATION FairSpec
INVARIANTS TypeOK EndTogether
PROPERTIES OutcomeKept NoLateStart AttemptEnds
CHECK_DEADLOCK FALSE
