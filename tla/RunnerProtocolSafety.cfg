CONSTANTS
  Pipelines <- OnePipeline
  Jobs <- OneJob
  PipelineOf <- OnePipelineOf
  Needs <- OneNeeds
  Condition <- OneCondition
  a1 = a1
  a2 = a2
  Attempts = {a1, a2}
  MaxSessions = 2
  MayRestart = TRUE
  MayCancel = TRUE
  MayTimeOut = TRUE
SPECIFICATION Spec
INVARIANTS TypeOK ExecutedOnce AcceptanceRecorded AcknowledgedOutcomeKept
PROPERTIES ImplementsHistory
SYMMETRY Identities
CHECK_DEADLOCK FALSE
