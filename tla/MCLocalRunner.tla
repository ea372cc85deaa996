---------------------------- MODULE MCLocalRunner ----------------------------
(* Instances of LocalRunner for TLC; the job graph plays no part in it. *)
EXTENDS LocalRunner, TLC

OnePipeline == {"p"}
OneJob == {"build"}
OnePipelineOf == [build |-> "p"]
OneNeeds == [build |-> {}]
OneCondition == [build |-> "success"]
=============================================================================
