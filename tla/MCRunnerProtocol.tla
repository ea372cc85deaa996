-------------------------- MODULE MCRunnerProtocol --------------------------
(* Instances of RunnerProtocol for TLC; the job graph plays no part in it. *)
EXTENDS RunnerProtocol, TLC

CONSTANTS a1, a2

OnePipeline == {"p"}
OneJob == {"build"}
OnePipelineOf == [build |-> "p"]
OneNeeds == [build |-> {}]
OneCondition == [build |-> "success"]
Identities == Permutations(Attempts)
=============================================================================
