----------------------------- MODULE Lifecycle -----------------------------
(***************************************************************************)
(* The pure state machines of lib/robine/pipelines/domain: what an         *)
(* attempt, a job and a pipeline may do, how a blocked job is released by  *)
(* its dependencies and how the jobs decide the verdict of their pipeline. *)
(* The use cases (ControlPlane) and the runner protocol (RunnerProtocol)   *)
(* are built from these operators.                                         *)
(***************************************************************************)
EXTENDS Naturals

CONSTANTS
  Pipelines,    \* pipeline ids
  Jobs,         \* job ids of all the pipelines
  PipelineOf,   \* the pipeline each job belongs to
  Needs,        \* the jobs of the same pipeline a job depends on
  Condition     \* "success", "failure" or "always", per job

\* Job.new refuses an unknown condition, and "failure" without needs; a workflow
\* whose jobs depend on each other in a circle is refused before it becomes a
\* pipeline, so among any jobs there is one that needs none of the others.
ASSUME JobGraphAssumption ==
  /\ PipelineOf \in [Jobs -> Pipelines]
  /\ Needs \in [Jobs -> SUBSET Jobs]
  /\ Condition \in [Jobs -> {"success", "failure", "always"}]
  /\ \A j \in Jobs : \A n \in Needs[j] : PipelineOf[n] = PipelineOf[j]
  /\ \A j \in Jobs : Condition[j] = "failure" => Needs[j] # {}
  /\ \A S \in SUBSET Jobs : S # {} => \E j \in S : Needs[j] \cap S = {}

JobsOf(p) == {j \in Jobs : PipelineOf[j] = p}

---------------------------------------------------------------------------
(* Attempts *)

ActiveAttempt == {"queued", "preparing", "running", "cancelling"}
TerminalAttempt == {"succeeded", "failed", "cancelled"}
AttemptStatus == ActiveAttempt \cup TerminalAttempt

AttemptMoves ==
  [queued     |-> {"preparing", "cancelled", "failed"},
   preparing  |-> {"running", "cancelling", "cancelled", "failed"},
   running    |-> {"cancelling", "succeeded", "failed", "cancelled"},
   cancelling |-> {"cancelled", "failed"},
   succeeded  |-> {}, failed |-> {}, cancelled |-> {}]

\* Mutant: the order of the events is checked, the move is not.
Records_AnyMove(at, seq, status) == seq = at.seq + 1

\* Attempt.record_event past its first two clauses: the sequence is the next
\* one and the state machine allows the move.  The result reason decides
\* nothing afterwards; the events of the model carry one that fits.
Records(at, seq, status) == seq = at.seq + 1 /\ status \in AttemptMoves[at.status]

---------------------------------------------------------------------------
(* Jobs *)

TerminalJob == {"succeeded", "failed", "cancelled", "skipped"}
OwnedJob == {"running", "cancelling"}
JobStatus == {"blocked", "queued"} \cup OwnedJob \cup TerminalJob

JobMoves ==
  [blocked    |-> {"queued", "cancelled", "skipped"},
   queued     |-> {"running", "cancelled"},
   running    |-> {"cancelling", "succeeded", "failed", "cancelled"},
   cancelling |-> {"cancelled", "failed"},
   succeeded  |-> {}, failed |-> {}, cancelled |-> {}, skipped |-> {}]

InitialJob(j) == IF Needs[j] = {} THEN "queued" ELSE "blocked"

\* Mutant: the release does not look for a cancelled dependency.
ReleaseTarget_IgnoresCancelled(j, js) ==
  IF \E n \in Needs[j] : js[n] \notin TerminalJob THEN "blocked"
  ELSE IF \/ Condition[j] = "success" /\ \A n \in Needs[j] : js[n] = "succeeded"
          \/ Condition[j] = "failure" /\ \E n \in Needs[j] : js[n] = "failed"
          \/ Condition[j] = "always"
       THEN "queued" ELSE "skipped"

\* Mutant: a skipped dependency is waited for as if it could still run.
ReleaseTarget_AwaitsSkipped(j, js) ==
  IF \E n \in Needs[j] : js[n] \notin TerminalJob \ {"skipped"} THEN "blocked"
  ELSE IF /\ \A n \in Needs[j] : js[n] # "cancelled"
          /\ \/ Condition[j] = "success" /\ \A n \in Needs[j] : js[n] = "succeeded"
             \/ Condition[j] = "failure" /\ \E n \in Needs[j] : js[n] = "failed"
             \/ Condition[j] = "always"
       THEN "queued" ELSE "skipped"

\* Job.release of a blocked job, given the statuses of all the jobs.
ReleaseTarget(j, js) ==
  IF \E n \in Needs[j] : js[n] \notin TerminalJob THEN "blocked"
  ELSE IF /\ \A n \in Needs[j] : js[n] # "cancelled"
          /\ \/ Condition[j] = "success" /\ \A n \in Needs[j] : js[n] = "succeeded"
             \/ Condition[j] = "failure" /\ \E n \in Needs[j] : js[n] = "failed"
             \/ Condition[j] = "always"
       THEN "queued" ELSE "skipped"

\* What release_until_stable may write: the blocked jobs of p get the status
\* of `verdict', every other job keeps its own.
Release(js, p, verdict) ==
  [j \in Jobs |-> IF js[j] = "blocked" /\ PipelineOf[j] = p
                  THEN verdict[j] ELSE js[j]]

Verdicts == [Jobs -> {"blocked", "queued", "skipped"}]

\* `after' is where release_until_stable stops when it starts from `before'.
\* On an acyclic graph there is exactly one such assignment (MCControlPlane
\* checks it against the loop of the code).
ReleasedTo(before, after, p) ==
  \A j \in JobsOf(p) : before[j] = "blocked" => after[j] = ReleaseTarget(j, after)

---------------------------------------------------------------------------
(* Pipelines *)

TerminalPipeline == {"succeeded", "failed", "cancelled", "invalid"}
PipelineStatus == {"created", "queued", "running", "cancelling"} \cup TerminalPipeline

PipelineMoves ==
  [created    |-> {"queued", "cancelled", "invalid"},
   queued     |-> {"running", "cancelled", "failed"},
   running    |-> {"cancelling", "succeeded", "failed", "cancelled"},
   cancelling |-> {"cancelled", "failed"},
   succeeded  |-> {}, failed |-> {}, cancelled |-> {}, invalid |-> {}]

\* Mutant: the verdict is the status of one of the jobs.
AggregateResult_OfOneJob(status, js, p) ==
  IF status = "cancelling" THEN "cancelled" ELSE js[CHOOSE j \in JobsOf(p) : Needs[j] # {}]

AggregateResult(status, js, p) ==
  IF status = "cancelling" THEN "cancelled"
  ELSE IF \E j \in JobsOf(p) : js[j] = "failed" THEN "failed"
  ELSE IF \E j \in JobsOf(p) : js[j] = "cancelled" THEN "cancelled"
  ELSE "succeeded"

\* Mutant: the verdict is taken as soon as no job runs, queued ones or not.
CompleteFromJobs_EarlyVerdict(status, js, p) ==
  IF status \in {"running", "cancelling"} /\ \A j \in JobsOf(p) : js[j] \notin OwnedJob
  THEN AggregateResult(status, js, p) ELSE status

\* Pipeline.complete_from_jobs.
CompleteFromJobs(status, js, p) ==
  IF /\ status \in {"running", "cancelling"}
     /\ JobsOf(p) # {}
     /\ \A j \in JobsOf(p) : js[j] \in TerminalJob
  THEN AggregateResult(status, js, p) ELSE status

Cancellable == {"created", "queued", "running", "cancelling"}

\* Pipeline.request_cancellation of a cancellable pipeline.
RequestCancellation(status) ==
  IF status \in {"created", "queued"} THEN "cancelled" ELSE "cancelling"

\* Mutant: every finished pipeline can be reopened.
Retryable_Finished == {"succeeded", "failed", "cancelled"}

Retryable == {"failed", "cancelled"}
=============================================================================
