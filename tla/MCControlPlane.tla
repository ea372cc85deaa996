--------------------------- MODULE MCControlPlane ---------------------------
(* Instances of ControlPlane for TLC. *)
EXTENDS ControlPlane, TLC

\* One pipeline: "build", then "deploy" which needs it, then "report" which runs
\* whatever happened to "deploy".
ChainPipelines == {"p"}
ChainJobs == {"build", "deploy", "report"}
ChainPipelineOf == [j \in ChainJobs |-> "p"]
ChainNeeds == [build |-> {}, deploy |-> {"build"}, report |-> {"deploy"}]
ChainCondition == [build |-> "success", deploy |-> "success", report |-> "always"]
ChainRepositoryOf == [p |-> "repo"]

\* The same with "lint", which needs "build" as well.
ForkJobs == ChainJobs \cup {"lint"}
ForkPipelineOf == [j \in ForkJobs |-> "p"]
ForkNeeds == [build |-> {}, deploy |-> {"build"}, report |-> {"deploy"}, lint |-> {"build"}]
ForkCondition == [build |-> "success", deploy |-> "success", report |-> "always", lint |-> "success"]

\* The same with two jobs only.
PairJobs == {"build", "deploy"}
PairPipelineOf == [j \in PairJobs |-> "p"]
PairNeeds == [build |-> {}, deploy |-> {"build"}]
PairCondition == [build |-> "success", deploy |-> "success"]

\* Two pipelines of two repositories with one job each.
TwoPipelines == {"p", "q"}
TwoJobs == {"build", "ship"}
TwoPipelineOf == [build |-> "p", ship |-> "q"]
TwoNeeds == [j \in TwoJobs |-> {}]
TwoCondition == [j \in TwoJobs |-> "success"]
TwoRepositoryOf == [p |-> "repo", q |-> "fork"]

\* One pipeline of two independent jobs.
ParallelJobs == {"lint", "build"}
ParallelPipelineOf == [j \in ParallelJobs |-> "p"]
ParallelNeeds == [j \in ParallelJobs |-> {}]
ParallelCondition == [j \in ParallelJobs |-> "success"]

\* One pipeline of one job.
OneJobs == {"build"}
OnePipelineOf == [build |-> "p"]
OneNeeds == [build |-> {}]
OneCondition == [build |-> "success"]

\* release_until_stable, pass by pass: every blocked job is looked at with the
\* statuses the last pass left.
ReleasePass(js, p) ==
  Release(js, p, [j \in Jobs |-> IF js[j] = "blocked" THEN ReleaseTarget(j, js) ELSE "blocked"])
Passes[n \in Nat, js \in [Jobs -> JobStatus], p \in Pipelines] ==
  IF n = 0 THEN js ELSE Passes[n - 1, ReleasePass(js, p), p]

\* ReleasedTo describes what the passes lead to and nothing else.
ASSUME ReleasedToIsTheLoop ==
  \A before \in [Jobs -> JobStatus], p \in Pipelines, verdict \in Verdicts :
    ReleasedTo(before, Release(before, p, verdict), p)
      <=> Release(before, p, verdict) = Passes[Cardinality(Jobs), before, p]

\* The attempts whose lease does not run out are interchangeable where all or
\* none of them may be local.
Fleets == Permutations(Runners)
Identities == Permutations(Attempts \ MayExpire) \cup Fleets \cup Permutations(Clients)
=============================================================================
