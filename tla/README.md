# Verification of Robine CI

TLA+ models of the control plane (Elixir, PostgreSQL), of the runners (Go and Elixir),
of the protocol between them and of the machine a runner lives on, model-checked by TLC,
and theorems about the control plane, local execution, deployments, the runner protocol,
the redactor, the Docker executor and the installer checked by TLAPS. Paths are relative to the repository
(`src/` in `PROJECT.json`). `PROJECT.json` maps every definition to the lines it
translates, names a plausible bug (mutant) that each property rejects, and lists the
hazards the properties are for.

## 1. The system

Robine receives webhooks, composes a workflow into a pipeline of jobs, dispatches
each job as an *attempt* to a runner, follows the attempt through its events, and
deploys release artifacts. All durable state is in PostgreSQL; the use cases of
`lib/robine/<context>/use_cases` are its only writers. Nothing else is shared:
Oban jobs, LiveViews, channel processes and the local worker meet in the database.

| component | state | operations | hard behaviour |
|---|---|---|---|
| pipeline, job and attempt machines (`pipelines/domain`) | none (pure) | transition tables, release of blocked jobs, verdict | release to a fixpoint, verdict after retries |
| pipeline control plane (`pipelines/use_cases`, `job_repository.ex`, `pipeline_repository.ex`) | pipelines, jobs, attempts, receipts | queue, claim for a runner or for the control plane itself, event, heartbeat, lease sweep, cancel, retry, rerun | READ COMMITTED transactions, some of which lock nothing they read |
| local execution (`run_next_job_worker.ex`, `runner_control.ex`) | one attempt, its worker and a heartbeat process | preparing, running, outcome, heartbeat, fallback report | sweep and heartbeat race the worker; a node stops |
| runner channel (`runner_channel.ex`) | one process per session | join, accept, reject, event, heartbeat, log | old and new channel process at once, lost replies |
| Go runner (`runner-go/internal/runner`) | executions, pending requests | offer, execution, report, repeat, restart | one goroutine per frame, reconnect, restart |
| Docker executor, redactor, archive (`docker_executor.go`, `redactor.go`, `archive.go`) | network, volume and containers in the Docker daemon, the bytes held back | prepare, run steps, clean up, reconcile, redact a stream | secrets across chunk borders, reconciliation from a snapshot, killed commands, a failure of the cleanup itself |
| runner service (`cmd/robine-runner`, `config`, `service`, `http.go` of the Go runner) | configuration file, service definition, log, processes of the machine | enroll, start, install | a service that restarts itself, runners started by hand, an identity that is replaced or revoked during the installation |
| Elixir runner client (`adapters/runner`) | active attempts and deployments, pending events | offer, accept, repeat | order of the replays |
| native deployments (`deployments`, `deployment_repository.ex`) | deployments, their events | request, approve, cancel, dispatch, accept, event, verify, retry | unlocked read, then compare-and-write of a whole row; a verification outlives a cancellation |
| registry and enrolment (`runners`) | runners, tokens, sessions | enrol, join, drain, revoke, rotate | a revoked runner with work in hand |
| autoscaling (`autoscaling`) | pools, instances | reconcile, provision, terminate | provider failures between two writes |
| outbox (`event_outbox.ex`, `outbox_delivery_worker.ex`) | events, delivery attempts | claim, deliver, retry, dead-letter | at-least-once delivery |
| workflow language (`workflows`) | none (pure) | parse, compose, cron | acyclic graph, next due instant |
| source control, schedules, publications | deliveries, schedules, checks | accept, process, publish | repeated deliveries, one run per due instant |
| storage (`storage`) | blobs and rows | store, look up, expire | file and row are two steps |
| secrets, identities, web, operations, CLI | single rows | create, update, revoke | no protocol of their own |

How they interact: a webhook or a user creates a pipeline and writes
`pipeline.created` to the outbox; its delivery queues the pipeline
(`QueuePipeline`); dispatch workers claim a job for a runner (`ClaimNextJob`),
and either execute it themselves (local execution) or broadcast an offer to the
channel of a remote runner; accept, events and heartbeats come back and
`RecordRunnerEvent` moves the attempt, its job, the jobs it releases and the
verdict in one transaction; a worker fails the attempts whose lease ran out every
minute. Deployments go the same way with tables, offers and events of their own.

What makes each component correct, and the hazard it answers, is the subject of
section 4; the complete list of hazards is in `PROJECT.json`.

## 2. Modules

| module | models | state | built on |
|---|---|---|---|
| `Lifecycle` | `pipelines/domain/{attempt,job,pipeline}.ex`, the release loop of `RecordRunnerEvent` | none, operators only | |
| `ControlPlane` | the use cases over the durable rows | `pipeline`, `job`, `attempt`, `expired`, `seen`, `admin`, `sweep`, `found`, `request`, `worker`, `local` | `Lifecycle` |
| `ControlPlaneProofs` | theorems about `ControlPlane` | | `ControlPlane` |
| `ControlPlaneIsolatedProofs` | theorems about `ControlPlane` whose unlocked transactions run alone | | `ControlPlaneProofs` |
| `LocalRunner` | one attempt executed by the control plane itself | `attempt`, `job`, `worker`, `result`, `found`, `open` | `Lifecycle` |
| `LocalRunnerProofs` | theorems about `LocalRunner` | | `LocalRunner` |
| `RunnerProtocol` | the Go runner and the channel over a breaking socket | rows, connection, messages in flight, executions, unanswered requests | `Lifecycle` |
| `RunnerProtocolProofs` | theorems about `RunnerProtocol`; it implements `AttemptHistory` | | `RunnerProtocol` |
| `AttemptHistory` | what control plane and runner promise about an attempt (abstract) | `life`, `permitted`, `runs`, `known` | |
| `CommandOutput` | constants: bytes, secrets, outputs | | |
| `Redactor` | `redactor.go`, chunk by chunk and turn by turn | what was pushed, consumed and passed on | `CommandOutput` |
| `RedactorProofs` | theorems about `Redactor` | | `Redactor` |
| `StepRunner` | the loop over the steps of an attempt, a command and its log writer | the program, its results, the outcome, what the server saw | `Redactor` |
| `DockerExecutor` | the attempt around the steps, the Docker daemon, reconciliation, the process | resources, running containers, the stages left, the sweep | `StepRunner` |
| `DockerExecutorProofs` | theorems about `DockerExecutor` and the steps in it | | `DockerExecutor`, `RedactorProofs` |
| `RunnerHost` | `rbe enroll`, `rbe start`, `rbe install` | configuration, processes and their numbers, service, log, installation | |
| `RunnerHostProofs` | theorems about `RunnerHost` | | `RunnerHost` |
| `Deployments` | the control plane's half of native deployments | rows, workers with a row in hand, offers and acceptances, the runners' connections | |
| `DeploymentsProofs` | theorems about `Deployments` | | `Deployments` |
| `MC*` | job graphs, symmetries, and the check of the release loop | | the module named |

Correspondence with the code:

- **Transactions.** A use case that locks what it reads (`ClaimNextJob` behind the
  scheduler lock, an event of a remote runner, a runner's heartbeat) is one action.
  One that reads without a lock and writes later is two: `BeginCancel`,
  `BeginQueue`, `BeginRetry`, `BeginRerun` compute the writes, `Commit` makes them;
  `SweepOpen` reads the attempt, `SweepStep` records `runner_lost`; `LocalReads` and
  `LocalWrites` are an event or a heartbeat of an attempt that the control plane
  executes itself. In `LocalRunner` it is `Begin` and the following write; in
  `Deployments`, a worker's read and its `Commit`. The repositories read a row again before they write it,
  and Ecto writes the columns that differ; the second read and the write are one
  instant here.
- **Local and remote.** `ClaimNextJob` is one action for every owner; `Claim` adds the
  runner's slot, `ClaimLocal` the worker that goes on with the attempt. Both count
  against the same limits. The worker's stages (`LocalEvents`, `AfterRecord`) are those of
  `perform/1`; what its result was, and its cancellation, are followed in `LocalRunner`,
  which has one attempt and no other actor's rows.
- **Release.** `ReleasedTo` describes the outcome of `release_until_stable` as a
  fixpoint, without the loop; `MCControlPlane` has TLC compare it with the loop,
  written as passes over all jobs, for every combination of job statuses and every
  candidate outcome (`ReleasedToIsTheLoop`, evaluated in each of its runs).
- **Time.** A lease that runs out and a runner that falls silent are actions. In
  `RunnerProtocol` a lease lapses only while nothing renews it.
- **Messages.** Sets of messages in flight; taking one in any order is the
  goroutine per frame of `channel.go`. A message id is the attempt, the kind and
  the number of the offer it answers, fresh whenever the runner generates one.
- **History.** `RunnerProtocol` maps to `AttemptHistory` state by state: `life` is the
  attempt's row, `permitted` what was recorded as running, `runs` how often steps were
  started, `known` the outcome a runner was told.
- **Output.** `Redactor` describes output by where it comes from: a position of the
  text that was passed on as it is. Every turn of the loop in `consume` is a step, so a
  command can be stopped between any two, and every chunk is a `Push` of any length.
- **Steps.** `StepRunner` takes the context (`err`), the connection (`connected`), the
  services (`ready`) and the container (`live`) as variables of somebody else;
  `DockerExecutor` substitutes what its daemon and its process make of them. The code
  asks for each at one moment and acts later: `Check` and `Begin` are two steps, and
  so are the start of a request and its answer.
- **Docker.** The daemon is external and modelled from the commands: a volume in use or
  a network with running containers is not removed, a container that mounts a volume
  nobody made creates it without labels, a killed `docker create` may be carried out
  later (`late`). An execution is a list of stages, each popped when it returns, which
  is what the deferred functions of `runDocker` amount to.
- **Connections of the Elixir client.** `link` is what the runner's channel is: joined,
  away (the connection broke or the node stopped; the client reconnects and joins), or deaf
  (the channel process died alone; the client ignores `phx_error` and stays). What was not
  acknowledged is sent again once after a join (`replays`), and never otherwise. A handler
  whose connection broke finishes what it does (`Orphaned`): its write still commits, its
  answer reaches nobody.
- **Host.** launchd and systemd are external: they start the command of the loaded
  unit unless it ended successfully. `same` says that a process runs the command the
  installer is about to install; the code compares command lines. Processes are numbered
  in the order of their start; `Longer` says which numbers of the operating system begin
  with which others, because the log is searched for `pid=N` as a text.
- **Receipts.** `RecordRunnerEvent` answers a repeated message from
  `runner_events`; `RunnerProtocol` models that, `ControlPlane` and `LocalRunner`
  only need that nothing is written twice.

What the models take as one step or leave out: the pipeline row that a claim or an
event reads without a lock while it holds the jobs of the pipeline; a retry that
meets a claim of the same job a second time around; in `LocalRunner`, the stop of
`RunnerControl`, which waits for a heartbeat under way; in `RunnerProtocol`,
uploads and downloads (their failure is one of the outcomes `Prepare` chooses
from), graceful shutdown and revocation of the runner (for the protocol, a
restart), and the round trip of a heartbeat; in `Deployments`, the configuration
of environments (constants, as the snapshot in the row), and the selection of
deployment, runner and row, which are one read. There is one node of the control plane
there; the channel a runner has joined handles one message at a time, and one whose
connection broke only the message it has begun: what was still in its mailbox is taken
as lost, as the client sends it again. Replays come in any order, and a replayed event of
an earlier phase that finds the row verifying also starts a verification, which is what
`ResendVerifying` does. The restart of the runner's process is not modelled. An acceptance
that commits after its connection broke, while the repeated one is refused, leaves an
accepted deployment that its runner has forgotten. In `RunnerProtocol`, what a heartbeat
says about cancellation is read from the job alone; the code reports the pipeline's
cancellation too, which concerns the same jobs. In `DockerExecutor`: one attempt at a time, as the runner
has one slot; a wait for a service is one step, as is the copy of a workspace. In
`RunnerHost`: one installation; which commands a failed installation undoes (none) and
what it prints; numbers of processes are never used again, so that a `kill` of a number
that has changed hands is left out; the up to 30 tries of the wait for the process are
any number; `Write` is one step, so two enrolments at once are left out. The 10 MB cap on
the output of a command is left out: beyond it the code drops output while the step
succeeds. So is the output that a killed Docker command still copies more than two seconds
after the kill, when the writer is finished already.

## 3. Runs

`CHECK_DEADLOCK FALSE` is set in every run but `docker_executor`: a system whose
pipelines are finished, whose runners are revoked or whose bounds are used up really
stops. A runner reconciles for ever, so there deadlock is checked.

| run | instance | shows |
|---|---|---|
| `control_plane_isolated` | 4 jobs (`build` -> `deploy` -> `report`, which runs always; `lint`, which needs `build`), 1 runner, 3 attempts, each of which may be executed by the control plane itself, artifacts of `build` may expire | the state machines keep jobs, attempts, needs and verdict consistent through dispatch, events, cancellation, retry and reruns of producers, when unlocked transactions do not interleave |
| `control_plane_capacity` | 1 job, 2 runners, 2 attempts, one of which may be local and may expire | a runner has one active attempt and its ended attempts stay ended although cancellations, retries, local events and heartbeats and the sweep interleave |
| `control_plane_leases` | 2 parallel jobs, a runner that may fall silent or be revoked, 2 attempts that may expire, one of which may be local | no lease stays expired for ever, also when the sweep works from an old list |
| `local_runner` | one attempt, all transactions interleaved | one outcome per job, a cancelled job never succeeds, and where unlocked transactions run alone, attempt and job end together, nothing starts for an ended attempt, and it ends even when the node stops |
| `runner_protocol_safety` | 2 attempts, 2 sessions, restart, cancellation, delivery timeout | executed once, only after a durable acceptance; an acknowledged outcome is the durable one; the whole implements `AttemptHistory` |
| `runner_protocol_ends` | 2 attempts, 2 sessions | broken connections alone never keep an attempt from ending |
| `deployments_races` | 2 deployments of a protected environment, 2 runners, 2 workers, verification tried again, 2 failures (a connection, the node or a process) | one active deployment and one accepted assignment, approval by another person, the first terminal decision stays, a verdict belongs to its round |
| `deployments_verified` | 2 deployments, 2 workers, 2 failures of the connection or the node | what is verifying gets a verdict, because the client repeats an unanswered event when it joins again |
| `docker_executor` | 1 attempt with one service, 5 steps of every kind and condition, one secret that is the whole output, 1 crash, stop or failed reconciliation | the outcome follows from the steps, no secret is sent and a success lacks none of its output but secrets that were replaced, a reported success left nothing in Docker, reconciliation spares what executes, executions end, leftovers are removed |
| `runner_host` | 2 servers, 2 identities, 2 processes whose numbers begin alike, both platforms, with and without an earlier service, with and without `--server` | an installation that reports success saw a process of the service connect under the number it found or a longer one; if it is that process, it is the identity that was checked; other runners are left alone |
| `two_attempts_of_one_job` | 1 job, 2 attempts | refuted: see section 5 |
| `attempt_never_ends` | 1 attempt, 2 sessions | refuted: see section 5 |

Bounds, and why they suffice. Two attempts of one job are what a stale write needs to
hurt a later one; the third lets a rerun follow a retry. A chain of three jobs is the
shortest in which one release pass is not enough; the fourth job is a second consumer of
the same producer, without which a rerun cannot meet a job that still counts on what the
first rerun spoiled. One open unlocked client transaction interleaves with claims,
events, the sweep and a local attempt, each of which is another actor. Two sessions give
an old and a new channel process; a third adds only another old one. Of two deployment
workers one holds what it read while the other serves everybody else, one message after
the other. `MaxSequence = 8` is what a second round of verification needs to get its
verdict: the handler of a broken connection that still probes for the first round is then
alive, which is the case `VerdictOfThisRound` is about. In `docker_executor` the program has a checkout, which is skipped, a
command, a step of an unknown kind that runs only after a failure, a builtin that runs
always and one that runs after successes: each condition meets steps that all succeeded,
and a failure. A secret of two bytes as the whole output is cut by every chunk, and a
command that is stopped leaves its first half. One mishap is a crash, a stop or a failed
reconciliation at any moment; a second attempt multiplies the states beyond what TLC can
finish (16 million when it was stopped), so reconciliation meets the leftovers of one
attempt, before and after it. In `runner_host`, two processes are the service and its restart, or the
service and a runner by hand, and the number of the one begins with that of the other;
two identities are the one that is checked and the one that replaces it. No lease expires
in the isolated run, to keep it small: the sweep is in the other two, and the theorems of
section 6 hold with it. `MayBeLocal = {}` is an instance whose `local_runner_enabled` is
false. `MaxMishaps`, `MaxIds`, `MaxPids`, `Pipelines`, `Attempts`, `MaxSessions`,
`MaxDeployments`, `MaxAssignments`, `MaxSequence` and `MaxFailures` are bounds of the
model and not of the code; the other limits are configuration. Symmetry is used for
safety properties only.

Configurations kept beside the listed runs, each checked with TLC: `DeploymentsServed`
(holds: an assigned deployment settles when no offer is lost and no worker dies),
`ControlPlaneLimits` (holds: in two repositories of one job each, with limits 2 and 1, the
attempts of runners stay within both although a local one interleaves; with `<=` for `<` in
`Admitted` TLC refutes it) and the refutations named in section 5.

### Fairness

- `ControlPlane.FairSpec`: the Oban worker runs every minute (`SweepRead`) and goes
  through its list (`SweepOpen`, `SweepStep`); an open transaction ends (`Commit`).
  `SweepOpen` is strong only because `Isolated` makes it wait for others, and so an open
  transaction of a local attempt ends too (`LocalWrites`). Nothing is assumed of users, of
  claims, of runners and of local workers: they may keep silent for ever.
- `LocalRunner.FairSpec`: the worker goes on unless it crashed, the heartbeat
  process and the sweep go on; commands end, because they have a timeout. A lease
  that is not renewed runs out.
- `RunnerProtocol.FairSpec`: the client reconnects, heartbeats, sends and takes what
  arrives while it is connected; the server serves; steps have a timeout, so
  `Execute` ends; the sweep runs; leases lapse while the runner is away. The
  connection may break and the process may restart only as often as the bound
  says: no fairness makes them happen.
- `DockerExecutor.FairSpec`: the goroutine of an execution goes on (`Execution`), the
  timer of the job fires, the loop of the reconciliation goes on, a process that stops
  leaves after ten seconds, the service manager restarts it. That a command ends by
  itself, that the daemon carries out late commands and that a service dies is not
  assumed.
- `Deployments.FairSpec`: a process ends what it began unless the node stops; the
  dispatcher, which is scheduled every minute, tries; the client of a runner reconnects
  until it has joined (`handle_disconnect`), and the acceptances and events it then sends
  again, from the reply to its join, are handled. It does so only then: a channel that died
  alone is not joined anew, and no fairness makes it. Users are not fair. `ServedSpec` adds
  that every phase report is handled, for the runs in which nothing fails.

## 4. Properties

`ControlPlane`, whatever interleaves: `RunnerSlot` (no remote runner owns two active
attempts), `EndedRemoteAttemptsKept` (an attempt of a runner that ended stays ended), and
`RemoteCapacityBound` (the attempts of runners stay within the global and per-repository
limits). All three speak of remote attempts, whose rows are locked when they are read; of
local attempts they are false (section 5). `CapacityBound`, the limits for both kinds
together, is a theorem about isolated transactions and in no listed run: an instance whose
limits are reached often enough to matter hides the other properties of the isolated run,
and one of two pipelines is too large. With isolated transactions: `OneActiveAttempt`, `OwnedJobs` (a job is running or cancelling exactly as
long as an attempt works on it), `VerdictSound`, `JobsWaitForNeeds` (what a queued or
running job depends on has ended, which alone is `NeedsEnded`, and as its condition
asks), `LatestAttemptDecides`, `NotStranded`, `TerminalPipelineKept`, and
`ExpiredLeasesEnd`. `JobsWaitForNeeds` needs one thing more: `Perishable`, the jobs
whose artifacts may expire while others need them, are jobs without needs of their own.
Otherwise it is false (`RerunSkipsNeeds`). The point of the constant `Isolated` is this
division: the properties of the second group are what the domain guarantees, and the
refutations below are what the missing locks cost.

`LocalRunner`: `OutcomeKept`, `EndTogether`, `NoLateStart`, `AttemptEnds`.

`RunnerProtocol`: `ExecutedOnce`, `AcceptanceRecorded`, `AcknowledgedOutcomeKept`,
`AttemptEnds`, and `ImplementsHistory`: the protocol with all its messages,
repetitions and restarts is an `AttemptHistory`.

`StepRunner` and `DockerExecutor`: `OutcomeSound` (conditions and outcome agree with
what the steps came to), `OutputFaithful` (the server never sees a secret, and a step
succeeds only when it has all of the output but the secrets that were replaced),
`SuccessLeavesNothing`, `ResourcesStay` (no reconciliation takes what an attempt works
with), `ExecutionEnds`, `Reclaimed`. `SuccessLeavesNothing` and `Reclaimed` are two
halves of one promise: what a success reports is clean at once, everything else is
cleaned in the end.

`RunnerHost`: `InstalledRight` (what a success stands for, given that the log is searched
for the number as a text), `DifferentRunnersKept`.

`Deployments`: `OneActive`, `OneAssignmentExecutes`, `ApprovedByAnother`,
`TerminalDecisionKept`, `VerdictOfThisRound`, `VerifyingSettles`, `AssignedSettles`.
Each is stated in words above its definition.

## 5. Where code and documents disagree

Listed runs:

- `TwoAttemptsOfOneJob`: PLAT-001 FR-4 promises one active attempt per job.
  `CancelPipeline` writes `cancelled` over a job that was claimed after it listed
  the jobs; a retry queues the job again while its first attempt is active.
- `AttemptNeverEnds`: RUN-004 promises a terminal attempt through a restart of the
  runner. The restarted runner accepts its resumed offer under a new message id,
  which is refused as stale; it drops the offer, and its heartbeats renew the lease.

Configurations kept beside them:

- `RerunSkipsNeeds` (`JobsWaitForNeeds` with `deploy` perishable): WF-001 FR-10 lets a
  dependent job run only when all its needs succeeded. A rerun for expired artifacts
  checks the needs of the job the user asked for, and queues the producers without a
  look at theirs: when `build` was run again for `lint` and failed, a rerun for `report`
  starts `deploy`, which needs `build`.
- `EnvironmentBusyForEver` (`QueuedWaitsForActive`): DEP-001 promises that queued
  deployments of an environment follow in order. An ended deployment keeps its
  `runner_id`, and `next_queued` and the unique index count it as active.
- `SweepTakesActive` (`SweepsKeepActive`): EXEC-002 FR-5 and RUN-004 OR-2 promise that
  reconciliation removes only what no active attempt owns. The active attempts are
  read once, before Docker is asked three times; an attempt accepted in between loses
  its containers and volume. A container that then mounts its volume by name makes a
  new one without labels, which no later reconciliation finds.
- `StepsAfterSystemFailure` (`SystemFailureStops`): WF-002 FR-7 stops the steps at a
  failure of the system; `runSteps` treats `system_failure` like a failed command, and
  steps for failures and `always` steps run after it.
- `ReinstallStopsService` (`ReinstallKeepsService`): RUN-005 FR-8 promises to replace an
  identical service that is loaded idempotently. The installer boots it out first and
  waits two seconds for its process, which takes up to ten to end a job: it gives up
  and leaves the machine without the service.
- `CancelledJobStuck` (`CancelledJobsRetryable`): cancelling between two jobs leaves the
  pipeline `cancelling`, because only an event takes the verdict (WEB-001 FR-6).
- `TerminalPipelineReopened` (`TerminalPipelineKept`, interleaved): a stale cancellation
  turns a succeeded pipeline into a cancelling one.
- `LeaseNeverEnds` (`ExpiredLeasesEnd`, interleaved): after such an overwrite the
  `runner_lost` event is refused every minute (RUN-001 OR-4).
- `EndedAttemptRevived` (`EndedAttemptKept` of `LocalRunner`): a heartbeat or event
  computed from an unlocked read writes an ended attempt back to life.
- `LimitExceeded` (`CapacityBound`, interleaved): the same write, after the sweep ended the
  local attempt and another took its place, exceeds the concurrency limit that PLAT-001
  promises is never exceeded.
- `ChannelDiesAlone` (`VerifyingSettles` with `MayDieAlone`): the process of a channel that
  crashes while it verifies leaves the deployment `verifying`. The client repeats its events
  in the reply to a join (`remote_client.ex:95`), and ignores the `phx_error` that tells it
  that the channel is gone (`remote_client.ex:172`, `cli.ex:307`).
- `OtherProcessConnected` (`ReportedConnected`): RUN-005 FR-8 asks the installer to "verify
  one managed PID with the requested binary and config". `verifyConnectionLog` looks for
  `pid=12` as a text and finds it in the line of `pid=123`, so that the process whose number
  is reported need not be the one that connected.
- `OutcomeRefused` (`ReportSettles`): a success that meets a cancelling job is
  refused, and the runner forgets the attempt without another report. An execution
  abandoned because of a cancellation likewise leaves its attempt to the lease.
- `LostLeaseIgnored` (`LostLeaseLearned`): the join reply lists lost leases, the Go
  client does not read them, and no server code pushes `lease_lost`.
- `VerificationAbandoned` (`VerifyingSettles` with retries), `DeploymentOfferLost`
  (`AssignedSettles` with lost offers), `RequestTwice` (`RequestsIdempotent`),
  `AssignedTwice` (`AssignedOnce`): the LiveView that dies between two use cases,
  the offer nobody repeats, the two equal requests, the two dispatchers. When both
  dispatchers choose the same runner, it ignores the second offer as a duplicate
  while the row holds the second token, so its acceptance is refused.

Seen while modelling, and in the models as the code has it: EXEC-002 FR-7 asks for
`service_unavailable` where a service that fails during preparation is reported as
`system_failure`; a cancellation that meets the inspection of the services is reported as
`service_unavailable`, one that meets a builtin step as `command_failed`; a failure of the
preparation is reported before its cleanup, so that the next offer can meet a runner
that is still busy and be rejected; a token is used up when `enroll` then refuses to
replace the file without `--force`; a revoked runner exits with an error, which
`KeepAlive` and `Restart=on-failure` answer by starting it again.

## 6. Theorems

`ControlPlaneProofs` holds for every job graph, fleet, set of attempts, every
number of clients, limits, and both values of `Isolated`, under the two assumptions
on constants, `JobGraphAssumption` and `ControlPlaneAssumption`. `JobGraphAssumption` is
what `Job.new` accepts, and that the needs form no circle, which the validator of
workflows makes sure of (`topological_order`, `workflows/domain/validator.ex:1500`); the
circle is stated as that among any jobs there is one that needs none of the others.

| theorem | says |
|---|---|
| `TypeCorrect` | `Spec => []TypeOK` |
| `RunnerSlotHolds` | `Spec => []RunnerSlot` |
| `RemoteCapacityHolds` | `Spec => []RemoteCapacityBound` |
| `EndedRemoteAttemptsAreKept` | `Spec => EndedRemoteAttemptsKept` |

The inductive invariant `IInv` is `TypeOK`, that a worker of the control plane executes
local attempts only (`Owned`), finitely many attempts, `RunnerSlot` and
`RemoteCapacityBound`. Finiteness is needed because `Cardinality` means nothing of an
infinite set: the counts compared with the limits, and the number of a new attempt, are
numbers only because each claim adds one attempt. The argument has two cases. Every step
except a claim keeps the set of attempts, their jobs, owners and numbers, and makes no
remote attempt active (`Kept`), so that the active remote attempts can only become fewer
(`FewerRemoteAttempts`). For the event of a runner that is the table of moves on the locked
row; for the sweep, whose row may be stale, that the status it writes is terminal; for the
worker and the heartbeat of a local attempt, whose rows may be stale too and active, that
the attempt is local, which is what `Owned` is for. A claim (`ClaimedFor`) adds one active
attempt to a runner that had none, or to none, and to counts that were below their limits.
The job graph, the verdicts and the requests only have to keep their types.

`ControlPlaneIsolatedProofs` adds what holds when the transactions that read without
locks run alone, for every acyclic job graph, fleet, number of attempts and set of
perishable artifacts. The hypothesis `Isolated` is stated in each theorem; section 5 shows
that the code does not provide it and what that costs.

| theorem | says |
|---|---|
| `IsolatedInvariance` | `Isolated => (Spec => []IsolatedInv)` |
| `CapacityHolds` | `Isolated => (Spec => []CapacityBound)` |
| `OneActiveAttemptHolds` | `Isolated => (Spec => []OneActiveAttempt)` |
| `OwnedJobsHolds` | `Isolated => (Spec => []OwnedJobs)` |
| `VerdictSoundHolds` | `Isolated => (Spec => []VerdictSound)` |
| `NotStrandedHolds` | `Isolated => (Spec => []NotStranded)` |
| `NeedsEndedHolds` | `Isolated => (Spec => []NeedsEnded)` |
| `LatestAttemptDecidesHolds` | `Isolated => (Spec => []LatestAttemptDecides)` |
| `TerminalPipelineIsKept` | `Isolated => (Spec => TerminalPipelineKept)` |
| `JobsWaitForNeedsHolds` | `Isolated /\ ProducersNeedNothing => (Spec => []JobsWaitForNeeds)` |

`IsolatedInv` is the `IInv` above and `CapacityBound` with two parts. `Alone`: one unlocked
transaction at most is open, and what it will write is what it would compute from the rows
as they are now (`Current`); the attempt that the sweep or a local worker has in hand is the
row. So no attempt is written back to life, and the counts a claim compares are those of
all that is active: this is all that `CapacityBound` needs. `RowInv`: the
properties themselves, with `Unstarted` (a pipeline that was not dispatched has no job
that was, so that cancelling it at once is sound) and `Numbered` (attempts are numbered
up to their count and the active one is the last, so that the newest decides). None of
the properties is inductive alone: that an event finds its pipeline under way is
`OwnedJobs` and `VerdictSound` together; that a rerun disturbs no job of the pipeline
that waits or runs is `VerdictSound`; that a finished need stays finished while somebody
depends on it is `NeedsEnded`.

Every step is then one of four (`RowsStep`, `IsolatedSteps`): it leaves the rows alone, it
commits to one pipeline what is still true of it (`QueueEffect`, `CancelEffect`,
`RerunEffect`), it is a claim, or it is an event of an active attempt (`EventEffect`). Each
kind keeps `RowInv`. `NotStranded` is where the graph matters: if nothing of a running
pipeline were queued or owned after an event, the blocked jobs would contain one whose
needs all ended, and `ReleasedTo` would have released it. The attempt to prove
`JobsWaitForNeeds` with the others failed in the commit of a rerun, for a reason that is
now `RerunSkipsNeeds`: it was true of a chain of three jobs only because a chain is short.
`ProducersNeedNothing` is the hypothesis the rerun needs, and `NeedsEnded` is what holds
without it. TLC checked `Alone` and `RowInv` on the instance of `ControlPlaneIsolated`.

`RunnerProtocolProofs` holds for every set of attempts and number of sessions,
with and without restarts, cancellations and deliveries that give up, under
`RunnerProtocolAssumption` (at least one session; the three switches are Boolean).

| theorem | says |
|---|---|
| `Invariance` | `Spec => []IInv` |
| `TypeCorrect` | `Spec => []TypeOK` |
| `ExecutedAtMostOnce` | `Spec => []ExecutedOnce` |
| `AcceptancesAreRecorded` | `Spec => []AcceptanceRecorded` |
| `AcknowledgedOutcomesAreKept` | `Spec => []AcknowledgedOutcomeKept` |

`ExecutedOnce` is about a count of the runner, and nothing in a state says by itself
why the count cannot grow again. The reason is a chain from the runner to the rows
and back, which is what the parts of this module's `IInv` say:

- an id belongs to an offer the runner took and to a request the execution made of
  it (`MessagesFit`, `Issued`), an execution waits for one request at a time
  (`ExecutionsAsk`), and a repetition says what the first message said
  (`RepetitionsAgree`);
- an answer `ok` stands for a receipt (`AnswersRecorded`), and a receipt for a
  sequence the attempt has reached (`ReceiptsFit`, `AttemptsFit`);
- so `running`, which asks for sequence 2 in the status `preparing`, is recorded
  under one id only (`StartedUnderOneId`): another id finds the sequence used. What
  was started is the execution that asked under that id (`StartsRecorded`), and it
  does not ask again;
- a terminal status that was recorded is the status of the row
  (`OutcomesRecorded`), because no step leaves a terminal status.

The proof has one lemma for each kind of step: the connection, the leases, a
cancellation, a restart, sending and serving a message, a change of stage, an
answer, a request given up, a new request, and an offer taken. TLC checked `IInv` as
an invariant on the instance of `RunnerProtocolSafety` before it was proved.

The refinement is in the same module:

| theorem | says |
|---|---|
| `OnlyClaimedKnown` | `Spec => []OnlyClaimed` |
| `HistoryImplemented` | `Spec => ImplementsHistory` |

Most steps leave rows, starts and what is known alone, and stutter (`HistoryStutters`).
What remains is a dispatch (`Offer`), a lease that runs out (`End`), a served message
(`Prepare`, `Permit` or `End`, by the table of moves) and an answer (`Run` or `Learn`). The
first two need nothing; the answer needs `IInv`, because that steps are started once
and that an outcome is the row's is no matter of this step but of all before it; the
mapping of an attempt nobody claimed needs `OnlyClaimed`, that nothing is known, in
flight or recorded of it.

`RedactorProofs` holds for every set of secrets, every text and every way to cut and to
stop it, under `OutputAssumption` (secrets are not empty).

| theorem | says |
|---|---|
| `TypeCorrect` | `Spec => []TypeOK` |
| `SecretsStay` | `Spec => []NoSecretPassedOn` |
| `OutputRedacted` | `Spec => []OnlySecretsReplaced` |

The two say what a redactor owes: that it passes no secret on, and that nothing but
secrets is missing when it is done. For the first, the invariant says that a position
that was passed on begins no secret in what was pushed so far, and that this cannot
change by pushing more: either a byte that differs from the secret has been seen, or the
redactor has been told that nothing follows (`Settled`). That is why holding back is
needed, and it is all that is needed: `HeldBack` is false exactly when every secret is
settled at the head.

For the second, `Redaction` says what a redacted output is without saying how one is
computed: reading it from the front, each head is passed on or begins a whole secret that
is skipped, and the heads and what they skip cover the text. The invariant is that `Read`,
the heads of the turns so far, has that form up to what is consumed; at the end, nothing
is left to consume. It does not say which of two secrets that begin at one position is
replaced, because that depends on the chunks: with the secrets `ab` and `abc`, a chunk
that ends after `ab` has `ab` replaced at once and `c` passed on, since `consume` looks for
a complete secret before it asks whether a longer one may follow. An earlier form of
`OutputFaithful` compared with the one-piece redaction, and needed the assumption that no
secret is the prefix of another.

`DockerExecutorProofs` holds for any number of attempts and steps, every program, every set
of secrets and services, every text of a command and any number of mishaps, under
`DockerAssumption`, `StepAssumption` and `OutputAssumption`.

| theorem | says |
|---|---|
| `Invariance` | `Spec => []IInv` |
| `TypeCorrect` | `Spec => []TypeOK` |
| `OutcomeIsSound` | `Spec => []OutcomeSound` |
| `OutputIsFaithful` | `Spec => []OutputFaithful` |
| `SuccessesAreClean` | `Spec => []SuccessLeavesNothing` |
| `ResourcesAreKept` | `Spec => []ResourcesStay` |

The invariant follows the layers of the model. That of the steps (`StepsInv`):

- `LoopInv`: a step that is under way was due and still is, although the questions that
  decide it were asked at another moment, because nothing its condition reads changes
  before it is counted; and the reason that is kept is that of the first failure;
- `WriterInv`: what the redactor passed on was handed to the server in its order, unless a
  delivery failed, and then the step does not succeed. With the invariant of
  `RedactorProofs`, which is used here as it is there, that is `OutputFaithful`.

And that of the execution around them (`ExecutionInv`):

- `PlanInv`: which lists of stages exist. Cleanup comes after the steps and, for a
  success, before the report;
- `ResourceInv`: what the preparation passed is there, unless `exposed`. `ResourcesStay`
  speaks of the steps only, but is decided while one thing after the other is made;
- `SweepInv`: a reconciliation spares what executes, unless it took its list of active
  attempts before the attempt was accepted. That is the meaning of `exposed`, and the
  reason `SweepsKeepActive` is false;
- `LeftoverInv`: what a killed `docker create` may still make belongs to no attempt that
  succeeded or may yet succeed, as an attempt that was interrupted does neither; and what
  the cleanup has tried is gone, unless it failed, which turns a success into a failure.
  `SuccessLeavesNothing` is about the moment of the report and every later one, and only
  this says why nothing comes back.

A step of the loop leaves Docker alone but for the container of its command, and a step of
the daemon leaves the loop alone, so each lemma shows one layer and takes the other as it
is. TLC checked the six parts on the instance of `DockerExecutor` first.

`LocalRunnerProofs` needs no assumption: there is one attempt, and the job graph plays
no part.

| theorem | says |
|---|---|
| `TypeCorrect` | `Spec => []TypeOK` |
| `EndsAgree` | `Spec => []EndTogether` |
| `OutcomesAreKept` | `Spec => OutcomeKept` |
| `NoneStartsLate` | `Spec => NoLateStart` |

`OutcomesAreKept` is about every interleaving: only `RecordEvent` and `Cancel` write the
job, which is locked, by its table of moves (`AcceptedMoves`). The other two are about
serialized transactions, and their reason is `Alone`: the row that was read is still the
row when it is written, except for its lease. `Low` and `Rows` say that an event is the
third at most and then ends the attempt, which bounds the sequences the sweep computes.
Without `serialized` both are false, as the violation of `EndedAttemptKept` shows.

`DeploymentsProofs` holds for all environments, people, runners and workers, any number
of deployments, assignments, broken connections and crashes, with and without
cancellations,
under `DeploymentsAssumption` and `RowAssumption` (`None` is no row).
`DeploymentsAssumption` asks `5 <= MaxSequence`: the bound on events must let a
deployment reach its verification, or the fifth event would leave its type.

| theorem | says |
|---|---|
| `TypeCorrect` | `Spec => []TypeOK` |
| `OneExecutes` | `Spec => []OneActive` |
| `AssignmentExecuted` | `Spec => []OneAssignmentExecutes` |
| `Approved` | `Spec => []ApprovedByAnother` |
| `DecisionsAreKept` | `Spec => TerminalDecisionKept` |
| `VerdictsAreOfTheirRound` | `Spec => VerdictOfThisRound` |

Every one of them is about whole rows computed from unlocked reads, so the invariant
speaks of what workers have in hand as much as of the table:

- a row that is computed is as good as a stored one (`Good`: approved, with a runner once
  it executes, its sequence fixed by its status up to verification), and moves as the use
  case that computed it allows (`Updates`, `Records`);
- a row computed from one past dispatch has the runner and the token the stored row has by
  now (`Settled`). Before dispatch this is false, and it is not needed: such a write asks
  for the status `queued` or `awaiting_approval`, under which nothing is accepted;
- an assignment that is about, held by a runner, in a row or in a hand, is the only one
  with its token; once the token is recorded its row names it and has left the queue
  (`Assignments`). Two dispatchers may overwrite each other's assignment in a queued row,
  and an acceptance computed in between may even write the older one back; it is recorded
  with that row, and the other acceptance then finds a row that is not its own;
- a channel that is joined has one message in hand (`Exclusive`), so that a runner does not
  forget the offer that is being accepted; a handler whose connection broke has no answer
  left to give (`Orphaned`), and its write counts like any other;
- the unique indexes hold (`Indexed`), because `Writable` checks them at every commit.

Every step but a commit leaves the rows alone and puts one thing, or nothing, into one
hand (`Taking`, `TakingKeeps`); each use case has to show only what that thing is. The
commit is split by the parts of the invariant. TLC checked `IInv` on the instance of
`DeploymentsRaces` first.

`RunnerHostProofs` holds for all servers and any number of identities and processes, under
`HostAssumption`.

| theorem | says |
|---|---|
| `TypeCorrect` | `Spec => []TypeOK` |
| `InstallationsAreRight` | `Spec => []InstalledRight` |
| `OthersAreKept` | `Spec => []DifferentRunnersKept` |

What a success means is decided many steps earlier, while anyone may replace the file,
start runners or revoke credentials. The argument: identities are issued in order, so a
file that was replaced never comes back (`Fresh`, `Checked`: what was checked is not newer
than the file); a process has loaded the file as it is when it starts, so whoever starts
after the check is the identity that was checked, unless the file has been replaced since
(`Current`); processes are numbered freshly, so a log line belongs to one process (`Pids`);
once the identical processes are gone, each identical process is a new one (`NewOnes`), and
so is every one of them that the log, emptied since, speaks of (`NewEntries`). The process
that was found runs the installed command, once `ps` was asked, and so do its lines in the
log (`Awaited`). What the search for `pid=N` then finds is a line of that process or of one
whose number is longer (`Begins`, for any `Longer`), and `InstalledRight` says no more of
the second than what is true of every identical process. TLC checked `IInv` on the instance
of `RunnerHost` first.

Only model-checked: the liveness properties (`ExpiredLeasesEnd`, the two `AttemptEnds`,
`VerifyingSettles`, `AssignedSettles`, `ExecutionEnds`, `Reclaimed`), because they rest on
fairness, and `ReleasedToIsTheLoop`, because the loop it compares with is a recursion over
passes; both are out of the prover's reach.

## 7. Not modelled, and the plan

Not modelled: what a command of a job does inside its container, archives and transfers
of artifacts (`archive.go`, `http.go`: their failure is one of the outcomes of a
builtin step), the native executor's process groups, the 10 MB cap on output,
cryptography, parsing of YAML, presentation, metrics and backups. Components that are
listed as not modelled in `PROJECT.json` say why.

What is left, in the order in which it would be most useful:

1. The Elixir client and the deployment executor: the replay of pending events in the
   order of their string keys (`remote_client.ex:382`), an offer refused before its
   first step; composed with `Deployments`.
2. Outbox and webhooks: claim, delivery, retry and dead-lettering; repeated
   deliveries; an abstract at-least-once queue that both implement, and the
   composition with `BeginQueue`.
3. Schedules and autoscaling: one run per due instant although the reconciliation is
   repeated; desired capacity, cooldown and provider failures.
4. The job graph from a workflow (expansion of matrices, `topological_order`), which
   discharges `JobGraphAssumption`.
5. Storage and registry: file and row in two steps against retention; rotation and
   revocation with work in hand.
6. `ControlPlane` as an `AttemptHistory`, as `RunnerProtocol` is one.
