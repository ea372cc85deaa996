---------------------------- MODULE ControlPlane ----------------------------
(***************************************************************************)
(* The durable state of the control plane (PostgreSQL) and the use cases   *)
(* of lib/robine/pipelines/use_cases that change it: delivery of a created *)
(* pipeline, claiming a job for a remote runner or for the control plane   *)
(* itself, the events and heartbeats of both kinds of execution, the sweep *)
(* over expired leases, cancellation and retry.                            *)
(*                                                                         *)
(* A use case is one READ COMMITTED transaction.  Those that lock what     *)
(* they read (claim, runner event, runner heartbeat) are one action.       *)
(* QueuePipeline, CancelPipeline and RetryJob read the pipeline and its    *)
(* jobs WITHOUT a lock and write later what they computed, so each is two  *)
(* actions, Begin... and Commit, and other transactions may commit in      *)
(* between.  So it is with the event that the sweep over expired leases    *)
(* records (SweepOpen reads the attempt, SweepStep writes it) and with the *)
(* events and heartbeats of an attempt that the control plane executes     *)
(* itself (LocalReads, LocalWrites).  Isolated = TRUE removes that         *)
(* interleaving, to tell what the state machines guarantee from what the   *)
(* missing locks cost.  One local attempt on its own, with what its result *)
(* was and its cancellation, is the module LocalRunner.                    *)
(*                                                                         *)
(* Time is abstract: LeaseExpires and RunnerGoesStale are the passage of   *)
(* the 60 seconds of a lease and of a runner's last_seen_at.               *)
(***************************************************************************)
EXTENDS Lifecycle, FiniteSets

CONSTANTS
  Runners,          \* ids of the remote runners
  Local,            \* the nil runner_id of an attempt executed here
  Attempts,         \* attempt ids that may be generated (a bound)
  Clients,          \* transactions that may be open at once without locks
  RepositoryOf,     \* the repository of a pipeline
  GlobalLimit,      \* active attempts, all repositories
  RepositoryLimit,  \* active attempts of one repository
  AdminStates,      \* the states an administrator gives a runner
  MayBeLocal,       \* the attempts that may be executed here (a bound); none
                    \* when local_runner_enabled is false
  MayExpire,        \* the attempts whose lease may run out (a bound)
  MayGoStale,       \* the runners that may fall silent (a bound)
  Perishable,       \* the jobs whose artifacts may expire while others need them
  Isolated          \* whether unlocked transactions run alone

ASSUME ControlPlaneAssumption ==
  /\ DOMAIN RepositoryOf = Pipelines
  /\ GlobalLimit \in Nat /\ RepositoryLimit \in Nat
  /\ AdminStates \subseteq {"enabled", "draining", "revoked"}
  /\ Perishable \subseteq Jobs
  /\ Isolated \in BOOLEAN
  /\ Local \notin Runners

VARIABLES
  pipeline,   \* pipelines.status
  job,        \* pipeline_jobs.status
  attempt,    \* job_attempts: a record for each attempt created so far
  expired,    \* the active attempts whose lease has run out
  seen,       \* last_seen_at is at most 60 s old
  admin,      \* remote_runners.admin_state
  sweep,      \* the part of list_expired_attempts not yet recorded
  found,      \* the attempt the sweep's open transaction read, if any
  request,    \* what the open unlocked transactions are about to write
  worker,     \* where the RunNextJobWorker of each local attempt stands
  local       \* the open transaction of a local attempt: what it read and records

db == <<pipeline, job, attempt, expired, seen, admin, sweep, found, request,
        worker, local>>

execution == <<worker, local>>

Owners == Runners \cup {Local}
AttemptRecord == [status : AttemptStatus, job : Jobs, runner : Owners,
                  number : Nat, seq : Nat]

\* The stages of perform/1; a worker that returned or died has none.
Stages == {"claimed", "prepared", "control", "run", "failing"}
LocalTransaction == [row : AttemptRecord, seq : Nat, status : AttemptStatus]

IsRequest(w) ==
  /\ w.pipeline \in Pipelines
  /\ w.to \in PipelineStatus
  /\ DOMAIN w.writes \subseteq Jobs
  /\ w.writes \in [DOMAIN w.writes -> JobStatus]

TypeOK ==
  /\ pipeline \in [Pipelines -> PipelineStatus]
  /\ job \in [Jobs -> JobStatus]
  /\ DOMAIN attempt \subseteq Attempts
  /\ attempt \in [DOMAIN attempt -> AttemptRecord]
  /\ expired \subseteq DOMAIN attempt
  /\ seen \in [Runners -> BOOLEAN]
  /\ admin \in [Runners -> {"enabled", "draining", "revoked"}]
  /\ sweep \subseteq [attempt : DOMAIN attempt, seq : Nat]
  /\ DOMAIN found \subseteq DOMAIN attempt
  /\ found \in [DOMAIN found -> AttemptRecord]
  /\ DOMAIN request \subseteq Clients
  /\ \A c \in DOMAIN request : IsRequest(request[c])
  /\ DOMAIN worker \subseteq DOMAIN attempt
  /\ worker \in [DOMAIN worker -> Stages]
  /\ DOMAIN local \subseteq DOMAIN worker
  /\ local \in [DOMAIN local -> LocalTransaction]

---------------------------------------------------------------------------
Active(a) == attempt[a].status \in ActiveAttempt
ActiveAttempts == {a \in DOMAIN attempt : Active(a)}
AttemptsOf(j) == {a \in DOMAIN attempt : attempt[a].job = j}
RemoteAttempts == {a \in ActiveAttempts : attempt[a].runner \in Runners}
ActiveInRepository(repo) ==
  {a \in ActiveAttempts : RepositoryOf[PipelineOf[attempt[a].job]] = repo}

\* No unlocked transaction is open, or the model lets them interleave.
Undisturbed ==
  Isolated => DOMAIN request = {} /\ DOMAIN found = {} /\ DOMAIN local = {}

Init ==
  /\ pipeline = [p \in Pipelines |-> "created"]
  /\ job = [j \in Jobs |-> InitialJob(j)]
  /\ attempt = << >>
  /\ expired = {}
  /\ seen = [r \in Runners |-> FALSE]
  /\ admin = [r \in Runners |-> "enabled"]
  /\ sweep = {}
  /\ found = << >>
  /\ request = << >>
  /\ worker = << >>
  /\ local = << >>

---------------------------------------------------------------------------
(* Transactions that read without locks *)

Open(c, p, to, writes) ==
  /\ c \in Clients \ DOMAIN request
  /\ request' = [d \in DOMAIN request \cup {c} |->
                   IF d = c THEN [pipeline |-> p, to |-> to, writes |-> writes]
                   ELSE request[d]]
  /\ UNCHANGED <<pipeline, job, attempt, expired, seen, admin, sweep, found, execution>>

\* Pipeline.queue; a pipeline queued or running already stays what it is.
QueuedStatus(status) == IF status = "created" THEN "queued" ELSE status

\* QueuePipeline, called by the delivery of pipeline.created.  A redelivery
\* that finds the pipeline queued or running writes the status it read.
BeginQueue(c, p) ==
  /\ Undisturbed
  /\ pipeline[p] \in {"created", "queued", "running"}
  /\ Open(c, p, QueuedStatus(pipeline[p]), << >>)

\* Mutant: running jobs are cancelled at once, as if they had no runner.
CancellationTarget_Immediate(status) ==
  IF status \in {"blocked", "queued", "running"} THEN "cancelled" ELSE "cancelling"

CancellationTarget(status) ==
  IF status \in {"blocked", "queued"} THEN "cancelled" ELSE "cancelling"

CancelWrites(p) ==
  [j \in {k \in JobsOf(p) : job[k] \in {"blocked", "queued", "running"}} |->
     CancellationTarget(job[j])]

BeginCancel(c, p) ==
  /\ Undisturbed
  /\ pipeline[p] \in Cancellable
  /\ Open(c, p, RequestCancellation(pipeline[p]), CancelWrites(p))

\* RetryJob when no artifact the job downloads is missing.
BeginRetry(c, j) ==
  /\ Undisturbed
  /\ \A n \in Needs[j] : job[n] = "succeeded"
  /\ pipeline[PipelineOf[j]] \in Retryable
  /\ job[j] \in {"failed", "cancelled"}
  /\ Open(c, PipelineOf[j], "running", [k \in {j} |-> "queued"])

\* The producers of the missing artifacts run again and the job waits for them.
RerunWrites(j, producers) ==
  [k \in producers \cup {j} |->
     IF k = j \/ Needs[k] \cap producers # {} THEN "blocked" ELSE "queued"]

\* RetryJob with rerun_dependencies.
BeginRerun(c, j, producers) ==
  /\ Undisturbed
  /\ \A n \in Needs[j] : job[n] = "succeeded"
  /\ pipeline[PipelineOf[j]] \in Retryable
  /\ producers # {} /\ producers \subseteq Needs[j] \cap Perishable
  /\ job[j] \in TerminalJob
  /\ Open(c, PipelineOf[j], "running", RerunWrites(j, producers))

\* The writes of the transaction.  update_job and update compare with the row
\* as it is NOW, and write the status computed from the row as it was THEN.
Commit(c) ==
  /\ c \in DOMAIN request
  /\ LET w == request[c] IN
       /\ pipeline' = [pipeline EXCEPT ![w.pipeline] = w.to]
       /\ job' = [j \in Jobs |-> IF j \in DOMAIN w.writes THEN w.writes[j] ELSE job[j]]
  /\ request' = [d \in DOMAIN request \ {c} |-> request[d]]
  /\ UNCHANGED <<attempt, expired, seen, admin, sweep, found, execution>>

---------------------------------------------------------------------------
(* Dispatch *)

\* Mutant: the capacity query forgets the attempts not yet accepted.
RunnerFree_AcceptedOnly(r) ==
  ~ \E a \in ActiveAttempts : attempt[a].runner = r /\ attempt[a].status # "queued"

\* runner_capacity of a runner of concurrency 1 (what the Go runner reports).
RunnerFree(r) == ~ \E a \in ActiveAttempts : attempt[a].runner = r

RunnerAvailable(r) == admin[r] = "enabled" /\ seen[r] /\ RunnerFree(r)

\* global_capacity and the per-repository count of find_fair_job.
Admitted(p) ==
  /\ Cardinality(ActiveAttempts) < GlobalLimit
  /\ Cardinality(ActiveInRepository(RepositoryOf[p])) < RepositoryLimit

Candidate(j) ==
  /\ job[j] = "queued"
  /\ pipeline[PipelineOf[j]] \in {"queued", "running"}
  /\ Admitted(PipelineOf[j])

\* ClaimNextJob for owner o: an eligible job, its attempt and the lease of it.
\* The query prefers the oldest job but skips the rows other transactions lock,
\* so any eligible job may be the one.
ClaimNextJob(o, j, a) ==
  /\ Undisturbed
  /\ Candidate(j)
  /\ a \in Attempts \ DOMAIN attempt
  /\ pipeline' = [pipeline EXCEPT ![PipelineOf[j]] = "running"]
  /\ job' = [job EXCEPT ![j] = "running"]
  /\ attempt' = [b \in DOMAIN attempt \cup {a} |->
                   IF b = a THEN [status |-> "queued", job |-> j, runner |-> o,
                                  number |-> Cardinality(AttemptsOf(j)) + 1,
                                  seq |-> 0]
                   ELSE attempt[b]]
  /\ UNCHANGED <<expired, seen, admin, sweep, found, request>>

\* next_queued_for_runner.
Claim(r, j, a) ==
  /\ RunnerAvailable(r)
  /\ ClaimNextJob(r, j, a)
  /\ UNCHANGED execution

\* next_queued, when dispatch_remote found no runner or no job for it (a while
\* ago: that was another transaction).  The claim counts against the same two
\* limits and takes no runner's slot; the worker goes on with the attempt.
ClaimLocal(j, a) ==
  /\ a \in MayBeLocal
  /\ ClaimNextJob(Local, j, a)
  /\ worker' = [b \in DOMAIN worker \cup {a} |-> IF b = a THEN "claimed" ELSE worker[b]]
  /\ UNCHANGED local

---------------------------------------------------------------------------
(* Runner events *)

\* Whether RecordRunnerEvent commits: the attempt as it was read records the
\* event and, when it ends the attempt, the job as it is now may follow.
CanApply(a, read, seq, status) ==
  /\ Records(read, seq, status)
  /\ status \in TerminalAttempt => status \in JobMoves[job[attempt[a].job]]

\* apply_event: the attempt, its job, the jobs this releases, the verdict.  A
\* lease that ran out is forgotten with the end of the attempt; LeaseExpires
\* may run it out again at once should a stale write bring the attempt back.
ApplyEvent(a, read, seq, status) ==
  LET j == attempt[a].job
      p == PipelineOf[j]
      ended == IF status \in TerminalAttempt THEN [job EXCEPT ![j] = status] ELSE job
  IN /\ CanApply(a, read, seq, status)
     /\ attempt' = [attempt EXCEPT ![a] = [@ EXCEPT !.status = status, !.seq = seq]]
     /\ expired' = IF status \in TerminalAttempt THEN expired \ {a} ELSE expired
     /\ \E verdict \in Verdicts :
          /\ job' = Release(ended, p, verdict)
          /\ ReleasedTo(ended, job', p)
     /\ pipeline' = [pipeline EXCEPT ![p] = CompleteFromJobs(@, job', p)]

\* An attempt_event, job_accept or job_reject of the runner that owns the
\* attempt, which is locked when it is read.  The receipts that make a repeated
\* message harmless are modelled in RunnerProtocol; a refused event changes nothing.
RunnerEvent(r, a, seq, status) ==
  /\ Undisturbed
  /\ a \in DOMAIN attempt /\ attempt[a].runner = r
  /\ ApplyEvent(a, attempt[a], seq, status)
  /\ UNCHANGED <<seen, admin, sweep, found, request, execution>>

---------------------------------------------------------------------------
(* Execution by the control plane *)

\* The events the worker may record from a stage: the job may be impossible to
\* prepare, and its run ends any way.
LocalEvents ==
  [claimed  |-> {[seq |-> 1, status |-> "preparing"]},
   prepared |-> {[seq |-> 2, status |-> "running"], [seq |-> 2, status |-> "failed"]},
   control  |-> {},
   run      |-> {[seq |-> 3, status |-> outcome] : outcome \in TerminalAttempt},
   failing  |-> {[seq |-> 3, status |-> "failed"]}]

\* RunnerControl renews the lease before the execution starts and during it.
Renews == {"control", "run"}

\* RecordRunnerEvent for an administrator, or HeartbeatAttempt, reads the
\* attempt without a lock.  RunnerControl.stop waits for the heartbeat under
\* way, so one attempt has one transaction open.
LocalReads(a) ==
  /\ Undisturbed
  /\ a \in DOMAIN worker \ DOMAIN local
  /\ \E e \in LocalEvents[worker[a]] \cup
              IF worker[a] \in Renews
              THEN {[seq |-> 0, status |-> attempt[a].status]} ELSE {} :
       local' = [b \in DOMAIN local \cup {a} |->
                   IF b = a THEN [row |-> attempt[a], seq |-> e.seq, status |-> e.status]
                   ELSE local[b]]
  /\ UNCHANGED <<pipeline, job, attempt, expired, seen, admin, sweep, found, request, worker>>

\* The worker of a goes on to stage, or returns when there is none.
GoesOn(a, stage) ==
  /\ worker' = [b \in {c \in DOMAIN worker \cup {a} : c # a \/ stage \in Stages} |->
                  IF b = a THEN stage ELSE worker[b]]
  /\ local' = [b \in DOMAIN local \ {a} |-> local[b]]

\* What it does when record/5 is answered.
AfterRecord(stage, status, ok) ==
  CASE stage = "claimed"  -> IF ok THEN "prepared" ELSE "done"
    [] stage = "prepared" -> IF status = "failed" THEN "done"
                             ELSE IF ok THEN "control" ELSE "failing"
    [] stage = "run"      -> IF ok THEN "done" ELSE "failing"
    [] OTHER              -> "done"

\* An event is written, found recorded already or refused.
LocalRecords(a) ==
  LET t == local[a] IN
  /\ t.seq # 0
  /\ \/ /\ ApplyEvent(a, t.row, t.seq, t.status)
        /\ GoesOn(a, AfterRecord(worker[a], t.status, TRUE))
     \/ /\ ~ CanApply(a, t.row, t.seq, t.status)
        /\ GoesOn(a, AfterRecord(worker[a], t.status, t.seq <= t.row.seq))
        /\ UNCHANGED <<pipeline, job, attempt, expired>>

\* Attempt.heartbeat of the row that was read, written back whole; the first
\* one decides whether the job is executed at all.
LocalRenews(a) ==
  LET t == local[a]
      renewed == t.row.status \in ActiveAttempt
  IN
  /\ t.seq = 0
  /\ attempt' = IF renewed THEN [attempt EXCEPT ![a] = t.row] ELSE attempt
  /\ expired' = IF renewed THEN expired \ {a} ELSE expired
  /\ GoesOn(a, IF worker[a] # "control" THEN worker[a]
               ELSE IF renewed THEN "run" ELSE "failing")
  /\ UNCHANGED <<pipeline, job>>

LocalWrites(a) ==
  /\ a \in DOMAIN local
  /\ LocalRecords(a) \/ LocalRenews(a)
  /\ UNCHANGED <<seen, admin, sweep, found, request>>

\* The node goes down, or the worker and its RunnerControl die: the open
\* transaction rolls back and nobody reports the attempt any more.
LocalCrash(a) ==
  /\ a \in DOMAIN worker
  /\ GoesOn(a, "done")
  /\ UNCHANGED <<pipeline, job, attempt, expired, seen, admin, sweep, found, request>>

---------------------------------------------------------------------------
(* Leases *)

LeaseExpires(a) ==
  /\ a \in (ActiveAttempts \cap MayExpire) \ expired
  /\ expired' = expired \cup {a}
  /\ UNCHANGED <<pipeline, job, attempt, seen, admin, sweep, found, request, execution>>

RunnerGoesStale(r) ==
  /\ seen[r] /\ r \in MayGoStale
  /\ seen' = [seen EXCEPT ![r] = FALSE]
  /\ UNCHANGED <<pipeline, job, attempt, expired, admin, sweep, found, request, execution>>

\* negotiate_protocol (join) records the session; it renews no lease.
Join(r) ==
  /\ admin[r] # "revoked" /\ ~ seen[r]
  /\ seen' = [seen EXCEPT ![r] = TRUE]
  /\ UNCHANGED <<pipeline, job, attempt, expired, admin, sweep, found, request, execution>>

\* The heartbeat of a session: last_seen_at, then the lease of every active
\* attempt the database assigns to the runner, whatever the runner runs.
Heartbeat(r) ==
  /\ admin[r] # "revoked"
  /\ seen' = [seen EXCEPT ![r] = TRUE]
  /\ expired' = {a \in expired : attempt[a].runner # r}
  /\ UNCHANGED <<pipeline, job, attempt, admin, sweep, found, request, execution>>

\* list_expired_attempts of ReconcileExpiredLeases.  Which lease ran out first
\* is abstracted: SweepStep takes the list in any order.
SweepRead ==
  /\ sweep = {} /\ expired # {}
  /\ sweep' = {[attempt |-> a, seq |-> attempt[a].seq + 1] : a \in expired}
  /\ UNCHANGED <<pipeline, job, attempt, expired, seen, admin, found, request, execution>>

\* One round of its reduce_while: RecordRunnerEvent for an administrator reads
\* the attempt without a lock ...
SweepOpen ==
  /\ Undisturbed /\ DOMAIN found = {}
  /\ \E h \in sweep : found' = [a \in {h.attempt} |-> attempt[a]]
  /\ UNCHANGED <<pipeline, job, attempt, expired, seen, admin, sweep, request, execution>>

\* ... and fails it as runner_lost, skips an event already recorded, or
\* refuses; the first error ends the whole sweep.
SweepLost(h) ==
  /\ ApplyEvent(h.attempt, found[h.attempt], h.seq, "failed")
  /\ sweep' = sweep \ {h}

SweepSkip(h) ==
  /\ h.seq <= found[h.attempt].seq
  /\ sweep' = sweep \ {h}
  /\ UNCHANGED <<pipeline, job, attempt, expired>>

SweepHalt(h) ==
  /\ h.seq > found[h.attempt].seq
  /\ ~ CanApply(h.attempt, found[h.attempt], h.seq, "failed")
  /\ sweep' = {}
  /\ UNCHANGED <<pipeline, job, attempt, expired>>

SweepStep ==
  /\ \E h \in sweep :
       /\ h.attempt \in DOMAIN found
       /\ SweepLost(h) \/ SweepSkip(h) \/ SweepHalt(h)
  /\ found' = << >>
  /\ UNCHANGED <<seen, admin, request, execution>>

---------------------------------------------------------------------------
(* Fleet administration *)

\* update_configuration between enabled and draining, and revoke.
SetAdminState(r, state) ==
  /\ admin[r] # "revoked" /\ state # admin[r]
  /\ admin' = [admin EXCEPT ![r] = state]
  /\ UNCHANGED <<pipeline, job, attempt, expired, seen, sweep, found, request, execution>>

---------------------------------------------------------------------------
UserRequest(c) ==
  \/ \E p \in Pipelines : BeginQueue(c, p) \/ BeginCancel(c, p)
  \/ \E j \in Jobs : BeginRetry(c, j)
  \/ \E j \in Jobs : \E producers \in SUBSET Needs[j] : BeginRerun(c, j, producers)
  \/ Commit(c)

AnyRunnerEvent(r) ==
  \E a \in DOMAIN attempt, status \in AttemptStatus :
    RunnerEvent(r, a, attempt[a].seq + 1, status)

Fleet(r) ==
  \/ \E j \in Jobs, a \in Attempts : Claim(r, j, a)
  \/ AnyRunnerEvent(r)
  \/ RunnerGoesStale(r) \/ Join(r) \/ Heartbeat(r)
  \/ \E state \in AdminStates : SetAdminState(r, state)

LocalExecution(a) ==
  \/ \E j \in Jobs : ClaimLocal(j, a)
  \/ LocalReads(a) \/ LocalWrites(a) \/ LocalCrash(a)

Next ==
  \/ \E c \in Clients : UserRequest(c)
  \/ \E r \in Runners : Fleet(r)
  \/ \E a \in Attempts : LocalExecution(a)
  \/ \E a \in Attempts : LeaseExpires(a)
  \/ SweepRead \/ SweepOpen \/ SweepStep

Spec == Init /\ [][Next]_db

---------------------------------------------------------------------------
(* Properties that hold whatever interleaves *)

\* A remote runner of concurrency 1 never owns two active attempts: claims are
\* serialised by the scheduler lock, and neither an event of the runner nor a
\* stale sweep brings one of its ended attempts back (RUN-002 FR-7,
\* next_queued_for_runner).
RunnerSlot ==
  \A a, b \in ActiveAttempts :
    attempt[a].runner \in Runners /\ attempt[a].runner = attempt[b].runner => a = b

\* The attempts of remote runners alone never exceed a limit, although local
\* attempts compete for the same places and may come back after they ended.
RemoteCapacityBound ==
  /\ Cardinality(RemoteAttempts) <= GlobalLimit
  /\ \A p \in Pipelines :
       Cardinality(RemoteAttempts \cap ActiveInRepository(RepositoryOf[p])) <= RepositoryLimit

\* A remote attempt that ended never becomes active again, and keeps its number,
\* job and runner, whatever is retried, cancelled or swept afterwards ("One
\* immutable-history execution attempt for a job", attempt.ex).  Its result may
\* still change from cancelled to failed: the sweep writes what it computed
\* from an attempt it did not lock.  A local attempt has no such guarantee.
EndedRemoteAttemptsKept ==
  [][\A a \in DOMAIN attempt : attempt[a].runner \in Runners /\ ~ Active(a) =>
       /\ a \in DOMAIN attempt' /\ ~ Active(a)'
       /\ attempt'[a].number = attempt[a].number
       /\ attempt'[a].job = attempt[a].job
       /\ attempt'[a].runner = attempt[a].runner]_db

---------------------------------------------------------------------------
(* Properties of the state machines *)

\* The instance and every repository stay within their limits of active
\* attempts, local ones included (PLAT-001: "A configured concurrency limit is
\* never exceeded").
CapacityBound ==
  /\ Cardinality(ActiveAttempts) <= GlobalLimit
  /\ \A p \in Pipelines :
       Cardinality(ActiveInRepository(RepositoryOf[p])) <= RepositoryLimit

\* A job has at most one active attempt (PLAT-001 FR-4).
OneActiveAttempt ==
  \A a, b \in ActiveAttempts : attempt[a].job = attempt[b].job => a = b

\* A job is running or cancelling exactly as long as an attempt works on it:
\* no job without an owner, no attempt whose result nobody waits for.
OwnedJobs ==
  \A j \in Jobs :
    job[j] \in OwnedJob <=> \E a \in ActiveAttempts : attempt[a].job = j

\* A finished pipeline has only finished jobs, and its verdict is theirs
\* (Pipeline.complete_from_jobs, CancelPipeline and RetryJob together).
VerdictSound ==
  \A p \in Pipelines :
    /\ pipeline[p] \in TerminalPipeline => \A j \in JobsOf(p) : job[j] \in TerminalJob
    /\ pipeline[p] = "succeeded" => \A j \in JobsOf(p) : job[j] \in {"succeeded", "skipped"}
    /\ pipeline[p] = "failed" => \E j \in JobsOf(p) : job[j] = "failed"

\* What a job that is queued or runs depends on has ended, also after retries
\* and reruns: "conditions MUST evaluate after every expanded dependency is
\* terminal" (WF-003 FR-9).
NeedsEnded ==
  \A j \in Jobs : job[j] \in {"queued"} \cup OwnedJob =>
    \A n \in Needs[j] : job[n] \in TerminalJob

\* Nothing it depends on was cancelled, and all of it succeeded unless the job
\* asked for failure or always: "A dependent job MUST run only when all needed
\* jobs succeed" (WF-001 FR-10).  So it is when only jobs without needs of their
\* own are run again for their artifacts: a rerun queues the producers without a
\* look at what they depend on.
NeedsMet ==
  \A j \in Jobs : job[j] \in {"queued"} \cup OwnedJob =>
    \A n \in Needs[j] :
      /\ job[n] # "cancelled"
      /\ Condition[j] = "success" => job[n] = "succeeded"

\* What a queued or running job depends on has ended, and as its condition asks.
JobsWaitForNeeds == NeedsEnded /\ NeedsMet

\* The status of a job that succeeded or failed is that of its newest attempt.
LatestAttemptDecides ==
  \A j \in Jobs : job[j] \in {"succeeded", "failed"} =>
    \E a \in AttemptsOf(j) :
      /\ attempt[a].status = job[j]
      /\ \A b \in AttemptsOf(j) : attempt[b].number <= attempt[a].number

\* A running pipeline has a job that can still make it progress.
NotStranded ==
  \A p \in Pipelines : pipeline[p] = "running" =>
    \E j \in JobsOf(p) : job[j] \in {"queued"} \cup OwnedJob

\* Only a retry reopens a finished pipeline ("Requests cancellation without
\* losing terminal pipeline history", cancel_pipeline.ex).
TerminalPipelineKept ==
  [][\A p \in Pipelines : pipeline[p] \in TerminalPipeline =>
       \/ pipeline'[p] = pipeline[p]
       \/ pipeline[p] \in {"failed", "cancelled"} /\ pipeline'[p] = "running"]_db

\* A cancelled job can be retried once nothing of its pipeline is active:
\* "Authorized users MUST be able to cancel active pipelines and retry failed
\* or cancelled jobs" (WEB-001 FR-6).
CancelledJobsRetryable ==
  \A j \in Jobs :
    (/\ job[j] = "cancelled"
     /\ \A k \in JobsOf(PipelineOf[j]) : job[k] \in TerminalJob
     /\ DOMAIN request = {})
    => pipeline[PipelineOf[j]] \in Retryable

---------------------------------------------------------------------------
(* Liveness *)

\* ReconcileLeasesWorker runs every minute and works through its list, and an
\* open transaction ends, that of a local attempt included.  SweepOpen waits for
\* transactions only because of Isolated, so it needs strong fairness not to be
\* starved by them; without Isolated others never disable it and the two fairness
\* notions agree.
FairSpec ==
  /\ Spec
  /\ WF_db(SweepRead) /\ SF_db(SweepOpen) /\ WF_db(SweepStep)
  /\ \A c \in Clients : WF_db(Commit(c))
  /\ \A a \in Attempts : WF_db(LocalWrites(a))

\* "Runner loss MUST never leave a lease permanently active" (RUN-001 OR-4).
ExpiredLeasesEnd ==
  \A a \in Attempts : ~ <>[](a \in expired)
=============================================================================
