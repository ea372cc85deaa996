----------------------------- MODULE LocalRunner -----------------------------
(***************************************************************************)
(* One attempt executed by the control plane itself: the Oban job          *)
(* RunNextJobWorker, the RunnerControl process that renews its lease, the  *)
(* lease sweep and a user's cancellation, around one attempt and its job.  *)
(*                                                                         *)
(* Unlike the events of a remote runner, those of the local one            *)
(* (RecordRunnerEvent for an administrator) and its heartbeats             *)
(* (HeartbeatAttempt) read the attempt WITHOUT a lock.  Each is therefore  *)
(* two steps, a read and the write computed from it; the job, read after   *)
(* lock_job_graph, is the current one.  In a serialized behaviour only one *)
(* such transaction is open at a time: what holds there and not elsewhere  *)
(* is what a lock would buy.                                               *)
(***************************************************************************)
EXTENDS Lifecycle

VARIABLES
  attempt,  \* status, last_sequence and whether its lease has run out
  job,      \* status of its job, claimed before the model starts
  worker,   \* where perform/1 of the worker stands
  result,   \* what Execution.run_job returned
  found,    \* what list_expired_attempts returned: a sequence to record, or 0
  open,     \* the open transactions: what each read and what it will record
  serialized  \* whether unlocked transactions run alone in this behaviour

vars == <<attempt, job, worker, result, found, open, serialized>>

Actors == {"worker", "control", "sweep"}
Stages == {"claimed", "materialize", "unprepared", "prepared", "control", "run",
           "report", "failing", "done", "dead"}
AttemptRow == [status : AttemptStatus, seq : 0..4, lapsed : BOOLEAN]

TypeOK ==
  /\ attempt \in AttemptRow
  /\ job \in {"running", "cancelling"} \cup (TerminalJob \ {"skipped"})
  /\ worker \in Stages
  /\ result \in {"none"} \cup TerminalAttempt
  /\ found \in 0..4
  /\ DOMAIN open \subseteq Actors
  /\ \A x \in DOMAIN open :
       open[x] \in [row : AttemptRow, seq : 0..4, status : AttemptStatus]
  /\ serialized \in BOOLEAN

\* ClaimNextJob of the local runner has just committed.
Init ==
  /\ attempt = [status |-> "queued", seq |-> 0, lapsed |-> FALSE]
  /\ job = "running"
  /\ worker = "claimed"
  /\ result = "none"
  /\ found = 0
  /\ open = << >>
  /\ serialized \in BOOLEAN

---------------------------------------------------------------------------
(* Transactions *)

Begin(x, seq, status) ==
  /\ x \notin DOMAIN open
  /\ serialized => DOMAIN open = {}
  /\ open' = [y \in DOMAIN open \cup {x} |->
                IF y = x THEN [row |-> attempt, seq |-> seq, status |-> status]
                ELSE open[y]]

End(x) == open' = [y \in DOMAIN open \ {x} |-> open[y]]

\* Mutant: the terminal event writes the job without asking its state machine.
Accepted_AnyJob(t) == Records(t.row, t.seq, t.status)

\* apply_event succeeds with a change: judged on the row that was read, and on
\* the job as it is now.
Accepted(t) ==
  /\ Records(t.row, t.seq, t.status)
  /\ t.status \in TerminalAttempt => t.status \in JobMoves[job]

\* A sequence already recorded is answered with {:ok, attempt}.
Repeated(t) == t.seq <= t.row.seq

\* Mutant: a refused job does not roll the attempt back.
RecordEvent_NoRollback(t) ==
  /\ attempt' = IF Records(t.row, t.seq, t.status)
                THEN [status |-> t.status, seq |-> t.seq, lapsed |-> t.row.lapsed]
                ELSE attempt
  /\ job' = IF Accepted(t) /\ t.status \in TerminalAttempt THEN t.status ELSE job

\* update_attempt writes the whole row that was computed, lease included.
RecordEvent(t) ==
  IF Accepted(t)
  THEN /\ attempt' = [status |-> t.status, seq |-> t.seq, lapsed |-> t.row.lapsed]
       /\ job' = IF t.status \in TerminalAttempt THEN t.status ELSE job
  ELSE UNCHANGED <<attempt, job>>

\* The stage the worker goes to when its record/5 is answered.
AfterRecord(stage, ok) ==
  CASE stage = "claimed"  -> IF ok THEN "materialize" ELSE "done"
    [] stage = "prepared" -> IF ok THEN "control" ELSE "failing"
    [] stage = "report"   -> IF ok THEN "done" ELSE "failing"
    [] OTHER              -> "done"

\* Mutant: a job that cannot be prepared is recorded as skipped.
EventOf_Skipped(stage) ==
  CASE stage = "claimed"    -> [seq |-> 1, status |-> "preparing"]
    [] stage = "unprepared" -> [seq |-> 2, status |-> "skipped"]
    [] stage = "prepared"   -> [seq |-> 2, status |-> "running"]
    [] stage = "report"     -> [seq |-> 3, status |-> result]
    [] stage = "failing"    -> [seq |-> 3, status |-> "failed"]

EventOf(stage) ==
  CASE stage = "claimed"    -> [seq |-> 1, status |-> "preparing"]
    [] stage = "unprepared" -> [seq |-> 2, status |-> "failed"]
    [] stage = "prepared"   -> [seq |-> 2, status |-> "running"]
    [] stage = "report"     -> [seq |-> 3, status |-> result]
    [] stage = "failing"    -> [seq |-> 3, status |-> "failed"]

---------------------------------------------------------------------------
(* The worker *)

WorkerReads ==
  /\ worker \in {"claimed", "unprepared", "prepared", "report", "failing"}
  /\ Begin("worker", EventOf(worker).seq, EventOf(worker).status)
  /\ UNCHANGED <<attempt, job, worker, result, found>>

WorkerRecords ==
  /\ "worker" \in DOMAIN open
  /\ LET t == open["worker"] IN
       /\ RecordEvent(t)
       /\ worker' = AfterRecord(worker, Accepted(t) \/ Repeated(t))
  /\ End("worker")
  /\ UNCHANGED <<result, found>>

\* prepare_and_execute builds the specification, or fails to.
Materialize ==
  /\ worker = "materialize"
  /\ worker' \in {"prepared", "unprepared"}
  /\ UNCHANGED <<attempt, job, result, found, open>>

\* run_job returns; a cancellation may be seen by the poll or come too late.
\* RunnerControl.stop waits until the control process has no open transaction.
RunEnds ==
  /\ worker = "run" /\ "control" \notin DOMAIN open
  /\ result' \in {"succeeded", "failed"} \cup (IF job = "running" THEN {} ELSE {"cancelled"})
  /\ worker' = "report"
  /\ UNCHANGED <<attempt, job, found, open>>

\* The node goes down: open transactions of its processes roll back.
Crash ==
  /\ worker \notin {"done", "dead"}
  /\ worker' = "dead"
  /\ open' = [y \in DOMAIN open \ {"worker", "control"} |-> open[y]]
  /\ UNCHANGED <<attempt, job, result, found>>

---------------------------------------------------------------------------
(* RunnerControl *)

\* renew_lease: once in init, while the worker waits, then every interval.
HeartbeatReads ==
  /\ worker \in {"control", "run"}
  /\ Begin("control", attempt.seq, attempt.status)
  /\ UNCHANGED <<attempt, job, worker, result, found>>

\* Mutant: a heartbeat that finds the attempt ended starts the execution.
HeartbeatStage_Ignored(active) == IF worker = "control" THEN "run" ELSE worker

HeartbeatStage(active) ==
  IF worker # "control" THEN worker ELSE IF active THEN "run" ELSE "failing"

\* Attempt.heartbeat of the row that was read, written back whole.
HeartbeatWrites ==
  /\ "control" \in DOMAIN open
  /\ LET row == open["control"].row
         active == row.status \in ActiveAttempt
     IN /\ attempt' = IF active THEN [row EXCEPT !.lapsed = FALSE] ELSE attempt
        /\ worker' = HeartbeatStage(active)
  /\ End("control")
  /\ UNCHANGED <<job, result, found>>

---------------------------------------------------------------------------
(* Leases and cancellation *)

LeaseLapses ==
  /\ attempt.status \in ActiveAttempt /\ ~ attempt.lapsed
  /\ attempt' = [attempt EXCEPT !.lapsed = TRUE]
  /\ UNCHANGED <<job, worker, result, found, open>>

\* Mutant: the sweep repeats the last sequence instead of the next one.
SweepLists_SameSequence ==
  /\ found = 0 /\ "sweep" \notin DOMAIN open
  /\ attempt.status \in ActiveAttempt /\ attempt.lapsed
  /\ found' = attempt.seq
  /\ UNCHANGED <<attempt, job, worker, result, open>>

SweepLists ==
  /\ found = 0 /\ "sweep" \notin DOMAIN open
  /\ attempt.status \in ActiveAttempt /\ attempt.lapsed
  /\ found' = attempt.seq + 1
  /\ UNCHANGED <<attempt, job, worker, result, open>>

SweepReads ==
  /\ found # 0
  /\ Begin("sweep", found, "failed")
  /\ found' = 0
  /\ UNCHANGED <<attempt, job, worker, result>>

SweepRecords ==
  /\ "sweep" \in DOMAIN open
  /\ RecordEvent(open["sweep"])
  /\ End("sweep")
  /\ UNCHANGED <<worker, result, found>>

\* CancelPipeline on the claimed job.
Cancel ==
  /\ job = "running"
  /\ job' = "cancelling"
  /\ UNCHANGED <<attempt, worker, result, found, open>>

Next ==
  /\ \/ WorkerReads \/ WorkerRecords \/ Materialize \/ RunEnds \/ Crash
     \/ HeartbeatReads \/ HeartbeatWrites
     \/ LeaseLapses \/ SweepLists \/ SweepReads \/ SweepRecords
     \/ Cancel
  /\ UNCHANGED serialized

Spec == Init /\ [][Next]_vars

Goes(A) == A /\ UNCHANGED serialized

\* Every process that is up goes on, a run ends (jobs have a timeout), the
\* sweep runs every minute and a lease that nobody renews runs out.  The
\* sweep's read and the worker's wait for other transactions only when the
\* behaviour is serialized, hence strong fairness.
FairSpec ==
  /\ Spec
  /\ WF_vars(Goes(WorkerRecords)) /\ WF_vars(Goes(Materialize))
  /\ WF_vars(Goes(HeartbeatWrites)) /\ WF_vars(Goes(LeaseLapses))
  /\ WF_vars(Goes(SweepLists)) /\ WF_vars(Goes(SweepRecords))
  /\ SF_vars(Goes(WorkerReads)) /\ SF_vars(Goes(RunEnds)) /\ SF_vars(Goes(SweepReads))
  /\ SF_vars(Goes(HeartbeatReads /\ worker = "control"))

---------------------------------------------------------------------------
(* Properties *)

\* The job gets one outcome, whatever the worker, the sweep and stale rows
\* write: it never changes, and a job being cancelled never succeeds.  This is
\* what locking the jobs in lock_job_graph and Job.transition buy.
OutcomeKept ==
  [][/\ job \in TerminalJob => job' = job
     /\ job = "cancelling" => job' # "succeeded"]_vars

\* With serialized transactions the attempt and its job end together and
\* alike, whichever of the worker, the sweep and a refused outcome ends them.
EndTogether ==
  serialized =>
    /\ attempt.status \in TerminalAttempt => job = attempt.status
    /\ job \in TerminalJob => attempt.status = job

\* With serialized transactions no job is executed for an attempt that ended
\* before the control process started (the initial renew_lease in init).
NoLateStart ==
  [][serialized /\ worker' = "run" /\ worker # "run"
       => attempt.status \in ActiveAttempt]_vars

\* "One immutable-history execution attempt for a job" (attempt.ex).
EndedAttemptKept ==
  [][attempt.status \in TerminalAttempt => attempt' = attempt]_vars

\* With serialized transactions the attempt ends, also when the node goes
\* down in the middle.
AttemptEnds == serialized ~> (attempt.status \in TerminalAttempt)
=============================================================================
