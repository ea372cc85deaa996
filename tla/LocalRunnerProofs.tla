-------------------------- MODULE LocalRunnerProofs --------------------------
(* Theorems about LocalRunner: what holds however its transactions          *)
(* interleave, and what holds when they are serialized.                     *)
EXTENDS LocalRunner, TLAPS

---------------------------------------------------------------------------
(* The inductive invariant *)

\* An attempt that goes on has recorded its second event at most.
Low(row) == /\ row.seq \in 0..3
            /\ row.status \notin TerminalAttempt => row.seq <= 2

\* What is recorded next is the third event at most, and ends the attempt then.
Rows ==
  /\ Low(attempt)
  /\ found \in 0..3
  /\ \A x \in DOMAIN open : Low(open[x].row)
  /\ \A x \in DOMAIN open \ {"control"} : Low(open[x])

Reported == worker = "report" => result # "none"

\* A serialized transaction is alone, and its row is current but for the lease.
Alone ==
  serialized =>
    /\ \A x, y \in DOMAIN open : x = y
    /\ \A x \in DOMAIN open : /\ open[x].row.status = attempt.status
                              /\ open[x].row.seq = attempt.seq

IInv == TypeOK /\ Rows /\ Reported /\ Alone /\ EndTogether

---------------------------------------------------------------------------
(* The tables of moves *)

\* An event that is recorded is of an attempt and a job that have not ended, and
\* no success is recorded of a job that is being cancelled.
LEMMA AcceptedMoves ==
  ASSUME TypeOK, NEW x \in DOMAIN open, Accepted(open[x])
  PROVE  /\ open[x].row.status \in ActiveAttempt
         /\ open[x].status \in AttemptStatus
         /\ open[x].seq = open[x].row.seq + 1
         /\ open[x].status \in TerminalAttempt =>
              /\ job \notin TerminalJob
              /\ job = "cancelling" => open[x].status # "succeeded"
<1>1. /\ open[x].row.status \in AttemptStatus /\ open[x].status \in AttemptStatus
      /\ job \in {"running", "cancelling"} \cup TerminalJob
  BY DEF TypeOK, AttemptRow
<1>2. /\ open[x].seq = open[x].row.seq + 1
      /\ open[x].status \in AttemptMoves[open[x].row.status]
      /\ open[x].status \in TerminalAttempt => open[x].status \in JobMoves[job]
  BY DEF Accepted, Records
<1>3. open[x].row.status \in ActiveAttempt
  BY <1>1, <1>2 DEF AttemptMoves, AttemptStatus, ActiveAttempt, TerminalAttempt
<1>4. ASSUME open[x].status \in TerminalAttempt
      PROVE  job \notin TerminalJob /\ (job = "cancelling" => open[x].status # "succeeded")
  BY <1>1, <1>2, <1>4 DEF JobMoves, TerminalJob, TerminalAttempt
<1> QED
  BY <1>1, <1>2, <1>3, <1>4

---------------------------------------------------------------------------
(* What the parts of a transaction keep *)

\* What the worker is about to record fits the types and ends the attempt with
\* its third event.
LEMMA EventFits ==
  ASSUME IInv, worker \in {"claimed", "unprepared", "prepared", "report", "failing"}
  PROVE  /\ EventOf(worker).seq \in 0..3 /\ EventOf(worker).status \in AttemptStatus
         /\ Low(EventOf(worker))
<1>1. CASE worker = "claimed"
  BY <1>1 DEF EventOf, Low, AttemptStatus, ActiveAttempt, TerminalAttempt
<1>2. CASE worker = "unprepared"
  BY <1>2 DEF EventOf, Low, AttemptStatus, ActiveAttempt, TerminalAttempt
<1>3. CASE worker = "prepared"
  BY <1>3 DEF EventOf, Low, AttemptStatus, ActiveAttempt, TerminalAttempt
<1>4. CASE worker = "report"
  <2>1. result \in TerminalAttempt
    BY <1>4 DEF IInv, TypeOK, Reported
  <2>2. EventOf(worker) = [seq |-> 3, status |-> result]
    BY <1>4 DEF EventOf
  <2> QED
    BY <2>1, <2>2 DEF Low, AttemptStatus
<1>5. CASE worker = "failing"
  BY <1>5 DEF EventOf, Low, AttemptStatus, ActiveAttempt, TerminalAttempt
<1> QED
  BY <1>1, <1>2, <1>3, <1>4, <1>5

\* The part of the invariant that speaks of the open transactions.
Transactions ==
  /\ DOMAIN open \subseteq Actors
  /\ \A x \in DOMAIN open :
       open[x] \in [row : AttemptRow, seq : 0..4, status : AttemptStatus]
  /\ \A x \in DOMAIN open : Low(open[x].row)
  /\ \A x \in DOMAIN open \ {"control"} : Low(open[x])
  /\ Alone

\* A transaction begins with the row as it is.
LEMMA BeginKeeps ==
  ASSUME IInv, NEW x \in Actors, NEW seq \in 0..4, NEW status \in AttemptStatus,
         Begin(x, seq, status), UNCHANGED <<attempt, serialized>>,
         x # "control" => Low([seq |-> seq, status |-> status])
  PROVE  Transactions'
<1> DEFINE new == [row |-> attempt, seq |-> seq, status |-> status]
<1>1. /\ DOMAIN open' = DOMAIN open \cup {x}
      /\ open'[x] = new
      /\ \A y \in DOMAIN open : y # x /\ open'[y] = open[y]
  BY DEF Begin
<1>2. new \in [row : AttemptRow, seq : 0..4, status : AttemptStatus] /\ Low(new.row)
  BY DEF IInv, TypeOK, Rows
<1>3. x # "control" => Low(new)
  BY DEF Low
<1>4. Alone'
  <2> SUFFICES ASSUME serialized PROVE /\ \A y, z \in DOMAIN open' : y = z
                                       /\ \A y \in DOMAIN open' :
                                            /\ open'[y].row.status = attempt.status
                                            /\ open'[y].row.seq = attempt.seq
    BY DEF Alone
  <2>1. DOMAIN open' = {x}
    BY <1>1 DEF Begin
  <2> QED
    BY <1>1, <2>1
<1>5. /\ DOMAIN open \subseteq Actors
      /\ \A y \in DOMAIN open :
           /\ open[y] \in [row : AttemptRow, seq : 0..4, status : AttemptStatus]
           /\ Low(open[y].row)
           /\ y # "control" => Low(open[y])
  BY DEF IInv, TypeOK, Rows
<1> HIDE DEF new
<1> QED
  BY <1>1, <1>2, <1>3, <1>4, <1>5 DEF Transactions

\* Transactions that end leave the others as they are; the row may change when
\* nobody else has read it.
LEMMA EndKeeps ==
  ASSUME IInv, NEW gone \in SUBSET Actors,
         open' = [y \in DOMAIN open \ gone |-> open[y]], UNCHANGED serialized,
         \/ attempt'.status = attempt.status /\ attempt'.seq = attempt.seq
         \/ \E x \in gone : x \in DOMAIN open
  PROVE  Transactions'
<1>1. /\ DOMAIN open' = DOMAIN open \ gone
      /\ \A y \in DOMAIN open' : y \in DOMAIN open /\ y \notin gone /\ open'[y] = open[y]
  OBVIOUS
<1>2. Alone'
  <2> SUFFICES ASSUME serialized PROVE /\ \A y, z \in DOMAIN open' : y = z
                                       /\ \A y \in DOMAIN open' :
                                            /\ open'[y].row.status = attempt'.status
                                            /\ open'[y].row.seq = attempt'.seq
    BY DEF Alone
  <2>1. /\ \A y, z \in DOMAIN open : y = z
        /\ \A y \in DOMAIN open : /\ open[y].row.status = attempt.status
                                  /\ open[y].row.seq = attempt.seq
    BY DEF IInv, Alone
  <2> QED
    BY <1>1, <2>1
<1>3. /\ DOMAIN open \subseteq Actors
      /\ \A y \in DOMAIN open :
           /\ open[y] \in [row : AttemptRow, seq : 0..4, status : AttemptStatus]
           /\ Low(open[y].row)
           /\ y # "control" => Low(open[y])
  BY DEF IInv, TypeOK, Rows
<1> QED
  BY <1>1, <1>2, <1>3 DEF Transactions

\* So they do when none begins and none ends.
LEMMA StayKeeps ==
  ASSUME IInv, UNCHANGED <<open, serialized>>,
         attempt'.status = attempt.status, attempt'.seq = attempt.seq
  PROVE  Transactions'
BY DEF IInv, TypeOK, Rows, Alone, Transactions

\* The part of the invariant that speaks of the rows of the attempt and its job.
RowsFit ==
  /\ attempt \in AttemptRow /\ Low(attempt)
  /\ job \in {"running", "cancelling"} \cup (TerminalJob \ {"skipped"})
  /\ EndTogether

\* An event is recorded of both rows or of none.
LEMMA RecordKeeps ==
  ASSUME IInv, NEW x \in DOMAIN open \ {"control"}, RecordEvent(open[x]),
         UNCHANGED serialized
  PROVE  RowsFit'
<1> DEFINE t == open[x]
<1>1. CASE Accepted(t)
  <2>1. /\ t.row.status \in ActiveAttempt /\ t.status \in AttemptStatus
        /\ t.status \in TerminalAttempt => job \notin TerminalJob
    BY <1>1, AcceptedMoves DEF IInv
  <2>2. /\ t.row \in AttemptRow /\ t.seq \in 0..4 /\ Low(t)
    BY DEF IInv, TypeOK, Rows
  <2>3. /\ attempt' = [status |-> t.status, seq |-> t.seq, lapsed |-> t.row.lapsed]
        /\ job' = IF t.status \in TerminalAttempt THEN t.status ELSE job
    BY <1>1 DEF RecordEvent
  <2>4. attempt' \in AttemptRow /\ Low(attempt')
    BY <2>1, <2>2, <2>3 DEF AttemptRow, Low
  <2>5. job' \in {"running", "cancelling"} \cup (TerminalJob \ {"skipped"})
    BY <2>3 DEF IInv, TypeOK, TerminalJob, TerminalAttempt
  <2>6. EndTogether'
    <3> SUFFICES ASSUME serialized
                 PROVE  /\ attempt'.status \in TerminalAttempt => job' = attempt'.status
                        /\ job' \in TerminalJob => attempt'.status = job'
      BY DEF EndTogether
    <3>1. CASE t.status \in TerminalAttempt
      BY <2>3, <3>1
    <3>2. CASE t.status \notin TerminalAttempt
      <4>1. attempt.status = t.row.status
        BY DEF IInv, Alone
      <4>2. job \notin TerminalJob
        BY <2>1, <4>1 DEF IInv, EndTogether, TypeOK, ActiveAttempt, TerminalJob
      <4> QED
        BY <2>3, <3>2, <4>2
    <3> QED
      BY <3>1, <3>2
  <2> QED
    BY <2>4, <2>5, <2>6 DEF RowsFit
<1>2. CASE ~ Accepted(t)
  BY <1>2 DEF RecordEvent, IInv, TypeOK, Rows, EndTogether, RowsFit
<1> QED
  BY <1>1, <1>2

\* An attempt whose lease changes is otherwise the same.
LEMMA LeaseKeeps ==
  ASSUME IInv, attempt' \in AttemptRow, attempt'.status = attempt.status,
         attempt'.seq = attempt.seq, UNCHANGED <<job, serialized>>
  PROVE  RowsFit'
BY DEF IInv, TypeOK, Rows, Low, EndTogether, RowsFit

\* The rest: the worker, its result and what the sweep found.
Processes ==
  /\ worker \in Stages
  /\ result \in {"none"} \cup TerminalAttempt
  /\ found \in 0..3
  /\ serialized \in BOOLEAN
  /\ Reported

\* The three parts are all of it.
LEMMA Parts ==
  RowsFit /\ Transactions /\ Processes => IInv
<1> SUFFICES ASSUME RowsFit, Transactions, Processes PROVE IInv
  OBVIOUS
<1>1. TypeOK
  BY DEF RowsFit, Transactions, Processes, TypeOK
<1>2. Rows
  BY DEF RowsFit, Transactions, Processes, Rows
<1> QED
  BY <1>1, <1>2 DEF RowsFit, Transactions, Processes, IInv
---------------------------------------------------------------------------
(* Steps *)

\* What the heartbeat writes is the row that is there, or it is not alone; then
\* it may be an older one, which is still one of the attempt's rows.
LEMMA HeartbeatKeeps ==
  ASSUME IInv, HeartbeatWrites, UNCHANGED serialized
  PROVE  RowsFit'
<1> DEFINE row == open["control"].row
<1>1. row \in AttemptRow /\ Low(row)
  BY DEF HeartbeatWrites, IInv, TypeOK, Rows
<1>2. CASE row.status \in ActiveAttempt
  <2>1. attempt' = [row EXCEPT !.lapsed = FALSE] /\ job' = job
    BY <1>2 DEF HeartbeatWrites
  <2>2. attempt' \in AttemptRow /\ attempt'.status = row.status /\ attempt'.seq = row.seq
    BY <1>1, <2>1 DEF AttemptRow
  <2>3. serialized => row.status = attempt.status
    BY DEF HeartbeatWrites, IInv, Alone
  <2> QED
    BY <1>1, <2>1, <2>2, <2>3 DEF Low, IInv, TypeOK, EndTogether, RowsFit
<1>3. CASE row.status \notin ActiveAttempt
  <2>1. UNCHANGED <<attempt, job>>
    BY <1>3 DEF HeartbeatWrites
  <2> QED
    BY <2>1 DEF IInv, TypeOK, Rows, EndTogether, RowsFit
<1> QED
  BY <1>2, <1>3

\* The invariant is kept by every step.
LEMMA Step == IInv /\ [Next]_vars => IInv'
<1> SUFFICES ASSUME IInv, [Next]_vars PROVE RowsFit' /\ Transactions' /\ Processes'
  <2> SUFFICES ASSUME RowsFit', Transactions', Processes' PROVE IInv'
    OBVIOUS
  <2>1. TypeOK'
    BY DEF RowsFit, Transactions, Processes, TypeOK
  <2>2. Rows'
    BY DEF RowsFit, Transactions, Processes, Rows
  <2> QED
    BY <2>1, <2>2 DEF RowsFit, Transactions, Processes, IInv
<1>0. /\ attempt \in AttemptRow /\ worker \in Stages /\ found \in 0..3
      /\ result \in {"none"} \cup TerminalAttempt /\ serialized \in BOOLEAN
      /\ Reported
  BY DEF IInv, TypeOK, Rows
<1>1. CASE UNCHANGED vars
  <2>1. UNCHANGED <<attempt, job, worker, result, found, open, serialized>>
    BY <1>1 DEF vars
  <2> QED
    BY <1>0, <2>1, StayKeeps, LeaseKeeps DEF Processes, Reported
<1>2. CASE WorkerReads /\ UNCHANGED serialized
  <2>1. Transactions'
    <3>1. /\ EventOf(worker).seq \in 0..4 /\ EventOf(worker).status \in AttemptStatus
          /\ Low([seq |-> EventOf(worker).seq, status |-> EventOf(worker).status])
      BY <1>2, EventFits DEF WorkerReads, Low
    <3> QED
      BY <1>2, <3>1, BeginKeeps DEF WorkerReads, Actors
  <2>2. UNCHANGED <<attempt, job, worker, result, found, serialized>>
    BY <1>2 DEF WorkerReads
  <2> QED
    BY <1>0, <2>1, <2>2, LeaseKeeps DEF Processes, Reported
<1>3. CASE WorkerRecords /\ UNCHANGED serialized
  <2>1. Transactions'
    BY <1>3, EndKeeps, "worker" \in {"worker"}, {"worker"} \in SUBSET Actors
    DEF WorkerRecords, End, Actors
  <2>2. RowsFit'
    BY <1>3, RecordKeeps DEF WorkerRecords
  <2>3. worker' \in Stages /\ worker' # "report"
    BY <1>3 DEF WorkerRecords, AfterRecord, Stages
  <2> QED
    BY <1>0, <1>3, <2>1, <2>2, <2>3 DEF WorkerRecords, Processes, Reported
<1>4. CASE Materialize /\ UNCHANGED serialized
  BY <1>0, <1>4, StayKeeps, LeaseKeeps DEF Materialize, Processes, Reported, Stages
<1>5. CASE RunEnds /\ UNCHANGED serialized
  <2>1. result' \in TerminalAttempt /\ result' # "none" /\ worker' = "report"
    BY <1>5 DEF RunEnds, TerminalAttempt
  <2> QED
    BY <1>0, <1>5, <2>1, StayKeeps, LeaseKeeps
    DEF RunEnds, Processes, Reported, Stages
<1>6. CASE Crash /\ UNCHANGED serialized
  <2>1. Transactions'
    BY <1>6, EndKeeps, {"worker", "control"} \in SUBSET Actors DEF Crash, Actors
  <2> QED
    BY <1>0, <1>6, <2>1, LeaseKeeps DEF Crash, Processes, Reported, Stages
<1>7. CASE HeartbeatReads /\ UNCHANGED serialized
  <2>1. attempt.seq \in 0..4 /\ attempt.status \in AttemptStatus
    BY <1>0 DEF AttemptRow
  <2>2. Transactions'
    BY <1>7, <2>1, BeginKeeps DEF HeartbeatReads, Actors
  <2>3. UNCHANGED <<attempt, job, worker, result, found, serialized>>
    BY <1>7 DEF HeartbeatReads
  <2> QED
    BY <1>0, <2>2, <2>3, LeaseKeeps DEF Processes, Reported
<1>8. CASE HeartbeatWrites /\ UNCHANGED serialized
  <2>1. Transactions'
    BY <1>8, EndKeeps, "control" \in {"control"}, {"control"} \in SUBSET Actors
    DEF HeartbeatWrites, End, Actors
  <2>2. worker' \in Stages /\ (worker' = "report" => worker = "report")
    BY <1>0, <1>8 DEF HeartbeatWrites, HeartbeatStage, Stages
  <2>3. UNCHANGED <<result, found>>
    BY <1>8 DEF HeartbeatWrites
  <2> QED
    BY <1>0, <1>8, <2>1, <2>2, <2>3, HeartbeatKeeps DEF Processes, Reported
<1>9. CASE LeaseLapses /\ UNCHANGED serialized
  <2>1. /\ attempt' \in AttemptRow /\ attempt'.status = attempt.status
        /\ attempt'.seq = attempt.seq
    BY <1>0, <1>9 DEF LeaseLapses, AttemptRow
  <2> QED
    BY <1>0, <1>9, <2>1, StayKeeps, LeaseKeeps DEF LeaseLapses, Processes, Reported
<1>10. CASE SweepLists /\ UNCHANGED serialized
  <2>1. attempt.status \notin TerminalAttempt
    BY <1>10 DEF SweepLists, ActiveAttempt, TerminalAttempt
  <2>2. found' \in 0..3
    BY <1>10, <2>1 DEF SweepLists, IInv, Rows, Low
  <2> QED
    BY <1>0, <1>10, <2>2, StayKeeps, LeaseKeeps DEF SweepLists, Processes, Reported
<1>11. CASE SweepReads /\ UNCHANGED serialized
  <2>1. /\ "failed" \in AttemptStatus /\ "failed" \in TerminalAttempt
        /\ found \in 0..4
    BY <1>0 DEF AttemptStatus, TerminalAttempt
  <2>2. Transactions'
    <3>1. Low([seq |-> found, status |-> "failed"])
      BY <1>0, <2>1 DEF Low
    <3> QED
      BY <1>11, <2>1, <3>1, BeginKeeps DEF SweepReads, Actors
  <2>3. UNCHANGED <<attempt, job, worker, result, serialized>> /\ found' = 0
    BY <1>11 DEF SweepReads
  <2> QED
    BY <1>0, <2>2, <2>3, LeaseKeeps DEF Processes, Reported
<1>12. CASE SweepRecords /\ UNCHANGED serialized
  <2>1. Transactions'
    BY <1>12, EndKeeps, "sweep" \in {"sweep"}, {"sweep"} \in SUBSET Actors
    DEF SweepRecords, End, Actors
  <2>2. RowsFit'
    BY <1>12, RecordKeeps DEF SweepRecords
  <2> QED
    BY <1>0, <1>12, <2>1, <2>2 DEF SweepRecords, Processes, Reported
<1>13. CASE Cancel /\ UNCHANGED serialized
  <2>1. RowsFit'
    BY <1>0, <1>13 DEF Cancel, IInv, Rows, EndTogether, RowsFit, TerminalAttempt, TerminalJob
  <2> QED
    BY <1>0, <1>13, <2>1, StayKeeps DEF Cancel, Processes, Reported
<1> QED
  BY <1>1, <1>2, <1>3, <1>4, <1>5, <1>6, <1>7, <1>8, <1>9, <1>10, <1>11, <1>12, <1>13
  DEF Next
---------------------------------------------------------------------------
(* Theorems *)

\* The rows fit together whatever order reads, writes, crashes and cancellations
\* come in.
THEOREM Invariance == Spec => []IInv
<1>1. Init => IInv
  <2> SUFFICES ASSUME Init PROVE IInv
    OBVIOUS
  <2>1. attempt = [status |-> "queued", seq |-> 0, lapsed |-> FALSE] /\ DOMAIN open = {}
    BY DEF Init
  <2>2. RowsFit
    BY <2>1 DEF Init, RowsFit, AttemptRow, AttemptStatus, ActiveAttempt, TerminalAttempt,
                TerminalJob, Low, EndTogether
  <2>3. Transactions /\ Processes
    BY <2>1 DEF Init, Transactions, Alone, Processes, Reported, Stages
  <2> QED
    BY <2>2, <2>3, Parts
<1> QED
  BY <1>1, Step, PTL DEF Spec

\* The types are right in every interleaving.
THEOREM TypeCorrect == Spec => []TypeOK
<1>1. IInv => TypeOK
  BY DEF IInv
<1> QED
  BY <1>1, Invariance, PTL

\* A lock on the attempt is all that is missing for the attempt and its job to
\* end together and alike.
THEOREM EndsAgree == Spec => []EndTogether
<1>1. IInv => EndTogether
  BY DEF IInv
<1> QED
  BY <1>1, Invariance, PTL

\* Without that lock the job still gets one outcome, and never a success while it
\* is being cancelled: only RecordEvent and Cancel write it, by its table of moves.
THEOREM OutcomesAreKept == Spec => OutcomeKept
<1>1. IInv /\ [Next]_vars =>
        [/\ job \in TerminalJob => job' = job
         /\ job = "cancelling" => job' # "succeeded"]_vars
  <2> SUFFICES ASSUME IInv, Next PROVE /\ job \in TerminalJob => job' = job
                                       /\ job = "cancelling" => job' # "succeeded"
    BY DEF vars
  <2>1. ASSUME NEW x \in DOMAIN open, RecordEvent(open[x])
        PROVE  /\ job \in TerminalJob => job' = job
               /\ job = "cancelling" => job' # "succeeded"
    BY <2>1, AcceptedMoves DEF IInv, RecordEvent
  <2>2. CASE WorkerRecords
    BY <2>1, <2>2 DEF WorkerRecords
  <2>3. CASE SweepRecords
    BY <2>1, <2>3 DEF SweepRecords
  <2>4. CASE Cancel
    BY <2>4 DEF Cancel, TerminalJob
  <2>5. CASE UNCHANGED job
    BY <2>5
  <2> QED
    BY <2>2, <2>3, <2>4, <2>5
    DEF Next, WorkerReads, Materialize, RunEnds, Crash, HeartbeatReads, HeartbeatWrites,
        LeaseLapses, SweepLists, SweepReads
<1> QED
  BY <1>1, Invariance, PTL DEF Spec, OutcomeKept

\* With that lock no execution starts for an attempt that has ended: the row that
\* the first heartbeat read is the row when it answers.
THEOREM NoneStartsLate == Spec => NoLateStart
<1>1. IInv /\ [Next]_vars =>
        [serialized /\ worker' = "run" /\ worker # "run" => attempt.status \in ActiveAttempt]_vars
  <2> SUFFICES ASSUME IInv, Next, serialized, worker' = "run", worker # "run"
               PROVE  attempt.status \in ActiveAttempt
    BY DEF vars
  <2>1. HeartbeatWrites
    BY DEF Next, WorkerReads, WorkerRecords, AfterRecord, Materialize, RunEnds, Crash,
           HeartbeatReads, LeaseLapses, SweepLists, SweepReads, SweepRecords, Cancel
  <2>2. open["control"].row.status \in ActiveAttempt
    BY <2>1 DEF HeartbeatWrites, HeartbeatStage
  <2> QED
    BY <2>1, <2>2 DEF HeartbeatWrites, IInv, Alone
<1> QED
  BY <1>1, Invariance, PTL DEF Spec, NoLateStart
=============================================================================
