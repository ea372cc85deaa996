------------------------- MODULE ControlPlaneProofs -------------------------
(* Proofs about ControlPlane, for every job graph, fleet and number of     *)
(* attempts, and whether or not the unlocked transactions interleave.      *)
EXTENDS ControlPlane, FiniteSetTheorems, TLAPS

---------------------------------------------------------------------------
(* The state machines *)

\* The tables of the attempt lead to attempt statuses and a finished attempt
\* moves no more.
LEMMA AttemptMovesFacts ==
  ASSUME NEW s \in AttemptStatus
  PROVE  /\ AttemptMoves[s] \subseteq AttemptStatus
         /\ s \in TerminalAttempt => AttemptMoves[s] = {}
  BY DEF AttemptStatus, ActiveAttempt, TerminalAttempt, AttemptMoves

\* The verdict of a pipeline is one of its statuses.
LEMMA CompleteFromJobsType ==
  ASSUME NEW s \in PipelineStatus, NEW js, NEW p
  PROVE  CompleteFromJobs(s, js, p) \in PipelineStatus
  BY DEF CompleteFromJobs, AggregateResult, PipelineStatus, TerminalPipeline

\* Releasing the blocked jobs keeps every job in its type.
LEMMA ReleaseType ==
  ASSUME NEW js \in [Jobs -> JobStatus], NEW p, NEW v \in Verdicts
  PROVE  Release(js, p, v) \in [Jobs -> JobStatus]
  BY DEF Release, Verdicts, JobStatus, TerminalJob

\* What an event that RecordRunnerEvent commits does to the durable state,
\* whatever row it was computed from; an event computed from the row as it is,
\* or one that ends the attempt, brings no ended attempt back.  Only the worker
\* of a local attempt may record something else.
LEMMA ApplyEventFacts ==
  ASSUME TypeOK, JobGraphAssumption,
         NEW a \in DOMAIN attempt, NEW read \in AttemptRecord,
         NEW seq \in Nat, NEW status \in AttemptStatus,
         read = attempt[a] \/ status \in TerminalAttempt \/ attempt[a].runner = Local,
         ApplyEvent(a, read, seq, status)
  PROVE  /\ pipeline' \in [Pipelines -> PipelineStatus]
         /\ job' \in [Jobs -> JobStatus]
         /\ attempt' \in [DOMAIN attempt -> AttemptRecord]
         /\ expired' \subseteq DOMAIN attempt
         /\ \/ attempt[a].status \in ActiveAttempt \/ status \notin ActiveAttempt
            \/ attempt[a].runner = Local
         /\ attempt'[a].status = status
         /\ \A b \in DOMAIN attempt :
              /\ attempt'[b].runner = attempt[b].runner
              /\ attempt'[b].job = attempt[b].job
              /\ attempt'[b].number = attempt[b].number
              /\ b # a => attempt'[b] = attempt[b]
<1>1. attempt[a] \in AttemptRecord
  BY DEF TypeOK
<1>2. attempt' = [attempt EXCEPT ![a] = [@ EXCEPT !.status = status, !.seq = seq]]
  BY DEF ApplyEvent
<1>3. attempt' \in [DOMAIN attempt -> AttemptRecord]
  BY <1>1, <1>2 DEF TypeOK, AttemptRecord
<1>4. /\ attempt'[a].status = status
      /\ \A b \in DOMAIN attempt :
           /\ attempt'[b].runner = attempt[b].runner
           /\ attempt'[b].job = attempt[b].job
           /\ attempt'[b].number = attempt[b].number
           /\ b # a => attempt'[b] = attempt[b]
  BY <1>1, <1>2 DEF TypeOK, AttemptRecord
<1>5. \/ attempt[a].status \in ActiveAttempt \/ status \notin ActiveAttempt
      \/ attempt[a].runner = Local
  <2>1. CASE status \in TerminalAttempt
    BY <2>1 DEF TerminalAttempt, ActiveAttempt
  <2>2. CASE read = attempt[a]
    <3>1. status \in AttemptMoves[attempt[a].status]
      BY <2>2 DEF ApplyEvent, CanApply, Records
    <3>2. attempt[a].status \in AttemptStatus
      BY <1>1 DEF AttemptRecord
    <3> QED
      BY <3>1, <3>2, AttemptMovesFacts DEF AttemptStatus
  <2> QED
    BY <2>1, <2>2
<1>6. expired' \subseteq DOMAIN attempt
  BY DEF ApplyEvent, TypeOK
<1> DEFINE ended == IF status \in TerminalAttempt
                    THEN [job EXCEPT ![attempt[a].job] = status] ELSE job
<1>7. ended \in [Jobs -> JobStatus]
  BY DEF TypeOK, JobStatus, TerminalJob, TerminalAttempt
<1>8. job' \in [Jobs -> JobStatus]
  <2>1. PICK v \in Verdicts : job' = Release(ended, PipelineOf[attempt[a].job], v)
    BY DEF ApplyEvent
  <2> QED
    BY <1>7, <2>1, ReleaseType
<1>9. pipeline' \in [Pipelines -> PipelineStatus]
  <2> DEFINE p == PipelineOf[attempt[a].job]
  <2>1. p \in Pipelines
    BY <1>1 DEF AttemptRecord, JobGraphAssumption
  <2>2. pipeline' = [pipeline EXCEPT ![p] = CompleteFromJobs(pipeline[p], job', p)]
    BY DEF ApplyEvent
  <2>3. CompleteFromJobs(pipeline[p], job', p) \in PipelineStatus
    BY <2>1, CompleteFromJobsType DEF TypeOK
  <2> QED
    BY <2>1, <2>2, <2>3 DEF TypeOK
<1> QED
  BY <1>3, <1>4, <1>5, <1>6, <1>8, <1>9

---------------------------------------------------------------------------
(* Type correctness *)

\* What an unlocked transaction is about to write is a request.
LEMMA RequestTypes ==
  ASSUME TypeOK, JobGraphAssumption
  PROVE  /\ \A p \in Pipelines :
              IsRequest([pipeline |-> p, to |-> QueuedStatus(pipeline[p]), writes |-> << >>])
         /\ \A p \in Pipelines :
              IsRequest([pipeline |-> p, to |-> RequestCancellation(pipeline[p]),
                         writes |-> CancelWrites(p)])
         /\ \A j \in Jobs :
              IsRequest([pipeline |-> PipelineOf[j], to |-> "running",
                         writes |-> [k \in {j} |-> "queued"]])
         /\ \A j \in Jobs : \A producers \in SUBSET Needs[j] :
              IsRequest([pipeline |-> PipelineOf[j], to |-> "running",
                         writes |-> RerunWrites(j, producers)])
<1>1. \A p \in Pipelines :
        IsRequest([pipeline |-> p, to |-> QueuedStatus(pipeline[p]), writes |-> << >>])
  BY DEF IsRequest, QueuedStatus, PipelineStatus, TypeOK
<1>2. ASSUME NEW p \in Pipelines
      PROVE  IsRequest([pipeline |-> p, to |-> RequestCancellation(pipeline[p]),
                        writes |-> CancelWrites(p)])
  <2>1. /\ DOMAIN CancelWrites(p) \subseteq Jobs
        /\ CancelWrites(p) \in [DOMAIN CancelWrites(p) -> JobStatus]
    BY DEF CancelWrites, CancellationTarget, JobsOf, JobStatus, OwnedJob, TerminalJob
  <2>2. RequestCancellation(pipeline[p]) \in PipelineStatus
    BY DEF RequestCancellation, PipelineStatus, TerminalPipeline
  <2> QED
    BY <2>1, <2>2 DEF IsRequest
<1>3. \A j \in Jobs : IsRequest([pipeline |-> PipelineOf[j], to |-> "running",
                                 writes |-> [k \in {j} |-> "queued"]])
  BY DEF IsRequest, PipelineStatus, JobStatus, JobGraphAssumption
<1>4. ASSUME NEW j \in Jobs, NEW producers \in SUBSET Needs[j]
      PROVE  IsRequest([pipeline |-> PipelineOf[j], to |-> "running",
                        writes |-> RerunWrites(j, producers)])
  <2>1. /\ DOMAIN RerunWrites(j, producers) \subseteq Jobs
        /\ RerunWrites(j, producers) \in [DOMAIN RerunWrites(j, producers) -> JobStatus]
    BY DEF RerunWrites, JobStatus, JobGraphAssumption
  <2> QED
    BY <2>1 DEF IsRequest, PipelineStatus, JobGraphAssumption
<1> QED
  BY <1>1, <1>2, <1>3, <1>4

\* Opening a transaction with a well-formed request keeps the types.
LEMMA OpenType ==
  ASSUME TypeOK, NEW c \in Clients, NEW p, NEW to, NEW writes,
         IsRequest([pipeline |-> p, to |-> to, writes |-> writes]),
         Open(c, p, to, writes)
  PROVE  TypeOK'
  BY DEF Open, TypeOK, IsRequest, execution

\* What a claim adds to the table of attempts.
ClaimAdds(o, j, a) ==
  /\ attempt' \in [DOMAIN attempt' -> AttemptRecord]
  /\ DOMAIN attempt' \subseteq Attempts
  /\ pipeline' \in [Pipelines -> PipelineStatus]
  /\ job' \in [Jobs -> JobStatus]
  /\ a \notin DOMAIN attempt
  /\ DOMAIN attempt' = DOMAIN attempt \cup {a}
  /\ \A b \in DOMAIN attempt : attempt'[b] = attempt[b]
  /\ attempt'[a].status = "queued"
  /\ attempt'[a].runner = o
  /\ attempt'[a].job = j

LEMMA ClaimFacts ==
  ASSUME TypeOK, JobGraphAssumption, IsFiniteSet(DOMAIN attempt),
         NEW o \in Owners, NEW j \in Jobs, NEW a \in Attempts, ClaimNextJob(o, j, a)
  PROVE  ClaimAdds(o, j, a)
<1> DEFINE new == [status |-> "queued", job |-> j, runner |-> o,
                   number |-> Cardinality(AttemptsOf(j)) + 1, seq |-> 0]
<1>1. new \in AttemptRecord
  <2>1. IsFiniteSet(AttemptsOf(j))
    BY FS_Subset DEF AttemptsOf
  <2>2. Cardinality(AttemptsOf(j)) \in Nat
    BY <2>1, FS_CardinalityType
  <2> QED
    BY <2>2 DEF AttemptRecord, AttemptStatus, ActiveAttempt
<1>2. attempt' = [b \in DOMAIN attempt \cup {a} |-> IF b = a THEN new ELSE attempt[b]]
  BY DEF ClaimNextJob
<1> HIDE DEF new
<1>3. /\ attempt' \in [DOMAIN attempt \cup {a} -> AttemptRecord]
      /\ DOMAIN attempt' = DOMAIN attempt \cup {a}
      /\ DOMAIN attempt' \subseteq Attempts
  BY <1>1, <1>2 DEF TypeOK
<1>4. /\ pipeline' \in [Pipelines -> PipelineStatus]
      /\ job' \in [Jobs -> JobStatus]
  BY DEF ClaimNextJob, TypeOK, JobGraphAssumption, PipelineStatus, JobStatus, OwnedJob
<1>6. a \notin DOMAIN attempt
  BY DEF ClaimNextJob
<1>7. attempt'[a] = new /\ \A b \in DOMAIN attempt : attempt'[b] = attempt[b]
  BY <1>2, <1>6
<1> QED
  BY <1>3, <1>4, <1>6, <1>7 DEF new, ClaimAdds

\* A worker executes only local attempts, and what its open transaction read
\* is an earlier state of the same attempt.
Owned ==
  /\ \A a \in DOMAIN worker : attempt[a].runner = Local
  /\ \A a \in DOMAIN local :
       /\ local[a].row.runner = attempt[a].runner
       /\ local[a].row.job = attempt[a].job
       /\ local[a].row.number = attempt[a].number

\* A claim for a remote runner or for the control plane keeps the types.
LEMMA ClaimType ==
  ASSUME TypeOK, Owned, JobGraphAssumption, IsFiniteSet(DOMAIN attempt),
         NEW o \in Owners, NEW j \in Jobs, NEW a \in Attempts, ClaimNextJob(o, j, a),
         UNCHANGED execution \/ ClaimLocal(j, a)
  PROVE  TypeOK' /\ Owned'
<1>1. /\ attempt' \in [DOMAIN attempt' -> AttemptRecord]
      /\ DOMAIN attempt' \subseteq Attempts
      /\ pipeline' \in [Pipelines -> PipelineStatus]
      /\ job' \in [Jobs -> JobStatus]
      /\ a \notin DOMAIN attempt
      /\ DOMAIN attempt' = DOMAIN attempt \cup {a}
      /\ \A b \in DOMAIN attempt : attempt'[b] = attempt[b]
      /\ attempt'[a].runner = o
  <2>1. ClaimAdds(o, j, a)
    BY ClaimFacts
  <2> QED
    BY <2>1 DEF ClaimAdds
<1>2. UNCHANGED <<expired, seen, admin, sweep, found, request>>
  BY DEF ClaimNextJob
<1>3. DOMAIN local \subseteq DOMAIN worker /\ DOMAIN worker \subseteq DOMAIN attempt
  BY DEF TypeOK
<1>4. /\ DOMAIN worker' \subseteq DOMAIN attempt'
      /\ worker' \in [DOMAIN worker' -> Stages]
      /\ local' = local
      /\ DOMAIN worker \subseteq DOMAIN worker'
      /\ \A b \in DOMAIN worker' : attempt'[b].runner = Local
  <2>1. CASE UNCHANGED execution
    BY <1>1, <1>3, <2>1 DEF execution, TypeOK, Owned
  <2>2. CASE ClaimLocal(j, a)
    <3>1. /\ worker' = [b \in DOMAIN worker \cup {a} |->
                          IF b = a THEN "claimed" ELSE worker[b]]
          /\ local' = local
          /\ ClaimNextJob(Local, j, a)
      BY <2>2 DEF ClaimLocal
    <3>2. attempt'[a].runner = Local
      <4>1. Local \in Owners
        BY DEF Owners
      <4>2. ClaimAdds(Local, j, a)
        BY <3>1, <4>1, ClaimFacts
      <4> QED
        BY <4>2 DEF ClaimAdds
    <3>3. worker' \in [DOMAIN worker \cup {a} -> Stages]
      BY <3>1 DEF TypeOK, Stages
    <3> QED
      BY <1>1, <1>3, <3>1, <3>2, <3>3 DEF Owned
  <2> QED
    BY <2>1, <2>2
<1>5. TypeOK'
  BY <1>1, <1>2, <1>3, <1>4 DEF TypeOK, IsRequest
<1>6. Owned'
  BY <1>1, <1>3, <1>4 DEF Owned
<1> QED
  BY <1>5, <1>6

\* What the invariants need to know of a step that is not a claim: which
\* attempts exist, who owns them and that none of a remote runner comes back.
AttemptsOnlyEnd ==
  /\ DOMAIN attempt' = DOMAIN attempt
  /\ \A b \in DOMAIN attempt :
       /\ attempt'[b].runner = attempt[b].runner
       /\ attempt'[b].job = attempt[b].job
       /\ attempt'[b].number = attempt[b].number
       /\ attempt[b].runner \in Runners /\ attempt'[b].status \in ActiveAttempt
            => attempt[b].status \in ActiveAttempt

\* What a step that opens no local transaction does to the workers.
WorkersGoOn ==
  /\ DOMAIN worker' \subseteq DOMAIN worker
  /\ worker' \in [DOMAIN worker' -> Stages]
  /\ DOMAIN local' \subseteq DOMAIN worker' \cap DOMAIN local
  /\ local' \in [DOMAIN local' -> LocalTransaction]
  /\ \A b \in DOMAIN local' : local'[b] = local[b]

\* What every step but a claim keeps.
Kept == TypeOK' /\ Owned' /\ AttemptsOnlyEnd

LEMMA WorkersUnchanged ==
  ASSUME TypeOK, UNCHANGED execution
  PROVE  WorkersGoOn
  BY DEF TypeOK, WorkersGoOn, execution

LEMMA GoesOnFacts ==
  ASSUME TypeOK, NEW a \in DOMAIN worker, NEW stage, GoesOn(a, stage)
  PROVE  WorkersGoOn
<1>1. /\ worker' = [b \in {c \in DOMAIN worker \cup {a} : c # a \/ stage \in Stages} |->
                       IF b = a THEN stage ELSE worker[b]]
      /\ local' = [b \in DOMAIN local \ {a} |-> local[b]]
  BY DEF GoesOn
<1>2. /\ worker \in [DOMAIN worker -> Stages]
      /\ local \in [DOMAIN local -> LocalTransaction]
      /\ DOMAIN local \subseteq DOMAIN worker
  BY DEF TypeOK
<1>3. DOMAIN worker' \subseteq DOMAIN worker /\ worker' \in [DOMAIN worker' -> Stages]
  BY <1>1, <1>2
<1>4. /\ DOMAIN local' \subseteq DOMAIN worker' \cap DOMAIN local
      /\ local' \in [DOMAIN local' -> LocalTransaction]
      /\ \A b \in DOMAIN local' : local'[b] = local[b]
  BY <1>1, <1>2
<1> QED
  BY <1>3, <1>4 DEF WorkersGoOn

LEMMA OwnedStep ==
  ASSUME TypeOK, Owned, AttemptsOnlyEnd, WorkersGoOn
  PROVE  Owned'
  BY DEF TypeOK, Owned, AttemptsOnlyEnd, WorkersGoOn

\* A step that leaves the attempts and their execution alone.
LEMMA QuietStep ==
  ASSUME TypeOK, Owned, TypeOK', UNCHANGED <<attempt, execution>>
  PROVE  Kept
  BY WorkersUnchanged, OwnedStep DEF Kept, AttemptsOnlyEnd

\* A committed event keeps the types and brings no remote attempt back.
LEMMA EventStep ==
  ASSUME TypeOK, Owned, JobGraphAssumption, ControlPlaneAssumption,
         NEW a \in DOMAIN attempt, NEW read \in AttemptRecord,
         NEW seq \in Nat, NEW status \in AttemptStatus,
         read = attempt[a] \/ status \in TerminalAttempt \/ attempt[a].runner = Local,
         ApplyEvent(a, read, seq, status), UNCHANGED <<seen, admin, request>>,
         sweep' \subseteq sweep, found' = found \/ found' = << >>, WorkersGoOn
  PROVE  Kept
<1>1. /\ pipeline' \in [Pipelines -> PipelineStatus]
      /\ job' \in [Jobs -> JobStatus]
      /\ attempt' \in [DOMAIN attempt -> AttemptRecord]
      /\ expired' \subseteq DOMAIN attempt
  BY ApplyEventFacts
<1>2. DOMAIN found' \subseteq DOMAIN attempt /\ found' \in [DOMAIN found' -> AttemptRecord]
  <2>1. CASE found' = found
    BY <2>1 DEF TypeOK
  <2>2. CASE found' = << >>
    <3>1. DOMAIN found' = {}
      BY <2>2
    <3>2. found' \in [{} -> AttemptRecord]
      BY <2>2
    <3> QED
      BY <3>1, <3>2
  <2> QED
    BY <2>1, <2>2
<1>3. TypeOK'
  BY <1>1, <1>2 DEF TypeOK, IsRequest, WorkersGoOn
<1>4. AttemptsOnlyEnd
  <2>1. DOMAIN attempt' = DOMAIN attempt
    BY <1>1
  <2>2. Local \notin Runners
    BY DEF ControlPlaneAssumption
  <2> QED
    BY <2>1, <2>2, ApplyEventFacts DEF AttemptsOnlyEnd
<1> QED
  BY <1>3, <1>4, OwnedStep DEF Kept

\* Reading a local attempt for an event or for its heartbeat.
LEMMA LocalReadsStep ==
  ASSUME TypeOK, Owned, NEW a \in Attempts, LocalReads(a)
  PROVE  Kept
<1>1. a \in DOMAIN worker /\ a \in DOMAIN attempt /\ worker[a] \in Stages
  BY DEF LocalReads, TypeOK
<1>2. attempt[a] \in AttemptRecord /\ attempt[a].status \in AttemptStatus
  BY <1>1 DEF TypeOK, AttemptRecord
<1>3. PICK e \in LocalEvents[worker[a]] \cup
                 IF worker[a] \in Renews
                 THEN {[seq |-> 0, status |-> attempt[a].status]} ELSE {} :
        local' = [b \in DOMAIN local \cup {a} |->
                    IF b = a THEN [row |-> attempt[a], seq |-> e.seq, status |-> e.status]
                    ELSE local[b]]
  BY DEF LocalReads
<1>4. e.seq \in Nat /\ e.status \in AttemptStatus
  <2>1. CASE e \in LocalEvents[worker[a]]
    BY <1>1, <2>1 DEF LocalEvents, Stages, AttemptStatus, ActiveAttempt, TerminalAttempt
  <2>2. CASE e = [seq |-> 0, status |-> attempt[a].status]
    BY <1>2, <2>2
  <2> QED
    BY <1>3, <2>1, <2>2
<1>5. local' \in [DOMAIN local \cup {a} -> LocalTransaction]
  BY <1>2, <1>3, <1>4 DEF TypeOK, LocalTransaction
<1>6. UNCHANGED <<pipeline, job, attempt, expired, seen, admin, sweep, found, request, worker>>
  BY DEF LocalReads
<1>7. TypeOK'
  BY <1>1, <1>5, <1>6 DEF TypeOK, IsRequest
<1>8. Owned'
  BY <1>1, <1>3, <1>6 DEF Owned
<1> QED
  BY <1>6, <1>7, <1>8 DEF Kept, AttemptsOnlyEnd

\* Recording a local event, or finding it repeated or refused.
LEMMA LocalRecordsStep ==
  ASSUME TypeOK, Owned, JobGraphAssumption, ControlPlaneAssumption,
         NEW a \in DOMAIN local, LocalRecords(a),
         UNCHANGED <<seen, admin, sweep, found, request>>
  PROVE  Kept
<1>1. /\ a \in DOMAIN worker /\ a \in DOMAIN attempt
      /\ local[a] \in LocalTransaction
  BY DEF TypeOK
<1>2. attempt[a].runner = Local
  BY <1>1 DEF Owned
<1>3. CASE /\ ApplyEvent(a, local[a].row, local[a].seq, local[a].status)
           /\ GoesOn(a, AfterRecord(worker[a], local[a].status, TRUE))
  <2>1. WorkersGoOn
    <3>1. \E stage : GoesOn(a, stage)
      BY <1>3, Zenon
    <3> QED
      BY <1>1, <3>1, GoesOnFacts
  <2>2. /\ local[a].row \in AttemptRecord
        /\ local[a].seq \in Nat
        /\ local[a].status \in AttemptStatus
    BY <1>1 DEF LocalTransaction
  <2> QED
    BY <1>1, <1>2, <1>3, <2>1, <2>2, EventStep
<1>4. CASE /\ GoesOn(a, AfterRecord(worker[a], local[a].status,
                                    local[a].seq <= local[a].row.seq))
           /\ UNCHANGED <<pipeline, job, attempt, expired>>
  <2>1. WorkersGoOn
    BY <1>1, <1>4, GoesOnFacts
  <2>2. TypeOK'
    BY <1>4, <2>1 DEF TypeOK, IsRequest, WorkersGoOn
  <2>3. AttemptsOnlyEnd
    BY <1>4 DEF AttemptsOnlyEnd
  <2> QED
    BY <2>1, <2>2, <2>3, OwnedStep DEF Kept
<1> QED
  BY <1>3, <1>4 DEF LocalRecords

\* A heartbeat writes an earlier state of its own local attempt.
LEMMA LocalRenewsStep ==
  ASSUME TypeOK, Owned, ControlPlaneAssumption, NEW a \in DOMAIN local, LocalRenews(a),
         UNCHANGED <<seen, admin, sweep, found, request>>
  PROVE  Kept
<1>1. /\ a \in DOMAIN worker /\ a \in DOMAIN attempt
      /\ local[a].row \in AttemptRecord
  BY DEF TypeOK, LocalTransaction
<1>2. /\ attempt[a].runner = Local
      /\ local[a].row.runner = attempt[a].runner
      /\ local[a].row.job = attempt[a].job
      /\ local[a].row.number = attempt[a].number
  BY <1>1 DEF Owned
<1>3. attempt' = attempt \/ attempt' = [attempt EXCEPT ![a] = local[a].row]
  BY DEF LocalRenews
<1>4. AttemptsOnlyEnd
  <2>1. Local \notin Runners
    BY DEF ControlPlaneAssumption
  <2> QED
    BY <1>1, <1>2, <1>3, <2>1 DEF AttemptsOnlyEnd, TypeOK
<1>5. WorkersGoOn
  BY <1>1, GoesOnFacts DEF LocalRenews
<1>6. attempt' \in [DOMAIN attempt -> AttemptRecord] /\ DOMAIN attempt' = DOMAIN attempt
  BY <1>1, <1>3 DEF TypeOK
<1>7. expired' \subseteq DOMAIN attempt /\ UNCHANGED <<pipeline, job>>
  BY DEF LocalRenews, TypeOK
<1>8. TypeOK'
  BY <1>5, <1>6, <1>7 DEF TypeOK, IsRequest, WorkersGoOn
<1> QED
  BY <1>4, <1>5, <1>8, OwnedStep DEF Kept

\* The worker of a local attempt dies.
LEMMA LocalCrashStep ==
  ASSUME TypeOK, Owned, NEW a, LocalCrash(a)
  PROVE  Kept
<1>1. WorkersGoOn
  BY GoesOnFacts DEF LocalCrash
<1>2. TypeOK'
  BY <1>1 DEF LocalCrash, TypeOK, IsRequest, WorkersGoOn
<1>3. AttemptsOnlyEnd
  BY DEF LocalCrash, AttemptsOnlyEnd
<1> QED
  BY <1>1, <1>2, <1>3, OwnedStep DEF Kept

\* A claim: for a remote runner only when it has no active attempt.
ClaimedFor(o, j, a) ==
  /\ ClaimNextJob(o, j, a)
  /\ o \in Runners => RunnerFree(o)

\* Every step but a claim keeps the types and brings no remote attempt back.
LEMMA TypeStep ==
  ASSUME TypeOK, Owned, JobGraphAssumption, ControlPlaneAssumption,
         IsFiniteSet(DOMAIN attempt), [Next]_db
  PROVE  \/ Kept
         \/ /\ TypeOK' /\ Owned'
            /\ \E o \in Owners, j \in Jobs, a \in Attempts : ClaimedFor(o, j, a)
<1>1. ASSUME NEW c \in Clients, UserRequest(c) PROVE Kept
  <2>1. ASSUME NEW p \in Pipelines, BeginQueue(c, p) PROVE Kept
    BY <2>1, RequestTypes, OpenType, QuietStep DEF BeginQueue, Open
  <2>2. ASSUME NEW p \in Pipelines, BeginCancel(c, p) PROVE Kept
    BY <2>2, RequestTypes, OpenType, QuietStep DEF BeginCancel, Open
  <2>3. ASSUME NEW j \in Jobs, BeginRetry(c, j) PROVE Kept
    <3>1. IsRequest([pipeline |-> PipelineOf[j], to |-> "running",
                     writes |-> [k \in {j} |-> "queued"]])
      BY RequestTypes
    <3>2. Open(c, PipelineOf[j], "running", [k \in {j} |-> "queued"])
      BY <2>3 DEF BeginRetry
    <3> QED
      BY <3>1, <3>2, OpenType, QuietStep DEF Open
  <2>4. ASSUME NEW j \in Jobs, NEW producers \in SUBSET Needs[j], BeginRerun(c, j, producers)
        PROVE  Kept
    BY <2>4, RequestTypes, OpenType, QuietStep DEF BeginRerun, Open
  <2>5. CASE Commit(c)
    <3>1. IsRequest(request[c])
      BY <2>5 DEF Commit, TypeOK
    <3>2. TypeOK'
      BY <2>5, <3>1 DEF Commit, TypeOK, IsRequest, execution
    <3> QED
      BY <2>5, <3>2, QuietStep DEF Commit
  <2> QED
    BY <1>1, <2>1, <2>2, <2>3, <2>4, <2>5 DEF UserRequest
<1>2. ASSUME NEW r \in Runners, Fleet(r)
      PROVE  \/ Kept
             \/ /\ TypeOK' /\ Owned'
                /\ \E o \in Owners, j \in Jobs, a \in Attempts : ClaimedFor(o, j, a)
  <2>1. ASSUME NEW j \in Jobs, NEW a \in Attempts, Claim(r, j, a)
        PROVE  TypeOK' /\ Owned' /\ ClaimedFor(r, j, a)
    BY <2>1, ClaimType DEF Claim, RunnerAvailable, ClaimedFor, Owners
  <2>2. CASE AnyRunnerEvent(r)
    <3>1. PICK a \in DOMAIN attempt, status \in AttemptStatus :
                 RunnerEvent(r, a, attempt[a].seq + 1, status)
      BY <2>2 DEF AnyRunnerEvent
    <3>2. attempt[a] \in AttemptRecord /\ attempt[a].seq + 1 \in Nat
      BY DEF TypeOK, AttemptRecord
    <3> QED
      BY <3>1, <3>2, EventStep, WorkersUnchanged DEF RunnerEvent
  <2>3. CASE RunnerGoesStale(r)
    BY <2>3, QuietStep DEF RunnerGoesStale, execution, TypeOK, IsRequest
  <2>4. CASE Join(r)
    BY <2>4, QuietStep DEF Join, execution, TypeOK, IsRequest
  <2>5. CASE Heartbeat(r)
    BY <2>5, QuietStep DEF Heartbeat, execution, TypeOK, IsRequest
  <2>6. ASSUME NEW state \in AdminStates, SetAdminState(r, state)
        PROVE  Kept
    BY <2>6, QuietStep DEF SetAdminState, execution, TypeOK, IsRequest, ControlPlaneAssumption
  <2>7. r \in Owners
    BY DEF Owners
  <2> QED
    BY <1>2, <2>1, <2>2, <2>3, <2>4, <2>5, <2>6, <2>7 DEF Fleet
<1>3. ASSUME NEW a \in Attempts, LeaseExpires(a) PROVE Kept
  BY <1>3, QuietStep DEF LeaseExpires, execution, ActiveAttempts, TypeOK, IsRequest
<1>4. CASE SweepRead
  <2>1. \A a \in expired : a \in DOMAIN attempt /\ attempt[a].seq + 1 \in Nat
    BY DEF TypeOK, AttemptRecord
  <2>2. sweep' = {[attempt |-> a, seq |-> attempt[a].seq + 1] : a \in expired}
    BY <1>4 DEF SweepRead
  <2>3. sweep' \subseteq [attempt : DOMAIN attempt, seq : Nat]
    BY <2>1, <2>2
  <2> QED
    BY <1>4, <2>3, QuietStep DEF SweepRead, execution, TypeOK, IsRequest
<1>5. CASE SweepOpen
  <2>1. PICK h \in sweep : found' = [a \in {h.attempt} |-> attempt[a]]
    BY <1>5 DEF SweepOpen
  <2>2. h.attempt \in DOMAIN attempt /\ attempt[h.attempt] \in AttemptRecord
    BY DEF TypeOK
  <2>3. DOMAIN found' \subseteq DOMAIN attempt /\ found' \in [DOMAIN found' -> AttemptRecord]
    BY <2>1, <2>2
  <2> QED
    BY <1>5, <2>3, QuietStep DEF SweepOpen, execution, TypeOK, IsRequest
<1>6. CASE SweepStep
  <2>1. PICK h \in sweep : /\ h.attempt \in DOMAIN found
                           /\ SweepLost(h) \/ SweepSkip(h) \/ SweepHalt(h)
    BY <1>6 DEF SweepStep
  <2>2. /\ h.attempt \in DOMAIN attempt
        /\ h.seq \in Nat
        /\ found[h.attempt] \in AttemptRecord
        /\ found' = << >>
        /\ UNCHANGED <<seen, admin, request, execution>>
    BY <1>6, <2>1 DEF TypeOK, SweepStep
  <2>3. CASE SweepLost(h)
    BY <2>2, <2>3, EventStep, WorkersUnchanged DEF SweepLost, AttemptStatus, TerminalAttempt
  <2>4. CASE SweepSkip(h) \/ SweepHalt(h)
    BY <2>2, <2>4, QuietStep DEF SweepSkip, SweepHalt, execution, TypeOK,
      IsRequest
  <2> QED
    BY <2>1, <2>3, <2>4
<1>7. CASE UNCHANGED db
  BY <1>7, QuietStep DEF db, execution, TypeOK, IsRequest
<1>8. ASSUME NEW a \in Attempts, LocalExecution(a)
      PROVE  \/ Kept
             \/ /\ TypeOK' /\ Owned'
                /\ \E o \in Owners, j \in Jobs, b \in Attempts : ClaimedFor(o, j, b)
  <2>1. ASSUME NEW j \in Jobs, ClaimLocal(j, a)
        PROVE  TypeOK' /\ Owned' /\ ClaimedFor(Local, j, a)
    BY <2>1, ClaimType DEF ClaimLocal, ClaimedFor, Owners, ControlPlaneAssumption
  <2>2. CASE LocalReads(a)
    BY <2>2, LocalReadsStep
  <2>3. CASE LocalWrites(a)
    BY <2>3, LocalRecordsStep, LocalRenewsStep DEF LocalWrites
  <2>4. CASE LocalCrash(a)
    BY <2>4, LocalCrashStep
  <2>5. Local \in Owners
    BY DEF Owners
  <2> QED
    BY <1>8, <2>1, <2>2, <2>3, <2>4, <2>5 DEF LocalExecution
<1> QED
  BY <1>1, <1>2, <1>3, <1>4, <1>5, <1>6, <1>7, <1>8 DEF Next

---------------------------------------------------------------------------
(* One active attempt per runner, limits, and ended attempts *)

\* The inductive invariant: workers execute local attempts only, and attempts
\* are finitely many, so that the counts of the capacity queries mean something.
IInv ==
  /\ TypeOK
  /\ Owned
  /\ IsFiniteSet(DOMAIN attempt)
  /\ RunnerSlot
  /\ RemoteCapacityBound

RemoteIn(p) == RemoteAttempts \cap ActiveInRepository(RepositoryOf[p])

\* With no more remote attempts than before, no limit is exceeded.
LEMMA FewerRemoteAttempts ==
  ASSUME IInv, ControlPlaneAssumption, RemoteAttempts' \subseteq RemoteAttempts,
         \A p \in Pipelines : RemoteIn(p)' \subseteq RemoteIn(p)
  PROVE  RemoteCapacityBound'
<1>1. IsFiniteSet(RemoteAttempts)
  BY FS_Subset DEF IInv, RemoteAttempts, ActiveAttempts
<1>2. Cardinality(RemoteAttempts') <= GlobalLimit
  <2>1. Cardinality(RemoteAttempts') <= Cardinality(RemoteAttempts)
    BY <1>1, FS_Subset
  <2>2. Cardinality(RemoteAttempts') \in Nat /\ Cardinality(RemoteAttempts) \in Nat
    BY <1>1, FS_Subset, FS_CardinalityType
  <2> QED
    BY <2>1, <2>2 DEF IInv, RemoteCapacityBound, ControlPlaneAssumption
<1>3. ASSUME NEW p \in Pipelines
      PROVE  Cardinality(RemoteIn(p)') <= RepositoryLimit
  <2>1. IsFiniteSet(RemoteIn(p))
    BY <1>1, FS_Subset DEF RemoteIn
  <2>2. Cardinality(RemoteIn(p)') <= Cardinality(RemoteIn(p))
    BY <2>1, FS_Subset
  <2>3. Cardinality(RemoteIn(p)') \in Nat /\ Cardinality(RemoteIn(p)) \in Nat
    BY <2>1, FS_Subset, FS_CardinalityType
  <2>4. Cardinality(RemoteIn(p)) <= RepositoryLimit
    BY DEF IInv, RemoteCapacityBound, RemoteIn
  <2> QED
    BY <2>2, <2>3, <2>4 DEF ControlPlaneAssumption
<1> QED
  BY <1>2, <1>3 DEF RemoteCapacityBound, RemoteIn

\* A step that brings no remote attempt back adds none to the active ones, so
\* it can break neither the runner's slot nor a limit.
LEMMA EndingKeepsBounds ==
  ASSUME IInv, AttemptsOnlyEnd, JobGraphAssumption, ControlPlaneAssumption
  PROVE  IsFiniteSet(DOMAIN attempt)' /\ RunnerSlot' /\ RemoteCapacityBound'
<1>1. RemoteAttempts' \subseteq RemoteAttempts
  BY DEF AttemptsOnlyEnd, RemoteAttempts, ActiveAttempts, Active
<1>2. RunnerSlot'
  <2> SUFFICES ASSUME NEW a \in ActiveAttempts', NEW b \in ActiveAttempts',
                      attempt'[a].runner \in Runners,
                      attempt'[a].runner = attempt'[b].runner
               PROVE  a = b
    BY DEF RunnerSlot
  <2>1. a \in RemoteAttempts' /\ b \in RemoteAttempts'
    BY DEF RemoteAttempts
  <2>2. a \in RemoteAttempts /\ b \in RemoteAttempts
    BY <1>1, <2>1
  <2>3. a \in ActiveAttempts /\ b \in ActiveAttempts /\ attempt[a].runner \in Runners
    BY <2>2 DEF RemoteAttempts
  <2>4. attempt[a].runner = attempt[b].runner
    BY <2>3 DEF AttemptsOnlyEnd, ActiveAttempts
  <2> QED
    BY <2>3, <2>4 DEF IInv, RunnerSlot
<1>3. ASSUME NEW p \in Pipelines PROVE RemoteIn(p)' \subseteq RemoteIn(p)
  BY <1>1 DEF RemoteIn, RemoteAttempts, ActiveInRepository, AttemptsOnlyEnd, ActiveAttempts
<1> QED
  BY <1>1, <1>2, <1>3, FewerRemoteAttempts DEF IInv, AttemptsOnlyEnd

\* A claim adds one active attempt: a runner had none, and the counts read
\* under the scheduler lock, of remote and local attempts, were below the limits.
LEMMA ClaimKeepsBounds ==
  ASSUME IInv, JobGraphAssumption, ControlPlaneAssumption,
         NEW o \in Owners, NEW j \in Jobs, NEW a \in Attempts, ClaimedFor(o, j, a)
  PROVE  IsFiniteSet(DOMAIN attempt)' /\ RunnerSlot' /\ RemoteCapacityBound'
<1>0. TypeOK /\ IsFiniteSet(DOMAIN attempt) /\ ClaimNextJob(o, j, a)
  BY DEF IInv, ClaimedFor
<1>1. /\ a \notin DOMAIN attempt
      /\ DOMAIN attempt' = DOMAIN attempt \cup {a}
      /\ \A b \in DOMAIN attempt : attempt'[b] = attempt[b]
      /\ attempt'[a].status = "queued"
      /\ attempt'[a].runner = o
      /\ attempt'[a].job = j
  <2>1. ClaimAdds(o, j, a)
    BY <1>0, ClaimFacts
  <2> QED
    BY <2>1 DEF ClaimAdds
<1>2. ActiveAttempts' = ActiveAttempts \cup {a}
  BY <1>1 DEF ActiveAttempts, Active, ActiveAttempt
<1>3. a \notin ActiveAttempts
  BY <1>1 DEF ActiveAttempts
<1>4. \A b \in ActiveAttempts : attempt'[b] = attempt[b]
  BY <1>1 DEF ActiveAttempts
<1>5. RunnerSlot'
  <2>1. \A b \in ActiveAttempts : o \in Runners => attempt[b].runner # o
    BY DEF ClaimedFor, RunnerFree
  <2> QED
    BY <1>1, <1>2, <1>4, <2>1 DEF IInv, RunnerSlot
<1>6. IsFiniteSet(DOMAIN attempt)'
  BY <1>1, FS_AddElement DEF IInv
<1>7. IsFiniteSet(ActiveAttempts) /\ Cardinality(ActiveAttempts) \in Nat
  BY FS_Subset, FS_CardinalityType DEF IInv, ActiveAttempts
<1>8. CASE o \notin Runners
  <2>1. RemoteAttempts' = RemoteAttempts
    BY <1>1, <1>2, <1>4, <1>8 DEF RemoteAttempts
  <2>2. ASSUME NEW p \in Pipelines PROVE RemoteIn(p)' \subseteq RemoteIn(p)
    BY <1>2, <1>3, <1>4, <2>1 DEF RemoteIn, ActiveInRepository, RemoteAttempts
  <2> QED
    BY <1>5, <1>6, <2>1, <2>2, FewerRemoteAttempts
<1>9. CASE o \in Runners
  <2>1. RemoteAttempts' = RemoteAttempts \cup {a} /\ a \notin RemoteAttempts
    BY <1>1, <1>2, <1>3, <1>4, <1>9 DEF RemoteAttempts
  <2>2. /\ IsFiniteSet(RemoteAttempts) /\ Cardinality(RemoteAttempts) \in Nat
        /\ Cardinality(RemoteAttempts) <= Cardinality(ActiveAttempts)
    BY <1>7, FS_Subset, FS_CardinalityType DEF RemoteAttempts
  <2>3. Cardinality(RemoteAttempts') <= GlobalLimit
    <3>1. Cardinality(RemoteAttempts') = Cardinality(RemoteAttempts) + 1
      BY <2>1, <2>2, FS_AddElement
    <3>2. Cardinality(ActiveAttempts) < GlobalLimit
      BY <1>0 DEF ClaimNextJob, Candidate, Admitted
    <3> QED
      BY <1>7, <2>2, <3>1, <3>2 DEF ControlPlaneAssumption
  <2>4. ASSUME NEW p \in Pipelines
        PROVE  Cardinality(RemoteIn(p)') <= RepositoryLimit
    <3> DEFINE repo == RepositoryOf[p]
               here == ActiveInRepository(repo)
    <3>1. /\ IsFiniteSet(here) /\ Cardinality(here) \in Nat
          /\ IsFiniteSet(RemoteIn(p)) /\ Cardinality(RemoteIn(p)) \in Nat
          /\ Cardinality(RemoteIn(p)) <= Cardinality(here)
      <4>1. IsFiniteSet(here)
        BY <1>7, FS_Subset DEF ActiveInRepository
      <4>2. RemoteIn(p) \subseteq here
        BY DEF RemoteIn
      <4> QED
        BY <4>1, <4>2, FS_Subset, FS_CardinalityType
    <3>2. CASE RepositoryOf[PipelineOf[j]] = repo
      <4>1. RemoteIn(p)' = RemoteIn(p) \cup {a} /\ a \notin RemoteIn(p)
        BY <1>1, <1>2, <1>4, <2>1, <3>2 DEF RemoteIn, ActiveInRepository, RemoteAttempts
      <4>2. Cardinality(here) < RepositoryLimit
        BY <1>0, <3>2 DEF ClaimNextJob, Candidate, Admitted
      <4>3. Cardinality(RemoteIn(p)') = Cardinality(RemoteIn(p)) + 1
        BY <3>1, <4>1, FS_AddElement
      <4> QED
        BY <3>1, <4>2, <4>3 DEF ControlPlaneAssumption
    <3>3. CASE RepositoryOf[PipelineOf[j]] # repo
      <4>1. RemoteIn(p)' = RemoteIn(p)
        BY <1>1, <1>2, <1>4, <2>1, <3>3 DEF RemoteIn, ActiveInRepository, RemoteAttempts
      <4> QED
        BY <4>1 DEF IInv, RemoteCapacityBound, RemoteIn
    <3> QED
      BY <3>2, <3>3
  <2> QED
    BY <1>5, <1>6, <2>3, <2>4 DEF RemoteCapacityBound, RemoteIn
<1> QED
  BY <1>8, <1>9

\* The inductive step of all the theorems below.
LEMMA IInvStep ==
  ASSUME IInv, JobGraphAssumption, ControlPlaneAssumption, [Next]_db
  PROVE  IInv'
<1>1. CASE Kept
  BY <1>1, EndingKeepsBounds DEF IInv, Kept
<1>2. ASSUME TypeOK', Owned', NEW o \in Owners, NEW j \in Jobs, NEW a \in Attempts,
             ClaimedFor(o, j, a)
      PROVE  IInv'
  BY <1>2, ClaimKeepsBounds DEF IInv
<1> QED
  BY <1>1, <1>2, TypeStep DEF IInv

\* The control plane starts without attempts.
LEMMA IInvInit ==
  ASSUME Init, JobGraphAssumption, ControlPlaneAssumption
  PROVE  IInv
<1>1. /\ DOMAIN attempt = {} /\ DOMAIN request = {} /\ DOMAIN found = {}
      /\ DOMAIN worker = {} /\ DOMAIN local = {}
  BY DEF Init
<1>2. TypeOK
  BY <1>1 DEF Init, TypeOK, InitialJob, JobStatus, PipelineStatus
<1>3. ActiveAttempts = {} /\ RemoteAttempts = {}
  BY <1>1 DEF ActiveAttempts, RemoteAttempts
<1>4. Cardinality({}) = 0 /\ IsFiniteSet({})
  BY FS_EmptySet
<1>5. \A p \in Pipelines : RemoteAttempts \cap ActiveInRepository(RepositoryOf[p]) = {}
  BY <1>3
<1>6. RunnerSlot
  BY <1>3 DEF RunnerSlot
<1>7. RemoteCapacityBound
  BY <1>3, <1>4, <1>5 DEF RemoteCapacityBound, ControlPlaneAssumption
<1>8. Owned
  BY <1>1 DEF Owned
<1> QED
  BY <1>1, <1>2, <1>4, <1>6, <1>7, <1>8 DEF IInv

\* The inductive invariant: the types, who executes what, finitely many
\* attempts, and the counts that a claim checks under the scheduler lock.
THEOREM Invariance == Spec => []IInv
<1>1. Init => IInv
  BY IInvInit, JobGraphAssumption, ControlPlaneAssumption
<1>2. IInv /\ [Next]_db => IInv'
  BY IInvStep, JobGraphAssumption, ControlPlaneAssumption
<1> QED
  BY <1>1, <1>2, PTL DEF Spec

\* The tables only ever hold the statuses the schemas allow.
THEOREM TypeCorrect == Spec => []TypeOK
  BY Invariance, PTL DEF IInv

\* Claims serialised by the scheduler lock never give a remote runner of
\* concurrency 1 two active attempts, whatever the unlocked transactions and
\* the stale rows of local attempts overwrite.
THEOREM RunnerSlotHolds == Spec => []RunnerSlot
  BY Invariance, PTL DEF IInv

\* Nor do the attempts of remote runners exceed the limits of the instance and
\* of its repositories, which they share with local attempts.
THEOREM RemoteCapacityHolds == Spec => []RemoteCapacityBound
  BY Invariance, PTL DEF IInv

\* A remote attempt that ended never becomes active again and keeps its job,
\* runner and number, also when the sweep writes what it computed from an older
\* row.
THEOREM EndedRemoteAttemptsAreKept == Spec => EndedRemoteAttemptsKept
<1> DEFINE StaysEnded ==
             \A a \in DOMAIN attempt : attempt[a].runner \in Runners /\ ~ Active(a) =>
               /\ a \in DOMAIN attempt' /\ ~ Active(a)'
               /\ attempt'[a].number = attempt[a].number
               /\ attempt'[a].job = attempt[a].job
               /\ attempt'[a].runner = attempt[a].runner
<1>1. IInv /\ [Next]_db => [StaysEnded]_db
  <2> SUFFICES ASSUME IInv, [Next]_db PROVE StaysEnded
    OBVIOUS
  <2>1. CASE Kept
    BY <2>1 DEF Kept, AttemptsOnlyEnd, Active
  <2>2. ASSUME NEW o \in Owners, NEW j \in Jobs, NEW a \in Attempts, ClaimedFor(o, j, a)
        PROVE  StaysEnded
    <3>1. /\ DOMAIN attempt' = DOMAIN attempt \cup {a}
          /\ \A b \in DOMAIN attempt : attempt'[b] = attempt[b]
      BY <2>2, ClaimFacts, JobGraphAssumption DEF IInv, ClaimedFor, ClaimAdds
    <3> QED
      BY <3>1 DEF Active
  <2> QED
    BY <2>1, <2>2, TypeStep, JobGraphAssumption, ControlPlaneAssumption DEF IInv
<1> QED
  BY <1>1, Invariance, PTL DEF Spec, EndedRemoteAttemptsKept
=============================================================================
