--------------------- MODULE ControlPlaneIsolatedProofs ---------------------
(* What the state machines guarantee when the transactions that read without *)
(* locks run alone (Isolated = TRUE), for every job graph, fleet and number  *)
(* of attempts.                                                              *)
EXTENDS ControlPlaneProofs

---------------------------------------------------------------------------
(* The inductive invariant *)

\* The requests that an unlocked transaction would make of the state as it is.
ToQueue(w) == \E p \in Pipelines :
  /\ pipeline[p] \in {"created", "queued", "running"}
  /\ w = [pipeline |-> p, to |-> QueuedStatus(pipeline[p]), writes |-> << >>]

ToCancel(w) == \E p \in Pipelines :
  /\ pipeline[p] \in Cancellable
  /\ w = [pipeline |-> p, to |-> RequestCancellation(pipeline[p]), writes |-> CancelWrites(p)]

ToRetry(w) == \E j \in Jobs :
  /\ \A n \in Needs[j] : job[n] = "succeeded"
  /\ pipeline[PipelineOf[j]] \in Retryable
  /\ job[j] \in {"failed", "cancelled"}
  /\ w = [pipeline |-> PipelineOf[j], to |-> "running", writes |-> [k \in {j} |-> "queued"]]

ToRerun(w) == \E j \in Jobs : \E producers \in SUBSET (Needs[j] \cap Perishable) :
  /\ producers # {}
  /\ \A n \in Needs[j] : job[n] = "succeeded"
  /\ pipeline[PipelineOf[j]] \in Retryable
  /\ job[j] \in TerminalJob
  /\ w = [pipeline |-> PipelineOf[j], to |-> "running", writes |-> RerunWrites(j, producers)]

Current(w) == ToQueue(w) \/ ToCancel(w) \/ ToRetry(w) \/ ToRerun(w)

\* One unlocked transaction at most is open, and what it read is still so.
Alone ==
  /\ DOMAIN request = {} \/ (DOMAIN found = {} /\ DOMAIN local = {})
  /\ DOMAIN found = {} \/ DOMAIN local = {}
  /\ \A c, d \in DOMAIN request : c = d
  /\ \A a, b \in DOMAIN local : a = b
  /\ \A c \in DOMAIN request : Current(request[c])
  /\ \A a \in DOMAIN found : found[a] = attempt[a]
  /\ \A a \in DOMAIN local : local[a].row = attempt[a]

\* A pipeline that was not dispatched has jobs that were not.
Unstarted ==
  \A j \in Jobs : pipeline[PipelineOf[j]] \in {"created", "queued"} =>
    job[j] \in {"blocked", "queued"}

\* The attempts of a job are numbered up to their count, and the one that is
\* active is the last.
Numbered ==
  \A a \in DOMAIN attempt :
    /\ attempt[a].number <= Cardinality(AttemptsOf(attempt[a].job))
    /\ Active(a) => attempt[a].number = Cardinality(AttemptsOf(attempt[a].job))

\* The rows, whoever writes them.
RowInv ==
  /\ Unstarted /\ Numbered
  /\ OneActiveAttempt /\ OwnedJobs
  /\ VerdictSound /\ NotStranded
  /\ NeedsEnded /\ LatestAttemptDecides

IsolatedInv == IInv /\ Alone /\ RowInv /\ CapacityBound

---------------------------------------------------------------------------
(* What a committed request does *)

\* The pipelines other than p and their jobs are left alone.
OnlyPipeline(p) ==
  /\ \A q \in Pipelines \ {p} : pipeline'[q] = pipeline[q]
  /\ \A k \in Jobs \ JobsOf(p) : job'[k] = job[k]

QueueEffect(p) ==
  /\ pipeline[p] \in {"created", "queued", "running"}
  /\ pipeline'[p] = QueuedStatus(pipeline[p])
  /\ \A k \in Jobs : job'[k] = job[k]

CancelEffect(p) ==
  /\ pipeline[p] \in Cancellable
  /\ pipeline'[p] = RequestCancellation(pipeline[p])
  /\ \A k \in JobsOf(p) :
       /\ job[k] \in {"blocked", "queued"} => job'[k] = "cancelled"
       /\ job[k] = "running" => job'[k] = "cancelling"
       /\ job[k] \notin {"blocked", "queued", "running"} => job'[k] = job[k]

\* Some jobs of a finished pipeline start again: those that are queued do not
\* depend on others that start again, and have successful needs if they are
\* what the user asked for.
RerunEffect(p) ==
  /\ pipeline[p] \in Retryable /\ pipeline'[p] = "running"
  /\ \E again \in SUBSET JobsOf(p) :
       /\ \A k \in again : job'[k] \in {"blocked", "queued"}
       /\ \A k \in JobsOf(p) \ again : job'[k] = job[k]
       /\ \E k \in again : job'[k] = "queued"
       /\ \A k \in again : job'[k] = "queued" =>
            /\ Needs[k] \cap again = {}
            /\ k \notin Perishable => \A n \in Needs[k] : job[n] = "succeeded"

\* No job needs itself, and no two jobs need each other.
LEMMA NoMutualNeeds ==
  ASSUME JobGraphAssumption, NEW j \in Jobs, NEW k \in Jobs, k \in Needs[j]
  PROVE  k # j /\ j \notin Needs[k]
<1>1. {j, k} \in SUBSET Jobs /\ {j, k} # {}
  OBVIOUS
<1>2. \E i \in {j, k} : Needs[i] \cap {j, k} = {}
  BY <1>1 DEF JobGraphAssumption
<1> QED
  BY <1>2

\* A rerun queues one of the producers at least, and what it queues waits for
\* nothing that is run again.
LEMMA RerunWritesFacts ==
  ASSUME JobGraphAssumption, NEW j \in Jobs,
         NEW producers \in SUBSET (Needs[j] \cap Perishable), producers # {}
  PROVE  /\ DOMAIN RerunWrites(j, producers) = producers \cup {j}
         /\ producers \cup {j} \subseteq JobsOf(PipelineOf[j])
         /\ \A k \in producers \cup {j} : RerunWrites(j, producers)[k] \in {"blocked", "queued"}
         /\ \E k \in producers : RerunWrites(j, producers)[k] = "queued"
         /\ \A k \in producers \cup {j} : RerunWrites(j, producers)[k] = "queued" =>
              Needs[k] \cap (producers \cup {j}) = {} /\ k \in Perishable
<1>1. producers \in SUBSET Jobs
  BY DEF JobGraphAssumption
<1>2. /\ DOMAIN RerunWrites(j, producers) = producers \cup {j}
      /\ producers \cup {j} \subseteq JobsOf(PipelineOf[j])
      /\ \A k \in producers \cup {j} : RerunWrites(j, producers)[k] \in {"blocked", "queued"}
  BY <1>1 DEF RerunWrites, JobsOf, JobGraphAssumption
<1>3. \E k \in producers : RerunWrites(j, producers)[k] = "queued"
  <2>1. PICK k \in producers : Needs[k] \cap producers = {}
    BY <1>1 DEF JobGraphAssumption
  <2>2. k # j
    BY <1>1, NoMutualNeeds
  <2> QED
    BY <2>1, <2>2 DEF RerunWrites
<1>4. ASSUME NEW k \in producers \cup {j}, RerunWrites(j, producers)[k] = "queued"
      PROVE  Needs[k] \cap (producers \cup {j}) = {} /\ k \in Perishable
  <2>1. k # j /\ k \in producers /\ Needs[k] \cap producers = {}
    BY <1>4 DEF RerunWrites
  <2>2. j \notin Needs[k]
    BY <1>1, <2>1, NoMutualNeeds
  <2> QED
    BY <2>1, <2>2
<1> QED
  BY <1>2, <1>3, <1>4

\* A transaction that ran alone has one of three effects, on one pipeline.
LEMMA CommitEffects ==
  ASSUME TypeOK, Alone, JobGraphAssumption, ControlPlaneAssumption,
         NEW c \in Clients, Commit(c)
  PROVE  \E p \in Pipelines :
           OnlyPipeline(p) /\ (QueueEffect(p) \/ CancelEffect(p) \/ RerunEffect(p))
<1> DEFINE w == request[c]
<1>1. /\ Current(w)
      /\ pipeline' = [pipeline EXCEPT ![w.pipeline] = w.to]
      /\ job' = [j \in Jobs |-> IF j \in DOMAIN w.writes THEN w.writes[j] ELSE job[j]]
  BY DEF Commit, Alone
<1> HIDE DEF w
<1>2. CASE ToQueue(w)
  <2>1. PICK p \in Pipelines :
          /\ pipeline[p] \in {"created", "queued", "running"}
          /\ w = [pipeline |-> p, to |-> QueuedStatus(pipeline[p]), writes |-> << >>]
    BY <1>2 DEF ToQueue
  <2>2. DOMAIN w.writes = {}
    BY <2>1
  <2>3. OnlyPipeline(p) /\ QueueEffect(p)
    BY <1>1, <2>1, <2>2 DEF OnlyPipeline, QueueEffect, TypeOK
  <2> QED
    BY <2>3
<1>3. CASE ToCancel(w)
  <2>1. PICK p \in Pipelines :
          /\ pipeline[p] \in Cancellable
          /\ w = [pipeline |-> p, to |-> RequestCancellation(pipeline[p]), writes |-> CancelWrites(p)]
    BY <1>3 DEF ToCancel
  <2>2. /\ w.pipeline = p /\ w.to = RequestCancellation(pipeline[p])
        /\ DOMAIN w.writes = {k \in JobsOf(p) : job[k] \in {"blocked", "queued", "running"}}
        /\ \A k \in DOMAIN w.writes : w.writes[k] = CancellationTarget(job[k])
    BY <2>1 DEF CancelWrites
  <2>3. OnlyPipeline(p)
    BY <1>1, <2>2 DEF OnlyPipeline, TypeOK
  <2>4. CancelEffect(p)
    BY <1>1, <2>1, <2>2 DEF CancelEffect, CancellationTarget, JobsOf, TypeOK
  <2> QED
    BY <2>3, <2>4
<1>4. CASE ToRetry(w)
  <2>1. PICK j \in Jobs :
          /\ \A n \in Needs[j] : job[n] = "succeeded"
          /\ pipeline[PipelineOf[j]] \in Retryable
          /\ job[j] \in {"failed", "cancelled"}
          /\ w = [pipeline |-> PipelineOf[j], to |-> "running", writes |-> [k \in {j} |-> "queued"]]
    BY <1>4 DEF ToRetry
  <2> DEFINE p == PipelineOf[j]
  <2>2. p \in Pipelines /\ j \in JobsOf(p)
    BY DEF JobGraphAssumption, JobsOf
  <2>3. w.pipeline = p /\ w.to = "running" /\ DOMAIN w.writes = {j} /\ w.writes[j] = "queued"
    BY <2>1
  <2>4. OnlyPipeline(p)
    BY <1>1, <2>2, <2>3 DEF OnlyPipeline, TypeOK
  <2>5. job'[j] = "queued" /\ \A k \in Jobs \ {j} : job'[k] = job[k]
    BY <1>1, <2>3
  <2>6. Needs[j] \cap {j} = {}
    BY <2>1
  <2>7. pipeline[p] \in Retryable /\ pipeline'[p] = "running"
    BY <1>1, <2>1, <2>2, <2>3 DEF TypeOK
  <2>8. {j} \in SUBSET JobsOf(p) /\ \A k \in JobsOf(p) \ {j} : job'[k] = job[k]
    BY <2>2, <2>5 DEF JobsOf
  <2>9. RerunEffect(p)
    BY <2>1, <2>5, <2>6, <2>7, <2>8 DEF RerunEffect
  <2> QED
    BY <2>2, <2>4, <2>9
<1>5. CASE ToRerun(w)
  <2>1. PICK j \in Jobs : \E producers \in SUBSET (Needs[j] \cap Perishable) :
          /\ producers # {}
          /\ pipeline[PipelineOf[j]] \in Retryable
          /\ w = [pipeline |-> PipelineOf[j], to |-> "running", writes |-> RerunWrites(j, producers)]
    BY <1>5 DEF ToRerun
  <2>2. PICK producers \in SUBSET (Needs[j] \cap Perishable) :
          /\ producers # {}
          /\ pipeline[PipelineOf[j]] \in Retryable
          /\ w = [pipeline |-> PipelineOf[j], to |-> "running", writes |-> RerunWrites(j, producers)]
    BY <2>1
  <2> DEFINE p == PipelineOf[j]
             again == producers \cup {j}
  <2>3. p \in Pipelines
    BY DEF JobGraphAssumption
  <2>4. /\ w.pipeline = p /\ w.to = "running" /\ w.writes = RerunWrites(j, producers)
        /\ DOMAIN w.writes = again
        /\ again \subseteq JobsOf(p)
    BY <2>2, RerunWritesFacts
  <2>5. OnlyPipeline(p)
    BY <1>1, <2>3, <2>4 DEF OnlyPipeline, TypeOK
  <2>6. /\ \A k \in again : job'[k] = RerunWrites(j, producers)[k]
        /\ \A k \in JobsOf(p) \ again : job'[k] = job[k]
    BY <1>1, <2>4 DEF JobsOf
  <2>7. pipeline[p] \in Retryable /\ pipeline'[p] = "running"
    BY <1>1, <2>2, <2>3, <2>4 DEF TypeOK
  <2> HIDE DEF again
  <2>8. /\ \A k \in again : job'[k] \in {"blocked", "queued"}
        /\ \E k \in again : job'[k] = "queued"
        /\ \A k \in again : job'[k] = "queued" => Needs[k] \cap again = {} /\ k \in Perishable
    <3>1. /\ \A k \in again : RerunWrites(j, producers)[k] \in {"blocked", "queued"}
          /\ \E k \in producers : RerunWrites(j, producers)[k] = "queued"
          /\ \A k \in again : RerunWrites(j, producers)[k] = "queued" =>
               Needs[k] \cap again = {} /\ k \in Perishable
      BY <2>2, RerunWritesFacts DEF again
    <3>2. producers \subseteq again
      BY DEF again
    <3> QED
      BY <2>6, <3>1, <3>2
  <2>9. RerunEffect(p)
    BY <2>4, <2>6, <2>7, <2>8 DEF RerunEffect
  <2> QED
    BY <2>3, <2>5, <2>9
<1> QED
  BY <1>1, <1>2, <1>3, <1>4, <1>5 DEF Current

---------------------------------------------------------------------------
(* Commits keep the rows consistent *)

LEMMA CommitKeepsRows ==
  ASSUME TypeOK, RowInv, JobGraphAssumption, UNCHANGED attempt,
         pipeline' \in [Pipelines -> PipelineStatus], job' \in [Jobs -> JobStatus],
         NEW p \in Pipelines, OnlyPipeline(p),
         QueueEffect(p) \/ CancelEffect(p) \/ RerunEffect(p)
  PROVE  RowInv'
<1>1. \A j \in Jobs : \A n \in Needs[j] : n \in Jobs /\ PipelineOf[n] = PipelineOf[j]
  BY DEF JobGraphAssumption
<1>2. \A j \in Jobs : j \in JobsOf(PipelineOf[j]) /\ PipelineOf[j] \in Pipelines
  BY DEF JobsOf, JobGraphAssumption
<1>3. /\ ActiveAttempts' = ActiveAttempts
      /\ \A j \in Jobs : AttemptsOf(j)' = AttemptsOf(j)
  BY DEF ActiveAttempts, Active, AttemptsOf
<1>4. Numbered' /\ OneActiveAttempt'
  BY <1>3 DEF RowInv, Numbered, OneActiveAttempt, Active, AttemptsOf
<1>5. CASE QueueEffect(p)
  <2>1. \A j \in Jobs : job'[j] = job[j]
    BY <1>5 DEF QueueEffect
  <2>0. /\ \/ pipeline'[p] = pipeline[p]
           \/ pipeline[p] = "created" /\ pipeline'[p] = "queued"
        /\ \A q \in Pipelines \ {p} : pipeline'[q] = pipeline[q]
    BY <1>5 DEF QueueEffect, QueuedStatus, OnlyPipeline
  <2>2. Unstarted'
    BY <1>2, <2>0, <2>1 DEF Unstarted, RowInv
  <2>3. OwnedJobs' /\ NeedsEnded' /\ LatestAttemptDecides'
    BY <1>1, <1>3, <2>1 DEF OwnedJobs, NeedsEnded, LatestAttemptDecides, RowInv, AttemptsOf
  <2>4. VerdictSound'
    BY <2>0, <2>1 DEF VerdictSound, RowInv, JobsOf, TerminalPipeline
  <2>5. NotStranded'
    BY <2>0, <2>1 DEF NotStranded, RowInv, JobsOf
  <2> QED
    BY <1>4, <2>2, <2>3, <2>4, <2>5 DEF RowInv
<1>6. CASE CancelEffect(p)
  <2>1. pipeline'[p] \in {"cancelled", "cancelling"}
    BY <1>6 DEF CancelEffect, RequestCancellation
  <2>2. \A j \in Jobs : job'[j] \in JobStatus /\ job[j] \in JobStatus
    BY DEF TypeOK
  <2>3. \A j \in Jobs : /\ job'[j] \notin {"blocked", "queued"} \/ job'[j] = job[j]
                        /\ job'[j] \in OwnedJob <=> job[j] \in OwnedJob
                        /\ job[j] \in TerminalJob => job'[j] = job[j]
                        /\ job'[j] \in {"succeeded", "failed"} => job'[j] = job[j]
                        /\ j \in JobsOf(p) => job'[j] \notin {"blocked", "queued"}
    BY <1>6, <2>2 DEF CancelEffect, OnlyPipeline, OwnedJob, TerminalJob, JobStatus
  <2>4. Unstarted'
    BY <1>2, <2>1, <2>3 DEF Unstarted, RowInv, OnlyPipeline, JobsOf
  <2>5. OwnedJobs'
    BY <1>3, <2>3 DEF OwnedJobs, RowInv
  <2>6. NeedsEnded'
    BY <1>1, <2>3 DEF NeedsEnded, RowInv
  <2>7. LatestAttemptDecides'
    BY <1>3, <2>3 DEF LatestAttemptDecides, RowInv, AttemptsOf
  <2>8. NotStranded'
    BY <2>1 DEF NotStranded, RowInv, OnlyPipeline, JobsOf
  <2>9. VerdictSound'
    <3>1. ASSUME NEW q \in Pipelines \ {p}
          PROVE  /\ pipeline'[q] = pipeline[q]
                 /\ \A j \in JobsOf(q) : job'[j] = job[j]
      BY DEF OnlyPipeline, JobsOf
    <3>2. pipeline'[p] = "cancelled" => \A j \in JobsOf(p) : job'[j] = "cancelled"
      <4> SUFFICES ASSUME pipeline'[p] = "cancelled", NEW j \in JobsOf(p)
                   PROVE  job'[j] = "cancelled"
        OBVIOUS
      <4>1. pipeline[p] \in {"created", "queued"}
        BY <1>6 DEF CancelEffect, RequestCancellation
      <4>2. job[j] \in {"blocked", "queued"}
        BY <4>1 DEF RowInv, Unstarted, JobsOf
      <4> QED
        BY <1>6, <4>2 DEF CancelEffect
    <3> QED
      BY <2>1, <3>1, <3>2 DEF VerdictSound, RowInv, TerminalPipeline, TerminalJob
  <2> QED
    BY <1>4, <2>4, <2>5, <2>6, <2>7, <2>8, <2>9 DEF RowInv
<1>7. CASE RerunEffect(p)
  <2>1. /\ pipeline'[p] = "running"
        /\ \A j \in JobsOf(p) : job[j] \in TerminalJob
    BY <1>7 DEF RerunEffect, Retryable, TerminalPipeline, VerdictSound, RowInv
  <2>2. PICK again \in SUBSET JobsOf(p) :
          /\ \A k \in again : job'[k] \in {"blocked", "queued"}
          /\ \A k \in JobsOf(p) \ again : job'[k] = job[k]
          /\ \E k \in again : job'[k] = "queued"
          /\ \A k \in again : job'[k] = "queued" => Needs[k] \cap again = {}
    BY <1>7 DEF RerunEffect
  <2>3. \A j \in Jobs : \/ j \in again /\ job[j] \in TerminalJob /\ job'[j] \in {"blocked", "queued"}
                        \/ j \notin again /\ job'[j] = job[j]
    BY <2>1, <2>2 DEF OnlyPipeline
  <2>4. Unstarted'
    BY <1>2, <2>1, <2>3 DEF Unstarted, RowInv, OnlyPipeline, JobsOf
  <2>5. OwnedJobs'
    BY <1>3, <2>3 DEF OwnedJobs, RowInv, OwnedJob, TerminalJob
  <2>6. LatestAttemptDecides'
    BY <1>3, <2>3 DEF LatestAttemptDecides, RowInv, AttemptsOf
  <2>7. NotStranded'
    BY <2>1, <2>2 DEF NotStranded, RowInv, OnlyPipeline, JobsOf
  <2>8. VerdictSound'
    BY <2>1 DEF VerdictSound, RowInv, OnlyPipeline, JobsOf, TerminalPipeline
  <2>9. NeedsEnded'
    <3> SUFFICES ASSUME NEW j \in Jobs, job'[j] \in {"queued"} \cup OwnedJob, NEW n \in Needs[j]
                 PROVE  job'[n] \in TerminalJob
      BY DEF NeedsEnded
    <3>1. CASE j \in again
      BY <1>1, <2>1, <2>2, <2>3, <3>1 DEF OwnedJob, JobsOf
    <3>2. CASE j \notin again
      <4>1. job'[j] = job[j] /\ job[n] \in TerminalJob
        BY <2>3, <3>2 DEF RowInv, NeedsEnded
      <4>2. j \notin JobsOf(p)
        BY <2>1, <4>1 DEF TerminalJob, OwnedJob
      <4>3. n \notin again
        BY <1>1, <4>2 DEF JobsOf
      <4> QED
        BY <1>1, <2>3, <4>1, <4>3
    <3> QED
      BY <3>1, <3>2
  <2> QED
    BY <1>4, <2>4, <2>5, <2>6, <2>7, <2>8, <2>9 DEF RowInv
<1> QED
  BY <1>5, <1>6, <1>7

---------------------------------------------------------------------------
(* Claims keep the rows consistent *)

\* Every active attempt works on a job that is owned.
LEMMA ActiveOwned ==
  ASSUME TypeOK, OwnedJobs, NEW a \in ActiveAttempts
  PROVE  attempt[a].job \in Jobs /\ job[attempt[a].job] \in OwnedJob
<1>1. attempt[a].job \in Jobs
  BY DEF ActiveAttempts, TypeOK, AttemptRecord
<1> QED
  BY <1>1 DEF OwnedJobs

\* The new attempt of a claimed job is the only active one and has the highest
\* number; the needs of the job had ended when it was queued.
LEMMA ClaimKeepsRows ==
  ASSUME IInv, RowInv, JobGraphAssumption,
         NEW o \in Owners, NEW j \in Jobs, NEW a \in Attempts, ClaimNextJob(o, j, a)
  PROVE  RowInv'
<1>0. TypeOK /\ IsFiniteSet(DOMAIN attempt)
  BY DEF IInv
<1>1. /\ a \notin DOMAIN attempt
      /\ DOMAIN attempt' = DOMAIN attempt \cup {a}
      /\ \A b \in DOMAIN attempt : attempt'[b] = attempt[b]
      /\ attempt'[a].status = "queued"
      /\ attempt'[a].job = j
  <2>1. ClaimAdds(o, j, a)
    BY <1>0, ClaimFacts
  <2> QED
    BY <2>1 DEF ClaimAdds
<1>2. attempt'[a].number = Cardinality(AttemptsOf(j)) + 1
  BY DEF ClaimNextJob
<1>3. /\ job[j] = "queued" /\ job'[j] = "running"
      /\ \A k \in Jobs \ {j} : job'[k] = job[k]
  BY <1>0 DEF ClaimNextJob, Candidate, TypeOK
<1> DEFINE p == PipelineOf[j]
<1>4. /\ p \in Pipelines
      /\ pipeline[p] \in {"queued", "running"}
      /\ pipeline'[p] = "running"
      /\ \A q \in Pipelines \ {p} : pipeline'[q] = pipeline[q]
  BY <1>0 DEF ClaimNextJob, Candidate, TypeOK, JobGraphAssumption
<1>5. \A k \in Jobs : PipelineOf[k] \in Pipelines /\ k \in JobsOf(PipelineOf[k])
  BY DEF JobGraphAssumption, JobsOf
<1>6. ActiveAttempts' = ActiveAttempts \cup {a}
  BY <1>1 DEF ActiveAttempts, Active, ActiveAttempt
<1>7. \A b \in ActiveAttempts : attempt[b].job # j
  BY <1>0, <1>3, ActiveOwned DEF RowInv, OwnedJob
<1>8. \A b \in ActiveAttempts : attempt'[b] = attempt[b]
  BY <1>1 DEF ActiveAttempts
<1>9. OneActiveAttempt'
  BY <1>1, <1>6, <1>7, <1>8 DEF OneActiveAttempt, RowInv
<1>10. OwnedJobs'
  <2>1. job'[j] \in OwnedJob /\ a \in ActiveAttempts' /\ attempt'[a].job = j
    BY <1>1, <1>3, <1>6 DEF OwnedJob
  <2>2. ASSUME NEW k \in Jobs \ {j}
        PROVE  job'[k] \in OwnedJob <=> \E b \in ActiveAttempts' : attempt'[b].job = k
    <3>1. (\E b \in ActiveAttempts' : attempt'[b].job = k)
          <=> (\E b \in ActiveAttempts : attempt[b].job = k)
      BY <1>1, <1>6, <1>8
    <3> QED
      BY <1>3, <3>1 DEF RowInv, OwnedJobs
  <2> QED
    BY <2>1, <2>2 DEF OwnedJobs
<1>11. Unstarted'
  BY <1>3, <1>4, <1>5 DEF Unstarted, RowInv
<1>12. VerdictSound'
  <2>1. ASSUME NEW q \in Pipelines \ {p}, NEW k \in JobsOf(q)
        PROVE  job'[k] = job[k]
    BY <1>3 DEF JobsOf
  <2> QED
    BY <1>4, <2>1 DEF VerdictSound, RowInv, TerminalPipeline
<1>13. NotStranded'
  <2>1. ASSUME NEW q \in Pipelines \ {p}, NEW k \in JobsOf(q)
        PROVE  job'[k] = job[k]
    BY <1>3 DEF JobsOf
  <2>2. j \in JobsOf(p) /\ job'[j] \in OwnedJob
    BY <1>3, <1>5 DEF OwnedJob
  <2> QED
    BY <1>4, <2>1, <2>2 DEF NotStranded, RowInv
<1>14. NeedsEnded'
  <2> SUFFICES ASSUME NEW k \in Jobs, job'[k] \in {"queued"} \cup OwnedJob, NEW n \in Needs[k]
               PROVE  job'[n] \in TerminalJob
    BY DEF NeedsEnded
  <2>1. job[k] \in {"queued"} \cup OwnedJob
    BY <1>3
  <2>2. n \in Jobs /\ job[n] \in TerminalJob
    BY <2>1 DEF RowInv, NeedsEnded, JobGraphAssumption
  <2>3. n # j
    BY <1>3, <2>2 DEF TerminalJob
  <2> QED
    BY <1>3, <2>2, <2>3
<1>15. /\ AttemptsOf(j)' = AttemptsOf(j) \cup {a}
       /\ a \notin AttemptsOf(j)
       /\ \A k \in Jobs \ {j} : AttemptsOf(k)' = AttemptsOf(k)
  BY <1>1 DEF AttemptsOf
<1>16. Numbered'
  <2>1. /\ IsFiniteSet(AttemptsOf(j)) /\ Cardinality(AttemptsOf(j)) \in Nat
        /\ Cardinality(AttemptsOf(j)') = Cardinality(AttemptsOf(j)) + 1
    BY <1>0, <1>15, FS_Subset, FS_AddElement, FS_CardinalityType DEF AttemptsOf
  <2> SUFFICES ASSUME NEW b \in DOMAIN attempt'
               PROVE  /\ attempt'[b].number <= Cardinality(AttemptsOf(attempt[b].job))'
                      /\ Active(b)' => attempt'[b].number = Cardinality(AttemptsOf(attempt[b].job))'
    BY DEF Numbered
  <2>2. CASE b = a
    BY <1>1, <1>2, <2>1, <2>2
  <2>3. CASE b # a
    <3>1. /\ b \in DOMAIN attempt /\ attempt'[b] = attempt[b]
          /\ attempt[b].job \in Jobs /\ attempt[b].number \in Nat
      BY <1>0, <1>1, <2>3 DEF TypeOK, AttemptRecord
    <3>2. Active(b)' <=> b \in ActiveAttempts
      BY <3>1 DEF Active, ActiveAttempts
    <3>3. /\ attempt[b].number <= Cardinality(AttemptsOf(attempt[b].job))
          /\ b \in ActiveAttempts => attempt[b].number = Cardinality(AttemptsOf(attempt[b].job))
      BY <3>1 DEF Numbered, RowInv, ActiveAttempts
    <3>4. CASE attempt[b].job = j
      BY <1>7, <2>1, <3>1, <3>2, <3>3, <3>4
    <3>5. CASE attempt[b].job # j
      BY <1>15, <3>1, <3>2, <3>3, <3>5
    <3> QED
      BY <3>4, <3>5
  <2> QED
    BY <2>2, <2>3
<1>17. LatestAttemptDecides'
  <2> SUFFICES ASSUME NEW k \in Jobs, job'[k] \in {"succeeded", "failed"}
               PROVE  \E b \in AttemptsOf(k)' :
                        /\ attempt'[b].status = job'[k]
                        /\ \A c \in AttemptsOf(k)' : attempt'[c].number <= attempt'[b].number
    BY DEF LatestAttemptDecides
  <2>1. k # j /\ job'[k] = job[k]
    BY <1>3
  <2>2. AttemptsOf(k)' = AttemptsOf(k) /\ \A b \in AttemptsOf(k) : attempt'[b] = attempt[b]
    BY <1>1, <1>15, <2>1 DEF AttemptsOf
  <2> QED
    BY <2>1, <2>2 DEF LatestAttemptDecides, RowInv
<1> QED
  BY <1>9, <1>10, <1>11, <1>12, <1>13, <1>14, <1>16, <1>17 DEF RowInv

---------------------------------------------------------------------------
(* Runner events keep the rows consistent *)

\* The attempts that exist keep their job and their number.
SameAttempts ==
  /\ DOMAIN attempt' = DOMAIN attempt
  /\ \A b \in DOMAIN attempt :
       /\ attempt'[b].job = attempt[b].job
                                   /\ attempt'[b].number = attempt[b].number

\* An event moves its attempt, and its job and pipeline if it ends the attempt;
\* the blocked jobs of the pipeline become what their needs decide.
EventEffect(a, status) ==
  LET j == attempt[a].job
      p == PipelineOf[j]
  IN /\ a \in ActiveAttempts /\ j \in Jobs /\ p \in Pipelines
     /\ job[j] \in OwnedJob
     /\ pipeline[p] \in {"running", "cancelling"}
     /\ SameAttempts
     /\ attempt'[a].status = status
     /\ \A b \in DOMAIN attempt \ {a} : attempt'[b] = attempt[b]
     /\ IF status \in TerminalAttempt THEN job'[j] = status ELSE job'[j] = job[j]
     /\ \A k \in Jobs \ {j} :
          IF job[k] = "blocked" /\ k \in JobsOf(p)
          THEN /\ job'[k] \in {"blocked", "queued", "skipped"}
               /\ job'[k] = ReleaseTarget(k, job')
          ELSE job'[k] = job[k]
     /\ pipeline'[p] = CompleteFromJobs(pipeline[p], job', p)
     /\ \A q \in Pipelines \ {p} : pipeline'[q] = pipeline[q]

\* Only an active attempt has a next event, so its pipeline is under way.
LEMMA EventEffects ==
  ASSUME TypeOK, RowInv, JobGraphAssumption,
         NEW a \in DOMAIN attempt, NEW seq \in Nat, NEW status \in AttemptStatus,
         ApplyEvent(a, attempt[a], seq, status)
  PROVE  EventEffect(a, status)
<1> DEFINE j == attempt[a].job
           p == PipelineOf[j]
           ended == IF status \in TerminalAttempt THEN [job EXCEPT ![j] = status] ELSE job
<1>1. attempt[a] \in AttemptRecord /\ j \in Jobs /\ p \in Pipelines /\ j \in JobsOf(p)
  BY DEF TypeOK, AttemptRecord, JobGraphAssumption, JobsOf
<1>2. a \in ActiveAttempts
  <2>1. status \in AttemptMoves[attempt[a].status]
    BY DEF ApplyEvent, CanApply, Records
  <2>2. attempt[a].status \in AttemptStatus
    BY <1>1 DEF AttemptRecord
  <2>3. attempt[a].status \notin TerminalAttempt
    BY <2>1, <2>2, AttemptMovesFacts
  <2> QED
    BY <2>2, <2>3 DEF ActiveAttempts, Active, AttemptStatus
<1>3. job[j] \in OwnedJob
  BY <1>2, ActiveOwned DEF RowInv
<1>4. pipeline[p] \in {"running", "cancelling"}
  <2>1. pipeline[p] \notin {"created", "queued"}
    BY <1>1, <1>3 DEF RowInv, Unstarted, OwnedJob
  <2>2. pipeline[p] \notin TerminalPipeline
    BY <1>1, <1>3 DEF RowInv, VerdictSound, OwnedJob, TerminalJob
  <2> QED
    BY <1>1, <2>1, <2>2 DEF TypeOK, PipelineStatus
<1>5. /\ SameAttempts /\ attempt'[a].status = status
      /\ \A b \in DOMAIN attempt \ {a} : attempt'[b] = attempt[b]
  <2>1. DOMAIN attempt' = DOMAIN attempt
    BY <1>1, ApplyEventFacts
  <2> QED
    BY <1>1, <2>1, ApplyEventFacts DEF SameAttempts
<1>6. PICK v \in Verdicts : job' = Release(ended, p, v) /\ ReleasedTo(ended, job', p)
  BY DEF ApplyEvent
<1>7. IF status \in TerminalAttempt THEN ended[j] = status ELSE ended[j] = job[j]
  BY <1>1 DEF TypeOK
<1>8. \A k \in Jobs \ {j} : ended[k] = job[k]
  BY <1>1 DEF TypeOK
<1>9. ended[j] # "blocked"
  BY <1>3, <1>7 DEF OwnedJob, TerminalAttempt
<1> HIDE DEF ended
<1>10. job'[j] = ended[j]
  BY <1>1, <1>6, <1>9 DEF Release
<1>11. ASSUME NEW k \in Jobs \ {j}
       PROVE  IF job[k] = "blocked" /\ k \in JobsOf(p)
              THEN /\ job'[k] \in {"blocked", "queued", "skipped"}
                   /\ job'[k] = ReleaseTarget(k, job')
              ELSE job'[k] = job[k]
  <2>1. ended[k] = job[k]
    BY <1>8
  <2>2. job'[k] = IF job[k] = "blocked" /\ k \in JobsOf(p) THEN v[k] ELSE job[k]
    BY <1>6, <2>1 DEF Release, JobsOf
  <2>3. v[k] \in {"blocked", "queued", "skipped"}
    BY DEF Verdicts
  <2> QED
    BY <1>6, <2>1, <2>2, <2>3 DEF ReleasedTo
<1>12. /\ pipeline'[p] = CompleteFromJobs(pipeline[p], job', p)
       /\ \A q \in Pipelines \ {p} : pipeline'[q] = pipeline[q]
  BY <1>1 DEF ApplyEvent, TypeOK
<1> QED
  BY <1>1, <1>2, <1>3, <1>4, <1>5, <1>7, <1>10, <1>11, <1>12 DEF EventEffect

\* The job of the event leaves its owner exactly when the attempt ends, and a
\* job that waits is released only when all it needs has ended; if nothing else
\* can run, the blocked job that needs no other blocked one is released.
LEMMA EventKeepsRows ==
  ASSUME TypeOK, RowInv, JobGraphAssumption,
         NEW a \in DOMAIN attempt, NEW status \in AttemptStatus, EventEffect(a, status),
         pipeline' \in [Pipelines -> PipelineStatus], job' \in [Jobs -> JobStatus]
  PROVE  RowInv'
<1> DEFINE j == attempt[a].job
           p == PipelineOf[j]
           waits(k) == job[k] = "blocked" /\ k \in JobsOf(p)
<1>1. /\ a \in ActiveAttempts /\ j \in Jobs /\ p \in Pipelines /\ job[j] \in OwnedJob
      /\ pipeline[p] \in {"running", "cancelling"}
      /\ SameAttempts
      /\ attempt'[a].status = status
      /\ \A b \in DOMAIN attempt \ {a} : attempt'[b] = attempt[b]
      /\ IF status \in TerminalAttempt THEN job'[j] = status ELSE job'[j] = job[j]
      /\ pipeline'[p] = CompleteFromJobs(pipeline[p], job', p)
      /\ \A q \in Pipelines \ {p} : pipeline'[q] = pipeline[q]
  BY DEF EventEffect
<1>2. \A k \in Jobs \ {j} :
        IF waits(k)
        THEN /\ job'[k] \in {"blocked", "queued", "skipped"}
             /\ job'[k] = ReleaseTarget(k, job')
        ELSE job'[k] = job[k]
  BY DEF EventEffect
<1>3. /\ \A k \in Jobs : PipelineOf[k] \in Pipelines /\ k \in JobsOf(PipelineOf[k])
      /\ \A k \in Jobs : \A n \in Needs[k] : n \in Jobs /\ PipelineOf[n] = PipelineOf[k]
      /\ j \in JobsOf(p)
  BY <1>1 DEF JobGraphAssumption, JobsOf
<1>4. \A k \in Jobs : job[k] \in TerminalJob => job'[k] = job[k]
  <2>1. job[j] \notin TerminalJob /\ "blocked" \notin TerminalJob
    BY <1>1 DEF OwnedJob, TerminalJob
  <2> QED
    BY <1>2, <2>1
<1>5. /\ DOMAIN attempt' = DOMAIN attempt
      /\ ActiveAttempts' \subseteq ActiveAttempts
      /\ \A b \in DOMAIN attempt : /\ attempt'[b].job = attempt[b].job
                                   /\ attempt'[b].number = attempt[b].number
      /\ \A b \in DOMAIN attempt \ {a} : b \in ActiveAttempts' <=> b \in ActiveAttempts
      /\ a \in ActiveAttempts' <=> status \notin TerminalAttempt
  <2>1. status \in ActiveAttempt <=> status \notin TerminalAttempt
    BY DEF AttemptStatus, ActiveAttempt, TerminalAttempt
  <2> QED
    BY <1>1, <2>1 DEF SameAttempts, ActiveAttempts, Active
<1>6. \A k \in Jobs : AttemptsOf(k)' = AttemptsOf(k)
  BY <1>5 DEF AttemptsOf
<1>7. \A q \in Pipelines \ {p} : \A k \in JobsOf(q) : job'[k] = job[k]
  BY <1>2, <1>3 DEF JobsOf
<1>8. Unstarted'
  <2>1. pipeline'[p] \notin {"created", "queued"}
    BY <1>1 DEF CompleteFromJobs, AggregateResult
  <2> QED
    BY <1>1, <1>3, <1>7, <2>1 DEF Unstarted, RowInv
<1>9. Numbered'
  <2> SUFFICES ASSUME NEW b \in DOMAIN attempt'
               PROVE  /\ attempt'[b].number <= Cardinality(AttemptsOf(attempt[b].job))'
                      /\ Active(b)' => attempt'[b].number = Cardinality(AttemptsOf(attempt[b].job))'
    BY DEF Numbered
  <2>1. b \in DOMAIN attempt /\ attempt[b].job \in Jobs
    BY <1>5 DEF TypeOK, AttemptRecord
  <2>2. AttemptsOf(attempt[b].job)' = AttemptsOf(attempt[b].job)
    BY <1>5, <2>1 DEF AttemptsOf
  <2>3. Active(b)' => Active(b)
    BY <1>5, <2>1 DEF ActiveAttempts
  <2> QED
    BY <1>5, <2>1, <2>2, <2>3 DEF Numbered, RowInv
<1>10. OneActiveAttempt'
  BY <1>5 DEF OneActiveAttempt, RowInv, ActiveAttempts
<1>11. OwnedJobs'
  <2>1. ASSUME NEW k \in Jobs \ {j}
        PROVE  job'[k] \in OwnedJob <=> \E b \in ActiveAttempts' : attempt'[b].job = k
    <3>1. job'[k] \in OwnedJob <=> job[k] \in OwnedJob
      BY <1>2 DEF OwnedJob
    <3>2. (\E b \in ActiveAttempts' : attempt'[b].job = k)
          <=> (\E b \in ActiveAttempts : attempt[b].job = k)
      BY <1>5 DEF ActiveAttempts
    <3> QED
      BY <3>1, <3>2 DEF RowInv, OwnedJobs
  <2>2. CASE status \in TerminalAttempt
    <3>1. job'[j] \notin OwnedJob
      BY <1>1, <2>2 DEF TerminalAttempt, OwnedJob
    <3>2. \A b \in ActiveAttempts' : attempt'[b].job # j
      BY <1>1, <1>5, <2>2 DEF RowInv, OneActiveAttempt, ActiveAttempts
    <3> QED
      BY <2>1, <3>1, <3>2 DEF OwnedJobs
  <2>3. CASE status \notin TerminalAttempt
    <3>1. job'[j] \in OwnedJob /\ a \in ActiveAttempts' /\ attempt'[a].job = j
      BY <1>1, <1>5, <2>3
    <3> QED
      BY <2>1, <3>1 DEF OwnedJobs
  <2> QED
    BY <2>2, <2>3
<1>12. VerdictSound'
  <2>1. /\ pipeline'[p] \in TerminalPipeline => \A k \in JobsOf(p) : job'[k] \in TerminalJob
        /\ pipeline'[p] = "succeeded" => \A k \in JobsOf(p) : job'[k] \in {"succeeded", "skipped"}
        /\ pipeline'[p] = "failed" => \E k \in JobsOf(p) : job'[k] = "failed"
    BY <1>1 DEF CompleteFromJobs, AggregateResult, TerminalPipeline, TerminalJob
  <2> QED
    BY <1>1, <1>7, <2>1 DEF VerdictSound, RowInv
<1>13. NotStranded'
  <2>1. ASSUME pipeline'[p] = "running"
        PROVE  \E k \in JobsOf(p) : job'[k] \in {"queued"} \cup OwnedJob
    <3> SUFFICES ASSUME \A k \in JobsOf(p) : job'[k] \notin {"queued"} \cup OwnedJob
                 PROVE  FALSE
      OBVIOUS
    <3>1. \E k \in JobsOf(p) : job'[k] \notin TerminalJob
      BY <1>1, <1>3, <2>1 DEF CompleteFromJobs, AggregateResult
    <3> DEFINE S == {k \in JobsOf(p) : job'[k] = "blocked"}
    <3>2. \A k \in JobsOf(p) : job'[k] \in TerminalJob \/ k \in S
      BY DEF JobStatus, JobsOf
    <3>3. S \in SUBSET Jobs /\ S # {}
      BY <3>1, <3>2 DEF JobsOf
    <3>4. PICK k \in S : Needs[k] \cap S = {}
      BY <3>3 DEF JobGraphAssumption
    <3>5. k \in Jobs /\ PipelineOf[k] = p /\ job'[k] = "blocked"
      BY DEF JobsOf
    <3>6. \A n \in Needs[k] : job'[n] \in TerminalJob
      BY <1>3, <3>2, <3>4, <3>5 DEF JobsOf
    <3>7. k # j
      BY <1>1, <3>5 DEF TerminalAttempt, OwnedJob
    <3>8. job'[k] = ReleaseTarget(k, job')
      <4>1. CASE waits(k)
        BY <1>2, <3>5, <3>7, <4>1
      <4>2. CASE ~ waits(k)
        BY <1>2, <3>5, <3>7, <4>2 DEF JobsOf
      <4> QED
        BY <4>1, <4>2
    <3> QED
      BY <3>5, <3>6, <3>8 DEF ReleaseTarget
  <2> QED
    BY <1>1, <1>7, <2>1 DEF NotStranded, RowInv
<1>14. NeedsEnded'
  <2> SUFFICES ASSUME NEW k \in Jobs, job'[k] \in {"queued"} \cup OwnedJob, NEW n \in Needs[k]
               PROVE  job'[n] \in TerminalJob
    BY DEF NeedsEnded
  <2>1. CASE k # j /\ waits(k)
    <3>1. ReleaseTarget(k, job') # "blocked"
      BY <1>2, <2>1 DEF OwnedJob
    <3> QED
      BY <3>1 DEF ReleaseTarget
  <2>2. CASE ~ (k # j /\ waits(k))
    <3>1. job[k] \in {"queued"} \cup OwnedJob
      BY <1>1, <1>2, <2>2
    <3> QED
      BY <1>3, <1>4, <3>1 DEF RowInv, NeedsEnded
  <2> QED
    BY <2>1, <2>2
<1>15. LatestAttemptDecides'
  <2> SUFFICES ASSUME NEW k \in Jobs, job'[k] \in {"succeeded", "failed"}
               PROVE  \E b \in AttemptsOf(k)' :
                        /\ attempt'[b].status = job'[k]
                        /\ \A c \in AttemptsOf(k)' : attempt'[c].number <= attempt'[b].number
    BY DEF LatestAttemptDecides
  <2>1. CASE k = j
    <3>1. job'[j] = status
      BY <1>1, <2>1 DEF OwnedJob
    <3>2. a \in AttemptsOf(j)'
      BY <1>1, <1>6 DEF AttemptsOf
    <3>3. ASSUME NEW c \in AttemptsOf(j)'
          PROVE  attempt'[c].number <= attempt'[a].number
      <4>1. c \in DOMAIN attempt /\ attempt[c].job = j
        BY <1>1, <1>6 DEF AttemptsOf
      <4>2. /\ attempt[c].number <= Cardinality(AttemptsOf(j))
            /\ attempt[a].number = Cardinality(AttemptsOf(j))
        BY <1>1, <4>1 DEF RowInv, Numbered, ActiveAttempts
      <4> QED
        BY <1>5, <4>1, <4>2
    <3> QED
      <4>1. \E b \in AttemptsOf(j)' :
              /\ attempt'[b].status = job'[j]
              /\ \A c \in AttemptsOf(j)' : attempt'[c].number <= attempt'[b].number
        BY <1>1, <3>1, <3>2, <3>3
      <4> QED
        BY <1>5, <2>1, <4>1 DEF AttemptsOf
  <2>2. CASE k # j
    <3>1. job'[k] = job[k]
      BY <1>2, <2>2
    <3>2. AttemptsOf(k)' = AttemptsOf(k) /\ \A b \in AttemptsOf(k) : attempt'[b] = attempt[b]
      BY <1>1, <1>6, <2>2 DEF AttemptsOf
    <3>3. PICK b \in AttemptsOf(k) :
            /\ attempt[b].status = job[k]
            /\ \A c \in AttemptsOf(k) : attempt[c].number <= attempt[b].number
      BY <3>1 DEF RowInv, LatestAttemptDecides
    <3> QED
      BY <3>1, <3>2, <3>3
  <2> QED
    BY <2>1, <2>2
<1> QED
  BY <1>8, <1>9, <1>10, <1>11, <1>12, <1>13, <1>14, <1>15 DEF RowInv

---------------------------------------------------------------------------
(* The limits *)

\* An event ends an active attempt or leaves the counts as they are.
LEMMA EventKeepsCapacity ==
  ASSUME IInv, CapacityBound, ControlPlaneAssumption,
         NEW a \in DOMAIN attempt, NEW status \in AttemptStatus, EventEffect(a, status)
  PROVE  CapacityBound'
<1>1. /\ a \in ActiveAttempts /\ SameAttempts
      /\ \A b \in DOMAIN attempt \ {a} : attempt'[b] = attempt[b]
  BY DEF EventEffect
<1>2. ActiveAttempts' \subseteq ActiveAttempts
  BY <1>1 DEF SameAttempts, ActiveAttempts, Active
<1>3. IsFiniteSet(ActiveAttempts)
  BY FS_Subset DEF IInv, ActiveAttempts
<1>4. Cardinality(ActiveAttempts') <= GlobalLimit
  <2>1. Cardinality(ActiveAttempts') <= Cardinality(ActiveAttempts)
    BY <1>2, <1>3, FS_Subset
  <2>2. Cardinality(ActiveAttempts') \in Nat /\ Cardinality(ActiveAttempts) \in Nat
    BY <1>2, <1>3, FS_Subset, FS_CardinalityType
  <2> QED
    BY <2>1, <2>2 DEF CapacityBound, ControlPlaneAssumption
<1>5. ASSUME NEW p \in Pipelines
      PROVE  Cardinality(ActiveInRepository(RepositoryOf[p])') <= RepositoryLimit
  <2> DEFINE here == ActiveInRepository(RepositoryOf[p])
  <2>1. here' \subseteq here
    BY <1>1, <1>2 DEF ActiveInRepository, SameAttempts, ActiveAttempts
  <2>2. IsFiniteSet(here)
    BY <1>3, FS_Subset DEF ActiveInRepository
  <2>3. Cardinality(here') <= Cardinality(here)
    BY <2>1, <2>2, FS_Subset
  <2>4. Cardinality(here') \in Nat /\ Cardinality(here) \in Nat
    BY <2>1, <2>2, FS_Subset, FS_CardinalityType
  <2> QED
    BY <2>3, <2>4 DEF CapacityBound, ControlPlaneAssumption
<1> QED
  BY <1>4, <1>5 DEF CapacityBound

\* A claim adds one active attempt to counts that were below the limits.
LEMMA ClaimKeepsCapacity ==
  ASSUME IInv, CapacityBound, JobGraphAssumption, ControlPlaneAssumption,
         NEW o \in Owners, NEW j \in Jobs, NEW a \in Attempts, ClaimNextJob(o, j, a)
  PROVE  CapacityBound'
<1>1. /\ a \notin DOMAIN attempt
      /\ DOMAIN attempt' = DOMAIN attempt \cup {a}
      /\ \A b \in DOMAIN attempt : attempt'[b] = attempt[b]
      /\ attempt'[a].status = "queued"
      /\ attempt'[a].job = j
  <2>1. ClaimAdds(o, j, a)
    BY ClaimFacts DEF IInv
  <2> QED
    BY <2>1 DEF ClaimAdds
<1>2. ActiveAttempts' = ActiveAttempts \cup {a} /\ a \notin ActiveAttempts
  BY <1>1 DEF ActiveAttempts, Active, ActiveAttempt
<1>3. \A b \in ActiveAttempts : attempt'[b].job = attempt[b].job
  BY <1>1 DEF ActiveAttempts
<1>4. IsFiniteSet(ActiveAttempts) /\ Cardinality(ActiveAttempts) \in Nat
  BY FS_Subset, FS_CardinalityType DEF IInv, ActiveAttempts
<1>5. Cardinality(ActiveAttempts') <= GlobalLimit
  <2>1. Cardinality(ActiveAttempts') = Cardinality(ActiveAttempts) + 1
    BY <1>2, <1>4, FS_AddElement
  <2>2. Cardinality(ActiveAttempts) < GlobalLimit
    BY DEF ClaimNextJob, Candidate, Admitted
  <2> QED
    BY <1>4, <2>1, <2>2 DEF ControlPlaneAssumption
<1>6. ASSUME NEW p \in Pipelines
      PROVE  Cardinality(ActiveInRepository(RepositoryOf[p])') <= RepositoryLimit
  <2> DEFINE repo == RepositoryOf[p]
             here == ActiveInRepository(repo)
  <2>1. IsFiniteSet(here) /\ Cardinality(here) \in Nat
    BY <1>4, FS_Subset, FS_CardinalityType DEF ActiveInRepository
  <2>2. CASE RepositoryOf[PipelineOf[j]] = repo
    <3>1. here' = here \cup {a} /\ a \notin here
      BY <1>1, <1>2, <1>3, <2>2 DEF ActiveInRepository
    <3>2. Cardinality(here) < RepositoryLimit
      BY <2>2 DEF ClaimNextJob, Candidate, Admitted
    <3>3. Cardinality(here') = Cardinality(here) + 1
      BY <2>1, <3>1, FS_AddElement
    <3> QED
      BY <2>1, <3>2, <3>3 DEF ControlPlaneAssumption
  <2>3. CASE RepositoryOf[PipelineOf[j]] # repo
    <3>1. here' = here
      BY <1>1, <1>2, <1>3, <2>3 DEF ActiveInRepository
    <3> QED
      BY <3>1 DEF CapacityBound
  <2> QED
    BY <2>2, <2>3
<1> QED
  BY <1>5, <1>6 DEF CapacityBound

---------------------------------------------------------------------------
(* The steps of isolated transactions *)

\* What a step may do to the rows.
RowsStep ==
  \/ UNCHANGED <<pipeline, job, attempt>>
  \/ \E p \in Pipelines : /\ UNCHANGED attempt /\ OnlyPipeline(p)
                          /\ QueueEffect(p) \/ CancelEffect(p) \/ RerunEffect(p)
  \/ \E o \in Owners, j \in Jobs, a \in Attempts : ClaimNextJob(o, j, a)
  \/ \E a \in DOMAIN attempt, status \in AttemptStatus : EventEffect(a, status)

\* While nothing is open, nothing can be out of date.
LEMMA NothingOpen ==
  ASSUME DOMAIN request' = {}, DOMAIN found' = {}, DOMAIN local' = {}
  PROVE  Alone'
  BY DEF Alone

\* A transaction that opens reads the rows as they are.
LEMMA OpenAlone ==
  ASSUME NEW c \in Clients, NEW p, NEW to, NEW writes, Open(c, p, to, writes),
         DOMAIN request = {}, DOMAIN found = {}, DOMAIN local = {},
         Current([pipeline |-> p, to |-> to, writes |-> writes])
  PROVE  Alone' /\ UNCHANGED <<pipeline, job, attempt>>
<1> DEFINE w == [pipeline |-> p, to |-> to, writes |-> writes]
<1>1. DOMAIN request' = {c} /\ request'[c] = w
  BY DEF Open
<1>2. DOMAIN found' = {} /\ DOMAIN local' = {} /\ UNCHANGED <<pipeline, job, attempt>>
  BY DEF Open, execution
<1>3. Current(w)'
  BY <1>2 DEF Current, ToQueue, ToCancel, ToRetry, ToRerun, CancelWrites
<1> HIDE DEF w
<1> QED
  BY <1>1, <1>2, <1>3 DEF Alone

\* A step that touches neither the rows nor what is open.
LEMMA QuietAlone ==
  ASSUME Alone, UNCHANGED <<pipeline, job, attempt, found, request>>,
         DOMAIN local' \subseteq DOMAIN local, \A a \in DOMAIN local' : local'[a] = local[a]
  PROVE  Alone' /\ RowsStep
<1>1. \A w : Current(w)' <=> Current(w)
  BY DEF Current, ToQueue, ToCancel, ToRetry, ToRerun, CancelWrites
<1>2. \A c \in DOMAIN request : Current(request[c])'
  BY <1>1 DEF Alone
<1> QED
  BY <1>2 DEF Alone, RowsStep

\* The requests of users and their commits.
LEMMA UserSteps ==
  ASSUME TypeOK, Alone, Isolated, JobGraphAssumption, ControlPlaneAssumption,
         NEW c \in Clients, UserRequest(c)
  PROVE  Alone' /\ RowsStep
<1>1. ASSUME NEW p \in Pipelines, BeginQueue(c, p) PROVE Alone' /\ RowsStep
  <2>1. /\ Open(c, p, QueuedStatus(pipeline[p]), << >>)
        /\ DOMAIN request = {} /\ DOMAIN found = {} /\ DOMAIN local = {}
    BY <1>1 DEF BeginQueue, Undisturbed
  <2>2. Current([pipeline |-> p, to |-> QueuedStatus(pipeline[p]), writes |-> << >>])
    BY <1>1 DEF BeginQueue, Current, ToQueue
  <2> QED
    BY <2>1, <2>2, OpenAlone DEF RowsStep
<1>2. ASSUME NEW p \in Pipelines, BeginCancel(c, p) PROVE Alone' /\ RowsStep
  <2>1. /\ Open(c, p, RequestCancellation(pipeline[p]), CancelWrites(p))
        /\ DOMAIN request = {} /\ DOMAIN found = {} /\ DOMAIN local = {}
    BY <1>2 DEF BeginCancel, Undisturbed
  <2>2. Current([pipeline |-> p, to |-> RequestCancellation(pipeline[p]),
                 writes |-> CancelWrites(p)])
    BY <1>2 DEF BeginCancel, Current, ToCancel
  <2> QED
    BY <2>1, <2>2, OpenAlone DEF RowsStep
<1>3. ASSUME NEW j \in Jobs, BeginRetry(c, j) PROVE Alone' /\ RowsStep
  <2>1. /\ Open(c, PipelineOf[j], "running", [k \in {j} |-> "queued"])
        /\ DOMAIN request = {} /\ DOMAIN found = {} /\ DOMAIN local = {}
    BY <1>3 DEF BeginRetry, Undisturbed
  <2>2. Current([pipeline |-> PipelineOf[j], to |-> "running",
                 writes |-> [k \in {j} |-> "queued"]])
    BY <1>3 DEF BeginRetry, Current, ToRetry
  <2> QED
    BY <2>1, <2>2, OpenAlone DEF RowsStep
<1>4. ASSUME NEW j \in Jobs, NEW producers \in SUBSET Needs[j], BeginRerun(c, j, producers)
      PROVE  Alone' /\ RowsStep
  <2>1. /\ Open(c, PipelineOf[j], "running", RerunWrites(j, producers))
        /\ DOMAIN request = {} /\ DOMAIN found = {} /\ DOMAIN local = {}
    BY <1>4 DEF BeginRerun, Undisturbed
  <2>2. producers \in SUBSET (Needs[j] \cap Perishable)
    BY <1>4 DEF BeginRerun
  <2>3. Current([pipeline |-> PipelineOf[j], to |-> "running",
                 writes |-> RerunWrites(j, producers)])
    BY <1>4, <2>2 DEF BeginRerun, Current, ToRerun
  <2> QED
    BY <2>1, <2>3, OpenAlone DEF RowsStep
<1>5. CASE Commit(c)
  <2>1. DOMAIN request = {c}
    <3>1. c \in DOMAIN request
      BY <1>5 DEF Commit
    <3>2. \A d \in DOMAIN request : d = c
      BY <3>1 DEF Alone
    <3> QED
      BY <3>1, <3>2
  <2>2. DOMAIN found' = {} /\ DOMAIN local' = {} /\ UNCHANGED attempt
    BY <1>5, <2>1 DEF Commit, Alone, execution
  <2>3. DOMAIN request' = {}
    BY <1>5, <2>1 DEF Commit
  <2>4. RowsStep
    <3>1. \E p \in Pipelines :
            OnlyPipeline(p) /\ (QueueEffect(p) \/ CancelEffect(p) \/ RerunEffect(p))
      BY <1>5, CommitEffects
    <3> QED
      BY <2>2, <3>1 DEF RowsStep
  <2> QED
    BY <2>2, <2>3, <2>4, NothingOpen
<1> QED
  BY <1>1, <1>2, <1>3, <1>4, <1>5 DEF UserRequest

\* What the transaction of a local attempt writes, when it ran alone, is an
\* event computed from the attempt as it is, or the attempt as it is.
LEMMA LocalWritesAlone ==
  ASSUME TypeOK, Alone, RowInv, JobGraphAssumption, NEW a \in Attempts, LocalWrites(a)
  PROVE  Alone' /\ RowsStep
<1>1. /\ a \in DOMAIN local /\ a \in DOMAIN attempt
      /\ local[a] \in LocalTransaction /\ local[a].row = attempt[a]
      /\ UNCHANGED <<found, request>>
  BY DEF LocalWrites, TypeOK, Alone
<1>2. Alone'
  <2>0. \A b \in DOMAIN local : b = a
    BY <1>1 DEF Alone
  <2>1. DOMAIN request' = {} /\ DOMAIN found' = {} /\ DOMAIN local = {a}
    <3>0. a \in DOMAIN local
      BY <1>1
    <3>1. DOMAIN local = {a}
      BY <2>0, <3>0
    <3>2. DOMAIN request = {} /\ DOMAIN found = {}
      BY <3>1 DEF Alone
    <3>3. request' = request /\ found' = found
      BY <1>1
    <3> QED
      BY <3>1, <3>2, <3>3
  <2>2. \E stage : GoesOn(a, stage)
    BY Zenon DEF LocalWrites, LocalRecords, LocalRenews
  <2>3. DOMAIN local' = {}
    BY <2>1, <2>2 DEF GoesOn
  <2> QED
    BY <2>1, <2>3, NothingOpen
<1>3. CASE LocalRecords(a)
  <2>1. \/ ApplyEvent(a, attempt[a], local[a].seq, local[a].status)
        \/ UNCHANGED <<pipeline, job, attempt>>
    BY <1>1, <1>3 DEF LocalRecords
  <2>2. local[a].seq \in Nat /\ local[a].status \in AttemptStatus
    BY <1>1 DEF LocalTransaction
  <2>3. CASE ApplyEvent(a, attempt[a], local[a].seq, local[a].status)
    BY <1>1, <1>2, <2>2, <2>3, EventEffects DEF RowsStep
  <2> QED
    BY <1>2, <2>1, <2>3 DEF RowsStep
<1>4. CASE LocalRenews(a)
  <2>1. attempt' = attempt
    BY <1>1, <1>4 DEF LocalRenews, TypeOK
  <2> QED
    BY <1>2, <1>4, <2>1 DEF LocalRenews, RowsStep
<1> QED
  BY <1>3, <1>4 DEF LocalWrites

\* Every step changes the rows in one of these ways, from what they are now.
LEMMA IsolatedSteps ==
  ASSUME IInv, Alone, RowInv, Isolated, JobGraphAssumption, ControlPlaneAssumption,
         [Next]_db
  PROVE  Alone' /\ RowsStep
<1>0. TypeOK
  BY DEF IInv
<1>1. ASSUME NEW c \in Clients, UserRequest(c) PROVE Alone' /\ RowsStep
  BY <1>0, <1>1, UserSteps
<1>2. ASSUME NEW r \in Runners, Fleet(r) PROVE Alone' /\ RowsStep
  <2>1. ASSUME NEW j \in Jobs, NEW a \in Attempts, Claim(r, j, a) PROVE Alone' /\ RowsStep
    <3>1. DOMAIN request' = {} /\ DOMAIN found' = {} /\ DOMAIN local' = {}
      BY <2>1 DEF Claim, ClaimNextJob, Undisturbed, execution
    <3>2. r \in Owners /\ ClaimNextJob(r, j, a)
      BY <2>1 DEF Claim, Owners
    <3> QED
      BY <3>1, <3>2, NothingOpen DEF RowsStep
  <2>2. CASE AnyRunnerEvent(r)
    <3>1. PICK a \in DOMAIN attempt, status \in AttemptStatus :
                 RunnerEvent(r, a, attempt[a].seq + 1, status)
      BY <2>2 DEF AnyRunnerEvent
    <3>2. attempt[a].seq + 1 \in Nat
      BY <1>0 DEF TypeOK, AttemptRecord
    <3>3. ApplyEvent(a, attempt[a], attempt[a].seq + 1, status)
      BY <3>1 DEF RunnerEvent
    <3>4. EventEffect(a, status)
      BY <1>0, <3>2, <3>3, EventEffects
    <3>5. DOMAIN request' = {} /\ DOMAIN found' = {} /\ DOMAIN local' = {}
      BY <3>1 DEF RunnerEvent, Undisturbed, execution
    <3> QED
      BY <3>4, <3>5, NothingOpen DEF RowsStep
  <2>3. CASE RunnerGoesStale(r)
    BY <2>3, QuietAlone DEF RunnerGoesStale, execution
  <2>4. CASE Join(r)
    BY <2>4, QuietAlone DEF Join, execution
  <2>5. CASE Heartbeat(r)
    BY <2>5, QuietAlone DEF Heartbeat, execution
  <2>6. ASSUME NEW state \in AdminStates, SetAdminState(r, state) PROVE Alone' /\ RowsStep
    BY <2>6, QuietAlone DEF SetAdminState, execution
  <2> QED
    BY <1>2, <2>1, <2>2, <2>3, <2>4, <2>5, <2>6 DEF Fleet
<1>3. ASSUME NEW a \in Attempts, LeaseExpires(a) PROVE Alone' /\ RowsStep
  BY <1>3, QuietAlone DEF LeaseExpires, execution
<1>4. CASE SweepRead
  BY <1>4, QuietAlone DEF SweepRead, execution
<1>5. CASE SweepOpen
  <2>1. /\ DOMAIN request' = {} /\ DOMAIN local' = {}
        /\ UNCHANGED <<pipeline, job, attempt>>
    BY <1>5 DEF SweepOpen, Undisturbed, execution
  <2>2. PICK h \in sweep : found' = [a \in {h.attempt} |-> attempt[a]]
    BY <1>5 DEF SweepOpen
  <2> QED
    BY <2>1, <2>2 DEF Alone, RowsStep
<1>6. CASE SweepStep
  <2>1. PICK h \in sweep : /\ h.attempt \in DOMAIN found
                           /\ SweepLost(h) \/ SweepSkip(h) \/ SweepHalt(h)
    BY <1>6 DEF SweepStep
  <2>2. DOMAIN request = {} /\ DOMAIN local = {}
    BY <2>1 DEF Alone
  <2>3. DOMAIN request' = {} /\ DOMAIN found' = {} /\ DOMAIN local' = {}
    BY <1>6, <2>2 DEF SweepStep, execution
  <2>4. /\ h.attempt \in DOMAIN attempt /\ h.seq \in Nat
        /\ found[h.attempt] = attempt[h.attempt]
    BY <1>0, <2>1 DEF TypeOK, Alone
  <2>5. CASE SweepLost(h)
    <3>1. ApplyEvent(h.attempt, attempt[h.attempt], h.seq, "failed")
      BY <2>4, <2>5 DEF SweepLost
    <3>2. "failed" \in AttemptStatus
      BY DEF AttemptStatus, TerminalAttempt
    <3>3. EventEffect(h.attempt, "failed")
      BY <1>0, <2>4, <3>1, <3>2, EventEffects
    <3> QED
      BY <2>3, <2>4, <3>2, <3>3, NothingOpen DEF RowsStep
  <2>6. CASE SweepSkip(h) \/ SweepHalt(h)
    BY <2>3, <2>6, NothingOpen DEF SweepSkip, SweepHalt, RowsStep
  <2> QED
    BY <2>1, <2>5, <2>6
<1>7. CASE UNCHANGED db
  BY <1>7, QuietAlone DEF db
<1>8. ASSUME NEW a \in Attempts, LocalExecution(a) PROVE Alone' /\ RowsStep
  <2>1. ASSUME NEW j \in Jobs, ClaimLocal(j, a) PROVE Alone' /\ RowsStep
    <3>1. DOMAIN request' = {} /\ DOMAIN found' = {} /\ DOMAIN local' = {}
      BY <2>1 DEF ClaimLocal, ClaimNextJob, Undisturbed
    <3>2. Local \in Owners /\ ClaimNextJob(Local, j, a)
      BY <2>1 DEF ClaimLocal, Owners
    <3> QED
      BY <3>1, <3>2, NothingOpen DEF RowsStep
  <2>2. CASE LocalReads(a)
    <3>1. /\ DOMAIN request' = {} /\ DOMAIN found' = {} /\ DOMAIN local = {}
          /\ UNCHANGED <<pipeline, job, attempt>>
      BY <2>2 DEF LocalReads, Undisturbed
    <3>2. DOMAIN local' = {a} /\ local'[a].row = attempt'[a]
      BY <2>2, <3>1 DEF LocalReads
    <3> QED
      BY <3>1, <3>2 DEF Alone, RowsStep
  <2>3. CASE LocalWrites(a)
    BY <1>0, <2>3, LocalWritesAlone
  <2>4. CASE LocalCrash(a)
    <3>1. WorkersGoOn
      BY <1>0, <2>4, GoesOnFacts DEF LocalCrash
    <3> QED
      BY <2>4, <3>1, QuietAlone DEF LocalCrash, WorkersGoOn
  <2> QED
    BY <1>8, <2>1, <2>2, <2>3, <2>4 DEF LocalExecution
<1> QED
  BY <1>1, <1>2, <1>3, <1>4, <1>5, <1>6, <1>7, <1>8 DEF Next

---------------------------------------------------------------------------
(* The theorems *)

\* Rows that nothing writes.
LEMMA SameRows ==
  ASSUME RowInv, UNCHANGED <<pipeline, job, attempt>>
  PROVE  RowInv'
  BY DEF RowInv, Unstarted, Numbered, OneActiveAttempt, OwnedJobs, VerdictSound,
         NotStranded, NeedsEnded, LatestAttemptDecides, ActiveAttempts, Active, AttemptsOf

\* The inductive step of the theorems below.
LEMMA IsolatedStep ==
  ASSUME IsolatedInv, Isolated, JobGraphAssumption, ControlPlaneAssumption, [Next]_db
  PROVE  IsolatedInv'
<1>1. IInv /\ Alone /\ RowInv /\ CapacityBound /\ TypeOK
  BY DEF IsolatedInv, IInv
<1>2. IInv' /\ Alone' /\ RowsStep
  BY <1>1, IInvStep, IsolatedSteps
<1>3. pipeline' \in [Pipelines -> PipelineStatus] /\ job' \in [Jobs -> JobStatus]
  BY <1>2 DEF IInv, TypeOK
<1>4. RowInv'
  <2>1. CASE UNCHANGED <<pipeline, job, attempt>>
    BY <1>1, <2>1, SameRows
  <2>2. ASSUME NEW p \in Pipelines, UNCHANGED attempt, OnlyPipeline(p),
               QueueEffect(p) \/ CancelEffect(p) \/ RerunEffect(p)
        PROVE  RowInv'
    BY <1>1, <1>3, <2>2, CommitKeepsRows
  <2>3. ASSUME NEW o \in Owners, NEW j \in Jobs, NEW a \in Attempts, ClaimNextJob(o, j, a)
        PROVE  RowInv'
    BY <1>1, <2>3, ClaimKeepsRows
  <2>4. ASSUME NEW a \in DOMAIN attempt, NEW status \in AttemptStatus, EventEffect(a, status)
        PROVE  RowInv'
    BY <1>1, <1>3, <2>4, EventKeepsRows
  <2> QED
    BY <1>2, <2>1, <2>2, <2>3, <2>4 DEF RowsStep
<1>5. CapacityBound'
  <2>1. CASE UNCHANGED attempt
    BY <1>1, <2>1 DEF CapacityBound, ActiveInRepository, ActiveAttempts, Active
  <2>2. ASSUME NEW o \in Owners, NEW j \in Jobs, NEW a \in Attempts, ClaimNextJob(o, j, a)
        PROVE  CapacityBound'
    BY <1>1, <2>2, ClaimKeepsCapacity
  <2>3. ASSUME NEW a \in DOMAIN attempt, NEW status \in AttemptStatus, EventEffect(a, status)
        PROVE  CapacityBound'
    BY <1>1, <2>3, EventKeepsCapacity
  <2> QED
    BY <1>2, <2>1, <2>2, <2>3 DEF RowsStep
<1> QED
  BY <1>2, <1>4, <1>5 DEF IsolatedInv

\* Nothing runs at first: pipelines are created, and the jobs queued are those
\* that need nothing.
LEMMA IsolatedInit ==
  ASSUME Init, JobGraphAssumption, ControlPlaneAssumption
  PROVE  IsolatedInv
<1>1. /\ DOMAIN attempt = {} /\ DOMAIN request = {} /\ DOMAIN found = {}
      /\ DOMAIN local = {}
  BY DEF Init
<1>2. Alone
  BY <1>1 DEF Alone
<1>3. /\ \A p \in Pipelines : pipeline[p] = "created"
      /\ \A j \in Jobs : /\ job[j] \in {"blocked", "queued"}
                         /\ job[j] = "queued" => Needs[j] = {}
  BY DEF Init, InitialJob
<1>4. ActiveAttempts = {}
  BY <1>1 DEF ActiveAttempts
<1>5. Unstarted /\ Numbered /\ OneActiveAttempt
  BY <1>1, <1>3, <1>4 DEF Unstarted, Numbered, OneActiveAttempt
<1>6. OwnedJobs /\ NeedsEnded /\ LatestAttemptDecides
  BY <1>3, <1>4 DEF OwnedJobs, NeedsEnded, LatestAttemptDecides, OwnedJob
<1>7. VerdictSound /\ NotStranded
  BY <1>3 DEF VerdictSound, NotStranded, TerminalPipeline
<1>8. CapacityBound
  <2>1. Cardinality({}) = 0
    BY FS_EmptySet
  <2>2. \A p \in Pipelines : ActiveInRepository(RepositoryOf[p]) = {}
    BY <1>4 DEF ActiveInRepository
  <2> QED
    BY <1>4, <2>1, <2>2 DEF CapacityBound, ControlPlaneAssumption
<1> QED
  BY <1>2, <1>5, <1>6, <1>7, <1>8, IInvInit DEF IsolatedInv, RowInv

\* When the unlocked transactions run alone, the rows of pipelines, jobs and
\* attempts agree at any time: the inductive invariant of what follows.
THEOREM IsolatedInvariance == Isolated => (Spec => []IsolatedInv)
<1>1. Init => IsolatedInv
  BY IsolatedInit, JobGraphAssumption, ControlPlaneAssumption
<1>2. Isolated /\ IsolatedInv /\ [Next]_db => IsolatedInv'
  BY IsolatedStep, JobGraphAssumption, ControlPlaneAssumption
<1>3. ASSUME Isolated PROVE Spec => []IsolatedInv
  <2>1. IsolatedInv /\ [Next]_db => IsolatedInv'
    BY <1>2, <1>3
  <2> QED
    BY <1>1, <2>1, PTL DEF Spec
<1> QED
  BY <1>3

\* PLAT-001: the instance and every repository stay within their limits, with
\* the attempts of the control plane itself counted like those of runners.
THEOREM CapacityHolds == Isolated => (Spec => []CapacityBound)
<1>1. IsolatedInv => CapacityBound
  BY DEF IsolatedInv
<1> QED
  BY <1>1, IsolatedInvariance, PTL

\* PLAT-001 FR-4, for every fleet: claims, retries and reruns never give a job
\* two active attempts.
THEOREM OneActiveAttemptHolds == Isolated => (Spec => []OneActiveAttempt)
<1>1. IsolatedInv => OneActiveAttempt
  BY DEF IsolatedInv, RowInv
<1> QED
  BY <1>1, IsolatedInvariance, PTL

\* A job is running or cancelling exactly as long as an attempt works on it.
THEOREM OwnedJobsHolds == Isolated => (Spec => []OwnedJobs)
<1>1. IsolatedInv => OwnedJobs
  BY DEF IsolatedInv, RowInv
<1> QED
  BY <1>1, IsolatedInvariance, PTL

\* The verdict of a finished pipeline is that of its jobs, which all ended, also
\* after it was cancelled, retried or run again.
THEOREM VerdictSoundHolds == Isolated => (Spec => []VerdictSound)
<1>1. IsolatedInv => VerdictSound
  BY DEF IsolatedInv, RowInv
<1> QED
  BY <1>1, IsolatedInvariance, PTL

\* A running pipeline has a job that is queued or owned: on a graph without
\* circles the release of the blocked jobs leaves nothing to wait for.
THEOREM NotStrandedHolds == Isolated => (Spec => []NotStranded)
<1>1. IsolatedInv => NotStranded
  BY DEF IsolatedInv, RowInv
<1> QED
  BY <1>1, IsolatedInvariance, PTL

\* WF-003 FR-9: what a job that is queued or runs depends on has ended.
THEOREM NeedsEndedHolds == Isolated => (Spec => []NeedsEnded)
<1>1. IsolatedInv => NeedsEnded
  BY DEF IsolatedInv, RowInv
<1> QED
  BY <1>1, IsolatedInvariance, PTL

\* The status of a job that succeeded or failed is that of its newest attempt.
THEOREM LatestAttemptDecidesHolds == Isolated => (Spec => []LatestAttemptDecides)
<1>1. IsolatedInv => LatestAttemptDecides
  BY DEF IsolatedInv, RowInv
<1> QED
  BY <1>1, IsolatedInvariance, PTL

\* Only a retry reopens a finished pipeline: an event finds its pipeline under
\* way, and a cancellation that ran alone found it cancellable.
THEOREM TerminalPipelineIsKept == Isolated => (Spec => TerminalPipelineKept)
<1> DEFINE StaysFinal == \A p \in Pipelines : pipeline[p] \in TerminalPipeline =>
                           \/ pipeline'[p] = pipeline[p]
                           \/ pipeline[p] \in {"failed", "cancelled"} /\ pipeline'[p] = "running"
<1>1. ASSUME Isolated, IsolatedInv, [Next]_db PROVE StaysFinal
  <2>1. RowsStep /\ TypeOK
    BY <1>1, IsolatedSteps, JobGraphAssumption, ControlPlaneAssumption DEF IsolatedInv, IInv
  <2>2. CASE UNCHANGED <<pipeline, job, attempt>>
    BY <2>2
  <2>3. ASSUME NEW p \in Pipelines, OnlyPipeline(p),
               QueueEffect(p) \/ CancelEffect(p) \/ RerunEffect(p)
        PROVE  StaysFinal
    BY <2>3 DEF OnlyPipeline, QueueEffect, QueuedStatus, CancelEffect, RerunEffect,
               Cancellable, Retryable,
                TerminalPipeline
  <2>4. ASSUME NEW o \in Owners, NEW j \in Jobs, NEW a \in Attempts, ClaimNextJob(o, j, a)
        PROVE  StaysFinal
    BY <2>1, <2>4 DEF ClaimNextJob, Candidate, TypeOK, TerminalPipeline
  <2>5. ASSUME NEW a \in DOMAIN attempt, NEW status \in AttemptStatus, EventEffect(a, status)
        PROVE  StaysFinal
    BY <2>5 DEF EventEffect, TerminalPipeline
  <2> QED
    BY <2>1, <2>2, <2>3, <2>4, <2>5 DEF RowsStep
<1>2. ASSUME Isolated PROVE Spec => TerminalPipelineKept
  <2>1. IsolatedInv /\ [Next]_db => [StaysFinal]_db
    BY <1>1, <1>2
  <2>2. Spec => []IsolatedInv
    BY <1>2, IsolatedInvariance
  <2> QED
    BY <2>1, <2>2, PTL DEF Spec, TerminalPipelineKept
<1> QED
  BY <1>2

---------------------------------------------------------------------------
(* Jobs wait for the success of their needs *)

\* A rerun cannot start a job behind the back of its needs if the producers of
\* artifacts that may expire have none.
ProducersNeedNothing == \A n \in Perishable : Needs[n] = {}

\* Requests that are committed: a job keeps its place behind its needs.
LEMMA CommitKeepsWaiting ==
  ASSUME TypeOK, RowInv, NeedsMet, JobGraphAssumption, ProducersNeedNothing,
         NEW p \in Pipelines, OnlyPipeline(p),
         QueueEffect(p) \/ CancelEffect(p) \/ RerunEffect(p)
  PROVE  NeedsMet'
<1>1. \A j \in Jobs : \A n \in Needs[j] : n \in Jobs /\ PipelineOf[n] = PipelineOf[j]
  BY DEF JobGraphAssumption
<1>2. CASE QueueEffect(p)
  BY <1>1, <1>2 DEF QueueEffect, NeedsMet
<1>3. CASE CancelEffect(p)
  <2>1. \A j \in Jobs : /\ job'[j] # "queued" \/ job'[j] = job[j]
                        /\ job'[j] \in OwnedJob => job[j] \in OwnedJob
                        /\ job[j] \in TerminalJob => job'[j] = job[j]
    BY <1>3 DEF CancelEffect, OnlyPipeline, OwnedJob, TerminalJob
  <2> SUFFICES ASSUME NEW j \in Jobs, job'[j] \in {"queued"} \cup OwnedJob, NEW n \in Needs[j]
               PROVE  job'[n] # "cancelled" /\ (Condition[j] = "success" => job'[n] = "succeeded")
    BY DEF NeedsMet
  <2>2. job[j] \in {"queued"} \cup OwnedJob
    BY <2>1
  <2>3. job[n] \in TerminalJob
    BY <2>2 DEF RowInv, NeedsEnded
  <2> QED
    BY <1>1, <2>1, <2>2, <2>3 DEF NeedsMet
<1>4. CASE RerunEffect(p)
  <2>1. \A j \in JobsOf(p) : job[j] \in TerminalJob
    BY <1>4 DEF RerunEffect, Retryable, TerminalPipeline, VerdictSound, RowInv
  <2>2. PICK again \in SUBSET JobsOf(p) :
          /\ \A k \in again : job'[k] \in {"blocked", "queued"}
          /\ \A k \in JobsOf(p) \ again : job'[k] = job[k]
          /\ \A k \in again : job'[k] = "queued" =>
               /\ Needs[k] \cap again = {}
               /\ k \notin Perishable => \A n \in Needs[k] : job[n] = "succeeded"
    BY <1>4 DEF RerunEffect
  <2>3. \A k \in Jobs \ again : job'[k] = job[k]
    BY <2>2 DEF OnlyPipeline
  <2> SUFFICES ASSUME NEW j \in Jobs, job'[j] \in {"queued"} \cup OwnedJob, NEW n \in Needs[j]
               PROVE  job'[n] # "cancelled" /\ (Condition[j] = "success" => job'[n] = "succeeded")
    BY DEF NeedsMet
  <2>4. CASE j \in again
    <3>1. job'[j] = "queued"
      BY <2>2, <2>4 DEF OwnedJob
    <3>2. n \notin again /\ job[n] = "succeeded"
      BY <2>2, <2>4, <3>1 DEF ProducersNeedNothing
    <3> QED
      BY <1>1, <2>3, <3>2
  <2>5. CASE j \notin again
    <3>1. job'[j] = job[j]
      BY <2>3, <2>5
    <3>2. j \notin JobsOf(p)
      BY <2>1, <3>1 DEF TerminalJob, OwnedJob
    <3>3. n \in Jobs \ again
      BY <1>1, <3>2 DEF JobsOf
    <3> QED
      BY <2>3, <3>1, <3>3 DEF NeedsMet
  <2> QED
    BY <2>4, <2>5
<1> QED
  BY <1>2, <1>3, <1>4

\* Events: the needs of a job that already started have ended, and a job is
\* released only under its condition.
LEMMA EventKeepsWaiting ==
  ASSUME TypeOK, RowInv, NeedsMet, JobGraphAssumption,
         NEW a \in DOMAIN attempt, NEW status \in AttemptStatus, EventEffect(a, status)
  PROVE  NeedsMet'
<1> DEFINE j == attempt[a].job
           waits(k) == job[k] = "blocked" /\ k \in JobsOf(PipelineOf[j])
<1>1. /\ job[j] \in OwnedJob
      /\ \A k \in Jobs \ {j} : IF waits(k) THEN job'[k] = ReleaseTarget(k, job')
                                           ELSE job'[k] = job[k]
  BY DEF EventEffect
<1>2. \A n \in Jobs : job[n] \in TerminalJob => job'[n] = job[n]
  BY <1>1 DEF OwnedJob, TerminalJob
<1> SUFFICES ASSUME NEW k \in Jobs, job'[k] \in {"queued"} \cup OwnedJob, NEW n \in Needs[k]
             PROVE  job'[n] # "cancelled" /\ (Condition[k] = "success" => job'[n] = "succeeded")
  BY DEF NeedsMet
<1>3. CASE k # j /\ waits(k)
  <2>1. ReleaseTarget(k, job') = "queued"
    BY <1>1, <1>3 DEF ReleaseTarget, OwnedJob
  <2> QED
    BY <2>1 DEF ReleaseTarget
<1>4. CASE ~ (k # j /\ waits(k))
  <2>1. job[k] \in {"queued"} \cup OwnedJob
    BY <1>1, <1>4
  <2>2. n \in Jobs /\ job[n] \in TerminalJob
    BY <2>1 DEF RowInv, NeedsEnded, JobGraphAssumption
  <2> QED
    BY <1>2, <2>1, <2>2 DEF NeedsMet
<1> QED
  BY <1>3, <1>4

\* Claims take a job that was queued.
LEMMA ClaimKeepsWaiting ==
  ASSUME TypeOK, RowInv, NeedsMet, JobGraphAssumption,
         NEW o \in Owners, NEW j \in Jobs, NEW a \in Attempts, ClaimNextJob(o, j, a)
  PROVE  NeedsMet'
<1>1. /\ job[j] = "queued" /\ job'[j] = "running"
      /\ \A k \in Jobs \ {j} : job'[k] = job[k]
  BY DEF ClaimNextJob, Candidate, TypeOK
<1> SUFFICES ASSUME NEW k \in Jobs, job'[k] \in {"queued"} \cup OwnedJob, NEW n \in Needs[k]
             PROVE  job'[n] # "cancelled" /\ (Condition[k] = "success" => job'[n] = "succeeded")
  BY DEF NeedsMet
<1>2. job[k] \in {"queued"} \cup OwnedJob
  BY <1>1
<1>3. n \in Jobs /\ job[n] \in TerminalJob
  BY <1>2 DEF RowInv, NeedsEnded, JobGraphAssumption
<1>4. n # j
  BY <1>1, <1>3 DEF TerminalJob
<1> QED
  BY <1>1, <1>2, <1>3, <1>4 DEF NeedsMet

\* WF-001 FR-10: no job is queued or runs with a need that was cancelled, nor,
\* unless it asked for it, with one that did not succeed; as long as what is run
\* again for its artifacts has no needs of its own.
THEOREM JobsWaitForNeedsHolds ==
  Isolated /\ ProducersNeedNothing => (Spec => []JobsWaitForNeeds)
<1>1. Init => NeedsMet
  BY DEF Init, InitialJob, NeedsMet, OwnedJob
<1>2. ASSUME Isolated, ProducersNeedNothing, IsolatedInv, NeedsMet, [Next]_db
      PROVE  NeedsMet'
  <2>1. RowsStep /\ TypeOK /\ RowInv /\ JobGraphAssumption
    BY <1>2, IsolatedSteps, JobGraphAssumption, ControlPlaneAssumption DEF IsolatedInv, IInv
  <2>2. CASE UNCHANGED <<pipeline, job, attempt>>
    BY <1>2, <2>2 DEF NeedsMet
  <2>3. ASSUME NEW p \in Pipelines, OnlyPipeline(p),
               QueueEffect(p) \/ CancelEffect(p) \/ RerunEffect(p)
        PROVE  NeedsMet'
    BY <1>2, <2>1, <2>3, CommitKeepsWaiting
  <2>4. ASSUME NEW o \in Owners, NEW j \in Jobs, NEW a \in Attempts, ClaimNextJob(o, j, a)
        PROVE  NeedsMet'
    BY <1>2, <2>1, <2>4, ClaimKeepsWaiting
  <2>5. ASSUME NEW a \in DOMAIN attempt, NEW status \in AttemptStatus, EventEffect(a, status)
        PROVE  NeedsMet'
    BY <1>2, <2>1, <2>5, EventKeepsWaiting
  <2> QED
    BY <2>1, <2>2, <2>3, <2>4, <2>5 DEF RowsStep
<1>3. ASSUME Isolated, ProducersNeedNothing PROVE Spec => []JobsWaitForNeeds
  <2>1. IsolatedInv /\ NeedsMet /\ [Next]_db => NeedsMet'
    BY <1>2, <1>3
  <2>2. Spec => []IsolatedInv
    BY <1>3, IsolatedInvariance
  <2>3. IsolatedInv /\ NeedsMet => JobsWaitForNeeds
    BY DEF IsolatedInv, RowInv, JobsWaitForNeeds
  <2> QED
    BY <1>1, <2>1, <2>2, <2>3, PTL DEF Spec
<1> QED
  BY <1>3

=============================================================================
