--------------------------- MODULE RunnerProtocol ---------------------------
(***************************************************************************)
(* One remote runner (runner-go/internal/runner) and the control plane     *)
(* (RobineWeb.RunnerChannel and the use cases it calls) over a WebSocket   *)
(* that breaks and is joined again.                                        *)
(*                                                                         *)
(* What travels is a set of messages: each handler of the runner is its    *)
(* own goroutine, so offers are taken in any order; a request sent on a    *)
(* session that broke may still be handled by the old channel process, or  *)
(* be lost.  The runner repeats a request, with the same message id, on    *)
(* the next session until it is answered.                                  *)
(*                                                                         *)
(* A transaction of the server is one step: its runner events lock the     *)
(* attempt.  What the unlocked ones can do is LocalRunner's subject, and   *)
(* which attempts are claimed for which runner ControlPlane's.             *)
(***************************************************************************)
EXTENDS Lifecycle

CONSTANTS
  Attempts,     \* attempts the scheduler may claim for this runner
  MaxSessions,  \* bound on the sessions joined
  MayRestart,   \* whether the runner process may die and start again
  MayCancel,    \* whether users cancel jobs
  MayTimeOut    \* whether the delivery of an outcome may exceed 30 s

ASSUME RunnerProtocolAssumption ==
  /\ MaxSessions \in Nat \ {0}
  /\ {MayRestart, MayCancel, MayTimeOut} \subseteq BOOLEAN

VARIABLES
  \* control plane, durable
  attempt,   \* status, last_sequence and lapsed lease of each attempt
  job,       \* status of the job of each attempt
  claimed,   \* attempts inserted by ClaimNextJob
  receipts,  \* ids of the recorded messages: the runner_events table
  \* the connection
  up,        \* whether the channel is joined
  session,   \* number of the last session
  wire,      \* requests on their way to the server
  offers,    \* offers on their way to acceptOffer
  told,      \* cancellations on their way to HandleHeartbeat
  \* the runner
  exec,      \* executions: the stage of each attempt and whether it was cancelled
  requests,  \* calls of Request that have not returned
  taken,     \* offers taken of each attempt: makes message ids fresh
  \* history, read by no action
  started,   \* how often the steps of each attempt were started
  acked      \* the outcome of each attempt the server has acknowledged

server == <<attempt, job, claimed, receipts>>
runner == <<exec, requests, taken, started, acked>>
vars == <<server, up, session, wire, offers, told, runner>>

Kinds == {"accept", "reject", "start", "unprepared", "report"}
Stages == (Kinds \ {"reject"}) \cup {"idle", "prepare", "execute"}
MessageIds == Attempts \X Kinds \X Nat
Answers == {"ok", "refused"}

TypeOK ==
  /\ attempt \in [Attempts -> [status : AttemptStatus, seq : 0..4, lapsed : BOOLEAN]]
  /\ job \in [Attempts -> JobStatus]
  /\ claimed \subseteq Attempts
  /\ receipts \subseteq MessageIds
  /\ up \in BOOLEAN /\ session \in 1..MaxSessions
  /\ wire \subseteq [id : MessageIds, attempt : Attempts, seq : 1..3,
                     status : AttemptStatus, session : 1..MaxSessions]
  /\ offers \subseteq [attempt : Attempts, session : 0..MaxSessions]
  /\ told \subseteq Attempts
  /\ exec \in [Attempts -> [stage : Stages, cancelled : BOOLEAN]]
  /\ requests \subseteq [id : MessageIds, attempt : Attempts, kind : Kinds, seq : 1..3,
                         status : AttemptStatus, sent : 0..MaxSessions,
                         reply : Answers \cup {"none"}]
  /\ taken \in [Attempts -> Nat]
  /\ started \in [Attempts -> Nat]
  /\ acked \in [Attempts -> TerminalAttempt \cup {"none"}]

Idle == [stage |-> "idle", cancelled |-> FALSE]

Init ==
  /\ attempt = [a \in Attempts |-> [status |-> "queued", seq |-> 0, lapsed |-> FALSE]]
  /\ job = [a \in Attempts |-> "running"]
  /\ claimed = {} /\ receipts = {}
  /\ up = TRUE /\ session = 1
  /\ wire = {} /\ offers = {} /\ told = {}
  /\ exec = [a \in Attempts |-> Idle]
  /\ requests = {}
  /\ taken = [a \in Attempts |-> 0]
  /\ started = [a \in Attempts |-> 0]
  /\ acked = [a \in Attempts |-> "none"]

\* list_active_attempts_for_runner.
ActiveAttempts == {a \in claimed : attempt[a].status \in ActiveAttempt}

---------------------------------------------------------------------------
(* The connection *)

\* Mutant: join answers without pushing the offers of active attempts again.
Resumed_Nothing(n) == {}

\* The job_offer messages handle_info(:resume_offers) pushes after join n.
Resumed(n) == [attempt : ActiveAttempts, session : {n}]

\* join on both sides.  The reply lists the attempts this runner reported and
\* the server does not have active as `lease_lost'; channelClient.join reads
\* the protocol version only.
Join ==
  /\ ~ up /\ session < MaxSessions
  /\ up' = TRUE /\ session' = session + 1
  /\ offers' = offers \cup Resumed(session + 1)
  /\ UNCHANGED <<server, wire, told, runner>>

\* The socket closes or the server restarts.  What the runner has not read is
\* lost; requests stay with the old channel process until handled or lost.
Disconnect ==
  /\ up
  /\ up' = FALSE
  /\ offers' \in SUBSET offers
  /\ told' = {}
  /\ UNCHANGED <<server, session, wire, runner>>

Lose(w) ==
  /\ ~ up \/ w.session # session
  /\ wire' = wire \ {w}
  /\ UNCHANGED <<server, up, session, offers, told, runner>>

\* The runner process dies; its executions die with it.
Restart ==
  /\ MayRestart
  /\ up' = FALSE
  /\ offers' = {} /\ told' = {}
  /\ exec' = [a \in Attempts |-> Idle]
  /\ requests' = {}
  /\ UNCHANGED <<server, session, wire, taken, started, acked>>

---------------------------------------------------------------------------
(* The control plane *)

\* dispatch_remote: the claim commits, then the offer is broadcast to the
\* channel process of the runner, if there is one.
Dispatch(a) ==
  /\ a \notin claimed /\ ActiveAttempts = {}
  /\ claimed' = claimed \cup {a}
  /\ offers' = IF up THEN offers \cup {[attempt |-> a, session |-> 0]} ELSE offers
  /\ UNCHANGED <<attempt, job, receipts, up, session, wire, told, runner>>

Receipted(w) == w.id \in receipts

\* apply_event succeeds: for a terminal status the job must move too.
Recordable(w) ==
  /\ Records(attempt[w.attempt], w.seq, w.status)
  /\ w.status \in TerminalAttempt => w.status \in JobMoves[job[w.attempt]]

\* Mutant: a sequence already recorded is a repetition, whoever sent it.
Answer_BySequence(w) ==
  IF w.seq <= attempt[w.attempt].seq \/ Recordable(w) THEN "ok" ELSE "refused"

\* remote_event_outcome: a repetition is recognised by its message id; any
\* other message with a sequence already recorded is stale.
Answer(w) == IF Receipted(w) \/ Recordable(w) THEN "ok" ELSE "refused"

\* RecordRunnerEvent.call for a runner, and the reply of the channel, which
\* reaches the call of Request that waits for it on this session, if any.
Serve(w) ==
  LET a == w.attempt
      records == ~ Receipted(w) /\ Recordable(w)
  IN /\ wire' = wire \ {w}
     /\ attempt' = IF records
                   THEN [attempt EXCEPT ![a].status = w.status, ![a].seq = w.seq]
                   ELSE attempt
     /\ job' = IF records /\ w.status \in TerminalAttempt
               THEN [job EXCEPT ![a] = w.status] ELSE job
     /\ receipts' = IF records THEN receipts \cup {w.id} ELSE receipts
     /\ requests' = {IF up /\ r.id = w.id /\ r.sent = w.session /\ w.session = session
                     THEN [r EXCEPT !.reply = Answer(w)] ELSE r : r \in requests}
     /\ UNCHANGED <<claimed, up, session, offers, told, exec, taken, started, acked>>

\* heartbeat: renews every active lease and answers with cancellations.  The code
\* asks for the status of the pipeline; CancelPipeline has set it together with
\* that of the running job, and what a race between the two may leave is
\* ControlPlane's subject.
Heartbeat ==
  /\ up
  /\ attempt' = [a \in Attempts |-> IF a \in ActiveAttempts
                                    THEN [attempt[a] EXCEPT !.lapsed = FALSE]
                                    ELSE attempt[a]]
  /\ told' = told \cup {a \in ActiveAttempts : job[a] = "cancelling"}
  /\ UNCHANGED <<job, claimed, receipts, up, session, wire, offers, runner>>

LeaseLapses(a) ==
  /\ a \in ActiveAttempts /\ ~ attempt[a].lapsed
  /\ attempt' = [attempt EXCEPT ![a].lapsed = TRUE]
  /\ UNCHANGED <<job, claimed, receipts, up, session, wire, offers, told, runner>>

\* ReconcileExpiredLeases records runner_lost for an expired attempt.
Sweep(a) ==
  /\ a \in ActiveAttempts /\ attempt[a].lapsed
  /\ attempt' = [attempt EXCEPT ![a].status = "failed", ![a].seq = @ + 1]
  /\ job' = [job EXCEPT ![a] = "failed"]
  /\ UNCHANGED <<claimed, receipts, up, session, wire, offers, told, runner>>

Cancel(a) ==
  /\ MayCancel /\ a \in claimed /\ job[a] = "running"
  /\ job' = [job EXCEPT ![a] = "cancelling"]
  /\ UNCHANGED <<attempt, claimed, receipts, up, session, wire, offers, told, runner>>

---------------------------------------------------------------------------
(* Requests of the runner *)

\* Mutant: a runner that could not prepare the job reports it as skipped.
EventOf_Skipped(kind, outcome) ==
  CASE kind = "accept"     -> [seq |-> 1, status |-> "preparing"]
    [] kind = "reject"     -> [seq |-> 1, status |-> "failed"]
    [] kind = "start"      -> [seq |-> 2, status |-> "running"]
    [] kind = "unprepared" -> [seq |-> 2, status |-> "skipped"]
    [] kind = "report"     -> [seq |-> 3, status |-> outcome]

EventOf(kind, outcome) ==
  CASE kind = "accept"     -> [seq |-> 1, status |-> "preparing"]
    [] kind = "reject"     -> [seq |-> 1, status |-> "failed"]
    [] kind = "start"      -> [seq |-> 2, status |-> "running"]
    [] kind = "unprepared" -> [seq |-> 2, status |-> "failed"]
    [] kind = "report"     -> [seq |-> 3, status |-> outcome]

Request(a, kind, nonce, outcome) ==
  [id |-> <<a, kind, nonce>>, attempt |-> a, kind |-> kind,
   seq |-> EventOf(kind, outcome).seq, status |-> EventOf(kind, outcome).status,
   sent |-> 0, reply |-> "none"]

\* Request writes the frame once per session.
Send(r) ==
  /\ up /\ r.sent # session
  /\ wire' = wire \cup {[id |-> r.id, attempt |-> r.attempt, seq |-> r.seq,
                         status |-> r.status, session |-> session]}
  /\ requests' = (requests \ {r}) \cup {[r EXCEPT !.sent = session, !.reply = "none"]}
  /\ UNCHANGED <<server, up, session, offers, told, exec, taken, started, acked>>

\* Mutant: the error a request returns is ignored.
StageAfter_ErrorIgnored(kind, reply) ==
  CASE kind = "accept" -> "prepare"
    [] kind = "start"  -> "execute"
    [] OTHER           -> "idle"

\* Where the execution goes when its request returns.
StageAfter(kind, reply) ==
  CASE kind = "accept" /\ reply = "ok" -> "prepare"
    [] kind = "start" /\ reply = "ok"  -> "execute"
    [] OTHER                           -> "idle"

EnterStage(a, stage) ==
  exec' = [exec EXCEPT ![a] = IF stage = "idle" THEN Idle ELSE [@ EXCEPT !.stage = stage]]

\* Request returns with an answer.
Answered(r) ==
  /\ r.reply # "none"
  /\ requests' = requests \ {r}
  /\ IF r.kind = "reject" THEN UNCHANGED exec
     ELSE EnterStage(r.attempt, StageAfter(r.kind, r.reply))
  /\ started' = IF r.kind = "start" /\ r.reply = "ok"
                THEN [started EXCEPT ![r.attempt] = @ + 1] ELSE started
  /\ acked' = IF r.reply = "ok" /\ r.status \in TerminalAttempt
              THEN [acked EXCEPT ![r.attempt] = r.status] ELSE acked
  /\ UNCHANGED <<server, up, session, wire, offers, told, taken>>

\* job_accept and `running' are sent under the context of the execution: once
\* it is cancelled, Request may give up, and the execution is dropped.
Abandon(r) ==
  /\ r.kind \in {"accept", "start"} /\ exec[r.attempt].cancelled
  /\ requests' = requests \ {r}
  /\ EnterStage(r.attempt, "idle")
  /\ UNCHANGED <<server, up, session, wire, offers, told, taken, started, acked>>

\* A terminal event has a context of its own, of 30 seconds.
TimesOut(r) ==
  /\ MayTimeOut /\ r.kind \in {"unprepared", "report"}
  /\ requests' = requests \ {r}
  /\ EnterStage(r.attempt, "idle")
  /\ UNCHANGED <<server, up, session, wire, offers, told, taken, started, acked>>

---------------------------------------------------------------------------
(* Executions of the runner *)

\* acceptOffer: an attempt already executing is left alone, another one is
\* rejected while there is an execution.
TakeOffer(o) ==
  LET a == o.attempt
      kind == IF \E b \in Attempts : exec[b].stage # "idle" THEN "reject" ELSE "accept"
  IN /\ offers' = offers \ {o}
     /\ IF exec[a].stage # "idle" THEN UNCHANGED <<exec, requests, taken>>
        ELSE /\ taken' = [taken EXCEPT ![a] = @ + 1]
             /\ requests' = requests \cup {Request(a, kind, taken[a] + 1, "failed")}
             /\ IF kind = "accept" THEN EnterStage(a, "accept") ELSE UNCHANGED exec
     /\ UNCHANGED <<server, up, session, wire, told, started, acked>>

\* The execution asks the server to record an event, and waits.
Ask(a, kind, outcome) ==
  /\ requests' = requests \cup {Request(a, kind, taken[a], outcome)}
  /\ EnterStage(a, kind)
  /\ UNCHANGED <<server, up, session, wire, offers, told, taken, started, acked>>

\* runNative up to `running', or failPreparation.
Prepare(a) ==
  /\ exec[a].stage = "prepare"
  /\ \E kind \in {"start", "unprepared"} : Ask(a, kind, "failed")

\* runSteps ends; a cancellation may come too late to be seen.
Execute(a) ==
  /\ exec[a].stage = "execute"
  /\ \E outcome \in {"succeeded", "failed"}
                    \cup (IF exec[a].cancelled THEN {"cancelled"} ELSE {}) :
       Ask(a, "report", outcome)

HandleHeartbeat ==
  /\ told # {}
  /\ exec' = [a \in Attempts |-> IF a \in told /\ exec[a].stage # "idle"
                                 THEN [exec[a] EXCEPT !.cancelled = TRUE] ELSE exec[a]]
  /\ told' = {}
  /\ UNCHANGED <<server, up, session, wire, offers, requests, taken, started, acked>>

---------------------------------------------------------------------------
Next ==
  \/ Join \/ Disconnect \/ Restart
  \/ \E w \in wire : Lose(w) \/ Serve(w)
  \/ \E a \in Attempts : Dispatch(a) \/ LeaseLapses(a) \/ Sweep(a) \/ Cancel(a)
  \/ Heartbeat \/ HandleHeartbeat
  \/ \E r \in requests : Send(r) \/ Answered(r) \/ Abandon(r) \/ TimesOut(r)
  \/ \E o \in offers : TakeOffer(o)
  \/ \E a \in Attempts : Prepare(a) \/ Execute(a)

Spec == Init /\ [][Next]_vars

\* The runner reconnects for ever (as far as MaxSessions goes), sends a
\* heartbeat every 20 s, its goroutines and the channel process go on, steps
\* end (a job has a timeout), the sweep runs every minute, and the lease of a
\* runner that is gone runs out.
FairSpec ==
  /\ Spec
  /\ WF_vars(Join) /\ WF_vars(Heartbeat) /\ WF_vars(HandleHeartbeat)
  /\ WF_vars(\E w \in wire : Serve(w))
  /\ WF_vars(\E r \in requests : Send(r))
  /\ WF_vars(\E r \in requests : Answered(r))
  /\ WF_vars(\E o \in offers : TakeOffer(o))
  /\ \A a \in Attempts :
       WF_vars(Prepare(a) \/ Execute(a)) /\ WF_vars(Sweep(a)) /\ WF_vars(~ up /\ LeaseLapses(a))

---------------------------------------------------------------------------
(* Properties *)

\* The steps of an attempt are started once, whatever offers, sessions and
\* restarts there are: a job_accept is recorded under one message id only.
ExecutedOnce == \A a \in Attempts : started[a] <= 1

\* Nothing is prepared or executed before the server has recorded the very
\* acceptance of this execution, nor executed before its `running'.
AcceptanceRecorded ==
  \A a \in Attempts :
    /\ exec[a].stage \notin {"idle", "accept"} => <<a, "accept", taken[a]>> \in receipts
    /\ exec[a].stage \in {"execute", "report"} => <<a, "start", taken[a]>> \in receipts

\* An outcome the server acknowledged is the durable outcome of the attempt
\* and of its job, now and later.
AcknowledgedOutcomeKept ==
  \A a \in Attempts :
    acked[a] # "none" => attempt[a].status = acked[a] /\ job[a] = acked[a]

\* The protocol implements the abstract history of an attempt: each step of
\* rows, messages and executions is one step of it, or none.
History ==
  INSTANCE AttemptHistory WITH
    life <- [a \in Attempts |-> IF a \in claimed THEN attempt[a].status ELSE "waiting"],
    permitted <- {id[1] : id \in {r \in receipts : r[2] = "start"}},
    runs <- started,
    known <- acked

\* An attempt is offered, prepared, run and ended in this order and once, its
\* steps are started once, after `running' was recorded, and the runner is told
\* the outcome that was recorded.
ImplementsHistory == History!Spec

\* Every attempt given to the runner ends.
AttemptEnds ==
  \A a \in Attempts : (a \in claimed) ~> (attempt[a].status \in TerminalAttempt)

\* "Preserve exactly one durable outcome per attempt": when the report of an
\* outcome has been answered, the attempt has one.
ReportSettles ==
  \A r \in requests : r.kind = "report" /\ r.reply # "none"
                        => attempt[r.attempt].status \in TerminalAttempt

\* "A disconnected runner resumes an active attempt or learns that its lease
\* was lost": no execution of an ended attempt survives a join unnoticed.
LostLeaseLearned ==
  [][session' # session =>
       \A a \in Attempts : exec'[a].stage # "idle" /\ attempt[a].status \in TerminalAttempt
                             => exec'[a].cancelled]_vars
=============================================================================
