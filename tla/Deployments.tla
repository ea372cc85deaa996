---------------------------- MODULE Deployments ----------------------------
(***************************************************************************)
(* The control plane's half of native deployments (Robine.Deployments, its *)
(* Postgres repository, RunNextDeploymentWorker and the deployment messages*)
(* of RobineWeb.RunnerChannel).                                            *)
(*                                                                         *)
(* Every use case reads a row without a lock, computes the whole new row   *)
(* and hands it to a transaction that locks the row, compares the status   *)
(* (and, for a phase event, the sequence) with the one read, and replaces  *)
(* it.  A worker is a process in between: an Oban job, a LiveView or the   *)
(* channel of a runner.  The unique indexes are checked when a row is      *)
(* written.  A runner is its client's list of active deployments and the   *)
(* acceptances it was answered; it runs one phase after the other.         *)
(*                                                                         *)
(* The client of a runner sends an event once on a connection, and what    *)
(* was not acknowledged again when it has joined anew.  A channel whose    *)
(* connection broke finishes the message it handles, and its reply is      *)
(* lost; the messages still queued for it are taken as lost too.           *)
(***************************************************************************)
EXTENDS Naturals, FiniteSets

CONSTANTS
  Environments,
  Protected,       \* environments whose deployments need an approval
  ForwardOnly,     \* environments that may not be rolled back
  Artifacts,       \* digests of release artifacts
  Kinds,           \* kinds of deployment that are requested
  People,
  Administrators,
  Runners,
  Workers,         \* processes serving at the same time
  MaxDeployments,  \* bound on the deployments requested
  MaxAssignments,  \* bound on the assignments computed
  MaxSequence,     \* bound on event_sequence
  MaxFailures,     \* bound on broken connections, stops of the node and crashes
  MayDieAlone,     \* whether a process may crash by itself
  MayCancel,       \* whether people cancel deployments
  None

ASSUME DeploymentsAssumption ==
  /\ Protected \cup ForwardOnly \subseteq Environments
  /\ Administrators \subseteq People
  /\ Kinds \subseteq {"application", "platform", "rollback"}
  /\ {MaxDeployments, MaxAssignments, MaxSequence, MaxFailures} \subseteq Nat
  /\ 5 <= MaxSequence  \* a deployment may reach its verification
  /\ {MayDieAlone, MayCancel} \subseteq BOOLEAN
  /\ None \notin People \cup Runners

VARIABLES
  row,        \* the deployments table; ids are given in the order of requested_at
  recorded,   \* tokens whose acceptance is in deployment_events
  requests,   \* deployments computed so far
  tokens,     \* idempotency tokens generated so far
  failures,
  worker,     \* what each worker has in hand
  held,       \* assignments in the active_deployment_ids of the runners
  started,    \* acceptances answered: the runner executes them
  unanswered, \* deployments whose verifying event was sent and not acknowledged
  link,       \* of each runner: joined, away, or deaf (its channel died alone)
  replays     \* verifying events to be sent again since their runner joined

vars == <<row, recorded, requests, tokens, failures, worker, held, started, unanswered,
          link, replays>>
runners == <<held, started, unanswered, link, replays>>

Ids == 1..MaxDeployments
Tokens == 0..MaxAssignments
Executing == {"preparing", "converging_services", "migrating", "activating", "verifying"}
Pending == {"awaiting_approval", "queued"}
Final == {"succeeded", "failed", "cancelled"}
Status == Pending \cup Executing \cup Final \cup {"verification_failed"}

Row ==
  [status : Status, environment : Environments, artifact : Artifacts, kind : Kinds,
   requester : People, approver : People \cup {None},
   runner : Runners \cup {None}, token : Tokens, sequence : 0..MaxSequence]
ASSUME RowAssumption == None \notin Row

Assignment == [id : Ids, runner : Runners, token : Tokens]

Idle == [step |-> "idle"]

(* A worker is about to write a row ("insert", "update" or "event"), to    *)
(* broadcast an offer, to answer an acceptance, to verify, or to confirm   *)
(* the verifying event.  "via" is the runner whose channel it is, or None  *)
(* when no reply of it can reach a runner.                                 *)
Work ==
  {Idle}
  \cup [step : {"insert", "update", "event"}, via : Runners \cup {None},
        id : Ids, expected : Status, new : Row]
  \cup [step : {"offer", "answer"}, via : Runners \cup {None}, assignment : Assignment]
  \cup [step : {"verify", "confirm"}, via : Runners \cup {None}, id : Ids]

TypeOK ==
  /\ row \in [Ids -> Row \cup {None}]
  /\ recorded \subseteq Tokens
  /\ requests \in 0..MaxDeployments /\ tokens \in Tokens /\ failures \in 0..MaxFailures
  /\ \A w \in Workers : worker[w] \in Work
  /\ held \subseteq Assignment /\ started \subseteq held
  /\ unanswered \subseteq Ids /\ replays \subseteq Ids
  /\ link \in [Runners -> {"joined", "away", "deaf"}]

Init ==
  /\ row = [d \in Ids |-> None]
  /\ requests = 0 /\ tokens = 0 /\ failures = 0
  /\ worker = [w \in Workers |-> Idle]
  /\ recorded = {} /\ held = {} /\ started = {} /\ unanswered = {}
  /\ link = [r \in Runners |-> "joined"] /\ replays = {}

Stored == {d \in Ids : row[d] # None}
In(statuses) == {d \in Stored : row[d].status \in statuses}

-----------------------------------------------------------------------------
(* The domain: Deployment.                                                 *)

Transitions ==
  [awaiting_approval   |-> {"queued", "cancelled"},
   queued              |-> {"preparing", "cancelled", "failed"},
   preparing           |-> {"converging_services", "migrating", "cancelled", "failed"},
   converging_services |-> {"migrating", "cancelled", "failed"},
   migrating           |-> {"activating", "failed"},
   activating          |-> {"verifying", "failed"},
   verifying           |-> {"succeeded", "verification_failed", "failed"},
   verification_failed |-> {"verifying"},
   succeeded |-> {}, failed |-> {}, cancelled |-> {}]

Cancellable == {"awaiting_approval", "queued", "preparing", "converging_services"}

NeedsApproval(environment, kind) == environment \in Protected \/ kind = "platform"

\* A deployment starts in the first status the specification names.
NewDeployment_Requested(environment, artifact, kind, person) ==
  [status |-> "requested",
   environment |-> environment, artifact |-> artifact, kind |-> kind,
   requester |-> person, approver |-> None, runner |-> None, token |-> 0, sequence |-> 0]

NewDeployment(environment, artifact, kind, person) ==
  [status |-> IF NeedsApproval(environment, kind) THEN "awaiting_approval" ELSE "queued",
   environment |-> environment, artifact |-> artifact, kind |-> kind,
   requester |-> person, approver |-> None, runner |-> None, token |-> 0, sequence |-> 0]

\* The requester approves too.
MayApprove_Anyone(deployment, person) == deployment.status = "awaiting_approval"

MayApprove(deployment, person) ==
  /\ deployment.status = "awaiting_approval"
  /\ person # deployment.requester

Advanced(deployment, status) ==
  [deployment EXCEPT !.status = status, !.sequence = @ + 1]

-----------------------------------------------------------------------------
(* The repository: queries, unique indexes and compare-and-set writes.     *)

Equivalent(environment, artifact, kind) ==
  {d \in In(Pending \cup Executing \cup {"succeeded"}) :
     /\ row[d].environment = environment
     /\ row[d].artifact = artifact
     /\ row[d].kind = kind}

\* A row keeps its runner when it ends, and with it its environment.
Occupies(deployment) == deployment.runner # None \/ deployment.status \in Executing
Busy(environment) ==
  \E d \in Stored : row[d].environment = environment /\ Occupies(row[d])

Dispatchable ==
  {d \in In({"queued"}) : row[d].runner = None /\ ~Busy(row[d].environment)}
NextQueued == {d \in Dispatchable : \A other \in Dispatchable : d <= other}

Engages(deployment, runner) ==
  deployment.runner = runner /\ deployment.status \in {"queued"} \cup Executing
FreeRunners == {r \in Runners : \A d \in Stored : ~Engages(row[d], r)}

\* The environment is not looked at when a row is written.
EnvironmentIndex_None(id, new) == TRUE

EnvironmentIndex(id, new) ==
  Occupies(new) =>
    \A d \in Stored \ {id} : Occupies(row[d]) => row[d].environment # new.environment

RunnerIndex(id, new) ==
  new.runner # None /\ Engages(new, new.runner) =>
    \A d \in Stored \ {id} : ~Engages(row[d], new.runner)

\* A transition is written over whatever the row has become.
Unchanged_Unchecked(w) == TRUE

\* The sequence of a phase event is not compared under the lock.
Unchanged_StatusOnly(w) == w.step # "insert" => row[w.id].status = w.expected

\* update_deployment compares the status; record_event the sequence as well.
Unchanged(w) ==
  CASE w.step = "insert" -> TRUE
    [] w.step = "update" -> row[w.id].status = w.expected
    [] w.step = "event"  -> /\ row[w.id].status = w.expected
                            /\ row[w.id].sequence + 1 = w.new.sequence

Writable(w) ==
  Unchanged(w) /\ EnvironmentIndex(w.id, w.new) /\ RunnerIndex(w.id, w.new)

-----------------------------------------------------------------------------
(* Use cases up to the transaction: the row is read and the new one        *)
(* computed.  One that fails here changes nothing.                         *)

Take(w, work) == worker[w] = Idle /\ worker' = [worker EXCEPT ![w] = work]

Write(step, via, d, new) ==
  [step |-> step, via |-> via, id |-> d, expected |-> row[d].status, new |-> new]

RequestDeployment(w, environment, artifact, kind, person) ==
  /\ requests < MaxDeployments
  /\ ~(kind = "rollback" /\ environment \in ForwardOnly)
  /\ Equivalent(environment, artifact, kind) = {}
  /\ requests' = requests + 1
  /\ LET new == NewDeployment(environment, artifact, kind, person)
     IN Take(w, [step |-> "insert", via |-> None, id |-> requests',
                 expected |-> new.status, new |-> new])
  /\ UNCHANGED <<row, recorded, tokens, failures, runners>>

ApproveDeployment(w, d, person) ==
  /\ MayApprove(row[d], person)
  /\ Take(w, Write("update", None, d,
                   [row[d] EXCEPT !.status = "queued", !.approver = person]))
  /\ UNCHANGED <<row, recorded, requests, tokens, failures, runners>>

CancelDeployment(w, d) ==
  /\ MayCancel
  /\ row[d].status \in Cancellable
  /\ Take(w, Write("update", None, d, [row[d] EXCEPT !.status = "cancelled"]))
  /\ UNCHANGED <<row, recorded, requests, tokens, failures, runners>>

Dispatch(w, r) ==
  /\ tokens < MaxAssignments
  /\ r \in FreeRunners
  /\ tokens' = tokens + 1
  /\ \E d \in NextQueued :
       Take(w, Write("update", None, d,
                     [row[d] EXCEPT !.runner = r, !.token = tokens']))
  /\ UNCHANGED <<row, recorded, requests, failures, runners>>

RetryVerification(w, d) ==
  /\ row[d].status = "verification_failed"
  /\ row[d].sequence + 1 < MaxSequence
  /\ Take(w, Write("event", None, d, Advanced(row[d], "verifying")))
  /\ UNCHANGED <<row, recorded, requests, tokens, failures, runners>>

\* The channel a runner has joined handles one message at a time.
ChannelFree(r) ==
  /\ link[r] = "joined"
  /\ \A w \in Workers : worker[w] # Idle => worker[w].via # r

Acceptable(a) ==
  /\ row[a.id].runner = a.runner /\ row[a.id].token = a.token
  /\ "preparing" \in Transitions[row[a.id].status]

\* A repeated acceptance is answered whatever the deployment has become, and
\* one that is refused makes the runner forget the offer.
AcceptOffer(w, a) ==
  /\ ChannelFree(a.runner)
  /\ \/ /\ a.token \in recorded
        /\ Take(w, [step |-> "answer", via |-> a.runner, assignment |-> a])
        /\ UNCHANGED held
     \/ /\ a.token \notin recorded /\ Acceptable(a)
        /\ Take(w, Write("event", a.runner, a.id, Advanced(row[a.id], "preparing")))
        /\ UNCHANGED held
     \/ /\ a.token \notin recorded /\ ~Acceptable(a)
        /\ held' = held \ {a}
        /\ UNCHANGED worker
  /\ UNCHANGED <<row, recorded, requests, tokens, failures, started, unanswered, link, replays>>

\* What run_steps reports after the phase the row is in.
NextReports ==
  [preparing           |-> {"converging_services"},
   converging_services |-> {"migrating", "failed"},
   migrating           |-> {"activating", "failed"},
   activating          |-> {"verifying", "failed"}]

\* Sent, or sent again after a join: the event that the row waits for.  Once
\* the runner sent the verifying event it has no other.
ReportPhase(w, a, status) ==
  /\ ChannelFree(a.runner)
  /\ row[a.id].runner = a.runner /\ row[a.id].token = a.token
  /\ row[a.id].status \in DOMAIN NextReports
  /\ status \in NextReports[row[a.id].status]
  /\ a.id \in unanswered => status = "verifying"
  /\ Take(w, Write("event", a.runner, a.id, Advanced(row[a.id], status)))
  /\ unanswered' = unanswered \cup {d \in {a.id} : status = "verifying"}
  /\ replays' = replays \ {a.id}
  /\ UNCHANGED <<row, recorded, requests, tokens, failures, held, started, link>>

\* The repeated event is acknowledged and nothing else.
ResendVerifying_Acknowledged(w, a) ==
  /\ ChannelFree(a.runner)
  /\ a.id \in replays /\ row[a.id].status \notin DOMAIN NextReports
  /\ replays' = replays \ {a.id}
  /\ unanswered' = unanswered \ {a.id}
  /\ UNCHANGED <<row, recorded, requests, tokens, failures, worker, held, started, link>>

\* The recorded verifying event again, once after a join: only verify_if_ready
\* is left to do.
ResendVerifying(w, a) ==
  /\ ChannelFree(a.runner)
  /\ a.id \in replays /\ row[a.id].status \notin DOMAIN NextReports
  /\ replays' = replays \ {a.id}
  /\ IF row[a.id].status = "verifying"
       THEN /\ Take(w, [step |-> "verify", via |-> a.runner, id |-> a.id])
            /\ UNCHANGED unanswered
       ELSE /\ unanswered' = unanswered \ {a.id}
            /\ UNCHANGED worker
  /\ UNCHANGED <<row, recorded, requests, tokens, failures, held, started, link>>

-----------------------------------------------------------------------------
(* The transaction, and what the worker does after it.                     *)

\* An acceptance is an event of the runner out of "queued".
Accepts(work) == work.step = "event" /\ work.expected = "queued"
AssignmentOf(work) ==
  [id |-> work.id, runner |-> work.new.runner, token |-> work.new.token]

\* The assignment is durable, and no offer goes out.
After_Unoffered(work) ==
  IF Accepts(work) /\ work.via # None
    THEN [step |-> "answer", via |-> work.via, assignment |-> AssignmentOf(work)]
  ELSE IF work.new.status = "verifying"
    THEN [step |-> "verify", via |-> work.via, id |-> work.id]
  ELSE IF work.expected = "verifying" /\ work.via # None
    THEN [step |-> "confirm", via |-> work.via, id |-> work.id]
  ELSE Idle

After(work) ==
  IF work.step = "update" /\ work.new.status = "queued" /\ work.new.runner # None
    THEN [step |-> "offer", via |-> None, assignment |-> AssignmentOf(work)]
  ELSE IF Accepts(work) /\ work.via # None
    THEN [step |-> "answer", via |-> work.via, assignment |-> AssignmentOf(work)]
  ELSE IF work.new.status = "verifying"
    THEN [step |-> "verify", via |-> work.via, id |-> work.id]
  ELSE IF work.expected = "verifying" /\ work.via # None
    THEN [step |-> "confirm", via |-> work.via, id |-> work.id]
  ELSE Idle

Writes == {"insert", "update", "event"}

Commit(w) ==
  LET work == worker[w] IN
  /\ work.step \in Writes
  /\ Writable(work)
  /\ row' = [row EXCEPT ![work.id] = work.new]
  /\ recorded' = recorded \cup (IF Accepts(work) THEN {work.new.token} ELSE {})
  /\ worker' = [worker EXCEPT ![w] = After(work)]
  /\ UNCHANGED <<requests, tokens, failures, runners>>

\* Rolled back.  A refused acceptance makes the runner forget the offer; any
\* other refused event stays unacknowledged until the runner joins again.
RollBack(w) ==
  LET work == worker[w] IN
  /\ work.step \in Writes
  /\ ~Writable(work)
  /\ worker' = [worker EXCEPT ![w] = Idle]
  /\ held' = held \ {a \in {AssignmentOf(work)} : Accepts(work) /\ work.via # None}
  /\ UNCHANGED <<row, recorded, requests, tokens, failures, started, unanswered, link, replays>>

\* The broadcast reaches a channel that is joined.  A runner ignores the offer
\* of a deployment it already holds.
Offer(w) ==
  LET a == worker[w].assignment IN
  /\ worker[w].step = "offer"
  /\ worker' = [worker EXCEPT ![w] = Idle]
  /\ held' = held \cup
       {b \in {a} : /\ link[a.runner] = "joined"
                    /\ \A h \in held : h.id = a.id => h.runner # a.runner}
  /\ UNCHANGED <<row, recorded, requests, tokens, failures, started, unanswered, link, replays>>

Answer(w) ==
  /\ worker[w].step = "answer"
  /\ worker' = [worker EXCEPT ![w] = Idle]
  /\ started' = started \cup {worker[w].assignment}
  /\ UNCHANGED <<row, recorded, requests, tokens, failures, held, unanswered, link, replays>>

Confirm(w) ==
  /\ worker[w].step = "confirm"
  /\ worker' = [worker EXCEPT ![w] = Idle]
  /\ unanswered' = unanswered \ {worker[w].id}
  /\ UNCHANGED <<row, recorded, requests, tokens, failures, held, started, link, replays>>

Verify(w, verdict) ==
  LET d == worker[w].id IN
  /\ worker[w].step = "verify"
  /\ worker' = [worker EXCEPT ![w] =
       IF row[d].status = "verifying" /\ row[d].sequence < MaxSequence
         THEN Write("event", worker[w].via, d, Advanced(row[d], verdict))
         ELSE Idle]
  /\ UNCHANGED <<row, recorded, requests, tokens, failures, runners>>

-----------------------------------------------------------------------------
(* Connections, the node and its processes.                                *)

EventsOf(r) == {a.id : a \in {b \in started : b.runner = r}}

\* What is left of a handler whose reply cannot arrive any more.
Orphaned(work) ==
  IF work.step \in {"answer", "confirm"} THEN Idle ELSE [work EXCEPT !.via = None]

Disconnect(r) ==
  /\ failures < MaxFailures
  /\ link[r] # "away"
  /\ failures' = failures + 1
  /\ link' = [link EXCEPT ![r] = "away"]
  /\ worker' = [w \in Workers |->
       IF worker[w] # Idle /\ worker[w].via = r THEN Orphaned(worker[w]) ELSE worker[w]]
  /\ replays' = replays \ EventsOf(r)
  /\ UNCHANGED <<row, recorded, requests, tokens, held, started, unanswered>>

\* The client reconnects and joins, and sends again what was not acknowledged.
Join(r) ==
  /\ link[r] = "away"
  /\ link' = [link EXCEPT ![r] = "joined"]
  /\ replays' = replays \cup (unanswered \cap EventsOf(r))
  /\ UNCHANGED <<row, recorded, requests, tokens, failures, worker, held, started, unanswered>>

NodeStops ==
  /\ failures < MaxFailures
  /\ failures' = failures + 1
  /\ worker' = [w \in Workers |-> Idle]
  /\ link' = [r \in Runners |-> "away"]
  /\ replays' = {}
  /\ UNCHANGED <<row, recorded, requests, tokens, held, started, unanswered>>

\* A process crashes.  The client of a runner ignores the phx_error about its
\* channel and goes on sending to none.
Crash(w) ==
  /\ MayDieAlone
  /\ failures < MaxFailures
  /\ worker[w] # Idle
  /\ failures' = failures + 1
  /\ worker' = [worker EXCEPT ![w] = Idle]
  /\ link' = [r \in Runners |-> IF r = worker[w].via THEN "deaf" ELSE link[r]]
  /\ UNCHANGED <<row, recorded, requests, tokens, held, started, unanswered, replays>>

-----------------------------------------------------------------------------
Serve(w) ==
  \/ Commit(w) \/ RollBack(w) \/ Offer(w) \/ Answer(w) \/ Confirm(w)
  \/ \E verdict \in {"succeeded", "verification_failed"} : Verify(w, verdict)

Next ==
  \/ \E w \in Workers :
       \/ \E e \in Environments, a \in Artifacts, k \in Kinds, p \in People :
            RequestDeployment(w, e, a, k, p)
       \/ \E d \in Stored, p \in Administrators : ApproveDeployment(w, d, p)
       \/ \E d \in Stored : CancelDeployment(w, d) \/ RetryVerification(w, d)
       \/ \E r \in Runners : Dispatch(w, r)
       \/ \E a \in held \ started : AcceptOffer(w, a)
       \/ \E a \in started, status \in Status : ReportPhase(w, a, status)
       \/ \E a \in started : ResendVerifying(w, a)
       \/ Serve(w) \/ Crash(w)
  \/ \E r \in Runners : Disconnect(r) \/ Join(r)
  \/ NodeStops

Spec == Init /\ [][Next]_vars

(* A process ends what it began unless the node stops, the dispatch job    *)
(* comes back every minute, a client reconnects until it has joined, and   *)
(* then its acceptances and the events it sends again are handled.  People *)
(* need not do anything, and a channel that died alone is not joined anew. *)
FairSpec ==
  /\ Spec
  /\ \A w \in Workers : WF_vars(Serve(w))
  /\ WF_vars(\E w \in Workers, r \in Runners : Dispatch(w, r))
  /\ \A r \in Runners :
       /\ WF_vars(Join(r))
       /\ WF_vars(\E w \in Workers, a \in held :
            /\ a.runner = r
            /\ \/ a \notin started /\ AcceptOffer(w, a)
               \/ a \in started /\ ResendVerifying(w, a))

\* Where nothing fails, every event of a runner comes in order and is handled.
ServedSpec ==
  /\ FairSpec
  /\ \A r \in Runners :
       WF_vars(\E w \in Workers, a \in started, status \in Status :
         a.runner = r /\ ReportPhase(w, a, status))

-----------------------------------------------------------------------------
(* Properties.                                                             *)

(* FR-11: at most one deployment of an environment executes, and a runner  *)
(* executes at most one, although dispatchers choose from unlocked reads.  *)
OneActive ==
  \A d, e \in In(Executing) :
    d # e => /\ row[d].environment # row[e].environment
             /\ row[d].runner # row[e].runner

(* A deployment is executed under one assignment only, the one its row     *)
(* names: an assignment another dispatcher wrote over is refused when its  *)
(* runner accepts it, and none is written over once it is accepted.        *)
OneAssignmentExecutes ==
  \A a \in started : row[a.id].token = a.token /\ row[a.id].runner = a.runner

(* FR-9: what needs an approval gets past it only with one, by an          *)
(* administrator who is not the requester, and keeps it in every whole-row *)
(* write that follows.                                                     *)
ApprovedByAnother ==
  \A d \in Stored :
    /\ NeedsApproval(row[d].environment, row[d].kind)
    /\ row[d].status \notin {"awaiting_approval", "cancelled"}
    => row[d].approver \in Administrators \ {row[d].requester}

(* "First persisted terminal decision wins": cancellation, failure and     *)
(* success race from unlocked reads, and the first one written stays.  A   *)
(* failed verification may only be tried again.                            *)
TerminalDecisionKept ==
  [][\A d \in Stored :
       /\ row[d].status \in Final => row'[d].status = row[d].status
       /\ row[d].status = "verification_failed" =>
            row'[d].status \in {"verification_failed", "verifying"}]_vars

(* A verdict is about the round of verification that is going on: what a   *)
(* slow probe of an earlier round found, in a channel whose connection is  *)
(* long gone, does not decide a later one.                                 *)
VerdictOfThisRound ==
  [][\A d \in In({"verifying"}) :
       row'[d].status # "verifying" => row'[d].sequence = row[d].sequence + 1]_vars

(* A deployment that reached verification gets a verdict, though the       *)
(* connection that brought the event breaks or the node stops while its    *)
(* handler verifies: the client sends the event again when it has joined.  *)
VerifyingSettles ==
  \A d \in Ids : (d \in In({"verifying"})) ~> (d \notin In({"verifying"}))

(* A deployment that was assigned to a runner ends.                        *)
AssignedSettles ==
  \A d \in Ids :
    (d \in Stored /\ row[d].runner # None)
      ~> (d \in In(Final \cup {"verification_failed"}))

(* FR-11: a queued deployment waits only while another deployment of its   *)
(* environment is unfinished.                                              *)
QueuedWaitsForActive ==
  \A d \in In({"queued"}) :
    row[d].runner = None /\ Busy(row[d].environment) =>
      \E e \in Stored :
        /\ row[e].environment = row[d].environment
        /\ Occupies(row[e])
        /\ row[e].status \in {"queued", "verification_failed"} \cup Executing

(* FR-8: a request creates a deployment only when no equivalent one is     *)
(* unfinished or successful.                                               *)
RequestsIdempotent ==
  [][\A d \in Ids :
       row[d] = None /\ row'[d] # None =>
         Equivalent(row'[d].environment, row'[d].artifact, row'[d].kind) = {}]_vars

(* "Atomically assigns queued deployment work to a dedicated runner lease":*)
(* an assignment is not replaced by another.                               *)
AssignedOnce ==
  [][\A d \in Stored :
       row[d].runner # None /\ row'[d].runner # None =>
         row'[d].token = row[d].token]_vars
=============================================================================
