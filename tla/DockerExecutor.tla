--------------------------- MODULE DockerExecutor ---------------------------
(***************************************************************************)
(* A runner that executes attempts in Docker (runner-go/internal/runner/   *)
(* docker_executor.go, with the parts of runner.go around it): the network,*)
(* volume and containers of an attempt are created, its steps run          *)
(* (StepRunner), everything is removed and the outcome is reported.  What  *)
(* a crash, a killed command or a failed removal leaves is reconciled when *)
(* the runner starts and every five minutes, from a snapshot of the        *)
(* attempts that execute.                                                  *)
(*                                                                         *)
(* The Docker daemon is external: it is modelled from the commands the     *)
(* runner gives and the answers it expects.  The connection is there while *)
(* the runner serves: RunnerProtocol models its loss.                      *)
(***************************************************************************)
EXTENDS CommandOutput, SequencesExt

CONSTANTS
  Attempts,
  Services,    \* names of the service containers of every job, in order
  MaxMishaps,  \* bound on crashes, stops and failures of a reconciliation
  Programs     \* what the jobs may be asked to do

NoAttempt == "none"

ASSUME DockerAssumption ==
  /\ Services \in Seq(STRING)
  /\ ToSet(Services) \cap {"network", "volume", "job"} = {}
  /\ MaxMishaps \in Nat
  /\ NoAttempt \notin Attempts

VARIABLES
  proc,        \* the runner: "reconciling", "serving", "stopping", "down"
  mishaps,
  docker,      \* what exists in the daemon: pairs of an attempt and a name
  up,          \* the containers among it that run
  unlabelled,  \* attempts whose volume the daemon made without labels
  late,        \* what the daemon may still make for a command that was killed
  accepted,    \* attempts that were accepted
  attempt,     \* the one that executes, or NoAttempt
  exposed,     \* it was accepted during a reconciliation
  todo,        \* the stages of its execution that are left
  made,        \* number of steps of the preparation that were taken
  left,        \* what its cleanup has not come to yet
  dirty,       \* its cleanup failed somewhere
  cause,       \* why it was cancelled
  err,         \* its context: "none", "cancelled" or "timeout"
  reported,    \* the status the server has been told, per attempt
  sweep,       \* the reconciliation
  program, phase, results, reason, stepReason, outcome, exit, broken, sent, seen,
  text, pushed, consumed, raw, mode  \* the steps

HasServices == Services # << >>
Containers == {"job"} \cup ToSet(Services)
Names == {"volume"} \cup Containers \cup IF HasServices THEN {"network"} ELSE {}
Named(names) == {<<attempt, n>> : n \in names}

\* The steps see services and their container as the daemon has them.
Steps == INSTANCE StepRunner
  WITH connected <- proc = "serving",
       ready <- Named(ToSet(Services)) \subseteq up,
       live <- <<attempt, "job">> \in up

ASSUME StepAssumption ==
  Programs \subseteq Seq([kind : Steps!Kinds, condition : Steps!Conditions])

daemonVars == <<docker, up, unlabelled, late>>
stageVars == <<todo, made, left, dirty>>
execVars == <<accepted, attempt, exposed, stageVars, cause, err, reported>>
runnerVars == <<proc, mishaps, sweep>>
stepVars == <<program, phase, results, reason, stepReason, outcome, exit, broken, sent, seen,
              text, pushed, consumed, raw, mode>>
vars == <<daemonVars, execVars, runnerVars, stepVars>>

Stages == {"preflight", "prepare", "announce", "steps", "cleanup", "report", "deliver"}
Stage == IF todo = << >> THEN "free" ELSE todo[1]
Executing == attempt # NoAttempt

\* Mutant: volumes are reconciled before the containers that use them.
SweepOrder_VolumesFirst == <<{"volume"}, Containers, {"network"}>>

\* The sets of a reconciliation, in its order.
SweepOrder == <<Containers, {"volume"}, {"network"}>>

NoSweep == [kind |-> 0, kept |-> {}, found |-> {}]
StartSweep(kept) == [kind |-> 1, kept |-> kept, found |-> {}]

TypeOK ==
  /\ Steps!TypeOK
  /\ proc \in {"reconciling", "serving", "stopping", "down"}
  /\ mishaps \in 0..MaxMishaps
  /\ docker \subseteq Attempts \X Names /\ late \subseteq Attempts \X Names
  /\ up \subseteq docker /\ unlabelled \subseteq Attempts
  /\ accepted \subseteq Attempts /\ attempt \in accepted \cup {NoAttempt}
  /\ exposed \in BOOLEAN /\ dirty \in BOOLEAN
  /\ todo \in Seq(Stages) /\ made \in Nat /\ left \in Seq(Names)
  /\ cause \in {"none", "cancel", "lease_lost", "shutdown"}
  /\ err \in {"none", "cancelled", "timeout"}
  /\ reported \in [Attempts -> {"none", "succeeded", "failed", "cancelled"}]
  /\ sweep \in [kind : 0..Len(SweepOrder), kept : SUBSET Attempts,
                found : SUBSET (Attempts \X Names)]

\* A runner starts with a reconciliation that keeps nothing.
Init ==
  /\ proc = "reconciling" /\ mishaps = 0 /\ sweep = StartSweep({})
  /\ docker = {} /\ up = {} /\ unlabelled = {} /\ late = {}
  /\ accepted = {} /\ attempt = NoAttempt /\ exposed = FALSE
  /\ todo = << >> /\ made = 0 /\ left = << >> /\ dirty = FALSE
  /\ cause = "none" /\ err = "none"
  /\ reported = [a \in Attempts |-> "none"]
  /\ Steps!Init

---------------------------------------------------------------------------
(* The daemon (external) *)

\* A container that mounts a volume nobody has makes one, without labels.
Make(r) ==
  LET volume == <<r[1], "volume">> IN
  /\ docker' = docker \cup {r} \cup IF r[2] = "job" THEN {volume} ELSE {}
  /\ unlabelled' = IF r[2] = "job" /\ volume \notin docker
                   THEN unlabelled \cup {r[1]} ELSE unlabelled

\* A volume in use and a network with running containers cannot be removed.
Removable(r) ==
  CASE r[2] = "volume"  -> <<r[1], "job">> \notin docker
    [] r[2] = "network" -> \A c \in Containers : <<r[1], c>> \notin up
    [] OTHER -> TRUE

\* Mutant: a container that is gone still counts as running.
Destroy_StillUp(r) ==
  /\ docker' = docker \ {r} /\ UNCHANGED up
  /\ unlabelled' = IF r[2] = "volume" THEN unlabelled \ {r[1]} ELSE unlabelled

Destroy(r) ==
  /\ docker' = docker \ {r} /\ up' = up \ {r}
  /\ unlabelled' = IF r[2] = "volume" THEN unlabelled \ {r[1]} ELSE unlabelled

\* A command whose client was killed may be carried out all the same.
MakeLate ==
  /\ \E r \in late : late' = late \ {r} /\ Make(r)
  /\ UNCHANGED <<up, execVars, runnerVars, stepVars>>

\* A service exits by itself.
Die ==
  /\ Stage = "steps"
  /\ \E r \in up : r[1] = attempt /\ r[2] # "job" /\ up' = up \ {r}
  /\ UNCHANGED <<docker, unlabelled, late, execVars, runnerVars, stepVars>>

---------------------------------------------------------------------------
(* The execution of an attempt *)

Preparation ==
  LET Do(what, name) == [do |-> what, name |-> name]
      Verb(i) == <<"create", "start", "await">>[(i % 3) + 1]
      ServiceOf(i) == Services[(i \div 3) + 1]
  IN (IF HasServices THEN <<Do("create", "network")>> ELSE << >>)
     \o <<Do("create", "volume")>>
     \o [i \in 1..3 * Len(Services) |-> Do(Verb(i - 1), ServiceOf(i - 1))]
     \o <<Do("create", "job"), Do("start", "job"), Do("copy", "job")>>

CleanupOrder ==
  <<"job">> \o Services \o <<"volume">> \o (IF HasServices THEN <<"network">> ELSE << >>)

\* Reconciliation works from the attempts it found executing; this one is not
\* among them if it is accepted later.
Accept(a) ==
  /\ proc = "serving" /\ ~ Executing /\ a \notin accepted
  /\ accepted' = accepted \cup {a} /\ attempt' = a
  /\ exposed' = (sweep.kind # 0)
  /\ todo' = <<"preflight", "prepare", "announce", "steps", "cleanup", "report">>
  /\ UNCHANGED <<daemonVars, made, left, dirty, cause, err, reported, runnerVars, stepVars>>

\* From here on neither the context of the attempt nor its progress is asked for.
Settled == made' = 0 /\ err' = "none" /\ exposed' = FALSE

\* A failure that is found while the context has ended has the context's reason.
FailureOfPreparation ==
  IF err = "none" THEN Steps!Failed("system_failure") ELSE Steps!ContextOutcome

FailWith(stages) ==
  /\ todo' = stages /\ left' = CleanupOrder /\ Settled
  /\ outcome' = FailureOfPreparation
  /\ UNCHANGED <<program, phase, results, reason, stepReason, exit, broken, sent, seen,
                 text, pushed, consumed, raw, mode>>

Advance == todo' = Tail(todo)

\* Docker answers, there is a workspace, and secrets and services are there.
Preflight ==
  /\ Stage = "preflight"
  /\ \/ err = "none" /\ Advance /\ UNCHANGED <<left, made, err, exposed, stepVars>>
     \/ FailWith(<<"report">>)
  /\ UNCHANGED <<daemonVars, accepted, attempt, dirty, cause, reported, runnerVars>>

Next_made == Preparation[made + 1]
Target == <<attempt, Next_made.name>>
Preparing == Stage = "prepare" /\ made < Len(Preparation)

Create ==
  /\ Preparing /\ Next_made.do = "create" /\ err = "none"
  /\ Make(Target)
  /\ made' = made + 1
  /\ UNCHANGED <<up, late, accepted, attempt, exposed, todo, left, dirty, cause, err, reported,
                 runnerVars, stepVars>>

\* Containers start on their network; a service is awaited until it answers.
StartContainer ==
  /\ Preparing /\ Next_made.do = "start" /\ err = "none"
  /\ Target \in docker /\ (HasServices => <<attempt, "network">> \in docker)
  /\ up' = up \cup {Target}
  /\ made' = made + 1
  /\ UNCHANGED <<docker, unlabelled, late, accepted, attempt, exposed, todo, left, dirty, cause,
                 err, reported, runnerVars, stepVars>>

Await ==
  /\ Preparing /\ Next_made.do \in {"await", "copy"} /\ err = "none" /\ Target \in up
  /\ made' = made + 1
  /\ IF made' = Len(Preparation) THEN Advance ELSE UNCHANGED todo
  /\ UNCHANGED <<daemonVars, accepted, attempt, exposed, left, dirty, cause, err, reported,
                 runnerVars, stepVars>>

\* The command that was killed.
Orphan ==
  IF Preparing /\ Next_made.do = "create" THEN late' \in {late, late \cup {Target}}
  ELSE UNCHANGED late

\* The failure is reported before what was made is removed.  The diagnostic of
\* a service is logged outside the context: only an answer ends that.
PrepareFails ==
  /\ Preparing
  /\ Next_made.do = "await" => proc = "serving"
  /\ FailWith(<<"report", "cleanup">>)
  /\ IF err = "none" THEN UNCHANGED late ELSE Orphan
  /\ UNCHANGED <<docker, up, unlabelled, accepted, attempt, dirty, cause, reported, runnerVars>>

\* An attempt whose start is refused, or cancelled before it is answered, is
\* cleaned up and reports nothing more.
Announce ==
  /\ Stage = "announce"
  /\ \/ /\ proc = "serving" /\ Advance /\ UNCHANGED <<left, made, err, exposed>>
        /\ \E p \in Programs : Steps!Start(p)
     \/ /\ proc = "serving" \/ cause # "none"
        /\ todo' = <<"cleanup">> /\ left' = CleanupOrder /\ Settled /\ UNCHANGED stepVars
  /\ UNCHANGED <<daemonVars, accepted, attempt, dirty, cause, reported, runnerVars>>

RunSteps ==
  /\ Stage = "steps" /\ Steps!Progress
  /\ UNCHANGED <<daemonVars, execVars, runnerVars>>

RunCommand ==
  /\ Stage = "steps" /\ (Steps!Write \/ Steps!Exit)
  /\ UNCHANGED <<daemonVars, execVars, runnerVars>>

\* The container is stopped with its command.
KillCommand ==
  /\ Stage = "steps" /\ Steps!Kill
  /\ up' = up \ {<<attempt, "job">>}
  /\ UNCHANGED <<docker, unlabelled, late, execVars, runnerVars>>

StepsEnd ==
  /\ Stage = "steps" /\ phase = "done"
  /\ Steps!Forget /\ UNCHANGED outcome
  /\ Advance /\ left' = CleanupOrder /\ Settled
  /\ UNCHANGED <<daemonVars, accepted, attempt, dirty, cause, reported, runnerVars>>

\* Mutant: what cannot be removed is not counted.
AfterCleanup_FailureIgnored(failed) == outcome

\* A success that could not be cleaned up is a failure of the system.
AfterCleanup(failed) ==
  IF failed /\ outcome.status = "succeeded" THEN Steps!Failed("system_failure") ELSE outcome

\* Everything is tried once; what is missing is no failure.
Clean ==
  /\ Stage = "cleanup"
  /\ LET r == <<attempt, left[1]>>
         Tried(failed) ==
           IF Len(left) > 1 THEN dirty' = failed /\ UNCHANGED <<todo, outcome>>
           ELSE dirty' = FALSE /\ Advance /\ outcome' = AfterCleanup(failed)
     IN \/ (r \notin docker \/ Removable(r)) /\ Destroy(r) /\ Tried(dirty)
        \/ Tried(TRUE) /\ UNCHANGED <<docker, up, unlabelled>>
  /\ left' = Tail(left)
  /\ UNCHANGED <<program, phase, results, reason, stepReason, exit, broken, sent, seen,
                 text, pushed, consumed, raw, mode>>
  /\ UNCHANGED <<late, accepted, attempt, exposed, made, cause, err, reported, runnerVars>>

\* terminalDeliveryAllowed: a lost lease and a shutdown are not reported.
Report ==
  /\ Stage = "report"
  /\ todo' = IF cause \in {"lease_lost", "shutdown"} THEN Tail(todo)
             ELSE <<"deliver">> \o Tail(todo)
  /\ UNCHANGED <<daemonVars, accepted, attempt, exposed, made, left, dirty, cause, err, reported,
                 runnerVars, stepVars>>

\* The server takes the outcome, or refuses it, or 30 seconds pass.
Deliver ==
  /\ Stage = "deliver"
  /\ \/ proc = "serving" /\ reported' = [reported EXCEPT ![attempt] = outcome.status]
     \/ UNCHANGED reported
  /\ Advance
  /\ UNCHANGED <<daemonVars, accepted, attempt, exposed, made, left, dirty, cause, err,
                 runnerVars, stepVars>>

\* No attempt executes any more.
Free ==
  /\ attempt' = NoAttempt /\ exposed' = FALSE /\ todo' = << >> /\ made' = 0 /\ left' = << >>
  /\ dirty' = FALSE /\ cause' = "none" /\ err' = "none"
  /\ Steps!Forget /\ outcome' = Steps!NoOutcome

Finish ==
  /\ Executing /\ todo = << >>
  /\ Free
  /\ UNCHANGED <<daemonVars, accepted, reported, runnerVars>>

Underway == Stage \in {"preflight", "prepare", "announce", "steps"}

Cancelled(c) ==
  IF Executing /\ cause = "none"
  THEN cause' = c /\ err' = IF Underway /\ err = "none" THEN "cancelled" ELSE err
  ELSE UNCHANGED <<cause, err>>

\* The server asks for it, or the lease is gone.
Cancel ==
  /\ proc = "serving" /\ Executing /\ cause = "none"
  /\ \E c \in {"cancel", "lease_lost"} : Cancelled(c)
  /\ UNCHANGED <<daemonVars, accepted, attempt, exposed, stageVars, reported, runnerVars, stepVars>>

\* Mutant: the time of the job ends with its preparation.
Timeout_PreparationOnly ==
  /\ Stage \in {"preflight", "prepare", "announce"} /\ err = "none"
  /\ err' = "timeout"
  /\ UNCHANGED <<daemonVars, accepted, attempt, exposed, stageVars, cause, reported, runnerVars,
                 stepVars>>

\* The time of the job runs from its first preparation to its last step.
Timeout ==
  /\ Underway /\ err = "none"
  /\ err' = "timeout"
  /\ UNCHANGED <<daemonVars, accepted, attempt, exposed, stageVars, cause, reported, runnerVars,
                 stepVars>>

---------------------------------------------------------------------------
(* Reconciliation *)

SweepBegin ==
  /\ proc = "serving" /\ sweep.kind = 0
  /\ sweep' = StartSweep(IF Executing THEN {attempt} ELSE {})
  /\ UNCHANGED <<proc, mishaps, daemonVars, execVars, stepVars>>

Labelled(r) == r[2] = "volume" => r[1] \notin unlabelled

\* What was found has been removed: the next set is listed, or it was the last.
Proceed(found) ==
  IF found # {} THEN sweep' = [sweep EXCEPT !.found = found] /\ UNCHANGED proc
  ELSE IF sweep.kind < Len(SweepOrder)
       THEN sweep' = [sweep EXCEPT !.kind = @ + 1, !.found = {}] /\ UNCHANGED proc
       ELSE sweep' = NoSweep /\ proc' = IF proc = "reconciling" THEN "serving" ELSE proc

Listing == sweep.kind # 0 /\ sweep.found = {}

\* Mutant: the attempts that execute keep only their containers.
SweepList_KeepsContainers ==
  /\ Listing
  /\ Proceed({r \in docker : r[2] \in SweepOrder[sweep.kind] /\ Labelled(r)
                               /\ (sweep.kind = 1 => r[1] \notin sweep.kept)})
  /\ UNCHANGED <<mishaps, daemonVars, execVars, stepVars>>

SweepList ==
  /\ Listing
  /\ Proceed({r \in docker : r[2] \in SweepOrder[sweep.kind] /\ Labelled(r)
                               /\ r[1] \notin sweep.kept})
  /\ UNCHANGED <<mishaps, daemonVars, execVars, stepVars>>

SweepRemove ==
  /\ \E r \in sweep.found :
       /\ r \notin docker \/ Removable(r)
       /\ Destroy(r)
       /\ Proceed(sweep.found \ {r})
  /\ UNCHANGED <<late, mishaps, execVars, stepVars>>

\* The first failure ends it; a runner whose first reconciliation fails exits.
SweepFails ==
  /\ sweep.kind # 0
  /\ \/ (\E r \in sweep.found : r \in docker /\ ~ Removable(r)) /\ UNCHANGED mishaps
     \/ mishaps < MaxMishaps /\ mishaps' = mishaps + 1
  /\ sweep' = NoSweep
  /\ proc' = IF proc = "reconciling" THEN "down" ELSE proc
  /\ UNCHANGED <<daemonVars, execVars, stepVars>>

---------------------------------------------------------------------------
(* The process *)

\* A signal, or the revocation of the runner; only the signal ends a
\* reconciliation.
Stop ==
  /\ proc = "serving" /\ mishaps < MaxMishaps
  /\ proc' = "stopping" /\ mishaps' = mishaps + 1
  /\ \/ Cancelled("shutdown") /\ sweep' = NoSweep
     \/ Cancelled("cancel") /\ UNCHANGED sweep
  /\ UNCHANGED <<daemonVars, accepted, attempt, exposed, stageVars, reported, stepVars>>

Gone ==
  /\ proc' = "down" /\ sweep' = NoSweep /\ Free /\ Orphan
  /\ UNCHANGED <<docker, up, unlabelled, accepted, reported>>

\* waitForExecutions: after ten seconds the process exits whatever executes.
Leave == proc = "stopping" /\ Gone /\ UNCHANGED mishaps

Crash == proc # "down" /\ mishaps < MaxMishaps /\ Gone /\ mishaps' = mishaps + 1

Restart ==
  /\ proc = "down"
  /\ proc' = "reconciling" /\ sweep' = StartSweep({})
  /\ UNCHANGED <<mishaps, daemonVars, execVars, stepVars>>

Execution ==
  \/ Preflight \/ Create \/ StartContainer \/ Await \/ PrepareFails \/ Announce
  \/ RunSteps \/ KillCommand \/ StepsEnd \/ Clean \/ Report \/ Deliver \/ Finish

Sweep == SweepBegin \/ SweepList \/ SweepRemove \/ SweepFails

Next ==
  \/ \E a \in Attempts : Accept(a)
  \/ Execution \/ RunCommand \/ Cancel \/ Timeout \/ MakeLate \/ Die
  \/ Sweep \/ Stop \/ Leave \/ Crash \/ Restart

Spec == Init /\ [][Next]_vars

\* The goroutine of the execution and the loop of the reconciliation are
\* scheduled, timers fire, and the service manager restarts the runner.  That
\* a command ends by itself is not assumed.
FairSpec ==
  Spec /\ WF_vars(Execution) /\ WF_vars(Timeout) /\ WF_vars(Sweep) /\ WF_vars(Leave)
       /\ WF_vars(Restart)

---------------------------------------------------------------------------
(* Properties *)

OutcomeSound == Steps!OutcomeSound
OutputFaithful == Steps!OutputFaithful
SystemFailureStops == Steps!SystemFailureStops

\* What the server is told is a success left nothing in Docker.
SuccessLeavesNothing ==
  \A a \in Attempts : reported[a] = "succeeded" => \A n \in Names : <<a, n>> \notin docker

\* While the steps of an attempt run, its network, volume and containers are
\* there: no reconciliation takes them, unless it began before the attempt.
ResourcesStay ==
  Stage = "steps" /\ ~ exposed => Named(Names) \subseteq docker

\* The same without the exception: what the documentation promises, and the
\* snapshot of the executing attempts breaks.
SweepsKeepActive == Stage = "steps" => Named(Names) \subseteq docker

\* An execution ends, also when a request of it will never be answered.
ExecutionEnds == \A a \in Attempts : attempt = a ~> attempt # a

\* What an execution left behind, with the runner's labels.
Leftover(a) == {<<a, n>> : n \in Names} \cap {r \in docker : attempt # a /\ Labelled(r)}

\* What has the runner's labels and belongs to no execution is removed.
Reclaimed == \A a \in Attempts : []<>(Leftover(a) = {})
=============================================================================
