----------------------------- MODULE StepRunner -----------------------------
(***************************************************************************)
(* The steps of one attempt on a runner, one after the other               *)
(* (runner-go/internal/runner/executor.go runSteps, and runDockerSteps of  *)
(* docker_executor.go): the condition of a step, the command whose output  *)
(* goes through the redactor to the server, the builtin steps, and the     *)
(* outcome they add up to.                                                 *)
(*                                                                         *)
(* "err", "connected", "ready" and "live" belong to the executor around    *)
(* the steps.  They are read here and change under a step's feet: the code *)
(* asks for each of them at one moment and acts on the answer later.       *)
(*                                                                         *)
(* Not modelled: the cap of 10 MB on the output of a command, beyond which *)
(* the rest is dropped and the step may still succeed; and a Docker        *)
(* command whose output is still copied 2 s after it was killed: the       *)
(* writer is finished then, and what comes later would start a redactor    *)
(* without the bytes that Finish let go.                                   *)
(***************************************************************************)
EXTENDS CommandOutput

CONSTANTS
  Programs,    \* sequences of steps, each with its kind and its condition
  HasServices  \* whether the job runs beside service containers

Kinds == {"run", "builtin", "checkout", "other"}
Conditions == {"success", "failure", "always"}

VARIABLES
  program,    \* the steps of the attempt
  phase,      \* where the step that comes next, or runs, is
  results,    \* history: what every step that was passed came to
  reason,     \* the reason of the first failure, "" as long as there is none
  stepReason, \* what the step that is about to be reported came to
  outcome,    \* the outcome of the attempt, once it is known
  exit,       \* how the command ended
  broken,     \* the server did not take some output of the command
  sent,       \* number of consumed bytes that were handed to the server
  seen,       \* positions of the output the server has seen as they are
  text, pushed, consumed, raw, mode,  \* the redactor
  err,        \* of the context of the attempt: "none", "cancelled", "timeout"
  connected,  \* whether requests are answered
  ready,      \* whether every service runs
  live        \* whether the place where commands run is there

Output == INSTANCE Redactor

outputVars == <<broken, sent, seen, text, pushed, consumed, raw, mode>>
loopVars == <<program, results, reason, outcome>>
stepVars == <<loopVars, outputVars, phase, stepReason, exit>>

Reasons == {"command_failed", "system_failure", "service_unavailable", "cancelled", "timeout"}
Outcomes == [status : {"none", "succeeded", "failed", "cancelled"}, reason : Reasons \cup {""}]
Phases == {"idle", "between", "checking", "announcing", "running", "ended", "builtin",
           "reporting", "done"}
NoOutcome == [status |-> "none", reason |-> ""]
Failed(r) == [status |-> "failed", reason |-> r]

TypeOK ==
  /\ Output!TypeOK
  /\ program \in Programs \cup {<< >>}
  /\ phase \in Phases
  /\ results \in Seq(Reasons \cup {"", "skipped"}) /\ Len(results) <= Len(program)
  /\ reason \in Reasons \cup {""} /\ stepReason \in Reasons \cup {""}
  /\ outcome \in Outcomes
  /\ exit \in {"ok", "failed"} /\ broken \in BOOLEAN
  /\ sent \in 0..consumed /\ seen \subseteq raw

Init ==
  /\ Output!Init
  /\ program = << >> /\ phase = "idle" /\ results = << >> /\ reason = "" /\ stepReason = ""
  /\ outcome = NoOutcome /\ exit = "ok" /\ broken = FALSE /\ sent = 0 /\ seen = {}

\* The next command starts with a new writer and a new redactor.
NewWriter ==
  /\ text' = << >> /\ pushed' = 0 /\ consumed' = 0 /\ raw' = {} /\ mode' = "idle"
  /\ broken' = FALSE /\ sent' = 0 /\ seen' = {} /\ exit' = "ok" /\ stepReason' = ""

\* Nothing is left of the steps but their outcome.
Forget ==
  /\ NewWriter
  /\ program' = << >> /\ phase' = "idle" /\ results' = << >> /\ reason' = ""

Start(p) ==
  /\ phase = "idle"
  /\ program' = p /\ phase' = "between"
  /\ UNCHANGED <<results, reason, outcome, stepReason, exit, outputVars>>

---------------------------------------------------------------------------
(* The loop *)

\* A request returns when it is answered or its context ends.
Answerable == connected \/ err # "none"

More == Len(results) < Len(program)
Step == program[Len(results) + 1]

\* Mutant: a step for failures runs after a success as well.
ConditionMatches_AnyFailure(condition) == condition = "success" => reason = ""

ConditionMatches(condition) ==
  \/ condition = "success" /\ reason = ""
  \/ condition = "failure" /\ reason # ""
  \/ condition = "always"

ContextOutcome ==
  IF err = "timeout" THEN Failed("timeout") ELSE [status |-> "cancelled", reason |-> "cancelled"]

Due == phase = "between" /\ More /\ Step.kind # "checkout" /\ ConditionMatches(Step.condition)

Skip ==
  /\ phase = "between" /\ More
  /\ \/ Step.kind = "checkout"
     \/ Step.kind # "checkout" /\ ~ ConditionMatches(Step.condition) /\ Answerable
  /\ results' = Append(results, "skipped")
  /\ UNCHANGED <<program, reason, outcome, phase, stepReason, exit, outputVars>>

End(o) ==
  /\ outcome' = o /\ phase' = "done"
  /\ UNCHANGED <<program, results, reason, stepReason, exit, outputVars>>

Halt == Due /\ err # "none" /\ End(ContextOutcome)

Check ==
  /\ Due /\ err = "none"
  /\ phase' = "checking"
  /\ UNCHANGED <<loopVars, stepReason, exit, outputVars>>

\* The inspection of a service is killed with the context, and counts as a loss.
LoseServices ==
  /\ phase = "checking" /\ (~ ready \/ (HasServices /\ err # "none"))
  /\ End(Failed("service_unavailable"))

Begin ==
  /\ phase = "checking" /\ ready
  /\ \/ Step.kind \in {"run", "builtin"} /\ phase' = "announcing" /\ UNCHANGED stepReason
     \/ Step.kind = "other" /\ phase' = "reporting" /\ stepReason' = "command_failed"
  /\ UNCHANGED <<loopVars, exit, outputVars>>

Complete ==
  /\ phase = "between" /\ ~ More
  /\ End(IF reason = "" THEN [status |-> "succeeded", reason |-> ""] ELSE Failed(reason))

---------------------------------------------------------------------------
(* A step *)

\* The step is announced; the answer of the server makes no difference.
Announce ==
  /\ phase = "announcing" /\ Answerable
  /\ \/ /\ Step.kind = "run" /\ \E t \in Texts : Output!Open(t)
        /\ phase' = "running" /\ UNCHANGED stepReason
     \/ /\ Step.kind = "builtin"
        /\ phase' = "builtin" /\ UNCHANGED <<stepReason, text, pushed, consumed, raw, mode>>
     \/ /\ Step.kind = "run" /\ phase' = "reporting" /\ stepReason' = "system_failure"
        /\ UNCHANGED <<text, pushed, consumed, raw, mode>>  \* it could not be started
  /\ UNCHANGED <<loopVars, exit, broken, sent, seen>>

\* The command writes; once the server refused output, writes fail at once.
Write ==
  /\ phase = "running" /\ ~ broken /\ live
  /\ \E n \in 1..Len(text) : Output!Push(n)
  /\ UNCHANGED <<loopVars, phase, stepReason, exit, broken, sent, seen>>

Redact ==
  /\ Output!Replace \/ Output!PassOn
  /\ UNCHANGED <<loopVars, phase, stepReason, exit, broken, sent, seen>>

\* deliver: a refusal, or the end of the context, is remembered as deliveryErr.
Deliver ==
  /\ Output!Return
  /\ sent' = consumed
  /\ \/ consumed = sent /\ UNCHANGED <<broken, seen>>
     \/ consumed > sent /\ connected /\ seen' = seen \cup {p \in raw : p > sent} /\ UNCHANGED broken
     \/ consumed > sent /\ Answerable /\ broken' = TRUE /\ UNCHANGED seen
  /\ UNCHANGED <<loopVars, phase, stepReason, exit>>

EndCommand(how) ==
  /\ phase = "running" /\ mode = "open"
  /\ exit' = how /\ phase' = "ended"
  /\ UNCHANGED <<loopVars, stepReason, outputVars>>

Exit == \E how \in {"ok", "failed"} : (how = "ok" => live) /\ EndCommand(how)
Kill == err # "none" /\ EndCommand("failed")

Flush ==
  /\ phase = "ended" /\ Output!Finish
  /\ UNCHANGED <<loopVars, phase, stepReason, exit, broken, sent, seen>>

\* Mutant: lost output goes unnoticed.
Verdict_LossIgnored ==
  /\ phase = "ended" /\ mode = "closed"
  /\ stepReason' = IF err # "none" THEN ContextOutcome.reason
                   ELSE IF exit = "ok" THEN "" ELSE "command_failed"
  /\ phase' = "reporting"
  /\ UNCHANGED <<loopVars, exit, outputVars>>

Verdict ==
  /\ phase = "ended" /\ mode = "closed"
  /\ stepReason' = IF err # "none" THEN ContextOutcome.reason
                   ELSE IF broken THEN "system_failure"
                   ELSE IF exit = "ok" THEN "" ELSE "command_failed"
  /\ phase' = "reporting"
  /\ UNCHANGED <<loopVars, exit, outputVars>>

\* Files are copied and transferred, in a directory of the step; the end of the
\* context is one more error.
Builtin ==
  /\ phase = "builtin"
  /\ \/ live /\ err = "none" /\ stepReason' = ""
     \/ stepReason' \in {"command_failed", "system_failure"}
  /\ phase' = "reporting"
  /\ UNCHANGED <<loopVars, exit, outputVars>>

\* The end of a step is reported, then counted.  A step that was stopped is
\* reported outside the context that stopped it: only an answer ends that.
Conclude ==
  /\ phase = "reporting"
  /\ IF stepReason \in {"cancelled", "timeout"} THEN connected ELSE Answerable
  /\ results' = Append(results, stepReason)
  /\ IF stepReason \in {"cancelled", "timeout"}
       THEN /\ outcome' = IF stepReason = "timeout" THEN Failed("timeout")
                          ELSE [status |-> "cancelled", reason |-> "cancelled"]
            /\ phase' = "done" /\ UNCHANGED reason
       ELSE /\ reason' = IF reason = "" THEN stepReason ELSE reason
            /\ phase' = "between" /\ UNCHANGED outcome
  /\ NewWriter
  /\ UNCHANGED program

\* Everything that does not depend on how long a command takes.
Progress ==
  \/ Skip \/ Halt \/ Check \/ LoseServices \/ Begin \/ Complete
  \/ Announce \/ Redact \/ Deliver \/ Flush \/ Verdict \/ Builtin \/ Conclude

---------------------------------------------------------------------------
(* Properties *)

\* The conditions and the outcome agree with what the steps really came to: a
\* step for successes ran only if every step before it succeeded, one for
\* failures only after a failure; success means that every step was passed and
\* none failed, and another outcome of the loop names the first failure.
OutcomeSound ==
  LET Bad(i) == results[i] \notin {"", "skipped"} IN
  /\ \A i \in 1..Len(results) : results[i] # "skipped" =>
       CASE program[i].condition = "success" -> \A j \in 1..i - 1 : ~ Bad(j)
         [] program[i].condition = "failure" -> \E j \in 1..i - 1 : Bad(j)
         [] OTHER -> TRUE
  /\ phase = "done" /\ outcome.status = "succeeded" =>
       Len(results) = Len(program) /\ \A i \in 1..Len(results) : ~ Bad(i)
  /\ phase = "done" /\ outcome.reason \in {"command_failed", "system_failure"} =>
       \E i \in 1..Len(results) : results[i] = outcome.reason /\ \A j \in 1..i - 1 : ~ Bad(j)

\* The server never sees a secret, whatever the chunks of the output and
\* whenever the command is stopped; and a step only succeeds when the server
\* has all of its output but the secrets that were replaced.
OutputFaithful ==
  /\ \A s \in Secrets, p \in seen : ~ Output!Occurs(s, p, pushed)
  /\ phase = "reporting" /\ mode = "closed" /\ stepReason = "" => Output!Redaction(seen)

\* What the workflow documentation asks for and the code does not do: a failure
\* of the system stops the steps, whatever their conditions.
SystemFailureStops ==
  \A i \in 1..Len(results) : results[i] = "system_failure" =>
    \A j \in i + 1..Len(results) : results[j] = "skipped"
=============================================================================
