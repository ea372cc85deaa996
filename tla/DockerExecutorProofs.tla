------------------------ MODULE DockerExecutorProofs ------------------------
(* Theorems about DockerExecutor and the steps it runs, for every number of *)
(* attempts and services, all programs, secrets and outputs, and any number *)
(* of crashes, stops and failed reconciliations.                            *)
EXTENDS DockerExecutor, SequenceTheorems, TLAPS

\* The facts about the redactor, whose variables have the same names here.
Red == INSTANCE RedactorProofs

---------------------------------------------------------------------------
(* The invariant of the steps *)

Results == Steps!Reasons \cup {"", "skipped"}
Bad(i) == results[i] \notin {"", "skipped"}
NoneBad == \A i \in 1..Len(results) : ~ Bad(i)
FirstBad(r) ==
  \E i \in 1..Len(results) : results[i] = r /\ Bad(i) /\ \A j \in 1..i - 1 : ~ Bad(j)

\* Phases in which a step is under way.
InStep == {"checking", "announcing", "running", "ended", "builtin", "reporting"}

\* "reason" is what the first failure of the results came to.
ReasonFits == IF reason = "" THEN NoneBad ELSE FirstBad(reason)

\* The conditions agree with the results (the first part of OutcomeSound).
ConditionsKept ==
  \A i \in 1..Len(results) : results[i] # "skipped" =>
    CASE program[i].condition = "success" -> \A j \in 1..i - 1 : ~ Bad(j)
      [] program[i].condition = "failure" -> \E j \in 1..i - 1 : Bad(j)
      [] OTHER -> TRUE

\* A step that is under way was due, and still is: nothing that its condition
\* reads changes before it is counted.
LoopInv ==
  /\ phase \in InStep => /\ Steps!More /\ Steps!Step.kind # "checkout"
                         /\ Steps!ConditionMatches(Steps!Step.condition)
  /\ phase # "done" => ReasonFits
  /\ phase = "idle" => results = << >>
  /\ Steps!OutcomeSound

\* The writer of a command has handed on what the redactor gave it, unless the
\* server did not take it.
WriterInv ==
  /\ mode # "idle" => phase \in {"running", "ended", "reporting"}
  /\ phase = "reporting" => mode \in {"idle", "closed"}
  /\ mode = "idle" => consumed = 0 /\ ~ broken
  /\ mode \in {"idle", "open", "closed"} => sent = consumed
  /\ ~ broken => seen = {p \in raw : p <= sent}
  /\ phase = "reporting" /\ stepReason = "" => ~ broken

StepsInv == Steps!TypeOK /\ LoopInv /\ WriterInv /\ Red!IInv

---------------------------------------------------------------------------
(* The invariant of the execution *)

\* What is left of an execution: of one that goes well, of one that fails
\* before its steps, and of one whose start is refused.
Plans ==
  {<<"preflight", "prepare", "announce", "steps", "cleanup", "report">>,
   <<"prepare", "announce", "steps", "cleanup", "report">>,
   <<"announce", "steps", "cleanup", "report">>,
   <<"steps", "cleanup", "report">>, <<"cleanup", "report">>, <<"report">>, <<"deliver">>,
   <<"report", "cleanup">>, <<"deliver", "cleanup">>, <<"cleanup">>, << >>}

\* The plans that end with the report of what the steps came to.
AfterSteps == {<<"report">>, <<"deliver">>, << >>}
Succeeding == {<<"steps", "cleanup", "report">>, <<"cleanup", "report">>} \cup AfterSteps

PlanInv ==
  /\ todo \in Plans
  /\ ~ Executing => /\ todo = << >> /\ phase = "idle" /\ outcome = Steps!NoOutcome
                    /\ ~ exposed
  /\ phase # "idle" => Stage = "steps"
  /\ Stage \in {"cleanup", "report", "deliver"} /\ todo \notin AfterSteps => left # << >>
  /\ proc \in {"reconciling", "down"} => ~ Executing
  /\ outcome.status = "succeeded" => todo \in Succeeding

\* What the preparation has passed is there, unless a reconciliation that knows
\* nothing of the attempt runs.
ResourceInv ==
  /\ made <= Len(Preparation)
  /\ Stage \notin {"prepare", "announce", "steps"} => made = 0
  /\ Stage \in {"announce", "steps"} => made = Len(Preparation)
  /\ ~ exposed => \A i \in 1..made : <<attempt, Preparation[i].name>> \in docker

\* A reconciliation keeps what executes and was not accepted behind its back.
SweepInv ==
  /\ sweep.kind = 0 => sweep.found = {}
  /\ \A r \in sweep.found : r[1] \notin sweep.kept
  /\ sweep.kind # 0 /\ Underway /\ ~ exposed => attempt \in sweep.kept

\* Nothing of attempt a is in Docker.
Nothing(a) == \A n \in Names : <<a, n>> \notin docker

\* What is there or may still be made belongs to attempts that were accepted,
\* and what may still be made to none that succeeded or may yet succeed.
LeftoverInv ==
  /\ \A r \in docker \cup late : r[1] \in accepted
  /\ \A a \in Attempts : reported[a] # "none" => a \in accepted
  /\ Underway => reported[attempt] = "none"
  /\ \A r \in late : /\ reported[r[1]] # "succeeded"
                     /\ r[1] = attempt => ~ Underway /\ outcome.status # "succeeded"
  /\ outcome.status = "succeeded" /\ todo = <<"cleanup", "report">> /\ ~ dirty =>
       \A n \in Names : <<attempt, n>> \in docker => n \in ToSet(left)
  /\ outcome.status = "succeeded" /\ todo \in AfterSteps => Nothing(attempt)
  /\ SuccessLeavesNothing

ExecutionInv == PlanInv /\ ResourceInv /\ SweepInv /\ LeftoverInv

IInv == TypeOK /\ StepsInv /\ ExecutionInv

---------------------------------------------------------------------------
(* The steps: the loop *)

\* The redactor that the steps use is the one of the facts.
LEMMA SameRedactor ==
  /\ Steps!Output!TypeOK <=> Red!TypeOK
  /\ \A t \in Texts : Steps!Output!Open(t) <=> Red!Open(t)
  /\ \A n : Steps!Output!Push(n) <=> Red!Push(n)
  /\ Steps!Output!Replace <=> Red!Replace
  /\ Steps!Output!PassOn <=> Red!PassOn
  /\ Steps!Output!Finish <=> Red!Finish
  /\ Steps!Output!Return <=> Red!Return
  BY DEF Steps!Output!TypeOK, Red!TypeOK, Steps!Output!Modes, Red!Modes, Steps!Output!Open,
         Red!Open, Steps!Output!Push, Red!Push, Steps!Output!Replace, Red!Replace,
         Steps!Output!PassOn, Red!PassOn, Steps!Output!Finish, Red!Finish,
         Steps!Output!Return, Red!Return, Steps!Output!Working, Red!Working,
         Steps!Output!Matching, Red!Matching, Steps!Output!HeldBack, Red!HeldBack,
         Steps!Output!Occurs, Red!Occurs, Steps!Output!Agrees, Red!Agrees,
         Steps!Output!First, Red!First

\* Turns and calls of the redactor keep its invariant.
LEMMA RedactorKept ==
  ASSUME Red!IInv,
         \/ UNCHANGED <<text, pushed, consumed, raw, mode>>
         \/ mode = "idle" /\ \E t \in Texts : Steps!Output!Open(t)
         \/ \E n \in 1..Len(text) : Steps!Output!Push(n)
         \/ Steps!Output!Replace \/ Steps!Output!PassOn
         \/ Steps!Output!Finish \/ Steps!Output!Return
  PROVE  Red!IInv'
<1>1. [Red!Next]_Red!vars
  BY SameRedactor DEF Red!Next, Red!vars
<1> QED
  BY <1>1, Red!NextInv, OutputAssumption

\* A new writer has a redactor that satisfies its invariant.
LEMMA NewRedactor == Steps!NewWriter => Red!IInv'
<1> SUFFICES ASSUME Steps!NewWriter PROVE Red!IInv'
  OBVIOUS
<1>1. pushed' = 0 /\ consumed' = 0 /\ raw' = {} /\ mode' = "idle"
  BY DEF Steps!NewWriter
<1>2. text' \in Seq(Byte) /\ Len(text') = 0
  BY EmptySeq DEF Steps!NewWriter
<1>3. Red!TypeOK'
  BY <1>1, <1>2 DEF Red!TypeOK, Red!Modes
<1>4. Red!Settled' /\ Red!Ended'
  BY <1>1 DEF Red!Settled, Red!Ended
<1>5. Red!First' = 1
  BY <1>1 DEF Red!First
<1>6. {1} \in SUBSET (1..Red!First') /\ Red!ReadFrom({1})'
  BY <1>5 DEF Red!ReadFrom
<1> QED
  BY <1>3, <1>4, <1>6 DEF Red!IInv, Red!Sound, Red!Read

\* The next step of the program, as long as there is one.
LEMMA StepFits ==
  ASSUME Steps!TypeOK
  PROVE  /\ program \in Seq([kind : Steps!Kinds, condition : Steps!Conditions])
         /\ Len(results) \in Nat /\ Len(program) \in Nat
         /\ Steps!More => /\ Len(results) + 1 \in 1..Len(program)
                          /\ Steps!Step \in [kind : Steps!Kinds, condition : Steps!Conditions]
<1> DEFINE S == [kind : Steps!Kinds, condition : Steps!Conditions]
<1>1. program \in Seq(S)
  BY StepAssumption, EmptySeq DEF Steps!TypeOK
<1> HIDE DEF S
<1>2. Len(results) \in Nat /\ Len(program) \in Nat
  BY <1>1, LenProperties DEF Steps!TypeOK
<1>3. ASSUME Steps!More
      PROVE  Len(results) + 1 \in 1..Len(program) /\ Steps!Step \in S
  <2>1. Len(results) + 1 \in 1..Len(program)
    BY <1>2, <1>3 DEF Steps!More
  <2> QED
    BY <1>1, <2>1, ElementOfSeq DEF Steps!Step
<1> QED
  BY <1>1, <1>2, <1>3 DEF S

\* A sequence with one more element.
LEMMA OneMore ==
  ASSUME NEW R, NEW s \in Seq(R), NEW r \in R, NEW n \in Nat, n = Len(s)
  PROVE  /\ Append(s, r) \in Seq(R) /\ Len(Append(s, r)) = n + 1
         /\ \A i \in 1..n : Append(s, r)[i] = s[i]
         /\ Append(s, r)[n + 1] = r
  BY AppendProperties

\* The results before the one with number i+1 are results up to i.
LEMMA UpTo ==
  ASSUME NEW n \in Nat
  PROVE  /\ \A i \in 1..n + 1 : i \in 1..n \/ i = n + 1
         /\ \A i \in 1..n : i \in 1..n + 1 /\ \A j \in 1..i - 1 : j \in 1..n
         /\ 1..(n + 1) - 1 = 1..n /\ n + 1 \in 1..n + 1
  OBVIOUS

LEMMA NotLess == \A k \in Nat, m \in Nat : k <= m /\ ~ (k < m) => k = m
  OBVIOUS

\* One more result: what a condition asks of the results before it is kept, and
\* the reason stays that of the first failure.
LEMMA OneMoreResult ==
  ASSUME StepsInv, ReasonFits, Steps!More, UNCHANGED program,
         NEW r \in Results, results' = Append(results, r),
         r # "skipped" => Steps!ConditionMatches(Steps!Step.condition),
         NEW n \in Nat, n = Len(results)
  PROVE  /\ ConditionsKept'
         /\ Len(results') = n + 1 /\ n + 1 <= Len(program)
         /\ \A i \in 1..n : results'[i] = results[i]
         /\ results'[n + 1] = r
         /\ results' \in Seq(Results)
<1>1. results \in Seq(Results) /\ n < Len(program) /\ Len(program) \in Nat
  BY StepFits DEF StepsInv, Steps!TypeOK, Steps!More, Results
<1>2. /\ results' \in Seq(Results) /\ Len(results') = n + 1
      /\ \A i \in 1..n : results'[i] = results[i]
      /\ results'[n + 1] = r
  BY <1>1, OneMore
<1>3. Steps!Step = program'[n + 1]
  BY DEF Steps!Step
<1>4. ASSUME NEW i \in 1..n + 1, results'[i] # "skipped"
      PROVE  CASE program'[i].condition = "success" -> \A j \in 1..i - 1 : ~ Bad(j)'
               [] program'[i].condition = "failure" -> \E j \in 1..i - 1 : Bad(j)'
               [] OTHER -> TRUE
  <2>1. CASE i \in 1..n
    <3>1. results[i] # "skipped" /\ program'[i] = program[i] /\ i \in 1..Len(results)
      BY <1>2, <1>4, <2>1
    <3>2. \A j \in 1..i - 1 : Bad(j)' <=> Bad(j)
      BY <1>2, <2>1, UpTo DEF Bad
    <3> QED
      BY <3>1, <3>2 DEF StepsInv, LoopInv, Steps!OutcomeSound, Bad
  <2>2. CASE i = n + 1
    <3>1. Steps!ConditionMatches(program'[i].condition) /\ 1..i - 1 = 1..Len(results)
      BY <1>2, <1>3, <1>4, <2>2, UpTo
    <3>2. \A j \in 1..Len(results) : Bad(j)' <=> Bad(j)
      BY <1>2 DEF Bad
    <3> QED
      BY <3>1, <3>2 DEF Steps!ConditionMatches, ReasonFits, NoneBad, FirstBad
  <2> QED
    BY <2>1, <2>2, UpTo
<1>5. n + 1 <= Len(program)
  BY <1>1
<1> QED
  BY <1>2, <1>4, <1>5 DEF ConditionsKept, Bad

\* A result that is counted leaves the reason that of the first failure.
LEMMA ReasonCounted ==
  ASSUME StepsInv, ReasonFits, Steps!More, UNCHANGED program,
         NEW r \in Results, results' = Append(results, r),
         r # "skipped" => Steps!ConditionMatches(Steps!Step.condition),
         reason' = IF reason = "" /\ r # "skipped" THEN r ELSE reason
  PROVE  ReasonFits'
<1>n. PICK n \in Nat : n = Len(results)
  BY StepFits DEF StepsInv
<1>1. /\ Len(results') = n + 1
      /\ \A i \in 1..n : Bad(i)' <=> Bad(i)
      /\ \A i \in 1..n : results'[i] = results[i]
      /\ results'[n + 1] = r /\ (Bad(n + 1)' <=> r \notin {"", "skipped"})
  BY <1>n, OneMoreResult DEF Bad
<1>2. CASE reason = "" /\ r \in {"", "skipped"}
  BY <1>n, <1>1, <1>2, UpTo DEF ReasonFits, NoneBad
<1>3. CASE reason = "" /\ r \notin {"", "skipped"}
  <2>1. \A j \in 1..(n + 1) - 1 : ~ Bad(j)'
    BY <1>n, <1>1, <1>3, UpTo DEF ReasonFits, NoneBad
  <2>2. /\ n + 1 \in 1..Len(results') /\ results'[n + 1] = reason' /\ reason' # ""
        /\ Bad(n + 1)'
    BY <1>1, <1>3, UpTo
  <2> QED
    BY <2>1, <2>2 DEF ReasonFits, FirstBad
<1>4. CASE reason # ""
  <2>1. PICK i \in 1..n : results[i] = reason /\ Bad(i) /\ \A j \in 1..i - 1 : ~ Bad(j)
    BY <1>n, <1>4 DEF ReasonFits, FirstBad
  <2>2. i \in 1..n + 1 /\ results'[i] = reason /\ Bad(i)' /\ \A j \in 1..i - 1 : ~ Bad(j)'
    BY <1>1, <2>1, UpTo
  <2> QED
    BY <1>1, <1>4, <2>2 DEF ReasonFits, FirstBad
<1> QED
  BY <1>2, <1>3, <1>4

\* The parts of OutcomeSound.
LEMMA OutcomeParts ==
  Steps!OutcomeSound <=>
    /\ ConditionsKept
    /\ phase = "done" /\ outcome.status = "succeeded" => Len(results) = Len(program) /\ NoneBad
    /\ phase = "done" /\ outcome.reason \in {"command_failed", "system_failure"} =>
         \E i \in 1..Len(results) : results[i] = outcome.reason /\ \A j \in 1..i - 1 : ~ Bad(j)
  BY DEF Steps!OutcomeSound, ConditionsKept, NoneBad, Bad

LEMMA OutcomePartsNext ==
  Steps!OutcomeSound' <=>
    /\ ConditionsKept'
    /\ (phase = "done" /\ outcome.status = "succeeded")' =>
         (Len(results) = Len(program))' /\ NoneBad'
    /\ (phase = "done" /\ outcome.reason \in {"command_failed", "system_failure"})' =>
         (\E i \in 1..Len(results) : results[i] = outcome.reason /\ \A j \in 1..i - 1 : ~ Bad(j))'
  BY DEF Steps!OutcomeSound, ConditionsKept, NoneBad, Bad

\* A change of phase between two steps or within one.
LEMMA PhaseChanges ==
  ASSUME LoopInv, UNCHANGED <<program, results, reason>>, phase # "done", phase' # "done",
         phase' \in InStep => phase \in InStep \/ Steps!Due,
         phase' = "idle" => phase = "idle"
  PROVE  LoopInv'
<1>1. ReasonFits' /\ ConditionsKept'
  BY OutcomeParts DEF LoopInv, ReasonFits, NoneBad, FirstBad, Bad, ConditionsKept
<1>2. phase' \in InStep => /\ Steps!More' /\ Steps!Step'.kind # "checkout"
                           /\ Steps!ConditionMatches(Steps!Step.condition)'
  BY DEF LoopInv, Steps!Due, Steps!More, Steps!Step, Steps!ConditionMatches
<1>3. phase' = "idle" => results' = << >>
  BY DEF LoopInv
<1> QED
  BY <1>1, <1>2, <1>3, OutcomePartsNext DEF LoopInv

\* The loop ends with an outcome that its results justify.
LEMMA LoopEnds ==
  ASSUME StepsInv, UNCHANGED <<program, results, reason>>, phase # "done", phase' = "done",
         outcome'.status = "succeeded" => ~ Steps!More /\ reason = "",
         outcome'.reason \in {"command_failed", "system_failure"} => outcome'.reason = reason
  PROVE  LoopInv'
<1>1. ConditionsKept' /\ ReasonFits
  BY OutcomeParts DEF StepsInv, LoopInv, ConditionsKept, Bad
<1>2. outcome'.status = "succeeded" => (Len(results) = Len(program))' /\ NoneBad'
  <2>1. ~ Steps!More => Len(results) = Len(program)
    <3>1. Len(results) \in Nat /\ Len(program) \in Nat /\ Len(results) <= Len(program)
      BY StepFits DEF StepsInv, Steps!TypeOK
    <3> QED
      BY <3>1, NotLess, Zenon DEF Steps!More
  <2> QED
    BY <1>1, <2>1 DEF ReasonFits, NoneBad, Bad
<1>3. outcome'.reason \in {"command_failed", "system_failure"} =>
        (\E i \in 1..Len(results) : results[i] = outcome.reason /\ \A j \in 1..i - 1 : ~ Bad(j))'
  BY <1>1 DEF ReasonFits, FirstBad, Bad
<1> QED
  BY <1>1, <1>2, <1>3, OutcomePartsNext DEF LoopInv, InStep

---------------------------------------------------------------------------
(* The steps: one lemma for the actions of the loop, one for the writer *)

\* The types of what the writer knows.
WriterTypes ==
  /\ Steps!Output!TypeOK /\ broken \in BOOLEAN /\ sent \in 0..consumed /\ seen \subseteq raw

\* The types of what the loop knows.
LoopTypes ==
  /\ program \in Programs \cup {<< >>} /\ phase \in Steps!Phases
  /\ results \in Seq(Results) /\ Len(results) <= Len(program)
  /\ reason \in Steps!Reasons \cup {""} /\ stepReason \in Steps!Reasons \cup {""}
  /\ outcome \in Steps!Outcomes /\ exit \in {"ok", "failed"}

LEMMA StepsTypes == Steps!TypeOK <=> WriterTypes /\ LoopTypes
  BY DEF Steps!TypeOK, WriterTypes, LoopTypes, Results

LEMMA StepsTypesNext == Steps!TypeOK' <=> WriterTypes' /\ LoopTypes'
  BY DEF Steps!TypeOK, WriterTypes, LoopTypes, Results

\* The outcomes that the loop ends with.
LEMMA OutcomesFit ==
  /\ Steps!ContextOutcome \in Steps!Outcomes /\ Steps!NoOutcome \in Steps!Outcomes
  /\ Steps!ContextOutcome.status \in {"failed", "cancelled"}
  /\ Steps!ContextOutcome.reason \in {"timeout", "cancelled"}
  /\ Steps!NoOutcome.status = "none"
  /\ \A r \in Steps!Reasons : /\ Steps!Failed(r) \in Steps!Outcomes
                              /\ Steps!Failed(r).status = "failed" /\ Steps!Failed(r).reason = r
  /\ [status |-> "succeeded", reason |-> ""] \in Steps!Outcomes
  BY DEF Steps!ContextOutcome, Steps!Outcomes, Steps!NoOutcome, Steps!Failed, Steps!Reasons

LEMMA QuietWriter ==
  ASSUME StepsInv, UNCHANGED Steps!outputVars
  PROVE  WriterTypes' /\ Red!IInv'
  BY StepsTypes, RedactorKept
     DEF StepsInv, Steps!outputVars, WriterTypes, Steps!Output!TypeOK, Steps!Output!Modes

\* Skip: what is skipped is counted.
LEMMA SkipKept == StepsInv /\ Steps!Skip => StepsInv'
<1> SUFFICES ASSUME StepsInv, Steps!Skip PROVE StepsInv'
  OBVIOUS
<1>1. /\ phase = "between" /\ Steps!More /\ results' = Append(results, "skipped")
      /\ UNCHANGED <<program, reason, outcome, phase, stepReason, exit>>
      /\ UNCHANGED Steps!outputVars /\ "skipped" \in Results /\ ReasonFits
  BY DEF Steps!Skip, Results, StepsInv, LoopInv
<1>n. PICK n \in Nat : n = Len(results)
  BY StepFits DEF StepsInv
<1>2. ReasonFits'
  BY <1>1, ReasonCounted
<1>3. ConditionsKept' /\ results' \in Seq(Results) /\ Len(results') <= Len(program)
  BY <1>1, <1>n, OneMoreResult
<1>4. LoopInv'
  BY <1>1, <1>2, <1>3, OutcomePartsNext DEF LoopInv, InStep
<1>5. WriterTypes' /\ Red!IInv' /\ LoopTypes'
  BY <1>1, <1>3, QuietWriter, StepsTypes DEF StepsInv, LoopTypes
<1>6. WriterInv'
  BY <1>1 DEF StepsInv, WriterInv, Steps!outputVars
<1> QED
  BY <1>4, <1>5, <1>6, StepsTypesNext DEF StepsInv

\* Halt, LoseServices, Complete: the loop ends.
LEMMA EndKept ==
  StepsInv /\ (Steps!Halt \/ Steps!LoseServices \/ Steps!Complete) => StepsInv'
<1> SUFFICES ASSUME StepsInv, Steps!Halt \/ Steps!LoseServices \/ Steps!Complete
             PROVE  StepsInv'
  OBVIOUS
<1>1. /\ phase \in {"between", "checking"} /\ phase' = "done"
      /\ UNCHANGED <<program, results, reason, stepReason, exit>>
      /\ UNCHANGED Steps!outputVars
  BY DEF Steps!Halt, Steps!LoseServices, Steps!Complete, Steps!Due, Steps!End
<1>2. /\ outcome' \in Steps!Outcomes
      /\ outcome'.status = "succeeded" => ~ Steps!More /\ reason = ""
      /\ outcome'.reason \in {"command_failed", "system_failure"} => outcome'.reason = reason
  <2>1. CASE Steps!Halt
    BY <2>1, OutcomesFit DEF Steps!Halt, Steps!End
  <2>2. CASE Steps!LoseServices
    <3>1. "service_unavailable" \in Steps!Reasons
      BY DEF Steps!Reasons
    <3> QED
      BY <2>2, <3>1, OutcomesFit DEF Steps!LoseServices, Steps!End
  <2>3. CASE Steps!Complete
    BY <2>3, OutcomesFit, StepsTypes DEF Steps!Complete, Steps!End, StepsInv, LoopTypes
  <2> QED
    BY <2>1, <2>2, <2>3
<1>3. LoopInv'
  BY <1>1, <1>2, LoopEnds
<1>4. WriterTypes' /\ Red!IInv' /\ LoopTypes'
  BY <1>1, <1>2, QuietWriter, StepsTypes DEF StepsInv, LoopTypes, Steps!Phases
<1>5. WriterInv'
  BY <1>1 DEF StepsInv, WriterInv, Steps!outputVars
<1> QED
  BY <1>3, <1>4, <1>5, StepsTypesNext DEF StepsInv

\* Check, Begin, EndCommand, Verdict, Builtin: the phase goes on.
LEMMA PhaseKept ==
  StepsInv /\ (Steps!Check \/ Steps!Begin \/ Steps!Exit \/ Steps!Kill \/ Steps!Verdict
                 \/ Steps!Builtin) => StepsInv'
<1> SUFFICES ASSUME StepsInv, Steps!Check \/ Steps!Begin \/ Steps!Exit \/ Steps!Kill
                                \/ Steps!Verdict \/ Steps!Builtin
             PROVE  StepsInv'
  OBVIOUS
<1>1. /\ UNCHANGED <<program, results, reason, outcome>> /\ UNCHANGED Steps!outputVars
      /\ phase # "done" /\ phase' \in InStep /\ phase' \in Steps!Phases
      /\ phase \in InStep \/ Steps!Due
  BY DEF Steps!Check, Steps!Begin, Steps!Exit, Steps!Kill, Steps!EndCommand, Steps!Verdict,
         Steps!Builtin, Steps!loopVars, Steps!Due, InStep, Steps!Phases
<1>2. exit' \in {"ok", "failed"} /\ stepReason' \in Steps!Reasons \cup {""}
  <2>1. exit \in {"ok", "failed"} /\ stepReason \in Steps!Reasons \cup {""}
    BY StepsTypes DEF StepsInv, LoopTypes
  <2> QED
    BY <2>1, OutcomesFit
       DEF Steps!Check, Steps!Begin, Steps!Exit, Steps!Kill, Steps!EndCommand,
           Steps!Verdict, Steps!Builtin, Steps!Reasons
<1>3. LoopInv'
  BY <1>1, PhaseChanges DEF StepsInv, InStep
<1>4. WriterTypes' /\ Red!IInv' /\ LoopTypes'
  BY <1>1, <1>2, QuietWriter, StepsTypes DEF StepsInv, LoopTypes
<1>5. WriterInv'
  BY <1>1, OutcomesFit
     DEF StepsInv, WriterInv, Steps!outputVars, Steps!Check, Steps!Begin, Steps!Exit,
         Steps!Kill, Steps!EndCommand, Steps!Verdict, Steps!Builtin, Steps!Due
<1> QED
  BY <1>3, <1>4, <1>5, StepsTypesNext DEF StepsInv

\* The redactor changes and the loop does not, except for the phase of the step.
LEMMA WriterChanges ==
  ASSUME StepsInv, UNCHANGED Steps!loopVars, UNCHANGED exit,
         phase \in InStep, phase' \in InStep \cap Steps!Phases,
         stepReason' \in Steps!Reasons \cup {""},
         Red!IInv', broken' \in BOOLEAN, sent' \in 0..consumed', seen' \subseteq raw', WriterInv'
  PROVE  StepsInv'
<1>1. /\ UNCHANGED <<program, results, reason, outcome>> /\ phase # "done" /\ phase' # "done"
      /\ phase' # "idle"
  BY DEF Steps!loopVars, InStep
<1>2. LoopInv'
  BY <1>1, PhaseChanges DEF StepsInv
<1>3. LoopTypes'
  BY <1>1, StepsTypes DEF StepsInv, LoopTypes
<1>4. WriterTypes'
  BY DEF WriterTypes, Red!IInv, Red!Sound, Red!TypeOK, Red!Modes,
         Steps!Output!TypeOK, Steps!Output!Modes
<1> QED
  BY <1>2, <1>3, <1>4, StepsTypesNext DEF StepsInv

\* What the invariant says of the writer's counts and positions, in one place.
LEMMA WriterKnown ==
  ASSUME StepsInv
  PROVE  /\ consumed \in Nat /\ sent \in Nat /\ pushed \in Nat /\ sent <= consumed
         /\ raw \subseteq 1..consumed /\ seen \subseteq raw /\ broken \in BOOLEAN
<1>1. /\ text \in Seq(Byte) /\ pushed \in 0..Len(text) /\ consumed \in 0..pushed
      /\ raw \subseteq 1..consumed /\ broken \in BOOLEAN /\ sent \in 0..consumed
      /\ seen \subseteq raw
  BY StepsTypes DEF StepsInv, WriterTypes, Steps!Output!TypeOK
<1>2. Len(text) \in Nat
  BY <1>1, LenProperties
<1> QED
  BY <1>1, <1>2

LEMMA NoneOfNone == 0 \in 0..0
  OBVIOUS

\* What a step came to.
LEMMA ReasonKnown ==
  ASSUME StepsInv
  PROVE  stepReason \in Steps!Reasons \cup {""}
  BY StepsTypes DEF StepsInv, LoopTypes

\* Announce: a new redactor, or none.
LEMMA AnnounceKept == StepsInv /\ Steps!Announce => StepsInv'
<1> SUFFICES ASSUME StepsInv, Steps!Announce PROVE StepsInv'
  OBVIOUS
<1>1. /\ phase = "announcing" /\ mode = "idle" /\ consumed = 0 /\ ~ broken
      /\ UNCHANGED Steps!loopVars /\ UNCHANGED <<exit, broken, sent, seen>>
  BY DEF Steps!Announce, StepsInv, WriterInv
<1>2. sent = 0 /\ raw = {} /\ seen = {}
  BY <1>1, WriterKnown
<1>3. Red!IInv'
  BY <1>1, RedactorKept DEF StepsInv, Steps!Announce
<1>4. consumed' = 0 /\ raw' = {}
  BY <1>1, <1>2 DEF Steps!Announce, Steps!Output!Open
<1>5. stepReason' \in Steps!Reasons \cup {""}
  BY ReasonKnown DEF Steps!Announce, Steps!Reasons
<1>6. sent' = 0 /\ seen' = {} /\ broken' = FALSE
  BY <1>1, <1>2, WriterKnown
<1>7. /\ mode' \in {"idle", "open"}
      /\ mode' # "idle" => phase' = "running"
      /\ phase' = "reporting" => stepReason' # "" /\ mode' = "idle"
  BY <1>1 DEF Steps!Announce, Steps!Output!Open
<1>8. WriterInv'
  BY <1>4, <1>6, <1>7 DEF WriterInv
<1>9. phase' \in InStep \cap Steps!Phases /\ phase \in InStep
  BY <1>1 DEF Steps!Announce, InStep, Steps!Phases
<1>10. broken' \in BOOLEAN /\ sent' \in 0..consumed' /\ seen' \subseteq raw'
  BY <1>4, <1>6, NoneOfNone, Zenon
<1> QED
  BY <1>1, <1>3, <1>5, <1>8, <1>9, <1>10, WriterChanges

\* Write, Redact, Flush: bytes go into and through the redactor, none is delivered.
LEMMA RedactKept ==
  StepsInv /\ (Steps!Write \/ Steps!Redact \/ Steps!Flush) => StepsInv'
<1> SUFFICES ASSUME StepsInv, Steps!Write \/ Steps!Redact \/ Steps!Flush PROVE StepsInv'
  OBVIOUS
<1>1. /\ mode \in {"open", "push", "finish"} /\ mode' \in {"push", "finish"}
      /\ UNCHANGED Steps!loopVars /\ UNCHANGED <<phase, stepReason, exit, broken, sent, seen>>
  BY DEF Steps!Write, Steps!Redact, Steps!Flush, Steps!Output!Push, Steps!Output!Finish,
         Steps!Output!Replace, Steps!Output!PassOn, Steps!Output!Working
<1>2. phase \in {"running", "ended"}
  BY <1>1 DEF StepsInv, WriterInv
<1>3. Red!IInv'
  BY RedactorKept DEF StepsInv, Steps!Write, Steps!Redact, Steps!Flush
<1>4. /\ consumed' \in Nat /\ consumed <= consumed'
      /\ raw' = raw \/ raw' = raw \cup {consumed + 1}
  <2>1. CASE Steps!Output!Replace
    <3>1. PICK s \in Secrets : consumed' = consumed + Len(s)
      BY <2>1 DEF Steps!Output!Replace, Steps!Output!Matching
    <3>2. Len(s) \in Nat
      BY OutputAssumption, LenProperties
    <3> QED
      BY <2>1, <3>1, <3>2, WriterKnown DEF Steps!Output!Replace
  <2>2. CASE Steps!Output!PassOn
    BY <2>2, WriterKnown DEF Steps!Output!PassOn, Steps!Output!First
  <2>3. CASE Steps!Write \/ Steps!Flush
    BY <2>3, WriterKnown
       DEF Steps!Write, Steps!Flush, Steps!Output!Push, Steps!Output!Finish
  <2> QED
    BY <2>1, <2>2, <2>3 DEF Steps!Redact
<1>5. sent' \in 0..consumed' /\ seen' \subseteq raw'
  BY <1>1, <1>4, WriterKnown
<1>6. {p \in raw' : p <= sent} = {p \in raw : p <= sent}
  BY <1>4, WriterKnown
<1>7. WriterInv'
  BY <1>1, <1>2, <1>6 DEF StepsInv, WriterInv
<1>8. phase' \in InStep \cap Steps!Phases /\ phase \in InStep
  BY <1>1, <1>2 DEF InStep, Steps!Phases
<1> QED
  BY <1>1, <1>3, <1>5, <1>7, <1>8, WriterKnown, ReasonKnown, WriterChanges

\* Deliver: what the redactor gave is with the server, or lost and remembered so.
LEMMA DeliverKept == StepsInv /\ Steps!Deliver => StepsInv'
<1> SUFFICES ASSUME StepsInv, Steps!Deliver PROVE StepsInv'
  OBVIOUS
<1>1. /\ mode \in {"push", "finish"} /\ mode' \in {"open", "closed"}
      /\ UNCHANGED <<text, pushed, consumed, raw>> /\ sent' = consumed
      /\ UNCHANGED Steps!loopVars /\ UNCHANGED <<phase, stepReason, exit>>
  BY DEF Steps!Deliver, Steps!Output!Return
<1>2. phase \in {"running", "ended"}
  BY <1>1 DEF StepsInv, WriterInv
<1>3. Red!IInv'
  BY RedactorKept DEF StepsInv, Steps!Deliver
<1>4. /\ broken' \in BOOLEAN /\ seen' \subseteq raw
      /\ ~ broken' => seen' = {p \in raw : p <= consumed}
  <2>1. ~ broken => seen = {p \in raw : p <= sent}
    BY DEF StepsInv, WriterInv
  <2>2. CASE consumed = sent /\ UNCHANGED <<broken, seen>>
    BY <2>1, <2>2, WriterKnown
  <2>3. CASE seen' = seen \cup {p \in raw : p > sent} /\ UNCHANGED broken
    <3>1. \A p \in raw : p \in Nat /\ p <= consumed
      BY WriterKnown
    <3>2. ~ broken => seen' = raw
      BY <2>1, <2>3, <3>1, WriterKnown
    <3> QED
      BY <2>3, <3>1, <3>2, WriterKnown
  <2>4. CASE broken' = TRUE /\ UNCHANGED seen
    BY <2>4, WriterKnown
  <2> QED
    BY <2>2, <2>3, <2>4 DEF Steps!Deliver
<1>5. WriterInv'
  BY <1>1, <1>2, <1>4 DEF StepsInv, WriterInv
<1>6. sent' \in 0..consumed' /\ seen' \subseteq raw'
  BY <1>1, <1>4, WriterKnown
<1>7. phase' \in InStep \cap Steps!Phases /\ phase \in InStep
  BY <1>1, <1>2 DEF InStep, Steps!Phases
<1> QED
  BY <1>1, <1>3, <1>4, <1>5, <1>6, <1>7, ReasonKnown, WriterChanges

\* A new writer has handed on all of nothing.
LEMMA NewWriterKept ==
  ASSUME Steps!NewWriter
  PROVE  WriterTypes' /\ WriterInv' /\ Red!IInv' /\ stepReason' = "" /\ exit' = "ok"
<1>1. Red!IInv'
  BY NewRedactor
<1>2. WriterTypes'
  <2>1. /\ broken' = FALSE /\ sent' = 0 /\ consumed' = 0 /\ seen' = {}
    BY DEF Steps!NewWriter
  <2>2. sent' \in 0..consumed' /\ seen' \subseteq raw' /\ broken' \in BOOLEAN
    BY <2>1, NoneOfNone, Zenon
  <2> QED
    BY <1>1, <2>2
       DEF WriterTypes, Red!IInv, Red!Sound, Red!TypeOK, Red!Modes,
         Steps!Output!TypeOK, Steps!Output!Modes
<1>3. WriterInv'
  BY DEF WriterInv, Steps!NewWriter
<1> QED
  BY <1>1, <1>2, <1>3 DEF Steps!NewWriter

\* Conclude: what the step came to is counted, and the writer is dropped.
LEMMA ConcludeKept == StepsInv /\ Steps!Conclude => StepsInv'
<1> SUFFICES ASSUME StepsInv, Steps!Conclude PROVE StepsInv'
  OBVIOUS
<1>1. /\ phase = "reporting" /\ results' = Append(results, stepReason) /\ Steps!NewWriter
      /\ UNCHANGED program /\ Steps!More /\ Steps!ConditionMatches(Steps!Step.condition)
      /\ ReasonFits
  BY DEF Steps!Conclude, StepsInv, LoopInv, InStep
<1>2. stepReason \in Results /\ stepReason # "skipped"
  BY ReasonKnown DEF Results, Steps!Reasons
<1>n. PICK n \in Nat : n = Len(results)
  BY StepFits DEF StepsInv
<1>3. /\ ConditionsKept' /\ results' \in Seq(Results) /\ Len(results') <= Len(program)
  BY <1>1, <1>2, <1>n, OneMoreResult
<1>4. /\ reason' \in Steps!Reasons \cup {""} /\ outcome' \in Steps!Outcomes
      /\ phase' \in {"done", "between"}
      /\ phase' = "done" => /\ outcome'.status # "succeeded"
                            /\ outcome'.reason \notin {"command_failed", "system_failure"}
      /\ phase' = "between" => reason' = IF reason = "" THEN stepReason ELSE reason
  <2>1. reason \in Steps!Reasons \cup {""} /\ outcome \in Steps!Outcomes
    BY StepsTypes DEF StepsInv, LoopTypes
  <2>2. CASE stepReason \in {"cancelled", "timeout"}
    <3>1. outcome' \in {Steps!Failed("timeout"), [status |-> "cancelled", reason |-> "cancelled"]}
      BY <2>2 DEF Steps!Conclude
    <3>2. phase' = "done" /\ reason' = reason
      BY <2>2 DEF Steps!Conclude
    <3>3. /\ outcome' \in Steps!Outcomes /\ outcome'.status # "succeeded"
          /\ outcome'.reason \notin {"command_failed", "system_failure"}
      <4>1. "timeout" \in Steps!Reasons /\ "cancelled" \in Steps!Reasons
        BY DEF Steps!Reasons
      <4>2. [status |-> "cancelled", reason |-> "cancelled"] \in Steps!Outcomes
        BY <4>1 DEF Steps!Outcomes
      <4>3. CASE outcome' = Steps!Failed("timeout")
        BY <4>1, <4>3, OutcomesFit
      <4>4. CASE outcome' = [status |-> "cancelled", reason |-> "cancelled"]
        BY <4>2, <4>4
      <4> QED
        BY <3>1, <4>3, <4>4
    <3> QED
      BY <2>1, <3>2, <3>3
  <2>3. CASE stepReason \notin {"cancelled", "timeout"}
    BY <2>1, <2>3, ReasonKnown DEF Steps!Conclude
  <2> QED
    BY <2>2, <2>3
<1>5. phase' # "done" => ReasonFits'
  BY <1>1, <1>2, <1>4, ReasonCounted
<1>6. LoopInv'
  BY <1>3, <1>4, <1>5, OutcomePartsNext DEF LoopInv, InStep
<1>7. WriterTypes' /\ WriterInv' /\ Red!IInv' /\ stepReason' = "" /\ exit' = "ok"
  BY <1>1, NewWriterKept
<1>8. LoopTypes'
  BY <1>1, <1>3, <1>4, <1>7, StepsTypes DEF StepsInv, LoopTypes, Steps!Phases
<1> QED
  BY <1>6, <1>7, <1>8, StepsTypesNext DEF StepsInv

\* Start: the loop begins, with no result.
LEMMA StartKept ==
  ASSUME StepsInv, NEW p \in Programs, Steps!Start(p), results = << >>
  PROVE  StepsInv'
<1>1. /\ phase = "idle" /\ program' = p /\ phase' = "between"
      /\ UNCHANGED <<results, reason, outcome, stepReason, exit>>
      /\ UNCHANGED Steps!outputVars
  BY DEF Steps!Start
<1>2. Len(results) = 0
  BY EmptySeq
<1>3. ReasonFits /\ \A i \in 1..Len(results) : FALSE
  BY <1>1, <1>2 DEF StepsInv, LoopInv
<1>4. LoopInv'
  BY <1>1, <1>3, OutcomePartsNext
     DEF LoopInv, InStep, ReasonFits, NoneBad, FirstBad, Bad, ConditionsKept
<1>5. Len(results) <= Len(p)
  BY <1>2, StepAssumption, LenProperties
<1>6. WriterTypes' /\ Red!IInv' /\ LoopTypes'
  BY <1>1, <1>5, QuietWriter, StepsTypes DEF StepsInv, LoopTypes, Steps!Phases
<1>7. WriterInv'
  BY <1>1 DEF StepsInv, WriterInv, Steps!outputVars
<1> QED
  BY <1>4, <1>6, <1>7, StepsTypesNext DEF StepsInv

\* Forget: nothing is left of the steps but an outcome.
LEMMA ForgetKept ==
  ASSUME Steps!Forget, outcome' \in Steps!Outcomes
  PROVE  StepsInv'
<1>1. /\ program' = << >> /\ phase' = "idle" /\ results' = << >> /\ reason' = ""
      /\ Steps!NewWriter
  BY DEF Steps!Forget
<1>2. WriterTypes' /\ WriterInv' /\ Red!IInv' /\ stepReason' = "" /\ exit' = "ok"
  BY <1>1, NewWriterKept
<1>3. results' \in Seq(Results) /\ Len(results') = 0 /\ Len(program') = 0
  BY <1>1, EmptySeq
<1>4. \A i \in 1..Len(results') : FALSE
  BY <1>3
<1>5. LoopInv'
  BY <1>1, <1>4, OutcomePartsNext DEF LoopInv, InStep, ReasonFits, NoneBad, ConditionsKept
<1>6. LoopTypes'
  <2>1. Len(results') <= Len(program')
    BY <1>3
  <2> QED
    BY <1>1, <1>2, <1>3, <2>1 DEF LoopTypes, Steps!Phases
<1> QED
  BY <1>2, <1>5, <1>6, StepsTypesNext DEF StepsInv

\* Between executions' steps only the outcome may change.
LEMMA OutcomeKept ==
  ASSUME StepsInv, phase = "idle", outcome' \in Steps!Outcomes,
         UNCHANGED <<program, phase, results, reason, stepReason, exit, broken, sent, seen,
                     text, pushed, consumed, raw, mode>>
  PROVE  StepsInv'
<1>1. LoopInv'
  BY PhaseChanges DEF StepsInv, InStep
<1>2. WriterTypes' /\ Red!IInv' /\ LoopTypes'
  BY QuietWriter, StepsTypes DEF StepsInv, LoopTypes, Steps!outputVars
<1>3. WriterInv'
  BY DEF StepsInv, WriterInv
<1> QED
  BY <1>1, <1>2, <1>3, StepsTypesNext DEF StepsInv

LEMMA StepsStay == StepsInv /\ UNCHANGED stepVars => StepsInv'
<1> SUFFICES ASSUME StepsInv, UNCHANGED stepVars PROVE StepsInv'
  OBVIOUS
<1>1. UNCHANGED <<program, phase, results, reason, outcome, stepReason, exit>>
      /\ UNCHANGED Steps!outputVars
  BY DEF stepVars, Steps!outputVars
<1>2. LoopInv'
  BY <1>1 DEF StepsInv, LoopInv, ReasonFits, NoneBad, FirstBad, Bad, Steps!OutcomeSound,
              Steps!More, Steps!Step, Steps!ConditionMatches
<1>3. WriterTypes' /\ Red!IInv' /\ LoopTypes'
  BY <1>1, QuietWriter, StepsTypes DEF StepsInv, LoopTypes
<1>4. WriterInv'
  BY <1>1 DEF StepsInv, WriterInv, Steps!outputVars
<1> QED
  BY <1>2, <1>3, <1>4, StepsTypesNext DEF StepsInv

\* All steps of the loop and of a command.
LEMMA StepsKept ==
  StepsInv /\ (Steps!Progress \/ Steps!Write \/ Steps!Exit \/ Steps!Kill) => StepsInv'
  BY SkipKept, EndKept, PhaseKept, AnnounceKept, RedactKept, DeliverKept, ConcludeKept
     DEF Steps!Progress

\* The server sees no secret; after a success it has seen all but the secrets.
LEMMA StepsFaithful == StepsInv => OutputFaithful
<1> SUFFICES ASSUME StepsInv PROVE OutputFaithful
  OBVIOUS
<1>1. \A s \in Secrets, p \in seen : ~ Steps!Output!Occurs(s, p, pushed)
  <2>1. Red!NoSecretPassedOn
    BY Red!NonePassedOn, OutputAssumption DEF StepsInv
  <2>2. seen \subseteq raw
    BY WriterKnown
  <2> QED
    BY <2>1, <2>2
       DEF Red!NoSecretPassedOn, Red!Occurs, Red!Agrees, Steps!Output!Occurs,
           Steps!Output!Agrees
<1>2. ASSUME phase = "reporting", mode = "closed", stepReason = ""
      PROVE  Steps!Output!Redaction(seen)
  <2>1. seen = {p \in raw : p <= consumed}
    BY <1>2 DEF StepsInv, WriterInv
  <2>2. seen = raw
    BY <2>1, WriterKnown
  <2>3. Red!Redaction(raw)
    BY <1>2, Red!ReadIsRedaction, OutputAssumption DEF StepsInv
  <2> QED
    BY <2>2, <2>3
       DEF Red!Redaction, Steps!Output!Redaction, Red!Occurs, Steps!Output!Occurs,
           Red!Agrees, Steps!Output!Agrees
<1> QED
  BY <1>1, <1>2 DEF OutputFaithful, Steps!OutputFaithful

---------------------------------------------------------------------------
(* The operators of the execution *)

\* The elements of a sequence that is put together.
LEMMA ConcatHas ==
  ASSUME NEW R, NEW s \in Seq(R), NEW t \in Seq(R)
  PROVE  /\ s \o t \in Seq(R) /\ Len(s \o t) = Len(s) + Len(t)
         /\ ToSet(s \o t) = ToSet(s) \cup ToSet(t)
<1>1. /\ s \o t \in Seq(R) /\ Len(s \o t) = Len(s) + Len(t)
      /\ \A i \in 1..Len(s) + Len(t) : (s \o t)[i] = IF i <= Len(s) THEN s[i] ELSE t[i - Len(s)]
      /\ Len(s) \in Nat /\ Len(t) \in Nat
  BY ConcatProperties, LenProperties
<1>2. /\ DOMAIN s = 1..Len(s) /\ DOMAIN t = 1..Len(t) /\ DOMAIN (s \o t) = 1..Len(s) + Len(t)
  BY <1>1, LenProperties
<1>3. ASSUME NEW x \in ToSet(s) PROVE x \in ToSet(s \o t)
  <2>1. PICK i \in 1..Len(s) : s[i] = x
    BY <1>2, <1>3 DEF ToSet
  <2>2. i \in 1..Len(s) + Len(t) /\ (s \o t)[i] = x
    BY <1>1, <2>1
  <2> QED
    BY <1>2, <2>2 DEF ToSet
<1>4. ASSUME NEW x \in ToSet(t) PROVE x \in ToSet(s \o t)
  <2>1. PICK i \in 1..Len(t) : t[i] = x
    BY <1>2, <1>4 DEF ToSet
  <2>2. i + Len(s) \in 1..Len(s) + Len(t) /\ (s \o t)[i + Len(s)] = x
    BY <1>1, <2>1
  <2> QED
    BY <1>2, <2>2 DEF ToSet
<1>5. ASSUME NEW x \in ToSet(s \o t) PROVE x \in ToSet(s) \cup ToSet(t)
  <2>1. PICK i \in 1..Len(s) + Len(t) : (s \o t)[i] = x
    BY <1>2, <1>5 DEF ToSet
  <2>2. CASE i <= Len(s)
    <3>1. i \in 1..Len(s) /\ s[i] = x
      BY <1>1, <2>1, <2>2
    <3> QED
      BY <1>2, <3>1 DEF ToSet
  <2>3. CASE ~ (i <= Len(s))
    <3>1. i - Len(s) \in 1..Len(t) /\ t[i - Len(s)] = x
      BY <1>1, <2>1, <2>3
    <3> QED
      BY <1>2, <3>1 DEF ToSet
  <2> QED
    BY <2>2, <2>3
<1> QED
  BY <1>1, <1>3, <1>4, <1>5

LEMMA FourParts ==
  ASSUME NEW R, NEW a \in Seq(R), NEW b \in Seq(R), NEW c \in Seq(R), NEW d \in Seq(R)
  PROVE  /\ a \o b \o c \o d \in Seq(R)
         /\ ToSet(a \o b \o c \o d) = ToSet(a) \cup ToSet(b) \cup ToSet(c) \cup ToSet(d)
<1>1. a \o b \in Seq(R) /\ ToSet(a \o b) = ToSet(a) \cup ToSet(b)
  BY ConcatHas
<1>2. PICK ab \in Seq(R) : ab = a \o b
  BY <1>1
<1>3. ab \o c \in Seq(R) /\ ToSet(ab \o c) = ToSet(ab) \cup ToSet(c)
  BY ConcatHas
<1>4. PICK abc \in Seq(R) : abc = ab \o c
  BY <1>3
<1>5. abc \o d \in Seq(R) /\ ToSet(abc \o d) = ToSet(abc) \cup ToSet(d)
  BY ConcatHas
<1> QED
  BY <1>1, <1>2, <1>3, <1>4, <1>5

\* What is left without the element that comes next.
LEMMA TailHas ==
  ASSUME NEW R, NEW s \in Seq(R), s # << >>
  PROVE  /\ s[1] \in R /\ Tail(s) \in Seq(R)
         /\ \A x \in ToSet(s) : x = s[1] \/ x \in ToSet(Tail(s))
         /\ Len(s) > 1 => Tail(s) # << >>
         /\ ~ (Len(s) > 1) => \A x \in ToSet(s) : x = s[1]
<1>1. /\ Tail(s) \in Seq(R) /\ Len(Tail(s)) = Len(s) - 1
      /\ \A i \in 1..Len(Tail(s)) : Tail(s)[i] = s[i + 1]
      /\ Len(s) \in Nat \ {0} /\ DOMAIN s = 1..Len(s)
  BY HeadTailProperties, LenProperties, EmptySeq
<1>2. 1 \in 1..Len(s) /\ s[1] \in R /\ DOMAIN Tail(s) = 1..Len(s) - 1
  BY <1>1, LenProperties, ElementOfSeq
<1>3. ASSUME NEW x \in ToSet(s), x # s[1]
      PROVE  x \in ToSet(Tail(s)) /\ Len(s) > 1
  <2>1. PICK i \in 1..Len(s) : s[i] = x
    BY <1>1, <1>3 DEF ToSet
  <2>2. i - 1 \in 1..Len(s) - 1 /\ (i - 1) + 1 = i
    BY <1>1, <1>3, <2>1
  <2>3. i - 1 \in DOMAIN Tail(s) /\ Tail(s)[i - 1] = x
    BY <1>1, <1>2, <2>1, <2>2
  <2>4. x \in ToSet(Tail(s))
    BY <2>3 DEF ToSet
  <2>5. Len(s) > 1
    BY <1>1, <2>2
  <2> QED
    BY <2>4, <2>5
<1>4. Len(s) > 1 => Tail(s) # << >>
  <2>1. Len(s) > 1 => Len(Tail(s)) # 0
    BY <1>1
  <2>2. Len(<< >>) = 0
    BY EmptySeq
  <2> QED
    BY <2>1, <2>2, Zenon
<1> QED
  BY <1>1, <1>2, <1>3, <1>4

LEMMA NamesOfServices ==
  /\ Services \in Seq(Names) /\ ToSet(Services) \subseteq Names
  /\ \A k \in 1..Len(Services) : Services[k] \in ToSet(Services)
  /\ Len(Services) \in Nat
<1>1. /\ Len(Services) \in Nat /\ DOMAIN Services = 1..Len(Services)
      /\ Services \in [1..Len(Services) -> STRING]
  BY DockerAssumption, LenProperties
<1>2. \A k \in 1..Len(Services) : Services[k] \in ToSet(Services)
  BY <1>1 DEF ToSet
<1>3. ToSet(Services) \subseteq Names
  BY DEF Names, Containers
<1>4. Services \in [1..Len(Services) -> Names]
  BY <1>1, <1>2, <1>3
<1>5. Services \in Seq(Names)
  BY <1>1, <1>4, SeqDef
<1> QED
  BY <1>1, <1>2, <1>3, <1>5

\* Everything of an attempt is tried by its cleanup.
LEMMA CleanupHas ==
  CleanupOrder \in Seq(Names) /\ CleanupOrder # << >> /\ ToSet(CleanupOrder) = Names
<1> DEFINE job == <<"job">>
           volume == <<"volume">>
           network == IF HasServices THEN <<"network">> ELSE << >>
<1>1. job \in Seq(Names) /\ ToSet(job) = {"job"}
  BY DEF Names, Containers, ToSet
<1>2. volume \in Seq(Names) /\ ToSet(volume) = {"volume"}
  BY DEF Names, ToSet
<1>3. /\ network \in Seq(Names)
      /\ ToSet(network) = IF HasServices THEN {"network"} ELSE {}
  <2>1. CASE HasServices
    BY <2>1 DEF Names, ToSet
  <2>2. CASE ~ HasServices
    BY <2>2, EmptySeq DEF ToSet
  <2> QED
    BY <2>1, <2>2
<1> HIDE DEF job, volume, network
<1>4. CleanupOrder = job \o Services \o volume \o network
  BY DEF CleanupOrder, job, volume, network
<1>5. /\ CleanupOrder \in Seq(Names)
      /\ ToSet(CleanupOrder)
           = ToSet(job) \cup ToSet(Services) \cup ToSet(volume) \cup ToSet(network)
  <2>1. /\ job \in Seq(Names) /\ Services \in Seq(Names)
        /\ volume \in Seq(Names) /\ network \in Seq(Names)
    BY <1>1, <1>2, <1>3, NamesOfServices
  <2> QED
    BY <1>4, <2>1, FourParts
<1>6. ToSet(CleanupOrder) = Names
  BY <1>1, <1>2, <1>3, <1>5 DEF Names, Containers
<1>7. CleanupOrder # << >>
  BY <1>6 DEF Names, ToSet
<1> QED
  BY <1>5, <1>6, <1>7

\* The verbs of the services' part of the preparation.
LEMMA VerbsOfServices ==
  ASSUME NEW n \in Nat
  PROVE  /\ 3 * n \in Nat
         /\ \A i \in 1..3 * n : (i - 1) % 3 \in 0..2 /\ (i - 1) \div 3 + 1 \in 1..n
         /\ \A k \in 1..n : /\ 3 * (k - 1) + 1 \in 1..3 * n
                            /\ ((3 * (k - 1) + 1) - 1) \div 3 + 1 = k
  OBVIOUS

\* What the preparation makes has names of the attempt's, and it makes all of them.
LEMMA PreparationHas ==
  /\ Len(Preparation) \in Nat
  /\ \A i \in 1..Len(Preparation) : Preparation[i].name \in Names
  /\ \A n \in Names : \E i \in 1..Len(Preparation) : Preparation[i].name = n
<1> DEFINE Do(what, name) == [do |-> what, name |-> name]
           D == [do : {"create", "start", "await", "copy"}, name : Names]
           network == IF HasServices THEN <<Do("create", "network")>> ELSE << >>
           volume == <<Do("create", "volume")>>
           Verb(i) == <<"create", "start", "await">>[(i % 3) + 1]
           ServiceOf(i) == Services[(i \div 3) + 1]
           services == [i \in 1..3 * Len(Services) |-> Do(Verb(i - 1), ServiceOf(i - 1))]
           job == <<Do("create", "job"), Do("start", "job"), Do("copy", "job")>>
<1>1. network \in Seq(D) /\ (HasServices => Do("create", "network") \in ToSet(network))
  <2>1. CASE HasServices
    BY <2>1 DEF Names, ToSet
  <2>2. CASE ~ HasServices
    BY <2>2, EmptySeq
  <2> QED
    BY <2>1, <2>2
<1>2. volume \in Seq(D) /\ Do("create", "volume") \in ToSet(volume)
  BY DEF Names, ToSet
<1>3. job \in Seq(D) /\ Do("create", "job") \in ToSet(job)
  BY DEF Names, Containers, ToSet
<1>4. /\ services \in Seq(D)
      /\ \A x \in ToSet(Services) : \E d \in ToSet(services) : d.name = x
  <2>1. PICK n \in Nat : n = Len(Services)
    BY NamesOfServices
  <2>2. \A i \in 1..3 * n : Do(Verb(i - 1), ServiceOf(i - 1)) \in D
    <3> SUFFICES ASSUME NEW i \in 1..3 * n PROVE Do(Verb(i - 1), ServiceOf(i - 1)) \in D
      OBVIOUS
    <3>1. ServiceOf(i - 1) \in Names
      BY <2>1, NamesOfServices, VerbsOfServices
    <3>2. Verb(i - 1) \in {"create", "start", "await"}
      <4>1. \A m \in 0..2 : <<"create", "start", "await">>[m + 1] \in {"create", "start", "await"}
        OBVIOUS
      <4> QED
        BY <4>1, VerbsOfServices
    <3> QED
      BY <3>1, <3>2
  <2>3. services \in [1..3 * n -> D]
    BY <2>1, <2>2
  <2>4. services \in Seq(D) /\ DOMAIN services = 1..3 * n
    BY <2>3, VerbsOfServices, SeqDef
  <2>5. ASSUME NEW x \in ToSet(Services)
        PROVE  \E d \in ToSet(services) : d.name = x
    <3>1. PICK k \in 1..n : Services[k] = x
      BY <2>1, LenProperties, NamesOfServices DEF ToSet
    <3>2. PICK i \in 1..3 * n : (i - 1) \div 3 + 1 = k
      BY VerbsOfServices
    <3>3. services[i].name = x
      BY <2>1, <3>1, <3>2
    <3> QED
      BY <2>4, <3>3 DEF ToSet
  <2> QED
    BY <2>4, <2>5
<1>5. Preparation = network \o volume \o services \o job
  BY DEF Preparation
<1> HIDE DEF network, volume, services, job
<1>6. /\ Preparation \in Seq(D)
      /\ ToSet(Preparation) = ToSet(network) \cup ToSet(volume) \cup ToSet(services) \cup ToSet(job)
  <2>1. network \in Seq(D) /\ volume \in Seq(D) /\ services \in Seq(D) /\ job \in Seq(D)
    BY <1>1, <1>2, <1>3, <1>4
  <2> HIDE DEF D
  <2> QED
    BY <1>5, <2>1, FourParts
<1>7. /\ Len(Preparation) \in Nat /\ DOMAIN Preparation = 1..Len(Preparation)
      /\ \A i \in 1..Len(Preparation) : Preparation[i] \in D
  BY <1>6, LenProperties, ElementOfSeq
<1>8. ASSUME NEW x \in Names PROVE \E d \in ToSet(Preparation) : d.name = x
  BY <1>1, <1>2, <1>3, <1>4, <1>6 DEF Names, Containers
<1>9. \A d \in ToSet(Preparation) : \E i \in 1..Len(Preparation) : Preparation[i] = d
  BY <1>7 DEF ToSet
<1> QED
  BY <1>7, <1>8, <1>9

---------------------------------------------------------------------------
(* The invariant of the execution, by its variables *)

DaemonTypes ==
  /\ docker \subseteq Attempts \X Names /\ late \subseteq Attempts \X Names
  /\ up \subseteq docker /\ unlabelled \subseteq Attempts

ExecutionTypes ==
  /\ accepted \subseteq Attempts /\ attempt \in accepted \cup {NoAttempt}
  /\ exposed \in BOOLEAN /\ dirty \in BOOLEAN /\ made \in Nat /\ left \in Seq(Names)
  /\ reported \in [Attempts -> {"none", "succeeded", "failed", "cancelled"}]

ContextTypes ==
  /\ cause \in {"none", "cancel", "lease_lost", "shutdown"}
  /\ err \in {"none", "cancelled", "timeout"}

RunnerTypes ==
  /\ proc \in {"reconciling", "serving", "stopping", "down"} /\ mishaps \in 0..MaxMishaps
  /\ sweep \in [kind : 0..Len(SweepOrder), kept : SUBSET Attempts,
                found : SUBSET (Attempts \X Names)]

Held == DaemonTypes /\ ExecutionTypes /\ ContextTypes /\ RunnerTypes /\ ExecutionInv

LEMMA PlansTyped == Plans \subseteq Seq(Stages)
  BY EmptySeq DEF Plans, Stages

LEMMA IInvParts == (IInv <=> Held /\ StepsInv) /\ (IInv' <=> Held' /\ StepsInv')
  BY PlansTyped
     DEF IInv, Held, TypeOK, DaemonTypes, ExecutionTypes, ContextTypes, RunnerTypes, StepsInv,
         ExecutionInv, PlanInv

\* The stage a plan begins with.
FirstOf(p) == IF p = << >> THEN "free" ELSE p[1]

LEMMA PlanStages ==
  /\ FirstOf(<<"preflight", "prepare", "announce", "steps", "cleanup", "report">>) = "preflight"
  /\ FirstOf(<<"prepare", "announce", "steps", "cleanup", "report">>) = "prepare"
  /\ FirstOf(<<"announce", "steps", "cleanup", "report">>) = "announce"
  /\ FirstOf(<<"steps", "cleanup", "report">>) = "steps"
  /\ FirstOf(<<"cleanup", "report">>) = "cleanup" /\ FirstOf(<<"cleanup">>) = "cleanup"
  /\ FirstOf(<<"report">>) = "report" /\ FirstOf(<<"report", "cleanup">>) = "report"
  /\ FirstOf(<<"deliver">>) = "deliver" /\ FirstOf(<<"deliver", "cleanup">>) = "deliver"
  /\ FirstOf(<< >>) = "free"
  BY DEF FirstOf

LEMMA StageIs == Stage = FirstOf(todo) /\ Stage' = FirstOf(todo')
  BY DEF Stage, FirstOf

LEMMA DeliverFirst == <<"deliver">> \o <<"cleanup">> = <<"deliver", "cleanup">>
<1> DEFINE R == {"deliver", "cleanup"}
           s == <<"deliver">>
           t == <<"cleanup">>
           u == <<"deliver", "cleanup">>
<1>1. s \in Seq(R) /\ t \in Seq(R) /\ u \in Seq(R)
  OBVIOUS
<1>2. /\ Len(s) = 1 /\ Len(t) = 1 /\ Len(u) = 2 /\ s[1] = "deliver" /\ t[1] = "cleanup"
      /\ u[1] = "deliver" /\ u[2] = "cleanup"
  OBVIOUS
<1> HIDE DEF R, s, t, u
<1>3. /\ s \o t \in Seq(R) /\ Len(s \o t) = 2
      /\ (s \o t)[1] = "deliver" /\ (s \o t)[2] = "cleanup"
  BY <1>1, <1>2, ConcatProperties
<1>4. \A i \in 1..2 : (s \o t)[i] = u[i]
  BY <1>2, <1>3
<1>5. s \o t = u
  BY <1>1, <1>2, <1>3, <1>4, SeqEqual
<1> QED
  BY <1>5 DEF s, t, u

LEMMA PlanTails ==
  /\ Tail(<<"preflight", "prepare", "announce", "steps", "cleanup", "report">>)
       = <<"prepare", "announce", "steps", "cleanup", "report">>
  /\ Tail(<<"prepare", "announce", "steps", "cleanup", "report">>)
       = <<"announce", "steps", "cleanup", "report">>
  /\ Tail(<<"announce", "steps", "cleanup", "report">>) = <<"steps", "cleanup", "report">>
  /\ Tail(<<"steps", "cleanup", "report">>) = <<"cleanup", "report">>
  /\ Tail(<<"cleanup", "report">>) = <<"report">> /\ Tail(<<"cleanup">>) = << >>
  /\ Tail(<<"report", "cleanup">>) = <<"cleanup">> /\ Tail(<<"report">>) = << >>
  /\ Tail(<<"deliver", "cleanup">>) = <<"cleanup">> /\ Tail(<<"deliver">>) = << >>
  /\ <<"deliver">> \o << >> = <<"deliver">>
  /\ <<"deliver">> \o <<"cleanup">> = <<"deliver", "cleanup">>
  BY DeliverFirst

\* What the plan is at every stage, and what is left of it after the stage.
LEMMA PlanOf ==
  ASSUME todo \in Plans
  PROVE  /\ Stage = "free" => todo = << >>
         /\ Stage = "preflight" =>
              Tail(todo) = <<"prepare", "announce", "steps", "cleanup", "report">>
         /\ Stage = "prepare" => Tail(todo) = <<"announce", "steps", "cleanup", "report">>
         /\ Stage = "announce" => Tail(todo) = <<"steps", "cleanup", "report">>
         /\ Stage = "steps" => /\ todo = <<"steps", "cleanup", "report">>
                               /\ Tail(todo) = <<"cleanup", "report">>
         /\ Stage = "cleanup" => \/ todo = <<"cleanup", "report">> /\ Tail(todo) = <<"report">>
                                 \/ todo = <<"cleanup">> /\ Tail(todo) = << >>
         /\ Stage = "report" =>
              \/ /\ todo = <<"report">> /\ Tail(todo) = << >>
                 /\ <<"deliver">> \o Tail(todo) = <<"deliver">>
              \/ /\ todo = <<"report", "cleanup">> /\ Tail(todo) = <<"cleanup">>
                 /\ <<"deliver">> \o Tail(todo) = <<"deliver", "cleanup">>
         /\ Stage = "deliver" => \/ todo = <<"deliver">> /\ Tail(todo) = << >>
                                 \/ todo = <<"deliver", "cleanup">> /\ Tail(todo) = <<"cleanup">>
  BY PlanStages, PlanTails, StageIs DEF Plans

\* The plans that may end in a success, by their stage.
LEMMA SucceedingPlans ==
  /\ \A p \in Succeeding : FirstOf(p) \in {"steps", "cleanup", "report", "deliver", "free"}
  /\ <<"cleanup">> \notin Succeeding /\ <<"report", "cleanup">> \notin Succeeding
  /\ <<"deliver", "cleanup">> \notin Succeeding
  /\ <<"cleanup", "report">> \notin AfterSteps
  /\ \A p \in AfterSteps : FirstOf(p) \in {"report", "deliver", "free"}
  BY PlanStages DEF Succeeding, AfterSteps

\* While an execution is under way it has not succeeded, unless its steps have.
LEMMA UnderwayKnown ==
  ASSUME PlanInv, Underway
  PROVE  /\ Executing /\ todo # <<"cleanup", "report">> /\ todo \notin AfterSteps
         /\ Stage # "steps" => outcome.status # "succeeded"
<1>1. Stage \in {"preflight", "prepare", "announce", "steps"}
  BY DEF Underway
<1>2. Executing /\ todo # <<"cleanup", "report">>
  BY <1>1, PlanStages, StageIs DEF PlanInv
<1>3. todo \notin AfterSteps
  BY <1>1, SucceedingPlans, StageIs
<1>4. Stage # "steps" => todo \notin Succeeding
  BY <1>1, SucceedingPlans, StageIs
<1> QED
  BY <1>2, <1>3, <1>4 DEF PlanInv

---------------------------------------------------------------------------
(* The execution: what its changes keep *)

\* Changes that touch neither the plan nor the attempt nor what it made.
LEMMA PlanStays ==
  ASSUME PlanInv, UNCHANGED <<todo, attempt, exposed, left, phase, outcome>>,
         proc' \in {"reconciling", "down"} => ~ Executing
  PROVE  PlanInv'
  BY DEF PlanInv, Executing, Stage

LEMMA ResourcesStayMade ==
  ASSUME ResourceInv, UNCHANGED <<todo, attempt, exposed, made>>,
         \A r \in docker : ~ exposed /\ Underway /\ r[1] = attempt => r \in docker'
  PROVE  ResourceInv'
<1>1. Preparation' = Preparation /\ Stage' = Stage
  BY DEF Preparation, Stage
<1>2. ASSUME ~ exposed, NEW i \in 1..made PROVE <<attempt, Preparation[i].name>> \in docker'
  <2>1. <<attempt, Preparation[i].name>> \in docker
    BY <1>2 DEF ResourceInv
  <2>2. made # 0
    BY <1>2
  <2>3. Underway
    BY <2>2 DEF ResourceInv, Underway
  <2>4. <<attempt, Preparation[i].name>>[1] = attempt
    OBVIOUS
  <2> QED
    BY <1>2, <2>1, <2>3, <2>4, Zenon
<1> QED
  BY <1>1, <1>2 DEF ResourceInv

LEMMA SweepStays ==
  ASSUME SweepInv, UNCHANGED <<sweep, todo, attempt, exposed>>
  PROVE  SweepInv'
  BY DEF SweepInv, Underway, Stage

LEMMA LeftoverStays ==
  ASSUME LeftoverInv, docker' \subseteq docker, late' \subseteq late,
         UNCHANGED <<accepted, reported, attempt, todo, outcome, dirty, left>>
  PROVE  LeftoverInv'
<1>1. /\ \A r \in docker' \cup late' : r[1] \in accepted'
      /\ \A a \in Attempts : reported'[a] # "none" => a \in accepted'
      /\ Underway' => reported'[attempt'] = "none"
      /\ Underway' = Underway
  BY DEF LeftoverInv, Underway, Stage
<1>2. \A r \in late' : /\ reported'[r[1]] # "succeeded"
                       /\ r[1] = attempt' => ~ Underway' /\ outcome'.status # "succeeded"
  BY <1>1 DEF LeftoverInv
<1>3. (outcome.status = "succeeded" /\ todo = <<"cleanup", "report">> /\ ~ dirty)' =>
        \A n \in Names : <<attempt', n>> \in docker' => n \in ToSet(left')
  BY DEF LeftoverInv
<1>4. /\ outcome'.status = "succeeded" /\ todo' \in AfterSteps => Nothing(attempt)'
      /\ SuccessLeavesNothing'
  BY DEF LeftoverInv, Nothing, SuccessLeavesNothing
<1> QED
  BY <1>1, <1>2, <1>3, <1>4 DEF LeftoverInv

\* Accept: nothing is known of an attempt that was not accepted before.
LEMMA AcceptKept ==
  ASSUME Held, NEW a \in Attempts, Accept(a)
  PROVE  Held'
<1>1. /\ proc = "serving" /\ attempt = NoAttempt /\ a \notin accepted /\ a # NoAttempt
      /\ accepted' = accepted \cup {a} /\ attempt' = a /\ exposed' = (sweep.kind # 0)
      /\ todo' = <<"preflight", "prepare", "announce", "steps", "cleanup", "report">>
      /\ UNCHANGED <<docker, up, unlabelled, late, made, left, dirty, cause, err, reported,
                     proc, mishaps, sweep, phase, outcome>>
  BY DockerAssumption
     DEF Accept, Executing, daemonVars, runnerVars, stepVars
<1>2. phase = "idle" /\ outcome.status # "succeeded" /\ Stage = "free"
  BY <1>1, PlanStages, StageIs, OutcomesFit DEF Held, ExecutionInv, PlanInv, Executing
<1>3. Stage' = "preflight"
  BY <1>1, PlanStages, StageIs
<1>4. PlanInv'
  BY <1>1, <1>2, <1>3 DEF PlanInv, Plans, Executing
<1>5. ResourceInv'
  <2>1. made = 0 /\ made <= Len(Preparation) /\ Preparation' = Preparation
    BY <1>2 DEF Held, ExecutionInv, ResourceInv, Preparation
  <2> QED
    BY <1>1, <1>3, <2>1 DEF ResourceInv
<1>6. SweepInv'
  BY <1>1 DEF Held, ExecutionInv, SweepInv
<1>7. LeftoverInv'
  <2>1. /\ \A r \in docker \cup late : r[1] \in accepted
        /\ \A b \in Attempts : reported[b] # "none" => b \in accepted
        /\ \A r \in late : reported[r[1]] # "succeeded"
        /\ SuccessLeavesNothing
    BY DEF Held, ExecutionInv, LeftoverInv
  <2>2. SuccessLeavesNothing'
    BY <1>1, <2>1 DEF SuccessLeavesNothing
  <2>3. reported[a] = "none"
    BY <1>1, <2>1
  <2> QED
    BY <1>1, <1>2, <2>1, <2>2, <2>3 DEF LeftoverInv
<1>8. DaemonTypes' /\ ExecutionTypes' /\ ContextTypes' /\ RunnerTypes'
  BY <1>1 DEF Held, DaemonTypes, ExecutionTypes, ContextTypes, RunnerTypes
<1> QED
  BY <1>4, <1>5, <1>6, <1>7, <1>8 DEF Held, ExecutionInv

\* Preflight, Announce: the next stage before or of the steps.
LEMMA AdvanceKept ==
  ASSUME Held, Advance,
         \/ Stage = "preflight" /\ phase' = "idle"
         \/ Stage = "announce" /\ phase' # "done",
         UNCHANGED <<daemonVars, accepted, attempt, exposed, made, left, dirty, reported,
                     runnerVars, outcome>>,
         ContextTypes'
  PROVE  Held'
<1>1. /\ UNCHANGED <<docker, up, unlabelled, late, accepted, attempt, exposed, made, left, dirty,
                     reported, proc, mishaps, sweep, outcome>>
      /\ todo' = Tail(todo) /\ Underway
  BY DEF Advance, daemonVars, runnerVars, Underway
<1>2. /\ Executing /\ outcome.status # "succeeded"
      /\ todo \in Plans
  BY <1>1, UnderwayKnown DEF Held, ExecutionInv, PlanInv
<1>3. \/ Stage' = "prepare" /\ Stage = "preflight"
      \/ Stage' = "steps" /\ Stage = "announce"
  BY <1>1, <1>2, PlanOf, PlanStages, StageIs
<1>4. todo' \in Plans
  BY <1>1, <1>2, PlanOf DEF Plans
<1>5. PlanInv'
  BY <1>1, <1>2, <1>3, <1>4 DEF Held, ExecutionInv, PlanInv, Executing
<1>6. ResourceInv'
  <2>1. Preparation' = Preparation
    BY DEF Preparation
  <2> QED
    BY <1>1, <1>3, <2>1 DEF Held, ExecutionInv, ResourceInv
<1>7. SweepInv' /\ Underway'
  BY <1>1, <1>3 DEF Held, ExecutionInv, SweepInv, Underway
<1>8. LeftoverInv'
  BY <1>1, <1>2, <1>7 DEF Held, ExecutionInv, LeftoverInv, SuccessLeavesNothing
<1>9. DaemonTypes' /\ ExecutionTypes' /\ RunnerTypes'
  BY <1>1 DEF Held, DaemonTypes, ExecutionTypes, RunnerTypes
<1> QED
  BY <1>5, <1>6, <1>7, <1>8, <1>9 DEF Held, ExecutionInv

\* What the target of the preparation's next step is.
LEMMA TargetIs ==
  ASSUME Held, Preparing
  PROVE  /\ Target \in Attempts \X Names /\ Target[1] = attempt /\ Underway /\ attempt \in accepted
         /\ made + 1 \in 1..Len(Preparation) /\ Target = <<attempt, Preparation[made + 1].name>>
         /\ <<attempt, "volume">> \in Attempts \X Names
<1>1. Underway /\ Executing
  BY UnderwayKnown DEF Preparing, Underway, Held, ExecutionInv
<1>2. attempt \in accepted /\ attempt \in Attempts
  BY <1>1 DEF Held, ExecutionTypes, Executing
<1>3. made + 1 \in 1..Len(Preparation)
  <2>1. made \in Nat /\ made < Len(Preparation)
    BY DEF Held, ExecutionTypes, Preparing
  <2> QED
    BY <2>1, PreparationHas
<1>4. Target = <<attempt, Preparation[made + 1].name>> /\ Preparation[made + 1].name \in Names
  BY <1>3, PreparationHas DEF Target, Next_made
<1>5. "volume" \in Names
  BY DEF Names
<1> QED
  BY <1>1, <1>2, <1>3, <1>4, <1>5

\* Create, StartContainer, Await: the next step of the preparation, of something that
\* is there then.
LEMMA MadeKept ==
  ASSUME Held, Preparing, Target \in docker', docker \subseteq docker',
         \A r \in docker' : r \in docker \/ r[1] = attempt,
         made' = made + 1,
         \/ UNCHANGED todo
         \/ made' = Len(Preparation) /\ Advance,
         DaemonTypes',
         UNCHANGED <<late, accepted, attempt, exposed, left, dirty, cause, err, reported,
                     runnerVars, stepVars>>
  PROVE  Held'
<1>1. UNCHANGED <<late, accepted, attempt, exposed, left, dirty, cause, err, reported,
                  proc, mishaps, sweep, phase, outcome>>
  BY DEF runnerVars, stepVars
<1>2. /\ Executing /\ outcome.status # "succeeded" /\ todo \in Plans /\ Stage = "prepare"
      /\ Underway
  BY UnderwayKnown, TargetIs DEF Held, ExecutionInv, PlanInv, Preparing
<1>3. \/ todo' = todo /\ Stage' = "prepare"
      \/ todo' = Tail(todo) /\ Stage' = "announce" /\ made' = Len(Preparation)
  BY <1>2, PlanOf, PlanStages, StageIs DEF Advance
<1>4. todo' \in Plans
  BY <1>2, <1>3, PlanOf DEF Plans
<1>5. PlanInv'
  BY <1>1, <1>2, <1>3, <1>4 DEF Held, ExecutionInv, PlanInv, Executing
<1>6. ResourceInv'
  <2>1. made \in Nat /\ made + 1 <= Len(Preparation) /\ Preparation' = Preparation
    BY TargetIs, PreparationHas DEF Held, ExecutionTypes, Preparation
  <2>2. ASSUME ~ exposed', NEW i \in 1..made'
        PROVE  <<attempt, Preparation[i].name>> \in docker'
    <3>1. CASE i \in 1..made
      BY <1>1, <2>2, <3>1 DEF Held, ExecutionInv, ResourceInv
    <3>2. CASE i = made + 1
      BY <3>2, TargetIs
    <3> QED
      BY <2>1, <3>1, <3>2
  <2> QED
    BY <1>1, <1>3, <2>1, <2>2 DEF ResourceInv
<1>7. SweepInv' /\ Underway'
  BY <1>1, <1>2, <1>3 DEF Held, ExecutionInv, SweepInv, Underway
<1>8. LeftoverInv'
  <2>1. SuccessLeavesNothing'
    <3> SUFFICES ASSUME NEW a \in Attempts, reported'[a] = "succeeded", NEW n \in Names,
                        <<a, n>> \in docker'
                 PROVE  FALSE
      BY DEF SuccessLeavesNothing
    <3>1. <<a, n>> \notin docker
      BY <1>1 DEF Held, ExecutionInv, LeftoverInv, SuccessLeavesNothing
    <3>2. a = attempt
      BY <3>1
    <3> QED
      BY <1>1, <1>2, <3>2 DEF Held, ExecutionInv, LeftoverInv
  <2>2. \A r \in docker' \cup late' : r[1] \in accepted'
    BY <1>1, TargetIs DEF Held, ExecutionInv, LeftoverInv
  <2> QED
    BY <1>1, <1>2, <1>7, <2>1, <2>2 DEF Held, ExecutionInv, LeftoverInv
<1>9. ExecutionTypes' /\ ContextTypes' /\ RunnerTypes'
  BY <1>1 DEF Held, ExecutionTypes, ContextTypes, RunnerTypes
<1> QED
  BY <1>5, <1>6, <1>7, <1>8, <1>9 DEF Held, ExecutionInv

\* Make: what is made belongs to the attempt, and so does a volume made on the way.
LEMMA MakeIs ==
  ASSUME NEW r, r \in Attempts \X Names, Make(r), DaemonTypes
  PROVE  /\ r \in docker' /\ docker \subseteq docker'
         /\ \A x \in docker' : x \in docker \/ x[1] = r[1]
         /\ docker' \subseteq Attempts \X Names /\ unlabelled' \subseteq Attempts
<1>1. r[1] \in Attempts /\ <<r[1], "volume">> \in Attempts \X Names
  BY DEF Names
<1> QED
  BY <1>1 DEF Make, DaemonTypes

LEMMA PreparationKept ==
  ASSUME Held, Create \/ StartContainer \/ Await
  PROVE  Held'
<1>1. CASE Create
  <2>1. /\ Preparing /\ Make(Target) /\ made' = made + 1 /\ UNCHANGED <<todo, up>>
        /\ UNCHANGED <<late, accepted, attempt, exposed, left, dirty, cause, err, reported,
                       runnerVars, stepVars>>
    BY <1>1 DEF Create
  <2>2. /\ Target \in docker' /\ docker \subseteq docker'
        /\ \A x \in docker' : x \in docker \/ x[1] = attempt
        /\ docker' \subseteq Attempts \X Names /\ unlabelled' \subseteq Attempts
    BY <2>1, TargetIs, MakeIs DEF Held
  <2>3. DaemonTypes'
    BY <2>1, <2>2 DEF Held, DaemonTypes
  <2> QED
    BY <2>1, <2>2, <2>3, MadeKept
<1>2. CASE StartContainer
  <2>1. /\ Preparing /\ Target \in docker /\ made' = made + 1 /\ UNCHANGED <<todo, docker>>
        /\ UNCHANGED <<late, accepted, attempt, exposed, left, dirty, cause, err, reported,
                       runnerVars, stepVars>>
        /\ UNCHANGED unlabelled /\ up' = up \cup {Target}
    BY <1>2 DEF StartContainer
  <2>2. DaemonTypes'
    BY <2>1 DEF Held, DaemonTypes
  <2> QED
    BY <2>1, <2>2, MadeKept
<1>3. CASE Await
  <2>1. /\ Preparing /\ Target \in up /\ made' = made + 1
        /\ UNCHANGED <<docker, up, unlabelled, late, accepted, attempt, exposed, left, dirty, cause,
                       err, reported, runnerVars, stepVars>>
        /\ UNCHANGED todo \/ (made' = Len(Preparation) /\ Advance)
    BY <1>3 DEF Await, daemonVars
  <2>2. Target \in docker /\ DaemonTypes'
    BY <2>1 DEF Held, DaemonTypes
  <2> QED
    BY <2>1, <2>2, MadeKept
<1> QED
  BY <1>1, <1>2, <1>3

\* What a killed command may leave.
LEMMA OrphanIs ==
  ASSUME Held, Orphan
  PROVE  /\ late' \subseteq Attempts \X Names /\ late \subseteq late'
         /\ \A r \in late' : r \in late \/ (r[1] = attempt /\ attempt \in accepted /\ Underway)
<1>1. late \subseteq Attempts \X Names
  BY DEF Held, DaemonTypes
<1>2. CASE Preparing /\ late' \in {late, late \cup {Target}}
  BY <1>1, <1>2, TargetIs
<1>3. CASE UNCHANGED late
  BY <1>1, <1>3
<1> QED
  BY <1>2, <1>3 DEF Orphan

\* The execution comes to its cleanup or its report, with an outcome or none.
LEMMA LeaveKept ==
  ASSUME Held, Underway, made' = 0, exposed' = FALSE, ContextTypes', phase' = "idle",
         UNCHANGED <<docker, up, unlabelled, accepted, attempt, dirty, reported, runnerVars>>,
         todo' \in {<<"report">>, <<"report", "cleanup">>, <<"cleanup">>, <<"cleanup", "report">>},
         left' = CleanupOrder,
         outcome'.status = "succeeded" => todo' = <<"cleanup", "report">> /\ UNCHANGED late,
         late' \subseteq Attempts \X Names,
         \A r \in late' : r \in late \/ (r[1] = attempt /\ attempt \in accepted)
  PROVE  Held'
<1>1. UNCHANGED <<docker, up, unlabelled, accepted, attempt, dirty, reported, proc, mishaps, sweep>>
  BY DEF runnerVars
<1>2. Executing /\ reported[attempt] = "none"
  BY UnderwayKnown DEF Held, ExecutionInv, LeftoverInv
<1>3. Stage' \in {"report", "cleanup"} /\ todo' \in Plans
  <2>1. todo' \in Plans
    BY DEF Plans
  <2>2. Stage' \in {"report", "cleanup"}
    BY PlanStages, StageIs
  <2> QED
    BY <2>1, <2>2
<1>4. ~ Underway'
  BY <1>3 DEF Underway
<1>5. PlanInv'
  <2>1. <<"cleanup", "report">> \in Succeeding
    BY DEF Succeeding
  <2> QED
    BY <1>1, <1>2, <1>3, <2>1, CleanupHas DEF Held, ExecutionInv, PlanInv, Executing
<1>6. ResourceInv'
  <2>1. Preparation' = Preparation /\ 0 <= Len(Preparation) /\ 1..0 = {}
    BY PreparationHas DEF Preparation
  <2> QED
    BY <1>3, <2>1 DEF ResourceInv
<1>7. SweepInv'
  BY <1>1, <1>4 DEF Held, ExecutionInv, SweepInv
<1>8. LeftoverInv'
  <2>1. SuccessLeavesNothing'
    BY <1>1 DEF Held, ExecutionInv, LeftoverInv, SuccessLeavesNothing
  <2>2. outcome'.status = "succeeded" => todo' \notin AfterSteps
    BY SucceedingPlans
  <2>3. \A r \in late' : /\ reported'[r[1]] # "succeeded"
                         /\ r[1] = attempt' => ~ Underway' /\ outcome'.status # "succeeded"
    <3> SUFFICES ASSUME NEW r \in late'
                 PROVE  /\ reported[r[1]] # "succeeded"
                        /\ r[1] = attempt => outcome'.status # "succeeded"
      BY <1>1, <1>4
    <3>1. CASE r \in late
      BY <3>1 DEF Held, ExecutionInv, LeftoverInv
    <3>2. CASE r \notin late
      BY <1>2, <3>2
    <3> QED
      BY <3>1, <3>2
  <2>4. \A r \in docker' \cup late' : r[1] \in accepted'
    BY <1>1 DEF Held, ExecutionInv, LeftoverInv
  <2>5. todo' = <<"cleanup", "report">> => \A n \in Names : n \in ToSet(left')
    BY CleanupHas
  <2> QED
    BY <1>1, <1>4, <2>1, <2>2, <2>3, <2>4, <2>5 DEF Held, ExecutionInv, LeftoverInv
<1>9. DaemonTypes' /\ ExecutionTypes' /\ RunnerTypes'
  BY <1>1, CleanupHas DEF Held, DaemonTypes, ExecutionTypes, RunnerTypes
<1> QED
  BY <1>5, <1>6, <1>7, <1>8, <1>9 DEF Held, ExecutionInv

LEMMA FailureIs ==
  /\ FailureOfPreparation \in Steps!Outcomes
  /\ FailureOfPreparation.status # "succeeded"
<1>1. "system_failure" \in Steps!Reasons
  BY DEF Steps!Reasons
<1> QED
  BY <1>1, OutcomesFit DEF FailureOfPreparation

\* FailWith: the execution fails before its steps.
LEMMA FailKept ==
  ASSUME Held, Underway, Stage # "steps", NEW stages, FailWith(stages),
         stages \in {<<"report">>, <<"report", "cleanup">>},
         UNCHANGED <<docker, up, unlabelled, accepted, attempt, dirty, cause, reported,
                     runnerVars>>,
         late' \subseteq Attempts \X Names,
         \A r \in late' : r \in late \/ (r[1] = attempt /\ attempt \in accepted)
  PROVE  Held'
<1>1. /\ todo' = stages /\ left' = CleanupOrder /\ made' = 0 /\ err' = "none" /\ exposed' = FALSE
      /\ outcome' = FailureOfPreparation /\ UNCHANGED phase
  BY DEF FailWith, Settled
<1>2. outcome'.status # "succeeded"
  BY <1>1, FailureIs
<1>3. phase = "idle"
  BY DEF Held, ExecutionInv, PlanInv
<1>4. ContextTypes'
  BY <1>1 DEF Held, ContextTypes
<1> QED
  BY <1>1, <1>2, <1>3, <1>4, CleanupHas, LeaveKept

LEMMA PreflightKept == Held /\ Preflight => Held'
<1> SUFFICES ASSUME Held, Preflight PROVE Held'
  OBVIOUS
<1>1. /\ Stage = "preflight" /\ Underway /\ phase = "idle"
      /\ UNCHANGED <<docker, up, unlabelled, late, accepted, attempt, dirty, cause, reported>>
      /\ UNCHANGED runnerVars
  BY DEF Preflight, daemonVars, Underway, Held, ExecutionInv, PlanInv
<1>2. CASE Advance /\ UNCHANGED <<left, made, err, exposed, stepVars>>
  <2>1. ContextTypes' /\ phase' = "idle" /\ UNCHANGED outcome /\ UNCHANGED daemonVars
    BY <1>1, <1>2 DEF Held, ContextTypes, stepVars, daemonVars
  <2> QED
    BY <1>1, <1>2, <2>1, AdvanceKept
<1>3. CASE FailWith(<<"report">>)
  <2>1. late' \subseteq Attempts \X Names
    BY <1>1 DEF Held, DaemonTypes
  <2> QED
    BY <1>1, <1>3, <2>1, FailKept
<1> QED
  BY <1>2, <1>3 DEF Preflight

LEMMA PrepareFailsKept == Held /\ PrepareFails => Held'
<1> SUFFICES ASSUME Held, PrepareFails PROVE Held'
  OBVIOUS
<1>1. /\ Preparing /\ Stage # "steps" /\ FailWith(<<"report", "cleanup">>)
      /\ UNCHANGED <<docker, up, unlabelled, accepted, attempt, dirty, cause, reported, runnerVars>>
      /\ UNCHANGED late \/ Orphan
  BY DEF PrepareFails, Preparing
<1>2. /\ late' \subseteq Attempts \X Names
      /\ \A r \in late' : r \in late \/ (r[1] = attempt /\ attempt \in accepted)
  BY <1>1, OrphanIs DEF Held, DaemonTypes
<1> QED
  BY <1>1, <1>2, TargetIs, FailKept

LEMMA AnnouncedKept == Held /\ Announce => Held'
<1> SUFFICES ASSUME Held, Announce PROVE Held'
  OBVIOUS
<1>1. /\ Stage = "announce" /\ Underway /\ phase = "idle" /\ outcome.status # "succeeded"
      /\ UNCHANGED <<docker, up, unlabelled, late, accepted, attempt, dirty, cause, reported>>
      /\ UNCHANGED runnerVars
  BY UnderwayKnown DEF Announce, daemonVars, Underway, Held, ExecutionInv, PlanInv
<1>2. CASE Advance /\ UNCHANGED <<left, made, err, exposed>> /\ \E p \in Programs : Steps!Start(p)
  <2>1. phase' = "between" /\ UNCHANGED outcome
    BY <1>2 DEF Steps!Start
  <2>2. ContextTypes' /\ UNCHANGED daemonVars
    BY <1>1, <1>2 DEF Held, ContextTypes, daemonVars
  <2> QED
    BY <1>1, <1>2, <2>1, <2>2, AdvanceKept
<1>3. CASE todo' = <<"cleanup">> /\ left' = CleanupOrder /\ Settled /\ UNCHANGED stepVars
  <2>1. /\ made' = 0 /\ err' = "none" /\ exposed' = FALSE /\ phase' = "idle" /\ UNCHANGED outcome
    BY <1>1, <1>3 DEF Settled, stepVars
  <2>2. ContextTypes' /\ late' \subseteq Attempts \X Names
    BY <1>1, <2>1 DEF Held, ContextTypes, DaemonTypes
  <2> QED
    BY <1>1, <1>3, <2>1, <2>2, CleanupHas, LeaveKept
<1> QED
  BY <1>2, <1>3 DEF Announce

LEMMA StepsEndKept == Held /\ StepsEnd => Held'
<1> SUFFICES ASSUME Held, StepsEnd PROVE Held'
  OBVIOUS
<1>1. /\ Stage = "steps" /\ Underway /\ todo' = Tail(todo) /\ left' = CleanupOrder
      /\ made' = 0 /\ err' = "none" /\ exposed' = FALSE /\ phase' = "idle"
      /\ UNCHANGED <<docker, up, unlabelled, late, accepted, attempt, dirty, cause, reported>>
      /\ UNCHANGED runnerVars
  BY DEF StepsEnd, Settled, Advance, daemonVars, Underway, Steps!Forget
<1>2. todo' = <<"cleanup", "report">>
  BY <1>1, PlanOf DEF Held, ExecutionInv, PlanInv
<1>3. ContextTypes' /\ late' \subseteq Attempts \X Names
  BY <1>1 DEF Held, ContextTypes, DaemonTypes
<1> QED
  BY <1>1, <1>2, <1>3, CleanupHas, LeaveKept

\* RunSteps, RunCommand, KillCommand: while the steps run, they and their container change.
LEMMA DuringStepsKept ==
  ASSUME Held, Stage = "steps", up' \subseteq up,
         UNCHANGED <<docker, unlabelled, late, execVars, runnerVars>>
  PROVE  Held'
<1>1. /\ UNCHANGED <<docker, unlabelled, late, accepted, attempt, exposed, todo, made, left, dirty,
                     cause, err, reported, proc, mishaps, sweep>>
      /\ Stage' = Stage /\ Underway /\ Underway'
  BY DEF execVars, stageVars, runnerVars, Stage, Underway
<1>2. Executing /\ todo # <<"cleanup", "report">> /\ todo \notin AfterSteps
  BY <1>1, UnderwayKnown DEF Held, ExecutionInv
<1>3. todo \in Succeeding /\ todo \in Plans /\ todo # << >>
  BY PlanOf, <1>2 DEF Held, ExecutionInv, PlanInv, Succeeding, AfterSteps
<1>4. PlanInv'
  BY <1>1, <1>2, <1>3 DEF Held, ExecutionInv, PlanInv, Executing
<1>5. ResourceInv' /\ SweepInv'
  BY <1>1, ResourcesStayMade, SweepStays DEF Held, ExecutionInv
<1>6. LeftoverInv'
  BY <1>1, <1>2 DEF Held, ExecutionInv, LeftoverInv, SuccessLeavesNothing
<1>7. DaemonTypes' /\ ExecutionTypes' /\ ContextTypes' /\ RunnerTypes'
  BY <1>1 DEF Held, DaemonTypes, ExecutionTypes, ContextTypes, RunnerTypes
<1> QED
  BY <1>4, <1>5, <1>6, <1>7 DEF Held, ExecutionInv

\* Destroy: nothing but what is destroyed goes away.
LEMMA DestroyIs ==
  ASSUME DaemonTypes, NEW r, Destroy(r), UNCHANGED late
  PROVE  DaemonTypes' /\ docker' = docker \ {r}
  BY DEF DaemonTypes, Destroy

\* Clean: one more thing was tried; after the last one a success has left nothing.
LEMMA CleanKept == Held /\ Clean => Held'
<1> SUFFICES ASSUME Held, Clean PROVE Held'
  OBVIOUS
<1> DEFINE r == <<attempt, left[1]>>
           Tried(failed) ==
             IF Len(left) > 1 THEN dirty' = failed /\ UNCHANGED <<todo, outcome>>
             ELSE dirty' = FALSE /\ Advance /\ outcome' = AfterCleanup(failed)
<1>1. /\ Stage = "cleanup" /\ left' = Tail(left) /\ left # << >> /\ left \in Seq(Names)
      /\ UNCHANGED <<phase, late, accepted, attempt, exposed, made, cause, err, reported,
                     proc, mishaps, sweep>>
      /\ \/ Destroy(r) /\ Tried(dirty)
         \/ Tried(TRUE) /\ UNCHANGED <<docker, up, unlabelled>>
  <2>1. Stage = "cleanup" => todo \notin AfterSteps
    BY SucceedingPlans, StageIs
  <2> QED
    BY <2>1 DEF Clean, runnerVars, Held, ExecutionInv, ExecutionTypes, PlanInv
<1>2. PICK failed \in BOOLEAN :
        /\ Tried(failed) /\ docker' \subseteq docker /\ DaemonTypes'
        /\ ~ failed => ~ dirty /\ docker' = docker \ {r}
  <2>1. CASE Destroy(r) /\ Tried(dirty)
    <3>1. DaemonTypes' /\ docker' = docker \ {r} /\ dirty \in BOOLEAN
      BY <1>1, <2>1, DestroyIs DEF Held, ExecutionTypes
    <3> QED
      BY <2>1, <3>1
  <2>2. CASE Tried(TRUE) /\ UNCHANGED <<docker, up, unlabelled>>
    <3>1. DaemonTypes'
      BY <1>1, <2>2 DEF Held, DaemonTypes
    <3> QED
      BY <2>2, <3>1
  <2> QED
    BY <1>1, <2>1, <2>2
<1>3. /\ phase = "idle" /\ ~ Underway /\ made = 0 /\ Executing /\ todo \in Plans
      /\ todo = <<"cleanup", "report">> \/ todo = <<"cleanup">>
      /\ outcome.status = "succeeded" => todo = <<"cleanup", "report">>
  <2>1. todo \in Plans /\ todo # << >>
    BY <1>1, PlanStages, StageIs DEF Held, ExecutionInv, PlanInv
  <2>2. todo = <<"cleanup", "report">> \/ todo = <<"cleanup">>
    BY <1>1, <2>1, PlanOf
  <2> QED
    BY <1>1, <2>1, <2>2, SucceedingPlans
       DEF Underway, Held, ExecutionInv, PlanInv, ResourceInv, Executing
<1>4. /\ Tail(left) \in Seq(Names)
      /\ \A x \in ToSet(left) : x = left[1] \/ x \in ToSet(Tail(left))
      /\ Len(left) > 1 => Tail(left) # << >>
      /\ ~ (Len(left) > 1) => \A x \in ToSet(left) : x = left[1]
  BY <1>1, TailHas
<1>5. CASE Len(left) > 1
  <2>1. dirty' = failed /\ UNCHANGED <<todo, outcome>> /\ Stage' = Stage
    BY <1>2, <1>5 DEF Stage
  <2>2. PlanInv'
    BY <1>1, <1>3, <1>4, <1>5, <2>1 DEF Held, ExecutionInv, PlanInv, Executing
  <2>3. LeftoverInv'
    <3>1. /\ \A x \in docker' \cup late' : x[1] \in accepted'
          /\ \A a \in Attempts : reported'[a] # "none" => a \in accepted'
          /\ ~ Underway' /\ SuccessLeavesNothing' /\ todo' \notin AfterSteps
      BY <1>1, <1>2, <1>3, <2>1, SucceedingPlans, PlanStages
         DEF Held, ExecutionInv, LeftoverInv, SuccessLeavesNothing, Underway, Stage, AfterSteps
    <3>2. (outcome.status = "succeeded" /\ todo = <<"cleanup", "report">> /\ ~ dirty)' =>
            \A n \in Names : <<attempt', n>> \in docker' => n \in ToSet(left')
      <4> SUFFICES ASSUME outcome.status = "succeeded", todo = <<"cleanup", "report">>, ~ failed,
                          NEW n \in Names, <<attempt, n>> \in docker'
                   PROVE  n \in ToSet(left')
        BY <1>1, <2>1
      <4>1. n \in ToSet(left) /\ n # left[1]
        BY <1>2 DEF Held, ExecutionInv, LeftoverInv
      <4> QED
        BY <1>1, <1>4, <4>1
    <3>3. \A x \in late' : /\ reported'[x[1]] # "succeeded"
                           /\ x[1] = attempt' => outcome'.status # "succeeded"
      BY <1>1, <2>1 DEF Held, ExecutionInv, LeftoverInv
    <3> QED
      BY <1>1, <3>1, <3>2, <3>3 DEF LeftoverInv
  <2>4. dirty' \in BOOLEAN
    BY <2>1
  <2>5. ResourceInv' /\ SweepInv' /\ ExecutionTypes' /\ ContextTypes' /\ RunnerTypes'
    BY <1>1, <1>3, <1>4, <2>1, <2>4, ResourcesStayMade, SweepStays
       DEF Held, ExecutionInv, ExecutionTypes, ContextTypes, RunnerTypes
  <2> QED
    BY <1>2, <2>2, <2>3, <2>5 DEF Held, ExecutionInv
<1>6. CASE ~ (Len(left) > 1)
  <2>1. dirty' = FALSE /\ todo' = Tail(todo) /\ outcome' = AfterCleanup(failed)
    BY <1>2, <1>6 DEF Advance
  <2>2. \/ todo = <<"cleanup", "report">> /\ todo' = <<"report">> /\ Stage' = "report"
        \/ todo = <<"cleanup">> /\ todo' = << >> /\ Stage' = "free"
    BY <1>3, <2>1, PlanTails, PlanStages, StageIs
  <2>3. outcome'.status = "succeeded" => ~ failed /\ outcome.status = "succeeded"
    <3>1. Steps!Failed("system_failure").status # "succeeded"
      BY DEF Steps!Failed
    <3> QED
      BY <2>1, <3>1 DEF AfterCleanup
  <2>4. todo' \in Plans /\ todo' \in AfterSteps /\ ~ Underway'
    BY <2>2 DEF Plans, AfterSteps, Underway
  <2>5. PlanInv'
    <3>1. todo' \in Succeeding
      BY <2>4 DEF Succeeding
    <3> QED
      BY <1>1, <1>3, <2>2, <2>4, <3>1 DEF Held, ExecutionInv, PlanInv, Executing
  <2>6. outcome'.status = "succeeded" => Nothing(attempt)'
    <3> SUFFICES ASSUME outcome'.status = "succeeded", NEW n \in Names, <<attempt, n>> \in docker'
                 PROVE  FALSE
      BY <1>1 DEF Nothing
    <3>1. /\ outcome.status = "succeeded" /\ todo = <<"cleanup", "report">> /\ ~ dirty
          /\ docker' = docker \ {r}
      BY <1>2, <1>3, <2>3
    <3>2. n \in ToSet(left) /\ n # left[1]
      BY <3>1 DEF Held, ExecutionInv, LeftoverInv
    <3> QED
      BY <1>4, <1>6, <3>2
  <2>7. LeftoverInv'
    <3>1. SuccessLeavesNothing'
      BY <1>1, <1>2 DEF Held, ExecutionInv, LeftoverInv, SuccessLeavesNothing
    <3>2. todo' # <<"cleanup", "report">>
      BY <2>4, SucceedingPlans
    <3> QED
      BY <1>1, <1>2, <2>3, <2>4, <2>6, <3>1, <3>2 DEF Held, ExecutionInv, LeftoverInv
  <2>8. ResourceInv'
    <3>1. Preparation' = Preparation /\ 1..0 = {}
      BY DEF Preparation
    <3> QED
      BY <1>1, <1>3, <2>2, <3>1 DEF Held, ExecutionInv, ResourceInv
  <2>9. SweepInv' /\ ExecutionTypes' /\ ContextTypes' /\ RunnerTypes'
    BY <1>1, <1>4, <2>1, <2>4
       DEF Held, ExecutionInv, SweepInv, ExecutionTypes, ContextTypes, RunnerTypes
  <2> QED
    BY <1>2, <2>5, <2>7, <2>8, <2>9 DEF Held, ExecutionInv
<1> QED
  BY <1>5, <1>6

\* Report, Deliver: what the server is told is a success has left nothing.
LEMMA ReportKept == Held /\ StepsInv /\ (Report \/ Deliver) => Held'
<1> SUFFICES ASSUME Held, StepsInv, Report \/ Deliver PROVE Held'
  OBVIOUS
<1>1. /\ Stage \in {"report", "deliver"}
      /\ UNCHANGED <<docker, up, unlabelled, late, accepted, attempt, exposed, made, left, dirty,
                     cause, err, proc, mishaps, sweep, phase, outcome>>
      /\ \/ Stage = "report" /\ todo' = Tail(todo) /\ UNCHANGED reported
         \/ Stage = "report" /\ todo' = <<"deliver">> \o Tail(todo) /\ UNCHANGED reported
         \/ Stage = "deliver" /\ todo' = Tail(todo) /\ UNCHANGED reported
         \/ /\ Stage = "deliver" /\ todo' = Tail(todo)
            /\ reported' = [reported EXCEPT ![attempt] = outcome.status]
  BY DEF Report, Deliver, Advance, daemonVars, runnerVars, stepVars
<1>2. /\ todo \in Plans /\ todo # << >> /\ Executing /\ ~ Underway /\ made = 0 /\ phase = "idle"
  BY <1>1, PlanStages, StageIs
     DEF Held, ExecutionInv, PlanInv, ResourceInv, Underway, Executing
<1>3. \/ todo \in {<<"report">>, <<"deliver">>} /\ todo' \in {<<"deliver">>, << >>}
      \/ /\ todo \in {<<"report", "cleanup">>, <<"deliver", "cleanup">>}
         /\ todo' \in {<<"deliver", "cleanup">>, <<"cleanup">>}
  BY <1>1, <1>2, PlanOf
<1>4. /\ Stage' \in {"deliver", "free", "cleanup"} /\ todo' \in Plans
      /\ ~ Underway'
  <2>1. Stage' \in {"deliver", "free", "cleanup"}
    BY <1>3, PlanStages, StageIs
  <2>2. todo' \in Plans
    BY <1>3 DEF Plans
  <2> QED
    BY <2>1, <2>2 DEF Underway
<1>5. /\ outcome.status = "succeeded" => todo \in AfterSteps /\ todo' \in AfterSteps
      /\ todo' # <<"cleanup", "report">>
  <2>1. outcome.status = "succeeded" =>
          todo \notin {<<"report", "cleanup">>, <<"deliver", "cleanup">>}
    BY SucceedingPlans DEF Held, ExecutionInv, PlanInv
  <2>2. todo' # <<"cleanup", "report">>
    <3>1. Stage' = "cleanup" => todo' = <<"cleanup">>
      BY <1>3, PlanStages, StageIs
    <3>2. <<"cleanup">> # <<"cleanup", "report">>
      BY SucceedingPlans DEF Succeeding
    <3> QED
      BY <3>1, <3>2, PlanStages, StageIs
  <2> QED
    BY <1>3, <2>1, <2>2 DEF AfterSteps
<1>6. PlanInv'
  <2>1. todo' \notin AfterSteps => todo \notin AfterSteps
    <3>1. <<"report", "cleanup">> \notin AfterSteps /\ <<"deliver", "cleanup">> \notin AfterSteps
      BY SucceedingPlans DEF Succeeding
    <3>2. <<"deliver">> \in AfterSteps /\ << >> \in AfterSteps
      BY DEF AfterSteps
    <3> QED
      BY <1>3, <3>1, <3>2
  <2>2. todo' \notin AfterSteps => left' # << >>
    <3>1. Stage \in {"cleanup", "report", "deliver"} /\ todo \notin AfterSteps => left # << >>
      BY DEF Held, ExecutionInv, PlanInv
    <3>2. Stage \in {"cleanup", "report", "deliver"} /\ left' = left
      BY <1>1
    <3> QED
      BY <2>1, <3>1, <3>2, Zenon
  <2>3. outcome'.status = "succeeded" => todo' \in Succeeding
    BY <1>1, <1>5 DEF Succeeding
  <2>4. Executing' /\ phase' = "idle" /\ proc' \notin {"reconciling", "down"}
    BY <1>1, <1>2 DEF Held, ExecutionInv, PlanInv, Executing
  <2> QED
    BY <1>4, <2>2, <2>3, <2>4 DEF PlanInv
<1>7. ResourceInv'
  <2>1. Preparation' = Preparation /\ 1..0 = {}
    BY DEF Preparation
  <2> QED
    BY <1>1, <1>2, <1>4, <2>1 DEF Held, ExecutionInv, ResourceInv
<1>8. ExecutionTypes'
  <2>1. outcome.status \in {"none", "succeeded", "failed", "cancelled"}
    BY StepsTypes DEF StepsInv, LoopTypes, Steps!Outcomes
  <2> QED
    BY <1>1, <2>1 DEF Held, ExecutionTypes
<1>9. LeftoverInv'
  <2>1. /\ attempt \in accepted /\ attempt \in Attempts
        /\ reported \in [Attempts -> {"none", "succeeded", "failed", "cancelled"}]
    BY <1>2 DEF Held, ExecutionTypes, Executing
  <2>2. \A a \in Attempts : \/ reported'[a] = reported[a]
                            \/ a = attempt /\ reported'[a] = outcome.status
    BY <1>1, <2>1
  <2>3. outcome.status = "succeeded" => Nothing(attempt)
    BY <1>5 DEF Held, ExecutionInv, LeftoverInv
  <2>4. SuccessLeavesNothing'
    BY <1>1, <2>2, <2>3 DEF Held, ExecutionInv, LeftoverInv, SuccessLeavesNothing, Nothing
  <2>5. \A x \in late : x[1] \in Attempts
    BY DEF Held, DaemonTypes
  <2>6. \A x \in late' : /\ reported'[x[1]] # "succeeded"
                         /\ x[1] = attempt' => outcome'.status # "succeeded"
    <3> SUFFICES ASSUME NEW x \in late
                 PROVE  /\ reported'[x[1]] # "succeeded"
                        /\ x[1] = attempt => outcome.status # "succeeded"
      BY <1>1
    <3>1. /\ reported[x[1]] # "succeeded" /\ x[1] \in Attempts
          /\ x[1] = attempt => outcome.status # "succeeded"
      BY <2>5 DEF Held, ExecutionInv, LeftoverInv
    <3> QED
      BY <2>2, <3>1
  <2>7. \A a \in Attempts : reported'[a] # "none" => a \in accepted
    BY <2>1, <2>2 DEF Held, ExecutionInv, LeftoverInv
  <2>8. outcome'.status = "succeeded" => Nothing(attempt)'
    BY <1>1, <2>3 DEF Nothing
  <2> QED
    BY <1>1, <1>4, <1>5, <2>4, <2>6, <2>7, <2>8 DEF Held, ExecutionInv, LeftoverInv
<1>10. SweepInv' /\ DaemonTypes' /\ ContextTypes' /\ RunnerTypes'
  BY <1>1, <1>4
     DEF Held, ExecutionInv, SweepInv, DaemonTypes, ContextTypes, RunnerTypes
<1> QED
  BY <1>6, <1>7, <1>8, <1>9, <1>10 DEF Held, ExecutionInv

\* Free: no attempt executes, whatever is left of the one that did.
LEMMA FreeKept ==
  ASSUME Held, Free, RunnerTypes', late' \subseteq Attempts \X Names,
         \A r \in late' : r \in late \/ (r[1] = attempt /\ attempt \in accepted /\ Underway),
         sweep' = sweep \/ sweep' = NoSweep,
         UNCHANGED <<docker, up, unlabelled, accepted, reported>>
  PROVE  Held'
<1>1. /\ attempt' = NoAttempt /\ exposed' = FALSE /\ todo' = << >> /\ made' = 0 /\ left' = << >>
      /\ dirty' = FALSE /\ cause' = "none" /\ err' = "none" /\ phase' = "idle"
      /\ outcome' = Steps!NoOutcome /\ outcome'.status # "succeeded"
  BY OutcomesFit DEF Free, Steps!Forget
<1>2. Stage' = "free" /\ ~ Underway' /\ ~ Executing'
  BY <1>1, PlanStages, StageIs DEF Underway, Executing
<1>3. PlanInv'
  BY <1>1, <1>2 DEF PlanInv, Plans
<1>4. ResourceInv'
  <2>1. Preparation' = Preparation /\ 0 <= Len(Preparation) /\ 1..0 = {}
    BY PreparationHas DEF Preparation
  <2> QED
    BY <1>1, <1>2, <2>1 DEF ResourceInv
<1>5. SweepInv'
  BY <1>2 DEF Held, ExecutionInv, SweepInv, NoSweep
<1>6. LeftoverInv'
  <2>1. SuccessLeavesNothing'
    BY DEF Held, ExecutionInv, LeftoverInv, SuccessLeavesNothing
  <2>2. \A r \in late' : reported'[r[1]] # "succeeded" /\ r[1] \in accepted'
    <3> SUFFICES ASSUME NEW r \in late'
                 PROVE  reported[r[1]] # "succeeded" /\ r[1] \in accepted
      OBVIOUS
    <3>1. CASE r \in late
      BY <3>1 DEF Held, ExecutionInv, LeftoverInv
    <3>2. CASE r[1] = attempt /\ attempt \in accepted /\ Underway
      BY <3>2 DEF Held, ExecutionInv, LeftoverInv
    <3> QED
      BY <3>1, <3>2
  <2> QED
    BY <1>1, <1>2, <2>1, <2>2 DEF Held, ExecutionInv, LeftoverInv
<1>7. DaemonTypes' /\ ExecutionTypes' /\ ContextTypes'
  BY <1>1, EmptySeq DEF Held, DaemonTypes, ExecutionTypes, ContextTypes
<1> QED
  BY <1>3, <1>4, <1>5, <1>6, <1>7 DEF Held, ExecutionInv

LEMMA SweepTypes ==
  /\ NoSweep \in [kind : 0..Len(SweepOrder), kept : SUBSET Attempts,
                  found : SUBSET (Attempts \X Names)]
  /\ NoSweep.kind = 0 /\ NoSweep.found = {}
  /\ \A k \in SUBSET Attempts :
       /\ StartSweep(k) \in [kind : 0..Len(SweepOrder), kept : SUBSET Attempts,
                             found : SUBSET (Attempts \X Names)]
       /\ StartSweep(k).kind = 1 /\ StartSweep(k).kept = k /\ StartSweep(k).found = {}
  /\ Len(SweepOrder) = 3
  BY DEF NoSweep, StartSweep, SweepOrder

\* Finish, Leave, Crash: the end of an execution, in its time or not.
LEMMA GoneKept == Held /\ (Finish \/ Leave \/ Crash) => Held'
<1> SUFFICES ASSUME Held, Finish \/ Leave \/ Crash PROVE Held'
  OBVIOUS
<1>1. CASE Finish
  <2>1. /\ Free
        /\ UNCHANGED <<docker, up, unlabelled, late, accepted, reported, proc, mishaps, sweep>>
    BY <1>1 DEF Finish, daemonVars, runnerVars
  <2>2. RunnerTypes' /\ late' \subseteq Attempts \X Names
    BY <2>1 DEF Held, RunnerTypes, DaemonTypes
  <2> QED
    BY <2>1, <2>2, FreeKept
<1>2. CASE Leave \/ Crash
  <2>1. /\ Free /\ Orphan /\ proc' = "down" /\ sweep' = NoSweep
        /\ UNCHANGED <<docker, up, unlabelled, accepted, reported>>
        /\ mishaps' = mishaps \/ (mishaps < MaxMishaps /\ mishaps' = mishaps + 1)
    BY <1>2 DEF Leave, Crash, Gone
  <2>2. mishaps' \in 0..MaxMishaps
    BY <2>1, DockerAssumption DEF Held, RunnerTypes
  <2>3. RunnerTypes'
    BY <2>1, <2>2, SweepTypes DEF RunnerTypes
  <2> QED
    BY <2>1, <2>3, OrphanIs, FreeKept
<1> QED
  BY <1>1, <1>2

\* Cancel, Timeout, Die: the context of an execution, or its services.
LEMMA ContextKept == Held /\ (Cancel \/ Timeout \/ Die) => Held'
<1> SUFFICES ASSUME Held, Cancel \/ Timeout \/ Die PROVE Held'
  OBVIOUS
<1>1. /\ UNCHANGED <<docker, unlabelled, late, accepted, attempt, exposed, todo, made, left, dirty,
                     reported, proc, mishaps, sweep, phase, outcome>>
      /\ up' \subseteq up
  BY DEF Cancel, Timeout, Die, daemonVars, execVars, stageVars, runnerVars, stepVars
<1>2. ContextTypes'
  BY DEF Cancel, Timeout, Die, Cancelled, execVars, Held, ContextTypes
<1>3. PlanInv' /\ ResourceInv' /\ SweepInv' /\ LeftoverInv'
  <2>1. proc' \in {"reconciling", "down"} => ~ Executing
    BY <1>1 DEF Held, ExecutionInv, PlanInv
  <2> QED
    BY <1>1, <2>1, PlanStays, ResourcesStayMade, SweepStays, LeftoverStays DEF Held, ExecutionInv
<1>4. DaemonTypes' /\ ExecutionTypes' /\ RunnerTypes'
  BY <1>1 DEF Held, DaemonTypes, ExecutionTypes, RunnerTypes
<1> QED
  BY <1>2, <1>3, <1>4 DEF Held, ExecutionInv

\* MakeLate: nothing is still to be made for an attempt that succeeded, or may.
LEMMA MakeLateKept == Held /\ MakeLate => Held'
<1> SUFFICES ASSUME Held, MakeLate PROVE Held'
  OBVIOUS
<1>1. PICK r \in late : late' = late \ {r} /\ Make(r)
  BY DEF MakeLate
<1>2. UNCHANGED <<up, accepted, attempt, exposed, todo, made, left, dirty, cause, err, reported,
                  proc, mishaps, sweep, phase, outcome>>
  BY DEF MakeLate, execVars, stageVars, runnerVars, stepVars
<1>3. /\ r \in Attempts \X Names /\ r[1] \in accepted /\ reported[r[1]] # "succeeded"
      /\ r[1] = attempt => ~ Underway /\ outcome.status # "succeeded"
  BY DEF Held, DaemonTypes, ExecutionInv, LeftoverInv
<1>4. /\ docker \subseteq docker' /\ \A x \in docker' : x \in docker \/ x[1] = r[1]
      /\ docker' \subseteq Attempts \X Names /\ unlabelled' \subseteq Attempts
  BY <1>1, <1>3, MakeIs DEF Held
<1>5. PlanInv' /\ ResourceInv' /\ SweepInv'
  <2>1. proc' \in {"reconciling", "down"} => ~ Executing
    BY <1>2 DEF Held, ExecutionInv, PlanInv
  <2>2. \A x \in docker : ~ exposed /\ Underway /\ x[1] = attempt => x \in docker'
    BY <1>4
  <2> QED
    BY <1>2, <2>1, <2>2, PlanStays, ResourcesStayMade, SweepStays DEF Held, ExecutionInv
<1>6. LeftoverInv'
  <2>1. \A a \in Attempts, n \in Names : <<a, n>> \in docker' => <<a, n>> \in docker \/ a = r[1]
    BY <1>4
  <2>2. SuccessLeavesNothing'
    BY <1>2, <1>3, <2>1 DEF Held, ExecutionInv, LeftoverInv, SuccessLeavesNothing
  <2>3. outcome.status = "succeeded" =>
          \A n \in Names : <<attempt, n>> \in docker' => <<attempt, n>> \in docker
    BY <1>3, <1>4
  <2>4. Underway' = Underway
    BY <1>2 DEF Underway, Stage
  <2>5. /\ \A x \in docker' \cup late' : x[1] \in accepted'
        /\ \A a \in Attempts : reported'[a] # "none" => a \in accepted'
        /\ Underway' => reported'[attempt'] = "none"
        /\ \A x \in late' : /\ reported'[x[1]] # "succeeded"
                            /\ x[1] = attempt' => ~ Underway' /\ outcome'.status # "succeeded"
    BY <1>1, <1>2, <1>3, <1>4, <2>4 DEF Held, ExecutionInv, LeftoverInv
  <2>6. (outcome.status = "succeeded" /\ todo = <<"cleanup", "report">> /\ ~ dirty)' =>
          \A n \in Names : <<attempt', n>> \in docker' => n \in ToSet(left')
    BY <1>2, <2>3 DEF Held, ExecutionInv, LeftoverInv
  <2>7. outcome'.status = "succeeded" /\ todo' \in AfterSteps => Nothing(attempt)'
    BY <1>2, <2>3 DEF Held, ExecutionInv, LeftoverInv, Nothing
  <2> QED
    BY <2>2, <2>5, <2>6, <2>7 DEF LeftoverInv
<1>7. DaemonTypes' /\ ExecutionTypes' /\ ContextTypes' /\ RunnerTypes'
  BY <1>1, <1>2, <1>4 DEF Held, DaemonTypes, ExecutionTypes, ContextTypes, RunnerTypes
<1> QED
  BY <1>5, <1>6, <1>7 DEF Held, ExecutionInv

---------------------------------------------------------------------------
(* The reconciliation and the process *)

\* Changes of the reconciliation and of what is in Docker; what is destroyed was
\* found, and so belongs to no attempt that is kept.
LEMMA SweepKept ==
  ASSUME Held, DaemonTypes', docker' \subseteq docker, UNCHANGED late, ContextTypes',
         UNCHANGED <<accepted, attempt, exposed, todo, made, left, dirty, reported, phase,
                     outcome>>,
         RunnerTypes', proc' \in {"reconciling", "down"} => ~ Executing,
         \A r \in docker \ docker' : sweep.kind # 0 /\ r[1] \notin sweep.kept,
         sweep'.kind = 0 => sweep'.found = {},
         \A r \in sweep'.found : r[1] \notin sweep'.kept,
         sweep'.kind # 0 /\ Executing /\ attempt \notin sweep'.kept =>
           sweep.kind # 0 /\ attempt \notin sweep.kept
  PROVE  Held'
<1>1. Underway' = Underway /\ Executing' = Executing /\ (Underway => Executing)
  BY UnderwayKnown DEF Underway, Stage, Executing, Held, ExecutionInv
<1>2. SweepInv'
  BY <1>1 DEF Held, ExecutionInv, SweepInv
<1>3. ResourceInv'
  <2>1. \A r \in docker : ~ exposed /\ Underway /\ r[1] = attempt => r \in docker'
    BY DEF Held, ExecutionInv, SweepInv
  <2> QED
    BY <2>1, ResourcesStayMade DEF Held, ExecutionInv
<1>4. PlanInv' /\ LeftoverInv'
  BY PlanStays, LeftoverStays DEF Held, ExecutionInv
<1>5. ExecutionTypes'
  BY DEF Held, ExecutionTypes
<1> QED
  BY <1>2, <1>3, <1>4, <1>5 DEF Held, ExecutionInv

\* Proceed: with what was found, to the next set, or to the end.
LEMMA ProceedIs ==
  ASSUME Held, sweep.kind # 0, NEW found \in SUBSET (Attempts \X Names), Proceed(found),
         UNCHANGED mishaps, \A r \in found : r[1] \notin sweep.kept
  PROVE  /\ RunnerTypes'
         /\ proc' \in {"reconciling", "down"} => proc \in {"reconciling", "down"}
         /\ sweep'.kind = 0 => sweep'.found = {}
         /\ \A r \in sweep'.found : r[1] \notin sweep'.kept
         /\ sweep'.kind # 0 => sweep'.kept = sweep.kept
<1>1. /\ sweep.kind \in 0..3 /\ sweep.kept \in SUBSET Attempts
      /\ sweep \in [kind : 0..3, kept : SUBSET Attempts, found : SUBSET (Attempts \X Names)]
      /\ proc \in {"reconciling", "serving", "stopping", "down"} /\ mishaps' \in 0..MaxMishaps
  BY SweepTypes DEF Held, RunnerTypes
<1>2. CASE sweep' = [sweep EXCEPT !.found = found] /\ UNCHANGED proc
  BY <1>1, <1>2, SweepTypes DEF RunnerTypes
<1>3. CASE /\ sweep.kind < 3 /\ sweep' = [sweep EXCEPT !.kind = @ + 1, !.found = {}]
           /\ UNCHANGED proc
  <2>1. sweep.kind + 1 \in 0..3
    BY <1>1, <1>3
  <2> QED
    BY <1>1, <1>3, <2>1, SweepTypes DEF RunnerTypes
<1>4. CASE sweep' = NoSweep /\ proc' = IF proc = "reconciling" THEN "serving" ELSE proc
  BY <1>1, <1>4, SweepTypes DEF RunnerTypes
<1> QED
  BY <1>2, <1>3, <1>4, SweepTypes DEF Proceed

LEMMA SweepsKept == Held /\ Sweep => Held'
<1> SUFFICES ASSUME Held, Sweep PROVE Held'
  OBVIOUS
<1>1. /\ UNCHANGED <<late, accepted, attempt, exposed, todo, made, left, dirty, cause, err,
                     reported, phase, outcome>>
      /\ ContextTypes'
  <2>1. UNCHANGED late /\ UNCHANGED execVars /\ UNCHANGED stepVars
    BY DEF Sweep, SweepBegin, SweepList, SweepRemove, SweepFails, daemonVars
  <2> QED
    BY <2>1 DEF execVars, stageVars, stepVars, Held, ContextTypes
<1>2. proc \in {"reconciling", "down"} => ~ Executing
  BY DEF Held, ExecutionInv, PlanInv
<1>3. CASE SweepBegin
  <2>1. /\ UNCHANGED <<proc, mishaps, docker, up, unlabelled, late>>
        /\ sweep' = StartSweep(IF Executing THEN {attempt} ELSE {})
    BY <1>3 DEF SweepBegin, daemonVars
  <2>2. (IF Executing THEN {attempt} ELSE {}) \in SUBSET Attempts
    BY DEF Held, ExecutionTypes, Executing
  <2>3. RunnerTypes' /\ sweep'.found = {} /\ (Executing => attempt \in sweep'.kept)
    BY <2>1, <2>2, SweepTypes DEF Held, RunnerTypes
  <2>4. DaemonTypes'
    BY <2>1 DEF Held, DaemonTypes
  <2> QED
    BY <1>1, <1>2, <2>1, <2>3, <2>4, SweepKept
<1>4. CASE SweepList
  <2>1. /\ UNCHANGED <<mishaps, docker, up, unlabelled, late>> /\ sweep.kind # 0
        /\ Proceed({r \in docker : r[2] \in SweepOrder[sweep.kind] /\ Labelled(r)
                                     /\ r[1] \notin sweep.kept})
    BY <1>4 DEF SweepList, Listing, daemonVars
  <2>2. PICK found \in SUBSET (Attempts \X Names) :
          Proceed(found) /\ \A r \in found : r[1] \notin sweep.kept
    BY <2>1 DEF Held, DaemonTypes
  <2>3. DaemonTypes'
    BY <2>1 DEF Held, DaemonTypes
  <2> QED
    BY <1>1, <1>2, <2>1, <2>2, <2>3, ProceedIs, SweepKept
<1>5. CASE SweepRemove
  <2>1. PICK r \in sweep.found : Destroy(r) /\ Proceed(sweep.found \ {r}) /\ UNCHANGED mishaps
    BY <1>5 DEF SweepRemove
  <2>2. /\ sweep.found \ {r} \in SUBSET (Attempts \X Names) /\ sweep.kind # 0
        /\ \A x \in sweep.found : x[1] \notin sweep.kept
    BY DEF Held, RunnerTypes, ExecutionInv, SweepInv
  <2>3. DaemonTypes' /\ docker' = docker \ {r}
    BY <1>1, <2>1, DestroyIs DEF Held
  <2> QED
    BY <1>1, <1>2, <2>1, <2>2, <2>3, ProceedIs, SweepKept
<1>6. CASE SweepFails
  <2>1. /\ UNCHANGED <<docker, up, unlabelled, late>> /\ sweep' = NoSweep
        /\ proc' = IF proc = "reconciling" THEN "down" ELSE proc
        /\ mishaps' = mishaps \/ (mishaps < MaxMishaps /\ mishaps' = mishaps + 1)
    BY <1>6 DEF SweepFails, daemonVars
  <2>2. mishaps' \in 0..MaxMishaps
    BY <2>1, DockerAssumption DEF Held, RunnerTypes
  <2>3. RunnerTypes' /\ DaemonTypes'
    BY <2>1, <2>2, SweepTypes DEF Held, RunnerTypes, DaemonTypes
  <2> QED
    BY <1>1, <1>2, <2>1, <2>3, SweepTypes, SweepKept
<1> QED
  BY <1>3, <1>4, <1>5, <1>6 DEF Sweep

\* Stop, Restart.
LEMMA ProcessKept == Held /\ (Stop \/ Restart) => Held'
<1> SUFFICES ASSUME Held, Stop \/ Restart PROVE Held'
  OBVIOUS
<1>1. /\ UNCHANGED <<docker, up, unlabelled, late, accepted, attempt, exposed, todo, made, left,
                     dirty, reported, phase, outcome>>
      /\ DaemonTypes'
  <2>1. UNCHANGED daemonVars /\ UNCHANGED stepVars
        /\ UNCHANGED <<accepted, attempt, exposed, todo, made, left, dirty, reported>>
    BY DEF Stop, Restart, execVars, stageVars
  <2> QED
    BY <2>1 DEF daemonVars, stepVars, Held, DaemonTypes
<1>2. ContextTypes'
  BY DEF Stop, Restart, Cancelled, execVars, Held, ContextTypes
<1>3. /\ proc' \in {"reconciling", "down"} => ~ Executing
      /\ mishaps' = mishaps \/ (mishaps < MaxMishaps /\ mishaps' = mishaps + 1)
      /\ sweep' \in {sweep, NoSweep} \/ (proc = "down" /\ sweep' = StartSweep({}))
      /\ proc' \in {"stopping", "reconciling"}
  BY DEF Stop, Restart, Held, ExecutionInv, PlanInv
<1>4. mishaps' \in 0..MaxMishaps
  BY <1>3, DockerAssumption DEF Held, RunnerTypes
<1>5. /\ RunnerTypes' /\ (sweep'.kind = 0 => sweep'.found = {})
      /\ \A r \in sweep'.found : r[1] \notin sweep'.kept
      /\ sweep'.kind # 0 /\ Executing /\ attempt \notin sweep'.kept =>
           sweep.kind # 0 /\ attempt \notin sweep.kept
  <2>1. CASE sweep' = sweep
    BY <1>3, <1>4, <2>1 DEF Held, RunnerTypes, ExecutionInv, SweepInv
  <2>2. CASE sweep' = NoSweep
    BY <1>3, <1>4, <2>2, SweepTypes DEF RunnerTypes
  <2>3. CASE proc = "down" /\ sweep' = StartSweep({})
    BY <1>3, <1>4, <2>3, SweepTypes DEF Held, RunnerTypes, ExecutionInv, PlanInv
  <2> QED
    BY <1>3, <2>1, <2>2, <2>3
<1> QED
  BY <1>1, <1>2, <1>3, <1>5, SweepKept

---------------------------------------------------------------------------
(* The theorems *)

LEMMA InitHeld == Init => IInv
<1> SUFFICES ASSUME Init PROVE IInv
  OBVIOUS
<1>1. /\ text = << >> /\ pushed = 0 /\ consumed = 0 /\ raw = {} /\ mode = "idle"
      /\ program = << >> /\ phase = "idle" /\ results = << >> /\ reason = "" /\ stepReason = ""
      /\ outcome = Steps!NoOutcome /\ exit = "ok" /\ broken = FALSE /\ sent = 0 /\ seen = {}
  BY DEF Init, Steps!Init, Steps!Output!Init
<1>2. StepsInv
  <2>1. Red!IInv
    BY <1>1, Red!InitInv, OutputAssumption DEF Red!Init
  <2>2. WriterTypes
    BY <1>1, <2>1, NoneOfNone
       DEF WriterTypes, Red!IInv, Red!Sound, Red!TypeOK, Red!Modes,
           Steps!Output!TypeOK, Steps!Output!Modes
  <2>3. results \in Seq(Results) /\ Len(results) = 0 /\ Len(program) = 0
    BY <1>1, EmptySeq
  <2>4. \A i \in 1..Len(results) : FALSE
    BY <2>3
  <2>5. Len(results) <= Len(program)
    BY <2>3
  <2>6. LoopTypes
    BY <1>1, <2>3, <2>5, OutcomesFit DEF LoopTypes, Steps!Phases
  <2>7. LoopInv
    BY <1>1, <2>4, OutcomeParts DEF LoopInv, InStep, ReasonFits, NoneBad, ConditionsKept
  <2>8. WriterInv
    BY <1>1 DEF WriterInv
  <2> QED
    BY <2>1, <2>2, <2>6, <2>7, <2>8, StepsTypes DEF StepsInv
<1>3. /\ proc = "reconciling" /\ mishaps = 0 /\ sweep = StartSweep({})
      /\ docker = {} /\ up = {} /\ unlabelled = {} /\ late = {}
      /\ accepted = {} /\ attempt = NoAttempt /\ exposed = FALSE
      /\ todo = << >> /\ made = 0 /\ left = << >> /\ dirty = FALSE
      /\ cause = "none" /\ err = "none" /\ reported = [a \in Attempts |-> "none"]
  BY DEF Init
<1>4. Stage = "free" /\ ~ Executing /\ ~ Underway
  BY <1>3, PlanStages, StageIs DEF Executing, Underway
<1>5. DaemonTypes /\ ExecutionTypes /\ ContextTypes /\ RunnerTypes
  <2>1. 0 \in 0..MaxMishaps
    BY DockerAssumption
  <2> QED
    BY <1>3, <2>1, EmptySeq, SweepTypes
       DEF DaemonTypes, ExecutionTypes, ContextTypes, RunnerTypes
<1>6. PlanInv
  BY <1>1, <1>3, <1>4, OutcomesFit DEF PlanInv, Plans
<1>7. ResourceInv
  <2>1. 0 <= Len(Preparation) /\ 1..0 = {}
    BY PreparationHas
  <2> QED
    BY <1>3, <1>4, <2>1 DEF ResourceInv
<1>8. SweepInv
  BY <1>3, <1>4, SweepTypes DEF SweepInv
<1>9. LeftoverInv
  BY <1>1, <1>3, <1>4, OutcomesFit DEF LeftoverInv, SuccessLeavesNothing
<1> QED
  BY <1>2, <1>5, <1>6, <1>7, <1>8, <1>9, IInvParts DEF Held, ExecutionInv

\* The execution, its reconciliation and the process.
LEMMA HeldNext == IInv /\ Next => Held'
<1> SUFFICES ASSUME Held, StepsInv, Next PROVE Held'
  BY IInvParts
<1>1. CASE Execution
  <2>1. CASE RunSteps
    BY <2>1, DuringStepsKept DEF RunSteps, daemonVars
  <2>2. CASE KillCommand
    BY <2>2, DuringStepsKept DEF KillCommand
  <2> QED
    BY <1>1, <2>1, <2>2, PreflightKept, PreparationKept, PrepareFailsKept, AnnouncedKept,
       StepsEndKept, CleanKept, ReportKept, GoneKept DEF Execution
<1>2. CASE RunCommand
  BY <1>2, DuringStepsKept DEF RunCommand, daemonVars
<1> QED
  BY <1>1, <1>2, AcceptKept, ContextKept, MakeLateKept, SweepsKept, ProcessKept, GoneKept DEF Next

\* The steps: they run, are forgotten, or change no more than their outcome.
LEMMA StepsNext == IInv /\ Next => StepsInv'
<1> SUFFICES ASSUME Held, StepsInv, Next PROVE StepsInv'
  BY IInvParts
<1>1. Stage # "steps" => phase = "idle"
  BY DEF Held, ExecutionInv, PlanInv
<1>2. outcome \in Steps!Outcomes
  BY StepsTypes DEF StepsInv, LoopTypes
<1>3. ASSUME NEW stages, FailWith(stages), Stage # "steps" PROVE StepsInv'
  BY <1>1, <1>3, FailureIs, OutcomeKept DEF FailWith
<1>4. CASE Execution
  <2>1. CASE Preflight
    BY <1>3, <2>1, StepsStay DEF Preflight
  <2>2. CASE Create \/ StartContainer \/ Await
    BY <2>2, StepsStay DEF Create, StartContainer, Await
  <2>3. CASE PrepareFails
    BY <1>3, <2>3 DEF PrepareFails, Preparing
  <2>4. CASE Announce
    <3>1. ASSUME NEW p \in Programs, Steps!Start(p), Stage = "announce" PROVE StepsInv'
      <4>1. results = << >>
        BY <1>1, <3>1 DEF StepsInv, LoopInv
      <4> QED
        BY <3>1, <4>1, StartKept
    <3> QED
      BY <2>4, <3>1, StepsStay DEF Announce
  <2>5. CASE RunSteps
    BY <2>5, StepsKept DEF RunSteps
  <2>6. CASE KillCommand
    BY <2>6, StepsKept DEF KillCommand
  <2>7. CASE StepsEnd
    BY <1>2, <2>7, ForgetKept DEF StepsEnd
  <2>8. CASE Clean
    <3>1. outcome' \in Steps!Outcomes
      BY <1>2, <2>8, FailureIs, OutcomesFit DEF Clean, AfterCleanup, Steps!Reasons
    <3> QED
      BY <1>1, <2>8, <3>1, OutcomeKept DEF Clean
  <2>9. CASE Report \/ Deliver
    BY <2>9, StepsStay DEF Report, Deliver
  <2>10. CASE Finish
    BY <2>10, OutcomesFit, ForgetKept DEF Finish, Free
  <2> QED
    BY <1>4, <2>1, <2>2, <2>3, <2>4, <2>5, <2>6, <2>7, <2>8, <2>9, <2>10 DEF Execution
<1>5. CASE RunCommand
  BY <1>5, StepsKept DEF RunCommand
<1>6. CASE Leave \/ Crash
  BY <1>6, OutcomesFit, ForgetKept DEF Leave, Crash, Gone, Free
<1>7. CASE (\E a \in Attempts : Accept(a)) \/ Cancel \/ Timeout \/ MakeLate \/ Die
             \/ Sweep \/ Stop \/ Restart
  BY <1>7, StepsStay
     DEF Accept, Cancel, Timeout, MakeLate, Die, Sweep, SweepBegin, SweepList, SweepRemove,
         SweepFails, Stop, Restart
<1> QED
  BY <1>4, <1>5, <1>6, <1>7 DEF Next

LEMMA StutterKept ==
  Held /\ UNCHANGED <<daemonVars, execVars, runnerVars>> /\ UNCHANGED stepVars => Held'
<1> SUFFICES ASSUME Held, UNCHANGED <<daemonVars, execVars, runnerVars>>, UNCHANGED stepVars
             PROVE  Held'
  OBVIOUS
<1>1. UNCHANGED <<docker, up, unlabelled, late, accepted, attempt, exposed, todo, made, left, dirty,
                  cause, err, reported, proc, mishaps, sweep, phase, outcome>>
  BY DEF daemonVars, execVars, stageVars, runnerVars, stepVars
<1>2. PlanInv' /\ ResourceInv' /\ SweepInv' /\ LeftoverInv'
  <2>1. proc' \in {"reconciling", "down"} => ~ Executing
    BY <1>1 DEF Held, ExecutionInv, PlanInv
  <2> QED
    BY <1>1, <2>1, PlanStays, ResourcesStayMade, SweepStays, LeftoverStays DEF Held, ExecutionInv
<1>3. DaemonTypes' /\ ExecutionTypes' /\ ContextTypes' /\ RunnerTypes'
  BY <1>1 DEF Held, DaemonTypes, ExecutionTypes, ContextTypes, RunnerTypes
<1> QED
  BY <1>2, <1>3 DEF Held, ExecutionInv

\* Every step of the specification keeps the invariant.
LEMMA NextKept == IInv /\ [Next]_vars => IInv'
<1> SUFFICES ASSUME IInv, [Next]_vars PROVE IInv'
  OBVIOUS
<1>1. CASE Next
  BY <1>1, HeldNext, StepsNext, IInvParts
<1>2. CASE UNCHANGED vars
  <2>1. UNCHANGED stepVars /\ UNCHANGED <<daemonVars, execVars, runnerVars>>
    BY <1>2 DEF vars
  <2>2. StepsInv'
    BY <2>1, StepsStay DEF IInv
  <2>3. Held'
    BY <2>1, IInvParts, StutterKept
  <2> QED
    BY <2>2, <2>3, IInvParts
<1> QED
  BY <1>1, <1>2

\* The strengthening that the properties follow from.
THEOREM Invariance == Spec => []IInv
  BY InitHeld, NextKept, PTL DEF Spec

\* The executor, the daemon, the reconciliation and the steps keep their types.
THEOREM TypeCorrect == Spec => []TypeOK
<1>1. IInv => TypeOK
  BY DEF IInv
<1> QED
  BY <1>1, Invariance, PTL

\* The conditions of the steps and the outcome of the attempt agree with what the
\* steps came to, wherever a cancellation, the end of the job's time or the loss of
\* a service falls between the questions that runDockerSteps asks.
THEOREM OutcomeIsSound == Spec => []OutcomeSound
<1>1. IInv => OutcomeSound
  BY DEF IInv, StepsInv, LoopInv, OutcomeSound
<1> QED
  BY <1>1, Invariance, PTL

\* The server never sees a secret, and a step succeeds only when the server has all
\* of its output but the secrets, for all secrets, texts, chunks and lost deliveries.
THEOREM OutputIsFaithful == Spec => []OutputFaithful
<1>1. IInv => OutputFaithful
  BY StepsFaithful DEF IInv
<1> QED
  BY <1>1, Invariance, PTL

\* What the server is told is a success left nothing in Docker, whatever the daemon
\* still makes for killed commands and whatever the runner crashed on before.
THEOREM SuccessesAreClean == Spec => []SuccessLeavesNothing
<1>1. IInv => SuccessLeavesNothing
  BY DEF IInv, ExecutionInv, LeftoverInv
<1> QED
  BY <1>1, Invariance, PTL

\* No reconciliation takes what the steps of an attempt use, unless it took its
\* snapshot before the attempt was accepted.
THEOREM ResourcesAreKept == Spec => []ResourcesStay
<1>1. IInv => ResourcesStay
  <2> SUFFICES ASSUME IInv, Stage = "steps", ~ exposed, NEW n \in Names
               PROVE  <<attempt, n>> \in docker
    BY DEF ResourcesStay, Named
  <2>1. PICK i \in 1..Len(Preparation) : Preparation[i].name = n
    BY PreparationHas
  <2>2. i \in 1..made
    BY DEF IInv, ExecutionInv, ResourceInv
  <2> QED
    BY <2>1, <2>2 DEF IInv, ExecutionInv, ResourceInv
<1> QED
  BY <1>1, Invariance, PTL
=============================================================================
