--------------------------- MODULE AttemptHistory ---------------------------
(***************************************************************************)
(* What the control plane and its runner promise together about an         *)
(* attempt, without connections, messages, repetitions and restarts: it    *)
(* is offered, prepared and run in this order; its steps are started once, *)
(* and only after it was recorded as running; it ends once; and what a     *)
(* runner is told of its outcome is that end.                              *)
(***************************************************************************)
EXTENDS Naturals

CONSTANT Attempts

VARIABLES
  life,       \* how far each attempt has come
  permitted,  \* attempts that were recorded as running
  runs,       \* how often the steps of each attempt were started
  known       \* the outcome the runner was told, or "none"

vars == <<life, permitted, runs, known>>

Ended == {"succeeded", "failed", "cancelled"}

Init ==
  /\ life = [a \in Attempts |-> "waiting"]
  /\ permitted = {}
  /\ runs = [a \in Attempts |-> 0]
  /\ known = [a \in Attempts |-> "none"]

Offer(a) ==
  /\ life[a] = "waiting" /\ life' = [life EXCEPT ![a] = "queued"]
  /\ UNCHANGED <<permitted, runs, known>>

Prepare(a) ==
  /\ life[a] = "queued" /\ life' = [life EXCEPT ![a] = "preparing"]
  /\ UNCHANGED <<permitted, runs, known>>

Permit(a) ==
  /\ life[a] = "preparing" /\ life' = [life EXCEPT ![a] = "running"]
  /\ permitted' = permitted \cup {a}
  /\ UNCHANGED <<runs, known>>

\* The permission is used once; the lease may have run out since it was given.
Run(a) ==
  /\ runs[a] = 0 /\ a \in permitted /\ runs' = [runs EXCEPT ![a] = 1]
  /\ UNCHANGED <<life, permitted, known>>

\* Only an attempt that ran succeeds or is cancelled; any may fail.
End(a) ==
  /\ life[a] \in {"queued", "preparing", "running"}
  /\ \E outcome \in Ended :
       /\ outcome # "failed" => life[a] = "running"
       /\ life' = [life EXCEPT ![a] = outcome]
  /\ UNCHANGED <<permitted, runs, known>>

Learn(a) ==
  /\ life[a] \in Ended /\ known' = [known EXCEPT ![a] = life[a]]
  /\ UNCHANGED <<life, permitted, runs>>

\* Most steps of an implementation are no step of the history.
Next ==
  \/ UNCHANGED vars
  \/ \E a \in Attempts : Offer(a) \/ Prepare(a) \/ Permit(a) \/ Run(a) \/ End(a) \/ Learn(a)

Spec == Init /\ [][Next]_vars
=============================================================================
