--------------------------- MODULE CommandOutput ---------------------------
(* What the commands of a job write, and what must not be seen of it        *)
(* (runner-go/internal/runner: newRedactor drops empty secrets).            *)
EXTENDS Naturals, Sequences

CONSTANTS
  Byte,
  Secrets,  \* the values of the job's secrets
  Texts     \* what a command may write

ASSUME OutputAssumption ==
  /\ Secrets \subseteq Seq(Byte) \ {<< >>}
  /\ Texts \subseteq Seq(Byte)
=============================================================================
