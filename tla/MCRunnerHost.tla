---------------------------- MODULE MCRunnerHost ----------------------------
(* RunnerHost on a small instance. *)
EXTENDS RunnerHost

\* The first process has the number 123, the second has 12.
MCLonger == {<<2, 1>>}
=============================================================================
