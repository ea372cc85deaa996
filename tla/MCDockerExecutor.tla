-------------------------- MODULE MCDockerExecutor --------------------------
(* DockerExecutor on a small instance: jobs with one service, and steps of   *)
(* every kind and condition.                                                 *)
EXTENDS DockerExecutor

MCServices == <<"db">>

Do(kind, condition) == [kind |-> kind, condition |-> condition]
MCPrograms == {
  <<Do("checkout", "success"), Do("run", "success"), Do("other", "failure"), Do("builtin", "always"),
    Do("builtin", "success")>>}

\* The secret is all the command would write: cut anywhere, or half of it.
MCByte == {"a", "b"}
MCSecrets == {<<"a", "b">>}
MCTexts == {<<"a", "b">>}
=============================================================================
