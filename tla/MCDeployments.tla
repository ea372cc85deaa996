--------------------------- MODULE MCDeployments ---------------------------
(* Instances of Deployments for TLC. *)
EXTENDS Deployments, TLC

CONSTANTS w1, w2, w3, r1, r2

Interchangeable == Permutations(Workers) \cup Permutations(Runners)
=============================================================================
