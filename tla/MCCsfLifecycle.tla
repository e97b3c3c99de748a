-------------------------- MODULE MCCsfLifecycle ---------------------------
(* TLC instances of CsfLifecycle; requests are interchangeable. *)
EXTENDS CsfLifecycle, TLC

CONSTANTS q1, q2

MCTwo   == {q1, q2}

\* Status changes alone.
MCStatuses == AllOps \ {"answer", "self", "score", "run"}

RequestSymmetry == Permutations(MCTwo)
=============================================================================
