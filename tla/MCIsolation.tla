---------------------------- MODULE MCIsolation ----------------------------
(* TLC instances of Isolation and, through it, of FifoSlots. *)
EXTENDS Isolation, TLC

CONSTANTS c1, c2, c3, u1

MCThree  == {c1, c2, c3}
MCOneRun == {u1}

\* Two batches of a run, and a call outside any run.
MCMixed == (c1 :> u1 @@ c2 :> u1 @@ c3 :> c3)
=============================================================================
