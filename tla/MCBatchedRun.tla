--------------------------- MODULE MCBatchedRun ----------------------------
(* TLC instances of BatchedRun: more batches than workers. *)
EXTENDS BatchedRun

MCThree == 3
=============================================================================
