------------------------ MODULE MCAssessmentReview -------------------------
(* TLC instances of AssessmentReview. *)
EXTENDS AssessmentReview, TLC

CONSTANTS q1, q2, q3, r1, r2

MCThree == {q1, q2, q3}
MCTwo   == {q1, q2}
MCRow   == {r1}
MCRows  == {r1, r2}
MCKinds  == {"zt", "attack"}
MCAttack == {"attack"}

\* Two consultants, or one in two tabs, and the client: whatever a consultant
\* does may be under way beside anything another does, itself included.
MCTeam ==
  (q1 :> AllOps \ {"self", "submit"} @@
   q2 :> AllOps \ {"self"} @@
   q3 :> {"self", "submit"})

\* Two consultants at work on the same assessment.
MCPair == (q1 :> {"patch"} @@ q2 :> {"approve", "finalize", "release"})

RowSymmetry == Permutations(MCRows)
=============================================================================
