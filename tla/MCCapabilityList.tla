-------------------------- MODULE MCCapabilityList -------------------------
(* TLC instances of CapabilityList; requests are interchangeable. *)
EXTENDS CapabilityList, TLC

CONSTANTS q1, q2, s1, c1

MCTwo  == {q1, q2}
MCRow  == {s1}
MCPart == {c1}

MCAll == AllOps

RequestSymmetry == Permutations(MCTwo)
=============================================================================
