----------------------------- MODULE MCAiRuns -----------------------------
(* TLC instances of AiRuns: model values, small bounds, and the symmetry of *)
(* run identifiers and of posters, which no definition orders.              *)
EXTENDS AiRuns, TLC

CONSTANTS r1, r2, p1, p2, w1, mitre_map, scenario_delta, a1, a2

MCRunId      == {r1, r2}
MCOneRun     == {r1}
MCPosters    == {p1, p2}
MCPoster     == {p1}
MCPoller     == {w1}
MCNoPoller   == {}
MCPurpose    == {mitre_map}
MCPurposes   == {mitre_map, scenario_delta}
MCNonLocking == {scenario_delta}
MCSubject    == {a1}
MCSubjects   == {a1, a2}

RunSymmetry  == Permutations(MCRunId) \cup Permutations(MCPosters)
=============================================================================
