----------------------------- MODULE MCFigures -----------------------------
(* TLC instances of Figures. *)
EXTENDS Figures, TLC

CONSTANTS edr, fw, tech1, tech2, cap1, cap2

MCKinds     == AllKinds
MCTechnique == {tech1, tech2}
MCTool      == {edr, fw}
MCCapab     == {cap1, cap2}

\* The second technique has no Prevent mitigation.
MCJudged == (tech1 :> Cap @@ tech2 :> Cap \ {"prevent"})

MCTechniqueRow ==
  LET Row(said, flagged, d, p, r) ==
        [said |-> said, flagged |-> flagged,
         lists |-> [c \in Cap |-> CASE c = "detect"  -> d
                                    [] c = "prevent" -> p
                                    [] c = "respond" -> r]]
  IN {Row("covered", f, d, p, r) : f \in SUBSET MCTool, d \in SUBSET MCTool,
         p \in {{}, {edr}, {fw}}, r \in {{}, MCTool}}
       \cup {Row(said, {}, {edr}, {}, {}) :
               said \in {"none", "not_verified", "not_applicable", "outside"}}

\* Levels 1, 2 (under the cap 1), 3, 5 (under the cap 2), with and without
\* evidence; a note without a score; a target alone.
MCTierRows ==
  LET Row(i, o, e, w, t) == [implementation |-> i, others |-> o, evidence |-> e,
                             written |-> w, target |-> t]
  IN {Seed, Row(0, 0, "neither", TRUE, 3), Row(2, 1, "neither", TRUE, 2),
      Row(0, 0, "neither", FALSE, 3), Row(2, 2, "on_file", TRUE, 3),
      Row(1, 5, "on_file", FALSE, 0), Row(2, 8, "neither", FALSE, 0),
      Row(2, 8, "confirmed", TRUE, 5)}

\* The retired stage 0, a DoD Advanced from before a capability's own maximum was
\* enforced, and a number on no ladder.
MCStored == {0, 3, 5}

MCVendor   == {"v1", "none"}
MCCategory == {"c1", "none"}
MCCost     == {2, 5}
=============================================================================
