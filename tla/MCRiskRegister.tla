--------------------------- MODULE MCRiskRegister --------------------------
(* TLC instances of RiskRegister; the requests are interchangeable. *)
EXTENDS RiskRegister, TLC

CONSTANTS q1, q2, s1, s2, csf, zt

MCTwo      == {q1, q2}
MCServices == {s1, s2}
MCKinds    == {csf, zt}
MCFingerprinted == {csf}
MCWorked   == {s1}

\* Three requests to the registers of two services, or two while the one service
\* engaged is worked on: a CSF one from its draft, a Zero Trust one from its release.
Among(kinds) ==
  [kind |-> kinds, first |-> [s \in MCServices |-> "released"], archived |-> {},
   requests |-> 3, work |-> 0]

While(k, status) ==
  [kind |-> [s \in MCServices |-> k], first |-> [s \in MCServices |-> status],
   archived |-> {s2}, requests |-> 2, work |-> 2]

MCSetting == {Among(f) : f \in {g \in [MCServices -> MCKinds] : g[s2] = zt}}
             \cup {While(csf, "draft"), While(zt, "released")}

\* One field given, both cleared.
MCBodies == {[fields |-> {"lk"}, value |-> TRUE],
             [fields |-> {"lk", "im"}, value |-> FALSE]}

RiskSymmetry == Permutations(MCTwo)
=============================================================================
