------------------------- MODULE MCAttackScenarios -------------------------
(* TLC instances of AttackScenarios; requests and what-ifs are interchangeable. *)
EXTENDS AttackScenarios, TLC

CONSTANTS tech1, tech2, s1, s2, q1, q2, soc, clientSoc, edr, unit1, unit2, own,
          address

\* A client's SOC platform and its redacted twin, an EDR, two tools the
\* redactor shows alike, and one the client does not have.
MCTool  == {soc, clientSoc, edr, unit1, unit2, own}
MCForm  == MCTool \cup {address}
MCShown == [t \in MCTool |-> CASE t = soc -> clientSoc
                               [] t \in {unit1, unit2} -> address
                               [] OTHER -> t]

MCTechnique == {tech1, tech2}
MCScenario  == {s1, s2}
MCRequest   == {q1, q2}

\* The second technique has no Prevent mitigation.
MCJudged == (tech1 :> Cap @@ tech2 :> Cap \ {"prevent"})

MCRow(flagged, d, p, r) ==
  [said |-> "partial", flagged |-> flagged,
   lists |-> [c \in Cap |-> CASE c = "detect"  -> d
                              [] c = "prevent" -> p
                              [] c = "respond" -> r]]

\* The first assessment; and a later one that cites less.
MCBaseRows ==
  << (tech1 :> MCRow({}, {soc, clientSoc, edr}, {unit1}, {})
        @@ tech2 :> MCRow({soc}, {soc}, {}, {unit1, unit2})),
     (tech1 :> MCRow({edr}, {edr}, {}, {}) @@ tech2 :> MCRow({}, {}, {}, {unit2})) >>

MCChanges ==
  {[removed |-> {soc, unit1}, added |-> own :> {"prevent", "respond"}]}

MCToolSets == {{soc, clientSoc, edr, unit1, unit2}, {edr, unit2, own}}

\* A row for one of the techniques, or none.
MCAnswers ==
  {{}} \cup {{[on |-> l, cites |-> x, caps |-> F]} :
             l \in MCTechnique, x \in MCForm, F \in {{"detect"}, {"prevent", "respond"}, Cap}}

Symmetry == Permutations(MCScenario) \cup Permutations(MCRequest)
=============================================================================
