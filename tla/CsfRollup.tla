----------------------------- MODULE CsfRollup -----------------------------
(***************************************************************************)
(* The Enterprise level of a CSF subcategory, from the Playbook's scores   *)
(* of its HIGH, MODERATE and LOW systems (src/apps/api/app/csf/playbook.py *)
(* and csf/enterprise.py), under the three rule sets an assessment may     *)
(* have been approved under (csf/rules.py).                                *)
(*                                                                         *)
(* A subcategory's rows are a function from the tiers in scope.  Of a row  *)
(* the five dimensions are two numbers: Implementation, which the frozen   *)
(* evidence cap reads, and the sum of the other four.                      *)
(***************************************************************************)
EXTENDS Naturals, FiniteSetsExt

CsfTier == {"high", "moderate", "low"}

EvidenceStatus == {"on_file", "confirmed", "neither"}

\* written: a source, a rationale, findings or an artifact. target: 0 is none.
TierRow == [implementation : 0..2, others : 0..8, evidence : EvidenceStatus,
            written : BOOLEAN, target : 0..5]

\* The row as it is seeded.
Seed == [implementation |-> 0, others |-> 0, evidence |-> "neither",
         written |-> FALSE, target |-> 0]

\* has_recorded_value_besides_target.
IsScored(row) == [row EXCEPT !.target = 0] # Seed

MaturityLevel(total) == 1 + Cardinality({b \in {3, 6, 8, 10} : total >= b})

\* score_tier. Under the frozen cap a row without evidence on file has
\* Implementation at most 1 and a level of at most 2.
TierLevel(row, cap) ==
  LET capped == cap /\ row.evidence # "on_file"
      implementation == IF capped THEN Min({1, row.implementation})
                                  ELSE row.implementation
      level == MaturityLevel(implementation + row.others)
  IN IF capped THEN Min({2, level}) ELSE level

\* Mutation of Rollup: the exception is asked before the strict floor.
ExceptionFirst(levels, core, supporting) ==
  LET lo == Min({levels[t] : t \in DOMAIN levels})
      others == {levels[t] : t \in DOMAIN levels \ {"low"}}
  IN IF supporting /\ others # {} /\ lo \notin others
     THEN [score |-> Max(others), rule |-> 5] ELSE [score |-> lo, rule |-> 6]

\* weighted_floor_rollup: six rules, the first that matches.
Rollup(levels, core, supporting) ==
  LET all == {levels[t] : t \in DOMAIN levels}
      lo == Min(all)
      others == {levels[t] : t \in DOMAIN levels \ {"low"}}
      AtFloor(t) == t \in DOMAIN levels /\ levels[t] = lo
  IN IF all = {lo} THEN [score |-> lo, rule |-> 1]
     ELSE IF core THEN [score |-> lo, rule |-> 2]
     ELSE IF AtFloor("high") THEN [score |-> levels["high"], rule |-> 3]
     ELSE IF AtFloor("moderate") THEN [score |-> levels["moderate"], rule |-> 4]
     ELSE IF supporting THEN [score |-> Max(others), rule |-> 5]
     ELSE [score |-> lo, rule |-> 6]

\* Approved before #1031, under it, and (or not yet approved) after Options 1, 3.
Rules == {"every_tier", "scored_tiers", "uncapped"}

EvidenceCapApplies(rules) == rules \in {"every_tier", "scored_tiers"}

ScoredTiers(tiers) == {t \in DOMAIN tiers : IsScored(tiers[t])}

\* The tiers that roll up. Nothing does, and there is no level, where nothing
\* is scored under the current rules.
RolledTiers(tiers, rules) ==
  LET scored == ScoredTiers(tiers)
  IN CASE rules = "every_tier"                   -> DOMAIN tiers
       [] rules = "scored_tiers" /\ scored = {}  -> DOMAIN tiers
       [] OTHER                                  -> scored

\* enterprise_subcategories, of one subcategory. Level 0, rule 0: none.
Enterprise(tiers, rules, core, supporting) ==
  LET rolled == RolledTiers(tiers, rules)
      levels == [t \in rolled |-> TierLevel(tiers[t], EvidenceCapApplies(rules))]
      result == IF rolled = {} THEN [score |-> 0, rule |-> 0]
                ELSE Rollup(levels, core, supporting)
      target == Max({0} \cup {tiers[t].target : t \in rolled})
  IN [level |-> result.score, rule |-> result.rule,
      scored |-> ScoredTiers(tiers) # {}, target |-> target,
      gap |-> target # 0 /\ result.score < target,
      target_not_measured |->
        target = 0 /\ \E t \in DOMAIN tiers \ rolled : tiers[t].target # 0,
      evidence |-> {tiers[t].evidence : t \in rolled}]

\* _evidence_class of a scored subcategory.
EvidenceClass(e) ==
  IF e.evidence = {"neither"} THEN "neither"
  ELSE IF "neither" \in e.evidence THEN "mixed"
  ELSE IF "confirmed" \in e.evidence THEN "confirmed" ELSE "on_file"

\* coverage: the counts a subcategory falls in, each by its own predicate.
CountedAs(e, notes, rated) ==
  {c \in {"scored", "notes_not_scored", "self_reported", "not_answered"} :
     CASE c = "scored"           -> e.scored
       [] c = "notes_not_scored" -> ~e.scored /\ notes
       [] c = "self_reported"    -> ~e.scored /\ ~notes /\ rated
       [] c = "not_answered"     -> ~e.scored /\ ~notes /\ ~rated}

\* _notional: Managed or better, resting in part on a tier nobody validated.
Notional(e) == e.level >= 4 /\ "neither" \in e.evidence

=============================================================================
