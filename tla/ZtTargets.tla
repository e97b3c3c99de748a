----------------------------- MODULE ZtTargets -----------------------------
(***************************************************************************)
(* The stage a Zero Trust capability counts at, the target applied to it,  *)
(* and the gaps (src/apps/api/app/zt/scoring.py), beside the findings the  *)
(* Risk Register draws from the same answers (routes/risk.py).             *)
(*                                                                         *)
(* An assessment is a record: its framework, the engagement's target, and  *)
(* for each capability its answer: the set of at most one stage and of at  *)
(* most one target, empty for null. No constraint of the database bounds   *)
(* a stored number: a row older than the guards of the routes may hold the *)
(* retired DoD stage 0, or a target that is not of the ladder.             *)
(***************************************************************************)
EXTENDS Naturals, FiniteSetsExt

CONSTANT Capab  \* the capabilities of the assessment

Framework == {"cisa", "dod"}

\* level_count.
Levels(fw) == IF fw = "dod" THEN 3 ELSE 4

\* What the catalogue lists: activities of every level, none of the level
\* Advanced, or none of the level Target. CISA's rows list no activities.
Shape == {"full", "no_advanced", "no_target"}

\* capability_max_stage.
MaxStage(z, c) == IF z.answers[c].shape = "no_advanced" THEN 2 ELSE Levels(z.framework)

\* The number a column holds, if it is not null.
Held(column) == CHOOSE n \in column : TRUE

OnLadder(z, column) == column # {} /\ Held(column) \in 1..Levels(z.framework)

\* _validated: anything outside the ladder is unscored, here 0.
Valid(z, c) == IF OnLadder(z, z.answers[c].stage) THEN Held(z.answers[c].stage) ELSE 0

\* _capped, what compute counts.
Counted(z, c) == Min({Valid(z, c), MaxStage(z, c)})

\* resolve_target_stage, of a whole number: 0 is no choice. A choice outside the
\* ladder, or below stage 2, is not used.
Resolved(fw, chosen) == IF chosen \in 2..Levels(fw) THEN chosen ELSE 3

\* The target asked of a capability: its own if usable, else the engagement's.
Asked(z, c) == IF OnLadder(z, z.answers[c].own) THEN Held(z.answers[c].own)
               ELSE Resolved(z.framework, z.chosen)

\* discarded_capability_targets: a target was stored, and cannot be used.
Unusable(z) == {c \in Capab : /\ z.answers[c].own # {}
                              /\ ~OnLadder(z, z.answers[c].own)}

\* effective_target_stages.
Target(z, c) == Min({Asked(z, c), MaxStage(z, c)})

\* analyze_gaps: the codes, and the two disclosures of target_cap_codes.
Gaps(z) == {c \in Capab : Valid(z, c) # 0 /\ Valid(z, c) < Target(z, c)}

CappedTargets(z) == {c \in Capab : Asked(z, c) > MaxStage(z, c)}

NoTargetLevel(z) ==
  {c \in Capab : /\ Asked(z, c) <= MaxStage(z, c) /\ Asked(z, c) = 2
                 /\ z.answers[c].shape = "no_target"}

\* stages_above_capability_max.
AboveMax(z) == {c \in Capab : Valid(z, c) > MaxStage(z, c)}

\* compute, the answered capabilities and the sum of their stages: over them
\* the average, and from it maturity_pct.
Answered(z) == {c \in Capab : Valid(z, c) # 0}

StageSum(z) == SumFunctionOnSet([c \in Capab |-> Counted(z, c)], Answered(z))

\* The same roll-up of the targets, which zt_dashboard shows beside it.
TargetSum(z) == SumFunctionOnSet([c \in Capab |-> Target(z, c)], Answered(z))

\* _gather_findings applies the stored target as it is, whatever its range.
RegisterAsked(z, c) == IF z.answers[c].own # {} THEN Held(z.answers[c].own)
                       ELSE Resolved(z.framework, z.chosen)

\* Mutation of RegisterTarget: the register does not cap the target.
UncappedTarget(z, c) == RegisterAsked(z, c)

RegisterTarget(z, c) == Min({RegisterAsked(z, c), MaxStage(z, c)})

\* The codes it discloses as lowered, and those of its Zero Trust findings,
\* which take the stored stage as it is too.
Lowered(z) == {c \in Capab : RegisterTarget(z, c) < RegisterAsked(z, c)}

Findings(z) == {c \in Capab : /\ z.answers[c].stage # {}
                              /\ Held(z.answers[c].stage) < RegisterTarget(z, c)}

=============================================================================
