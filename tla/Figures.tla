------------------------------ MODULE Figures ------------------------------
(***************************************************************************)
(* The figures each kind of report states, while the rows they are         *)
(* computed from are edited: ATT&CK coverage (ComputedStatus), the CSF     *)
(* Enterprise level (CsfRollup), Zero Trust gaps (ZtTargets), capability   *)
(* lists (LicenseCount).  A service is of one kind, and only its rows      *)
(* change.  The figures are pure functions of the rows: a step is the      *)
(* commit of one edit, and no other state is kept.                         *)
(***************************************************************************)
EXTENDS ComputedStatus, CsfRollup, ZtTargets, LicenseCount

CONSTANTS
  Kinds,        \* the kinds of service considered
  TechniqueRow, \* rows a technique may have: said, lists, flagged
  TierRows,     \* rows a tier may have
  Stored,       \* the numbers a stage or a target of an old row may hold
  Vendor, Category, Cost,
  MaxItems      \* bound on the rows of a capability list

AllKinds == {"attack", "csf", "zt", "tech_debt"}

ASSUME FiguresAssumption ==
  /\ Kinds \subseteq AllKinds
  /\ IsFiniteSet(Technique) /\ IsFiniteSet(Capab)
  /\ Judged \in [Technique -> {Cap, Cap \ {"prevent"}}]
  /\ TechniqueRow \subseteq [said : CoverageStatus, lists : [Cap -> SUBSET Tool],
                             flagged : SUBSET Tool]
  /\ TierRows \subseteq TierRow /\ Seed \in TierRows
  /\ Stored \subseteq Nat
  /\ Cost \subseteq Nat /\ MaxItems \in Nat \ {0}

VARIABLES
  about,       \* the kind of the service
  techniques,  \* attack_coverage
  subcategory, \* csf_dimension_scores of one subcategory, and its csf_answers row
  answers,     \* a Zero Trust assessment and its zt_answers
  items        \* capability_items

figureVars == <<about, techniques, subcategory, answers, items>>

Item == 1..MaxItems

CostSet == {{}} \cup {{c} : c \in Cost}

Blank == [said |-> "none", lists |-> [c \in Cap |-> {}], flagged |-> {}]

\* A column that is null, or holds one of the numbers N.
Column(N) == {{}} \cup {{n} : n \in N}

NewItem(i, vendor, category, cost) ==
  [license |-> i, vendor |-> vendor, category |-> category, cost |-> cost,
   cut |-> FALSE]

Answer(fw) == [shape : IF fw = "dod" THEN Shape ELSE {"full"},
               stage : Column(Stored \cup 1..Levels(fw)),
               own : Column(Stored \cup 1..Levels(fw))]

FiguresTypeOK ==
  /\ about \in Kinds
  /\ techniques \in [Technique -> TechniqueRow \cup {Blank}]
  /\ subcategory \in [tiers : UNION {[T -> TierRows] : T \in SUBSET CsfTier},
                      rules : Rules, core : BOOLEAN, supporting : BOOLEAN,
                      notes : BOOLEAN, rated : BOOLEAN]
  /\ \E fw \in Framework :
       answers \in [framework : {fw}, chosen : 0..4, answers : [Capab -> Answer(fw)]]
  /\ \E n \in Item :
       items \in [1..n -> [license : 1..n, vendor : Vendor, category : Category,
                           cost : CostSet, cut : BOOLEAN]]

\* An assessment is created with every row unscored, its tiers seeded as far as
\* the client has such systems; a list has its first row. The rows of an old Zero
\* Trust assessment hold what was stored before the routes had their guards.
FigureInit ==
  /\ about \in Kinds
  /\ techniques = [l \in Technique |-> Blank]
  /\ \E T \in (IF about = "csf" THEN (SUBSET CsfTier) \ {{}} ELSE {{"high"}}),
        rules \in (IF about = "csf" THEN Rules ELSE {"uncapped"}),
        core, supporting \in (IF about = "csf" THEN BOOLEAN ELSE {FALSE}) :
       subcategory = [tiers |-> [t \in T |-> Seed], rules |-> rules, core |-> core,
                      supporting |-> supporting, notes |-> FALSE, rated |-> FALSE]
  /\ \E fw \in (IF about = "zt" THEN Framework ELSE {"cisa"}),
        chosen \in (IF about = "zt" THEN 0..4 ELSE {0}) :
     \E rows \in [Capab -> [shape : IF fw = "dod" THEN Shape ELSE {"full"},
                            stage : Column(IF about = "zt" THEN Stored ELSE {}),
                            own : Column(IF about = "zt" THEN Stored ELSE {})]] :
       answers = [framework |-> fw, chosen |-> chosen, answers |-> rows]
  /\ \E vendor \in Vendor, category \in Category, cost \in CostSet :
       /\ about = "tech_debt" \/ <<vendor, category, cost>> = <<"none", "none", {}>>
       /\ items = [i \in {1} |-> NewItem(i, vendor, category, cost)]

---------------------------------------------------------------------------

\* patch_coverage, confirm_coverage_citations, or the apply of a Run-AI.
EditTechnique(l) ==
  /\ about = "attack"
  /\ \E row \in TechniqueRow : techniques' = [techniques EXCEPT ![l] = row]
  /\ UNCHANGED <<about, subcategory, answers, items>>

\* patch_dimension_score; a row moved out of scope is none that rolls up.
EditTier(t) ==
  /\ about = "csf" /\ t \in DOMAIN subcategory.tiers
  /\ \E row \in TierRows : subcategory' = [subcategory EXCEPT !.tiers[t] = row]
  /\ UNCHANGED <<about, techniques, answers, items>>

\* patch_answer of the subcategory: the client's rating, and notes.
EditAnswer ==
  /\ about = "csf"
  /\ \E notes, rated \in BOOLEAN :
       subcategory' = [subcategory EXCEPT !.notes = notes, !.rated = rated]
  /\ UNCHANGED <<about, techniques, answers, items>>

\* patch_answer of a capability: a column it does not name keeps what it holds;
\* a stage is within what the capability defines (#839), a target on the ladder.
EditCapability(c) ==
  /\ about = "zt"
  /\ \E stage \in Column(1..MaxStage(answers, c)) \cup {answers.answers[c].stage},
        own \in Column(1..Levels(answers.framework)) \cup {answers.answers[c].own} :
       answers' = [answers EXCEPT !.answers[c].stage = stage, !.answers[c].own = own]
  /\ UNCHANGED <<about, techniques, subcategory, items>>

NextItem == Cardinality(DOMAIN items) + 1

Added(row) ==
  /\ NextItem <= MaxItems
  /\ items' = [i \in 1..NextItem |-> IF i = NextItem THEN row ELSE items[i]]
  /\ UNCHANGED <<about, techniques, subcategory, answers>>

\* include_excluded_row, or an extraction.
AddItem ==
  /\ about = "tech_debt"
  /\ \E vendor \in Vendor, category \in Category, cost \in CostSet :
       Added(NewItem(NextItem, vendor, category, cost))

\* add_capability_components: a part of a row that is not a part itself. It
\* inherits the vendor, has a category of its own, and carries no cost.
Split(i) ==
  /\ about = "tech_debt" /\ ~IsPart(items, i)
  /\ \E category \in Category :
       Added([license |-> i, vendor |-> items[i].vendor, category |-> category,
              cost |-> {}, cut |-> FALSE])

\* patch_capability_item, which refuses a cost on a part.
EditItem(i) ==
  /\ about = "tech_debt"
  /\ \E vendor \in Vendor, category \in Category, cut \in BOOLEAN,
        cost \in IF IsPart(items, i) THEN {{}} ELSE CostSet :
       items' = [items EXCEPT ![i] = [@ EXCEPT !.vendor = vendor, !.cut = cut,
                                              !.category = category, !.cost = cost]]
  /\ UNCHANGED <<about, techniques, subcategory, answers>>

FigureNext == \/ \E l \in Technique : EditTechnique(l)
              \/ \E t \in CsfTier : EditTier(t)
              \/ EditAnswer
              \/ \E c \in Capab : EditCapability(c)
              \/ AddItem
              \/ \E i \in DOMAIN items : Split(i) \/ EditItem(i)

FigureSpec == FigureInit /\ [][FigureNext]_figureVars

---------------------------------------------------------------------------
(* Properties.                                                             *)

TodayFigure(rows) == Figure(rows, Today)

\* Today's ATT&CK percentage is a lower bound while citations wait for a
\* review: confirming any of them never lowers it. And the figure after planned
\* changes is never above today's, whatever the plan.
CoverageIsBound ==
  /\ \A l \in Technique, confirmed \in SUBSET Tool :
       AtMost(TodayFigure(techniques),
              TodayFigure([techniques EXCEPT ![l].flagged = @ \ confirmed]))
  /\ \A plan \in Plans : AtMost(Figure(techniques, plan), TodayFigure(techniques))

\* The Enterprise level is that of the weakest tier that rolls up, but for the
\* one documented exception. A gap is measured only against what was assessed.
\* Every subcategory is in exactly one of the counts that add up to the total.
EnterpriseIsFloor ==
  LET s == subcategory
      e == Enterprise(s.tiers, s.rules, s.core, s.supporting)
      rolled == RolledTiers(s.tiers, s.rules)
      Level(t) == TierLevel(s.tiers[t], EvidenceCapApplies(s.rules))
      exception == /\ s.supporting /\ ~s.core /\ "low" \in rolled
                   /\ rolled # {"low"}
                   /\ \A t \in rolled \ {"low"} : Level(t) > Level("low")
  IN /\ rolled # {} => \E t \in rolled : e.level = Level(t)
     /\ \A t \in rolled : IF exception THEN e.level >= Level(t)
                                        ELSE e.level <= Level(t)
     /\ e.gap => \E t \in rolled : s.tiers[t].target > e.level
     /\ Cardinality(CountedAs(e, s.notes, s.rated)) = 1
     /\ Notional(e) => EvidenceClass(e) \in {"neither", "mixed"}

\* The Risk Register reads the stored columns by a rule of its own. Where the
\* stored target can be used, it measures against the target of the assessment's
\* own gaps, discloses the same lowered ones, and finds those gaps and the rows at
\* the retired stage 0, no other. Where it cannot be used, the register discloses
\* a lowered target unless it is 0, the one target under which it misses a gap.
\* Where there is no gap, no percentage is behind its target, and a stage above
\* its capability's maximum is never a gap.
RegisterFindsTheGaps ==
  LET z == answers
      usable == Capab \ Unusable(z)
      retired == {c \in Capab : z.answers[c].stage = {0}}
  IN /\ \A c \in usable : RegisterTarget(z, c) = Target(z, c)
     /\ Lowered(z) \cap usable = CappedTargets(z) \cap usable
     /\ Findings(z) \cap usable = (Gaps(z) \cup retired) \cap usable
     /\ Lowered(z) \cap Unusable(z) = {c \in Unusable(z) : z.answers[c].own # {0}}
     /\ Gaps(z) \ Findings(z) \subseteq {c \in Capab : z.answers[c].own = {0}}
     /\ Gaps(z) = {c \in Answered(z) : Counted(z, c) < Target(z, c)}
     /\ CappedTargets(z) \cap NoTargetLevel(z) = {}
     /\ Gaps(z) \cap AboveMax(z) = {}
     /\ Gaps(z) = {} => StageSum(z) >= TargetSum(z)

\* A split counts nothing twice: it adds a capability, and no tool a vendor is
\* listed for, no spend, no missing cost and no saving. Savings never exceed
\* what is spent.
SplitCountsOnce ==
  [][ \A j \in DOMAIN items' \ DOMAIN items : IsPart(items', j) =>
        /\ Stated(items') = Stated(items)
        /\ Savings(items').amount <= Spend(items', DOMAIN items') ]_figureVars

=============================================================================
