-------------------------- MODULE ComputedStatus ---------------------------
(***************************************************************************)
(* The status of an ATT&CK technique computed from the tools listed for    *)
(* Detect, Prevent and Respond (src/apps/api/app/attack/computed.py), of a *)
(* parent computed from its sub-techniques (attack/parents.py), and the    *)
(* coverage figure over them (attack/analytics.py), today and after the    *)
(* planned retirements (attack/retirement.py, attack/after.py).            *)
(***************************************************************************)
EXTENDS Naturals, FiniteSets

CONSTANTS
  Technique,  \* techniques without sub-techniques, children of one parent
  Tool,       \* tool names
  Judged      \* the capabilities each technique is judged on

Cap == {"detect", "prevent", "respond"}

Assessed == {"covered", "partial", "gap"}

SetAside == {"not_applicable", "outside"}

\* "none" is unscored, "not_verified" UNABLE_TO_DETERMINE.
CoverageStatus == Assessed \cup SetAside \cup {"none", "not_verified"}

\* build_index, of one name: whether the entries of the latest approved lists
\* that name it are retiring, "gone" for one whose item is gone. Entries that
\* disagree, and no entry, say nothing.
Verdict(votes) == CASE votes = {"retiring"} -> "planned"
                    [] votes = {"staying"}  -> "stays"
                    [] OTHER                -> "unknown"

\* Today's figure does not ask the plan.
Today == [t \in Tool |-> "stays"]

\* What a plan may say of each name.
Plans == [Tool -> {Verdict(votes) : votes \in SUBSET {"retiring", "staying", "gone"}}]

\* flagged: names whose citation was inferred and waits for a review; every
\* name, where the citations were never resolved.
ToolState(t, flagged, plan) ==
  IF plan[t] = "planned" THEN "not_in_place"
  ELSE IF t \in flagged \/ plan[t] = "unknown" THEN "awaiting_review"
  ELSE "in_place"

Capability(names, flagged, plan) ==
  LET states == {ToolState(t, flagged, plan) : t \in names}
  IN IF "in_place" \in states THEN "in_place"
     ELSE IF states \subseteq {"not_in_place"} THEN "not_in_place"
     ELSE "awaiting_review"

Capabilities(row, plan) ==
  [c \in Cap |-> Capability(row.lists[c], row.flagged, plan)]

\* Mutation of StatusFrom: what waits for a review is withheld, not scored low.
WithheldStatus(l, caps) ==
  IF \E c \in Judged[l] : caps[c] = "awaiting_review" THEN "none"
  ELSE IF \A c \in Judged[l] : caps[c] = "in_place" THEN "covered"
  ELSE IF \A c \in Judged[l] : caps[c] # "in_place" THEN "gap"
  ELSE "partial"

\* "Awaiting review" is scored at the lower bound, as not in place.
StatusFrom(l, caps) ==
  IF \A c \in Judged[l] : caps[c] = "in_place" THEN "covered"
  ELSE IF \A c \in Judged[l] : caps[c] # "in_place" THEN "gap"
  ELSE "partial"

\* effective_coverage, of a technique without sub-techniques: only what
\* somebody assessed is computed.
LeafStatus(l, row, plan) ==
  IF row.said \in Assessed THEN StatusFrom(l, Capabilities(row, plan))
  ELSE row.said

\* computed_parent_status, of the children's statuses.
ParentStatus(S) ==
  LET assessed == S \ SetAside
  IN IF "none" \in S THEN "none"
     ELSE IF "not_verified" \in S THEN "not_verified"
     ELSE IF assessed = {} THEN
       IF "outside" \in S THEN "outside" ELSE "not_applicable"
     ELSE IF Cardinality(assessed) = 1 THEN CHOOSE s \in assessed : TRUE
     ELSE "partial"

\* is_pending_review: a claim of support that every listed tool leaves
\* unconfirmed, and evidence was offered for it.
Pending(status, row) ==
  /\ status \in {"covered", "partial"}
  /\ row.flagged # {}
  /\ UNION {row.lists[c] : c \in Cap} \subseteq row.flagged

\* compute: covered counts whole, partial half, of the assessed entries, but
\* for the claims pending_codes withholds. Twice the numerator; the denominator.
Figure(rows, plan) ==
  LET leaf == [l \in Technique |-> LeafStatus(l, rows[l], plan)]
      pending == {l \in Technique : Pending(leaf[l], rows[l])}
      parent == ParentStatus({leaf[l] : l \in Technique})
      held == parent \in {"covered", "partial"} /\ pending # {}
      Count(s) == Cardinality({l \in Technique \ pending : leaf[l] = s})
                    + (IF parent = s /\ ~held THEN 1 ELSE 0)
  IN [weight  |-> 2 * Count("covered") + Count("partial"),
      counted |-> Count("covered") + Count("partial") + Count("gap")]

\* One coverage_pct is at most another.
AtMost(f, g) == f.weight * g.counted <= g.weight * f.counted

=============================================================================
