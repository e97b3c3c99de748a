--------------------------- MODULE ScenarioDelta ---------------------------
(***************************************************************************)
(* What an ATT&CK what-if makes of the coverage rows it is pinned to       *)
(* (src/apps/api/app/attack/scenario.py): the tools it removes in every    *)
(* spelling, the techniques that affects, which of the AI's rows are       *)
(* credited, the lists after the change, and the techniques that score     *)
(* higher.  Statuses are those of ComputedStatus, for techniques without   *)
(* sub-techniques.                                                         *)
(***************************************************************************)
EXTENDS ComputedStatus

CONSTANTS
  Form,   \* what the model can cite: the tools' names and redacted forms
  Shown   \* the form each tool's name has once redacted

\* The strings a model can cite for a tool: as stored, and as shown.
Citable(t) == {t, Shown[t]}

\* Removed.covers: a name is a spelling of a removed tool if either is stored
\* as the other is stored or shown. Shown alike is not enough.
Covers(removed, t) ==
  \E r \in removed : t = r \/ t = Shown[r] \/ Shown[t] = r

\* Removed.shares_shown_form: kept, and not to be told from a removed tool.
SharesShownForm(removed, t) ==
  ~Covers(removed, t) /\ \E r \in removed : Shown[t] = Shown[r]

Without(names, removed) == {t \in names : ~Covers(removed, t)}

Cited(rows) == UNION {rows[l].lists[c] : l \in Technique, c \in Cap}

\* A change list: the tools removed, and for each added tool its functions.
NewTools(change) == DOMAIN change.added

\* validate_added, and _collision_in: an added name whose stored or shown form
\* names another tool, the client's or an added one.
Collides(change, client) ==
  \E a \in NewTools(change), b \in client \cup NewTools(change) :
    (a # b \/ a \in client) /\ Citable(a) \cap Citable(b) # {}

\* The functions a removed tool was listed for.
Lost(row, change) ==
  {c \in Cap : \E t \in row.lists[c] : Covers(change.removed, t)}

\* open_functions: what an added tool declares and is not in place without the
\* removed ones, where the technique is assessed and judged on it.
Open(l, row, change) ==
  {c \in UNION {change.added[a] : a \in NewTools(change)} :
     /\ row.said \in Assessed /\ c \in Judged[l]
     /\ Capability(Without(row.lists[c], change.removed), row.flagged, Today)
          # "in_place"}

Affected(rows, change) ==
  {l \in Technique : Lost(rows[l], change) \cup Open(l, rows[l], change) # {}}

\* CitationResolver.resolve, as far as it confirms: the real name, or the one
\* tool shown so. An inference is never credited.
Resolve(names, form) ==
  LET alias == {t \in names : Shown[t] = form}
  IN IF form \in names THEN {form}
     ELSE IF Cardinality(alias) = 1 THEN alias ELSE {}

\* Mutation of ToldApart: a shown form two tools share is credited.
AnyResolved(change, t) == TRUE

\* `indistinct`: of a tool shown as a removed one is, no credit can be known.
ToldApart(change, t) ==
  t \in NewTools(change) \/ ~SharesShownForm(change.removed, t)

\* parse_delta's judgement of one row of an answer, for one of the tools left.
Creditable(claim, t, rows, change, offered) ==
  LET lost == Lost(rows[claim.on], change)
      open == Open(claim.on, rows[claim.on], change)
  IN /\ lost \cup open # {}
     /\ t \in Resolve(Without(offered, change.removed) \cup NewTools(change),
                      claim.cites)
     /\ ToldApart(change, t)
     /\ claim.caps \subseteq lost \cup open
     /\ IF t \in NewTools(change) THEN claim.caps \subseteq change.added[t]
                                  ELSE claim.caps \subseteq lost

Credits(claims, rows, change, offered) ==
  {[on |-> p[1].on, cites |-> p[1].cites, caps |-> p[1].caps, tool |-> p[2]] :
     p \in {p \in claims \X Tool : Creditable(p[1], p[2], rows, change, offered)}}

\* merge_batches: the frozen list without the removed tools, and what an answer
\* adds. A technique no batch re-assessed has no credits.
AfterLists(l, c, rows, change, credits) ==
  Without(rows[l].lists[c], change.removed)
    \cup {k.tool : k \in {k \in credits : k.on = l /\ c \in k.caps}}

\* scenario_rows: the lists of the affected techniques are replaced; a tool
\* that awaits a review in the assessment awaits it here.
After(rows, change, credits) ==
  LET affected == Affected(rows, change)
  IN [l \in Technique |->
     IF l \notin affected THEN rows[l]
     ELSE [rows[l] EXCEPT !.lists =
             [c \in Cap |-> AfterLists(l, c, rows, change, credits)]]]

StatusOf(rows, l) == LeafStatus(l, rows[l], Today)

Rank(status) == CASE status = "covered" -> 3 [] status = "partial" -> 2
                  [] status = "gap" -> 1     [] OTHER -> 0

ScoredHigher(rows, after, change) ==
  {l \in Affected(rows, change) :
     /\ Rank(StatusOf(rows, l)) > 0
     /\ Rank(StatusOf(after, l)) > Rank(StatusOf(rows, l))}

\* The rows after the change, had the added tools been credited with nothing.
Alone(rows, change, after) ==
  LET affected == Affected(rows, change)
  IN [l \in Technique |->
     IF l \notin affected THEN rows[l]
     ELSE [after[l] EXCEPT !.lists =
             [c \in Cap |-> @[c] \ NewTools(change)]]]

\* split_higher, by cause: the rises the remaining tools still produce, which
\* are shown as a warning, and those an added tool raises further.
Warned(rows, change, after) ==
  ScoredHigher(rows, after, change)
    \cap ScoredHigher(rows, Alone(rows, change, after), change)

Reached(rows, change, after) ==
  {l \in ScoredHigher(rows, after, change) :
     Rank(StatusOf(after, l)) > Rank(StatusOf(Alone(rows, change, after), l))}
=============================================================================
