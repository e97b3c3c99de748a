---------------------------- MODULE CapabilityList --------------------------
(***************************************************************************)
(* The capability lists of one Tech Debt service and their deliverables:   *)
(* extraction, the edits of step 2, the approval of step 3, discard,       *)
(* finalize and release (src/apps/api/app/routes/tech_debt.py and          *)
(* deliverable_release.py).                                                *)
(*                                                                         *)
(* Sessions do not autoflush and the isolation is READ COMMITTED: what a   *)
(* request loaded stays as it was loaded, and its row changes land at its  *)
(* commit.  Every edit takes the lock of the list's row by its UPDATE of   *)
(* the revision, just before it commits.  A conditional UPDATE judges the  *)
(* rows of other tables at its start and, having waited for the list's     *)
(* row, the columns of that row as they are then.                          *)
(***************************************************************************)
EXTENDS Integers, Sequences, FiniteSets

CONSTANTS
  Request,      \* request threads
  Op,           \* the operations they may ask for
  Source,       \* rows of the uploaded inventory
  Part,         \* components a consultant may name inside a bundle
  MaxVersion,   \* bound on the versions of the list
  MaxRevision,  \* bound on the revision at which an edit may begin
  MaxDelivs     \* bound on the deliverables

\* Edits that carry what they loaded, edits judged under the list's lock.
RowEdits  == {"keep", "undecide", "include", "confirm", "sign", "override", "split"}
BulkEdits == {"keep_all", "keep_undecided", "sign_all"}
Edits     == RowEdits \cup BulkEdits
AllOps    == Edits \cup {"extract", "approve", "discard", "finalize", "release"}

ASSUME CapabilityAssumption ==
  /\ Op \subseteq AllOps
  /\ MaxVersion \in Nat /\ MaxRevision \in Nat /\ MaxDelivs \in Nat
  /\ Source \cap Part = {} /\ Source \cup Part # {}

VARIABLES
  lists,    \* capability_lists by version
  rows,     \* the rows of each list: capability_items and excluded_rows
  delivs,   \* deliverables, by age
  run,      \* the extraction in progress
  req       \* what each request has loaded, and what it is about to write

vars == <<lists, rows, delivs, run, req>>

Row == Source \cup Part

Version == 1..MaxVersion

Status == {"none", "draft", "approved", "released", "discarded"}

\* approved_revision is NULL until the list is approved.
NoRevision == -1

\* What the list says of one row: how many items stand for it, whether it is
\* among the excluded rows and confirmed there, and its item's decisions.
Line == [items : Nat, excluded : BOOLEAN, confirmed : BOOLEAN,
         decided : BOOLEAN, security : BOOLEAN, signed : BOOLEAN]

Absent == [items |-> 0, excluded |-> FALSE, confirmed |-> FALSE,
           decided |-> FALSE, security |-> TRUE, signed |-> FALSE]

NoRows == [r \in Row |-> Absent]

\* membership: the rows whose scope the approval recorded (approved_membership).
NoList == [status |-> "none", revision |-> 0, approvedAt |-> NoRevision,
           membership |-> NoRows]

\* stamp is the revision it says it was rendered from; whole, whether the rows
\* it shows were all decided, is stored nowhere.
Deliverable == [parent : Version, stamp : Nat, whole : BOOLEAN,
                released : BOOLEAN]

Idle == [op |-> "none", at |-> "idle", v |-> 0, row |-> "none",
         rev |-> 0, rows |-> NoRows, flag |-> FALSE]

Init ==
  /\ lists = [v \in Version |-> NoList]
  /\ rows = [v \in Version |-> NoRows]
  /\ delivs = <<>> /\ run = "idle"
  /\ req = [q \in Request |-> Idle]

---------------------------------------------------------------------------
(* What the routes read.                                                   *)

StatusIn(S) == {v \in Version : lists[v].status \in S}

Newest(S) == IF S = {} THEN 0 ELSE CHOOSE v \in S : \A w \in S : w <= v

\* _latest_list_or_none: discarded lists are not looked at.
Latest == Newest(StatusIn(Status \ {"none", "discarded"}))

\* _max_list_version: discarded lists count.
MaxTaken == Newest(StatusIn(Status \ {"none"}))

\* _editable_list_or_404: an approved list stays open to edits until release.
OpenToEdits(v) == lists[v].status \in {"draft", "approved"}

\* undecided_row_count = 0.
NoneUndecided(R) == \A r \in Row : R[r].items > 0 => R[r].decided

\* unconfirmed_exclusions is empty.
NoneUnconfirmed(R) == \A r \in Row : R[r].excluded => R[r].confirmed

Complete(R) == NoneUndecided(R) /\ NoneUnconfirmed(R)

ApprovalCurrent(v) == lists[v].approvedAt = lists[v].revision

Begin(q, op, at, v) ==
  /\ op \in Op /\ req[q] = Idle
  /\ req' = [req EXCEPT ![q] = [Idle EXCEPT !.op = op, !.at = at, !.v = v,
               !.rev = IF v = 0 THEN 0 ELSE lists[v].revision,
               !.rows = IF v = 0 THEN NoRows ELSE rows[v]]]

Finish(q) == req' = [req EXCEPT ![q] = Idle]

At(q, op, at) == req[q].op = op /\ req[q].at = at

ReadOnly == UNCHANGED <<lists, rows, delivs, run>>

---------------------------------------------------------------------------
(* Extraction: the one writer of a new list.                               *)

\* An open draft is answered as it is (extract_capability_list).
ExtractRead(q) ==
  /\ Latest \notin StatusIn({"draft"})
  /\ Begin(q, "extract", "start", 0)
  /\ ReadOnly

\* start_run: joined or refused while an extraction is running.
ExtractStart(q) ==
  /\ At(q, "extract", "start")
  /\ run' = IF run = "idle" THEN "started" ELSE run
  /\ Finish(q)
  /\ UNCHANGED <<lists, rows, delivs>>

\* The check _extract_run_work begins with.
ExtractCheck ==
  /\ run = "started"
  /\ run' = IF Latest \in StatusIn({"draft"}) THEN "idle" ELSE "called"
  /\ UNCHANGED <<lists, rows, delivs, req>>

\* What the model made of a row: a security tool, another tool, or nothing.
Item(security) == [Absent EXCEPT !.items = 1, !.security = security]
Excluded       == [Absent EXCEPT !.excluded = TRUE]

Extraction == {R \in [Row -> {Item(TRUE), Item(FALSE), Excluded, Absent}] :
                 \A r \in Row : R[r] = Absent <=> r \in Part}

\* The list, its rows and the run's completion are one commit; the one-draft
\* index refuses a second draft.
ExtractInsert ==
  /\ run = "called"
  /\ MaxTaken < MaxVersion
  /\ run' = "idle"
  /\ LET v == MaxTaken + 1
     IN IF StatusIn({"draft"}) # {} THEN UNCHANGED <<lists, rows>>
        ELSE /\ lists' = [lists EXCEPT ![v].status = "draft"]
             /\ \E R \in Extraction : rows' = [rows EXCEPT ![v] = R]
  /\ UNCHANGED <<delivs, req>>

\* The provider or the parser fails, or the run is reaped.
ExtractFails ==
  /\ run # "idle"
  /\ run' = "idle"
  /\ UNCHANGED <<lists, rows, delivs, req>>

---------------------------------------------------------------------------
(* The edits of step 2.                                                    *)

\* What each route asks of the row it loaded.
Accepts(op, line, r) ==
  CASE op \in {"keep", "undecide", "override"} -> line.items > 0
    [] op = "sign"                  -> line.items > 0 /\ ~line.security
    [] op \in {"include", "confirm"} -> line.excluded
    [] op = "split"                 -> line.items = 0 /\ r \in Part

EditRead(q, op, v, r) ==
  /\ OpenToEdits(v) /\ lists[v].revision < MaxRevision
  /\ Accepts(op, rows[v][r], r)
  /\ op \in Op /\ req[q] = Idle
  /\ req' = [req EXCEPT ![q] = [Idle EXCEPT !.op = op, !.at = "edit", !.v = v,
               !.row = r, !.rows = rows[v]]]
  /\ ReadOnly

BulkRead(q, op, v) ==
  /\ OpenToEdits(v) /\ lists[v].revision < MaxRevision
  /\ Begin(q, op, "edit", v)
  /\ ReadOnly

\* The ORM writes a column only when it differs from what was loaded.
Written(loaded, value, current) == IF loaded = value THEN current ELSE value

\* excluded_rows is one JSON column: the whole column is written, as it was
\* loaded but for one entry.
Column(now, loaded, r, entry) ==
  [s \in Row |->
    LET e == IF s = r THEN entry
             ELSE [excluded |-> loaded[s].excluded, confirmed |-> loaded[s].confirmed]
    IN [now[s] EXCEPT !.excluded = e.excluded, !.confirmed = e.confirmed]]

\* include_excluded_row: a new item, and the entry is dropped.
Include(now, loaded, r) ==
  LET column == Column(now, loaded, r, [excluded |-> FALSE, confirmed |-> FALSE])
  IN [column EXCEPT ![r].items = @ + 1, ![r].decided = FALSE, ![r].security = TRUE]

\* confirm_excluded_row; a confirmed entry confirmed again writes nothing.
Confirm(now, loaded, r) ==
  IF loaded[r].confirmed THEN now
  ELSE Column(now, loaded, r, [excluded |-> TRUE, confirmed |-> TRUE])

\* The rows a bulk edit selects, on the page it was made from.
Wanted(op, R) ==
  {r \in Row : /\ R[r].items > 0
               /\ op = "keep_undecided" => ~R[r].decided
               /\ op = "sign_all" => ~R[r].security /\ ~R[r].signed}

\* What the rows become when the edit commits.
Edited(op, r, now, loaded) ==
  CASE op = "keep" ->
         [now EXCEPT ![r].decided = Written(loaded[r].decided, TRUE, @)]
    [] op = "undecide" ->
         [now EXCEPT ![r].decided = Written(loaded[r].decided, FALSE, @)]
    [] op = "sign" ->
         [now EXCEPT ![r].signed = Written(loaded[r].signed, TRUE, @)]
    [] op = "override" ->
         [now EXCEPT ![r].security = Written(loaded[r].security, TRUE, @),
                     ![r].signed = Written(loaded[r].signed, FALSE, @)]
    [] op = "split"   -> [now EXCEPT ![r].items = 1]
    [] op = "include" -> Include(now, loaded, r)
    [] op = "confirm" -> Confirm(now, loaded, r)
    [] op = "keep_all" ->
         [s \in Row |-> IF s \notin Wanted(op, loaded) THEN now[s]
            ELSE [now[s] EXCEPT !.decided = Written(loaded[s].decided, TRUE, @)]]
    [] op = "keep_undecided" ->
         [s \in Row |-> [now[s] EXCEPT !.decided = @ \/ s \in Wanted(op, loaded)]]
    [] op = "sign_all" ->
         [s \in Row |-> [now[s] EXCEPT !.signed = @ \/ s \in Wanted(op, loaded)]]

\* All or nothing: judged under the list's lock, a selection of which a row has
\* been decided, signed off or overridden since is rolled back.
BulkRefused(op, now, loaded) ==
  /\ op \in {"keep_undecided", "sign_all"}
  /\ ~(Wanted(op, loaded) \subseteq Wanted(op, now))

\* _record_edit: the bump matches only a list still open to edits.
RecordEdit(v) == OpenToEdits(v) /\ lists' = [lists EXCEPT ![v].revision = @ + 1]

EditCommit(q) ==
  /\ req[q].at = "edit"
  /\ LET v == req[q].v
         op == req[q].op
     IN \/ /\ ~BulkRefused(op, rows[v], req[q].rows)
           /\ RecordEdit(v)
           /\ rows' = [rows EXCEPT ![v] = Edited(op, req[q].row, @, req[q].rows)]
        \/ /\ BulkRefused(op, rows[v], req[q].rows) \/ ~OpenToEdits(v)
           /\ UNCHANGED <<lists, rows>>
  /\ Finish(q)
  /\ UNCHANGED <<delivs, run>>

---------------------------------------------------------------------------
(* Approval and discard.                                                   *)

ApproveRead(q, v) ==
  /\ OpenToEdits(v)
  /\ Begin(q, "approve", "build", v)
  /\ ReadOnly

\* The exclusions as loaded with the revision; the rows as they are now, counted
\* and then built into approved_membership.
ApproveBuild(q) ==
  /\ At(q, "approve", "build")
  /\ req' = IF NoneUnconfirmed(req[q].rows) /\ NoneUndecided(rows[req[q].v])
            THEN [req EXCEPT ![q].at = "judge", ![q].rows = rows[req[q].v]]
            ELSE [req EXCEPT ![q] = Idle]
  /\ ReadOnly

\* The conditional UPDATE begins: its subquery sees the rows of this moment.
ApproveJudge(q) ==
  /\ At(q, "approve", "judge")
  /\ req' = [req EXCEPT ![q].at = "commit",
                        ![q].flag = NoneUndecided(rows[req[q].v])]
  /\ ReadOnly

\* Mutation of StillAsRead: the UPDATE asks nothing of the revision.
DecidedWhenJudged(q) == req[q].flag /\ OpenToEdits(req[q].v)

StillAsRead(q) == /\ req[q].flag /\ OpenToEdits(req[q].v)
                  /\ lists[req[q].v].revision = req[q].rev

ApproveCommit(q) ==
  /\ At(q, "approve", "commit")
  /\ lists' = IF StillAsRead(q)
              THEN [lists EXCEPT ![req[q].v] =
                      [@ EXCEPT !.status = "approved", !.approvedAt = req[q].rev,
                                !.membership = req[q].rows]]
              ELSE lists
  /\ Finish(q)
  /\ UNCHANGED <<rows, delivs, run>>

DiscardRead(q, v) ==
  /\ lists[v].status = "draft"
  /\ Begin(q, "discard", "commit", v)
  /\ ReadOnly

Discardable(v) == lists[v].status = "draft"

DiscardCommit(q) ==
  /\ At(q, "discard", "commit")
  /\ lists' = IF Discardable(req[q].v)
              THEN [lists EXCEPT ![req[q].v].status = "discarded"] ELSE lists
  /\ Finish(q)
  /\ UNCHANGED <<rows, delivs, run>>

---------------------------------------------------------------------------
(* Deliverables.                                                           *)

\* flag: the list was RELEASED when it was loaded, and is not judged again.
FinalizeRead(q) ==
  /\ Latest \in StatusIn({"approved", "released"})
  /\ "finalize" \in Op /\ req[q] = Idle
  /\ req' = [req EXCEPT ![q] =
       [Idle EXCEPT !.op = "finalize", !.at = "load", !.v = Latest,
                    !.rev = lists[Latest].revision, !.rows = rows[Latest],
                    !.flag = lists[Latest].status = "released"]]
  /\ ReadOnly

\* Mutation of Renderable: the undecided rows are counted before they are
\* loaded, by a query of its own.
CountedBefore(q) ==
  \/ req[q].flag
  \/ NoneUndecided(req[q].rows) /\ NoneUnconfirmed(req[q].rows)

\* An approved list's rows are judged as loaded, its exclusions as read before.
Renderable(q) ==
  \/ req[q].flag
  \/ NoneUndecided(rows[req[q].v]) /\ NoneUnconfirmed(req[q].rows)

FinalizeLoad(q) ==
  /\ At(q, "finalize", "load")
  /\ req' = IF Renderable(q)
            THEN [req EXCEPT ![q].at = "commit", ![q].rows = rows[req[q].v]]
            ELSE [req EXCEPT ![q] = Idle]
  /\ ReadOnly

\* The revision is read again after the rows, unless the list was released.
FinalizeCommit(q) ==
  /\ At(q, "finalize", "commit")
  /\ Len(delivs) < MaxDelivs
  /\ LET v == req[q].v
     IN delivs' = IF req[q].flag \/ ApprovalCurrent(v)
          THEN Append(delivs, [parent |-> v,
                 stamp |-> IF req[q].flag THEN req[q].rev ELSE lists[v].revision,
                 whole |-> NoneUndecided(req[q].rows),
                 released |-> FALSE])
          ELSE delivs
  /\ Finish(q)
  /\ UNCHANGED <<lists, rows, run>>

\* release_tech_debt_deliverable up to the flip. Over a list already released
\* there is no flip: the stamp is compared here.
ReleaseRead(q, d) ==
  /\ d \in DOMAIN delivs /\ ~delivs[d].released
  /\ LET p == delivs[d].parent
         flips == lists[p].status = "approved"
     IN /\ IF flips THEN NoneUnconfirmed(rows[p])
                    ELSE lists[p].approvedAt = delivs[d].stamp
        /\ "release" \in Op /\ req[q] = Idle
        /\ req' = [req EXCEPT ![q] =
             [Idle EXCEPT !.op = "release", !.v = d,
                          !.at = IF flips THEN "judge" ELSE "hand_over"]]
  /\ ReadOnly

\* The flip's conditional UPDATE begins.
ReleaseJudge(q) ==
  /\ At(q, "release", "judge")
  /\ req' = [req EXCEPT ![q].at = "flip",
               ![q].flag = NoneUndecided(rows[delivs[req[q].v].parent])]
  /\ ReadOnly

\* _releasable_with: the columns of the list as they are when its row is locked.
Releasable(q, d) == /\ req[q].flag
                    /\ ApprovalCurrent(delivs[d].parent)
                    /\ lists[delivs[d].parent].approvedAt = delivs[d].stamp

\* A flip that misses a list still approved refuses; one that misses because
\* another release came first lets this release stand.
ReleaseFlip(q) ==
  /\ At(q, "release", "flip")
  /\ LET d == req[q].v
         p == delivs[d].parent
         flips == lists[p].status = "approved" /\ Releasable(q, d)
     IN /\ lists' = IF flips THEN [lists EXCEPT ![p].status = "released"] ELSE lists
        /\ delivs' = IF flips \/ lists[p].status = "released"
                     THEN [delivs EXCEPT ![d].released = TRUE] ELSE delivs
  /\ Finish(q)
  /\ UNCHANGED <<rows, run>>

ReleaseHandOver(q) ==
  /\ At(q, "release", "hand_over")
  /\ delivs' = [delivs EXCEPT ![req[q].v].released = TRUE]
  /\ Finish(q)
  /\ UNCHANGED <<lists, rows, run>>

---------------------------------------------------------------------------

Read(q) == \/ ExtractRead(q) \/ FinalizeRead(q)
           \/ \E v \in Version :
                \/ ApproveRead(q, v) \/ DiscardRead(q, v)
                \/ \E op \in RowEdits, r \in Row : EditRead(q, op, v, r)
                \/ \E op \in BulkEdits : BulkRead(q, op, v)
           \/ \E d \in 1..MaxDelivs : ReleaseRead(q, d)

Write(q) == \/ ExtractStart(q) \/ EditCommit(q)
            \/ ApproveBuild(q) \/ ApproveJudge(q) \/ ApproveCommit(q)
            \/ DiscardCommit(q) \/ FinalizeLoad(q) \/ FinalizeCommit(q)
            \/ ReleaseJudge(q) \/ ReleaseFlip(q) \/ ReleaseHandOver(q)

Next == \/ \E q \in Request : Read(q) \/ Write(q)
        \/ ExtractCheck \/ ExtractInsert \/ ExtractFails

Spec == Init /\ [][Next]_vars

---------------------------------------------------------------------------
(* Properties.                                                             *)

\* #850 and #639: what the client is shown as complete has no undecided row,
\* whatever was edited while it was rendered.
ReportsAreWhole == \A d \in DOMAIN delivs : delivs[d].whole

---------------------------------------------------------------------------
(* The lists keep the promise of ReviewedDoc, each version being a document. *)

Phase(v) == IF lists[v].status \in {"draft", "approved"} THEN "open"
            ELSE lists[v].status

Blank == <<>>

Contents == [Row -> Line]

\* What a version holds, and the rows its approval was computed from.
Held(v)   == IF lists[v].status = "none" THEN Blank ELSE rows[v]
Agreed(v) == IF lists[v].approvedAt = NoRevision THEN Blank
             ELSE lists[v].membership

Review == INSTANCE ReviewedDoc
  WITH Doc <- Version, Content <- Contents,
       Ready <- {R \in Contents : Complete(R)},
       phase <- [v \in Version |-> Phase(v)],
       content <- [v \in Version |-> Held(v)],
       approved <- [v \in Version |-> Agreed(v)]

\* Whatever edits, approvals and releases race, a list is released with exactly
\* the rows its last approval was computed from, all of them decided and every
\* exclusion confirmed, and nothing changes a list released or discarded.
ImplementsReviewedDoc == Review!ReviewSpec
=============================================================================
