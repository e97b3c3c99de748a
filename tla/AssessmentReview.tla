------------------------- MODULE AssessmentReview --------------------------
(***************************************************************************)
(* How one version of a Zero Trust or an ATT&CK coverage assessment is     *)
(* worked on, approved, rendered and released: the routes of               *)
(* src/apps/api/app/routes/zt.py and routes/attack.py, the computed status *)
(* of an ATT&CK technique (attack/computed.py), the release gates of both  *)
(* kinds (attack/release_readiness.py, _zt_release_guard) and the apply of *)
(* their Run-AI (its framework is AiRuns; the versions of a service are    *)
(* CsfLifecycle's subject).                                                *)
(*                                                                         *)
(* A request reads, decides, and later writes and commits; anything else   *)
(* may commit between the two, another approval included: `late` records   *)
(* what was so committed after it had ceased to be so.  A refusal that     *)
(* changes nothing is a step that is not enabled.  A row is one scored     *)
(* unit: a capability, or a technique without sub-techniques.  The three   *)
(* tool lists of a technique move as one, so that its computed status is   *)
(* Covered or Gap.                                                         *)
(***************************************************************************)
EXTENDS Naturals, Sequences

CONSTANTS
  Kinds,         \* the kinds of assessment considered: "zt", "attack"
  Request,       \* request threads
  Does,          \* the operations each of them asks for, one at a time
  Row,           \* the rows of the assessment
  MaxDelivs,     \* bound on its deliverables
  MaxApprovals   \* bound on its approvals

AllOps == {"patch", "self", "confirm", "review", "submit", "approve",
           "discard", "finalize", "release", "run"}

ASSUME ReviewAssumption ==
  /\ Kinds \subseteq {"zt", "attack"}
  /\ Does \in [Request -> SUBSET AllOps]
  /\ MaxDelivs \in Nat /\ MaxApprovals \in Nat

VARIABLES
  kind,       \* of the assessment
  status,     \* zt_assessments.status, attack_assessments.status
  approvals,  \* how often it was approved: the order of its approved_at
  rows,       \* zt_answers, attack_coverage
  delivs,     \* its deliverables, by age
  run,        \* the zt_score or mitre_map run in progress, if any
  req,        \* what each request has read, and what it is about to write
  late        \* history: what was committed late, and may still matter

vars == <<kind, status, approvals, rows, delivs, run, req, late>>

Status == {"draft", "submitted", "approved", "released", "discarded"}

\* A stage or a status; "covered" also stands for a stage, "gap" for another.
Said == {"none", "covered", "gap"}

\* said: the stored status or stage. tools: those listed for a technique, and
\* whether their citations wait for a review. reviewed: the computed status a
\* consultant accepted.
RowState == [said : Said, tools : {"none", "inferred", "confirmed"},
             reviewed : Said]

Blank == [said |-> "none", tools |-> "none", reviewed |-> "none"]

Values == [Row -> Said]

\* at: the approvals there were when finalized_at was taken. asof, a history: those
\* there were when its content was read.
Deliverable == [content : Values, asof : 0..MaxApprovals, at : 0..MaxApprovals,
                released : BOOLEAN]

\* edited: rows written by hand since the start; skip: those the job has seen;
\* unseen: an approval that had looked for a run before this one was committed.
NoRun == [phase |-> "idle", edited |-> {}, skip |-> {}, unseen |-> FALSE]

Keep == "keep"

\* of, said, tools: what an edit writes, and of which row; saw: the statuses a
\* request read, "none" where it looks no further; asof, ran: the approvals there
\* were, and whether a run was in progress; d, parent, first, clear: what a
\* release read of the deliverable, of its parent and of the review queue.
Idle == [op |-> "none", of |-> {}, said |-> Keep, tools |-> Keep,
         saw |-> [l \in Row |-> "none"], asof |-> 0, ran |-> FALSE,
         d |-> 0, parent |-> "draft", first |-> FALSE, clear |-> FALSE]

Pending == [op : AllOps \cup {"none", "flip"}, of : SUBSET Row, said : Said \cup {Keep},
            tools : {"none", "confirmed", Keep}, saw : Values,
            asof : 0..MaxApprovals, ran : BOOLEAN,
            d : 0..MaxDelivs, parent : Status, first : BOOLEAN, clear : BOOLEAN]

\* rows: rows of approved work were written. queue: computed statuses may have
\* begun to wait for a review since a release last found none.
Late == {"rows", "queue"}

Runs == [phase : {"idle", "started", "working", "checked"},
         edited : SUBSET Row, skip : SUBSET Row, unseen : BOOLEAN]

TypeOK ==
  /\ kind \in Kinds /\ status \in Status /\ approvals \in 0..MaxApprovals
  /\ rows \in [Row -> RowState]
  /\ delivs \in Seq(Deliverable) /\ Len(delivs) <= MaxDelivs
  /\ run \in Runs
  /\ req \in [Request -> Pending] /\ late \subseteq Late

Init ==
  /\ kind \in Kinds /\ status = "draft" /\ approvals = 0
  /\ rows = [l \in Row |-> Blank]
  /\ delivs = <<>> /\ run = NoRun
  /\ req = [q \in Request |-> Idle] /\ late = {}

---------------------------------------------------------------------------
(* What the routes read.                                                   *)

\* effective_coverage: an assessed technique's status is computed from its
\* tools, those awaiting a review counted as not in place. A stage is as stored.
Effective(l) ==
  IF kind = "attack" /\ rows[l].said # "none"
  THEN IF rows[l].tools = "confirmed" THEN "covered" ELSE "gap"
  ELSE rows[l].said

Content == [l \in Row |-> Effective(l)]

\* review_queue: the computed status is not the stored one, nor a status that
\* a consultant accepted.
InReview(l) == /\ kind = "attack"
               /\ Effective(l) \notin {rows[l].said, rows[l].reviewed}

\* refuse_while_running, the edit lock.
Running == run.phase # "idle"

Settled == status \in {"approved", "released"}

Locked == Settled \/ status = "discarded"

Begin(q, op, r) ==
  /\ op \in Does[q] /\ req[q] = Idle
  /\ req' = [req EXCEPT ![q] = [r EXCEPT !.op = op]]
  /\ UNCHANGED <<kind, status, approvals, rows, delivs, run, late>>

Finish(q) == req' = [req EXCEPT ![q] = Idle]

\* The assessment was approved since the request read it.
Overtaken(q) == req[q].asof # approvals

LateIf(happened, what) == late' = IF happened THEN late \cup what ELSE late

---------------------------------------------------------------------------
(* Edits of a row.                                                         *)

\* patch_coverage and patch_answer: the columns named in the body are written,
\* and naming a technique's tools is vouching for them.
PatchRead(q, l) ==
  /\ ~Running /\ ~Locked
  /\ \E said \in Said \cup {Keep}, tools \in {"none", "confirmed", Keep} :
       /\ kind = "zt" => tools = Keep
       /\ Begin(q, "patch", [Idle EXCEPT !.of = {l}, !.said = said,
                                         !.tools = tools, !.asof = approvals])

\* patch_self_assessment_answer, the client's.
SelfRead(q, l) ==
  /\ kind = "zt" /\ ~Running /\ status = "draft"
  /\ \E said \in Said :
       Begin(q, "self", [Idle EXCEPT !.of = {l}, !.said = said, !.asof = approvals])

\* confirm_coverage_citations: of a technique with citations to confirm.
ConfirmRead(q, l) ==
  /\ kind = "attack" /\ ~Running /\ ~Locked
  /\ rows[l].tools = "inferred"
  /\ Begin(q, "confirm", [Idle EXCEPT !.of = {l}, !.tools = "confirmed",
                                      !.asof = approvals])

Edited(row, r) ==
  [row EXCEPT !.said = IF r.said = Keep THEN @ ELSE r.said,
              !.tools = CASE r.tools = Keep -> @
                          [] r.op = "confirm" /\ @ = "none" -> @
                          [] OTHER -> r.tools]

\* The UPDATE is of the row alone: nothing is asked of the assessment again.
EditWrite(q) ==
  /\ req[q].op \in {"patch", "self", "confirm"}
  /\ rows' = [l \in Row |-> IF l \in req[q].of THEN Edited(rows[l], req[q])
                                               ELSE rows[l]]
  /\ run' = IF Running THEN [run EXCEPT !.edited = @ \cup req[q].of] ELSE run
  /\ LateIf(Settled /\ Overtaken(q), {"rows", "queue"})
  /\ Finish(q)
  /\ UNCHANGED <<kind, status, approvals, delivs>>

\* review_computed_statuses: of techniques in the queue, with the computed
\* status that was read. Open until the release.
ReviewRead(q) ==
  /\ kind = "attack" /\ ~Running /\ status \notin {"released", "discarded"}
  /\ \E S \in SUBSET {l \in Row : InReview(l)} :
       /\ S # {}
       /\ Begin(q, "review",
                [Idle EXCEPT !.saw = [l \in Row |-> IF l \in S THEN Effective(l)
                                                              ELSE "none"]])

ReviewWrite(q) ==
  /\ req[q].op = "review"
  /\ rows' = [l \in Row |-> IF req[q].saw[l] = "none" THEN rows[l]
                            ELSE [rows[l] EXCEPT !.reviewed = req[q].saw[l]]]
  /\ LateIf(\E l \in Row : req[q].saw[l] \notin {"none", Effective(l)}, {"queue"})
  /\ Finish(q)
  /\ UNCHANGED <<kind, status, approvals, delivs, run>>

---------------------------------------------------------------------------
(* Status changes.                                                         *)

SetStatus(q, s) ==
  /\ status' = s
  /\ Finish(q)
  /\ UNCHANGED <<kind, rows, delivs, late>>

SubmitRead(q) ==
  /\ kind = "zt" /\ ~Running /\ status = "draft"
  /\ Begin(q, "submit", Idle)

\* An ORM assignment: the UPDATE asks nothing of the status it overwrites.
SubmitWrite(q) ==
  /\ req[q].op = "submit"
  /\ SetStatus(q, "submitted")
  /\ UNCHANGED <<approvals, run>>

\* Neither route refuses a discarded assessment when it reads it.
MayApprove == status \notin {"approved", "released"}

\* Mutation of ApproveRead: the edit lock is not asked.
ApproveDuringRun(q) ==
  MayApprove /\ Begin(q, "approve", [Idle EXCEPT !.ran = Running])

ApproveRead(q) ==
  ~Running /\ MayApprove /\ Begin(q, "approve", [Idle EXCEPT !.ran = Running])

\* Zero Trust's is a conditional UPDATE; ATT&CK's an ORM assignment, of
\* whatever the status has become.
Approvable == kind = "zt" => status \in {"draft", "submitted"}

ApproveWrite(q) ==
  /\ req[q].op = "approve"
  /\ approvals < MaxApprovals
  /\ IF Approvable
     THEN /\ SetStatus(q, "approved") /\ approvals' = approvals + 1
          /\ run' = IF Running /\ ~req[q].ran THEN [run EXCEPT !.unseen = TRUE] ELSE run
     ELSE SetStatus(q, status) /\ UNCHANGED <<approvals, run>>

DiscardRead(q) == status = "draft" /\ Begin(q, "discard", Idle)

\* The conditional UPDATE: WHERE status = 'draft'.
DiscardWrite(q) ==
  /\ req[q].op = "discard"
  /\ SetStatus(q, IF status = "draft" THEN "discarded" ELSE status)
  /\ UNCHANGED <<approvals, run>>

---------------------------------------------------------------------------
(* Deliverables.                                                           *)

\* What the documents are rendered from.
FinalizeRead(q) ==
  /\ ~Running /\ Settled
  /\ Begin(q, "finalize", [Idle EXCEPT !.saw = Content, !.asof = approvals])

\* finalized_at is taken when they are written.
FinalizeWrite(q) ==
  /\ req[q].op = "finalize"
  /\ Len(delivs) < MaxDelivs
  /\ delivs' = Append(delivs, [content |-> req[q].saw, asof |-> req[q].asof,
                              at |-> approvals, released |-> FALSE])
  /\ Finish(q)
  /\ UNCHANGED <<kind, status, approvals, rows, run, late>>

\* release_deliverable, and the read half of _release_parent. Of a deliverable
\* already released only a parent still approved is left to repair.
ReleaseRead(q, d) ==
  /\ d \in DOMAIN delivs
  /\ delivs[d].released => status = "approved"
  /\ Begin(q, "release", [Idle EXCEPT !.d = d, !.parent = status,
                                      !.first = ~delivs[d].released])

\* Mutation of ApprovalPrecedes: a later approval does not refuse the flip.
NoRatchet(d) == TRUE

\* _zt_release_guard: approved_at <= finalized_at.
ApprovalPrecedes(d) == kind = "zt" => approvals <= delivs[d].at

\* Mutation of QueueIsEmpty: what waits for a review does not refuse the flip.
NoQueue == TRUE

\* unreviewed_codes: no computed status waits for a review.
QueueIsEmpty == \A l \in Row : ~InReview(l)

\* The queue is a SELECT of its own, and its answer is part of the UPDATE's text.
ReleaseQueue(q) ==
  /\ req[q].op = "release" /\ req[q].parent = "approved" /\ kind = "attack"
  /\ req' = [req EXCEPT ![q].op = "flip", ![q].clear = QueueIsEmpty]
  /\ late' = IF QueueIsEmpty THEN late \ {"queue"} ELSE late
  /\ UNCHANGED <<kind, status, approvals, rows, delivs, run>>

\* The conditional UPDATE of _release_parent with the kind's guard. A miss
\* refuses the release unless the parent became RELEASED; a parent that was not
\* approved when it was read is only logged.
ReleaseWrite(q) ==
  /\ \/ req[q].op = "flip"
     \/ req[q].op = "release" /\ (req[q].parent # "approved" \/ kind = "zt")
  /\ LET r == req[q]
         flips == r.parent = "approved"
         holds == /\ status = "approved" /\ ApprovalPrecedes(r.d)
                  /\ kind = "attack" => r.clear
         refused == flips /\ ~holds /\ status # "released"
     IN /\ status' = IF flips /\ holds THEN "released" ELSE status
        /\ delivs' = IF refused \/ ~r.first THEN delivs
                     ELSE [delivs EXCEPT ![r.d].released = TRUE]
  /\ Finish(q)
  /\ UNCHANGED <<kind, approvals, rows, run, late>>

---------------------------------------------------------------------------
(* The Run-AI of zt_score and mitre_map.                                   *)

RunRead(q) ==
  /\ status \in {"draft", "submitted"}
  /\ Begin(q, "run", Idle)

RunStart(q) ==
  /\ req[q].op = "run"
  /\ run' = IF Running THEN run ELSE [NoRun EXCEPT !.phase = "started"]
  /\ Finish(q)
  /\ UNCHANGED <<kind, status, approvals, rows, delivs, late>>

JobOnly == UNCHANGED <<kind, status, approvals, delivs, req>>

\* The check the job begins with.
RunBegins ==
  /\ run.phase = "started"
  /\ run' = IF Locked THEN NoRun ELSE [run EXCEPT !.phase = "working"]
  /\ UNCHANGED <<rows, late>> /\ JobOnly

\* After the calls it re-reads the rows, and then the status.
RunRechecks ==
  /\ run.phase = "working"
  /\ run' = IF Locked THEN NoRun
            ELSE [run EXCEPT !.phase = "checked", !.skip = run.edited]
  /\ UNCHANGED <<rows, late>> /\ JobOnly

\* What a suggestion makes of a row: its status is the model's, its tools are
\* those cited, exact names confirmed and others to be reviewed.
Suggested(row) ==
  {[row EXCEPT !.said = said, !.tools = tools] :
     said \in Said \ {"none"},
     tools \in IF kind = "zt" THEN {"none"} ELSE {"none", "inferred", "confirmed"}}

\* Any row may be left as it is: locked, protected, not sent, not answered.
RunCommit ==
  /\ run.phase = "checked"
  /\ \E S \in SUBSET (Row \ run.skip) :
       rows' \in {R \in [Row -> RowState] :
                   \A l \in Row : IF l \in S THEN R[l] \in Suggested(rows[l])
                                           ELSE R[l] = rows[l]}
  /\ LateIf(Settled /\ run.unseen, {"rows", "queue"})
  /\ run' = NoRun /\ JobOnly

\* It fails, or is reaped; nothing of it is applied.
RunFails == Running /\ run' = NoRun /\ UNCHANGED <<rows, late>> /\ JobOnly

---------------------------------------------------------------------------

Read(q) == \/ ReviewRead(q) \/ SubmitRead(q) \/ ApproveRead(q)
           \/ DiscardRead(q) \/ FinalizeRead(q) \/ RunRead(q)
           \/ \E l \in Row : PatchRead(q, l) \/ SelfRead(q, l) \/ ConfirmRead(q, l)
           \/ \E d \in 1..MaxDelivs : ReleaseRead(q, d)

Write(q) == \/ EditWrite(q) \/ ReviewWrite(q) \/ SubmitWrite(q)
            \/ ApproveWrite(q) \/ DiscardWrite(q) \/ FinalizeWrite(q)
            \/ ReleaseQueue(q) \/ ReleaseWrite(q) \/ RunStart(q)

Next == \/ \E q \in Request : Read(q) \/ Write(q)
        \/ RunBegins \/ RunRechecks \/ RunCommit \/ RunFails

Spec == Init /\ [][Next]_vars

---------------------------------------------------------------------------
(* Properties.                                                             *)

\* "An approved assessment's rows cannot change": what the release gates, the
\* revisions and the reports are entitled to (attack/release_readiness.py).
ApprovedRowsStand ==
  [][ Settled /\ Settled' => Content' = Content ]_vars

\* The locks hold that back but for two writers, each already under way: an edit
\* that read the assessment before its approval, and the run that started after
\* the approval had looked for one.
OnlyOvertakenMoves ==
  [][ Settled /\ Settled' /\ Content' # Content =>
        \/ Running /\ run.unseen
        \/ \E q \in Request : req[q].op \in {"patch", "self", "confirm"}
                              /\ Overtaken(q) /\ req'[q] = Idle ]_vars

\* Of a released assessment the client has a report, and it shows the stages or
\* the computed statuses the assessment now holds, even if a late submission
\* took an approval back and it was edited and approved again - unless its rows
\* were written late, or the report was rendered under one approval and stored
\* after the next: finalized_at is the time of storing, and the guard asks no more.
ReleasedIsWhatWasSent ==
  status = "released" /\ "rows" \notin late =>
    \E d \in DOMAIN delivs :
      /\ delivs[d].released
      /\ delivs[d].content = Content \/ delivs[d].asof # delivs[d].at

\* Where the computed status of a released technique is not the stored
\* suggestion, a consultant accepted that computed status and no earlier one -
\* unless a late edit, a late run or a review of a status that had moved fell
\* between the release's look at the queue and its flip, or after it.
ReleasedIsReviewed ==
  status = "released" /\ "queue" \notin late => \A l \in Row : ~InReview(l)

=============================================================================
