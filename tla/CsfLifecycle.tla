--------------------------- MODULE CsfLifecycle ----------------------------
(***************************************************************************)
(* The assessments and deliverables of one NIST CSF service: the routes of *)
(* src/apps/api/app/routes/csf.py that move them, "Start a revision"       *)
(* (services/revisions.py), the release of a deliverable with its parent   *)
(* (deliverable_release.py) and the apply of a Run-AI.                     *)
(*                                                                         *)
(* A request reads, decides, and later writes and commits; between the two *)
(* any other request commits (READ COMMITTED, and no row is locked by the  *)
(* read).  A refusal that changes nothing is a step that is not enabled.   *)
(***************************************************************************)
EXTENDS Naturals, Sequences, FiniteSets

CONSTANTS
  Request,      \* request threads
  Op,           \* the operations they may ask for
  MaxVersion,   \* bound on the versions of the service's assessment
  MaxDelivs,    \* bound on its deliverables
  MaxWrites     \* bound on the writes of one version's rows

AllOps == {"create", "revise", "answer", "self", "score", "submit", "approve",
           "discard", "finalize", "release", "run"}

ASSUME LifecycleAssumption ==
  /\ Op \subseteq AllOps
  /\ MaxVersion \in Nat /\ MaxDelivs \in Nat /\ MaxWrites \in Nat

VARIABLES
  recs,      \* csf_assessments by version; content counts writes of its rows
  delivs,    \* deliverables, by age
  run,       \* the csf_score run in progress, if any, and its assessment
  req,       \* what each request has read, and what it is about to write
  settled,   \* history: versions ever submitted or approved
  late       \* history: what a submission overwrote that was not a draft

vars == <<recs, delivs, run, req, settled, late>>

Version == 1..MaxVersion

Status == {"none", "draft", "submitted", "approved", "released", "discarded"}

Record == [status : Status, from : 0..MaxVersion, content : 0..MaxWrites]

NoRecord == [status |-> "none", from |-> 0, content |-> 0]

Deliverable == [parent : Version, released : BOOLEAN]

NoRun == [phase |-> "idle", v |-> 0]

\* v: the version (or deliverable) concerned; new: the version to insert;
\* seen: what release read of the deliverable and of its parent.
Pending == [op : AllOps \cup {"none"}, at : {"idle", "mint", "write"},
            v : 0..(MaxVersion + MaxDelivs), new : 0..MaxVersion,
            seen : [first : BOOLEAN, parent : Status]]

NothingSeen == [first |-> FALSE, parent |-> "none"]

Idle == [op |-> "none", at |-> "idle", v |-> 0, new |-> 0, seen |-> NothingSeen]

TypeOK ==
  /\ recs \in [Version -> Record]
  /\ delivs \in Seq(Deliverable) /\ Len(delivs) <= MaxDelivs
  /\ run \in [phase : {"idle", "started", "working", "checked"},
              v : 0..MaxVersion]
  /\ req \in [Request -> Pending]
  /\ settled \subseteq Version /\ late \subseteq Version \X Status

Init ==
  /\ recs = [v \in Version |-> NoRecord]
  /\ delivs = <<>> /\ run = NoRun
  /\ req = [q \in Request |-> Idle]
  /\ settled = {} /\ late = {}

---------------------------------------------------------------------------
(* What the routes read.                                                   *)

StatusIn(S) == {v \in Version : recs[v].status \in S}

Newest(S) == IF S = {} THEN 0 ELSE CHOOSE v \in S : \A w \in S : w <= v

\* _latest_assessment: discarded versions are not looked at.
Latest == Newest(StatusIn(Status \ {"none", "discarded"}))

\* _max_assessment_version: discarded versions count.
MaxTaken == Newest(StatusIn(Status \ {"none"}))

\* refuse_while_running, the edit lock.
Running == run.phase # "idle"

IsRevisionDraft(v) == recs[v].status = "draft" /\ recs[v].from # 0

Begin(q, op, v, at) ==
  /\ op \in Op /\ req[q] = Idle
  /\ req' = [req EXCEPT ![q] = [Idle EXCEPT !.op = op, !.at = at, !.v = v]]

Finish(q) == req' = [req EXCEPT ![q] = Idle]

At(q, op) == req[q].op = op /\ req[q].at = "write"

SetStatus(v, s) ==
  /\ recs' = [recs EXCEPT ![v].status = s]
  /\ settled' = IF s \in {"submitted", "approved"} THEN settled \cup {v}
                                                  ELSE settled
  /\ late' = IF s = "submitted" /\ recs[v].status # "draft"
             THEN late \cup {<<v, recs[v].status>>} ELSE late

KeepRecords == UNCHANGED <<recs, settled, late>>

ReadOnly == KeepRecords /\ UNCHANGED <<delivs, run>>

---------------------------------------------------------------------------
(* A new version: create_assessment and start_revision.                    *)

\* An open draft is answered as it is; released work is reopened by a revision.
CreateRead(q) ==
  /\ ~Running
  /\ Latest \notin StatusIn({"draft"})
  /\ StatusIn({"released"}) = {}
  /\ Begin(q, "create", 0, "mint")
  /\ ReadOnly

\* decide_revision: of an approved or released version with no newer one.
MayRevise(v) ==
  /\ recs[v].status \in {"approved", "released"}
  /\ \A w \in Version : w > v => recs[w].status \in {"none", "discarded"}

ReviseRead(q, v) ==
  /\ ~Running
  /\ MayRevise(v)
  /\ Begin(q, "revise", v, "mint")
  /\ ReadOnly

Mint(q) ==
  /\ req[q].at = "mint"
  /\ MaxTaken < MaxVersion
  /\ req' = [req EXCEPT ![q].at = "write", ![q].new = MaxTaken + 1]
  /\ ReadOnly

\* The one-draft index, and the uniqueness of (service_id, version).
IndexRefuses(v) == recs[v].status # "none" \/ StatusIn({"draft"}) # {}

\* A refused insert is rolled back: the winner's draft is answered or named.
Insert(q) ==
  /\ At(q, "create") \/ At(q, "revise")
  /\ LET v == req[q].new
         source == IF req[q].op = "revise" THEN req[q].v ELSE 0
     IN IF IndexRefuses(v) THEN UNCHANGED recs
        ELSE recs' = [recs EXCEPT ![v] =
               [status |-> "draft", from |-> source,
                content |-> IF source = 0 THEN 0 ELSE recs[source].content]]
  /\ Finish(q)
  /\ UNCHANGED <<delivs, run, settled, late>>

---------------------------------------------------------------------------
(* Edits of a version's rows.                                              *)

\* patch_answer, patch_self_assessment_answer (the client's, never of a
\* revision draft) and patch_dimension_score, which alone respects the lock.
Editable(op, v) ==
  \/ op = "answer" /\ recs[v].status \in {"draft", "submitted"}
  \/ op = "self" /\ recs[v].status = "draft" /\ ~IsRevisionDraft(v)
  \/ op = "score" /\ ~Running
     /\ recs[v].status \in {"draft", "submitted", "discarded"}

EditRead(q, op, v) ==
  /\ Editable(op, v)
  /\ Begin(q, op, v, "write")
  /\ ReadOnly

WriteRows(v) == /\ recs[v].content < MaxWrites
                /\ recs' = [recs EXCEPT ![v].content = @ + 1]

\* The UPDATE is of the row alone: nothing is asked of the assessment again.
EditWrite(q) ==
  /\ \E op \in {"answer", "self", "score"} : At(q, op)
  /\ WriteRows(req[q].v)
  /\ Finish(q)
  /\ UNCHANGED <<delivs, run, settled, late>>

---------------------------------------------------------------------------
(* Status changes.                                                         *)

SubmitRead(q) ==
  /\ Latest \in StatusIn({"draft"}) /\ ~IsRevisionDraft(Latest)
  /\ Begin(q, "submit", Latest, "write")
  /\ ReadOnly

\* An ORM assignment: the UPDATE asks nothing of the status it overwrites.
SubmitWrite(q) ==
  /\ At(q, "submit")
  /\ SetStatus(req[q].v, "submitted")
  /\ Finish(q)
  /\ UNCHANGED <<delivs, run>>

ApproveRead(q, v) ==
  /\ ~Running
  /\ recs[v].status \in {"draft", "submitted", "discarded"}
  /\ Begin(q, "approve", v, "write")
  /\ ReadOnly

\* Mutation of Approvable: the UPDATE has no condition.
ApproveAnyway(v) == TRUE

Approvable(v) == recs[v].status \in {"draft", "submitted"}

ApproveWrite(q) ==
  /\ At(q, "approve")
  /\ IF Approvable(req[q].v) THEN SetStatus(req[q].v, "approved")
                             ELSE KeepRecords
  /\ Finish(q)
  /\ UNCHANGED <<delivs, run>>

DiscardRead(q, v) ==
  /\ recs[v].status = "draft"
  /\ Begin(q, "discard", v, "write")
  /\ ReadOnly

\* Mutation of Discardable: the UPDATE has no condition.
DiscardAnyway(v) == TRUE

Discardable(v) == recs[v].status = "draft"

DiscardWrite(q) ==
  /\ At(q, "discard")
  /\ IF Discardable(req[q].v) THEN SetStatus(req[q].v, "discarded")
                              ELSE KeepRecords
  /\ Finish(q)
  /\ UNCHANGED <<delivs, run>>

---------------------------------------------------------------------------
(* Deliverables.                                                           *)

FinalizeRead(q) ==
  /\ ~Running
  /\ Latest \in StatusIn({"approved", "released"})
  /\ Begin(q, "finalize", Latest, "write")
  /\ ReadOnly

\* Mutation of ParentOf: the parent is whatever is latest at the commit.
LatestAtCommit(q) == IF Latest = 0 THEN req[q].v ELSE Latest

\* parent_version: the version whose answers the report was rendered from.
ParentOf(q) == req[q].v

FinalizeWrite(q) ==
  /\ At(q, "finalize")
  /\ Len(delivs) < MaxDelivs
  /\ delivs' = Append(delivs, [parent |-> ParentOf(q), released |-> FALSE])
  /\ Finish(q)
  /\ KeepRecords /\ UNCHANGED run

\* release_deliverable, and the read half of _release_parent. Of a deliverable
\* already released only a parent still approved is left to repair.
ReleaseRead(q, d) ==
  /\ d \in DOMAIN delivs
  /\ LET parent == recs[delivs[d].parent].status
     IN /\ delivs[d].released => parent = "approved"
        /\ "release" \in Op /\ req[q] = Idle
        /\ req' = [req EXCEPT ![q] =
             [Idle EXCEPT !.op = "release", !.at = "write", !.v = d,
                          !.seen = [first |-> ~delivs[d].released,
                                    parent |-> parent]]]
  /\ ReadOnly

\* Mutation of FlipParent: the report's release leaves its parent as it is.
LeaveParent(p) == KeepRecords

\* The conditional UPDATE of _release_parent.
FlipParent(p) == IF recs[p].status = "approved" THEN SetStatus(p, "released")
                                                ELSE KeepRecords

\* A parent that moved meanwhile refuses the release, except to RELEASED; the
\* flip, released_at and the audit row are one commit. A repair commits a flip
\* and never releases again.
ReleaseWrite(q) ==
  /\ At(q, "release")
  /\ LET d == req[q].v
         p == delivs[d].parent
         flips == req[q].seen.parent = "approved"
         moved == flips /\ recs[p].status \notin {"approved", "released"}
     IN /\ IF flips THEN FlipParent(p) ELSE KeepRecords
        /\ delivs' = IF moved \/ ~req[q].seen.first THEN delivs
                     ELSE [delivs EXCEPT ![d].released = TRUE]
  /\ Finish(q)
  /\ UNCHANGED run

---------------------------------------------------------------------------
(* The Run-AI of csf_score (its framework is AiRuns).                      *)

RunRead(q) ==
  /\ Latest \in StatusIn({"draft", "submitted"})
  /\ Begin(q, "run", Latest, "write")
  /\ ReadOnly

RunStart(q) ==
  /\ At(q, "run")
  /\ run' = IF Running THEN run ELSE [phase |-> "started", v |-> req[q].v]
  /\ Finish(q)
  /\ KeepRecords /\ UNCHANGED delivs

Locked(v) == recs[v].status \in {"discarded", "approved", "released"}

\* The check the job begins with, and the same check after the batches.
RunCheck ==
  /\ run.phase \in {"started", "working"}
  /\ run' = IF Locked(run.v) THEN NoRun
            ELSE [run EXCEPT !.phase = IF @ = "started" THEN "working"
                                                        ELSE "checked"]
  /\ KeepRecords /\ UNCHANGED <<delivs, req>>

RunCommit ==
  /\ run.phase = "checked"
  /\ WriteRows(run.v)
  /\ run' = NoRun
  /\ UNCHANGED <<delivs, req, settled, late>>

\* It fails, or is reaped; nothing of it is applied.
RunFails ==
  /\ Running
  /\ run' = NoRun
  /\ KeepRecords /\ UNCHANGED <<delivs, req>>

---------------------------------------------------------------------------

Read(q) == \/ CreateRead(q) \/ SubmitRead(q) \/ FinalizeRead(q) \/ RunRead(q)
           \/ \E v \in Version :
                \/ ReviseRead(q, v) \/ ApproveRead(q, v) \/ DiscardRead(q, v)
                \/ \E op \in {"answer", "self", "score"} : EditRead(q, op, v)
           \/ \E d \in 1..MaxDelivs : ReleaseRead(q, d)

Write(q) == \/ Mint(q) \/ Insert(q) \/ EditWrite(q) \/ SubmitWrite(q)
            \/ ApproveWrite(q) \/ DiscardWrite(q) \/ FinalizeWrite(q)
            \/ ReleaseWrite(q) \/ RunStart(q)

Next == \/ \E q \in Request : Read(q) \/ Write(q)
        \/ RunCheck \/ RunCommit \/ RunFails

Spec == Init /\ [][Next]_vars

---------------------------------------------------------------------------
(* What the safety properties rest on.                                     *)

Taken(v) == recs[v].status # "none"

\* Versions are numbered without gaps: an insert refused by the constraints
\* takes no number.
NoGaps == \A v, w \in Version : v < w /\ Taken(w) => Taken(v)

\* While a version is a draft nothing is inserted above it.
NothingAboveADraft ==
  \A v \in StatusIn({"draft"}), w \in Version : w > v => ~Taken(w)

Settled == settled \subseteq StatusIn({"submitted", "approved", "released"})

\* A pending write concerns a version that was there when it was read, or one
\* just above versions that are taken.
PendingIsSound ==
  \A q \in Request :
    LET r == req[q]
    IN /\ r.at = "mint" => r.op \in {"create", "revise"}
       /\ r.at = "write" /\ r.op \in {"create", "revise"} =>
            r.new \in Version /\ \A v \in Version : v < r.new => Taken(v)
       /\ r.at # "idle" /\ r.op \notin {"create", "release"} =>
            r.v \in Version /\ Taken(r.v)
       /\ r.op = "release" => r.v \in DOMAIN delivs

RunIsSound == Running => run.v \in Version /\ Taken(run.v)

LifecycleInv == /\ TypeOK /\ NoGaps /\ NothingAboveADraft /\ Settled
                /\ PendingIsSound /\ RunIsSound

---------------------------------------------------------------------------
(* Properties.                                                             *)

\* Rule I1 of decide_revision: a service has at most one draft, and it is its
\* newest record, however creates and revisions race.
DraftIsLatest ==
  \A v \in StatusIn({"draft"}), w \in Version :
    w > v => recs[w].status \in {"none", "discarded"}

\* D-031: once a client submits or an admin approves, destruction is off the
\* table. (LifecycleInv implies it.)
SettledIsNeverDestroyed == settled \cap StatusIn({"discarded"}) = {}

\* A submission that committed after the draft it had read was approved or
\* released took that status back; what stood on it is out of account below.
Undone == {v \in Version : \E s \in {"approved", "released"} : <<v, s>> \in late}

\* A report with the client and its parent reading RELEASED are one fact.
ReleasedTogether ==
  \A d \in DOMAIN delivs :
    LET p == delivs[d].parent
    IN delivs[d].released => recs[p].status = "released" \/ p \in Undone

\* Every report was built from a version that was, and still is, approved. A
\* revision's source is an older version, and approval of it still stands.
BuiltOnApproval ==
  LET settledNow == StatusIn({"approved", "released"}) \cup Undone
  IN /\ \A d \in DOMAIN delivs : delivs[d].parent \in settledNow
     /\ \A v \in Version :
          recs[v].from # 0 => recs[v].from < v /\ recs[v].from \in settledNow

\* latest_assessment for a client: the newest released record, if the latest is
\* not one.
Shown == Newest(StatusIn({"released"}))

\* A submission of v that had read it as a draft commits, and it is none.
LateSubmission(v) ==
  \E q \in Request : /\ At(q, "submit") /\ req[q].v = v
                     /\ recs[v].status # "draft" /\ recs'[v].status = "submitted"

\* What has been shown to the client is not taken back or rolled back, but for
\* a late submission of the very version shown.
ClientKeepsReport == [][Shown' >= Shown \/ LateSubmission(Shown)]_vars

\* "a discarded assessment is retired (D-031) and cannot be approved"
DiscardedIsNeverApproved ==
  \A v \in StatusIn({"approved", "released"}) : <<v, "discarded">> \notin late
=============================================================================
