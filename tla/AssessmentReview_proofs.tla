----------------------- MODULE AssessmentReview_proofs -----------------------
(***************************************************************************)
(* Proofs about AssessmentReview: what is released is what was sent and    *)
(* what was reviewed, and the rows of approved work stand - for any        *)
(* requests, rows and bounds, and whatever is under way beside what.       *)
(*                                                                         *)
(* The writes of zt.py and attack.py ask nothing of the assessment again,  *)
(* so that a request can land on another's approval.  The proofs say that  *)
(* nothing else is lost: each of the three holds of every behaviour but    *)
(* for what the history `late`, or the report's own `asof`, records.       *)
(***************************************************************************)
EXTENDS AssessmentReview, SequenceTheorems, TLAPS

\* The operations that edit rows by hand.
Hands == {"patch", "self", "confirm"}

---------------------------------------------------------------------------
(* The invariant.                                                          *)

\* Approved work was approved; a run that goes on over it was not seen when it was.
WorkSound ==
  /\ Settled => approvals > 0
  /\ Settled /\ run.phase \in {"working", "checked"} => run.unseen
  /\ kind = "attack" /\ approvals > 0 => Settled

\* The content read under the approval that stands is what the assessment holds.
Stands(asof, content) ==
  "rows" \notin late /\ Settled /\ (kind = "attack" \/ asof = approvals)
    => content = Content

\* A report is of an approval, and was stored under it or a later one.
ReportSound(r) ==
  /\ r.at \in 1..approvals /\ r.asof \in 1..r.at
  /\ Stands(r.asof, r.content)

\* What a request may take for granted between its read and its write.
AskSound(r) ==
  /\ r.op \in Hands => r.asof <= approvals /\ (Settled => r.asof # approvals)
  /\ r.op = "submit" => kind = "zt"
  /\ r.op = "approve" => ~r.ran
  /\ r.op = "finalize" => r.asof \in 1..approvals /\ Stands(r.asof, r.saw)
  /\ r.op \in {"release", "flip"} =>
       /\ r.d \in DOMAIN delivs /\ (r.first \/ delivs[r.d].released)
       /\ r.parent = "approved" => approvals > 0
  /\ r.op = "flip" => kind = "attack" /\ r.parent = "approved"

\* Nothing waits for a review in a released assessment, nor where a release found
\* that nothing did.
QueueSound ==
  "queue" \notin late =>
    /\ status = "released" => QueueIsEmpty
    /\ \A q \in Request : req[q].op = "flip" /\ req[q].clear => QueueIsEmpty

Sound == /\ WorkSound
         /\ \A d \in DOMAIN delivs : ReportSound(delivs[d])
         /\ ReleasedIsWhatWasSent

WorkInv == TypeOK /\ Sound /\ QueueSound /\ \A q \in Request : AskSound(req[q])

\* TypeOK, but for the requests.
DataTyped ==
  /\ kind \in Kinds /\ status \in Status /\ approvals \in 0..MaxApprovals
  /\ rows \in [Row -> RowState]
  /\ delivs \in Seq(Deliverable) /\ Len(delivs) <= MaxDelivs
  /\ run \in Runs /\ late \subseteq Late

LEMMA TypesSplit == TypeOK <=> DataTyped /\ req \in [Request -> Pending]
BY DEF TypeOK, DataTyped

LEMMA IdleIsPending == Idle \in Pending /\ Idle.op = "none"
<1>1. 0 \in 0..MaxDelivs /\ 0 \in 0..MaxApprovals  BY ReviewAssumption
<1>2. [l \in Row |-> "none"] \in Values  BY DEF Values, Said
<1>3. QED  BY <1>1, <1>2 DEF Idle, Pending, Status, AllOps

LEMMA IdleIsSound == AskSound(Idle)
BY IdleIsPending DEF AskSound, Hands

LEMMA NoRunIsARun == NoRun \in Runs /\ NoRun.phase = "idle"
BY DEF NoRun, Runs

LEMMA ContentIsTyped ==
  ASSUME rows \in [Row -> RowState]
  PROVE  Content \in Values /\ \A l \in Row : Effective(l) \in Said
<1>1. \A l \in Row : Effective(l) \in Said
  BY DEF Effective, RowState, Said
<1>2. QED  BY <1>1 DEF Content, Values

LEMMA ContentStays ==
  ASSUME kind' = kind,
         \A l \in Row : rows'[l].said = rows[l].said /\ rows'[l].tools = rows[l].tools
  PROVE  Content' = Content
<1>1. \A l \in Row : Effective(l)' = Effective(l)  BY DEF Effective
<1>2. QED  BY <1>1 DEF Content

LEMMA ApprovalsCount ==
  ASSUME WorkInv  PROVE approvals \in Nat /\ MaxApprovals \in Nat
BY ReviewAssumption DEF WorkInv, TypeOK

---------------------------------------------------------------------------
(* What a step leaves to the requests it does not answer.                  *)

\* Nothing is settled but by an approval; what is settled does not change, unless
\* that is recorded; no report is lost or taken back.
Calm ==
  /\ kind' = kind /\ approvals <= approvals'
  /\ Settled' /\ approvals' = approvals => Settled
  /\ "rows" \notin late' => "rows" \notin late /\ (Settled /\ Settled' => Content' = Content)
  /\ DOMAIN delivs \subseteq DOMAIN delivs'
  /\ \A d \in DOMAIN delivs : delivs[d].released => delivs'[d].released

\* Nor does anything of it begin to wait for a review.
QueueCalm ==
  "queue" \notin late' => "queue" \notin late /\ (Settled /\ QueueIsEmpty => QueueIsEmpty')

\* What was read under an approval still stands if it did.
LEMMA CalmStands ==
  ASSUME WorkSound, Calm, approvals \in Nat, approvals' \in Nat,
         NEW asof \in 1..approvals, NEW content, Stands(asof, content)
  PROVE  Stands(asof, content)'
<1>1. SUFFICES ASSUME "rows" \notin late', Settled',
                      kind' = "attack" \/ asof = approvals'
               PROVE  content = Content'
  BY DEF Stands
<1>2. Settled /\ (kind = "attack" \/ asof = approvals)
  <2>1. CASE approvals' = approvals  BY <1>1, <2>1 DEF Calm
  <2>2. CASE approvals' # approvals
    <3>1. kind = "attack" /\ approvals > 0  BY <1>1, <2>2 DEF Calm
    <3>2. QED  BY <3>1 DEF WorkSound
  <2>3. QED  BY <2>1, <2>2
<1>3. QED  BY <1>1, <1>2 DEF Calm, Stands

LEMMA CalmIsSound ==
  ASSUME WorkSound, Calm, approvals \in Nat, approvals' \in Nat,
         NEW r \in Pending, AskSound(r)
  PROVE  AskSound(r)'
<1>1. r.op \in Hands => r.asof <= approvals' /\ (Settled' => r.asof # approvals')
  <2>1. r.asof \in Nat  BY ReviewAssumption DEF Pending
  <2>2. QED  BY <2>1 DEF AskSound, Calm
<1>2. /\ r.op = "submit" => kind' = "zt"
      /\ r.op = "approve" => ~r.ran
      /\ r.op = "flip" => kind' = "attack" /\ r.parent = "approved"
  BY DEF AskSound, Calm
<1>3. ASSUME r.op = "finalize"
      PROVE  r.asof \in 1..approvals' /\ Stands(r.asof, r.saw)'
  <2>1. r.asof \in 1..approvals /\ Stands(r.asof, r.saw)  BY <1>3 DEF AskSound
  <2>2. r.asof \in 1..approvals'  BY <2>1 DEF Calm
  <2>3. QED  BY <2>1, <2>2, CalmStands
<1>4. r.op \in {"release", "flip"} =>
        /\ r.d \in DOMAIN delivs' /\ (r.first \/ delivs'[r.d].released)
        /\ r.parent = "approved" => approvals' > 0
  BY DEF AskSound, Calm
<1>5. QED  BY <1>1, <1>2, <1>3, <1>4 DEF AskSound

\* A report is as it was, or handed over.
LEMMA CalmReports ==
  ASSUME WorkInv, Calm, approvals' \in Nat,
         NEW d \in DOMAIN delivs, d \in DOMAIN delivs',
         delivs'[d].at = delivs[d].at, delivs'[d].asof = delivs[d].asof,
         delivs'[d].content = delivs[d].content
  PROVE  ReportSound(delivs[d])'
<1>1. approvals \in Nat /\ WorkSound  BY ApprovalsCount DEF WorkInv, Sound
<1>2. ReportSound(delivs[d])  BY DEF WorkInv, Sound
<1>3. PICK asof, content : asof = delivs[d].asof /\ content = delivs[d].content
  OBVIOUS
<1>4. asof \in 1..approvals /\ Stands(asof, content)
  BY <1>1, <1>2, <1>3 DEF ReportSound
<1>5. Stands(asof, content)'  BY <1>1, <1>4, CalmStands
<1>6. delivs'[d].at \in 1..approvals' /\ delivs'[d].asof \in 1..delivs'[d].at
  BY <1>1, <1>2 DEF ReportSound, Calm
<1>7. QED  BY <1>3, <1>5, <1>6 DEF ReportSound, Stands

\* No report is added, none is handed over, and nothing is released.
LEMMA CalmSound ==
  ASSUME WorkInv, Calm, approvals' \in Nat, delivs' = delivs, WorkSound',
         status' = "released" => status = "released"
  PROVE  Sound'
<1>1. \A d \in DOMAIN delivs' : ReportSound(delivs[d])'  BY CalmReports
<1>2. ReleasedIsWhatWasSent'
  BY DEF WorkInv, Sound, ReleasedIsWhatWasSent, Calm, Settled
<1>3. QED  BY <1>1, <1>2 DEF Sound

\* Where a request is about to flip, the assessment was approved.
LEMMA FlipIsSettled ==
  ASSUME WorkInv, NEW q \in Request, req[q].op = "flip"  PROVE Settled
<1>1. AskSound(req[q]) /\ WorkSound  BY DEF WorkInv, Sound
<1>2. QED  BY <1>1 DEF AskSound, WorkSound

LEMMA QueueStays ==
  ASSUME WorkInv, QueueCalm, status' = "released" => status = "released",
         \A p \in Request : req'[p].op = "flip" => req'[p] = req[p]
  PROVE  QueueSound'
<1>1. SUFFICES ASSUME "queue" \notin late'
               PROVE  /\ status' = "released" => QueueIsEmpty'
                      /\ \A p \in Request : req'[p].op = "flip" /\ req'[p].clear
                                             => QueueIsEmpty'
  BY DEF QueueSound
<1>2. Settled /\ QueueIsEmpty => QueueIsEmpty'  BY <1>1 DEF QueueCalm
<1>3. /\ status = "released" => QueueIsEmpty
      /\ \A p \in Request : req[p].op = "flip" /\ req[p].clear => QueueIsEmpty
  BY <1>1 DEF QueueCalm, WorkInv, QueueSound
<1>4. status' = "released" => QueueIsEmpty'  BY <1>2, <1>3 DEF Settled
<1>5. ASSUME NEW p \in Request, req'[p].op = "flip", req'[p].clear
      PROVE  QueueIsEmpty'
  <2>1. req[p].op = "flip" /\ req[p].clear  BY <1>5
  <2>2. QED  BY <1>2, <1>3, <2>1, FlipIsSettled
<1>6. QED  BY <1>4, <1>5

\* A step of a request: it goes on with another question, or is done.
LEMMA AnswerKeeps ==
  ASSUME WorkInv, NEW q \in Request, NEW ask \in Pending,
         req' = [req EXCEPT ![q] = ask], AskSound(ask)', DataTyped', Sound',
         Calm, QueueSound'
  PROVE  WorkInv'
<1>1. /\ req \in [Request -> Pending] /\ req' \in [Request -> Pending]
      /\ TypeOK /\ TypeOK'
  BY TypesSplit DEF WorkInv, TypeOK, DataTyped
<1>2. approvals \in Nat /\ approvals' \in Nat /\ WorkSound
  BY <1>1, ReviewAssumption DEF TypeOK, WorkInv, Sound
<1>3. ASSUME NEW p \in Request  PROVE AskSound(req[p])'
  <2>1. CASE p = q
    <3>1. req'[p] = ask  BY <1>1, <2>1
    <3>2. QED  BY <3>1 DEF AskSound, Stands
  <2>2. CASE p # q
    <3>1. PICK r \in Pending : r = req[p]  BY <1>1
    <3>2. AskSound(r)  BY <3>1 DEF WorkInv
    <3>3. AskSound(r)'  BY <1>2, <3>2, CalmIsSound
    <3>4. req'[p] = r  BY <1>1, <2>2, <3>1
    <3>5. QED  BY <3>3, <3>4 DEF AskSound, Stands
  <2>3. QED  BY <2>1, <2>2
<1>4. QED  BY <1>1, <1>3 DEF WorkInv

\* Of a step that answers no flip, the queue is as calm as the step.
LEMMA PlainAnswerKeeps ==
  ASSUME WorkInv, NEW q \in Request, NEW ask \in Pending, ask.op # "flip",
         req' = [req EXCEPT ![q] = ask], AskSound(ask)', DataTyped', Sound',
         Calm, QueueCalm, status' = "released" => status = "released"
  PROVE  WorkInv'
<1>1. req \in [Request -> Pending]  BY DEF WorkInv, TypeOK
<1>2. \A p \in Request : req'[p].op = "flip" => req'[p] = req[p]  BY <1>1
<1>3. QueueSound'  BY <1>2, QueueStays
<1>4. QED  BY <1>3, AnswerKeeps

\* A request that is done.
LEMMA DoneKeeps ==
  ASSUME WorkInv, NEW q \in Request, Finish(q), DataTyped', Sound', Calm, QueueCalm,
         status' = "released" => status = "released"
  PROVE  WorkInv'
<1>1. AskSound(Idle)'  BY IdleIsPending DEF AskSound, Hands
<1>2. QED  BY <1>1, IdleIsPending, PlainAnswerKeeps DEF Finish

\* A step of the job of a run.
LEMMA JobKeeps ==
  ASSUME WorkInv, UNCHANGED req, DataTyped', Sound', Calm, QueueCalm,
         status' = "released" => status = "released"
  PROVE  WorkInv'
<1>1. req \in [Request -> Pending] /\ TypeOK /\ TypeOK'
  BY TypesSplit DEF WorkInv, TypeOK, DataTyped
<1>2. approvals \in Nat /\ approvals' \in Nat /\ WorkSound
  BY <1>1, ReviewAssumption DEF TypeOK, WorkInv, Sound
<1>3. ASSUME NEW p \in Request  PROVE AskSound(req[p])'
  <2>1. PICK r \in Pending : r = req[p]  BY <1>1
  <2>2. AskSound(r)  BY <2>1 DEF WorkInv
  <2>3. AskSound(r)'  BY <1>2, <2>2, CalmIsSound
  <2>4. req'[p] = r  BY <2>1
  <2>5. QED  BY <2>3, <2>4 DEF AskSound, Stands
<1>4. QueueSound'  BY QueueStays
<1>5. QED  BY <1>1, <1>3, <1>4 DEF WorkInv

\* Nothing but the requests and the run moves.
LEMMA NothingMoves ==
  ASSUME WorkInv, UNCHANGED <<kind, status, approvals, rows, delivs, late>>
  PROVE  Calm /\ QueueCalm /\ (WorkSound' => Sound')
<1>1. approvals \in Nat /\ approvals' \in Nat  BY ApprovalsCount
<1>2. Content' = Content /\ (Settled' <=> Settled)
  BY DEF Content, Effective, Settled
<1>3. Calm  BY <1>1, <1>2 DEF Calm
<1>4. QueueCalm  BY DEF QueueCalm, QueueIsEmpty, InReview, Effective
<1>5. QED  BY <1>1, <1>3, <1>4, CalmSound

---------------------------------------------------------------------------
(* The steps that read.                                                    *)

LEMMA ReadKeeps ==
  ASSUME WorkInv, NEW q \in Request, NEW ask \in Pending, ask.op # "flip",
         req' = [req EXCEPT ![q] = ask], AskSound(ask),
         UNCHANGED <<kind, status, approvals, rows, delivs, run, late>>
  PROVE  WorkInv'
<1>1. AskSound(ask)'
  BY DEF AskSound, Stands, Settled, Content, Effective
<1>2. DataTyped' /\ WorkSound'
  BY TypesSplit DEF WorkInv, DataTyped, Sound, WorkSound, Settled
<1>3. Sound' /\ Calm /\ QueueCalm  BY <1>2, NothingMoves
<1>4. QED  BY <1>1, <1>2, <1>3, PlainAnswerKeeps

\* A request that begins by reading no more than the status.
LEMMA PlainReadKeeps ==
  ASSUME WorkInv, NEW q \in Request, NEW op \in AllOps, Begin(q, op, Idle),
         op \notin Hands \cup {"approve", "finalize", "release"},
         op = "submit" => kind = "zt"
  PROVE  WorkInv'
<1>1. DEFINE ask == [Idle EXCEPT !.op = op]
<1>2. ask \in Pending  BY IdleIsPending DEF Pending
<1>3. ask.op = op /\ op # "flip"  BY DEF Idle, AllOps
<1>4. req' = [req EXCEPT ![q] = ask]  BY DEF Begin
<1>5. UNCHANGED <<kind, status, approvals, rows, delivs, run, late>>  BY DEF Begin
<1> HIDE DEF ask
<1>6. AskSound(ask)  BY <1>3 DEF AskSound
<1>7. QED  BY <1>2, <1>3, <1>4, <1>5, <1>6, ReadKeeps

\* An approval begins while no run is in progress.
LEMMA ApproveReadKeeps ==
  ASSUME WorkInv, NEW q \in Request, ApproveRead(q)  PROVE WorkInv'
<1>1. Begin(q, "approve", [Idle EXCEPT !.ran = Running]) /\ ~Running
  BY DEF ApproveRead
<1>2. DEFINE ask == [[Idle EXCEPT !.ran = Running] EXCEPT !.op = "approve"]
<1>3. Running \in BOOLEAN  BY DEF Running
<1>4. ask \in Pending  BY <1>3, IdleIsPending DEF Pending, AllOps
<1>5. ask.op = "approve" /\ ask.ran = Running  BY DEF Idle
<1>6. req' = [req EXCEPT ![q] = ask]  BY <1>1 DEF Begin
<1>7. UNCHANGED <<kind, status, approvals, rows, delivs, run, late>>
  BY <1>1 DEF Begin
<1> HIDE DEF ask
<1>8. AskSound(ask)  BY <1>1, <1>5 DEF AskSound, Hands
<1>9. QED  BY <1>4, <1>5, <1>6, <1>7, <1>8, ReadKeeps

\* An edit begins while the assessment is open.
LEMMA HandsRead ==
  ASSUME WorkInv, NEW q \in Request, NEW ask \in Pending, NEW op \in Hands,
         Begin(q, op, ask), ~Settled, ask.asof = approvals
  PROVE  WorkInv'
<1>1. DEFINE told == [ask EXCEPT !.op = op]
<1>2. /\ told \in Pending /\ told.op = op /\ op # "flip"
      /\ told.asof = approvals
  BY DEF Pending, Hands, AllOps
<1>3. req' = [req EXCEPT ![q] = told]  BY DEF Begin
<1>4. UNCHANGED <<kind, status, approvals, rows, delivs, run, late>>  BY DEF Begin
<1> HIDE DEF told
<1>5. AskSound(told)  BY <1>2, ApprovalsCount DEF AskSound, Hands
<1>6. QED  BY <1>2, <1>3, <1>4, <1>5, ReadKeeps

LEMMA PatchReadKeeps ==
  ASSUME WorkInv, NEW q \in Request, NEW l \in Row, PatchRead(q, l)  PROVE WorkInv'
<1>1. PICK said \in Said \cup {Keep}, tools \in {"none", "confirmed", Keep} :
        Begin(q, "patch", [Idle EXCEPT !.of = {l}, !.said = said, !.tools = tools,
                                       !.asof = approvals])
  BY DEF PatchRead
<1>2. DEFINE ask == [Idle EXCEPT !.of = {l}, !.said = said, !.tools = tools,
                                 !.asof = approvals]
<1>3. approvals \in 0..MaxApprovals  BY DEF WorkInv, TypeOK
<1>4. ask \in Pending /\ ask.asof = approvals  BY <1>3, IdleIsPending DEF Pending
<1>5. ~Settled /\ "patch" \in Hands  BY DEF PatchRead, Locked, Hands
<1> HIDE DEF ask
<1>6. QED  BY <1>1, <1>4, <1>5, HandsRead DEF ask

LEMMA SelfReadKeeps ==
  ASSUME WorkInv, NEW q \in Request, NEW l \in Row, SelfRead(q, l)  PROVE WorkInv'
<1>1. PICK said \in Said :
        Begin(q, "self", [Idle EXCEPT !.of = {l}, !.said = said, !.asof = approvals])
  BY DEF SelfRead
<1>2. DEFINE ask == [Idle EXCEPT !.of = {l}, !.said = said, !.asof = approvals]
<1>3. approvals \in 0..MaxApprovals  BY DEF WorkInv, TypeOK
<1>4. ask \in Pending /\ ask.asof = approvals  BY <1>3, IdleIsPending DEF Pending
<1>5. ~Settled /\ "self" \in Hands  BY DEF SelfRead, Settled, Hands
<1> HIDE DEF ask
<1>6. QED  BY <1>1, <1>4, <1>5, HandsRead DEF ask

LEMMA ConfirmReadKeeps ==
  ASSUME WorkInv, NEW q \in Request, NEW l \in Row, ConfirmRead(q, l)
  PROVE  WorkInv'
<1>1. Begin(q, "confirm", [Idle EXCEPT !.of = {l}, !.tools = "confirmed",
                                       !.asof = approvals])
  BY DEF ConfirmRead
<1>2. DEFINE ask == [Idle EXCEPT !.of = {l}, !.tools = "confirmed", !.asof = approvals]
<1>3. approvals \in 0..MaxApprovals  BY DEF WorkInv, TypeOK
<1>4. ask \in Pending /\ ask.asof = approvals  BY <1>3, IdleIsPending DEF Pending
<1>5. ~Settled /\ "confirm" \in Hands  BY DEF ConfirmRead, Locked, Hands
<1> HIDE DEF ask
<1>6. QED  BY <1>1, <1>4, <1>5, HandsRead DEF ask

LEMMA ReviewReadKeeps ==
  ASSUME WorkInv, NEW q \in Request, ReviewRead(q)  PROVE WorkInv'
<1>1. PICK S \in SUBSET Row :
        Begin(q, "review",
              [Idle EXCEPT !.saw = [l \in Row |-> IF l \in S THEN Effective(l)
                                                            ELSE "none"]])
  BY DEF ReviewRead
<1>2. DEFINE saw == [l \in Row |-> IF l \in S THEN Effective(l) ELSE "none"]
             ask == [[Idle EXCEPT !.saw = saw] EXCEPT !.op = "review"]
<1>3. saw \in Values
  BY ContentIsTyped DEF WorkInv, TypeOK, Values, Said
<1>4. req' = [req EXCEPT ![q] = ask]  BY <1>1 DEF Begin
<1> HIDE DEF saw
<1>5. ask \in Pending  BY <1>3, IdleIsPending DEF Pending, AllOps
<1>6. ask.op = "review"  BY DEF Idle
<1>7. UNCHANGED <<kind, status, approvals, rows, delivs, run, late>>
  BY <1>1 DEF Begin
<1> HIDE DEF ask
<1>8. AskSound(ask)  BY <1>6 DEF AskSound, Hands
<1>9. QED  BY <1>4, <1>5, <1>6, <1>7, <1>8, ReadKeeps

LEMMA FinalizeReadKeeps ==
  ASSUME WorkInv, NEW q \in Request, FinalizeRead(q)  PROVE WorkInv'
<1>1. /\ Begin(q, "finalize", [Idle EXCEPT !.saw = Content, !.asof = approvals])
      /\ Settled
  BY DEF FinalizeRead
<1>2. DEFINE ask == [[Idle EXCEPT !.saw = Content, !.asof = approvals]
                       EXCEPT !.op = "finalize"]
<1>3. Content \in Values /\ approvals \in 0..MaxApprovals
  BY ContentIsTyped DEF WorkInv, TypeOK
<1>4. ask \in Pending  BY <1>3, IdleIsPending DEF Pending, AllOps
<1>5. ask.op = "finalize" /\ ask.saw = Content /\ ask.asof = approvals
  BY DEF Idle
<1>6. req' = [req EXCEPT ![q] = ask]  BY <1>1 DEF Begin
<1>7. UNCHANGED <<kind, status, approvals, rows, delivs, run, late>>
  BY <1>1 DEF Begin
<1> HIDE DEF ask
<1>8. approvals \in 1..approvals
  BY <1>1, ApprovalsCount DEF WorkInv, Sound, WorkSound
<1>9. AskSound(ask)  BY <1>5, <1>8 DEF AskSound, Stands, Hands
<1>10. QED  BY <1>4, <1>5, <1>6, <1>7, <1>9, ReadKeeps

LEMMA ReleaseReadKeeps ==
  ASSUME WorkInv, NEW q \in Request, NEW d \in 1..MaxDelivs, ReleaseRead(q, d)
  PROVE  WorkInv'
<1>1. /\ d \in DOMAIN delivs
      /\ Begin(q, "release", [Idle EXCEPT !.d = d, !.parent = status,
                                          !.first = ~delivs[d].released])
  BY DEF ReleaseRead
<1>2. DEFINE ask == [[Idle EXCEPT !.d = d, !.parent = status,
                                  !.first = ~delivs[d].released]
                       EXCEPT !.op = "release"]
<1>3. d \in 0..MaxDelivs /\ status \in Status
  BY ReviewAssumption DEF WorkInv, TypeOK
<1>4. ask \in Pending  BY <1>3, IdleIsPending DEF Pending, AllOps
<1>5. /\ ask.op = "release" /\ ask.d = d /\ ask.first = ~delivs[d].released
      /\ ask.parent = status
  BY DEF Idle
<1>6. req' = [req EXCEPT ![q] = ask]  BY <1>1 DEF Begin
<1>7. UNCHANGED <<kind, status, approvals, rows, delivs, run, late>>
  BY <1>1 DEF Begin
<1> HIDE DEF ask
<1>8. status = "approved" => approvals > 0
  BY DEF WorkInv, Sound, WorkSound, Settled
<1>9. AskSound(ask)  BY <1>1, <1>5, <1>8 DEF AskSound, Hands
<1>10. QED  BY <1>4, <1>5, <1>6, <1>7, <1>9, ReadKeeps

LEMMA ReadsKeep ==
  ASSUME WorkInv, NEW q \in Request, Read(q)  PROVE WorkInv'
<1>1. SubmitRead(q) => WorkInv'
  BY PlainReadKeeps DEF SubmitRead, AllOps, Hands
<1>2. DiscardRead(q) => WorkInv'
  BY PlainReadKeeps DEF DiscardRead, AllOps, Hands
<1>3. RunRead(q) => WorkInv'
  BY PlainReadKeeps DEF RunRead, AllOps, Hands
<1>4. QED
  BY <1>1, <1>2, <1>3, ApproveReadKeeps, ReviewReadKeeps, FinalizeReadKeeps,
     PatchReadKeeps, SelfReadKeeps, ConfirmReadKeeps, ReleaseReadKeeps
  DEF Read

---------------------------------------------------------------------------
(* The steps that write.                                                   *)

LEMMA EditedIsTyped ==
  ASSUME NEW row \in RowState, NEW r \in Pending
  PROVE  Edited(row, r) \in RowState
<1>1. DEFINE said == IF r.said = Keep THEN row.said ELSE r.said
             tools == CASE r.tools = Keep -> row.tools
                        [] r.op = "confirm" /\ row.tools = "none" -> row.tools
                        [] OTHER -> r.tools
<1>2. said \in Said  BY DEF Pending, RowState
<1>3. tools \in {"none", "inferred", "confirmed"}  BY DEF Pending, RowState
<1>4. Edited(row, r) = [row EXCEPT !.said = said, !.tools = tools]  BY DEF Edited
<1> HIDE DEF said, tools
<1>5. QED  BY <1>2, <1>3, <1>4 DEF RowState

\* Rows written over approved work are recorded; of open work nothing stands yet.
LEMMA RowsWritten ==
  ASSUME WorkInv, UNCHANGED <<kind, status, approvals, delivs>>,
         late \subseteq late', Settled => {"rows", "queue"} \subseteq late'
  PROVE  Calm /\ QueueCalm
<1>1. approvals \in Nat /\ (Settled' <=> Settled)
  BY ApprovalsCount DEF Settled
<1>2. Calm  BY <1>1 DEF Calm
<1>3. QueueCalm
  <2>1. "queue" \notin late' => "queue" \notin late /\ ~Settled  OBVIOUS
  <2>2. QED  BY <2>1, Zenon DEF QueueCalm
<1>4. QED  BY <1>2, <1>3

\* An edit under way over approved work read it before the approval.
LEMMA EditWriteKeeps ==
  ASSUME WorkInv, NEW q \in Request, EditWrite(q)  PROVE WorkInv'
<1>1. PICK r \in Pending : r = req[q]  BY DEF WorkInv, TypeOK
<1>2. /\ AskSound(r) /\ r.op \in Hands /\ Finish(q)
      /\ UNCHANGED <<kind, status, approvals, delivs>>
      /\ rows' = [l \in Row |-> IF l \in r.of THEN Edited(rows[l], r) ELSE rows[l]]
      /\ run' = IF Running THEN [run EXCEPT !.edited = @ \cup r.of] ELSE run
      /\ late' = IF Settled /\ r.asof # approvals THEN late \cup {"rows", "queue"}
                                                ELSE late
  BY <1>1 DEF WorkInv, EditWrite, Hands, LateIf, Overtaken
<1>3. /\ late \subseteq late' /\ (Settled => {"rows", "queue"} \subseteq late')
      /\ late' \subseteq Late
  BY <1>2 DEF AskSound, WorkInv, TypeOK, Late
<1>4. rows' \in [Row -> RowState]
  <2>1. \A l \in Row : rows[l] \in RowState  BY DEF WorkInv, TypeOK
  <2>2. QED  BY <1>2, <2>1, EditedIsTyped
<1>5. run' \in Runs /\ run'.phase = run.phase /\ run'.unseen = run.unseen
  <2>1. r.of \in SUBSET Row  BY DEF Pending
  <2>2. run \in Runs  BY DEF WorkInv, TypeOK
  <2>3. QED  BY <1>2, <2>1, <2>2 DEF Runs
<1>6. DataTyped'  BY <1>2, <1>3, <1>4, <1>5 DEF WorkInv, TypeOK, DataTyped
<1>7. WorkSound'  BY <1>2, <1>5 DEF WorkInv, Sound, WorkSound, Settled
<1>8. Calm /\ QueueCalm  BY <1>2, <1>3, RowsWritten
<1>9. Sound'  BY <1>2, <1>7, <1>8, ApprovalsCount, CalmSound
<1>10. QED  BY <1>2, <1>6, <1>8, <1>9, DoneKeeps

\* What is accepted is the computed status, or that is recorded.
LEMMA ReviewWriteKeeps ==
  ASSUME WorkInv, NEW q \in Request, ReviewWrite(q)  PROVE WorkInv'
<1>1. PICK r \in Pending : r = req[q]  BY DEF WorkInv, TypeOK
<1>2. /\ r.op = "review" /\ Finish(q)
      /\ UNCHANGED <<kind, status, approvals, delivs, run>>
      /\ rows' = [l \in Row |-> IF r.saw[l] = "none" THEN rows[l]
                                ELSE [rows[l] EXCEPT !.reviewed = r.saw[l]]]
      /\ late' = IF \E l \in Row : r.saw[l] \notin {"none", Effective(l)}
                THEN late \cup {"queue"} ELSE late
  BY <1>1 DEF WorkInv, ReviewWrite, LateIf
<1>3. \A l \in Row : rows[l] \in RowState /\ r.saw[l] \in Said
  BY DEF WorkInv, TypeOK, Pending, Values
<1>4. \A l \in Row : /\ rows'[l] \in RowState
                     /\ rows'[l].said = rows[l].said /\ rows'[l].tools = rows[l].tools
  BY <1>2, <1>3 DEF RowState
<1>5. Content' = Content /\ \A l \in Row : Effective(l)' = Effective(l)
  BY <1>2, <1>4, ContentStays DEF Effective
<1>6. DataTyped'
  <2>1. rows' \in [Row -> RowState]  BY <1>2, <1>4
  <2>2. late' \subseteq Late  BY <1>2 DEF WorkInv, TypeOK, Late
  <2>3. QED  BY <1>2, <2>1, <2>2 DEF WorkInv, TypeOK, DataTyped
<1>7. approvals \in Nat /\ (Settled' <=> Settled)
  BY <1>2, ApprovalsCount DEF Settled
<1>8. Calm  BY <1>2, <1>5, <1>7 DEF Calm
<1>9. QueueCalm
  <2>1. SUFFICES ASSUME "queue" \notin late'
                 PROVE  "queue" \notin late /\ (QueueIsEmpty => QueueIsEmpty')
    BY DEF QueueCalm
  <2>2. "queue" \notin late /\ \A l \in Row : r.saw[l] \in {"none", Effective(l)}
    BY <1>2, <2>1
  <2>3. ASSUME QueueIsEmpty, NEW l \in Row  PROVE ~InReview(l)'
    <3>1. ~InReview(l)  BY <2>3 DEF QueueIsEmpty
    <3>2. rows'[l].reviewed \in {rows[l].reviewed, Effective(l)}
      BY <1>2, <1>3, <2>2 DEF RowState
    <3>3. QED  BY <1>2, <1>4, <1>5, <3>1, <3>2 DEF InReview
  <2>4. QED  BY <2>2, <2>3 DEF QueueIsEmpty
<1>10. WorkSound'  BY <1>2 DEF WorkInv, Sound, WorkSound, Settled
<1>11. Sound'  BY <1>2, <1>7, <1>8, <1>10, CalmSound
<1>12. QED  BY <1>2, <1>6, <1>8, <1>9, <1>11, DoneKeeps

\* A step of a request that leaves the data and the run as they were, but for the
\* status: one that is not an approval's or a release's.
LEMMA OpenStatusKeeps ==
  ASSUME WorkInv, NEW q \in Request, NEW s \in Status \ {"approved", "released"},
         SetStatus(q, s), UNCHANGED <<approvals, run>>,
         kind = "attack" => approvals = 0
  PROVE  WorkInv'
<1>1. /\ status' = s /\ Finish(q)
      /\ UNCHANGED <<kind, approvals, rows, delivs, run, late>>
  BY DEF SetStatus
<1>2. ~Settled' /\ status' # "released"  BY <1>1 DEF Settled
<1>3. DataTyped'  BY <1>1 DEF WorkInv, TypeOK, DataTyped
<1>4. approvals \in Nat  BY ApprovalsCount
<1>5. WorkSound'  BY <1>1, <1>2, <1>4 DEF WorkSound
<1>6. Calm  BY <1>1, <1>2, <1>4 DEF Calm
<1>7. QueueCalm
  BY <1>1 DEF QueueCalm, QueueIsEmpty, InReview, Effective
<1>8. Sound'  BY <1>1, <1>2, <1>4, <1>5, <1>6, CalmSound
<1>9. QED  BY <1>1, <1>2, <1>3, <1>6, <1>7, <1>8, DoneKeeps

\* A step that leaves everything but the request as it was.
LEMMA RefusalKeeps ==
  ASSUME WorkInv, NEW q \in Request, Finish(q),
         UNCHANGED <<kind, status, approvals, rows, delivs, run, late>>
  PROVE  WorkInv'
BY IdleIsPending, IdleIsSound, ReadKeeps DEF Finish

LEMMA SubmitWriteKeeps ==
  ASSUME WorkInv, NEW q \in Request, SubmitWrite(q)  PROVE WorkInv'
<1>1. kind = "zt"  BY DEF WorkInv, AskSound, SubmitWrite
<1>2. QED  BY <1>1, OpenStatusKeeps DEF SubmitWrite, Status

LEMMA DiscardWriteKeeps ==
  ASSUME WorkInv, NEW q \in Request, DiscardWrite(q)  PROVE WorkInv'
<1>1. CASE status = "draft"
  <2>1. approvals \in Nat /\ ~Settled  BY <1>1, ApprovalsCount DEF Settled
  <2>2. kind = "attack" => approvals = 0
    BY <2>1 DEF WorkInv, Sound, WorkSound
  <2>3. QED  BY <1>1, <2>2, OpenStatusKeeps DEF DiscardWrite, Status
<1>2. CASE status # "draft"
  BY <1>2, RefusalKeeps DEF DiscardWrite, SetStatus
<1>3. QED  BY <1>1, <1>2

\* An approval looked for a run before: one in progress now is not seen by it.
\* Every report, and every content read for one, is of an earlier approval.
LEMMA ApproveWriteKeeps ==
  ASSUME WorkInv, NEW q \in Request, ApproveWrite(q)  PROVE WorkInv'
<1>1. req[q].op = "approve" /\ ~req[q].ran /\ approvals < MaxApprovals
  BY DEF WorkInv, ApproveWrite, AskSound
<1>2. CASE ~Approvable
  BY <1>2, RefusalKeeps DEF ApproveWrite, SetStatus
<1>3. CASE Approvable
  <2>1. /\ status' = "approved" /\ approvals' = approvals + 1 /\ Finish(q)
        /\ UNCHANGED <<kind, rows, delivs, late>>
        /\ run' = IF Running THEN [run EXCEPT !.unseen = TRUE] ELSE run
    BY <1>1, <1>3 DEF ApproveWrite, SetStatus
  <2>2. approvals \in Nat /\ approvals' \in 0..MaxApprovals /\ approvals' > 0
    BY <1>1, <2>1, ApprovalsCount
  <2>3. Content' = Content /\ Settled'
    BY <2>1 DEF Content, Effective, Settled
  <2>4. run' \in Runs /\ (run'.phase \in {"working", "checked"} => run'.unseen)
    <3>1. run \in Runs  BY DEF WorkInv, TypeOK
    <3>2. QED  BY <2>1, <3>1 DEF Runs, Running
  <2>5. DataTyped'  BY <2>1, <2>2, <2>4 DEF WorkInv, TypeOK, DataTyped, Status
  <2>6. WorkSound'  BY <2>2, <2>3, <2>4 DEF WorkSound
  <2>7. Calm  BY <2>1, <2>2, <2>3 DEF Calm
  <2>8. QueueCalm
    BY <2>1 DEF QueueCalm, QueueIsEmpty, InReview, Effective
  <2>9. Sound'  BY <2>1, <2>2, <2>6, <2>7, CalmSound
  <2>10. QED  BY <2>1, <2>5, <2>7, <2>8, <2>9, DoneKeeps
<1>4. QED  BY <1>2, <1>3

\* What is stored was read under the approval it was read under.
LEMMA FinalizeWriteKeeps ==
  ASSUME WorkInv, NEW q \in Request, FinalizeWrite(q)  PROVE WorkInv'
<1>1. PICK r \in Pending : r = req[q]  BY DEF WorkInv, TypeOK
<1>2. DEFINE d == [content |-> r.saw, asof |-> r.asof, at |-> approvals,
                   released |-> FALSE]
<1>3. /\ AskSound(r) /\ r.op = "finalize" /\ Finish(q) /\ Len(delivs) < MaxDelivs
      /\ delivs' = Append(delivs, d)
      /\ UNCHANGED <<kind, status, approvals, rows, run, late>>
  BY <1>1 DEF WorkInv, FinalizeWrite
<1>4. /\ approvals \in 0..MaxApprovals /\ r.saw \in Values
      /\ r.asof \in 0..MaxApprovals /\ r.asof \in 1..approvals
      /\ Stands(r.asof, r.saw)
  BY <1>3 DEF WorkInv, TypeOK, AskSound, Pending
<1>5. /\ d \in Deliverable /\ d.at = approvals /\ d.content = r.saw
      /\ d.asof = r.asof
  BY <1>4 DEF Deliverable
<1> HIDE DEF d
<1>6. /\ delivs \in Seq(Deliverable) /\ delivs' \in Seq(Deliverable)
      /\ Len(delivs') = Len(delivs) + 1 /\ Len(delivs) \in Nat
      /\ delivs'[Len(delivs) + 1] = d
      /\ \A n \in 1..Len(delivs) : delivs'[n] = delivs[n]
  BY <1>3, <1>5 DEF WorkInv, TypeOK
<1>7. Content' = Content /\ (Settled' <=> Settled)
  BY <1>3 DEF Content, Effective, Settled
<1>8. DataTyped'
  <2>1. Len(delivs') <= MaxDelivs  BY <1>3, <1>6, ReviewAssumption
  <2>2. QED  BY <1>3, <1>6, <2>1 DEF WorkInv, TypeOK, DataTyped
<1>9. Calm /\ approvals' \in Nat
  BY <1>3, <1>6, <1>7, ApprovalsCount DEF Calm
<1>10. QueueCalm
  BY <1>3 DEF QueueCalm, QueueIsEmpty, InReview, Effective
<1>11. Sound'
  <2>1. WorkSound'  BY <1>3, <1>7 DEF WorkInv, Sound, WorkSound
  <2>2. ASSUME NEW n \in DOMAIN delivs'  PROVE ReportSound(delivs[n])'
    <3>1. CASE n \in DOMAIN delivs
      <4>1. delivs'[n] = delivs[n]  BY <1>6, <3>1
      <4>2. QED  BY <1>9, <3>1, <4>1, CalmReports
    <3>2. CASE n \notin DOMAIN delivs
      <4>1. delivs'[n] = d
        <5>1. n = Len(delivs) + 1  BY <1>6, <3>2
        <5>2. QED  BY <1>6, <5>1
      <4>2. approvals' = approvals /\ approvals \in Nat /\ Stands(r.asof, r.saw)'
        BY <1>3, <1>4, <1>7, ApprovalsCount DEF Stands
      <4>3. QED  BY <1>4, <1>5, <4>1, <4>2 DEF ReportSound, Stands
    <3>3. QED  BY <3>1, <3>2
  <2>3. ReleasedIsWhatWasSent'
    BY <1>3, <1>6, <1>7 DEF WorkInv, Sound, ReleasedIsWhatWasSent
  <2>4. QED  BY <2>1, <2>2, <2>3 DEF Sound
<1>12. QED  BY <1>3, <1>8, <1>9, <1>10, <1>11, DoneKeeps

\* A deliverable that is handed over is otherwise as it was.
LEMMA HandedOver ==
  ASSUME WorkInv, NEW d \in DOMAIN delivs,
         delivs' = [delivs EXCEPT ![d].released = TRUE]
  PROVE  /\ delivs' \in Seq(Deliverable) /\ Len(delivs') = Len(delivs)
         /\ DOMAIN delivs' = DOMAIN delivs /\ delivs'[d].released
         /\ \A e \in DOMAIN delivs :
              /\ delivs'[e].content = delivs[e].content
              /\ delivs'[e].at = delivs[e].at /\ delivs'[e].asof = delivs[e].asof
              /\ delivs[e].released => delivs'[e].released
<1>1. delivs \in Seq(Deliverable) /\ delivs[d] \in Deliverable
  BY DEF WorkInv, TypeOK
<1>2. DEFINE new == [delivs[d] EXCEPT !.released = TRUE]
<1>3. /\ new \in Deliverable /\ new.released
      /\ new.content = delivs[d].content /\ new.at = delivs[d].at
      /\ new.asof = delivs[d].asof
  BY <1>1 DEF Deliverable
<1>4. delivs' = [delivs EXCEPT ![d] = new]  BY <1>1
<1> HIDE DEF new
<1>5. delivs' \in Seq(Deliverable) /\ Len(delivs') = Len(delivs)
  <2>1. d \in 1..Len(delivs)  BY <1>1
  <2>2. /\ [delivs EXCEPT ![d] = new] \in Seq(Deliverable)
        /\ Len([delivs EXCEPT ![d] = new]) = Len(delivs)
    BY <1>1, <1>3, <2>1, ExceptSeq
  <2>3. QED  BY <1>4, <2>2
<1>6. /\ DOMAIN delivs' = DOMAIN delivs /\ delivs'[d] = new
      /\ \A e \in DOMAIN delivs : e # d => delivs'[e] = delivs[e]
  BY <1>4
<1>7. QED  BY <1>3, <1>5, <1>6

\* The release looks at the queue: that it was empty then is what it goes on with.
LEMMA ReleaseQueueKeeps ==
  ASSUME WorkInv, NEW q \in Request, ReleaseQueue(q)  PROVE WorkInv'
<1>1. PICK r \in Pending : r = req[q]  BY DEF WorkInv, TypeOK
<1>2. PICK clear \in BOOLEAN : clear = QueueIsEmpty  BY DEF QueueIsEmpty
<1>3. /\ AskSound(r) /\ r.op = "release" /\ r.parent = "approved" /\ kind = "attack"
      /\ late' = IF QueueIsEmpty THEN late \ {"queue"} ELSE late
      /\ UNCHANGED <<kind, status, approvals, rows, delivs, run>>
  BY <1>1 DEF WorkInv, ReleaseQueue
<1>4. PICK ask \in Pending : ask = [r EXCEPT !.op = "flip", !.clear = clear]
  BY <1>2 DEF Pending
<1>5. req' = [req EXCEPT ![q] = ask]
  <2>1. req \in [Request -> Pending]  BY DEF WorkInv, TypeOK
  <2>2. req' = [req EXCEPT ![q].op = "flip", ![q].clear = QueueIsEmpty]
    BY DEF ReleaseQueue
  <2>3. QED  BY <1>1, <1>2, <1>4, <2>1, <2>2 DEF Pending
<1>6. /\ ask.op = "flip" /\ ask.clear = QueueIsEmpty /\ ask.d = r.d
      /\ ask.first = r.first /\ ask.parent = r.parent
  BY <1>2, <1>4 DEF Pending
<1>7. AskSound(ask)'
  <2>1. /\ r.d \in DOMAIN delivs /\ (r.first \/ delivs[r.d].released)
        /\ approvals > 0
    BY <1>3 DEF AskSound
  <2>2. QED  BY <1>3, <1>6, <2>1 DEF AskSound, Hands
<1>8. late' \subseteq late /\ ("rows" \in late' <=> "rows" \in late)  BY <1>3
<1>9. Content' = Content /\ (Settled' <=> Settled) /\ (QueueIsEmpty' <=> QueueIsEmpty)
  BY <1>3 DEF Content, Effective, Settled, QueueIsEmpty, InReview
<1>10. DataTyped'  BY <1>3, <1>8 DEF WorkInv, TypeOK, DataTyped
<1>11. Calm /\ approvals' \in Nat  BY <1>3, <1>8, <1>9, ApprovalsCount DEF Calm
<1>12. WorkSound'  BY <1>3, <1>9 DEF WorkInv, Sound, WorkSound
<1>13. Sound'  BY <1>3, <1>11, <1>12, CalmSound
<1>14. QueueSound'
  <2>1. SUFFICES ASSUME "queue" \notin late', ~QueueIsEmpty
                 PROVE  /\ status' # "released"
                        /\ \A p \in Request : ~(req'[p].op = "flip" /\ req'[p].clear)
    BY <1>9 DEF QueueSound
  <2>2. /\ status # "released"
        /\ \A p \in Request : ~(req[p].op = "flip" /\ req[p].clear)
    BY <1>3, <2>1 DEF WorkInv, QueueSound
  <2>3. ASSUME NEW p \in Request  PROVE ~(req'[p].op = "flip" /\ req'[p].clear)
    <3>1. req \in [Request -> Pending]  BY DEF WorkInv, TypeOK
    <3>2. CASE p = q
      <4>1. req'[p] = ask  BY <1>5, <3>1, <3>2
      <4>2. QED  BY <1>6, <2>1, <4>1
    <3>3. CASE p # q
      <4>1. req'[p] = req[p]  BY <1>5, <3>1, <3>3
      <4>2. QED  BY <2>2, <4>1
    <3>4. QED  BY <3>2, <3>3
  <2>4. QED  BY <1>3, <2>2, <2>3
<1>15. QED  BY <1>5, <1>7, <1>10, <1>11, <1>13, <1>14, AnswerKeeps

\* A flip finds no later approval than the report's, or found that nothing waited.
LEMMA ReleaseWriteKeeps ==
  ASSUME WorkInv, NEW q \in Request, ReleaseWrite(q)  PROVE WorkInv'
<1>1. PICK r \in Pending : r = req[q]  BY DEF WorkInv, TypeOK
<1>2. /\ AskSound(r) /\ r.op \in {"release", "flip"} /\ Finish(q)
      /\ UNCHANGED <<kind, approvals, rows, run, late>>
  BY <1>1 DEF WorkInv, ReleaseWrite
<1>3. PICK d \in DOMAIN delivs : d = r.d /\ (r.first \/ delivs[d].released)
  BY <1>2 DEF AskSound
<1>4. /\ delivs' \in {delivs, [delivs EXCEPT ![d].released = TRUE]}
      /\ \/ status' = status
         \/ /\ status = "approved" /\ status' = "released"
            /\ ApprovalPrecedes(d) /\ (kind = "attack" => r.op = "flip" /\ r.clear)
            /\ r.first => delivs' = [delivs EXCEPT ![d].released = TRUE]
  <2>1. kind \in {"zt", "attack"}  BY ReviewAssumption DEF WorkInv, TypeOK
  <2>2. QED  BY <1>1, <1>3, <2>1 DEF ReleaseWrite
<1>5. approvals \in Nat /\ delivs \in Seq(Deliverable) /\ Len(delivs) <= MaxDelivs
  BY ApprovalsCount DEF WorkInv, TypeOK
<1>6. /\ delivs' \in Seq(Deliverable) /\ Len(delivs') = Len(delivs)
      /\ DOMAIN delivs' = DOMAIN delivs
      /\ \A e \in DOMAIN delivs :
           /\ delivs'[e].content = delivs[e].content
           /\ delivs'[e].at = delivs[e].at /\ delivs'[e].asof = delivs[e].asof
           /\ delivs[e].released => delivs'[e].released
      /\ status' # status => delivs'[d].released
  <2>1. CASE delivs' = delivs  BY <1>3, <1>4, <1>5, <2>1, HandedOver
  <2>2. CASE delivs' = [delivs EXCEPT ![d].released = TRUE]
    BY <2>2, HandedOver
  <2>3. QED  BY <1>4, <2>1, <2>2
<1>7. /\ Content' = Content /\ (Settled' <=> Settled)
      /\ QueueIsEmpty' <=> QueueIsEmpty
  BY <1>2, <1>4 DEF Content, Effective, Settled, QueueIsEmpty, InReview
<1>8. DataTyped'
  <2>1. status' \in Status  BY <1>4 DEF WorkInv, TypeOK, Status
  <2>2. QED  BY <1>2, <1>5, <1>6, <2>1 DEF WorkInv, TypeOK, DataTyped
<1>9. Calm /\ approvals' \in Nat
  BY <1>2, <1>5, <1>6, <1>7 DEF Calm
<1>10. Sound'
  <2>1. WorkSound'  BY <1>2, <1>7 DEF WorkInv, Sound, WorkSound
  <2>2. \A e \in DOMAIN delivs' : ReportSound(delivs[e])'
    BY <1>6, <1>9, CalmReports
  <2>3. CASE status' = status
    BY <1>2, <1>6, <1>7, <2>1, <2>2, <2>3 DEF WorkInv, Sound, ReleasedIsWhatWasSent
  <2>4. CASE status' # status
    <3>1. ReportSound(delivs[d]) /\ Settled /\ kind \in {"zt", "attack"}
      BY <1>4, <2>4, ReviewAssumption DEF WorkInv, TypeOK, Sound, Settled
    <3>2. "rows" \notin late =>
            delivs[d].content = Content \/ delivs[d].asof # delivs[d].at
      <4>1. delivs[d].at \in 1..approvals /\ Stands(delivs[d].asof, delivs[d].content)
        BY <3>1 DEF ReportSound
      <4>2. kind = "zt" => approvals <= delivs[d].at
        BY <1>4, <2>4 DEF ApprovalPrecedes
      <4>3. kind = "attack" \/ delivs[d].at = approvals  BY <1>5, <3>1, <4>1, <4>2
      <4>4. QED  BY <3>1, <4>1, <4>3 DEF Stands
    <3>3. ReleasedIsWhatWasSent'
      BY <1>2, <1>6, <1>7, <2>4, <3>2 DEF ReleasedIsWhatWasSent
    <3>4. QED  BY <2>1, <2>2, <3>3 DEF Sound
  <2>5. QED  BY <2>3, <2>4
<1>11. QueueSound'
  <2>1. SUFFICES ASSUME "queue" \notin late
                 PROVE  /\ status' = "released" => QueueIsEmpty
                        /\ \A p \in Request : req'[p].op = "flip" /\ req'[p].clear
                                               => QueueIsEmpty
    BY <1>2, <1>7 DEF QueueSound
  <2>2. /\ status = "released" => QueueIsEmpty
        /\ \A p \in Request : req[p].op = "flip" /\ req[p].clear => QueueIsEmpty
    BY <2>1 DEF WorkInv, QueueSound
  <2>3. status' = "released" => QueueIsEmpty
    <3>1. CASE status' = status  BY <2>2, <3>1
    <3>2. CASE status' # status /\ kind = "attack"  BY <1>1, <1>4, <2>2, <3>2
    <3>3. CASE kind # "attack"  BY <3>3 DEF QueueIsEmpty, InReview
    <3>4. QED  BY <3>1, <3>2, <3>3
  <2>4. \A p \in Request : req'[p] \in {req[p], Idle}
    BY <1>2 DEF Finish, WorkInv, TypeOK
  <2>5. QED  BY <2>2, <2>3, <2>4, IdleIsPending
<1>12. req' = [req EXCEPT ![q] = Idle]  BY <1>2 DEF Finish
<1>13. AskSound(Idle)'  BY IdleIsPending DEF AskSound, Hands
<1>14. QED
  BY <1>8, <1>9, <1>10, <1>11, <1>12, <1>13, IdleIsPending, AnswerKeeps

---------------------------------------------------------------------------
(* The run.                                                                *)

LEMMA RunStartKeeps ==
  ASSUME WorkInv, NEW q \in Request, RunStart(q)  PROVE WorkInv'
<1>1. /\ Finish(q) /\ UNCHANGED <<kind, status, approvals, rows, delivs, late>>
      /\ run' = IF Running THEN run ELSE [NoRun EXCEPT !.phase = "started"]
  BY DEF RunStart
<1>2. /\ run' \in Runs
      /\ run' = run \/ run'.phase = "started"
  BY <1>1 DEF WorkInv, TypeOK, NoRun, Runs
<1>3. DataTyped'  BY <1>1, <1>2 DEF WorkInv, TypeOK, DataTyped
<1>4. WorkSound'  BY <1>1, <1>2 DEF WorkInv, Sound, WorkSound, Settled
<1>5. Sound' /\ Calm /\ QueueCalm  BY <1>1, <1>4, NothingMoves
<1>6. QED  BY <1>1, <1>3, <1>5, DoneKeeps

\* The job looks at the status before it works and again before it applies.
LEMMA RunLooksKeep ==
  ASSUME WorkInv, RunBegins \/ RunRechecks \/ RunFails
  PROVE  WorkInv'
<1>1. UNCHANGED <<kind, status, approvals, rows, delivs, late, req>>
  BY DEF RunBegins, RunRechecks, RunFails, JobOnly
<1>2. \/ run' = NoRun
      \/ ~Locked /\ run' = [run EXCEPT !.phase = "working"]
      \/ ~Locked /\ run' = [run EXCEPT !.phase = "checked", !.skip = run.edited]
  BY DEF RunBegins, RunRechecks, RunFails
<1>3. run' \in Runs /\ (Settled => run'.phase = "idle")
  <2>1. run \in Runs  BY DEF WorkInv, TypeOK
  <2>2. /\ [run EXCEPT !.phase = "working"] \in Runs
        /\ [run EXCEPT !.phase = "checked", !.skip = run.edited] \in Runs
    BY <2>1 DEF Runs
  <2>3. ~Locked => ~Settled  BY DEF Locked
  <2>4. QED  BY <1>2, <2>2, <2>3, NoRunIsARun
<1>4. DataTyped'  BY <1>1, <1>3 DEF WorkInv, TypeOK, DataTyped
<1>5. WorkSound'  BY <1>1, <1>3 DEF WorkInv, Sound, WorkSound, Settled
<1>6. Sound' /\ Calm /\ QueueCalm  BY <1>1, <1>5, NothingMoves
<1>7. QED  BY <1>1, <1>4, <1>6, JobKeeps

\* What a run applies to approved work, it applies unseen.
LEMMA RunCommitKeeps ==
  ASSUME WorkInv, RunCommit  PROVE WorkInv'
<1>1. /\ UNCHANGED <<kind, status, approvals, delivs, req>> /\ run' = NoRun
      /\ rows' \in [Row -> RowState] /\ run.phase = "checked"
      /\ late' = IF Settled /\ run.unseen THEN late \cup {"rows", "queue"} ELSE late
  BY DEF RunCommit, JobOnly, LateIf
<1>2. Settled => run.unseen  BY <1>1 DEF WorkInv, Sound, WorkSound
<1>3. /\ late \subseteq late' /\ (Settled => {"rows", "queue"} \subseteq late')
      /\ late' \subseteq Late
  BY <1>1, <1>2 DEF WorkInv, TypeOK, Late
<1>4. DataTyped'
  BY <1>1, <1>3, NoRunIsARun DEF WorkInv, TypeOK, DataTyped
<1>5. WorkSound'
  BY <1>1, NoRunIsARun DEF WorkInv, Sound, WorkSound, Settled
<1>6. Calm /\ QueueCalm  BY <1>1, <1>3, RowsWritten
<1>7. Sound'  BY <1>1, <1>5, <1>6, ApprovalsCount, CalmSound
<1>8. QED  BY <1>1, <1>4, <1>6, <1>7, JobKeeps

---------------------------------------------------------------------------
(* The invariant of the specification.                                     *)

LEMMA InitIsSound == Init => WorkInv
<1>1. SUFFICES ASSUME Init  PROVE WorkInv  OBVIOUS
<1>2. Blank \in RowState  BY DEF Blank, RowState, Said
<1>3. TypeOK
  <2>1. DataTyped
    BY <1>1, <1>2, ReviewAssumption, NoRunIsARun DEF Init, DataTyped, Status
  <2>2. QED  BY <1>1, <2>1, IdleIsPending, TypesSplit DEF Init
<1>4. \A q \in Request : AskSound(req[q])  BY <1>1, IdleIsSound DEF Init
<1>5. Sound
  BY <1>1 DEF Init, Sound, WorkSound, Settled, ReleasedIsWhatWasSent
<1>6. QueueSound  BY <1>1, IdleIsPending DEF Init, QueueSound
<1>7. QED  BY <1>3, <1>4, <1>5, <1>6 DEF WorkInv

LEMMA StillSound ==
  ASSUME WorkInv, UNCHANGED vars  PROVE WorkInv'
<1>1. UNCHANGED <<kind, status, approvals, rows, delivs, run, req, late>>
  BY DEF vars
<1>2. DataTyped'  BY <1>1 DEF WorkInv, TypeOK, DataTyped
<1>3. WorkSound'  BY <1>1 DEF WorkInv, Sound, WorkSound, Settled
<1>4. Sound' /\ Calm /\ QueueCalm  BY <1>1, <1>3, NothingMoves
<1>5. QED  BY <1>1, <1>2, <1>4, JobKeeps

LEMMA NextIsSound == WorkInv /\ [Next]_vars => WorkInv'
<1>1. SUFFICES ASSUME WorkInv, [Next]_vars  PROVE WorkInv'  OBVIOUS
<1>2. ASSUME NEW q \in Request, Write(q)  PROVE WorkInv'
  BY <1>1, <1>2, EditWriteKeeps, ReviewWriteKeeps, SubmitWriteKeeps,
     ApproveWriteKeeps, DiscardWriteKeeps, FinalizeWriteKeeps, ReleaseQueueKeeps,
     ReleaseWriteKeeps, RunStartKeeps
  DEF Write
<1>3. ASSUME NEW q \in Request, Read(q)  PROVE WorkInv'
  BY <1>1, <1>3, ReadsKeep
<1>4. QED
  BY <1>1, <1>2, <1>3, RunLooksKeep, RunCommitKeeps, StillSound DEF Next

\* WorkInv holds in every state, whatever is under way beside what: no run that
\* was seen goes on over approved work, and what was read under the approval that
\* stands, in a report or for one, is what the assessment holds.
THEOREM WorkIsSound == Spec => []WorkInv
BY InitIsSound, NextIsSound, PTL DEF Spec

\* release_deliverable and the guards in its flip: of a released assessment the
\* client has a report that shows what it now holds, but for late rows and for a
\* report stored under a later approval than it was rendered under.
THEOREM SentIsReleased == Spec => []ReleasedIsWhatWasSent
<1>1. WorkInv => ReleasedIsWhatWasSent  BY DEF WorkInv, Sound
<1>2. QED  BY <1>1, WorkIsSound, PTL

\* blocking_condition: nothing is released with a computed status that a
\* consultant has not accepted, but for one that began to wait since the release
\* looked at the queue.
THEOREM ReviewedIsReleased == Spec => []ReleasedIsReviewed
<1>1. WorkInv => ReleasedIsReviewed
  BY DEF WorkInv, QueueSound, ReleasedIsReviewed, QueueIsEmpty
<1>2. QED  BY <1>1, WorkIsSound, PTL

\* Reads move no row.
LEMMA ReadsMoveNothing ==
  ASSUME NEW q \in Request, Read(q)  PROVE UNCHANGED <<kind, rows>>
BY DEF Read, ReviewRead, SubmitRead, ApproveRead, DiscardRead, FinalizeRead, RunRead,
       PatchRead, SelfRead, ConfirmRead, ReleaseRead, Begin

\* The rows of approved work change only by what was under way before.
LEMMA OnlyOvertakenWrites ==
  ASSUME WorkInv, Next, Settled, Settled', Content' # Content
  PROVE  \/ Running /\ run.unseen
         \/ \E q \in Request : req[q].op \in {"patch", "self", "confirm"}
                               /\ Overtaken(q) /\ req'[q] = Idle
<1>1. UNCHANGED <<kind, rows>> => Content' = Content  BY DEF Content, Effective
<1>2. ASSUME NEW q \in Request, Write(q)
      PROVE  req[q].op \in {"patch", "self", "confirm"} /\ Overtaken(q) /\ req'[q] = Idle
  <2>1. CASE EditWrite(q)
    <3>1. req[q].op \in Hands /\ AskSound(req[q]) /\ Finish(q)
      BY <2>1 DEF WorkInv, EditWrite, Hands
    <3>2. Overtaken(q)  BY <3>1 DEF AskSound, Overtaken
    <3>3. req'[q] = Idle  BY <3>1 DEF Finish, WorkInv, TypeOK
    <3>4. QED  BY <3>1, <3>2, <3>3 DEF Hands
  <2>2. ~ReviewWrite(q)
    <3>1. SUFFICES ASSUME ReviewWrite(q)  PROVE FALSE  OBVIOUS
    <3>2. /\ kind' = kind
          /\ rows' = [l \in Row |-> IF req[q].saw[l] = "none" THEN rows[l]
                                    ELSE [rows[l] EXCEPT !.reviewed = req[q].saw[l]]]
      BY <3>1 DEF ReviewWrite
    <3>3. \A l \in Row : rows[l] \in RowState  BY DEF WorkInv, TypeOK
    <3>4. \A l \in Row : rows'[l].said = rows[l].said /\ rows'[l].tools = rows[l].tools
      BY <3>2, <3>3 DEF RowState
    <3>5. QED  BY <3>2, <3>4, ContentStays
  <2>3. ~(\/ SubmitWrite(q) \/ ApproveWrite(q) \/ DiscardWrite(q)
          \/ FinalizeWrite(q) \/ ReleaseQueue(q) \/ ReleaseWrite(q) \/ RunStart(q))
    BY <1>1
    DEF SubmitWrite, ApproveWrite, DiscardWrite, FinalizeWrite, ReleaseQueue,
        ReleaseWrite, RunStart, SetStatus
  <2>4. QED  BY <1>2, <2>1, <2>2, <2>3 DEF Write
<1>3. RunCommit => Running /\ run.unseen
  BY DEF WorkInv, Sound, WorkSound, RunCommit, Running
<1>4. ~(RunBegins \/ RunRechecks \/ RunFails)
  BY <1>1 DEF RunBegins, RunRechecks, RunFails, JobOnly
<1>5. QED  BY <1>1, <1>2, <1>3, <1>4, ReadsMoveNothing DEF Next

\* The rows of an approved assessment do not change, by hand or by a Run-AI, until
\* its approval is taken back - but for an edit that had read it before the
\* approval, and a run that the approval did not see.
THEOREM ApprovedStands == Spec => OnlyOvertakenMoves
<1>1. WorkInv /\ [Next]_vars
      => [ Settled /\ Settled' /\ Content' # Content =>
             \/ Running /\ run.unseen
             \/ \E q \in Request : req[q].op \in {"patch", "self", "confirm"}
                                   /\ Overtaken(q) /\ req'[q] = Idle ]_vars
  BY OnlyOvertakenWrites
<1>2. QED  BY <1>1, WorkIsSound, PTL DEF Spec, OnlyOvertakenMoves
=============================================================================
