------------------------ MODULE CsfLifecycle_proofs ------------------------
(***************************************************************************)
(* Proofs about CsfLifecycle, for any requests, operations and bounds: the *)
(* invariant LifecycleInv, and from it that a draft is the newest record   *)
(* and that nothing submitted or approved is ever discarded; with          *)
(* ApprovalInv, that reports and revisions rest on approved versions and a *)
(* report goes to the client with its parent; and that a late submission   *)
(* is all that brings a discarded version back.                            *)
(*                                                                         *)
(* LifecycleInv is kept in two halves: what the tables say (RecordInv),    *)
(* and what requests and the run still mean to do to them (PendingIsSound, *)
(* RunIsSound), which only needs that a taken version stays taken.         *)
(***************************************************************************)
EXTENDS CsfLifecycle, TLAPS, WellFoundedInduction

RecordInv == /\ recs \in [Version -> Record]
             /\ settled \subseteq Version /\ late \subseteq Version \X Status
             /\ NoGaps /\ NothingAboveADraft /\ Settled

DelivInv == delivs \in Seq(Deliverable) /\ Len(delivs) <= MaxDelivs

RequestInv == req \in [Request -> Pending] /\ PendingIsSound

RunTyped == run \in [phase : {"idle", "started", "working", "checked"},
                     v : 0..MaxVersion]

TakenStays == \A w \in Version : Taken(w) => Taken(w)'

DelivsStay == Len(delivs') >= Len(delivs)

---------------------------------------------------------------------------
(* The newest of a set of versions, by which the routes choose.            *)

\* A nonempty set of versions has a newest one, and Newest is it: what every
\* "latest" and "max(version)" read of the routes returns.
LEMMA NewestIsNewest ==
  ASSUME NEW S \in SUBSET Version, S # {}
  PROVE  Newest(S) \in S /\ \A w \in S : w <= Newest(S)
<1> DEFINE Below == {n \in Nat : \E v \in S : n + v = MaxVersion}
<1>1. MaxVersion \in Nat  BY LifecycleAssumption
<1>2. Below # {}
  <2>1. PICK v \in S : TRUE  OBVIOUS
  <2>2. MaxVersion - v \in Nat /\ (MaxVersion - v) + v = MaxVersion
    BY <1>1, <2>1 DEF Version
  <2>3. QED  BY <2>1, <2>2
<1>3. PICK m \in Below : \A n \in Below : <<n, m>> \notin OpToRel(<, Nat)
  <2>1. Below \subseteq Nat  OBVIOUS
  <2> HIDE DEF Below
  <2>2. QED  BY <1>2, <2>1, WFMin, NatLessThanWellFounded, Zenon
<1>4. \A n \in Below : ~(n < m)
  <2>1. Below \subseteq Nat  OBVIOUS
  <2> HIDE DEF Below
  <2>2. QED  BY <1>3, <2>1, Zenon DEF OpToRel
<1>5. PICK v \in S : m + v = MaxVersion  OBVIOUS
<1>6. \A w \in S : w <= v
  <2>1. SUFFICES ASSUME NEW w \in S, ~(w <= v)  PROVE FALSE  OBVIOUS
  <2>2. MaxVersion - w \in Below /\ MaxVersion - w < m
    BY <1>1, <1>5, <2>1 DEF Version
  <2>3. QED  BY <1>4, <2>2
<1>7. QED  BY <1>5, <1>6 DEF Newest

---------------------------------------------------------------------------
(* The records.                                                            *)

\* A status change of a taken version to anything but a draft keeps the
\* records sound; only a discard has to leave settled versions alone.
LEMMA StatusChange ==
  ASSUME RecordInv, NEW v \in Version, Taken(v),
         NEW s \in {"submitted", "approved", "released", "discarded"},
         s = "discarded" => v \notin settled,
         SetStatus(v, s)
  PROVE  RecordInv' /\ TakenStays
<1>1. /\ recs' = [recs EXCEPT ![v].status = s]
      /\ recs' \in [Version -> Record]
  BY DEF RecordInv, SetStatus, Record, Status
<1>2. \A w \in Version : recs'[w].status = IF w = v THEN s ELSE recs[w].status
  BY <1>1 DEF RecordInv, Record
<1>3. settled' \subseteq Version /\ late' \subseteq Version \X Status
  BY DEF RecordInv, SetStatus, Record
<1>4. \A w \in Version : Taken(w)' <=> Taken(w)
  BY <1>2 DEF Taken
<1>5. NoGaps'  BY <1>4 DEF RecordInv, NoGaps
<1>6. NothingAboveADraft'
  BY <1>2, <1>4 DEF RecordInv, NothingAboveADraft, StatusIn
<1>7. Settled'
  <2>1. \A w \in settled' : w \in settled \/ (w = v /\ s \in {"submitted", "approved"})
    BY DEF SetStatus
  <2>2. QED  BY <1>2, <1>3, <2>1 DEF RecordInv, Settled, StatusIn
<1>8. QED  BY <1>1, <1>3, <1>4, <1>5, <1>6, <1>7 DEF RecordInv, TakenStays

LEMMA RecordsKept ==
  ASSUME RecordInv, KeepRecords
  PROVE  RecordInv' /\ TakenStays
BY DEF RecordInv, KeepRecords, TakenStays, Taken, NoGaps, NothingAboveADraft,
       StatusIn, Settled

\* Writing rows touches no status.
LEMMA RowsWritten ==
  ASSUME RecordInv, NEW v \in Version, WriteRows(v), UNCHANGED <<settled, late>>
  PROVE  RecordInv' /\ TakenStays
<1>1. /\ \A w \in Version : recs'[w].status = recs[w].status
      /\ recs' \in [Version -> Record]
  <2>1. MaxWrites \in Nat  BY LifecycleAssumption
  <2>2. recs[v] \in Record /\ recs[v].content + 1 \in 0..MaxWrites
    BY <2>1 DEF RecordInv, WriteRows, Record
  <2>3. recs' = [recs EXCEPT ![v].content = recs[v].content + 1]
    BY DEF WriteRows
  <2>4. QED  BY <2>2, <2>3 DEF RecordInv, Record
<1>2. \A w \in Version : Taken(w)' <=> Taken(w)  BY <1>1 DEF Taken
<1>3. NoGaps' /\ NothingAboveADraft' /\ Settled'
  BY <1>1, <1>2 DEF RecordInv, NoGaps, NothingAboveADraft, Settled, StatusIn
<1>4. QED  BY <1>1, <1>2, <1>3 DEF RecordInv, TakenStays

\* An insert the two constraints let through makes a new newest version.
LEMMA RecordInserted ==
  ASSUME RecordInv, NEW v \in Version, ~IndexRefuses(v),
         \A w \in Version : w < v => Taken(w),
         NEW r \in Record, r.status = "draft",
         recs' = [recs EXCEPT ![v] = r], UNCHANGED <<settled, late>>
  PROVE  RecordInv' /\ TakenStays
<1>1. /\ recs' \in [Version -> Record]
      /\ \A w \in Version : recs'[w] = IF w = v THEN r ELSE recs[w]
  BY DEF RecordInv
<1>2. \A w \in Version : Taken(w)' <=> (w = v \/ Taken(w))
  BY <1>1 DEF Taken
<1>3. NoGaps'  BY <1>2 DEF RecordInv, NoGaps
<1>4. \A w \in Version : w > v => ~Taken(w)
  BY DEF RecordInv, NoGaps, IndexRefuses, Taken
<1>5. NothingAboveADraft'
  <2>1. \A w \in StatusIn({"draft"})' : w = v
    BY <1>1 DEF StatusIn, IndexRefuses
  <2>2. \A w \in Version : w > v => ~Taken(w)'
    BY <1>2, <1>4 DEF Version
  <2>3. QED  BY <2>1, <2>2 DEF NothingAboveADraft
<1>6. Settled'
  <2>1. v \notin settled
    BY DEF RecordInv, Settled, StatusIn, IndexRefuses
  <2>2. QED  BY <1>1, <2>1 DEF RecordInv, Settled, StatusIn
<1>7. QED  BY <1>1, <1>2, <1>3, <1>5, <1>6 DEF RecordInv, TakenStays

---------------------------------------------------------------------------
(* Requests and the run.                                                   *)

LEMMA FinishIsSound ==
  ASSUME RequestInv, NEW q \in Request, Finish(q), TakenStays,
         DOMAIN delivs \subseteq DOMAIN delivs'
  PROVE  RequestInv'
<1>1. req' \in [Request -> Pending]
  BY LifecycleAssumption DEF RequestInv, Finish, Pending, Idle, NothingSeen, Status
<1>2. \A p \in Request : req'[p] = IF p = q THEN Idle ELSE req[p]
  BY DEF RequestInv, Finish
<1>3. PendingIsSound'
  BY <1>2 DEF RequestInv, PendingIsSound, Idle, TakenStays
<1>4. QED  BY <1>1, <1>3 DEF RequestInv

LEMMA RequestsKept ==
  ASSUME RequestInv, UNCHANGED req, TakenStays,
         DOMAIN delivs \subseteq DOMAIN delivs'
  PROVE  RequestInv'
BY DEF RequestInv, PendingIsSound, TakenStays

\* A request that has read a version that is there.
LEMMA BeginIsSound ==
  ASSUME RequestInv, ReadOnly, NEW q \in Request, NEW op \in AllOps \ {"release"},
         NEW at \in {"mint", "write"}, NEW v, Begin(q, op, v, at),
         v \in 0..MaxVersion,
         op # "create" => v \in Version /\ Taken(v),
         op \in {"create", "revise"} <=> at = "mint"
  PROVE  RequestInv'
<1> DEFINE r == [Idle EXCEPT !.op = op, !.at = at, !.v = v]
<1>1. r \in Pending
  <2>1. Idle \in Pending
    BY LifecycleAssumption DEF Idle, Pending, NothingSeen, Status
  <2>2. v \in 0..(MaxVersion + MaxDelivs)
    BY LifecycleAssumption
  <2>3. QED  BY <2>1, <2>2 DEF Pending
<1>2. req' = [req EXCEPT ![q] = r]  BY DEF Begin
<1>3. \A p \in Request : req'[p] = IF p = q THEN r ELSE req[p]
  BY <1>2 DEF RequestInv
<1>4. r.op = op /\ r.at = at /\ r.v = v  BY DEF Idle
<1>5. \A w : Taken(w)' <=> Taken(w)
  BY DEF ReadOnly, KeepRecords, Taken
<1>6. PendingIsSound'
  <2> HIDE DEF r
  <2>1. SUFFICES ASSUME NEW p \in Request
                 PROVE  /\ req'[p].at = "mint" => req'[p].op \in {"create", "revise"}
                        /\ req'[p].at = "write" /\ req'[p].op \in {"create", "revise"} =>
                             /\ req'[p].new \in Version
                             /\ \A w \in Version : w < req'[p].new => Taken(w)
                        /\ req'[p].at # "idle" /\ req'[p].op \notin {"create", "release"} =>
                             req'[p].v \in Version /\ Taken(req'[p].v)
                        /\ req'[p].op = "release" => req'[p].v \in DOMAIN delivs'
    BY DEF PendingIsSound, Taken, ReadOnly, KeepRecords
  <2>2. CASE p = q  BY <1>3, <1>4, <1>5, <2>2
  <2>3. CASE p # q
    BY <1>3, <1>5, <2>3 DEF RequestInv, PendingIsSound, ReadOnly
  <2>4. QED  BY <2>2, <2>3
<1>7. QED  BY <1>1, <1>2, <1>6 DEF RequestInv

LEMMA RunKept ==
  ASSUME RunTyped, RunIsSound, UNCHANGED run, TakenStays
  PROVE  RunTyped' /\ RunIsSound'
BY DEF RunTyped, RunIsSound, Running, TakenStays

LEMMA NoRunIsSound ==
  ASSUME run' = NoRun
  PROVE  RunTyped' /\ RunIsSound'
BY LifecycleAssumption DEF RunTyped, RunIsSound, Running, NoRun

---------------------------------------------------------------------------
(* The invariant, and what each kind of step keeps of it.                  *)

LEMMA Halves ==
  LifecycleInv <=> /\ RecordInv /\ DelivInv /\ RequestInv
                   /\ RunTyped /\ RunIsSound
BY DEF LifecycleInv, TypeOK, RecordInv, DelivInv, RequestInv, RunTyped

LEMMA HalvesNext ==
  LifecycleInv' <=> /\ RecordInv' /\ DelivInv' /\ RequestInv'
                    /\ RunTyped' /\ RunIsSound'
BY DEF LifecycleInv, TypeOK, RecordInv, DelivInv, RequestInv, RunTyped

\* A step that only reads the tables keeps all but its request.
LEMMA ReadOnlyStep ==
  ASSUME LifecycleInv, ReadOnly, RequestInv'
  PROVE  LifecycleInv'
<1>1. RecordInv' /\ TakenStays  BY Halves, RecordsKept DEF ReadOnly
<1>2. RunTyped' /\ RunIsSound'  BY <1>1, Halves, RunKept DEF ReadOnly
<1>3. DelivInv'  BY Halves DEF DelivInv, ReadOnly
<1>4. QED  BY <1>1, <1>2, <1>3, HalvesNext

\* A step that finishes its request and leaves deliverables and run alone.
LEMMA WriteStep ==
  ASSUME LifecycleInv, NEW q \in Request, Finish(q), UNCHANGED <<delivs, run>>,
         RecordInv', TakenStays
  PROVE  LifecycleInv'
<1>1. RequestInv'  BY Halves, FinishIsSound
<1>2. RunTyped' /\ RunIsSound'  BY Halves, RunKept
<1>3. DelivInv'  BY Halves DEF DelivInv
<1>4. QED  BY <1>1, <1>2, <1>3, HalvesNext

\* What a pending request says of its version.
LEMMA PendingVersion ==
  ASSUME LifecycleInv, NEW q \in Request, req[q].at # "idle",
         req[q].op \notin {"create", "release"}
  PROVE  req[q].v \in Version /\ Taken(req[q].v)
BY DEF LifecycleInv, PendingIsSound

---------------------------------------------------------------------------
(* Reads.                                                                  *)

LEMMA LatestIsTaken ==
  ASSUME NEW S \in SUBSET (Status \ {"none"}), Latest \in StatusIn(S)
  PROVE  Latest \in Version /\ Taken(Latest) /\ Latest \in 0..MaxVersion
<1>1. Latest \in Version /\ recs[Latest].status \in S
  BY DEF StatusIn
<1>2. QED  BY <1>1, LifecycleAssumption DEF Version, Taken

LEMMA ReadIsSound ==
  ASSUME LifecycleInv, NEW q \in Request, Read(q)
  PROVE  LifecycleInv'
<1> SUFFICES ReadOnly /\ RequestInv'  BY ReadOnlyStep
<1>1. RequestInv  BY Halves
<1>2. \A v \in Version : v \in 0..MaxVersion
  BY LifecycleAssumption DEF Version
<1>3. CASE CreateRead(q)
  <2>1. ReadOnly /\ Begin(q, "create", 0, "mint")  BY <1>3 DEF CreateRead
  <2>2. QED  BY <1>1, <2>1, BeginIsSound, LifecycleAssumption DEF AllOps
<1>4. CASE SubmitRead(q)
  <2>1. ReadOnly /\ Begin(q, "submit", Latest, "write")
    BY <1>4 DEF SubmitRead
  <2>2. Latest \in Version /\ Taken(Latest) /\ Latest \in 0..MaxVersion
    BY <1>4, LatestIsTaken DEF SubmitRead, Status
  <2>3. QED  BY <1>1, <2>1, <2>2, BeginIsSound DEF AllOps
<1>5. CASE FinalizeRead(q)
  <2>1. ReadOnly /\ Begin(q, "finalize", Latest, "write")
    BY <1>5 DEF FinalizeRead
  <2>2. Latest \in Version /\ Taken(Latest) /\ Latest \in 0..MaxVersion
    BY <1>5, LatestIsTaken DEF FinalizeRead, Status
  <2>3. QED  BY <1>1, <2>1, <2>2, BeginIsSound DEF AllOps
<1>6. CASE RunRead(q)
  <2>1. ReadOnly /\ Begin(q, "run", Latest, "write")
    BY <1>6 DEF RunRead
  <2>2. Latest \in Version /\ Taken(Latest) /\ Latest \in 0..MaxVersion
    BY <1>6, LatestIsTaken DEF RunRead, Status
  <2>3. QED  BY <1>1, <2>1, <2>2, BeginIsSound DEF AllOps
<1>7. ASSUME NEW v \in Version, ReviseRead(q, v)
      PROVE  ReadOnly /\ RequestInv'
  <2>1. ReadOnly /\ Begin(q, "revise", v, "mint") /\ Taken(v)
    BY <1>7 DEF ReviseRead, MayRevise, Taken
  <2>2. QED  BY <1>1, <1>2, <2>1, BeginIsSound DEF AllOps
<1>8. ASSUME NEW v \in Version, ApproveRead(q, v)
      PROVE  ReadOnly /\ RequestInv'
  <2>1. ReadOnly /\ Begin(q, "approve", v, "write") /\ Taken(v)
    BY <1>8 DEF ApproveRead, Taken
  <2>2. QED  BY <1>1, <1>2, <2>1, BeginIsSound DEF AllOps
<1>9. ASSUME NEW v \in Version, DiscardRead(q, v)
      PROVE  ReadOnly /\ RequestInv'
  <2>1. ReadOnly /\ Begin(q, "discard", v, "write") /\ Taken(v)
    BY <1>9 DEF DiscardRead, Taken
  <2>2. QED  BY <1>1, <1>2, <2>1, BeginIsSound DEF AllOps
<1>10. ASSUME NEW v \in Version, NEW op \in {"answer", "self", "score"},
              EditRead(q, op, v)
       PROVE  ReadOnly /\ RequestInv'
  <2>1. ReadOnly /\ Begin(q, op, v, "write") /\ Taken(v)
    BY <1>10 DEF EditRead, Editable, Taken
  <2>2. QED  BY <1>1, <1>2, <2>1, BeginIsSound DEF AllOps
<1>11. ASSUME NEW d \in 1..MaxDelivs, ReleaseRead(q, d)
       PROVE  ReadOnly /\ RequestInv'
  <2>1. PICK r \in Pending : /\ r.op = "release" /\ r.at = "write" /\ r.v = d
                             /\ req' = [req EXCEPT ![q] = r]
    <3> DEFINE seen == [first |-> ~delivs[d].released,
                        parent |-> recs[delivs[d].parent].status]
               r == [Idle EXCEPT !.op = "release", !.at = "write", !.v = d,
                                 !.seen = seen]
    <3>1. seen \in [first : BOOLEAN, parent : Status]
      <4>1. DelivInv /\ recs \in [Version -> Record] /\ d \in DOMAIN delivs
        BY <1>11, Halves DEF RecordInv, ReleaseRead
      <4>2. delivs[d] \in Deliverable  BY <4>1 DEF DelivInv
      <4>3. QED  BY <4>1, <4>2 DEF Deliverable, Record
    <3>2. Idle \in Pending
      BY LifecycleAssumption DEF Idle, Pending, NothingSeen, Status
    <3>3. d \in 0..(MaxVersion + MaxDelivs)  BY LifecycleAssumption
    <3>4. req' = [req EXCEPT ![q] = r]  BY <1>11 DEF ReleaseRead
    <3>5. r.op = "release" /\ r.at = "write" /\ r.v = d  BY DEF Idle
    <3> HIDE DEF seen
    <3>6. r \in Pending
      BY <3>1, <3>2, <3>3 DEF Pending, AllOps
    <3> HIDE DEF r
    <3>7. QED  BY <3>4, <3>5, <3>6
  <2>2. ReadOnly /\ d \in DOMAIN delivs  BY <1>11 DEF ReleaseRead
  <2>3. \A p \in Request : req'[p] = IF p = q THEN r ELSE req[p]
    BY <1>1, <2>1 DEF RequestInv
  <2>4. req' \in [Request -> Pending]  BY <1>1, <2>1 DEF RequestInv
  <2>5. PendingIsSound'
    BY <1>1, <2>1, <2>2, <2>3
    DEF RequestInv, PendingIsSound, ReadOnly, KeepRecords, Taken
  <2>6. QED  BY <2>2, <2>4, <2>5 DEF RequestInv
<1>12. QED
  BY <1>3, <1>4, <1>5, <1>6, <1>7, <1>8, <1>9, <1>10, <1>11 DEF Read

---------------------------------------------------------------------------
(* Writes.                                                                 *)

\* max(version) + 1 is above taken versions only.
LEMMA MintIsSound ==
  ASSUME LifecycleInv, NEW q \in Request, Mint(q)
  PROVE  LifecycleInv'
<1> DEFINE r == [req[q] EXCEPT !.at = "write", !.new = MaxTaken + 1]
           S == StatusIn(Status \ {"none"})
<1>1. /\ RecordInv /\ RequestInv /\ ReadOnly
      /\ req[q] \in Pending /\ req[q].op \in {"create", "revise"}
  BY Halves DEF Mint, RequestInv, PendingIsSound
<1>2. \A v \in Version : v \in S <=> Taken(v)
  BY <1>1 DEF RecordInv, Record, StatusIn, Taken
<1>3. /\ MaxTaken + 1 \in Version
      /\ \A v \in Version : v < MaxTaken + 1 => Taken(v)
  <2>1. S \in SUBSET Version  BY DEF StatusIn
  <2>2. MaxTaken = Newest(S) /\ MaxTaken < MaxVersion
    BY DEF Mint, MaxTaken
  <2>3. CASE S = {}
    <3>1. MaxTaken = 0  BY <2>2, <2>3 DEF Newest
    <3>2. 1 \in Version /\ \A v \in Version : ~(v < 1)
      BY <2>2, <3>1, LifecycleAssumption DEF Version
    <3>3. QED  BY <3>1, <3>2
  <2>4. CASE S # {}
    <3>1. MaxTaken \in S
      <4> HIDE DEF S
      <4>1. QED  BY <2>1, <2>2, <2>4, NewestIsNewest
    <3>2. MaxTaken \in Version /\ Taken(MaxTaken)  BY <1>2, <2>1, <3>1
    <3> HIDE DEF S, r
    <3>3. /\ MaxTaken + 1 \in Version
          /\ \A v \in Version : v < MaxTaken + 1 => v = MaxTaken \/ v < MaxTaken
      BY <2>2, <3>2, LifecycleAssumption DEF Version
    <3>4. QED  BY <1>1, <3>2, <3>3 DEF RecordInv, NoGaps
  <2>5. QED  BY <2>3, <2>4
<1>4. r \in Pending
  <2>1. MaxTaken + 1 \in 0..MaxVersion
    BY <1>3, LifecycleAssumption DEF Version
  <2> HIDE DEF S
  <2>2. QED  BY <1>1, <2>1 DEF Pending
<1>5. req' = [req EXCEPT ![q] = r]  BY DEF Mint
<1>6. /\ r.op = req[q].op /\ r.at = "write" /\ r.v = req[q].v
      /\ r.new = MaxTaken + 1
  BY <1>1 DEF Pending
<1> HIDE DEF r
<1>7. \A p \in Request : req'[p] = IF p = q THEN r ELSE req[p]
  BY <1>1, <1>5 DEF RequestInv
<1>8. req[q].op = "revise" => req[q].v \in Version /\ Taken(req[q].v)
  BY PendingVersion DEF Mint
<1>9. PendingIsSound'
  BY <1>1, <1>3, <1>6, <1>7, <1>8
  DEF RequestInv, PendingIsSound, ReadOnly, KeepRecords, Taken
<1>10. QED  BY <1>1, <1>4, <1>5, <1>9, ReadOnlyStep DEF RequestInv

LEMMA InsertIsSound ==
  ASSUME LifecycleInv, NEW q \in Request, Insert(q)
  PROVE  LifecycleInv'
<1> DEFINE new == req[q].new
           source == IF req[q].op = "revise" THEN req[q].v ELSE 0
           r == [status |-> "draft", from |-> source,
                 content |-> IF source = 0 THEN 0 ELSE recs[source].content]
<1>1. /\ RecordInv /\ RequestInv
      /\ Finish(q) /\ UNCHANGED <<delivs, run, settled, late>>
  BY Halves DEF Insert
<1>2. new \in Version /\ \A v \in Version : v < new => Taken(v)
  BY <1>1 DEF Insert, At, RequestInv, PendingIsSound
<1>3. r \in Record
  <2>1. source = 0 \/ source \in Version
    BY PendingVersion DEF Insert, At
  <2>2. source \in 0..MaxVersion  BY <2>1, LifecycleAssumption DEF Version
  <2>3. (IF source = 0 THEN 0 ELSE recs[source].content) \in 0..MaxWrites
    BY <1>1, <2>1, LifecycleAssumption DEF RecordInv, Record
  <2> HIDE DEF source
  <2>4. QED  BY <2>2, <2>3 DEF Record, Status
<1>4. \/ IndexRefuses(new) /\ UNCHANGED recs
      \/ ~IndexRefuses(new) /\ recs' = [recs EXCEPT ![new] = r]
  BY DEF Insert
<1>5. r.status = "draft"  OBVIOUS
<1> HIDE DEF r, new
<1>6. RecordInv' /\ TakenStays
  <2>1. CASE UNCHANGED recs
    BY <1>1, <2>1, RecordsKept DEF KeepRecords
  <2>2. CASE ~IndexRefuses(new) /\ recs' = [recs EXCEPT ![new] = r]
    BY <1>1, <1>2, <1>3, <1>5, <2>2, RecordInserted
  <2>3. QED  BY <1>4, <2>1, <2>2
<1>7. QED  BY <1>1, <1>6, WriteStep

LEMMA WriteIsSound ==
  ASSUME LifecycleInv, NEW q \in Request, Write(q)
  PROVE  LifecycleInv'
<1>1. RecordInv  BY Halves
<1>2. CASE Mint(q)  BY <1>2, MintIsSound
<1>3. CASE Insert(q)  BY <1>3, InsertIsSound
<1>4. CASE EditWrite(q)
  <2>1. req[q].v \in Version  BY <1>4, PendingVersion DEF EditWrite, At
  <2>2. RecordInv' /\ TakenStays
    BY <1>1, <1>4, <2>1, RowsWritten DEF EditWrite
  <2>3. QED  BY <1>4, <2>2, WriteStep DEF EditWrite
<1>5. CASE SubmitWrite(q)
  <2>1. req[q].v \in Version /\ Taken(req[q].v)
    BY <1>5, PendingVersion DEF SubmitWrite, At
  <2>2. RecordInv' /\ TakenStays
    BY <1>1, <1>5, <2>1, StatusChange DEF SubmitWrite
  <2>3. QED  BY <1>5, <2>2, WriteStep DEF SubmitWrite
<1>6. CASE ApproveWrite(q)
  <2>1. req[q].v \in Version /\ Taken(req[q].v)
    BY <1>6, PendingVersion DEF ApproveWrite, At
  <2>2. RecordInv' /\ TakenStays
    BY <1>1, <1>6, <2>1, StatusChange, RecordsKept DEF ApproveWrite
  <2>3. QED  BY <1>6, <2>2, WriteStep DEF ApproveWrite
<1>7. CASE DiscardWrite(q)
  <2>1. req[q].v \in Version /\ Taken(req[q].v)
    BY <1>7, PendingVersion DEF DiscardWrite, At
  <2>2. Discardable(req[q].v) => req[q].v \notin settled
    BY <1>1 DEF RecordInv, Settled, StatusIn, Discardable
  <2>3. RecordInv' /\ TakenStays
    BY <1>1, <1>7, <2>1, <2>2, StatusChange, RecordsKept DEF DiscardWrite
  <2>4. QED  BY <1>7, <2>3, WriteStep DEF DiscardWrite
<1>8. CASE FinalizeWrite(q)
  <2>1. req[q].v \in Version  BY <1>8, PendingVersion DEF FinalizeWrite, At
  <2>2. DelivInv' /\ DOMAIN delivs \subseteq DOMAIN delivs'
    <3> DEFINE d == [parent |-> req[q].v, released |-> FALSE]
    <3>1. /\ delivs \in Seq(Deliverable) /\ Len(delivs) < MaxDelivs
          /\ delivs' = Append(delivs, d) /\ d \in Deliverable
      BY <1>8, <2>1, Halves DEF FinalizeWrite, DelivInv, ParentOf, Deliverable
    <3> HIDE DEF d
    <3>2. QED  BY <3>1, LifecycleAssumption DEF DelivInv
  <2>3. RecordInv' /\ TakenStays
    BY <1>1, <1>8, RecordsKept DEF FinalizeWrite
  <2>4. RequestInv'
    BY <1>8, <2>2, <2>3, Halves, FinishIsSound DEF FinalizeWrite
  <2>5. RunTyped' /\ RunIsSound'
    BY <1>8, <2>3, Halves, RunKept DEF FinalizeWrite
  <2>6. QED  BY <2>2, <2>3, <2>4, <2>5, HalvesNext
<1>9. CASE ReleaseWrite(q)
  <2> DEFINE d == req[q].v
             p == delivs[d].parent
  <2>1. d \in DOMAIN delivs /\ delivs \in Seq(Deliverable)
    BY <1>9, Halves DEF ReleaseWrite, At, RequestInv, PendingIsSound, DelivInv
  <2>2. delivs[d] \in Deliverable  BY <2>1
  <2>3. RecordInv' /\ TakenStays
    <3>1. KeepRecords \/ (recs[p].status = "approved" /\ SetStatus(p, "released"))
      BY <1>9 DEF ReleaseWrite, FlipParent
    <3>2. p \in Version  BY <2>2 DEF Deliverable
    <3>3. recs[p].status = "approved" => Taken(p)  BY DEF Taken
    <3> HIDE DEF p
    <3>4. QED  BY <1>1, <3>1, <3>2, <3>3, StatusChange, RecordsKept
  <2>4. DelivInv' /\ DOMAIN delivs \subseteq DOMAIN delivs'
    <3>1. CASE UNCHANGED delivs  BY <3>1, Halves DEF DelivInv
    <3>2. CASE delivs' = [delivs EXCEPT ![d].released = TRUE]
      <4> DEFINE sent == [delivs[d] EXCEPT !.released = TRUE]
      <4>1. sent \in Deliverable  BY <2>2 DEF Deliverable
      <4>2. delivs' = [delivs EXCEPT ![d] = sent]
        BY <2>1, <2>2, <3>2 DEF Deliverable
      <4> HIDE DEF sent
      <4>3. QED  BY <2>1, <4>1, <4>2, Halves DEF DelivInv
    <3>3. QED  BY <1>9, <3>1, <3>2 DEF ReleaseWrite
  <2>5. RequestInv'
    BY <1>9, <2>3, <2>4, Halves, FinishIsSound DEF ReleaseWrite
  <2>6. RunTyped' /\ RunIsSound'
    BY <1>9, <2>3, Halves, RunKept DEF ReleaseWrite
  <2>7. QED  BY <2>3, <2>4, <2>5, <2>6, HalvesNext
<1>10. CASE RunStart(q)
  <2>1. req[q].v \in Version /\ Taken(req[q].v)
    BY <1>10, PendingVersion DEF RunStart, At
  <2>2. RecordInv' /\ TakenStays
    BY <1>1, <1>10, RecordsKept DEF RunStart
  <2>3. RunTyped' /\ RunIsSound'
    <3>1. CASE UNCHANGED run  BY <2>2, <3>1, Halves, RunKept
    <3>2. CASE run' = [phase |-> "started", v |-> req[q].v]
      <4>1. run'.v \in Version /\ Taken(run.v)'
        BY <2>1, <2>2, <3>2 DEF TakenStays
      <4>2. run'.v \in 0..MaxVersion
        BY <4>1, LifecycleAssumption DEF Version
      <4>3. QED  BY <3>2, <4>1, <4>2 DEF RunTyped, RunIsSound
    <3>3. QED  BY <1>10, <3>1, <3>2 DEF RunStart
  <2>4. DelivInv' /\ UNCHANGED delivs
    BY <1>10, Halves DEF DelivInv, RunStart
  <2>5. RequestInv'
    BY <1>10, <2>2, <2>4, Halves, FinishIsSound DEF RunStart
  <2>6. QED  BY <2>2, <2>3, <2>4, <2>5, HalvesNext
<1>11. QED
  BY <1>2, <1>3, <1>4, <1>5, <1>6, <1>7, <1>8, <1>9, <1>10 DEF Write

---------------------------------------------------------------------------
(* The run.                                                                *)

LEMMA RunStepIsSound ==
  ASSUME LifecycleInv, RunCheck \/ RunCommit \/ RunFails
  PROVE  LifecycleInv'
<1>1. UNCHANGED <<delivs, req>>  BY DEF RunCheck, RunCommit, RunFails
<1>2. RecordInv' /\ TakenStays
  <2>1. CASE KeepRecords  BY <2>1, Halves, RecordsKept
  <2>2. CASE RunCommit
    <3>1. run.v \in Version
      BY <2>2, Halves DEF RunCommit, RunIsSound, Running
    <3>2. QED  BY <2>2, <3>1, Halves, RowsWritten DEF RunCommit
  <2>3. QED  BY <2>1, <2>2 DEF RunCheck, RunFails
<1>3. RunTyped' /\ RunIsSound'
  <2>1. CASE run' = NoRun  BY <2>1, NoRunIsSound
  <2>2. CASE RunCheck /\ ~Locked(run.v)
    <3> DEFINE phase == IF run.phase = "started" THEN "working" ELSE "checked"
    <3>1. run' = [run EXCEPT !.phase = phase]  BY <2>2 DEF RunCheck
    <3>2. RunTyped /\ RunIsSound /\ Running
      BY <2>2, Halves DEF RunCheck, Running
    <3>3. QED  BY <1>2, <3>1, <3>2 DEF RunTyped, RunIsSound, TakenStays
  <2>3. QED  BY <2>1, <2>2 DEF RunCheck, RunCommit, RunFails
<1>4. DelivInv' /\ RequestInv'
  BY <1>1, <1>2, Halves, RequestsKept DEF DelivInv
<1>5. QED  BY <1>2, <1>3, <1>4, HalvesNext

---------------------------------------------------------------------------
(* Approval.  What was approved or released stands, but for what a late    *)
(* submission undoes, and that is on record; reports and revisions, and    *)
(* the requests about to make them, stay on versions that stand.           *)

Standing == StatusIn({"approved", "released"}) \cup Undone

Sent == StatusIn({"released"}) \cup Undone

RevisionsBuilt ==
  \A v \in Version : recs[v].from # 0 => recs[v].from < v /\ recs[v].from \in Standing

ReportsBuilt ==
  \A d \in DOMAIN delivs :
    /\ delivs[d].parent \in Standing
    /\ delivs[d].released => delivs[d].parent \in Sent

\* A revision or a report in the making has a source that stands; a release
\* that will not flip its parent has one that is sent, or was undone.
RequestsOnApproval ==
  \A q \in Request :
    LET r == req[q]
    IN /\ r.op \in {"revise", "finalize"} => r.v \in Standing
       /\ (r.op = "revise" /\ r.at = "write") => r.v < r.new
       /\ (r.op = "release" /\ r.seen.parent # "approved") =>
            delivs[r.v].parent \in Sent

ApprovalInv == RevisionsBuilt /\ ReportsBuilt /\ RequestsOnApproval

\* A step takes the approval or release of a version back only on record.
Stands ==
  /\ late \subseteq late'
  /\ \A v \in Version : recs[v].status \in {"approved", "released"} =>
       recs'[v].status \in {recs[v].status, "released"}
         \/ <<v, recs[v].status>> \in late'

SourcesStay == \A v \in Version : recs'[v].from = recs[v].from

Grows == Standing \subseteq Standing' /\ Sent \subseteq Sent'

LEMMA StandingGrows ==
  ASSUME Stands
  PROVE  Grows
<1>1. Undone \subseteq Undone'  BY DEF Stands, Undone
<1>2. ASSUME NEW v \in StatusIn({"approved", "released"})
      PROVE  v \in Standing'
  BY <1>2 DEF Stands, Standing, StatusIn, Undone
<1>3. ASSUME NEW v \in StatusIn({"released"})
      PROVE  v \in Sent'
  BY <1>3 DEF Stands, Sent, StatusIn, Undone
<1>4. Standing \subseteq Standing'
  BY <1>1, <1>2 DEF Standing
<1>5. Sent \subseteq Sent'
  BY <1>1, <1>3 DEF Sent
<1>6. QED  BY <1>4, <1>5 DEF Grows

\* Only what is neither approved nor released is approved or discarded; only
\* what is approved is released; and a submission leaves a record.
LEMMA StatusStands ==
  ASSUME RecordInv, NEW v \in Version, NEW s, SetStatus(v, s),
         s \in {"submitted", "released"}
           \/ recs[v].status \notin {"approved", "released"}
  PROVE  Grows /\ SourcesStay
<1>1. recs' = [recs EXCEPT ![v].status = s]  BY DEF SetStatus
<1>2. /\ \A w \in Version : recs'[w].status = IF w = v THEN s ELSE recs[w].status
      /\ SourcesStay
  BY <1>1 DEF RecordInv, Record, SourcesStay
<1>3. /\ late \subseteq late'
      /\ (s = "submitted" /\ recs[v].status # "draft") =>
           <<v, recs[v].status>> \in late'
  BY DEF SetStatus
<1>4. Stands  BY <1>2, <1>3 DEF Stands
<1>5. QED  BY <1>2, <1>4, StandingGrows

LEMMA KeptStands ==
  ASSUME KeepRecords
  PROVE  Grows /\ SourcesStay
BY DEF KeepRecords, Grows, SourcesStay, Standing, Sent, StatusIn, Undone

LEMMA RowsStand ==
  ASSUME RecordInv, NEW v \in Version, WriteRows(v), UNCHANGED late
  PROVE  Grows /\ SourcesStay
<1>1. recs' = [recs EXCEPT ![v].content = recs[v].content + 1]
  BY DEF WriteRows
<1>2. \A w \in Version : recs'[w].status = recs[w].status
  BY <1>1 DEF RecordInv, Record
<1>3. SourcesStay  BY <1>1 DEF RecordInv, Record, SourcesStay
<1>4. Stands  BY <1>2 DEF Stands
<1>5. QED  BY <1>3, <1>4, StandingGrows

LEMMA RevisionsKept ==
  ASSUME RevisionsBuilt, Grows, SourcesStay
  PROVE  RevisionsBuilt'
BY DEF RevisionsBuilt, Grows, SourcesStay

LEMMA ReportsKept ==
  ASSUME ReportsBuilt, Grows, UNCHANGED delivs
  PROVE  ReportsBuilt'
BY DEF ReportsBuilt, Grows

\* What a request relies on grows, so it may go on, or finish.
LEMMA ApprovedRequestsKept ==
  ASSUME RequestInv, RequestsOnApproval, Grows,
         \A d \in DOMAIN delivs : delivs'[d].parent = delivs[d].parent,
         \A p \in Request : req'[p] = req[p] \/ req'[p] = Idle
  PROVE  RequestsOnApproval'
<1>1. SUFFICES ASSUME NEW p \in Request
               PROVE  /\ req'[p].op \in {"revise", "finalize"} =>
                           req'[p].v \in Standing'
                      /\ (req'[p].op = "revise" /\ req'[p].at = "write") =>
                           req'[p].v < req'[p].new
                      /\ (req'[p].op = "release"
                           /\ req'[p].seen.parent # "approved") =>
                           delivs'[req'[p].v].parent \in Sent'
  BY DEF RequestsOnApproval
<1>2. CASE req'[p] = Idle  BY <1>2 DEF Idle
<1>3. CASE req'[p] = req[p]
  <2>1. req[p].op = "release" => req[p].v \in DOMAIN delivs
    BY DEF RequestInv, PendingIsSound
  <2>2. QED  BY <1>3, <2>1 DEF RequestsOnApproval, Grows
<1>4. QED  BY <1>2, <1>3

LEMMA FinishedOrKept ==
  ASSUME RequestInv, NEW q \in Request, Finish(q)
  PROVE  \A p \in Request : req'[p] = req[p] \/ req'[p] = Idle
BY DEF RequestInv, Finish

\* A step that finishes its request, or leaves requests alone, and leaves the
\* deliverables alone.
LEMMA ApprovalKept ==
  ASSUME LifecycleInv, ApprovalInv, Grows, SourcesStay, UNCHANGED delivs,
         \A p \in Request : req'[p] = req[p] \/ req'[p] = Idle
  PROVE  ApprovalInv'
<1>1. RequestInv  BY Halves
<1>2. RevisionsBuilt' /\ ReportsBuilt'
  BY RevisionsKept, ReportsKept DEF ApprovalInv
<1>3. RequestsOnApproval'  BY <1>1, ApprovedRequestsKept DEF ApprovalInv
<1>4. QED  BY <1>2, <1>3 DEF ApprovalInv

\* A step of one request that reads the tables, and what it then relies on.
LEMMA ApprovalRead ==
  ASSUME LifecycleInv, ApprovalInv, ReadOnly, NEW q \in Request,
         \A p \in Request : p # q => req'[p] = req[p],
         NEW r, req'[q] = r,
         r.op \in {"revise", "finalize"} => r.v \in Standing,
         (r.op = "revise" /\ r.at = "write") => r.v < r.new,
         (r.op = "release" /\ r.seen.parent # "approved") =>
           delivs[r.v].parent \in Sent
  PROVE  ApprovalInv'
<1>1. Grows /\ SourcesStay  BY KeptStands DEF ReadOnly
<1>2. RevisionsBuilt' /\ ReportsBuilt'
  BY <1>1, RevisionsKept, ReportsKept DEF ApprovalInv, ReadOnly
<1>3. RequestsOnApproval'
  <2>1. SUFFICES ASSUME NEW p \in Request
                 PROVE  /\ req'[p].op \in {"revise", "finalize"} =>
                             req'[p].v \in Standing
                        /\ (req'[p].op = "revise" /\ req'[p].at = "write") =>
                             req'[p].v < req'[p].new
                        /\ (req'[p].op = "release"
                             /\ req'[p].seen.parent # "approved") =>
                             delivs[req'[p].v].parent \in Sent
    BY <1>1 DEF RequestsOnApproval, Grows, ReadOnly
  <2>2. CASE p = q  BY <2>2
  <2>3. CASE p # q  BY <2>3 DEF ApprovalInv, RequestsOnApproval
  <2>4. QED  BY <2>2, <2>3
<1>4. QED  BY <1>2, <1>3 DEF ApprovalInv

LEMMA BeginKeepsApproval ==
  ASSUME LifecycleInv, ApprovalInv, ReadOnly, NEW q \in Request,
         NEW op, NEW v, NEW at, Begin(q, op, v, at), op # "release",
         op = "revise" => at = "mint",
         op \in {"revise", "finalize"} => v \in Standing
  PROVE  ApprovalInv'
<1> DEFINE r == [Idle EXCEPT !.op = op, !.at = at, !.v = v]
<1>1. req' = [req EXCEPT ![q] = r] /\ req \in [Request -> Pending]
  BY Halves DEF Begin, RequestInv
<1>2. r.op = op /\ r.at = at /\ r.v = v  BY DEF Idle
<1> HIDE DEF r
<1>3. req'[q] = r /\ \A p \in Request : p # q => req'[p] = req[p]
  BY <1>1
<1>4. QED  BY <1>2, <1>3, ApprovalRead

LEMMA ReadKeepsApproval ==
  ASSUME LifecycleInv, ApprovalInv, NEW q \in Request, Read(q)
  PROVE  ApprovalInv'
<1>1. CASE CreateRead(q)
  BY <1>1, BeginKeepsApproval DEF CreateRead
<1>2. CASE SubmitRead(q)
  BY <1>2, BeginKeepsApproval DEF SubmitRead
<1>3. CASE RunRead(q)
  BY <1>3, BeginKeepsApproval DEF RunRead
<1>4. CASE FinalizeRead(q)
  <2>1. Latest \in Standing  BY <1>4 DEF FinalizeRead, Standing
  <2>2. QED  BY <1>4, <2>1, BeginKeepsApproval DEF FinalizeRead
<1>5. ASSUME NEW v \in Version, ReviseRead(q, v)
      PROVE  ApprovalInv'
  <2>1. v \in Standing
    BY <1>5 DEF ReviseRead, MayRevise, Standing, StatusIn
  <2>2. QED  BY <1>5, <2>1, BeginKeepsApproval DEF ReviseRead
<1>6. ASSUME NEW v \in Version, ApproveRead(q, v)
      PROVE  ApprovalInv'
  BY <1>6, BeginKeepsApproval DEF ApproveRead
<1>7. ASSUME NEW v \in Version, DiscardRead(q, v)
      PROVE  ApprovalInv'
  BY <1>7, BeginKeepsApproval DEF DiscardRead
<1>8. ASSUME NEW v \in Version, NEW op \in {"answer", "self", "score"},
             EditRead(q, op, v)
      PROVE  ApprovalInv'
  BY <1>8, BeginKeepsApproval DEF EditRead
<1>9. ASSUME NEW d \in 1..MaxDelivs, ReleaseRead(q, d)
      PROVE  ApprovalInv'
  <2> DEFINE parent == delivs[d].parent
             seen == [first |-> ~delivs[d].released,
                      parent |-> recs[parent].status]
             r == [Idle EXCEPT !.op = "release", !.at = "write", !.v = d,
                               !.seen = seen]
  <2>1. /\ d \in DOMAIN delivs /\ req' = [req EXCEPT ![q] = r]
        /\ req \in [Request -> Pending] /\ ReadOnly
    BY <1>9, Halves DEF ReleaseRead, RequestInv
  <2>2. r.op = "release" /\ r.v = d /\ r.seen = seen
    BY DEF Idle
  <2>3. seen.parent # "approved" => parent \in Sent
    BY <2>1 DEF ApprovalInv, ReportsBuilt, Standing, Sent, StatusIn
  <2> HIDE DEF r, seen
  <2>4. req'[q] = r /\ \A p \in Request : p # q => req'[p] = req[p]
    BY <2>1
  <2>5. QED  BY <2>1, <2>2, <2>3, <2>4, ApprovalRead
<1>10. QED
  BY <1>1, <1>2, <1>3, <1>4, <1>5, <1>6, <1>7, <1>8, <1>9 DEF Read

\* A revision's number is above its source's, which is taken.
LEMMA MintKeepsApproval ==
  ASSUME LifecycleInv, ApprovalInv, NEW q \in Request, Mint(q)
  PROVE  ApprovalInv'
<1> DEFINE r == [req[q] EXCEPT !.at = "write", !.new = MaxTaken + 1]
           S == StatusIn(Status \ {"none"})
<1>1. /\ RecordInv /\ RequestInv /\ ReadOnly
      /\ req[q] \in Pending /\ req[q].op \in {"create", "revise"}
  BY Halves DEF Mint, RequestInv, PendingIsSound
<1>2. req' = [req EXCEPT ![q] = r]  BY DEF Mint
<1>3. r.op = req[q].op /\ r.v = req[q].v /\ r.new = MaxTaken + 1
  BY <1>1 DEF Pending
<1>4. ASSUME req[q].op = "revise"
      PROVE  req[q].v < MaxTaken + 1
  <2>1. req[q].v \in Version /\ Taken(req[q].v)
    BY <1>4, PendingVersion DEF Mint
  <2>2. req[q].v \in S /\ S \in SUBSET Version
    BY <1>1, <2>1 DEF RecordInv, Record, StatusIn, Taken
  <2>3. MaxTaken = Newest(S)  BY DEF MaxTaken
  <2> HIDE DEF S
  <2>4. Newest(S) \in Version /\ req[q].v <= Newest(S)
    BY <2>2, NewestIsNewest
  <2>5. QED  BY <2>1, <2>3, <2>4 DEF Version
<1>5. req[q].op = "revise" => req[q].v \in Standing
  BY DEF ApprovalInv, RequestsOnApproval
<1> HIDE DEF r, S
<1>6. req'[q] = r /\ \A p \in Request : p # q => req'[p] = req[p]
  BY <1>1, <1>2 DEF RequestInv
<1>7. QED  BY <1>1, <1>3, <1>4, <1>5, <1>6, ApprovalRead

\* Whatever is inserted, what stood stands; a revision's source stands.
LEMMA InsertKeepsApproval ==
  ASSUME LifecycleInv, ApprovalInv, NEW q \in Request, Insert(q)
  PROVE  ApprovalInv'
<1> DEFINE new == req[q].new
           source == IF req[q].op = "revise" THEN req[q].v ELSE 0
           r == [status |-> "draft", from |-> source,
                 content |-> IF source = 0 THEN 0 ELSE recs[source].content]
<1>1. /\ RecordInv /\ RequestInv
      /\ Finish(q) /\ UNCHANGED <<delivs, run, settled, late>>
  BY Halves DEF Insert
<1>2. CASE UNCHANGED recs
  <2>1. Grows /\ SourcesStay  BY <1>1, <1>2, KeptStands DEF KeepRecords
  <2>2. QED  BY <1>1, <2>1, FinishedOrKept, ApprovalKept
<1>3. CASE ~IndexRefuses(new) /\ recs' = [recs EXCEPT ![new] = r]
  <2>1. source # 0 => source < new /\ source \in Standing
    BY DEF ApprovalInv, RequestsOnApproval, Insert, At
  <2>2. r.from = source /\ r.status = "draft" /\ recs[new].status = "none"
    BY <1>3 DEF IndexRefuses
  <2> HIDE DEF r, new, source
  <2>3. \A v \in Version : recs'[v] = IF v = new THEN r ELSE recs[v]
    BY <1>1, <1>3 DEF RecordInv
  <2>4. Grows
    <3>1. Stands  BY <1>1, <2>2, <2>3 DEF Stands
    <3>2. QED  BY <3>1, StandingGrows
  <2>5. RevisionsBuilt'
    BY <2>1, <2>2, <2>3, <2>4 DEF ApprovalInv, RevisionsBuilt, Grows
  <2>6. ReportsBuilt'  BY <1>1, <2>4, ReportsKept DEF ApprovalInv
  <2>7. RequestsOnApproval'
    BY <1>1, <2>4, FinishedOrKept, ApprovedRequestsKept DEF ApprovalInv
  <2>8. QED  BY <2>5, <2>6, <2>7 DEF ApprovalInv
<1>4. QED  BY <1>2, <1>3 DEF Insert

LEMMA FinalizeKeepsApproval ==
  ASSUME LifecycleInv, ApprovalInv, NEW q \in Request, FinalizeWrite(q)
  PROVE  ApprovalInv'
<1> DEFINE n == [parent |-> req[q].v, released |-> FALSE]
<1>1. /\ RequestInv /\ Finish(q) /\ KeepRecords
      /\ delivs \in Seq(Deliverable) /\ delivs' = Append(delivs, n)
  BY Halves DEF FinalizeWrite, DelivInv, ParentOf
<1>2. n.parent \in Standing /\ n.released = FALSE
  BY DEF ApprovalInv, RequestsOnApproval, FinalizeWrite, At
<1>3. Grows /\ SourcesStay  BY <1>1, KeptStands
<1> HIDE DEF n
<1>4. \A d \in DOMAIN delivs' : \/ d \in DOMAIN delivs /\ delivs'[d] = delivs[d]
                                \/ delivs'[d] = n
  BY <1>1
<1>5. \A d \in DOMAIN delivs : delivs'[d] = delivs[d]
  BY <1>1
<1>6. ReportsBuilt'
  BY <1>2, <1>3, <1>4 DEF ApprovalInv, ReportsBuilt, Grows
<1>7. RequestsOnApproval'
  BY <1>1, <1>3, <1>5, FinishedOrKept, ApprovedRequestsKept DEF ApprovalInv
<1>8. RevisionsBuilt'  BY <1>3, RevisionsKept DEF ApprovalInv
<1>9. QED  BY <1>6, <1>7, <1>8 DEF ApprovalInv

\* A release that goes through leaves its parent sent: it flips it, finds it
\* flipped, or had read one that was sent already or undone.
LEMMA ReleaseKeepsApproval ==
  ASSUME LifecycleInv, ApprovalInv, NEW q \in Request, ReleaseWrite(q)
  PROVE  ApprovalInv'
<1> DEFINE d == req[q].v
           p == delivs[d].parent
           flips == req[q].seen.parent = "approved"
           moved == flips /\ recs[p].status \notin {"approved", "released"}
<1>1. /\ RequestInv /\ RecordInv /\ Finish(q) /\ delivs \in Seq(Deliverable)
      /\ d \in DOMAIN delivs
  BY Halves
  DEF ReleaseWrite, At, RequestInv, PendingIsSound, DelivInv
<1>2. delivs[d] \in Deliverable /\ p \in Version
  <2>1. delivs[d] \in Deliverable  BY <1>1
  <2>2. QED  BY <2>1 DEF Deliverable
<1>3. \/ KeepRecords
      \/ flips /\ recs[p].status = "approved" /\ SetStatus(p, "released")
  BY DEF ReleaseWrite, FlipParent
<1>4. Grows /\ SourcesStay
  <2> HIDE DEF p
  <2>1. QED  BY <1>1, <1>2, <1>3, KeptStands, StatusStands
<1>5. ~moved => p \in Sent'
  <2>1. CASE ~flips
    <3>1. p \in Sent
      BY <2>1 DEF ApprovalInv, RequestsOnApproval, ReleaseWrite, At
    <3>2. QED  BY <1>4, <3>1 DEF Grows
  <2>2. CASE flips /\ recs[p].status = "released"
    <3>1. p \in Sent  BY <1>2, <2>2 DEF Sent, StatusIn
    <3>2. QED  BY <1>4, <3>1 DEF Grows
  <2>3. CASE flips /\ recs[p].status = "approved"
    <3>1. SetStatus(p, "released")
      BY <2>3 DEF ReleaseWrite, FlipParent
    <3>2. recs'[p].status = "released"
      BY <1>1, <1>2, <3>1 DEF SetStatus, RecordInv, Record
    <3>3. QED  BY <1>2, <3>2 DEF Sent, StatusIn
  <2>4. QED  BY <2>1, <2>2, <2>3
<1>6. \/ UNCHANGED delivs
      \/ ~moved /\ delivs' = [delivs EXCEPT ![d].released = TRUE]
  BY DEF ReleaseWrite
<1>7. /\ DOMAIN delivs' = DOMAIN delivs
      /\ \A e \in DOMAIN delivs :
           /\ delivs'[e].parent = delivs[e].parent
           /\ (delivs'[e].released /\ ~delivs[e].released) =>
                ~moved /\ delivs'[e].parent = p
  BY <1>1, <1>2, <1>6 DEF Deliverable
<1> HIDE DEF p, moved, d
<1>8. ReportsBuilt'
  BY <1>4, <1>5, <1>7 DEF ApprovalInv, ReportsBuilt, Grows
<1>9. RequestsOnApproval'
  BY <1>1, <1>4, <1>7, FinishedOrKept, ApprovedRequestsKept DEF ApprovalInv
<1>10. RevisionsBuilt'  BY <1>4, RevisionsKept DEF ApprovalInv
<1>11. QED  BY <1>8, <1>9, <1>10 DEF ApprovalInv

\* What a write of one request does to the records.
LEMMA WriteStands ==
  ASSUME LifecycleInv, NEW q \in Request,
         \/ EditWrite(q) \/ SubmitWrite(q) \/ ApproveWrite(q)
         \/ DiscardWrite(q) \/ RunStart(q)
  PROVE  Grows /\ SourcesStay
<1>1. RecordInv  BY Halves
<1>2. CASE EditWrite(q)
  <2>1. req[q].v \in Version  BY <1>2, PendingVersion DEF EditWrite, At
  <2>2. QED  BY <1>1, <1>2, <2>1, RowsStand DEF EditWrite
<1>3. CASE SubmitWrite(q)
  <2>1. req[q].v \in Version  BY <1>3, PendingVersion DEF SubmitWrite, At
  <2>2. QED  BY <1>1, <1>3, <2>1, StatusStands DEF SubmitWrite
<1>4. CASE ApproveWrite(q)
  <2>1. req[q].v \in Version  BY <1>4, PendingVersion DEF ApproveWrite, At
  <2>2. QED
    BY <1>1, <1>4, <2>1, StatusStands, KeptStands DEF ApproveWrite, Approvable
<1>5. CASE DiscardWrite(q)
  <2>1. req[q].v \in Version  BY <1>5, PendingVersion DEF DiscardWrite, At
  <2>2. QED
    BY <1>1, <1>5, <2>1, StatusStands, KeptStands DEF DiscardWrite, Discardable
<1>6. CASE RunStart(q)  BY <1>6, KeptStands DEF RunStart
<1>7. QED  BY <1>2, <1>3, <1>4, <1>5, <1>6

LEMMA RunStands ==
  ASSUME LifecycleInv, RunCheck \/ RunCommit \/ RunFails
  PROVE  Grows /\ SourcesStay
<1>1. CASE RunCommit
  <2>1. run.v \in Version
    BY <1>1, Halves DEF RunCommit, RunIsSound, Running
  <2>2. QED  BY <1>1, <2>1, Halves, RowsStand DEF RunCommit
<1>2. QED  BY <1>1, KeptStands DEF RunCheck, RunFails

LEMMA ApprovalInit == Init => ApprovalInv
BY DEF Init, ApprovalInv, RevisionsBuilt, ReportsBuilt, RequestsOnApproval,
       NoRecord, Idle

LEMMA ApprovalNext == LifecycleInv /\ ApprovalInv /\ [Next]_vars => ApprovalInv'
<1> SUFFICES ASSUME LifecycleInv, ApprovalInv, [Next]_vars
             PROVE  ApprovalInv'
  OBVIOUS
<1>1. ASSUME NEW q \in Request, Read(q) PROVE ApprovalInv'
  BY <1>1, ReadKeepsApproval
<1>2. ASSUME NEW q \in Request,
             \/ EditWrite(q) \/ SubmitWrite(q) \/ ApproveWrite(q)
             \/ DiscardWrite(q) \/ RunStart(q)
      PROVE  ApprovalInv'
  <2>1. Finish(q) /\ UNCHANGED delivs
    BY <1>2 DEF EditWrite, SubmitWrite, ApproveWrite, DiscardWrite, RunStart
  <2>2. Grows /\ SourcesStay  BY <1>2, WriteStands
  <2>3. \A p \in Request : req'[p] = req[p] \/ req'[p] = Idle
    BY <2>1, Halves, FinishedOrKept
  <2>4. QED  BY <2>1, <2>2, <2>3, ApprovalKept
<1>3. ASSUME NEW q \in Request, Write(q) PROVE ApprovalInv'
  BY <1>2, <1>3, MintKeepsApproval, InsertKeepsApproval, FinalizeKeepsApproval,
     ReleaseKeepsApproval
  DEF Write
<1>4. CASE RunCheck \/ RunCommit \/ RunFails
  <2>1. UNCHANGED <<delivs, req>>
    BY <1>4 DEF RunCheck, RunCommit, RunFails
  <2>2. QED  BY <1>4, <2>1, RunStands, ApprovalKept
<1>5. CASE UNCHANGED vars
  <2>1. UNCHANGED <<delivs, req>> /\ KeepRecords
    BY <1>5 DEF vars, KeepRecords
  <2>2. QED  BY <2>1, KeptStands, ApprovalKept
<1>6. QED  BY <1>1, <1>3, <1>4, <1>5 DEF Next

---------------------------------------------------------------------------
(* What the client sees.                                                   *)

\* A released or a discarded version is overwritten by a late submission and
\* nothing else.
LEMMA EndedStays ==
  ASSUME LifecycleInv, [Next]_vars, NEW v \in Version,
         NEW ended \in {"released", "discarded"}, recs[v].status = ended,
         ~LateSubmission(v)
  PROVE  recs'[v].status = ended
<1>1. RecordInv  BY Halves
<1>2. ASSUME NEW w \in Version, NEW s, SetStatus(w, s), w # v
      PROVE  recs'[v].status = ended
  BY <1>1, <1>2 DEF SetStatus, RecordInv, Record
<1>3. ASSUME NEW w \in Version, WriteRows(w)
      PROVE  recs'[v].status = ended
  BY <1>1, <1>3 DEF WriteRows, RecordInv, Record
<1>4. CASE UNCHANGED recs  BY <1>4
<1>5. ASSUME NEW q \in Request, Insert(q)
      PROVE  recs'[v].status = ended
  <2> DEFINE new == req[q].new
  <2>1. \/ UNCHANGED recs
        \/ /\ recs[new].status = "none"
           /\ \E r : recs' = [recs EXCEPT ![new] = r]
    BY <1>5 DEF Insert, IndexRefuses
  <2> HIDE DEF new
  <2>2. QED  BY <1>1, <2>1 DEF RecordInv
<1>6. ASSUME NEW q \in Request, EditWrite(q)
      PROVE  recs'[v].status = ended
  <2>1. req[q].v \in Version  BY <1>6, PendingVersion DEF EditWrite, At
  <2>2. QED  BY <1>3, <1>6, <2>1 DEF EditWrite
<1>7. ASSUME NEW q \in Request, SubmitWrite(q)
      PROVE  recs'[v].status = ended
  <2>1. req[q].v \in Version  BY <1>7, PendingVersion DEF SubmitWrite, At
  <2>2. SetStatus(req[q].v, "submitted")  BY <1>7 DEF SubmitWrite
  <2>3. req[q].v # v
    <3>1. SUFFICES ASSUME req[q].v = v PROVE LateSubmission(v)  OBVIOUS
    <3>2. recs'[v].status = "submitted"
      BY <1>1, <2>2, <3>1 DEF SetStatus, RecordInv, Record
    <3>3. QED  BY <1>7, <3>1, <3>2 DEF SubmitWrite, LateSubmission
  <2>4. QED  BY <1>2, <2>1, <2>2, <2>3
<1>8. ASSUME NEW q \in Request, ApproveWrite(q)
      PROVE  recs'[v].status = ended
  <2>1. req[q].v \in Version  BY <1>8, PendingVersion DEF ApproveWrite, At
  <2>2. KeepRecords \/ (req[q].v # v /\ SetStatus(req[q].v, "approved"))
    BY <1>8 DEF ApproveWrite, Approvable
  <2>3. QED  BY <1>2, <1>4, <2>1, <2>2 DEF KeepRecords
<1>9. ASSUME NEW q \in Request, DiscardWrite(q)
      PROVE  recs'[v].status = ended
  <2>1. req[q].v \in Version  BY <1>9, PendingVersion DEF DiscardWrite, At
  <2>2. KeepRecords \/ (req[q].v # v /\ SetStatus(req[q].v, "discarded"))
    BY <1>9 DEF DiscardWrite, Discardable
  <2>3. QED  BY <1>2, <1>4, <2>1, <2>2 DEF KeepRecords
<1>10. ASSUME NEW q \in Request, ReleaseWrite(q)
       PROVE  recs'[v].status = ended
  <2> DEFINE p == delivs[req[q].v].parent
  <2>1. p \in Version
    <3>1. req[q].v \in DOMAIN delivs /\ delivs \in Seq(Deliverable)
      BY <1>10, Halves
      DEF ReleaseWrite, At, RequestInv, PendingIsSound, DelivInv
    <3>2. delivs[req[q].v] \in Deliverable  BY <3>1
    <3>3. QED  BY <3>2 DEF Deliverable
  <2>2. KeepRecords \/ (p # v /\ SetStatus(p, "released"))
    BY <1>10 DEF ReleaseWrite, FlipParent
  <2> HIDE DEF p
  <2>3. QED  BY <1>2, <1>4, <2>1, <2>2 DEF KeepRecords
<1>11. CASE RunCommit
  <2>1. run.v \in Version
    BY <1>11, Halves DEF RunCommit, RunIsSound, Running
  <2>2. QED  BY <1>3, <1>11, <2>1 DEF RunCommit
<1>12. ASSUME NEW q \in Request,
              Read(q) \/ Mint(q) \/ FinalizeWrite(q) \/ RunStart(q)
       PROVE  recs'[v].status = ended
  <2>1. UNCHANGED recs
    BY <1>12
    DEF Read, CreateRead, SubmitRead, FinalizeRead, RunRead, ReviseRead,
        ApproveRead, DiscardRead, EditRead, ReleaseRead, Mint, FinalizeWrite,
        RunStart, ReadOnly, KeepRecords
  <2>2. QED  BY <1>4, <2>1
<1>13. CASE RunCheck \/ RunFails \/ UNCHANGED vars
  BY <1>4, <1>13 DEF RunCheck, RunFails, KeepRecords, vars
<1>14. QED
  BY <1>5, <1>6, <1>7, <1>8, <1>9, <1>10, <1>11, <1>12, <1>13 DEF Next, Write

LEMMA ShownStays ==
  LifecycleInv /\ [Next]_vars => Shown' >= Shown \/ LateSubmission(Shown)
<1> SUFFICES ASSUME LifecycleInv, [Next]_vars, ~LateSubmission(Shown)
             PROVE  Shown' >= Shown
  OBVIOUS
<1> DEFINE S == StatusIn({"released"})
           T == {v \in Version : recs'[v].status = "released"}
<1>1. Shown = Newest(S) /\ Shown' = Newest(T) /\ S \in SUBSET Version
  BY DEF Shown, StatusIn, Newest
<1>2. T \in SUBSET Version  OBVIOUS
<1>3. Newest(T) \in Nat
  <2>1. CASE T = {}  BY <2>1 DEF Newest
  <2>2. CASE T # {}
    <3> HIDE DEF T
    <3>1. Newest(T) \in Version  BY <1>2, <2>2, NewestIsNewest
    <3>2. QED  BY <3>1 DEF Version
  <2>3. QED  BY <2>1, <2>2
<1>4. CASE S = {}
  <2>1. Shown = 0  BY <1>1, <1>4 DEF Newest
  <2>2. QED  BY <1>1, <1>3, <2>1
<1>5. CASE S # {}
  <2>1. Newest(S) \in S
    <3> HIDE DEF S
    <3>1. QED  BY <1>1, <1>5, NewestIsNewest
  <2>2. Shown \in Version /\ recs[Shown].status = "released"
    BY <1>1, <2>1 DEF StatusIn
  <2>3. recs'[Shown].status = "released"  BY <2>2, EndedStays
  <2>4. Shown \in T  BY <2>2, <2>3
  <2> HIDE DEF T, S
  <2>5. Shown <= Newest(T) /\ Newest(T) \in Version
    BY <1>2, <2>4, NewestIsNewest
  <2>6. QED  BY <1>1, <2>2, <2>5 DEF Version
<1>6. QED  BY <1>4, <1>5

---------------------------------------------------------------------------
(* Submissions that are not late.                                          *)

\* Whoever is about to write "submitted" still finds the draft it read.
Prompt ==
  \A q \in Request : At(q, "submit") => recs[req[q].v].status = "draft"

\* A discarded version never becomes anything else.
Retired ==
  \A v \in Version :
    recs[v].status = "discarded" => recs'[v].status = "discarded"

LEMMA PromptIsNotLate ==
  ASSUME Prompt, NEW v \in Version  PROVE ~LateSubmission(v)
BY DEF Prompt, LateSubmission

LEMMA NothingLate ==
  ASSUME Prompt, late = {}, [Next]_vars  PROVE late' = {}
<1>1. ASSUME NEW v, NEW s,
             SetStatus(v, s), s = "submitted" => recs[v].status = "draft"
      PROVE  late' = {}
  BY <1>1 DEF SetStatus
<1>2. CASE UNCHANGED late  BY <1>2
<1>3. ASSUME NEW q \in Request, SubmitWrite(q) PROVE late' = {}
  BY <1>1, <1>3 DEF SubmitWrite, Prompt
<1>4. ASSUME NEW q \in Request,
             ApproveWrite(q) \/ DiscardWrite(q) \/ ReleaseWrite(q)
      PROVE  late' = {}
  BY <1>1, <1>2, <1>4
  DEF ApproveWrite, DiscardWrite, ReleaseWrite, FlipParent, KeepRecords
<1>5. ASSUME NEW q \in Request,
             \/ Read(q) \/ Mint(q) \/ Insert(q) \/ EditWrite(q)
             \/ FinalizeWrite(q) \/ RunStart(q)
      PROVE  UNCHANGED late
  BY <1>5
  DEF Read, CreateRead, SubmitRead, FinalizeRead, RunRead, ReviseRead,
      ApproveRead, DiscardRead, EditRead, ReleaseRead, Mint, Insert, EditWrite,
      FinalizeWrite, RunStart, ReadOnly, KeepRecords
<1>6. RunCheck \/ RunCommit \/ RunFails \/ UNCHANGED vars => UNCHANGED late
  BY DEF RunCheck, RunCommit, RunFails, KeepRecords, vars
<1>7. QED  BY <1>2, <1>3, <1>4, <1>5, <1>6 DEF Next, Write

LEMMA PromptStep ==
  ASSUME LifecycleInv, Prompt, late = {}, [Next]_vars
  PROVE  Retired /\ Shown' >= Shown
<1>1. ASSUME NEW v \in Version, recs[v].status = "discarded"
      PROVE  recs'[v].status = "discarded"
  BY <1>1, PromptIsNotLate, EndedStays
<1>2. ~LateSubmission(Shown)
  BY DEF Prompt, LateSubmission
<1>3. QED  BY <1>1, <1>2, ShownStays DEF Retired

---------------------------------------------------------------------------
(* The theorems.                                                           *)

LEMMA InitIsSound == Init => LifecycleInv
<1> SUFFICES ASSUME Init PROVE LifecycleInv  OBVIOUS
<1>1. \A v \in Version : ~Taken(v)  BY DEF Init, Taken, NoRecord
<1>2. RecordInv
  BY <1>1, LifecycleAssumption
  DEF RecordInv, Init, NoRecord, Record, Status, NoGaps, NothingAboveADraft,
      Settled
<1>3. DelivInv  BY LifecycleAssumption DEF DelivInv, Init
<1>4. RunTyped /\ RunIsSound
  BY LifecycleAssumption DEF RunTyped, RunIsSound, Running, Init, NoRun
<1>5. RequestInv
  BY LifecycleAssumption
  DEF RequestInv, PendingIsSound, Init, Idle, Pending, NothingSeen, Status
<1>6. QED  BY <1>2, <1>3, <1>4, <1>5, Halves

LEMMA NextIsSound == LifecycleInv /\ [Next]_vars => LifecycleInv'
<1> SUFFICES ASSUME LifecycleInv, [Next]_vars PROVE LifecycleInv'  OBVIOUS
<1>1. CASE \E q \in Request : Read(q) \/ Write(q)
  BY <1>1, ReadIsSound, WriteIsSound
<1>2. CASE RunCheck \/ RunCommit \/ RunFails
  BY <1>2, RunStepIsSound
<1>3. CASE UNCHANGED vars
  <2>1. ReadOnly /\ UNCHANGED req
    BY <1>3 DEF vars, ReadOnly, KeepRecords
  <2>2. RequestInv'
    BY <2>1, Halves, RecordsKept, RequestsKept DEF ReadOnly
  <2>3. QED  BY <2>1, <2>2, ReadOnlyStep
<1>4. QED  BY <1>1, <1>2, <1>3 DEF Next

\* LifecycleInv is an invariant for any requests, operations and bounds: the
\* numbering of versions (_max_assessment_version and the two constraints), the
\* one draft, the survival of submitted and approved work, and what pending
\* requests and the run rely on.
THEOREM LifecycleIsSound == Spec => []LifecycleInv
BY InitIsSound, NextIsSound, PTL DEF Spec

\* The tables, the pending requests and the run always have their types.
THEOREM LifecycleTypes == Spec => []TypeOK
<1>1. LifecycleInv => TypeOK  BY DEF LifecycleInv
<1>2. QED  BY <1>1, LifecycleIsSound, PTL

\* Rule I1 of decide_revision: however creates and revisions race, a draft is
\* its service's newest record, so there is at most one.
THEOREM OneDraft == Spec => []DraftIsLatest
<1>1. LifecycleInv => DraftIsLatest
  BY DEF LifecycleInv, NothingAboveADraft, DraftIsLatest, Taken
<1>2. QED  BY <1>1, LifecycleIsSound, PTL

\* D-031: no discard, however late it commits, destroys what was submitted or
\* approved, because its UPDATE asks for a draft again.
THEOREM SettledStands == Spec => []SettledIsNeverDestroyed
<1>1. LifecycleInv => SettledIsNeverDestroyed
  BY DEF LifecycleInv, Settled, SettledIsNeverDestroyed, StatusIn
<1>2. QED  BY <1>1, LifecycleIsSound, PTL

\* ApprovalInv is an invariant: what start_revision, finalize and the release
\* build or send rests on versions whose approval stands, or was undone by a
\* late submission.
THEOREM ApprovalHolds == Spec => []ApprovalInv
BY LifecycleIsSound, ApprovalInit, ApprovalNext, PTL DEF Spec

\* _release_parent: a report that is with the client and its parent's RELEASED
\* are one fact, however releases, repairs and approvals race.
THEOREM ReportGoesWithParent == Spec => []ReleasedTogether
<1>1. ApprovalInv => ReleasedTogether
  BY DEF ApprovalInv, ReportsBuilt, Sent, ReleasedTogether, StatusIn
<1>2. QED  BY <1>1, ApprovalHolds, PTL

\* finalize and decide_revision: reports and revisions are built from versions
\* that were approved, and whose approval still stands.
THEOREM BuiltOnStandingWork == Spec => []BuiltOnApproval
<1>1. ApprovalInv => BuiltOnApproval
  BY DEF ApprovalInv, ReportsBuilt, RevisionsBuilt, Standing, BuiltOnApproval
<1>2. QED  BY <1>1, ApprovalHolds, PTL

\* latest_assessment for a client: whatever runs, the released version shown is
\* never an older one, except after a late submission of the one shown.
THEOREM ReportStaysShown == Spec => ClientKeepsReport
<1>1. LifecycleInv /\ [Next]_vars => [Shown' >= Shown \/ LateSubmission(Shown)]_vars
  BY ShownStays
<1>2. QED  BY <1>1, LifecycleIsSound, PTL DEF Spec, ClientKeepsReport

\* discard is for good, as far as every other operation goes: a discarded
\* version is brought back by a late submission and by nothing else.
THEOREM DiscardedStays ==
  Spec => [][\A v \in Version :
               recs[v].status = "discarded" =>
                 recs'[v].status = "discarded" \/ LateSubmission(v)]_vars
<1>1. LifecycleInv /\ [Next]_vars =>
        [\A v \in Version :
           recs[v].status = "discarded" =>
             recs'[v].status = "discarded" \/ LateSubmission(v)]_vars
  BY EndedStays
<1>2. QED  BY <1>1, LifecycleIsSound, PTL DEF Spec

\* submit_assessment is all that stands between the code and D-031: as long as
\* every submission commits while its version is the draft it read, a discarded
\* version is retired for good, is never approved, and what the client is shown
\* is never taken back.
THEOREM PromptSubmissionsKeepD031 ==
  Spec /\ []Prompt =>
    []DiscardedIsNeverApproved /\ [][Retired /\ Shown' >= Shown]_vars
<1>1. Init => late = {}  BY DEF Init
<1>2. late = {} /\ Prompt /\ [Next]_vars => (late = {})'  BY NothingLate
<1>3. late = {} => DiscardedIsNeverApproved  BY DEF DiscardedIsNeverApproved
<1>4. LifecycleInv /\ Prompt /\ late = {} /\ [Next]_vars =>
        [Retired /\ Shown' >= Shown]_vars
  BY PromptStep
<1>5. QED  BY <1>1, <1>2, <1>3, <1>4, LifecycleIsSound, PTL DEF Spec
=============================================================================
