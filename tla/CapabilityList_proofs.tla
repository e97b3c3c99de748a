----------------------- MODULE CapabilityList_proofs ------------------------
(***************************************************************************)
(* Proofs about CapabilityList: no deliverable shows an undecided row, and *)
(* the lists implement ReviewedDoc - for any requests, operations, rows    *)
(* and bounds.                                                             *)
(*                                                                         *)
(* ListInv is inductive.  Its heart is that the rows of a list change only *)
(* with its revision: what a request loaded at a revision is what the list *)
(* holds while that revision stands, so an approval that finds its         *)
(* revision current is of the rows there are, and a flip that finds the    *)
(* approval current releases the rows that were approved.                  *)
(***************************************************************************)
EXTENDS CapabilityList, SequenceTheorems, TLAPS

---------------------------------------------------------------------------
(* The invariant.                                                          *)

ListRow == [status : Status, revision : Nat, approvedAt : Nat \cup {NoRevision},
            membership : Contents]

Asked == [op : AllOps \cup {"none"},
          at : {"idle", "start", "edit", "build", "judge", "commit", "load",
                "flip", "hand_over"},
          v : Nat, row : Row \cup {"none"}, rev : Nat, rows : Contents,
          flag : BOOLEAN]

Typed ==
  /\ lists \in [Version -> ListRow]
  /\ rows \in [Version -> Contents]
  /\ delivs \in Seq(Deliverable)
  /\ req \in [Request -> Asked]

\* The versions that were taken are the first ones.
NoGaps ==
  \E n \in 0..MaxVersion : \A v \in Version : lists[v].status # "none" <=> v <= n

\* An approval is of complete rows, and of those the list holds as long as the
\* revision it recorded stands; a released list was not edited after it.
ListSound(v) ==
  /\ lists[v].status = "none" => lists[v] = NoList
  /\ lists[v].status \in {"none", "draft", "discarded"}
       <=> lists[v].approvedAt = NoRevision
  /\ lists[v].approvedAt # NoRevision =>
       /\ lists[v].approvedAt <= lists[v].revision
       /\ Complete(lists[v].membership)
       /\ lists[v].approvedAt = lists[v].revision => lists[v].membership = rows[v]
  /\ lists[v].status = "released" => lists[v].approvedAt = lists[v].revision

\* What a request may take for granted of what it loaded.
AskSound(r) ==
  /\ r.at = "edit" => /\ r.v \in Version /\ lists[r.v].status # "none"
                      /\ \/ r.op \in BulkEdits
                         \/ r.op \in RowEdits /\ r.row \in Row
  /\ r.op = "approve" =>
       /\ r.v \in Version /\ lists[r.v].status # "none"
       /\ r.rev <= lists[r.v].revision
       /\ r.rev = lists[r.v].revision => r.rows = rows[r.v]
       /\ r.at # "build" /\ r.rev = lists[r.v].revision => Complete(r.rows)
  /\ r.op = "discard" => r.v \in Version
  /\ r.op = "finalize" =>
       /\ r.v \in Version
       /\ r.at = "load" /\ r.flag => lists[r.v].status = "released"
       /\ r.at = "commit" => NoneUndecided(r.rows)
  /\ r.op = "release" => r.v \in DOMAIN delivs

ListInv ==
  /\ Typed /\ NoGaps
  /\ \A v \in Version : ListSound(v)
  /\ \A q \in Request : AskSound(req[q])
  /\ ReportsAreWhole

---------------------------------------------------------------------------
(* Types.                                                                  *)

LEMMA NothingIsListed == NoRows \in Contents /\ NoRevision \notin Nat
BY DEF NoRows, Contents, Absent, Line, NoRevision

LEMMA IdleIsAsked == Idle \in Asked /\ Idle.at = "idle" /\ Idle.op = "none"
BY NothingIsListed DEF Idle, Asked

LEMMA IdleIsSound == AskSound(Idle)
BY DEF AskSound, Idle

\* A line of which one decision is written, and a list of which one line is.
LEMMA LineIsWritten ==
  ASSUME NEW line \in Line, NEW b \in BOOLEAN, NEW d \in BOOLEAN
  PROVE  /\ [line EXCEPT !.decided = b] \in Line
         /\ [line EXCEPT !.signed = b] \in Line
         /\ [line EXCEPT !.security = b] \in Line
         /\ [line EXCEPT !.excluded = b, !.confirmed = d] \in Line
<1>1. [line EXCEPT !.decided = b] \in Line  BY DEF Line
<1>2. [line EXCEPT !.signed = b] \in Line  BY DEF Line
<1>3. [line EXCEPT !.security = b] \in Line  BY DEF Line
<1>4. [line EXCEPT !.excluded = b, !.confirmed = d] \in Line  BY DEF Line
<1>5. QED  BY <1>1, <1>2, <1>3, <1>4

LEMMA ItemIsCounted ==
  ASSUME NEW line \in Line, NEW n \in Nat
  PROVE  [line EXCEPT !.items = n] \in Line
BY DEF Line

LEMMA WrittenIsTyped ==
  ASSUME NEW loaded, NEW value \in BOOLEAN, NEW current \in BOOLEAN
  PROVE  Written(loaded, value, current) \in BOOLEAN
BY DEF Written

LEMMA ColumnIsTyped ==
  ASSUME NEW now \in Contents, NEW loaded \in Contents, NEW r,
         NEW entry \in [excluded : BOOLEAN, confirmed : BOOLEAN]
  PROVE  Column(now, loaded, r, entry) \in Contents
<1>1. ASSUME NEW s \in Row
      PROVE  LET e == IF s = r THEN entry
                      ELSE [excluded |-> loaded[s].excluded,
                            confirmed |-> loaded[s].confirmed]
             IN [now[s] EXCEPT !.excluded = e.excluded, !.confirmed = e.confirmed]
                  \in Line
  <2>1. now[s] \in Line /\ loaded[s] \in Line  BY DEF Contents
  <2>2. CASE s = r
    <3>1. entry.excluded \in BOOLEAN /\ entry.confirmed \in BOOLEAN  OBVIOUS
    <3>2. QED  BY <2>1, <2>2, <3>1, LineIsWritten
  <2>3. CASE s # r
    <3>1. loaded[s].excluded \in BOOLEAN /\ loaded[s].confirmed \in BOOLEAN
      BY <2>1 DEF Line
    <3>2. QED  BY <2>1, <2>3, <3>1, LineIsWritten
  <2>4. QED  BY <2>2, <2>3
<1>2. QED  BY <1>1 DEF Column, Contents

\* An edit of a list leaves a list.
LEMMA EditedIsTyped ==
  ASSUME NEW op, NEW r, op \in BulkEdits \/ (op \in RowEdits /\ r \in Row),
         NEW now \in Contents, NEW loaded \in Contents
  PROVE  Edited(op, r, now, loaded) \in Contents
<1>1. \A s \in Row : now[s] \in Line /\ loaded[s] \in Line  BY DEF Contents
<1>2. \A s \in Row : /\ now[s].decided \in BOOLEAN /\ now[s].signed \in BOOLEAN
                     /\ now[s].security \in BOOLEAN
  BY <1>1 DEF Line
<1>3. \A s \in Row, line \in Line : [now EXCEPT ![s] = line] \in Contents
  BY DEF Contents
<1>4. CASE op = "keep"
  <2>1. r \in Row  BY <1>4 DEF BulkEdits
  <2>2. [now[r] EXCEPT !.decided = Written(loaded[r].decided, TRUE, @)] \in Line
    BY <1>1, <1>2, <2>1, LineIsWritten, WrittenIsTyped
  <2>3. QED  BY <1>3, <1>4, <2>1, <2>2 DEF Edited
<1>5. CASE op = "undecide"
  <2>1. r \in Row  BY <1>5 DEF BulkEdits
  <2>2. [now[r] EXCEPT !.decided = Written(loaded[r].decided, FALSE, @)] \in Line
    BY <1>1, <1>2, <2>1, LineIsWritten, WrittenIsTyped
  <2>3. QED  BY <1>3, <1>5, <2>1, <2>2 DEF Edited
<1>6. CASE op = "sign"
  <2>1. r \in Row  BY <1>6 DEF BulkEdits
  <2>2. [now[r] EXCEPT !.signed = Written(loaded[r].signed, TRUE, @)] \in Line
    BY <1>1, <1>2, <2>1, LineIsWritten, WrittenIsTyped
  <2>3. QED  BY <1>3, <1>6, <2>1, <2>2 DEF Edited
<1>7. CASE op = "override"
  <2>1. r \in Row  BY <1>7 DEF BulkEdits
  <2>2. DEFINE tool == Written(loaded[r].security, TRUE, now[r].security)
               off == Written(loaded[r].signed, FALSE, now[r].signed)
               once == [now EXCEPT ![r] = [now[r] EXCEPT !.security = tool]]
               twice == [once EXCEPT ![r] = [once[r] EXCEPT !.signed = off]]
  <2>3. tool \in BOOLEAN /\ off \in BOOLEAN  BY <1>2, <2>1, WrittenIsTyped
  <2>4. Edited(op, r, now, loaded)
          = [now EXCEPT ![r].security = tool, ![r].signed = off]
    BY <1>7 DEF Edited
  <2> HIDE DEF tool, off
  <2>5. [now[r] EXCEPT !.security = tool] \in Line
    BY <1>1, <2>1, <2>3, LineIsWritten
  <2>6. once \in Contents /\ once[r] \in Line  BY <1>3, <2>1, <2>5 DEF Contents
  <2>7. Edited(op, r, now, loaded) = twice  BY <2>1, <2>4 DEF Contents
  <2> HIDE DEF once
  <2>8. [once[r] EXCEPT !.signed = off] \in Line  BY <2>3, <2>6, LineIsWritten
  <2>9. twice \in Contents  BY <2>1, <2>6, <2>8 DEF Contents
  <2>10. QED  BY <2>7, <2>9
<1>8. CASE op = "split"
  <2>1. r \in Row  BY <1>8 DEF BulkEdits
  <2>2. [now[r] EXCEPT !.items = 1] \in Line  BY <1>1, <2>1, ItemIsCounted
  <2>3. QED  BY <1>3, <1>8, <2>1, <2>2 DEF Edited
<1>9. CASE op = "include"
  <2>1. r \in Row  BY <1>9 DEF BulkEdits
  <2>2. DEFINE col == Column(now, loaded, r, [excluded |-> FALSE, confirmed |-> FALSE])
  <2>3. col \in Contents  BY ColumnIsTyped
  <2>4. Edited(op, r, now, loaded)
          = [col EXCEPT ![r].items = col[r].items + 1, ![r].decided = FALSE,
                        ![r].security = TRUE]
    BY <1>9 DEF Edited, Include
  <2> HIDE DEF col
  <2>5. DEFINE one == [col EXCEPT ![r] = [col[r] EXCEPT !.items = col[r].items + 1]]
               two == [one EXCEPT ![r] = [one[r] EXCEPT !.decided = FALSE]]
               all == [two EXCEPT ![r] = [two[r] EXCEPT !.security = TRUE]]
  <2>6. Edited(op, r, now, loaded) = all  BY <2>1, <2>3, <2>4 DEF Contents
  <2>7. one \in Contents /\ one[r] \in Line
    <3>1. col[r] \in Line /\ col[r].items + 1 \in Nat
      BY <2>1, <2>3 DEF Contents, Line
    <3>2. [col[r] EXCEPT !.items = col[r].items + 1] \in Line
      BY <3>1, ItemIsCounted
    <3>3. QED  BY <2>1, <2>3, <3>2 DEF Contents
  <2> HIDE DEF one
  <2>8. two \in Contents /\ two[r] \in Line
    <3>1. [one[r] EXCEPT !.decided = FALSE] \in Line  BY <2>7, LineIsWritten
    <3>2. QED  BY <2>1, <2>7, <3>1 DEF Contents
  <2> HIDE DEF two
  <2>9. all \in Contents
    <3>1. [two[r] EXCEPT !.security = TRUE] \in Line  BY <2>8, LineIsWritten
    <3>2. QED  BY <2>1, <2>8, <3>1 DEF Contents
  <2>10. QED  BY <2>6, <2>9
<1>10. CASE op = "confirm"
  BY <1>10, ColumnIsTyped DEF Edited, Confirm
<1>11. CASE op = "keep_all"
  <2>1. \A s \in Row :
          [now[s] EXCEPT !.decided = Written(loaded[s].decided, TRUE, @)] \in Line
    BY <1>1, <1>2, LineIsWritten, WrittenIsTyped
  <2>2. QED  BY <1>1, <1>11, <2>1 DEF Edited, Contents
<1>12. CASE op = "keep_undecided"
  <2>1. \A s \in Row :
          [now[s] EXCEPT !.decided = @ \/ s \in Wanted(op, loaded)] \in Line
    BY <1>1, <1>2, LineIsWritten
  <2>2. QED  BY <1>12, <2>1 DEF Edited, Contents
<1>13. CASE op = "sign_all"
  <2>1. \A s \in Row :
          [now[s] EXCEPT !.signed = @ \/ s \in Wanted(op, loaded)] \in Line
    BY <1>1, <1>2, LineIsWritten
  <2>2. QED  BY <1>13, <2>1 DEF Edited, Contents
<1>14. QED
  BY <1>4, <1>5, <1>6, <1>7, <1>8, <1>9, <1>10, <1>11, <1>12, <1>13
  DEF BulkEdits, RowEdits

---------------------------------------------------------------------------
(* What a step leaves to the requests it does not answer.                  *)

\* The rows of a list change only with its revision, which only grows; a list
\* that is taken or released stays so, and no deliverable goes away.
Later ==
  /\ \A v \in Version :
       /\ lists[v].status # "none" =>
            /\ lists'[v].status # "none"
            /\ lists'[v].revision >= lists[v].revision
            /\ lists'[v].revision = lists[v].revision => rows'[v] = rows[v]
       /\ lists[v].status = "released" => lists'[v].status = "released"
  /\ DOMAIN delivs \subseteq DOMAIN delivs'

LEMMA LaterIsSound ==
  ASSUME Typed, Typed', Later, NEW r \in Asked, AskSound(r)
  PROVE  AskSound(r)'
<1>1. /\ r.rev \in Nat
      /\ \A v \in Version : lists[v].revision \in Nat /\ lists'[v].revision \in Nat
  BY DEF Typed, Asked, ListRow
<1>2. r.op = "approve" =>
        /\ r.v \in Version /\ lists'[r.v].status # "none"
        /\ r.rev <= lists'[r.v].revision
        /\ r.rev = lists'[r.v].revision => r.rows = rows'[r.v]
        /\ r.at # "build" /\ r.rev = lists'[r.v].revision => Complete(r.rows)
  BY <1>1 DEF AskSound, Later
<1>3. r.op = "finalize" =>
        /\ r.v \in Version
        /\ r.at = "load" /\ r.flag => lists'[r.v].status = "released"
        /\ r.at = "commit" => NoneUndecided(r.rows)
  BY DEF AskSound, Later
<1>4. r.at = "edit" => /\ r.v \in Version /\ lists'[r.v].status # "none"
                       /\ \/ r.op \in BulkEdits
                          \/ r.op \in RowEdits /\ r.row \in Row
  BY DEF AskSound, Later
<1>5. /\ r.op = "discard" => r.v \in Version
      /\ r.op = "release" => r.v \in DOMAIN delivs'
  BY DEF AskSound, Later
<1>6. QED  BY <1>2, <1>3, <1>4, <1>5 DEF AskSound

\* A step that answers one request, and leaves the lists as they must be.
LEMMA WriteKeeps ==
  ASSUME ListInv, NEW q \in Request, NEW ask \in Asked,
         req' = [req EXCEPT ![q] = ask], AskSound(ask)',
         lists' \in [Version -> ListRow], rows' \in [Version -> Contents],
         delivs' \in Seq(Deliverable), Later, NoGaps',
         \A v \in Version : ListSound(v)', ReportsAreWhole'
  PROVE  ListInv'
<1>1. Typed /\ Typed'  BY DEF ListInv, Typed
<1>2. ASSUME NEW p \in Request  PROVE AskSound(req[p])'
  <2>1. CASE p = q
    <3>1. req'[p] = ask  BY <1>1, <2>1 DEF Typed
    <3>2. QED  BY <3>1 DEF AskSound
  <2>2. CASE p # q
    <3>1. PICK r \in Asked : r = req[p]  BY <1>1 DEF Typed
    <3>2. AskSound(r)  BY <3>1 DEF ListInv
    <3>3. AskSound(r)'  BY <1>1, <3>2, LaterIsSound
    <3>4. req'[p] = r  BY <1>1, <2>2, <3>1 DEF Typed
    <3>5. QED  BY <3>3, <3>4 DEF AskSound
  <2>3. QED  BY <2>1, <2>2
<1>3. QED  BY <1>1, <1>2 DEF ListInv

\* A step that only reads.
LEMMA ReadKeeps ==
  ASSUME ListInv, NEW q \in Request, NEW ask \in Asked,
         req' = [req EXCEPT ![q] = ask], AskSound(ask), ReadOnly
  PROVE  ListInv'
<1>1. UNCHANGED <<lists, rows, delivs>> /\ Typed  BY DEF ReadOnly, ListInv
<1>2. AskSound(ask)'  BY <1>1 DEF AskSound
<1>3. Later  BY <1>1 DEF Later, Typed, ListRow
<1>4. NoGaps' /\ ReportsAreWhole'  BY <1>1 DEF ListInv, NoGaps, ReportsAreWhole
<1>5. \A v \in Version : ListSound(v)'  BY <1>1 DEF ListInv, ListSound
<1>6. QED  BY <1>1, <1>2, <1>3, <1>4, <1>5, WriteKeeps DEF Typed

\* What a request that begins has loaded.
LEMMA BeginAsks ==
  ASSUME Typed, NEW q \in Request, NEW op \in AllOps, NEW v \in Version,
         NEW at \in {"edit", "build", "commit"}, Begin(q, op, at, v)
  PROVE  \E ask \in Asked :
           /\ req' = [req EXCEPT ![q] = ask]
           /\ ask.op = op /\ ask.at = at /\ ask.v = v
           /\ ask.rev = lists[v].revision /\ ask.rows = rows[v]
<1>1. v # 0 /\ v \in Nat  BY CapabilityAssumption DEF Version
<1>2. lists[v].revision \in Nat /\ rows[v] \in Contents  BY DEF Typed, ListRow
<1>3. DEFINE ask == [Idle EXCEPT !.op = op, !.at = at, !.v = v,
                       !.rev = lists[v].revision, !.rows = rows[v]]
<1>4. ask \in Asked  BY <1>1, <1>2, IdleIsAsked DEF Asked
<1>5. /\ ask.op = op /\ ask.at = at /\ ask.v = v
      /\ ask.rev = lists[v].revision /\ ask.rows = rows[v]
  BY DEF Idle
<1>6. req' = [req EXCEPT ![q] = ask]  BY <1>1 DEF Begin
<1>7. QED  BY <1>4, <1>5, <1>6

---------------------------------------------------------------------------
(* The steps that read.                                                    *)

LEMMA ExtractReadKeeps ==
  ASSUME ListInv, NEW q \in Request, ExtractRead(q)  PROVE ListInv'
<1>1. DEFINE ask == [Idle EXCEPT !.op = "extract", !.at = "start", !.v = 0,
                                 !.rev = 0, !.rows = NoRows]
<1>2. ask \in Asked
  BY IdleIsAsked, NothingIsListed DEF Asked, AllOps
<1>3. ask.op = "extract" /\ ask.at = "start"  BY DEF Idle
<1>4. req' = [req EXCEPT ![q] = ask] /\ ReadOnly  BY DEF ExtractRead, Begin
<1> HIDE DEF ask
<1>5. AskSound(ask)  BY <1>3 DEF AskSound
<1>6. QED  BY <1>2, <1>4, <1>5, ReadKeeps

LEMMA EditReadKeeps ==
  ASSUME ListInv, NEW q \in Request, NEW op \in RowEdits, NEW v \in Version,
         NEW r \in Row, EditRead(q, op, v, r)
  PROVE  ListInv'
<1>1. /\ rows[v] \in Contents /\ v \in Nat /\ lists[v].status # "none"
  BY CapabilityAssumption DEF ListInv, Typed, Version, EditRead, OpenToEdits
<1>2. DEFINE ask == [Idle EXCEPT !.op = op, !.at = "edit", !.v = v,
                                 !.row = r, !.rows = rows[v]]
<1>3. ask \in Asked
  BY <1>1, IdleIsAsked DEF Asked, AllOps, Edits
<1>4. /\ ask.op = op /\ ask.at = "edit" /\ ask.v = v /\ ask.row = r
  BY DEF Idle
<1>5. req' = [req EXCEPT ![q] = ask] /\ ReadOnly  BY DEF EditRead
<1> HIDE DEF ask
<1>6. AskSound(ask)  BY <1>1, <1>4 DEF AskSound, RowEdits
<1>7. QED  BY <1>3, <1>5, <1>6, ReadKeeps

LEMMA BulkReadKeeps ==
  ASSUME ListInv, NEW q \in Request, NEW op \in BulkEdits, NEW v \in Version,
         BulkRead(q, op, v)
  PROVE  ListInv'
<1>1. op \in AllOps /\ Typed  BY DEF AllOps, Edits, ListInv
<1>2. PICK ask \in Asked : /\ req' = [req EXCEPT ![q] = ask]
                           /\ ask.op = op /\ ask.at = "edit" /\ ask.v = v
  BY <1>1, BeginAsks DEF BulkRead
<1>3. AskSound(ask)
  BY <1>2 DEF AskSound, BulkRead, OpenToEdits, BulkEdits
<1>4. QED  BY <1>2, <1>3, ReadKeeps DEF BulkRead

LEMMA ApproveReadKeeps ==
  ASSUME ListInv, NEW q \in Request, NEW v \in Version, ApproveRead(q, v)
  PROVE  ListInv'
<1>1. "approve" \in AllOps /\ Typed  BY DEF AllOps, ListInv
<1>2. PICK ask \in Asked : /\ req' = [req EXCEPT ![q] = ask]
                           /\ ask.op = "approve" /\ ask.at = "build" /\ ask.v = v
                           /\ ask.rev = lists[v].revision /\ ask.rows = rows[v]
  BY <1>1, BeginAsks DEF ApproveRead
<1>3. lists[v].revision \in Nat  BY <1>1 DEF Typed, ListRow
<1>4. AskSound(ask)
  BY <1>2, <1>3 DEF AskSound, ApproveRead, OpenToEdits
<1>5. QED  BY <1>2, <1>4, ReadKeeps DEF ApproveRead

LEMMA DiscardReadKeeps ==
  ASSUME ListInv, NEW q \in Request, NEW v \in Version, DiscardRead(q, v)
  PROVE  ListInv'
<1>1. "discard" \in AllOps /\ Typed  BY DEF AllOps, ListInv
<1>2. PICK ask \in Asked : /\ req' = [req EXCEPT ![q] = ask]
                           /\ ask.op = "discard" /\ ask.at = "commit" /\ ask.v = v
  BY <1>1, BeginAsks DEF DiscardRead
<1>3. AskSound(ask)  BY <1>2 DEF AskSound
<1>4. QED  BY <1>2, <1>3, ReadKeeps DEF DiscardRead

LEMMA FinalizeReadKeeps ==
  ASSUME ListInv, NEW q \in Request, FinalizeRead(q)  PROVE ListInv'
<1>1. PICK v \in Version : v = Latest
  BY DEF FinalizeRead, StatusIn
<1>2. /\ rows[v] \in Contents /\ lists[v].revision \in Nat /\ v \in Nat
  BY CapabilityAssumption DEF ListInv, Typed, ListRow, Version
<1>3. DEFINE ask == [Idle EXCEPT !.op = "finalize", !.at = "load", !.v = v,
                       !.rev = lists[v].revision, !.rows = rows[v],
                       !.flag = lists[v].status = "released"]
<1>4. ask \in Asked  BY <1>2, IdleIsAsked DEF Asked, AllOps
<1>5. /\ ask.op = "finalize" /\ ask.at = "load" /\ ask.v = v
      /\ ask.flag <=> lists[v].status = "released"
  BY DEF Idle
<1>6. req' = [req EXCEPT ![q] = ask] /\ ReadOnly  BY <1>1 DEF FinalizeRead
<1> HIDE DEF ask
<1>7. AskSound(ask)  BY <1>5 DEF AskSound
<1>8. QED  BY <1>4, <1>6, <1>7, ReadKeeps

LEMMA ReleaseReadKeeps ==
  ASSUME ListInv, NEW q \in Request, NEW d \in 1..MaxDelivs, ReleaseRead(q, d)
  PROVE  ListInv'
<1>1. d \in DOMAIN delivs /\ d \in Nat  BY DEF ReleaseRead
<1>2. PICK at \in {"judge", "hand_over"} :
        req' = [req EXCEPT ![q] = [Idle EXCEPT !.op = "release", !.v = d, !.at = at]]
  BY DEF ReleaseRead
<1>3. DEFINE ask == [Idle EXCEPT !.op = "release", !.v = d, !.at = at]
<1>4. ask \in Asked  BY <1>1, IdleIsAsked DEF Asked, AllOps
<1>5. ask.op = "release" /\ ask.at = at /\ ask.v = d  BY DEF Idle
<1>6. req' = [req EXCEPT ![q] = ask] /\ ReadOnly  BY <1>2 DEF ReleaseRead
<1> HIDE DEF ask
<1>7. AskSound(ask)  BY <1>1, <1>5 DEF AskSound
<1>8. QED  BY <1>4, <1>6, <1>7, ReadKeeps

\* A request that goes on keeps what it named, and is Idle when it is done.
LEMMA DoneKeeps ==
  ASSUME ListInv, NEW q \in Request, Finish(q), UNCHANGED <<lists, rows, delivs>>
  PROVE  ListInv'
<1>1. AskSound(Idle)'  BY DEF AskSound, Idle
<1>2. Typed  BY DEF ListInv
<1>3. Later  BY <1>2 DEF Later, Typed, ListRow
<1>4. NoGaps' /\ ReportsAreWhole'  BY DEF ListInv, NoGaps, ReportsAreWhole
<1>5. \A v \in Version : ListSound(v)'  BY DEF ListInv, ListSound
<1>6. QED
  BY <1>1, <1>2, <1>3, <1>4, <1>5, IdleIsAsked, WriteKeeps DEF Typed, Finish

\* The exclusions loaded with the revision and the rows loaded now are, while
\* that revision stands, those of one list.
LEMMA ApproveBuildKeeps ==
  ASSUME ListInv, NEW q \in Request, ApproveBuild(q)  PROVE ListInv'
<1>1. PICK r \in Asked : r = req[q]  BY DEF ListInv, Typed
<1>2. /\ AskSound(r) /\ r.op = "approve" /\ r.at = "build" /\ r.v \in Version
  BY <1>1 DEF ListInv, ApproveBuild, At, AskSound
<1>3. req \in [Request -> Asked] /\ rows[r.v] \in Contents
  BY <1>2 DEF ListInv, Typed
<1>4. CASE NoneUnconfirmed(r.rows) /\ NoneUndecided(rows[r.v])
  <2>1. DEFINE ask == [r EXCEPT !.at = "judge", !.rows = rows[r.v]]
  <2>2. ask \in Asked  BY <1>3 DEF Asked
  <2>3. /\ ask.op = "approve" /\ ask.at = "judge" /\ ask.v = r.v
        /\ ask.rev = r.rev /\ ask.rows = rows[r.v]
    BY <1>2 DEF Asked
  <2>4. req' = [req EXCEPT ![q] = ask]
    BY <1>1, <1>3, <1>4 DEF ApproveBuild, Asked
  <2> HIDE DEF ask
  <2>5. r.rev = lists[r.v].revision => Complete(rows[r.v])
    BY <1>2, <1>4 DEF AskSound, Complete
  <2>6. AskSound(ask)  BY <1>2, <2>3, <2>5 DEF AskSound
  <2>7. QED  BY <2>2, <2>4, <2>6, ReadKeeps DEF ApproveBuild
<1>5. CASE ~(NoneUnconfirmed(r.rows) /\ NoneUndecided(rows[r.v]))
  <2>1. Finish(q)  BY <1>1, <1>5 DEF ApproveBuild, Finish
  <2>2. QED  BY <2>1, DoneKeeps DEF ApproveBuild, ReadOnly
<1>6. QED  BY <1>4, <1>5

LEMMA ApproveJudgeKeeps ==
  ASSUME ListInv, NEW q \in Request, ApproveJudge(q)  PROVE ListInv'
<1>1. PICK r \in Asked : r = req[q]  BY DEF ListInv, Typed
<1>2. /\ AskSound(r) /\ r.op = "approve" /\ r.at = "judge"
  BY <1>1 DEF ListInv, ApproveJudge, At
<1>3. PICK flag \in BOOLEAN :
        req' = [req EXCEPT ![q].at = "commit", ![q].flag = flag]
  BY DEF ApproveJudge, NoneUndecided
<1>4. DEFINE ask == [r EXCEPT !.at = "commit", !.flag = flag]
<1>5. ask \in Asked  BY DEF Asked
<1>6. /\ ask.op = "approve" /\ ask.at = "commit" /\ ask.v = r.v
      /\ ask.rev = r.rev /\ ask.rows = r.rows
  BY <1>2 DEF Asked
<1>7. req' = [req EXCEPT ![q] = ask]  BY <1>1, <1>3 DEF ListInv, Typed, Asked
<1> HIDE DEF ask
<1>8. AskSound(ask)  BY <1>2, <1>6 DEF AskSound
<1>9. QED  BY <1>5, <1>7, <1>8, ReadKeeps DEF ApproveJudge

\* A report is of rows that were all decided, or of a released list's.
LEMMA FinalizeLoadKeeps ==
  ASSUME ListInv, NEW q \in Request, FinalizeLoad(q)  PROVE ListInv'
<1>1. PICK r \in Asked : r = req[q]  BY DEF ListInv, Typed
<1>2. /\ AskSound(r) /\ r.op = "finalize" /\ r.at = "load" /\ r.v \in Version
  BY <1>1 DEF ListInv, FinalizeLoad, At, AskSound
<1>3. req \in [Request -> Asked] /\ rows[r.v] \in Contents /\ ListSound(r.v)
  BY <1>2 DEF ListInv, Typed
<1>4. CASE Renderable(q)
  <2>1. DEFINE ask == [r EXCEPT !.at = "commit", !.rows = rows[r.v]]
  <2>2. ask \in Asked  BY <1>3 DEF Asked
  <2>3. /\ ask.op = "finalize" /\ ask.at = "commit" /\ ask.v = r.v
        /\ ask.rows = rows[r.v]
    BY <1>2 DEF Asked
  <2>4. req' = [req EXCEPT ![q] = ask]
    BY <1>1, <1>3, <1>4 DEF FinalizeLoad, Asked
  <2> HIDE DEF ask
  <2>5. NoneUndecided(rows[r.v])
    <3>1. CASE r.flag
      <4>1. lists[r.v].status = "released"  BY <1>2, <3>1 DEF AskSound
      <4>2. QED  BY <1>3, <4>1, NothingIsListed DEF ListSound, Complete
    <3>2. CASE ~r.flag  BY <1>1, <1>4, <3>2 DEF Renderable
    <3>3. QED  BY <3>1, <3>2
  <2>6. AskSound(ask)  BY <1>2, <2>3, <2>5 DEF AskSound
  <2>7. QED  BY <2>2, <2>4, <2>6, ReadKeeps DEF FinalizeLoad
<1>5. CASE ~Renderable(q)
  <2>1. Finish(q)  BY <1>5 DEF FinalizeLoad, Finish
  <2>2. QED  BY <2>1, DoneKeeps DEF FinalizeLoad, ReadOnly
<1>6. QED  BY <1>4, <1>5

LEMMA ReleaseJudgeKeeps ==
  ASSUME ListInv, NEW q \in Request, ReleaseJudge(q)  PROVE ListInv'
<1>1. PICK r \in Asked : r = req[q]  BY DEF ListInv, Typed
<1>2. /\ AskSound(r) /\ r.op = "release" /\ r.at = "judge"
  BY <1>1 DEF ListInv, ReleaseJudge, At
<1>3. PICK flag \in BOOLEAN :
        req' = [req EXCEPT ![q].at = "flip", ![q].flag = flag]
  BY DEF ReleaseJudge, NoneUndecided
<1>4. DEFINE ask == [r EXCEPT !.at = "flip", !.flag = flag]
<1>5. ask \in Asked  BY DEF Asked
<1>6. ask.op = "release" /\ ask.at = "flip" /\ ask.v = r.v  BY <1>2 DEF Asked
<1>7. req' = [req EXCEPT ![q] = ask]  BY <1>1, <1>3 DEF ListInv, Typed, Asked
<1> HIDE DEF ask
<1>8. AskSound(ask)  BY <1>2, <1>6 DEF AskSound
<1>9. QED  BY <1>5, <1>7, <1>8, ReadKeeps DEF ReleaseJudge

---------------------------------------------------------------------------
(* The steps that write a list.                                            *)

\* One list becomes another, with its rows; its revision tells whether they did.
LEMMA ListWriteKeeps ==
  ASSUME ListInv, NEW q \in Request, Finish(q), UNCHANGED delivs,
         NEW v \in Version, lists[v].status # "none",
         NEW list \in ListRow, NEW R \in Contents,
         lists' = [lists EXCEPT ![v] = list], rows' = [rows EXCEPT ![v] = R],
         list.status # "none", list.revision >= lists[v].revision,
         list.revision = lists[v].revision => R = rows[v],
         lists[v].status = "released" => list.status = "released",
         ListSound(v)'
  PROVE  ListInv'
<1>1. /\ Typed /\ lists'[v] = list /\ rows'[v] = R
      /\ \A u \in Version \ {v} : lists'[u] = lists[u] /\ rows'[u] = rows[u]
      /\ lists' \in [Version -> ListRow] /\ rows' \in [Version -> Contents]
  BY DEF ListInv, Typed
<1>2. Later  BY <1>1 DEF Later, Typed, ListRow
<1>3. NoGaps'
  <2>1. \A u \in Version : lists'[u].status # "none" <=> lists[u].status # "none"
    BY <1>1
  <2>2. QED  BY <2>1 DEF ListInv, NoGaps
<1>4. \A u \in Version : ListSound(u)'  BY <1>1 DEF ListInv, ListSound
<1>5. ReportsAreWhole' /\ delivs' \in Seq(Deliverable)
  BY DEF ListInv, ReportsAreWhole, Typed
<1>6. AskSound(Idle)'  BY DEF AskSound, Idle
<1>7. QED
  BY <1>1, <1>2, <1>3, <1>4, <1>5, <1>6, IdleIsAsked, WriteKeeps DEF Finish

\* _record_edit: the revision moves with the rows.
LEMMA EditCommitKeeps ==
  ASSUME ListInv, NEW q \in Request, EditCommit(q)  PROVE ListInv'
<1>1. PICK r \in Asked : r = req[q]  BY DEF ListInv, Typed
<1>2. /\ AskSound(r) /\ r.at = "edit" /\ r.v \in Version
      /\ Finish(q) /\ UNCHANGED delivs
  BY <1>1 DEF ListInv, EditCommit, AskSound
<1>3. PICK v \in Version : v = r.v  BY <1>2
<1>4. CASE UNCHANGED <<lists, rows>>  BY <1>2, <1>4, DoneKeeps
<1>5. CASE ~UNCHANGED <<lists, rows>>
  <2>1. /\ OpenToEdits(v) /\ lists' = [lists EXCEPT ![v].revision = @ + 1]
        /\ rows' = [rows EXCEPT ![v] = Edited(r.op, r.row, @, r.rows)]
    BY <1>1, <1>3, <1>5 DEF EditCommit, RecordEdit
  <2>2. /\ lists \in [Version -> ListRow] /\ rows \in [Version -> Contents]
        /\ lists[v] \in ListRow /\ rows[v] \in Contents /\ r.rows \in Contents
        /\ lists[v].revision \in Nat /\ ListSound(v)
    BY <1>1 DEF ListInv, Typed, ListRow, Asked
  <2>3. PICK R \in Contents : R = Edited(r.op, r.row, rows[v], r.rows)
    BY <1>2, <2>2, EditedIsTyped DEF AskSound
  <2>4. DEFINE list == [lists[v] EXCEPT !.revision = lists[v].revision + 1]
  <2>5. /\ list \in ListRow /\ list.status = lists[v].status
        /\ list.revision = lists[v].revision + 1
        /\ list.approvedAt = lists[v].approvedAt
        /\ list.membership = lists[v].membership
    BY <2>2 DEF ListRow
  <2>6. lists' = [lists EXCEPT ![v] = list] /\ rows' = [rows EXCEPT ![v] = R]
    BY <2>1, <2>2, <2>3 DEF ListRow
  <2> HIDE DEF list
  <2>7. lists'[v] = list /\ rows'[v] = R  BY <2>2, <2>6
  <2>8. list.status \in {"draft", "approved"}  BY <2>1, <2>5 DEF OpenToEdits
  <2>9. lists[v].approvedAt # NoRevision => lists[v].approvedAt \in Nat
    BY <2>2 DEF ListRow
  <2>10. ListSound(v)'
    BY <2>2, <2>5, <2>7, <2>8, <2>9 DEF ListSound
  <2>11. /\ list.revision >= lists[v].revision /\ list.revision # lists[v].revision
         /\ list.status # "none" /\ lists[v].status \notin {"none", "released"}
    BY <2>2, <2>5, <2>8
  <2>12. QED
    BY <1>2, <2>5, <2>6, <2>10, <2>11, ListWriteKeeps
<1>6. QED  BY <1>4, <1>5

\* StillAsRead: an approval that finds its revision is of the rows there are.
LEMMA ApproveCommitKeeps ==
  ASSUME ListInv, NEW q \in Request, ApproveCommit(q)  PROVE ListInv'
<1>1. PICK r \in Asked : r = req[q]  BY DEF ListInv, Typed
<1>2. /\ AskSound(r) /\ r.op = "approve" /\ r.at = "commit"
      /\ Finish(q) /\ UNCHANGED <<rows, delivs>>
  BY <1>1 DEF ListInv, ApproveCommit, At
<1>3. PICK v \in Version : v = r.v  BY <1>2 DEF AskSound
<1>4. CASE ~StillAsRead(q)
  BY <1>2, <1>4, DoneKeeps DEF ApproveCommit
<1>5. CASE StillAsRead(q)
  <2>1. /\ OpenToEdits(v) /\ lists[v].revision = r.rev
        /\ lists' = [lists EXCEPT ![v] =
             [@ EXCEPT !.status = "approved", !.approvedAt = r.rev,
                       !.membership = r.rows]]
    BY <1>1, <1>3, <1>5 DEF ApproveCommit, StillAsRead
  <2>2. /\ lists \in [Version -> ListRow] /\ rows \in [Version -> Contents]
        /\ lists[v] \in ListRow /\ rows[v] \in Contents /\ r.rows \in Contents
        /\ r.rev \in Nat
    BY <1>1 DEF ListInv, Typed, ListRow, Asked
  <2>3. r.rows = rows[v] /\ Complete(r.rows)
    BY <1>2, <1>3, <2>1 DEF AskSound
  <2>4. DEFINE list == [lists[v] EXCEPT !.status = "approved",
                          !.approvedAt = r.rev, !.membership = r.rows]
  <2>5. /\ list \in ListRow /\ list.status = "approved"
        /\ list.revision = lists[v].revision
        /\ list.approvedAt = r.rev /\ list.membership = r.rows
    BY <2>2 DEF ListRow, Status
  <2>6. lists' = [lists EXCEPT ![v] = list] /\ rows' = [rows EXCEPT ![v] = rows[v]]
    BY <1>2, <2>1, <2>2
  <2> HIDE DEF list
  <2>7. lists'[v] = list /\ rows'[v] = rows[v]  BY <2>2, <2>6
  <2>8. r.rev # NoRevision  BY <2>2, NothingIsListed
  <2>9. ListSound(v)'
    BY <2>1, <2>2, <2>3, <2>5, <2>7, <2>8 DEF ListSound
  <2>10. lists[v].status \notin {"none", "released"}
    BY <2>1 DEF OpenToEdits
  <2>11. list.revision >= lists[v].revision
    BY <2>1, <2>2, <2>5
  <2>12. QED
    BY <1>2, <2>2, <2>5, <2>6, <2>9, <2>10, <2>11, ListWriteKeeps
<1>6. QED  BY <1>4, <1>5

LEMMA DiscardCommitKeeps ==
  ASSUME ListInv, NEW q \in Request, DiscardCommit(q)  PROVE ListInv'
<1>1. PICK r \in Asked : r = req[q]  BY DEF ListInv, Typed
<1>2. /\ AskSound(r) /\ r.op = "discard" /\ Finish(q) /\ UNCHANGED <<rows, delivs>>
  BY <1>1 DEF ListInv, DiscardCommit, At
<1>3. PICK v \in Version : v = r.v  BY <1>2 DEF AskSound
<1>4. CASE ~Discardable(v)
  BY <1>1, <1>2, <1>3, <1>4, DoneKeeps DEF DiscardCommit
<1>5. CASE Discardable(v)
  <2>1. /\ lists \in [Version -> ListRow] /\ rows \in [Version -> Contents]
        /\ lists[v] \in ListRow /\ rows[v] \in Contents /\ ListSound(v)
        /\ lists[v].revision \in Nat
    BY DEF ListInv, Typed, ListRow
  <2>2. lists' = [lists EXCEPT ![v].status = "discarded"]
    BY <1>1, <1>3, <1>5 DEF DiscardCommit
  <2>3. DEFINE list == [lists[v] EXCEPT !.status = "discarded"]
  <2>4. /\ list \in ListRow /\ list.status = "discarded"
        /\ list.revision = lists[v].revision
        /\ list.approvedAt = lists[v].approvedAt
        /\ list.membership = lists[v].membership
    BY <2>1 DEF ListRow, Status
  <2>5. lists' = [lists EXCEPT ![v] = list] /\ rows' = [rows EXCEPT ![v] = rows[v]]
    BY <1>2, <2>1, <2>2
  <2> HIDE DEF list
  <2>6. lists'[v] = list /\ rows'[v] = rows[v]  BY <2>1, <2>5
  <2>7. lists[v].status = "draft" /\ list.revision >= lists[v].revision
    BY <1>5, <2>1, <2>4 DEF Discardable
  <2>8. ListSound(v)'  BY <2>1, <2>4, <2>6, <2>7 DEF ListSound
  <2>9. QED  BY <1>2, <2>1, <2>4, <2>5, <2>7, <2>8, ListWriteKeeps
<1>6. QED  BY <1>4, <1>5

\* The new list is the first version that was not taken.
LEMMA NextVersion ==
  ASSUME Typed, NoGaps, MaxTaken < MaxVersion
  PROVE  /\ MaxTaken \in Nat /\ MaxTaken + 1 \in Version
         /\ \A v \in Version : lists[v].status # "none" <=> v <= MaxTaken
<1>1. PICK n \in 0..MaxVersion :
        \A v \in Version : lists[v].status # "none" <=> v <= n
  BY DEF NoGaps
<1>2. DEFINE S == StatusIn(Status \ {"none"})
<1>3. S = {v \in Version : v <= n}
  BY <1>1 DEF StatusIn, Typed, ListRow
<1>4. MaxVersion \in Nat /\ n \in Nat  BY CapabilityAssumption
<1>5. Newest(S) = n
  <2>1. CASE n = 0
    <3>1. S = {}  BY <1>3, <2>1 DEF Version
    <3>2. QED  BY <2>1, <3>1 DEF Newest
  <2>2. CASE n # 0
    <3>1. n \in S /\ \A w \in S : w <= n
      BY <1>1, <1>3, <1>4, <2>2 DEF Version
    <3>2. \A v \in S : (\A w \in S : w <= v) => v = n
      BY <1>3, <1>4, <3>1 DEF Version
    <3> HIDE DEF S
    <3>3. QED  BY <3>1, <3>2 DEF Newest
  <2>3. QED  BY <2>1, <2>2
<1>6. MaxTaken = n  BY <1>5 DEF MaxTaken
<1>7. QED  BY <1>1, <1>4, <1>6 DEF Version

LEMMA ExtractInsertKeeps ==
  ASSUME ListInv, ExtractInsert  PROVE ListInv'
<1>1. Typed /\ UNCHANGED <<delivs, req>>  BY DEF ListInv, ExtractInsert
<1>2. CASE UNCHANGED <<lists, rows>>
  BY <1>1, <1>2
  DEF ListInv, Typed, NoGaps, ListSound, AskSound, ReportsAreWhole
<1>3. CASE ~UNCHANGED <<lists, rows>>
  <2>1. PICK v \in Version : v = MaxTaken + 1
    BY NextVersion DEF ListInv, ExtractInsert
  <2>2. PICK R \in Extraction : rows' = [rows EXCEPT ![v] = R]
    BY <1>3, <2>1 DEF ExtractInsert
  <2>3. lists' = [lists EXCEPT ![v].status = "draft"]
    BY <1>3, <2>1 DEF ExtractInsert
  <2>4. \A u \in Version : lists[u].status # "none" <=> u <= MaxTaken
    BY NextVersion DEF ListInv, ExtractInsert
  <2>5. v \in 0..MaxVersion /\ Version \subseteq Nat /\ MaxTaken \in Nat
    BY CapabilityAssumption, NextVersion DEF Version, ListInv, ExtractInsert
  <2>6. lists[v] = NoList
    <3>1. ~(v <= MaxTaken)  BY <2>1, <2>5
    <3>2. QED  BY <2>4, <3>1 DEF ListInv, ListSound
  <2>7. DEFINE list == [lists[v] EXCEPT !.status = "draft"]
  <2>8. /\ list \in ListRow /\ list.status = "draft" /\ list.revision = 0
        /\ list.approvedAt = NoRevision
    BY <1>1, <2>6 DEF Typed, ListRow, Status, NoList
  <2>9. lists' = [lists EXCEPT ![v] = list]  BY <1>1, <2>3 DEF Typed
  <2>10. R \in Contents
    <3>1. Absent \in Line  BY DEF Absent, Line
    <3>2. ASSUME NEW b \in BOOLEAN  PROVE Item(b) \in Line
      BY <3>1 DEF Item, Line
    <3>3. Excluded \in Line  BY <3>1 DEF Excluded, Line
    <3>4. \A line \in {Item(TRUE), Item(FALSE), Excluded, Absent} : line \in Line
      BY <3>1, <3>2, <3>3
    <3>5. QED  BY <3>4 DEF Extraction, Contents
  <2> HIDE DEF list
  <2>11. /\ lists' \in [Version -> ListRow] /\ rows' \in [Version -> Contents]
         /\ lists'[v] = list
         /\ \A u \in Version \ {v} : lists'[u] = lists[u] /\ rows'[u] = rows[u]
    BY <1>1, <2>2, <2>8, <2>9, <2>10 DEF Typed
  <2>12. Later
    <3>1. lists[v].status = "none"  BY <2>6 DEF NoList
    <3>2. QED  BY <1>1, <2>11, <3>1 DEF Later, Typed, ListRow
  <2>13. NoGaps'
    <3>1. \A u \in Version : lists'[u].status # "none" <=> u <= v
      BY <2>1, <2>4, <2>5, <2>8, <2>11
    <3>2. QED  BY <2>5, <3>1 DEF NoGaps
  <2>14. ASSUME NEW u \in Version  PROVE ListSound(u)'
    <3>1. CASE u = v  BY <2>8, <2>11, <3>1 DEF ListSound
    <3>2. CASE u # v  BY <2>11, <3>2 DEF ListInv, ListSound
    <3>3. QED  BY <3>1, <3>2
  <2>15. ASSUME NEW q \in Request  PROVE AskSound(req[q])'
    <3>1. PICK r \in Asked : r = req[q] /\ r = req'[q]  BY <1>1 DEF Typed
    <3>2. AskSound(r)  BY <3>1 DEF ListInv
    <3>3. Typed'  BY <1>1, <2>11 DEF Typed
    <3>4. AskSound(r)'  BY <1>1, <2>12, <3>2, <3>3, LaterIsSound
    <3>5. QED  BY <3>1, <3>4 DEF AskSound
  <2>16. Typed' /\ ReportsAreWhole'
    BY <1>1, <2>11 DEF Typed, ReportsAreWhole, ListInv
  <2>17. QED  BY <2>13, <2>14, <2>15, <2>16 DEF ListInv
<1>4. QED  BY <1>2, <1>3

---------------------------------------------------------------------------
(* The steps that write a deliverable.                                     *)

\* The deliverables become others that are whole, as many or more.
LEMMA DelivWriteKeeps ==
  ASSUME ListInv, NEW q \in Request, Finish(q), UNCHANGED rows,
         delivs' \in Seq(Deliverable), DOMAIN delivs \subseteq DOMAIN delivs',
         ReportsAreWhole',
         \/ UNCHANGED lists
         \/ \E v \in Version :
              /\ lists' = [lists EXCEPT ![v].status = "released"]
              /\ lists[v].status = "approved"
              /\ lists[v].approvedAt = lists[v].revision
  PROVE  ListInv'
<1>1. Typed  BY DEF ListInv
<1>2. CASE UNCHANGED lists
  <2>1. Later  BY <1>1, <1>2 DEF Later, Typed, ListRow
  <2>2. NoGaps' /\ \A v \in Version : ListSound(v)'
    BY <1>2 DEF ListInv, NoGaps, ListSound
  <2>3. AskSound(Idle)'  BY DEF AskSound, Idle
  <2>4. QED
    BY <1>1, <1>2, <2>1, <2>2, <2>3, IdleIsAsked, WriteKeeps DEF Typed, Finish
<1>3. ASSUME NEW v \in Version,
             lists' = [lists EXCEPT ![v].status = "released"],
             lists[v].status = "approved",
             lists[v].approvedAt = lists[v].revision
      PROVE  ListInv'
  <2>1. DEFINE list == [lists[v] EXCEPT !.status = "released"]
  <2>2. /\ list \in ListRow /\ list.status = "released"
        /\ list.revision = lists[v].revision
        /\ list.approvedAt = lists[v].approvedAt
        /\ list.membership = lists[v].membership
    <3>1. lists[v] \in ListRow  BY <1>1 DEF Typed
    <3>2. QED  BY <3>1 DEF ListRow, Status
  <2>3. lists' = [lists EXCEPT ![v] = list]  BY <1>1, <1>3 DEF Typed
  <2> HIDE DEF list
  <2>4. /\ lists' \in [Version -> ListRow] /\ lists'[v] = list
        /\ \A u \in Version \ {v} : lists'[u] = lists[u]
    BY <1>1, <2>2, <2>3 DEF Typed
  <2>5. Later  BY <1>1, <1>3, <2>2, <2>4 DEF Later, Typed, ListRow
  <2>6. NoGaps'
    <3>1. \A u \in Version : lists'[u].status # "none" <=> lists[u].status # "none"
      BY <1>3, <2>2, <2>4
    <3>2. QED  BY <3>1 DEF ListInv, NoGaps
  <2>7. ASSUME NEW u \in Version  PROVE ListSound(u)'
    <3>1. CASE u = v
      BY <1>3, <2>2, <2>4, <3>1 DEF ListInv, ListSound
    <3>2. CASE u # v  BY <2>4, <3>2 DEF ListInv, ListSound
    <3>3. QED  BY <3>1, <3>2
  <2>8. AskSound(Idle)'  BY DEF AskSound, Idle
  <2>9. QED
    BY <1>1, <2>4, <2>5, <2>6, <2>7, <2>8, IdleIsAsked, WriteKeeps DEF Typed, Finish
<1>4. QED  BY <1>2, <1>3

LEMMA FinalizeCommitKeeps ==
  ASSUME ListInv, NEW q \in Request, FinalizeCommit(q)  PROVE ListInv'
<1>1. PICK r \in Asked : r = req[q]  BY DEF ListInv, Typed
<1>2. /\ AskSound(r) /\ r.op = "finalize" /\ r.at = "commit"
      /\ Finish(q) /\ UNCHANGED <<lists, rows>>
  BY <1>1 DEF ListInv, FinalizeCommit, At
<1>3. r.v \in Version /\ NoneUndecided(r.rows)  BY <1>2 DEF AskSound
<1>4. CASE UNCHANGED delivs  BY <1>2, <1>4, DoneKeeps
<1>5. CASE ~UNCHANGED delivs
  <2>1. DEFINE d == [parent |-> r.v,
                     stamp |-> IF r.flag THEN r.rev ELSE lists[r.v].revision,
                     whole |-> NoneUndecided(r.rows), released |-> FALSE]
  <2>2. delivs' = Append(delivs, d)  BY <1>1, <1>5 DEF FinalizeCommit
  <2>3. r.rev \in Nat /\ lists[r.v].revision \in Nat
    BY <1>3 DEF Asked, ListInv, Typed, ListRow
  <2>4. d \in Deliverable /\ d.whole
    BY <1>3, <2>3 DEF Deliverable, NoneUndecided
  <2> HIDE DEF d
  <2>5. /\ delivs \in Seq(Deliverable) /\ delivs' \in Seq(Deliverable)
        /\ Len(delivs') = Len(delivs) + 1 /\ Len(delivs) \in Nat
        /\ delivs'[Len(delivs) + 1] = d
        /\ \A n \in 1..Len(delivs) : delivs'[n] = delivs[n]
    BY <2>2, <2>4 DEF ListInv, Typed
  <2>6. DOMAIN delivs \subseteq DOMAIN delivs' /\ ReportsAreWhole'
    BY <2>4, <2>5 DEF ListInv, ReportsAreWhole
  <2>7. QED  BY <1>2, <2>5, <2>6, DelivWriteKeeps
<1>6. QED  BY <1>4, <1>5

\* A deliverable that is handed over is otherwise as it was.
LEMMA HandedOver ==
  ASSUME ListInv, NEW d \in DOMAIN delivs,
         delivs' = [delivs EXCEPT ![d].released = TRUE]
  PROVE  /\ delivs' \in Seq(Deliverable) /\ DOMAIN delivs' = DOMAIN delivs
         /\ ReportsAreWhole'
<1>1. delivs \in Seq(Deliverable) /\ delivs[d] \in Deliverable
  BY DEF ListInv, Typed
<1>2. DEFINE new == [delivs[d] EXCEPT !.released = TRUE]
<1>3. new \in Deliverable /\ new.whole = delivs[d].whole
  BY <1>1 DEF Deliverable
<1>4. delivs' = [delivs EXCEPT ![d] = new]  BY <1>1
<1> HIDE DEF new
<1>5. delivs' \in Seq(Deliverable)
  <2>1. d \in 1..Len(delivs)  BY <1>1
  <2>2. [delivs EXCEPT ![d] = new] \in Seq(Deliverable)
    BY <1>1, <1>3, <2>1, ExceptSeq
  <2>3. QED  BY <1>4, <2>2
<1>6. /\ DOMAIN delivs' = DOMAIN delivs /\ delivs'[d] = new
      /\ \A e \in DOMAIN delivs : e # d => delivs'[e] = delivs[e]
  BY <1>4
<1>7. \A e \in DOMAIN delivs : delivs[e].whole  BY DEF ListInv, ReportsAreWhole
<1>8. ReportsAreWhole'  BY <1>3, <1>6, <1>7 DEF ReportsAreWhole
<1>9. QED  BY <1>5, <1>6, <1>8

\* _releasable_with: the flip is of a list whose approval is current.
LEMMA ReleaseFlipKeeps ==
  ASSUME ListInv, NEW q \in Request, ReleaseFlip(q)  PROVE ListInv'
<1>1. PICK d \in DOMAIN delivs : d = req[q].v
  BY DEF ListInv, AskSound, ReleaseFlip, At
<1>2. Finish(q) /\ UNCHANGED rows  BY DEF ReleaseFlip
<1>3. PICK p \in Version : p = delivs[d].parent
  <2>1. delivs[d] \in Deliverable  BY DEF ListInv, Typed
  <2>2. QED  BY <2>1 DEF Deliverable
<1>4. \/ UNCHANGED lists
      \/ /\ lists' = [lists EXCEPT ![p].status = "released"]
         /\ lists[p].status = "approved" /\ lists[p].approvedAt = lists[p].revision
  BY <1>1, <1>3 DEF ReleaseFlip, Releasable, ApprovalCurrent
<1>5. UNCHANGED delivs \/ delivs' = [delivs EXCEPT ![d].released = TRUE]
  BY <1>1 DEF ReleaseFlip
<1>6. /\ delivs' \in Seq(Deliverable) /\ DOMAIN delivs \subseteq DOMAIN delivs'
      /\ ReportsAreWhole'
  BY <1>5, HandedOver DEF ListInv, Typed, ReportsAreWhole
<1>7. QED  BY <1>2, <1>4, <1>6, DelivWriteKeeps

LEMMA HandOverKeeps ==
  ASSUME ListInv, NEW q \in Request, ReleaseHandOver(q)  PROVE ListInv'
<1>1. PICK d \in DOMAIN delivs : d = req[q].v
  BY DEF ListInv, AskSound, ReleaseHandOver, At
<1>2. QED  BY <1>1, HandedOver, DelivWriteKeeps DEF ReleaseHandOver

---------------------------------------------------------------------------
(* The invariant of the specification.                                     *)

LEMMA InitIsSound == Init => ListInv
<1>1. SUFFICES ASSUME Init  PROVE ListInv  OBVIOUS
<1>2. NoList \in ListRow
  BY NothingIsListed DEF NoList, ListRow, Status
<1>3. Typed
  BY <1>1, <1>2, IdleIsAsked, NothingIsListed DEF Init, Typed
<1>4. NoGaps
  <2>1. 0 \in 0..MaxVersion /\ \A v \in Version : ~(v <= 0)
    BY CapabilityAssumption DEF Version
  <2>2. QED  BY <1>1, <2>1 DEF Init, NoGaps, NoList
<1>5. \A v \in Version : ListSound(v)
  BY <1>1 DEF Init, ListSound, NoList
<1>6. \A q \in Request : AskSound(req[q])
  BY <1>1, IdleIsSound DEF Init
<1>7. ReportsAreWhole  BY <1>1 DEF Init, ReportsAreWhole
<1>8. QED  BY <1>3, <1>4, <1>5, <1>6, <1>7 DEF ListInv

LEMMA OutsideKeeps ==
  ASSUME ListInv, UNCHANGED <<lists, rows, delivs, req>>  PROVE ListInv'
BY DEF ListInv, Typed, NoGaps, ListSound, AskSound, ReportsAreWhole

LEMMA NextIsSound == ListInv /\ [Next]_vars => ListInv'
<1>1. SUFFICES ASSUME ListInv, [Next]_vars  PROVE ListInv'  OBVIOUS
<1>2. ASSUME NEW q \in Request, Read(q)  PROVE ListInv'
  <2>1. ASSUME NEW v \in Version, ApproveRead(q, v)  PROVE ListInv'
    BY <1>1, <2>1, ApproveReadKeeps
  <2>2. ASSUME NEW v \in Version, DiscardRead(q, v)  PROVE ListInv'
    BY <1>1, <2>2, DiscardReadKeeps
  <2>3. ASSUME NEW v \in Version, NEW op \in RowEdits, NEW r \in Row,
               EditRead(q, op, v, r)
        PROVE  ListInv'
    BY <1>1, <2>3, EditReadKeeps
  <2>4. ASSUME NEW v \in Version, NEW op \in BulkEdits, BulkRead(q, op, v)
        PROVE  ListInv'
    BY <1>1, <2>4, BulkReadKeeps
  <2>5. ASSUME NEW d \in 1..MaxDelivs, ReleaseRead(q, d)  PROVE ListInv'
    BY <1>1, <2>5, ReleaseReadKeeps
  <2>6. QED
    BY <1>1, <1>2, <2>1, <2>2, <2>3, <2>4, <2>5, ExtractReadKeeps,
       FinalizeReadKeeps
    DEF Read
<1>3. ASSUME NEW q \in Request, Write(q)  PROVE ListInv'
  <2>1. ExtractStart(q) => ListInv'  BY <1>1, DoneKeeps DEF ExtractStart
  <2>2. QED
    BY <1>1, <1>3, <2>1, EditCommitKeeps, ApproveBuildKeeps, ApproveJudgeKeeps,
       ApproveCommitKeeps, DiscardCommitKeeps, FinalizeLoadKeeps,
       FinalizeCommitKeeps, ReleaseJudgeKeeps, ReleaseFlipKeeps, HandOverKeeps
    DEF Write
<1>4. CASE ExtractCheck \/ ExtractFails \/ UNCHANGED vars
  BY <1>1, <1>4, OutsideKeeps DEF ExtractCheck, ExtractFails, vars
<1>5. CASE ExtractInsert  BY <1>1, <1>5, ExtractInsertKeeps
<1>6. QED  BY <1>1, <1>2, <1>3, <1>4, <1>5 DEF Next

\* ListInv holds in every state, for any requests, operations, rows and bounds.
THEOREM ListsAreSound == Spec => []ListInv
BY InitIsSound, NextIsSound, PTL DEF Spec

\* finalize and release: no deliverable was rendered from rows of which one was
\* undecided, whatever was edited while it was rendered.
THEOREM NoReportIsPartial == Spec => []ReportsAreWhole
<1>1. ListInv => ReportsAreWhole  BY DEF ListInv
<1>2. QED  BY <1>1, ListsAreSound, PTL
---------------------------------------------------------------------------
(* The lists implement ReviewedDoc.                                        *)

PhaseFn  == [v \in Version |-> Phase(v)]
HeldFn   == [v \in Version |-> Held(v)]
AgreedFn == [v \in Version |-> Agreed(v)]

ReviewStep == [Review!ReviewNext]_<<PhaseFn, HeldFn, AgreedFn>>

\* There is a row, so that rows are never mistaken for no content.
LEMMA ContentsAreNotBlank ==
  ASSUME NEW R \in Contents  PROVE R # Blank
<1>1. PICK r : r \in Row  BY CapabilityAssumption DEF Row
<1>2. DOMAIN R = Row  BY DEF Contents
<1>3. DOMAIN Blank = {}  BY DEF Blank
<1>4. QED  BY <1>1, <1>2, <1>3

LEMMA HeldIsTyped ==
  ASSUME Typed, NEW v \in Version  PROVE Held(v) \in Contents \cup {Blank}
BY DEF Typed, Held

\* What the other lists say stays.
LEMMA OthersSay ==
  ASSUME NEW v \in Version,
         \A u \in Version \ {v} : lists'[u] = lists[u] /\ rows'[u] = rows[u]
  PROVE  \A u \in Version \ {v} : /\ Phase(u)' = Phase(u) /\ Held(u)' = Held(u)
                                  /\ Agreed(u)' = Agreed(u)
BY DEF Phase, Held, Agreed

LEMMA PhaseMoves ==
  ASSUME NEW v \in Version, NEW p, Phase(v)' = p,
         \A u \in Version \ {v} : Phase(u)' = Phase(u)
  PROVE  PhaseFn' = [PhaseFn EXCEPT ![v] = p]
<1>1. /\ PhaseFn = [u \in Version |-> Phase(u)]
      /\ PhaseFn' = [u \in Version |-> Phase(u)']
  BY DEF PhaseFn
<1>2. QED  BY <1>1

LEMMA AgreedMoves ==
  ASSUME NEW v \in Version, NEW R, Agreed(v)' = R,
         \A u \in Version \ {v} : Agreed(u)' = Agreed(u)
  PROVE  AgreedFn' = [AgreedFn EXCEPT ![v] = R]
<1>1. /\ AgreedFn = [u \in Version |-> Agreed(u)]
      /\ AgreedFn' = [u \in Version |-> Agreed(u)']
  BY DEF AgreedFn
<1>2. QED  BY <1>1

\* The rows of one list become some rows.
LEMMA RowsRewritten ==
  ASSUME Typed, NEW v \in Version, Held(v)' \in Contents,
         \A u \in Version \ {v} : Held(u)' = Held(u)
  PROVE  Review!Rewrite(v)
<1>1. Held(v)' # Blank  BY ContentsAreNotBlank
<1>2. \A u \in Version : Held(u)' \in Contents \cup {Blank}  BY HeldIsTyped
<1>3. HeldFn = [u \in Version |-> Held(u)] /\ HeldFn' = [u \in Version |-> Held(u)']
  BY DEF HeldFn
<1>4. /\ HeldFn' \in [Version -> Contents \cup {Blank}] /\ HeldFn'[v] # Blank
      /\ \A u \in Version \ {v} : HeldFn'[u] = HeldFn[u]
  BY <1>1, <1>2, <1>3
<1>5. QED  BY <1>4 DEF HeldFn, Review!Rewrite

\* A step that writes neither the lists nor their rows is a stutter.
LEMMA NothingReviewed ==
  ASSUME UNCHANGED <<lists, rows>>  PROVE ReviewStep
<1>1. \A v \in Version : /\ Phase(v)' = Phase(v) /\ Held(v)' = Held(v)
                         /\ Agreed(v)' = Agreed(v)
  BY DEF Phase, Held, Agreed
<1>2. UNCHANGED <<PhaseFn, HeldFn, AgreedFn>>
  BY <1>1 DEF PhaseFn, HeldFn, AgreedFn
<1>3. QED  BY <1>2 DEF ReviewStep

\* Extraction opens a list.
LEMMA ExtractInsertReviews ==
  ASSUME ListInv, ExtractInsert  PROVE ReviewStep
<1>1. CASE UNCHANGED <<lists, rows>>  BY <1>1, NothingReviewed
<1>2. CASE ~UNCHANGED <<lists, rows>>
  <2>1. PICK v \in Version : v = MaxTaken + 1
    BY NextVersion DEF ListInv, ExtractInsert
  <2>2. PICK R \in Extraction : rows' = [rows EXCEPT ![v] = R]
    BY <1>2, <2>1 DEF ExtractInsert
  <2>3. lists' = [lists EXCEPT ![v].status = "draft"]
    BY <1>2, <2>1 DEF ExtractInsert
  <2>4. lists[v] = NoList
    <3>1. MaxTaken \in Nat /\ \A u \in Version : lists[u].status # "none" <=> u <= MaxTaken
      BY NextVersion DEF ListInv, ExtractInsert
    <3>2. ~(v <= MaxTaken)  BY <2>1, <3>1
    <3>3. QED  BY <3>1, <3>2 DEF ListInv, ListSound
  <2>5. Typed /\ Typed'  BY ExtractInsertKeeps DEF ListInv
  <2>6. /\ lists[v].status = "none" /\ lists[v].approvedAt = NoRevision
        /\ lists'[v].status = "draft" /\ lists'[v].approvedAt = NoRevision
        /\ \A u \in Version \ {v} : lists'[u] = lists[u] /\ rows'[u] = rows[u]
    BY <2>2, <2>3, <2>4, <2>5 DEF Typed, NoList
  <2>7. rows'[v] \in Contents  BY <2>5 DEF Typed
  <2>8. /\ Phase(v) = "none" /\ Phase(v)' = "open" /\ Held(v)' \in Contents
        /\ Agreed(v)' = Agreed(v)
    BY <2>6, <2>7 DEF Phase, Held, Agreed
  <2>9. \A u \in Version \ {v} : /\ Phase(u)' = Phase(u) /\ Held(u)' = Held(u)
                                 /\ Agreed(u)' = Agreed(u)
    BY <2>6, OthersSay
  <2>10. PhaseFn[v] = "none" /\ PhaseFn' = [PhaseFn EXCEPT ![v] = "open"]
    BY <2>8, <2>9, PhaseMoves DEF PhaseFn
  <2>11. Review!Rewrite(v)  BY <2>5, <2>8, <2>9, RowsRewritten
  <2>12. AgreedFn' = AgreedFn  BY <2>8, <2>9 DEF AgreedFn
  <2>13. Review!Open(v)
    BY <2>10, <2>11, <2>12 DEF Review!Open, PhaseFn, AgreedFn
  <2>14. QED  BY <2>13 DEF ReviewStep, Review!ReviewNext
<1>3. QED  BY <1>1, <1>2

\* An edit rewrites an open list.
LEMMA EditCommitReviews ==
  ASSUME ListInv, NEW q \in Request, EditCommit(q)  PROVE ReviewStep
<1>1. PICK v \in Version : v = req[q].v
  BY DEF ListInv, AskSound, EditCommit
<1>2. CASE UNCHANGED <<lists, rows>>  BY <1>2, NothingReviewed
<1>3. CASE ~UNCHANGED <<lists, rows>>
  <2>1. PICK R :
          /\ OpenToEdits(v) /\ lists' = [lists EXCEPT ![v].revision = @ + 1]
          /\ rows' = [rows EXCEPT ![v] = R]
    BY <1>1, <1>3 DEF EditCommit, RecordEdit
  <2>2. Typed /\ Typed'  BY EditCommitKeeps DEF ListInv
  <2>3. /\ lists'[v].status = lists[v].status
        /\ lists'[v].approvedAt = lists[v].approvedAt
        /\ lists'[v].membership = lists[v].membership
        /\ \A u \in Version \ {v} : lists'[u] = lists[u] /\ rows'[u] = rows[u]
    BY <2>1, <2>2 DEF Typed, ListRow
  <2>4. rows'[v] \in Contents /\ lists[v].status \in {"draft", "approved"}
    BY <2>1, <2>2 DEF Typed, OpenToEdits
  <2>5. /\ Phase(v) = "open" /\ Phase(v)' = Phase(v) /\ Held(v)' \in Contents
        /\ Agreed(v)' = Agreed(v)
    BY <2>3, <2>4 DEF Phase, Held, Agreed
  <2>6. \A u \in Version \ {v} : /\ Phase(u)' = Phase(u) /\ Held(u)' = Held(u)
                                 /\ Agreed(u)' = Agreed(u)
    BY <2>3, OthersSay
  <2>7. PhaseFn[v] = "open" /\ PhaseFn' = PhaseFn /\ AgreedFn' = AgreedFn
    BY <2>5, <2>6 DEF PhaseFn, AgreedFn
  <2>8. Review!Rewrite(v)  BY <2>2, <2>5, <2>6, RowsRewritten
  <2>9. Review!Edit(v)
    BY <2>7, <2>8 DEF Review!Edit, PhaseFn, AgreedFn
  <2>10. QED  BY <2>9 DEF ReviewStep, Review!ReviewNext
<1>4. QED  BY <1>2, <1>3

\* An approval that finds its revision approves what the list holds.
LEMMA ApproveCommitReviews ==
  ASSUME ListInv, NEW q \in Request, ApproveCommit(q)  PROVE ReviewStep
<1>1. PICK r \in Asked : r = req[q]  BY DEF ListInv, Typed
<1>2. /\ AskSound(r) /\ r.op = "approve" /\ r.at = "commit" /\ UNCHANGED rows
  BY <1>1 DEF ListInv, ApproveCommit, At
<1>3. PICK v \in Version : v = r.v  BY <1>2 DEF AskSound
<1>4. CASE ~StillAsRead(q)
  BY <1>2, <1>4, NothingReviewed DEF ApproveCommit
<1>5. CASE StillAsRead(q)
  <2>1. /\ OpenToEdits(v) /\ lists[v].revision = r.rev
        /\ lists' = [lists EXCEPT ![v] =
             [@ EXCEPT !.status = "approved", !.approvedAt = r.rev,
                       !.membership = r.rows]]
    BY <1>1, <1>3, <1>5 DEF ApproveCommit, StillAsRead
  <2>2. /\ lists \in [Version -> ListRow] /\ lists[v] \in ListRow
        /\ rows[v] \in Contents /\ r.rev \in Nat
    BY <1>1 DEF ListInv, Typed, Asked
  <2>3. r.rows = rows[v] /\ Complete(r.rows)
    BY <1>2, <1>3, <2>1 DEF AskSound
  <2>4. /\ lists'[v].status = "approved" /\ lists'[v].approvedAt = r.rev
        /\ lists'[v].membership = rows[v]
        /\ \A u \in Version \ {v} : lists'[u] = lists[u] /\ rows'[u] = rows[u]
    BY <1>2, <2>1, <2>2, <2>3 DEF ListRow
  <2>5. r.rev # NoRevision  BY <2>2, NothingIsListed
  <2>6. lists[v].status \in {"draft", "approved"}  BY <2>1 DEF OpenToEdits
  <2>7. /\ Phase(v) = "open" /\ Phase(v)' = Phase(v)
        /\ Held(v) = rows[v] /\ Held(v)' = Held(v) /\ Agreed(v)' = rows[v]
    BY <1>2, <2>4, <2>5, <2>6 DEF Phase, Held, Agreed
  <2>8. \A u \in Version \ {v} : /\ Phase(u)' = Phase(u) /\ Held(u)' = Held(u)
                                 /\ Agreed(u)' = Agreed(u)
    BY <2>4, OthersSay
  <2>9. /\ PhaseFn[v] = "open" /\ PhaseFn' = PhaseFn /\ HeldFn' = HeldFn
        /\ HeldFn[v] = rows[v]
    BY <2>7, <2>8 DEF PhaseFn, HeldFn
  <2>10. AgreedFn' = [AgreedFn EXCEPT ![v] = HeldFn[v]]
    BY <2>7, <2>8, <2>9, AgreedMoves
  <2>11. HeldFn[v] \in {R \in Contents : Complete(R)}
    BY <2>2, <2>3, <2>9
  <2>12. Review!Approve(v)
    BY <2>9, <2>10, <2>11 DEF Review!Approve, PhaseFn, HeldFn, AgreedFn
  <2>13. QED  BY <2>12 DEF ReviewStep, Review!ReviewNext
<1>6. QED  BY <1>4, <1>5

\* Only a draft is discarded, and a draft was never approved.
LEMMA DiscardCommitReviews ==
  ASSUME ListInv, NEW q \in Request, DiscardCommit(q)  PROVE ReviewStep
<1>1. PICK v \in Version : v = req[q].v
  BY DEF ListInv, AskSound, DiscardCommit, At
<1>2. UNCHANGED rows  BY DEF DiscardCommit
<1>3. CASE ~Discardable(v)
  BY <1>1, <1>3, NothingReviewed DEF DiscardCommit
<1>4. CASE Discardable(v)
  <2>1. lists \in [Version -> ListRow] /\ lists[v] \in ListRow /\ ListSound(v)
    BY DEF ListInv, Typed
  <2>2. lists' = [lists EXCEPT ![v].status = "discarded"]
    BY <1>1, <1>4 DEF DiscardCommit
  <2>3. /\ lists'[v].status = "discarded"
        /\ lists'[v].approvedAt = lists[v].approvedAt
        /\ \A u \in Version \ {v} : lists'[u] = lists[u] /\ rows'[u] = rows[u]
    BY <1>2, <2>1, <2>2 DEF ListRow
  <2>4. lists[v].status = "draft" /\ lists[v].approvedAt = NoRevision
    BY <1>4, <2>1 DEF Discardable, ListSound
  <2>5. /\ Phase(v) = "open" /\ Phase(v)' = "discarded" /\ Held(v)' = Held(v)
        /\ Agreed(v) = Blank /\ Agreed(v)' = Agreed(v)
    BY <1>2, <2>3, <2>4 DEF Phase, Held, Agreed
  <2>6. \A u \in Version \ {v} : /\ Phase(u)' = Phase(u) /\ Held(u)' = Held(u)
                                 /\ Agreed(u)' = Agreed(u)
    BY <2>3, OthersSay
  <2>7. /\ PhaseFn[v] = "open" /\ AgreedFn[v] = Blank /\ HeldFn' = HeldFn
        /\ AgreedFn' = AgreedFn
    BY <2>5, <2>6 DEF PhaseFn, HeldFn, AgreedFn
  <2>8. PhaseFn' = [PhaseFn EXCEPT ![v] = "discarded"]
    BY <2>5, <2>6, PhaseMoves
  <2>9. Review!Discard(v)
    BY <2>7, <2>8 DEF Review!Discard, PhaseFn, HeldFn, AgreedFn
  <2>10. QED  BY <2>9 DEF ReviewStep, Review!ReviewNext
<1>5. QED  BY <1>3, <1>4

\* A flip that finds the approval current releases the rows that were approved.
LEMMA ReleaseFlipReviews ==
  ASSUME ListInv, NEW q \in Request, ReleaseFlip(q)  PROVE ReviewStep
<1>1. PICK d \in DOMAIN delivs : d = req[q].v
  BY DEF ListInv, AskSound, ReleaseFlip, At
<1>2. UNCHANGED rows  BY DEF ReleaseFlip
<1>3. PICK v \in Version : v = delivs[d].parent
  <2>1. delivs[d] \in Deliverable  BY DEF ListInv, Typed
  <2>2. QED  BY <2>1 DEF Deliverable
<1>4. CASE UNCHANGED lists  BY <1>2, <1>4, NothingReviewed
<1>5. CASE ~UNCHANGED lists
  <2>1. /\ lists' = [lists EXCEPT ![v].status = "released"]
        /\ lists[v].status = "approved" /\ lists[v].approvedAt = lists[v].revision
    BY <1>1, <1>3, <1>5 DEF ReleaseFlip, Releasable, ApprovalCurrent
  <2>2. lists \in [Version -> ListRow] /\ lists[v] \in ListRow /\ ListSound(v)
    BY DEF ListInv, Typed
  <2>3. /\ lists'[v].status = "released"
        /\ lists'[v].approvedAt = lists[v].approvedAt
        /\ lists'[v].membership = lists[v].membership
        /\ \A u \in Version \ {v} : lists'[u] = lists[u] /\ rows'[u] = rows[u]
    BY <1>2, <2>1, <2>2 DEF ListRow
  <2>4. lists[v].approvedAt # NoRevision /\ lists[v].membership = rows[v]
    BY <2>1, <2>2 DEF ListSound
  <2>5. /\ Phase(v) = "open" /\ Phase(v)' = "released"
        /\ Held(v)' = Held(v) /\ Agreed(v) = Held(v) /\ Agreed(v)' = Agreed(v)
    BY <1>2, <2>1, <2>3, <2>4 DEF Phase, Held, Agreed
  <2>6. \A u \in Version \ {v} : /\ Phase(u)' = Phase(u) /\ Held(u)' = Held(u)
                                 /\ Agreed(u)' = Agreed(u)
    BY <2>3, OthersSay
  <2>7. /\ PhaseFn[v] = "open" /\ AgreedFn[v] = HeldFn[v] /\ HeldFn' = HeldFn
        /\ AgreedFn' = AgreedFn
    BY <2>5, <2>6 DEF PhaseFn, HeldFn, AgreedFn
  <2>8. PhaseFn' = [PhaseFn EXCEPT ![v] = "released"]
    BY <2>5, <2>6, PhaseMoves
  <2>9. Review!Release(v)
    BY <2>7, <2>8 DEF Review!Release, PhaseFn, HeldFn, AgreedFn
  <2>10. QED  BY <2>9 DEF ReviewStep, Review!ReviewNext
<1>6. QED  BY <1>4, <1>5

LEMMA ReviewInits == Init => Review!ReviewInit
<1>1. SUFFICES ASSUME Init  PROVE Review!ReviewInit  OBVIOUS
<1>2. \A v \in Version : Phase(v) = "none" /\ Held(v) = Blank /\ Agreed(v) = Blank
  BY <1>1 DEF Init, NoList, Phase, Held, Agreed
<1>3. QED  BY <1>2 DEF Review!ReviewInit

LEMMA NextReviews ==
  ASSUME ListInv, [Next]_vars  PROVE ReviewStep
<1>1. ASSUME NEW q \in Request, Read(q)  PROVE UNCHANGED <<lists, rows>>
  BY <1>1 DEF Read, ExtractRead, FinalizeRead, ApproveRead, DiscardRead, EditRead,
              BulkRead, ReleaseRead, ReadOnly
<1>2. ASSUME NEW q \in Request, Write(q)  PROVE ReviewStep
  <2>1. CASE \/ ExtractStart(q) \/ ApproveBuild(q) \/ ApproveJudge(q)
             \/ FinalizeLoad(q) \/ FinalizeCommit(q) \/ ReleaseJudge(q)
             \/ ReleaseHandOver(q)
    BY <2>1, NothingReviewed
    DEF ExtractStart, ApproveBuild, ApproveJudge, FinalizeLoad, FinalizeCommit,
        ReleaseJudge, ReleaseHandOver, ReadOnly
  <2>2. QED
    BY <1>2, <2>1, EditCommitReviews, ApproveCommitReviews, DiscardCommitReviews,
       ReleaseFlipReviews
    DEF Write
<1>3. CASE ExtractCheck \/ ExtractFails \/ UNCHANGED vars
  BY <1>3, NothingReviewed DEF ExtractCheck, ExtractFails, vars
<1>4. CASE ExtractInsert  BY <1>4, ExtractInsertReviews
<1>5. QED  BY <1>1, <1>2, <1>3, <1>4, NothingReviewed DEF Next

\* Extraction, the edits, approval, discard and release of tech_debt.py keep the
\* promise of ReviewedDoc: a list is released with exactly the rows its last
\* approval was computed from, all of them decided and every exclusion
\* confirmed, and nothing changes a list that was released or discarded.
THEOREM ListsAreReviewed == Spec => ImplementsReviewedDoc
<1>1. Init => Review!ReviewInit  BY ReviewInits
<1>2. ListInv /\ [Next]_vars
      => [Review!ReviewNext]_<<[v \in Version |-> Phase(v)],
                               [v \in Version |-> Held(v)],
                               [v \in Version |-> Agreed(v)]>>
  BY NextReviews DEF ReviewStep, PhaseFn, HeldFn, AgreedFn
<1>3. QED
  BY <1>1, <1>2, ListsAreSound, PTL
  DEF Spec, ImplementsReviewedDoc, Review!ReviewSpec, Review!reviewVars
\* What a released list holds is what was approved, with no row undecided and no
\* exclusion unconfirmed; a discarded list was never approved.
THEOREM ReleasedListsAreComplete == Spec => []Review!ReviewInv
<1>1. ListInv => Review!ReviewInv
  <2>1. SUFFICES ASSUME ListInv  PROVE Review!ReviewInv  OBVIOUS
  <2>2. \A v \in Version :
          /\ lists[v] \in ListRow /\ rows[v] \in Contents /\ ListSound(v)
          /\ lists[v].status \in Status /\ lists[v].membership \in Contents
    BY <2>1 DEF ListInv, Typed, ListRow
  <2>3. \A v \in Version : Phase(v) \in {"none", "open", "released", "discarded"}
    BY <2>2 DEF Phase, Status
  <2>4. \A v \in Version : Held(v) \in Contents \cup {Blank}  BY <2>2 DEF Held
  <2>5. \A v \in Version : Agreed(v) \in {R \in Contents : Complete(R)} \cup {Blank}
    BY <2>2 DEF Agreed, ListSound
  <2>6. Review!ReviewTypeOK  BY <2>3, <2>4, <2>5 DEF Review!ReviewTypeOK
  <2>7. \A v \in Version : Phase(v) = "released" =>
          Held(v) = Agreed(v) /\ Held(v) \in {R \in Contents : Complete(R)}
    <3>1. ASSUME NEW v \in Version, Phase(v) = "released"
          PROVE  /\ Held(v) = Agreed(v)
                 /\ Held(v) \in {R \in Contents : Complete(R)}
      <4>1. lists[v].status = "released"  BY <3>1 DEF Phase
      <4>2. /\ lists[v].approvedAt # NoRevision
            /\ lists[v].membership = rows[v] /\ Complete(rows[v])
        BY <2>2, <4>1 DEF ListSound
      <4>3. QED  BY <2>2, <4>1, <4>2 DEF Held, Agreed
    <3>2. QED  BY <3>1
  <2>8. \A v \in Version : Phase(v) = "discarded" => Agreed(v) = Blank
    <3>1. \A v \in Version : Phase(v) = "discarded" => lists[v].status = "discarded"
      BY DEF Phase
    <3>2. QED  BY <2>2, <3>1 DEF ListSound, Agreed
  <2>9. \A v \in Version : Phase(v) = "none" <=> Held(v) = Blank
    <3>1. \A v \in Version : Phase(v) = "none" <=> lists[v].status = "none"
      BY DEF Phase
    <3>2. QED  BY <2>2, <3>1, ContentsAreNotBlank DEF Held
  <2>10. QED
    BY <2>6, <2>7, <2>8, <2>9
    DEF Review!ReviewInv, Review!ReleasedIsApproved,
        Review!DiscardedWasNeverApproved
<1>2. QED  BY <1>1, ListsAreSound, PTL
=============================================================================
