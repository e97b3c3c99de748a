------------------------ MODULE RiskRegister_proofs -------------------------
(***************************************************************************)
(* Proofs about RiskRegister, for any requests, services, kinds, rating    *)
(* edits and bounds: the invariant RegisterInv, and from it the three      *)
(* safety invariants and the two action properties of the module.          *)
(*                                                                         *)
(* None of them is inductive, since each request writes what it read some  *)
(* commits ago.  RequestSound says what of that reading still holds when   *)
(* the request writes, and LocksExclude why: whoever could have moved it   *)
(* waits for the row.  What is drawn under no lock is protected by the     *)
(* status of the record: past the approval only an overdue write moves it, *)
(* and late counts those.                                                  *)
(***************************************************************************)
EXTENDS RiskRegister, TLAPS, WellFoundedInduction

---------------------------------------------------------------------------
(* Types.                                                                  *)

\* A function over some of the services: what a register says of each input.
Partial(T) == UNION {[S -> T] : S \in SUBSET Service}

Entry      == [n : Nat, lk : BOOLEAN, im : BOOLEAN, edited : BOOLEAN]
Entries    == Partial(Entry)
RecStatus  == {"draft", "submitted", "approved", "released", "discarded"}
Record     == [status : RecStatus, content : Nat, late : Nat]
Reading    == [version : Nat, status : RecStatus]
Provenance == Partial(Reading)
Current    == Partial([version : Nat, status : RecStatus, print : SUBSET Nat])
Budget     == [requests : Nat, work : Nat]
File       == Entries \cup {Draft}

Register == [version : Nat, born : Nat, prior : Nat, superseded : BOOLEAN,
             final : BOOLEAN, inputs : Provenance, current : Current,
             left : SUBSET Service, drew : Partial(Nat), asof : Partial(Nat),
             entries : Entries, notCarried : SUBSET Service, file : File]

Pending ==
  [op : {"none", "generate", "edit", "export", "publish", "archive"},
   at : {"idle", "current", "findings", "insert", "carry", "commit", "lock", "swap"},
   s : Service \cup {"none"}, reg : Nat, left : SUBSET Service,
   inputs : Provenance, current : Current, drew : Partial(Nat),
   asof : Partial(Nat), prior : Nat, born : Nat, old : Entries,
   fields : SUBSET {"lk", "im"}, value : BOOLEAN, before : Entry \cup {<<>>}, file : File]

TypeOK ==
  /\ kind \in [Service -> Kind]
  /\ engaged \in [Service -> {"engaged", "archived", "archived_by_admin"}]
  /\ recs \in [Service -> Seq(Record)]
  /\ work \in SUBSET [op : {"edit", "submit", "revise"}, s : Service, v : Nat]
  /\ regs \in Seq(Register) /\ born \in Nat
  /\ req \in [Request -> Pending] /\ budget \in Budget

---------------------------------------------------------------------------
(* The invariant.                                                          *)

\* The first version of an assessment is never discarded, so one is latest; a
\* request in a workspace writes a version that is there.
InputsInv ==
  /\ \A s \in Service : Len(recs[s]) >= 1 /\ recs[s][1].status # "discarded"
  /\ \A w \in work : w.v \in DOMAIN recs[w.s]

\* Past the approval a record only moves on, to its release.
MovesOn(was, now) ==
  was \in Settled => now \in (IF was = "released" THEN {was} ELSE Settled)

\* A provenance names versions that are there; one that was past its approval
\* still is, unless an overdue write has reached it.
Named(inputs, asof) ==
  \A s \in DOMAIN inputs :
    LET v == inputs[s].version
    IN /\ v \in DOMAIN recs[s] /\ s \in DOMAIN asof /\ asof[s] <= recs[s][v].late
       /\ recs[s][v].late = asof[s] => MovesOn(inputs[s].status, recs[s][v].status)

\* And what was drawn from it is what it holds.
Drawn(inputs, drew, asof) ==
  \A s \in DOMAIN inputs :
    LET v == inputs[s].version
    IN inputs[s].status \in Settled /\ recs[s][v].late = asof[s] =>
         recs[s][v].content = drew[s]

\* The second reading of an assessment says of its version what the first said.
SameReading(inputs, current, left) ==
  \A s \in DOMAIN current :
    /\ s \notin left
    /\ s \in DOMAIN inputs /\ current[s].version = inputs[s].version =>
         current[s].status = inputs[s].status

\* What publish finds: an input read twice had been released.
Certified(r) ==
  /\ Certifiable(r)
  /\ \A s \in DOMAIN regs[r].inputs :
       s \in DOMAIN regs[r].current
         /\ regs[r].current[s].version = regs[r].inputs[s].version =>
       regs[r].inputs[s].status = "released"

RegisterSound(r) ==
  /\ regs[r].version <= r /\ regs[r].born <= born
  /\ Named(regs[r].inputs, regs[r].asof)
  /\ Drawn(regs[r].inputs, regs[r].drew, regs[r].asof)
  /\ SameReading(regs[r].inputs, regs[r].current, regs[r].left)
  /\ regs[r].final => Certified(r) /\ regs[r].file = regs[r].entries

\* A service of the kind of s that the banner has not archived.
Mate(s) == \E t \in Service \ {s} : kind[t] = kind[s] /\ engaged[t] # "archived"

\* What a request has read still holds of the tables when it writes.
RequestSound(r) ==
  /\ r.op = "generate" =>
       /\ Named(r.inputs, r.asof)
       /\ r.at # "current" => SameReading(r.inputs, r.current, r.left)
       /\ r.at \in {"insert", "carry", "commit"} => Drawn(r.inputs, r.drew, r.asof)
       /\ r.at \in {"carry", "commit"} => r.prior \in 0..Len(regs)
       /\ r.at = "commit" =>
            r.old = IF r.prior = 0 THEN <<>> ELSE regs[r.prior].entries
  /\ r.op \in {"edit", "export", "publish"} => r.reg \in DOMAIN regs
  /\ r.op = "edit" => r.before \in Entry /\ r.s \in DOMAIN regs[r.reg].entries
  /\ r.op \in {"export", "publish"} /\ r.at = "commit" =>
       /\ r.op = "publish" \/ regs[r.reg].final => r.file = regs[r.reg].entries
       /\ r.op = "publish" => Certified(r.reg)
  /\ r.op = "archive" /\ r.at = "commit" => r.s \in Service /\ Mate(r.s)

Writes(q, r) == Renders(q, r) \/ Supersedes(q, r)

\* Who holds a register FOR UPDATE holds it alone; one archive at a time holds
\* the client.
LocksExclude ==
  /\ \A p, q \in Request, r \in Nat \ {0} :
       p # q /\ Writes(p, r) => ~Writes(q, r) /\ ~Shares(q, r)
  /\ \A p, q \in Request :
       At(p, "archive", "commit") /\ At(q, "archive", "commit") => p = q

\* Nobody holds an age that has not been given.
AgesGiven == \A q \in Request : req[q].born <= born

RegisterInv ==
  /\ TypeOK /\ InputsInv /\ LocksExclude /\ KindStaysEngaged /\ AgesGiven
  /\ \A r \in DOMAIN regs : RegisterSound(r)
  /\ \A q \in Request : RequestSound(req[q])

---------------------------------------------------------------------------
(* What the reads return.                                                  *)

\* A partial function is one over its own domain.
LEMMA PartialIs ==
  \A T, f : f \in Partial(T) <=> DOMAIN f \subseteq Service /\ f \in [DOMAIN f -> T]
BY DEF Partial

\* A register drawn from nothing has the empty provenance.
LEMMA NothingIsPartial == \A T : <<>> \in Partial(T) /\ DOMAIN <<>> = {}
<1>1. \A T : <<>> \in [{} -> T]  OBVIOUS
<1>2. QED  BY <1>1, PartialIs

\* A bounded set of numbers has a greatest one, which is what Max returns.
LEMMA GreatestIs ==
  ASSUME NEW S \in SUBSET Nat, S # {}, NEW n \in Nat, \A x \in S : x <= n
  PROVE  \E m \in S : m = Max(S) /\ \A x \in S : x <= m
<1> DEFINE Below == {k \in Nat : \E x \in S : k + x = n}
<1>1. Below # {}
  <2>1. PICK x \in S : TRUE  OBVIOUS
  <2>2. n - x \in Nat /\ (n - x) + x = n  BY <2>1
  <2>3. QED  BY <2>1, <2>2
<1>2. PICK k \in Below : \A j \in Below : <<j, k>> \notin OpToRel(<, Nat)
  <2>1. Below \subseteq Nat  OBVIOUS
  <2> HIDE DEF Below
  <2>2. QED  BY <1>1, <2>1, WFMin, NatLessThanWellFounded, Zenon
<1>3. \A j \in Below : ~(j < k)
  <2>1. Below \subseteq Nat  OBVIOUS
  <2> HIDE DEF Below
  <2>2. QED  BY <1>2, <2>1, Zenon DEF OpToRel
<1>4. PICK m \in S : k + m = n  OBVIOUS
<1>5. \A x \in S : x <= m
  <2>1. SUFFICES ASSUME NEW x \in S, ~(x <= m)  PROVE FALSE  OBVIOUS
  <2>2. n - x \in Below /\ n - x < k  BY <1>4, <2>1
  <2>3. QED  BY <1>3, <2>2
<1>6. m = Max(S)
  <2>1. \A y \in S : (\A x \in S : y >= x) => y = m  BY <1>5
  <2>2. \A x \in S : m >= x  BY <1>5
  <2>3. Max(S) \in S /\ \A x \in S : Max(S) >= x  BY <2>2 DEF Max
  <2>4. QED  BY <2>1, <2>3
<1>7. QED  BY <1>5, <1>6

\* What a row of risk_registers holds.
LEMMA RegisterIs ==
  ASSUME TypeOK, NEW r \in DOMAIN regs
  PROVE  /\ regs[r] \in Register /\ regs[r].born \in Nat
         /\ regs[r].version \in Nat /\ regs[r].entries \in Entries
         /\ r \in Nat \ {0} /\ r \in 1..Len(regs)
<1>1. regs[r] \in Register /\ r \in 1..Len(regs)  BY DEF TypeOK
<1>2. QED  BY <1>1 DEF Register

\* latest_record finds a version, and one that is not discarded.
LEMMA LatestRecordIs ==
  ASSUME TypeOK, InputsInv, NEW s \in Service
  PROVE  /\ LatestRecord(s) \in DOMAIN recs[s]
         /\ Input(s) \in Record /\ Input(s).status # "discarded"
<1> DEFINE S == {v \in DOMAIN recs[s] : recs[s][v].status # "discarded"} \cup {0}
<1>1. recs[s] \in Seq(Record) /\ Len(recs[s]) >= 1 /\ 1 \in S
  BY DEF TypeOK, InputsInv
<1>2. S \in SUBSET Nat /\ S # {} /\ \A v \in S : v <= Len(recs[s])
  BY <1>1
<1>3. PICK m \in S : m = Max(S) /\ \A v \in S : v <= m
  <2> HIDE DEF S
  <2>1. Len(recs[s]) \in Nat  BY <1>1
  <2>2. QED  BY <1>2, <2>1, GreatestIs
<1>4. m # 0  BY <1>1, <1>3
<1>5. LatestRecord(s) = m  BY <1>3 DEF LatestRecord
<1>6. m \in DOMAIN recs[s] /\ recs[s][m].status # "discarded"
  BY <1>3, <1>4
<1>7. recs[s][m] \in Record  BY <1>1, <1>6
<1>8. QED  BY <1>5, <1>6, <1>7 DEF Input

\* _latest_register finds a register if there is one: versions and ages are
\* bounded, so the newest of the highest version is there.
LEMMA LatestIs ==
  ASSUME TypeOK, \A r \in DOMAIN regs : regs[r].version <= r /\ regs[r].born <= born
  PROVE  /\ Latest \in 0..Len(regs)
         /\ Latest = 0 <=> regs = <<>>
<1>1. CASE regs = <<>>
  BY <1>1 DEF Latest
<1>2. CASE regs # <<>>
  <2>1. /\ regs \in Seq(Register) /\ Len(regs) \in Nat /\ born \in Nat
        /\ 1 \in DOMAIN regs /\ DOMAIN regs = 1..Len(regs)
    BY <1>2 DEF TypeOK
  <2>2. \A r \in DOMAIN regs : regs[r].version \in Nat /\ regs[r].born \in Nat
    BY RegisterIs
  <2> DEFINE V == {regs[r].version : r \in DOMAIN regs}
  <2>3. PICK v \in V : \A x \in V : x <= v
    <3>1. V \in SUBSET Nat /\ V # {} /\ \A x \in V : x <= Len(regs)  BY <2>1, <2>2
    <3> HIDE DEF V
    <3>2. QED  BY <2>1, <3>1, GreatestIs
  <2> DEFINE B == {regs[r].born : r \in {x \in DOMAIN regs : regs[x].version = v}}
  <2>4. PICK b \in B : \A x \in B : x <= b
    <3>1. B \in SUBSET Nat /\ B # {} /\ \A x \in B : x <= born
      BY <2>1, <2>2, <2>3
    <3> HIDE DEF B
    <3>2. QED  BY <2>1, <3>1, GreatestIs
  <2>5. PICK r \in DOMAIN regs : regs[r].version = v /\ regs[r].born = b
    BY <2>4
  <2>6. \A s \in DOMAIN regs : Newer(r, s)
    <3>1. SUFFICES ASSUME NEW s \in DOMAIN regs  PROVE Newer(r, s)  OBVIOUS
    <3>2. regs[s].version <= v  BY <2>3
    <3>3. regs[s].version = v => regs[s].born <= b  BY <2>4
    <3>4. QED  BY <2>2, <2>5, <3>2, <3>3 DEF Newer
  <2>7. \E x \in 0..Len(regs) : \/ x = 0 /\ regs = <<>>
                                \/ x > 0 /\ \A s \in DOMAIN regs : Newer(x, s)
    BY <2>1, <2>5, <2>6
  <2>8. /\ Latest \in 0..Len(regs)
        /\ \/ Latest = 0 /\ regs = <<>>
           \/ Latest > 0 /\ \A s \in DOMAIN regs : Newer(Latest, s)
    BY <2>7 DEF Latest
  <2>9. QED  BY <1>2, <2>8
<1>3. QED  BY <1>1, <1>2

---------------------------------------------------------------------------
(* Steps of one request that leave the tables as they are.                 *)

\* What a request relies on is what the tables say, its record apart.
LEMMA SameTables ==
  ASSUME UNCHANGED <<kind, engaged, recs, work, regs>>
  PROVE  \A x : RequestSound(x)' <=> RequestSound(x)
BY DEF RequestSound, Named, Drawn, SameReading, Certified, Certifiable, Mate

\* Nor does a register rely on more.
LEMMA SameRegisters ==
  ASSUME UNCHANGED <<recs, regs, born>>
  PROVE  \A x : RegisterSound(x)' <=> RegisterSound(x)
<1>1. \A i, a : Named(i, a)' <=> Named(i, a)  BY DEF Named
<1>2. \A i, d, a : Drawn(i, d, a)' <=> Drawn(i, d, a)  BY DEF Drawn
<1>3. \A i, c, l : SameReading(i, c, l)' <=> SameReading(i, c, l)  BY DEF SameReading
<1>4. \A x : Certified(x)' <=> Certified(x)  BY DEF Certified, Certifiable
<1>5. QED  BY <1>1, <1>2, <1>3, <1>4 DEF RegisterSound

\* A step of one request leaves the others where they are.
LEMMA OthersStay ==
  ASSUME RegisterInv, NEW q \in Request, NEW r, Takes(q, r)
  PROVE  \A p \in Request : req'[p] = IF p = q THEN r ELSE req[p]
BY DEF RegisterInv, TypeOK, Takes

\* A step that leaves the tables alone is sound if its request is.
LEMMA RequestStep ==
  ASSUME RegisterInv, NEW q \in Request, NEW r \in Pending, Takes(q, r),
         UNCHANGED <<kind, engaged, recs, work, regs>>, born' \in Nat, born' >= born,
         r.born <= born', budget' \in Budget, RequestSound(r), LocksExclude'
  PROVE  RegisterInv'
<1>1. \A p \in Request : req'[p] = IF p = q THEN r ELSE req[p]
  BY OthersStay
<1>2. TypeOK'
  BY <1>1 DEF RegisterInv, TypeOK, Takes
<1>3. (\A p \in Request : RequestSound(req[p]))'
  BY <1>1, SameTables DEF RegisterInv
<1>4. (\A x \in DOMAIN regs : RegisterSound(x))'
  <2>1. ASSUME NEW x \in DOMAIN regs  PROVE RegisterSound(x)'
    <3>1. regs[x].born \in Nat /\ born \in Nat
      BY RegisterIs DEF RegisterInv, TypeOK
    <3>2. QED  BY <3>1 DEF RegisterInv, RegisterSound, Named, Drawn, SameReading,
     Certified, Certifiable
  <2>2. QED  BY <2>1
<1>5. InputsInv' /\ KindStaysEngaged'
  BY DEF RegisterInv, InputsInv, KindStaysEngaged
<1>6. AgesGiven'
  <2>1. \A p \in Request : req[p].born \in Nat /\ req[p].born <= born /\ born \in Nat
    BY DEF RegisterInv, TypeOK, Pending, AgesGiven
  <2>2. QED  BY <1>1, <2>1 DEF AgesGiven
<1>7. QED  BY <1>2, <1>3, <1>4, <1>5, <1>6 DEF RegisterInv

\* A request that holds no lock after its step keeps the exclusion.
LEMMA LocksKept ==
  ASSUME RegisterInv, NEW q \in Request, NEW r, Takes(q, r),
         r.at \notin {"commit", "swap"}
  PROVE  LocksExclude'
<1>1. \A p \in Request : \/ req'[p] = req[p]
                         \/ req'[p].at \notin {"commit", "swap"}
  BY OthersStay
<1>2. \A p \in Request : \A x : /\ Writes(p, x)' => Writes(p, x)
                                /\ Shares(p, x)' => Shares(p, x)
  BY <1>1 DEF Writes, Renders, Supersedes, Shares, At
<1>3. \A p \in Request : At(p, "archive", "commit")' => At(p, "archive", "commit")
  BY <1>1 DEF At
<1>4. QED  BY <1>2, <1>3 DEF RegisterInv, LocksExclude

\* The second flush of generate waits until nobody holds the prior.
LEMMA PriorLocked ==
  ASSUME RegisterInv, NEW q \in Request, NEW r, Takes(q, r), r.op = "generate",
         r.prior # 0 => NobodyHolds(r.prior)
  PROVE  LocksExclude'
BY OthersStay
DEF RegisterInv, LocksExclude, NobodyHolds, Writes, Renders, Supersedes, Shares, At

\* export and publish wait until nobody holds the register.
LEMMA RenderLocked ==
  ASSUME RegisterInv, NEW q \in Request, NEW r, Takes(q, r),
         r.op \in {"export", "publish"}, NobodyHolds(r.reg)
  PROVE  LocksExclude'
BY OthersStay
DEF RegisterInv, LocksExclude, NobodyHolds, Writes, Renders, Supersedes, Shares, At

\* The FOR SHARE of an edit waits for those who write the register.
LEMMA EditShares ==
  ASSUME RegisterInv, NEW q \in Request, NEW r, Takes(q, r), r.op = "edit",
         Shareable(r.reg)
  PROVE  LocksExclude'
BY OthersStay
DEF RegisterInv, LocksExclude, Shareable, Writes, Renders, Supersedes, Shares, At

\* The FOR UPDATE of the client lets one archive read at a time.
LEMMA ClientLocked ==
  ASSUME RegisterInv, NEW q \in Request, NEW r, Takes(q, r), r.op = "archive",
         ClientFree
  PROVE  LocksExclude'
BY OthersStay
DEF RegisterInv, LocksExclude, ClientFree, Writes, Renders, Supersedes, Shares, At

\* A thread at rest relies on nothing.
LEMMA IdleIsPending == Idle \in Pending /\ RequestSound(Idle)
<1>1. Idle \in Pending
  BY NothingIsPartial DEF Idle, Pending, Provenance, Current, Entries, File
<1>2. QED  BY <1>1 DEF Idle, RequestSound

\* What the invariant says of one request.
LEMMA PendingIs ==
  ASSUME RegisterInv, NEW q \in Request
  PROVE  req[q] \in Pending /\ RequestSound(req[q])
BY DEF RegisterInv, TypeOK

\* A refusal, or the end of a request that wrote nothing.
LEMMA FinishIsSound ==
  ASSUME RegisterInv, NEW q \in Request, Finish(q),
         UNCHANGED <<kind, engaged, recs, work, regs, born>>
  PROVE  RegisterInv'
<1>1. Takes(q, Idle) /\ budget' \in Budget /\ born' \in Nat /\ born' >= born
  BY DEF Finish, Become, RegisterInv, TypeOK
<1>2. LocksExclude'  BY <1>1, LocksKept DEF Idle
<1>3. Idle.born <= born'  BY <1>1 DEF Idle
<1>4. QED  BY <1>1, <1>2, <1>3, IdleIsPending, RequestStep

\* What a request takes with it as it begins or goes on.
LEMMA BeginIsSound ==
  ASSUME RegisterInv, NEW q \in Request, NEW r \in Pending, RequestSound(r),
         Begin(q, r) \/ Become(q, r), r.born = req[q].born, LocksExclude',
         UNCHANGED <<kind, engaged, recs, work, regs, born>>
  PROVE  RegisterInv'
<1>1. Takes(q, r) /\ budget' \in Budget /\ born' \in Nat /\ born' >= born
  BY DEF Begin, Become, RegisterInv, TypeOK, Budget
<1>2. r.born <= born'  BY DEF RegisterInv, AgesGiven
<1>3. QED  BY <1>1, <1>2, RequestStep

\* A provenance read now names a version that is there, as it is.
LEMMA AsReadIs ==
  ASSUME RegisterInv, NEW s \in Service
  PROVE  LET read == AsRead(s)
         IN /\ read \in Reading /\ read.version \in DOMAIN recs[s]
            /\ recs[s][read.version] \in Record /\ recs[s][read.version] = Input(s)
            /\ recs[s][read.version].status = read.status
<1>1. /\ LatestRecord(s) \in DOMAIN recs[s] /\ Input(s) \in Record
      /\ DOMAIN recs[s] \subseteq Nat
  BY LatestRecordIs DEF RegisterInv, TypeOK
<1>2. QED  BY <1>1 DEF AsRead, Input, Record, Reading

\* archive_duplicate_service reads a pair of which it leaves one.
LEMMA ArchiveReadIsSound ==
  ASSUME RegisterInv, NEW q \in Request, NEW s \in Service, ArchiveRead(q, s)
  PROVE  RegisterInv'
<1> DEFINE r == [Idle EXCEPT !.op = "archive", !.at = "commit", !.s = s]
<1>1. r \in Pending /\ r.op = "archive" /\ r.s = s /\ r.born = Idle.born
  BY IdleIsPending DEF Pending, Idle
<1>2. Mate(s)  BY DEF ArchiveRead, Duplicate, Engaged, Mate
<1>3. Begin(q, r)  BY DEF ArchiveRead
<1> HIDE DEF r
<1>4. RequestSound(r)  BY <1>1, <1>2 DEF RequestSound
<1>5. LocksExclude'  BY <1>1, <1>3, ClientLocked DEF ArchiveRead, Begin
<1>6. r.born = req[q].born  BY <1>1, <1>3 DEF Begin
<1>7. QED  BY <1>1, <1>3, <1>4, <1>5, <1>6, BeginIsSound DEF ArchiveRead

\* The provenance generate takes names the newest versions.
LEMMA GenerateSourcesIsSound ==
  ASSUME RegisterInv, NEW q \in Request, NEW chosen \in SUBSET Service,
         GenerateSources(q, chosen)
  PROVE  RegisterInv'
<1> DEFINE inputs == [s \in chosen |-> AsRead(s)]
           asof == [s \in chosen |-> Input(s).late]
           left == Engaged \ chosen
           r == [Idle EXCEPT !.op = "generate", !.at = "current", !.left = left,
                             !.inputs = inputs, !.asof = asof]
<1>1. inputs \in Provenance /\ asof \in Partial(Nat) /\ Named(inputs, asof)
  <2>1. \A s \in chosen : inputs[s] \in Reading  BY AsReadIs
  <2>2. \A s \in chosen : asof[s] \in Nat /\ asof[s] = recs[s][inputs[s].version].late
    BY AsReadIs DEF Record
  <2>3. inputs \in Provenance  BY <2>1, PartialIs DEF Provenance
  <2>4. asof \in Partial(Nat)  BY <2>2, PartialIs
  <2>5. ASSUME NEW s \in chosen
        PROVE  /\ inputs[s].version \in DOMAIN recs[s]
               /\ asof[s] <= recs[s][inputs[s].version].late
               /\ MovesOn(inputs[s].status, recs[s][inputs[s].version].status)
    <3>1. inputs[s] = AsRead(s)  OBVIOUS
    <3>2. asof[s] \in Nat /\ asof[s] = recs[s][inputs[s].version].late  BY <2>2
    <3> HIDE DEF inputs, asof
    <3>3. QED  BY <3>1, <3>2, AsReadIs DEF MovesOn
  <2>6. DOMAIN inputs = chosen /\ DOMAIN asof = chosen  OBVIOUS
  <2> HIDE DEF inputs, asof
  <2>7. QED  BY <2>3, <2>4, <2>5, <2>6 DEF Named
<1>2. left \in SUBSET Service  BY DEF Engaged
<1>3. Begin(q, r)  BY DEF GenerateSources
<1> HIDE DEF inputs, left, asof
<1>4. /\ r \in Pending /\ r.op = "generate" /\ r.at = "current"
      /\ r.inputs = inputs /\ r.asof = asof /\ r.born = Idle.born
  BY <1>1, <1>2, IdleIsPending DEF Pending, Idle
<1> HIDE DEF r
<1>5. RequestSound(r)  BY <1>1, <1>4 DEF RequestSound
<1>6. LocksExclude'  BY <1>3, <1>4, LocksKept DEF Begin
<1>7. r.born = req[q].born  BY <1>3, <1>4 DEF Begin
<1>8. QED  BY <1>3, <1>4, <1>5, <1>6, <1>7, BeginIsSound DEF GenerateSources

\* current_inputs is kept apart from the provenance.
LEMMA GenerateCurrentIsSound ==
  ASSUME RegisterInv, NEW q \in Request, GenerateCurrent(q)
  PROVE  RegisterInv'
<1> DEFINE inputs == req[q].inputs
           left == req[q].left
           asof == req[q].asof
           now == [s \in Engaged \ left |-> Printed(s, AsReadAgain(s, inputs))]
           r == [req[q] EXCEPT !.at = "findings", !.current = now]
<1>1. req[q].op = "generate" /\ Become(q, r)  BY DEF GenerateCurrent, At
<1>2. inputs \in Provenance /\ Named(inputs, asof)
  BY <1>1, PendingIs DEF RequestSound, Pending
<1>3. now \in Current /\ SameReading(inputs, now, left)
  <2>1. inputs \in [DOMAIN inputs -> Reading]
    BY <1>2, PartialIs DEF Provenance
  <2> HIDE DEF inputs
  <2>2. ASSUME NEW s \in Service
        PROVE  /\ Printed(s, AsReadAgain(s, inputs))
                    \in [version : Nat, status : RecStatus, print : SUBSET Nat]
               /\ s \in DOMAIN inputs
                    /\ Printed(s, AsReadAgain(s, inputs)).version = inputs[s].version =>
                  Printed(s, AsReadAgain(s, inputs)).status = inputs[s].status
    <3>1. AsRead(s) \in Reading /\ AsRead(s).version = LatestRecord(s)
          /\ Input(s).content \in Nat
      BY AsReadIs DEF AsRead, Record
    <3>2. AsReadAgain(s, inputs) \in Reading  BY <2>1, <3>1 DEF AsReadAgain
    <3>3. s \in DOMAIN inputs /\ AsReadAgain(s, inputs).version = inputs[s].version =>
            AsReadAgain(s, inputs).status = inputs[s].status
      BY <3>1 DEF AsReadAgain
    <3>4. Fingerprint(s) \in SUBSET Nat  BY <3>1 DEF Fingerprint
    <3>5. QED  BY <3>2, <3>3, <3>4 DEF Printed, Reading
  <2>3. DOMAIN now = Engaged \ left /\ DOMAIN now \subseteq Service  BY DEF Engaged
  <2>4. \A s \in DOMAIN now : now[s] = Printed(s, AsReadAgain(s, inputs))  OBVIOUS
  <2>5. now = [s \in DOMAIN now |-> now[s]]  OBVIOUS
  <2> HIDE DEF now
  <2>6. now \in [DOMAIN now -> [version : Nat, status : RecStatus, print : SUBSET Nat]]
    BY <2>2, <2>3, <2>4, <2>5
  <2>7. now \in Current  BY <2>3, <2>6, PartialIs DEF Current
  <2>8. SameReading(inputs, now, left)  BY <2>2, <2>3, <2>4 DEF SameReading
  <2>9. QED  BY <2>7, <2>8
<1> HIDE DEF now
<1>4. /\ r \in Pending /\ r.op = "generate" /\ r.at = "findings"
      /\ r.inputs = inputs /\ r.current = now /\ r.left = left /\ r.asof = asof
      /\ r.born = req[q].born
  <2>1. req[q] \in Pending  BY PendingIs
  <2>2. QED  BY <1>1, <1>3, <2>1 DEF Pending
<1> HIDE DEF r, inputs, left, asof
<1>5. RequestSound(r)  BY <1>2, <1>3, <1>4 DEF RequestSound
<1>6. LocksExclude'  BY <1>1, <1>4, LocksKept DEF Become
<1>7. QED  BY <1>1, <1>4, <1>5, <1>6, BeginIsSound DEF GenerateCurrent

\* What is drawn from a version called released is what it holds.
LEMMA GenerateFindingsIsSound ==
  ASSUME RegisterInv, NEW q \in Request, GenerateFindings(q)
  PROVE  RegisterInv'
<1> DEFINE inputs == req[q].inputs
           asof == req[q].asof
           drew == [s \in DOMAIN inputs |-> recs[s][inputs[s].version].content]
           r == [req[q] EXCEPT !.at = "insert", !.drew = drew]
<1>1. req[q].op = "generate" /\ req[q].at = "findings" /\ Become(q, r)
  BY DEF GenerateFindings, At
<1>2. /\ inputs \in Provenance /\ Named(inputs, asof)
      /\ SameReading(inputs, req[q].current, req[q].left)
  BY <1>1, PendingIs DEF RequestSound, Pending
<1>3. /\ DOMAIN inputs \subseteq Service
      /\ \A s \in DOMAIN inputs : recs[s][inputs[s].version] \in Record
  <2>1. DOMAIN inputs \subseteq Service  BY <1>2, PartialIs DEF Provenance
  <2>2. \A s \in Service : \A v \in DOMAIN recs[s] : recs[s][v] \in Record
    BY DEF RegisterInv, TypeOK
  <2>3. QED  BY <1>2, <2>1, <2>2 DEF Named
<1>4. drew \in Partial(Nat) /\ Drawn(inputs, drew, asof)
  <2>1. \A s \in DOMAIN inputs : drew[s] \in Nat  BY <1>3 DEF Record
  <2>2. DOMAIN drew = DOMAIN inputs /\ drew \in [DOMAIN inputs -> Nat]  BY <2>1
  <2>3. drew \in Partial(Nat)  BY <1>3, <2>2, PartialIs
  <2>4. QED  BY <2>3 DEF Drawn
<1> HIDE DEF drew
<1>5. /\ r \in Pending /\ r.op = "generate" /\ r.at = "insert"
      /\ r.inputs = inputs /\ r.drew = drew /\ r.asof = asof
      /\ r.current = req[q].current /\ r.left = req[q].left /\ r.born = req[q].born
  <2>1. req[q] \in Pending  BY PendingIs
  <2>2. QED  BY <1>1, <1>4, <2>1 DEF Pending
<1> HIDE DEF r, inputs, asof
<1>6. RequestSound(r)  BY <1>2, <1>4, <1>5 DEF RequestSound
<1>7. LocksExclude'  BY <1>1, <1>5, LocksKept DEF Become
<1>8. QED  BY <1>1, <1>5, <1>6, <1>7, BeginIsSound DEF GenerateFindings

\* The first flush takes an age, and the latest register as prior.
LEMMA GenerateInsertIsSound ==
  ASSUME RegisterInv, NEW q \in Request, GenerateInsert(q)
  PROVE  RegisterInv'
<1> DEFINE r == [req[q] EXCEPT !.at = "carry", !.prior = Latest, !.born = born + 1]
<1>1. /\ req[q].op = "generate" /\ req[q].at = "insert"
      /\ Takes(q, r) /\ budget' = budget /\ born' = born + 1
  BY DEF GenerateInsert, At, Become
<1>2. Latest \in 0..Len(regs) /\ Len(regs) \in Nat
  BY LatestIs DEF RegisterInv, RegisterSound, TypeOK
<1>3. /\ r \in Pending /\ r.op = "generate" /\ r.at = "carry"
      /\ r.inputs = req[q].inputs /\ r.drew = req[q].drew /\ r.prior = Latest
      /\ r.current = req[q].current /\ r.left = req[q].left /\ r.asof = req[q].asof
      /\ born' \in Nat /\ born' >= born /\ budget' \in Budget /\ r.born <= born'
  <2>1. req[q] \in Pending  BY PendingIs
  <2>2. born \in Nat /\ budget \in Budget  BY DEF RegisterInv, TypeOK
  <2>3. Latest \in Nat /\ born + 1 \in Nat  BY <1>2, <2>2
  <2>4. r \in Pending  BY <2>1, <2>3 DEF Pending
  <2>5. /\ r.op = "generate" /\ r.at = "carry" /\ r.inputs = req[q].inputs
        /\ r.drew = req[q].drew /\ r.prior = Latest /\ r.born = born + 1
        /\ r.current = req[q].current /\ r.left = req[q].left /\ r.asof = req[q].asof
    BY <1>1, <2>1 DEF Pending
  <2>6. born' \in Nat /\ born' >= born /\ budget' \in Budget /\ r.born <= born'
    BY <1>1, <2>2, <2>5
  <2>7. QED  BY <2>4, <2>5, <2>6
<1> HIDE DEF r
<1>4. RequestSound(r)
  <2>1. /\ Named(req[q].inputs, req[q].asof)
        /\ SameReading(req[q].inputs, req[q].current, req[q].left)
        /\ Drawn(req[q].inputs, req[q].drew, req[q].asof)
    BY <1>1, PendingIs DEF RequestSound
  <2>2. QED  BY <1>2, <1>3, <2>1 DEF RequestSound
<1>5. LocksExclude'  BY <1>1, <1>3, LocksKept
<1>6. QED  BY <1>1, <1>3, <1>4, <1>5, RequestStep DEF GenerateInsert

\* The ratings to carry are read behind the lock of the prior.
LEMMA GenerateCarryIsSound ==
  ASSUME RegisterInv, NEW q \in Request, GenerateCarry(q)
  PROVE  RegisterInv'
<1> DEFINE p == req[q].prior
           old == IF p = 0 THEN <<>> ELSE regs[p].entries
           r == [req[q] EXCEPT !.at = "commit", !.old = old]
<1>1. /\ req[q].op = "generate" /\ req[q].at = "carry"
      /\ Become(q, r) /\ UNCHANGED <<kind, engaged, recs, work, regs, born>>
      /\ (p # 0 => NobodyHolds(p))
  BY DEF GenerateCarry, At
<1>2. p \in 0..Len(regs)  BY <1>1, PendingIs DEF RequestSound
<1>3. old \in Entries
  <2>1. CASE p = 0  BY <2>1, NothingIsPartial DEF Entries
  <2>2. CASE p # 0
    <3>1. p \in DOMAIN regs  BY <1>2, <2>2 DEF RegisterInv, TypeOK
    <3>2. QED  BY <2>2, <3>1, RegisterIs DEF RegisterInv
  <2>3. QED  BY <2>1, <2>2
<1>4. old = IF p = 0 THEN <<>> ELSE regs[p].entries  OBVIOUS
<1> HIDE DEF old
<1>5. /\ r \in Pending /\ r.op = "generate" /\ r.at = "commit"
      /\ r.inputs = req[q].inputs /\ r.drew = req[q].drew /\ r.prior = p
      /\ r.current = req[q].current /\ r.left = req[q].left /\ r.asof = req[q].asof
      /\ r.old = old /\ r.born = req[q].born
  <2>1. req[q] \in Pending  BY PendingIs
  <2>2. QED  BY <1>1, <1>3, <2>1 DEF Pending
<1>6. RequestSound(r)
  <2>1. /\ Named(req[q].inputs, req[q].asof)
        /\ SameReading(req[q].inputs, req[q].current, req[q].left)
        /\ Drawn(req[q].inputs, req[q].drew, req[q].asof)
    BY <1>1, PendingIs DEF RequestSound
  <2> HIDE DEF r
  <2>2. QED  BY <1>2, <1>4, <1>5, <2>1 DEF RequestSound
<1> HIDE DEF r, p
<1>7. LocksExclude'  BY <1>1, <1>5, PriorLocked DEF Become
<1>8. QED  BY <1>1, <1>5, <1>6, <1>7, BeginIsSound
\* An edit loads an entry that is there.
LEMMA EditLoadIsSound ==
  ASSUME RegisterInv, NEW q \in Request, NEW x \in Nat, NEW s \in Service, NEW b \in Body,
         EditLoad(q, x, s, b.fields, b.value)
  PROVE  RegisterInv'
<1> DEFINE e == regs[x].entries[s]
           r == [Idle EXCEPT !.op = "edit", !.at = "lock", !.reg = x, !.s = s,
                             !.fields = b.fields, !.value = b.value, !.before = e]
<1>1. x \in DOMAIN regs /\ s \in DOMAIN regs[x].entries /\ Begin(q, r)
  BY DEF EditLoad
<1>2. e \in Entry
  <2>1. regs[x].entries \in Entries  BY <1>1, RegisterIs DEF RegisterInv
  <2>2. QED  BY <1>1, <2>1, PartialIs DEF Entries
<1>3. b.fields \in SUBSET {"lk", "im"} /\ b.value \in BOOLEAN
  BY RiskAssumption
<1> HIDE DEF e
<1>4. /\ r \in Pending /\ r.op = "edit" /\ r.at = "lock" /\ r.reg = x /\ r.s = s
      /\ r.before = e /\ r.born = Idle.born
  BY <1>2, <1>3, IdleIsPending DEF Pending, Idle
<1> HIDE DEF r
<1>5. RequestSound(r)  BY <1>1, <1>2, <1>4 DEF RequestSound
<1>6. LocksExclude'  BY <1>1, <1>4, LocksKept DEF Begin
<1>7. r.born = req[q].born  BY <1>1, <1>4 DEF Begin
<1>8. QED  BY <1>1, <1>4, <1>5, <1>6, <1>7, BeginIsSound DEF EditLoad

\* An edit goes on to its swap with the register shared.
LEMMA EditLockIsSound ==
  ASSUME RegisterInv, NEW q \in Request, EditLock(q)
  PROVE  RegisterInv'
<1> DEFINE r == [req[q] EXCEPT !.at = "swap"]
<1>1. CASE Finish(q)
  BY <1>1, FinishIsSound DEF EditLock
<1>2. CASE Become(q, r)
  <2>1. /\ r \in Pending /\ r.op = "edit" /\ r.at = "swap" /\ r.reg = req[q].reg
        /\ r.s = req[q].s /\ r.before = req[q].before /\ r.born = req[q].born
        /\ req[q].op = "edit" /\ Shareable(req[q].reg)
    <3>1. req[q] \in Pending  BY PendingIs
    <3>2. QED  BY <3>1 DEF Pending, EditLock, At
  <2> HIDE DEF r
  <2>2. RequestSound(r)  BY <2>1, PendingIs DEF RequestSound
  <2>3. LocksExclude'  BY <1>2, <2>1, EditShares DEF Become
  <2>4. QED  BY <1>2, <2>1, <2>2, <2>3, BeginIsSound DEF EditLock
<1>3. QED  BY <1>1, <1>2 DEF EditLock

\* export and publish read a register that is there.
LEMMA ReadLatestIsSound ==
  ASSUME RegisterInv, NEW q \in Request, NEW op \in {"export", "publish"},
         ReadLatest(q, op)
  PROVE  RegisterInv'
<1> DEFINE r == [Idle EXCEPT !.op = op, !.at = "lock", !.reg = Latest]
<1>1. Latest \in DOMAIN regs /\ Latest \in Nat
  <2>1. Latest \in 0..Len(regs) /\ Latest # 0
    BY LatestIs DEF RegisterInv, RegisterSound, ReadLatest
  <2>2. QED  BY <2>1 DEF RegisterInv, TypeOK
<1>2. Begin(q, r)  BY DEF ReadLatest
<1>3. r \in Pending /\ r.op = op /\ r.at = "lock" /\ r.reg = Latest /\ r.born = Idle.born
  BY <1>1, IdleIsPending DEF Pending, Idle
<1> HIDE DEF r
<1>4. RequestSound(r)  BY <1>1, <1>3 DEF RequestSound
<1>5. LocksExclude'  BY <1>2, <1>3, LocksKept DEF Begin
<1>6. r.born = req[q].born  BY <1>2, <1>3 DEF Begin
<1>7. QED  BY <1>2, <1>3, <1>4, <1>5, <1>6, BeginIsSound DEF ReadLatest

\* The file is rendered, and its register certified, under the lock.
LEMMA RenderIsSound ==
  ASSUME RegisterInv, NEW q \in Request, NEW op \in {"export", "publish"}, Render(q, op)
  PROVE  RegisterInv'
<1> DEFINE x == req[q].reg
           file == IF op = "publish" \/ regs[x].final THEN regs[x].entries ELSE Draft
           r == [req[q] EXCEPT !.at = "commit", !.file = file]
<1>1. CASE Finish(q)
  BY <1>1, FinishIsSound DEF Render
<1>2. CASE Become(q, r) /\ (op = "publish" => Publishable(x))
  <2>1. req[q].op = op /\ NobodyHolds(x)  BY DEF Render, At
  <2>2. x \in DOMAIN regs  BY <2>1, PendingIs DEF RequestSound
  <2>3. file \in File  BY <2>2, RegisterIs DEF RegisterInv, File
  <2>4. file = IF op = "publish" \/ regs[x].final THEN regs[x].entries ELSE Draft
    OBVIOUS
  <2> HIDE DEF file
  <2>5. /\ r \in Pending /\ r.op = op /\ r.at = "commit" /\ r.reg = x
        /\ r.file = file /\ r.born = req[q].born
    <3>1. req[q] \in Pending  BY PendingIs
    <3>2. QED  BY <2>1, <2>3, <3>1 DEF Pending
  <2>6. op = "publish" => Certified(x)
    <3>1. SameReading(regs[x].inputs, regs[x].current, regs[x].left)
      BY <2>2 DEF RegisterInv, RegisterSound
    <3>2. ASSUME op = "publish", NEW s \in DOMAIN regs[x].current
          PROVE  regs[x].current[s].status = "released"
      <4>1. NoBlockers(x)  BY <1>2, <3>2 DEF Publishable
      <4>2. s \in Engaged \ regs[x].left
        BY <3>1, <3>2, <4>1 DEF NoBlockers, SameReading
      <4>3. MatchesThen(regs[x].current[s], s)  BY <4>1, <4>2 DEF NoBlockers
      <4>4. QED  BY <4>3 DEF MatchesThen
    <3>3. op = "publish" => Certifiable(x)  BY <1>2 DEF Publishable
    <3> HIDE DEF x
    <3>4. QED  BY <3>1, <3>2, <3>3 DEF Certified, SameReading
  <2> HIDE DEF r, x
  <2>7. RequestSound(r)  BY <2>2, <2>4, <2>5, <2>6 DEF RequestSound
  <2>8. LocksExclude'  BY <1>2, <2>1, <2>5, RenderLocked DEF Become
  <2>9. QED  BY <1>2, <2>5, <2>7, <2>8, BeginIsSound DEF Render
<1>3. QED  BY <1>1, <1>2 DEF Render

---------------------------------------------------------------------------
(* Steps on the inputs and on the engagement.                              *)

\* An overdue write apart, a record past its approval keeps its content and only
\* moves on.
Kept(was, now) ==
  /\ was.late <= now.late
  /\ was.status \in Settled /\ now.late = was.late =>
       now.content = was.content /\ MovesOn(was.status, now.status)

\* No version is lost, and each is kept.
InputsKeep ==
  \A s \in Service :
    /\ Len(recs'[s]) >= Len(recs[s])
    /\ \A v \in DOMAIN recs[s] : Kept(recs[s][v], recs'[s][v])

\* A version that is there has the type of a record.
LEMMA RecordIs ==
  ASSUME TypeOK, NEW s \in Service, NEW v \in DOMAIN recs[s]
  PROVE  /\ recs[s][v] \in Record /\ recs[s][v].status \in RecStatus
         /\ recs[s][v].content \in Nat /\ recs[s][v].late \in Nat
         /\ v \in Nat /\ recs[s] \in Seq(Record)
<1>1. recs[s] \in Seq(Record) /\ recs[s][v] \in Record  BY DEF TypeOK
<1>2. QED  BY <1>1 DEF Record

\* A step that writes one record that is there.
LEMMA RecordWritten ==
  ASSUME RegisterInv, NEW s \in Service, NEW v \in DOMAIN recs[s], NEW r \in Record,
         recs' = [recs EXCEPT ![s] = [recs[s] EXCEPT ![v] = r]], work' \subseteq work,
         Kept(recs[s][v], r), v = 1 => r.status # "discarded"
  PROVE  recs' \in [Service -> Seq(Record)] /\ InputsInv' /\ InputsKeep
<1> DEFINE new == [recs[s] EXCEPT ![v] = r]
<1>1. /\ recs \in [Service -> Seq(Record)] /\ InputsInv
      /\ recs[s] \in Seq(Record) /\ Len(recs[s]) >= 1 /\ recs[s][1].status # "discarded"
  BY DEF RegisterInv, TypeOK, InputsInv
<1>2. /\ new \in Seq(Record) /\ Len(new) = Len(recs[s]) /\ DOMAIN new = DOMAIN recs[s]
      /\ new[1].status # "discarded"
      /\ \A u \in DOMAIN recs[s] : new[u] = IF u = v THEN r ELSE recs[s][u]
  BY <1>1
<1> HIDE DEF new
<1>3. recs' = [recs EXCEPT ![s] = new]  BY DEF new
<1>4. \A t \in Service : recs'[t] = IF t = s THEN new ELSE recs[t]
  BY <1>1, <1>3
<1>5. recs' \in [Service -> Seq(Record)]  BY <1>1, <1>2, <1>3
<1>6. \A w \in work : w.s \in Service  BY DEF RegisterInv, TypeOK
<1>7. InputsInv'  BY <1>1, <1>2, <1>4, <1>6 DEF InputsInv
<1>8. InputsKeep
  <2>1. ASSUME NEW t \in Service, NEW u \in DOMAIN recs[t]
        PROVE  Kept(recs[t][u], recs'[t][u])
    <3>1. CASE t = s /\ u = v  BY <1>2, <1>4, <3>1
    <3>2. CASE ~(t = s /\ u = v)
      <4>1. recs'[t][u] = recs[t][u]  BY <1>2, <1>4, <3>2
      <4>2. recs[t][u].late \in Nat  BY RecordIs DEF RegisterInv
      <4>3. QED  BY <4>1, <4>2 DEF Kept, MovesOn
    <3>3. QED  BY <3>1, <3>2
  <2>2. \A t \in Service : Len(recs[t]) \in Nat  BY <1>1
  <2>3. QED  BY <1>2, <1>4, <2>1, <2>2 DEF InputsKeep
<1>9. QED  BY <1>5, <1>7, <1>8

\* A request in a workspace writes a record that is there.
LEMMA WorkIs ==
  ASSUME RegisterInv, NEW w \in work
  PROVE  /\ w.s \in Service /\ w.v \in DOMAIN recs[w.s]
         /\ w \in [op : {"edit", "submit", "revise"}, s : Service, v : Nat]
BY DEF RegisterInv, TypeOK, InputsInv

\* An overdue write counts itself if the record was past its approval.
LEMMA OverdueKeeps ==
  ASSUME RegisterInv, NEW w \in work, NEW r \in Record, Overdo(w, r),
         r.late = recs[w.s][w.v].late,
         r.status = recs[w.s][w.v].status \/ r.status = "submitted"
  PROVE  recs' \in [Service -> Seq(Record)] /\ InputsInv' /\ InputsKeep
<1> DEFINE s == w.s
           v == w.v
           was == recs[s][v]
           late == IF was.status \in Settled THEN r.late + 1 ELSE r.late
           now == [r EXCEPT !.late = late]
<1>1. s \in Service /\ v \in DOMAIN recs[s]  BY WorkIs
<1>2. was \in Record /\ was.late \in Nat  BY <1>1, RecordIs DEF RegisterInv
<1>3. recs' = [recs EXCEPT ![s] = [recs[s] EXCEPT ![v] = now]] /\ work' \subseteq work
  BY DEF Overdo
<1>4. /\ now \in Record /\ now.status = r.status /\ was.late <= now.late
      /\ was.status \in Settled => now.late # was.late
  <2>1. r.late \in Nat /\ late \in Nat  BY <1>2
  <2>2. now \in Record /\ now.status = r.status /\ now.late = late
    <3> HIDE DEF late
    <3>1. QED  BY <2>1 DEF Record
  <2>3. QED  BY <1>2, <2>2
<1>5. v = 1 => now.status # "discarded"
  BY <1>1, <1>4 DEF RegisterInv, InputsInv
<1>6. Kept(was, now)  BY <1>4 DEF Kept
<1> HIDE DEF s, v, now
<1>7. QED  BY <1>1, <1>3, <1>4, <1>5, <1>6, RecordWritten DEF was

\* An UPDATE that asks the status takes a record on, or discards a revision.
LEMMA SettleKeeps ==
  ASSUME RegisterInv, NEW s \in Service, NEW v, NEW from, NEW to \in RecStatus,
         Settle(s, v, from, to), \A status \in from : MovesOn(status, to),
         v = 1 => to # "discarded"
  PROVE  recs' \in [Service -> Seq(Record)] /\ InputsInv' /\ InputsKeep
<1> DEFINE was == recs[s][v]
           now == [was EXCEPT !.status = to]
<1>1. v \in DOMAIN recs[s] /\ was.status \in from /\ work' = work  BY DEF Settle
<1>2. recs' = [recs EXCEPT ![s] = [recs[s] EXCEPT ![v] = now]]  BY DEF Settle
<1>3. was \in Record /\ was.late \in Nat  BY <1>1, RecordIs DEF RegisterInv
<1>4. /\ now \in Record /\ now.status = to /\ now.late = was.late
      /\ now.content = was.content
  BY <1>3 DEF Record
<1>5. Kept(was, now)  BY <1>1, <1>3, <1>4 DEF Kept
<1> HIDE DEF now
<1>6. QED  BY <1>1, <1>2, <1>4, <1>5, RecordWritten DEF was

\* A revision adds a version, or the one-draft index refuses it.
LEMMA ReviseKeeps ==
  ASSUME RegisterInv, NEW w \in work, ReviseInput(w)
  PROVE  recs' \in [Service -> Seq(Record)] /\ InputsInv' /\ InputsKeep
<1> DEFINE s == w.s
           draft == [recs[s][w.v] EXCEPT !.status = "draft", !.late = 0]
           new == Append(recs[s], draft)
<1>1. /\ s \in Service /\ w.v \in DOMAIN recs[s] /\ work' \subseteq work /\ InputsInv
      /\ recs \in [Service -> Seq(Record)]
  BY WorkIs DEF ReviseInput, RegisterInv, TypeOK
<1>2. \A t \in Service : \A u \in DOMAIN recs[t] : Kept(recs[t][u], recs[t][u])
  <2>1. ASSUME NEW t \in Service, NEW u \in DOMAIN recs[t]
        PROVE  Kept(recs[t][u], recs[t][u])
    <3>1. recs[t][u].late \in Nat  BY RecordIs DEF RegisterInv
    <3>2. QED  BY <3>1 DEF Kept, MovesOn
  <2>2. QED  BY <2>1
<1>3. \A t \in Service : Len(recs[t]) \in Nat  BY <1>1
<1>4. \A x \in work : x.s \in Service  BY DEF RegisterInv, TypeOK
<1>5. CASE recs' = recs
  BY <1>1, <1>2, <1>3, <1>5 DEF InputsInv, InputsKeep
<1>6. CASE recs' = [recs EXCEPT ![s] = new]
  <2>1. recs[s][w.v] \in Record  BY <1>1, RecordIs DEF RegisterInv
  <2>2. draft \in Record  BY <2>1 DEF Record, RecStatus
  <2>3. recs[s] \in Seq(Record) /\ Len(recs[s]) >= 1 /\ recs[s][1].status # "discarded"
    BY <1>1 DEF InputsInv
  <2> HIDE DEF draft
  <2>4. /\ new \in Seq(Record) /\ Len(new) = Len(recs[s]) + 1
        /\ DOMAIN recs[s] \subseteq DOMAIN new
        /\ \A u \in DOMAIN recs[s] : new[u] = recs[s][u]
    BY <2>2, <2>3
  <2>5. new[1] = recs[s][1]  BY <2>3, <2>4
  <2> HIDE DEF new
  <2>6. \A t \in Service : recs'[t] = IF t = s THEN new ELSE recs[t]
    BY <1>1, <1>6
  <2>7. recs' \in [Service -> Seq(Record)]  BY <1>1, <1>6, <2>4
  <2>8. InputsInv'
    <3>1. \A t \in Service : Len(recs'[t]) >= 1 /\ recs'[t][1].status # "discarded"
      BY <1>1, <1>3, <2>3, <2>4, <2>5, <2>6 DEF InputsInv
    <3>2. \A x \in work' : x.v \in DOMAIN recs'[x.s]
      BY <1>1, <1>4, <2>4, <2>6 DEF InputsInv
    <3>3. QED  BY <3>1, <3>2 DEF InputsInv
  <2>9. InputsKeep
    <3>1. \A t \in Service : Len(recs'[t]) >= Len(recs[t])  BY <1>3, <2>4, <2>6
    <3>2. \A t \in Service : \A u \in DOMAIN recs[t] : recs'[t][u] = recs[t][u]
      BY <2>4, <2>6
    <3>3. QED  BY <1>2, <3>1, <3>2 DEF InputsKeep
  <2>10. QED  BY <2>7, <2>8, <2>9
<1>7. QED  BY <1>5, <1>6 DEF ReviseInput

\* A request that reads a status to write later writes a version that is there.
LEMMA ReadKeeps ==
  ASSUME RegisterInv, NEW op \in {"edit", "submit", "revise"}, NEW s \in Service,
         NEW v \in Nat, ReadInput(op, s, v)
  PROVE  /\ recs' \in [Service -> Seq(Record)] /\ InputsInv' /\ InputsKeep
         /\ work' \in SUBSET [op : {"edit", "submit", "revise"}, s : Service, v : Nat]
<1> DEFINE w == [op |-> op, s |-> s, v |-> v]
<1>1. /\ recs' = recs /\ work' = work \cup {w} /\ w.v \in DOMAIN recs[w.s]
      /\ recs \in [Service -> Seq(Record)] /\ InputsInv
      /\ work \in SUBSET [op : {"edit", "submit", "revise"}, s : Service, v : Nat]
  BY DEF ReadInput, RegisterInv, TypeOK
<1>2. w \in [op : {"edit", "submit", "revise"}, s : Service, v : Nat]  OBVIOUS
<1> HIDE DEF w
<1>3. InputsInv'  BY <1>1 DEF InputsInv
<1>4. \A t \in Service : Len(recs[t]) \in Nat  BY <1>1
<1>5. \A t \in Service : \A u \in DOMAIN recs[t] : recs[t][u].late \in Nat
  BY RecordIs DEF RegisterInv
<1>6. InputsKeep  BY <1>1, <1>4, <1>5 DEF InputsKeep, Kept, MovesOn
<1>7. QED  BY <1>1, <1>2, <1>3, <1>6

\* The work in the services keeps what is past its approval, or counts the write.
LEMMA WorkKeeps ==
  ASSUME RegisterInv, WorkOnInputs
  PROVE  /\ recs' \in [Service -> Seq(Record)] /\ InputsInv' /\ InputsKeep
         /\ work' \in SUBSET [op : {"edit", "submit", "revise"}, s : Service, v : Nat]
         /\ UNCHANGED <<kind, engaged, regs, born, req>> /\ budget' \in Budget
<1> DEFINE Keeps == recs' \in [Service -> Seq(Record)] /\ InputsInv' /\ InputsKeep
           Works == work' \in SUBSET [op : {"edit", "submit", "revise"}, s : Service, v : Nat]
           Rests == UNCHANGED <<kind, engaged, regs, born, req>> /\ budget' \in Budget
<1>1. /\ work \in SUBSET [op : {"edit", "submit", "revise"}, s : Service, v : Nat]
      /\ budget \in Budget /\ Worked \subseteq Service /\ MaxContent \in Nat
      /\ MaxRecords \in Nat
  BY RiskAssumption DEF RegisterInv, TypeOK
<1>2. ASSUME NEW s \in Worked, NEW v \in 1..MaxRecords, NEW op \in {"edit", "submit", "revise"},
             ReadInput(op, s, v)
      PROVE  Keeps /\ Works /\ Rests
  <2>1. s \in Service /\ v \in Nat  BY <1>1
  <2>2. Keeps /\ Works  BY <1>2, <2>1, ReadKeeps
  <2>3. Rests  BY <1>1, <1>2 DEF ReadInput, NewWork, Budget
  <2>4. QED  BY <2>2, <2>3
<1>3. ASSUME NEW s \in Worked, NEW v \in 1..MaxRecords,
             ApproveInput(s, v) \/ ReleaseInput(s, v) \/ DiscardInput(s, v)
      PROVE  Keeps /\ Works /\ Rests
  <2>1. s \in Service  BY <1>1
  <2>2. PICK from, to : /\ Settle(s, v, from, to) /\ to \in RecStatus
                        /\ \A status \in from : MovesOn(status, to)
                        /\ v = 1 => to # "discarded"
    <3>1. CASE ApproveInput(s, v)
      BY <3>1 DEF ApproveInput, RecStatus, MovesOn, Settled
    <3>2. CASE ReleaseInput(s, v)
      BY <3>2 DEF ReleaseInput, RecStatus, MovesOn, Settled
    <3>3. CASE DiscardInput(s, v)
      BY <3>3 DEF DiscardInput, RecStatus, MovesOn, Settled
    <3>4. QED  BY <1>3, <3>1, <3>2, <3>3
  <2>3. Keeps  BY <2>1, <2>2, SettleKeeps
  <2>4. Works /\ Rests  BY <1>1, <2>2 DEF Settle, NewWork, Budget
  <2>5. QED  BY <2>3, <2>4
<1>4. ASSUME NEW w \in work, EditInput(w) \/ SubmitInput(w) \/ ReviseInput(w)
      PROVE  Keeps /\ Works /\ Rests
  <2>1. recs[w.s][w.v] \in Record  BY WorkIs, RecordIs DEF RegisterInv
  <2>2. CASE EditInput(w)
    <3>1. PICK content \in 0..MaxContent \ {recs[w.s][w.v].content} :
                 Overdo(w, [recs[w.s][w.v] EXCEPT !.content = content])
      BY <2>2 DEF EditInput
    <3> DEFINE r == [recs[w.s][w.v] EXCEPT !.content = content]
    <3>2. r \in Record /\ r.late = recs[w.s][w.v].late /\ r.status = recs[w.s][w.v].status
      BY <1>1, <2>1 DEF Record
    <3> HIDE DEF r
    <3>3. Overdo(w, r)  BY <3>1 DEF r
    <3>4. Keeps  BY <3>2, <3>3, OverdueKeeps
    <3>5. Works /\ Rests  BY <1>1, <3>3 DEF Overdo
    <3>6. QED  BY <3>4, <3>5
  <2>3. CASE SubmitInput(w)
    <3> DEFINE r == [recs[w.s][w.v] EXCEPT !.status = "submitted"]
    <3>1. r \in Record /\ r.late = recs[w.s][w.v].late /\ r.status = "submitted"
      BY <2>1 DEF Record, RecStatus
    <3>2. Overdo(w, r)  BY <2>3 DEF SubmitInput
    <3> HIDE DEF r
    <3>3. Keeps  BY <3>1, <3>2, OverdueKeeps
    <3>4. Works /\ Rests  BY <1>1, <3>2 DEF Overdo
    <3>5. QED  BY <3>3, <3>4
  <2>4. CASE ReviseInput(w)
    <3>1. Keeps  BY <2>4, ReviseKeeps
    <3>2. Works /\ Rests  BY <1>1, <2>4 DEF ReviseInput
    <3>3. QED  BY <3>1, <3>2
  <2>5. QED  BY <1>4, <2>2, <2>3, <2>4
<1>5. QED  BY <1>2, <1>3, <1>4 DEF WorkOnInputs

\* What was named or drawn stays so as the inputs are worked on.
LEMMA DrawnStays ==
  ASSUME TypeOK, InputsKeep, recs' \in [Service -> Seq(Record)],
         NEW inputs \in Provenance, NEW drew, NEW asof \in Partial(Nat),
         Named(inputs, asof)
  PROVE  /\ Named(inputs, asof)'
         /\ Drawn(inputs, drew, asof) => Drawn(inputs, drew, asof)'
<1>1. /\ DOMAIN inputs \subseteq Service /\ DOMAIN inputs \subseteq DOMAIN asof
      /\ asof \in [DOMAIN asof -> Nat]
  BY PartialIs DEF Provenance, Named
<1>2. ASSUME NEW s \in DOMAIN inputs
      PROVE  LET was == recs[s][inputs[s].version]
                 now == recs'[s][inputs[s].version]
             IN /\ inputs[s].version \in DOMAIN recs'[s] /\ asof[s] <= now.late
                /\ now.late = asof[s] => was.late = asof[s]
                /\ now.late = asof[s] => MovesOn(inputs[s].status, now.status)
                /\ now.late = asof[s] /\ inputs[s].status \in Settled =>
                     now.content = was.content
  <2> DEFINE v == inputs[s].version
             was == recs[s][v]
             now == recs'[s][v]
             status == inputs[s].status
  <2>1. /\ v \in DOMAIN recs[s] /\ asof[s] <= was.late
        /\ was.late = asof[s] => MovesOn(status, was.status)
    BY <1>2 DEF Named
  <2>2. /\ s \in Service /\ recs[s] \in Seq(Record) /\ recs'[s] \in Seq(Record)
        /\ asof[s] \in Nat
    BY <1>1, <1>2 DEF TypeOK
  <2>3. Len(recs'[s]) >= Len(recs[s]) /\ Kept(was, now)
    BY <2>1, <2>2 DEF InputsKeep
  <2>4. v \in DOMAIN recs'[s]  BY <2>1, <2>2, <2>3
  <2>5. was \in Record /\ now \in Record  BY <2>1, <2>2, <2>4
  <2>6. was.late \in Nat /\ now.late \in Nat  BY <2>5 DEF Record
  <2> HIDE DEF was, now, status, v
  <2>7. was.late <= now.late  BY <2>3 DEF Kept
  <2>8. asof[s] <= now.late /\ (now.late = asof[s] => was.late = asof[s])
    BY <2>1, <2>2, <2>6, <2>7
  <2>9. ASSUME now.late = asof[s], status \in Settled
        PROVE  MovesOn(status, now.status) /\ now.content = was.content
    <3>1. MovesOn(status, was.status) /\ now.late = was.late  BY <2>1, <2>8, <2>9
    <3>2. was.status \in Settled  BY <2>9, <3>1 DEF MovesOn, Settled
    <3>3. now.content = was.content /\ MovesOn(was.status, now.status)
      BY <2>3, <3>1, <3>2 DEF Kept
    <3>4. QED  BY <2>9, <3>1, <3>2, <3>3 DEF MovesOn, Settled
  <2>10. status \notin Settled => MovesOn(status, now.status)  BY DEF MovesOn
  <2>11. QED  BY <2>4, <2>8, <2>9, <2>10 DEF v, was, now, status
<1>3. Named(inputs, asof)'  BY <1>2 DEF Named
<1>4. Drawn(inputs, drew, asof) => Drawn(inputs, drew, asof)'
  BY <1>2 DEF Drawn
<1>5. QED  BY <1>3, <1>4

\* No reading or register goes stale as the inputs are worked on.
LEMMA WorkOnInputsIsSound ==
  ASSUME RegisterInv, WorkOnInputs
  PROVE  RegisterInv'
<1>1. /\ recs' \in [Service -> Seq(Record)] /\ InputsInv' /\ InputsKeep /\ TypeOK
      /\ work' \in SUBSET [op : {"edit", "submit", "revise"}, s : Service, v : Nat]
      /\ UNCHANGED <<kind, engaged, regs, born, req>> /\ budget' \in Budget
  BY WorkKeeps DEF RegisterInv
<1>2. TypeOK'  BY <1>1 DEF TypeOK
<1>3. \A i \in Provenance, a \in Partial(Nat) :
        Named(i, a) =>
          Named(i, a)' /\ \A d : Drawn(i, d, a) => Drawn(i, d, a)'
  BY <1>1, DrawnStays
<1>4. \A x \in DOMAIN regs : RegisterSound(x)'
  <2>1. SUFFICES ASSUME NEW x \in DOMAIN regs  PROVE RegisterSound(x)'  OBVIOUS
  <2> DEFINE i == regs[x].inputs
             a == regs[x].asof
             d == regs[x].drew
  <2>2. RegisterSound(x) /\ regs' = regs /\ born' = born  BY <1>1 DEF RegisterInv
  <2>3. i \in Provenance /\ a \in Partial(Nat)
    BY <1>1, RegisterIs DEF Register
  <2>4. Named(i, a) /\ Drawn(i, d, a)
    BY <2>2 DEF RegisterSound
  <2>5. Named(i, a)' /\ Drawn(i, d, a)'
    <3> HIDE DEF i, a, d
    <3>1. i' = i /\ a' = a /\ d' = d  BY <2>2 DEF i, a, d
    <3>2. QED  BY <1>3, <2>3, <2>4, <3>1
  <2>6. QED
    BY <2>2, <2>5 DEF RegisterSound, SameReading, Certified, Certifiable
<1>5. \A q \in Request : RequestSound(req[q])'
  <2>1. SUFFICES ASSUME NEW q \in Request  PROVE RequestSound(req[q])'  OBVIOUS
  <2> DEFINE r == req[q]
             i == r.inputs
             a == r.asof
             d == r.drew
  <2>2. RequestSound(r) /\ r \in Pending /\ req' = req /\ regs' = regs
    BY <1>1, PendingIs
  <2>3. i \in Provenance /\ a \in Partial(Nat)  BY <2>2 DEF Pending
  <2>4. r.op = "generate" =>
          /\ Named(i, a)'
          /\ r.at \in {"insert", "carry", "commit"} => Drawn(i, d, a)'
    <3> HIDE DEF i, a, d
    <3>1. i' = i /\ a' = a /\ d' = d  BY <2>2 DEF i, a, d
    <3>2. r.op = "generate" =>
            /\ Named(i, a)
            /\ r.at \in {"insert", "carry", "commit"} => Drawn(i, d, a)
      BY <2>2 DEF RequestSound, i, a, d
    <3>3. QED  BY <1>3, <2>3, <3>1, <3>2
  <2>5. SameReading(r.inputs, r.current, r.left)' <=> SameReading(r.inputs, r.current, r.left)
    BY <2>2 DEF SameReading
  <2>6. /\ Certified(r.reg)' <=> Certified(r.reg)
        /\ Mate(r.s)' <=> Mate(r.s)
    BY <1>1 DEF Certified, Certifiable, Mate
  <2>7. r' = r /\ i' = r.inputs /\ a' = r.asof /\ d' = r.drew  BY <2>2
  <2>8. QED
    BY <2>2, <2>4, <2>5, <2>6, <2>7 DEF RequestSound
<1>6. LocksExclude' /\ KindStaysEngaged' /\ AgesGiven'
  <2>1. UNCHANGED <<kind, engaged, born, req>>  BY <1>1
  <2>2. LocksExclude /\ KindStaysEngaged /\ AgesGiven  BY DEF RegisterInv
  <2>3. LocksExclude'
    BY <2>1, <2>2 DEF LocksExclude, Writes, Renders, Supersedes, Shares, At
  <2>4. KindStaysEngaged' /\ AgesGiven'  BY <2>1, <2>2 DEF KindStaysEngaged, AgesGiven
  <2>5. QED  BY <2>3, <2>4
<1>7. QED  BY <1>1, <1>2, <1>4, <1>5, <1>6 DEF RegisterInv

\* An administrator's archive is not one of the banner's.
LEMMA AdminArchiveIsSound ==
  ASSUME RegisterInv, NEW s \in Service, AdminArchive(s)
  PROVE  RegisterInv'
<1>1. /\ TypeOK /\ UNCHANGED <<kind, recs, work, regs, born, req>> /\ budget' \in Budget
      /\ engaged' = [engaged EXCEPT ![s] = "archived_by_admin"]
  <2>1. TypeOK /\ budget \in Budget  BY DEF RegisterInv, TypeOK
  <2>2. budget' \in Budget  BY <2>1 DEF AdminArchive, NewWork, Budget
  <2>3. QED  BY <2>1, <2>2 DEF AdminArchive
<1>2. \A t \in Service : engaged'[t] = IF t = s THEN "archived_by_admin" ELSE engaged[t]
  BY <1>1 DEF TypeOK
<1>3. TypeOK'  BY <1>1 DEF TypeOK
<1>4. \A t \in Service : Mate(t) => Mate(t)'
  BY <1>1, <1>2 DEF Mate
<1>5. KindStaysEngaged'
  BY <1>1, <1>2 DEF RegisterInv, KindStaysEngaged
<1>6. \A q \in Request : RequestSound(req[q])'
  <2>1. SUFFICES ASSUME NEW q \in Request  PROVE RequestSound(req[q])'  OBVIOUS
  <2> DEFINE r == req[q]
  <2>2. RequestSound(r) /\ req' = req  BY <1>1 DEF RegisterInv
  <2>3. r.op = "archive" /\ r.at = "commit" => r.s \in Service /\ Mate(r.s)'
    BY <1>4, <2>2 DEF RequestSound
  <2>4. \A x : Certified(x) => Certified(x)'  BY <1>1 DEF Certified, Certifiable
  <2>5. Named(r.inputs, r.asof)' <=> Named(r.inputs, r.asof)
    BY <1>1, <2>2 DEF Named
  <2>6. Drawn(r.inputs, r.drew, r.asof)' <=> Drawn(r.inputs, r.drew, r.asof)
    BY <1>1, <2>2 DEF Drawn
  <2>7. SameReading(r.inputs, r.current, r.left)' <=> SameReading(r.inputs, r.current, r.left)
    BY <1>1, <2>2 DEF SameReading
  <2>8. QED  BY <1>1, <2>2, <2>3, <2>4, <2>5, <2>6, <2>7 DEF RequestSound
<1>7. \A x \in DOMAIN regs : RegisterSound(x)'
  BY <1>1, SameRegisters DEF RegisterInv
<1>8. InputsInv' /\ LocksExclude' /\ AgesGiven'
  BY <1>1 DEF RegisterInv, InputsInv, LocksExclude, AgesGiven, Writes,
              Renders, Supersedes, Shares, At
<1>9. QED  BY <1>1, <1>3, <1>5, <1>6, <1>7, <1>8 DEF RegisterInv

\* The one archive under the client's lock leaves the pair's mate.
LEMMA ArchiveCommitIsSound ==
  ASSUME RegisterInv, NEW q \in Request, ArchiveCommit(q)
  PROVE  RegisterInv'
<1> DEFINE s == req[q].s
<1>1. /\ TypeOK /\ UNCHANGED <<kind, recs, work, regs, born>> /\ budget' \in Budget
      /\ Takes(q, Idle) /\ engaged' = [engaged EXCEPT ![s] = "archived"]
      /\ At(q, "archive", "commit")
  BY DEF ArchiveCommit, Finish, Become, RegisterInv, TypeOK
<1>2. s \in Service /\ Mate(s)
  BY <1>1, PendingIs DEF RequestSound, At
<1> HIDE DEF s
<1>3. \A t \in Service : engaged'[t] = IF t = s THEN "archived" ELSE engaged[t]
  BY <1>1, <1>2 DEF TypeOK
<1>4. \A p \in Request : req'[p] = IF p = q THEN Idle ELSE req[p]
  BY <1>1, OthersStay
<1>5. TypeOK'
  <2>1. engaged' \in [Service -> {"engaged", "archived", "archived_by_admin"}]
    BY <1>1 DEF TypeOK
  <2>2. req' \in [Request -> Pending]
    BY <1>1, IdleIsPending DEF TypeOK, Takes
  <2>3. QED  BY <1>1, <2>1, <2>2 DEF TypeOK
<1>6. KindStaysEngaged'
  <2>1. ASSUME NEW t \in Service, engaged'[t] = "archived"
        PROVE  \E u \in Service : kind[u] = kind[t] /\ engaged'[u] # "archived"
    <3>1. PICK u \in Service \ {s} : kind[u] = kind[s] /\ engaged[u] # "archived"
      BY <1>2 DEF Mate
    <3>2. CASE kind[t] = kind[s]  BY <1>3, <3>1, <3>2
    <3>3. CASE kind[t] # kind[s]
      <4>1. engaged[t] = "archived"  BY <1>3, <2>1, <3>3
      <4>2. PICK w \in Service : kind[w] = kind[t] /\ engaged[w] # "archived"
        BY <4>1 DEF RegisterInv, KindStaysEngaged
      <4>3. QED  BY <1>3, <3>3, <4>2
    <3>4. QED  BY <3>2, <3>3
  <2>2. QED  BY <1>1, <2>1 DEF KindStaysEngaged
<1>7. \A p \in Request : RequestSound(req[p])'
  <2>1. ASSUME NEW p \in Request, p # q  PROVE RequestSound(req[p])'
    <3>1. ~(req[p].op = "archive" /\ req[p].at = "commit")
      BY <1>1, <2>1 DEF RegisterInv, LocksExclude, At
    <3>2. RequestSound(req[p]) /\ req'[p] = req[p]  BY <1>4, <2>1, PendingIs
    <3>3. \A i, a : Named(i, a)' <=> Named(i, a)  BY <1>1 DEF Named
    <3>4. \A i, d, a : Drawn(i, d, a)' <=> Drawn(i, d, a)  BY <1>1 DEF Drawn
    <3>5. \A i, c, l : SameReading(i, c, l)' <=> SameReading(i, c, l)  BY DEF SameReading
    <3>6. \A x : Certified(x)' <=> Certified(x)  BY <1>1 DEF Certified, Certifiable
    <3>7. QED
      BY <1>1, <3>1, <3>2, <3>3, <3>4, <3>5, <3>6 DEF RequestSound
  <2>2. RequestSound(req[q])'  BY <1>4 DEF RequestSound, Idle
  <2>3. QED  BY <2>1, <2>2
<1>8. \A x \in DOMAIN regs : RegisterSound(x)'
  BY <1>1, SameRegisters DEF RegisterInv
<1>9. InputsInv'  BY <1>1 DEF RegisterInv, InputsInv
<1>10. LocksExclude'
  <2>1. Idle.at \notin {"commit", "swap"}  BY DEF Idle
  <2>2. QED  BY <1>1, <2>1, LocksKept
<1>11. AgesGiven'
  <2>1. Idle.born = 0 /\ born \in Nat  BY <1>1 DEF Idle, TypeOK
  <2>2. QED  BY <1>1, <1>4, <2>1 DEF RegisterInv, AgesGiven
<1>12. QED  BY <1>1, <1>5, <1>6, <1>7, <1>8, <1>9, <1>10, <1>11 DEF RegisterInv
---------------------------------------------------------------------------
(* Steps on the registers.                                                 *)

\* Every register but x is kept; of x, what requests rely on without a lock.
KeepsBut(x) ==
  /\ Len(regs') >= Len(regs)
  /\ \A r \in DOMAIN regs :
       /\ regs'[r].inputs = regs[r].inputs /\ regs'[r].current = regs[r].current
       /\ regs'[r].left = regs[r].left /\ regs'[r].drew = regs[r].drew
       /\ regs'[r].asof = regs[r].asof
       /\ regs'[r].version = regs[r].version /\ regs'[r].born = regs[r].born
       /\ DOMAIN regs'[r].entries = DOMAIN regs[r].entries
       /\ r # x => regs'[r].entries = regs[r].entries /\ regs'[r].final = regs[r].final

\* A register is sound by what never changes of it, and until it is published.
LEMMA KeptRegister ==
  ASSUME RegisterInv, UNCHANGED <<kind, engaged, recs, work, born>>, NEW x,
         KeepsBut(x), NEW r \in DOMAIN regs,
         regs'[r].final => Certified(r) /\ regs'[r].file = regs'[r].entries
  PROVE  RegisterSound(r)'
<1>1. /\ RegisterSound(r) /\ regs'[r].inputs = regs[r].inputs
      /\ regs'[r].current = regs[r].current /\ regs'[r].left = regs[r].left
      /\ regs'[r].drew = regs[r].drew /\ regs'[r].asof = regs[r].asof
      /\ regs'[r].version = regs[r].version /\ regs'[r].born = regs[r].born
  BY DEF RegisterInv, KeepsBut
<1>2. Certified(r)' <=> Certified(r)  BY <1>1 DEF Certified, Certifiable
<1>3. QED  BY <1>1, <1>2 DEF RegisterSound, Named, Drawn, SameReading

\* A register that a request writes to is read by no other one that holds it.
LEMMA HeldStays ==
  ASSUME RegisterInv, UNCHANGED <<kind, engaged, recs, work>>, NEW x \in Nat, KeepsBut(x),
         regs' \in Seq(Register), NEW p \in Request, req'[p] = req[p],
         x \in DOMAIN regs => ~Writes(p, x)
  PROVE  RequestSound(req[p])'
<1> DEFINE r == req[p]
<1>1. RequestSound(r) /\ r \in Pending /\ req'[p] = r  BY PendingIs
<1>2. /\ Len(regs) \in Nat /\ Len(regs') \in Nat
      /\ DOMAIN regs = 1..Len(regs) /\ DOMAIN regs' = 1..Len(regs')
  BY DEF RegisterInv, TypeOK
<1>3. Len(regs') >= Len(regs) /\ DOMAIN regs \subseteq DOMAIN regs'
  BY <1>2 DEF KeepsBut
<1>4. Named(r.inputs, r.asof)' <=> Named(r.inputs, r.asof)  BY <1>1 DEF Named
<1>5. /\ Drawn(r.inputs, r.drew, r.asof)' <=> Drawn(r.inputs, r.drew, r.asof)
      /\ SameReading(r.inputs, r.current, r.left)'
           <=> SameReading(r.inputs, r.current, r.left)
  BY <1>1 DEF Drawn, SameReading
<1>6. \A y \in DOMAIN regs : Certified(y)' <=> Certified(y)
  BY DEF KeepsBut, Certified, Certifiable
<1>7. \A s : Mate(s)' <=> Mate(s)  BY DEF Mate
<1>8. ASSUME r.op = "generate", r.at = "commit", r.prior # 0
      PROVE  regs'[r.prior].entries = regs[r.prior].entries
  <2>1. r.prior \in DOMAIN regs  BY <1>1, <1>2, <1>8 DEF RequestSound
  <2>2. r.prior # x
    BY <1>8, <2>1 DEF Writes, Supersedes, At
  <2>3. QED  BY <2>1, <2>2 DEF KeepsBut
<1>9. ASSUME r.op \in {"export", "publish"}, r.at = "commit"
      PROVE  /\ regs'[r.reg].entries = regs[r.reg].entries
             /\ regs'[r.reg].final = regs[r.reg].final
  <2>1. r.reg \in DOMAIN regs  BY <1>1, <1>9 DEF RequestSound
  <2>2. r.reg # x
    BY <1>9, <2>1 DEF Writes, Renders
  <2>3. QED  BY <2>1, <2>2 DEF KeepsBut
<1>10. r.op = "edit" => DOMAIN regs'[r.reg].entries = DOMAIN regs[r.reg].entries
  BY <1>1 DEF RequestSound, KeepsBut
<1>11. req'[p] = r /\ r' = r  BY <1>1
<1> HIDE DEF r
<1>12. /\ r.op = "generate" =>
            /\ Named(r.inputs, r.asof)
            /\ r.at # "current" => SameReading(r.inputs, r.current, r.left)
            /\ r.at \in {"insert", "carry", "commit"} => Drawn(r.inputs, r.drew, r.asof)
            /\ r.at \in {"carry", "commit"} => r.prior \in 0..Len(regs')
            /\ r.at = "commit" =>
                 r.old = IF r.prior = 0 THEN <<>> ELSE regs'[r.prior].entries
       /\ r.op \in {"edit", "export", "publish"} => r.reg \in DOMAIN regs'
       /\ r.op = "edit" => r.before \in Entry /\ r.s \in DOMAIN regs'[r.reg].entries
       /\ r.op \in {"export", "publish"} /\ r.at = "commit" =>
            /\ r.op = "publish" \/ regs'[r.reg].final => r.file = regs'[r.reg].entries
            /\ r.op = "publish" => Certified(r.reg)'
       /\ r.op = "archive" /\ r.at = "commit" => r.s \in Service /\ Mate(r.s)
  <2>1. r.op = "generate" /\ r.at \in {"carry", "commit"} => r.prior \in 0..Len(regs')
    BY <1>1, <1>2, <1>3 DEF RequestSound
  <2>2. r.op \in {"edit", "export", "publish"} => r.reg \in DOMAIN regs /\ r.reg \in DOMAIN regs'
    BY <1>1, <1>3 DEF RequestSound
  <2>3. /\ r.op = "generate" => Named(r.inputs, r.asof)
        /\ r.op = "generate" /\ r.at # "current" =>
             SameReading(r.inputs, r.current, r.left)
        /\ r.op = "generate" /\ r.at \in {"insert", "carry", "commit"} =>
             Drawn(r.inputs, r.drew, r.asof)
        /\ r.op = "archive" /\ r.at = "commit" => r.s \in Service /\ Mate(r.s)
    BY <1>1 DEF RequestSound
  <2>4. r.op = "generate" /\ r.at = "commit" =>
          r.old = IF r.prior = 0 THEN <<>> ELSE regs'[r.prior].entries
    BY <1>1, <1>8 DEF RequestSound
  <2>5. r.op = "edit" => r.before \in Entry /\ r.s \in DOMAIN regs'[r.reg].entries
    BY <1>1, <1>10 DEF RequestSound
  <2>6. r.op \in {"export", "publish"} /\ r.at = "commit" =>
          /\ r.op = "publish" \/ regs'[r.reg].final => r.file = regs'[r.reg].entries
          /\ r.op = "publish" => Certified(r.reg)'
    <3>1. SUFFICES ASSUME r.op \in {"export", "publish"}, r.at = "commit"
                   PROVE  /\ r.op = "publish" \/ regs'[r.reg].final =>
                               r.file = regs'[r.reg].entries
                          /\ r.op = "publish" => Certified(r.reg)'
      OBVIOUS
    <3>2. /\ r.op = "publish" \/ regs[r.reg].final => r.file = regs[r.reg].entries
          /\ r.op = "publish" => Certified(r.reg)
      BY <1>1, <3>1 DEF RequestSound
    <3>3. Certified(r.reg)' <=> Certified(r.reg)
      BY <1>6, <1>11, <2>2, <3>1
    <3>4. QED  BY <1>9, <3>1, <3>2, <3>3
  <2>7. QED  BY <2>1, <2>2, <2>3, <2>4, <2>5, <2>6
<1>13. QED  BY <1>4, <1>5, <1>7, <1>11, <1>12 DEF RequestSound, r

\* The end of a request that writes the registers.
LEMMA WriteStep ==
  ASSUME RegisterInv, NEW q \in Request, Finish(q), NEW x \in Nat, KeepsBut(x),
         UNCHANGED <<kind, engaged, recs, work, born>>, regs' \in Seq(Register),
         x \in DOMAIN regs => Writes(q, x) \/ Shares(q, x),
         \A r \in DOMAIN regs' : RegisterSound(r)'
  PROVE  RegisterInv'
<1>1. Takes(q, Idle) /\ budget' \in Budget /\ born' \in Nat /\ TypeOK
  BY DEF Finish, Become, RegisterInv, TypeOK
<1>2. \A p \in Request : req'[p] = IF p = q THEN Idle ELSE req[p]
  BY <1>1, OthersStay
<1>3. TypeOK'
  <2>1. req' \in [Request -> Pending]
    BY <1>1, IdleIsPending DEF TypeOK, Takes
  <2>2. QED  BY <1>1, <2>1 DEF TypeOK
<1>4. \A p \in Request : RequestSound(req[p])'
  <2>1. ASSUME NEW p \in Request, p # q  PROVE RequestSound(req[p])'
    <3>1. x \in DOMAIN regs => x \in Nat \ {0}  BY <1>1, RegisterIs
    <3>2. x \in DOMAIN regs => ~Writes(p, x)
      BY <2>1, <3>1 DEF RegisterInv, LocksExclude
    <3>3. req'[p] = req[p]  BY <1>2, <2>1
    <3>4. QED  BY <3>2, <3>3, HeldStays
  <2>2. RequestSound(req[q])'  BY <1>2 DEF RequestSound, Idle
  <2>3. QED  BY <2>1, <2>2
<1>5. LocksExclude'
  <2>1. Idle.at \notin {"commit", "swap"}  BY DEF Idle
  <2>2. QED  BY <1>1, <2>1, LocksKept
<1>6. AgesGiven'
  <2>1. Idle.born = 0 /\ born \in Nat  BY <1>1 DEF Idle, TypeOK
  <2>2. QED  BY <1>2, <2>1 DEF RegisterInv, AgesGiven
<1>7. InputsInv' /\ KindStaysEngaged'
  BY DEF RegisterInv, InputsInv, KindStaysEngaged
<1>8. QED  BY <1>3, <1>4, <1>5, <1>6, <1>7 DEF RegisterInv

\* The new version's entries: the drafts, and the ratings carried to them.
LEMMA RenewedIs ==
  ASSUME NEW drawn \in SUBSET Service, NEW drafted \in Drafts(drawn), NEW old \in Entries
  PROVE  /\ Renewed(drafted, Carried(old, drafted)) \in Entries
         /\ Edited(old) \in SUBSET Service
         /\ DOMAIN Carried(old, drafted) \subseteq drawn
         /\ \A s \in DOMAIN Carried(old, drafted) : Carried(old, drafted)[s] = old[s]
<1>1. DOMAIN old \subseteq Service /\ old \in [DOMAIN old -> Entry]
  BY PartialIs DEF Entries
<1>2. drafted \in [drawn -> [n : 1..2, lk : BOOLEAN, im : BOOLEAN, edited : {FALSE}]]
  BY DEF Drafts
<1> DEFINE carried == Carried(old, drafted)
<1>3. /\ DOMAIN carried \subseteq Edited(old) \cap DOMAIN drafted
      /\ \A s \in DOMAIN carried : carried[s] = old[s]
  BY DEF Carried, Unambiguous
<1>4. Edited(old) \subseteq DOMAIN old  BY DEF Edited
<1> HIDE DEF carried
<1>5. \A s \in DOMAIN drafted : Renewed(drafted, carried)[s] \in Entry
  <2>1. ASSUME NEW s \in DOMAIN drafted  PROVE Renewed(drafted, carried)[s] \in Entry
    <3>1. CASE s \in DOMAIN carried
      <4>1. Renewed(drafted, carried)[s] = old[s]  BY <1>3, <3>1 DEF Renewed
      <4>2. QED  BY <1>1, <1>3, <1>4, <3>1, <4>1
    <3>2. CASE s \notin DOMAIN carried
      <4>1. Renewed(drafted, carried)[s] = drafted[s]  BY <3>2 DEF Renewed
      <4>2. drafted[s] \in [n : 1..2, lk : BOOLEAN, im : BOOLEAN, edited : {FALSE}]
        BY <1>2
      <4>3. drafted[s] \in Entry
        <5> DEFINE d == drafted[s]
        <5>1. d = [n |-> d.n, lk |-> d.lk, im |-> d.im, edited |-> d.edited]
          BY <4>2
        <5>2. d.n \in 1..2 /\ d.lk \in BOOLEAN /\ d.im \in BOOLEAN  BY <4>2
        <5>3. d.edited \in {FALSE}  BY <4>2
        <5> HIDE DEF d
        <5>4. d.n \in Nat  BY <5>2
        <5>5. d.edited \in BOOLEAN  BY <5>3
        <5>6. d \in Entry  BY <5>1, <5>2, <5>4, <5>5 DEF Entry
        <5>7. QED  BY <5>6 DEF d
      <4>4. QED  BY <4>1, <4>3
    <3>3. QED  BY <3>1, <3>2
  <2>2. QED  BY <2>1
<1>6. DOMAIN Renewed(drafted, carried) = DOMAIN drafted
  BY DEF Renewed
<1>7. Renewed(drafted, carried) = [s \in DOMAIN drafted |-> Renewed(drafted, carried)[s]]
  BY DEF Renewed
<1>8. Renewed(drafted, carried) \in Entries
  BY <1>2, <1>5, <1>6, <1>7, PartialIs DEF Entries
<1>9. QED  BY <1>1, <1>2, <1>3, <1>4, <1>8 DEF carried
\* What the second flush and the commit of a generate leave: the prior marked
\* superseded, and one register more.
LEMMA GenerateCommitIs ==
  ASSUME RegisterInv, NEW q \in Request, GenerateCommit(q)
  PROVE  /\ regs' \in Seq(Register) /\ KeepsBut(0) /\ Len(regs') = Len(regs) + 1
         /\ \A r \in DOMAIN regs :
              /\ regs'[r].entries = regs[r].entries /\ regs'[r].file = regs[r].file
              /\ regs'[r].final = regs[r].final
         /\ LET x == regs'[Len(regs')]
            IN /\ x.version <= Len(regs') /\ x.born = req[q].born /\ ~x.final
               /\ x.inputs = req[q].inputs /\ x.drew = req[q].drew
               /\ x.current = req[q].current /\ x.left = req[q].left
               /\ x.asof = req[q].asof
               /\ x.prior = req[q].prior
               /\ \A s \in Edited(req[q].old) \ x.notCarried :
                    s \in DOMAIN x.entries /\ x.entries[s] = req[q].old[s]
<1> DEFINE p == req[q].prior
           inputs == req[q].inputs
           old == req[q].old
<1>1. /\ req[q] \in Pending /\ req[q].op = "generate" /\ req[q].at = "commit"
      /\ regs \in Seq(Register)
  BY PendingIs DEF GenerateCommit, At, RegisterInv, TypeOK
<1>2. p \in 0..Len(regs)  BY <1>1, PendingIs DEF RequestSound
<1>3. /\ inputs \in Provenance /\ req[q].current \in Current
      /\ req[q].left \in SUBSET Service /\ req[q].drew \in Partial(Nat)
      /\ req[q].asof \in Partial(Nat)
      /\ old \in Entries /\ req[q].born \in Nat
  BY <1>1 DEF Pending
<1>4. DOMAIN inputs \in SUBSET Service  BY <1>3, PartialIs DEF Provenance
<1> DEFINE Carries(drafted) == Carried(old, drafted)
           New(drafted) ==
             [version |-> IF p = 0 THEN 1 ELSE regs[p].version + 1,
              born |-> req[q].born, prior |-> p, superseded |-> FALSE, final |-> FALSE,
              inputs |-> inputs, current |-> req[q].current,
              left |-> req[q].left, drew |-> req[q].drew, asof |-> req[q].asof,
              entries |-> Renewed(drafted, Carries(drafted)),
              notCarried |-> Edited(old) \ DOMAIN Carries(drafted), file |-> <<>>]
           older == [r \in DOMAIN regs |-> [regs[r] EXCEPT !.superseded = @ \/ r = p]]
<1>5. PICK drafted \in Drafts(DOMAIN inputs) : regs' = Append(older, New(drafted))
  BY DEF GenerateCommit
<1>6. /\ Renewed(drafted, Carries(drafted)) \in Entries
      /\ Edited(old) \in SUBSET Service
      /\ DOMAIN Carries(drafted) \subseteq DOMAIN inputs
      /\ \A s \in DOMAIN Carries(drafted) : Carries(drafted)[s] = old[s]
  BY <1>3, <1>4, RenewedIs
<1>7. DOMAIN drafted = DOMAIN inputs
  <2>1. drafted \in [DOMAIN inputs -> [n : 1..2, lk : BOOLEAN, im : BOOLEAN, edited : {FALSE}]]
    BY DEF Drafts
  <2>2. QED  BY <2>1
<1>8. \A s \in Edited(old) \ New(drafted).notCarried :
        s \in DOMAIN New(drafted).entries /\ New(drafted).entries[s] = old[s]
  BY <1>6, <1>7 DEF Renewed
<1>9. New(drafted).version \in Nat /\ New(drafted).version <= Len(regs) + 1
  <2>1. CASE p = 0  BY <1>1, <2>1
  <2>2. CASE p # 0
    <3>1. p \in DOMAIN regs  BY <1>1, <1>2, <2>2
    <3>2. regs[p].version \in Nat /\ regs[p].version <= p
      BY <3>1, RegisterIs DEF RegisterInv, RegisterSound
    <3>3. Len(regs) \in Nat  BY <1>1
    <3>4. QED  BY <1>2, <2>2, <3>2, <3>3
  <2>3. QED  BY <2>1, <2>2
<1>10. New(drafted) \in Register
  <2> DEFINE version == IF p = 0 THEN 1 ELSE regs[p].version + 1
  <2>1. version \in Nat /\ p \in Nat  BY <1>1, <1>2, <1>9
  <2>2. <<>> \in File  BY NothingIsPartial DEF File, Entries
  <2>3. Edited(old) \ DOMAIN Carries(drafted) \in SUBSET Service  BY <1>6
  <2> HIDE DEF version, Carries, p, inputs, old
  <2>4. QED  BY <1>3, <1>6, <2>1, <2>2, <2>3 DEF Register, version
<1>11. older \in Seq(Register) /\ Len(older) = Len(regs)
  <2>1. \A r \in DOMAIN regs : older[r] \in Register
    <3>1. ASSUME NEW r \in DOMAIN regs  PROVE older[r] \in Register
      <4>1. regs[r] \in Register  BY <1>1
      <4>2. (regs[r].superseded \/ r = p) \in BOOLEAN  OBVIOUS
      <4> HIDE DEF p
      <4>3. QED  BY <4>1, <4>2 DEF Register
    <3>2. QED  BY <3>1
  <2>2. DOMAIN older = 1..Len(regs) /\ Len(regs) \in Nat  BY <1>1
  <2>3. older \in [1..Len(regs) -> Register]  BY <1>1, <2>1, <2>2
  <2> HIDE DEF older
  <2>4. QED  BY <2>2, <2>3
<1>12. \A r \in DOMAIN regs :
        /\ older[r].version = regs[r].version /\ older[r].born = regs[r].born
        /\ older[r].drew = regs[r].drew /\ older[r].file = regs[r].file
        /\ older[r].entries = regs[r].entries /\ older[r].inputs = regs[r].inputs
        /\ older[r].final = regs[r].final /\ older[r].current = regs[r].current
        /\ older[r].left = regs[r].left /\ older[r].asof = regs[r].asof
  <2>1. \A r \in DOMAIN regs : regs[r] \in Register  BY <1>1
  <2>2. QED  BY <2>1 DEF Register
<1>13. /\ New(drafted).born = req[q].born /\ ~New(drafted).final
       /\ New(drafted).inputs = req[q].inputs /\ New(drafted).drew = req[q].drew
       /\ New(drafted).current = req[q].current /\ New(drafted).left = req[q].left
       /\ New(drafted).asof = req[q].asof /\ New(drafted).prior = req[q].prior
  OBVIOUS
<1> HIDE DEF New, older
<1> DEFINE new == New(drafted)
<1>14. /\ regs' \in Seq(Register) /\ Len(regs') = Len(regs) + 1 /\ regs'[Len(regs')] = new
       /\ \A r \in DOMAIN regs : regs'[r] = older[r]
  <2>1. new \in Register /\ regs' = Append(older, new)  BY <1>5, <1>10
  <2> HIDE DEF new
  <2>2. Len(regs) \in Nat /\ DOMAIN regs = 1..Len(regs)  BY <1>1
  <2>3. QED  BY <1>11, <2>1, <2>2
<1>15. KeepsBut(0)
  <2>1. Len(regs) \in Nat  BY <1>1
  <2>2. QED  BY <1>12, <1>14, <2>1 DEF KeepsBut
<1>16. QED  BY <1>8, <1>9, <1>12, <1>13, <1>14, <1>15

\* The new register says what was drawn, and how it was labelled.
LEMMA GenerateCommitIsSound ==
  ASSUME RegisterInv, NEW q \in Request, GenerateCommit(q)
  PROVE  RegisterInv'
<1>1. /\ Finish(q) /\ UNCHANGED <<kind, engaged, recs, work, born>>
      /\ req[q].op = "generate" /\ req[q].at = "commit"
  BY DEF GenerateCommit, At
<1> DEFINE x == regs'[Len(regs')]
<1>2. /\ regs' \in Seq(Register) /\ KeepsBut(0) /\ Len(regs') = Len(regs) + 1
      /\ \A r \in DOMAIN regs :
           /\ regs'[r].entries = regs[r].entries /\ regs'[r].file = regs[r].file
           /\ regs'[r].final = regs[r].final
      /\ x.version <= Len(regs') /\ x.born = req[q].born /\ ~x.final
      /\ x.inputs = req[q].inputs /\ x.drew = req[q].drew
      /\ x.current = req[q].current /\ x.left = req[q].left /\ x.asof = req[q].asof
  BY GenerateCommitIs
<1>3. /\ Len(regs) \in Nat /\ DOMAIN regs = 1..Len(regs)
      /\ DOMAIN regs' = 1..(Len(regs) + 1) /\ 0 \notin DOMAIN regs
  BY <1>2 DEF RegisterInv, TypeOK
<1>4. \A r \in DOMAIN regs : RegisterSound(r)'
  <2>1. SUFFICES ASSUME NEW r \in DOMAIN regs  PROVE RegisterSound(r)'  OBVIOUS
  <2>2. regs[r].final => Certified(r) /\ regs[r].file = regs[r].entries
    BY DEF RegisterInv, RegisterSound
  <2>3. regs'[r].final => Certified(r) /\ regs'[r].file = regs'[r].entries
    BY <1>2, <2>2
  <2>4. QED  BY <1>1, <1>2, <2>3, KeptRegister
<1>5. ASSUME NEW n \in Nat, n = Len(regs) + 1  PROVE RegisterSound(n)'
  <2>1. /\ Named(req[q].inputs, req[q].asof) /\ req[q].born <= born
        /\ Drawn(req[q].inputs, req[q].drew, req[q].asof)
        /\ SameReading(req[q].inputs, req[q].current, req[q].left)
    BY <1>1, PendingIs DEF RequestSound, RegisterInv, AgesGiven
  <2>2. regs'[n] = x  BY <1>2, <1>5
  <2> HIDE DEF x
  <2>3. /\ regs'[n].version <= n /\ regs'[n].born <= born' /\ ~regs'[n].final
        /\ regs'[n].inputs = req[q].inputs /\ regs'[n].drew = req[q].drew
        /\ regs'[n].current = req[q].current /\ regs'[n].left = req[q].left
        /\ regs'[n].asof = req[q].asof
    BY <1>1, <1>2, <1>5, <2>1, <2>2
  <2>4. QED  BY <1>1, <2>1, <2>3 DEF RegisterSound, Named, Drawn, SameReading
<1>6. \A r \in DOMAIN regs' : RegisterSound(r)'
  <2>1. \A r \in DOMAIN regs' : r \in DOMAIN regs \/ r = Len(regs) + 1  BY <1>3
  <2>2. Len(regs) + 1 \in Nat  BY <1>3
  <2>3. QED  BY <1>4, <1>5, <2>1, <2>2
<1>7. QED  BY <1>1, <1>2, <1>3, <1>6, WriteStep
\* What a compare-and-swap that finds the entry as it was loaded leaves.
LEMMA EditSwapIs ==
  ASSUME RegisterInv, NEW q \in Request, EditSwap(q), regs' # regs
  PROVE  LET x == req[q].reg  s == req[q].s  b == req[q].before
         IN /\ x \in DOMAIN regs /\ ~Closed(x) /\ s \in DOMAIN regs[x].entries
            /\ b \in Entry /\ StillAsLoaded(regs[x].entries[s], b)
            /\ regs[x] \in Register /\ regs[x].entries \in Entries
            /\ Edit(b, req[q].fields, req[q].value) \in Entry
            /\ regs' = [regs EXCEPT ![x] = [regs[x] EXCEPT !.entries =
                 [regs[x].entries EXCEPT ![s] = Edit(b, req[q].fields, req[q].value)]]]
<1> DEFINE x == req[q].reg
           s == req[q].s
           b == req[q].before
           e == Edit(b, req[q].fields, req[q].value)
<1>1. /\ ~Closed(x) /\ StillAsLoaded(regs[x].entries[s], b)
      /\ regs' = [regs EXCEPT ![x].entries[s] = e]
  BY DEF EditSwap
<1>2. req[q] \in Pending /\ x \in DOMAIN regs /\ b \in Entry /\ s \in DOMAIN regs[x].entries
  BY PendingIs DEF EditSwap, At, RequestSound
<1>3. regs[x] \in Register /\ regs[x].entries \in Entries
  BY <1>2, RegisterIs DEF RegisterInv
<1>4. e \in Entry
  <2>1. req[q].value \in BOOLEAN  BY <1>2 DEF Pending
  <2> HIDE DEF b
  <2>2. QED  BY <1>2, <2>1 DEF Edit, Entry
<1>5. QED  BY <1>1, <1>2, <1>3, <1>4

\* The swap writes a register that nobody renders or supersedes.
LEMMA EditSwapIsSound ==
  ASSUME RegisterInv, NEW q \in Request, EditSwap(q)
  PROVE  RegisterInv'
<1>1. CASE regs' = regs
  BY <1>1, FinishIsSound DEF EditSwap
<1>2. CASE regs' # regs
  <2> DEFINE x == req[q].reg
             s == req[q].s
             e == Edit(req[q].before, req[q].fields, req[q].value)
             es == [regs[x].entries EXCEPT ![s] = e]
             new == [regs[x] EXCEPT !.entries = es]
  <2>1. /\ x \in DOMAIN regs /\ ~Closed(x) /\ s \in DOMAIN regs[x].entries
        /\ regs[x] \in Register /\ regs[x].entries \in Entries /\ e \in Entry
        /\ regs' = [regs EXCEPT ![x] = new]
    BY <1>2, EditSwapIs
  <2>2. Finish(q) /\ UNCHANGED <<kind, engaged, recs, work, born>> /\ Shares(q, x)
    BY DEF EditSwap, Shares
  <2> HIDE DEF x, s, e
  <2>3. es \in Entries /\ DOMAIN es = DOMAIN regs[x].entries
    <3>1. /\ DOMAIN regs[x].entries \subseteq Service
          /\ regs[x].entries \in [DOMAIN regs[x].entries -> Entry]
      BY <2>1, PartialIs DEF Entries
    <3>2. es \in [DOMAIN regs[x].entries -> Entry]  BY <2>1, <3>1
    <3>3. QED  BY <3>1, <3>2, PartialIs DEF Entries
  <2> HIDE DEF es
  <2>4. /\ new \in Register /\ new.inputs = regs[x].inputs /\ new.entries = es
        /\ new.version = regs[x].version /\ new.born = regs[x].born
        /\ new.drew = regs[x].drew /\ new.final = regs[x].final
        /\ new.current = regs[x].current /\ new.left = regs[x].left
        /\ new.asof = regs[x].asof
    BY <2>1, <2>3 DEF Register
  <2> HIDE DEF new
  <2>5. \A r \in DOMAIN regs : regs'[r] = IF r = x THEN new ELSE regs[r]
    BY <2>1
  <2>6. /\ regs \in Seq(Register) /\ regs' \in Seq(Register)
        /\ DOMAIN regs' = DOMAIN regs /\ Len(regs') = Len(regs) /\ x \in Nat
        /\ Len(regs) \in Nat
    BY <2>1, <2>4 DEF RegisterInv, TypeOK
  <2>7. KeepsBut(x)  BY <2>3, <2>4, <2>5, <2>6 DEF KeepsBut
  <2>8. ASSUME NEW r \in DOMAIN regs  PROVE RegisterSound(r)'
    <3>1. regs[r].final => Certified(r) /\ regs[r].file = regs[r].entries
      BY DEF RegisterInv, RegisterSound
    <3>2. ~regs[x].final  BY <2>1 DEF Closed
    <3>3. regs'[r].final => regs'[r] = regs[r]  BY <2>4, <2>5, <3>2
    <3>4. QED  BY <2>2, <2>7, <3>1, <3>3, KeptRegister
  <2>9. QED  BY <2>2, <2>6, <2>7, <2>8, WriteStep
<1>3. QED  BY <1>1, <1>2

\* A file is stored for the register it was rendered from.
LEMMA StoreIsSound ==
  ASSUME RegisterInv, NEW q \in Request, NEW op \in {"export", "publish"}, Store(q, op)
  PROVE  RegisterInv'
<1> DEFINE x == req[q].reg
           file == req[q].file
           new == [regs[x] EXCEPT !.file = file, !.final = @ \/ op = "publish"]
<1>1. /\ Finish(q) /\ UNCHANGED <<kind, engaged, recs, work, born>> /\ Renders(q, x)
      /\ req[q].op = op /\ req[q].at = "commit"
  BY DEF Store, Renders, At
<1>2. /\ x \in DOMAIN regs /\ req[q] \in Pending
      /\ op = "publish" \/ regs[x].final => file = regs[x].entries
      /\ op = "publish" => Certified(x)
  BY <1>1, PendingIs DEF RequestSound
<1>3. regs' = [regs EXCEPT ![x] = new]
  <2>1. regs \in Seq(Register) /\ regs[x] \in Register
    BY <1>2, RegisterIs DEF RegisterInv, TypeOK
  <2>2. regs' = [regs EXCEPT ![x].file = file, ![x].final = @ \/ op = "publish"]
    BY DEF Store
  <2>3. QED  BY <1>2, <2>1, <2>2 DEF Register
<1>4. regs[x] \in Register /\ file \in File
  BY <1>2, RegisterIs DEF RegisterInv, Pending
<1> HIDE DEF x, file
<1>5. /\ new \in Register /\ new.inputs = regs[x].inputs /\ new.entries = regs[x].entries
      /\ new.version = regs[x].version /\ new.born = regs[x].born
      /\ new.drew = regs[x].drew /\ new.file = file
      /\ new.current = regs[x].current /\ new.left = regs[x].left
      /\ new.asof = regs[x].asof
      /\ new.final = (regs[x].final \/ op = "publish")
  BY <1>4 DEF Register
<1> HIDE DEF new
<1>6. \A r \in DOMAIN regs : regs'[r] = IF r = x THEN new ELSE regs[r]
  BY <1>2, <1>3
<1>7. /\ regs \in Seq(Register) /\ regs' \in Seq(Register)
      /\ DOMAIN regs' = DOMAIN regs /\ Len(regs') = Len(regs) /\ x \in Nat
      /\ Len(regs) \in Nat
  BY <1>2, <1>3, <1>5 DEF RegisterInv, TypeOK
<1>8. KeepsBut(x)  BY <1>5, <1>6, <1>7 DEF KeepsBut
<1>9. ASSUME NEW r \in DOMAIN regs  PROVE RegisterSound(r)'
  <2>1. regs[r].final => Certified(r) /\ regs[r].file = regs[r].entries
    BY DEF RegisterInv, RegisterSound
  <2>2. regs'[r].final => Certified(r) /\ regs'[r].file = regs'[r].entries
    BY <1>2, <1>5, <1>6, <2>1
  <2>3. QED  BY <1>1, <1>8, <2>2, KeptRegister
<1>10. Writes(q, x)  BY <1>1 DEF Writes, x
<1>11. QED  BY <1>1, <1>7, <1>8, <1>9, <1>10, WriteStep
---------------------------------------------------------------------------
(* The theorems.                                                           *)

\* The invariant holds at first, and after every step.
LEMMA InitIsSound == Init => RegisterInv
<1>1. SUFFICES ASSUME Init  PROVE RegisterInv  OBVIOUS
<1>2. PICK c \in Setting :
        /\ kind = c.kind
        /\ engaged = [s \in Service |->
                       IF s \in c.archived THEN "archived_by_admin" ELSE "engaged"]
        /\ recs = [s \in Service |-> <<[status |-> c.first[s], content |-> 0, late |-> 0]>>]
        /\ budget = [requests |-> c.requests, work |-> c.work]
        /\ work = IF c.work = 0 THEN {} ELSE Overdue
  BY <1>1 DEF Init
<1>3. /\ TypeOK /\ \A s \in Service : Len(recs[s]) = 1 /\ recs[s][1].status # "discarded"
      /\ \A w \in work : w.s \in Service /\ w.v = 1
  <2>1. /\ c.kind \in [Service -> Kind] /\ c.requests \in Nat /\ c.work \in Nat
        /\ c.first \in [Service -> {"draft", "submitted", "approved", "released"}]
    BY RiskAssumption
  <2>2. \A s \in Service : [status |-> c.first[s], content |-> 0, late |-> 0] \in Record
    <3>1. ASSUME NEW s \in Service  PROVE c.first[s] \in RecStatus
      <4>1. c.first[s] \in {"draft", "submitted", "approved", "released"}  BY <2>1
      <4>2. QED  BY <4>1 DEF RecStatus
    <3>2. QED  BY <3>1 DEF Record
  <2>3. \A s \in Service : recs[s] = <<[status |-> c.first[s], content |-> 0, late |-> 0]>>
    BY <1>2
  <2>4. recs \in [Service -> Seq(Record)]  BY <1>2, <2>2
  <2>5. ASSUME NEW s \in Service
        PROVE  Len(recs[s]) = 1 /\ recs[s][1].status # "discarded"
    <3>1. c.first[s] \in {"draft", "submitted", "approved", "released"}  BY <2>1
    <3> DEFINE r == [status |-> c.first[s], content |-> 0, late |-> 0]
    <3>2. r.status # "discarded"  BY <3>1
    <3>3. recs[s] = <<r>>  BY <2>3
    <3> HIDE DEF r
    <3>4. QED  BY <3>2, <3>3
  <2>6. /\ \A w \in work : w.s \in Service /\ w.v = 1
        /\ work \in SUBSET [op : {"edit", "submit", "revise"}, s : Service, v : Nat]
    BY <1>2, RiskAssumption DEF Overdue
  <2>7. regs \in Seq(Register) /\ born \in Nat  BY <1>1 DEF Init
  <2>8. budget \in Budget  BY <1>2, <2>1 DEF Budget
  <2>9. engaged \in [Service -> {"engaged", "archived", "archived_by_admin"}]  BY <1>2
  <2>10. req \in [Request -> Pending]  BY <1>1, IdleIsPending DEF Init
  <2>11. QED
    BY <1>2, <2>1, <2>4, <2>5, <2>6, <2>7, <2>8, <2>9, <2>10 DEF TypeOK
<1>4. InputsInv
  <2>1. \A s \in Service : recs[s] \in Seq(Record)  BY <1>3 DEF TypeOK
  <2>2. QED  BY <1>3, <2>1 DEF InputsInv
<1>5. LocksExclude
  BY <1>1 DEF Init, Idle, LocksExclude, Writes, Renders, Supersedes, Shares, At
<1>6. KindStaysEngaged  BY <1>2 DEF KindStaysEngaged
<1>7. AgesGiven  BY <1>1 DEF Init, Idle, AgesGiven
<1>8. \A r \in DOMAIN regs : RegisterSound(r)  BY <1>1 DEF Init
<1>9. \A q \in Request : RequestSound(req[q])  BY <1>1, IdleIsPending DEF Init
<1>10. QED  BY <1>3, <1>4, <1>5, <1>6, <1>7, <1>8, <1>9 DEF RegisterInv

\* Every step of a request, a consultant or an administrator keeps it.
LEMMA NextIsSound == RegisterInv /\ [Next]_vars => RegisterInv'
<1>1. SUFFICES ASSUME RegisterInv, [Next]_vars  PROVE RegisterInv'  OBVIOUS
<1>2. CASE UNCHANGED vars
  <2>1. UNCHANGED <<kind, engaged, recs, work, regs, born, req, budget>>
    BY <1>2 DEF vars
  <2>2. TypeOK' /\ InputsInv' /\ LocksExclude' /\ KindStaysEngaged' /\ AgesGiven'
    <3>1. TypeOK'  BY <1>1, <2>1 DEF RegisterInv, TypeOK
    <3>2. InputsInv' /\ KindStaysEngaged' /\ AgesGiven'
      BY <1>1, <2>1 DEF RegisterInv, InputsInv, KindStaysEngaged, AgesGiven
    <3>3. LocksExclude'
      BY <1>1, <2>1 DEF RegisterInv, LocksExclude, Writes, Renders, Supersedes, Shares, At
    <3>4. QED  BY <3>1, <3>2, <3>3
  <2>3. \A r \in DOMAIN regs : RegisterSound(r)'
    BY <1>1, <2>1, SameRegisters DEF RegisterInv
  <2>4. \A q \in Request : RequestSound(req[q])'
    BY <1>1, <2>1, SameTables DEF RegisterInv
  <2>5. QED  BY <2>1, <2>2, <2>3, <2>4 DEF RegisterInv
<1>3. ASSUME WorkOnInputs \/ \E s \in Service : AdminArchive(s)  PROVE RegisterInv'
  BY <1>1, <1>3, WorkOnInputsIsSound, AdminArchiveIsSound
<1>4. ASSUME NEW q \in Request,
             (\E s \in Service : ArchiveRead(q, s)) \/ ArchiveCommit(q)
      PROVE  RegisterInv'
  BY <1>1, <1>4, ArchiveReadIsSound, ArchiveCommitIsSound
<1>5. ASSUME NEW q \in Request, Generate(q)  PROVE RegisterInv'
  BY <1>1, <1>5, GenerateSourcesIsSound, GenerateCurrentIsSound,
     GenerateFindingsIsSound, GenerateInsertIsSound, GenerateCarryIsSound,
     GenerateCommitIsSound DEF Generate
<1>6. ASSUME NEW q \in Request, EditRating(q)  PROVE RegisterInv'
  <2>1. CASE EditLock(q) \/ EditSwap(q)
    BY <1>1, <2>1, EditLockIsSound, EditSwapIsSound
  <2>2. ASSUME NEW r \in 1..MaxRegs, NEW s \in Service, NEW b \in Body,
               EditLoad(q, r, s, b.fields, b.value)
        PROVE  RegisterInv'
    <3>1. r \in Nat  BY RiskAssumption
    <3>2. QED  BY <1>1, <2>2, <3>1, EditLoadIsSound
  <2>3. QED  BY <1>6, <2>1, <2>2 DEF EditRating
<1>7. ASSUME NEW q \in Request, Deliver(q)  PROVE RegisterInv'
  BY <1>1, <1>7, ReadLatestIsSound, RenderIsSound, StoreIsSound DEF Deliver
<1>8. QED  BY <1>1, <1>2, <1>3, <1>4, <1>5, <1>6, <1>7 DEF Next

\* In every reachable state of risk.py's requests, a register and a request
\* are sound: the inductive invariant the other theorems rest on.
THEOREM RegistersAreSound == Spec => []RegisterInv
BY InitIsSound, NextIsSound, PTL DEF Spec

\* What a request reads and a register records has the type the columns give it.
THEOREM RegistersAreTyped == Spec => []TypeOK
<1>1. RegisterInv => TypeOK  BY DEF RegisterInv
<1>2. QED  BY <1>1, RegistersAreSound, PTL

\* _lock_current_register: a published file is what its register says.
THEOREM PublishedFileIsRegister == Spec => []FileIsRegister
<1>1. RegisterInv => FileIsRegister
  BY DEF RegisterInv, RegisterSound, FileIsRegister
<1>2. QED  BY <1>1, RegistersAreSound, PTL

\* publish_blockers, _require_certifiable_inputs: the findings of a published
\* register are what the assessment it names holds, which is released still, or
\* approved if the snapshot read it once; but for the late edits and submissions.
THEOREM PublishedWorkIsReleased == Spec => []PublishedIsReleasedWork
<1>1. RegisterInv => PublishedIsReleasedWork
  <2>1. SUFFICES ASSUME RegisterInv, NEW r \in DOMAIN regs, regs[r].final,
                        NEW s \in DOMAIN regs[r].inputs,
                        recs[s][regs[r].inputs[s].version].late = regs[r].asof[s]
                 PROVE  LET v == regs[r].inputs[s].version
                            then == regs[r].current
                            readTwice == s \in DOMAIN then /\ then[s].version = v
                        IN /\ recs[s][v].content = regs[r].drew[s]
                           /\ recs[s][v].status
                                \in IF readTwice THEN {"released"} ELSE Settled
    BY DEF PublishedIsReleasedWork
  <2> DEFINE v == regs[r].inputs[s].version
             status == regs[r].inputs[s].status
             readTwice == s \in DOMAIN regs[r].current /\ regs[r].current[s].version = v
  <2>2. /\ Certified(r) /\ Named(regs[r].inputs, regs[r].asof)
        /\ Drawn(regs[r].inputs, regs[r].drew, regs[r].asof)
    BY <2>1 DEF RegisterInv, RegisterSound
  <2>3. status \in Settled /\ (readTwice => status = "released")
    BY <2>1, <2>2 DEF Certified, Certifiable, Settled
  <2>4. MovesOn(status, recs[s][v].status)  BY <2>1, <2>2 DEF Named
  <2>5. recs[s][v].content = regs[r].drew[s]  BY <2>1, <2>2, <2>3 DEF Drawn
  <2>6. QED  BY <2>3, <2>4, <2>5 DEF MovesOn, Settled
<1>2. QED  BY <1>1, RegistersAreSound, PTL

\* archive_duplicate_service: under the client's lock, two tabs never archive
\* both members of a pair.
THEOREM ArchivesLeaveOne == Spec => []KindStaysEngaged
<1>1. RegisterInv => KindStaysEngaged  BY DEF RegisterInv
<1>2. QED  BY <1>1, RegistersAreSound, PTL

\* The registers are written by the commit of a generate, an edit or a delivery.
LEMMA RegistersWritten ==
  ASSUME Next
  PROVE  UNCHANGED regs \/ \E q \in Request :
           \/ GenerateCommit(q) \/ EditSwap(q)
           \/ \E op \in {"export", "publish"} : Store(q, op)
<1>1. CASE WorkOnInputs
  BY <1>1 DEF WorkOnInputs, ReadInput, EditInput, SubmitInput, ReviseInput, Overdo,
     ApproveInput, ReleaseInput, DiscardInput, Settle
<1>2. CASE \E s \in Service : AdminArchive(s)  BY <1>2 DEF AdminArchive
<1>3. ASSUME NEW q \in Request, (\E s \in Service : ArchiveRead(q, s)) \/ ArchiveCommit(q)
      PROVE  UNCHANGED regs
  BY <1>3 DEF ArchiveRead, ArchiveCommit
<1>4. ASSUME NEW q \in Request, Generate(q), ~GenerateCommit(q)  PROVE UNCHANGED regs
  BY <1>4 DEF Generate, GenerateSources, GenerateCurrent, GenerateFindings,
     GenerateInsert, GenerateCarry
<1>5. ASSUME NEW q \in Request, EditRating(q), ~EditSwap(q)  PROVE UNCHANGED regs
  BY <1>5 DEF EditRating, EditLoad, EditLock
<1>6. ASSUME NEW q \in Request, Deliver(q)
      PROVE  UNCHANGED regs \/ \E op \in {"export", "publish"} : Store(q, op)
  BY <1>6 DEF Deliver, ReadLatest, Render
<1>7. QED  BY <1>1, <1>2, <1>3, <1>4, <1>5, <1>6 DEF Next

\* A superseded register is not edited, and the one that supersedes it has the
\* ratings it had at that moment or names them.
THEOREM RatingsAreAccounted == Spec => RatingsAccounted
<1> DEFINE Carries ==
             \A r \in DOMAIN regs' \ DOMAIN regs : regs'[r].prior # 0 =>
               LET old == regs'[regs'[r].prior].entries
               IN \A s \in Edited(old) \ regs'[r].notCarried :
                    s \in DOMAIN regs'[r].entries /\ regs'[r].entries[s] = old[s]
           Rests == \A r \in DOMAIN regs :
                      regs[r].superseded => regs'[r].entries = regs[r].entries
<1>1. RegisterInv /\ [Next]_vars => (Carries /\ Rests) \/ UNCHANGED vars
  <2>1. SUFFICES ASSUME RegisterInv, Next  PROVE Carries /\ Rests  OBVIOUS
  <2>2. CASE UNCHANGED regs  BY <2>2
  <2>3. ASSUME NEW q \in Request, GenerateCommit(q)  PROVE Carries /\ Rests
    <3> DEFINE x == regs'[Len(regs')]
               p == req[q].prior
               old == req[q].old
    <3>1. /\ regs' \in Seq(Register) /\ Len(regs') = Len(regs) + 1
          /\ \A r \in DOMAIN regs : regs'[r].entries = regs[r].entries
          /\ x.prior = p
          /\ \A s \in Edited(old) \ x.notCarried :
               s \in DOMAIN x.entries /\ x.entries[s] = old[s]
      BY <2>1, <2>3, GenerateCommitIs
    <3>2. /\ Len(regs) \in Nat /\ DOMAIN regs = 1..Len(regs)
          /\ DOMAIN regs' = 1..(Len(regs) + 1)
      BY <2>1, <3>1 DEF RegisterInv, TypeOK
    <3>3. /\ p \in 0..Len(regs)
          /\ old = IF p = 0 THEN <<>> ELSE regs[p].entries
      BY <2>1, <2>3, PendingIs DEF RequestSound, GenerateCommit, At
    <3> HIDE DEF x, p, old
    <3>4. p # 0 => old = regs'[p].entries  BY <3>1, <3>2, <3>3
    <3>5. \A r \in DOMAIN regs' \ DOMAIN regs : regs'[r] = x
      BY <3>1, <3>2 DEF x
    <3>6. Carries  BY <3>1, <3>4, <3>5
    <3>7. QED  BY <3>1, <3>6
  <2>4. ASSUME NEW q \in Request, EditSwap(q), regs' # regs  PROVE Carries /\ Rests
    <3> DEFINE x == req[q].reg
               es == [regs[x].entries EXCEPT ![req[q].s] =
                        Edit(req[q].before, req[q].fields, req[q].value)]
    <3>1. /\ x \in DOMAIN regs /\ ~Closed(x) /\ regs[x] \in Register
          /\ regs' = [regs EXCEPT ![x] = [regs[x] EXCEPT !.entries = es]]
      BY <2>1, <2>4, EditSwapIs
    <3> HIDE DEF es
    <3>2. DOMAIN regs' = DOMAIN regs /\ \A r \in DOMAIN regs : r # x => regs'[r] = regs[r]
      BY <3>1
    <3>3. QED  BY <3>1, <3>2 DEF Closed
  <2>5. ASSUME NEW q \in Request, NEW op \in {"export", "publish"}, Store(q, op)
        PROVE  Carries /\ Rests
    <3>1. req[q].reg \in DOMAIN regs /\ regs \in Seq(Register)
      BY <2>1, <2>5, PendingIs DEF Store, At, RequestSound, RegisterInv, TypeOK
    <3>2. \A r \in DOMAIN regs : regs[r] \in Register  BY <3>1
    <3>3. DOMAIN regs' = DOMAIN regs
          /\ \A r \in DOMAIN regs : regs'[r].entries = regs[r].entries
      BY <2>5, <3>1, <3>2 DEF Store, Register
    <3>4. QED  BY <3>3
  <2>6. QED  BY <2>1, <2>2, <2>3, <2>4, <2>5, RegistersWritten
<1>2. RegisterInv /\ [Next]_vars => [Carries /\ Rests]_vars  BY <1>1
<1>3. QED  BY <1>2, RegistersAreSound, PTL DEF Spec, RatingsAccounted

\* edit_entry_rating: the compare-and-swap never moves a field the body left out.
THEOREM UnsentFieldsStay == Spec => UnsentStays
<1> DEFINE Stays ==
             \A q \in Request :
               At(q, "edit", "swap") /\ req'[q] = Idle /\ regs' # regs =>
                 LET r == req[q].reg  s == req[q].s
                 IN \A f \in {"lk", "im"} \ req[q].fields :
                      regs'[r].entries[s][f] = regs[r].entries[s][f]
<1>1. RegisterInv /\ [Next]_vars => [Stays]_vars
  <2>1. SUFFICES ASSUME RegisterInv, Next, NEW q \in Request, At(q, "edit", "swap"),
                        req'[q] = Idle, regs' # regs,
                        NEW f \in {"lk", "im"} \ req[q].fields
                 PROVE  regs'[req[q].reg].entries[req[q].s][f]
                          = regs[req[q].reg].entries[req[q].s][f]
    OBVIOUS
  <2>2. EditSwap(q)
    <3>1. PICK p \in Request : GenerateCommit(p) \/ EditSwap(p)
                               \/ \E op \in {"export", "publish"} : Store(p, op)
      BY <2>1, RegistersWritten
    <3>2. Takes(p, Idle)
      BY <3>1 DEF GenerateCommit, EditSwap, Store, Finish, Become
    <3>3. p = q
      <4>1. req[q] # Idle  BY <2>1 DEF At, Idle
      <4>2. QED  BY <2>1, <3>2, <4>1, OthersStay
    <3>4. QED  BY <2>1, <3>1, <3>3 DEF GenerateCommit, Store, At
  <2> DEFINE x == req[q].reg
             s == req[q].s
             e == Edit(req[q].before, req[q].fields, req[q].value)
             es == [regs[x].entries EXCEPT ![s] = e]
  <2>3. /\ x \in DOMAIN regs /\ s \in DOMAIN regs[x].entries /\ req[q].before \in Entry
        /\ StillAsLoaded(regs[x].entries[s], req[q].before)
        /\ regs[x] \in Register
        /\ regs' = [regs EXCEPT ![x] = [regs[x] EXCEPT !.entries = es]]
    BY <2>1, <2>2, EditSwapIs
  <2>4. regs'[x].entries[s] = e
    <3>1. regs'[x].entries = es  BY <2>3 DEF Register
    <3>2. QED  BY <2>3, <3>1
  <2>5. e[f] = req[q].before[f]
    BY <2>1, <2>3 DEF Edit, Entry
  <2>6. regs[x].entries[s][f] = req[q].before[f]
    BY <2>1, <2>3 DEF StillAsLoaded
  <2>7. QED  BY <2>4, <2>5, <2>6
<1>2. QED  BY <1>1, RegistersAreSound, PTL DEF Spec, UnsentStays
=============================================================================
