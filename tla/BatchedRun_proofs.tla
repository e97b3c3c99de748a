------------------------- MODULE BatchedRun_proofs --------------------------
(***************************************************************************)
(* Proofs about BatchedRun, for any number of batches, workers and lost    *)
(* commits: the invariant BatchedInv, and from it the three safety         *)
(* invariants of the module and NothingStartsUnheard.                      *)
(*                                                                         *)
(* The properties speak of the end of a run; the invariant says what makes *)
(* them come true on the way: which batch a worker has let past the stop   *)
(* flag, what the mark, the gate and the ledger already know of it, and    *)
(* why the job's thread may conclude from them.                            *)
(***************************************************************************)
EXTENDS BatchedRun, TLAPS, FiniteSetTheorems

---------------------------------------------------------------------------
(* The invariant.                                                          *)

\* A worker that has looked at the stop flag, and goes on.
Past    == {"redacting", "cleared", "inflight", "closing", "reporting"}
InCall  == {"inflight", "closing", "reporting"}

Working  == {b \in Batch : at[b] \in AtWorker}
Exposed  == calls \cup {b \in Batch : at[b] \in Past}
Masked   == {b \in calls : result[b] = "error"}

\* What the mark, the gate, the ledger and the run know of a batch under way.
Traced(b) ==
  /\ at[b] \in (AtWorker \ {"dequeued"}) \cup {"done"} => entered
  /\ b \in calls \/ at[b] = "cleared" => sent
  /\ at[b] \in InCall => b \in calls
  /\ b \in calls => at[b] \in InCall \cup {"done", "dead"} /\ ledger[b] # "none"
  /\ at[b] \in {"inflight", "closing"} => ledger[b] \in {"running", "failed"}
  /\ at[b] = "reporting" => (ledger[b] = "completed" <=> result[b] = "answer")
  /\ crashed => at[b] \in {"done", "cancelled", "dead"}
  /\ at[b] = "dead" => crashed

\* What the result of a batch says.
Resolved(b) ==
  /\ result[b] # "none" => at[b] \in {"closing", "reporting", "done", "dead"}
  /\ at[b] \in {"closing", "reporting", "done"} => result[b] # "none"
  /\ at[b] \in InCall => result[b] \notin {"refused", "not_sent"}
  /\ result[b] = "refused" => gate # "open"
  /\ result[b] = "not_sent" => stop
  /\ b \in collected => at[b] = "done" /\ result[b] # "refused"

\* A rejected call stops the run, unless a lost commit has masked it.
Rejected(b) ==
  /\ at[b] = "closing" => result[b] = "rejected"
  /\ at[b] = "reporting" => result[b] \in {"rejected", "error"}
  /\ b \in calls /\ at[b] = "done" /\ ~stop => result[b] = "error"

CallsCounted ==
  /\ Cardinality(Working) <= MaxWorkers
  /\ badKey => /\ \A b \in Batch : Rejected(b)
               /\ Cardinality(Masked) <= lost
               /\ Cardinality(Exposed) <= MaxWorkers + lost

Usable == collected = Batch /\ \E b \in Batch : result[b] = "answer"

GateSound ==
  /\ gate = "refused" /\ ~told => ~sent
  /\ run.status = "RUNNING" /\ ~crashed => gate # "over"

JobSound ==
  /\ job = "dead" <=> crashed
  /\ job \notin {"collecting", "stopping", "dead"} => stop \/ collected = Batch
  /\ stop => \/ job \notin {"collecting", "stopping", "applying"}
             \/ \E b \in Batch : at[b] = "done" /\ result[b] = "rejected"
  /\ job = "applying" \/ run.status = "COMPLETED" => Usable
  /\ job \in {"finally", "closed"} => run.status # "RUNNING"
  /\ cause = "refused" => \E b \in Batch : result[b] = "refused"
  /\ job = "judging" => seen # "no"

\* No call was made, and none will be: the gate never cleared a payload and is
\* shut, or the flag is set and no batch is past it.
NeverCalls == /\ calls = {}
              /\ \/ gate # "open" /\ ~sent
                 \/ stop /\ \A b \in Batch : at[b] \notin Past

SaysNo == \/ run.charged = "no"
          \/ run.status = "RUNNING" /\ job = "ending" /\ seen = "no"

ChargeSound == SaysNo => NeverCalls

BatchedInv ==
  /\ TypeOK /\ GateSound /\ JobSound /\ ChargeSound /\ CallsCounted
  /\ \A b \in Batch : Traced(b) /\ Resolved(b)
---------------------------------------------------------------------------
(* Types.                                                                  *)

\* A step of a worker leaves its batch, and the run's marks, of their types.
LEMMA WorkTyped == ASSUME TypeOK, NEW b \in Batch, Work(b)  PROVE TypeOK'
<1>1. UNCHANGED <<job, cause, seen, collected, run, clock, crashed, badKey>>
  BY DEF Work, jobVars
<1>2. CASE Dequeue(b)
  BY <1>1, <1>2 DEF TypeOK, Dequeue, Goto, AtWorker
<1>3. CASE MarkRun(b)
  BY <1>1, <1>3 DEF TypeOK, MarkRun, NoteEntered, Goto, AtWorker
<1>4. CASE CheckStop(b)
  BY <1>1, <1>4 DEF TypeOK, CheckStop, Resolve, Goto, AtWorker
<1>5. CASE Redact(b)
  BY <1>1, <1>5 DEF TypeOK, Redact, Resolve, Goto, AtWorker
<1>6. CASE CallProvider(b)
  BY <1>1, <1>6, BatchedAssumption
  DEF TypeOK, CallProvider, OpenRow, LoseCommit, Resolve, Goto, AtWorker
<1>7. CASE ProviderEnds(b)
  BY <1>1, <1>7 DEF TypeOK, ProviderEnds, Goto, AtWorker
<1>8. CASE CloseRow(b)
  BY <1>1, <1>8, BatchedAssumption
  DEF TypeOK, CloseRow, Outcome, LoseCommit, Goto, AtWorker
<1>9. CASE Report(b)
  BY <1>1, <1>9, BatchedAssumption
  DEF TypeOK, Report, StopOnRejection, LoseCommit, Resolve, Goto, AtWorker
<1>10. QED
  BY <1>2, <1>3, <1>4, <1>5, <1>6, <1>7, <1>8, <1>9 DEF Work

\* So does a step of the job's thread or of the environment.
LEMMA OtherTyped ==
  ASSUME TypeOK, JobSteps \/ Interrupted \/ Tick \/ Crash \/ Reap  PROVE TypeOK'
<1>1. CASE \E b \in Batch : Collect(b) /\ UNCHANGED <<clock, crashed, badKey>>
  BY <1>1 DEF TypeOK, Collect, Raised, workVars
<1>2. CASE DeadlinePasses /\ UNCHANGED <<clock, crashed, badKey>>
  BY <1>2 DEF TypeOK, DeadlinePasses, Raised, workVars
<1>3. CASE StopAndCancel /\ UNCHANGED <<clock, crashed, badKey>>
  BY <1>3 DEF TypeOK, StopAndCancel, SetStop
<1>4. CASE Gather /\ UNCHANGED <<clock, crashed, badKey>>
  BY <1>4 DEF TypeOK, Gather, workVars
<1>5. CASE Apply /\ UNCHANGED <<clock, crashed, badKey>>
  <2>1. run' \in [status : {"RUNNING", "COMPLETED", "FAILED"}, charged : Charge]
    BY <1>5 DEF TypeOK, Apply, ChargedLikely, Charge
  <2>2. QED  BY <1>5, <2>1 DEF TypeOK, Apply, workVars
<1>6. CASE (JudgeLedger \/ JudgeMark) /\ UNCHANGED <<clock, crashed, badKey>>
  BY <1>6 DEF TypeOK, JudgeLedger, JudgeMark, ChargedLikely, Charge, workVars
<1>7. CASE EndFailed /\ UNCHANGED <<clock, crashed, badKey>>
  BY <1>7 DEF TypeOK, EndFailed, workVars
<1>8. CASE ReleasePlace /\ UNCHANGED <<clock, crashed, badKey>>
  BY <1>8 DEF TypeOK, ReleasePlace
<1>9. CASE Interrupted
  BY <1>9 DEF TypeOK, Interrupted, Interrupt, Raised, workVars
<1>10. CASE Tick
  BY <1>10 DEF TypeOK, Tick, workVars, jobVars
<1>11. CASE Crash
  BY <1>11 DEF TypeOK, Crash
<1>12. CASE Reap
  BY <1>12 DEF TypeOK, Reap, ChargedLikely, Charge
<1>13. QED
  BY <1>1, <1>2, <1>3, <1>4, <1>5, <1>6, <1>7, <1>8, <1>9, <1>10, <1>11, <1>12
  DEF JobSteps

---------------------------------------------------------------------------
(* Counting the calls of a run whose key is rejected.                      *)

\* Batches are finitely many, and so are the sets counted.
LEMMA CountedAreFinite ==
  ASSUME TypeOK
  PROVE  /\ IsFiniteSet(Batch) /\ IsFiniteSet(Working) /\ IsFiniteSet(Exposed)
         /\ IsFiniteSet(Masked) /\ IsFiniteSet(calls)
         /\ {Working, Exposed, Masked, calls} \subseteq SUBSET Batch
<1>1. IsFiniteSet(Batch)
  BY FS_Interval, BatchedAssumption DEF Batch
<1>2. {Working, Exposed, Masked, calls} \subseteq SUBSET Batch
  BY DEF TypeOK, Working, Exposed, Masked
<1>3. QED  BY <1>1, <1>2, FS_Subset

\* A set of batches that does not grow is not counted higher.
LEMMA NoMore ==
  ASSUME NEW S, IsFiniteSet(S), NEW T \in SUBSET S
  PROVE  Cardinality(T) <= Cardinality(S) /\ Cardinality(T) \in Nat
         /\ Cardinality(S) \in Nat
<1>1. IsFiniteSet(T) /\ Cardinality(T) <= Cardinality(S)  BY FS_Subset
<1>2. QED  BY <1>1, FS_CardinalityType

\* One batch more counts one more at most.
LEMMA OneMore ==
  ASSUME NEW S, IsFiniteSet(S), NEW b, NEW T \in SUBSET (S \cup {b})
  PROVE  Cardinality(T) <= Cardinality(S) + 1 /\ Cardinality(T) \in Nat
<1>1. IsFiniteSet(S \cup {b})  BY FS_AddElement
<1>2. /\ Cardinality(T) <= Cardinality(S \cup {b}) /\ Cardinality(T) \in Nat
      /\ Cardinality(S \cup {b}) \in Nat
  BY <1>1, NoMore
<1>3. Cardinality(S \cup {b}) <= Cardinality(S) + 1
  <2>1. Cardinality(S) \in Nat  BY FS_CardinalityType
  <2>2. Cardinality(S \cup {b}) = IF b \in S THEN Cardinality(S) ELSE Cardinality(S) + 1
    BY FS_AddElement
  <2>3. QED  BY <2>1, <2>2
<1>4. Cardinality(S) \in Nat  BY FS_CardinalityType
<1>5. QED  BY <1>2, <1>3, <1>4
---------------------------------------------------------------------------
(* A worker's step.                                                        *)

\* All that a worker's step is to the other batches, and to the job.
Moves(b) ==
  /\ at[b] \in AtWorker \cup {"queued"} /\ ~crashed
  /\ \A o \in Batch \ {b} : /\ at'[o] = at[o] /\ result'[o] = result[o]
                            /\ ledger'[o] = ledger[o] /\ (o \in calls' <=> o \in calls)
  /\ (entered => entered') /\ (sent => sent') /\ (stop => stop')
  /\ (gate # "open" => gate' # "open") /\ (gate' = "over" => gate = "over")
  /\ stop' => stop \/ (at'[b] = "done" /\ result'[b] = "rejected")
  /\ UNCHANGED <<job, cause, seen, collected, run, clock, crashed, badKey>>

\* Another batch's worker takes no ground from under a batch.
LEMMA OthersTraced ==
  ASSUME BatchedInv, NEW b \in Batch, Moves(b), NEW o \in Batch, o # b
  PROVE  /\ Traced(o)' /\ Resolved(o)'
         /\ Rejected(o) => Rejected(o)'
<1>1. /\ Traced(o) /\ Resolved(o) /\ at'[o] = at[o] /\ result'[o] = result[o]
      /\ ledger'[o] = ledger[o] /\ (o \in calls' <=> o \in calls)
  BY DEF BatchedInv, Moves
<1>2. Traced(o)'  BY <1>1 DEF Traced, Moves
<1>3. Resolved(o)'  BY <1>1 DEF Resolved, Moves
<1>4. Rejected(o) => Rejected(o)'  BY <1>1 DEF Rejected, Moves
<1>5. QED  BY <1>2, <1>3, <1>4

\* A batch under way has not been collected, so the run is not at its end.
LEMMA MovingIsEarly ==
  ASSUME BatchedInv, NEW b \in Batch, Moves(b)
  PROVE  ~Usable /\ b \notin collected /\ JobSound'
<1>1. b \notin collected
  BY DEF BatchedInv, Resolved, Moves, AtWorker
<1>2. ~Usable  BY <1>1 DEF Usable
<1>3. JobSound'
  <2>1. JobSound  BY DEF BatchedInv
  <2>2. \A o \in Batch : at[o] = "done" => at'[o] = "done" /\ result'[o] = result[o]
    BY DEF Moves, AtWorker
  <2>3. \A o \in Batch : result[o] = "refused" => at[o] = "done" \/ at[o] = "dead"
    BY DEF BatchedInv, Resolved, AtWorker, InCall
  <2>4. \A o \in Batch : result[o] = "refused" => result'[o] = "refused"
    BY <2>3 DEF Moves, AtWorker
  <2>5. (stop => \/ job \notin {"collecting", "stopping", "applying"}
                 \/ \E o \in Batch : at[o] = "done" /\ result[o] = "rejected")'
    BY <2>1, <2>2 DEF JobSound, Moves
  <2>6. QED
    BY <1>2, <2>1, <2>4, <2>5 DEF JobSound, Moves
<1>4. QED  BY <1>1, <1>2, <1>3

\* A worker's step is sound if it is for its own batch.
LEMMA WorkSound ==
  ASSUME BatchedInv, NEW b \in Batch, Work(b), Moves(b),
         Traced(b)', Resolved(b)', badKey /\ Rejected(b) => Rejected(b)',
         GateSound', NeverCalls => NeverCalls',
         Cardinality(Working') <= MaxWorkers,
         badKey => /\ Cardinality(Masked') <= lost'
                   /\ Cardinality(Exposed') <= MaxWorkers + lost'
  PROVE  BatchedInv'
<1>1. \A o \in Batch : Traced(o)' /\ Resolved(o)'
  BY OthersTraced
<1>2. badKey => \A o \in Batch : Rejected(o)'
  BY OthersTraced DEF BatchedInv, CallsCounted
<1>3. ChargeSound'
  BY DEF BatchedInv, ChargeSound, SaysNo, Moves
<1>4. CallsCounted'
  BY <1>2 DEF CallsCounted, Moves
<1>5. TypeOK'  BY WorkTyped DEF BatchedInv
<1>6. QED  BY <1>1, <1>3, <1>4, <1>5, MovingIsEarly DEF BatchedInv

\* Most steps of a worker put no batch at risk that was not.
LEMMA NoneAdded ==
  ASSUME BatchedInv, NEW b \in Batch, Work(b), Moves(b), lost' >= lost,
         at[b] \in AtWorker, calls' \subseteq Exposed,
         at'[b] \in Past => at[b] \in Past,
         badKey /\ result'[b] = "error" /\ b \in calls' => result[b] = "error" /\ b \in calls
  PROVE  /\ Cardinality(Working') <= MaxWorkers
         /\ badKey => /\ Cardinality(Masked') <= lost'
                      /\ Cardinality(Exposed') <= MaxWorkers + lost'
<1>1. TypeOK /\ TypeOK'  BY WorkTyped DEF BatchedInv
<1>2. lost \in Nat /\ lost' \in Nat /\ MaxWorkers \in Nat
  BY <1>1, BatchedAssumption DEF TypeOK
<1>3. Working' \subseteq Working
  BY DEF Working, Moves
<1>4. Exposed' \subseteq Exposed
  BY DEF Exposed, Moves
<1>5. badKey => Masked' \subseteq Masked
  <2>1. calls' \subseteq Batch  BY <1>1 DEF TypeOK
  <2>2. QED  BY <2>1 DEF Masked, Moves
<1>6. Cardinality(Working') <= Cardinality(Working) /\ Cardinality(Working') \in Nat
      /\ Cardinality(Working) \in Nat
  BY <1>1, <1>3, CountedAreFinite, NoMore
<1>7. Cardinality(Exposed') <= Cardinality(Exposed) /\ Cardinality(Exposed') \in Nat
      /\ Cardinality(Exposed) \in Nat
  BY <1>1, <1>4, CountedAreFinite, NoMore
<1>8. badKey => Cardinality(Masked') <= Cardinality(Masked) /\ Cardinality(Masked') \in Nat
      /\ Cardinality(Masked) \in Nat
  BY <1>1, <1>5, CountedAreFinite, NoMore
<1>9. QED  BY <1>2, <1>6, <1>7, <1>8 DEF BatchedInv, CallsCounted
\* What the invariant says of the batch of a worker's step.
LEMMA BatchIs ==
  ASSUME BatchedInv, NEW b \in Batch
  PROVE  /\ TypeOK /\ Traced(b) /\ Resolved(b) /\ GateSound /\ lost \in Nat
         /\ badKey => Rejected(b)
BY DEF BatchedInv, CallsCounted, TypeOK

\* The pool takes a batch only if one of its workers is free.
LEMMA DequeueIsSound == ASSUME BatchedInv, NEW b \in Batch, Work(b), Dequeue(b)
                        PROVE  BatchedInv'
<1>1. /\ TypeOK /\ Traced(b) /\ Resolved(b) /\ GateSound /\ lost \in Nat
      /\ at[b] = "queued" /\ at' = [at EXCEPT ![b] = "dequeued"]
      /\ UNCHANGED <<result, stop, entered, ledger, calls, lost, gate, sent, told>>
      /\ UNCHANGED <<job, cause, seen, collected, run, clock, crashed, badKey>>
  BY BatchIs DEF Dequeue, Goto, Work, jobVars
<1>2. \A o \in Batch : at'[o] = IF o = b THEN "dequeued" ELSE at[o]
  BY <1>1 DEF TypeOK
<1>3. Moves(b)  BY <1>1, <1>2 DEF Moves, Traced
<1>4. Traced(b)' /\ Resolved(b)' /\ GateSound'
  BY <1>1, <1>2 DEF Traced, Resolved, GateSound, AtWorker, InCall
<1>5. Rejected(b)'  BY <1>1, <1>2 DEF Rejected
<1>6. NeverCalls => NeverCalls'  BY <1>1, <1>2 DEF NeverCalls, Past
<1>7. Cardinality(Working') <= MaxWorkers
  <2>1. Working' \subseteq Working \cup {b}  BY <1>2 DEF Working
  <2>2. Cardinality(Working') <= Cardinality(Working) + 1 /\ Cardinality(Working') \in Nat
    BY <1>1, <2>1, CountedAreFinite, OneMore
  <2>3. Cardinality(Working) < MaxWorkers  BY DEF Dequeue, Working
  <2>4. Cardinality(Working) \in Nat
    BY <1>1, CountedAreFinite, FS_CardinalityType
  <2>5. QED  BY <2>2, <2>3, <2>4, BatchedAssumption
<1>8. Exposed' = Exposed /\ Masked' = Masked
  BY <1>1, <1>2 DEF Exposed, Masked, Past
<1>9. badKey => /\ Cardinality(Masked') <= lost'
                /\ Cardinality(Exposed') <= MaxWorkers + lost'
  BY <1>1, <1>8 DEF BatchedInv, CallsCounted
<1>10. QED  BY <1>3, <1>4, <1>5, <1>6, <1>7, <1>9, WorkSound

\* The mark is made before the flag is looked at.
LEMMA MarkRunIsSound == ASSUME BatchedInv, NEW b \in Batch, Work(b), MarkRun(b)
                        PROVE  BatchedInv'
<1>1. /\ TypeOK /\ Traced(b) /\ Resolved(b) /\ GateSound /\ lost \in Nat
      /\ at[b] = "dequeued" /\ at' = [at EXCEPT ![b] = "checking"] /\ entered' = TRUE
      /\ UNCHANGED <<result, stop, ledger, calls, lost, gate, sent, told>>
      /\ UNCHANGED <<job, cause, seen, collected, run, clock, crashed, badKey>>
  BY BatchIs DEF MarkRun, NoteEntered, Goto, Work, jobVars
<1>2. \A o \in Batch : at'[o] = IF o = b THEN "checking" ELSE at[o]
  BY <1>1 DEF TypeOK
<1>3. Moves(b)  BY <1>1, <1>2 DEF Moves, Traced, AtWorker
<1>4. Traced(b)' /\ Resolved(b)' /\ GateSound'
  BY <1>1, <1>2 DEF Traced, Resolved, GateSound, AtWorker, InCall
<1>5. Rejected(b)'  BY <1>1, <1>2 DEF Rejected
<1>6. NeverCalls => NeverCalls'  BY <1>1, <1>2 DEF NeverCalls, Past
<1>7. calls' \subseteq Exposed /\ at'[b] \notin Past /\ at[b] \in AtWorker
  BY <1>1, <1>2 DEF Exposed, Past, AtWorker
<1>8. QED  BY <1>1, <1>3, <1>4, <1>5, <1>6, <1>7, NoneAdded, WorkSound

\* A batch let past the flag is one of the workers', and what was called
\* before it either is still with a worker or had its rejection hidden.
LEMMA CheckStopIsSound == ASSUME BatchedInv, NEW b \in Batch, Work(b), CheckStop(b)
                          PROVE  BatchedInv'
<1>1. /\ TypeOK /\ Traced(b) /\ Resolved(b) /\ GateSound /\ lost \in Nat
      /\ at[b] = "checking" /\ calls \subseteq Batch
      /\ UNCHANGED <<stop, entered, ledger, calls, lost, gate, sent, told>>
      /\ UNCHANGED <<job, cause, seen, collected, run, clock, crashed, badKey>>
  BY BatchIs DEF CheckStop, Work, jobVars, TypeOK
<1>2. CASE stop
  <2>1. /\ \A o \in Batch : at'[o] = IF o = b THEN "done" ELSE at[o]
        /\ \A o \in Batch : result'[o] = IF o = b THEN "not_sent" ELSE result[o]
    BY <1>1, <1>2 DEF TypeOK, CheckStop, Resolve, Goto
  <2>2. Moves(b)  BY <1>1, <2>1 DEF Moves, Traced, AtWorker
  <2>3. Traced(b)' /\ Resolved(b)' /\ GateSound' /\ Rejected(b)'
    BY <1>1, <1>2, <2>1 DEF Traced, Resolved, Rejected, GateSound, AtWorker, InCall
  <2>4. NeverCalls => NeverCalls'  BY <1>1, <2>1 DEF NeverCalls, Past
  <2>5. /\ calls' \subseteq Exposed /\ at'[b] \notin Past /\ at[b] \in AtWorker
        /\ result'[b] # "error"
    BY <1>1, <2>1 DEF Exposed, Past, AtWorker
  <2>6. QED  BY <1>1, <2>2, <2>3, <2>4, <2>5, NoneAdded, WorkSound
<1>3. CASE ~stop
  <2>1. /\ \A o \in Batch : at'[o] = IF o = b THEN "redacting" ELSE at[o]
        /\ result' = result
    BY <1>1, <1>3 DEF TypeOK, CheckStop, Goto
  <2>2. Moves(b)  BY <1>1, <2>1 DEF Moves, Traced, AtWorker
  <2>3. Traced(b)' /\ Resolved(b)' /\ GateSound' /\ Rejected(b)'
    BY <1>1, <2>1 DEF Traced, Resolved, Rejected, GateSound, AtWorker, InCall
  <2>4. NeverCalls => NeverCalls'
    BY <1>1, <1>3, <2>1 DEF NeverCalls, Past
  <2>5. Cardinality(Working') <= MaxWorkers /\ Cardinality(Working') \in Nat
    <3>1. Working' = Working  BY <1>1, <2>1 DEF Working, AtWorker
    <3>2. QED
      BY <1>1, <3>1, CountedAreFinite, FS_CardinalityType DEF BatchedInv, CallsCounted
  <2>6. badKey => Cardinality(Masked') <= lost' /\ Cardinality(Masked') \in Nat
    <3>1. Masked' = Masked  BY <1>1, <2>1 DEF Masked
    <3>2. QED
      BY <1>1, <3>1, CountedAreFinite, FS_CardinalityType DEF BatchedInv, CallsCounted
  <2>7. badKey => Cardinality(Exposed') <= MaxWorkers + lost'
    <3>1. SUFFICES ASSUME badKey  PROVE Cardinality(Exposed') <= MaxWorkers + lost'
      OBVIOUS
    <3>2. Exposed' \subseteq Working' \cup Masked'
      <4>1. ASSUME NEW o \in calls  PROVE o \in Working' \cup Masked'
        <5>1. o \in Batch /\ Traced(o) /\ Rejected(o) /\ ~crashed
          BY <1>1, <3>1, <2>2 DEF BatchedInv, CallsCounted, Moves
        <5>2. o # b /\ at[o] \in InCall \cup {"done"}
          BY <1>1, <5>1 DEF Traced, InCall, Moves, BatchedInv, GateSound
        <5>3. at[o] = "done" => result[o] = "error"
          BY <1>3, <5>1 DEF Rejected
        <5>4. QED
          BY <1>1, <2>1, <5>1, <5>2, <5>3 DEF Working, Masked, InCall, AtWorker
      <4>2. \A o \in Batch : at'[o] \in Past => o \in Working'
        BY DEF Past, Working, AtWorker
      <4>3. QED  BY <1>1, <4>1, <4>2 DEF Exposed
    <3>3. IsFiniteSet(Working') /\ IsFiniteSet(Masked')
      <4>1. Working' = Working /\ Masked' = Masked
        BY <1>1, <2>1 DEF Working, Masked, AtWorker
      <4>2. QED  BY <1>1, <4>1, CountedAreFinite
    <3>4. /\ IsFiniteSet(Working' \cup Masked')
          /\ Cardinality(Working' \cup Masked')
               = Cardinality(Working') + Cardinality(Masked')
                 - Cardinality(Working' \cap Masked')
      BY <3>3, FS_Union
    <3>5. Cardinality(Working' \cap Masked') \in Nat
      BY <3>3, FS_Subset, FS_CardinalityType
    <3>6. Cardinality(Exposed') <= Cardinality(Working' \cup Masked')
          /\ Cardinality(Exposed') \in Nat /\ Cardinality(Working' \cup Masked') \in Nat
      BY <3>2, <3>4, NoMore
    <3>7. QED
      BY <1>1, <2>5, <2>6, <3>1, <3>4, <3>5, <3>6, BatchedAssumption
  <2>8. QED  BY <2>2, <2>3, <2>4, <2>5, <2>6, <2>7, WorkSound
<1>4. QED  BY <1>2, <1>3, <1>1 DEF TypeOK
\* A refusal is told what had been sent before it.
LEMMA RedactIsSound == ASSUME BatchedInv, NEW b \in Batch, Work(b), Redact(b)
                       PROVE  BatchedInv'
<1>1. /\ TypeOK /\ Traced(b) /\ Resolved(b) /\ GateSound /\ lost \in Nat
      /\ at[b] = "redacting" /\ calls \subseteq Batch /\ entered' = TRUE
      /\ UNCHANGED <<stop, ledger, calls, lost>>
      /\ UNCHANGED <<job, cause, seen, collected, run, clock, crashed, badKey>>
  BY BatchIs DEF Redact, Work, jobVars, TypeOK
<1>2. \/ /\ gate = "open" /\ sent' = TRUE /\ UNCHANGED <<result, gate, told>>
         /\ at' = [at EXCEPT ![b] = "cleared"]
      \/ /\ UNCHANGED sent /\ at' = [at EXCEPT ![b] = "done"]
         /\ \/ /\ gate = "open" /\ gate' = "refused" /\ told' = sent
               /\ result' = [result EXCEPT ![b] = "refused"]
            \/ /\ gate # "open" /\ UNCHANGED <<gate, told>>
               /\ result' = [result EXCEPT ![b] = "refused"]
            \/ /\ result' = [result EXCEPT ![b] = "error"]
               /\ UNCHANGED <<gate, told>>
  BY DEF Redact, Resolve, Goto
<1>3. /\ \A o \in Batch \ {b} : at'[o] = at[o] /\ result'[o] = result[o]
      /\ at'[b] \in {"cleared", "done"} /\ b \notin calls
  BY <1>1, <1>2 DEF TypeOK, Traced, InCall
<1>4. Moves(b)
  BY <1>1, <1>2, <1>3 DEF Moves, Traced, AtWorker
<1>5. Traced(b)' /\ Resolved(b)' /\ Rejected(b)'
  BY <1>1, <1>2, <1>3 DEF TypeOK, Traced, Resolved, Rejected, AtWorker, InCall
<1>6. GateSound'  BY <1>1, <1>2 DEF GateSound
<1>7. NeverCalls => NeverCalls'
  BY <1>1, <1>2 DEF NeverCalls, Past
<1>8. calls' \subseteq Exposed /\ at[b] \in AtWorker \cap Past /\ b \notin calls'
  BY <1>1, <1>3 DEF Exposed, Past, AtWorker
<1>9. QED  BY <1>1, <1>4, <1>5, <1>6, <1>7, <1>8, NoneAdded, WorkSound

\* No call is made without its row.
LEMMA CallProviderIsSound ==
  ASSUME BatchedInv, NEW b \in Batch, Work(b), CallProvider(b)
  PROVE  BatchedInv'
<1>1. /\ TypeOK /\ Traced(b) /\ Resolved(b) /\ GateSound /\ lost \in Nat
      /\ at[b] = "cleared" /\ calls \subseteq Batch
      /\ UNCHANGED <<stop, entered, gate, sent, told>>
      /\ UNCHANGED <<job, cause, seen, collected, run, clock, crashed, badKey>>
  BY BatchIs DEF CallProvider, Work, jobVars, TypeOK
<1>2. \/ /\ calls' = calls \cup {b} /\ UNCHANGED <<result, lost>>
         /\ ledger' = [ledger EXCEPT ![b] = "running"]
         /\ at' = [at EXCEPT ![b] = "inflight"]
      \/ /\ lost' = lost + 1 /\ UNCHANGED <<ledger, calls>>
         /\ at' = [at EXCEPT ![b] = "done"]
         /\ result' = [result EXCEPT ![b] = "error"]
  BY DEF CallProvider, OpenRow, LoseCommit, Resolve, Goto
<1>3. /\ \A o \in Batch \ {b} : /\ at'[o] = at[o] /\ result'[o] = result[o]
                                /\ ledger'[o] = ledger[o]
                                /\ (o \in calls' <=> o \in calls)
      /\ at'[b] \in {"inflight", "done"} /\ b \notin calls /\ lost' >= lost
      /\ result[b] = "none"
  BY <1>1, <1>2 DEF TypeOK, Traced, Resolved, InCall
<1>4. Moves(b)
  BY <1>1, <1>2, <1>3 DEF Moves, Traced, AtWorker
<1>5. Traced(b)'
  BY <1>1, <1>2, <1>3 DEF TypeOK, Traced, AtWorker, InCall
<1>6. Resolved(b)' /\ Rejected(b)'
  BY <1>1, <1>2, <1>3 DEF TypeOK, Resolved, Rejected, InCall
<1>7. GateSound'  BY <1>1, <1>2 DEF GateSound
<1>8. NeverCalls => NeverCalls'
  BY <1>1 DEF NeverCalls, Past, Traced
<1>9. /\ calls' \subseteq Exposed /\ at[b] \in AtWorker \cap Past
      /\ (b \in calls' => result'[b] # "error")
  BY <1>1, <1>2, <1>3 DEF Exposed, Past, AtWorker
<1>10. QED
  BY <1>1, <1>3, <1>4, <1>5, <1>6, <1>7, <1>8, <1>9, NoneAdded, WorkSound

\* A rejected key answers nothing else.
LEMMA ProviderEndsIsSound ==
  ASSUME BatchedInv, NEW b \in Batch, Work(b), ProviderEnds(b)
  PROVE  BatchedInv'
<1>1. /\ TypeOK /\ Traced(b) /\ Resolved(b) /\ GateSound /\ lost \in Nat
      /\ at[b] = "inflight" /\ calls \subseteq Batch
      /\ at' = [at EXCEPT ![b] = "closing"]
      /\ UNCHANGED <<stop, entered, ledger, calls, lost, gate, sent, told>>
      /\ UNCHANGED <<job, cause, seen, collected, run, clock, crashed, badKey>>
  BY BatchIs DEF ProviderEnds, Goto, Work, jobVars, TypeOK
<1>2. PICK r \in IF badKey THEN {"rejected"} ELSE {"answer", "error"} :
        result' = [result EXCEPT ![b] = r]
  BY DEF ProviderEnds
<1>3. /\ \A o \in Batch \ {b} : at'[o] = at[o] /\ result'[o] = result[o]
      /\ at'[b] = "closing" /\ result'[b] = r
      /\ r \in {"rejected", "answer", "error"}
      /\ badKey => r = "rejected"
  BY <1>1, <1>2 DEF TypeOK
<1>4. Moves(b)
  BY <1>1, <1>3 DEF Moves, Traced, AtWorker
<1>5. Traced(b)'
  BY <1>1, <1>3 DEF Traced, AtWorker, InCall
<1>6. Resolved(b)' /\ (badKey => Rejected(b)')
  BY <1>1, <1>2, <1>3 DEF Resolved, Rejected, InCall
<1>7. GateSound'  BY <1>1 DEF GateSound
<1>8. NeverCalls => NeverCalls'
  BY <1>1, <1>3 DEF NeverCalls, Past, Traced, InCall
<1>9. /\ calls' \subseteq Exposed /\ at[b] \in AtWorker \cap Past
      /\ (badKey => result'[b] # "error")
  BY <1>1, <1>2, <1>3 DEF Exposed, Past, AtWorker
<1>10. QED
  BY <1>1, <1>4, <1>5, <1>6, <1>7, <1>8, <1>9, NoneAdded, WorkSound

\* A row closes as its batch ended, or its commit is lost.
LEMMA CloseRowIsSound == ASSUME BatchedInv, NEW b \in Batch, Work(b), CloseRow(b)
                         PROVE  BatchedInv'
<1>1. /\ TypeOK /\ Traced(b) /\ Resolved(b) /\ GateSound /\ lost \in Nat
      /\ badKey => Rejected(b)
      /\ at[b] = "closing" /\ calls \subseteq Batch /\ b \in calls
      /\ at' = [at EXCEPT ![b] = "reporting"]
      /\ UNCHANGED <<stop, entered, calls, gate, sent, told>>
      /\ UNCHANGED <<job, cause, seen, collected, run, clock, crashed, badKey>>
  BY BatchIs DEF CloseRow, Goto, Work, jobVars, TypeOK, Traced, InCall
<1>2. \/ /\ ledger' = [ledger EXCEPT ![b] = Outcome(b)] /\ UNCHANGED <<result, lost>>
      \/ /\ lost' = lost + 1 /\ UNCHANGED ledger
         /\ result' = [result EXCEPT ![b] = "error"]
  BY DEF CloseRow, LoseCommit
<1>3. /\ \A o \in Batch \ {b} : /\ at'[o] = at[o] /\ result'[o] = result[o]
                                /\ ledger'[o] = ledger[o]
      /\ at'[b] = "reporting" /\ lost' >= lost
      /\ result'[b] \in {result[b], "error"}
      /\ (ledger'[b] = "completed" <=> result'[b] = "answer") /\ ledger'[b] # "none"
  BY <1>1, <1>2 DEF TypeOK, Traced, Outcome
<1>4. Moves(b)
  BY <1>1, <1>3 DEF Moves, Traced, AtWorker
<1>5. Traced(b)'
  BY <1>1, <1>3 DEF Traced, AtWorker, InCall
<1>6. Resolved(b)' /\ (badKey => Rejected(b)')
  BY <1>1, <1>3 DEF Resolved, Rejected, InCall
<1>7. GateSound'  BY <1>1 DEF GateSound
<1>8. NeverCalls => NeverCalls'
  BY <1>1 DEF NeverCalls
<1>9. calls' \subseteq Exposed /\ at[b] \in AtWorker \cap Past
  BY <1>1 DEF Exposed, Past, AtWorker
<1>10. CASE UNCHANGED <<result, lost>>
  BY <1>1, <1>3, <1>4, <1>5, <1>6, <1>7, <1>8, <1>9, <1>10, NoneAdded, WorkSound
<1>11. CASE lost' = lost + 1
  <2>1. Working' \subseteq Working /\ Exposed' \subseteq Exposed
        /\ Masked' \subseteq Masked \cup {b}
    BY <1>1, <1>3 DEF Working, Exposed, Masked, Past, AtWorker
  <2>2. Cardinality(Working') <= Cardinality(Working) /\ Cardinality(Working') \in Nat
        /\ Cardinality(Working) \in Nat
    BY <1>1, <2>1, CountedAreFinite, NoMore
  <2>3. Cardinality(Exposed') <= Cardinality(Exposed) /\ Cardinality(Exposed') \in Nat
        /\ Cardinality(Exposed) \in Nat
    BY <1>1, <2>1, CountedAreFinite, NoMore
  <2>4. Cardinality(Masked') <= Cardinality(Masked) + 1 /\ Cardinality(Masked') \in Nat
        /\ Cardinality(Masked) \in Nat
    BY <1>1, <2>1, CountedAreFinite, OneMore, FS_CardinalityType
  <2>5. /\ Cardinality(Working') <= MaxWorkers
        /\ badKey => /\ Cardinality(Masked') <= lost'
                     /\ Cardinality(Exposed') <= MaxWorkers + lost'
    BY <1>1, <1>11, <2>2, <2>3, <2>4, BatchedAssumption DEF BatchedInv, CallsCounted
  <2>6. QED  BY <1>4, <1>5, <1>6, <1>7, <1>8, <2>5, WorkSound
<1>12. QED  BY <1>2, <1>10, <1>11

\* A worker that saw a rejection sets the flag before it is free again.
LEMMA ReportIsSound == ASSUME BatchedInv, NEW b \in Batch, Work(b), Report(b)
                       PROVE  BatchedInv'
<1>1. /\ TypeOK /\ Traced(b) /\ Resolved(b) /\ GateSound /\ lost \in Nat
      /\ badKey => Rejected(b)
      /\ at[b] = "reporting" /\ calls \subseteq Batch /\ b \in calls
      /\ at' = [at EXCEPT ![b] = "done"] /\ stop' = (stop \/ result[b] = "rejected")
      /\ UNCHANGED <<entered, ledger, calls, gate, sent, told>>
      /\ UNCHANGED <<job, cause, seen, collected, run, clock, crashed, badKey>>
  BY BatchIs DEF Report, Resolve, StopOnRejection, Goto, Work, jobVars, TypeOK,
                 Traced, InCall
<1>2. \/ result' = [result EXCEPT ![b] = result[b]] /\ UNCHANGED lost
      \/ /\ result[b] = "answer" /\ lost' = lost + 1
         /\ result' = [result EXCEPT ![b] = "error"]
  BY DEF Report, Resolve, LoseCommit
<1>3. /\ \A o \in Batch \ {b} : at'[o] = at[o] /\ result'[o] = result[o]
      /\ at'[b] = "done" /\ lost' >= lost
      /\ (result[b] = "answer" /\ result'[b] = "error") \/ result'[b] = result[b]
      /\ result[b] \notin {"none", "refused", "not_sent"}
  BY <1>1, <1>2 DEF TypeOK, Resolved, InCall
<1>4. Moves(b)
  BY <1>1, <1>3 DEF Moves, Traced, AtWorker
<1>5. Traced(b)'
  BY <1>1, <1>3 DEF Traced, AtWorker, InCall
<1>6. Resolved(b)' /\ (badKey => Rejected(b)')
  BY <1>1, <1>3 DEF Resolved, Rejected, InCall
<1>7. GateSound'  BY <1>1 DEF GateSound
<1>8. NeverCalls => NeverCalls'
  BY <1>1 DEF NeverCalls
<1>9. calls' \subseteq Exposed /\ at[b] \in AtWorker /\ at'[b] \notin Past
  BY <1>1, <1>3 DEF Exposed, Past, AtWorker
<1>10. badKey /\ result'[b] = "error" => result[b] = "error"
  BY <1>1, <1>3 DEF Rejected
<1>11. QED
  BY <1>1, <1>3, <1>4, <1>5, <1>6, <1>7, <1>8, <1>9, <1>10, NoneAdded, WorkSound
---------------------------------------------------------------------------
(* The job's thread.                                                       *)

\* A step of the job that leaves the batches to their workers.
LEMMA JobStep ==
  ASSUME BatchedInv, JobSteps \/ Interrupted, UNCHANGED <<workVars, crashed, badKey>>,
         collected' \subseteq {b \in Batch : at[b] = "done" /\ result[b] # "refused"},
         JobSound', GateSound', SaysNo' => NeverCalls
  PROVE  BatchedInv'
<1>1. UNCHANGED <<at, result, stop, entered, ledger, calls, lost, gate, sent, told>>
  BY DEF workVars
<1>2. TypeOK'  BY OtherTyped DEF BatchedInv
<1>3. ASSUME NEW b \in Batch  PROVE Traced(b)' /\ Resolved(b)' /\ (Rejected(b) => Rejected(b)')
  BY <1>1 DEF BatchedInv, Traced, Resolved, Rejected
<1>4. Working' = Working /\ Exposed' = Exposed /\ Masked' = Masked
  BY <1>1 DEF Working, Exposed, Masked
<1>5. CallsCounted'
  BY <1>1, <1>3, <1>4 DEF BatchedInv, CallsCounted
<1>6. ChargeSound'
  BY <1>1 DEF ChargeSound, NeverCalls
<1>7. QED  BY <1>2, <1>3, <1>5, <1>6 DEF BatchedInv

\* What the invariant says of the job.
LEMMA JobIs ==
  ASSUME BatchedInv
  PROVE  /\ TypeOK /\ JobSound /\ GateSound /\ (SaysNo => NeverCalls)
         /\ collected \subseteq {b \in Batch : at[b] = "done" /\ result[b] # "refused"}
         /\ Batch # {} /\ 1 \in Batch
<1>1. 1 \in Batch  BY BatchedAssumption DEF Batch
<1>2. collected \subseteq Batch  BY DEF BatchedInv, TypeOK
<1>3. QED  BY <1>1, <1>2 DEF BatchedInv, ChargeSound, Resolved

\* What is raised in the collector waits for the stop.
LEMMA RaisedIsSound ==
  ASSUME BatchedInv, JobSteps \/ Interrupted, UNCHANGED <<clock, crashed, badKey>>,
         NEW why, Raised(why), job = "collecting",
         why = "refused" => \E b \in Batch : result[b] = "refused"
  PROVE  BatchedInv'
<1>1. /\ UNCHANGED <<workVars, seen, collected, run>> /\ job' = "stopping" /\ cause' = why
      /\ UNCHANGED <<at, result, stop, gate, told, sent>>
  BY DEF Raised, workVars
<1>2. JobSound'
  BY <1>1, JobIs DEF JobSound, Usable
<1>3. GateSound' /\ (SaysNo' => NeverCalls)
  BY <1>1, JobIs DEF GateSound, SaysNo
<1>4. QED  BY <1>1, <1>2, <1>3, JobIs, JobStep

\* A refusal is never collected.
LEMMA CollectIsSound ==
  ASSUME BatchedInv, JobSteps, UNCHANGED <<clock, crashed, badKey>>,
         NEW b \in Batch, Collect(b)
  PROVE  BatchedInv'
<1>1. CASE Raised("deadline")
  BY <1>1, RaisedIsSound DEF Collect
<1>2. CASE RefusalFailsRun(b) /\ Raised("refused")
  BY <1>2, RaisedIsSound DEF Collect, RefusalFailsRun
<1>3. CASE ~RefusalFailsRun(b) /\ collected' = collected \cup {b}
           /\ UNCHANGED <<job, cause, seen, run, workVars>>
  <2>1. UNCHANGED <<at, result, stop, gate, told, sent>>  BY <1>3 DEF workVars
  <2>2. collected' \subseteq {o \in Batch : at[o] = "done" /\ result[o] # "refused"}
    BY <1>3, JobIs DEF Collect, RefusalFailsRun
  <2>3. JobSound'
    BY <1>3, <2>1, JobIs DEF JobSound, Usable, Collect, TypeOK
  <2>4. GateSound' /\ (SaysNo' => NeverCalls)
    BY <1>3, <2>1, JobIs DEF GateSound, SaysNo
  <2>5. QED  BY <1>3, <2>2, <2>3, <2>4, JobStep
<1>4. QED  BY <1>1, <1>2, <1>3 DEF Collect

\* If every batch was stopped, one was rejected: something failed.
LEMMA GatherIsSound ==
  ASSUME BatchedInv, JobSteps, UNCHANGED <<clock, crashed, badKey>>, Gather
  PROVE  BatchedInv'
<1>1. /\ UNCHANGED <<workVars, seen, collected, run>> /\ job = "collecting"
      /\ collected = Batch
      /\ UNCHANGED <<at, result, stop, gate, told, sent>>
  BY DEF Gather, workVars
<1>2. GateSound' /\ (SaysNo' => NeverCalls)
  BY <1>1, JobIs DEF GateSound, SaysNo, Gather
<1>3. CASE NothingUsable
  <2>1. JobSound'
    BY <1>1, <1>3, JobIs DEF JobSound, Usable, Gather
  <2>2. QED  BY <1>1, <1>2, <2>1, JobIs, JobStep
<1>4. CASE ~NothingUsable
  <2>1. Usable
    <3>1. SUFFICES ASSUME Answers = {}  PROVE FALSE
      BY <1>1 DEF Usable, Answers
    <3>2. \A b \in Batch : result[b] = "not_sent"
      BY <1>1, <1>4, <3>1 DEF NothingUsable
    <3>3. stop  BY <3>2, JobIs DEF BatchedInv, Resolved
    <3>4. PICK b \in Batch : result[b] = "rejected"
      BY <1>1, <3>3, JobIs DEF JobSound
    <3>5. QED  BY <3>2, <3>4
  <2>2. job' = "applying" /\ UNCHANGED cause  BY <1>4 DEF Gather
  <2>3. JobSound'
    BY <1>1, <2>1, <2>2, JobIs DEF JobSound, Usable
  <2>4. QED  BY <1>1, <1>2, <2>3, JobIs, JobStep
<1>5. QED  BY <1>3, <1>4

\* A run is applied only with an answer, and never says it cost nothing.
LEMMA ApplyIsSound ==
  ASSUME BatchedInv, JobSteps, UNCHANGED <<clock, crashed, badKey>>, Apply
  PROVE  BatchedInv'
<1>1. /\ UNCHANGED <<workVars, seen, collected>> /\ job = "applying" /\ Usable
      /\ UNCHANGED <<at, result, stop, gate, told, sent, entered>>
  BY JobIs DEF Apply, workVars, JobSound
<1>2. entered
  <2>1. 1 \in Batch /\ at[1] = "done"  BY <1>1, JobIs DEF Usable
  <2>2. QED  BY <2>1 DEF BatchedInv, Traced
<1>3. \/ /\ job' = "finally" /\ UNCHANGED cause
         /\ run' = IF run.status # "RUNNING" THEN run
                   ELSE [status |-> "COMPLETED", charged |-> ChargedLikely]
      \/ job' = "raised" /\ cause' = "error" /\ UNCHANGED run
  BY <1>2 DEF Apply
<1>4. JobSound'
  BY <1>1, <1>3, JobIs DEF JobSound, Usable
<1>5. GateSound'
  BY <1>1, <1>3, JobIs DEF GateSound
<1>6. SaysNo' => NeverCalls
  BY <1>3, JobIs DEF SaysNo, ChargedLikely
<1>7. QED  BY <1>1, <1>4, <1>5, <1>6, JobIs, JobStep

\* A refusal before anything was sent: the gate is shut, nothing cleared.
LEMMA JudgeLedgerIsSound ==
  ASSUME BatchedInv, JobSteps, UNCHANGED <<clock, crashed, badKey>>, JudgeLedger
  PROVE  BatchedInv'
<1>1. /\ UNCHANGED <<workVars, cause, collected, run>> /\ job = "raised"
      /\ UNCHANGED <<at, result, stop, gate, told, sent, calls>>
  BY DEF JudgeLedger, workVars
<1>2. \/ cause = "refused" /\ ~told /\ seen' = "no" /\ job' = "ending"
      \/ seen' = ChargedLikely /\ job' = "judging"
  BY DEF JudgeLedger
<1>3. JobSound'
  BY <1>1, <1>2, JobIs DEF JobSound, Usable, ChargedLikely
<1>4. GateSound'
  BY <1>1, JobIs DEF GateSound
<1>5. SaysNo' => NeverCalls
  <2>1. SUFFICES ASSUME run.status = "RUNNING", cause = "refused", ~told
                 PROVE  NeverCalls
    BY <1>1, <1>2, JobIs DEF SaysNo
  <2>2. gate = "refused"
    <3>1. gate # "over"  BY <1>1, <2>1, JobIs DEF GateSound, JobSound
    <3>2. PICK b \in Batch : result[b] = "refused"  BY <2>1, JobIs DEF JobSound
    <3>3. gate # "open"  BY <3>2 DEF BatchedInv, Resolved
    <3>4. QED  BY <3>1, <3>3, JobIs DEF TypeOK
  <2>3. ~sent  BY <2>1, <2>2, JobIs DEF GateSound
  <2>4. calls = {}
    BY <2>3, JobIs DEF BatchedInv, Traced, TypeOK
  <2>5. QED  BY <2>2, <2>3, <2>4 DEF NeverCalls
<1>6. QED  BY <1>1, <1>3, <1>4, <1>5, JobIs, JobStep

\* No mark, once the flag is set: no batch has passed it or will.
LEMMA JudgeMarkIsSound ==
  ASSUME BatchedInv, JobSteps, UNCHANGED <<clock, crashed, badKey>>, JudgeMark
  PROVE  BatchedInv'
<1>1. /\ UNCHANGED <<workVars, cause, collected, run>> /\ job = "judging"
      /\ UNCHANGED <<at, result, stop, gate, told, sent, calls>>
      /\ job' = "ending" /\ seen' = IF seen = "unknown" /\ ~entered THEN "no" ELSE seen
  BY DEF JudgeMark, workVars
<1>2. JobSound'
  BY <1>1, JobIs DEF JobSound, Usable
<1>3. GateSound'
  BY <1>1, JobIs DEF GateSound
<1>4. SaysNo' => NeverCalls
  <2>1. SUFFICES ASSUME ~entered  PROVE NeverCalls
    BY <1>1, JobIs DEF SaysNo, JobSound
  <2>2. \A b \in Batch : at[b] \notin (AtWorker \ {"dequeued"}) \cup {"done"}
    BY <2>1 DEF BatchedInv, Traced
  <2>3. \A b \in Batch : at[b] # "dead"
    BY <1>1, JobIs DEF BatchedInv, Traced, JobSound
  <2>4. calls = {}
    BY <2>2, <2>3, JobIs DEF BatchedInv, Traced, TypeOK, InCall, AtWorker
  <2>5. \A b \in Batch : at[b] \notin Past
    BY <2>2 DEF Past, AtWorker
  <2>6. stop
    BY <1>1, <2>2, JobIs DEF JobSound
  <2>7. QED  BY <2>4, <2>5, <2>6 DEF NeverCalls
<1>5. QED  BY <1>1, <1>2, <1>3, <1>4, JobIs, JobStep

\* A failed run records the verdict the job made.
LEMMA EndFailedIsSound ==
  ASSUME BatchedInv, JobSteps, UNCHANGED <<clock, crashed, badKey>>, EndFailed
  PROVE  BatchedInv'
<1>1. /\ UNCHANGED <<workVars, cause, seen, collected>> /\ job = "ending"
      /\ UNCHANGED <<at, result, stop, gate, told, sent>> /\ job' = "finally"
      /\ run' = IF run.status # "RUNNING" THEN run
                ELSE [status |-> "FAILED", charged |-> seen]
  BY DEF EndFailed, workVars
<1>2. JobSound'
  BY <1>1, JobIs DEF JobSound, Usable
<1>3. GateSound'
  BY <1>1, JobIs DEF GateSound
<1>4. SaysNo' => NeverCalls
  BY <1>1, JobIs DEF SaysNo
<1>5. QED  BY <1>1, <1>2, <1>3, <1>4, JobIs, JobStep
---------------------------------------------------------------------------
(* The stop, the end of the run, a restart and a reap.                     *)

\* What cancels, kills or closes takes batches out of the count, and adds no
\* call and no trace of one.
Withdraws ==
  /\ TypeOK'
  /\ \A b \in Batch : at'[b] = at[b] \/ at'[b] \in {"cancelled", "dead"}
  /\ \A b \in Batch : at[b] = "done" => at'[b] = "done"
  /\ UNCHANGED <<result, entered, calls, lost, sent, told, collected, badKey>>
  /\ (stop => stop') /\ gate' \in {gate, "over"}

\* Such a step is sound if it is for each batch and for the job.
LEMMA WithdrawSound ==
  ASSUME BatchedInv, Withdraws,
         \A b \in Batch : Traced(b)' /\ Resolved(b)', JobSound', GateSound',
         SaysNo' => NeverCalls
  PROVE  BatchedInv'
<1>1. /\ TypeOK /\ lost \in Nat /\ MaxWorkers \in Nat
  BY BatchedAssumption DEF BatchedInv, TypeOK
<1>2. Working' \subseteq Working /\ Exposed' \subseteq Exposed /\ Masked' = Masked
  BY DEF Withdraws, Working, Exposed, Masked, Past, AtWorker
<1>3. Cardinality(Working') <= Cardinality(Working) /\ Cardinality(Working') \in Nat
      /\ Cardinality(Working) \in Nat
  BY <1>1, <1>2, CountedAreFinite, NoMore
<1>4. Cardinality(Exposed') <= Cardinality(Exposed) /\ Cardinality(Exposed') \in Nat
      /\ Cardinality(Exposed) \in Nat
  BY <1>1, <1>2, CountedAreFinite, NoMore
<1>5. badKey => \A b \in Batch : Rejected(b)'
  <2>1. ASSUME NEW b \in Batch, Rejected(b)  PROVE Rejected(b)'
    <3>1. at'[b] = at[b] \/ at'[b] \in {"cancelled", "dead"}  BY DEF Withdraws
    <3>2. QED  BY <2>1, <3>1 DEF Withdraws, Rejected
  <2>2. QED  BY <2>1 DEF BatchedInv, CallsCounted
<1>6. CallsCounted'
  BY <1>1, <1>2, <1>3, <1>4, <1>5 DEF BatchedInv, CallsCounted, Withdraws
<1>7. NeverCalls => NeverCalls'
  <2>1. ASSUME NEW b \in Batch, at[b] \notin Past  PROVE at'[b] \notin Past
    <3>1. at'[b] = at[b] \/ at'[b] \in {"cancelled", "dead"}  BY DEF Withdraws
    <3>2. QED  BY <2>1, <3>1 DEF Past
  <2>2. QED  BY <2>1 DEF Withdraws, NeverCalls
<1>8. ChargeSound'  BY <1>7 DEF ChargeSound
<1>9. QED  BY <1>6, <1>8 DEF BatchedInv, Withdraws

\* The flag is set and the queue cancelled.
LEMMA StopAndCancelIsSound ==
  ASSUME BatchedInv, JobSteps, UNCHANGED <<clock, crashed, badKey>>, StopAndCancel
  PROVE  BatchedInv'
<1>1. /\ TypeOK /\ stop' = TRUE /\ job = "stopping" /\ job' = "raised"
      /\ UNCHANGED <<result, entered, ledger, calls, lost, gate, sent, told>>
      /\ UNCHANGED <<cause, seen, collected, run>>
      /\ \A b \in Batch : at'[b] = IF at[b] = "queued" THEN "cancelled" ELSE at[b]
  BY DEF StopAndCancel, SetStop, BatchedInv
<1>2. Withdraws
  <2>1. TypeOK'  BY OtherTyped DEF BatchedInv
  <2>2. QED  BY <1>1, <2>1 DEF Withdraws
<1>3. ASSUME NEW b \in Batch  PROVE Traced(b)' /\ Resolved(b)'
  <2>1. Traced(b) /\ Resolved(b)  BY DEF BatchedInv
  <2>2. at'[b] = IF at[b] = "queued" THEN "cancelled" ELSE at[b]  BY <1>1
  <2>3. Traced(b)'
    BY <1>1, <2>1, <2>2 DEF Traced, InCall, AtWorker
  <2>4. Resolved(b)'  BY <1>1, <2>1, <2>2 DEF Resolved, InCall
  <2>5. QED  BY <2>3, <2>4
<1>4. JobSound'
  BY <1>1, JobIs DEF JobSound, Usable
<1>5. GateSound' /\ (SaysNo' => NeverCalls)
  BY <1>1, JobIs DEF GateSound, SaysNo
<1>6. QED  BY <1>2, <1>3, <1>4, <1>5, WithdrawSound

\* The gate closes on a run that has ended.
LEMMA ReleasePlaceIsSound ==
  ASSUME BatchedInv, JobSteps, UNCHANGED <<clock, crashed, badKey>>, ReleasePlace
  PROVE  BatchedInv'
<1>1. /\ gate' = "over" /\ job = "finally" /\ job' = "closed"
      /\ UNCHANGED <<at, result, stop, entered, ledger, calls, lost, sent, told>>
      /\ UNCHANGED <<cause, seen, collected, run>>
  BY DEF ReleasePlace
<1>2. Withdraws
  <2>1. TypeOK'  BY OtherTyped DEF BatchedInv
  <2>2. QED  BY <1>1, <2>1 DEF Withdraws
<1>3. \A b \in Batch : Traced(b)' /\ Resolved(b)'
  BY <1>1 DEF BatchedInv, Traced, Resolved
<1>4. JobSound'
  BY <1>1, JobIs DEF JobSound, Usable
<1>5. GateSound' /\ (SaysNo' => NeverCalls)
  BY <1>1, JobIs DEF GateSound, SaysNo, JobSound
<1>6. QED  BY <1>2, <1>3, <1>4, <1>5, WithdrawSound

\* A crash takes the threads, and leaves what was committed.
LEMMA CrashIsSound == ASSUME BatchedInv, Crash  PROVE BatchedInv'
<1>1. /\ TypeOK /\ crashed' = TRUE /\ job' = "dead" /\ gate' = "over"
      /\ UNCHANGED <<result, stop, entered, ledger, calls, lost, sent, told>>
      /\ UNCHANGED <<cause, seen, collected, run, clock, badKey>>
      /\ \A b \in Batch : at'[b] = IF at[b] \in {"done", "cancelled"} THEN at[b]
                                   ELSE "dead"
  BY DEF Crash, BatchedInv
<1>2. Withdraws
  <2>1. TypeOK'  BY OtherTyped DEF BatchedInv
  <2>2. QED  BY <1>1, <2>1 DEF Withdraws
<1>3. ASSUME NEW b \in Batch  PROVE Traced(b)' /\ Resolved(b)'
  <2>1. Traced(b) /\ Resolved(b)  BY DEF BatchedInv
  <2>2. at'[b] = IF at[b] \in {"done", "cancelled"} THEN at[b] ELSE "dead"  BY <1>1
  <2>3. Traced(b)'
    BY <1>1, <2>1, <2>2 DEF Traced, InCall, AtWorker
  <2>4. Resolved(b)'  BY <1>1, <2>1, <2>2 DEF Resolved, InCall
  <2>5. QED  BY <2>3, <2>4
<1>4. JobSound'
  BY <1>1, JobIs DEF JobSound, Usable
<1>5. GateSound' /\ (SaysNo' => NeverCalls)
  BY <1>1, JobIs DEF GateSound, SaysNo
<1>6. QED  BY <1>2, <1>3, <1>4, <1>5, WithdrawSound

\* A reap never records that nothing was sent.
LEMMA ReapIsSound == ASSUME BatchedInv, Reap  PROVE BatchedInv'
<1>1. /\ TypeOK /\ gate' = "over" /\ run' = [status |-> "FAILED", charged |-> ChargedLikely]
      /\ UNCHANGED <<at, result, stop, entered, calls, lost, sent, told>>
      /\ UNCHANGED <<job, cause, seen, collected, clock, crashed, badKey>>
      /\ \A b \in Batch : ledger'[b] = IF ledger[b] = "running" THEN "failed"
                                       ELSE ledger[b]
  BY DEF Reap, BatchedInv
<1>2. Withdraws
  <2>1. TypeOK'  BY OtherTyped DEF BatchedInv
  <2>2. QED  BY <1>1, <2>1 DEF Withdraws
<1>3. \A b \in Batch : Traced(b)' /\ Resolved(b)'
  BY <1>1 DEF BatchedInv, Traced, Resolved
<1>4. JobSound'
  BY <1>1, JobIs DEF JobSound, Usable
<1>5. GateSound'
  BY <1>1, JobIs DEF GateSound
<1>6. SaysNo' => NeverCalls
  BY <1>1 DEF SaysNo, ChargedLikely
<1>7. QED  BY <1>2, <1>3, <1>4, <1>5, <1>6, WithdrawSound

---------------------------------------------------------------------------
(* The theorems.                                                           *)

\* The invariant holds at first, and after every step.
LEMMA InitIsSound == Init => BatchedInv
<1>1. SUFFICES ASSUME Init  PROVE BatchedInv  OBVIOUS
<1>2. TypeOK
  <2>1. {stop, entered, sent, told, crashed, badKey} \subseteq BOOLEAN
    BY <1>1 DEF Init
  <2>2. lost \in 0..MaxLost  BY <1>1, BatchedAssumption DEF Init
  <2>3. run \in [status : {"RUNNING", "COMPLETED", "FAILED"}, charged : Charge]
    BY <1>1 DEF Init, Charge
  <2>4. QED  BY <1>1, <2>1, <2>2, <2>3 DEF Init, TypeOK, Charge
<1>3. \A b \in Batch : Traced(b) /\ Resolved(b)
  BY <1>1 DEF Init, Traced, Resolved, InCall, AtWorker
<1>4. JobSound /\ GateSound /\ ChargeSound
  BY <1>1, BatchedAssumption
  DEF Init, JobSound, GateSound, ChargeSound, SaysNo, Usable, Batch
<1>5. Working = {} /\ Exposed = {} /\ Masked = {}
  BY <1>1 DEF Init, Working, Exposed, Masked, Past, AtWorker
<1>6. \A b \in Batch : Rejected(b)
  BY <1>1 DEF Init, Rejected
<1>7. CallsCounted
  <2>1. Cardinality({}) = 0  BY FS_EmptySet
  <2>2. QED  BY <1>1, <1>5, <1>6, <2>1, BatchedAssumption DEF CallsCounted, Init
<1>8. QED  BY <1>2, <1>3, <1>4, <1>7 DEF BatchedInv

\* Every step of a worker, of the job or of the environment keeps it.
LEMMA NextIsSound == BatchedInv /\ [Next]_vars => BatchedInv'
<1>1. SUFFICES ASSUME BatchedInv, [Next]_vars  PROVE BatchedInv'  OBVIOUS
<1>2. ASSUME NEW b \in Batch, Work(b)  PROVE BatchedInv'
  BY <1>1, <1>2, DequeueIsSound, MarkRunIsSound, CheckStopIsSound, RedactIsSound,
     CallProviderIsSound, ProviderEndsIsSound, CloseRowIsSound, ReportIsSound DEF Work
<1>3. ASSUME JobSteps  PROVE BatchedInv'
  <2>1. UNCHANGED <<clock, crashed, badKey>>  BY <1>3 DEF JobSteps
  <2>2. CASE DeadlinePasses
    BY <1>1, <1>3, <2>1, <2>2, RaisedIsSound DEF DeadlinePasses
  <2>3. QED
    BY <1>1, <1>3, <2>1, <2>2, CollectIsSound, StopAndCancelIsSound, GatherIsSound,
       ApplyIsSound, JudgeLedgerIsSound, JudgeMarkIsSound, EndFailedIsSound,
       ReleasePlaceIsSound DEF JobSteps
<1>4. CASE Interrupted
  BY <1>1, <1>4, RaisedIsSound DEF Interrupted, Interrupt
<1>5. CASE Tick \/ UNCHANGED vars
  <2>1. UNCHANGED <<workVars, jobVars, crashed, badKey>>
    BY <1>5 DEF Tick, vars
  <2>2. TypeOK'
    <3>1. CASE Tick  BY <1>1, <3>1, OtherTyped DEF BatchedInv
    <3>2. CASE UNCHANGED vars
      BY <1>1, <3>2 DEF vars, workVars, jobVars, BatchedInv, TypeOK
    <3>3. QED  BY <1>5, <3>1, <3>2
  <2>3. QED
    BY <1>1, <2>1, <2>2 DEF workVars, jobVars, BatchedInv, GateSound, JobSound,
       ChargeSound, SaysNo, NeverCalls, CallsCounted, Traced, Resolved, Rejected,
       Usable, Working, Exposed, Masked
<1>6. QED
  BY <1>1, <1>2, <1>3, <1>4, <1>5, CrashIsSound, ReapIsSound DEF Next

\* In every reachable state of a batched run, each batch and the job's thread
\* are sound: the inductive invariant the other theorems rest on.
THEOREM BatchesAreSound == Spec => []BatchedInv
BY InitIsSound, NextIsSound, PTL DEF Spec

\* The variables of a batched run keep their types.
THEOREM BatchesAreTyped == Spec => []TypeOK
<1>1. BatchedInv => TypeOK  BY DEF BatchedInv
<1>2. QED  BY <1>1, BatchesAreSound, PTL

\* llm_calls and charged_likely are true, whoever ended the run.
THEOREM ChargesAreTrue == Spec => []RecordsAreTrue
<1>1. BatchedInv => RecordsAreTrue
  <2>1. SUFFICES ASSUME BatchedInv  PROVE RecordsAreTrue  OBVIOUS
  <2>2. run.charged = "no" => calls = {}
    BY <2>1 DEF BatchedInv, ChargeSound, SaysNo, NeverCalls
  <2>3. \A b \in calls : Traced(b)  BY <2>1 DEF BatchedInv, TypeOK
  <2>4. QED  BY <2>2, <2>3 DEF RecordsAreTrue, Traced
<1>2. QED  BY <1>1, BatchesAreSound, PTL

\* run_batches: a run completes with an answer and no refusal.
THEOREM CompletedIsUsable == Spec => []WholeOrFailed
<1>1. BatchedInv => WholeOrFailed
  BY DEF BatchedInv, JobSound, Usable, Resolved, WholeOrFailed
<1>2. QED  BY <1>1, BatchesAreSound, PTL

\* The stop event: a rejected key costs a call per worker, and one for each
\* commit of the ledger that hid a rejection.
THEOREM BadKeyIsBounded == Spec => []BadKeyCostsOnePerWorker
<1>1. BatchedInv => BadKeyCostsOnePerWorker
  <2>1. SUFFICES ASSUME BatchedInv, badKey
                 PROVE  Cardinality(calls) <= MaxWorkers + lost
    BY DEF BadKeyCostsOnePerWorker
  <2>2. TypeOK /\ calls \in SUBSET Exposed  BY <2>1 DEF BatchedInv, Exposed
  <2>3. /\ Cardinality(calls) <= Cardinality(Exposed)
        /\ Cardinality(calls) \in Nat /\ Cardinality(Exposed) \in Nat
    BY <2>2, CountedAreFinite, NoMore
  <2>4. Cardinality(Exposed) <= MaxWorkers + lost
    BY <2>1 DEF BatchedInv, CallsCounted
  <2>5. QED  BY <2>2, <2>3, <2>4, BatchedAssumption DEF TypeOK
<1>2. QED  BY <1>1, BatchesAreSound, PTL

\* A batch that looks at the flag after the job has stopped listening is not sent.
THEOREM UnheardIsNotSent == Spec => NothingStartsUnheard
<1> DEFINE Heard == \A b \in Batch : at[b] = "checking" /\ at'[b] = "redacting"
                                     => job \in {"collecting", "stopping"}
<1>1. BatchedInv /\ [Next]_vars => [Heard]_vars
  <2>1. SUFFICES ASSUME BatchedInv, Next, NEW b \in Batch, at[b] = "checking",
                        at'[b] = "redacting"
                 PROVE  job \in {"collecting", "stopping"}
    OBVIOUS
  <2>2. at' # at /\ TypeOK  BY <2>1 DEF BatchedInv
  <2>3. CASE Work(b)
    <3>1. ~stop
      BY <2>1, <2>2, <2>3 DEF Work, Dequeue, MarkRun, CheckStop, Redact, CallProvider,
         ProviderEnds, CloseRow, Report, Resolve, Goto, TypeOK
    <3>2. collected # Batch /\ ~crashed
      BY <2>1 DEF BatchedInv, Resolved, Traced
    <3>3. QED  BY <2>1, <3>1, <3>2 DEF BatchedInv, JobSound
  <2>4. ASSUME NEW o \in Batch, o # b, Work(o)  PROVE FALSE
    BY <2>1, <2>2, <2>4 DEF Work, Dequeue, MarkRun, CheckStop, Redact, CallProvider,
       ProviderEnds, CloseRow, Report, Resolve, Goto, TypeOK
  <2>5. CASE JobSteps \/ Interrupted \/ Tick \/ Crash \/ Reap
    BY <2>1, <2>2, <2>5 DEF JobSteps, Collect, Raised, DeadlinePasses, StopAndCancel,
       Gather, Apply, JudgeLedger, JudgeMark, EndFailed, ReleasePlace, Interrupted,
       Interrupt, Tick, Crash, Reap, workVars, TypeOK
  <2>6. QED  BY <2>1, <2>3, <2>4, <2>5 DEF Next
<1>2. QED  BY <1>1, BatchesAreSound, PTL DEF Spec, NothingStartsUnheard
=============================================================================
