--------------------------- MODULE AiRuns_proofs ---------------------------
(***************************************************************************)
(* Proofs about AiRuns, for every set of runs, requests, purposes and      *)
(* subjects and every bound: its invariants, what it promises of a run's   *)
(* end, of a place, of the run a request is handed and of the lock a read  *)
(* finds, and that it implements RunLock.                                  *)
(***************************************************************************)
EXTENDS AiRuns, TLAPS

---------------------------------------------------------------------------
(* Types.                                                                  *)

\* A thread at rest, and a blank row, are of their types.
LEMMA IdleTyped == Idle \in Thread /\ BlankRow \in Row
  <1>1. AnyPurpose \in Purpose /\ AnySubject \in Subject
    BY RunsAssumption DEF AnyPurpose, AnySubject
  <1>2. NoVerdict \in [RunId -> Cause \cup {"none"}]
    BY DEF NoVerdict
  <1>3. QED
    BY <1>1, <1>2 DEF Idle, BlankRow, Thread, Row, Mode, Status, Reason,
       Answer, RequestPc

\* A thread may become any thread.
LEMMA BecomeTyped ==
  ASSUME req \in [Request -> Thread], NEW q \in Request, NEW t \in Thread,
         Become(q, t)
  PROVE  req' \in [Request -> Thread]
  BY DEF Become

LEMMA GotoTyped ==
  ASSUME req \in [Request -> Thread], NEW q \in Request,
         NEW pc \in RequestPc, Goto(q, pc)
  PROVE  req' \in [Request -> Thread]
  <1>1. [req[q] EXCEPT !.pc = pc] \in Thread
    BY DEF Thread
  <1>2. QED
    BY <1>1, BecomeTyped DEF Goto

\* Ending a request, with or without a run, keeps the threads typed.
LEMMA RefuseTyped ==
  ASSUME req \in [Request -> Thread], NEW q \in Request, NEW a \in Answer,
         Refuse(q, a)
  PROVE  req' \in [Request -> Thread]
  <1>1. [Idle EXCEPT !.answer = a] \in Thread
    BY IdleTyped DEF Thread
  <1>2. QED
    BY <1>1, BecomeTyped DEF Refuse

LEMMA HandTyped ==
  ASSUME req \in [Request -> Thread], NEW q \in Request, NEW a \in Answer,
         NEW r \in RunId, Hand(q, a, r)
  PROVE  req' \in [Request -> Thread]
  <1>1. [Idle EXCEPT !.answer = a, !.serves = req[q].serves,
                     !.subject = req[q].subject, !.run = r] \in Thread
    BY IdleTyped DEF Thread
  <1>2. QED
    BY <1>1, BecomeTyped DEF Hand

LEMMA JoinTyped ==
  ASSUME req \in [Request -> Thread], NEW q \in Request, NEW r \in RunId,
         JoinOrRefuse(q, r)
  PROVE  req' \in [Request -> Thread]
  <1>1. {"other_input", "other_mode", "joined"} \subseteq Answer
    BY DEF Answer
  <1>2. QED
    BY <1>1, RefuseTyped, HandTyped DEF JoinOrRefuse

LEMMA PcAndAnswers ==
  /\ {"reap_read", "lookup", "insert", "lost_race", "commit", "hand_off",
      "reap_decide", "reap_update"} \subseteq RequestPc
  /\ {"started", "status_changed", "no_row_found", "error", "locked",
      "free"} \subseteq Answer
  BY DEF RequestPc, Answer

\* A thread that has judged its rows is a thread.
LEMMA JudgedTyped ==
  ASSUME NEW t \in Thread, NEW v \in [RunId -> Cause \cup {"none"}],
         NEW pc \in RequestPc
  PROVE  [t EXCEPT !.verdict = v, !.rows = {}, !.now = 0, !.pc = pc] \in Thread
  BY DEF Thread

\* Each step of a request keeps the types.
LEMMA ReadTyped ==
  ASSUME TypeOK, NEW q \in Request, Read(q) \/ Reap(q)
  PROVE  TypeOK'
  <1> USE DEF TypeOK
  <1>1. CASE Read(q)
    <2>1. [Idle EXCEPT !.pc = "reap_read"] \in Thread
      BY IdleTyped, PcAndAnswers DEF Thread
    <2>2. req' \in [Request -> Thread]
      BY <1>1, <2>1, BecomeTyped DEF Read
    <2>3. QED
      BY <1>1, <2>2 DEF Read
  <1>2. CASE ReapRead(q)
    <2> DEFINE found == {r \in RunId : Running(r) /\ InReach(q, r)}
    <2>1. [req[q] EXCEPT !.pc = "reap_decide", !.now = clock, !.rows = found]
            \in Thread
      BY PcAndAnswers DEF Thread
    <2>2. req' \in [Request -> Thread]
      BY <1>2, <2>1, GotoTyped, BecomeTyped, PcAndAnswers DEF ReapRead
    <2>3. QED
      BY <1>2, <2>2 DEF ReapRead
  <1>3. CASE ReapDecide(q)
    <2> DEFINE why == [r \in RunId |-> IF r \in req[q].rows
                         THEN OrphanCause(r, req[q].now) ELSE "none"]
    <2>1. \A r \in RunId : OrphanCause(r, req[q].now) \in Cause \cup {"none"}
      BY DEF OrphanCause, Cause
    <2>2. why \in [RunId -> Cause \cup {"none"}]
      BY <2>1
    <2> HIDE DEF why
    <2>3. ASSUME NEW pc \in RequestPc
          PROVE  [req[q] EXCEPT !.verdict = why, !.rows = {}, !.now = 0,
                                !.pc = pc] \in Thread
      BY <2>2, JudgedTyped
    <2>4. PICK pc \in RequestPc :
            Become(q, [req[q] EXCEPT !.verdict = why, !.rows = {}, !.now = 0,
                                     !.pc = pc])
      <3>1. Become(q, [req[q] EXCEPT !.verdict = why, !.rows = {}, !.now = 0,
                 !.pc = IF why = NoVerdict THEN "lookup" ELSE "reap_update"])
        BY <1>3 DEF ReapDecide, why
      <3>2. (IF why = NoVerdict THEN "lookup" ELSE "reap_update") \in RequestPc
        BY PcAndAnswers
      <3>3. QED
        BY <3>1, <3>2
    <2>5. req' \in [Request -> Thread]
      BY <2>3, <2>4, BecomeTyped
    <2>6. QED
      BY <1>3, <2>5 DEF ReapDecide
  <1>4. CASE ReapUpdate(q)
    <2> DEFINE update == [r \in RunId |->
                            FailIfRunning(runs[r], req[q].verdict[r])]
    <2>1. update \in [RunId -> Row]
      <3>1. req[q].verdict \in [RunId -> Cause \cup {"none"}]
        BY DEF Thread
      <3>2. ASSUME NEW r \in RunId
            PROVE  FailIfRunning(runs[r], req[q].verdict[r]) \in Row
        BY <3>1 DEF FailIfRunning, Failed, Row, Reason, Status
      <3>3. QED
        BY <3>2
    <2>2. [req[q] EXCEPT !.pc = "lookup", !.verdict = NoVerdict] \in Thread
      BY PcAndAnswers DEF Thread, NoVerdict
    <2>3. req' \in [Request -> Thread]
      BY <1>4, <2>2, BecomeTyped, RefuseTyped, PcAndAnswers DEF ReapUpdate
    <2>4. runs' \in [RunId -> Row]
      BY <1>4, <2>1 DEF ReapUpdate
    <2>5. QED
      BY <1>4, <2>3, <2>4 DEF ReapUpdate, ReleaseRuns, Fault
  <1>5. CASE Lookup(q)
    <2>1. [req[q] EXCEPT !.pc = "insert", !.now = clock] \in Thread
      BY PcAndAnswers DEF Thread
    <2>2. req' \in [Request -> Thread]
      BY <1>5, <2>1, BecomeTyped, RefuseTyped, JoinTyped, PcAndAnswers
         DEF Lookup
    <2>3. QED
      BY <1>5, <2>2 DEF Lookup
  <1>6. QED
    BY <1>1, <1>2, <1>3, <1>4, <1>5 DEF Reap

LEMMA PostTyped ==
  ASSUME TypeOK, NEW q \in Poster, NEW p \in Purpose, NEW s \in Subject,
         NEW serves \in Mode, NEW actual \in Mode,
         Post(q, p, s, serves, actual)
  PROVE  TypeOK'
  <1> USE DEF TypeOK
  <1>1. q \in Request
    BY DEF Request
  <1>2. [Idle EXCEPT !.pc = "reap_read", !.kind = "post", !.purpose = p,
           !.subject = s, !.serves = serves, !.actual = actual] \in Thread
    BY IdleTyped, PcAndAnswers DEF Thread
  <1>3. req' \in [Request -> Thread]
    BY <1>1, <1>2, BecomeTyped, RefuseTyped, PcAndAnswers DEF Post
  <1>4. QED
    BY <1>3 DEF Post

LEMMA StartTyped ==
  ASSUME TypeOK, NEW q \in Poster, Start(q)
  PROVE  TypeOK'
  <1> USE DEF TypeOK
  <1>0. q \in Request /\ BlankRow \in Row
    BY IdleTyped DEF Request
  <1>1. CASE Insert(q)
    <2>1. CASE Holding(req[q].purpose, "RUNNING")
      BY <1>0, <1>1, <2>1, GotoTyped, PcAndAnswers DEF Insert
    <2>2. CASE ~Holding(req[q].purpose, "RUNNING")
      <3> DEFINE row == [status |-> "PENDING", purpose |-> req[q].purpose,
                         subject |-> req[q].subject, mode |-> req[q].actual,
                         boot |-> boot,
                         deadline |-> req[q].now + RunDeadline,
                         reason |-> "none"]
      <3>1. row \in Row
        BY <1>0, RunsAssumption DEF Thread, Row, Status, Reason
      <3>2. PICK r \in RunId :
              /\ runs' = [runs EXCEPT ![r] = row]
              /\ MarkLive(r)
              /\ Become(q, [req[q] EXCEPT !.pc = "commit", !.now = 0, !.run = r])
        BY <1>1, <2>2 DEF Insert
      <3>3. [req[q] EXCEPT !.pc = "commit", !.now = 0, !.run = r] \in Thread
        BY <1>0, PcAndAnswers DEF Thread
      <3>4. req' \in [Request -> Thread]
        BY <1>0, <3>2, <3>3, BecomeTyped
      <3> HIDE DEF row
      <3>5. QED
        BY <1>1, <3>1, <3>2, <3>4 DEF Insert, MarkLive
    <2>3. QED
      BY <2>1, <2>2
  <1>2. CASE LostRace(q)
    <2>1. req' \in [Request -> Thread]
      BY <1>0, <1>2, RefuseTyped, JoinTyped, PcAndAnswers DEF LostRace
    <2>2. QED
      BY <1>2, <2>1 DEF LostRace
  <1>3. CASE CommitStart(q)
    <2>1. req' \in [Request -> Thread]
      BY <1>0, <1>3, GotoTyped, RefuseTyped, PcAndAnswers DEF CommitStart
    <2>2. runs' \in [RunId -> Row]
      BY <1>0, <1>3 DEF CommitStart, Row, Status
    <2>3. QED
      BY <1>3, <2>1, <2>2 DEF CommitStart, Fault
  <1>4. CASE HandOff(q)
    <2>1. CASE Refuse(q, "error")
      <3>1. req' \in [Request -> Thread]
        BY <1>0, <2>1, RefuseTyped, PcAndAnswers
      <3>2. QED
        BY <1>4, <3>1 DEF HandOff, Fault, JobPc
    <2>2. CASE Hand(q, "started", req[q].run)
      <3>1. req[q].run \in RunId \cup {NoRun}
        BY <1>0 DEF Thread
      <3>2. [Idle EXCEPT !.answer = "started", !.serves = req[q].serves,
               !.subject = req[q].subject, !.run = req[q].run] \in Thread
        BY <1>0, <3>1, IdleTyped, PcAndAnswers DEF Thread
      <3>3. req' \in [Request -> Thread]
        BY <1>0, <2>2, <3>2, BecomeTyped DEF Hand
      <3>4. QED
        BY <1>4, <3>3 DEF HandOff, Fault, JobPc
    <2>3. QED
      BY <1>4, <2>1, <2>2 DEF HandOff
  <1>5. QED
    BY <1>1, <1>2, <1>3, <1>4 DEF Start

LEMMA ExecuteTyped ==
  ASSUME TypeOK, NEW r \in RunId, Execute(r)
  PROVE  TypeOK'
  <1> USE DEF TypeOK, JobAt, JobTo, JobPc
  <1>1. CASE JobAdmit(r)
    BY <1>1 DEF JobAdmit
  <1>2. CASE JobComplete(r)
    <2>1. [runs EXCEPT ![r].status = "COMPLETED"] \in [RunId -> Row]
      BY DEF Row, Status
    <2>2. QED
      BY <1>2, <2>1 DEF JobComplete, Fault, RollBackApply
  <1>3. CASE JobRaise(r)
    BY <1>3 DEF JobRaise
  <1>4. CASE JobFail(r)
    <2>1. [runs EXCEPT ![r] = FailIfRunning(@, "job")] \in [RunId -> Row]
      BY DEF FailIfRunning, Failed, Row, Status, Reason
    <2>2. QED
      BY <1>4, <2>1 DEF JobFail, Fault
  <1>5. CASE JobFinish(r)
    BY <1>5 DEF JobFinish, ReleaseRuns, Fault
  <1>6. QED
    BY <1>1, <1>2, <1>3, <1>4, <1>5 DEF Execute

LEMMA EnvironmentTyped ==
  ASSUME TypeOK, Tick \/ Restart
  PROVE  TypeOK'
  <1>1. CASE Tick
    BY <1>1 DEF Tick, TypeOK
  <1>2. CASE Restart
    BY <1>2, IdleTyped DEF Restart, TypeOK, JobPc
  <1>3. QED
    BY <1>1, <1>2

LEMMA InitTyped == Init => TypeOK
  BY IdleTyped DEF Init, TypeOK, JobPc

LEMMA NextTyped == TypeOK /\ [Next]_vars => TypeOK'
  <1> SUFFICES ASSUME TypeOK, [Next]_vars PROVE TypeOK'
    OBVIOUS
  <1>1. CASE UNCHANGED vars
    BY <1>1 DEF vars, TypeOK
  <1>2. CASE Next
    BY <1>2, ReadTyped, PostTyped, StartTyped, ExecuteTyped, EnvironmentTyped
       DEF Next
  <1>3. QED
    BY <1>1, <1>2

\* Every state of the framework is well typed.
THEOREM TypeCorrect == Spec => []TypeOK
  BY InitTyped, NextTyped, PTL DEF Spec

---------------------------------------------------------------------------
(* Safety. RunInv is inductive; each lemma takes one kind of step.          *)

\* What a thread becomes, and that the others stay as they are.
LEMMA BecomeEffect ==
  ASSUME req \in [Request -> Thread], NEW q \in Request, NEW t, Become(q, t)
  PROVE  /\ req'[q] = t
         /\ \A q2 \in Request : q2 # q => req'[q2] = req[q2]
  BY DEF Become

\* A thread at rest starts nothing, reads nothing and judges nothing.
LEMMA IdleEffect ==
  /\ Idle.pc = "idle" /\ Idle.rows = {} /\ Idle.now = 0
  /\ \A r \in RunId : Idle.verdict[r] = "none"
  BY DEF Idle, NoVerdict

\* A step that touches no table, no job and no live set, and moves one request
\* to a thread that starts nothing, keeps the invariant if the thread's rows,
\* time and verdicts are sound.
LEMMA QuietStep ==
  ASSUME RunInv, TypeOK', NEW q \in Request, NEW t \in Thread, Become(q, t),
         UNCHANGED <<runs, live, job, boot, clock, applied>>,
         t.pc \notin {"commit", "hand_off"}, ~Starting(q), t.now <= clock,
         \A r \in RunId :
           /\ r \in t.rows => Visible(r)
           /\ t.verdict[r] # "none" => Visible(r)
           /\ t.verdict[r] = "run_orphaned" => NoJobAtWork(r)
           /\ t.verdict[r] = "run_deadline_exceeded"
                => clock > runs[r].deadline + ReapMargin
  PROVE  RunInv'
  <1> USE DEF RunInv, TypeOK
  <1>0. /\ req'[q] = t
        /\ \A q2 \in Request : q2 # q => req'[q2] = req[q2]
    BY BecomeEffect
  <1>1. \A r \in RunId : NoJobAtWork(r) => NoJobAtWork(r)'
    BY <1>0 DEF NoJobAtWork, HandedOff
  <1>2. OneRunningPerPurpose' /\ AppliedIffCompleted' /\ JobInv'
    BY DEF OneRunningPerPurpose, AppliedIffCompleted, JobInv, Visible
  <1>3. StartInv'
    BY <1>0 DEF StartInv, Starting
  <1>4. ReapInv'
    BY <1>0, <1>1 DEF ReapInv, Visible
  <1>5. RowInv'
    BY <1>1 DEF RowInv, Visible
  <1>6. QED
    BY <1>2, <1>3, <1>4, <1>5

\* What the ways of answering a request make of its thread.
LEMMA ReplyEffect ==
  ASSUME TypeOK, NEW q \in Request, NEW a \in Answer
  PROVE  /\ Refuse(q, a) =>
              \E t \in Thread : /\ Become(q, t) /\ t.pc = "idle" /\ t.now = 0
                                /\ t.rows = {}
                                /\ \A r \in RunId : t.verdict[r] = "none"
         /\ \A r2 \in RunId \cup {NoRun} : Hand(q, a, r2) =>
              \E t \in Thread : /\ Become(q, t) /\ t.pc = "idle" /\ t.now = 0
                                /\ t.rows = {}
                                /\ \A r \in RunId : t.verdict[r] = "none"
  <1>1. req[q] \in Thread /\ Idle \in Thread
    BY IdleTyped DEF TypeOK
  <1>2. CASE Refuse(q, a)
    <2> DEFINE t == [Idle EXCEPT !.answer = a]
    <2>1. /\ t \in Thread /\ t.pc = "idle" /\ t.now = 0 /\ t.rows = {}
          /\ \A r \in RunId : t.verdict[r] = "none"
      BY <1>1, IdleEffect DEF Thread
    <2>2. QED
      BY <1>2, <2>1 DEF Refuse
  <1>3. ASSUME NEW r2 \in RunId \cup {NoRun}, Hand(q, a, r2)
        PROVE  \E t \in Thread : /\ Become(q, t) /\ t.pc = "idle" /\ t.now = 0
                                 /\ t.rows = {}
                                 /\ \A r \in RunId : t.verdict[r] = "none"
    <2> DEFINE t == [Idle EXCEPT !.answer = a, !.serves = req[q].serves,
                                 !.subject = req[q].subject, !.run = r2]
    <2>1. /\ t \in Thread /\ t.pc = "idle" /\ t.now = 0 /\ t.rows = {}
          /\ \A r \in RunId : t.verdict[r] = "none"
      BY <1>1, IdleEffect DEF Thread
    <2>2. QED
      BY <1>3, <2>1 DEF Hand
  <1>4. QED
    BY <1>2, <1>3

LEMMA JoinEffect ==
  ASSUME TypeOK, NEW q \in Request, NEW r2 \in RunId, JoinOrRefuse(q, r2)
  PROVE  \E t \in Thread : /\ Become(q, t) /\ t.pc = "idle" /\ t.now = 0
                           /\ t.rows = {}
                           /\ \A r \in RunId : t.verdict[r] = "none"
  <1>1. {"other_input", "other_mode", "joined"} \subseteq Answer
    BY DEF Answer
  <1>2. QED
    BY <1>1, ReplyEffect DEF JoinOrRefuse

LEMMA QuietRequests ==
  ASSUME RunInv, TypeOK', NEW q \in Request,
         Read(q) \/ ReapRead(q) \/ ReapDecide(q) \/ Lookup(q)
  PROVE  RunInv'
  <1> USE DEF RunInv, TypeOK
  <1>0. req[q] \in Thread /\ Idle \in Thread
    BY IdleTyped
  <1>1. CASE Read(q)
    <2>1. [Idle EXCEPT !.pc = "reap_read"] \in Thread
      BY <1>0, PcAndAnswers DEF Thread
    <2> DEFINE t == [Idle EXCEPT !.pc = "reap_read"]
    <2>2. t.pc = "reap_read" /\ t.now = 0 /\ t.rows = {}
          /\ \A r \in RunId : t.verdict[r] = "none"
      BY <1>0, IdleEffect DEF Thread
    <2> HIDE DEF t
    <2>3. Become(q, t) /\ ~Starting(q)
      BY <1>1 DEF Read, t, Starting
    <2>4. UNCHANGED <<runs, live, job, boot, clock, applied>> /\ 0 <= clock
      BY <1>1 DEF Read
    <2>5. t \in Thread
      BY <2>1 DEF t
    <2> HIDE DEF RunInv, TypeOK
    <2>6. QED
      BY <2>2, <2>3, <2>4, <2>5, QuietStep
  <1>2. CASE ReapRead(q)
    <2> DEFINE found == {r \in RunId : Running(r) /\ InReach(q, r)}
               t1 == [req[q] EXCEPT !.pc = "lookup"]
               t2 == [req[q] EXCEPT !.pc = "reap_decide", !.now = clock,
                                    !.rows = found]
    <2>1. t1 \in Thread /\ t2 \in Thread
      BY <1>0, PcAndAnswers DEF Thread
    <2>2. /\ t1.pc = "lookup" /\ t2.pc = "reap_decide" /\ t2.now = clock
          /\ t2.rows = found
          /\ t1.rows = req[q].rows /\ t1.now = req[q].now
          /\ t1.verdict = req[q].verdict /\ t2.verdict = req[q].verdict
      BY <1>0 DEF Thread
    <2>3. \A r \in found : Visible(r)
      BY DEF Running, Visible
    <2> HIDE DEF t1, t2, found
    <2>4. (Become(q, t1) \/ Become(q, t2)) /\ ~Starting(q)
      BY <1>2 DEF ReapRead, Goto, Starting, t1, t2, found
    <2>5. UNCHANGED <<runs, live, job, boot, clock, applied>> /\ clock <= clock
      BY <1>2 DEF ReapRead
    <2>6. ReapInv
      OBVIOUS
    <2> HIDE DEF RunInv, TypeOK
    <2>7. CASE Become(q, t1)
      <3>1. t1.now <= clock /\ t1.pc \notin {"commit", "hand_off"}
        BY <2>2, <2>6 DEF ReapInv
      <3>2. \A r \in RunId :
              /\ r \in t1.rows => Visible(r)
              /\ t1.verdict[r] # "none" => Visible(r)
              /\ t1.verdict[r] = "run_orphaned" => NoJobAtWork(r)
              /\ t1.verdict[r] = "run_deadline_exceeded"
                   => clock > runs[r].deadline + ReapMargin
        BY <2>2, <2>6 DEF ReapInv
      <3>3. QED
        BY <2>1, <2>4, <2>5, <2>7, <3>1, <3>2, QuietStep
    <2>8. CASE Become(q, t2)
      <3>1. t2.now <= clock /\ t2.pc \notin {"commit", "hand_off"}
        BY <2>2, <2>5
      <3>2. \A r \in RunId :
              /\ r \in t2.rows => Visible(r)
              /\ t2.verdict[r] # "none" => Visible(r)
              /\ t2.verdict[r] = "run_orphaned" => NoJobAtWork(r)
              /\ t2.verdict[r] = "run_deadline_exceeded"
                   => clock > runs[r].deadline + ReapMargin
        BY <2>2, <2>3, <2>6 DEF ReapInv
      <3>3. QED
        BY <2>1, <2>4, <2>5, <2>8, <3>1, <3>2, QuietStep
    <2>9. QED
      BY <2>4, <2>7, <2>8
  <1>3. CASE ReapDecide(q)
    <2> DEFINE why == [r \in RunId |-> IF r \in req[q].rows
                         THEN OrphanCause(r, req[q].now) ELSE "none"]
               t == [req[q] EXCEPT !.verdict = why, !.rows = {}, !.now = 0,
                     !.pc = IF why = NoVerdict THEN "lookup" ELSE "reap_update"]
    <2>1. why \in [RunId -> Cause \cup {"none"}]
      BY DEF OrphanCause, Cause
    <2>2. \A r \in RunId :
            /\ why[r] # "none" => Visible(r)
            /\ why[r] = "run_orphaned" => NoJobAtWork(r)
            /\ why[r] = "run_deadline_exceeded"
                 => clock > runs[r].deadline + ReapMargin
      <3> SUFFICES ASSUME NEW r \in RunId, r \in req[q].rows
                   PROVE  /\ Visible(r)
                          /\ OrphanCause(r, req[q].now) = "run_orphaned"
                               => NoJobAtWork(r)
                          /\ OrphanCause(r, req[q].now) = "run_deadline_exceeded"
                               => clock > runs[r].deadline + ReapMargin
        BY DEF why
      <3>1. Visible(r) /\ req[q].now <= clock
        BY DEF ReapInv
      <3>2. ASSUME runs[r].boot # boot \/ r \notin live
            PROVE  NoJobAtWork(r)
        BY <3>2, <3>1 DEF NoJobAtWork, HandedOff, JobInv, StartInv, Starting,
           JobPc
      <3>3. CASE OrphanCause(r, req[q].now) = "run_orphaned"
        BY <3>1, <3>2, <3>3 DEF OrphanCause, Overdue
      <3>4. ASSUME OrphanCause(r, req[q].now) = "run_deadline_exceeded"
            PROVE  clock > runs[r].deadline + ReapMargin
        <4>1. req[q].now > runs[r].deadline + ReapMargin
          BY <3>4 DEF OrphanCause, Overdue, LockUntil
        <4>2. req[q].now \in Nat /\ runs[r].deadline \in Nat
          BY <1>0 DEF Thread, Row
        <4>3. QED
          BY <3>1, <4>1, <4>2, RunsAssumption
      <3>5. QED
        BY <3>1, <3>3, <3>4
    <2> HIDE DEF why
    <2>3. (IF why = NoVerdict THEN "lookup" ELSE "reap_update") \in RequestPc
      BY PcAndAnswers
    <2>4. /\ t \in Thread
          /\ t.verdict = why /\ t.rows = {} /\ t.now = 0
          /\ t.pc \in {"lookup", "reap_update"}
      BY <1>0, <2>1, <2>3, JudgedTyped DEF Thread
    <2> HIDE DEF t
    <2>5. Become(q, t) /\ ~Starting(q)
      BY <1>3 DEF ReapDecide, why, t, Starting
    <2>6. QED
      BY <1>3, <2>2, <2>4, <2>5, QuietStep DEF ReapDecide
  <1>4. CASE Lookup(q)
    <2> DEFINE t0 == [req[q] EXCEPT !.pc = "insert", !.now = clock]
    <2>0. /\ t0 \in Thread /\ t0.pc = "insert" /\ t0.now = clock
          /\ t0.rows = req[q].rows /\ t0.verdict = req[q].verdict
      BY <1>0, PcAndAnswers DEF Thread
    <2> HIDE DEF t0
    <2>1. \/ Refuse(q, "free") \/ Refuse(q, "locked") \/ Become(q, t0)
          \/ \E r \in RunId : JoinOrRefuse(q, r)
      BY <1>4 DEF Lookup, t0
    <2>2. UNCHANGED <<runs, live, job, boot, clock, applied>> /\ ~Starting(q)
          /\ 0 <= clock /\ clock <= clock /\ ReapInv
      BY <1>4 DEF Lookup, Starting
    <2> HIDE DEF RunInv, TypeOK
    <2>3. CASE Become(q, t0)
      BY <2>0, <2>2, <2>3, QuietStep DEF ReapInv
    <2>4. CASE ~Become(q, t0)
      <3>1. TypeOK
        BY DEF RunInv
      <3>2. PICK t \in Thread : /\ Become(q, t) /\ t.pc = "idle" /\ t.now = 0
                               /\ t.rows = {}
                               /\ \A r \in RunId : t.verdict[r] = "none"
        BY <2>1, <2>4, <3>1, ReplyEffect, JoinEffect, PcAndAnswers
      <3>3. QED
        BY <2>2, <3>2, QuietStep
    <2>5. QED
      BY <2>3, <2>4
  <1>5. QED
    BY <1>1, <1>2, <1>3, <1>4

LEMMA QuietPosts ==
  ASSUME RunInv, TypeOK', NEW q \in Poster,
         \/ LostRace(q)
         \/ \E p \in Purpose, s \in Subject, serves, actual \in Mode :
              Post(q, p, s, serves, actual)
  PROVE  RunInv'
  <1>0. TypeOK /\ q \in Request /\ Idle \in Thread
    BY IdleTyped DEF RunInv, Request
  <1>1. /\ UNCHANGED <<runs, live, job, boot, clock, applied>>
        /\ ~Starting(q) /\ 0 <= clock
    <2>1. 0 <= clock
      BY <1>0 DEF TypeOK
    <2>2. /\ UNCHANGED <<runs, live, job, boot, clock, applied>>
          /\ req[q].pc \in {"idle", "lost_race"}
      BY DEF LostRace, Post
    <2>3. QED
      BY <2>1, <2>2 DEF Starting
  <1>2. \E t \in Thread : /\ Become(q, t) /\ t.pc \in {"idle", "reap_read"}
                          /\ t.now = 0 /\ t.rows = {}
                          /\ \A r \in RunId : t.verdict[r] = "none"
    <2>1. CASE LostRace(q)
      <3>1. (\E r \in RunId : JoinOrRefuse(q, r)) \/ Refuse(q, "no_row_found")
        BY <2>1 DEF LostRace
      <3>2. "no_row_found" \in Answer
        BY DEF Answer
      <3>3. QED
        BY <1>0, <3>1, <3>2, ReplyEffect, JoinEffect
    <2>2. ASSUME NEW p \in Purpose, NEW s \in Subject, NEW serves \in Mode,
                 NEW actual \in Mode, Post(q, p, s, serves, actual)
          PROVE  \E t \in Thread : /\ Become(q, t)
                                   /\ t.pc \in {"idle", "reap_read"}
                                   /\ t.now = 0 /\ t.rows = {}
                                   /\ \A r \in RunId : t.verdict[r] = "none"
      <3> DEFINE t0 == [Idle EXCEPT !.pc = "reap_read", !.kind = "post",
                          !.purpose = p, !.subject = s,
                          !.serves = serves, !.actual = actual]
      <3>1. /\ t0 \in Thread /\ t0.pc = "reap_read" /\ t0.now = 0
            /\ t0.rows = {} /\ \A r \in RunId : t0.verdict[r] = "none"
        BY <1>0, IdleEffect, PcAndAnswers DEF Thread
      <3> HIDE DEF t0
      <3>2. Become(q, t0) \/ Refuse(q, "status_changed")
        BY <2>2 DEF Post, t0
      <3>3. QED
        BY <1>0, <3>1, <3>2, ReplyEffect, PcAndAnswers
    <2>3. QED
      BY <2>1, <2>2
  <1>3. QED
    BY <1>0, <1>1, <1>2, QuietStep

\* A step of a job at work: its own row may become terminal, its own run may
\* leave the live set as the job ends, and nothing else moves.
LEMMA JobStep ==
  ASSUME RunInv, TypeOK', NEW r \in RunId, NEW pc \in JobPc, job[r] # "none",
         UNCHANGED <<req, boot, clock>>, JobTo(r, pc),
         job[r] = "closing" => pc \in {"none", "closing"},
         \A o \in RunId \ {r} : /\ runs'[o] = runs[o]
                                /\ o \in live' <=> o \in live
                                /\ o \in applied' <=> o \in applied,
         pc \notin {"none", "closing"} => r \in live',
         runs'[r] # runs[r] =>
           /\ Running(r) /\ runs'[r].status \in Terminal
           /\ runs'[r].purpose = runs[r].purpose
           /\ runs'[r].boot = runs[r].boot
           /\ runs'[r].deadline = runs[r].deadline
           /\ runs'[r].reason = "run_orphaned" =>
                runs[r].reason = "run_orphaned",
         r \in applied' <=> runs'[r].status = "COMPLETED"
  PROVE  RunInv'
  <1> USE DEF RunInv, TypeOK
  <1>1. /\ job'[r] = pc
        /\ \A o \in RunId \ {r} : job'[o] = job[o]
    BY DEF JobTo
  <1>2. Visible(r)
    BY DEF JobInv
  <1>3. \A o \in RunId : /\ NoJobAtWork(o) => NoJobAtWork(o)'
                         /\ Visible(o) <=> Visible(o)'
                         /\ runs'[o].boot = runs[o].boot
                         /\ runs'[o].deadline = runs[o].deadline
    BY <1>1, <1>2 DEF NoJobAtWork, HandedOff, Visible, Terminal
  <1>4. OneRunningPerPurpose'
    BY DEF OneRunningPerPurpose, Running, Terminal
  <1>5. AppliedIffCompleted'
    BY DEF AppliedIffCompleted
  <1>6. StartInv'
    <2>1. \A q \in Request : Starting(q) =>
            /\ req[q].run # r /\ runs'[req[q].run] = runs[req[q].run]
            /\ job'[req[q].run] = job[req[q].run]
            /\ req[q].run \in live'
      BY <1>1 DEF StartInv, Thread, Starting
    <2>2. QED
      BY <2>1 DEF StartInv, Starting
  <1>7. JobInv'
    BY <1>1, <1>3 DEF JobInv
  <1>8. ReapInv'
    BY <1>3 DEF ReapInv
  <1>9. RowInv'
    BY <1>3 DEF RowInv
  <1>10. QED
    BY <1>4, <1>5, <1>6, <1>7, <1>8, <1>9

\* Every step of a job keeps the invariant.
LEMMA JobsPreserve ==
  ASSUME RunInv, TypeOK', NEW r \in RunId, Execute(r)
  PROVE  RunInv'
  <1>0. /\ TypeOK /\ {"none", "closing", "failing"} \subseteq JobPc
        /\ runs[r] \in Row /\ runs[r].status \in Status
        /\ r \in applied <=> runs[r].status = "COMPLETED"
        /\ job[r] \notin {"none", "closing"} => r \in live
    BY DEF RunInv, JobPc, TypeOK, Row, AppliedIffCompleted, JobInv
  <1>1. CASE JobAdmit(r)
    <2>1. UNCHANGED <<runs, live, job, req, boot, clock, applied>>
      BY <1>1 DEF JobAdmit
    <2>2. QED
      BY <2>1 DEF RunInv, OneRunningPerPurpose, AppliedIffCompleted, StartInv,
         JobInv, ReapInv, RowInv, Starting, Visible, NoJobAtWork, HandedOff
  <1>2. CASE JobComplete(r)
    <2>1. /\ UNCHANGED <<req, boot, clock, live>> /\ job[r] = "working"
          /\ \E pc \in {"closing", "failing"} : JobTo(r, pc)
      BY <1>2 DEF JobComplete, JobAt
    <2>2. \/ /\ Running(r) /\ applied' = applied \cup {r}
             /\ runs' = [runs EXCEPT ![r].status = "COMPLETED"]
          \/ UNCHANGED <<runs, applied>>
      BY <1>2 DEF JobComplete, StillRunning, RollBackApply
    <2>3. \A o \in RunId \ {r} : /\ runs'[o] = runs[o]
                                 /\ o \in live' <=> o \in live
                                 /\ o \in applied' <=> o \in applied
      BY <1>0, <2>1, <2>2 DEF TypeOK
    <2>4. runs'[r] # runs[r] =>
            /\ Running(r) /\ runs'[r] = [runs[r] EXCEPT !.status = "COMPLETED"]
      BY <1>0, <2>2 DEF TypeOK
    <2>5. r \in applied' <=> runs'[r].status = "COMPLETED"
      BY <1>0, <2>2 DEF TypeOK, Row
    <2>6. runs'[r] # runs[r] =>
           /\ Running(r) /\ runs'[r].status \in Terminal
           /\ runs'[r].purpose = runs[r].purpose
           /\ runs'[r].boot = runs[r].boot
           /\ runs'[r].deadline = runs[r].deadline
           /\ runs'[r].reason = runs[r].reason
      BY <1>0, <2>4 DEF Row, Terminal
    <2>7. QED
      BY <1>0, <2>1, <2>3, <2>5, <2>6, JobStep
  <1>3. CASE JobRaise(r)
    <2>1. /\ UNCHANGED <<req, boot, clock, live, runs, applied>>
          /\ job[r] = "working" /\ JobTo(r, "failing")
      BY <1>3 DEF JobRaise, JobAt
    <2>2. QED
      BY <1>0, <2>1, JobStep
  <1>4. CASE JobFail(r)
    <2>1. /\ UNCHANGED <<req, boot, clock, live, applied>>
          /\ job[r] = "failing" /\ JobTo(r, "closing")
      BY <1>4 DEF JobFail, JobAt
    <2>2. /\ \A o \in RunId \ {r} : runs'[o] = runs[o]
          /\ \/ runs'[r] = runs[r]
             \/ Running(r) /\ runs'[r] = Failed(runs[r], "job")
      BY <1>0, <1>4 DEF JobFail, FailIfRunning, TypeOK, Running
    <2>3. runs'[r] # runs[r] =>
           /\ Running(r) /\ runs'[r].status \in Terminal
           /\ runs'[r].purpose = runs[r].purpose
           /\ runs'[r].boot = runs[r].boot
           /\ runs'[r].deadline = runs[r].deadline
           /\ runs'[r].reason # "run_orphaned"
           /\ runs'[r].status # "COMPLETED" /\ runs[r].status # "COMPLETED"
      BY <1>0, <2>2 DEF Row, Terminal, Failed, Running
    <2>4. QED
      BY <1>0, <2>1, <2>2, <2>3, JobStep
  <1>5. CASE JobFinish(r)
    <2>1. /\ UNCHANGED <<req, boot, clock, runs, applied>>
          /\ job[r] = "closing" /\ JobTo(r, "none")
          /\ live' = live \/ live' = live \ {r}
      BY <1>5 DEF JobFinish, JobAt
    <2>2. QED
      BY <1>0, <2>1, JobStep
  <1>6. QED
    BY <1>1, <1>2, <1>3, <1>4, <1>5 DEF Execute

\* What the update of a reap does to one row.
LEMMA FailEffect ==
  ASSUME NEW row \in Row, NEW why
  PROVE  LET new == FailIfRunning(row, why) IN
         new # row =>
           /\ row.status = "RUNNING" /\ why # "none"
           /\ new.status = "FAILED" /\ new.reason = why
           /\ new.purpose = row.purpose /\ new.boot = row.boot
           /\ new.deadline = row.deadline
  BY DEF FailIfRunning, Failed, Row

\* The update of a reap ends only runs that have no job, or are past their
\* bound.
LEMMA ReapUpdatePreserves ==
  ASSUME RunInv, TypeOK', NEW q \in Request, ReapUpdate(q)
  PROVE  RunInv'
  <1>0. /\ TypeOK /\ ReapInv /\ req[q] \in Thread /\ Idle \in Thread
        /\ UNCHANGED <<live, job, boot, clock, applied>>
        /\ req[q].pc = "reap_update" /\ 0 <= clock
    BY IdleTyped DEF RunInv, ReapUpdate, TypeOK
  <1>1. \A r \in RunId :
          runs'[r] # runs[r] =>
            /\ runs[r].status = "RUNNING" /\ runs'[r].status = "FAILED"
            /\ runs'[r].reason = "run_orphaned" => NoJobAtWork(r)
            /\ runs'[r].purpose = runs[r].purpose
            /\ runs'[r].boot = runs[r].boot
            /\ runs'[r].deadline = runs[r].deadline
    <2> SUFFICES ASSUME NEW r \in RunId, runs'[r] # runs[r]
                 PROVE  /\ runs[r].status = "RUNNING"
                        /\ runs'[r].status = "FAILED"
                        /\ runs'[r].reason = "run_orphaned" => NoJobAtWork(r)
                        /\ runs'[r].purpose = runs[r].purpose
                        /\ runs'[r].boot = runs[r].boot
                        /\ runs'[r].deadline = runs[r].deadline
      OBVIOUS
    <2>1. runs[r] \in Row
      BY <1>0 DEF TypeOK
    <2>2. runs'[r] = FailIfRunning(runs[r], req[q].verdict[r])
      BY DEF ReapUpdate
    <2>3. req[q].verdict[r] = "run_orphaned" => NoJobAtWork(r)
      BY <1>0 DEF ReapInv
    <2>4. QED
      BY <2>1, <2>2, <2>3, FailEffect
  <1>2. \E t \in Thread :
          /\ Become(q, t) /\ t.pc \in {"idle", "lookup"} /\ t.now <= clock
          /\ \A r \in RunId : t.verdict[r] = "none"
          /\ \A r \in t.rows : r \in req[q].rows
    <2> DEFINE t0 == [req[q] EXCEPT !.pc = "lookup", !.verdict = NoVerdict]
    <2>1. /\ t0 \in Thread /\ t0.pc = "lookup" /\ t0.now = req[q].now
          /\ t0.rows = req[q].rows /\ t0.verdict = NoVerdict
      BY <1>0, PcAndAnswers DEF Thread, NoVerdict
    <2> HIDE DEF t0
    <2>2. Become(q, t0) \/ Refuse(q, "error")
      BY DEF ReapUpdate, t0
    <2>3. req[q].now <= clock /\ \A r \in RunId : NoVerdict[r] = "none"
      BY <1>0 DEF ReapInv, NoVerdict
    <2>4. CASE Become(q, t0)
      BY <2>1, <2>3, <2>4
    <2>5. CASE Refuse(q, "error")
      BY <1>0, <2>5, ReplyEffect, PcAndAnswers
    <2>6. QED
      BY <2>2, <2>4, <2>5
  <1>3. PICK t \in Thread :
          /\ Become(q, t) /\ t.pc \in {"idle", "lookup"} /\ t.now <= clock
          /\ \A r \in RunId : t.verdict[r] = "none"
          /\ \A r \in t.rows : r \in req[q].rows
    BY <1>2
  <1>4. /\ req'[q] = t
        /\ \A q2 \in Request : q2 # q => req'[q2] = req[q2]
    BY <1>0, <1>3, BecomeEffect DEF TypeOK
  <1>5. \A r \in RunId : /\ NoJobAtWork(r) => NoJobAtWork(r)'
                         /\ Visible(r) <=> Visible(r)'
                         /\ runs'[r].boot = runs[r].boot
                         /\ runs'[r].deadline = runs[r].deadline
    BY <1>0, <1>1, <1>3, <1>4 DEF NoJobAtWork, HandedOff, Visible
  <1>6. OneRunningPerPurpose' /\ AppliedIffCompleted'
    BY <1>0, <1>1 DEF RunInv, OneRunningPerPurpose, AppliedIffCompleted
  <1>7. StartInv'
    <2>1. \A q2 \in Request : Starting(q2)' => Starting(q2) /\ q2 # q
      BY <1>3, <1>4 DEF Starting
    <2>2. \A q2 \in Request : Starting(q2) => req[q2].run \in RunId
      BY <1>0 DEF RunInv, StartInv, TypeOK
    <2>3. QED
      BY <1>0, <1>1, <1>4, <1>5, <2>1, <2>2 DEF RunInv, StartInv, Starting
  <1>8. JobInv'
    BY <1>0, <1>5 DEF RunInv, JobInv
  <1>9. ReapInv'
    <2>1. \A q2 \in Request \ {q} : req'[q2] = req[q2] /\ req[q2].now <= clock
      BY <1>0, <1>4 DEF ReapInv
    <2>2. QED
      BY <1>0, <1>3, <1>4, <1>5, <2>1 DEF ReapInv
  <1>10. RowInv'
    BY <1>1, <1>5 DEF RunInv, RowInv, Visible
  <1>11. QED
    BY <1>6, <1>7, <1>8, <1>9, <1>10 DEF RunInv

\* An insert that meets a row of its purpose joins its loser to the readers;
\* one that does not takes a row nobody has, and marks it before it is visible.
LEMMA InsertPreserves ==
  ASSUME RunInv, TypeOK', NEW q \in Poster, Insert(q)
  PROVE  RunInv'
  <1>0. /\ TypeOK /\ ReapInv /\ q \in Request /\ req[q] \in Thread
        /\ UNCHANGED <<job, boot, clock, applied>>
        /\ req[q].pc = "insert" /\ ~Starting(q)
    BY DEF RunInv, Insert, TypeOK, Request, Starting
  <1>1. CASE Holding(req[q].purpose, "RUNNING")
    <2> DEFINE t == [req[q] EXCEPT !.pc = "lost_race"]
    <2>1. /\ t \in Thread /\ t.pc = "lost_race" /\ t.now = req[q].now
          /\ t.rows = req[q].rows /\ t.verdict = req[q].verdict
      BY <1>0, PcAndAnswers DEF Thread
    <2>2. Become(q, t) /\ UNCHANGED <<runs, live>>
      BY <1>1 DEF Insert, Goto
    <2> HIDE DEF t
    <2>3. /\ t.now <= clock
          /\ \A r \in RunId :
               /\ r \in t.rows => Visible(r)
               /\ t.verdict[r] # "none" => Visible(r)
               /\ t.verdict[r] = "run_orphaned" => NoJobAtWork(r)
               /\ t.verdict[r] = "run_deadline_exceeded"
                    => clock > runs[r].deadline + ReapMargin
      BY <1>0, <2>1 DEF ReapInv
    <2>4. QED
      BY <1>0, <2>1, <2>2, <2>3, QuietStep
  <1>2. CASE ~Holding(req[q].purpose, "RUNNING")
    <2>1. PICK r \in RunId :
            /\ runs[r].status = "none"
            /\ runs' = [runs EXCEPT ![r] =
                 [status |-> "PENDING", purpose |-> req[q].purpose,
                  subject |-> req[q].subject, mode |-> req[q].actual,
                  boot |-> boot, deadline |-> req[q].now + RunDeadline,
                  reason |-> "none"]]
            /\ MarkLive(r)
            /\ Become(q, [req[q] EXCEPT !.pc = "commit", !.now = 0, !.run = r])
      BY <1>2 DEF Insert
    <2> DEFINE t == [req[q] EXCEPT !.pc = "commit", !.now = 0, !.run = r]
    <2>2. /\ t.pc = "commit" /\ t.now = 0 /\ t.run = r
          /\ t.rows = req[q].rows /\ t.verdict = req[q].verdict
      BY <1>0 DEF Thread
    <2>3. Become(q, t)
      BY <2>1
    <2> HIDE DEF t
    <2>4. /\ req'[q] = t
          /\ \A q2 \in Request : q2 # q => req'[q2] = req[q2]
      BY <1>0, <2>3, BecomeEffect DEF TypeOK
    <2>5. /\ runs'[r].status = "PENDING" /\ runs'[r].boot = boot
          /\ runs'[r].purpose = req[q].purpose /\ runs'[r].reason = "none"
          /\ \A o \in RunId \ {r} : runs'[o] = runs[o]
          /\ r \in live' /\ \A o \in RunId \ {r} : o \in live' <=> o \in live
      BY <1>0, <2>1 DEF TypeOK, MarkLive
    <2>6. ~Visible(r) /\ job[r] = "none" /\ r \notin applied
      BY <2>1 DEF Visible, RunInv, JobInv, AppliedIffCompleted
    <2>7. \A o \in RunId \ {r} : /\ Visible(o) <=> Visible(o)'
                                 /\ NoJobAtWork(o) => NoJobAtWork(o)'
      BY <1>0, <2>2, <2>4, <2>5 DEF Visible, NoJobAtWork, HandedOff
    <2>8. \A q2 \in Request : Starting(q2) => /\ q2 # q /\ req[q2].run # r
                                              /\ req[q2].run \in RunId
      <3>1. \A q2 \in Request : Starting(q2) =>
              /\ req[q2].run \in RunId
              /\ runs[req[q2].run].status = "PENDING" <=> req[q2].pc = "commit"
        BY <1>0 DEF RunInv, StartInv, TypeOK
      <3>2. \A q2 \in Request : req[q2].pc = "hand_off" =>
              runs[req[q2].run].status # "none"
        BY <1>0 DEF RunInv, StartInv, Starting
      <3>3. QED
        BY <1>0, <2>1, <3>1, <3>2 DEF Starting
    <2>9. OneRunningPerPurpose'
      <3>1. \A o \in RunId : runs[o].status \in {"PENDING", "RUNNING"}
                             => runs[o].purpose # req[q].purpose
        BY <1>2 DEF Insert, Holding
      <3>2. QED
        BY <2>5, <3>1 DEF RunInv, OneRunningPerPurpose
    <2>10. AppliedIffCompleted'
      BY <1>0, <2>5, <2>6 DEF RunInv, AppliedIffCompleted
    <2>11. StartInv'
      <3>1. \A q2 \in Request \ {q} : Starting(q2)' <=> Starting(q2)
        BY <2>4 DEF Starting
      <3>2. \A q2 \in Request \ {q} : Starting(q2) =>
              /\ req'[q2].run = req[q2].run
              /\ runs'[req[q2].run] = runs[req[q2].run]
              /\ req[q2].run \in live'
        BY <2>4, <2>5, <2>8 DEF RunInv, StartInv
      <3>3. QED
        BY <1>0, <2>2, <2>4, <2>5, <2>6, <2>8, <3>1, <3>2
           DEF RunInv, StartInv, Starting
    <2>12. JobInv'
      BY <1>0, <2>5, <2>6, <2>7 DEF RunInv, JobInv
    <2>13. ReapInv'
      <3>1. \A q2 \in Request : /\ req'[q2].now <= clock'
                                /\ req'[q2].rows = req[q2].rows
                                /\ req'[q2].verdict = req[q2].verdict
        BY <1>0, <2>2, <2>4 DEF ReapInv, TypeOK
      <3>2. \A q2 \in Request : /\ r \notin req[q2].rows
                                /\ req[q2].verdict[r] = "none"
        BY <1>0, <2>6 DEF ReapInv
      <3>3. QED
        BY <1>0, <2>5, <2>7, <3>1, <3>2 DEF ReapInv
    <2>14. RowInv'
      BY <2>5, <2>7 DEF RunInv, RowInv
    <2>15. QED
      BY <2>9, <2>10, <2>11, <2>12, <2>13, <2>14 DEF RunInv
  <1>3. QED
    BY <1>1, <1>2

\* A request that leaves its start for good: the run it started is its own, so
\* no other request starts it, and a thread at rest claims nothing.
LEMMA CommitPreserves ==
  ASSUME RunInv, TypeOK', NEW q \in Poster, CommitStart(q)
  PROVE  RunInv'
  <1> DEFINE r == req[q].run
  <1>0. /\ TypeOK /\ ReapInv /\ q \in Request /\ req[q] \in Thread
        /\ UNCHANGED <<job, boot, clock, applied>> /\ 0 <= clock
        /\ req[q].pc = "commit" /\ Starting(q)
        /\ r \in live /\ r \in RunId /\ job[r] = "none"
        /\ runs[r].status = "PENDING" /\ runs[r].boot = boot
        /\ runs[r].reason # "run_orphaned"
    <2>1. TypeOK /\ q \in Request /\ req[q].pc = "commit" /\ Starting(q)
      BY DEF RunInv, CommitStart, Request, Starting
    <2>2. req[q].run \in live /\ runs[req[q].run].status = "PENDING"
          /\ runs[req[q].run].boot = boot /\ job[req[q].run] = "none"
      BY <2>1 DEF RunInv, StartInv
    <2>3. req[q].run \in RunId
      BY <2>1, <2>2 DEF TypeOK
    <2>4. runs[req[q].run].reason # "run_orphaned"
      BY <2>2, <2>3 DEF RunInv, RowInv, Visible
    <2>5. /\ ReapInv /\ req[q] \in Thread /\ 0 <= clock
          /\ UNCHANGED <<job, boot, clock, applied>>
      BY <2>1 DEF RunInv, TypeOK, CommitStart
    <2>6. QED
      BY <2>1, <2>2, <2>3, <2>4, <2>5
  <1> HIDE DEF r
  <1>1. \E t \in Thread :
          /\ Become(q, t) /\ t.now <= clock
          /\ (t.pc = "hand_off" /\ t.run = r) \/ t.pc = "idle"
          /\ \A o \in RunId : /\ o \in t.rows => o \in req[q].rows
                              /\ \/ t.verdict[o] = req[q].verdict[o]
                                 \/ t.verdict[o] = "none"
          /\ t.pc = "hand_off" => runs'[r].status = "RUNNING" /\ live' = live
    <2> DEFINE t0 == [req[q] EXCEPT !.pc = "hand_off"]
    <2>1. /\ t0 \in Thread /\ t0.pc = "hand_off" /\ t0.now = req[q].now
          /\ t0.rows = req[q].rows /\ t0.verdict = req[q].verdict
          /\ t0.run = r
      BY <1>0, PcAndAnswers DEF Thread, r
    <2>2. req[q].now <= clock
      BY <1>0 DEF ReapInv
    <2>3. \/ /\ Become(q, t0) /\ live' = live
             /\ runs' = [runs EXCEPT ![r].status = "RUNNING"]
          \/ Refuse(q, "error")
      BY DEF CommitStart, Goto, r
    <2> HIDE DEF t0
    <2>4. CASE Refuse(q, "error")
      BY <1>0, <2>4, ReplyEffect, PcAndAnswers
    <2>5. CASE ~Refuse(q, "error")
      <3>1. runs'[r].status = "RUNNING"
        BY <1>0, <2>3, <2>5 DEF TypeOK, Row
      <3>2. QED
        BY <2>1, <2>2, <2>3, <2>5, <3>1
    <2>6. QED
      BY <2>4, <2>5
  <1>2. PICK t \in Thread :
          /\ Become(q, t) /\ t.now <= clock
          /\ (t.pc = "hand_off" /\ t.run = r) \/ t.pc = "idle"
          /\ \A o \in RunId : /\ o \in t.rows => o \in req[q].rows
                              /\ \/ t.verdict[o] = req[q].verdict[o]
                                 \/ t.verdict[o] = "none"
          /\ t.pc = "hand_off" => runs'[r].status = "RUNNING" /\ live' = live
    BY <1>1
  <1>3. /\ req'[q] = t
        /\ \A q2 \in Request : q2 # q => req'[q2] = req[q2]
    BY <1>0, <1>2, BecomeEffect DEF TypeOK
  <1>4. /\ \A o \in RunId \ {r} : runs'[o] = runs[o]
        /\ \A o \in RunId \ {r} : o \in live' <=> o \in live
        /\ \/ runs'[r] = BlankRow
           \/ runs'[r] = [runs[r] EXCEPT !.status = "RUNNING"]
    BY <1>0 DEF CommitStart, TypeOK, r
  <1>5. /\ runs'[r].status \in {"none", "RUNNING"}
        /\ runs'[r].reason # "run_orphaned"
        /\ runs'[r].status = "RUNNING" =>
             runs'[r].purpose = runs[r].purpose /\ runs'[r].boot = boot
    <2>1. runs[r] \in Row
      BY <1>0 DEF TypeOK
    <2>2. CASE runs'[r] = BlankRow
      BY <2>2 DEF BlankRow
    <2>3. CASE runs'[r] = [runs[r] EXCEPT !.status = "RUNNING"]
      BY <1>0, <2>1, <2>3 DEF Row
    <2>4. QED
      BY <1>4, <2>2, <2>3
  <1>6. \A q2 \in Request : q2 # q /\ Starting(q2) =>
          req[q2].run # r /\ req[q2].run \in RunId
    BY <1>0 DEF RunInv, StartInv, TypeOK, r
  <1>7. \A o \in RunId \ {r} : /\ Visible(o) <=> Visible(o)'
                               /\ NoJobAtWork(o) => NoJobAtWork(o)'
    BY <1>0, <1>2, <1>3, <1>4 DEF Visible, NoJobAtWork, HandedOff
  <1>8. OneRunningPerPurpose'
    BY <1>0, <1>4, <1>5 DEF RunInv, OneRunningPerPurpose
  <1>9. AppliedIffCompleted'
    BY <1>0, <1>4, <1>5 DEF RunInv, AppliedIffCompleted
  <1>10. StartInv'
    <2>1. \A q2 \in Request \ {q} : Starting(q2)' <=> Starting(q2)
      BY <1>3 DEF Starting
    <2>2. \A q2 \in Request \ {q} : Starting(q2) =>
            /\ req'[q2].run = req[q2].run
            /\ runs'[req[q2].run] = runs[req[q2].run]
            /\ req[q2].run \in live'
      BY <1>3, <1>4, <1>6 DEF RunInv, StartInv
    <2>3. Starting(q)' => t.pc = "hand_off"
      BY <1>2, <1>3 DEF Starting
    <2>4. \A q2 \in Request \ {q} : Starting(q2)' =>
            /\ req'[q2].run # r
            /\ req'[q2].run \in live'
            /\ runs'[req'[q2].run].boot = boot'
            /\ runs'[req'[q2].run].status # "none"
            /\ job'[req'[q2].run] = "none"
            /\ runs'[req'[q2].run].status = "PENDING" <=> req'[q2].pc = "commit"
            /\ \A q3 \in Request \ {q} :
                 Starting(q3)' /\ req'[q3].run = req'[q2].run => q3 = q2
      BY <1>0, <1>3, <1>6, <2>1, <2>2 DEF RunInv, StartInv
    <2>5. Starting(q)' =>
            /\ req'[q].run = r /\ req'[q].pc = "hand_off"
            /\ r \in live' /\ runs'[r].boot = boot' /\ job'[r] = "none"
            /\ runs'[r].status = "RUNNING"
      BY <1>0, <1>2, <1>3, <1>5, <2>3
    <2>6. QED
      BY <2>4, <2>5 DEF StartInv
  <1>11. JobInv'
    BY <1>0, <1>4, <1>7 DEF RunInv, JobInv
  <1>12. ReapInv'
    <2>1. \A q2 \in Request :
            /\ req'[q2].now <= clock'
            /\ \A o \in RunId : /\ o \in req'[q2].rows => o \in req[q2].rows
                                /\ \/ req'[q2].verdict[o] = req[q2].verdict[o]
                                   \/ req'[q2].verdict[o] = "none"
      BY <1>0, <1>2, <1>3 DEF ReapInv
    <2>2. \A q2 \in Request : /\ r \notin req[q2].rows
                              /\ req[q2].verdict[r] = "none"
      BY <1>0 DEF ReapInv, Visible
    <2>3. QED
      BY <1>0, <1>4, <1>7, <2>1, <2>2 DEF ReapInv
  <1>13. RowInv'
    BY <1>4, <1>5, <1>7 DEF RunInv, RowInv
  <1>14. QED
    BY <1>8, <1>9, <1>10, <1>11, <1>12, <1>13 DEF RunInv

LEMMA HandOffPreserves ==
  ASSUME RunInv, TypeOK', NEW q \in Poster, HandOff(q)
  PROVE  RunInv'
  <1> DEFINE r == req[q].run
  <1>0. /\ TypeOK /\ ReapInv /\ q \in Request /\ 0 <= clock
        /\ UNCHANGED <<runs, live, boot, clock, applied>>
        /\ req[q].pc = "hand_off" /\ Starting(q)
    BY DEF RunInv, HandOff, Request, Starting, TypeOK
  <1>1. /\ r \in live /\ r \in RunId /\ job[r] = "none"
        /\ Visible(r) /\ runs[r].boot = boot
    BY <1>0 DEF RunInv, StartInv, TypeOK, Visible
  <1>2. /\ \A o \in RunId \ {r} : job'[o] = job[o]
        /\ job'[r] \in {"none", "working"}
    BY <1>0, <1>1 DEF HandOff, TypeOK
  <1>3. PICK t \in Thread : /\ Become(q, t) /\ t.pc = "idle" /\ t.now = 0
                            /\ t.rows = {}
                            /\ \A o \in RunId : t.verdict[o] = "none"
    <2>1. Hand(q, "started", r) \/ Refuse(q, "error")
      BY DEF HandOff
    <2>2. QED
      BY <1>0, <1>1, <2>1, ReplyEffect, PcAndAnswers
  <1>4. /\ req'[q] = t
        /\ \A q2 \in Request : q2 # q => req'[q2] = req[q2]
    BY <1>0, <1>3, BecomeEffect DEF TypeOK
  <1>5. ~NoJobAtWork(r)
    BY <1>0 DEF NoJobAtWork, HandedOff
  <1> HIDE DEF r
  <1>6. \A o \in RunId : NoJobAtWork(o) => NoJobAtWork(o)'
    BY <1>2, <1>3, <1>4, <1>5 DEF NoJobAtWork, HandedOff
  <1>7. OneRunningPerPurpose' /\ AppliedIffCompleted'
    BY <1>0 DEF RunInv, OneRunningPerPurpose, AppliedIffCompleted
  <1>8. StartInv'
    <2>1. \A q2 \in Request : Starting(q2)' =>
            /\ q2 # q /\ Starting(q2) /\ req'[q2] = req[q2]
            /\ req[q2].run # r
      BY <1>0, <1>3, <1>4 DEF Starting, RunInv, StartInv, r
    <2>2. \A q2 \in Request : Starting(q2) => req[q2].run \in RunId
      BY <1>0 DEF RunInv, StartInv, TypeOK
    <2>3. QED
      BY <1>0, <1>2, <2>1, <2>2 DEF RunInv, StartInv
  <1>9. JobInv'
    BY <1>0, <1>1, <1>2 DEF RunInv, JobInv, Visible
  <1>10. ReapInv'
    BY <1>0, <1>3, <1>4, <1>6 DEF ReapInv, Visible
  <1>11. RowInv'
    BY <1>0, <1>6 DEF RunInv, RowInv, Visible
  <1>12. QED
    BY <1>7, <1>8, <1>9, <1>10, <1>11 DEF RunInv

\* Time only passes what was already past.
LEMMA TickPreserves ==
  ASSUME RunInv, TypeOK', Tick
  PROVE  RunInv'
  <1>1. /\ TypeOK /\ ReapInv /\ clock \in Nat /\ clock' = clock + 1
        /\ UNCHANGED <<runs, live, job, req, boot, applied>>
    BY DEF RunInv, Tick, TypeOK
  <1>2. OneRunningPerPurpose' /\ AppliedIffCompleted' /\ StartInv' /\ JobInv'
    BY <1>1 DEF RunInv, OneRunningPerPurpose, AppliedIffCompleted, StartInv,
       JobInv, Starting, Visible
  <1>3. RowInv'
    BY <1>1 DEF RunInv, RowInv, Visible, NoJobAtWork, HandedOff
  <1>4. \A q \in Request, r \in RunId :
          /\ req[q].now \in Nat /\ runs[r].deadline \in Nat
          /\ NoJobAtWork(r)' <=> NoJobAtWork(r)
    BY <1>1 DEF TypeOK, Thread, Row, NoJobAtWork, HandedOff
  <1>5. ReapInv'
    <2>1. \A q \in Request : req'[q].now <= clock'
      BY <1>1, <1>4 DEF ReapInv, TypeOK, Thread
    <2>2. ASSUME NEW r \in RunId, clock > runs[r].deadline + ReapMargin
          PROVE  clock' > runs'[r].deadline + ReapMargin
      BY <1>1, <2>2, RunsAssumption DEF TypeOK, Row
    <2>3. QED
      BY <1>1, <1>4, <2>1, <2>2 DEF ReapInv, Visible
  <1>6. QED
    BY <1>2, <1>3, <1>5 DEF RunInv

\* A boot forgets every request, job and mark, and keeps every visible row.
LEMMA RestartPreserves ==
  ASSUME RunInv, TypeOK', Restart
  PROVE  RunInv'
  <1>1. /\ TypeOK /\ live' = {} /\ UNCHANGED <<clock, applied>> /\ 0 <= clock
        /\ \A r \in RunId : job'[r] = "none"
        /\ \A q \in Request : req'[q] = Idle
        /\ \A r \in RunId : runs'[r] =
             IF runs[r].status = "PENDING" THEN BlankRow ELSE runs[r]
    BY DEF RunInv, Restart, TypeOK
  <1>2. BlankRow.status = "none" /\ BlankRow.reason = "none"
    BY DEF BlankRow
  <1>3. \A r \in RunId : NoJobAtWork(r)'
    BY <1>1, IdleEffect DEF NoJobAtWork, HandedOff
  <1>4. \A r \in RunId : Visible(r) => runs'[r] = runs[r]
    BY <1>1 DEF Visible
  <1>5. OneRunningPerPurpose' /\ AppliedIffCompleted'
    BY <1>1, <1>2 DEF RunInv, OneRunningPerPurpose, AppliedIffCompleted
  <1>6. StartInv'
    BY <1>1, IdleEffect DEF StartInv, Starting
  <1>7. JobInv'
    BY <1>1 DEF JobInv
  <1>8. ReapInv'
    BY <1>1, IdleEffect DEF ReapInv
  <1>9. RowInv'
    BY <1>1, <1>2, <1>3, <1>4 DEF RunInv, RowInv, Visible
  <1>10. QED
    BY <1>5, <1>6, <1>7, <1>8, <1>9 DEF RunInv

LEMMA InitSafe == Init => RunInv
  <1> SUFFICES ASSUME Init PROVE RunInv
    OBVIOUS
  <1>1. /\ TypeOK /\ clock = 0 /\ applied = {}
        /\ \A r \in RunId : runs[r].status = "none" /\ runs[r].reason = "none"
        /\ \A r \in RunId : job[r] = "none"
        /\ \A q \in Request : req[q] = Idle
    BY InitTyped DEF Init, BlankRow
  <1>2. OneRunningPerPurpose /\ AppliedIffCompleted /\ JobInv /\ RowInv
    BY <1>1 DEF OneRunningPerPurpose, AppliedIffCompleted, JobInv, RowInv
  <1>3. StartInv /\ ReapInv
    BY <1>1, IdleEffect DEF StartInv, ReapInv, Starting
  <1>4. QED
    BY <1>1, <1>2, <1>3 DEF RunInv

LEMMA NextSafe == RunInv /\ [Next]_vars => RunInv'
  <1> SUFFICES ASSUME RunInv, [Next]_vars PROVE RunInv'
    OBVIOUS
  <1>1. TypeOK'
    BY NextTyped DEF RunInv
  <1>2. CASE UNCHANGED vars
    BY <1>2 DEF vars, RunInv, TypeOK, OneRunningPerPurpose,
       AppliedIffCompleted, StartInv, JobInv, ReapInv, RowInv, Starting,
       Visible, NoJobAtWork, HandedOff
  <1>3. ASSUME NEW q \in Request, Read(q) \/ Reap(q)
        PROVE  RunInv'
    BY <1>1, <1>3, QuietRequests, ReapUpdatePreserves DEF Reap
  <1>4. ASSUME NEW q \in Poster, Start(q)
        PROVE  RunInv'
    BY <1>1, <1>4, InsertPreserves, QuietPosts, CommitPreserves,
       HandOffPreserves DEF Start
  <1>5. ASSUME NEW q \in Poster, NEW p \in Purpose, NEW s \in Subject,
               NEW serves \in Mode, NEW actual \in Mode,
               Post(q, p, s, serves, actual)
        PROVE  RunInv'
    BY <1>1, <1>5, QuietPosts
  <1>6. ASSUME NEW r \in RunId, Execute(r)
        PROVE  RunInv'
    BY <1>1, <1>6, JobsPreserve
  <1>7. CASE Tick \/ Restart
    BY <1>1, <1>7, TickPreserves, RestartPreserves
  <1>8. QED
    BY <1>2, <1>3, <1>4, <1>5, <1>6, <1>7 DEF Next

\* The inductive invariant holds of every behaviour.
THEOREM RunSafety == Spec => []RunInv
  BY InitSafe, NextSafe, PTL DEF Spec

\* At most one run of a purpose is ever in progress, for any number of runs,
\* requests, purposes, boots and failures: the edit lock is single.
THEOREM LockIsSingle == Spec => []OneRunningPerPurpose
  <1>1. RunInv => OneRunningPerPurpose
    BY DEF RunInv
  <1>2. QED
    BY <1>1, RunSafety, PTL

\* A run's writes are committed exactly when its row says COMPLETED, whoever
\* reaps it meanwhile: a reaped run never applies late.
THEOREM NothingAppliesLate == Spec => []AppliedIffCompleted
  <1>1. RunInv => AppliedIffCompleted
    BY DEF RunInv
  <1>2. QED
    BY <1>1, RunSafety, PTL

\* A job at work in this process is never ended as orphaned.
THEOREM NoOrphanAtWork == Spec => []NoJobIsOrphaned
  <1>1. RunInv => NoJobIsOrphaned
    BY DEF RunInv, RowInv, NoJobIsOrphaned, NoJobAtWork
  <1>2. QED
    BY <1>1, RunSafety, PTL

\* What a step makes of the rows: nothing, or one row that is not terminal,
\* or the update of a reap.
LEMMA RowsMove ==
  ASSUME RunInv, [Next]_vars
  PROVE  \/ UNCHANGED runs
         \/ \E q \in Request : ReapUpdate(q)
         \/ \E r \in RunId :
              /\ runs[r].status \in {"none", "PENDING"} \/ job[r] = "failing"
                   \/ runs'[r].status = "COMPLETED"
              /\ runs[r].status \notin Terminal
              /\ \A o \in RunId \ {r} : runs'[o] = runs[o]
         \/ Restart
  <1>0. TypeOK
    BY DEF RunInv
  <1>1. CASE UNCHANGED vars
    BY <1>1 DEF vars
  <1>2. ASSUME NEW q \in Request, Read(q) \/ Reap(q)
        PROVE  UNCHANGED runs \/ ReapUpdate(q)
    BY <1>2 DEF Read, Reap, ReapRead, ReapDecide, Lookup
  <1>3. ASSUME NEW q \in Poster, Start(q)
        PROVE  \/ UNCHANGED runs
               \/ \E r \in RunId :
                    /\ runs[r].status \in {"none", "PENDING"}
                    /\ \A o \in RunId \ {r} : runs'[o] = runs[o]
    <2>1. CASE Insert(q)
      BY <1>0, <2>1 DEF Insert, TypeOK
    <2>2. CASE CommitStart(q)
      <3>1. q \in Request /\ Starting(q) /\ req[q].pc = "commit"
        BY <2>2 DEF CommitStart, Request, Starting
      <3>2. runs[req[q].run].status = "PENDING" /\ req[q].run \in RunId
        BY <1>0, <3>1 DEF RunInv, StartInv, TypeOK
      <3>3. \A o \in RunId \ {req[q].run} : runs'[o] = runs[o]
        BY <1>0, <2>2 DEF CommitStart, TypeOK
      <3>4. QED
        BY <3>2, <3>3
    <2>3. QED
      BY <1>3, <2>1, <2>2 DEF Start, LostRace, HandOff
  <1>4. ASSUME NEW r \in RunId, Execute(r)
        PROVE  \/ UNCHANGED runs
               \/ /\ Running(r) /\ \A o \in RunId \ {r} : runs'[o] = runs[o]
                  /\ job[r] = "failing" \/ runs'[r].status = "COMPLETED"
    <2>1. runs[r] \in Row
      BY <1>0 DEF TypeOK
    <2>2. CASE JobComplete(r)
      BY <1>0, <2>1, <2>2 DEF JobComplete, StillRunning, TypeOK, Row
    <2>3. CASE JobFail(r)
      <3>1. \A o \in RunId \ {r} : runs'[o] = runs[o]
        BY <1>0, <2>3 DEF JobFail, TypeOK
      <3>2. job[r] = "failing"
        BY <2>3 DEF JobFail, JobAt
      <3>3. UNCHANGED runs \/ runs' = [runs EXCEPT ![r] = FailIfRunning(@, "job")]
        BY <2>3 DEF JobFail
      <3>4. ~Running(r) => FailIfRunning(runs[r], "job") = runs[r]
        BY DEF Running, FailIfRunning
      <3>5. ~Running(r) => UNCHANGED runs
        BY <1>0, <3>3, <3>4 DEF TypeOK
      <3>6. QED
        BY <3>1, <3>2, <3>5
    <2>4. QED
      BY <1>4, <2>2, <2>3 DEF Execute, JobAdmit, JobRaise, JobFinish
  <1>5. ASSUME NEW q \in Poster, NEW p \in Purpose, NEW s \in Subject,
               NEW serves \in Mode, NEW actual \in Mode,
               Post(q, p, s, serves, actual)
        PROVE  UNCHANGED runs
    BY <1>5 DEF Post
  <1>6. CASE Tick
    BY <1>6 DEF Tick
  <1>7. {"none", "PENDING", "RUNNING"} \cap Terminal = {}
    BY DEF Terminal
  <1>8. QED
    <2>1. ASSUME NEW r \in RunId, \E o \in {"none", "PENDING", "RUNNING"} :
                   runs[r].status = o
          PROVE  runs[r].status \notin Terminal
      BY <1>7, <2>1
    <2>2. \A r \in RunId : Running(r) => runs[r].status \notin Terminal
      BY <1>7 DEF Running
    <2>3. CASE \E q \in Request : Read(q) \/ Reap(q)
      BY <1>2, <2>3
    <2>4. CASE \E q \in Poster : Start(q)
      BY <1>3, <2>1, <2>4
    <2>5. CASE \E r \in RunId : Execute(r)
      BY <1>4, <2>2, <2>5
    <2>6. QED
      BY <1>1, <1>5, <1>6, <2>3, <2>4, <2>5 DEF Next

\* A run ends once and for good, and a job with time left is ended by nobody
\* but itself.
THEOREM EndsOnce == Spec => RunsEndOnce
  <1>1. ASSUME RunInv, [Next]_vars, NEW r \in RunId,
               runs[r].status \in Terminal
        PROVE  runs'[r] = runs[r]
    <2>0. TypeOK /\ runs[r].status \notin {"PENDING", "RUNNING"}
      BY <1>1 DEF RunInv, Terminal
    <2>1. ASSUME NEW q \in Request, ReapUpdate(q)
          PROVE  runs'[r] = runs[r]
      BY <2>0, <2>1 DEF ReapUpdate, FailIfRunning
    <2>2. CASE Restart
      BY <2>0, <2>2 DEF Restart
    <2>3. QED
      BY <1>1, <2>1, <2>2, RowsMove
  <1>2. ASSUME RunInv, [Next]_vars, NEW r \in RunId, Running(r),
               runs'[r].status = "FAILED", job[r] = "working"
        PROVE  clock > LockUntil(r)
    <2>0. TypeOK /\ ReapInv /\ ~NoJobAtWork(r) /\ runs[r] \in Row
      BY <1>2 DEF RunInv, NoJobAtWork, TypeOK
    <2>1. ASSUME NEW q \in Request, ReapUpdate(q)
          PROVE  clock > LockUntil(r)
      <3>1. CASE UNCHANGED runs
        BY <1>2, <3>1 DEF Running
      <3>2. CASE runs'[r] = FailIfRunning(runs[r], req[q].verdict[r])
        <4>1. req[q].verdict[r] # "none"
          BY <1>2, <2>0, <3>2, FailEffect DEF Running
        <4>2. req[q].verdict[r] \in Cause \cup {"none"}
          BY <2>0 DEF TypeOK, Thread
        <4>3. req[q].verdict[r] = "run_deadline_exceeded"
          BY <2>0, <4>1, <4>2 DEF ReapInv, Cause
        <4>4. QED
          BY <2>0, <4>3 DEF ReapInv, LockUntil
      <3>3. QED
        BY <2>1, <3>1, <3>2 DEF ReapUpdate
    <2>2. CASE Restart
      BY <1>2, <2>0, <2>2 DEF Restart, Running, BlankRow
    <2>3. QED
      BY <1>2, <2>1, <2>2, RowsMove DEF Running
  <1>3. RunInv /\ [Next]_vars =>
          [\A r \in RunId :
             /\ runs[r].status \in Terminal => runs'[r] = runs[r]
             /\ Running(r) /\ runs'[r].status = "FAILED" /\ job[r] = "working"
                  => clock > LockUntil(r)]_vars
    BY <1>1, <1>2
  <1>4. QED
    BY <1>3, RunSafety, PTL DEF Spec, RunsEndOnce

---------------------------------------------------------------------------
(* Places. PlaceInv is inductive beside RunInv.                            *)

\* A request that does not move to its hand-off leaves none to hand off.
LEMMA NoHandOff ==
  ASSUME TypeOK, NEW q \in Request,
         \/ \E a \in Answer : Refuse(q, a)
         \/ \E a \in Answer, r \in RunId \cup {NoRun} : Hand(q, a, r)
         \/ \E r \in RunId : JoinOrRefuse(q, r)
         \/ \E t \in Thread : Become(q, t) /\ t.pc # "hand_off"
  PROVE  \A r \in RunId : HandedOff(r) => HandedOff(r)'
  <1>1. PICK t \in Thread : Become(q, t) /\ t.pc # "hand_off"
    BY ReplyEffect, JoinEffect
  <1>2. \A q2 \in Request : req'[q2].pc = "hand_off" => req'[q2] = req[q2]
    BY <1>1, BecomeEffect DEF TypeOK
  <1>3. QED
    BY <1>2 DEF HandedOff

\* Nothing but a commit gives a request a run to hand off.
LEMMA RequestsHandOff ==
  ASSUME TypeOK, NEW q \in Request,
         \/ Read(q) \/ Reap(q) \/ Insert(q) \/ LostRace(q)
         \/ \E p \in Purpose, s \in Subject, serves, actual \in Mode :
              Post(q, p, s, serves, actual)
  PROVE  \A r \in RunId : HandedOff(r) => HandedOff(r)'
  <1>0. req[q] \in Thread /\ Idle \in Thread
    BY IdleTyped DEF TypeOK
  <1>1. CASE Read(q)
    <2>1. [Idle EXCEPT !.pc = "reap_read"] \in Thread
      BY <1>0, PcAndAnswers DEF Thread
    <2>2. [Idle EXCEPT !.pc = "reap_read"].pc # "hand_off"
      BY <1>0 DEF Thread
    <2>3. QED
      BY <1>1, <2>1, <2>2, NoHandOff DEF Read
  <1>2. CASE ReapRead(q)
    <2> DEFINE found == {r \in RunId : Running(r) /\ InReach(q, r)}
               t == [req[q] EXCEPT !.pc = "reap_decide", !.now = clock,
                                   !.rows = found]
               u == [req[q] EXCEPT !.pc = "lookup"]
    <2>1. /\ t \in Thread /\ t.pc # "hand_off"
          /\ u \in Thread /\ u.pc # "hand_off"
      BY <1>0, PcAndAnswers DEF Thread, TypeOK
    <2>2. Become(q, t) \/ Become(q, u)
      BY <1>2 DEF ReapRead, Goto
    <2> HIDE DEF t, u
    <2>3. QED
      BY <2>1, <2>2, NoHandOff
  <1>3. CASE ReapDecide(q)
    <2> DEFINE why == [r \in RunId |-> IF r \in req[q].rows
                         THEN OrphanCause(r, req[q].now) ELSE "none"]
               t == [req[q] EXCEPT !.verdict = why, !.rows = {}, !.now = 0,
                       !.pc = IF why = NoVerdict THEN "lookup"
                              ELSE "reap_update"]
    <2>1. why \in [RunId -> Cause \cup {"none"}]
      BY DEF OrphanCause, Cause
    <2> HIDE DEF why
    <2>2. (IF why = NoVerdict THEN "lookup" ELSE "reap_update") \in
            RequestPc \ {"hand_off"}
      BY PcAndAnswers
    <2>3. t \in Thread /\ t.pc # "hand_off"
      BY <1>0, <2>1, <2>2, JudgedTyped DEF Thread
    <2>4. Become(q, t)
      BY <1>3 DEF ReapDecide, why
    <2> HIDE DEF t
    <2>5. QED
      BY <2>3, <2>4, NoHandOff
  <1>4. CASE ReapUpdate(q)
    <2> DEFINE t == [req[q] EXCEPT !.pc = "lookup", !.verdict = NoVerdict]
    <2>1. t \in Thread /\ t.pc # "hand_off"
      BY <1>0, PcAndAnswers DEF Thread, NoVerdict
    <2>2. Become(q, t) \/ Refuse(q, "error")
      BY <1>4 DEF ReapUpdate
    <2> HIDE DEF t
    <2>3. QED
      BY <2>1, <2>2, PcAndAnswers, NoHandOff
  <1>5. CASE Lookup(q)
    <2> DEFINE t == [req[q] EXCEPT !.pc = "insert", !.now = clock]
    <2>1. t \in Thread /\ t.pc # "hand_off"
      BY <1>0, PcAndAnswers DEF Thread, TypeOK
    <2>2. \/ Refuse(q, "free") \/ Refuse(q, "locked") \/ Become(q, t)
          \/ \E r \in RunId : JoinOrRefuse(q, r)
      BY <1>5 DEF Lookup
    <2> HIDE DEF t
    <2>3. QED
      BY <2>1, <2>2, PcAndAnswers, NoHandOff
  <1>6. CASE Insert(q)
    <2>1. PICK r \in RunId \cup {NoRun} :
            \/ Become(q, [req[q] EXCEPT !.pc = "lost_race"])
            \/ Become(q, [req[q] EXCEPT !.pc = "commit", !.now = 0, !.run = r])
      BY <1>6 DEF Insert, Goto
    <2> DEFINE t == [req[q] EXCEPT !.pc = "commit", !.now = 0, !.run = r]
               u == [req[q] EXCEPT !.pc = "lost_race"]
    <2>2. /\ t \in Thread /\ t.pc # "hand_off"
          /\ u \in Thread /\ u.pc # "hand_off"
      BY <1>0, PcAndAnswers DEF Thread
    <2>3. Become(q, t) \/ Become(q, u)
      BY <2>1
    <2> HIDE DEF t, u
    <2>4. QED
      BY <2>2, <2>3, NoHandOff
  <1>7. CASE LostRace(q)
    BY <1>7, PcAndAnswers, NoHandOff DEF LostRace
  <1>8. ASSUME NEW p \in Purpose, NEW s \in Subject, NEW serves \in Mode,
               NEW actual \in Mode, Post(q, p, s, serves, actual)
        PROVE  \A r \in RunId : HandedOff(r) => HandedOff(r)'
    <2> DEFINE t == [Idle EXCEPT !.pc = "reap_read", !.kind = "post",
                       !.purpose = p, !.subject = s,
                       !.serves = serves, !.actual = actual]
    <2>1. t \in Thread /\ t.pc # "hand_off"
      BY <1>0, PcAndAnswers DEF Thread
    <2>2. Become(q, t) \/ Refuse(q, "status_changed")
      BY <1>8 DEF Post
    <2> HIDE DEF t
    <2>3. QED
      BY <2>1, <2>2, PcAndAnswers, NoHandOff
  <1>9. QED
    BY <1>1, <1>2, <1>3, <1>4, <1>5, <1>6, <1>7, <1>8 DEF Reap

\* A step that moves no place and no job, ends no run and hands none off.
LEMMA PlacesStand ==
  ASSUME PlaceInv, UNCHANGED <<place, job>>,
         \A r \in RunId : /\ Running(r) => Running(r)'
                          /\ HandedOff(r) => HandedOff(r)'
  PROVE  PlaceInv'
  BY DEF PlaceInv

LEMMA PlacesOfRequests ==
  ASSUME RunInv, PlaceInv, NEW q \in Request,
         \/ Read(q) \/ ReapRead(q) \/ ReapDecide(q) \/ Lookup(q) \/ LostRace(q)
         \/ \E p \in Purpose, s \in Subject, serves, actual \in Mode :
              Post(q, p, s, serves, actual)
  PROVE  PlaceInv'
  <1>1. UNCHANGED <<runs, place, job>>
    BY DEF Read, ReapRead, ReapDecide, Lookup, LostRace, Post
  <1>2. \A r \in RunId : HandedOff(r) => HandedOff(r)'
    BY RequestsHandOff DEF RunInv, Reap
  <1>3. QED
    BY <1>1, <1>2, PlacesStand DEF Running

\* A reap gives back the place of every run it ends, in the same step.
LEMMA PlacesOfReap ==
  ASSUME RunInv, PlaceInv, NEW q \in Request, ReapUpdate(q)
  PROVE  PlaceInv'
  <1>1. \A r \in RunId : HandedOff(r) => HandedOff(r)'
    BY RequestsHandOff DEF RunInv, Reap
  <1>2. job' = job /\ place \in [RunId -> {"none", "held", "ended"}]
    BY DEF ReapUpdate, RunInv, TypeOK
  <1>3. \A r \in RunId :
          \/ place'[r] = "ended"
          \/ place'[r] = place[r] /\ (Running(r) => Running(r)')
    BY <1>2 DEF ReapUpdate, ReleaseRuns, Running
  <1>4. QED
    BY <1>1, <1>2, <1>3 DEF PlaceInv

\* A start ends no run; the run its commit makes visible is in progress.
LEMMA PlacesOfStart ==
  ASSUME RunInv, PlaceInv, NEW q \in Poster, Start(q)
  PROVE  PlaceInv'
  <1>0. TypeOK /\ q \in Request
    BY DEF RunInv, Request
  <1>1. CASE LostRace(q)
    BY <1>0, <1>1, PlacesOfRequests
  <1>2. CASE Insert(q)
    <2>1. \A r \in RunId : Running(r) => runs'[r] = runs[r]
      BY <1>0, <1>2 DEF Insert, TypeOK, Running
    <2>2. UNCHANGED <<place, job>>
      BY <1>2 DEF Insert
    <2>3. QED
      BY <1>0, <1>2, <2>1, <2>2, RequestsHandOff, PlacesStand DEF Running
  <1>3. CASE CommitStart(q)
    <2>1. Starting(q) /\ req[q].pc = "commit" /\ UNCHANGED <<place, job>>
      BY <1>3 DEF CommitStart, Starting
    <2>2. PICK n \in RunId : n = req[q].run
      BY <1>0, <2>1 DEF RunInv, StartInv, TypeOK
    <2>3. runs[n].status = "PENDING"
      BY <1>0, <2>1, <2>2 DEF RunInv, StartInv
    <2>4. \A r \in RunId : Running(r) => Running(r)'
      BY <1>0, <1>3, <2>2, <2>3 DEF CommitStart, TypeOK, Running
    <2>5. CASE Refuse(q, "error")
      <3>1. \A r \in RunId : HandedOff(r) => HandedOff(r)'
        BY <1>0, <2>5, PcAndAnswers, NoHandOff
      <3>2. QED
        BY <2>1, <2>4, <3>1, PlacesStand
    <2>6. CASE ~Refuse(q, "error")
      <3>1. runs' = [runs EXCEPT ![n].status = "RUNNING"] /\ Goto(q, "hand_off")
        BY <1>3, <2>2, <2>6 DEF CommitStart
      <3>2. Running(n)'
        BY <1>0, <3>1 DEF TypeOK, Row, Running
      <3>3. /\ req'[q].run = n
            /\ \A q2 \in Request : q2 # q => req'[q2] = req[q2]
        BY <1>0, <2>2, <3>1 DEF Goto, Become, TypeOK, Thread
      <3>4. \A r \in RunId \ {n} : HandedOff(r) => HandedOff(r)'
        BY <1>0, <3>3 DEF HandedOff
      <3>5. QED
        BY <2>1, <2>4, <3>2, <3>4 DEF PlaceInv
    <2>7. QED
      BY <2>5, <2>6
  <1>4. CASE HandOff(q)
    <2>1. /\ Starting(q) /\ req[q].pc = "hand_off"
          /\ UNCHANGED <<runs, place>>
      BY <1>4 DEF HandOff, Starting
    <2>2. PICK n \in RunId : n = req[q].run
      BY <1>0, <2>1 DEF RunInv, StartInv, TypeOK
    <2>3. /\ \A r \in RunId \ {n} : job'[r] = job[r]
          /\ job[n] = "none" /\ ~HandedOff(n)
      BY <1>0, <1>4, <2>1, <2>2 DEF HandOff, TypeOK, RunInv, StartInv, HandedOff
    <2>4. Refuse(q, "error") \/ Hand(q, "started", n)
      BY <1>4, <2>2 DEF HandOff
    <2>5. \A r \in RunId : HandedOff(r) => HandedOff(r)'
      BY <1>0, <2>4, PcAndAnswers, NoHandOff
    <2>6. QED
      BY <2>1, <2>3, <2>5 DEF PlaceInv, Running
  <1>5. QED
    BY <1>1, <1>2, <1>3, <1>4 DEF Start

\* A job takes its place while its run is in progress, and gives it back last.
LEMMA PlacesOfJobs ==
  ASSUME RunInv, PlaceInv, NEW r \in RunId, Execute(r)
  PROVE  PlaceInv'
  <1>0. TypeOK /\ req' = req
    BY DEF RunInv, Execute, JobAdmit, JobComplete, JobRaise, JobFail, JobFinish
  <1>1. \A o \in RunId : HandedOff(o)' <=> HandedOff(o)
    BY <1>0 DEF HandedOff
  <1>2. job[r] # "none" => HandedOff(r)
    BY DEF RunInv, StartInv, Starting, HandedOff
  <1>3. CASE JobAdmit(r)
    BY <1>0, <1>1, <1>3 DEF JobAdmit, JobAt, PlaceInv, TypeOK, Running
  <1>4. CASE ~JobAdmit(r)
    <2>1. \A o \in RunId \ {r} : /\ runs'[o] = runs[o] /\ job'[o] = job[o]
                                 /\ place'[o] = place[o]
      BY <1>0, <1>4 DEF Execute, JobComplete, JobRaise, JobFail, JobFinish,
         JobTo, RollBackApply, ReleaseRuns, TypeOK
    <2>2. /\ job[r] # "none"
          /\ \/ job'[r] \in {"failing", "closing"} /\ place'[r] = place[r]
             \/ job'[r] = "none" /\ place'[r] = "ended"
      BY <1>0, <1>4 DEF Execute, JobComplete, JobRaise, JobFail, JobFinish,
         JobAt, JobTo, ReleaseRuns, TypeOK
    <2>3. QED
      BY <1>1, <1>2, <2>1, <2>2 DEF PlaceInv, Running
  <1>5. QED
    BY <1>3, <1>4

LEMMA NextPlaces == RunInv /\ PlaceInv /\ [Next]_vars => PlaceInv'
  <1> SUFFICES ASSUME RunInv, PlaceInv, [Next]_vars PROVE PlaceInv'
    OBVIOUS
  <1>1. CASE UNCHANGED vars
    BY <1>1 DEF vars, PlaceInv, Running, HandedOff
  <1>2. ASSUME NEW q \in Request, Read(q) \/ Reap(q)
        PROVE  PlaceInv'
    BY <1>2, PlacesOfRequests, PlacesOfReap DEF Reap
  <1>3. ASSUME NEW q \in Poster, NEW p \in Purpose, NEW s \in Subject,
               NEW serves \in Mode, NEW actual \in Mode,
               Post(q, p, s, serves, actual)
        PROVE  PlaceInv'
    <2>1. q \in Request
      BY DEF Request
    <2>2. QED
      BY <1>3, <2>1, PlacesOfRequests
  <1>4. CASE Tick
    BY <1>4 DEF Tick, PlaceInv, Running, HandedOff
  <1>5. CASE Restart
    <2>1. \A r \in RunId : place'[r] = "none" /\ job'[r] = "none" /\ HandedOff(r)'
      BY <1>5, IdleEffect DEF Restart, HandedOff
    <2>2. QED
      BY <2>1 DEF PlaceInv
  <1>6. QED
    BY <1>1, <1>2, <1>3, <1>4, <1>5, PlacesOfStart, PlacesOfJobs DEF Next

\* A redaction place is held only for a run in progress or by a job about to
\* give it back: a reap and the end of a job both return it, whatever raced.
THEOREM NoPlaceIsLeaked == Spec => []HeldPlaceIsNeeded
  <1>1. Init => PlaceInv
    BY IdleEffect DEF Init, PlaceInv, HandedOff
  <1>2. PlaceInv => HeldPlaceIsNeeded
    BY DEF PlaceInv, HeldPlaceIsNeeded
  <1>3. QED
    BY <1>1, <1>2, NextPlaces, RunSafety, PTL DEF Spec

---------------------------------------------------------------------------
(* What a POST is handed. HandInv is inductive beside RunInv.              *)

\* A request's AI mode is one its consultant acknowledged, the run it has
\* flushed is of its subject and mode, and the run it was handed what it asked.
ThreadSound(t, rows) ==
  /\ t.actual = "live" => t.serves = "live"
  /\ t.pc # "idle" => t.answer = "none"
  /\ t.pc \in {"commit", "hand_off"} =>
       rows[t.run].subject = t.subject /\ rows[t.run].mode = t.actual
  /\ t.answer \in {"started", "joined"} =>
       /\ t.run \in RunId /\ rows[t.run].status \notin {"none", "PENDING"}
       /\ rows[t.run].subject = t.subject
       /\ rows[t.run].mode = "live" => t.serves = "live"
       /\ rows[t.run].mode = t.serves \/ t.answer = "started"

HandInv == \A q \in Request : ThreadSound(req[q], runs)

\* A visible row stays so, with the subject and the mode it was started with.
KeepsInput(r) ==
  /\ runs'[r].subject = runs[r].subject /\ runs'[r].mode = runs[r].mode
  /\ Visible(r) => runs'[r].status \notin {"none", "PENDING"}

\* A step of one request keeps what the others rely on, if it changes at most
\* the input of a row that no other request has flushed.
LEMMA HandsCarried ==
  ASSUME RunInv, HandInv, NEW q \in Request,
         \A p \in Request : p # q => req'[p] = req[p],
         \A r \in RunId :
           \/ KeepsInput(r)
           \/ /\ ~Visible(r)
              /\ \A p \in Request : p # q /\ Starting(p) => req[p].run # r,
         ThreadSound(req'[q], runs')
  PROVE  HandInv'
  <1> SUFFICES ASSUME NEW p \in Request, p # q
               PROVE  ThreadSound(req[p], runs')
    BY DEF HandInv
  <1>1. ThreadSound(req[p], runs)
    BY DEF HandInv
  <1>2. Starting(p) => req[p].run \in RunId /\ KeepsInput(req[p].run)
    BY DEF RunInv, TypeOK, StartInv
  <1>3. req[p].answer \in {"started", "joined"} =>
          req[p].run \in RunId /\ KeepsInput(req[p].run)
            /\ Visible(req[p].run)
    BY <1>1 DEF ThreadSound, Visible
  <1>4. QED
    BY <1>1, <1>2, <1>3 DEF ThreadSound, KeepsInput, Starting

\* A request that moves on, and touches no row.
LEMMA HandsQuiet ==
  ASSUME RunInv, HandInv, NEW q \in Request, UNCHANGED runs,
         NEW t, Become(q, t), ThreadSound(t, runs)
  PROVE  HandInv'
  <1>1. /\ req'[q] = t
        /\ \A p \in Request : p # q => req'[p] = req[p]
    BY BecomeEffect DEF RunInv, TypeOK
  <1>2. \A r \in RunId : KeepsInput(r)
    BY DEF KeepsInput, Visible
  <1>3. QED
    BY <1>1, <1>2, HandsCarried

\* Moving on without a run.
LEMMA MovesOn ==
  ASSUME HandInv, NEW q \in Request, req[q].pc # "idle", NEW t,
         t.actual = req[q].actual, t.serves = req[q].serves,
         t.answer = req[q].answer, t.pc \notin {"idle", "commit", "hand_off"},
         NEW rows
  PROVE  ThreadSound(t, rows)
  BY DEF HandInv, ThreadSound

\* An answer that hands no run.
LEMMA Refused ==
  ASSUME NEW a, a \notin {"started", "joined"}, NEW rows
  PROVE  ThreadSound([Idle EXCEPT !.answer = a], rows)
  <1> DEFINE t == [Idle EXCEPT !.answer = a]
  <1>1. t.actual = "offline" /\ t.pc = "idle" /\ t.answer = a
    BY DEF Idle
  <1> HIDE DEF t
  <1>2. ThreadSound(t, rows)
    BY <1>1 DEF ThreadSound
  <1>3. QED
    BY <1>2 DEF t

\* An answer that hands the run r.
LEMMA Handed ==
  ASSUME NEW q \in Request, NEW a, NEW r \in RunId, NEW rows,
         rows[r].status \notin {"none", "PENDING"},
         rows[r].subject = req[q].subject,
         rows[r].mode = "live" => req[q].serves = "live",
         rows[r].mode = req[q].serves \/ a = "started"
  PROVE  ThreadSound([Idle EXCEPT !.answer = a, !.serves = req[q].serves,
                                  !.subject = req[q].subject, !.run = r], rows)
  <1> DEFINE t == [Idle EXCEPT !.answer = a, !.serves = req[q].serves,
                               !.subject = req[q].subject, !.run = r]
  <1>1. /\ t.actual = "offline" /\ t.pc = "idle" /\ t.answer = a
        /\ t.run = r /\ t.subject = req[q].subject /\ t.serves = req[q].serves
    BY DEF Idle
  <1> HIDE DEF t
  <1>2. ThreadSound(t, rows)
    BY <1>1 DEF ThreadSound
  <1>3. QED
    BY <1>2 DEF t

LEMMA JoinHands ==
  ASSUME RunInv, HandInv, NEW q \in Request, UNCHANGED runs,
         NEW r \in RunId, Running(r), JoinOrRefuse(q, r)
  PROVE  HandInv'
  <1>1. CASE runs[r].subject # req[q].subject
    BY <1>1, Refused, HandsQuiet DEF JoinOrRefuse, Refuse
  <1>2. CASE runs[r].subject = req[q].subject /\ runs[r].mode # req[q].serves
    BY <1>2, Refused, HandsQuiet DEF JoinOrRefuse, Refuse
  <1>3. CASE runs[r].subject = req[q].subject /\ runs[r].mode = req[q].serves
    <2>1. Become(q, [Idle EXCEPT !.answer = "joined", !.serves = req[q].serves,
                                 !.subject = req[q].subject, !.run = r])
      BY <1>3 DEF JoinOrRefuse, Hand
    <2>2. runs[r].status \notin {"none", "PENDING"}
      BY DEF Running
    <2>3. QED
      BY <1>3, <2>1, <2>2, Handed, HandsQuiet
  <1>4. QED
    BY <1>1, <1>2, <1>3

LEMMA HandsOfReads ==
  ASSUME RunInv, HandInv, NEW q \in Request,
         \/ Read(q) \/ ReapRead(q) \/ ReapDecide(q) \/ Lookup(q) \/ LostRace(q)
         \/ \E p \in Purpose, s \in Subject, serves, actual \in Mode :
              Post(q, p, s, serves, actual)
  PROVE  HandInv'
  <1>0. UNCHANGED runs
    BY DEF Read, ReapRead, ReapDecide, Lookup, LostRace, Post
  <1>1. CASE Read(q)
    <2> DEFINE t == [Idle EXCEPT !.pc = "reap_read"]
    <2>1. t.actual = "offline" /\ t.pc = "reap_read" /\ t.answer = "none"
      BY DEF Idle
    <2>2. Become(q, t)
      BY <1>1 DEF Read
    <2> HIDE DEF t
    <2>3. ThreadSound(t, runs)
      BY <2>1 DEF ThreadSound
    <2>4. QED
      BY <1>0, <2>2, <2>3, HandsQuiet
  <1>2. CASE ReapRead(q)
    <2> DEFINE found == {r \in RunId : Running(r) /\ InReach(q, r)}
               t == [req[q] EXCEPT !.pc = "reap_decide", !.now = clock,
                                   !.rows = found]
               u == [req[q] EXCEPT !.pc = "lookup"]
    <2>1. /\ t.actual = req[q].actual /\ t.serves = req[q].serves
          /\ t.answer = req[q].answer /\ t.pc = "reap_decide"
          /\ u.actual = req[q].actual /\ u.serves = req[q].serves
          /\ u.answer = req[q].answer /\ u.pc = "lookup"
      BY DEF RunInv, TypeOK, Thread
    <2>2. req[q].pc # "idle" /\ (Become(q, t) \/ Become(q, u))
      BY <1>2 DEF ReapRead, Goto
    <2> HIDE DEF t, u
    <2>3. ThreadSound(t, runs) /\ ThreadSound(u, runs)
      BY <2>1, <2>2, MovesOn
    <2>4. QED
      BY <1>0, <2>2, <2>3, HandsQuiet
  <1>3. CASE ReapDecide(q)
    <2> DEFINE why == [r \in RunId |-> IF r \in req[q].rows
                         THEN OrphanCause(r, req[q].now) ELSE "none"]
               pc == IF why = NoVerdict THEN "lookup" ELSE "reap_update"
               t == [req[q] EXCEPT !.verdict = why, !.rows = {}, !.now = 0,
                                   !.pc = pc]
    <2>1. Become(q, t) /\ req[q].pc # "idle" /\ pc \in {"lookup", "reap_update"}
      BY <1>3 DEF ReapDecide
    <2> HIDE DEF why, pc
    <2>2. /\ t.actual = req[q].actual /\ t.serves = req[q].serves
          /\ t.answer = req[q].answer /\ t.pc = pc
      BY DEF RunInv, TypeOK, Thread
    <2> HIDE DEF t
    <2>3. ThreadSound(t, runs)
      BY <2>1, <2>2, MovesOn
    <2>4. QED
      BY <1>0, <2>1, <2>3, HandsQuiet
  <1>4. CASE Lookup(q)
    <2> DEFINE t == [req[q] EXCEPT !.pc = "insert", !.now = clock]
    <2>1. /\ t.actual = req[q].actual /\ t.serves = req[q].serves
          /\ t.answer = req[q].answer /\ t.pc = "insert"
      BY DEF RunInv, TypeOK, Thread
    <2>2. \/ Become(q, [Idle EXCEPT !.answer = "free"])
          \/ Become(q, [Idle EXCEPT !.answer = "locked"])
          \/ Become(q, t) /\ req[q].pc # "idle"
          \/ \E r \in RunId : Running(r) /\ JoinOrRefuse(q, r)
      BY <1>4 DEF Lookup, Refuse
    <2> HIDE DEF t
    <2>3. CASE Become(q, t) /\ req[q].pc # "idle"
      <3>1. ThreadSound(t, runs)
        BY <2>1, <2>3, MovesOn
      <3>2. QED
        BY <1>0, <2>3, <3>1, HandsQuiet
    <2>4. QED
      BY <1>0, <2>2, <2>3, Refused, HandsQuiet, JoinHands
  <1>5. CASE LostRace(q)
    BY <1>0, <1>5, Refused, HandsQuiet, JoinHands DEF LostRace, Refuse
  <1>6. ASSUME NEW p \in Purpose, NEW s \in Subject, NEW serves \in Mode,
               NEW actual \in Mode, Post(q, p, s, serves, actual)
        PROVE  HandInv'
    <2> DEFINE t == [Idle EXCEPT !.pc = "reap_read", !.kind = "post",
                       !.purpose = p, !.subject = s,
                       !.serves = serves, !.actual = actual]
    <2>1. /\ t.actual = actual /\ t.serves = serves
          /\ t.pc = "reap_read" /\ t.answer = "none"
      BY DEF Idle
    <2>2. \/ Become(q, [Idle EXCEPT !.answer = "status_changed"])
          \/ ~(serves = "offline" /\ actual = "live") /\ Become(q, t)
      BY <1>6 DEF Post, Refuse
    <2> HIDE DEF t
    <2>3. ~(serves = "offline" /\ actual = "live") => ThreadSound(t, runs)
      BY <2>1 DEF ThreadSound, Mode
    <2>4. QED
      BY <1>0, <2>2, <2>3, Refused, HandsQuiet
  <1>7. QED
    BY <1>1, <1>2, <1>3, <1>4, <1>5, <1>6

\* An insert takes a row nobody has, for its own subject and mode.
LEMMA HandsOfInsert ==
  ASSUME RunInv, HandInv, NEW q \in Request, Insert(q)
  PROVE  HandInv'
  <1>0. /\ req \in [Request -> Thread] /\ runs \in [RunId -> Row]
        /\ req[q] \in Thread /\ req[q].pc = "insert"
    BY DEF RunInv, TypeOK, Insert
  <1>1. CASE Holding(req[q].purpose, "RUNNING")
    <2> DEFINE t == [req[q] EXCEPT !.pc = "lost_race"]
    <2>1. /\ t.actual = req[q].actual /\ t.serves = req[q].serves
          /\ t.answer = req[q].answer /\ t.pc = "lost_race"
      BY <1>0 DEF Thread
    <2>2. Become(q, t) /\ UNCHANGED runs
      BY <1>1 DEF Insert, Goto
    <2> HIDE DEF t
    <2>3. ThreadSound(t, runs)
      BY <1>0, <2>1, MovesOn
    <2>4. QED
      BY <2>2, <2>3, HandsQuiet
  <1>2. CASE ~Holding(req[q].purpose, "RUNNING")
    <2> DEFINE row == [status |-> "PENDING", purpose |-> req[q].purpose,
                       subject |-> req[q].subject, mode |-> req[q].actual,
                       boot |-> boot, deadline |-> req[q].now + RunDeadline,
                       reason |-> "none"]
    <2>1. PICK r \in RunId :
            /\ runs[r].status = "none" /\ runs' = [runs EXCEPT ![r] = row]
            /\ Become(q, [req[q] EXCEPT !.pc = "commit", !.now = 0, !.run = r])
      BY <1>2 DEF Insert
    <2> DEFINE t == [req[q] EXCEPT !.pc = "commit", !.now = 0, !.run = r]
    <2>2. /\ t.actual = req[q].actual /\ t.serves = req[q].serves
          /\ t.answer = req[q].answer /\ t.pc = "commit" /\ t.run = r
          /\ t.subject = req[q].subject
      BY <1>0 DEF Thread
    <2>3. row.subject = req[q].subject /\ row.mode = req[q].actual
      OBVIOUS
    <2>4. req'[q] = t /\ \A p \in Request : p # q => req'[p] = req[p]
      BY <1>0, <2>1, BecomeEffect
    <2> HIDE DEF t, row
    <2>5. runs'[r] = row /\ \A o \in RunId : o # r => runs'[o] = runs[o]
      BY <1>0, <2>1
    <2>6. ThreadSound(t, runs')
      <3>1. t.actual = "live" => t.serves = "live"
        BY <2>2 DEF HandInv, ThreadSound
      <3>2. t.answer = "none"
        BY <1>0, <2>2 DEF HandInv, ThreadSound
      <3>3. QED
        BY <2>2, <2>3, <2>5, <3>1, <3>2 DEF ThreadSound
    <2>7. \A o \in RunId :
            \/ KeepsInput(o)
            \/ /\ ~Visible(o)
               /\ \A p \in Request : p # q /\ Starting(p) => req[p].run # o
      <3>1. \A o \in RunId : o # r => KeepsInput(o)
        BY <2>5 DEF KeepsInput, Visible
      <3>2. /\ ~Visible(r)
            /\ \A p \in Request : Starting(p) => req[p].run # r
        BY <2>1 DEF RunInv, StartInv, Visible
      <3>3. QED
        BY <3>1, <3>2
    <2>8. QED
      BY <2>4, <2>6, <2>7, HandsCarried
  <1>3. QED
    BY <1>1, <1>2

\* The commit of a start makes its row visible as it was flushed, or undoes it
\* under the one request that had flushed it.
LEMMA HandsOfCommit ==
  ASSUME RunInv, HandInv, NEW q \in Request, CommitStart(q)
  PROVE  HandInv'
  <1>0. /\ req \in [Request -> Thread] /\ runs \in [RunId -> Row]
        /\ req[q] \in Thread /\ req[q].pc = "commit" /\ Starting(q)
    BY DEF RunInv, TypeOK, CommitStart, Starting
  <1>1. PICK n \in RunId : n = req[q].run
    BY <1>0 DEF RunInv, TypeOK, StartInv
  <1>2. /\ runs[n].status = "PENDING"
        /\ \A p \in Request : p # q /\ Starting(p) => req[p].run # n
    BY <1>0, <1>1 DEF RunInv, StartInv
  <1>3. \A o \in RunId : o # n => runs'[o] = runs[o]
    BY <1>0, <1>1 DEF CommitStart
  <1>4. \A o \in RunId :
          \/ KeepsInput(o)
          \/ /\ ~Visible(o)
             /\ \A p \in Request : p # q /\ Starting(p) => req[p].run # o
    <2>1. \A o \in RunId : o # n => KeepsInput(o)
      BY <1>3 DEF KeepsInput, Visible
    <2>2. ~Visible(n)
      BY <1>2 DEF Visible
    <2>3. QED
      BY <1>2, <2>1, <2>2
  <1>5. CASE Refuse(q, "error")
    <2>1. Become(q, [Idle EXCEPT !.answer = "error"])
      BY <1>5 DEF Refuse
    <2>2. /\ req'[q] = [Idle EXCEPT !.answer = "error"]
          /\ \A p \in Request : p # q => req'[p] = req[p]
      BY <1>0, <2>1, BecomeEffect
    <2>3. ThreadSound([Idle EXCEPT !.answer = "error"], runs')
      BY Refused
    <2>4. ThreadSound(req'[q], runs')
      BY <2>2, <2>3
    <2>5. QED
      BY <1>4, <2>2, <2>4, HandsCarried
  <1>6. CASE ~Refuse(q, "error")
    <2> DEFINE t == [req[q] EXCEPT !.pc = "hand_off"]
    <2>1. /\ t.actual = req[q].actual /\ t.serves = req[q].serves
          /\ t.answer = req[q].answer /\ t.pc = "hand_off" /\ t.run = n
          /\ t.subject = req[q].subject
      BY <1>0, <1>1 DEF Thread
    <2>2. runs' = [runs EXCEPT ![n].status = "RUNNING"] /\ Become(q, t)
      BY <1>1, <1>6 DEF CommitStart, Goto
    <2> HIDE DEF t
    <2>3. req'[q] = t /\ \A p \in Request : p # q => req'[p] = req[p]
      BY <1>0, <2>2, BecomeEffect
    <2>4. runs'[n].subject = runs[n].subject /\ runs'[n].mode = runs[n].mode
      BY <1>0, <2>2 DEF Row
    <2>5. ThreadSound(req[q], runs)
      BY DEF HandInv
    <2>6. ThreadSound(t, runs')
      BY <1>0, <1>1, <2>1, <2>4, <2>5 DEF ThreadSound
    <2>7. QED
      BY <1>4, <2>3, <2>6, HandsCarried
  <1>7. QED
    BY <1>5, <1>6

\* A start hands over the run it has committed.
LEMMA HandsOfHandOff ==
  ASSUME RunInv, HandInv, NEW q \in Request, HandOff(q)
  PROVE  HandInv'
  <1>0. /\ req[q].pc = "hand_off" /\ Starting(q) /\ UNCHANGED runs
        /\ req[q].run \in RunId
    BY DEF HandOff, Starting, RunInv, TypeOK, StartInv
  <1>1. CASE Refuse(q, "error")
    BY <1>0, <1>1, Refused, HandsQuiet DEF Refuse
  <1>2. CASE ~Refuse(q, "error")
    <2>1. Become(q, [Idle EXCEPT !.answer = "started",
                       !.serves = req[q].serves, !.subject = req[q].subject,
                       !.run = req[q].run])
      BY <1>2 DEF HandOff, Hand
    <2>2. runs[req[q].run].status \notin {"none", "PENDING"}
      BY <1>0 DEF RunInv, StartInv
    <2>3. /\ runs[req[q].run].subject = req[q].subject
          /\ runs[req[q].run].mode = "live" => req[q].serves = "live"
      BY <1>0 DEF HandInv, ThreadSound
    <2>4. QED
      BY <1>0, <2>1, <2>2, <2>3, Handed, HandsQuiet
  <1>3. QED
    BY <1>1, <1>2

\* Neither a reap nor a job changes what a run works on, or hides it.
LEMMA HandsOfReap ==
  ASSUME RunInv, HandInv, NEW q \in Request, ReapUpdate(q)
  PROVE  HandInv'
  <1> DEFINE t == [req[q] EXCEPT !.pc = "lookup", !.verdict = NoVerdict]
  <1>0. /\ req \in [Request -> Thread] /\ runs \in [RunId -> Row]
        /\ req[q] \in Thread /\ req[q].pc # "idle"
    BY DEF RunInv, TypeOK, ReapUpdate
  <1>1. \A r \in RunId : KeepsInput(r)
    <2>1. ASSUME NEW row \in Row, NEW why
          PROVE  /\ FailIfRunning(row, why).subject = row.subject
                 /\ FailIfRunning(row, why).mode = row.mode
                 /\ row.status \notin {"none", "PENDING"} =>
                      FailIfRunning(row, why).status \notin {"none", "PENDING"}
      BY DEF FailIfRunning, Failed, Row
    <2>2. \A r \in RunId : \/ runs'[r] = runs[r]
                           \/ runs'[r] = FailIfRunning(runs[r], req[q].verdict[r])
      BY DEF ReapUpdate
    <2>3. QED
      BY <1>0, <2>1, <2>2 DEF KeepsInput, Visible
  <1>2. /\ t.actual = req[q].actual /\ t.serves = req[q].serves
        /\ t.answer = req[q].answer /\ t.pc = "lookup"
    BY <1>0 DEF Thread
  <1>3. Become(q, t) \/ Become(q, [Idle EXCEPT !.answer = "error"])
    BY DEF ReapUpdate, Refuse
  <1> HIDE DEF t
  <1>4. ThreadSound(t, runs') /\ ThreadSound([Idle EXCEPT !.answer = "error"], runs')
    BY <1>0, <1>2, MovesOn, Refused
  <1>5. /\ req'[q] = t \/ req'[q] = [Idle EXCEPT !.answer = "error"]
        /\ \A p \in Request : p # q => req'[p] = req[p]
    BY <1>0, <1>3, BecomeEffect
  <1>6. ThreadSound(req'[q], runs')
    BY <1>4, <1>5
  <1>7. QED
    BY <1>1, <1>5, <1>6, HandsCarried

LEMMA HandsOfJobs ==
  ASSUME RunInv, HandInv, NEW r \in RunId, Execute(r)
  PROVE  HandInv'
  <1>0. runs \in [RunId -> Row] /\ runs[r] \in Row /\ req' = req
    BY DEF RunInv, TypeOK, Execute, JobAdmit, JobComplete, JobRaise, JobFail,
       JobFinish
  <1>1. \A o \in RunId : KeepsInput(o)
    <2>1. CASE UNCHANGED runs
      BY <2>1 DEF KeepsInput, Visible
    <2>2. CASE runs' = [runs EXCEPT ![r].status = "COMPLETED"]
      BY <1>0, <2>2 DEF KeepsInput, Visible, Row
    <2>3. CASE runs' = [runs EXCEPT ![r] = FailIfRunning(@, "job")]
      <3>1. \/ runs'[r] = runs[r]
            \/ runs'[r] = [runs[r] EXCEPT !.status = "FAILED", !.reason = "job"]
        BY <1>0, <2>3 DEF FailIfRunning, Failed
      <3>2. \A o \in RunId : o # r => runs'[o] = runs[o]
        BY <1>0, <2>3
      <3>3. QED
        BY <1>0, <3>1, <3>2 DEF KeepsInput, Visible, Row
    <2>4. QED
      BY <2>1, <2>2, <2>3
      DEF Execute, JobAdmit, JobComplete, JobRaise, JobFail, JobFinish
  <1>2. SUFFICES ASSUME NEW q \in Request
                 PROVE  HandInv'
    BY <1>0 DEF HandInv
  <1>3. ThreadSound(req[q], runs) /\ (Starting(q) => req[q].run \in RunId)
    BY DEF HandInv, RunInv, TypeOK, StartInv
  <1>4. ThreadSound(req'[q], runs')
    BY <1>0, <1>1, <1>3 DEF ThreadSound, KeepsInput, Visible, Starting
  <1>5. QED
    BY <1>0, <1>1, <1>4, HandsCarried

LEMMA NextHands == RunInv /\ HandInv /\ [Next]_vars => HandInv'
  <1> SUFFICES ASSUME RunInv, HandInv, [Next]_vars PROVE HandInv'
    OBVIOUS
  <1>1. CASE UNCHANGED vars
    BY <1>1 DEF vars, HandInv
  <1>2. ASSUME NEW q \in Request, Read(q) \/ Reap(q)
        PROVE  HandInv'
    BY <1>2, HandsOfReads, HandsOfReap DEF Reap
  <1>3. ASSUME NEW q \in Poster, Start(q)
        PROVE  HandInv'
    BY <1>3, HandsOfInsert, HandsOfReads, HandsOfCommit, HandsOfHandOff
    DEF Start, Request
  <1>4. ASSUME NEW q \in Poster, NEW p \in Purpose, NEW s \in Subject,
               NEW serves \in Mode, NEW actual \in Mode,
               Post(q, p, s, serves, actual)
        PROVE  HandInv'
    <2>1. q \in Request
      BY DEF Request
    <2>2. QED
      BY <1>4, <2>1, HandsOfReads
  <1>5. CASE Tick
    BY <1>5 DEF Tick, HandInv
  <1>6. CASE Restart
    <2>1. \A q \in Request : req'[q] = Idle
      BY <1>6 DEF Restart
    <2>2. ThreadSound(Idle, runs')
      BY DEF ThreadSound, Idle
    <2>3. QED
      BY <2>1, <2>2 DEF HandInv
  <1>7. QED
    BY <1>1, <1>2, <1>3, <1>4, <1>5, <1>6, HandsOfJobs DEF Next

\* start_run and _join_or_refuse: whatever a POST raced with, the run it was
\* handed is about the subject it named, in a mode its consultant acknowledged.
THEOREM PostGetsItsRun == Spec => []HandedWhatItAsked
  <1>1. Init => HandInv
    BY DEF Init, HandInv, ThreadSound, Idle
  <1>2. HandInv => HandedWhatItAsked
    BY DEF HandInv, ThreadSound, HandedWhatItAsked, Request
  <1>3. QED
    BY <1>1, <1>2, NextHands, RunSafety, PTL DEF Spec

---------------------------------------------------------------------------
(* What a read that finds the edit lock has found. While no commit fails,  *)
(* a run in progress is live, or of a former boot and then reaped before   *)
(* the read looks.                                                         *)

\* The runs in progress that nothing will finish: their process is gone.
Outdated == {r \in RunId : Running(r) /\ runs[r].boot # boot}

\* A run of this boot is executed until it is over, and its job is over last.
Executed(r) ==
  /\ Running(r) => /\ runs[r].boot <= boot
                   /\ runs[r].boot = boot => r \in live
  /\ job[r] = "closing" => ~Running(r)

\* A read has yet to read, has read or has judged every outdated run, and none
\* is left when it looks.
Finds(t, outdated) ==
  t.kind = "read" =>
    /\ t.pc = "reap_decide" => outdated \subseteq t.rows
    /\ t.pc = "reap_update" => \A r \in outdated : t.verdict[r] # "none"
    /\ t.pc = "lookup" => outdated = {}

LookInv == faults = 0 => /\ \A r \in RunId : Executed(r)
                         /\ \A q \in Request : Finds(req[q], Outdated)

\* Faults are counted and never forgotten.
LEMMA FaultsGrow ==
  ASSUME TypeOK, [Next]_vars, faults' = 0
  PROVE  faults = 0 /\ ~Fault
  <1>1. ~Fault
    BY DEF Fault, TypeOK
  <1>2. UNCHANGED faults
    BY <1>1 DEF Next, vars, Read, Reap, ReapRead, ReapDecide, ReapUpdate, Lookup,
       Start, Insert, LostRace, CommitStart, HandOff, Post, Execute, JobAdmit,
       JobComplete, JobRaise, JobFail, JobFinish, Tick, Restart
  <1>3. QED
    BY <1>1, <1>2

\* Without a fault, what becomes of a run: it stays as it is, it is over, or it
\* begins, live and of this boot.
LEMMA RunsWithoutFault ==
  ASSUME RunInv, [Next]_vars, faults' = 0, NEW r \in RunId, Running(r)'
  PROVE  /\ job[r] = "closing" => Running(r)
         /\ \/ Running(r) /\ runs'[r].boot = runs[r].boot
            \/ r \in live' /\ runs'[r].boot = boot' /\ ~Restart
  <1>0. /\ TypeOK /\ runs \in [RunId -> Row] /\ runs[r] \in Row /\ ~Fault
        /\ JobInv
    BY FaultsGrow DEF RunInv, TypeOK
  <1>1. CASE UNCHANGED runs
    BY <1>1 DEF Running
  <1>2. CASE Restart
    BY <1>0, <1>2 DEF Restart, Running, BlankRow
  <1>3. ASSUME NEW q \in Request, ReapUpdate(q)
        PROVE  Running(r) /\ runs'[r].boot = runs[r].boot
    <2>1. runs'[r] = FailIfRunning(runs[r], req[q].verdict[r])
      BY <1>0, <1>3 DEF ReapUpdate
    <2>2. QED
      BY <1>0, <2>1 DEF FailIfRunning, Failed, Running, Row
  <1>4. ASSUME NEW q \in Request, Insert(q)
        PROVE  Running(r) /\ runs'[r].boot = runs[r].boot
    <2>1. CASE UNCHANGED runs
      BY <1>1, <2>1 DEF Running
    <2>2. ASSUME NEW o \in RunId, NEW row, row.status = "PENDING",
                 runs' = [runs EXCEPT ![o] = row]
          PROVE  Running(r) /\ runs'[r].boot = runs[r].boot
      BY <1>0, <2>2 DEF Running
    <2>3. QED
      BY <1>4, <2>1, <2>2 DEF Insert
  <1>5. ASSUME NEW q \in Request, CommitStart(q)
        PROVE  \/ Running(r) /\ runs'[r].boot = runs[r].boot
               \/ /\ r \in live' /\ runs'[r].boot = boot' /\ ~Restart
                  /\ job[r] = "none"
    <2>1. /\ runs' = [runs EXCEPT ![req[q].run].status = "RUNNING"]
          /\ UNCHANGED <<live, boot>>
      BY <1>0, <1>5 DEF CommitStart
    <2>2. /\ req[q].run \in live /\ runs[req[q].run].boot = boot
          /\ job[req[q].run] = "none"
      BY <1>5 DEF RunInv, StartInv, Starting, CommitStart
    <2>3. ~Restart
      BY <1>0, <2>1 DEF Restart, TypeOK
    <2>4. CASE r = req[q].run
      BY <1>0, <2>1, <2>2, <2>3, <2>4 DEF Row
    <2>5. CASE r # req[q].run
      BY <1>0, <2>1, <2>5 DEF Running
    <2>6. QED
      BY <2>4, <2>5
  <1>6. ASSUME NEW o \in RunId, Execute(o)
        PROVE  Running(r) /\ runs'[r].boot = runs[r].boot
    <2>1. CASE JobComplete(o)
      BY <1>0, <2>1 DEF JobComplete, StillRunning, Running, Row
    <2>2. CASE JobFail(o)
      <3>1. \A x \in RunId : x # o => runs'[x] = runs[x]
        BY <1>0, <2>2 DEF JobFail
      <3>2. runs'[o] = FailIfRunning(runs[o], "job") \/ runs'[o] = runs[o]
        BY <1>0, <2>2 DEF JobFail
      <3>3. QED
        BY <1>0, <3>1, <3>2 DEF FailIfRunning, Failed, Running, Row
    <2>3. QED
      BY <1>1, <1>6, <2>1, <2>2 DEF Execute, JobAdmit, JobRaise, JobFinish, Running
  <1>7. QED
    <2>1. Poster \subseteq Request
      BY DEF Request
    <2>2. CASE \E q \in Request : Read(q) \/ Reap(q)
      BY <1>1, <1>3, <2>2 DEF Reap, Read, ReapRead, ReapDecide, Lookup
    <2>3. CASE \E q \in Poster : Start(q)
      BY <1>1, <1>4, <1>5, <2>1, <2>3 DEF Start, LostRace, HandOff
    <2>4. CASE \E q \in Poster, p \in Purpose, s \in Subject, serves, actual \in Mode :
                 Post(q, p, s, serves, actual)
      BY <1>1, <2>4 DEF Post
    <2>5. QED
      BY <1>1, <1>2, <1>6, <2>2, <2>3, <2>4 DEF Next, vars, Tick

\* Without a fault a run of this boot is executed until it is over.
LEMMA ExecutedStays ==
  ASSUME RunInv, [Next]_vars, faults' = 0, \A o \in RunId : Executed(o),
         NEW r \in RunId
  PROVE  Executed(r)'
  <1>0. /\ TypeOK /\ ~Fault /\ runs[r] \in Row /\ boot \in Nat /\ JobInv
        /\ runs \in [RunId -> Row] /\ job \in [RunId -> JobPc]
    BY FaultsGrow DEF RunInv, TypeOK
  <1>1. /\ runs[r].boot \in Nat
        /\ Running(r)' => \/ Running(r) /\ runs'[r].boot = runs[r].boot
                          \/ r \in live' /\ runs'[r].boot = boot'
    BY <1>0, RunsWithoutFault DEF Row
  <1>2. CASE Restart
    <2>1. boot' = boot + 1 /\ job'[r] = "none"
      BY <1>2 DEF Restart
    <2>2. Running(r)' => Running(r) /\ runs'[r].boot = runs[r].boot
      BY <1>2, RunsWithoutFault
    <2>3. QED
      BY <1>0, <1>1, <2>1, <2>2 DEF Executed, Running
  <1>3. ASSUME boot' = boot, r \in live => r \in live' \/ ~Running(r),
               job'[r] = "closing" => job[r] = "closing" \/ ~Running(r)'
        PROVE  Executed(r)'
    <2>1. job[r] = "closing" => ~Running(r)'
      BY <1>0, RunsWithoutFault DEF Executed
    <2>2. QED
      BY <1>0, <1>1, <1>3, <2>1 DEF Executed, Running
  <1>4. ASSUME NEW q \in Request, Read(q) \/ Reap(q)
        PROVE  Executed(r)'
    BY <1>3, <1>4 DEF Reap, Read, ReapRead, ReapDecide, ReapUpdate, Lookup
  <1>5. ASSUME NEW q \in Poster, Start(q)
        PROVE  Executed(r)'
    <2>1. CASE HandOff(q)
      BY <1>0, <1>3, <2>1 DEF HandOff
    <2>2. CASE Insert(q)
      BY <1>3, <2>2 DEF Insert, MarkLive
    <2>3. QED
      BY <1>0, <1>3, <1>5, <2>1, <2>2 DEF Start, LostRace, CommitStart
  <1>6. ASSUME NEW o \in RunId, Execute(o)
        PROVE  Executed(r)'
    <2>1. CASE JobFinish(o)
      <3>1. ~Running(o) /\ live' = live \ {o} /\ boot' = boot
        BY <1>0, <2>1 DEF JobFinish, JobAt, Executed
      <3>2. job' = [job EXCEPT ![o] = "none"]
        BY <2>1 DEF JobFinish, JobTo
      <3>3. QED
        BY <1>0, <1>3, <3>1, <3>2
    <2>2. CASE JobComplete(o)
      <3>1. job' = [job EXCEPT ![o] = "closing"] /\ UNCHANGED <<live, boot>>
        BY <1>0, <2>2 DEF JobComplete, JobTo
      <3>2. \/ runs' = [runs EXCEPT ![o].status = "COMPLETED"]
            \/ ~Running(o) /\ UNCHANGED runs
        BY <1>0, <2>2 DEF JobComplete, StillRunning
      <3>3. ~Running(o)'
        BY <1>0, <3>2 DEF Running, Row
      <3>4. QED
        BY <1>0, <1>3, <3>1, <3>3
    <2>3. CASE JobFail(o)
      <3>1. job' = [job EXCEPT ![o] = "closing"] /\ UNCHANGED <<live, boot>>
        BY <1>0, <2>3 DEF JobFail, JobTo
      <3>2. runs' = [runs EXCEPT ![o] = FailIfRunning(runs[o], "job")]
        BY <1>0, <2>3 DEF JobFail
      <3>3. ~Running(o)'
        BY <1>0, <3>2 DEF Running, FailIfRunning, Failed, Row
      <3>4. QED
        BY <1>0, <1>3, <3>1, <3>3
    <2>4. CASE JobAdmit(o) \/ JobRaise(o)
      BY <1>0, <1>3, <2>4 DEF JobAdmit, JobRaise, JobTo
    <2>5. QED
      BY <1>6, <2>1, <2>2, <2>3, <2>4 DEF Execute
  <1>7. ASSUME NEW q \in Poster, NEW p \in Purpose, NEW s \in Subject,
               NEW serves \in Mode, NEW actual \in Mode,
               Post(q, p, s, serves, actual)
        PROVE  Executed(r)'
    BY <1>3, <1>7 DEF Post
  <1>8. CASE Tick \/ UNCHANGED vars
    BY <1>3, <1>8 DEF Tick, vars
  <1>9. QED
    BY <1>2, <1>4, <1>5, <1>6, <1>7, <1>8 DEF Next

\* While the process lives nothing becomes outdated.
LEMMA OutdatedStays ==
  ASSUME RunInv, [Next]_vars, faults' = 0, ~Restart
  PROVE  Outdated' \subseteq Outdated
  <1>1. boot' = boot
    BY DEF Next, vars, Read, Reap, ReapRead, ReapDecide, ReapUpdate, Lookup,
       Start, Insert, LostRace, CommitStart, HandOff, Post, Execute, JobAdmit,
       JobComplete, JobRaise, JobFail, JobFinish, Tick
  <1>2. QED
    BY <1>1, RunsWithoutFault DEF Outdated, Running

\* Fewer are as well found.
LEMMA FewerFound ==
  ASSUME NEW t, NEW old, NEW new, new \subseteq old, Finds(t, old)
  PROVE  Finds(t, new)
  BY DEF Finds

\* A step of one request keeps what the others have found.
LEMMA FindsCarried ==
  ASSUME RunInv, [Next]_vars, faults' = 0, ~Restart,
         \A p \in Request : Finds(req[p], Outdated),
         NEW q \in Request, NEW t, Become(q, t), Finds(t, Outdated')
  PROVE  \A p \in Request : Finds(req'[p], Outdated')
  <1>1. /\ req'[q] = t
        /\ \A p \in Request : p # q => req'[p] = req[p]
    BY BecomeEffect DEF RunInv, TypeOK
  <1>2. \A p \in Request : Finds(req[p], Outdated')
    BY OutdatedStays, FewerFound
  <1>3. QED
    BY <1>1, <1>2

\* A request that is answered, or goes on with something else, looks for
\* nothing.
LEMMA FindsElsewhere ==
  ASSUME NEW t, NEW outdated,
         t.pc \notin {"reap_decide", "reap_update", "lookup"}
  PROVE  Finds(t, outdated)
  BY DEF Finds

LEMMA FindsNone ==
  ASSUME RunInv, [Next]_vars, faults' = 0, ~Restart,
         \A p \in Request : Finds(req[p], Outdated),
         NEW q \in Request, NEW a,
         \/ Refuse(q, a)
         \/ \E r \in RunId \cup {NoRun} : Hand(q, a, r)
         \/ \E pc \in {"lost_race", "hand_off", "reap_read"} : Goto(q, pc)
  PROVE  \A p \in Request : Finds(req'[p], Outdated')
  <1>0. req[q] \in Thread
    BY DEF RunInv, TypeOK
  <1>1. CASE Refuse(q, a)
    <2> DEFINE t == [Idle EXCEPT !.answer = a]
    <2>1. t.pc = "idle" /\ Become(q, t)
      BY <1>1 DEF Idle, Refuse
    <2> HIDE DEF t
    <2>2. QED
      BY <2>1, FindsElsewhere, FindsCarried
  <1>2. ASSUME NEW r \in RunId \cup {NoRun}, Hand(q, a, r)
        PROVE  \A p \in Request : Finds(req'[p], Outdated')
    <2> DEFINE t == [Idle EXCEPT !.answer = a, !.serves = req[q].serves,
                                 !.subject = req[q].subject, !.run = r]
    <2>1. t.pc = "idle" /\ Become(q, t)
      BY <1>2 DEF Idle, Hand
    <2> HIDE DEF t
    <2>2. QED
      BY <2>1, FindsElsewhere, FindsCarried
  <1>3. ASSUME NEW pc \in {"lost_race", "hand_off", "reap_read"}, Goto(q, pc)
        PROVE  \A p \in Request : Finds(req'[p], Outdated')
    <2> DEFINE t == [req[q] EXCEPT !.pc = pc]
    <2>1. t.pc = pc /\ Become(q, t)
      BY <1>0, <1>3 DEF Thread, Goto
    <2> HIDE DEF t
    <2>2. QED
      BY <2>1, FindsElsewhere, FindsCarried
  <1>4. QED
    BY <1>1, <1>2, <1>3

\* The steps of a read: it reads every outdated run, judges each orphaned, and
\* leaves none.
LEMMA FindsOfReap ==
  ASSUME RunInv, [Next]_vars, faults' = 0, ~Restart,
         \A p \in Request : Finds(req[p], Outdated),
         NEW q \in Request, ReapRead(q) \/ ReapDecide(q) \/ ReapUpdate(q)
  PROVE  \A p \in Request : Finds(req'[p], Outdated')
  <1>0. /\ TypeOK /\ req[q] \in Thread /\ runs \in [RunId -> Row] /\ ~Fault
        /\ Finds(req[q], Outdated) /\ Outdated' \subseteq Outdated
    BY FaultsGrow, OutdatedStays DEF RunInv, TypeOK
  <1>1. CASE ReapRead(q)
    <2> DEFINE found == {r \in RunId : Running(r) /\ InReach(q, r)}
               t == IF found = {} THEN [req[q] EXCEPT !.pc = "lookup"]
                    ELSE [req[q] EXCEPT !.pc = "reap_decide", !.now = clock,
                                        !.rows = found]
    <2>1. Become(q, t)
      BY <1>1 DEF ReapRead, Goto
    <2>2. t.kind = req[q].kind
      BY <1>0 DEF Thread
    <2>3. IF found = {} THEN t.pc = "lookup"
          ELSE t.pc = "reap_decide" /\ t.rows = found
      BY <1>0 DEF Thread
    <2>4. t.kind = "read" => Outdated \subseteq found
      BY <2>2 DEF Outdated, InReach
    <2> HIDE DEF t, found
    <2>5. Finds(t, Outdated')
      BY <1>0, <2>3, <2>4 DEF Finds
    <2>6. QED
      BY <2>1, <2>5, FindsCarried
  <1>2. CASE ReapDecide(q)
    <2> DEFINE why == [r \in RunId |-> IF r \in req[q].rows
                         THEN OrphanCause(r, req[q].now) ELSE "none"]
               pc == IF why = NoVerdict THEN "lookup" ELSE "reap_update"
               t == [req[q] EXCEPT !.verdict = why, !.rows = {}, !.now = 0,
                                   !.pc = pc]
    <2>1. Become(q, t) /\ req[q].pc = "reap_decide"
      BY <1>2 DEF ReapDecide
    <2>2. t.kind = req[q].kind /\ t.verdict = why /\ t.pc = pc
      BY <1>0 DEF Thread
    <2>3. ASSUME NEW r \in Outdated, r \in req[q].rows
          PROVE  why[r] # "none"
      <3>1. OrphanCause(r, req[q].now) # "none"
        BY DEF Outdated, OrphanCause
      <3>2. QED
        BY <2>3, <3>1 DEF Outdated
    <2>4. \A r \in Outdated : r \in RunId /\ NoVerdict[r] = "none"
      BY DEF Outdated, NoVerdict
    <2>5. t.kind = "read" => \A r \in Outdated : why[r] # "none"
      BY <1>0, <2>1, <2>2, <2>3 DEF Finds
    <2> HIDE DEF t, why
    <2>6. Finds(t, Outdated)
      BY <2>2, <2>4, <2>5 DEF Finds
    <2> HIDE DEF pc
    <2>7. QED
      BY <1>0, <2>1, <2>6, FewerFound, FindsCarried
  <1>3. CASE ReapUpdate(q)
    <2> DEFINE t == [req[q] EXCEPT !.pc = "lookup", !.verdict = NoVerdict]
    <2>1. /\ Become(q, t) /\ req[q].pc = "reap_update" /\ boot' = boot
          /\ \A r \in RunId :
               runs'[r] = FailIfRunning(runs[r], req[q].verdict[r])
      BY <1>0, <1>3 DEF ReapUpdate
    <2>2. t.kind = req[q].kind /\ t.pc = "lookup"
      BY <1>0 DEF Thread
    <2> HIDE DEF t
    <2>3. ASSUME t.kind = "read", NEW r \in Outdated'
          PROVE  FALSE
      <3>1. r \in Outdated /\ req[q].verdict[r] # "none"
        BY <1>0, <2>1, <2>2, <2>3 DEF Finds
      <3>2. r \in RunId /\ Running(r) /\ runs'[r].status = "RUNNING"
        BY <2>3, <3>1 DEF Outdated, Running
      <3>3. runs'[r].status = "FAILED"
        BY <1>0, <2>1, <3>1, <3>2 DEF FailIfRunning, Failed, Running, Row
      <3>4. QED
        BY <3>2, <3>3
    <2>4. Finds(t, Outdated')
      BY <2>2, <2>3 DEF Finds
    <2>5. QED
      BY <2>1, <2>4, FindsCarried
  <1>4. QED
    BY <1>1, <1>2, <1>3

LEMMA NextLook == RunInv /\ LookInv /\ [Next]_vars => LookInv'
  <1> SUFFICES ASSUME RunInv, LookInv, [Next]_vars, faults' = 0
               PROVE  LookInv'
    BY DEF LookInv
  <1>0. /\ TypeOK /\ req \in [Request -> Thread] /\ ~Fault
        /\ \A r \in RunId : Executed(r)
        /\ \A p \in Request : Finds(req[p], Outdated)
    BY FaultsGrow DEF RunInv, TypeOK, LookInv
  <1>1. \A r \in RunId : Executed(r)'
    BY <1>0, ExecutedStays
  <1>2. SUFFICES \A p \in Request : Finds(req'[p], Outdated')
    BY <1>1 DEF LookInv
  <1>3. CASE Restart
    <2>1. \A p \in Request : req'[p] = Idle /\ Idle.pc = "idle"
      BY <1>3 DEF Restart, Idle
    <2>2. QED
      BY <2>1, FindsElsewhere
  <1>4. CASE UNCHANGED req /\ ~Restart
    BY <1>0, <1>4, OutdatedStays, FewerFound
  <1>5. ASSUME ~Restart, NEW q \in Request, NEW t, Become(q, t),
               t.pc \in {"reap_read", "insert", "commit"}
        PROVE  \A p \in Request : Finds(req'[p], Outdated')
    BY <1>0, <1>5, FindsElsewhere, FindsCarried
  <1>6. ASSUME ~Restart, NEW q \in Request, Read(q) \/ Reap(q)
        PROVE  \A p \in Request : Finds(req'[p], Outdated')
    <2>1. CASE Read(q)
      <3> DEFINE t == [Idle EXCEPT !.pc = "reap_read"]
      <3>1. t.pc = "reap_read" /\ Become(q, t)
        BY <2>1 DEF Read, Idle
      <3> HIDE DEF t
      <3>2. QED
        BY <1>5, <1>6, <3>1
    <2>2. CASE Lookup(q)
      <3> DEFINE t == [req[q] EXCEPT !.pc = "insert", !.now = clock]
      <3>1. t.pc = "insert"
        BY <1>0 DEF Thread
      <3>2. \/ Become(q, t)
            \/ \E a \in Answer : Refuse(q, a)
            \/ \E r \in RunId : JoinOrRefuse(q, r)
        BY <2>2 DEF Lookup, Answer
      <3> HIDE DEF t
      <3>3. \/ Become(q, t)
            \/ \E a \in Answer : Refuse(q, a)
            \/ \E a \in Answer, r \in RunId \cup {NoRun} : Hand(q, a, r)
        BY <3>2 DEF JoinOrRefuse, Answer
      <3>4. QED
        BY <1>0, <1>5, <1>6, <3>1, <3>3, FindsNone
    <2>3. QED
      BY <1>0, <1>6, <2>1, <2>2, FindsOfReap DEF Reap
  <1>7. ASSUME ~Restart, NEW q \in Poster, Start(q)
        PROVE  \A p \in Request : Finds(req'[p], Outdated')
    <2>0. q \in Request /\ req[q] \in Thread
      BY <1>0 DEF Request
    <2>1. CASE Insert(q)
      <3>1. ASSUME NEW r \in RunId,
                   Become(q, [req[q] EXCEPT !.pc = "commit", !.now = 0, !.run = r])
            PROVE  \A p \in Request : Finds(req'[p], Outdated')
        <4> DEFINE t == [req[q] EXCEPT !.pc = "commit", !.now = 0, !.run = r]
        <4>1. t.pc = "commit" /\ Become(q, t)
          BY <2>0, <3>1 DEF Thread
        <4> HIDE DEF t
        <4>2. QED
          BY <1>5, <1>7, <2>0, <4>1
      <3>2. QED
        BY <1>0, <1>7, <2>0, <2>1, <3>1, FindsNone DEF Insert
    <2>2. CASE LostRace(q)
      <3>1. \/ \E a \in Answer : Refuse(q, a)
            \/ \E a \in Answer, r \in RunId \cup {NoRun} : Hand(q, a, r)
        BY <2>2 DEF LostRace, JoinOrRefuse, Answer
      <3>2. QED
        BY <1>0, <1>7, <2>0, <3>1, FindsNone
    <2>3. CASE CommitStart(q)
      <3>1. Goto(q, "hand_off")
        BY <1>0, <2>3 DEF CommitStart
      <3>2. QED
        BY <1>0, <1>7, <2>0, <3>1, FindsNone
    <2>4. CASE HandOff(q)
      <3>1. Hand(q, "started", req[q].run) /\ req[q].run \in RunId \cup {NoRun}
        BY <1>0, <2>0, <2>4 DEF HandOff, Thread
      <3>2. QED
        BY <1>0, <1>7, <2>0, <3>1, FindsNone
    <2>5. QED
      BY <1>7, <2>1, <2>2, <2>3, <2>4 DEF Start
  <1>8. ASSUME ~Restart, NEW q \in Poster, NEW p0 \in Purpose, NEW s \in Subject,
               NEW serves \in Mode, NEW actual \in Mode,
               Post(q, p0, s, serves, actual)
        PROVE  \A p \in Request : Finds(req'[p], Outdated')
    <2> DEFINE t == [Idle EXCEPT !.pc = "reap_read", !.kind = "post",
                       !.purpose = p0, !.subject = s,
                       !.serves = serves, !.actual = actual]
    <2>1. t.pc = "reap_read" /\ q \in Request
      BY DEF Idle, Request
    <2>2. Refuse(q, "status_changed") \/ Become(q, t)
      BY <1>8 DEF Post
    <2> HIDE DEF t
    <2>3. QED
      BY <1>0, <1>5, <1>8, <2>1, <2>2, FindsNone
  <1>9. ASSUME ~Restart, NEW r \in RunId, Execute(r)
        PROVE  \A p \in Request : Finds(req'[p], Outdated')
    BY <1>4, <1>9 DEF Execute, JobAdmit, JobComplete, JobRaise, JobFail,
       JobFinish
  <1>10. QED
    BY <1>3, <1>4, <1>6, <1>7, <1>8, <1>9 DEF Next, Tick, vars

\* An answer changes to "locked" only by a read that looks and finds a run that
\* takes the edit lock.
LEMMA LockedByLookup ==
  ASSUME RunInv, [Next]_vars, NEW q \in Request,
         req[q].answer # "locked", req'[q].answer = "locked"
  PROVE  /\ req[q].kind = "read" /\ req[q].pc = "lookup"
         /\ \E r \in RunId : Running(r) /\ runs[r].purpose \notin NonLocking
  <1>0. TypeOK /\ req \in [Request -> Thread] /\ Idle \in Thread
    BY IdleTyped DEF RunInv, TypeOK
  <1>1. ASSUME NEW p \in Request, NEW t, Become(p, t),
               t.answer \in {"none", req[p].answer} \/ t.answer # "locked"
        PROVE  FALSE
    <2>1. /\ req'[p] = t
          /\ \A o \in Request : o # p => req'[o] = req[o]
      BY <1>0, <1>1, BecomeEffect
    <2>2. QED
      BY <1>1, <2>1
  <1>2. ASSUME NEW p \in Request, NEW a, Refuse(p, a), a # "locked"
        PROVE  FALSE
    <2> DEFINE t == [Idle EXCEPT !.answer = a]
    <2>1. t.answer = a /\ Become(p, t)
      BY <1>2 DEF Refuse, Idle
    <2> HIDE DEF t
    <2>2. QED
      BY <1>1, <1>2, <2>1
  <1>3. ASSUME NEW p \in Request, NEW a, NEW r, Hand(p, a, r), a # "locked"
        PROVE  FALSE
    <2> DEFINE t == [Idle EXCEPT !.answer = a, !.serves = req[p].serves,
                                 !.subject = req[p].subject, !.run = r]
    <2>1. t.answer = a /\ Become(p, t)
      BY <1>3 DEF Hand, Idle
    <2> HIDE DEF t
    <2>2. QED
      BY <1>1, <1>3, <2>1
  <1>4. ASSUME NEW p \in Request, NEW pc, Goto(p, pc)
        PROVE  FALSE
    <2> DEFINE t == [req[p] EXCEPT !.pc = pc]
    <2>1. t.answer = req[p].answer /\ Become(p, t)
      BY <1>0, <1>4 DEF Goto, Thread
    <2> HIDE DEF t
    <2>2. QED
      BY <1>1, <2>1
  <1>5. ASSUME NEW p \in Request, NEW r \in RunId, JoinOrRefuse(p, r)
        PROVE  FALSE
    BY <1>2, <1>3, <1>5 DEF JoinOrRefuse
  <1>6. ASSUME NEW p \in Request, Read(p)
        PROVE  FALSE
    <2> DEFINE t == [Idle EXCEPT !.pc = "reap_read"]
    <2>1. t.answer = "none" /\ Become(p, t)
      BY <1>6 DEF Read, Idle
    <2> HIDE DEF t
    <2>2. QED
      BY <1>1, <2>1
  <1>7. ASSUME NEW p \in Request, ReapRead(p)
        PROVE  FALSE
    <2> DEFINE found == {r \in RunId : Running(r) /\ InReach(p, r)}
               t == [req[p] EXCEPT !.pc = "reap_decide", !.now = clock,
                                   !.rows = found]
    <2>1. t.answer = req[p].answer
      BY <1>0 DEF Thread
    <2>2. Goto(p, "lookup") \/ Become(p, t)
      BY <1>7 DEF ReapRead
    <2> HIDE DEF t
    <2>3. QED
      BY <1>1, <1>4, <2>1, <2>2
  <1>8. ASSUME NEW p \in Request, ReapDecide(p)
        PROVE  FALSE
    <2> DEFINE why == [r \in RunId |-> IF r \in req[p].rows
                         THEN OrphanCause(r, req[p].now) ELSE "none"]
               t == [req[p] EXCEPT !.verdict = why, !.rows = {}, !.now = 0,
                       !.pc = IF why = NoVerdict THEN "lookup" ELSE "reap_update"]
    <2>1. t.answer = req[p].answer
      BY <1>0 DEF Thread
    <2>2. Become(p, t)
      BY <1>8 DEF ReapDecide
    <2> HIDE DEF t
    <2>3. QED
      BY <1>1, <2>1, <2>2
  <1>9. ASSUME NEW p \in Request, ReapUpdate(p)
        PROVE  FALSE
    <2> DEFINE t == [req[p] EXCEPT !.pc = "lookup", !.verdict = NoVerdict]
    <2>1. t.answer = req[p].answer
      BY <1>0 DEF Thread
    <2>2. Become(p, t) \/ Refuse(p, "error")
      BY <1>9 DEF ReapUpdate
    <2> HIDE DEF t
    <2>3. QED
      BY <1>1, <1>2, <2>1, <2>2
  <1>10. ASSUME NEW p \in Request, Lookup(p)
         PROVE  /\ req[p].kind = "read" /\ req[p].pc = "lookup" /\ p = q
                /\ \E r \in RunId : Running(r) /\ runs[r].purpose \notin NonLocking
    <2>1. CASE req[p].kind # "read"
      <3> DEFINE t == [req[p] EXCEPT !.pc = "insert", !.now = clock]
      <3>1. t.answer = req[p].answer
        BY <1>0 DEF Thread
      <3>2. Become(p, t) \/ \E r \in RunId : JoinOrRefuse(p, r)
        BY <1>10, <2>1 DEF Lookup
      <3> HIDE DEF t
      <3>3. QED
        BY <1>1, <1>5, <3>1, <3>2
    <2>2. CASE req[p].kind = "read"
      <3>1. \A o \in Request : o # p => req'[o] = req[o]
        BY <1>0, <1>10, <2>2 DEF Lookup, Refuse, Become
      <3>2. ~Refuse(p, "free")
        BY <1>2
      <3>3. \E r \in RunId : Running(r) /\ runs[r].purpose \notin NonLocking
        BY <1>10, <2>2, <3>2 DEF Lookup
      <3>4. QED
        BY <1>10, <2>2, <3>1, <3>3 DEF Lookup
    <2>3. QED
      BY <2>1, <2>2
  <1>11. ASSUME NEW p \in Poster, Start(p)
         PROVE  FALSE
    <2>0. p \in Request
      BY DEF Request
    <2>1. CASE Insert(p)
      <3>1. ASSUME NEW r \in RunId,
                   Become(p, [req[p] EXCEPT !.pc = "commit", !.now = 0, !.run = r])
            PROVE  FALSE
        <4> DEFINE t == [req[p] EXCEPT !.pc = "commit", !.now = 0, !.run = r]
        <4>1. t.answer = req[p].answer /\ Become(p, t)
          BY <1>0, <2>0, <3>1 DEF Thread
        <4> HIDE DEF t
        <4>2. QED
          BY <1>1, <2>0, <4>1
      <3>2. QED
        BY <1>4, <2>0, <2>1, <3>1 DEF Insert
    <2>2. CASE LostRace(p)
      BY <1>2, <1>5, <2>0, <2>2 DEF LostRace
    <2>3. CASE CommitStart(p)
      BY <1>2, <1>4, <2>0, <2>3 DEF CommitStart
    <2>4. CASE HandOff(p)
      BY <1>2, <1>3, <2>0, <2>4 DEF HandOff
    <2>5. QED
      BY <1>11, <2>1, <2>2, <2>3, <2>4 DEF Start
  <1>12. ASSUME NEW p \in Poster, NEW p0 \in Purpose, NEW s \in Subject,
                NEW serves \in Mode, NEW actual \in Mode,
                Post(p, p0, s, serves, actual)
         PROVE  FALSE
    <2> DEFINE t == [Idle EXCEPT !.pc = "reap_read", !.kind = "post",
                       !.purpose = p0, !.subject = s,
                       !.serves = serves, !.actual = actual]
    <2>1. t.answer = "none" /\ p \in Request
      BY DEF Idle, Request
    <2>2. Refuse(p, "status_changed") \/ Become(p, t)
      BY <1>12 DEF Post
    <2> HIDE DEF t
    <2>3. QED
      BY <1>1, <1>2, <2>1, <2>2
  <1>13. CASE UNCHANGED req
    BY <1>13
  <1>14. CASE Restart
    BY <1>14 DEF Restart, Idle
  <1>15. ASSUME NEW r \in RunId, Execute(r)
         PROVE  FALSE
    BY <1>13, <1>15 DEF Execute, JobAdmit, JobComplete, JobRaise, JobFail,
       JobFinish
  <1>16. QED
    BY <1>6, <1>7, <1>8, <1>9, <1>10, <1>11, <1>12, <1>13, <1>14, <1>15
    DEF Next, Reap, Tick, vars

\* refuse_while_running: unless a commit failed, a workspace that is told the
\* edit lock is taken is told so of a run this process is executing.
THEOREM LockedIsExecuted == Spec => LockedMeansExecuting
  <1>1. Init => LookInv
    BY DEF Init, LookInv, Executed, Finds, Idle, BlankRow, Running
  <1>2. ASSUME RunInv, LookInv, [Next]_vars, NEW q \in Request,
               req[q].answer # "locked", req'[q].answer = "locked", faults = 0
        PROVE  \E r \in live : Running(r) /\ runs[r].purpose \notin NonLocking
    <2>1. /\ req[q].kind = "read" /\ req[q].pc = "lookup"
          /\ \E r \in RunId : Running(r) /\ runs[r].purpose \notin NonLocking
      BY <1>2, LockedByLookup
    <2>2. Outdated = {} /\ \A r \in RunId : Executed(r)
      BY <1>2, <2>1 DEF LookInv, Finds
    <2>3. \A r \in RunId : Running(r) => r \in live
      BY <2>2 DEF Outdated, Executed
    <2>4. QED
      BY <2>1, <2>3
  <1>3. RunInv /\ LookInv /\ [Next]_vars =>
          [\A q \in Request :
             /\ req[q].answer # "locked" /\ req'[q].answer = "locked"
             /\ faults = 0
             => \E r \in live : Running(r) /\ runs[r].purpose \notin NonLocking]_vars
    BY <1>2
  <1>4. QED
    BY <1>1, <1>3, NextLook, RunSafety, PTL DEF Spec, LockedMeansExecuting

---------------------------------------------------------------------------
(* AiRuns implements RunLock.  A step of the framework is seen by the lock *)
(* as what becomes of the runs in progress: nothing, one begins, one       *)
(* applies, or some are dropped.                                           *)

\* What the lock can see of a run is the same after a step.
Kept(r) == /\ Running(r)' <=> Running(r)
           /\ Running(r) => runs'[r].purpose = runs[r].purpose
           /\ OutcomeOf(r)' = OutcomeOf(r)

Begins(r) == /\ ~Running(r) /\ Running(r)'
             /\ OutcomeOf(r) = "none" /\ OutcomeOf(r)' = "none"

EndsAs(r, outcome) == /\ Running(r) /\ ~Running(r)'
                      /\ OutcomeOf(r)' = outcome

---------------------------------------------------------------------------
(* The holder of a purpose's lock.                                         *)

\* The holder of a purpose is its one run in progress, or nobody.
LEMMA HolderIsRunning ==
  ASSUME OneRunningPerPurpose, NEW p \in Purpose
  PROVE  /\ \A r \in RunId : HolderOf(p) = r <=>
              Running(r) /\ runs[r].purpose = p
         /\ HolderOf(p) \in RunId \cup {NoRun}
  <1>1. CASE \E r \in RunId : Running(r) /\ runs[r].purpose = p
    <2>1. PICK r \in RunId : Running(r) /\ runs[r].purpose = p
      BY <1>1
    <2>2. \A o \in RunId : Running(o) /\ runs[o].purpose = p => o = r
      BY <2>1 DEF OneRunningPerPurpose, Running
    <2>3. HolderOf(p) = r
      BY <2>1, <2>2 DEF HolderOf
    <2>4. QED
      BY <2>1, <2>2, <2>3
  <1>2. CASE ~\E r \in RunId : Running(r) /\ runs[r].purpose = p
    BY <1>2, RunsAssumption DEF HolderOf
  <1>3. QED
    BY <1>1, <1>2

\* The same after a step.
LEMMA HolderIsRunningNext ==
  ASSUME OneRunningPerPurpose', NEW p \in Purpose
  PROVE  /\ \A r \in RunId : HolderOf(p)' = r <=>
              Running(r)' /\ runs'[r].purpose = p
         /\ HolderOf(p)' \in RunId \cup {NoRun}
  <1>1. CASE \E r \in RunId : Running(r)' /\ runs'[r].purpose = p
    <2>1. PICK r \in RunId : Running(r)' /\ runs'[r].purpose = p
      BY <1>1
    <2>2. \A o \in RunId : Running(o)' /\ runs'[o].purpose = p => o = r
      BY <2>1 DEF OneRunningPerPurpose, Running
    <2>3. HolderOf(p)' = r
      BY <2>1, <2>2 DEF HolderOf
    <2>4. QED
      BY <2>1, <2>2, <2>3
  <1>2. CASE ~\E r \in RunId : Running(r)' /\ runs'[r].purpose = p
    BY <1>2, RunsAssumption DEF HolderOf
  <1>3. QED
    BY <1>1, <1>2

---------------------------------------------------------------------------
(* What a step of the framework is to the lock.                            *)

\* A row that is left alone, and whose run applies nothing, is kept.
LEMMA RowKept ==
  ASSUME NEW r \in RunId, runs'[r] = runs[r], r \in applied' <=> r \in applied
  PROVE  Kept(r)
  BY DEF Kept, Running, OutcomeOf

LEMMA QuietIsKept ==
  ASSUME UNCHANGED <<runs, applied>>
  PROVE  \A r \in RunId : Kept(r)
  BY DEF Kept, Running, OutcomeOf

\* A row not yet visible has left nothing in the database.
LEMMA NothingBefore ==
  ASSUME RunInv, NEW r \in RunId, runs[r].status \in {"none", "PENDING"}
  PROVE  ~Running(r) /\ OutcomeOf(r) = "none" /\ r \notin applied
  BY DEF RunInv, AppliedIffCompleted, Running, OutcomeOf

\* Insert: a row is flushed, which the lock does not see.
LEMMA InsertIsQuiet ==
  ASSUME RunInv, NEW q \in Poster, Insert(q)
  PROVE  \A r \in RunId : Kept(r)
  <1>1. TypeOK /\ applied' = applied
    BY DEF RunInv, Insert
  <1>2. CASE UNCHANGED runs
    BY <1>1, <1>2, QuietIsKept
  <1>3. ASSUME NEW n \in RunId, runs[n].status = "none",
               \A o \in RunId \ {n} : runs'[o] = runs[o],
               runs'[n].status = "PENDING"
        PROVE  \A r \in RunId : Kept(r)
    <2>1. Kept(n)
      BY <1>1, <1>3, NothingBefore DEF Kept, Running, OutcomeOf
    <2>2. QED
      BY <1>1, <1>3, <2>1, RowKept
  <1>4. CASE ~Holding(req[q].purpose, "RUNNING")
    <2> DEFINE row == [status |-> "PENDING", purpose |-> req[q].purpose,
                       subject |-> req[q].subject, mode |-> req[q].actual,
                       boot |-> boot, deadline |-> req[q].now + RunDeadline,
                       reason |-> "none"]
    <2>1. PICK n \in RunId : /\ runs[n].status = "none"
                             /\ runs' = [runs EXCEPT ![n] = row]
      BY <1>4 DEF Insert
    <2>2. row.status = "PENDING"
      OBVIOUS
    <2> HIDE DEF row
    <2>3. runs'[n].status = "PENDING" /\ \A o \in RunId \ {n} : runs'[o] = runs[o]
      BY <1>1, <2>1, <2>2 DEF TypeOK
    <2>4. QED
      BY <1>3, <2>1, <2>3
  <1>5. QED
    BY <1>2, <1>4 DEF Insert

\* CommitStart: the row becomes visible, and the lock is taken; or it never was.
LEMMA CommitBegins ==
  ASSUME RunInv, NEW q \in Poster, CommitStart(q)
  PROVE  \/ \A r \in RunId : Kept(r)
         \/ \E r \in RunId : Begins(r) /\ \A o \in RunId \ {r} : Kept(o)
  <1>1. q \in Request /\ Starting(q) /\ req[q].pc = "commit"
    BY DEF CommitStart, Request, Starting
  <1>2. TypeOK /\ applied' = applied
    BY DEF RunInv, CommitStart
  <1>3. PICK n \in RunId : n = req[q].run
    BY <1>1, <1>2 DEF RunInv, StartInv, TypeOK
  <1>4. runs[n].status = "PENDING"
    BY <1>1, <1>3 DEF RunInv, StartInv
  <1>5. ~Running(n) /\ OutcomeOf(n) = "none" /\ n \notin applied
    BY <1>4, NothingBefore
  <1>6. \A o \in RunId \ {n} : Kept(o)
    <2>1. \A o \in RunId \ {n} : runs'[o] = runs[o]
      BY <1>2, <1>3 DEF CommitStart, TypeOK
    <2>2. QED
      BY <1>2, <2>1, RowKept
  <1>7. CASE runs' = [runs EXCEPT ![n].status = "RUNNING"]
    <2>1. runs'[n].status = "RUNNING"
      BY <1>2, <1>7 DEF TypeOK, Row
    <2>2. Begins(n)
      BY <1>2, <1>5, <2>1 DEF Begins, Running, OutcomeOf
    <2>3. QED
      BY <1>6, <2>2
  <1>8. CASE runs' = [runs EXCEPT ![n] = BlankRow]
    <2>1. runs'[n].status = "none"
      BY <1>2, <1>8 DEF TypeOK, BlankRow
    <2>2. Kept(n)
      BY <1>2, <1>5, <2>1 DEF Kept, Running, OutcomeOf
    <2>3. QED
      BY <1>6, <2>2
  <1>9. QED
    BY <1>3, <1>7, <1>8 DEF CommitStart

\* JobComplete: the run's lock is given back with everything it wrote.
LEMMA CompleteApplies ==
  ASSUME RunInv, NEW r \in RunId, JobComplete(r)
  PROVE  \/ \A o \in RunId : Kept(o)
         \/ EndsAs(r, "applied") /\ \A o \in RunId \ {r} : Kept(o)
  <1>1. TypeOK
    BY DEF RunInv
  <1>2. CASE UNCHANGED <<runs, applied>>
    BY <1>2, QuietIsKept
  <1>3. CASE /\ Running(r)
             /\ runs' = [runs EXCEPT ![r].status = "COMPLETED"]
             /\ applied' = applied \cup {r}
    <2>1. runs'[r].status = "COMPLETED" /\ r \in applied'
      BY <1>1, <1>3 DEF TypeOK, Row
    <2>2. EndsAs(r, "applied")
      BY <1>3, <2>1 DEF EndsAs, Running, OutcomeOf
    <2>3. \A o \in RunId \ {r} : Kept(o)
      BY <1>1, <1>3, RowKept DEF TypeOK
    <2>4. QED
      BY <2>2, <2>3
  <1>4. QED
    BY <1>2, <1>3 DEF JobComplete, StillRunning, RollBackApply

\* An UPDATE of a run in progress to FAILED drops it; any other row is kept.
LEMMA FailDrops ==
  ASSUME RunInv, NEW r \in RunId, NEW why, applied' = applied,
         runs'[r] = FailIfRunning(runs[r], why)
  PROVE  Kept(r) \/ EndsAs(r, "nothing")
  <1>1. runs[r] \in Row
    BY DEF RunInv, TypeOK
  <1>2. CASE runs'[r] = runs[r]
    BY <1>2, RowKept
  <1>3. CASE Running(r) /\ runs'[r] = Failed(runs[r], why)
    <2>1. runs'[r].status = "FAILED"
      BY <1>1, <1>3 DEF Failed, Row
    <2>2. r \notin applied'
      BY <1>3 DEF RunInv, AppliedIffCompleted, Running
    <2>3. QED
      BY <1>3, <2>1, <2>2 DEF EndsAs, Running, OutcomeOf
  <1>4. QED
    BY <1>2, <1>3 DEF FailIfRunning, Running

LEMMA JobFailDrops ==
  ASSUME RunInv, NEW r \in RunId, JobFail(r)
  PROVE  \A o \in RunId : Kept(o) \/ EndsAs(o, "nothing")
  <1>1. TypeOK /\ applied' = applied
    BY DEF RunInv, JobFail
  <1>2. CASE UNCHANGED runs
    BY <1>1, <1>2, QuietIsKept
  <1>3. CASE runs' = [runs EXCEPT ![r] = FailIfRunning(@, "job")]
    <2>1. runs'[r] = FailIfRunning(runs[r], "job")
      BY <1>1, <1>3 DEF TypeOK
    <2>2. \A o \in RunId \ {r} : Kept(o)
      BY <1>1, <1>3, RowKept DEF TypeOK
    <2>3. QED
      BY <1>1, <2>1, <2>2, FailDrops
  <1>4. QED
    BY <1>2, <1>3 DEF JobFail

LEMMA ReapDrops ==
  ASSUME RunInv, NEW q \in Request, ReapUpdate(q)
  PROVE  \A o \in RunId : Kept(o) \/ EndsAs(o, "nothing")
  <1>1. applied' = applied
    BY DEF ReapUpdate
  <1>2. CASE UNCHANGED runs
    BY <1>1, <1>2, QuietIsKept
  <1>3. CASE \A r \in RunId :
               runs'[r] = FailIfRunning(runs[r], req[q].verdict[r])
    BY <1>1, <1>3, FailDrops
  <1>4. QED
    BY <1>2, <1>3 DEF ReapUpdate

\* Restart: rows that were flushed are gone; the lock has never seen them.
LEMMA RestartIsQuiet ==
  ASSUME RunInv, Restart
  PROVE  \A r \in RunId : Kept(r)
  <1> SUFFICES ASSUME NEW r \in RunId PROVE Kept(r)
    OBVIOUS
  <1>1. applied' = applied
    BY DEF Restart
  <1>2. CASE runs[r].status = "PENDING"
    <2>1. runs'[r].status = "none"
      BY <1>2 DEF Restart, BlankRow
    <2>2. QED
      BY <1>1, <1>2, <2>1, NothingBefore DEF Kept, Running, OutcomeOf
  <1>3. CASE runs[r].status # "PENDING"
    <2>1. runs'[r] = runs[r]
      BY <1>3 DEF Restart
    <2>2. QED
      BY <1>1, <2>1, RowKept
  <1>4. QED
    BY <1>2, <1>3

\* Every step of the framework is one of four to the lock.
LEMMA StepKinds ==
  ASSUME RunInv, [Next]_vars
  PROVE  \/ \A o \in RunId : Kept(o)
         \/ \E r \in RunId : Begins(r) /\ \A o \in RunId \ {r} : Kept(o)
         \/ \E r \in RunId : /\ EndsAs(r, "applied")
                             /\ \A o \in RunId \ {r} : Kept(o)
         \/ \A o \in RunId : Kept(o) \/ EndsAs(o, "nothing")
  <1>1. CASE UNCHANGED vars
    BY <1>1, QuietIsKept DEF vars
  <1>2. ASSUME NEW q \in Request, Read(q) \/ Reap(q)
        PROVE  \A o \in RunId : Kept(o) \/ EndsAs(o, "nothing")
    <2>1. CASE ReapUpdate(q)
      BY <2>1, ReapDrops
    <2>2. CASE ~ReapUpdate(q)
      <3>1. UNCHANGED <<runs, applied>>
        BY <1>2, <2>2 DEF Read, Reap, ReapRead, ReapDecide, Lookup
      <3>2. QED
        BY <3>1, QuietIsKept
    <2>3. QED
      BY <2>1, <2>2
  <1>3. ASSUME NEW q \in Poster, Start(q)
        PROVE  \/ \A o \in RunId : Kept(o)
               \/ \E r \in RunId : Begins(r) /\ \A o \in RunId \ {r} : Kept(o)
    <2>1. CASE LostRace(q) \/ HandOff(q)
      BY <2>1, QuietIsKept DEF LostRace, HandOff
    <2>2. QED
      BY <1>3, <2>1, InsertIsQuiet, CommitBegins DEF Start
  <1>4. ASSUME NEW q \in Poster, NEW p \in Purpose, NEW s \in Subject,
               NEW serves \in Mode, NEW actual \in Mode,
               Post(q, p, s, serves, actual)
        PROVE  \A o \in RunId : Kept(o)
    BY <1>4, QuietIsKept DEF Post
  <1>5. ASSUME NEW r \in RunId, Execute(r)
        PROVE  \/ \A o \in RunId : Kept(o) \/ EndsAs(o, "nothing")
               \/ EndsAs(r, "applied") /\ \A o \in RunId \ {r} : Kept(o)
    <2>1. CASE JobAdmit(r) \/ JobRaise(r) \/ JobFinish(r)
      BY <2>1, QuietIsKept DEF JobAdmit, JobRaise, JobFinish
    <2>2. QED
      BY <1>5, <2>1, CompleteApplies, JobFailDrops DEF Execute
  <1>6. CASE Tick
    BY <1>6, QuietIsKept DEF Tick
  <1>7. CASE Restart
    BY <1>7, RestartIsQuiet
  <1>8. QED
    BY <1>1, <1>2, <1>3, <1>4, <1>5, <1>6, <1>7 DEF Next

---------------------------------------------------------------------------
(* The same, as steps of the lock.                                         *)

\* The holders of a purpose before and after a step.
LEMMA Holders ==
  ASSUME RunInv, RunInv', NEW p \in Purpose
  PROVE  /\ HolderOf(p) \in RunId \cup {NoRun}
         /\ HolderOf(p)' \in RunId \cup {NoRun}
         /\ \A r \in RunId :
              /\ HolderOf(p) = r <=> Running(r) /\ runs[r].purpose = p
              /\ HolderOf(p)' = r <=> Running(r)' /\ runs'[r].purpose = p
  <1>1. OneRunningPerPurpose /\ OneRunningPerPurpose'
    BY DEF RunInv
  <1>2. QED
    BY <1>1, HolderIsRunning, HolderIsRunningNext

\* A purpose keeps its holder when every run is kept but those it does not see.
LEMMA SameHolder ==
  ASSUME RunInv, RunInv', NEW p \in Purpose,
         \A r \in RunId : \/ Kept(r)
                          \/ /\ HolderOf(p) # r
                             /\ HolderOf(p)' # r
  PROVE  HolderOf(p)' = HolderOf(p)
  <1>1. \A r \in RunId : HolderOf(p) = r <=> HolderOf(p)' = r
    BY Holders DEF Kept
  <1>2. QED
    BY <1>1, Holders

\* Nothing the lock can see has happened.
LEMMA KeptStutters ==
  ASSUME RunInv, RunInv', \A r \in RunId : Kept(r)
  PROVE  /\ [p \in Purpose |-> HolderOf(p)]' = [p \in Purpose |-> HolderOf(p)]
         /\ [r \in RunId |-> OutcomeOf(r)]' = [r \in RunId |-> OutcomeOf(r)]
  <1>1. \A p \in Purpose : HolderOf(p)' = HolderOf(p)
    BY SameHolder
  <1>2. \A r \in RunId : OutcomeOf(r)' = OutcomeOf(r)
    BY DEF Kept
  <1>3. QED
    BY <1>1, <1>2

\* A run that begins takes the free lock of its purpose.
LEMMA BeginsAcquires ==
  ASSUME RunInv, RunInv', NEW r \in RunId, Begins(r),
         \A o \in RunId \ {r} : Kept(o)
  PROVE  \E p \in Purpose : Lock!Acquire(p, r)
  <1>1. PICK p \in Purpose : runs'[r].purpose = p
    BY DEF RunInv, TypeOK, Row
  <1>2. HolderOf(p) = NoRun /\ HolderOf(p)' = r
    <2>1. HolderOf(p)' = r
      BY <1>1, Holders DEF Begins
    <2>2. HolderOf(p) # r
      BY Holders DEF Begins
    <2>3. ASSUME NEW o \in RunId \ {r}
          PROVE  HolderOf(p) # o
      <3>1. SUFFICES ASSUME HolderOf(p) = o PROVE FALSE
        OBVIOUS
      <3>2. Running(o) /\ runs[o].purpose = p
        BY <3>1, Holders
      <3>3. Running(o)' /\ runs'[o].purpose = p
        BY <2>3, <3>2 DEF Kept
      <3>4. HolderOf(p)' = o
        BY <3>3, Holders
      <3>5. QED
        BY <2>1, <2>3, <3>4
    <2>4. HolderOf(p) \in RunId \cup {NoRun}
      BY Holders
    <2>5. QED
      BY <2>1, <2>2, <2>3, <2>4
  <1>3. \A o \in Purpose : HolderOf(o) # r
    BY Holders DEF Begins
  <1>4. ASSUME NEW o \in Purpose \ {p}
        PROVE  HolderOf(o)' = HolderOf(o)
    <2>1. HolderOf(o)' # r
      BY <1>1, <1>4, Holders
    <2>2. QED
      BY <1>3, <2>1, SameHolder
  <1>5. \A o \in RunId : OutcomeOf(o)' = OutcomeOf(o)
    BY DEF Kept, Begins
  <1>6. OutcomeOf(r) = "none"
    BY DEF Begins
  <1>7. Lock!Acquire(p, r)
    BY <1>2, <1>3, <1>4, <1>5, <1>6 DEF Lock!Acquire
  <1>8. QED
    BY <1>7

\* A run that completes gives its lock back with what it wrote.
LEMMA AppliesLock ==
  ASSUME RunInv, RunInv', NEW r \in RunId, EndsAs(r, "applied"),
         \A o \in RunId \ {r} : Kept(o)
  PROVE  \E p \in Purpose : Lock!Apply(p)
  <1>1. PICK p \in Purpose : runs[r].purpose = p
    BY DEF RunInv, TypeOK, Row
  <1>2. HolderOf(p) = r /\ r # NoRun
    BY <1>1, Holders, RunsAssumption DEF EndsAs
  <1>3. HolderOf(p)' = NoRun
    <2>1. HolderOf(p)' # r
      BY Holders DEF EndsAs
    <2>2. ASSUME NEW o \in RunId \ {r}
          PROVE  HolderOf(p)' # o
      <3>1. HolderOf(p) # o
        BY <1>2, <2>2
      <3>2. QED
        BY <2>2, <3>1, Holders DEF Kept
    <2>3. HolderOf(p)' \in RunId \cup {NoRun}
      BY Holders
    <2>4. QED
      BY <2>1, <2>2, <2>3
  <1>4. ASSUME NEW o \in Purpose \ {p}
        PROVE  HolderOf(o)' = HolderOf(o)
    <2>1. HolderOf(o) # r /\ HolderOf(o)' # r
      BY <1>1, <1>4, Holders DEF EndsAs
    <2>2. QED
      BY <2>1, SameHolder
  <1>5. /\ OutcomeOf(r)' = "applied"
        /\ \A o \in RunId \ {r} : OutcomeOf(o)' = OutcomeOf(o)
    BY DEF Kept, EndsAs
  <1>6. [o \in RunId |-> OutcomeOf(o)]' =
          [[o \in RunId |-> OutcomeOf(o)] EXCEPT ![r] = "applied"]
    BY <1>5
  <1>7. [o \in Purpose |-> HolderOf(o)]' =
          [[o \in Purpose |-> HolderOf(o)] EXCEPT ![p] = NoRun]
    BY <1>3, <1>4
  <1>8. [o \in Purpose |-> HolderOf(o)][p] = r
    BY <1>2
  <1>9. Lock!Apply(p)
    BY <1>2, <1>6, <1>7, <1>8 DEF Lock!Apply
  <1>10. QED
    BY <1>9

\* Runs that end any other way give their locks back with nothing.
LEMMA DropsLock ==
  ASSUME RunInv, RunInv', \A o \in RunId : Kept(o) \/ EndsAs(o, "nothing")
  PROVE  \E dropped \in SUBSET Purpose : Lock!Drop(dropped)
  <1> DEFINE Gone(p) == \E r \in RunId : EndsAs(r, "nothing") /\ HolderOf(p) = r
  <1>1. PICK dropped \in SUBSET Purpose :
          \A p \in Purpose : p \in dropped <=> Gone(p)
    <2>1. {p \in Purpose : Gone(p)} \in SUBSET Purpose
      OBVIOUS
    <2>2. QED
      BY <2>1
  <1>2. ASSUME NEW p \in dropped
        PROVE  HolderOf(p) # NoRun /\ HolderOf(p)' = NoRun
    <2>1. PICK r \in RunId : EndsAs(r, "nothing") /\ HolderOf(p) = r
      BY <1>1, <1>2
    <2>2. r # NoRun
      BY RunsAssumption
    <2>3. p \in Purpose
      BY <1>1, <1>2
    <2>4. HolderOf(p)' # r
      BY <2>1, <2>3, Holders DEF EndsAs
    <2>5. ASSUME NEW o \in RunId \ {r}
          PROVE  HolderOf(p)' # o
      <3>1. HolderOf(p) # o
        BY <2>1, <2>5
      <3>2. QED
        BY <2>3, <2>5, <3>1, Holders DEF Kept, EndsAs
    <2>6. HolderOf(p)' \in RunId \cup {NoRun}
      BY <2>3, Holders
    <2>7. QED
      BY <2>1, <2>2, <2>4, <2>5, <2>6
  <1>3. ASSUME NEW p \in Purpose \ dropped
        PROVE  HolderOf(p)' = HolderOf(p)
    <2>1. ASSUME NEW r \in RunId, EndsAs(r, "nothing")
          PROVE  HolderOf(p) # r /\ HolderOf(p)' # r
      BY <1>1, <1>3, <2>1, Holders DEF EndsAs
    <2>2. \A r \in RunId : \/ Kept(r)
                           \/ HolderOf(p) # r /\ HolderOf(p)' # r
      BY <2>1
    <2>3. p \in Purpose
      BY <1>3
    <2>4. QED
      BY <2>2, <2>3, SameHolder
  <1>4. ASSUME NEW r \in RunId
        PROVE  OutcomeOf(r)' = IF \E p \in dropped : HolderOf(p) = r
                               THEN "nothing" ELSE OutcomeOf(r)
    <2>1. CASE EndsAs(r, "nothing")
      <3>1. PICK p \in Purpose : runs[r].purpose = p
        BY DEF RunInv, TypeOK, Row
      <3>2. HolderOf(p) = r
        BY <2>1, <3>1, Holders DEF EndsAs
      <3>3. p \in dropped
        BY <1>1, <2>1, <3>2
      <3>4. QED
        BY <2>1, <3>2, <3>3 DEF EndsAs
    <2>2. CASE ~EndsAs(r, "nothing")
      <3>1. \A p \in dropped : HolderOf(p) # r
        BY <1>1, <2>2
      <3>2. OutcomeOf(r)' = OutcomeOf(r)
        BY <2>2 DEF Kept
      <3>3. QED
        BY <3>1, <3>2
    <2>3. QED
      BY <2>1, <2>2
  <1>5. Lock!Drop(dropped)
    BY <1>1, <1>2, <1>3, <1>4 DEF Lock!Drop
  <1>6. QED
    BY <1>5

---------------------------------------------------------------------------
(* The refinement.                                                         *)

LEMMA InitRefines == Init => Lock!LockInit
  <1> SUFFICES ASSUME Init PROVE Lock!LockInit
    OBVIOUS
  <1>1. \A r \in RunId : ~Running(r) /\ OutcomeOf(r) = "none"
    BY DEF Init, BlankRow, Running, OutcomeOf
  <1>2. \A p \in Purpose : HolderOf(p) = NoRun
    BY <1>1 DEF HolderOf
  <1>3. QED
    BY <1>1, <1>2 DEF Lock!LockInit

LEMMA StepRefines ==
  ASSUME RunInv, RunInv', [Next]_vars
  PROVE  [Lock!LockNext]_(Lock!lockVars)
  <1>1. CASE \A r \in RunId : Kept(r)
    BY <1>1, KeptStutters DEF Lock!lockVars
  <1>2. ASSUME NEW r \in RunId, Begins(r), \A o \in RunId \ {r} : Kept(o)
        PROVE  Lock!LockNext
    BY <1>2, BeginsAcquires DEF Lock!LockNext
  <1>3. ASSUME NEW r \in RunId, EndsAs(r, "applied"),
               \A o \in RunId \ {r} : Kept(o)
        PROVE  Lock!LockNext
    BY <1>3, AppliesLock DEF Lock!LockNext
  <1>4. CASE \A o \in RunId : Kept(o) \/ EndsAs(o, "nothing")
    BY <1>4, DropsLock DEF Lock!LockNext
  <1>5. QED
    BY <1>1, <1>2, <1>3, <1>4, StepKinds

\* The framework implements the lock, for any number of runs, threads,
\* purposes, boots and failed commits: a purpose's lock is taken only while
\* free and given back once, with everything the run wrote or with nothing.
THEOREM RunsImplementLock == Spec => ImplementsRunLock
  <1>1. RunInv /\ RunInv' /\ [Next]_vars => [Lock!LockNext]_(Lock!lockVars)
    BY StepRefines
  <1>2. QED
    BY <1>1, InitRefines, RunSafety, PTL DEF Spec, ImplementsRunLock, Lock!LockSpec
=============================================================================
