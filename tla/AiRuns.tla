------------------------------ MODULE AiRuns ------------------------------
(***************************************************************************)
(* The Run-AI framework of the api (src/apps/api/app/ai/runs.py) on one    *)
(* service: POSTs that start or join a run, the reads that reap before     *)
(* they answer, the background job, the one process that may crash and     *)
(* boot again, and the partial unique index on ai_runs.                    *)
(*                                                                         *)
(* A request is split where another thread or transaction can get in: at   *)
(* its SELECTs, its inserts, its commits and its looks at the live set.    *)
(* Every UPDATE is joined with the commit that follows it, because the row *)
(* lock it takes makes the two one step for every other writer of the row. *)
(***************************************************************************)
EXTENDS Naturals, FiniteSets

CONSTANTS
  RunId,        \* identifiers of the rows of ai_runs
  Poster,       \* request threads of the api that start runs and read them
  Poller,       \* request threads of the api that only read
  Purpose,      \* purposes a run can have (mitre_map, csf_suggest, ...)
  NonLocking,   \* NON_LOCKING_PURPOSES
  Subject,      \* what a run works on: an assessment, a document
  NoRun,        \* "no run": the None of a lookup
  RunDeadline,  \* RUN_DEADLINE, in ticks
  ReapMargin,   \* REAP_MARGIN, in ticks
  MaxClock,     \* bound: the last tick
  MaxBoot,      \* bound: process boots
  MaxFault      \* bound: failed commits and lost hand-offs

ASSUME RunsAssumption ==
  /\ NonLocking \subseteq Purpose
  /\ NoRun \notin RunId
  /\ Purpose # {} /\ Subject # {}
  /\ RunDeadline \in Nat /\ ReapMargin \in Nat
  /\ MaxClock \in Nat /\ MaxBoot \in Nat /\ MaxFault \in Nat

VARIABLES
  runs,     \* the ai_runs table; "PENDING" is a row flushed, not committed
  live,     \* _live: the runs this process says it is executing
  job,      \* where the background job of a run is
  place,    \* the run's redaction place, as far as runs.py moves it
  req,      \* the request threads
  boot,     \* BOOT_ID of the process
  clock,    \* utcnow()
  faults,   \* how many times the database or a request has failed
  applied   \* history: the runs whose apply was committed

vars == <<runs, live, job, place, req, boot, clock, faults, applied>>

Request  == Poster \cup Poller
Mode     == {"live", "offline"}
Status   == {"none", "PENDING", "RUNNING", "COMPLETED", "FAILED"}
Terminal == {"COMPLETED", "FAILED"}
Cause    == {"run_orphaned", "run_deadline_exceeded"}
Reason   == Cause \cup {"none", "job"}

Row == [status : Status, purpose : Purpose, subject : Subject, mode : Mode,
        boot : Nat, deadline : Nat, reason : Reason]

Answer == {"none", "started", "joined", "other_input", "other_mode",
           "status_changed", "no_row_found", "error", "locked", "free"}

RequestPc == {"idle", "reap_read", "reap_decide", "reap_update", "lookup",
              "insert", "lost_race", "commit", "hand_off"}

JobPc == {"none", "working", "failing", "closing"}

Thread == [pc : RequestPc, kind : {"post", "read"}, purpose : Purpose,
           subject : Subject, serves : Mode, actual : Mode,
           rows : SUBSET RunId, now : Nat,
           verdict : [RunId -> Cause \cup {"none"}],
           run : RunId \cup {NoRun}, answer : Answer]

TypeOK ==
  /\ runs \in [RunId -> Row]
  /\ live \in SUBSET RunId
  /\ job \in [RunId -> JobPc]
  /\ place \in [RunId -> {"none", "held", "ended"}]
  /\ req \in [Request -> Thread]
  /\ boot \in Nat /\ clock \in Nat /\ faults \in Nat
  /\ applied \in SUBSET RunId

---------------------------------------------------------------------------

AnyPurpose == CHOOSE p \in Purpose : TRUE
AnySubject == CHOOSE s \in Subject : TRUE

BlankRow == [status |-> "none", purpose |-> AnyPurpose,
             subject |-> AnySubject, mode |-> "offline", boot |-> 0,
             deadline |-> 0, reason |-> "none"]

NoVerdict == [r \in RunId |-> "none"]

Idle == [pc |-> "idle", kind |-> "read", purpose |-> AnyPurpose,
         subject |-> AnySubject, serves |-> "offline", actual |-> "offline",
         rows |-> {}, now |-> 0, verdict |-> NoVerdict, run |-> NoRun,
         answer |-> "none"]

Running(r) == runs[r].status = "RUNNING"

\* The latest a run can hold its service's lock.
LockUntil(r) == runs[r].deadline + ReapMargin

\* Mutation of Overdue: a run this process executes is never given up.
NeverOverdue(r, now) == FALSE

Overdue(r, now) == now > LockUntil(r)

\* Mutation of OrphanCause: only the deadline ends a run.
DeadlineOnly(r, now) == IF Overdue(r, now) THEN "run_deadline_exceeded" ELSE "none"

\* Why a RUNNING run has no job that will finish it; the job may end between
\* the SELECT and this look at the live set.
OrphanCause(r, now) ==
  CASE runs[r].boot # boot   -> "run_orphaned"
    [] r \notin live         -> "run_orphaned"
    [] Overdue(r, now)       -> "run_deadline_exceeded"
    [] OTHER                 -> "none"

Failed(row, why) == [row EXCEPT !.status = "FAILED", !.reason = why]

Become(q, thread) == req' = [req EXCEPT ![q] = thread]

Goto(q, pc) == Become(q, [req[q] EXCEPT !.pc = pc])

\* The request ends: refused, or handed a run (with what it had asked for).
Refuse(q, a) == Become(q, [Idle EXCEPT !.answer = a])

Hand(q, a, r) == Become(q, [Idle EXCEPT !.answer = a, !.serves = req[q].serves,
                                        !.subject = req[q].subject, !.run = r])

Fault == faults < MaxFault /\ faults' = faults + 1

\* Bound: a POST is made only while RunId has an identifier left for it.
SpareRunIds ==
  Cardinality({q \in Poster : req[q].pc # "idle" /\ req[q].kind = "post"})
    < Cardinality({r \in RunId : runs[r].status \in {"none", "PENDING"}})

Init ==
  /\ runs = [r \in RunId |-> BlankRow]
  /\ live = {}
  /\ job = [r \in RunId |-> "none"]
  /\ place = [r \in RunId |-> "none"]
  /\ req = [q \in Request |-> Idle]
  /\ boot = 0 /\ clock = 0 /\ faults = 0
  /\ applied = {}

---------------------------------------------------------------------------
(* Requests: a POST of start_run, a read of running_run or the edit lock.  *)

\* The top of start_run: an offline acknowledgement is never served live.
Post(q, p, s, serves, actual) ==
  /\ req[q].pc = "idle"
  /\ SpareRunIds
  /\ IF serves = "offline" /\ actual = "live"
     THEN Refuse(q, "status_changed")
     ELSE Become(q, [Idle EXCEPT !.pc = "reap_read", !.kind = "post",
                       !.purpose = p, !.subject = s,
                       !.serves = serves, !.actual = actual])
  /\ UNCHANGED <<runs, live, job, place, boot, clock, faults, applied>>

Read(q) ==
  /\ req[q].pc = "idle"
  /\ Become(q, [Idle EXCEPT !.pc = "reap_read"])
  /\ UNCHANGED <<runs, live, job, place, boot, clock, faults, applied>>

\* The rows a request reaps: a POST those of its purpose, a read of the service
\* those of every purpose.
InReach(q, r) == req[q].kind = "read" \/ runs[r].purpose = req[q].purpose

\* reap, its SELECT; now is taken before it.
ReapRead(q) ==
  LET found == {r \in RunId : Running(r) /\ InReach(q, r)}
  IN /\ req[q].pc = "reap_read"
     /\ IF found = {} THEN Goto(q, "lookup")
        ELSE Become(q, [req[q] EXCEPT !.pc = "reap_decide", !.now = clock,
                                      !.rows = found])
     /\ UNCHANGED <<runs, live, job, place, boot, clock, faults, applied>>

\* The verdicts on the rows read. A run judged orphaned may have ended since.
ReapDecide(q) ==
  LET why == [r \in RunId |-> IF r \in req[q].rows
                              THEN OrphanCause(r, req[q].now) ELSE "none"]
  IN /\ req[q].pc = "reap_decide"
     /\ Become(q, [req[q] EXCEPT !.verdict = why, !.rows = {}, !.now = 0,
                     !.pc = IF why = NoVerdict THEN "lookup" ELSE "reap_update"])
     /\ UNCHANGED <<runs, live, job, place, boot, clock, faults, applied>>

\* Mutation of FailIfRunning: the UPDATE does not ask for RUNNING.
FailAnyway(row, why) == IF why # "none" THEN Failed(row, why) ELSE row

\* _fail_if_running matches only a row that is still RUNNING.
FailIfRunning(row, why) ==
  IF why # "none" /\ row.status = "RUNNING" THEN Failed(row, why) ELSE row

\* Mutation of ReleaseRuns: ending a run forgets its redaction place.
KeepPlaces(ended) == UNCHANGED place

\* release_run: the place comes back, and isolation remembers the run as ended.
ReleaseRuns(ended) ==
  place' = [r \in RunId |-> IF r \in ended THEN "ended" ELSE place[r]]

\* The UPDATEs of the reaped runs, release_run for each that matched, and one
\* commit; a commit that fails leaves the rows, not the places, as they were.
ReapUpdate(q) ==
  LET why    == req[q].verdict
      update == [r \in RunId |-> FailIfRunning(runs[r], why[r])]
      ended  == {r \in RunId : update[r] # runs[r]}
  IN /\ req[q].pc = "reap_update"
     /\ ReleaseRuns(ended)
     /\ \/ /\ runs' = update
           /\ Become(q, [req[q] EXCEPT !.pc = "lookup", !.verdict = NoVerdict])
           /\ UNCHANGED faults
        \/ /\ ended # {}
           /\ Fault
           /\ Refuse(q, "error")
           /\ UNCHANGED runs
     /\ UNCHANGED <<live, job, boot, clock, applied>>

\* Mutation of JoinOrRefuse: the subject alone decides.
JoinAnyMode(q, r) == IF runs[r].subject # req[q].subject
                     THEN Refuse(q, "other_input") ELSE Hand(q, "joined", r)

\* _join_or_refuse: a request joins only a run of its own subject and mode.
JoinOrRefuse(q, r) ==
  CASE runs[r].subject # req[q].subject -> Refuse(q, "other_input")
    [] runs[r].mode # req[q].serves     -> Refuse(q, "other_mode")
    [] OTHER                            -> Hand(q, "joined", r)

\* running_run's own SELECT, after the reap.
Lookup(q) ==
  LET mine == {r \in RunId : Running(r) /\ runs[r].purpose = req[q].purpose}
      locking == {r \in RunId : Running(r) /\ runs[r].purpose \notin NonLocking}
  IN /\ req[q].pc = "lookup"
     /\ \/ /\ req[q].kind = "read"
           /\ Refuse(q, IF locking = {} THEN "free" ELSE "locked")
        \/ /\ req[q].kind = "post"
           /\ \/ /\ mine = {}  \* started_at is read before the insert
                 /\ Become(q, [req[q] EXCEPT !.pc = "insert", !.now = clock])
              \/ \E r \in mine : JoinOrRefuse(q, r)
     /\ UNCHANGED <<runs, live, job, place, boot, clock, faults, applied>>

\* The rows of a purpose the unique index looks at: an insert that meets a
\* flushed row waits for its commit, one that meets a RUNNING row is refused.
Holding(p, status) ==
  \E r \in RunId : runs[r].status = status /\ runs[r].purpose = p

\* Mutation of MarkLive: the run is not live when its row becomes visible.
MarkNothing(r) == UNCHANGED live

MarkLive(r) == live' = live \cup {r}

\* The insert, and the mark of the flushed row as live: in the live set before
\* the commit makes the row visible.
Insert(q) ==
  LET t == req[q]
  IN /\ t.pc = "insert"
     /\ ~Holding(t.purpose, "PENDING")
     /\ IF Holding(t.purpose, "RUNNING")
        THEN Goto(q, "lost_race") /\ UNCHANGED <<runs, live>>
        ELSE \E r \in RunId :
               /\ runs[r].status = "none"
               /\ runs' = [runs EXCEPT ![r] =
                    [status |-> "PENDING", purpose |-> t.purpose,
                     subject |-> t.subject, mode |-> t.actual, boot |-> boot,
                     deadline |-> t.now + RunDeadline, reason |-> "none"]]
               /\ MarkLive(r)
               /\ Become(q, [t EXCEPT !.pc = "commit", !.now = 0, !.run = r])
     /\ UNCHANGED <<job, place, boot, clock, faults, applied>>

\* The plain read after a refused insert: scalar_one raises on no row.
LostRace(q) ==
  /\ req[q].pc = "lost_race"
  /\ \/ \E r \in RunId : /\ Running(r)
                         /\ runs[r].purpose = req[q].purpose
                         /\ JoinOrRefuse(q, r)
     \/ /\ ~Holding(req[q].purpose, "RUNNING")
        /\ Refuse(q, "no_row_found")
  /\ UNCHANGED <<runs, live, job, place, boot, clock, faults, applied>>

\* The commit that makes the row visible. A commit that raises undoes the
\* mark, whether the database kept the row or not.
CommitStart(q) ==
  LET r == req[q].run
  IN /\ req[q].pc = "commit"
     /\ \/ /\ runs' = [runs EXCEPT ![r].status = "RUNNING"]
           /\ Goto(q, "hand_off")
           /\ UNCHANGED <<live, faults>>
        \/ /\ Fault
           /\ \/ runs' = [runs EXCEPT ![r] = BlankRow]
              \/ runs' = [runs EXCEPT ![r].status = "RUNNING"]
           /\ live' = live \ {r}
           /\ Refuse(q, "error")
     /\ UNCHANGED <<job, place, boot, clock, applied>>

\* runner(...): the background task is the job; a request that dies between
\* its commit and this line leaves a live run with no job.
HandOff(q) ==
  LET r == req[q].run
  IN /\ req[q].pc = "hand_off"
     /\ \/ /\ job' = [job EXCEPT ![r] = "working"]
           /\ Hand(q, "started", r)
           /\ UNCHANGED faults
        \/ Fault /\ Refuse(q, "error") /\ UNCHANGED job
     /\ UNCHANGED <<runs, live, place, boot, clock, applied>>

---------------------------------------------------------------------------
(* The background job: _execute.                                           *)

JobAt(r, pc) == job[r] = pc
JobTo(r, pc) == job' = [job EXCEPT ![r] = pc]

\* The work's first redacted payload takes the run's place; a run isolation
\* remembers as ended is refused instead (and the work raises).
JobAdmit(r) ==
  /\ JobAt(r, "working")
  /\ place[r] = "none"
  /\ place' = [place EXCEPT ![r] = "held"]
  /\ UNCHANGED <<runs, live, job, req, boot, clock, faults, applied>>

\* Mutation of StillRunning: the completion UPDATE matches any row.
AnyStatus(r) == TRUE

StillRunning(r) == Running(r)

\* Mutation of RollBackApply: the apply was committed before the swap.
ApplyStays(r) == applied' = applied \cup {r}

RollBackApply(r) == UNCHANGED applied

\* The completion compare-and-swap and its commit, with the apply in the same
\* transaction. No match rolls both back. A commit that raises has kept both
\* or neither, and the job goes on as one that failed.
JobComplete(r) ==
  /\ JobAt(r, "working")
  /\ LET done == /\ runs' = [runs EXCEPT ![r].status = "COMPLETED"]
                 /\ applied' = applied \cup {r}
     IN \/ StillRunning(r) /\ done /\ JobTo(r, "closing") /\ UNCHANGED faults
        \/ /\ StillRunning(r) /\ Fault /\ JobTo(r, "failing")
           /\ done \/ UNCHANGED <<runs, applied>>
        \/ /\ ~StillRunning(r) /\ RollBackApply(r) /\ JobTo(r, "closing")
           /\ UNCHANGED <<runs, faults>>
  /\ UNCHANGED <<live, place, req, boot, clock>>

JobRaise(r) ==
  /\ JobAt(r, "working")
  /\ JobTo(r, "failing")
  /\ UNCHANGED <<runs, live, place, req, boot, clock, faults, applied>>

\* The except branch: rollback, _fail_if_running, commit. A commit that fails
\* leaves the run RUNNING; the finally runs either way.
JobFail(r) ==
  /\ JobAt(r, "failing")
  /\ JobTo(r, "closing")
  /\ \/ runs' = [runs EXCEPT ![r] = FailIfRunning(@, "job")] /\ UNCHANGED faults
     \/ Running(r) /\ Fault /\ UNCHANGED runs
  /\ UNCHANGED <<live, place, req, boot, clock, applied>>

\* finally: leave the live set, give the place back. Closing the session may
\* raise, and then the run stays in the live set, but its place still goes.
JobFinish(r) ==
  /\ JobAt(r, "closing")
  /\ JobTo(r, "none")
  /\ ReleaseRuns({r})
  /\ \/ live' = live \ {r} /\ UNCHANGED faults
     \/ Fault /\ UNCHANGED live
  /\ UNCHANGED <<runs, req, boot, clock, applied>>

---------------------------------------------------------------------------
(* The environment.                                                        *)

Tick ==
  /\ clock < MaxClock
  /\ clock' = clock + 1
  /\ UNCHANGED <<runs, live, job, place, req, boot, faults, applied>>

\* The process dies and another boots: memory is lost, flushed rows roll back.
Restart ==
  /\ boot < MaxBoot
  /\ boot' = boot + 1
  /\ runs' = [r \in RunId |-> IF runs[r].status = "PENDING" THEN BlankRow
                              ELSE runs[r]]
  /\ live' = {}
  /\ job' = [r \in RunId |-> "none"]
  /\ place' = [r \in RunId |-> "none"]
  /\ req' = [q \in Request |-> Idle]
  /\ UNCHANGED <<clock, faults, applied>>

Reap(q) == ReapRead(q) \/ ReapDecide(q) \/ ReapUpdate(q) \/ Lookup(q)

Start(q) == Insert(q) \/ LostRace(q) \/ CommitStart(q) \/ HandOff(q)

Execute(r) == \/ JobAdmit(r) \/ JobComplete(r) \/ JobRaise(r)
              \/ JobFail(r) \/ JobFinish(r)

Next ==
  \/ \E q \in Request : Read(q) \/ Reap(q)
  \/ \E q \in Poster :
       \/ Start(q)
       \/ \E p \in Purpose, s \in Subject, serves, actual \in Mode :
            Post(q, p, s, serves, actual)
  \/ \E r \in RunId : Execute(r)
  \/ Tick
  \/ Restart

Spec == Init /\ [][Next]_vars

\* Time passes and the workspace goes on polling. Nothing is assumed of a
\* POST or of a job: a provider call may hang for ever, a hand-off be lost.
Polling == /\ WF_vars(Tick)
           /\ \A q \in Poller : WF_vars(Read(q)) /\ WF_vars(Reap(q))

FairSpec == Spec /\ Polling

---------------------------------------------------------------------------
(* Properties.                                                             *)

\* The edit lock is single: at most one run of a purpose is in progress, the
\* row a POST has flushed and not committed included.
OneRunningPerPurpose ==
  \A r1, r2 \in RunId :
    /\ runs[r1].status \in {"PENDING", "RUNNING"}
    /\ runs[r2].status \in {"PENDING", "RUNNING"}
    /\ runs[r1].purpose = runs[r2].purpose
    => r1 = r2

\* A reaped run never applies late: what a run wrote is in the database
\* exactly when its row says COMPLETED.
AppliedIffCompleted ==
  \A r \in RunId : r \in applied <=> runs[r].status = "COMPLETED"

\* A run whose job is still working in this process is never ended
\* as orphaned: the live set is entered before the row is visible and left
\* after the terminal commit.
NoJobIsOrphaned ==
  \A r \in RunId : runs[r].reason = "run_orphaned"
                   => job[r] \in {"none", "closing"}

\* What a POST is handed, by a start or by either way of joining, is a run about
\* the subject it named, in an AI mode its consultant acknowledged: offline is
\* never answered with a live run that sends the workspace out, and only a start
\* may serve canned output to who had acknowledged a live model.
HandedWhatItAsked ==
  \A q \in Poster :
    LET given == runs[req[q].run]
    IN req[q].answer \in {"started", "joined"}
         => /\ given.subject = req[q].subject
            /\ given.mode = "live" => req[q].serves = "live"
            /\ given.mode = req[q].serves \/ req[q].answer = "started"

\* A redaction place is held only for a run in progress or by a job that is
\* about to give it back: neither a reaped run nor a finished job keeps one.
HeldPlaceIsNeeded ==
  \A r \in RunId : place[r] = "held" =>
    \/ Running(r)
    \/ job[r] \in {"failing", "closing"}

\* A run ends once, and not before its time. A terminal row never changes
\* again: the status, the reason and the outcome a workspace was told stand,
\* whoever comes late. And a run this process executes is ended by a read only
\* past its deadline plus the margin: never while its job has time.
RunsEndOnce ==
  [][\A r \in RunId :
       /\ runs[r].status \in Terminal => runs'[r] = runs[r]
       /\ Running(r) /\ runs'[r].status = "FAILED" /\ job[r] = "working"
            => clock > LockUntil(r)]_vars

\* The edit lock always comes back: whatever becomes of the job, the process
\* or a commit, a run is ended once the clock can pass its lock_until.
LockComesBack ==
  \A r \in RunId : (Running(r) /\ LockUntil(r) < MaxClock) ~> ~Running(r)

\* A read that finds the edit lock taken has found a run this process is
\* executing, not one nothing will finish (unless a commit failed under it).
LockedMeansExecuting ==
  [][\A q \in Request :
       /\ req[q].answer # "locked" /\ req'[q].answer = "locked"
       /\ faults = 0
       => \E r \in live : Running(r) /\ runs[r].purpose \notin NonLocking]_vars

---------------------------------------------------------------------------
(* The inductive invariant behind the properties above.                    *)

Visible(r)    == runs[r].status \notin {"none", "PENDING"}
Starting(q)   == req[q].pc \in {"commit", "hand_off"}
HandedOff(r)  == \A q \in Request : ~(req[q].pc = "hand_off" /\ req[q].run = r)
NoJobAtWork(r) == job[r] \in {"none", "closing"} /\ HandedOff(r)

\* A request between its insert and its hand-off owns its run, which is in the
\* live set and of this boot.
StartInv ==
  \A q \in Request : Starting(q) =>
    /\ req[q].run \in live
    /\ runs[req[q].run].boot = boot /\ runs[req[q].run].status # "none"
    /\ job[req[q].run] = "none"
    /\ runs[req[q].run].status = "PENDING" <=> req[q].pc = "commit"
    /\ \A q2 \in Request : Starting(q2) /\ req[q2].run = req[q].run => q2 = q

\* A job belongs to a visible run of this boot, and is live until it closes.
JobInv ==
  \A r \in RunId : job[r] # "none" =>
    /\ Visible(r) /\ runs[r].boot = boot
    /\ job[r] # "closing" => r \in live

\* What a reap has read or judged is still true when it updates.
ReapInv ==
  \A q \in Request :
    /\ req[q].now <= clock
    /\ \A r \in RunId :
        /\ r \in req[q].rows => Visible(r)
        /\ req[q].verdict[r] # "none" => Visible(r)
        /\ req[q].verdict[r] = "run_orphaned" => NoJobAtWork(r)
        /\ req[q].verdict[r] = "run_deadline_exceeded"
             => clock > runs[r].deadline + ReapMargin

\* A run ended as an orphan has no job at work.
RowInv ==
  \A r \in RunId :
    runs[r].reason = "run_orphaned" => Visible(r) /\ NoJobAtWork(r)

RunInv == /\ TypeOK /\ OneRunningPerPurpose /\ AppliedIffCompleted
          /\ StartInv /\ JobInv /\ ReapInv /\ RowInv

\* Until a run has ended or taken its place, a job that could still take it is
\* that of a run in progress: no place is taken for a run already reaped.
PlaceInv ==
  \A r \in RunId :
    /\ place[r] = "held" => Running(r) \/ job[r] \in {"failing", "closing"}
    /\ place[r] = "none" /\ (job[r] = "working" \/ ~HandedOff(r)) => Running(r)

---------------------------------------------------------------------------
(* AiRuns implements RunLock: the lock of a purpose is the RUNNING row of   *)
(* that purpose, what a run left is what was committed under it.            *)

HolderOf(p) ==
  IF \E r \in RunId : Running(r) /\ runs[r].purpose = p
  THEN CHOOSE r \in RunId : Running(r) /\ runs[r].purpose = p
  ELSE NoRun

OutcomeOf(r) == IF r \in applied THEN "applied"
                ELSE IF runs[r].status = "FAILED" THEN "nothing" ELSE "none"

Lock == INSTANCE RunLock WITH holder  <- [p \in Purpose |-> HolderOf(p)],
                              outcome <- [r \in RunId |-> OutcomeOf(r)]

\* Every behaviour of the framework is one of the abstract lock: taken while
\* free, given back once, with the apply or with nothing.
ImplementsRunLock == Lock!LockSpec
=============================================================================
