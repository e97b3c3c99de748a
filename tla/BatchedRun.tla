---------------------------- MODULE BatchedRun -----------------------------
(***************************************************************************)
(* One live Run-AI whose work goes through run_batches (src/apps/api/app/  *)
(* ai/batching.py): the pool of batch workers, LLMClient.invoke in each of *)
(* them, the llm_calls ledger, the collector on the job's thread, and the  *)
(* charged_likely the run records.  The redaction boundary is abstracted   *)
(* to what RedactionGate says of this one run, which Isolation implements. *)
(***************************************************************************)
EXTENDS Naturals, FiniteSets

CONSTANTS
  Batches,     \* how many batches the run has
  MaxWorkers,  \* max_workers of the pool
  MaxLost      \* bound on the ledger commits that fail

ASSUME BatchedAssumption == /\ Batches \in Nat \ {0}
                            /\ MaxWorkers \in Nat \ {0} /\ MaxLost \in Nat

Batch == 1..Batches  \* in the order run_batches submits them

VARIABLES
  at,        \* where a batch is
  result,    \* what its future holds
  stop,      \* the stop event
  entered,   \* the run's InvokeMark
  ledger,    \* the committed llm_calls row of a batch
  calls,     \* history: the batches whose provider call was made
  lost,      \* how many commits of the ledger have failed
  gate,      \* the run at the redaction gate: open, refused or over
  sent,      \* whether a payload of the run has cleared the gate
  told,      \* sent_before of the refusal that ended the run at the gate
  job,       \* where the job's thread is
  cause,     \* what made run_batches raise
  seen,      \* the verdict on the charge, as far as the job has made it
  collected, \* the futures the collector has read
  run,       \* the run's row: its status and charged_likely
  clock,     \* 0: in time; 1: past the deadline; 2: past lock_until
  crashed,   \* whether the process has died
  badKey     \* whether the provider rejects the stored key

workVars == <<at, result, stop, entered, ledger, calls, lost, gate, sent, told>>
jobVars  == <<job, cause, seen, collected, run>>
vars     == <<workVars, jobVars, clock, crashed, badKey>>

Charge == {"unset", "yes", "no", "unknown"}

AtWorker == {"dequeued", "checking", "redacting", "cleared", "inflight",
             "closing", "reporting"}

TypeOK ==
  /\ at \in [Batch -> AtWorker \cup {"queued", "cancelled", "done", "dead"}]
  /\ result \in [Batch -> {"none", "answer", "error", "rejected", "refused",
                           "not_sent"}]
  /\ ledger \in [Batch -> {"none", "running", "failed", "completed"}]
  /\ calls \in SUBSET Batch /\ collected \in SUBSET Batch
  /\ gate \in {"open", "refused", "over"}
  /\ lost \in 0..MaxLost
  /\ {stop, entered, sent, told, crashed, badKey} \subseteq BOOLEAN
  /\ job \in {"collecting", "stopping", "raised", "judging", "ending",
              "applying", "finally", "closed", "dead"}
  /\ cause \in {"none", "deadline", "refused", "error", "interrupt"}
  /\ seen \in Charge
  /\ run \in [status : {"RUNNING", "COMPLETED", "FAILED"}, charged : Charge]
  /\ clock \in 0..2

Init ==
  /\ at = [b \in Batch |-> "queued"]
  /\ result = [b \in Batch |-> "none"]
  /\ stop = FALSE /\ entered = FALSE
  /\ ledger = [b \in Batch |-> "none"]
  /\ calls = {} /\ collected = {} /\ lost = 0
  /\ gate = "open" /\ sent = FALSE /\ told = FALSE
  /\ job = "collecting" /\ cause = "none" /\ seen = "unset"
  /\ run = [status |-> "RUNNING", charged |-> "unset"]
  /\ clock = 0 /\ crashed = FALSE
  /\ badKey \in BOOLEAN

Goto(b, l) == at' = [at EXCEPT ![b] = l]

\* The batch's future is resolved; its worker takes another.
Resolve(b, r) == Goto(b, "done") /\ result' = [result EXCEPT ![b] = r]

---------------------------------------------------------------------------
(* A batch on its worker: _one, and LLMClient.invoke in it.                *)

\* The executor's queue is served in the order of submission.
Dequeue(b) ==
  /\ at[b] = "queued" /\ ~crashed
  /\ \A earlier \in 1..(b - 1) : at[earlier] # "queued"
  /\ Cardinality({o \in Batch : at[o] \in AtWorker}) < MaxWorkers
  /\ Goto(b, "dequeued")
  /\ UNCHANGED <<result, stop, entered, ledger, calls, lost, gate, sent, told>>

\* Mutation of NoteEntered: the worker leaves the mark to invoke.
NoteNothing == UNCHANGED entered

NoteEntered == entered' = TRUE

\* The mark is made before the stop flag is looked at.
MarkRun(b) ==
  /\ at[b] = "dequeued"
  /\ NoteEntered
  /\ Goto(b, "checking")
  /\ UNCHANGED <<result, stop, ledger, calls, lost, gate, sent, told>>

CheckStop(b) ==
  /\ at[b] = "checking"
  /\ IF stop THEN Resolve(b, "not_sent")
             ELSE Goto(b, "redacting") /\ UNCHANGED result
  /\ UNCHANGED <<stop, entered, ledger, calls, lost, gate, sent, told>>

\* invoke marks the run again and redacts: the payload clears, or the gate
\* refuses the run (the first refusal says whether anything was sent), or the
\* work raises before it reaches a provider.
Redact(b) ==
  /\ at[b] = "redacting"
  /\ entered' = TRUE
  /\ \/ /\ gate = "open"
        /\ sent' = TRUE
        /\ Goto(b, "cleared")
        /\ UNCHANGED <<result, gate, told>>
     \/ /\ gate = "open"
        /\ gate' = "refused" /\ told' = sent
        /\ Resolve(b, "refused")
        /\ UNCHANGED sent
     \/ /\ gate # "open"
        /\ Resolve(b, "refused")
        /\ UNCHANGED <<gate, sent, told>>
     \/ Resolve(b, "error") /\ UNCHANGED <<gate, sent, told>>
  /\ UNCHANGED <<stop, ledger, calls, lost>>

\* The worker holds no transaction, so the RUNNING row is committed first.
OpenRow(b) == ledger' = [ledger EXCEPT ![b] = "running"]

LoseCommit == lost < MaxLost /\ lost' = lost + 1

\* A row that cannot be committed stops the call.
CallProvider(b) ==
  /\ at[b] = "cleared"
  /\ \/ /\ OpenRow(b)
        /\ calls' = calls \cup {b}
        /\ Goto(b, "inflight") /\ UNCHANGED <<result, lost>>
     \/ /\ LoseCommit
        /\ Resolve(b, "error") /\ UNCHANGED <<ledger, calls>>
  /\ UNCHANGED <<stop, entered, gate, sent, told>>

\* A call may answer, fail, or hang for ever.
ProviderEnds(b) ==
  /\ at[b] = "inflight"
  /\ \E r \in IF badKey THEN {"rejected"} ELSE {"answer", "error"} :
       result' = [result EXCEPT ![b] = r]
  /\ Goto(b, "closing")
  /\ UNCHANGED <<stop, entered, ledger, calls, lost, gate, sent, told>>

\* What happened, written over what a reap may have written meanwhile.
Outcome(b) == IF result[b] = "answer" THEN "completed" ELSE "failed"

\* _finish; a commit that fails is what the batch then raises, over an answer or
\* the provider's own error, and leaves the row as it was.
CloseRow(b) ==
  /\ at[b] = "closing"
  /\ \/ ledger' = [ledger EXCEPT ![b] = Outcome(b)] /\ UNCHANGED result
        /\ UNCHANGED lost
     \/ /\ LoseCommit
        /\ result' = [result EXCEPT ![b] = "error"] /\ UNCHANGED ledger
  /\ Goto(b, "reporting")
  /\ UNCHANGED <<stop, entered, calls, gate, sent, told>>

\* Mutation of StopOnRejection: the stop is left to the collector.
NeverStop(b) == UNCHANGED stop

\* Set by the worker, before its future is resolved and it takes another batch.
StopOnRejection(b) == stop' = (stop \/ result[b] = "rejected")

\* The rest of _one. Its own commit may fail after an answer: a failed batch.
Report(b) ==
  /\ at[b] = "reporting"
  /\ StopOnRejection(b)
  /\ \/ Resolve(b, result[b]) /\ UNCHANGED lost
     \/ result[b] = "answer" /\ LoseCommit /\ Resolve(b, "error")
  /\ UNCHANGED <<entered, ledger, calls, gate, sent, told>>

Work(b) == /\ \/ Dequeue(b) \/ MarkRun(b) \/ CheckStop(b) \/ Redact(b)
              \/ CallProvider(b) \/ ProviderEnds(b) \/ CloseRow(b) \/ Report(b)
           /\ UNCHANGED <<jobVars, clock, crashed, badKey>>

---------------------------------------------------------------------------
(* The job's thread: the collector of run_batches, and the end of _execute. *)

Raised(why) == /\ job' = "stopping" /\ cause' = why
               /\ UNCHANGED <<seen, collected, run, workVars>>

\* Mutation of RefusalFailsRun: a refusal costs its batch, like any failure.
RefusalCostsBatch(b) == FALSE

\* A refusal by the gate is the run's, not one batch's.
RefusalFailsRun(b) == result[b] = "refused"

Collect(b) ==
  /\ job = "collecting" /\ at[b] = "done" /\ b \notin collected
  /\ IF clock >= 1 THEN Raised("deadline")
     ELSE IF RefusalFailsRun(b) THEN Raised("refused")
     ELSE /\ collected' = collected \cup {b}
          /\ UNCHANGED <<job, cause, seen, run, workVars>>

\* Mutation of TimesOut: as_completed without a timeout.
WaitsForAll == FALSE

\* as_completed has only the time that is left.
TimesOut == clock >= 1

DeadlinePasses ==
  /\ job = "collecting" /\ collected # Batch
  /\ TimesOut
  /\ Raised("deadline")

\* Anything else raised on the job's thread while it waits.
Interrupt == job = "collecting" /\ Raised("interrupt")

\* Mutation of SetStop: only the queue is cancelled.
CancelOnly == UNCHANGED stop

SetStop == stop' = TRUE

\* The stop flag, then cancel_futures: what no worker has taken is cancelled.
StopAndCancel ==
  /\ job = "stopping"
  /\ SetStop
  /\ at' = [b \in Batch |-> IF at[b] = "queued" THEN "cancelled" ELSE at[b]]
  /\ job' = "raised"
  /\ UNCHANGED <<result, entered, ledger, calls, lost, gate, sent, told>>
  /\ UNCHANGED <<cause, seen, collected, run>>

Answers == {b \in collected : result[b] = "answer"}

\* Nothing usable came back, and something failed: the run fails as a whole.
NothingUsable == Answers = {} /\ \E b \in collected : result[b] # "not_sent"

Gather ==
  /\ job = "collecting" /\ collected = Batch
  /\ IF NothingUsable THEN job' = "raised" /\ cause' = "error"
                      ELSE job' = "applying" /\ UNCHANGED cause
  /\ UNCHANGED <<seen, collected, run, workVars>>

HasRow == \E b \in Batch : ledger[b] # "none"

\* What the ledger says, and the mark where it says nothing.
ChargedLikely == IF HasRow THEN "yes" ELSE "unknown"

\* The apply and the compare-and-swap of _execute, or an apply that raises.
Apply ==
  /\ job = "applying"
  /\ \/ /\ run' = IF run.status # "RUNNING" THEN run
                  ELSE [status |-> "COMPLETED",
                        charged |-> IF HasRow \/ entered THEN ChargedLikely
                                    ELSE "no"]
        /\ job' = "finally" /\ UNCHANGED cause
     \/ job' = "raised" /\ cause' = "error" /\ UNCHANGED run
  /\ UNCHANGED <<seen, collected, workVars>>

\* _charged_likely_after: a refusal before anything was sent charges nothing;
\* otherwise the ledger is read, and then the mark.
JudgeLedger ==
  /\ job = "raised"
  /\ IF cause = "refused" /\ ~told
     THEN seen' = "no" /\ job' = "ending"
     ELSE seen' = ChargedLikely /\ job' = "judging"
  /\ UNCHANGED <<cause, collected, run, workVars>>

JudgeMark ==
  /\ job = "judging"
  /\ seen' = IF seen = "unknown" /\ ~entered THEN "no" ELSE seen
  /\ job' = "ending"
  /\ UNCHANGED <<cause, collected, run, workVars>>

EndFailed ==
  /\ job = "ending"
  /\ run' = IF run.status # "RUNNING" THEN run
            ELSE [status |-> "FAILED", charged |-> seen]
  /\ job' = "finally"
  /\ UNCHANGED <<cause, seen, collected, workVars>>

\* release_run: the gate is closed to whatever batch is still on its way.
ReleasePlace ==
  /\ job = "finally"
  /\ gate' = "over"
  /\ job' = "closed"
  /\ UNCHANGED <<at, result, stop, entered, ledger, calls, lost, sent, told>>
  /\ UNCHANGED <<cause, seen, collected, run>>

JobSteps == /\ \/ \E b \in Batch : Collect(b)
               \/ DeadlinePasses \/ StopAndCancel \/ Gather \/ Apply
               \/ JudgeLedger \/ JudgeMark \/ EndFailed \/ ReleasePlace
            /\ UNCHANGED <<clock, crashed, badKey>>

---------------------------------------------------------------------------
(* The environment: time, a restart, and the reads that reap.              *)

Tick == /\ clock < 2
        /\ clock' = clock + 1
        /\ UNCHANGED <<workVars, jobVars, crashed, badKey>>

\* The process dies: its threads are gone, what was committed stays.
Crash ==
  /\ ~crashed
  /\ crashed' = TRUE
  /\ at' = [b \in Batch |-> IF at[b] \in {"done", "cancelled"} THEN at[b]
                            ELSE "dead"]
  /\ job' = "dead"
  /\ gate' = "over"
  /\ UNCHANGED <<result, stop, entered, ledger, calls, lost, sent, told>>
  /\ UNCHANGED <<cause, seen, collected, run, clock, badKey>>

\* reap: of a run with no job, or past lock_until. It ends the RUNNING rows of
\* the ledger with the run.
Reap ==
  /\ run.status = "RUNNING" /\ (crashed \/ clock = 2)
  /\ run' = [status |-> "FAILED", charged |-> ChargedLikely]
  /\ ledger' = [b \in Batch |-> IF ledger[b] = "running" THEN "failed"
                                ELSE ledger[b]]
  /\ gate' = "over"
  /\ UNCHANGED <<at, result, stop, entered, calls, lost, sent, told>>
  /\ UNCHANGED <<job, cause, seen, collected, clock, crashed, badKey>>

Interrupted == Interrupt /\ UNCHANGED <<clock, crashed, badKey>>

Next == \/ \E b \in Batch : Work(b)
        \/ JobSteps \/ Interrupted
        \/ Tick \/ Crash \/ Reap

Spec == Init /\ [][Next]_vars

\* Time passes and the job's thread runs. No worker, provider or read is
\* assumed to make progress.
FairSpec == Spec /\ WF_vars(Tick) /\ WF_vars(JobSteps)

---------------------------------------------------------------------------
(* Properties.                                                             *)

\* The comment on the stop flag: a rejected key costs at most one call per
\* worker, not one per batch. A ledger commit that fails while a rejected call
\* is closed masks the rejection, and costs one call more.
BadKeyCostsOnePerWorker == badKey => Cardinality(calls) <= MaxWorkers + lost

\* A run completes with at least one answer, and never if the redaction gate
\* refused any batch of it.
WholeOrFailed ==
  run.status = "COMPLETED" =>
    (\E b \in Batch : result[b] = "answer") /\ \A b \in Batch : result[b] # "refused"

\* What is recorded of the calls is true, whoever stopped or ended the run
\* meanwhile. A run that says it was not charged has made no provider call, and
\* no batch still on its way makes one later. Egress leaves evidence that a
\* crash cannot take: its row is committed before the call. The row of a
\* finished call says that it completed if the batch has its answer, and only
\* then.
RecordsAreTrue ==
  /\ run.charged = "no" => calls = {}
  /\ \A b \in calls :
       /\ ledger[b] # "none"
       /\ at[b] = "reporting" => (ledger[b] = "completed" <=> result[b] = "answer")

\* Once the job has stopped listening, no batch still on its way begins.
NothingStartsUnheard ==
  [][\A b \in Batch : at[b] = "checking" /\ at'[b] = "redacting"
                      => job \in {"collecting", "stopping"}]_vars

\* A provider that hangs cannot hold a run: the run ends by its deadline, with
\* no help from a read.
RunEnds == <>(run.status # "RUNNING" \/ crashed)

=============================================================================
