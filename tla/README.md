# TLA+ models of the SHIELD api

SHIELD is a multi-tenant assessment platform: a FastAPI service
(`src/apps/api/app`), a Next.js web client (`src/apps/web`) and a Postgres
database (SQLite in CI).  Consultants run four assessment services for a client
(Tech Debt, Zero Trust, NIST CSF, ATT&CK coverage), synthesize a Risk Register
from them, let a language model draft parts of the work behind a redaction
boundary, and release deliverables to the client.

This directory models the parts of the api where interleavings, failures and
restarts decide whether it is correct.  TLC checks the models on small
instances; TLAPS proves every safety property, and the refinements, for every
value of the constants.
Paths below are relative to `src/apps/api/app` unless they say otherwise.

- [Inventory](#inventory)
- [Modules](#modules)
- [Runs](#runs)
- [Fairness](#fairness)
- [Proofs](#proofs)
- [Where code and comments part](#where-code-and-comments-part)
- [Not modelled](#not-modelled)
- [Plan](#plan)

## Inventory

One api process serves every tenant: threads of a request pool, background jobs
started by requests, and inside a job a pool of worker threads.  `ai/runs.py`
states the one-process precondition and depends on it.  State is in three
places: the database (READ COMMITTED; sessions do not autoflush), the memory of
the process (live runs, redaction places and slots, stop flags), and Redis (rate
limits).  Requests lock rows explicitly in `routes/risk.py` only; everything else
relies on conditional UPDATEs, on unique and partial unique indexes, or on
nothing at all.

| Component | State | Operations | Interacts with | What is hard | What makes it correct |
|---|---|---|---|---|---|
| Run-AI framework: `ai/runs.py`, `models/ai_run.py`, `routes/ai_runs.py` | `ai_runs` rows (RUNNING → COMPLETED or FAILED), the live set, `BOOT_ID` | `start_run`, `running_run`, `refuse_while_running`, `reap`, `_execute` | every service's Run-AI route; `isolation.release_run`; the job's apply, which commits with the run | two first POSTs; a reap against a completion; late jobs; restarts; a commit that raises; a lost hand-off | one running run per purpose; a run applies exactly when it completes; nothing working is ended as orphaned; the lock comes back |
| Redaction boundary: `ai/isolation.py` | places per run, FIFO child slots, refusals, a bounded memory of ended runs | `redact_payload_isolated`, `redaction_scope`, `release_run` | `LLMClient.invoke` calls it before any egress; runs end it | grant against timeout; refusal of one batch against a sibling's answer; end of a run under a redacting call | what a refusal says was sent is true; a refused or ended run clears nothing more; slots and places come back |
| Batched runs and the LLM client: `ai/batching.py`, `ai/llm.py` | futures, a stop flag, an invoke mark, the `llm_calls` ledger | `run_batches`, `invoke` | runs, redaction, the provider | a deadline over a hung call; a rejected key; a failed commit of the ledger; a reap under an open call | a run that says "not charged" made no call; egress leaves evidence; a refused run is never applied in part; the run ends |
| CSF lifecycle: `routes/csf.py`, `models/csf_assessment.py` | assessment versions with a status, rows, deliverables | create, answer, client answer, score, submit, approve, discard, finalize, Run-AI | revisions, release, runs (the edit lock) | every pair of requests with read and commit apart | one draft, the newest; settled work is never destroyed; reports stand on approval |
| Start a revision: `services/revisions.py` | a new version copied from an approved or released one | `decide_revision`, `start_revision` | the four services | the race for the one-draft index | as above |
| Deliverable release: `deliverable_release.py` | `released_at`, the parent's status | `release_deliverable`, `_release_parent` (with guards) | the four services; e-mail | the flip of the parent against every other status change; a repair after a half-done release | the report is with the client exactly when its parent says so |
| Zero Trust and ATT&CK assessments: `routes/zt.py`, `routes/attack.py`, `attack/*`, `zt/*` | as CSF; for ATT&CK also citations to confirm, computed statuses and their review | as CSF, and confirm, review | as CSF | as CSF; a run against an approval; a review that has gone stale; an old report released | what is released is what was sent, and was reviewed; approved rows stand |
| Figures: `attack/computed.py`, `attack/analytics.py`, `csf/playbook.py`, `csf/enterprise.py`, `zt/scoring.py`, `tech_debt/overlap.py` | none: functions of the rows | – | every report and dashboard, and the Risk Register | two surfaces that compute one figure; ordered rules; rounding down at a cap | bounds are bounds; surfaces agree; nothing is counted twice |
| ATT&CK what-ifs: `routes/attack_scenarios.py`, `attack/scenario.py` | a change list pinned to a confirmed assessment, the rows of its one run | create, run, discard, read | runs (a purpose that takes no edit lock); the confirmed assessment; the client's tools | the run id is recorded after the run has started, by requests that joined it too; removed tools the model cites in another spelling | a result names its run; a removed tool is never credited; what was set aside or answered stands |
| Capability lists: `routes/tech_debt.py`, `models/capability.py` | a list with `revision` and `approved_revision`, its rows | extract, edit, approve, finalize, release, discard | release guards, runs | edits against approve, finalize and release | what was approved is what is released |
| Risk Register: `routes/risk.py`, `risk/*` | a chain of register versions (`superseded_by`), entries and ratings | generate, rate, export, publish, archive a duplicate | reads all four services | generate against generate, rate and publish; row locks | a published file is the register and comes from released work; no rating is lost unnamed |
| Accounts and sessions: `routes/auth.py`, `security/*` | refresh identities, failed-login counter, single-use tokens | login, refresh, reset, verify, logout | rate limiter, mail | refreshes of several tabs at once | exactly one rotates, the others converge |
| Rate limiter: `security/rate_limit.py` | counters in Redis | `check` | auth and Run-AI routes | the boundary of the window; an unreachable store | no counter outlives its window |
| Intake and administration: `routes/intake.py`, `admin.py`, `clients.py` | clients, service requests, services | submit, publish a request, archive | Risk Register's inputs | two publishes of one request | one service per request |
| Stages: `services/stages.py` | none | `derive_stages` | every workspace | every combination of evidence | finished stages form a prefix |
| Messages, notifications, audit | appended rows | create, mark read | the caller's transaction | none of their own | they stand or fall with the change they record |
| Artifacts and storage; exporters; catalogues; web client; migrations | objects, documents, data, browser state, schema | – | – | – | – |

`PROJECT.json` lists every component with its files and status, and under
`hazards` the lines where each thing that is hard to test would bite.

## Modules

| Module | Is |
|---|---|
| `RunLock`, `RedactionGate`, `ReviewedDoc` | abstract: what a component promises those that use it |
| `AiRuns`, `FifoSlots`, `Isolation`, `BatchedRun` | the run framework and what its runs go through |
| `CsfLifecycle`, `CapabilityList`, `AssessmentReview`, `AttackScenarios`, `RiskRegister` | what consultants and clients work on, one database transaction at a time |
| `ComputedStatus`, `CsfRollup`, `ZtTargets`, `LicenseCount`, `ScenarioDelta` | pure: figures as operators; no variables |
| `Figures` | composes four of the pure modules over rows that are edited; `AttackScenarios` extends the fifth |
| `*_proofs` | theorems, one module per component; `FiguresAndScenarios_proofs` is about `Figures` and `AttackScenarios`, which share `ComputedStatus` |
| `MC*` | instances for TLC |

`Isolation` extends `FifoSlots` and refines `RedactionGate`; `AiRuns` refines
`RunLock`; `CapabilityList` refines `ReviewedDoc`, each of its lists being a
document.  `BatchedRun` and the lifecycles take a component they use as what its
abstract module says of it: the redaction boundary as open, refused or over; a
run as something that begins, and applies everything with its completion or
nothing.

A step is what no other thread or transaction can divide.  In database code that
is a read, or a write with the commit it leads to: an UPDATE takes the row lock
and keeps it until the commit, so for every other writer of the row the two are
one.  In `isolation.py` it is one hold of a lock.  Where the code reads in one
statement and writes in another, the model has two actions and everything else
in between.  Where a request is refused and changes nothing, the step is not
enabled.

### AiRuns (`ai/runs.py`), RunLock

One service.  `runs` is the table, `live` the live set, `job` where each
background job is, `place` the redaction place as far as this file moves it,
`req` the request threads.  "PENDING" is not a status of the code: it is a row
flushed and not yet committed, which only the unique index sees.

| Action | Code |
|---|---|
| `Post`, `ReapRead`, `ReapDecide`, `ReapUpdate`, `Lookup`, `Insert`, `LostRace`, `CommitStart`, `HandOff` | `start_run`, with `running_run` and `reap` inside it |
| `Read`, then `ReapRead` … `Lookup` | the status read and `refuse_while_running` |
| `JobAdmit`, `JobComplete`, `JobRaise`, `JobFail`, `JobFinish` | `_execute`: first payload, compare-and-swap with the apply, the `except`, the `finally` |
| `Tick`, `Restart` | the clock; the process dies (live set, jobs, places and uncommitted rows are gone) and boots |

Faults are inside the actions: a commit that raises (having kept the row or
not), a request that dies before the hand-off, a session whose close raises.
`reap` decides and updates row by row; the model decides for all rows read and
then updates all of them, which is the same because a verdict depends on no
other row and no purpose has two running rows.

`RunLock` has neither processes nor time: a lock per purpose, taken while free,
given back once, with everything the run wrote or nothing.  `ImplementsRunLock`
is the refinement; the lock's holder is the RUNNING row of the purpose.

### FifoSlots, Isolation (`ai/isolation.py`), RedactionGate

`FifoSlots` is the class of that name: `wait` is two steps (before and after the
event), so a timeout can race the release that grants the same ticket.
`Isolation` extends it with the places.  A member of `Call` is one call of
`redact_payload_isolated`; `RunOf` gives its key: a run (or a `redaction_scope`)
or, outside both, the call itself, whose place lives as long as the call.

| Action | Code |
|---|---|
| `Admit` | `_admit`, in its order: the run's place, the refusal remembered, the run remembered as ended, a full platform |
| `WaitForSlot`, `WakeUp`, `NoSlotInTime` | `FifoSlots.wait` and the refusal of a call that got no slot |
| `LookBeforeChild`, `ChildEnds`, `GiveBackSlot`, `Settle` | `_redact_in_place`: the two looks at the run's refusal, the child's answer, the slot's release |
| `CloseCall`, `EndRun` | `_release`, for a call's own place and for `release_run` |

`RedactionGate` knows only, for each run, whether it is open, refused with
nothing sent, refused part-way or over, and how many payloads cleared.
`ImplementsGate` is the refinement.

### BatchedRun (`ai/batching.py`, `ai/llm.py`, the end of `_execute`)

One live run whose work is batched.  `at` and `result` are the batches and their
futures; the executor serves its queue in the order of submission and
`MaxWorkers` at a time.  The job's thread collects, stops, judges the charge and
ends the run.  The redaction boundary appears as what `RedactionGate` says of
one run: open, then refused or over.  `clock` has the three values that matter
(in time, past the deadline, past `lock_until`).

| Action | Code |
|---|---|
| `Dequeue`, `MarkRun`, `CheckStop`, `Report` | `_one` and the pool |
| `Redact`, `CallProvider`, `ProviderEnds`, `CloseRow` | `LLMClient.invoke`, its ledger row committed before and after the call |
| `Collect`, `DeadlinePasses`, `Interrupt`, `StopAndCancel`, `Gather` | `_collect` and the handlers of `run_batches` |
| `Apply`, `JudgeLedger`, `JudgeMark`, `EndFailed`, `ReleasePlace` | `_execute`, `_charged_likely_after`, `release_run` |
| `Crash`, `Reap`, `Tick` | the process, a read that reaps, the clock |

### CsfLifecycle (`routes/csf.py`, `services/revisions.py`, `deliverable_release.py`)

One service.  `recs` are its versions: a status, the version it revises, and a
count of the writes to its rows, which is what the rows' content is abstracted
to.  `delivs` are deliverables with their parent; `run` is the CSF Run-AI, whose
framework is `AiRuns`; `req` holds, per request thread, what it has read.  `late`
is no state of the code: it remembers which statuses a client's submission
overwrote that were not drafts.

Every operation is a read action (`CreateRead`, `ReviseRead`, `EditRead`,
`SubmitRead`, `ApproveRead`, `DiscardRead`, `FinalizeRead`, `ReleaseRead`,
`RunRead`) and a write action (`Mint` then `Insert`, `EditWrite`, `SubmitWrite`,
`ApproveWrite`, `DiscardWrite`, `FinalizeWrite`, `ReleaseWrite`, `RunStart`).
Which of them take the edit lock, and which of the UPDATEs carry a condition, is
as in the code: `approve` and `discard` are compare-and-swaps, `submit` is an
assignment, a PATCH updates its row only.

The submission, which asks for no status as it writes, can undo an approval, a
release or a discard (`csf_late_submit`).  `ReleasedTogether`, `BuiltOnApproval`
and `ClientKeepsReport` hold of everything else, and exempt exactly the versions
in `late`.

### CapabilityList (`routes/tech_debt.py`), ReviewedDoc

The lists of one Tech Debt service, their rows, and their deliverables.  A row
is what the review decides of it: undecided, kept, excluded and whether the
exclusion is confirmed, signed or overridden, split.  An edit loads its row, and
takes the lock of the list by its UPDATE of `revision` as it commits; so
`EditCommit` is one step, and carries what `EditRead` loaded.  The bulk edits
judge the rows under that lock.  Approval is three steps (`ApproveBuild`,
`ApproveJudge`, `ApproveCommit`) and so is a release (`ReleaseJudge`,
`ReleaseFlip`, `ReleaseHandOver`), because a conditional UPDATE judges other
tables as of its start and, having waited for the list's row, that row anew.

`ReviewedDoc` knows documents that are open, released or discarded, a content,
and the content last approved.  A release needs the content to be ready and
exactly what was approved; nothing changes afterwards.

### AssessmentReview (`routes/zt.py`, `routes/attack.py`)

One version of a Zero Trust or an ATT&CK assessment; the two kinds share the
actions and differ in guards and in what their content is: stages, or the
computed statuses.  A row is one scored unit, with its stored status, its tools
and whether their citations wait for a review, and the computed status a
consultant has accepted.

| Action | Code |
|---|---|
| `PatchRead`, `SelfRead`, `ConfirmRead`, then `EditWrite` | the PATCH of a row, the client's answer, the confirmation of citations |
| `ReviewRead`, `ReviewWrite` | the review of computed statuses |
| `SubmitRead`/`Write` … `FinalizeRead`/`Write` | as in `CsfLifecycle` |
| `ReleaseRead`, `ReleaseQueue`, `ReleaseWrite` | the release: the parent is read; for ATT&CK the review queue is computed from a SELECT of its own (`blocking_condition`) and only its answer goes into the flip; the flip is one UPDATE, for Zero Trust with `_zt_release_guard` in its WHERE |
| `RunRead`, `RunStart`, `RunBegins`, `RunRechecks`, `RunCommit`, `RunFails` | a Run-AI from the request to the commit of its apply |

Abstracted: the stored status of parents, which their children compute; the
catalog's version, and with it the refusal of an approval with techniques
outside the subset; reason codes and "not verified".  Which rows a run leaves
alone (locked, protected, not sent, not answered) is folded into "any".  The
edits a consultant commits while a run works are skipped by its apply up to its
re-read, as in the code.

Nothing keeps one operation from being under way beside another, and no write but
the flip asks anything of the assessment again, so a request can land on what has
been approved, reviewed or rendered since it read.  The properties say that this
is all that can go wrong.  Two histories record where it does: `late` has "rows"
once the rows of approved work were written by an edit older than the approval,
or by a run the approval did not see, and "queue" once computed statuses may have
begun to wait for a review behind the look a release took at them; a report's
`asof` is the approval it was rendered under, beside `at`, the one it was stored
under, of which its `finalized_at` is the record.  `ReleasedIsWhatWasSent` and
`ReleasedIsReviewed` exempt what these record and nothing else.

In `assessment_review` two consultants may each do everything, and the client
answers and submits beside them.  It has one row: the rows do not read each other,
and what a status change, a render or a look at the queue says of an assessment it
says row by row.  `assessment_late_edit` has two rows.

### RiskRegister (`routes/risk.py`)

The registers of one client over its services, and the assessments they are drawn
from.  An assessment is worked on by requests of the services' own workspaces:
`ReadInput` reads the status of a version and decides, and `EditInput`,
`SubmitInput` or `ReviseInput` writes later without asking it again, so that an
edit may land in a version approved or released by then and a submission may take
one back to SUBMITTED; `ApproveInput`, `ReleaseInput` and `DiscardInput` are
UPDATEs that ask the status they change.  `late` counts, per version, the writes
that so reached one past its approval, and a register's `asof` what that count was
when it read the version: `PublishedIsReleasedWork` exempts an input whose count
has moved.  A publish compares the version, the status and, for CSF alone, a
fingerprint of the rows (`Fingerprinted`).  Left out of the workspaces are their
refusals while a run works, a second assessment created blank beside the first,
and the discard of the first, after which a service has nothing to draw from.

This module's routes are the one place with
explicit row locks: `FOR UPDATE` on the prior register in a generate, `FOR SHARE`
in an edit, `FOR UPDATE` in export and publish, on the client's row in an
archive.  A generate is `GenerateSources`, `GenerateCurrent`, `GenerateFindings`,
`GenerateInsert`, `GenerateCarry`, `GenerateCommit`, in the order of its reads,
its model calls, its two flushes and its commit; an object the session has
loaded is not read again.  An edit is `EditLoad`, `EditLock`, `EditSwap`;
export and publish are `ReadLatest`, `Render`, `Store`.

### AttackScenarios, ScenarioDelta (`routes/attack_scenarios.py`, `attack/scenario.py`)

The what-ifs of one service.  `scens` holds for each its state, the confirmed
version it is pinned to, its change list, the run it names, and the answers that
were credited; `runs` the runs of the purpose with their jobs; `base` and `tools`
what they read of the assessments and of the capability lists, which change under
them.  `RunRead`, `StartRun`, `RecordRun` are the request; `JobLoad`, `JobCheck`,
`JobCommit` the job, which the web framework starts after the response, hence
after the record of the request that started it, though not of those that joined.

`ScenarioDelta` has the arithmetic: which names a removal covers (as stored, or
as the redactor shows them), the functions lost and those an added tool opens,
which row of an answer is credited to which tool, the lists after the change, and
the two causes of a rise.  A tool's name and its redacted form are model values;
`Shown` maps one to the other.

### Figures, over ComputedStatus, CsfRollup, ZtTargets, LicenseCount

A service is of one kind, and a step is the commit of one edit of its rows.  The
figures are pure, so nothing but the rows is kept; the state space is the set of
inputs.  `EnterpriseIsFloor` allows the one exception the Playbook documents
(rule 5).  It makes the level non-monotonic: with HIGH 3 and MODERATE 2, raising
LOW from 1 to 2 lowers Enterprise from 3 to 2; the property therefore bounds the
level by its tiers and does not claim that better rows score higher.
`FigureInit` has a service as it is created, with its rows seeded; a Zero Trust
assessment may also be an old one, whose rows hold numbers stored before the
routes had their guards: the retired DoD stage 0, a stage above what its
capability defines, a target on no ladder (`Stored`).  No constraint of the
database excludes them, and the assessment and the Risk Register read them by two
rules: `_validated` takes what is off the ladder for no number at all, the
register applies it as it is.  `RegisterFindsTheGaps` says where the two still
agree, and what exactly differs over such rows.  `FigureNext` are the edits (`EditTechnique`, `EditTier`, `EditAnswer`, `EditCapability`,
`AddItem`, `Split`, `EditItem`), each open to a service of its kind.

## Runs

| Run | Instance | Shows |
|---|---|---|
| `runs_race` | 2 runs, 2 POSTs, 1 purpose, 2 subjects, both modes, 1 tick, 1 restart | no working job is ended as orphaned; a request is handed a run of its subject, and a live one only if it asked for live; places are held only when needed; the refinement of `RunLock` |
| `runs_live` | 1 run, 2 purposes of which one takes no edit lock, 1 POST thread, 1 reader, deadline 1, margin 1, clock to 3, 1 restart, 2 faults | the inductive invariant; a run ends once and not before its time; the edit lock always comes back; nobody is told "locked" by a run that nothing executes |
| `redaction_mixed` | 2 batches of a run and a call of its own, 1 place, 1 slot | what a refusal says was sent is true and said once; places come back; slots conserved and served in turn; a call that begins ends; the refinement of `RedactionGate`, by which a refused or ended run clears nothing more |
| `batches_pool` | 3 batches, 2 workers, 1 failed commit, deadline, restart, reap, a good or a rejected key | the charge and the ledger tell the truth; a refused run is not applied; a rejected key costs one call per worker; nothing begins unheard; the run ends |
| `csf_lifecycle` | 2 requests at a time, 2 versions, 2 deliverables, 1 row write; every operation | the inductive invariant; report and parent are released together; reports and revisions stand on approval; what the client was shown is not rolled back |
| `csf_late_submit` | 2 requests, 1 version | a violation: see below |
| `capability_review` | 2 requests, a row and a part of it, 1 list, 3 revisions, 2 deliverables; every operation | no report shows an undecided row; the refinement of `ReviewedDoc` |
| `assessment_review` | 2 consultants who do anything and the client, 1 row, 2 deliverables, 2 approvals, both kinds | what is released is what was sent, and was reviewed, but for late writes and reports stored under a later approval; approved rows move by an overtaken edit or an unseen run alone |
| `assessment_late_edit` | 2 consultants, 2 rows, ATT&CK | a violation: see below |
| `risk_publish` | 2 requests at a time; 3 of them over 2 services of one kind or two, or 2 while the assessment of one service is worked on, in up to 2 versions; 2 registers | the published file is the register, drawn from released work that only a late write has touched; ratings carried or named; an unsent field stays; a kind stays engaged |
| `attack_scenarios` | 2 what-ifs, 2 requests, 2 runs, 2 techniques, 6 tools, 2 bases | a result names its run and stands; removed tools are not credited, and rises have their cause |
| `figures` | a service of each kind: 2 techniques and their parent, 2 tools; 3 tiers; 2 capabilities, their stages and targets new or stored before the guards; 3 rows of a list | bounds are bounds, surfaces agree or differ as said, nothing counts twice |

Why the bounds are enough.

- Two of everything that races: the properties of the concurrent modules are
  broken by two threads and one moment between a read and a write.  A second run
  is the one that follows, or competes with, the first.
- Deadlines of 0 and a margin of 0 with one tick make "late" reachable in
  `runs_race`, before or after any step; `runs_live` keeps them apart (1 and 1).
- Three batches on two workers is the smallest pool that has a batch queued, one
  starting and one in flight; the memory of ended runs (`EndedMemory`) has one
  entry because there is one run to remember, 4096 in the code.
- Two versions allow a revision over a released version, and its discard.
- Two approvals and two deliverables are what it takes for a report to be older
  than the approval it is released under, rendered before it and stored after, or
  released after a late submission took the first approval back.  Two registers
  are a prior and its successor, or two successors of nothing.  Two runs are one that completes and
  one that was started as it did.
- The tools of `attack_scenarios` are one of each relation a name can have to a
  removed one: removed, stored as the removed one is shown, shown as the removed
  one is, unrelated, and added; its techniques have a rise of each cause.  One
  change list removes two tools and adds one; an answer names one technique.
- In `figures` two tools are confirmed and inferred, planned and not, in every
  combination over three capabilities; the tier rows have every level and every
  status of evidence; a list of three rows has a bundle with a part and another
  row.
- `Setting` of `risk_publish` splits its instance: the requests that race for the
  registers need three to generate, rate and publish, and the assessments they
  read are then released ones that stay; the work on an assessment needs one
  service (`Worked`), a CSF one from its draft (the fingerprint applies) or a Zero
  Trust one from its release (it does not), requests that read its first version
  as a draft and may write at any time (`Overdue`), and two further steps of its
  workspace, beside a generate and a publish.
- `Stored` holds the retired stage 0, a 3 that is above the maximum of a capability
  with no Advanced activities, and a 5 that is on no ladder.
- `SpareRunIds` lets a POST begin only while an identifier is left for it, so a
  full table never looks like a refusal.  `MaxClock`, `MaxBoot`, `MaxFault`,
  `MaxLost`, `MaxVersion`, `MaxRevision`, `MaxDelivs`, `MaxWrites`,
  `MaxApprovals`, `MaxRegs`, `MaxRecords`, `MaxContent`, `MaxOdd`, `MaxRun`,
  `MaxItems`, and the `requests` and `work` of a `Setting`, bound what the code does not.

Symmetry is used for values that no definition orders (run identifiers, requests,
rows, services, what-ifs), never in a run with a liveness property.  Deadlock is
checked in the runs of `AiRuns`, `Isolation` and `Figures`.  The other
configurations turn it off, because those systems do stop: a run and its process
end, and the bounds leave nothing to do.

Each property of a passing run is paired, in `PROJECT.json`, with a mutation of
one definition (a dropped condition, a missing mark, a wrong order; they stand
beside the definitions as "Mutation of …") under which TLC finds the property
violated.

## Fairness

- `AiRuns!FairSpec`: time passes, and a reader's reads and the steps of a read
  that has begun are taken.  The workspace polls a run until it is over
  (`components/admin/AiRunStatus.tsx` in the web client), and every other read of
  the service reaps as well.  Nothing is assumed of POSTs, jobs, providers or
  commits: the lock comes back although each of them may stop for ever.
- `Isolation!FairSpec`: a call that has begun goes on.  Slot waits time out
  (`shield_redaction_slot_wait_seconds`), and a child is killed at its budget
  (`shield_redaction_budget_seconds`), so no step of a call waits on another
  for ever.  Nothing makes a call begin or a run end.
- `BatchedRun!FairSpec`: time passes, and the job's own thread runs.  Workers
  and providers may hang.

## Proofs

Eight modules, beside the components; all obligations are discharged by SMT,
Zenon and LS4.  Each module says in its first comment what it proves.  Of the
properties the passing runs check, every safety invariant, action property and
refinement is a theorem; what is left, three liveness properties, is named under
[Only model-checked](#only-model-checked).

The proofs share a layout.  An invariant is written as what the tables say, and
what a request, a job or a call between two steps may take for granted of what
it read; that second half is where the interleavings are decided.  A lemma per
action shows the step keeps it, a lemma per property draws it from there, and the
theorem combines the two.  Nothing bounds the requests, runs, rows, versions or
faults; the `ASSUME` of a module types its constants, and what else it says is
given below.

### AiRuns and RunLock: `AiRuns_proofs`

Assumed: `RunsAssumption` (the constants are numbers and sets, `NoRun` is no run,
there is a purpose and a subject).

`RunSafety` proves `RunInv` inductive:

- `OneRunningPerPurpose` counts flushed rows with RUNNING ones, as the index does;
- `StartInv`: a request between its insert and its hand-off owns its run alone;
  the run is live, of this boot, and has no job yet;
- `JobInv`: a job belongs to a visible run of this boot, live until it closes;
- `ReapInv`: what a read has judged stays true until it updates.  This is what
  the live set is for: "orphaned" is only concluded of a run that is not live
  or not of this boot, so no request is about to hand it off and no job works
  on it, and neither can begin later, because a run enters the live set before
  it is visible and never re-enters it.  "Too late" stays true because the clock
  does not go back;
- `RowInv`: a row that says "orphaned" has no job at work;
- `AppliedIffCompleted`.

From it: `TypeCorrect`, `LockIsSingle`, `NothingAppliesLate`, `NoOrphanAtWork`,
and the action property `EndsOnce`.

`NoPlaceIsLeaked` needs a second invariant beside the first, `PlaceInv`:
while a run's place is neither taken nor given back, a job that could still
take it, or a request about to start that job, is that of a run in progress.
It holds because a reap gives the place back in the step that ends the run, and
isolation refuses a run it remembers as ended.

`PostGetsItsRun` (a request is handed a run of its subject and mode) needs a
third, `HandInv`: the row a request has flushed keeps the input it was inserted
with, since no other request can flush that row, and a visible row never changes
its input.

`LockedIsExecuted` needs a fourth, `LookInv`, of states in which no commit has
failed: a run of this boot is in the live set until it is over, and a read that
has passed its SELECT has read, then judged, every run of a former boot, and has
none left when it looks.  "Too late" is no hypothesis of it: a run this process
executes may be overdue and still be what the read reports.

`RunsImplementLock` is the refinement of `RunLock`.  `StepKinds` says what any
step of the framework is to the lock: every run is kept, or one begins, or one
applies, or some are dropped.  `Holders` turns runs into holders: with a single
run in progress per purpose, the `CHOOSE` in `HolderOf` has one choice.  The rest
maps each kind of step to `Acquire`, `Apply`, `Drop` or a stutter.

### Isolation, FifoSlots and RedactionGate: `Isolation_proofs`

Assumed: `IsolationAssumption` (runs and calls are different keys, and a call
that is its own key has no other) and `SlotsAssumption` (at least one slot,
finitely many calls).

`SlotsAreKept` (free, granted and held slots are always the capacity, and none is
free while a call waits) and `SlotsGoInTurn` rest on `CallsInv`: a call has a
ticket exactly while it queues, and holds a slot exactly from the grant it has
seen to the release.

`PlacesAreGivenBack`, `RefusalsAreTrue` and the refinement `BoundaryIsGate` rest
on `BoundaryInv`: who made a place for a run and who shares it, and for each call
that was refused, where what it was told came from (its place, a refusal
remembered for a run without a place, the end of its run).

These three assume `[]Remembered`: while a call of an ended run has yet to ask,
`_ended` still names that run.  The code relies on it in as many words
(`ai/isolation.py`, "Stragglers arrive within seconds of the end; this is
thousands of runs"), and without it a straggler of a forgotten run is taken for
the first call of a new one.  `BoundaryKeepsItsWord` proves the three without the
hypothesis where the memory is not smaller than the number of runs, which is how
the run instantiates it.

### BatchedRun: `BatchedRun_proofs`

Assumed: at least one batch and one worker.

`BatchesAreSound` proves `BatchedInv`.  The properties speak of a run's end; the
invariant says what makes them come true on the way: which batches a worker has
let past the stop flag, what the mark, the gate and the ledger already know of
each, and that when the job's thread concludes "not charged" no call was made and
none can be made (`NeverCalls`), which is a fact about batches that are still
anywhere between the queue and the provider.  From it `ChargesAreTrue`,
`CompletedIsUsable` and `UnheardIsNotSent`.  `BadKeyIsBounded` counts: the batches
with a call that did not stop the run are at work or were masked by a lost
commit, hence at most workers plus lost commits.

### CsfLifecycle: `CsfLifecycle_proofs`

Assumed: `LifecycleAssumption` (bounds are numbers, `Op` is a set of operations).
The theorems hold with every operation, the client's submission included.

`LifecycleIsSound` proves `LifecycleInv`: versions have no gaps (`NoGaps`),
nothing is above a draft (`NothingAboveADraft`), what was submitted or approved
stays so (`Settled`), and what a request means to write refers to versions that
exist, or to the one above them (`PendingIsSound`, `RunIsSound`).  The numbers a
request minted may be stale when it inserts; the version is then either taken,
and the constraint refuses, or everything below it is taken and nothing above
it, because there are no gaps and a draft would have been refused by the
one-draft index.  A discard asks for a draft again as it writes, so nothing
settled is discarded.  `NewestIsNewest`, that a nonempty set of versions has the
newest one the routes choose, is proved by the well-foundedness of the naturals.
From the invariant: `LifecycleTypes`, `OneDraft`, `SettledStands`.

`ApprovalHolds` proves `ApprovalInv` beside it: every revision, every report, and
every request about to make one stands on a version that is approved or released,
or whose approval a late submission undid and that is in `late`; a request about
to release a report without flipping its parent has a parent that is sent.  A
step can take an approval back only by entering it in `late` (`Stands`), so what
a request read stays true of the weaker statement.  From it
`ReportGoesWithParent`, `BuiltOnStandingWork` and `ReportStaysShown`.

`DiscardedStays` and `PromptSubmissionsKeepD031` say that the late submission of
`csf_late_submit` is the only way to break what that run refutes.
`EndedStays` goes through every write: none but a submission overwrites a
released or a discarded version.  Under `[]Prompt` (whoever is about to write
"submitted" still finds the draft it read; a condition in that UPDATE would make
it so) nothing is ever late, a discarded version is retired and never approved,
and what the client is shown is never taken back, with no exception left.

### CapabilityList and ReviewedDoc: `CapabilityList_proofs`

Assumed: bounds are numbers, rows and parts are different and there is at least
one (a list without a row would have the content the abstract document starts
with).

`ListsAreSound` proves `ListInv`, whose heart is that the rows of a list change
only with its revision: rows loaded at a revision are the list's rows while that
revision stands, so an approval that finds its revision current is of the rows
there are, and a flip that finds the approval current releases what was approved.
From it `NoReportIsPartial`, and `ListsAreReviewed`, that the lists implement
`ReviewedDoc`; through the refinement, `ReleasedListsAreComplete`.

### AssessmentReview: `AssessmentReview_proofs`

Assumed: `ReviewAssumption`, the types of the constants.  The theorems are of `Spec`
alone, whatever is under way beside what.

`WorkIsSound` proves `WorkInv`.  Its parts are what may be taken for granted
although no write asks again: work that is settled was approved, and a run that
goes on over it is one the approval did not see (`WorkSound`); the content read
under the approval that stands is what the assessment holds (`Stands`), which is
what a report, and a request about to store one, knows (`ReportSound`,
`AskSound`); and nothing waits for a review in a released assessment, nor where a
release has found that nothing does and is about to flip (`QueueSound`).  Each is
conditional on what `late` has not recorded.  `Stands` asks of Zero Trust that no
approval came between, because a late submission may have reopened the assessment;
nothing reopens an ATT&CK one.  Every action but the late ones is `Calm`
(`QueueCalm`): it settles nothing but by an approval, changes nothing settled, and
takes back no report.

From it `SentIsReleased`, `ReviewedIsReleased` and `ApprovedStands`, the three
properties of the run for every assignment of operations to requests.

### RiskRegister: `RiskRegister_proofs`

Assumed: `RiskAssumption` (bounds are numbers, an edit sends at least one field, no
first assessment is a discarded one).

`RegistersAreSound` proves `RegisterInv`.  Each request writes what it read some
commits ago; `RequestSound` says what of that reading still holds, and
`LocksExclude` why: whoever could have moved it waits for the row, as
`FOR UPDATE` and `FOR SHARE` are held.  What a generate draws, it draws under no
lock, and what protects it is weaker: past its approval a version moves on to its
release and nowhere else (`MovesOn`), and its content stays, unless an overdue
write reaches it, which `late` counts.  So `Named` and `Drawn` are about versions
whose count is still the one read.  `SameReading` relates the two readings a
generate takes of one assessment, and `Certified` is what a publish has then found:
a version read twice had been released, and one that was not, because its service
was archived or a newer version was released in between, had been approved.
`WorkKeeps` shows that every step of a workspace keeps this (`InputsKeep`).
From it
`PublishedFileIsRegister`, `PublishedWorkIsReleased`, `ArchivesLeaveOne`,
`RatingsAreAccounted` and `UnsentFieldsStay`.

### AttackScenarios: `FiguresAndScenarios_proofs`

Assumed: `ScenariosAssumption`, the types of the constants (each tool has a form
in which the redactor shows it, a change list adds a tool to some capability).

`ScenariosAreSound` proves `ScenarioInv`: what each what-if, run and request may
name of the others; that every run later than the one in progress has not
started, so that the run a job completes is not older than the one its what-if
names; and that a what-if keeps what its creation asked of the change list, which
no later step asks again.  From it `OutcomeIsOfItsRun`, `ResultsStand` and
`ResultsSayWhatIs`.  The last also needs that statuses only rise with added tools
and only for one of the two causes, proved of the operators of `ScenarioDelta`
and `ComputedStatus`.

`FiguresRiseForCredits` carries the last step further, from the statuses to the
percentage a what-if is read for (`compare`): the removals alone never raise it,
the answer only raises it from there, and without a credit there is no rise.  It
rests on `FigureAtMost` of the section below, hence on `FiguresAssumption` too
(finitely many techniques, each judged on some capability).

### Figures: `FiguresAndScenarios_proofs`

Assumed: `FiguresAssumption`, the types of the constants, and that techniques and
capabilities are finitely many.

The figures are functions of the rows, so the inductive invariant is their type
(`FiguresAreTyped`: a list that was split or added to is a list, a row that was
edited is one of the rows its routes accept).  The content is in what the
operators do with any such rows.

- Induction over a finite set is done with a set of its subsets
  (`SubsetsOneByOne`): the whole set is in Q if the empty one is and each set is
  that is in Q without any of its elements.  Its proof takes a smallest subset
  outside Q.  This is what replaces the library's induction theorems, which have
  an operator as a parameter.
- The sums (`SumFunctionOnSet`) are folds whose recursive function is shown to
  exist (`SumFoldExists`) and not to depend on the set it is defined over
  (`SumOfPart`).  From there: what a sum is without one element (`SumWithout`),
  and that it grows with its summands (`SumOfMore`).
- `CoverageBound`: one status is no better than another (`NoBetter`) if it is of
  the same kind and at most as good.  With a review, without a plan, or with more
  tools listed each technique is no worse (`StatusNoBetter`), then the parent
  (`ParentNoBetter`), then the counts (`CountsNoBetter`), and since the counts add
  up to the same total, the fraction (`FigureAtMost`).
- `NothingPending`: a claim of support rests on a tool in place, which is no tool
  that waits for a review; under computed statuses `pending_codes` therefore
  withholds nothing, and the percentage is that of the statuses alone.
- `EnterpriseFloor` goes through the six rules of `Rollup`; rule 5 is the
  exception, and there the level is that of another tier.
- `RegisterGaps` compares the two readings of a stored stage and of a stored target
  capability by capability, for any numbers a column may hold, and the sums by
  `SumOfMore`.  Where a target can be used the two measure against the same one
  and disclose the same capped ones, and the register's findings are the gaps and
  the rows at the retired stage 0; where it cannot, the register discloses a
  lowered target, unless that is 0.
- `SplitsCountOnce`: what a figure is made of (the vendor's licences, the items
  with a known cost, the buckets) is the same set before and after a split, so
  that the sums over it are (`PartChangesNoFigure`); savings are of some of the
  licences spend is of.

### Only model-checked

Liveness under fairness (`LockComesBack`, `CallsEnd`, `RunEnds`), as everything
that needs `ENABLED`, is out of the prover's reach.  Every other property of a
passing run is a theorem.

## Where code and comments part

Two runs end in a violation; each quotes the line it contradicts in
`PROJECT.json` (`findings`).

- `csf_late_submit`: the client's submission overwrites a status it read earlier.
  After a discard in between, the discarded version is SUBMITTED again and can
  be approved.  For the same reason a submission can take an approved or released
  version back to SUBMITTED.  Zero Trust has the same window, and so a version can
  be approved twice, which the docstring of `_zt_release_guard` says no path does
  (`routes/zt.py`, "an approved ZT version cannot be re-approved").
- `assessment_late_edit`: a PATCH of an ATT&CK row that read a draft commits
  after the approval, and the rows of an approved assessment change, where
  `attack/release_readiness.py` says they cannot.

The models reach further states for which no property is stated, because no
comment or test promises otherwise, or because it is a residue the code names.

- A POST that loses the insert race re-reads the winner among RUNNING rows with
  `scalar_one()` (`ai/runs.py`, `start_run`).  If the winner has ended meanwhile
  the read raises (`no_row_found` in `AiRuns`).
- A reap ends the ledger rows of the run it ends.  A run that had ended by itself,
  with a call in flight as the process died, leaves a row RUNNING for ever.
- Two first releases of one deliverable both read `released_at` as empty, and
  both commit; two releases of different deliverables of one list both hand over,
  the second having missed its flip (a comment in `routes/tech_debt.py` names it).
- A plain CSF draft can be minted over work released since it was read; a row
  edit can land in a version discarded since it was read.
- A capability row edit carries the columns it loaded: of two edits of one row
  the later commit stands, and an exclusion may be written back from a stale
  load.  Approval and release do not see it, because they compare revisions.
- Two generates can leave two unsuperseded registers with one version number.
  `_latest_register` then takes the newer of the two.
- An ATT&CK approval reads the status and writes APPROVED unconditionally, so it
  can approve a version discarded, or reopen one released, since it was read.
  `assessment_review` takes these steps, and its properties hold of them.
- `_zt_release_guard` compares the approval with `finalized_at`, which is taken as
  the report is stored, after its rows were read and rendered.  If a Zero Trust
  assessment is taken back, edited and approved again while a report renders, that
  report passes the guard with the content of the first approval.
  `ReleasedIsWhatWasSent` exempts it by name (`asof # at`).
- The review queue is read before the flip, and its answer is part of the UPDATE.
  `attack/release_readiness.py` argues that the queue cannot grow in between and
  that reviewing only shrinks it.  It grows by an edit or a run that lands late,
  and by a review that accepts a status which has since been computed anew.
- The rows of an approved or released CSF assessment are written by a PATCH that
  read it as a draft; `risk/inputs.py` says such rows "are not edited in place".
  For CSF a publish then sees the fingerprint change; for Zero Trust there is none.
- A generate reads each assessment twice, once as a source and once for the inputs
  a publish compares.  If its service is archived between the two, or a newer
  version is released, the register can be published although the version it was
  drawn from was only approved: no blocker compares the two readings, where a
  comment in `_require_certifiable_inputs` says that "no unreleased status reaches
  here today".
  The run reaches the archived service; the newer version is beyond its bounds and
  in the proof.
- A stored Zero Trust stage 0 is unscored in the assessment and a finding of the
  register; a stored target that is on no ladder is not used by the assessment,
  which lists it as discarded, and is applied by the register, which then discloses
  it as lowered, except a target 0, under which it finds nothing.
- A finalize that read one version and commits after its revision was created
  leaves a report newer than that revision, which `services/stages.py` then counts
  as the revision's own.
- A request that joined a run can record it late, after that run failed and a
  newer one has started: until rows arrive the what-if names the older run, and
  if they arrive it keeps naming it.  `WhatIfNamesItsRun` says how far this goes
  (`scen.run` is the completing run or an earlier one about the same what-if).
- A discard that falls between the job's re-read of a what-if and its commit
  leaves a result on a what-if that was set aside; it stays set aside.

## Not modelled

- Pure transformations of text and documents: redaction patterns, prompts and
  their answers, parsers of uploads and of the what-if chat box, exporters.
- Catalogues and drift between their versions; object storage; mail; the browser;
  the processes behind a redaction child.
- Tenancy checks, which read one row and compare one field; messages,
  notifications and audit entries, which stand or fall with their caller's
  transaction; service stages and engagement targets, pure views of stored rows.
- Accounts, sessions, single-use tokens, domains and the rate limiter: another
  system beside the assessments, with hazards of its own (tabs that refresh at
  once, a token read unused and stamped later).  It shares no state with the
  modules here.
- Of the modelled components: CSF profiles and action plans, evidence links, the
  means over subcategories and pillars, pending sub-techniques, the Risk
  Register's text, links and baselines, and the reads.

## Plan

Done is what the modules above hold.  Left, in this order:

1. The reads of the services that `CsfLifecycle` and `AssessmentReview` leave
   out: action plans and evidence links, whose writes follow their parents.
2. A module for sessions (refresh rotation by compare-and-swap with its grace
   window, single-use tokens), which would be a project of its own size.
