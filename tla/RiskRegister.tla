---------------------------- MODULE RiskRegister ---------------------------
(***************************************************************************)
(* The Risk Registers of one client: generate, the rating edits, export,   *)
(* publish, the archive of the duplicate banner, and the assessments they  *)
(* are drawn from (src/apps/api/app/routes/risk.py, risk/inputs.py).       *)
(*                                                                         *)
(* Each request is split where another one's commit can fall.  The locks   *)
(* are those of the rows: generate (its second flush), export and publish  *)
(* take a register FOR UPDATE, an edit takes it FOR SHARE, the archive     *)
(* takes the client FOR UPDATE; generate takes no other lock, and nothing  *)
(* makes (client, version) unique.  The assessments are under no lock of a *)
(* row: an edit, a submission and a revision read the status of a version  *)
(* and later write without asking it again; approve, release and discard   *)
(* are UPDATEs on the status itself.  Left out of them: the refusals while *)
(* a run works, a second assessment created blank beside the first, and    *)
(* the discard of the first, after which the service has nothing to read.  *)
(*                                                                         *)
(* A finding stands for the findings of one service, and an entry for the  *)
(* first of the entries drafted for it.  The ATT&CK input, which cannot be *)
(* deselected and whose work has the same cycle, is left out of Service.   *)
(***************************************************************************)
EXTENDS Integers, Sequences, FiniteSets, SequencesExt, FiniteSetsExt

CONSTANTS
  Request,     \* request threads of the consultants
  Service,     \* the client's CSF and Zero Trust services
  Kind,        \* their kinds, a Zero Trust framework being one
  Fingerprinted, \* the kinds whose rows a provenance fingerprints: CSF alone
  Worked,      \* bound: the services whose assessments are worked on
  MaxRegs,     \* bound on the registers generated
  MaxRecords,  \* bound on the versions of one service's assessment
  MaxContent,  \* bound on what the rows of one assessment may hold
  MaxOdd,      \* bound on the findings drafted twice
  Setting,     \* bounds: the services' kinds, how far their first assessments
               \* have come, those archived, and how many more requests come
  Body         \* the rating edits sent: the fields, and given or cleared

ASSUME RiskAssumption ==
  /\ MaxRegs \in Nat /\ MaxRecords \in Nat /\ MaxContent \in Nat /\ MaxOdd \in Nat
  /\ Setting \subseteq
       [kind : [Service -> Kind], archived : SUBSET Service, requests : Nat, work : Nat,
        first : [Service -> {"draft", "submitted", "approved", "released"}]]
  /\ Fingerprinted \subseteq Kind /\ Worked \subseteq Service
  /\ Body \subseteq [fields : (SUBSET {"lk", "im"}) \ {{}}, value : BOOLEAN]

VARIABLES
  kind,      \* the kind of each service; never changes
  engaged,   \* the status of each service
  recs,      \* the assessments of each service, by version; late, a history,
             \* counts the overdue writes to one approved or released by then
  work,      \* what requests in the workspaces have read, and will write
  regs,      \* risk_registers with their risk_entries, in order of commit
  born,      \* how many registers have been given their created_at
  req,       \* what each request has read, and the lock it holds
  budget     \* how many requests may still be sent

vars == <<kind, engaged, recs, work, regs, born, req, budget>>

\* s, before: the service and the entry of it that a request loaded; reg: its
\* register, prior: the one a generate supersedes; old: that one's entries;
\* asof, a history: the late writes of each input when it was read.
Idle == [op |-> "none", at |-> "idle", s |-> "none", reg |-> 0, left |-> {},
         inputs |-> <<>>, current |-> <<>>, drew |-> <<>>, asof |-> <<>>, prior |-> 0,
         born |-> 0, old |-> <<>>, fields |-> {}, value |-> FALSE,
         before |-> <<>>, file |-> <<>>]

\* likelihood and impact, given or None; a tier needs both.
Rating == [lk : BOOLEAN, im : BOOLEAN]
HasTier(e) == e.lk /\ e.im

\* The requests that read a first version while it was a draft; none need end.
Overdue == [op : {"edit", "submit"}, s : Worked, v : {1}]

\* Nothing generated yet, and assessments wherever the work on them has come.
Init ==
  /\ \E c \in Setting :
       /\ kind = c.kind
       /\ engaged = [s \in Service |->
                      IF s \in c.archived THEN "archived_by_admin" ELSE "engaged"]
       /\ recs = [s \in Service |->
                   <<[status |-> c.first[s], content |-> 0, late |-> 0]>>]
       /\ budget = [requests |-> c.requests, work |-> c.work]
       /\ work = IF c.work = 0 THEN {} ELSE Overdue
  /\ regs = <<>> /\ born = 0
  /\ req = [q \in Request |-> Idle]

Takes(q, r)  == req' = [req EXCEPT ![q] = r]
Begin(q, r)  == /\ req[q] = Idle /\ Takes(q, r)
                /\ budget.requests > 0 /\ budget' = [budget EXCEPT !.requests = @ - 1]
Become(q, r) == Takes(q, r) /\ budget' = budget
Finish(q)    == Become(q, Idle)
At(q, op, at) == req[q].op = op /\ req[q].at = at

---------------------------------------------------------------------------
(* The inputs: what the services' own workspaces write.                    *)

\* latest_record: the newest assessment not discarded, 0 if there is none.
LatestRecord(s) ==
  Max({v \in DOMAIN recs[s] : recs[s][v].status # "discarded"} \cup {0})

Input(s) == recs[s][LatestRecord(s)]

Settled == {"approved", "released"}

NewWork == budget.work > 0 /\ budget' = [budget EXCEPT !.work = @ - 1]

\* patch_answer and patch_dimension_score; the client's submission, never of a
\* revision's draft; start_revision, of the newest version.
Allowed(w) ==
  LET status == recs[w.s][w.v].status
  IN \/ w.op = "edit" /\ status \in {"draft", "submitted"}
     \/ w.op = "submit" /\ w.v = 1 /\ w.v = LatestRecord(w.s) /\ status = "draft"
     \/ w.op = "revise" /\ w.v = LatestRecord(w.s) /\ status \in Settled
        /\ engaged[w.s] = "engaged"

ReadInput(op, s, v) ==
  LET w == [op |-> op, s |-> s, v |-> v]
  IN /\ v \in DOMAIN recs[s] /\ Allowed(w)
     /\ work' = work \cup {w} /\ NewWork
     /\ UNCHANGED <<kind, engaged, recs, regs, born, req>>

\* The write of a request that decided on an earlier reading of the status.
Overdo(w, r) ==
  /\ recs' = [recs EXCEPT ![w.s][w.v] =
                [r EXCEPT !.late = IF recs[w.s][w.v].status \in Settled
                                   THEN @ + 1 ELSE @]]
  /\ work' = work \ {w}
  /\ UNCHANGED <<kind, engaged, regs, born, req, budget>>

EditInput(w) ==
  /\ w.op = "edit"
  /\ \E content \in 0..MaxContent \ {recs[w.s][w.v].content} :
       Overdo(w, [recs[w.s][w.v] EXCEPT !.content = content])

\* An ORM assignment: whatever the status has become is overwritten.
SubmitInput(w) ==
  /\ w.op = "submit"
  /\ Overdo(w, [recs[w.s][w.v] EXCEPT !.status = "submitted"])

\* The one-draft index refuses an insert beside an open draft.
ReviseInput(w) ==
  /\ w.op = "revise"
  /\ IF \E v \in DOMAIN recs[w.s] : recs[w.s][v].status = "draft"
     THEN UNCHANGED recs
     ELSE /\ Len(recs[w.s]) < MaxRecords
          /\ recs' = [recs EXCEPT ![w.s] =
               Append(@, [recs[w.s][w.v] EXCEPT !.status = "draft", !.late = 0])]
  /\ work' = work \ {w}
  /\ UNCHANGED <<kind, engaged, regs, born, req, budget>>

\* An UPDATE that asks the status it changes.
Settle(s, v, from, to) ==
  /\ v \in DOMAIN recs[s] /\ recs[s][v].status \in from
  /\ recs' = [recs EXCEPT ![s][v].status = to] /\ NewWork
  /\ UNCHANGED <<kind, engaged, work, regs, born, req>>

ApproveInput(s, v) == Settle(s, v, {"draft", "submitted"}, "approved")

ReleaseInput(s, v) == Settle(s, v, {"approved"}, "released")

DiscardInput(s, v) == v > 1 /\ Settle(s, v, {"draft"}, "discarded")

WorkOnInputs ==
  \/ \E s \in Worked, v \in 1..MaxRecords :
       \/ \E op \in {"edit", "submit", "revise"} : ReadInput(op, s, v)
       \/ ApproveInput(s, v) \/ ReleaseInput(s, v) \/ DiscardInput(s, v)
  \/ \E w \in work : EditInput(w) \/ SubmitInput(w) \/ ReviseInput(w)

---------------------------------------------------------------------------
(* Archiving.                                                              *)

\* engaged_services: the archived ones contribute nothing.
Engaged == {s \in Service : engaged[s] = "engaged"}

\* _duplicate_groups: two or more sources of one kind and framework.
Duplicate(s) == \E t \in Engaged \ {s} : s \in Engaged /\ kind[t] = kind[s]

Duplicated == \E s \in Engaged : Duplicate(s)

\* Mutation of ClientFree: the row is read without FOR UPDATE.
NoClientLock == TRUE

ClientFree == \A q \in Request : ~At(q, "archive", "commit")

\* archive_duplicate_service: the groups are read under the client's lock.
ArchiveRead(q, s) ==
  /\ ClientFree /\ Duplicate(s)
  /\ Begin(q, [Idle EXCEPT !.op = "archive", !.at = "commit", !.s = s])
  /\ UNCHANGED <<kind, engaged, recs, work, regs, born>>

ArchiveCommit(q) ==
  /\ At(q, "archive", "commit")
  /\ engaged' = [engaged EXCEPT ![req[q].s] = "archived"]
  /\ Finish(q)
  /\ UNCHANGED <<kind, recs, work, regs, born>>

\* admin.py archive_service: any service, under no lock.
AdminArchive(s) ==
  /\ s \in Engaged
  /\ engaged' = [engaged EXCEPT ![s] = "archived_by_admin"]
  /\ NewWork /\ UNCHANGED <<kind, recs, work, regs, born, req>>

---------------------------------------------------------------------------
(* Registers.                                                              *)

\* _latest_register: the highest version, then the newest created_at.
Newer(a, b) == \/ regs[a].version > regs[b].version
               \/ regs[a].version = regs[b].version /\ regs[a].born >= regs[b].born

Latest == CHOOSE r \in 0..Len(regs) :
            \/ r = 0 /\ regs = <<>>
            \/ r > 0 /\ \A s \in DOMAIN regs : Newer(r, s)

Closed(r) == regs[r].superseded \/ regs[r].final

\* FOR UPDATE waits for every holder of the row, FOR SHARE for a writer.
Renders(q, r) == req[q].op \in {"export", "publish"} /\ req[q].at = "commit"
                 /\ req[q].reg = r
Shares(q, r)  == At(q, "edit", "swap") /\ req[q].reg = r

\* Mutation of Supersedes: superseded_by is sent with the commit alone.
SupersedesLater(q, r) == FALSE

Supersedes(q, r) == At(q, "generate", "commit") /\ req[q].prior = r

NobodyHolds(r) ==
  \A q \in Request : ~Renders(q, r) /\ ~Supersedes(q, r) /\ ~Shares(q, r)

\* Mutation of Shareable: the edit reads its register without FOR SHARE.
NoShareLock(r) == TRUE

Shareable(r) == \A q \in Request : ~Renders(q, r) /\ ~Supersedes(q, r)

---------------------------------------------------------------------------
(* generate.                                                               *)

\* An unpublished register's file, marked so; what it says is left out.
Draft == <<"draft">>

\* A record as a register's provenance names it, and with its rows' fingerprint
\* among the current inputs.
AsRead(s) == [version |-> LatestRecord(s), status |-> Input(s).status]

Fingerprint(s) == IF kind[s] \in Fingerprinted THEN {Input(s).content} ELSE {}

Printed(s, read) == [version |-> read.version, status |-> read.status,
                     print |-> Fingerprint(s)]

\* _take_input_snapshot, the sources, and _select: the engaged services, less
\* those the request deselects, duplicates refused.
GenerateSources(q, chosen) ==
  /\ born < MaxRegs /\ ~Duplicated
  /\ chosen \in (SUBSET Engaged) \ {{}}
  /\ Begin(q, [Idle EXCEPT !.op = "generate", !.at = "current",
               !.left = Engaged \ chosen, !.inputs = [s \in chosen |-> AsRead(s)],
               !.asof = [s \in chosen |-> Input(s).late]])
  /\ UNCHANGED <<kind, engaged, recs, work, regs, born>>

\* An object the session has loaded is not loaded again by current_inputs.
AsReadAgain(s, inputs) ==
  IF s \in DOMAIN inputs /\ inputs[s].version = LatestRecord(s)
  THEN inputs[s] ELSE AsRead(s)

\* current_inputs: every engaged service but the deselected ones, read anew.
GenerateCurrent(q) ==
  /\ At(q, "generate", "current")
  /\ Become(q, [req[q] EXCEPT !.at = "findings",
       !.current = [s \in Engaged \ req[q].left |->
                      Printed(s, AsReadAgain(s, req[q].inputs))]])
  /\ UNCHANGED <<kind, engaged, recs, work, regs, born>>

\* _gather_findings, from the rows of the sources as they are now.
GenerateFindings(q) ==
  /\ At(q, "generate", "findings")
  /\ Become(q, [req[q] EXCEPT !.at = "insert",
       !.drew = [s \in DOMAIN req[q].inputs |->
                   recs[s][req[q].inputs[s].version].content]])
  /\ UNCHANGED <<kind, engaged, recs, work, regs, born>>

\* Mutation of GenerateInsert: the provenance is read again after the run.
LabelledAfterTheRun(q) ==
  /\ At(q, "generate", "insert")
  /\ LET now == [s \in DOMAIN req[q].inputs |-> AsRead(s)]
         current == [s \in DOMAIN now |-> Printed(s, now[s])]
     IN Become(q, [req[q] EXCEPT !.at = "carry", !.inputs = now, !.current = current,
                                 !.prior = Latest, !.born = born + 1])
  /\ born' = born + 1
  /\ UNCHANGED <<kind, engaged, recs, work, regs>>

\* After seconds of model calls: the prior version, and the first flush.
GenerateInsert(q) ==
  /\ At(q, "generate", "insert")
  /\ Become(q, [req[q] EXCEPT !.at = "carry", !.prior = Latest, !.born = born + 1])
  /\ born' = born + 1
  /\ UNCHANGED <<kind, engaged, recs, work, regs>>

\* The entries the model drafts for each finding, and how it rates them.
Drafts(drawn) ==
  {d \in [drawn -> [n : 1..2, lk : BOOLEAN, im : BOOLEAN, edited : {FALSE}]] :
     /\ Cardinality({s \in drawn : d[s].n # 1}) <= MaxOdd
     /\ \A s, t \in drawn : d[s].lk = d[s].im /\ d[s].lk = d[t].lk}

Edited(es) == {s \in DOMAIN es : es[s].n > 0 /\ es[s].edited}

\* One entry for the finding on each side.
Unambiguous(old, new, s) == old[s].n = 1 /\ s \in DOMAIN new /\ new[s].n = 1

\* _carry_ratings: what it carries, and the entries it leaves the new version.
Carried(old, new) ==
  [s \in {t \in Edited(old) : Unambiguous(old, new, t)} |-> old[s]]

Renewed(new, carried) ==
  [s \in DOMAIN new |-> IF s \in DOMAIN carried THEN carried[s] ELSE new[s]]

\* The second flush waits for the prior's row, and holds it; the prior's
\* entries are read behind it.
GenerateCarry(q) ==
  /\ At(q, "generate", "carry")
  /\ LET p == req[q].prior
     IN /\ p # 0 => NobodyHolds(p)
        /\ Become(q, [req[q] EXCEPT !.at = "commit",
                        !.old = IF p = 0 THEN <<>> ELSE regs[p].entries])
  /\ UNCHANGED <<kind, engaged, recs, work, regs, born>>

GenerateCommit(q) ==
  /\ At(q, "generate", "commit")
  /\ \E drafted \in Drafts(DOMAIN req[q].inputs) :
       LET p == req[q].prior
           carried == Carried(req[q].old, drafted)
           new == [version |-> IF p = 0 THEN 1 ELSE regs[p].version + 1,
                   born |-> req[q].born, prior |-> p,
                   superseded |-> FALSE, final |-> FALSE,
                   inputs |-> req[q].inputs, current |-> req[q].current,
                   left |-> req[q].left, drew |-> req[q].drew, asof |-> req[q].asof,
                   entries |-> Renewed(drafted, carried),
                   notCarried |-> Edited(req[q].old) \ DOMAIN carried,
                   file |-> <<>>]
       IN regs' = Append([r \in DOMAIN regs |->
                            [regs[r] EXCEPT !.superseded = @ \/ r = p]], new)
  /\ Finish(q)
  /\ UNCHANGED <<kind, engaged, recs, work, born>>

---------------------------------------------------------------------------
(* edit_entry_rating.                                                      *)

EditLoad(q, r, s, fields, value) ==
  /\ r \in DOMAIN regs /\ s \in DOMAIN regs[r].entries /\ regs[r].entries[s].n > 0
  /\ Begin(q, [Idle EXCEPT !.op = "edit", !.at = "lock", !.reg = r, !.s = s,
               !.fields = fields, !.value = value, !.before = regs[r].entries[s]])
  /\ UNCHANGED <<kind, engaged, recs, work, regs, born>>

EditLock(q) ==
  /\ At(q, "edit", "lock") /\ Shareable(req[q].reg)
  /\ IF Closed(req[q].reg) THEN Finish(q) ELSE Become(q, [req[q] EXCEPT !.at = "swap"])
  /\ UNCHANGED <<kind, engaged, recs, work, regs, born>>

Edit(e, fields, value) ==
  [e EXCEPT !.lk = IF "lk" \in fields THEN value ELSE @,
            !.im = IF "im" \in fields THEN value ELSE @, !.edited = TRUE]

\* Mutation of StillAsLoaded: only the register is asked.
AnyEntry(e, before) == TRUE

StillAsLoaded(e, before) == e.lk = before.lk /\ e.im = before.im

\* The compare-and-swap and the commit; a miss is refused.
EditSwap(q) ==
  /\ At(q, "edit", "swap")
  /\ LET r == req[q].reg
         e == regs[r].entries[req[q].s]
     IN regs' = IF StillAsLoaded(e, req[q].before) /\ ~Closed(r)
                THEN [regs EXCEPT ![r].entries[req[q].s] =
                        Edit(req[q].before, req[q].fields, req[q].value)]
                ELSE regs
  /\ Finish(q)
  /\ UNCHANGED <<kind, engaged, recs, work, born>>

---------------------------------------------------------------------------
(* export and publish.                                                     *)

ReadLatest(q, op) ==
  /\ Latest # 0
  /\ Begin(q, [Idle EXCEPT !.op = op, !.at = "lock", !.reg = Latest])
  /\ UNCHANGED <<kind, engaged, recs, work, regs, born>>

\* The input was released at generate, and is the same one now, as are the rows
\* that were fingerprinted.
MatchesThen(was, s) == was = [version |-> LatestRecord(s), status |-> "released",
                              print |-> Fingerprint(s)]

\* publish_blockers: none, for the services engaged now and those recorded.
NoBlockers(r) ==
  LET then == regs[r].current
  IN /\ \A s \in Engaged \ regs[r].left :
          /\ LatestRecord(s) # 0 /\ Input(s).status = "released"
          /\ s \in DOMAIN then /\ MatchesThen(then[s], s)
     /\ DOMAIN then \subseteq Engaged \cap DOMAIN regs[r].inputs

\* _require_certifiable_inputs.
Certifiable(r) ==
  \A s \in DOMAIN regs[r].inputs : regs[r].inputs[s].status \in {"approved", "released"}

AllRated(r) ==
  \A s \in DOMAIN regs[r].entries :
    regs[r].entries[s].n > 0 => HasTier(regs[r].entries[s])

Publishable(r) == ~regs[r].final /\ NoBlockers(r) /\ Certifiable(r) /\ AllRated(r)

\* _lock_current_register, the checks under the lock, and the rendering.
Render(q, op) ==
  /\ At(q, op, "lock") /\ NobodyHolds(req[q].reg)
  /\ LET r == req[q].reg
     IN IF ~regs[r].superseded /\ (op = "publish" => Publishable(r))
        THEN Become(q, [req[q] EXCEPT !.at = "commit",
               !.file = IF op = "publish" \/ regs[r].final
                        THEN regs[r].entries ELSE Draft])
        ELSE Finish(q)
  /\ UNCHANGED <<kind, engaged, recs, work, regs, born>>

\* The artifacts, and finalized_at when it is a publish.
Store(q, op) ==
  /\ At(q, op, "commit")
  /\ regs' = [regs EXCEPT ![req[q].reg].file = req[q].file,
                          ![req[q].reg].final = @ \/ op = "publish"]
  /\ Finish(q)
  /\ UNCHANGED <<kind, engaged, recs, work, born>>

---------------------------------------------------------------------------

Generate(q) == \/ \E chosen \in SUBSET Service : GenerateSources(q, chosen)
               \/ GenerateCurrent(q) \/ GenerateFindings(q)
               \/ GenerateInsert(q) \/ GenerateCarry(q) \/ GenerateCommit(q)

EditRating(q) == \/ \E r \in 1..MaxRegs, s \in Service, b \in Body :
                      EditLoad(q, r, s, b.fields, b.value)
                 \/ EditLock(q) \/ EditSwap(q)

Deliver(q) == \E op \in {"export", "publish"} :
                ReadLatest(q, op) \/ Render(q, op) \/ Store(q, op)

Next == \/ WorkOnInputs
        \/ \E s \in Service : AdminArchive(s)
        \/ \E q \in Request :
             \/ \E s \in Service : ArchiveRead(q, s)
             \/ ArchiveCommit(q)
             \/ Generate(q) \/ EditRating(q) \/ Deliver(q)

Spec == Init /\ [][Next]_vars

---------------------------------------------------------------------------
(* Properties.                                                             *)

\* The comment in _lock_current_register: what a published file says is what
\* the client's dashboard shows, whatever was edited, exported or generated
\* while it was rendered, and the file is not marked a draft.
FileIsRegister ==
  \A r \in DOMAIN regs : regs[r].final =>
    regs[r].file = regs[r].entries

\* _take_input_snapshot, publish_blockers: what a published register says of a
\* service is what the released assessment it was drawn from holds, whatever was
\* edited, submitted, approved, revised or discarded meanwhile. Exempt are the
\* assessments that a late edit or submission has reached since they were read.
\* The snapshot reads the assessments twice: one whose service was archived, or
\* that had a newer version released, between the two may be but approved.
PublishedIsReleasedWork ==
  \A r \in DOMAIN regs : regs[r].final =>
    \A s \in DOMAIN regs[r].inputs :
      LET v == regs[r].inputs[s].version
          then == regs[r].current
          readTwice == s \in DOMAIN then /\ then[s].version = v
      IN recs[s][v].late = regs[r].asof[s] =>
           /\ recs[s][v].content = regs[r].drew[s]
           /\ recs[s][v].status \in IF readTwice THEN {"released"} ELSE Settled

\* _carry_ratings: when a version is superseded, each rating a consultant has
\* given it stands in the new one or is named there as not carried, even an edit
\* committed while the new version was being built; and none moves after that.
RatingsAccounted ==
  [][/\ \A r \in DOMAIN regs' \ DOMAIN regs : regs'[r].prior # 0 =>
          LET old == regs'[regs'[r].prior].entries
          IN \A s \in Edited(old) \ regs'[r].notCarried :
               s \in DOMAIN regs'[r].entries /\ regs'[r].entries[s] = old[s]
     /\ \A r \in DOMAIN regs :
          regs[r].superseded => regs'[r].entries = regs[r].entries]_vars

\* A body that sends one field never moves the other: of two consultants who
\* rate one entry at once, one is told that it changed.
UnsentStays ==
  [][\A q \in Request :
       At(q, "edit", "swap") /\ req'[q] = Idle /\ regs' # regs =>
         LET r == req[q].reg  s == req[q].s
         IN \A f \in {"lk", "im"} \ req[q].fields :
              regs'[r].entries[s][f] = regs[r].entries[s][f]]_vars

\* archive_duplicate_service: two tabs that each archive a member of a pair
\* never leave the kind unengaged.
KindStaysEngaged ==
  \A s \in Service : engaged[s] = "archived" =>
    \E t \in Service : kind[t] = kind[s] /\ engaged[t] # "archived"
=============================================================================
