-------------------------- MODULE AttackScenarios --------------------------
(***************************************************************************)
(* The ATT&CK what-ifs of one service                                      *)
(* (src/apps/api/app/routes/attack_scenarios.py, models/attack_scenario.py)*)
(* and their runs, which hold no edit lock.  The run framework is AiRuns;  *)
(* here it is the lock it implements: one run in progress for the purpose, *)
(* which ends once, and a completion with everything it applied.           *)
(*                                                                         *)
(* What a create reads and what it writes have nothing to race with that   *)
(* is not also possible after it, so a create is one step; so is a         *)
(* discard, which asks nothing of what it overwrites.                      *)
(***************************************************************************)
EXTENDS ScenarioDelta

CONSTANTS
  Scenario,  \* what-ifs, in any order
  Request,   \* request threads that run one
  MaxRun,    \* bound on the runs
  BaseRows,  \* the rows of each confirmed assessment, by version
  Change,    \* the change lists an admin may ask for
  ToolSets,  \* the tools the client may have
  Answers    \* what the batches may answer

ASSUME ScenariosAssumption ==
  /\ MaxRun \in Nat \ {0}
  /\ Shown \in [Tool -> Form] /\ Tool \subseteq Form
  /\ ToolSets \subseteq SUBSET Tool
  /\ Judged \in [Technique -> {Cap, Cap \ {"prevent"}}]
  /\ \A v \in DOMAIN BaseRows :
       BaseRows[v] \in [Technique -> [said : CoverageStatus, flagged : SUBSET Tool,
                                      lists : [Cap -> SUBSET Tool]]]
  /\ \A change \in Change :
       /\ change.removed \subseteq Tool
       /\ NewTools(change) \subseteq Tool
       /\ change.added \in [NewTools(change) -> (SUBSET Cap) \ {{}}]
  /\ \A claims \in Answers :
       claims \subseteq [on : Technique, cites : Form, caps : SUBSET Cap]

VARIABLES
  base,    \* confirmed_base: the version a what-if would be pinned to, or 0
  tools,   \* the client's tools, as the capability lists have them
  scens,   \* attack_scenarios, and the rows a run wrote for each
  runs,    \* ai_runs of the purpose, in the order they started, with their jobs
  req      \* requests that run a what-if: what they are about to do

vars == <<base, tools, scens, runs, req>>

Version == DOMAIN BaseRows

Run == 1..MaxRun

NoChange == [removed |-> {}, added |-> [a \in {} |-> {}]]

\* by: the run whose rows these are; credits: the AI rows accepted.
NoScenario == [state |-> "none", base |-> 0, change |-> NoChange, run |-> 0,
               by |-> 0, credits |-> {}]

\* of: the what-if; at: where the job is; offered: the tools it loaded.
NoRun == [status |-> "none", of |-> {}, at |-> "none", offered |-> {}]

Idle == [at |-> "idle", s |-> {}, run |-> 0, started |-> FALSE]

TypeOK ==
  /\ base \in Version \cup {0} /\ tools \in ToolSets
  /\ \A s \in Scenario :
       /\ scens[s].state \in {"none", "draft", "confirmed", "discarded"}
       /\ scens[s].base \in Version \cup {0}
       /\ scens[s].change \in Change \cup {NoChange}
       /\ scens[s].run \in 0..MaxRun /\ scens[s].by \in 0..MaxRun
  /\ \A r \in Run :
       /\ runs[r].status \in {"none", "running", "completed", "failed"}
       /\ runs[r].at \in {"none", "queued", "loaded", "checked", "over"}
       /\ runs[r].of \in {{}} \cup {{s} : s \in Scenario}
  /\ \A q \in Request : req[q].at \in {"idle", "start", "record"}

Init ==
  /\ base \in Version /\ tools \in ToolSets
  /\ scens = [s \in Scenario |-> NoScenario]
  /\ runs = [r \in Run |-> NoRun]
  /\ req = [q \in Request |-> Idle]

---------------------------------------------------------------------------

Rows(s) == BaseRows[scens[s].base]

\* is_stale: another assessment is the confirmed one now.
Stale(s) == base # 0 /\ base # scens[s].base

\* The client's tools, and those the pinned assessment cites.
ClientTools(v) == tools \cup Cited(BaseRows[v])

Unchanged(change) == change.removed = {} /\ NewTools(change) = {}

CreateScenario(s) ==
  /\ scens[s].state = "none" /\ base # 0
  /\ \E change \in Change :
       /\ change.removed \subseteq Cited(BaseRows[base])
       /\ ~Collides(change, ClientTools(base))
       /\ ~Unchanged(change)
       /\ Affected(BaseRows[base], change) # {}
       /\ scens' = [scens EXCEPT ![s] =
            [NoScenario EXCEPT !.state = "draft", !.base = base, !.change = change]]
  /\ UNCHANGED <<base, tools, runs, req>>

DiscardScenario(s) ==
  /\ scens[s].state # "none"
  /\ scens' = [scens EXCEPT ![s].state = "discarded"]
  /\ UNCHANGED <<base, tools, runs, req>>

\* _refuse_unless_runnable and _refuse_if_added_collides.
RunRead(q, s) ==
  /\ req[q] = Idle
  /\ scens[s].state \in {"draft", "confirmed"}
  /\ scens[s].by = 0
  /\ ~Stale(s)
  /\ ~Collides(scens[s].change, ClientTools(scens[s].base))
  /\ req' = [req EXCEPT ![q] = [Idle EXCEPT !.at = "start", !.s = {s}]]
  /\ UNCHANGED <<base, tools, scens, runs>>

Running == {r \in Run : runs[r].status = "running"}

\* start_run: the run in progress is joined, if it is of the same what-if, and
\* refuses the request otherwise.
StartRun(q) ==
  /\ req[q].at = "start"
  /\ \/ /\ Running = {}
        /\ \E r \in Run :
             /\ \A x \in Run : x < r <=> runs[x].status # "none"
             /\ runs' = [runs EXCEPT ![r] = [NoRun EXCEPT !.status = "running",
                                                          !.of = req[q].s]]
             /\ req' = [req EXCEPT ![q].at = "record", ![q].run = r,
                                   ![q].started = TRUE]
     \/ \E r \in Running :
          /\ req' = [req EXCEPT ![q] =
               IF runs[r].of = req[q].s THEN [@ EXCEPT !.at = "record", !.run = r]
                                        ELSE Idle]
          /\ UNCHANGED runs
  /\ UNCHANGED <<base, tools, scens>>

\* Mutation of Point: the run id is written whatever the what-if holds.
PointAnyway(scen, r) == [scen EXCEPT !.run = r]

\* The UPDATE of ai_run_id: not of a what-if that has its rows.
Point(scen, r) == IF scen.by = 0 THEN [scen EXCEPT !.run = r] ELSE scen

\* Mutation of Confirm: the state is assigned, not asked for.
ConfirmAnyway(scen) == [scen EXCEPT !.state = "confirmed"]

\* The UPDATE of the state: from DRAFT only.
Confirm(scen) ==
  IF scen.state = "draft" THEN [scen EXCEPT !.state = "confirmed"] ELSE scen

\* Both UPDATEs and their commit; the job is started after the response. A
\* request that dies here has started a run without one.
RecordRun(q) ==
  LET r == req[q].run
  IN /\ req[q].at = "record"
     /\ \/ /\ scens' = [s \in Scenario |-> IF s \in req[q].s
                          THEN Confirm(Point(scens[s], r)) ELSE scens[s]]
           /\ runs' = IF req[q].started THEN [runs EXCEPT ![r].at = "queued"]
                                        ELSE runs
        \/ UNCHANGED <<scens, runs>>
     /\ req' = [req EXCEPT ![q] = Idle]
     /\ UNCHANGED <<base, tools>>

---------------------------------------------------------------------------
(* The job: _scenario_run_work, and its completion.                        *)

\* The end of a job; the run is FAILED unless a read has ended it before.
JobFails(r) ==
  runs' = [runs EXCEPT ![r].at = "over",
             ![r].status = IF @ = "running" THEN "failed" ELSE @]

JobGoes(r, at) == runs' = [runs EXCEPT ![r].at = at]

\* The reads, and the second look for a collision.
JobLoad(r, s) ==
  /\ runs[r].at = "queued" /\ runs[r].of = {s}
  /\ IF \/ scens[s].state = "discarded"
        \/ Collides(scens[s].change, ClientTools(scens[s].base))
     THEN JobFails(r)
     ELSE runs' = [runs EXCEPT ![r].at = "loaded", ![r].offered = tools]
  /\ UNCHANGED <<base, tools, scens, req>>

\* The re-read after the batches.
StillWanted(s) == scens[s].state # "discarded" /\ scens[s].by = 0

JobCheck(r, s) ==
  /\ runs[r].at = "loaded" /\ runs[r].of = {s}
  /\ IF StillWanted(s) THEN JobGoes(r, "checked") ELSE JobFails(r)
  /\ UNCHANGED <<base, tools, scens, req>>

\* The rows, the drops and the run's completion, or nothing: a run that was
\* ended meanwhile applies nothing, and rows that are there refuse others.
JobCommit(r, s) ==
  /\ runs[r].at = "checked" /\ runs[r].of = {s}
  /\ IF runs[r].status = "running" /\ scens[s].by = 0
     THEN /\ \E claims \in Answers :
               scens' = [scens EXCEPT ![s].by = r, ![s].credits =
                 Credits(claims, Rows(s), scens[s].change, runs[r].offered)]
          /\ runs' = [runs EXCEPT ![r].at = "over", ![r].status = "completed"]
     ELSE JobFails(r) /\ UNCHANGED scens
  /\ UNCHANGED <<base, tools, req>>

\* It fails, or is ended by a read as orphaned or late; a late job goes on.
RunFails(r) ==
  /\ runs[r].status = "running"
  /\ runs' = [runs EXCEPT ![r].status = "failed"]
  /\ UNCHANGED <<base, tools, scens, req>>

---------------------------------------------------------------------------
(* What the what-ifs read and do not write.                                *)

\* Another assessment is approved and reviewed, or the confirmed one is opened.
BaseMoves == \E v \in (Version \cup {0}) \ {base} :
               base' = v /\ UNCHANGED <<tools, scens, runs, req>>

\* The client's lists are extracted, edited, approved.
ToolsChange == \E T \in ToolSets \ {tools} :
                 tools' = T /\ UNCHANGED <<base, scens, runs, req>>

Next == \/ \E s \in Scenario :
             \/ CreateScenario(s) \/ DiscardScenario(s)
             \/ \E q \in Request : RunRead(q, s)
             \/ \E r \in Run : JobLoad(r, s) \/ JobCheck(r, s) \/ JobCommit(r, s)
        \/ \E q \in Request : StartRun(q) \/ RecordRun(q)
        \/ \E r \in Run : RunFails(r)
        \/ BaseMoves \/ ToolsChange

Spec == Init /\ [][Next]_vars

---------------------------------------------------------------------------
(* Properties.                                                             *)

\* A what-if's outcome is read from the run it names: a run about it, which it
\* names as soon as it is confirmed. Its rows are those of the one run that
\* completed, and no later run takes that run's place. (An earlier one may: a
\* request that joined it can record it late.)
WhatIfNamesItsRun ==
  /\ \A s \in Scenario :
       LET scen == scens[s]
       IN /\ scen.state = "confirmed" => scen.run # 0
          /\ scen.run # 0 => runs[scen.run].of = {s}
          /\ scen.by # 0 => scen.run \in 1..scen.by
  /\ \A r \in Run, s \in Scenario :
       runs[r].status = "completed" /\ runs[r].of = {s} <=> scens[s].by = r

\* A what-if that was set aside stays so, whatever a run of it records later;
\* and a result, once there, keeps its rows and its run.
ResultStands ==
  [][\A s \in Scenario :
       /\ scens[s].state = "discarded" => scens'[s].state = "discarded"
       /\ scens[s].by # 0 => [scens'[s] EXCEPT !.state = "x"]
                               = [scens[s] EXCEPT !.state = "x"]]_vars

\* What the result of a what-if says of its assessment.
Result(s) == After(Rows(s), scens[s].change, scens[s].credits)

\* No tool the change removes is credited, under any of its spellings, and what
\* the model cited for a credit is shown for no tool that was removed.
CreditsAreTrue ==
  \A s \in Scenario : \A k \in scens[s].credits, r \in scens[s].change.removed :
    /\ ~Covers(scens[s].change.removed, k.tool)
    /\ Shown[r] # k.cites

\* An answer only adds to what the assessment gave the tools that remain; a
\* technique scores higher only for a credit, every rise is put down to a tool
\* that remains or to one that was added, and either has a credit there.
RisesAreExplained ==
  \A s \in {s \in Scenario : scens[s].by # 0} :
    LET rows == Rows(s)
        change == scens[s].change
        after == Result(s)
        removal == After(rows, change, {})
        warned == Warned(rows, change, after)
        reached == Reached(rows, change, after)
        Credited(l, T) == \E k \in scens[s].credits :
                            k.on = l /\ k.tool \in T /\ k.caps # {}
    IN /\ \A l \in Technique : Rank(StatusOf(after, l)) >= Rank(StatusOf(removal, l))
       /\ ScoredHigher(rows, removal, change) = {}
       /\ ScoredHigher(rows, after, change)
            = warned \cup reached
       /\ \A l \in warned : Credited(l, Tool \ NewTools(change))
       /\ \A l \in reached : Credited(l, NewTools(change))

\* What a result credits is a tool the client would have, and what it claims to
\* raise has its cause among the credits.
ResultsAreTrue == CreditsAreTrue /\ RisesAreExplained
=============================================================================
