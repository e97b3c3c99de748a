------------------------------ MODULE RunLock ------------------------------
(***************************************************************************)
(* What app/ai/runs.py promises its callers, with no process, thread or    *)
(* clock: one lock per purpose of a service, taken by a run and given back *)
(* once, with everything the run wrote or with nothing.                    *)
(***************************************************************************)
CONSTANTS RunId, Purpose, NoRun

VARIABLES
  holder,   \* the run that holds the lock of a purpose
  outcome   \* what a run left in the database

lockVars == <<holder, outcome>>

LockTypeOK == /\ holder \in [Purpose -> RunId \cup {NoRun}]
              /\ outcome \in [RunId -> {"none", "applied", "nothing"}]

LockInit == /\ holder = [p \in Purpose |-> NoRun]
            /\ outcome = [r \in RunId |-> "none"]

Acquire(p, r) ==
  /\ holder[p] = NoRun
  /\ outcome[r] = "none" /\ \A o \in Purpose : holder[o] # r
  /\ holder' = [holder EXCEPT ![p] = r]
  /\ UNCHANGED outcome

\* Everything the run wrote appears as its lock is given back.
Apply(p) ==
  /\ holder[p] # NoRun
  /\ outcome' = [outcome EXCEPT ![holder[p]] = "applied"]
  /\ holder' = [holder EXCEPT ![p] = NoRun]

\* One read may end the runs of several purposes; none of them leaves a trace.
Drop(dropped) ==
  /\ \A p \in dropped : holder[p] # NoRun
  /\ holder' = [p \in Purpose |-> IF p \in dropped THEN NoRun ELSE holder[p]]
  /\ outcome' = [r \in RunId |-> IF \E p \in dropped : holder[p] = r
                                 THEN "nothing" ELSE outcome[r]]

LockNext ==
  \/ \E p \in Purpose : Apply(p) \/ \E r \in RunId : Acquire(p, r)
  \/ \E dropped \in SUBSET Purpose : Drop(dropped)

LockSpec == LockInit /\ [][LockNext]_lockVars
=============================================================================
