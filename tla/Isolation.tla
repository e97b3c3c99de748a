----------------------------- MODULE Isolation -----------------------------
(***************************************************************************)
(* The redaction boundary of src/apps/api/app/ai/isolation.py: run places, *)
(* child slots and refusals.  A payload clears for sending only through    *)
(* redact_payload_isolated, one call of which is one member of Call here.  *)
(*                                                                         *)
(* A step is one hold of the module's lock or of the slots' lock, or the   *)
(* child's answer.  The keys are the runs (a Run-AI, or a redaction_scope) *)
(* and, for a call outside both, the call itself.                          *)
(***************************************************************************)
EXTENDS FifoSlots

CONSTANTS
  Run,          \* keys ("run", id) and ("scope", id)
  RunOf,        \* the key of each call: a run, or the call itself
  MaxRuns,      \* shield_redaction_max_runs
  EndedMemory,  \* _ENDED_MEMORY
  None

ASSUME IsolationAssumption ==
  /\ Run \cap Call = {} /\ None \notin Run \cup Call
  /\ RunOf \in [Call -> Run \cup Call]
  /\ \A c \in Call : RunOf[c] \in Call => RunOf[c] = c
  /\ MaxRuns \in Nat /\ EndedMemory \in Nat

Key == Run \cup Call

VARIABLES
  places,    \* _places: the place of a key, named by the call that took it
  place,     \* the _Place objects: payloads cleared, and the refusal if any
  mine,      \* the place a call was admitted to
  unplaced,  \* _refused_unplaced
  ended,     \* _ended, oldest first
  over,      \* the runs whose end has been told to isolation, or is being told
  pc,        \* where a call is
  outcome,   \* what became of a call
  said       \* the refusal a call raised

isoVars == <<places, place, mine, unplaced, ended, over, pc, outcome,
             said>>
vars == <<slotVars, isoVars>>

Refusal == [reason : {"none", "busy", "budget", "failed"}, sent : BOOLEAN]

NoRefusal == [reason |-> "none", sent |-> FALSE]

Outcome == {"none", "ok", "timeout", "died", "http",  \* what the child said
            "cleared", "unsent", "typed", "refused"}

Pc == {"new", "admitted", "queued", "timed_out", "slot", "child", "give_back",
       "settle", "close", "done"}

TypeOK ==
  /\ SlotTypeOK
  /\ places \in [Key -> Call \cup {None}]
  /\ place \in [Call -> [cleared : Nat, refused : Refusal]]
  /\ mine \in [Call -> Call \cup {None}]
  /\ unplaced \in [Key -> Refusal]
  /\ ended \in Seq(Key) /\ over \in SUBSET Run
  /\ pc \in [Call -> Pc]
  /\ outcome \in [Call -> Outcome] /\ said \in [Call -> Refusal]

InUse == {k \in Key : places[k] # None}

OneCall(c) == RunOf[c] = c

Goto(c, l) == pc' = [pc EXCEPT ![c] = l]

\* A call ends: a one-call run releases its place on the way out.
Leave(c) == Goto(c, IF OneCall(c) THEN "close" ELSE "done")

Raise(c, refusal) == /\ outcome' = [outcome EXCEPT ![c] = "refused"]
                     /\ said' = [said EXCEPT ![c] = refusal]

Settled(c, o) == outcome' = [outcome EXCEPT ![c] = o] /\ UNCHANGED said

Init ==
  /\ SlotInit
  /\ places = [k \in Key |-> None]
  /\ place = [c \in Call |-> [cleared |-> 0, refused |-> NoRefusal]]
  /\ mine = [c \in Call |-> None]
  /\ unplaced = [k \in Key |-> NoRefusal]
  /\ ended = <<>> /\ over = {}
  /\ pc = [c \in Call |-> "new"]
  /\ outcome = [c \in Call |-> "none"]
  /\ said = [c \in Call |-> NoRefusal]

---------------------------------------------------------------------------
(* Admission: a place for the run, taken at its first call.                *)

Busy(sent) == [reason |-> "busy", sent |-> sent]

\* A run refused at arrival is remembered until it ends; a one-call run is not.
RememberUnplaced(c) ==
  IF OneCall(c) THEN UNCHANGED unplaced
  ELSE unplaced' = [unplaced EXCEPT ![RunOf[c]] = Busy(FALSE)]

Full == Cardinality(InUse) >= MaxRuns

\* A place a refusal, or its run's end, has closed.
Ended(p) == place[p].refused # NoRefusal

\* _admit, in its order: a run's own place, then what is remembered of it.
\* (A one-call run has a fresh key: its finally gives back only a place.)
Admit(c) ==
  LET k == RunOf[c]
  IN /\ pc[c] = "new"
     /\ \/ /\ places[k] # None /\ Ended(places[k])
           /\ Raise(c, place[places[k]].refused) /\ Leave(c)
           /\ UNCHANGED <<places, mine, unplaced>>
        \/ /\ places[k] # None /\ ~Ended(places[k])
           /\ mine' = [mine EXCEPT ![c] = places[k]]
           /\ Goto(c, "admitted")
           /\ UNCHANGED <<places, unplaced, outcome, said>>
        \/ /\ places[k] = None /\ unplaced[k] # NoRefusal
           /\ Raise(c, unplaced[k]) /\ Leave(c)
           /\ UNCHANGED <<places, mine, unplaced>>
        \/ /\ places[k] = None /\ unplaced[k] = NoRefusal /\ k \in ToSet(ended)
           /\ Raise(c, Busy(TRUE)) /\ Leave(c)
           /\ UNCHANGED <<places, mine, unplaced>>
        \/ /\ places[k] = None /\ unplaced[k] = NoRefusal
           /\ k \notin ToSet(ended)
           /\ IF Full
              THEN /\ RememberUnplaced(c)
                   /\ Raise(c, Busy(FALSE)) /\ Goto(c, "done")
                   /\ UNCHANGED <<places, mine>>
              ELSE /\ places' = [places EXCEPT ![k] = c]
                   /\ mine' = [mine EXCEPT ![c] = c]
                   /\ Goto(c, "admitted")
                   /\ UNCHANGED <<unplaced, outcome, said>>
     /\ UNCHANGED <<slotVars, place, ended, over>>

---------------------------------------------------------------------------
(* The call in its place: slot, child, answer.                             *)

WaitForSlot(c) ==
  /\ pc[c] = "admitted"
  /\ \/ TakeSlot(c) /\ Goto(c, "slot")
     \/ JoinQueue(c) /\ Goto(c, "queued")
  /\ UNCHANGED <<places, place, mine, unplaced, ended, over, outcome, said>>

WakeUp(c) ==
  /\ pc[c] = "queued"
  /\ \/ SeeGrant(c) /\ Goto(c, "slot")
     \/ GiveUp(c) /\ Goto(c, "timed_out")
  /\ UNCHANGED <<places, place, mine, unplaced, ended, over, outcome, said>>

\* _refuse on a place: the first refusal of a run is the one all its calls get.
Refuse(c, reason) ==
  LET p == place[mine[c]]
      first == [reason |-> reason, sent |-> p.cleared > 0]
      same == IF Ended(mine[c]) THEN p.refused ELSE first
  IN Raise(c, same) /\ place' = [place EXCEPT ![mine[c]].refused = same]

NoSlotInTime(c) ==
  /\ pc[c] = "timed_out"
  /\ Refuse(c, "busy") /\ Leave(c)
  /\ UNCHANGED <<slotVars, places, mine, unplaced, ended, over>>

\* With the slot: a run refused while the call waited starts no child.
LookBeforeChild(c) ==
  /\ pc[c] = "slot"
  /\ IF Ended(mine[c])
     THEN Raise(c, place[mine[c]].refused) /\ Goto(c, "give_back")
     ELSE Goto(c, "child") /\ UNCHANGED <<outcome, said>>
  /\ UNCHANGED <<slotVars, places, place, mine, unplaced, ended, over>>

\* Mutation of ChildEnds: no budget, and the child never answers.
NoBudget(c) == FALSE

\* The child answers, is killed at the budget, dies, or passes a typed refusal.
ChildEnds(c) ==
  /\ pc[c] = "child"
  /\ \E kind \in {"ok", "timeout", "died", "http"} : Settled(c, kind)
  /\ Goto(c, "give_back")
  /\ UNCHANGED <<slotVars, places, place, mine, unplaced, ended, over>>

GiveBackSlot(c) ==
  /\ pc[c] = "give_back"
  /\ ReleaseSlot(c)
  /\ IF outcome[c] = "refused" THEN Leave(c) ELSE Goto(c, "settle")
  /\ UNCHANGED <<places, place, mine, unplaced, ended, over, outcome, said>>

\* Mutation of StillCleared: the answer counts whatever became of the run.
AnswerCounts(c) == TRUE

\* An answer clears only if nothing refused the run while the child ran.
StillCleared(c) == ~Ended(mine[c])

\* Mutation of CountSent: a payload nobody sends counts as well.
CountEvery(c, sent) == place' = [place EXCEPT ![mine[c]].cleared = @ + 1]

CountSent(c, sent) ==
  IF sent THEN place' = [place EXCEPT ![mine[c]].cleared = @ + 1]
  ELSE UNCHANGED place

\* The last hold of the lock. A call that asked for egress=False is answered,
\* and counts nothing as sent.
Settle(c) ==
  /\ pc[c] = "settle"
  /\ \/ outcome[c] = "timeout" /\ Refuse(c, "budget")
     \/ outcome[c] = "died" /\ Refuse(c, "failed")
     \/ outcome[c] = "http" /\ Settled(c, "typed") /\ UNCHANGED place
     \/ /\ outcome[c] = "ok" /\ ~StillCleared(c)
        /\ Raise(c, place[mine[c]].refused) /\ UNCHANGED place
     \/ /\ outcome[c] = "ok" /\ StillCleared(c)
        /\ \E sent \in BOOLEAN :
             /\ Settled(c, IF sent THEN "cleared" ELSE "unsent")
             /\ CountSent(c, sent)
  /\ Leave(c)
  /\ UNCHANGED <<slotVars, places, mine, unplaced, ended, over>>

---------------------------------------------------------------------------
(* The end of a run.                                                       *)

\* _end_place: whatever of the run is still redacting is refused.
EndPlace(k) ==
  IF places[k] # None /\ ~Ended(places[k])
  THEN place' = [place EXCEPT ![places[k]].refused = Busy(TRUE)]
  ELSE UNCHANGED place

\* Mutation of Remember: one-call runs are remembered as well.
RememberCalls(k) ==
  LET longer == IF k \in ToSet(ended) THEN ended ELSE Append(ended, k)
  IN ended' = IF Len(longer) > EndedMemory THEN Tail(longer) ELSE longer

\* The bounded memory of ended runs; a one-call run never enters it.
Remember(k) ==
  LET longer == IF k \in ToSet(ended) \cup Call THEN ended ELSE Append(ended, k)
  IN ended' = IF Len(longer) > EndedMemory THEN Tail(longer) ELSE longer

\* _release.
Release(k) ==
  /\ EndPlace(k)
  /\ places' = [places EXCEPT ![k] = None]
  /\ unplaced' = [unplaced EXCEPT ![k] = NoRefusal]
  /\ Remember(k)

CloseCall(c) ==
  /\ pc[c] = "close"
  /\ Release(RunOf[c])
  /\ Goto(c, "done")
  /\ UNCHANGED <<slotVars, mine, over, outcome, said>>

\* release_run, from the job's finally or the reaper, while calls may be under
\* way; it may be called twice, and of a run that never took a place.
EndRun(r) ==
  /\ Release(r)
  /\ over' = over \cup {r}
  /\ UNCHANGED <<slotVars, mine, pc, outcome, said>>

Proceed(c) == \/ WaitForSlot(c) \/ WakeUp(c) \/ NoSlotInTime(c)
              \/ LookBeforeChild(c) \/ ChildEnds(c) \/ GiveBackSlot(c)
              \/ Settle(c) \/ CloseCall(c)

Next == \/ \E c \in Call : Admit(c) \/ Proceed(c)
        \/ \E r \in Run : EndRun(r)

Spec == Init /\ [][Next]_vars

\* A call that has begun goes on: slot waits time out, children are killed at
\* their budget.  Nothing makes a call begin or a run end.
FairSpec == Spec /\ \A c \in Call : WF_vars(Proceed(c))

---------------------------------------------------------------------------
(* Properties.                                                             *)

Refused(c) == outcome[c] = "refused"
Sibling(c, d) == RunOf[c] = RunOf[d]

\* What a refusal tells the consultant is true, and is one refusal.  "Nothing
\* was sent" is never said of a run of which a payload clears, before the refusal
\* or after it; "part-way" only of a run that had cleared a payload, or was over.
\* Every call of a run is refused for the same reason and with the same words,
\* until the run is over.
RefusalIsTrue ==
  \A c \in Call : Refused(c) =>
    /\ IF said[c].sent
       THEN \/ RunOf[c] \in over
            \/ \E d \in Call : Sibling(c, d) /\ outcome[d] = "cleared"
       ELSE \A d \in Call : Sibling(c, d) => outcome[d] # "cleared"
    /\ RunOf[c] \notin over =>
         \A d \in Call : Sibling(c, d) /\ Refused(d) => said[d] = said[c]

\* The platform's places are never exceeded, and none outlives its run: a run
\* that is over holds no place, and a one-call run holds one only while it runs.
PlacesComeBack ==
  /\ Cardinality(InUse) <= MaxRuns
  /\ InUse \cap over = {}
  /\ \A c \in InUse \cap Call : pc[c] \notin {"new", "done"}

\* What the gate promises of a run: its places, slots and children implement it.
GateOf(r) ==
  LET refused == IF unplaced[r] # NoRefusal THEN unplaced[r]
                 ELSE IF places[r] # None THEN place[places[r]].refused
                 ELSE NoRefusal
  IN IF r \in over THEN "over"
     ELSE IF refused = NoRefusal THEN "open"
     ELSE IF refused.sent THEN "part_way" ELSE "refused"

ClearedOf(r) == Cardinality({c \in Call : RunOf[c] = r /\ outcome[c] = "cleared"})

Gate == INSTANCE RedactionGate WITH gate <- [r \in Run |-> GateOf(r)],
                                    clears <- [r \in Run |-> ClearedOf(r)]

\* To whoever calls it, the whole of isolation is the gate: what clears and what
\* is said of it is what RedactionGate allows.
ImplementsGate == Gate!GateSpec

\* A call that begins ends: cleared, or refused.
CallsEnd == \A c \in Call : pc[c] # "new" ~> pc[c] = "done"
=============================================================================
