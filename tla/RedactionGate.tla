--------------------------- MODULE RedactionGate ---------------------------
(***************************************************************************)
(* What the redaction boundary promises of each run, whatever its places,  *)
(* slots and children do: payloads clear until the run is refused, the     *)
(* refusal says truly whether any had, and nothing clears after it or      *)
(* after the run's end.  Isolation implements it.                          *)
(***************************************************************************)
EXTENDS Naturals

CONSTANT Run

VARIABLES
  gate,    \* of each run: open, refused with nothing sent, part_way, over
  clears   \* of each run: the payloads cleared for sending

GateInit == gate = [r \in Run |-> "open"] /\ clears = [r \in Run |-> 0]

Clear(r) == /\ gate[r] = "open"
            /\ clears' = [clears EXCEPT ![r] = @ + 1]
            /\ UNCHANGED gate

RefuseRun(r) ==
  /\ gate[r] = "open"
  /\ gate' = [gate EXCEPT ![r] = IF clears[r] = 0 THEN "refused" ELSE "part_way"]
  /\ UNCHANGED clears

Close(r) == gate' = [gate EXCEPT ![r] = "over"] /\ UNCHANGED clears

GateNext == \E r \in Run : Clear(r) \/ RefuseRun(r) \/ Close(r)

GateSpec == GateInit /\ [][GateNext]_<<gate, clears>>
=============================================================================
