----------------------------- MODULE FifoSlots -----------------------------
(***************************************************************************)
(* FifoSlots of src/apps/api/app/ai/isolation.py: the child slots of the   *)
(* redactor, handed out in arrival order by ticket.  A step is what one    *)
(* thread does under the slots' lock; between two steps a waiter's timeout *)
(* and the release that grants it race.                                    *)
(***************************************************************************)
EXTENDS Naturals, Sequences, FiniteSets, SequencesExt

CONSTANTS
  Call,      \* the calls that want a slot, each once
  Capacity   \* shield_redaction_max_children

ASSUME SlotsAssumption == Capacity \in Nat \ {0} /\ IsFiniteSet(Call)

VARIABLES
  free,      \* _free
  queue,     \* _queue: the calls whose ticket is in it, oldest first
  granted,   \* the calls whose ticket says granted and that have not seen it
  holding    \* the calls wait() has answered True to, until they release

slotVars == <<free, queue, granted, holding>>

Waiting == ToSet(queue)

SlotTypeOK == /\ free \in 0..Capacity
              /\ queue \in Seq(Call)
              /\ granted \in SUBSET Call /\ holding \in SUBSET Call

SlotInit == free = Capacity /\ queue = <<>> /\ granted = {} /\ holding = {}

\* wait(), its first hold of the lock: a slot at once, or a ticket.
TakeSlot(c) ==
  /\ free > 0 /\ queue = <<>>
  /\ free' = free - 1 /\ holding' = holding \cup {c}
  /\ UNCHANGED <<queue, granted>>

JoinQueue(c) ==
  /\ ~(free > 0 /\ queue = <<>>)
  /\ queue' = Append(queue, c)
  /\ UNCHANGED <<free, granted, holding>>

\* The ticket of c leaves the queue, from wherever it is.
LeaveQueue(c) ==
  \E i \in DOMAIN queue : queue[i] = c /\ queue' = RemoveAt(queue, i)

\* Mutation of GiveUp: the timeout is believed, the grant not looked at again.
BelieveTimeout(c) ==
  /\ IF c \in granted THEN UNCHANGED queue ELSE LeaveQueue(c)
  /\ granted' = granted \ {c}
  /\ UNCHANGED <<free, holding>>

\* wait(), its second hold of the lock, after the event or the timeout: a
\* ticket granted meanwhile counts, whichever woke the thread.
SeeGrant(c) ==
  /\ c \in granted
  /\ granted' = granted \ {c} /\ holding' = holding \cup {c}
  /\ UNCHANGED <<free, queue>>

GiveUp(c) ==
  /\ LeaveQueue(c)
  /\ UNCHANGED <<free, granted, holding>>

\* Mutation of NextInTurn: the newest ticket is served first.
NewestFirst == Len(queue)

NextInTurn == 1

\* release(): the slot goes to a ticket, or back. (The code raises instead of
\* counting a slot above the capacity: SlotsConserved says it never has to.)
ReleaseSlot(c) ==
  /\ c \in holding
  /\ holding' = holding \ {c}
  /\ IF queue # <<>>
     THEN /\ queue' = RemoveAt(queue, NextInTurn)
          /\ granted' = granted \cup {queue[NextInTurn]}
          /\ UNCHANGED free
     ELSE /\ free < Capacity
          /\ free' = free + 1
          /\ UNCHANGED <<queue, granted>>

Touched == Waiting \cup granted \cup holding

SlotNext == \E c \in Call :
  \/ c \notin Touched /\ (TakeSlot(c) \/ JoinQueue(c))
  \/ SeeGrant(c) \/ GiveUp(c) \/ ReleaseSlot(c)

SlotSpec == SlotInit /\ [][SlotNext]_slotVars

---------------------------------------------------------------------------

Distinct(s) == \A i, j \in DOMAIN s : s[i] = s[j] => i = j

\* No slot is lost or handed out twice, in the race of a grant with the timeout
\* of the same ticket above all; nobody queues while a slot is free.
SlotsConserved ==
  /\ free + Cardinality(granted) + Cardinality(holding) = Capacity
  /\ free > 0 => queue = <<>>
  /\ granted \cap holding = {}
  /\ Waiting \cap (granted \cup holding) = {} /\ Distinct(queue)

\* Slots are handed out in arrival order: whoever is still waiting after a step
\* that serves a call was not in the queue ahead of it.
ServedInTurn ==
  [][\A c \in Call :
       /\ c \in granted' \cup holding' /\ c \notin granted \cup holding
       => LET ahead == IF c \in Waiting
                       THEN ToSet(SubSeq(queue, 1, (CHOOSE i \in DOMAIN queue :
                                                      queue[i] = c) - 1))
                       ELSE Waiting
          IN ahead = {}]_slotVars
=============================================================================
