-------------------------- MODULE Isolation_proofs --------------------------
(***************************************************************************)
(* Proofs about Isolation and its FifoSlots, for any calls, runs and       *)
(* limits.                                                                 *)
(***************************************************************************)
EXTENDS Isolation, TLAPS, FiniteSetTheorems, SequenceTheorems

---------------------------------------------------------------------------
(* Queues of tickets.                                                      *)

\* What is left of a queue without its i-th ticket.
LEMMA RemovedAt ==
  ASSUME NEW s \in Seq(Call), NEW i \in DOMAIN s
  PROVE  /\ RemoveAt(s, i) \in Seq(Call)
         /\ Len(RemoveAt(s, i)) = Len(s) - 1
         /\ \A j \in 1..(Len(s) - 1) :
              RemoveAt(s, i)[j] = IF j < i THEN s[j] ELSE s[j + 1]
<1> DEFINE a == SubSeq(s, 1, i - 1)
           b == SubSeq(s, i + 1, Len(s))
<1>1. Len(s) \in Nat /\ i \in 1..Len(s) /\ DOMAIN s = 1..Len(s)
  OBVIOUS
<1>2. /\ a \in Seq(Call) /\ Len(a) = i - 1
      /\ \A j \in 1..(i - 1) : a[j] = s[j]
  <2>1. \A j \in 1..(i - 1) : j \in 1..Len(s)  BY <1>1
  <2>2. QED  BY <1>1, <2>1, SubSeqProperties
<1>3. /\ b \in Seq(Call) /\ Len(b) = Len(s) - i
      /\ \A j \in 1..(Len(s) - i) : b[j] = s[i + j]
  <2>1. \A j \in (i + 1)..Len(s) : j \in 1..Len(s)  BY <1>1
  <2>2. QED  BY <1>1, <2>1, SubSeqProperties
<1> HIDE DEF a, b
<1>4. /\ a \o b \in Seq(Call) /\ Len(a \o b) = Len(s) - 1
      /\ \A j \in 1..(Len(s) - 1) :
           (a \o b)[j] = IF j < i THEN s[j] ELSE s[j + 1]
  <2>1. /\ a \o b \in Seq(Call) /\ Len(a \o b) = Len(a) + Len(b)
        /\ \A j \in 1..(Len(a) + Len(b)) :
             (a \o b)[j] = IF j <= Len(a) THEN a[j] ELSE b[j - Len(a)]
    BY <1>2, <1>3, ConcatProperties
  <2>2. Len(a) + Len(b) = Len(s) - 1
    BY <1>1, <1>2, <1>3
  <2>3. ASSUME NEW j \in 1..(Len(s) - 1)
        PROVE  (a \o b)[j] = IF j < i THEN s[j] ELSE s[j + 1]
    <3>1. CASE j < i  BY <1>1, <1>2, <2>1, <2>2, <3>1
    <3>2. CASE ~(j < i)
      <4>1. j - (i - 1) \in 1..(Len(s) - i) /\ i + (j - (i - 1)) = j + 1
        BY <1>1, <3>2
      <4>2. (a \o b)[j] = b[j - (i - 1)]
        BY <1>1, <1>2, <2>1, <2>2, <3>2
      <4>3. QED  BY <1>3, <3>2, <4>1, <4>2
    <3>3. QED  BY <3>1, <3>2
  <2>4. QED  BY <2>1, <2>2, <2>3
<1>5. QED  BY <1>4 DEF RemoveAt, a, b

\* A queue without repetition loses exactly the ticket removed, and keeps the
\* order of the others.
LEMMA RemovedTicket ==
  ASSUME NEW s \in Seq(Call), NEW i \in DOMAIN s, Distinct(s)
  PROVE  /\ ToSet(RemoveAt(s, i)) = ToSet(s) \ {s[i]}
         /\ Distinct(RemoveAt(s, i))
<1> DEFINE t == RemoveAt(s, i)
<1>1. /\ t \in Seq(Call) /\ Len(t) = Len(s) - 1
      /\ \A j \in 1..(Len(s) - 1) : t[j] = IF j < i THEN s[j] ELSE s[j + 1]
  BY RemovedAt
<1>2. /\ Len(s) \in Nat /\ DOMAIN s = 1..Len(s) /\ i \in 1..Len(s)
  OBVIOUS
<1> HIDE DEF t
<1>3. DOMAIN t = 1..(Len(s) - 1)  BY <1>1
<1>4. \A j \in DOMAIN t : \E k \in DOMAIN s : k # i /\ t[j] = s[k]
  <2>1. SUFFICES ASSUME NEW j \in DOMAIN t
                 PROVE  \E k \in DOMAIN s : k # i /\ t[j] = s[k]
    OBVIOUS
  <2>2. CASE j < i  BY <1>1, <1>2, <1>3, <2>2
  <2>3. CASE ~(j < i)
    <3>1. j + 1 \in DOMAIN s /\ j + 1 # i /\ t[j] = s[j + 1]
      BY <1>1, <1>2, <1>3, <2>3
    <3>2. QED  BY <3>1
  <2>4. QED  BY <2>2, <2>3
<1>5. \A k \in DOMAIN s : k # i => \E j \in DOMAIN t : t[j] = s[k]
  <2>1. SUFFICES ASSUME NEW k \in DOMAIN s, k # i
                 PROVE  \E j \in DOMAIN t : t[j] = s[k]
    OBVIOUS
  <2>2. CASE k < i
    <3>1. k \in DOMAIN t /\ t[k] = s[k]  BY <1>1, <1>2, <1>3, <2>2
    <3>2. QED  BY <3>1
  <2>3. CASE ~(k < i)
    <3>1. k - 1 \in DOMAIN t /\ ~(k - 1 < i) /\ (k - 1) + 1 = k
      BY <1>2, <1>3, <2>1, <2>3
    <3>2. t[k - 1] = s[k]  BY <1>1, <1>3, <3>1
    <3>3. QED  BY <3>1, <3>2
  <2>4. QED  BY <2>2, <2>3
<1>6. ToSet(t) = ToSet(s) \ {s[i]}
  <2>1. \A k \in DOMAIN s : k # i => s[k] # s[i]  BY DEF Distinct
  <2>2. ASSUME NEW x \in ToSet(t)  PROVE x \in ToSet(s) \ {s[i]}
    BY <1>4, <2>1, <2>2 DEF ToSet
  <2>3. ASSUME NEW x \in ToSet(s) \ {s[i]}  PROVE x \in ToSet(t)
    BY <1>5, <2>3 DEF ToSet
  <2>4. QED  BY <2>2, <2>3
<1>7. Distinct(t)
  <2>1. SUFFICES ASSUME NEW j \in DOMAIN t, NEW k \in DOMAIN t, t[j] = t[k]
                 PROVE  j = k
    BY DEF Distinct
  <2> DEFINE at(x) == IF x < i THEN x ELSE x + 1
  <2>2. /\ at(j) \in DOMAIN s /\ t[j] = s[at(j)]
        /\ at(k) \in DOMAIN s /\ t[k] = s[at(k)]
    BY <1>1, <1>2, <1>3
  <2>3. at(j) = at(k)  BY <2>1, <2>2 DEF Distinct
  <2>4. QED  BY <1>2, <1>3, <2>3
<1>8. QED  BY <1>6, <1>7 DEF t

\* A ticket appended is the last.
LEMMA JoinedTicket ==
  ASSUME NEW s \in Seq(Call), NEW c \in Call, c \notin ToSet(s), Distinct(s)
  PROVE  /\ Append(s, c) \in Seq(Call)
         /\ ToSet(Append(s, c)) = ToSet(s) \cup {c}
         /\ Distinct(Append(s, c))
<1> DEFINE t == Append(s, c)
<1>1. /\ t \in Seq(Call) /\ Len(t) = Len(s) + 1 /\ t[Len(s) + 1] = c
      /\ \A j \in 1..Len(s) : t[j] = s[j]
      /\ Len(s) \in Nat /\ DOMAIN s = 1..Len(s)
  OBVIOUS
<1> HIDE DEF t
<1>2. DOMAIN t = 1..(Len(s) + 1)  BY <1>1
<1>3. \A j \in DOMAIN t : \/ j \in DOMAIN s /\ t[j] = s[j]
                          \/ j = Len(s) + 1 /\ t[j] = c
  BY <1>1, <1>2
<1>4. DOMAIN s \subseteq DOMAIN t /\ Len(s) + 1 \in DOMAIN t
  BY <1>1, <1>2
<1>5. ToSet(t) = ToSet(s) \cup {c}
  <2>1. ASSUME NEW x \in ToSet(t)  PROVE x \in ToSet(s) \cup {c}
    BY <1>3, <2>1 DEF ToSet
  <2>2. ASSUME NEW x \in ToSet(s) \cup {c}  PROVE x \in ToSet(t)
    BY <1>1, <1>4, <2>2 DEF ToSet
  <2>3. QED  BY <2>1, <2>2
<1>6. Distinct(t)
  <2>1. \A j \in DOMAIN s : s[j] # c  BY DEF ToSet
  <2>2. QED  BY <1>3, <2>1 DEF Distinct
<1>7. QED  BY <1>1, <1>5, <1>6 DEF t

---------------------------------------------------------------------------
(* The slots.                                                              *)

SlotInv == SlotTypeOK /\ SlotsConserved

\* Sets of calls that gain or lose one.
LEMMA OneMore ==
  ASSUME NEW S \in SUBSET Call, NEW c \in Call, c \notin S
  PROVE  /\ Cardinality(S \cup {c}) = Cardinality(S) + 1
         /\ Cardinality(S) \in Nat
<1>1. IsFiniteSet(S)  BY SlotsAssumption, FS_Subset
<1>2. Cardinality(S) \in Nat  BY <1>1, FS_CardinalityType
<1>3. QED  BY <1>1, <1>2, FS_AddElement

LEMMA OneLess ==
  ASSUME NEW S \in SUBSET Call, NEW c \in S
  PROVE  /\ Cardinality(S \ {c}) = Cardinality(S) - 1
         /\ Cardinality(S) \in Nat
<1>1. S \ {c} \in SUBSET Call /\ c \notin S \ {c} /\ (S \ {c}) \cup {c} = S
  OBVIOUS
<1>2. /\ Cardinality(S) = Cardinality(S \ {c}) + 1
      /\ Cardinality(S \ {c}) \in Nat
  BY <1>1, OneMore
<1>3. QED  BY <1>2

LEMMA SlotInit_Inv == SlotInit => SlotInv
<1> SUFFICES ASSUME SlotInit PROVE SlotInv  OBVIOUS
<1>1. Cardinality({}) = 0  BY FS_EmptySet
<1>2. QED
  BY <1>1, SlotsAssumption
  DEF SlotInit, SlotInv, SlotTypeOK, SlotsConserved, Waiting, ToSet, Distinct

LEMMA TakeKeeps ==
  ASSUME SlotInv, NEW c \in Call, c \notin Touched, TakeSlot(c)
  PROVE  SlotInv'
<1>1. /\ Cardinality(holding \cup {c}) = Cardinality(holding) + 1
      /\ Cardinality(holding) \in Nat
  BY OneMore DEF SlotInv, SlotTypeOK, Touched
<1>2. granted \in SUBSET Call  BY DEF SlotInv, SlotTypeOK
<1>3. IsFiniteSet(granted)  BY <1>2, SlotsAssumption, FS_Subset
<1>4. Cardinality(granted) \in Nat  BY <1>3, FS_CardinalityType
<1>5. free' + Cardinality(granted') + Cardinality(holding') = Capacity
  BY <1>1, <1>4, SlotsAssumption
  DEF SlotInv, SlotTypeOK, SlotsConserved, TakeSlot
<1>6. SlotTypeOK'
  BY SlotsAssumption DEF SlotInv, SlotTypeOK, TakeSlot
<1>7. QED
  BY <1>5, <1>6
  DEF SlotInv, SlotsConserved, TakeSlot, Touched, Waiting, ToSet, Distinct

LEMMA JoinKeeps ==
  ASSUME SlotInv, NEW c \in Call, c \notin Touched, JoinQueue(c)
  PROVE  SlotInv'
<1>1. /\ queue \in Seq(Call) /\ Distinct(queue) /\ c \notin ToSet(queue)
      /\ queue' = Append(queue, c)
  BY DEF SlotInv, SlotTypeOK, SlotsConserved, Touched, Waiting, JoinQueue
<1>2. /\ queue' \in Seq(Call) /\ Distinct(queue')
      /\ ToSet(queue') = ToSet(queue) \cup {c}
  BY <1>1, JoinedTicket
<1>3. ~(free > 0)  BY DEF SlotInv, SlotsConserved, JoinQueue
<1>4. QED
  BY <1>2, <1>3
  DEF SlotInv, SlotTypeOK, SlotsConserved, Touched, Waiting, JoinQueue

LEMMA SeeKeeps ==
  ASSUME SlotInv, NEW c \in Call, SeeGrant(c)
  PROVE  SlotInv'
<1>1. /\ granted \in SUBSET Call /\ holding \in SUBSET Call
      /\ c \in granted /\ c \notin holding
  BY DEF SlotInv, SlotTypeOK, SlotsConserved, SeeGrant
<1>2. /\ Cardinality(granted \ {c}) = Cardinality(granted) - 1
      /\ Cardinality(granted) \in Nat
  BY <1>1, OneLess
<1>3. /\ Cardinality(holding \cup {c}) = Cardinality(holding) + 1
      /\ Cardinality(holding) \in Nat
  BY <1>1, OneMore
<1>4. free' + Cardinality(granted') + Cardinality(holding') = Capacity
  BY <1>2, <1>3, SlotsAssumption
  DEF SlotInv, SlotTypeOK, SlotsConserved, SeeGrant
<1>5. QED
  BY <1>1, <1>4 DEF SlotInv, SlotTypeOK, SlotsConserved, SeeGrant, Waiting

LEMMA GiveUpKeeps ==
  ASSUME SlotInv, NEW c \in Call, GiveUp(c)
  PROVE  SlotInv'
<1>1. PICK i \in DOMAIN queue : queue[i] = c /\ queue' = RemoveAt(queue, i)
  BY DEF GiveUp, LeaveQueue
<1>2. queue \in Seq(Call) /\ Distinct(queue)
  BY DEF SlotInv, SlotTypeOK, SlotsConserved
<1>3. /\ queue' \in Seq(Call) /\ Distinct(queue')
      /\ ToSet(queue') = ToSet(queue) \ {c}
  BY <1>1, <1>2, RemovedAt, RemovedTicket
<1>4. queue # <<>>  BY <1>1
<1>5. ~(free > 0)  BY <1>4 DEF SlotInv, SlotsConserved
<1>6. QED
  BY <1>3, <1>5 DEF SlotInv, SlotTypeOK, SlotsConserved, GiveUp, Waiting

\* A release gives the slot to the oldest ticket, or back.
LEMMA ReleaseKeeps ==
  ASSUME SlotInv, NEW c \in Call, ReleaseSlot(c)
  PROVE  SlotInv'
<1>1. /\ granted \in SUBSET Call /\ holding \in SUBSET Call /\ c \in holding
      /\ queue \in Seq(Call) /\ Distinct(queue) /\ holding' = holding \ {c}
  BY DEF SlotInv, SlotTypeOK, SlotsConserved, ReleaseSlot
<1>2. /\ Cardinality(holding \ {c}) = Cardinality(holding) - 1
      /\ Cardinality(holding) \in Nat
  BY <1>1, OneLess
<1>3. CASE queue # <<>>
  <2>1. /\ 1 \in DOMAIN queue /\ queue[1] \in Call
        /\ queue' = RemoveAt(queue, 1) /\ granted' = granted \cup {queue[1]}
        /\ free' = free
    BY <1>1, <1>3, EmptySeq DEF ReleaseSlot, NextInTurn
  <2>2. /\ queue' \in Seq(Call) /\ Distinct(queue')
        /\ ToSet(queue') = ToSet(queue) \ {queue[1]}
    BY <1>1, <2>1, RemovedAt, RemovedTicket
  <2>3. queue[1] \in ToSet(queue)  BY <2>1 DEF ToSet
  <2>4. queue[1] \notin granted /\ queue[1] \notin holding
    BY <2>3 DEF SlotInv, SlotsConserved, Waiting
  <2>5. /\ Cardinality(granted \cup {queue[1]}) = Cardinality(granted) + 1
        /\ Cardinality(granted) \in Nat
    BY <1>1, <2>1, <2>4, OneMore
  <2>6. free' + Cardinality(granted') + Cardinality(holding') = Capacity
    BY <1>1, <1>2, <2>1, <2>5, SlotsAssumption
    DEF SlotInv, SlotTypeOK, SlotsConserved
  <2>7. ~(free' > 0)  BY <1>3, <2>1 DEF SlotInv, SlotsConserved
  <2>8. SlotTypeOK'  BY <1>1, <2>1, <2>2 DEF SlotInv, SlotTypeOK
  <2>9. /\ granted' \cap holding' = {}
        /\ ToSet(queue') \cap (granted' \cup holding') = {}
    BY <1>1, <2>1, <2>2, <2>4 DEF SlotInv, SlotsConserved, Waiting
  <2>10. QED
    BY <2>2, <2>6, <2>7, <2>8, <2>9 DEF SlotInv, SlotsConserved, Waiting
<1>4. CASE queue = <<>>
  <2>1. /\ free < Capacity /\ free' = free + 1 /\ queue' = queue
        /\ granted' = granted
    BY <1>4 DEF ReleaseSlot
  <2>2. IsFiniteSet(granted)  BY <1>1, SlotsAssumption, FS_Subset
  <2>3. Cardinality(granted) \in Nat  BY <2>2, FS_CardinalityType
  <2>4. free' + Cardinality(granted') + Cardinality(holding') = Capacity
    BY <1>1, <1>2, <2>1, <2>3, SlotsAssumption
    DEF SlotInv, SlotTypeOK, SlotsConserved
  <2>5. SlotTypeOK'
    BY <1>1, <2>1, SlotsAssumption DEF SlotInv, SlotTypeOK
  <2>6. QED
    BY <1>1, <1>4, <2>1, <2>4, <2>5 DEF SlotInv, SlotsConserved, Waiting
<1>5. QED  BY <1>3, <1>4

LEMMA SlotStep ==
  ASSUME SlotInv, [SlotNext]_slotVars
  PROVE  SlotInv'
<1>1. CASE UNCHANGED slotVars
  BY <1>1 DEF slotVars, SlotInv, SlotTypeOK, SlotsConserved, Waiting, ToSet,
              Distinct
<1>2. QED
  BY <1>1, TakeKeeps, JoinKeeps, SeeKeeps, GiveUpKeeps, ReleaseKeeps DEF SlotNext

\* A step of the slots serves the oldest ticket, or a call that had nobody to
\* wait behind.
LEMMA TurnStep ==
  ASSUME SlotInv, [SlotNext]_slotVars, NEW c \in Call,
         c \in granted' \cup holding', c \notin granted \cup holding
  PROVE  (IF c \in Waiting
          THEN ToSet(SubSeq(queue, 1, (CHOOSE i \in DOMAIN queue :
                                         queue[i] = c) - 1))
          ELSE Waiting) = {}
<1>1. queue \in Seq(Call) /\ Distinct(queue)
  BY DEF SlotInv, SlotTypeOK, SlotsConserved
<1>2. ASSUME NEW d \in Call, d \notin Touched, TakeSlot(d)
      PROVE  c \notin Waiting /\ Waiting = {}
  BY <1>2 DEF TakeSlot, Touched, Waiting, ToSet
<1>3. ASSUME NEW d \in Call, ReleaseSlot(d)
      PROVE  1 \in DOMAIN queue /\ c = queue[1]
  <2>1. queue # <<>>  BY <1>3 DEF ReleaseSlot
  <2>2. c = queue[1]  BY <1>3, <2>1 DEF ReleaseSlot, NextInTurn
  <2>3. QED  BY <1>1, <2>1, <2>2, EmptySeq
<1>4. ASSUME 1 \in DOMAIN queue, c = queue[1]
      PROVE  ToSet(SubSeq(queue, 1, (CHOOSE i \in DOMAIN queue :
                                       queue[i] = c) - 1)) = {}
  <2>1. (CHOOSE i \in DOMAIN queue : queue[i] = c) = 1
    BY <1>1, <1>4 DEF Distinct
  <2>2. SubSeq(queue, 1, 0) = <<>>  BY <1>1, SubSeqEmpty
  <2>3. QED  BY <2>1, <2>2 DEF ToSet
<1>5. ASSUME NEW d \in Call, JoinQueue(d) \/ SeeGrant(d) \/ GiveUp(d)
      PROVE  FALSE
  BY <1>5 DEF JoinQueue, SeeGrant, GiveUp
<1>6. ~UNCHANGED slotVars  BY DEF slotVars
<1>7. CASE \E d \in Call : d \notin Touched /\ TakeSlot(d)
  BY <1>2, <1>7
<1>8. CASE \E d \in Call : ReleaseSlot(d)
  <2>1. 1 \in DOMAIN queue /\ c = queue[1]  BY <1>3, <1>8
  <2>2. c \in Waiting  BY <2>1 DEF Waiting, ToSet
  <2>3. QED  BY <1>4, <2>1, <2>2
<1>9. QED  BY <1>5, <1>6, <1>7, <1>8 DEF SlotNext

---------------------------------------------------------------------------
(* Types.                                                                  *)

LEMMA RefusalsTyped ==
  /\ NoRefusal \in Refusal
  /\ \A sent \in BOOLEAN : Busy(sent) \in Refusal
  /\ \A reason \in {"busy", "budget", "failed"}, sent \in BOOLEAN :
       [reason |-> reason, sent |-> sent] \in Refusal
  /\ \A sent \in BOOLEAN : Busy(sent) # NoRefusal
  /\ \A reason \in {"busy", "budget", "failed"}, sent \in BOOLEAN :
       [reason |-> reason, sent |-> sent] # NoRefusal
BY DEF NoRefusal, Refusal, Busy

\* What the constants are: the key of a call, and which calls are alone.
LEMMA KeysTyped ==
  /\ \A c \in Call : RunOf[c] \in Key /\ c \in Key /\ c # None
  /\ \A c, d \in Call : RunOf[d] = c => d = c
  /\ \A r \in Run : r \in Key /\ r \notin Call /\ r # None
BY IsolationAssumption DEF Key

IsoTyped ==
  /\ places \in [Key -> Call \cup {None}]
  /\ place \in [Call -> [cleared : Nat, refused : Refusal]]
  /\ mine \in [Call -> Call \cup {None}]
  /\ unplaced \in [Key -> Refusal]
  /\ ended \in Seq(Key) /\ over \in SUBSET Run
  /\ pc \in [Call -> Pc]
  /\ outcome \in [Call -> Outcome] /\ said \in [Call -> Refusal]

\* A call goes somewhere; nobody else moves.
LEMMA Goes ==
  ASSUME IsoTyped, NEW c \in Call, NEW l \in Pc, Goto(c, l)
  PROVE  /\ pc' \in [Call -> Pc] /\ pc'[c] = l
         /\ \A d \in Call : d # c => pc'[d] = pc[d]
BY DEF IsoTyped, Goto

LEMMA Leaves ==
  ASSUME IsoTyped, NEW c \in Call, Leave(c)
  PROVE  /\ pc' \in [Call -> Pc]
         /\ pc'[c] = IF OneCall(c) THEN "close" ELSE "done"
         /\ \A d \in Call : d # c => pc'[d] = pc[d]
BY DEF IsoTyped, Goto, Leave, Pc

LEMMA Raises ==
  ASSUME IsoTyped, NEW c \in Call, NEW s \in Refusal, Raise(c, s)
  PROVE  /\ outcome' \in [Call -> Outcome] /\ said' \in [Call -> Refusal]
         /\ outcome'[c] = "refused" /\ said'[c] = s
         /\ \A d \in Call : d # c => outcome'[d] = outcome[d] /\ said'[d] = said[d]
BY DEF IsoTyped, Raise, Outcome

LEMMA Settles ==
  ASSUME IsoTyped, NEW c \in Call, NEW o \in Outcome, Settled(c, o)
  PROVE  /\ outcome' \in [Call -> Outcome] /\ outcome'[c] = o
         /\ \A d \in Call : d # c => outcome'[d] = outcome[d]
         /\ said' = said
BY DEF IsoTyped, Settled

\* The refusal of a place, and what it was before.
LEMMA Refuses ==
  ASSUME IsoTyped, NEW c \in Call, mine[c] \in Call,
         NEW reason \in {"busy", "budget", "failed"}, Refuse(c, reason)
  PROVE  LET m == mine[c]
             s == IF Ended(m) THEN place[m].refused
                  ELSE [reason |-> reason, sent |-> place[m].cleared > 0]
         IN /\ s \in Refusal /\ s # NoRefusal /\ Raise(c, s)
            /\ place' \in [Call -> [cleared : Nat, refused : Refusal]]
            /\ place'[m].cleared = place[m].cleared /\ place'[m].refused = s
            /\ \A d \in Call : d # m => place'[d] = place[d]
<1> DEFINE m == mine[c]
           s == IF Ended(m) THEN place[m].refused
                ELSE [reason |-> reason, sent |-> place[m].cleared > 0]
<1>1. /\ m \in Call /\ place \in [Call -> [cleared : Nat, refused : Refusal]]
      /\ place[m] \in [cleared : Nat, refused : Refusal]
  BY DEF IsoTyped
<1>2. s \in Refusal /\ s # NoRefusal
  <2>1. CASE Ended(m)
    BY <1>1, <2>1 DEF Ended
  <2>2. CASE ~Ended(m)
    <3>1. (place[m].cleared > 0) \in BOOLEAN  OBVIOUS
    <3>2. s = [reason |-> reason, sent |-> place[m].cleared > 0]  BY <2>2
    <3>3. QED  BY <3>1, <3>2, RefusalsTyped
  <2>3. QED  BY <2>1, <2>2
<1>3. Raise(c, s) /\ place' = [place EXCEPT ![m].refused = s]
  BY DEF Refuse
<1> HIDE DEF m, s
<1>4. /\ place' \in [Call -> [cleared : Nat, refused : Refusal]]
      /\ place'[m].cleared = place[m].cleared /\ place'[m].refused = s
      /\ \A d \in Call : d # m => place'[d] = place[d]
  BY <1>1, <1>2, <1>3
<1>5. QED  BY <1>2, <1>3, <1>4 DEF m, s

---------------------------------------------------------------------------
(* The calls: each holds what its place in the code says it holds.         *)

SlotsOfCalls ==
  \A c \in Call :
    /\ pc[c] = "queued" <=> c \in Waiting \cup granted
    /\ pc[c] \in {"slot", "child", "give_back"} <=> c \in holding

InPlace == {"admitted", "queued", "timed_out", "slot", "child", "give_back",
            "settle"}

Heard == {"ok", "timeout", "died", "http"}

CallsSound ==
  \A c \in Call :
    /\ pc[c] \in InPlace => mine[c] # None
    /\ pc[c] = "new" => mine[c] = None
    /\ pc[c] = "close" => OneCall(c)
    /\ pc[c] \in (InPlace \ {"give_back", "settle"}) \cup {"new"}
       => outcome[c] = "none"
    /\ pc[c] = "give_back" => outcome[c] \in Heard \cup {"refused"}
    /\ pc[c] = "settle" => outcome[c] \in Heard
    /\ outcome[c] = "cleared" => mine[c] # None

CallInv == SlotInv /\ SlotsOfCalls /\ CallsSound

TicketsOf == Waiting \cup granted

\* What each operation of the slots does to the call that asks, and to no other.
LEMMA SlotEffects ==
  ASSUME SlotInv, NEW c \in Call
  PROVE  /\ TakeSlot(c) => TicketsOf' = TicketsOf /\ holding' = holding \cup {c}
         /\ (JoinQueue(c) /\ c \notin Touched)
              => TicketsOf' = TicketsOf \cup {c} /\ holding' = holding
         /\ SeeGrant(c)
              => TicketsOf' = TicketsOf \ {c} /\ holding' = holding \cup {c}
         /\ GiveUp(c) => TicketsOf' = TicketsOf \ {c} /\ holding' = holding
         /\ ReleaseSlot(c)
              => TicketsOf' = TicketsOf /\ holding' = holding \ {c}
<1>1. /\ queue \in Seq(Call) /\ Distinct(queue) /\ Waiting = ToSet(queue)
      /\ Waiting' = ToSet(queue') /\ Waiting \cap (granted \cup holding) = {}
  BY DEF SlotInv, SlotTypeOK, SlotsConserved, Waiting
<1>2. TakeSlot(c) => TicketsOf' = TicketsOf /\ holding' = holding \cup {c}
  BY DEF TakeSlot, TicketsOf, Waiting
<1>3. ASSUME JoinQueue(c), c \notin Touched
      PROVE  TicketsOf' = TicketsOf \cup {c} /\ holding' = holding
  <2>1. queue' = Append(queue, c) /\ granted' = granted /\ holding' = holding
    BY <1>3 DEF JoinQueue
  <2>2. ToSet(queue') = ToSet(queue) \cup {c}
    BY <1>1, <1>3, <2>1, JoinedTicket DEF Touched
  <2>3. QED  BY <1>1, <2>1, <2>2 DEF TicketsOf
<1>4. SeeGrant(c)
      => TicketsOf' = TicketsOf \ {c} /\ holding' = holding \cup {c}
  BY <1>1 DEF SeeGrant, TicketsOf, Waiting
<1>5. ASSUME GiveUp(c)
      PROVE  TicketsOf' = TicketsOf \ {c} /\ holding' = holding
  <2>1. PICK i \in DOMAIN queue : queue[i] = c /\ queue' = RemoveAt(queue, i)
    BY <1>5 DEF GiveUp, LeaveQueue
  <2>2. ToSet(queue') = ToSet(queue) \ {c}
    BY <1>1, <2>1, RemovedTicket
  <2>3. c \in ToSet(queue)  BY <2>1 DEF ToSet
  <2>4. granted' = granted /\ holding' = holding  BY <1>5 DEF GiveUp
  <2>5. QED  BY <1>1, <2>2, <2>3, <2>4 DEF TicketsOf
<1>6. ASSUME ReleaseSlot(c)
      PROVE  TicketsOf' = TicketsOf /\ holding' = holding \ {c}
  <2>1. holding' = holding \ {c}  BY <1>6 DEF ReleaseSlot
  <2>2. CASE queue = <<>>
    BY <1>6, <2>1, <2>2 DEF ReleaseSlot, TicketsOf, Waiting
  <2>3. CASE queue # <<>>
    <3>1. /\ 1 \in DOMAIN queue /\ queue' = RemoveAt(queue, 1)
          /\ granted' = granted \cup {queue[1]}
      BY <1>1, <1>6, <2>3, EmptySeq DEF ReleaseSlot, NextInTurn
    <3>2. ToSet(queue') = ToSet(queue) \ {queue[1]}
      BY <1>1, <3>1, RemovedTicket
    <3>3. queue[1] \in ToSet(queue)  BY <3>1 DEF ToSet
    <3>4. QED  BY <1>1, <2>1, <3>1, <3>2, <3>3 DEF TicketsOf
  <2>4. QED  BY <2>2, <2>3
<1>7. QED  BY <1>2, <1>3, <1>4, <1>5, <1>6

\* A step moves one call, and its slots say so.
LEMMA SlotsFollow ==
  ASSUME SlotsOfCalls, NEW c \in Call,
         \A d \in Call \ {c} : /\ pc'[d] = pc[d]
                               /\ d \in TicketsOf' <=> d \in TicketsOf
                               /\ d \in holding' <=> d \in holding,
         pc'[c] = "queued" <=> c \in TicketsOf',
         pc'[c] \in {"slot", "child", "give_back"} <=> c \in holding'
  PROVE  SlotsOfCalls'
BY DEF SlotsOfCalls, TicketsOf

\* What CallsSound says of one call.
Stands(c, at, m, o) ==
  /\ at \in InPlace => m # None
  /\ at = "new" => m = None
  /\ at = "close" => OneCall(c)
  /\ at \in (InPlace \ {"give_back", "settle"}) \cup {"new"} => o = "none"
  /\ at = "give_back" => o \in Heard \cup {"refused"}
  /\ at = "settle" => o \in Heard
  /\ o = "cleared" => m # None

LEMMA CallsFollow ==
  ASSUME CallsSound, NEW c \in Call,
         \A d \in Call \ {c} : /\ pc'[d] = pc[d] /\ outcome'[d] = outcome[d]
                               /\ mine'[d] = mine[d],
         Stands(c, pc'[c], mine'[c], outcome'[c])
  PROVE  CallsSound'
BY DEF CallsSound, Stands, OneCall

\* No ticket and no slot are the call's, before it asks.
LEMMA Untouched ==
  ASSUME SlotsOfCalls, NEW c \in Call,
         pc[c] \notin {"queued", "slot", "child", "give_back"}
  PROVE  c \notin Touched /\ c \notin TicketsOf /\ c \notin holding
BY DEF SlotsOfCalls, Touched, TicketsOf

CallsInv == IsoTyped /\ CallInv

\* A step that does not touch the slots leaves them, and who holds what.
LEMMA SlotsStay ==
  ASSUME CallsInv, UNCHANGED slotVars, NEW c \in Call,
         \A d \in Call \ {c} : pc'[d] = pc[d],
         \/ pc[c] \notin {"queued", "slot", "child", "give_back"}
            /\ pc'[c] \notin {"queued", "slot", "child", "give_back"}
         \/ pc[c] \in {"slot", "child", "give_back"}
            /\ pc'[c] \in {"slot", "child", "give_back"}
  PROVE  SlotInv' /\ SlotsOfCalls' /\ [SlotNext]_slotVars
<1>1. SlotInv'  BY SlotStep DEF CallsInv, CallInv
<1>2. TicketsOf' = TicketsOf /\ holding' = holding
  BY DEF slotVars, TicketsOf, Waiting
<1>3. SlotsOfCalls  BY DEF CallsInv, CallInv
<1>4. /\ pc[c] = "queued" <=> c \in TicketsOf
      /\ pc[c] \in {"slot", "child", "give_back"} <=> c \in holding
  BY <1>3 DEF SlotsOfCalls, TicketsOf
<1>5. SlotsOfCalls'
  BY <1>2, <1>3, <1>4, SlotsFollow
<1>6. QED  BY <1>1, <1>5

LEMMA AdmitCalls ==
  ASSUME CallsInv, NEW c \in Call, Admit(c)
  PROVE  CallsInv' /\ [SlotNext]_slotVars
<1> DEFINE k == RunOf[c]
<1>1. /\ IsoTyped /\ pc[c] = "new" /\ k \in Key /\ outcome[c] = "none"
      /\ mine[c] = None /\ UNCHANGED <<slotVars, place, ended, over>>
  <2>1. /\ IsoTyped /\ CallsSound /\ pc[c] = "new" /\ k \in Key
        /\ UNCHANGED <<slotVars, place, ended, over>>
    BY KeysTyped DEF CallsInv, CallInv, Admit
  <2>2. outcome[c] = "none" /\ mine[c] = None  BY <2>1 DEF CallsSound
  <2>3. QED  BY <2>1, <2>2
<1>2. /\ IsoTyped'
      /\ \A d \in Call \ {c} : /\ pc'[d] = pc[d] /\ outcome'[d] = outcome[d]
                               /\ mine'[d] = mine[d]
      /\ Stands(c, pc'[c], mine'[c], outcome'[c])
      /\ pc'[c] \in {"admitted", "close", "done"}
  <2>1. ASSUME NEW s \in Refusal, Raise(c, s), Leave(c) \/ Goto(c, "done"),
               UNCHANGED <<places, mine>>, unplaced' \in [Key -> Refusal]
        PROVE  <1>2!1 /\ <1>2!2 /\ <1>2!3 /\ <1>2!4
    <3>1. /\ pc' \in [Call -> Pc] /\ pc'[c] \in {"close", "done"}
          /\ pc'[c] = "close" => OneCall(c)
          /\ \A d \in Call : d # c => pc'[d] = pc[d]
      BY <1>1, <2>1, Goes, Leaves DEF Pc
    <3>2. /\ outcome' \in [Call -> Outcome] /\ said' \in [Call -> Refusal]
          /\ outcome'[c] = "refused"
          /\ \A d \in Call : d # c => outcome'[d] = outcome[d]
      BY <1>1, <2>1, Raises
    <3>3. Stands(c, pc'[c], mine'[c], outcome'[c])
      BY <3>1, <3>2 DEF Stands, InPlace
    <3>4. IsoTyped'
      BY <1>1, <2>1, <3>1, <3>2 DEF IsoTyped
    <3>5. QED  BY <2>1, <3>1, <3>2, <3>3, <3>4
  <2>2. ASSUME NEW m \in Call, mine' = [mine EXCEPT ![c] = m],
               Goto(c, "admitted"), UNCHANGED <<unplaced, outcome, said>>,
               places' \in [Key -> Call \cup {None}]
        PROVE  <1>2!1 /\ <1>2!2 /\ <1>2!3 /\ <1>2!4
    <3>1. /\ pc' \in [Call -> Pc] /\ pc'[c] = "admitted"
          /\ \A d \in Call : d # c => pc'[d] = pc[d]
      BY <1>1, <2>2, Goes DEF Pc
    <3>2. /\ mine' \in [Call -> Call \cup {None}] /\ mine'[c] = m
          /\ \A d \in Call : d # c => mine'[d] = mine[d]
      BY <1>1, <2>2 DEF IsoTyped
    <3>3. Stands(c, pc'[c], mine'[c], outcome'[c])
      BY <1>1, <2>2, <3>1, <3>2, KeysTyped DEF Stands, InPlace
    <3>4. IsoTyped'
      BY <1>1, <2>2, <3>1, <3>2 DEF IsoTyped
    <3>5. QED  BY <2>2, <3>1, <3>2, <3>3, <3>4
  <2>3. CASE places[k] # None /\ Ended(places[k])
             /\ Raise(c, place[places[k]].refused) /\ Leave(c)
             /\ UNCHANGED <<places, mine, unplaced>>
    <3>1. places[k] \in Call  BY <1>1, <2>3 DEF IsoTyped
    <3>2. place[places[k]].refused \in Refusal  BY <1>1, <3>1 DEF IsoTyped
    <3>3. QED  BY <1>1, <2>1, <2>3, <3>2 DEF IsoTyped
  <2>4. CASE places[k] # None /\ ~Ended(places[k])
             /\ mine' = [mine EXCEPT ![c] = places[k]]
             /\ Goto(c, "admitted")
             /\ UNCHANGED <<places, unplaced, outcome, said>>
    <3>1. places[k] \in Call  BY <1>1, <2>4 DEF IsoTyped
    <3>2. QED  BY <1>1, <2>2, <2>4, <3>1 DEF IsoTyped
  <2>5. CASE Raise(c, unplaced[k]) /\ Leave(c)
             /\ UNCHANGED <<places, mine, unplaced>>
    <3>1. unplaced[k] \in Refusal  BY <1>1 DEF IsoTyped
    <3>2. QED  BY <1>1, <2>1, <2>5, <3>1 DEF IsoTyped
  <2>6. CASE Raise(c, Busy(TRUE)) /\ Leave(c)
             /\ UNCHANGED <<places, mine, unplaced>>
    BY <1>1, <2>1, <2>6, RefusalsTyped DEF IsoTyped
  <2>7. CASE RememberUnplaced(c) /\ Raise(c, Busy(FALSE)) /\ Goto(c, "done")
             /\ UNCHANGED <<places, mine>>
    <3>1. unplaced' \in [Key -> Refusal]
      BY <1>1, <2>7, RefusalsTyped DEF RememberUnplaced, IsoTyped
    <3>2. QED  BY <2>1, <2>7, <3>1, RefusalsTyped
  <2>8. CASE places' = [places EXCEPT ![k] = c] /\ mine' = [mine EXCEPT ![c] = c]
             /\ Goto(c, "admitted") /\ UNCHANGED <<unplaced, outcome, said>>
    <3>1. places' \in [Key -> Call \cup {None}]
      BY <1>1, <2>8 DEF IsoTyped
    <3>2. QED  BY <2>2, <2>8, <3>1
  <2>9. QED
    BY <2>3, <2>4, <2>5, <2>6, <2>7, <2>8 DEF Admit
<1>3. SlotInv' /\ SlotsOfCalls' /\ [SlotNext]_slotVars
  BY <1>1, <1>2, SlotsStay
<1>4. CallsSound'  BY <1>2, CallsFollow DEF CallsInv, CallInv
<1>5. QED  BY <1>2, <1>3, <1>4 DEF CallsInv, CallInv

LEMMA WaitCalls ==
  ASSUME CallsInv, NEW c \in Call, WaitForSlot(c)
  PROVE  CallsInv' /\ [SlotNext]_slotVars
<1>1. /\ IsoTyped /\ SlotInv /\ SlotsOfCalls /\ CallsSound /\ pc[c] = "admitted"
      /\ Stands(c, pc[c], mine[c], outcome[c])
      /\ UNCHANGED <<places, place, mine, unplaced, ended, over, outcome, said>>
  BY DEF CallsInv, CallInv, CallsSound, Stands, WaitForSlot
<1>2. c \notin Touched /\ c \notin TicketsOf /\ c \notin holding
  BY <1>1, Untouched
<1>3. SlotNext  BY <1>2 DEF WaitForSlot, SlotNext
<1>4. SlotInv'  BY <1>1, <1>3, SlotStep
<1>5. ASSUME NEW l \in {"slot", "queued"}, Goto(c, l),
             l = "queued" <=> c \in TicketsOf', l = "slot" <=> c \in holding',
             TicketsOf' \subseteq TicketsOf \cup {c}, TicketsOf \subseteq TicketsOf',
             holding' \subseteq holding \cup {c}, holding \subseteq holding'
      PROVE  IsoTyped' /\ SlotsOfCalls' /\ CallsSound'
  <2>1. /\ pc' \in [Call -> Pc] /\ pc'[c] = l
        /\ \A d \in Call : d # c => pc'[d] = pc[d]
    BY <1>1, <1>5, Goes DEF Pc
  <2>2. IsoTyped'  BY <1>1, <2>1 DEF IsoTyped
  <2>3. SlotsOfCalls'  BY <1>1, <1>5, <2>1, SlotsFollow
  <2>4. Stands(c, pc'[c], mine'[c], outcome'[c])
    BY <1>1, <2>1 DEF Stands, InPlace
  <2>5. CallsSound'  BY <1>1, <2>1, <2>4, CallsFollow
  <2>6. QED  BY <2>2, <2>3, <2>5
<1>6. ASSUME TakeSlot(c), Goto(c, "slot")
      PROVE  IsoTyped' /\ SlotsOfCalls' /\ CallsSound'
  <2>1. TicketsOf' = TicketsOf /\ holding' = holding \cup {c}
    BY <1>1, <1>2, <1>6, SlotEffects
  <2>2. QED  BY <1>2, <1>5, <1>6, <2>1
<1>7. ASSUME JoinQueue(c), Goto(c, "queued")
      PROVE  IsoTyped' /\ SlotsOfCalls' /\ CallsSound'
  <2>1. TicketsOf' = TicketsOf \cup {c} /\ holding' = holding
    BY <1>1, <1>2, <1>7, SlotEffects
  <2>2. QED  BY <1>2, <1>5, <1>7, <2>1
<1>8. IsoTyped' /\ SlotsOfCalls' /\ CallsSound'
  BY <1>6, <1>7 DEF WaitForSlot
<1>9. QED  BY <1>3, <1>4, <1>8 DEF CallsInv, CallInv

LEMMA WakeCalls ==
  ASSUME CallsInv, NEW c \in Call, WakeUp(c)
  PROVE  CallsInv' /\ [SlotNext]_slotVars
<1>1. /\ IsoTyped /\ SlotInv /\ SlotsOfCalls /\ CallsSound /\ pc[c] = "queued"
      /\ Stands(c, pc[c], mine[c], outcome[c])
      /\ UNCHANGED <<places, place, mine, unplaced, ended, over, outcome, said>>
  BY DEF CallsInv, CallInv, CallsSound, Stands, WakeUp
<1>2. c \notin holding  BY <1>1 DEF SlotsOfCalls
<1>3. SlotNext  BY DEF WakeUp, SlotNext
<1>4. SlotInv'  BY <1>1, <1>3, SlotStep
<1>5. ASSUME NEW l \in {"slot", "timed_out"}, Goto(c, l),
             TicketsOf' = TicketsOf \ {c}, l = "slot" <=> c \in holding',
             holding' \subseteq holding \cup {c}, holding \subseteq holding'
      PROVE  IsoTyped' /\ SlotsOfCalls' /\ CallsSound'
  <2>1. /\ pc' \in [Call -> Pc] /\ pc'[c] = l
        /\ \A d \in Call : d # c => pc'[d] = pc[d]
    BY <1>1, <1>5, Goes DEF Pc
  <2>2. IsoTyped'  BY <1>1, <2>1 DEF IsoTyped
  <2>3. SlotsOfCalls'  BY <1>1, <1>5, <2>1, SlotsFollow
  <2>4. Stands(c, pc'[c], mine'[c], outcome'[c])
    BY <1>1, <2>1 DEF Stands, InPlace
  <2>5. CallsSound'  BY <1>1, <2>1, <2>4, CallsFollow
  <2>6. QED  BY <2>2, <2>3, <2>5
<1>6. ASSUME SeeGrant(c), Goto(c, "slot")
      PROVE  IsoTyped' /\ SlotsOfCalls' /\ CallsSound'
  <2>1. TicketsOf' = TicketsOf \ {c} /\ holding' = holding \cup {c}
    BY <1>1, <1>2, <1>6, SlotEffects
  <2>2. QED  BY <1>2, <1>5, <1>6, <2>1
<1>7. ASSUME GiveUp(c), Goto(c, "timed_out")
      PROVE  IsoTyped' /\ SlotsOfCalls' /\ CallsSound'
  <2>1. TicketsOf' = TicketsOf \ {c} /\ holding' = holding
    BY <1>1, <1>2, <1>7, SlotEffects
  <2>2. QED  BY <1>2, <1>5, <1>7, <2>1
<1>8. IsoTyped' /\ SlotsOfCalls' /\ CallsSound'
  BY <1>6, <1>7 DEF WakeUp
<1>9. QED  BY <1>3, <1>4, <1>8 DEF CallsInv, CallInv

LEMMA GiveBackCalls ==
  ASSUME CallsInv, NEW c \in Call, GiveBackSlot(c)
  PROVE  CallsInv' /\ [SlotNext]_slotVars
<1>1. /\ IsoTyped /\ SlotInv /\ SlotsOfCalls /\ CallsSound
      /\ pc[c] = "give_back" /\ Stands(c, pc[c], mine[c], outcome[c])
      /\ UNCHANGED <<places, place, mine, unplaced, ended, over, outcome, said>>
  BY DEF CallsInv, CallInv, CallsSound, Stands, GiveBackSlot
<1>2. c \notin TicketsOf  BY <1>1 DEF SlotsOfCalls, TicketsOf
<1>3. SlotNext  BY DEF GiveBackSlot, SlotNext
<1>4. SlotInv'  BY <1>1, <1>3, SlotStep
<1>5. TicketsOf' = TicketsOf /\ holding' = holding \ {c}
  BY <1>1, SlotEffects DEF GiveBackSlot
<1>6. /\ pc' \in [Call -> Pc] /\ \A d \in Call : d # c => pc'[d] = pc[d]
      /\ pc'[c] \in {"settle", "close", "done"}
      /\ pc'[c] = "close" => OneCall(c)
      /\ pc'[c] = "settle" => outcome[c] # "refused"
  <2>1. CASE outcome[c] = "refused"
    BY <1>1, <2>1, Leaves DEF GiveBackSlot
  <2>2. CASE outcome[c] # "refused"
    BY <1>1, <2>2, Goes DEF GiveBackSlot, Pc
  <2>3. QED  BY <2>1, <2>2
<1>7. IsoTyped'  BY <1>1, <1>6 DEF IsoTyped
<1>8. SlotsOfCalls'  BY <1>1, <1>2, <1>5, <1>6, SlotsFollow
<1>9. Stands(c, pc'[c], mine'[c], outcome'[c])
  BY <1>1, <1>6 DEF Stands, InPlace
<1>10. CallsSound'  BY <1>1, <1>6, <1>9, CallsFollow
<1>11. QED  BY <1>3, <1>4, <1>7, <1>8, <1>10 DEF CallsInv, CallInv

\* A step of one call that keeps its place and the slots as they are.
LEMMA OwnStep ==
  ASSUME CallsInv, NEW c \in Call,
         UNCHANGED <<slotVars, places, mine, unplaced, ended, over>>,
         place' \in [Call -> [cleared : Nat, refused : Refusal]],
         outcome' \in [Call -> Outcome], said' \in [Call -> Refusal],
         pc' \in [Call -> Pc],
         \A d \in Call : d # c => pc'[d] = pc[d] /\ outcome'[d] = outcome[d],
         \/ pc[c] \notin {"queued", "slot", "child", "give_back"}
            /\ pc'[c] \notin {"queued", "slot", "child", "give_back"}
         \/ pc[c] \in {"slot", "child", "give_back"}
            /\ pc'[c] \in {"slot", "child", "give_back"},
         Stands(c, pc'[c], mine[c], outcome'[c])
  PROVE  CallsInv' /\ [SlotNext]_slotVars
<1>1. IsoTyped /\ CallsSound  BY DEF CallsInv, CallInv
<1>2. IsoTyped'  BY <1>1 DEF IsoTyped
<1>3. SlotInv' /\ SlotsOfCalls' /\ [SlotNext]_slotVars  BY SlotsStay
<1>4. CallsSound'  BY <1>1, CallsFollow
<1>5. QED  BY <1>2, <1>3, <1>4 DEF CallsInv, CallInv

\* A call under way has a place, and it is a call's.
LEMMA PlaceOfCall ==
  ASSUME CallsInv, NEW c \in Call, pc[c] \in InPlace
  PROVE  /\ mine[c] \in Call /\ place[mine[c]].refused \in Refusal
         /\ place[mine[c]].cleared \in Nat
         /\ place[mine[c]] \in [cleared : Nat, refused : Refusal]
BY DEF CallsInv, CallInv, CallsSound, IsoTyped

LEMMA NoSlotCalls ==
  ASSUME CallsInv, NEW c \in Call, NoSlotInTime(c)
  PROVE  CallsInv' /\ [SlotNext]_slotVars
<1>1. /\ IsoTyped /\ pc[c] = "timed_out" /\ Refuse(c, "busy") /\ Leave(c)
      /\ UNCHANGED <<slotVars, places, mine, unplaced, ended, over>>
  BY DEF CallsInv, NoSlotInTime
<1>2. mine[c] \in Call /\ mine[c] # None
  BY <1>1, PlaceOfCall, KeysTyped DEF InPlace
<1> DEFINE s == IF Ended(mine[c]) THEN place[mine[c]].refused
                ELSE [reason |-> "busy", sent |-> place[mine[c]].cleared > 0]
<1>3. /\ s \in Refusal /\ Raise(c, s)
      /\ place' \in [Call -> [cleared : Nat, refused : Refusal]]
  BY <1>1, <1>2, Refuses
<1> HIDE DEF s
<1>4. /\ pc' \in [Call -> Pc]
      /\ pc'[c] = IF OneCall(c) THEN "close" ELSE "done"
      /\ \A d \in Call : d # c => pc'[d] = pc[d]
  BY <1>1, Leaves
<1>5. /\ outcome' \in [Call -> Outcome] /\ said' \in [Call -> Refusal]
      /\ outcome'[c] = "refused"
      /\ \A d \in Call : d # c => outcome'[d] = outcome[d]
  BY <1>1, <1>3, Raises
<1>6. Stands(c, pc'[c], mine[c], outcome'[c])
  BY <1>2, <1>4, <1>5 DEF Stands, InPlace
<1>7. QED  BY <1>1, <1>3, <1>4, <1>5, <1>6, OwnStep

LEMMA LookCalls ==
  ASSUME CallsInv, NEW c \in Call, LookBeforeChild(c)
  PROVE  CallsInv' /\ [SlotNext]_slotVars
<1>1. /\ IsoTyped /\ pc[c] = "slot" /\ outcome[c] = "none" /\ mine[c] # None
      /\ UNCHANGED <<slotVars, places, place, mine, unplaced, ended, over>>
  BY DEF CallsInv, CallInv, CallsSound, LookBeforeChild, InPlace
<1>2. place[mine[c]].refused \in Refusal
  BY <1>1, PlaceOfCall DEF InPlace
<1>3. CASE Ended(mine[c])
  <2>1. Raise(c, place[mine[c]].refused) /\ Goto(c, "give_back")
    BY <1>3 DEF LookBeforeChild
  <2>2. /\ pc' \in [Call -> Pc] /\ pc'[c] = "give_back"
        /\ \A d \in Call : d # c => pc'[d] = pc[d]
    BY <1>1, <2>1, Goes DEF Pc
  <2>3. /\ outcome' \in [Call -> Outcome] /\ said' \in [Call -> Refusal]
        /\ outcome'[c] = "refused"
        /\ \A d \in Call : d # c => outcome'[d] = outcome[d]
    BY <1>1, <1>2, <2>1, Raises
  <2>4. Stands(c, pc'[c], mine[c], outcome'[c])
    BY <1>1, <2>2, <2>3 DEF Stands
  <2>5. QED  BY <1>1, <2>2, <2>3, <2>4, OwnStep DEF IsoTyped
<1>4. CASE ~Ended(mine[c])
  <2>1. Goto(c, "child") /\ outcome' = outcome /\ said' = said
    BY <1>4 DEF LookBeforeChild
  <2>2. /\ pc' \in [Call -> Pc] /\ pc'[c] = "child"
        /\ \A d \in Call : d # c => pc'[d] = pc[d]
    BY <1>1, <2>1, Goes DEF Pc
  <2>3. Stands(c, pc'[c], mine[c], outcome'[c])
    BY <1>1, <2>1, <2>2 DEF Stands
  <2>4. QED  BY <1>1, <2>1, <2>2, <2>3, OwnStep DEF IsoTyped
<1>5. QED  BY <1>3, <1>4

LEMMA ChildCalls ==
  ASSUME CallsInv, NEW c \in Call, ChildEnds(c)
  PROVE  CallsInv' /\ [SlotNext]_slotVars
<1>1. /\ IsoTyped /\ pc[c] = "child" /\ mine[c] # None
      /\ UNCHANGED <<slotVars, places, place, mine, unplaced, ended, over>>
      /\ Goto(c, "give_back")
  BY DEF CallsInv, CallInv, CallsSound, ChildEnds, InPlace
<1>2. PICK kind \in Heard : Settled(c, kind)
  BY DEF ChildEnds, Heard
<1>3. /\ pc' \in [Call -> Pc] /\ pc'[c] = "give_back"
      /\ \A d \in Call : d # c => pc'[d] = pc[d]
  BY <1>1, Goes DEF Pc
<1>4. /\ outcome' \in [Call -> Outcome] /\ outcome'[c] = kind
      /\ \A d \in Call : d # c => outcome'[d] = outcome[d]
      /\ said' = said
  BY <1>1, <1>2, Settles DEF Heard, Outcome
<1>5. Stands(c, pc'[c], mine[c], outcome'[c])
  BY <1>1, <1>3, <1>4 DEF Stands, Heard
<1>6. QED  BY <1>1, <1>3, <1>4, <1>5, OwnStep DEF IsoTyped

\* A payload that clears is counted, at its place only.
LEMMA Counts ==
  ASSUME IsoTyped, NEW c \in Call, mine[c] \in Call, CountSent(c, TRUE)
  PROVE  /\ place' \in [Call -> [cleared : Nat, refused : Refusal]]
         /\ place'[mine[c]].cleared = place[mine[c]].cleared + 1
         /\ place'[mine[c]].refused = place[mine[c]].refused
         /\ \A d \in Call : d # mine[c] => place'[d] = place[d]
<1> DEFINE m == mine[c]
           n == place[m].cleared + 1
<1>1. /\ m \in Call /\ place \in [Call -> [cleared : Nat, refused : Refusal]]
      /\ n \in Nat
  BY DEF IsoTyped
<1>2. place' = [place EXCEPT ![m].cleared = n]
  BY DEF CountSent
<1>3. n = place[m].cleared + 1  OBVIOUS
<1> HIDE DEF m, n
<1>4. /\ place' \in [Call -> [cleared : Nat, refused : Refusal]]
      /\ place'[m].cleared = n /\ place'[m].refused = place[m].refused
      /\ \A d \in Call : d # m => place'[d] = place[d]
  BY <1>1, <1>2
<1>5. QED  BY <1>3, <1>4 DEF m

LEMMA SettleCalls ==
  ASSUME CallsInv, NEW c \in Call, Settle(c)
  PROVE  CallsInv' /\ [SlotNext]_slotVars
<1>1. /\ IsoTyped /\ pc[c] = "settle" /\ Leave(c)
      /\ UNCHANGED <<slotVars, places, mine, unplaced, ended, over>>
  BY DEF CallsInv, Settle
<1>2. /\ mine[c] \in Call /\ mine[c] # None
      /\ place[mine[c]].refused \in Refusal
  BY <1>1, PlaceOfCall, KeysTyped DEF InPlace
<1>3. /\ pc' \in [Call -> Pc]
      /\ pc'[c] = IF OneCall(c) THEN "close" ELSE "done"
      /\ \A d \in Call : d # c => pc'[d] = pc[d]
  BY <1>1, Leaves
<1>4. /\ place' \in [Call -> [cleared : Nat, refused : Refusal]]
      /\ outcome' \in [Call -> Outcome] /\ said' \in [Call -> Refusal]
      /\ \A d \in Call : d # c => outcome'[d] = outcome[d]
  <2>1. ASSUME NEW reason \in {"budget", "failed"}, Refuse(c, reason)
        PROVE  <1>4
    <3> DEFINE s == IF Ended(mine[c]) THEN place[mine[c]].refused
                    ELSE [reason |-> reason, sent |-> place[mine[c]].cleared > 0]
    <3>1. /\ s \in Refusal /\ Raise(c, s)
          /\ place' \in [Call -> [cleared : Nat, refused : Refusal]]
      BY <1>1, <1>2, <2>1, Refuses
    <3> HIDE DEF s
    <3>2. QED  BY <1>1, <3>1, Raises
  <2>2. CASE Settled(c, "typed") /\ UNCHANGED place
    BY <1>1, <2>2, Settles DEF Outcome, IsoTyped
  <2>3. CASE Raise(c, place[mine[c]].refused) /\ UNCHANGED place
    BY <1>1, <1>2, <2>3, Raises DEF IsoTyped
  <2>4. ASSUME NEW sent \in BOOLEAN, CountSent(c, sent),
               Settled(c, IF sent THEN "cleared" ELSE "unsent")
        PROVE  <1>4
    <3>1. place' \in [Call -> [cleared : Nat, refused : Refusal]]
      <4>1. CASE sent  BY <1>1, <1>2, <2>4, <4>1, Counts
      <4>2. CASE ~sent  BY <1>1, <2>4, <4>2 DEF CountSent, IsoTyped
      <4>3. QED  BY <4>1, <4>2
    <3>2. QED  BY <1>1, <2>4, <3>1, Settles DEF Outcome, IsoTyped
  <2>5. QED  BY <2>1, <2>2, <2>3, <2>4 DEF Settle
<1>5. Stands(c, pc'[c], mine[c], outcome'[c])
  BY <1>2, <1>3 DEF Stands, InPlace
<1>6. QED  BY <1>1, <1>3, <1>4, <1>5, OwnStep

\* What the end of a run, or of a one-call run, leaves typed.
LEMMA ReleaseTyped ==
  ASSUME IsoTyped, NEW k \in Key, Release(k)
  PROVE  /\ places' \in [Key -> Call \cup {None}]
         /\ places'[k] = None /\ \A j \in Key : j # k => places'[j] = places[j]
         /\ place' \in [Call -> [cleared : Nat, refused : Refusal]]
         /\ unplaced' \in [Key -> Refusal]
         /\ unplaced'[k] = NoRefusal
         /\ \A j \in Key : j # k => unplaced'[j] = unplaced[j]
         /\ ended' \in Seq(Key)
         /\ k \in Call => ToSet(ended') \subseteq ToSet(ended)
         /\ ToSet(ended') \subseteq ToSet(ended) \cup {k}
<1>1. /\ places' \in [Key -> Call \cup {None}]
      /\ places'[k] = None /\ \A j \in Key : j # k => places'[j] = places[j]
  BY DEF Release, IsoTyped
<1>2. place' \in [Call -> [cleared : Nat, refused : Refusal]]
  <2>1. CASE places[k] # None /\ ~Ended(places[k])
    <3>1. places[k] \in Call  BY <2>1 DEF IsoTyped
    <3>2. place' = [place EXCEPT ![places[k]].refused = Busy(TRUE)]
      BY <2>1 DEF Release, EndPlace
    <3>3. /\ place \in [Call -> [cleared : Nat, refused : Refusal]]
          /\ Busy(TRUE) \in Refusal
      BY RefusalsTyped DEF IsoTyped
    <3>4. QED  BY <3>1, <3>2, <3>3
  <2>2. CASE ~(places[k] # None /\ ~Ended(places[k]))
    BY <2>2 DEF Release, EndPlace, IsoTyped
  <2>3. QED  BY <2>1, <2>2
<1>3. /\ unplaced' \in [Key -> Refusal] /\ unplaced'[k] = NoRefusal
      /\ \A j \in Key : j # k => unplaced'[j] = unplaced[j]
  BY RefusalsTyped DEF Release, IsoTyped
<1>4. /\ ended' \in Seq(Key)
      /\ k \in Call => ToSet(ended') \subseteq ToSet(ended)
      /\ ToSet(ended') \subseteq ToSet(ended) \cup {k}
  <2> DEFINE longer == IF k \in ToSet(ended) \cup Call THEN ended
                       ELSE Append(ended, k)
  <2>1. ended \in Seq(Key)  BY DEF IsoTyped
  <2>2. longer \in Seq(Key)  BY <2>1
  <2>3. ToSet(Append(ended, k)) \subseteq ToSet(ended) \cup {k}
    BY <2>1 DEF ToSet
  <2>4. /\ k \in Call => ToSet(longer) \subseteq ToSet(ended)
        /\ ToSet(longer) \subseteq ToSet(ended) \cup {k}
    BY <2>3
  <2>5. ended' = IF Len(longer) > EndedMemory THEN Tail(longer) ELSE longer
    BY DEF Release, Remember
  <2> HIDE DEF longer
  <2>6. CASE ended' = longer  BY <2>2, <2>4, <2>6
  <2>7. CASE Len(longer) > EndedMemory /\ ended' = Tail(longer)
    <3>1. longer # <<>>
      BY <2>7, IsolationAssumption
    <3>2. Tail(longer) \in Seq(Key) /\ ToSet(Tail(longer)) \subseteq ToSet(longer)
      BY <2>2, <3>1 DEF ToSet
    <3>3. QED  BY <2>4, <2>7, <3>2
  <2>8. QED  BY <2>5, <2>6, <2>7
<1>5. QED  BY <1>1, <1>2, <1>3, <1>4

LEMMA CloseCalls ==
  ASSUME CallsInv, NEW c \in Call, CloseCall(c)
  PROVE  CallsInv' /\ [SlotNext]_slotVars
<1>1. /\ IsoTyped /\ CallsSound /\ pc[c] = "close" /\ Release(RunOf[c])
      /\ Goto(c, "done") /\ UNCHANGED <<slotVars, mine, over, outcome, said>>
  BY DEF CallsInv, CallInv, CloseCall
<1>2. /\ pc' \in [Call -> Pc] /\ pc'[c] = "done"
      /\ \A d \in Call : d # c => pc'[d] = pc[d]
  BY <1>1, Goes DEF Pc
<1>3. RunOf[c] \in Key  BY KeysTyped
<1>4. IsoTyped'
  BY <1>1, <1>2, <1>3, ReleaseTyped DEF IsoTyped
<1>5. SlotInv' /\ SlotsOfCalls' /\ [SlotNext]_slotVars
  BY <1>1, <1>2, SlotsStay
<1>6. outcome[c] = "cleared" => mine[c] # None  BY <1>1 DEF CallsSound
<1>7. Stands(c, pc'[c], mine'[c], outcome'[c])
  BY <1>1, <1>2, <1>6 DEF Stands, InPlace
<1>8. CallsSound'  BY <1>1, <1>2, <1>7, CallsFollow
<1>9. QED  BY <1>4, <1>5, <1>8 DEF CallsInv, CallInv

LEMMA EndCalls ==
  ASSUME CallsInv, NEW r \in Run, EndRun(r)
  PROVE  CallsInv' /\ [SlotNext]_slotVars
<1>1. /\ IsoTyped /\ CallInv /\ Release(r) /\ over' = over \cup {r}
      /\ UNCHANGED <<slotVars, mine, pc, outcome, said>>
  BY DEF CallsInv, EndRun
<1>2. r \in Key  BY KeysTyped
<1>3. IsoTyped'  BY <1>1, <1>2, ReleaseTyped DEF IsoTyped
<1>4. SlotInv'  BY <1>1, SlotStep DEF CallInv
<1>5. SlotsOfCalls' /\ CallsSound'
  BY <1>1 DEF CallInv, slotVars, SlotsOfCalls, Waiting, CallsSound, OneCall
<1>6. QED  BY <1>1, <1>3, <1>4, <1>5 DEF CallsInv, CallInv

---------------------------------------------------------------------------
(* What holds of every run of the module, whatever is remembered.          *)

LEMMA CallsInit == Init => CallsInv
<1> SUFFICES ASSUME Init PROVE CallsInv  OBVIOUS
<1>1. SlotInv  BY SlotInit_Inv DEF Init
<1>2. IsoTyped
  BY RefusalsTyped DEF Init, IsoTyped, Pc, Outcome
<1>3. SlotsOfCalls
  BY DEF Init, SlotInit, SlotsOfCalls, Waiting, ToSet
<1>4. CallsSound  BY DEF Init, CallsSound, InPlace
<1>5. QED  BY <1>1, <1>2, <1>3, <1>4 DEF CallsInv, CallInv

\* A step of the boundary is a step of its slots, or leaves them alone.
LEMMA CallsStep ==
  ASSUME CallsInv, [Next]_vars
  PROVE  CallsInv' /\ [SlotNext]_slotVars
<1>1. CASE UNCHANGED vars
  <2>1. UNCHANGED slotVars /\ UNCHANGED isoVars  BY <1>1 DEF vars
  <2>2. SlotInv'  BY <2>1, SlotStep DEF CallsInv, CallInv
  <2>3. IsoTyped'  BY <2>1 DEF CallsInv, IsoTyped, isoVars
  <2>4. SlotsOfCalls' /\ CallsSound'
    BY <2>1 DEF CallsInv, CallInv, slotVars, isoVars, SlotsOfCalls, Waiting,
                CallsSound, OneCall
  <2>5. QED  BY <2>1, <2>2, <2>3, <2>4 DEF CallsInv, CallInv
<1>2. CASE Next
  <2>1. CASE \E c \in Call : Admit(c)  BY <2>1, AdmitCalls
  <2>2. CASE \E r \in Run : EndRun(r)  BY <2>2, EndCalls
  <2>3. CASE \E c \in Call : Proceed(c)
    BY <2>3, WaitCalls, WakeCalls, NoSlotCalls, LookCalls, ChildCalls,
       GiveBackCalls, SettleCalls, CloseCalls
    DEF Proceed
  <2>4. QED  BY <1>2, <2>1, <2>2, <2>3 DEF Next
<1>3. QED  BY <1>1, <1>2

LEMMA CallsHold == Spec => []CallsInv
<1>1. Init => CallsInv  BY CallsInit
<1>2. CallsInv /\ [Next]_vars => CallsInv'  BY CallsStep
<1>3. QED  BY <1>1, <1>2, PTL DEF Spec

\* Every variable of the boundary has its type: the redactor of isolation.py.
THEOREM BoundaryIsTyped == Spec => []TypeOK
<1>1. CallsInv => TypeOK
  BY DEF CallsInv, CallInv, SlotInv, IsoTyped, TypeOK
<1>2. QED  BY <1>1, CallsHold, PTL

\* FifoSlots loses no slot and hands none out twice, whatever races: every slot
\* is free, granted to one ticket or held by one call, and nobody queues while
\* one is free.
THEOREM SlotsAreKept == Spec => []SlotsConserved
<1>1. CallsInv => SlotsConserved  BY DEF CallsInv, CallInv, SlotInv
<1>2. QED  BY <1>1, CallsHold, PTL

\* FifoSlots serves in arrival order: nobody still waiting was ahead of a call
\* that is served.
THEOREM SlotsGoInTurn == Spec => ServedInTurn
<1>1. ASSUME CallsInv, [Next]_vars, NEW c \in Call,
             c \in granted' \cup holding', c \notin granted \cup holding
      PROVE  (IF c \in Waiting
              THEN ToSet(SubSeq(queue, 1, (CHOOSE i \in DOMAIN queue :
                                             queue[i] = c) - 1))
              ELSE Waiting) = {}
  BY <1>1, CallsStep, TurnStep DEF CallsInv, CallInv
<1>2. CallsInv /\ [Next]_vars
      => [\A c \in Call :
            /\ c \in granted' \cup holding' /\ c \notin granted \cup holding
            => LET ahead == IF c \in Waiting
                            THEN ToSet(SubSeq(queue, 1,
                                   (CHOOSE i \in DOMAIN queue :
                                      queue[i] = c) - 1))
                            ELSE Waiting
               IN ahead = {}]_slotVars
  BY <1>1
<1>3. QED  BY <1>2, CallsHold, PTL DEF Spec, ServedInTurn

---------------------------------------------------------------------------
(* The places, and what calls were told.                                   *)

\* isolation.py:225-228 counts on this: "Stragglers arrive within seconds of
\* the end; this is thousands of runs."
Remembered ==
  \A c \in Call : RunOf[c] \in over /\ pc[c] = "new" => RunOf[c] \in ToSet(ended)

Gone(k) == \/ k \in over
           \/ k \in Call /\ pc[k] = "done"

PlacesSound ==
  /\ IsFiniteSet(InUse) /\ Cardinality(InUse) <= MaxRuns
  /\ \A k \in Key : places[k] # None =>
       /\ ~Gone(k) /\ unplaced[k] = NoRefusal
       /\ RunOf[places[k]] = k /\ mine[places[k]] = places[k]
       /\ k \in Call => pc[k] # "new"
  /\ \A k \in Key : unplaced[k] # NoRefusal =>
       /\ k \in Run \ over /\ unplaced[k] = Busy(FALSE)
       /\ \A c \in Call : RunOf[c] = k => mine[c] = None
  /\ ToSet(ended) \subseteq over

MineSound ==
  \A c \in Call : mine[c] # None =>
    /\ mine[mine[c]] = mine[c] /\ RunOf[mine[c]] = RunOf[c]
    /\ \/ places[RunOf[c]] = mine[c]
       \/ Gone(RunOf[c]) /\ Ended(mine[c])
    /\ \A d \in Call : RunOf[d] = RunOf[c] /\ mine[d] # None
                         => mine[d] = mine[c]

PlaceSound ==
  \A m \in Call :
    /\ place[m].cleared > 0
         <=> \E d \in Call : mine[d] = m /\ outcome[d] = "cleared"
    /\ Ended(m) /\ ~place[m].refused.sent => place[m].cleared = 0
    /\ place[m].refused.sent =>
         \/ place[m].cleared > 0
         \/ RunOf[m] \in over
         \/ RunOf[m] = m /\ pc[m] = "done" /\ outcome[m] # "refused"
    /\ mine[m] # m => ~Ended(m)

SaidByPlace(c) ==
  \E m \in Call : /\ mine[m] = m /\ RunOf[m] = RunOf[c] /\ Ended(m)
                  /\ said[c] = place[m].refused

SaidUnplaced(c) ==
  /\ said[c] = Busy(FALSE)
  /\ \A d \in Call : RunOf[d] = RunOf[c] => mine[d] = None
  /\ \/ RunOf[c] \in Call
     \/ unplaced[RunOf[c]] = Busy(FALSE)
     \/ RunOf[c] \in over

SaidOver(c) == said[c] = Busy(TRUE) /\ RunOf[c] \in over

SaidSound ==
  \A c \in Call : outcome[c] = "refused" =>
    /\ pc[c] # "new"
    /\ SaidByPlace(c) \/ SaidUnplaced(c) \/ SaidOver(c)
    /\ mine[c] # None => Ended(mine[c])

TableInv == PlacesSound /\ MineSound /\ PlaceSound /\ SaidSound

\* A run does not come back, and one that holds a place is not over when one of
\* its calls is done.
LEMMA GoneStays ==
  ASSUME IsoTyped, PlacesSound, NEW c \in Call, UNCHANGED over,
         \A d \in Call : d # c => pc'[d] = pc[d],
         pc[c] # "done", pc'[c] = "done" => ~OneCall(c)
  PROVE  \A k \in Key : /\ Gone(k) => Gone(k)'
                        /\ places[k] # None /\ ~Gone(k) => ~Gone(k)'
<1>1. SUFFICES ASSUME NEW k \in Key
               PROVE  /\ Gone(k) => Gone(k)'
                      /\ places[k] # None /\ ~Gone(k) => ~Gone(k)'
  OBVIOUS
<1>2. CASE k # c  BY <1>2 DEF Gone
<1>3. CASE k = c
  <2>1. places[k] # None => places[k] \in Call /\ RunOf[places[k]] = k
    BY DEF IsoTyped, PlacesSound
  <2>2. places[k] # None => OneCall(c)
    BY <1>3, <2>1, KeysTyped DEF OneCall
  <2>3. QED  BY <1>3, <2>2 DEF Gone
<1>4. QED  BY <1>2, <1>3

LEMMA PlacesStay ==
  ASSUME IsoTyped, PlacesSound, NEW c \in Call,
         UNCHANGED <<places, mine, unplaced, ended, over>>,
         \A d \in Call : d # c => pc'[d] = pc[d],
         pc[c] # "done", pc'[c] # "new", pc'[c] = "done" => ~OneCall(c)
  PROVE  PlacesSound'
<1>1. \A k \in Key : places[k] # None /\ ~Gone(k) => ~Gone(k)'
  BY GoneStays
<1>2. \A d \in Call : pc[d] # "new" => pc'[d] # "new"
  OBVIOUS
<1>3. InUse' = InUse  BY DEF InUse
<1>4. QED  BY <1>1, <1>2, <1>3 DEF PlacesSound

\* A step of one call that changes no place and clears nothing.
LEMMA QuietKeeps ==
  ASSUME IsoTyped, TableInv, NEW c \in Call,
         UNCHANGED <<places, place, mine, unplaced, ended, over>>,
         \A d \in Call : d # c => /\ pc'[d] = pc[d] /\ outcome'[d] = outcome[d]
                                  /\ said'[d] = said[d],
         pc[c] # "done", pc'[c] # "new", pc'[c] = "done" => ~OneCall(c),
         outcome[c] # "cleared", outcome'[c] # "cleared",
         outcome'[c] = "refused" =>
           \/ outcome[c] = "refused" /\ said'[c] = said[c]
           \/ /\ SaidByPlace(c)' \/ SaidUnplaced(c)' \/ SaidOver(c)'
              /\ mine[c] # None => Ended(mine[c])
  PROVE  TableInv'
<1>1. PlacesSound /\ MineSound /\ PlaceSound /\ SaidSound  BY DEF TableInv
<1>2. \A k \in Key : /\ Gone(k) => Gone(k)'
                     /\ places[k] # None /\ ~Gone(k) => ~Gone(k)'
  BY <1>1, GoneStays
<1>3. PlacesSound'
  BY <1>1, PlacesStay
<1>4. MineSound'
  BY <1>1, <1>2, KeysTyped DEF MineSound, Ended
<1>5. PlaceSound'
  BY <1>1 DEF PlaceSound, Ended
<1>6. SaidSound'
  <2>1. ASSUME NEW d \in Call, said'[d] = said[d]
        PROVE  /\ SaidByPlace(d) => SaidByPlace(d)'
               /\ SaidUnplaced(d) => SaidUnplaced(d)'
               /\ SaidOver(d) => SaidOver(d)'
    BY <2>1 DEF SaidByPlace, SaidUnplaced, SaidOver, Ended
  <2>2. \A m : Ended(m)' <=> Ended(m)  BY DEF Ended
  <2>3. SUFFICES ASSUME NEW d \in Call, outcome'[d] = "refused"
                 PROVE  /\ pc'[d] # "new"
                        /\ SaidByPlace(d)' \/ SaidUnplaced(d)' \/ SaidOver(d)'
                        /\ mine[d] # None => Ended(mine[d])
    BY <2>2 DEF SaidSound
  <2>4. CASE outcome[d] = "refused" /\ said'[d] = said[d]
    BY <1>1, <2>1, <2>4 DEF SaidSound
  <2>5. CASE d = c  BY <2>3, <2>4, <2>5
  <2>6. CASE d # c  BY <2>3, <2>4, <2>6
  <2>7. QED  BY <2>5, <2>6
<1>7. QED  BY <1>3, <1>4, <1>5, <1>6 DEF TableInv

\* A step that refuses a place: the first refusal stands, and tells what cleared.
LEMMA RefusingKeeps ==
  ASSUME IsoTyped, TableInv, NEW c \in Call, NEW m \in Call, m = mine[c],
         NEW s \in Refusal, s # NoRefusal, Ended(m) => s = place[m].refused,
         ~Ended(m) => (s.sent <=> place[m].cleared > 0),
         place'[m].cleared = place[m].cleared, place'[m].refused = s,
         \A d \in Call : d # m => place'[d] = place[d],
         UNCHANGED <<places, mine, unplaced, ended, over>>,
         \A d \in Call : d # c => /\ pc'[d] = pc[d] /\ outcome'[d] = outcome[d]
                                  /\ said'[d] = said[d],
         pc[c] # "done", pc'[c] # "new", pc'[c] = "done" => ~OneCall(c),
         outcome[c] \notin {"cleared", "refused"},
         outcome'[c] = "refused", said'[c] = s
  PROVE  TableInv'
<1>1. PlacesSound /\ MineSound /\ PlaceSound /\ SaidSound  BY DEF TableInv
<1>2. \A k \in Key : /\ Gone(k) => Gone(k)'
                     /\ places[k] # None /\ ~Gone(k) => ~Gone(k)'
  BY <1>1, GoneStays
<1>3. /\ m # None /\ mine[m] = m /\ RunOf[m] = RunOf[c] /\ Ended(m)'
      /\ \A d \in Call : Ended(d) => Ended(d)' /\ place'[d].refused = place[d].refused
      /\ \A d \in Call : d # m => (Ended(d)' <=> Ended(d))
  BY <1>1, KeysTyped DEF MineSound, Ended
<1>4. PlacesSound'
  BY <1>1, PlacesStay
<1>5. MineSound'
  <2>1. \A d \in Call : mine[d] # None => mine[d] \in Call  BY DEF IsoTyped
  <2>2. QED  BY <1>1, <1>2, <1>3, <2>1, KeysTyped DEF MineSound
<1>6. PlaceSound'
  <2>1. ASSUME NEW d \in Call
        PROVE  /\ place'[d].cleared = place[d].cleared
               /\ \A e \in Call : outcome'[e] = "cleared" <=> outcome[e] = "cleared"
               /\ pc[d] = "done" => pc'[d] = "done" /\ outcome'[d] = outcome[d]
    OBVIOUS
  <2>2. ASSUME NEW d \in Call, d # m
        PROVE  place'[d] = place[d] /\ (Ended(d)' <=> Ended(d))
    BY <1>3, <2>2
  <2>3. place[m].cleared \in Nat  BY DEF IsoTyped
  <2>4. ASSUME Ended(m)' , ~s.sent  PROVE place[m].cleared = 0
    BY <1>1, <2>3, <2>4 DEF PlaceSound
  <2>5. ASSUME s.sent
        PROVE  \/ place[m].cleared > 0
               \/ RunOf[m] \in over
               \/ RunOf[m] = m /\ pc[m] = "done" /\ outcome[m] # "refused"
    BY <1>1, <2>5 DEF PlaceSound
  <2>6. QED  BY <1>1, <1>3, <2>1, <2>2, <2>4, <2>5 DEF PlaceSound
<1>7. SaidSound'
  <2>1. ASSUME NEW d \in Call, said'[d] = said[d]
        PROVE  /\ SaidByPlace(d) => SaidByPlace(d)'
               /\ SaidUnplaced(d) => SaidUnplaced(d)'
               /\ SaidOver(d) => SaidOver(d)'
    <3>1. ASSUME SaidByPlace(d)  PROVE SaidByPlace(d)'
      <4>1. PICK e \in Call : /\ mine[e] = e /\ RunOf[e] = RunOf[d] /\ Ended(e)
                              /\ said[d] = place[e].refused
        BY <3>1 DEF SaidByPlace
      <4>2. Ended(e)' /\ place'[e].refused = place[e].refused
        BY <1>3, <4>1
      <4>3. QED  BY <2>1, <4>1, <4>2 DEF SaidByPlace
    <3>2. QED  BY <2>1, <3>1 DEF SaidUnplaced, SaidOver
  <2>2. SaidByPlace(c)'  BY <1>3 DEF SaidByPlace
  <2>3. SUFFICES ASSUME NEW d \in Call, outcome'[d] = "refused"
                 PROVE  /\ pc'[d] # "new"
                        /\ SaidByPlace(d)' \/ SaidUnplaced(d)' \/ SaidOver(d)'
                        /\ mine[d] # None => Ended(mine[d])'
    BY DEF SaidSound, Ended
  <2>4. CASE d = c  BY <1>3, <2>2, <2>4
  <2>5. CASE d # c
    <3>1. /\ pc[d] # "new"
          /\ SaidByPlace(d) \/ SaidUnplaced(d) \/ SaidOver(d)
          /\ mine[d] # None => mine[d] \in Call /\ Ended(mine[d])
      BY <1>1, <2>3, <2>5 DEF SaidSound, IsoTyped
    <3>2. QED  BY <1>3, <2>1, <2>5, <3>1
  <2>6. QED  BY <2>4, <2>5
<1>8. QED  BY <1>4, <1>5, <1>6, <1>7 DEF TableInv

\* A payload clears, at a place that nothing has refused.
LEMMA ClearingKeeps ==
  ASSUME IsoTyped, TableInv, NEW c \in Call, NEW m \in Call, m = mine[c],
         ~Ended(m), place'[m].cleared = place[m].cleared + 1,
         place'[m].refused = place[m].refused,
         \A d \in Call : d # m => place'[d] = place[d],
         UNCHANGED <<places, mine, unplaced, ended, over>>,
         \A d \in Call : d # c => /\ pc'[d] = pc[d] /\ outcome'[d] = outcome[d]
                                  /\ said'[d] = said[d],
         pc[c] # "done", pc'[c] # "new", pc'[c] = "done" => ~OneCall(c),
         outcome'[c] = "cleared"
  PROVE  TableInv'
<1>1. PlacesSound /\ MineSound /\ PlaceSound /\ SaidSound  BY DEF TableInv
<1>2. \A k \in Key : /\ Gone(k) => Gone(k)'
                     /\ places[k] # None /\ ~Gone(k) => ~Gone(k)'
  BY <1>1, GoneStays
<1>3. \A d \in Call : /\ Ended(d)' <=> Ended(d)
                      /\ place'[d].refused = place[d].refused
  BY DEF Ended
<1>4. PlacesSound'
  BY <1>1, PlacesStay
<1>5. MineSound'
  <2>1. \A d \in Call : mine[d] # None => mine[d] \in Call  BY DEF IsoTyped
  <2>2. QED  BY <1>1, <1>2, <1>3, <2>1, KeysTyped DEF MineSound
<1>6. PlaceSound'
  <2>1. place[m].cleared \in Nat /\ place'[m].cleared > 0
    BY DEF IsoTyped
  <2>2. \A d \in Call : d # m =>
          (\E e \in Call : mine[e] = d /\ outcome'[e] = "cleared")
          <=> (\E e \in Call : mine[e] = d /\ outcome[e] = "cleared")
    <3>1. SUFFICES ASSUME NEW d \in Call, d # m
                   PROVE  \A e \in Call : mine[e] = d =>
                            outcome'[e] = outcome[e]
      BY <3>1
    <3>2. QED  BY <3>1
  <2>3. \E e \in Call : mine[e] = m /\ outcome'[e] = "cleared"  OBVIOUS
  <2>4. \A d \in Call : d # m => place'[d] = place[d]  OBVIOUS
  <2>5. ~place[m].refused.sent  BY DEF Ended, NoRefusal
  <2>6. \A d \in Call : pc[d] = "done" => pc'[d] = "done" /\ outcome'[d] = outcome[d]
    OBVIOUS
  <2>7. QED  BY <1>1, <1>3, <2>1, <2>2, <2>3, <2>4, <2>5, <2>6 DEF PlaceSound
<1>7. SaidSound'
  <2>1. ASSUME NEW d \in Call, said'[d] = said[d]
        PROVE  /\ SaidByPlace(d) => SaidByPlace(d)'
               /\ SaidUnplaced(d) => SaidUnplaced(d)'
               /\ SaidOver(d) => SaidOver(d)'
    BY <1>3, <2>1 DEF SaidByPlace, SaidUnplaced, SaidOver
  <2>2. SUFFICES ASSUME NEW d \in Call, outcome'[d] = "refused"
                 PROVE  /\ pc'[d] # "new"
                        /\ SaidByPlace(d)' \/ SaidUnplaced(d)' \/ SaidOver(d)'
                        /\ mine[d] # None => Ended(mine[d])'
    BY DEF SaidSound, Ended
  <2>3. d # c  BY <2>2
  <2>4. /\ pc[d] # "new"
        /\ SaidByPlace(d) \/ SaidUnplaced(d) \/ SaidOver(d)
        /\ mine[d] # None => mine[d] \in Call /\ Ended(mine[d])
    BY <1>1, <2>2, <2>3 DEF SaidSound, IsoTyped
  <2>5. QED  BY <1>3, <2>1, <2>3, <2>4
<1>8. QED  BY <1>4, <1>5, <1>6, <1>7 DEF TableInv

\* A call that joins its run's place.
LEMMA JoiningKeeps ==
  ASSUME IsoTyped, TableInv, NEW c \in Call, NEW m \in Call,
         pc[c] = "new", mine[c] = None, outcome[c] = "none",
         places[RunOf[c]] = m, mine'[c] = m,
         \A d \in Call : d # c => mine'[d] = mine[d] /\ pc'[d] = pc[d],
         pc'[c] = "admitted",
         UNCHANGED <<places, place, unplaced, ended, over, outcome, said>>
  PROVE  TableInv'
<1> DEFINE k == RunOf[c]
<1>1. PlacesSound /\ MineSound /\ PlaceSound /\ SaidSound  BY DEF TableInv
<1>2. /\ k \in Key /\ m # None /\ mine[m] = m /\ RunOf[m] = k /\ m # c
      /\ ~Gone(k) /\ unplaced[k] = NoRefusal
  BY <1>1, KeysTyped DEF PlacesSound
<1>3. \A d \in Call : RunOf[d] = k /\ mine[d] # None => mine[d] = m
  BY <1>1, <1>2 DEF MineSound
<1>4. \A d \in Call : (Gone(d)' <=> Gone(d)) /\ (Ended(d)' <=> Ended(d))
  BY DEF Gone, Ended
<1>5. \A r \in Run : Gone(r)' <=> Gone(r)  BY KeysTyped DEF Gone
<1> HIDE DEF k
<1>6. \A j \in Key : Gone(j)' <=> Gone(j)  BY <1>4, <1>5 DEF Key
<1>7. PlacesSound'
  <2>1. InUse' = InUse  BY DEF InUse
  <2>2. \A j \in Key : places[j] # None =>
          places[j] \in Call /\ mine'[places[j]] = places[j]
    <3>1. SUFFICES ASSUME NEW j \in Key, places[j] # None
                   PROVE  places[j] \in Call /\ mine'[places[j]] = places[j]
      OBVIOUS
    <3>2. places[j] \in Call /\ mine[places[j]] = places[j]
      BY <1>1, <3>1 DEF IsoTyped, PlacesSound
    <3>3. places[j] # c  BY <3>1, <3>2
    <3>4. QED  BY <3>2, <3>3
  <2>3. \A j \in Key : unplaced[j] # NoRefusal =>
          \A d \in Call : RunOf[d] = j => mine'[d] = None
    BY <1>1, <1>2 DEF PlacesSound, k
  <2>4. \A j \in Call : pc[j] # "new" => pc'[j] # "new"  OBVIOUS
  <2>5. QED  BY <1>1, <1>6, <2>1, <2>2, <2>3, <2>4 DEF PlacesSound
<1>8. MineSound'
  <2>1. SUFFICES ASSUME NEW d \in Call, mine'[d] # None
                 PROVE  /\ mine'[mine'[d]] = mine'[d]
                        /\ RunOf[mine'[d]] = RunOf[d]
                        /\ \/ places[RunOf[d]] = mine'[d]
                           \/ Gone(RunOf[d])' /\ Ended(mine'[d])
                        /\ \A e \in Call : RunOf[e] = RunOf[d] /\ mine'[e] # None
                                             => mine'[e] = mine'[d]
    BY DEF MineSound, Ended
  <2>2. \A e \in Call : mine[e] # None => mine[e] \in Call  BY DEF IsoTyped
  <2>3. CASE RunOf[d] = k
    <3>1. mine'[d] = m /\ mine'[m] = m
          /\ \A e \in Call : RunOf[e] = k /\ mine'[e] # None => mine'[e] = m
      BY <1>2, <1>3, <2>1, <2>3
    <3>2. QED  BY <1>2, <2>3, <3>1 DEF k
  <2>4. CASE RunOf[d] # k
    <3>1. d # c /\ mine'[d] = mine[d]  BY <2>4 DEF k
    <3>2. /\ mine[mine[d]] = mine[d] /\ RunOf[mine[d]] = RunOf[d]
          /\ \/ places[RunOf[d]] = mine[d]
             \/ Gone(RunOf[d]) /\ Ended(mine[d])
          /\ \A e \in Call : RunOf[e] = RunOf[d] /\ mine[e] # None
                                => mine[e] = mine[d]
      BY <1>1, <2>1, <3>1 DEF MineSound
    <3>3. mine[d] \in Call /\ mine[d] # c
      BY <2>1, <2>2, <3>1, <3>2, KeysTyped
    <3>4. \A e \in Call : RunOf[e] = RunOf[d] => mine'[e] = mine[e]
      BY <2>4 DEF k
    <3>5. RunOf[d] \in Key  BY KeysTyped
    <3>6. QED  BY <1>4, <1>6, <3>1, <3>2, <3>3, <3>4, <3>5
  <2>5. QED  BY <2>3, <2>4
<1>9. PlaceSound'
  <2>1. \A d, e \in Call : mine'[e] = d /\ outcome[e] = "cleared"
                           <=> mine[e] = d /\ outcome[e] = "cleared"
    OBVIOUS
  <2>2. \A d \in Call : mine'[d] # d => mine[d] # d
    BY <1>2, KeysTyped
  <2>3. \A d \in Call : pc[d] = "done" => pc'[d] = "done"  OBVIOUS
  <2>4. QED  BY <1>1, <1>4, <2>1, <2>2, <2>3 DEF PlaceSound
<1>10. SaidSound'
  <2>1. SUFFICES ASSUME NEW d \in Call, outcome[d] = "refused"
                 PROVE  /\ pc'[d] # "new"
                        /\ SaidByPlace(d)' \/ SaidUnplaced(d)' \/ SaidOver(d)'
                        /\ mine'[d] # None => Ended(mine'[d])
    BY DEF SaidSound, Ended
  <2>2. d # c  BY <2>1
  <2>3. /\ pc[d] # "new"
        /\ SaidByPlace(d) \/ SaidUnplaced(d) \/ SaidOver(d)
        /\ mine[d] # None => mine[d] \in Call /\ Ended(mine[d])
    BY <1>1, <2>1 DEF SaidSound, IsoTyped
  <2>4. SaidByPlace(d) => SaidByPlace(d)'
    BY <1>4, KeysTyped DEF SaidByPlace
  <2>5. SaidUnplaced(d) => SaidUnplaced(d)'
    <3>1. SaidUnplaced(d) => RunOf[d] # k
      BY <1>2, KeysTyped DEF SaidUnplaced
    <3>2. QED  BY <3>1 DEF SaidUnplaced, k
  <2>6. SaidOver(d) => SaidOver(d)'  BY DEF SaidOver
  <2>7. QED  BY <1>4, <2>2, <2>3, <2>4, <2>5, <2>6
<1>11. QED  BY <1>7, <1>8, <1>9, <1>10 DEF TableInv

\* A call that finds neither a place, nor a refusal, nor its run's end is the
\* first of a run that is not over: nobody of the run has had a place.
LEMMA NobodyYet ==
  ASSUME IsoTyped, TableInv, Remembered, NEW c \in Call, pc[c] = "new",
         places[RunOf[c]] = None, RunOf[c] \notin ToSet(ended)
  PROVE  /\ ~Gone(RunOf[c]) /\ RunOf[c] \notin over
         /\ \A d \in Call : RunOf[d] = RunOf[c] => mine[d] = None
<1>1. RunOf[c] \notin over  BY DEF Remembered
<1>2. RunOf[c] \in Call => RunOf[c] = c  BY IsolationAssumption
<1>3. ~Gone(RunOf[c])  BY <1>1, <1>2 DEF Gone
<1>4. ASSUME NEW d \in Call, RunOf[d] = RunOf[c], mine[d] # None  PROVE FALSE
  <2>1. places[RunOf[c]] = mine[d] \/ Gone(RunOf[c])
    BY <1>4 DEF TableInv, MineSound
  <2>2. QED  BY <1>3, <1>4, <2>1
<1>5. QED  BY <1>1, <1>3, <1>4

\* A call that takes a place for its run.
LEMMA TakingKeeps ==
  ASSUME IsoTyped, TableInv, Remembered, NEW c \in Call,
         pc[c] = "new", mine[c] = None, outcome[c] = "none",
         places[RunOf[c]] = None, RunOf[c] \notin ToSet(ended),
         unplaced[RunOf[c]] = NoRefusal, ~Full,
         places'[RunOf[c]] = c,
         \A j \in Key : j # RunOf[c] => places'[j] = places[j],
         mine'[c] = c,
         \A d \in Call : d # c => mine'[d] = mine[d] /\ pc'[d] = pc[d],
         pc'[c] = "admitted",
         UNCHANGED <<place, unplaced, ended, over, outcome, said>>
  PROVE  TableInv'
<1> DEFINE k == RunOf[c]
<1>1. PlacesSound /\ MineSound /\ PlaceSound /\ SaidSound  BY DEF TableInv
<1>2. /\ k \in Key /\ c # None /\ k \notin over
      /\ \A d \in Call : RunOf[d] = k => mine[d] = None
  BY NobodyYet, KeysTyped
<1>3. ~Gone(k)  BY NobodyYet
<1>4. \A d \in Call : (Gone(d)' <=> Gone(d)) /\ (Ended(d)' <=> Ended(d))
  BY DEF Gone, Ended
<1>5. \A r \in Run : Gone(r)' <=> Gone(r)  BY KeysTyped DEF Gone
<1>6. k \in Call => k = c  BY IsolationAssumption
<1> HIDE DEF k
<1>7. \A j \in Key : Gone(j)' <=> Gone(j)  BY <1>4, <1>5 DEF Key
<1>8. /\ IsFiniteSet(InUse') /\ Cardinality(InUse') <= MaxRuns
  <2>1. InUse' = InUse \cup {k} /\ k \notin InUse
    BY <1>2 DEF InUse, k
  <2>2. IsFiniteSet(InUse)  BY <1>1 DEF PlacesSound
  <2>3. /\ IsFiniteSet(InUse \cup {k})
        /\ Cardinality(InUse \cup {k}) = Cardinality(InUse) + 1
        /\ Cardinality(InUse) \in Nat
    BY <2>1, <2>2, FS_AddElement, FS_CardinalityType
  <2>4. Cardinality(InUse) + 1 <= MaxRuns
    BY <2>3, IsolationAssumption DEF Full
  <2>5. QED  BY <2>1, <2>3, <2>4
<1>9. PlacesSound'
  <2>1. ASSUME NEW j \in Key, places'[j] # None
        PROVE  /\ ~Gone(j)' /\ unplaced[j] = NoRefusal
               /\ RunOf[places'[j]] = j /\ mine'[places'[j]] = places'[j]
               /\ j \in Call => pc'[j] # "new"
    <3>1. CASE j = k  BY <1>3, <1>6, <1>7, <2>1, <3>1 DEF k
    <3>2. CASE j # k
      <4>1. places'[j] = places[j] /\ places[j] \in Call
        BY <2>1, <3>2 DEF k, IsoTyped
      <4>2. /\ ~Gone(j) /\ unplaced[j] = NoRefusal
            /\ RunOf[places[j]] = j /\ mine[places[j]] = places[j]
            /\ j \in Call => pc[j] # "new"
        BY <1>1, <2>1, <4>1 DEF PlacesSound
      <4>3. places[j] # c  BY <3>2, <4>2 DEF k
      <4>4. QED  BY <1>7, <4>1, <4>2, <4>3
    <3>3. QED  BY <3>1, <3>2
  <2>2. \A j \in Key : unplaced[j] # NoRefusal =>
          \A d \in Call : RunOf[d] = j => mine'[d] = None
    BY <1>1 DEF PlacesSound, k
  <2>3. QED  BY <1>1, <1>8, <2>1, <2>2 DEF PlacesSound
<1>10. MineSound'
  <2>1. SUFFICES ASSUME NEW d \in Call, mine'[d] # None
                 PROVE  /\ mine'[mine'[d]] = mine'[d]
                        /\ RunOf[mine'[d]] = RunOf[d]
                        /\ \/ places'[RunOf[d]] = mine'[d]
                           \/ Gone(RunOf[d])' /\ Ended(mine'[d])
                        /\ \A e \in Call : RunOf[e] = RunOf[d] /\ mine'[e] # None
                                             => mine'[e] = mine'[d]
    BY DEF MineSound, Ended
  <2>2. CASE RunOf[d] = k
    <3>1. d = c /\ \A e \in Call : RunOf[e] = k /\ mine'[e] # None => e = c
      BY <1>2, <2>1, <2>2
    <3>2. QED  BY <2>2, <3>1 DEF k
  <2>3. CASE RunOf[d] # k
    <3>1. d # c /\ mine'[d] = mine[d]  BY <2>3 DEF k
    <3>2. /\ mine[mine[d]] = mine[d] /\ RunOf[mine[d]] = RunOf[d]
          /\ \/ places[RunOf[d]] = mine[d]
             \/ Gone(RunOf[d]) /\ Ended(mine[d])
          /\ \A e \in Call : RunOf[e] = RunOf[d] /\ mine[e] # None
                                => mine[e] = mine[d]
      BY <1>1, <2>1, <3>1 DEF MineSound
    <3>3. mine[d] \in Call /\ mine[d] # c
      BY <2>1, <3>1, <3>2, KeysTyped DEF IsoTyped
    <3>4. \A e \in Call : RunOf[e] = RunOf[d] => mine'[e] = mine[e]
      BY <2>3 DEF k
    <3>5. RunOf[d] \in Key /\ places'[RunOf[d]] = places[RunOf[d]]
      BY <2>3, KeysTyped DEF k
    <3>6. QED  BY <1>4, <1>7, <3>1, <3>2, <3>3, <3>4, <3>5
  <2>4. QED  BY <2>2, <2>3
<1>11. PlaceSound'
  <2>1. \A d, e \in Call : mine'[e] = d /\ outcome[e] = "cleared"
                           <=> mine[e] = d /\ outcome[e] = "cleared"
    OBVIOUS
  <2>2. \A d \in Call : mine'[d] # d => mine[d] # d
    BY <1>2, KeysTyped
  <2>3. \A d \in Call : pc[d] = "done" => pc'[d] = "done"  OBVIOUS
  <2>4. QED  BY <1>1, <1>4, <2>1, <2>2, <2>3 DEF PlaceSound
<1>12. SaidSound'
  <2>1. SUFFICES ASSUME NEW d \in Call, outcome[d] = "refused"
                 PROVE  /\ pc'[d] # "new"
                        /\ SaidByPlace(d)' \/ SaidUnplaced(d)' \/ SaidOver(d)'
                        /\ mine'[d] # None => Ended(mine'[d])
    BY DEF SaidSound, Ended
  <2>2. d # c  BY <2>1
  <2>3. /\ pc[d] # "new"
        /\ SaidByPlace(d) \/ SaidUnplaced(d) \/ SaidOver(d)
        /\ mine[d] # None => mine[d] \in Call /\ Ended(mine[d])
    BY <1>1, <2>1 DEF SaidSound, IsoTyped
  <2>4. SaidByPlace(d) => SaidByPlace(d)'
    BY <1>4, KeysTyped DEF SaidByPlace
  <2>5. SaidUnplaced(d) => SaidUnplaced(d)'
    <3>1. SaidUnplaced(d) => RunOf[d] # k
      <4>1. ASSUME SaidUnplaced(d), RunOf[d] = k  PROVE FALSE
        <5>1. k \notin Call  BY <1>6, <2>2, <4>1, KeysTyped
        <5>2. unplaced[k] = Busy(FALSE)
          BY <1>2, <4>1, <5>1 DEF SaidUnplaced
        <5>3. QED  BY <5>2, RefusalsTyped DEF k
      <4>2. QED  BY <4>1
    <3>2. QED  BY <3>1 DEF SaidUnplaced, k
  <2>6. SaidOver(d) => SaidOver(d)'  BY DEF SaidOver
  <2>7. QED  BY <1>4, <2>2, <2>3, <2>4, <2>5, <2>6
<1>13. QED  BY <1>9, <1>10, <1>11, <1>12 DEF TableInv

\* A run turned away for want of a place, which is remembered of it.
LEMMA TurningAwayKeeps ==
  ASSUME IsoTyped, TableInv, Remembered, NEW c \in Call,
         pc[c] = "new", mine[c] = None, outcome[c] = "none",
         places[RunOf[c]] = None, RunOf[c] \notin ToSet(ended),
         unplaced[RunOf[c]] = NoRefusal,
         IF OneCall(c) THEN unplaced' = unplaced
         ELSE /\ unplaced'[RunOf[c]] = Busy(FALSE)
              /\ \A j \in Key : j # RunOf[c] => unplaced'[j] = unplaced[j],
         \A d \in Call : d # c => /\ pc'[d] = pc[d] /\ outcome'[d] = outcome[d]
                                  /\ said'[d] = said[d],
         pc'[c] = "done", outcome'[c] = "refused", said'[c] = Busy(FALSE),
         UNCHANGED <<places, place, mine, ended, over>>
  PROVE  TableInv'
<1> DEFINE k == RunOf[c]
<1>1. PlacesSound /\ MineSound /\ PlaceSound /\ SaidSound  BY DEF TableInv
<1>2. /\ k \in Key /\ c # None /\ k \notin over
      /\ \A d \in Call : RunOf[d] = k => mine[d] = None
  BY NobodyYet, KeysTyped
<1>3. OneCall(c) <=> k \in Call
  BY IsolationAssumption DEF OneCall
<1>4. \A j \in Key : j # k => unplaced'[j] = unplaced[j]
  OBVIOUS
<1>5. \A m \in Call : Ended(m)' <=> Ended(m)
  BY DEF Ended
<1>6. \A j \in Key : /\ Gone(j) => Gone(j)'
                     /\ places[j] # None /\ ~Gone(j) => ~Gone(j)'
  <2>1. SUFFICES ASSUME NEW j \in Key
                 PROVE  /\ Gone(j) => Gone(j)'
                        /\ places[j] # None /\ ~Gone(j) => ~Gone(j)'
    OBVIOUS
  <2>2. CASE j # c  BY <2>2 DEF Gone
  <2>3. CASE j = c
    <3>1. places[j] # None => places[j] \in Call /\ RunOf[places[j]] = j
      BY <1>1 DEF IsoTyped, PlacesSound
    <3>2. places[j] # None => FALSE
      BY <2>3, <3>1, KeysTyped
    <3>3. QED  BY <2>3, <3>2 DEF Gone
  <2>4. QED  BY <2>2, <2>3
<1>7. PlacesSound'
  <2>1. InUse' = InUse  BY DEF InUse
  <2>2. \A d \in Call : pc[d] # "new" => pc'[d] # "new"  OBVIOUS
  <2>3. ASSUME NEW j \in Key, places[j] # None
        PROVE  unplaced'[j] = NoRefusal
    BY <1>1, <1>4, <2>3 DEF PlacesSound
  <2>4. ASSUME NEW j \in Key, unplaced'[j] # NoRefusal
        PROVE  /\ j \in Run \ over /\ unplaced'[j] = Busy(FALSE)
               /\ \A d \in Call : RunOf[d] = j => mine[d] = None
    <3>1. CASE j = k
      <4>1. ~OneCall(c)  BY <2>4, <3>1
      <4>2. j \in Run  BY <1>2, <1>3, <3>1, <4>1 DEF Key
      <4>3. QED  BY <1>2, <3>1, <4>1, <4>2
    <3>2. CASE j # k
      BY <1>1, <1>4, <2>4, <3>2 DEF PlacesSound
    <3>3. QED  BY <3>1, <3>2
  <2>5. QED  BY <1>1, <1>6, <2>1, <2>2, <2>3, <2>4 DEF PlacesSound
<1>8. MineSound'
  <2>1. \A d \in Call : mine[d] # None => mine[d] \in Call  BY DEF IsoTyped
  <2>2. QED  BY <1>1, <1>5, <1>6, <2>1, KeysTyped DEF MineSound
<1>9. PlaceSound'
  <2>1. \A d \in Call : outcome'[d] = "cleared" <=> outcome[d] = "cleared"
    OBVIOUS
  <2>2. \A d \in Call : pc[d] = "done" => pc'[d] = "done" /\ outcome'[d] = outcome[d]
    OBVIOUS
  <2>3. QED  BY <1>1, <1>5, <2>1, <2>2 DEF PlaceSound
<1>10. SaidSound'
  <2>1. SUFFICES ASSUME NEW d \in Call, outcome'[d] = "refused"
                 PROVE  /\ pc'[d] # "new"
                        /\ SaidByPlace(d)' \/ SaidUnplaced(d)' \/ SaidOver(d)'
                        /\ mine[d] # None => Ended(mine[d])
    BY DEF SaidSound, Ended
  <2>2. CASE d = c
    <3>1. RunOf[c] \in Call \/ unplaced'[RunOf[c]] = Busy(FALSE)
      BY <1>3
    <3>2. SaidUnplaced(c)'
      BY <1>2, <3>1 DEF SaidUnplaced
    <3>3. QED  BY <2>2, <3>2
  <2>3. CASE d # c
    <3>1. /\ pc[d] # "new"
          /\ SaidByPlace(d) \/ SaidUnplaced(d) \/ SaidOver(d)
          /\ mine[d] # None => Ended(mine[d])
      BY <1>1, <2>1, <2>3 DEF SaidSound
    <3>2. SaidByPlace(d) => SaidByPlace(d)'
      BY <1>5, <2>3 DEF SaidByPlace
    <3>3. SaidUnplaced(d) => SaidUnplaced(d)'
      <4>1. unplaced[RunOf[d]] = Busy(FALSE) => unplaced'[RunOf[d]] = Busy(FALSE)
        BY KeysTyped, RefusalsTyped
      <4>2. QED  BY <2>3, <4>1 DEF SaidUnplaced
    <3>4. SaidOver(d) => SaidOver(d)'  BY <2>3 DEF SaidOver
    <3>5. QED  BY <2>3, <3>1, <3>2, <3>3, <3>4
  <2>4. QED  BY <2>2, <2>3
<1>11. QED  BY <1>7, <1>8, <1>9, <1>10 DEF TableInv

\* The end of a run, or of a one-call run.
LEMMA ReleasingKeeps ==
  ASSUME IsoTyped, IsoTyped', TableInv, NEW k \in Key, Release(k),
         \/ k \in Run /\ over' = over \cup {k} /\ pc' = pc
         \/ k \in Call /\ over' = over /\ pc' = [pc EXCEPT ![k] = "done"],
         UNCHANGED <<mine, outcome, said>>
  PROVE  TableInv'
<1>1. PlacesSound /\ MineSound /\ PlaceSound /\ SaidSound  BY DEF TableInv
<1>2. /\ places'[k] = None /\ \A j \in Key : j # k => places'[j] = places[j]
      /\ unplaced'[k] = NoRefusal
      /\ \A j \in Key : j # k => unplaced'[j] = unplaced[j]
      /\ k \in Call => ToSet(ended') \subseteq ToSet(ended)
      /\ ToSet(ended') \subseteq ToSet(ended) \cup {k}
  BY ReleaseTyped
<1>3. /\ \A d \in Call : d # k => pc'[d] = pc[d]
      /\ k \in Call => pc'[k] = "done"
      /\ \A d \in Call : pc'[d] = pc[d] \/ pc'[d] = "done"
      /\ over \subseteq over' /\ k \in Run => k \in over'
      /\ \A j \in Key : j # k => (j \in over' <=> j \in over)
  BY KeysTyped DEF IsoTyped
<1>4. Gone(k)' /\ \A j \in Key : j # k => (Gone(j)' <=> Gone(j))
  BY <1>3 DEF Gone, Key
<1>5. \A j \in Key : Gone(j) => Gone(j)'
  BY <1>4
<1>6. places[k] # None => /\ places[k] \in Call /\ RunOf[places[k]] = k
                          /\ mine[places[k]] = places[k]
  BY <1>1 DEF IsoTyped, PlacesSound
<1>7. /\ (places[k] # None /\ ~Ended(places[k]))
            => /\ place'[places[k]].cleared = place[places[k]].cleared
               /\ place'[places[k]].refused = Busy(TRUE)
      /\ \A m \in Call : Ended(m) \/ m # places[k] => place'[m] = place[m]
  <2>1. CASE places[k] # None /\ ~Ended(places[k])
    <3>1. place' = [place EXCEPT ![places[k]].refused = Busy(TRUE)]
      BY <2>1 DEF Release, EndPlace
    <3>2. place \in [Call -> [cleared : Nat, refused : Refusal]]
      BY DEF IsoTyped
    <3>3. QED  BY <1>6, <2>1, <3>1, <3>2
  <2>2. CASE ~(places[k] # None /\ ~Ended(places[k]))
    BY <2>2 DEF Release, EndPlace
  <2>3. QED  BY <2>1, <2>2
<1>8. \A m \in Call : /\ Ended(m) => Ended(m)' /\ place'[m].refused = place[m].refused
                      /\ place'[m].cleared = place[m].cleared
                      /\ m = places[k] => Ended(m)'
  <2>1. SUFFICES ASSUME NEW m \in Call
                 PROVE  /\ Ended(m) => Ended(m)' /\ place'[m].refused = place[m].refused
                        /\ place'[m].cleared = place[m].cleared
                        /\ m = places[k] => Ended(m)'
    OBVIOUS
  <2>2. CASE Ended(m) \/ m # places[k]
    <3>1. place'[m] = place[m]  BY <1>7, <2>2
    <3>2. QED  BY <2>2, <3>1 DEF Ended
  <2>3. CASE ~Ended(m) /\ m = places[k]
    <3>1. m # None  BY KeysTyped
    <3>2. /\ place'[m].cleared = place[m].cleared
          /\ place'[m].refused = Busy(TRUE)
      BY <1>7, <2>3, <3>1
    <3>3. QED  BY <2>3, <3>2, RefusalsTyped DEF Ended
  <2>4. QED  BY <2>2, <2>3
<1>10. PlacesSound'
  <2>1. IsFiniteSet(InUse') /\ Cardinality(InUse') <= MaxRuns
    <3>1. InUse' \subseteq InUse  BY <1>2 DEF InUse
    <3>2. IsFiniteSet(InUse) /\ Cardinality(InUse) <= MaxRuns
      BY <1>1 DEF PlacesSound
    <3>3. IsFiniteSet(InUse') /\ Cardinality(InUse') <= Cardinality(InUse)
      BY <3>1, <3>2, FS_Subset
    <3>4. Cardinality(InUse) \in Nat /\ Cardinality(InUse') \in Nat
      BY <3>2, <3>3, FS_CardinalityType
    <3>5. QED  BY <3>2, <3>3, <3>4, IsolationAssumption
  <2>2. ASSUME NEW j \in Key, places'[j] # None
        PROVE  /\ ~Gone(j)' /\ unplaced'[j] = NoRefusal
               /\ RunOf[places'[j]] = j /\ mine'[places'[j]] = places'[j]
               /\ j \in Call => pc'[j] # "new"
    <3>1. j # k /\ places'[j] = places[j]  BY <1>2, <2>2
    <3>2. QED  BY <1>1, <1>2, <1>3, <1>4, <2>2, <3>1 DEF PlacesSound
  <2>3. ASSUME NEW j \in Key, unplaced'[j] # NoRefusal
        PROVE  /\ j \in Run \ over' /\ unplaced'[j] = Busy(FALSE)
               /\ \A d \in Call : RunOf[d] = j => mine'[d] = None
    BY <1>1, <1>2, <1>3, <2>3 DEF PlacesSound
  <2>4. ToSet(ended') \subseteq over'
    BY <1>1, <1>2, <1>3 DEF PlacesSound, Key
  <2>5. QED  BY <2>1, <2>2, <2>3, <2>4 DEF PlacesSound
<1>11. MineSound'
  <2>1. SUFFICES ASSUME NEW d \in Call, mine[d] # None
                 PROVE  /\ mine[mine[d]] = mine[d] /\ RunOf[mine[d]] = RunOf[d]
                        /\ \/ places'[RunOf[d]] = mine[d]
                           \/ Gone(RunOf[d])' /\ Ended(mine[d])'
                        /\ \A e \in Call : RunOf[e] = RunOf[d] /\ mine[e] # None
                                             => mine[e] = mine[d]
    BY DEF MineSound
  <2>2. /\ mine[mine[d]] = mine[d] /\ RunOf[mine[d]] = RunOf[d]
        /\ \/ places[RunOf[d]] = mine[d]
           \/ Gone(RunOf[d]) /\ Ended(mine[d])
        /\ \A e \in Call : RunOf[e] = RunOf[d] /\ mine[e] # None
                             => mine[e] = mine[d]
    BY <1>1, <2>1 DEF MineSound
  <2>3. mine[d] \in Call /\ RunOf[d] \in Key
    BY <2>1, KeysTyped DEF IsoTyped
  <2>4. CASE RunOf[d] = k /\ places[k] = mine[d]
    BY <1>4, <1>8, <2>1, <2>2, <2>3, <2>4
  <2>5. CASE RunOf[d] # k /\ places[RunOf[d]] = mine[d]
    BY <1>2, <2>2, <2>3, <2>5
  <2>6. CASE Gone(RunOf[d]) /\ Ended(mine[d])
    BY <1>5, <1>8, <2>2, <2>3, <2>6
  <2>7. QED  BY <2>2, <2>4, <2>5, <2>6
<1>12. PlaceSound'
  <2>1. SUFFICES ASSUME NEW m \in Call
                 PROVE  /\ place'[m].cleared > 0
                           <=> \E d \in Call : mine[d] = m /\ outcome[d] = "cleared"
                        /\ Ended(m)' /\ ~place'[m].refused.sent
                           => place'[m].cleared = 0
                        /\ place'[m].refused.sent =>
                             \/ place'[m].cleared > 0
                             \/ RunOf[m] \in over'
                             \/ /\ RunOf[m] = m /\ pc'[m] = "done"
                                /\ outcome[m] # "refused"
                        /\ mine[m] # m => ~Ended(m)'
    BY DEF PlaceSound
  <2>2. /\ place[m].cleared > 0
           <=> \E d \in Call : mine[d] = m /\ outcome[d] = "cleared"
        /\ Ended(m) /\ ~place[m].refused.sent => place[m].cleared = 0
        /\ place[m].refused.sent =>
             \/ place[m].cleared > 0
             \/ RunOf[m] \in over
             \/ RunOf[m] = m /\ pc[m] = "done" /\ outcome[m] # "refused"
        /\ mine[m] # m => ~Ended(m)
    BY <1>1 DEF PlaceSound
  <2>3. CASE Ended(m) \/ m # places[k]
    <3>1. place'[m] = place[m] /\ (Ended(m)' <=> Ended(m))
      BY <1>7, <2>3 DEF Ended
    <3>2. pc[m] = "done" => pc'[m] = "done"  BY <1>3
    <3>3. QED  BY <1>3, <2>2, <3>1, <3>2
  <2>4. CASE ~Ended(m) /\ m = places[k]
    <3>1. m # None /\ RunOf[m] = k /\ mine[m] = m
      BY <1>6, <2>4, KeysTyped
    <3>2. /\ place'[m].cleared = place[m].cleared
          /\ place'[m].refused = Busy(TRUE)
      BY <1>7, <2>4, <3>1
    <3>3. place'[m].refused.sent  BY <3>2 DEF Busy
    <3>4. outcome[m] # "refused"
      BY <1>1, <2>4, <3>1 DEF SaidSound
    <3>5. k \in Call => m = k  BY <3>1, KeysTyped
    <3>6. QED  BY <1>3, <2>2, <3>1, <3>2, <3>3, <3>4, <3>5 DEF Key
  <2>5. QED  BY <2>3, <2>4
<1>13. SaidSound'
  <2>1. SUFFICES ASSUME NEW d \in Call, outcome[d] = "refused"
                 PROVE  /\ pc'[d] # "new"
                        /\ SaidByPlace(d)' \/ SaidUnplaced(d)' \/ SaidOver(d)'
                        /\ mine[d] # None => Ended(mine[d])'
    BY DEF SaidSound
  <2>2. /\ pc[d] # "new"
        /\ SaidByPlace(d) \/ SaidUnplaced(d) \/ SaidOver(d)
        /\ mine[d] # None => mine[d] \in Call /\ Ended(mine[d])
    BY <1>1, <2>1 DEF SaidSound, IsoTyped
  <2>3. SaidByPlace(d) => SaidByPlace(d)'
    <3>1. ASSUME SaidByPlace(d)  PROVE SaidByPlace(d)'
      <4>1. PICK e \in Call : /\ mine[e] = e /\ RunOf[e] = RunOf[d] /\ Ended(e)
                              /\ said[d] = place[e].refused
        BY <3>1 DEF SaidByPlace
      <4>2. Ended(e)' /\ place'[e].refused = place[e].refused
        BY <1>8, <4>1
      <4>3. QED  BY <4>1, <4>2 DEF SaidByPlace
    <3>2. QED  BY <3>1
  <2>4. SaidUnplaced(d) => SaidUnplaced(d)'
    <3>1. RunOf[d] \in Key  BY KeysTyped
    <3>2. CASE RunOf[d] = k  BY <1>3, <3>1, <3>2 DEF SaidUnplaced, Key
    <3>3. CASE RunOf[d] # k  BY <1>2, <1>3, <3>1, <3>3 DEF SaidUnplaced
    <3>4. QED  BY <3>2, <3>3
  <2>5. SaidOver(d) => SaidOver(d)'  BY <1>3 DEF SaidOver
  <2>6. QED  BY <1>3, <1>8, <2>2, <2>3, <2>4, <2>5
<1>14. QED  BY <1>10, <1>11, <1>12, <1>13 DEF TableInv

---------------------------------------------------------------------------
(* The steps of the boundary.                                              *)

BoundaryInv == CallsInv /\ TableInv

LEMMA AdmitKeeps ==
  ASSUME BoundaryInv, Remembered, NEW c \in Call, Admit(c)
  PROVE  TableInv'
<1> DEFINE k == RunOf[c]
<1>1. /\ IsoTyped /\ TableInv /\ CallsSound /\ pc[c] = "new" /\ k \in Key
      /\ UNCHANGED <<place, ended, over>>
  BY KeysTyped DEF BoundaryInv, CallsInv, CallInv, Admit
<1>2. outcome[c] = "none" /\ mine[c] = None  BY <1>1 DEF CallsSound
<1>3. ASSUME NEW s \in Refusal, Raise(c, s), Leave(c),
             UNCHANGED <<places, mine, unplaced>>,
             \/ \E m \in Call : /\ mine[m] = m /\ RunOf[m] = k /\ Ended(m)
                                /\ s = place[m].refused
             \/ /\ s = Busy(FALSE) /\ unplaced[k] = Busy(FALSE)
                /\ \A d \in Call : RunOf[d] = k => mine[d] = None
             \/ s = Busy(TRUE) /\ k \in over
      PROVE  TableInv'
  <2>1. /\ pc'[c] \in {"close", "done"} /\ (pc'[c] = "done" => ~OneCall(c))
        /\ \A d \in Call : d # c => pc'[d] = pc[d]
    BY <1>1, <1>3, Leaves
  <2>2. /\ outcome'[c] = "refused" /\ said'[c] = s
        /\ \A d \in Call : d # c => outcome'[d] = outcome[d] /\ said'[d] = said[d]
    BY <1>1, <1>3, Raises
  <2>3. \A m : Ended(m)' <=> Ended(m)  BY <1>1 DEF Ended
  <2>4. SaidByPlace(c)' \/ SaidUnplaced(c)' \/ SaidOver(c)'
    BY <1>1, <1>3, <2>2, <2>3 DEF SaidByPlace, SaidUnplaced, SaidOver
  <2>5. QED
    BY <1>1, <1>2, <1>3, <2>1, <2>2, <2>4, QuietKeeps
<1>4. CASE places[k] # None /\ Ended(places[k])
           /\ Raise(c, place[places[k]].refused) /\ Leave(c)
           /\ UNCHANGED <<places, mine, unplaced>>
  <2>1. /\ places[k] \in Call /\ RunOf[places[k]] = k
        /\ mine[places[k]] = places[k]
    BY <1>1, <1>4 DEF TableInv, PlacesSound, IsoTyped
  <2>2. place[places[k]].refused \in Refusal  BY <1>1, <2>1 DEF IsoTyped
  <2>3. QED  BY <1>3, <1>4, <2>1, <2>2
<1>5. CASE places[k] # None /\ ~Ended(places[k])
           /\ mine' = [mine EXCEPT ![c] = places[k]]
           /\ Goto(c, "admitted")
           /\ UNCHANGED <<places, unplaced, outcome, said>>
  <2>1. places[k] \in Call  BY <1>1, <1>5 DEF IsoTyped
  <2>2. /\ pc'[c] = "admitted" /\ mine'[c] = places[k]
        /\ \A d \in Call : d # c => mine'[d] = mine[d] /\ pc'[d] = pc[d]
    BY <1>1, <1>5, Goes DEF Pc, IsoTyped
  <2>3. QED  BY <1>1, <1>2, <1>5, <2>1, <2>2, JoiningKeeps
<1>6. CASE places[k] = None /\ unplaced[k] # NoRefusal
           /\ Raise(c, unplaced[k]) /\ Leave(c)
           /\ UNCHANGED <<places, mine, unplaced>>
  <2>1. /\ unplaced[k] = Busy(FALSE)
        /\ \A d \in Call : RunOf[d] = k => mine[d] = None
    BY <1>1, <1>6 DEF TableInv, PlacesSound
  <2>2. QED  BY <1>3, <1>6, <2>1, RefusalsTyped
<1>7. CASE places[k] = None /\ unplaced[k] = NoRefusal /\ k \in ToSet(ended)
           /\ Raise(c, Busy(TRUE)) /\ Leave(c)
           /\ UNCHANGED <<places, mine, unplaced>>
  <2>1. k \in over  BY <1>1, <1>7 DEF TableInv, PlacesSound
  <2>2. QED  BY <1>3, <1>7, <2>1, RefusalsTyped
<1>8. CASE places[k] = None /\ unplaced[k] = NoRefusal /\ k \notin ToSet(ended)
           /\ Full /\ RememberUnplaced(c)
           /\ Raise(c, Busy(FALSE)) /\ Goto(c, "done")
           /\ UNCHANGED <<places, mine>>
  <2>1. pc'[c] = "done" /\ \A d \in Call : d # c => pc'[d] = pc[d]
    BY <1>1, <1>8, Goes DEF Pc
  <2>2. /\ outcome'[c] = "refused" /\ said'[c] = Busy(FALSE)
        /\ \A d \in Call : d # c => outcome'[d] = outcome[d] /\ said'[d] = said[d]
    BY <1>1, <1>8, Raises, RefusalsTyped
  <2>3. IF OneCall(c) THEN unplaced' = unplaced
        ELSE /\ unplaced'[k] = Busy(FALSE)
             /\ \A j \in Key : j # k => unplaced'[j] = unplaced[j]
    BY <1>1, <1>8 DEF RememberUnplaced, IsoTyped
  <2>4. QED  BY <1>1, <1>2, <1>8, <2>1, <2>2, <2>3, TurningAwayKeeps
<1>9. CASE places[k] = None /\ unplaced[k] = NoRefusal /\ k \notin ToSet(ended)
           /\ ~Full /\ places' = [places EXCEPT ![k] = c]
           /\ mine' = [mine EXCEPT ![c] = c]
           /\ Goto(c, "admitted") /\ UNCHANGED <<unplaced, outcome, said>>
  <2>1. /\ pc'[c] = "admitted" /\ mine'[c] = c
        /\ \A d \in Call : d # c => mine'[d] = mine[d] /\ pc'[d] = pc[d]
    BY <1>1, <1>9, Goes DEF Pc, IsoTyped
  <2>2. places'[k] = c /\ \A j \in Key : j # k => places'[j] = places[j]
    BY <1>1, <1>9 DEF IsoTyped
  <2>3. QED  BY <1>1, <1>2, <1>9, <2>1, <2>2, TakingKeeps
<1>10. QED
  BY <1>4, <1>5, <1>6, <1>7, <1>8, <1>9 DEF Admit

\* A call that raises its place's refusal, or the first one.
LEMMA RefuseKeeps ==
  ASSUME BoundaryInv, NEW c \in Call, pc[c] \in {"timed_out", "settle"},
         NEW reason \in {"busy", "budget", "failed"},
         Refuse(c, reason), Leave(c), UNCHANGED <<places, mine, unplaced, ended, over>>
  PROVE  TableInv'
<1>1. IsoTyped /\ TableInv /\ CallsSound
  BY DEF BoundaryInv, CallsInv, CallInv
<1>2. mine[c] \in Call /\ outcome[c] \notin {"cleared", "refused"}
  BY <1>1 DEF CallsSound, InPlace, Heard, IsoTyped
<1> DEFINE m == mine[c]
           s == IF Ended(m) THEN place[m].refused
                ELSE [reason |-> reason, sent |-> place[m].cleared > 0]
<1>3. /\ s \in Refusal /\ s # NoRefusal /\ Raise(c, s)
      /\ place'[m].cleared = place[m].cleared /\ place'[m].refused = s
      /\ \A d \in Call : d # m => place'[d] = place[d]
  BY <1>1, <1>2, Refuses
<1>4. /\ Ended(m) => s = place[m].refused
      /\ ~Ended(m) => (s.sent <=> place[m].cleared > 0)
  OBVIOUS
<1>5. m = mine[c] /\ m \in Call  BY <1>2
<1> HIDE DEF m, s
<1>6. /\ pc'[c] \in {"close", "done"} /\ (pc'[c] = "done" => ~OneCall(c))
      /\ \A d \in Call : d # c => pc'[d] = pc[d]
  BY <1>1, Leaves
<1>7. /\ outcome'[c] = "refused" /\ said'[c] = s
      /\ \A d \in Call : d # c => outcome'[d] = outcome[d] /\ said'[d] = said[d]
  BY <1>1, <1>3, Raises
<1>8. QED  BY <1>1, <1>2, <1>3, <1>4, <1>5, <1>6, <1>7, RefusingKeeps

\* The steps of a call under way that leave the tables as they are.
LEMMA MovesKeep ==
  ASSUME BoundaryInv, NEW c \in Call,
         WaitForSlot(c) \/ WakeUp(c) \/ GiveBackSlot(c)
  PROVE  TableInv'
<1>1. /\ IsoTyped /\ TableInv /\ CallsSound
      /\ UNCHANGED <<places, place, mine, unplaced, ended, over, outcome, said>>
      /\ pc[c] \in {"admitted", "queued", "give_back"}
  BY DEF BoundaryInv, CallsInv, CallInv, WaitForSlot, WakeUp, GiveBackSlot
<1>2. outcome[c] # "cleared"
  BY <1>1 DEF CallsSound, InPlace, Heard
<1>3. /\ pc'[c] # "new" /\ (pc'[c] = "done" => ~OneCall(c))
      /\ \A d \in Call : d # c => pc'[d] = pc[d]
  <2>1. \A l \in Pc \ {"new", "done"} : Goto(c, l) => <1>3
    BY <1>1, Goes
  <2>2. Leave(c) => <1>3  BY <1>1, Leaves
  <2>3. QED  BY <2>1, <2>2 DEF WaitForSlot, WakeUp, GiveBackSlot, Pc
<1>4. QED  BY <1>1, <1>2, <1>3, QuietKeeps

LEMMA LookKeeps ==
  ASSUME BoundaryInv, NEW c \in Call, LookBeforeChild(c)
  PROVE  TableInv'
<1>1. /\ IsoTyped /\ TableInv /\ CallsSound /\ pc[c] = "slot"
      /\ UNCHANGED <<places, place, mine, unplaced, ended, over>>
  BY DEF BoundaryInv, CallsInv, CallInv, LookBeforeChild
<1>2. outcome[c] = "none" /\ mine[c] \in Call
  BY <1>1 DEF CallsSound, InPlace, IsoTyped
<1>3. CASE Ended(mine[c])
  <2>1. Raise(c, place[mine[c]].refused) /\ Goto(c, "give_back")
    BY <1>3 DEF LookBeforeChild
  <2>2. pc'[c] = "give_back" /\ \A d \in Call : d # c => pc'[d] = pc[d]
    BY <1>1, <2>1, Goes DEF Pc
  <2>3. place[mine[c]].refused \in Refusal  BY <1>1, <1>2 DEF IsoTyped
  <2>4. /\ outcome'[c] = "refused" /\ said'[c] = place[mine[c]].refused
        /\ \A d \in Call : d # c => outcome'[d] = outcome[d] /\ said'[d] = said[d]
    BY <1>1, <2>1, <2>3, Raises
  <2>5. mine[mine[c]] = mine[c] /\ RunOf[mine[c]] = RunOf[c]
    BY <1>1, <1>2, KeysTyped DEF TableInv, MineSound
  <2>6. \A m : Ended(m)' <=> Ended(m)  BY <1>1 DEF Ended
  <2>7. SaidByPlace(c)'
    BY <1>1, <1>2, <1>3, <2>4, <2>5, <2>6 DEF SaidByPlace
  <2>8. QED  BY <1>1, <1>2, <1>3, <2>2, <2>4, <2>7, QuietKeeps
<1>4. CASE ~Ended(mine[c])
  <2>1. Goto(c, "child") /\ outcome' = outcome /\ said' = said
    BY <1>4 DEF LookBeforeChild
  <2>2. pc'[c] = "child" /\ \A d \in Call : d # c => pc'[d] = pc[d]
    BY <1>1, <2>1, Goes DEF Pc
  <2>3. QED  BY <1>1, <1>2, <2>1, <2>2, QuietKeeps
<1>5. QED  BY <1>3, <1>4

LEMMA ChildKeeps ==
  ASSUME BoundaryInv, NEW c \in Call, ChildEnds(c)
  PROVE  TableInv'
<1>1. /\ IsoTyped /\ TableInv /\ CallsSound /\ pc[c] = "child"
      /\ UNCHANGED <<places, place, mine, unplaced, ended, over>>
      /\ Goto(c, "give_back")
  BY DEF BoundaryInv, CallsInv, CallInv, ChildEnds
<1>2. outcome[c] = "none"  BY <1>1 DEF CallsSound, InPlace
<1>3. PICK kind \in Heard : Settled(c, kind)
  BY DEF ChildEnds, Heard
<1>4. pc'[c] = "give_back" /\ \A d \in Call : d # c => pc'[d] = pc[d]
  BY <1>1, Goes DEF Pc
<1>5. /\ outcome'[c] \notin {"cleared", "refused"} /\ said' = said
      /\ \A d \in Call : d # c => outcome'[d] = outcome[d]
  BY <1>1, <1>3, Settles DEF Heard, Outcome
<1>6. QED  BY <1>1, <1>2, <1>4, <1>5, QuietKeeps

LEMMA SettleKeeps ==
  ASSUME BoundaryInv, NEW c \in Call, Settle(c)
  PROVE  TableInv'
<1>1. /\ IsoTyped /\ TableInv /\ CallsSound /\ pc[c] = "settle" /\ Leave(c)
      /\ UNCHANGED <<places, mine, unplaced, ended, over>>
  BY DEF BoundaryInv, CallsInv, CallInv, Settle
<1>2. mine[c] \in Call /\ outcome[c] \in Heard
  BY <1>1 DEF CallsSound, InPlace, IsoTyped
<1>3. /\ pc'[c] \in {"close", "done"} /\ (pc'[c] = "done" => ~OneCall(c))
      /\ \A d \in Call : d # c => pc'[d] = pc[d]
  BY <1>1, Leaves
<1>4. ASSUME NEW o \in {"typed", "unsent"}, Settled(c, o), UNCHANGED place
      PROVE  TableInv'
  <2>1. /\ outcome'[c] \notin {"cleared", "refused"} /\ said' = said
        /\ \A d \in Call : d # c => outcome'[d] = outcome[d]
    BY <1>1, <1>4, Settles DEF Outcome
  <2>2. QED  BY <1>1, <1>2, <1>3, <1>4, <2>1, QuietKeeps DEF Heard
<1>5. CASE outcome[c] = "ok" /\ ~StillCleared(c)
           /\ Raise(c, place[mine[c]].refused) /\ UNCHANGED place
  <2>1. Ended(mine[c])  BY <1>5 DEF StillCleared
  <2>2. place[mine[c]].refused \in Refusal  BY <1>1, <1>2 DEF IsoTyped
  <2>3. /\ outcome'[c] = "refused" /\ said'[c] = place[mine[c]].refused
        /\ \A d \in Call : d # c => outcome'[d] = outcome[d] /\ said'[d] = said[d]
    BY <1>1, <1>5, <2>2, Raises
  <2>4. mine[mine[c]] = mine[c] /\ RunOf[mine[c]] = RunOf[c]
    BY <1>1, <1>2, KeysTyped DEF TableInv, MineSound
  <2>5. \A m : Ended(m)' <=> Ended(m)  BY <1>5 DEF Ended
  <2>6. SaidByPlace(c)'
    BY <1>1, <1>2, <1>5, <2>1, <2>3, <2>4, <2>5 DEF SaidByPlace
  <2>7. QED  BY <1>1, <1>2, <1>3, <1>5, <2>1, <2>3, <2>6, QuietKeeps
<1>6. CASE Settled(c, "cleared") /\ CountSent(c, TRUE) /\ StillCleared(c)
  <2>1. /\ outcome'[c] = "cleared" /\ said' = said
        /\ \A d \in Call : d # c => outcome'[d] = outcome[d]
    BY <1>1, <1>6, Settles DEF Outcome
  <2>2. /\ place'[mine[c]].cleared = place[mine[c]].cleared + 1
        /\ place'[mine[c]].refused = place[mine[c]].refused
        /\ \A d \in Call : d # mine[c] => place'[d] = place[d]
    BY <1>1, <1>2, <1>6, Counts
  <2>3. ~Ended(mine[c])  BY <1>6 DEF StillCleared
  <2>4. QED  BY <1>1, <1>2, <1>3, <2>1, <2>2, <2>3, ClearingKeeps
<1>7. CASE \E reason \in {"budget", "failed"} : Refuse(c, reason)
  BY <1>1, <1>7, RefuseKeeps
<1>8. CASE Settled(c, "unsent") /\ CountSent(c, FALSE)
  BY <1>4, <1>8 DEF CountSent
<1>9. QED  BY <1>4, <1>5, <1>6, <1>7, <1>8 DEF Settle

LEMMA CloseKeeps ==
  ASSUME BoundaryInv, NEW c \in Call, CloseCall(c), IsoTyped'
  PROVE  TableInv'
<1>1. /\ IsoTyped /\ TableInv /\ CallsSound /\ pc[c] = "close"
      /\ Release(RunOf[c]) /\ pc' = [pc EXCEPT ![c] = "done"]
      /\ UNCHANGED <<mine, over, outcome, said>>
  BY DEF BoundaryInv, CallsInv, CallInv, CloseCall, Goto
<1>2. RunOf[c] = c  BY <1>1 DEF CallsSound, OneCall
<1>3. QED  BY <1>1, <1>2, KeysTyped, ReleasingKeeps

LEMMA EndKeeps ==
  ASSUME BoundaryInv, NEW r \in Run, EndRun(r), IsoTyped'
  PROVE  TableInv'
<1>1. /\ IsoTyped /\ TableInv /\ Release(r) /\ over' = over \cup {r}
      /\ UNCHANGED <<mine, pc, outcome, said>>
  BY DEF BoundaryInv, CallsInv, EndRun
<1>2. QED  BY <1>1, KeysTyped, ReleasingKeeps

LEMMA BoundaryInit == Init => BoundaryInv
<1> SUFFICES ASSUME Init PROVE BoundaryInv  OBVIOUS
<1>1. CallsInv  BY CallsInit
<1>2. PlacesSound
  <2>1. InUse = {}  BY DEF Init, InUse
  <2>2. IsFiniteSet(InUse) /\ Cardinality(InUse) = 0  BY <2>1, FS_EmptySet
  <2>3. QED
    BY <2>2, IsolationAssumption DEF Init, PlacesSound, ToSet
<1>3. MineSound /\ SaidSound  BY DEF Init, MineSound, SaidSound
<1>4. PlaceSound
  <2>1. ASSUME NEW m \in Call
        PROVE  place[m].cleared = 0 /\ ~Ended(m) /\ ~place[m].refused.sent
    BY DEF Init, Ended, NoRefusal
  <2>2. \A d \in Call : outcome[d] # "cleared"  BY DEF Init
  <2>3. QED  BY <2>1, <2>2 DEF PlaceSound
<1>5. QED  BY <1>1, <1>2, <1>3, <1>4 DEF BoundaryInv, TableInv

LEMMA BoundaryStep ==
  ASSUME BoundaryInv, Remembered, [Next]_vars
  PROVE  BoundaryInv'
<1>1. CallsInv' /\ IsoTyped'
  BY CallsStep DEF BoundaryInv, CallsInv
<1>2. CASE UNCHANGED vars
  <2>1. UNCHANGED isoVars /\ TableInv  BY <1>2 DEF vars, BoundaryInv
  <2>2. PlacesSound'  BY <2>1 DEF isoVars, TableInv, PlacesSound, InUse, Gone
  <2>3. MineSound'  BY <2>1 DEF isoVars, TableInv, MineSound, Gone, Ended
  <2>4. PlaceSound'  BY <2>1 DEF isoVars, TableInv, PlaceSound, Ended
  <2>5. SaidSound'
    BY <2>1 DEF isoVars, TableInv, SaidSound, Ended, SaidByPlace, SaidUnplaced,
                SaidOver
  <2>6. QED  BY <1>1, <2>2, <2>3, <2>4, <2>5 DEF BoundaryInv, TableInv
<1>3. CASE \E c \in Call : Admit(c)
  BY <1>1, <1>3, AdmitKeeps DEF BoundaryInv
<1>4. CASE \E r \in Run : EndRun(r)
  BY <1>1, <1>4, EndKeeps DEF BoundaryInv
<1>5. CASE \E c \in Call : Proceed(c)
  <2>1. PICK c \in Call : Proceed(c)  BY <1>5
  <2>2. NoSlotInTime(c) => TableInv'
    BY RefuseKeeps DEF NoSlotInTime
  <2>3. TableInv'
    BY <1>1, <2>1, <2>2, MovesKeep, LookKeeps, ChildKeeps, SettleKeeps, CloseKeeps
    DEF Proceed
  <2>4. QED  BY <1>1, <2>3 DEF BoundaryInv
<1>6. QED  BY <1>2, <1>3, <1>4, <1>5 DEF Next

LEMMA BoundaryHolds == Spec /\ []Remembered => []BoundaryInv
<1>1. Init => BoundaryInv  BY BoundaryInit
<1>2. BoundaryInv /\ Remembered /\ [Next]_vars => BoundaryInv'  BY BoundaryStep
<1>3. QED  BY <1>1, <1>2, PTL DEF Spec

\* No run is over, and no place is missing, that isolation.py has forgotten, if
\* it remembers as many ends as there are runs.
EndsKept == ToSet(ended) = over /\ Len(ended) = Cardinality(over)

LEMMA EndsKeptStep ==
  ASSUME CallsInv, EndsKept, [Next]_vars, IsFiniteSet(Run),
         Cardinality(Run) <= EndedMemory
  PROVE  EndsKept'
<1>1. ended \in Seq(Key) /\ over \in SUBSET Run  BY DEF CallsInv, IsoTyped
<1>2. ASSUME NEW r \in Run, EndRun(r)  PROVE EndsKept'
  <2>1. over' = over \cup {r} /\ Remember(r)  BY <1>2 DEF EndRun, Release
  <2> DEFINE longer == IF r \in ToSet(ended) \cup Call THEN ended
                       ELSE Append(ended, r)
  <2>2. r \in Key /\ r \notin Call  BY KeysTyped
  <2>3. ToSet(longer) = over' /\ Len(longer) = Cardinality(over')
    <3>1. CASE r \in over  BY <2>1, <3>1 DEF EndsKept
    <3>2. CASE r \notin over
      <4>1. longer = Append(ended, r)  BY <2>2, <3>2 DEF EndsKept
      <4>2. ToSet(Append(ended, r)) = ToSet(ended) \cup {r}
        <5> DEFINE t == Append(ended, r)
        <5>1. /\ Len(ended) \in Nat /\ DOMAIN ended = 1..Len(ended)
              /\ DOMAIN t = 1..(Len(ended) + 1) /\ t[Len(ended) + 1] = r
              /\ \A j \in DOMAIN ended : t[j] = ended[j]
          BY <1>1, <2>2
        <5>2. Len(ended) + 1 \in DOMAIN t /\ DOMAIN ended \subseteq DOMAIN t
              /\ DOMAIN t = DOMAIN ended \cup {Len(ended) + 1}
          BY <5>1
        <5> HIDE DEF t
        <5>3. ToSet(t) = ToSet(ended) \cup {r}
          <6>1. ASSUME NEW x \in ToSet(t)  PROVE x \in ToSet(ended) \cup {r}
            BY <5>1, <5>2, <6>1 DEF ToSet
          <6>2. ASSUME NEW x \in ToSet(ended) \cup {r}  PROVE x \in ToSet(t)
            BY <5>1, <5>2, <6>2 DEF ToSet
          <6>3. QED  BY <6>1, <6>2
        <5>4. QED  BY <5>3 DEF t
      <4>3. IsFiniteSet(over)  BY <1>1, FS_Subset
      <4>4. Cardinality(over \cup {r}) = Cardinality(over) + 1
        BY <3>2, <4>3, FS_AddElement
      <4>5. Len(longer) = Len(ended) + 1  BY <1>1, <2>2, <4>1
      <4>6. QED  BY <2>1, <4>1, <4>2, <4>4, <4>5 DEF EndsKept
    <3>3. QED  BY <3>1, <3>2
  <2>4. ended' = IF Len(longer) > EndedMemory THEN Tail(longer) ELSE longer
    BY <2>1 DEF Remember
  <2> HIDE DEF longer
  <2>5. ~(Len(longer) > EndedMemory)
    <3>1. over' \subseteq Run  BY <1>1, <2>1
    <3>2. Cardinality(over') <= Cardinality(Run) /\ IsFiniteSet(over')
      BY <3>1, FS_Subset
    <3>3. Cardinality(over') \in Nat /\ Cardinality(Run) \in Nat
      BY <3>2, FS_CardinalityType
    <3>4. QED  BY <2>3, <3>2, <3>3, IsolationAssumption
  <2>6. QED  BY <2>3, <2>4, <2>5 DEF EndsKept
<1>3. ASSUME NEW c \in Call, CloseCall(c)  PROVE EndsKept'
  <2>1. /\ pc[c] = "close" /\ Remember(RunOf[c]) /\ over' = over
    BY <1>3 DEF CloseCall, Release
  <2>2. RunOf[c] \in Call
    BY <2>1 DEF CallsInv, CallInv, CallsSound, OneCall
  <2>3. ended' = IF Len(ended) > EndedMemory THEN Tail(ended) ELSE ended
    BY <2>1, <2>2 DEF Remember
  <2>4. Cardinality(over) <= Cardinality(Run) /\ IsFiniteSet(over)
    BY <1>1, FS_Subset
  <2>5. Cardinality(over) \in Nat /\ Cardinality(Run) \in Nat
    BY <2>4, FS_CardinalityType
  <2>6. ~(Len(ended) > EndedMemory)
    BY <2>4, <2>5, IsolationAssumption DEF EndsKept
  <2>7. QED  BY <2>1, <2>3, <2>6 DEF EndsKept
<1>4. ASSUME UNCHANGED <<ended, over>>  PROVE EndsKept'
  BY <1>4 DEF EndsKept
<1>5. ASSUME NEW c \in Call, Admit(c) \/ Proceed(c), ~CloseCall(c)
      PROVE  UNCHANGED <<ended, over>>
  BY <1>5
  DEF Admit, Proceed, WaitForSlot, WakeUp, NoSlotInTime, LookBeforeChild, ChildEnds,
      GiveBackSlot, Settle
<1>6. QED
  BY <1>2, <1>3, <1>4, <1>5 DEF Next, vars, isoVars

\* With as much memory as runs, no straggler is taken for the first call of a run.
LEMMA EndsAreRemembered ==
  ASSUME IsFiniteSet(Run), Cardinality(Run) <= EndedMemory
  PROVE  Spec => []Remembered
<1>1. Init => EndsKept
  BY FS_EmptySet DEF Init, EndsKept, ToSet
<1>2. CallsInv /\ EndsKept /\ [Next]_vars => EndsKept'  BY EndsKeptStep
<1>3. EndsKept => Remembered  BY DEF EndsKept, Remembered
<1>4. QED  BY <1>1, <1>2, <1>3, CallsHold, PTL DEF Spec

---------------------------------------------------------------------------
(* What the boundary promises.                                             *)

\* The places of isolation.py come back: never more than shield_redaction_max_runs
\* are in use, and none outlives its run, for as long as _ended remembers the
\* ends that stragglers can still meet.
THEOREM PlacesAreGivenBack == Spec /\ []Remembered => []PlacesComeBack
<1>1. BoundaryInv => PlacesComeBack
  <2>1. SUFFICES ASSUME BoundaryInv PROVE PlacesComeBack  OBVIOUS
  <2>2. PlacesSound  BY <2>1 DEF BoundaryInv, TableInv
  <2>3. \A k \in InUse : /\ k \notin over
                         /\ k \in Call => pc[k] # "done" /\ pc[k] # "new"
    BY <2>2 DEF PlacesSound, InUse, Gone
  <2>4. QED  BY <2>2, <2>3 DEF PlacesComeBack, PlacesSound
<1>2. QED  BY <1>1, BoundaryHolds, PTL

\* What isolation.py tells the consultant of a refused run is true, and the same
\* to every call of the run, for as long as _ended remembers.
THEOREM RefusalsAreTrue == Spec /\ []Remembered => []RefusalIsTrue
<1>1. BoundaryInv => RefusalIsTrue
  <2>1. SUFFICES ASSUME BoundaryInv, NEW c \in Call, outcome[c] = "refused"
                 PROVE  /\ IF said[c].sent
                           THEN \/ RunOf[c] \in over
                                \/ \E d \in Call : /\ RunOf[c] = RunOf[d]
                                                   /\ outcome[d] = "cleared"
                           ELSE \A d \in Call : RunOf[c] = RunOf[d]
                                                  => outcome[d] # "cleared"
                        /\ RunOf[c] \notin over =>
                             \A d \in Call : RunOf[c] = RunOf[d]
                                             /\ outcome[d] = "refused"
                                             => said[d] = said[c]
    BY DEF RefusalIsTrue, Refused, Sibling
  <2>2. /\ PlacesSound /\ MineSound /\ PlaceSound /\ SaidSound /\ CallsSound
        /\ IsoTyped
    BY <2>1 DEF BoundaryInv, TableInv, CallsInv, CallInv
  <2>3. \A d \in Call : outcome[d] = "cleared" => mine[d] # None /\ mine[d] \in Call
    BY <2>2 DEF CallsSound, IsoTyped
  <2>4. \A d \in Call : outcome[d] = "refused" =>
          SaidByPlace(d) \/ SaidUnplaced(d) \/ SaidOver(d)
    BY <2>2 DEF SaidSound
  <2>5. \A m, d \in Call : /\ mine[m] = m /\ RunOf[m] = RunOf[d] /\ mine[d] # None
                           => mine[d] = m
    BY <2>2, KeysTyped DEF MineSound
  <2>6. CASE SaidByPlace(c)
    <3>1. PICK m \in Call : /\ mine[m] = m /\ RunOf[m] = RunOf[c] /\ Ended(m)
                            /\ said[c] = place[m].refused
      BY <2>6 DEF SaidByPlace
    <3>2. /\ place[m].cleared > 0
             <=> \E d \in Call : mine[d] = m /\ outcome[d] = "cleared"
          /\ ~place[m].refused.sent => place[m].cleared = 0
          /\ place[m].refused.sent =>
               \/ place[m].cleared > 0
               \/ RunOf[m] \in over
               \/ RunOf[m] = m /\ outcome[m] # "refused"
      BY <2>2, <3>1 DEF PlaceSound
    <3>3. \A d \in Call : mine[d] = m => RunOf[d] = RunOf[m]
      BY <2>2, <3>1, KeysTyped DEF MineSound
    <3>4. RunOf[m] = m => c = m  BY <3>1, KeysTyped
    <3>5. ASSUME RunOf[c] \notin over, NEW d \in Call, RunOf[c] = RunOf[d],
                 outcome[d] = "refused"
          PROVE  said[d] = said[c]
      <4>1. CASE SaidByPlace(d)
        <5>1. PICK n \in Call : /\ mine[n] = n /\ RunOf[n] = RunOf[d]
                                /\ said[d] = place[n].refused
          BY <4>1 DEF SaidByPlace
        <5>2. n = m  BY <2>5, <3>1, <3>5, <5>1, KeysTyped
        <5>3. QED  BY <3>1, <5>1, <5>2
      <4>2. ~SaidUnplaced(d)
        BY <3>1, <3>5, KeysTyped DEF SaidUnplaced
      <4>3. ~SaidOver(d)  BY <3>5 DEF SaidOver
      <4>4. QED  BY <2>4, <3>5, <4>1, <4>2, <4>3
    <3>6. CASE said[c].sent
      BY <2>1, <3>1, <3>2, <3>3, <3>4, <3>5, <3>6
    <3>7. CASE ~said[c].sent
      <4>1. ~(place[m].cleared > 0)  BY <3>1, <3>2, <3>7
      <4>2. \A d \in Call : RunOf[c] = RunOf[d] => outcome[d] # "cleared"
        BY <2>3, <2>5, <3>1, <3>2, <4>1
      <4>3. QED  BY <3>7, <4>2, <3>5
    <3>8. QED  BY <3>6, <3>7
  <2>7. CASE SaidUnplaced(c)
    <3>1. ~said[c].sent  BY <2>7 DEF SaidUnplaced, Busy
    <3>2. \A d \in Call : RunOf[c] = RunOf[d] => outcome[d] # "cleared"
      BY <2>3, <2>7 DEF SaidUnplaced
    <3>3. ASSUME RunOf[c] \notin over, NEW d \in Call, RunOf[c] = RunOf[d],
                 outcome[d] = "refused"
          PROVE  said[d] = said[c]
      <4>1. ~SaidByPlace(d)
        BY <2>7, <3>3, KeysTyped DEF SaidByPlace, SaidUnplaced
      <4>2. ~SaidOver(d)  BY <3>3 DEF SaidOver
      <4>3. SaidUnplaced(d)  BY <2>4, <3>3, <4>1, <4>2
      <4>4. QED  BY <2>7, <4>3 DEF SaidUnplaced
    <3>4. QED  BY <3>1, <3>2, <3>3
  <2>8. CASE SaidOver(c)
    BY <2>8 DEF SaidOver, Busy
  <2>9. QED  BY <2>1, <2>4, <2>6, <2>7, <2>8
<1>2. QED  BY <1>1, BoundaryHolds, PTL

\* Both, with a memory as large as the number of runs.
THEOREM BoundaryKeepsItsWord ==
  ASSUME IsFiniteSet(Run), Cardinality(Run) <= EndedMemory
  PROVE  Spec => [](PlacesComeBack /\ RefusalIsTrue)
<1>1. Spec => []Remembered  BY EndsAreRemembered
<1>2. QED  BY <1>1, PlacesAreGivenBack, RefusalsAreTrue, PTL

---------------------------------------------------------------------------
(* The boundary implements RedactionGate.                                  *)

GateFn == [r \in Run |-> GateOf(r)]
ClearsFn == [r \in Run |-> ClearedOf(r)]

ClearsOf(r) == {c \in Call : RunOf[c] = r /\ outcome[c] = "cleared"}

\* The gate of a run is what its place, its memory and its end make of it.
LEMMA GateSame ==
  ASSUME NEW r \in Run, places'[r] = places[r], unplaced'[r] = unplaced[r],
         r \in over' <=> r \in over,
         places[r] # None => place'[places[r]].refused = place[places[r]].refused
  PROVE  GateOf(r)' = GateOf(r)
BY DEF GateOf

\* A step in which nothing clears and no gate moves is no step of the gate.
LEMMA GateStays ==
  ASSUME \A r \in Run : GateOf(r)' = GateOf(r),
         \A d \in Call : outcome'[d] = "cleared" <=> outcome[d] = "cleared"
  PROVE  UNCHANGED <<GateFn, ClearsFn>>
<1>1. GateFn' = GateFn  BY DEF GateFn
<1>2. \A r \in Run : ClearsOf(r)' = ClearsOf(r)  BY DEF ClearsOf
<1>3. \A r \in Run : ClearedOf(r)' = ClearedOf(r)
  BY <1>2 DEF ClearedOf, ClearsOf
<1>4. ClearsFn' = ClearsFn  BY <1>3 DEF ClearsFn
<1>5. QED  BY <1>1, <1>4

\* What has cleared of a run that holds an open place is what its place counts.
LEMMA CountsAgree ==
  ASSUME BoundaryInv, NEW m \in Call, mine[m] = m, NEW r \in Run, RunOf[m] = r
  PROVE  ClearedOf(r) = 0 <=> ~(place[m].cleared > 0)
<1>1. IsFiniteSet(ClearsOf(r))
  <2>1. ClearsOf(r) \subseteq Call  BY DEF ClearsOf
  <2>2. QED  BY <2>1, SlotsAssumption, FS_Subset
<1>2. ClearedOf(r) = 0 <=> ClearsOf(r) = {}
  BY <1>1, FS_EmptySet DEF ClearedOf, ClearsOf
<1>3. /\ MineSound /\ PlaceSound /\ CallsSound /\ IsoTyped
  BY DEF BoundaryInv, TableInv, CallsInv, CallInv
<1>4. \A d \in Call : RunOf[d] = r /\ outcome[d] = "cleared" => mine[d] = m
  BY <1>3, KeysTyped DEF MineSound, CallsSound
<1>5. \A d \in Call : mine[d] = m => RunOf[d] = r
  BY <1>3, KeysTyped DEF MineSound
<1>6. ClearsOf(r) = {} <=> ~(\E d \in Call : mine[d] = m /\ outcome[d] = "cleared")
  BY <1>4, <1>5 DEF ClearsOf
<1>7. QED  BY <1>2, <1>3, <1>6 DEF PlaceSound

\* Of a run that nobody has had a place for, nothing has cleared.
LEMMA NothingCleared ==
  ASSUME BoundaryInv, NEW r \in Run, \A d \in Call : RunOf[d] = r => mine[d] = None
  PROVE  ClearedOf(r) = 0
<1>1. ClearsOf(r) = {}
  BY DEF BoundaryInv, CallsInv, CallInv, CallsSound, ClearsOf
<1>2. QED  BY <1>1, FS_EmptySet DEF ClearedOf, ClearsOf

\* An open place is its run's, and its run's gate is open.
LEMMA OpenPlace ==
  ASSUME BoundaryInv, NEW m \in Call, mine[m] = m, ~Ended(m)
  PROVE  /\ places[RunOf[m]] = m /\ m # None
         /\ RunOf[m] \in Run => GateOf(RunOf[m]) = "open"
         /\ \A r \in Run : places[r] = m => r = RunOf[m]
<1>1. /\ MineSound /\ PlacesSound
  BY DEF BoundaryInv, TableInv
<1>2. m # None /\ RunOf[m] \in Key  BY KeysTyped
<1>3. places[RunOf[m]] = m  BY <1>1, <1>2 DEF MineSound
<1>4. unplaced[RunOf[m]] = NoRefusal /\ ~Gone(RunOf[m])
  BY <1>1, <1>2, <1>3 DEF PlacesSound
<1>5. RunOf[m] \in Run => GateOf(RunOf[m]) = "open"
  BY <1>2, <1>3, <1>4 DEF GateOf, Gone, Ended
<1>6. \A r \in Run : places[r] = m => r = RunOf[m]
  BY <1>1, <1>2, KeysTyped DEF PlacesSound
<1>7. QED  BY <1>2, <1>3, <1>5, <1>6

\* A place refused: its run's gate is refused, with the truth about what cleared.
LEMMA RefuseGate ==
  ASSUME BoundaryInv, NEW c \in Call, pc[c] \in {"timed_out", "settle"},
         NEW reason \in {"busy", "budget", "failed"},
         Refuse(c, reason), UNCHANGED <<places, mine, unplaced, ended, over>>
  PROVE  [Gate!GateNext]_<<GateFn, ClearsFn>>
<1>1. IsoTyped /\ MineSound /\ CallsSound
  BY DEF BoundaryInv, CallsInv, CallInv, TableInv
<1>2. mine[c] \in Call /\ outcome[c] # "cleared"
  BY <1>1 DEF CallsSound, InPlace, Heard, IsoTyped
<1>3. PICK m \in Call, s \in Refusal :
        /\ m = mine[c] /\ s # NoRefusal /\ Raise(c, s)
        /\ Ended(m) => s = place[m].refused
        /\ ~Ended(m) => (s.sent <=> place[m].cleared > 0)
        /\ place'[m].refused = s
        /\ \A d \in Call : d # m => place'[d] = place[d]
  <2> DEFINE n == mine[c]
             s == IF Ended(n) THEN place[n].refused
                  ELSE [reason |-> reason, sent |-> place[n].cleared > 0]
  <2>1. /\ s \in Refusal /\ s # NoRefusal /\ Raise(c, s)
        /\ place'[n].refused = s
        /\ \A d \in Call : d # n => place'[d] = place[d]
    BY <1>1, <1>2, Refuses
  <2>2. /\ Ended(n) => s = place[n].refused
        /\ ~Ended(n) => (s.sent <=> place[n].cleared > 0)
    OBVIOUS
  <2>3. n = mine[c] /\ n \in Call  BY <1>2
  <2> HIDE DEF n, s
  <2>4. QED  BY <2>1, <2>2, <2>3
<1>4. /\ Ended(m) => s = place[m].refused
      /\ ~Ended(m) => (s.sent <=> place[m].cleared > 0)
  BY <1>3
<1>5. m \in Call /\ mine[m] = m
  BY <1>1, <1>2, <1>3, KeysTyped DEF MineSound
<1>6. \A d \in Call : outcome'[d] = "cleared" <=> outcome[d] = "cleared"
  BY <1>1, <1>2, <1>3, Raises
<1>7. \A r \in Run : r \in Key /\ (places[r] = None \/ places[r] \in Call)
  BY <1>1, KeysTyped DEF IsoTyped
<1>8. \A r \in Run : places[r] # m \/ Ended(m) => GateOf(r)' = GateOf(r)
  <2>1. SUFFICES ASSUME NEW r \in Run, places[r] # m \/ Ended(m)
                 PROVE  GateOf(r)' = GateOf(r)
    OBVIOUS
  <2>2. places[r] # None => place'[places[r]].refused = place[places[r]].refused
    BY <1>3, <1>4, <1>7, <2>1
  <2>3. QED  BY <2>2, GateSame
<1>9. CASE Ended(m) \/ RunOf[m] \notin Run
  <2>1. \A r \in Run : places[r] # m \/ Ended(m)
    BY <1>5, <1>9, OpenPlace
  <2>2. UNCHANGED <<GateFn, ClearsFn>>  BY <1>6, <1>8, <2>1, GateStays
  <2>3. QED  BY <2>2
<1>10. CASE ~Ended(m) /\ RunOf[m] \in Run
  <2> DEFINE r == RunOf[m]
  <2>1. /\ r \in Run /\ places[r] = m /\ m # None /\ GateOf(r) = "open"
        /\ \A q \in Run : places[q] = m => q = r
    BY <1>5, <1>10, OpenPlace
  <2>2. ClearedOf(r) = 0 <=> ~s.sent
    BY <1>4, <1>5, <1>10, CountsAgree
  <2>3. GateOf(r)' = IF ClearedOf(r) = 0 THEN "refused" ELSE "part_way"
    <3>1. unplaced[r] = NoRefusal /\ r \notin over
      BY <1>7, <2>1, KeysTyped DEF BoundaryInv, TableInv, PlacesSound, Gone
    <3>2. GateOf(r)' = IF s.sent THEN "part_way" ELSE "refused"
      BY <1>3, <2>1, <3>1 DEF GateOf
    <3>3. QED  BY <2>2, <3>2
  <2>4. \A q \in Run : q # r => GateOf(q)' = GateOf(q)
    BY <1>8, <2>1
  <2>5. \A q \in Run : ClearedOf(q)' = ClearedOf(q)
    <3>1. \A q \in Run : ClearsOf(q)' = ClearsOf(q)  BY <1>6 DEF ClearsOf
    <3>2. QED  BY <3>1 DEF ClearedOf, ClearsOf
  <2> HIDE DEF r
  <2>6. GateFn[r] = "open" /\ ClearsFn' = ClearsFn /\ ClearsFn[r] = ClearedOf(r)
    BY <2>1, <2>5 DEF GateFn, ClearsFn
  <2>7. GateFn' = [GateFn EXCEPT ![r] = IF ClearsFn[r] = 0 THEN "refused"
                                        ELSE "part_way"]
    <3>1. GateFn = [q \in Run |-> GateOf(q)] /\ GateFn' = [q \in Run |-> GateOf(q)']
      BY DEF GateFn
    <3>2. QED  BY <2>1, <2>3, <2>4, <2>6, <3>1
  <2>8. Gate!RefuseRun(r)
    BY <2>6, <2>7 DEF Gate!RefuseRun, GateFn, ClearsFn
  <2>9. QED  BY <2>1, <2>8 DEF Gate!GateNext
<1>11. QED  BY <1>9, <1>10

\* A payload that clears does so at a gate that is open.
LEMMA ClearGate ==
  ASSUME BoundaryInv, NEW c \in Call, pc[c] = "settle",
         Settled(c, "cleared"), CountSent(c, TRUE), ~Ended(mine[c]),
         UNCHANGED <<places, mine, unplaced, ended, over>>
  PROVE  [Gate!GateNext]_<<GateFn, ClearsFn>>
<1>1. IsoTyped /\ MineSound /\ CallsSound
  BY DEF BoundaryInv, CallsInv, CallInv, TableInv
<1>2. mine[c] \in Call /\ outcome[c] # "cleared"
  BY <1>1 DEF CallsSound, InPlace, Heard, IsoTyped
<1>3. PICK m \in Call : /\ m = mine[c] /\ mine[m] = m /\ RunOf[m] = RunOf[c]
                        /\ ~Ended(m)
  BY <1>1, <1>2, KeysTyped DEF MineSound
<1> DEFINE r == RunOf[m]
<1>4. /\ outcome'[c] = "cleared"
      /\ \A d \in Call : d # c => outcome'[d] = outcome[d]
  BY <1>1, Settles DEF Outcome
<1>5. \A d \in Call : place'[d].refused = place[d].refused
  BY <1>1, <1>2, Counts
<1>6. \A q \in Run : GateOf(q)' = GateOf(q)
  <2>1. \A q \in Run : places[q] # None => places[q] \in Call
    BY <1>1, KeysTyped DEF IsoTyped
  <2>2. QED  BY <1>5, <2>1, GateSame
<1>7. GateFn' = GateFn  BY <1>6 DEF GateFn
<1>8. \A q \in Run : q # r => ClearedOf(q)' = ClearedOf(q)
  <2>1. \A q \in Run : q # r => ClearsOf(q)' = ClearsOf(q)
    BY <1>3, <1>4 DEF ClearsOf
  <2>2. QED  BY <2>1 DEF ClearedOf, ClearsOf
<1>9. CASE r \notin Run
  <2>1. ClearsFn' = ClearsFn  BY <1>8, <1>9 DEF ClearsFn
  <2>2. QED  BY <1>7, <2>1
<1>10. CASE r \in Run
  <2>1. GateOf(r) = "open"  BY <1>3, <1>10, OpenPlace
  <2>2. ClearsOf(r)' = ClearsOf(r) \cup {c} /\ c \notin ClearsOf(r)
    BY <1>2, <1>3, <1>4 DEF ClearsOf
  <2>3. ClearsOf(r) \in SUBSET Call  BY DEF ClearsOf
  <2>4. ClearedOf(r)' = ClearedOf(r) + 1
    BY <2>2, <2>3, OneMore DEF ClearedOf, ClearsOf
  <2> HIDE DEF r
  <2>5. GateFn[r] = "open" /\ ClearsFn[r] = ClearedOf(r)
    BY <1>10, <2>1 DEF GateFn, ClearsFn
  <2>6. ClearsFn' = [ClearsFn EXCEPT ![r] = ClearsFn[r] + 1]
    <3>1. /\ ClearsFn = [q \in Run |-> ClearedOf(q)]
          /\ ClearsFn' = [q \in Run |-> ClearedOf(q)']
      BY DEF ClearsFn
    <3>2. QED  BY <1>8, <1>10, <2>4, <2>5, <3>1
  <2>7. Gate!Clear(r)
    BY <1>7, <2>5, <2>6 DEF Gate!Clear, GateFn, ClearsFn
  <2>8. QED  BY <1>10, <2>7 DEF Gate!GateNext
<1>11. QED  BY <1>9, <1>10

\* An admission moves no gate, but for a run turned away before it sent anything.
LEMMA AdmitGate ==
  ASSUME BoundaryInv, Remembered, NEW c \in Call, Admit(c)
  PROVE  [Gate!GateNext]_<<GateFn, ClearsFn>>
<1> DEFINE k == RunOf[c]
<1>1. /\ IsoTyped /\ TableInv /\ CallsSound /\ pc[c] = "new" /\ k \in Key
      /\ UNCHANGED <<place, ended, over>>
  BY KeysTyped DEF BoundaryInv, CallsInv, CallInv, Admit
<1>2. outcome[c] = "none" /\ mine[c] = None  BY <1>1 DEF CallsSound
<1>3. \A d \in Call : outcome'[d] = "cleared" <=> outcome[d] = "cleared"
  <2>1. \A s \in Refusal : Raise(c, s) => <1>3
    BY <1>1, <1>2, Raises
  <2>2. \A m \in Call : place[m].refused \in Refusal  BY <1>1 DEF IsoTyped
  <2>3. unplaced[k] \in Refusal  BY <1>1 DEF IsoTyped
  <2>4. places[k] # None => places[k] \in Call  BY <1>1 DEF IsoTyped
  <2>5. outcome' = outcome => <1>3  OBVIOUS
  <2>6. QED  BY <2>1, <2>2, <2>3, <2>4, <2>5, RefusalsTyped DEF Admit
<1>4. CASE UNCHANGED <<places, unplaced>>
  <2>1. \A r \in Run : GateOf(r)' = GateOf(r)
    BY <1>1, <1>4 DEF GateOf
  <2>2. QED  BY <1>3, <2>1, GateStays
<1>5. CASE places[k] = None /\ unplaced[k] = NoRefusal /\ k \notin ToSet(ended)
           /\ places' = [places EXCEPT ![k] = c] /\ unplaced' = unplaced
  <2>1. mine[c] # c /\ ~Ended(c)
    BY <1>1, <1>2, KeysTyped DEF TableInv, PlaceSound
  <2>2. ASSUME NEW r \in Run  PROVE GateOf(r)' = GateOf(r)
    <3>1. CASE r = k
      <4>1. places'[r] = c /\ c # None
        BY <1>1, <1>5, <3>1, KeysTyped DEF IsoTyped
      <4>2. QED  BY <1>1, <1>5, <2>1, <3>1, <4>1 DEF GateOf, Ended
    <3>2. CASE r # k
      BY <1>1, <1>5, <3>2, KeysTyped, GateSame DEF IsoTyped
    <3>3. QED  BY <3>1, <3>2
  <2>3. QED  BY <1>3, <2>2, GateStays
<1>6. CASE places[k] = None /\ unplaced[k] = NoRefusal /\ k \notin ToSet(ended)
           /\ unplaced' = [unplaced EXCEPT ![k] = Busy(FALSE)] /\ ~OneCall(c)
           /\ UNCHANGED places
  <2>1. k \in Run  BY IsolationAssumption, <1>6 DEF OneCall
  <2>2. /\ k \notin over /\ \A d \in Call : RunOf[d] = k => mine[d] = None
    BY <1>1, <1>6, NobodyYet DEF BoundaryInv
  <2>3. ClearedOf(k) = 0  BY <2>1, <2>2, NothingCleared
  <2>4. GateOf(k) = "open"  BY <1>6, <2>2 DEF GateOf
  <2>5. GateOf(k)' = "refused"
    <3>1. unplaced'[k] = Busy(FALSE)  BY <1>1, <1>6 DEF IsoTyped
    <3>2. k \notin over'  BY <1>1, <2>2
    <3>3. Busy(FALSE) # NoRefusal  BY RefusalsTyped
    <3>4. Busy(FALSE).sent = FALSE  BY DEF Busy
    <3>5. QED  BY <3>1, <3>2, <3>3, <3>4 DEF GateOf
  <2>6. \A r \in Run : r # k => GateOf(r)' = GateOf(r)
    BY <1>1, <1>6, KeysTyped, GateSame DEF IsoTyped
  <2>7. \A r \in Run : ClearedOf(r)' = ClearedOf(r)
    <3>1. \A r \in Run : ClearsOf(r)' = ClearsOf(r)  BY <1>3 DEF ClearsOf
    <3>2. QED  BY <3>1 DEF ClearedOf, ClearsOf
  <2> HIDE DEF k
  <2>8. GateFn[k] = "open" /\ ClearsFn[k] = 0 /\ ClearsFn' = ClearsFn
    BY <2>1, <2>3, <2>4, <2>7 DEF GateFn, ClearsFn
  <2>9. GateFn' = [GateFn EXCEPT ![k] = IF ClearsFn[k] = 0 THEN "refused"
                                        ELSE "part_way"]
    <3>1. GateFn = [q \in Run |-> GateOf(q)] /\ GateFn' = [q \in Run |-> GateOf(q)']
      BY DEF GateFn
    <3>2. GateOf(k)' = "refused"  BY <2>5
    <3>3. QED  BY <2>1, <2>6, <2>8, <3>1, <3>2
  <2>10. Gate!RefuseRun(k)
    BY <2>8, <2>9 DEF Gate!RefuseRun, GateFn, ClearsFn
  <2>11. QED  BY <2>1, <2>10 DEF Gate!GateNext
<1>7. QED
  BY <1>4, <1>5, <1>6 DEF Admit, RememberUnplaced

\* The end of a run closes its gate; the end of a one-call run moves none.
LEMMA EndGate ==
  ASSUME BoundaryInv, NEW r \in Run, EndRun(r)
  PROVE  [Gate!GateNext]_<<GateFn, ClearsFn>>
<1>1. /\ IsoTyped /\ PlacesSound /\ Release(r) /\ over' = over \cup {r}
      /\ UNCHANGED <<mine, pc, outcome, said>> /\ r \in Key
  BY KeysTyped DEF BoundaryInv, CallsInv, TableInv, EndRun
<1>2. GateOf(r)' = "over"  BY <1>1 DEF GateOf
<1>3. ASSUME NEW q \in Run, q # r  PROVE GateOf(q)' = GateOf(q)
  <2>1. /\ places'[q] = places[q] /\ unplaced'[q] = unplaced[q]
        /\ q \in over' <=> q \in over
    BY <1>1, <1>3, KeysTyped, ReleaseTyped
  <2>2. places[q] # None => place'[places[q]] = place[places[q]]
    <3>1. ASSUME places[q] # None
          PROVE  /\ places[q] \in Call /\ RunOf[places[q]] = q
                 /\ places[r] # None => RunOf[places[r]] = r
      BY <1>1, <3>1, KeysTyped DEF PlacesSound, IsoTyped
    <3>2. places[q] # None => places[q] # places[r]
      BY <1>3, <3>1
    <3>3. place \in [Call -> [cleared : Nat, refused : Refusal]]
      BY <1>1 DEF IsoTyped
    <3>4. QED  BY <1>1, <3>1, <3>2, <3>3 DEF Release, EndPlace
  <2>3. QED  BY <2>1, <2>2, GateSame
<1>4. ClearsFn' = ClearsFn
  <2>1. \A q \in Run : ClearedOf(q)' = ClearedOf(q)  BY <1>1 DEF ClearedOf
  <2>2. QED  BY <2>1 DEF ClearsFn
<1>5. GateFn' = [GateFn EXCEPT ![r] = "over"]
  <2>1. GateFn = [q \in Run |-> GateOf(q)] /\ GateFn' = [q \in Run |-> GateOf(q)']
    BY DEF GateFn
  <2>2. QED  BY <1>2, <1>3, <2>1
<1>6. Gate!Close(r)  BY <1>4, <1>5 DEF Gate!Close, GateFn, ClearsFn
<1>7. QED  BY <1>6 DEF Gate!GateNext

LEMMA CloseGate ==
  ASSUME BoundaryInv, NEW c \in Call, CloseCall(c)
  PROVE  UNCHANGED <<GateFn, ClearsFn>>
<1>1. /\ IsoTyped /\ PlacesSound /\ CallsSound /\ pc[c] = "close"
      /\ Release(RunOf[c]) /\ UNCHANGED <<mine, over, outcome, said>>
  BY DEF BoundaryInv, CallsInv, CallInv, TableInv, CloseCall
<1>2. RunOf[c] = c /\ c \in Key
  BY <1>1, KeysTyped DEF CallsSound, OneCall
<1>3. ASSUME NEW q \in Run  PROVE GateOf(q)' = GateOf(q)
  <2>1. /\ q \in Key /\ q # c /\ places'[q] = places[q] /\ unplaced'[q] = unplaced[q]
    BY <1>1, <1>2, KeysTyped, ReleaseTyped
  <2>2. places[q] # None => place'[places[q]] = place[places[q]]
    <3>1. ASSUME places[q] # None
          PROVE  /\ places[q] \in Call /\ RunOf[places[q]] = q
                 /\ places[c] # None => RunOf[places[c]] = c
      BY <1>1, <1>2, <2>1, <3>1 DEF PlacesSound, IsoTyped
    <3>2. places[q] # None => places[q] # places[c]
      BY <2>1, <3>1
    <3>3. place \in [Call -> [cleared : Nat, refused : Refusal]]
      BY <1>1 DEF IsoTyped
    <3>4. QED  BY <1>1, <1>2, <3>1, <3>2, <3>3 DEF Release, EndPlace
  <2>3. QED  BY <1>1, <2>1, <2>2, GateSame
<1>4. QED  BY <1>1, <1>3, GateStays

\* The other steps of a call leave its place as it is, and clear nothing.
LEMMA MoveGate ==
  ASSUME BoundaryInv, NEW c \in Call,
         \/ WaitForSlot(c) \/ WakeUp(c) \/ GiveBackSlot(c) \/ LookBeforeChild(c)
         \/ ChildEnds(c)
  PROVE  UNCHANGED <<GateFn, ClearsFn>>
<1>1. /\ IsoTyped /\ CallsSound /\ UNCHANGED <<places, place, unplaced, over>>
      /\ pc[c] \in InPlace \ {"timed_out", "settle"}
  BY DEF BoundaryInv, CallsInv, CallInv, WaitForSlot, WakeUp, GiveBackSlot,
         LookBeforeChild, ChildEnds, InPlace
<1>2. outcome[c] # "cleared" /\ mine[c] \in Call
  BY <1>1 DEF CallsSound, InPlace, Heard, IsoTyped
<1>3. \A d \in Call : outcome'[d] = "cleared" <=> outcome[d] = "cleared"
  <2>1. \A s \in Refusal : Raise(c, s) => <1>3  BY <1>1, <1>2, Raises
  <2>2. \A o \in Heard : Settled(c, o) => <1>3
    BY <1>1, <1>2, Settles DEF Heard, Outcome
  <2>3. place[mine[c]].refused \in Refusal  BY <1>1, <1>2 DEF IsoTyped
  <2>4. outcome' = outcome => <1>3  OBVIOUS
  <2>5. QED
    BY <2>1, <2>2, <2>3, <2>4
    DEF WaitForSlot, WakeUp, GiveBackSlot, LookBeforeChild, ChildEnds, Heard
<1>4. \A r \in Run : GateOf(r)' = GateOf(r)  BY <1>1 DEF GateOf
<1>5. QED  BY <1>3, <1>4, GateStays

LEMMA SettleGate ==
  ASSUME BoundaryInv, NEW c \in Call, Settle(c)
  PROVE  [Gate!GateNext]_<<GateFn, ClearsFn>>
<1>1. /\ IsoTyped /\ CallsSound /\ pc[c] = "settle"
      /\ UNCHANGED <<places, mine, unplaced, ended, over>>
  BY DEF BoundaryInv, CallsInv, CallInv, Settle
<1>2. mine[c] \in Call /\ outcome[c] # "cleared"
  BY <1>1 DEF CallsSound, InPlace, Heard, IsoTyped
<1>3. CASE \E reason \in {"budget", "failed"} : Refuse(c, reason)
  BY <1>1, <1>3, RefuseGate
<1>4. CASE Settled(c, "cleared") /\ CountSent(c, TRUE) /\ StillCleared(c)
  BY <1>1, <1>4, ClearGate DEF StillCleared
<1>5. ASSUME UNCHANGED place,
             \/ \E o \in {"typed", "unsent"} : Settled(c, o)
             \/ Raise(c, place[mine[c]].refused)
      PROVE  UNCHANGED <<GateFn, ClearsFn>>
  <2>1. place[mine[c]].refused \in Refusal  BY <1>1, <1>2 DEF IsoTyped
  <2>2. \A d \in Call : outcome'[d] = "cleared" <=> outcome[d] = "cleared"
    BY <1>1, <1>2, <1>5, <2>1, Raises, Settles DEF Outcome
  <2>3. \A r \in Run : GateOf(r)' = GateOf(r)  BY <1>1, <1>5 DEF GateOf
  <2>4. QED  BY <2>2, <2>3, GateStays
<1>6. QED  BY <1>3, <1>4, <1>5 DEF Settle, CountSent

LEMMA GateInit == Init => Gate!GateInit
<1> SUFFICES ASSUME Init PROVE Gate!GateInit  OBVIOUS
<1>1. \A r \in Run : GateOf(r) = "open"
  BY KeysTyped DEF Init, GateOf
<1>2. \A r \in Run : ClearedOf(r) = 0
  <2>1. \A r \in Run : ClearsOf(r) = {}  BY DEF Init, ClearsOf
  <2>2. QED  BY <2>1, FS_EmptySet DEF ClearedOf, ClearsOf
<1>3. QED  BY <1>1, <1>2 DEF Gate!GateInit

LEMMA GateStep ==
  ASSUME BoundaryInv, Remembered, [Next]_vars
  PROVE  [Gate!GateNext]_<<GateFn, ClearsFn>>
<1>1. CASE UNCHANGED vars
  <2>1. UNCHANGED isoVars  BY <1>1 DEF vars
  <2>2. \A r \in Run : GateOf(r)' = GateOf(r)  BY <2>1 DEF isoVars, GateOf
  <2>3. \A d \in Call : outcome'[d] = "cleared" <=> outcome[d] = "cleared"
    BY <2>1 DEF isoVars
  <2>4. QED  BY <2>2, <2>3, GateStays
<1>2. CASE \E c \in Call : Admit(c)  BY <1>2, AdmitGate
<1>3. CASE \E r \in Run : EndRun(r)  BY <1>3, EndGate
<1>4. CASE \E c \in Call : Proceed(c)
  <2>1. PICK c \in Call : Proceed(c)  BY <1>4
  <2>2. NoSlotInTime(c) => [Gate!GateNext]_<<GateFn, ClearsFn>>
    BY RefuseGate DEF NoSlotInTime
  <2>3. QED  BY <2>1, <2>2, MoveGate, SettleGate, CloseGate DEF Proceed
<1>5. QED  BY <1>1, <1>2, <1>3, <1>4 DEF Next

\* The places, slots, children and refusals of isolation.py are, of each run, the
\* gate of RedactionGate: payloads clear until the run is refused or over, the
\* refusal tells whether any had, and nothing clears after it.
THEOREM BoundaryIsGate == Spec /\ []Remembered => ImplementsGate
<1>1. Init => Gate!GateInit  BY GateInit
<1>2. BoundaryInv /\ Remembered /\ [Next]_vars
      => [Gate!GateNext]_<<[r \in Run |-> GateOf(r)], [r \in Run |-> ClearedOf(r)]>>
  BY GateStep DEF GateFn, ClearsFn
<1>3. QED
  BY <1>1, <1>2, BoundaryHolds, PTL DEF Spec, ImplementsGate, Gate!GateSpec
=============================================================================
