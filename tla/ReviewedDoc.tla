----------------------------- MODULE ReviewedDoc ----------------------------
(***************************************************************************)
(* What the review of a document promises, whatever it takes to keep it:   *)
(* a document is edited while it is open, an approval is of the content    *)
(* that is there, what is released is exactly what was last approved, and  *)
(* a document that is released or discarded never changes again.           *)
(***************************************************************************)
CONSTANTS
  Doc,        \* documents
  Content,    \* what a document may hold
  Ready,   \* the contents that may be approved
  Blank       \* no content: nothing drafted, or nothing approved

VARIABLES
  phase,      \* "none", "open", "released" or "discarded"
  content,    \* what the document holds
  approved    \* the content of its last approval

reviewVars == <<phase, content, approved>>

ReviewTypeOK ==
  /\ phase \in [Doc -> {"none", "open", "released", "discarded"}]
  /\ content \in [Doc -> Content \cup {Blank}]
  /\ approved \in [Doc -> Ready \cup {Blank}]

ReviewInit ==
  /\ phase = [d \in Doc |-> "none"]
  /\ content = [d \in Doc |-> Blank]
  /\ approved = [d \in Doc |-> Blank]

\* The content of d becomes some content, that of the others stays.
Rewrite(d) == /\ content' \in [Doc -> Content \cup {Blank}]
              /\ content'[d] # Blank
              /\ \A e \in Doc \ {d} : content'[e] = content[e]

Open(d) == /\ phase[d] = "none"
           /\ phase' = [phase EXCEPT ![d] = "open"]
           /\ Rewrite(d)
           /\ UNCHANGED approved

Edit(d) == /\ phase[d] = "open"
           /\ Rewrite(d)
           /\ UNCHANGED <<phase, approved>>

Approve(d) == /\ phase[d] = "open" /\ content[d] \in Ready
              /\ approved' = [approved EXCEPT ![d] = content[d]]
              /\ UNCHANGED <<phase, content>>

Release(d) == /\ phase[d] = "open" /\ approved[d] = content[d]
              /\ phase' = [phase EXCEPT ![d] = "released"]
              /\ UNCHANGED <<content, approved>>

Discard(d) == /\ phase[d] = "open" /\ approved[d] = Blank
              /\ phase' = [phase EXCEPT ![d] = "discarded"]
              /\ UNCHANGED <<content, approved>>

ReviewNext == \E d \in Doc : \/ Open(d) \/ Edit(d) \/ Approve(d)
                             \/ Release(d) \/ Discard(d)

ReviewSpec == ReviewInit /\ [][ReviewNext]_reviewVars

---------------------------------------------------------------------------

\* A released document holds what was approved of it, and that was complete.
ReleasedIsApproved ==
  \A d \in Doc : phase[d] = "released" =>
    content[d] = approved[d] /\ content[d] \in Ready

\* A discarded document was never approved.
DiscardedWasNeverApproved ==
  \A d \in Doc : phase[d] = "discarded" => approved[d] = Blank

ReviewInv == /\ ReviewTypeOK /\ ReleasedIsApproved /\ DiscardedWasNeverApproved
             /\ \A d \in Doc : phase[d] = "none" <=> content[d] = Blank
=============================================================================
