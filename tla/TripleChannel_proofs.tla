------------------------ MODULE TripleChannel_proofs ------------------------
(***************************************************************************)
(* What follows from the promise of a parser, for all triples and bounds.  *)
(***************************************************************************)
EXTENDS TripleChannel, TLAPS

LEMMA ChannelTypes == Spec => []TypeOK
<1>1. Init => TypeOK
  BY DEF Init, TypeOK
<1>2. TypeOK /\ [Next]_vars => TypeOK'
  <2> SUFFICES ASSUME TypeOK, [Next]_vars PROVE TypeOK'
    OBVIOUS
  <2> USE DEF TypeOK
  <2>1. CASE Send
    BY <2>1 DEF Send
  <2>2. CASE Receive
    <3>1. sent[Len(received) + 1] \in Triple
      BY <2>2 DEF Receive
    <3> QED
      BY <2>2, <3>1 DEF Receive
  <2>3. CASE UNCHANGED vars
    BY <2>3 DEF vars
  <2> QED
    BY <2>1, <2>2, <2>3 DEF Next
<1> QED
  BY <1>1, <1>2, PTL DEF Spec

(* The triples that nextTriple has delivered are the first of those given   *)
(* to insertTriple, in their order, and at most Bound fewer: what a module  *)
(* that implements the channel promises the loop over its triples.          *)
THEOREM DeliveredIsPrefix == Bound \in Nat => (Spec => []InTransit)
<1> SUFFICES ASSUME Bound \in Nat PROVE Spec => []InTransit
  OBVIOUS
<1>1. Init => InTransit
  BY DEF Init, InTransit
<1>2. TypeOK /\ InTransit /\ [Next]_vars => InTransit'
  <2> SUFFICES ASSUME TypeOK, InTransit, [Next]_vars PROVE InTransit'
    OBVIOUS
  <2> USE DEF TypeOK, InTransit
  <2>1. CASE Send
    <3>1. PICK t \in Triple : sent' = Append(sent, t)
      BY <2>1 DEF Send
    <3>2. /\ Len(sent') = Len(sent) + 1
          /\ \A i \in 1 .. Len(sent) : sent'[i] = sent[i]
      BY <3>1
    <3> QED
      BY <2>1, <3>2 DEF Send
  <2>2. CASE Receive
    <3>1. sent[Len(received) + 1] \in Triple
      BY <2>2 DEF Receive
    <3>2. /\ Len(received') = Len(received) + 1
          /\ received'[Len(received) + 1] = sent[Len(received) + 1]
          /\ \A i \in 1 .. Len(received) : received'[i] = received[i]
      BY <2>2, <3>1 DEF Receive
    <3> QED
      BY <2>2, <3>2 DEF Receive
  <2>3. CASE UNCHANGED vars
    BY <2>3 DEF vars
  <2> QED
    BY <2>1, <2>2, <2>3 DEF Next
<1> QED
  BY ChannelTypes, <1>1, <1>2, PTL DEF Spec
=============================================================================
