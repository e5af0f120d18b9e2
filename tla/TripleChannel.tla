---------------------------- MODULE TripleChannel ----------------------------
(***************************************************************************)
(* What a parser promises the code that iterates over it: the triples that *)
(* the grammar actions hand to insertTriple arrive through nextTriple, all *)
(* of them, once each and in the order of the document, and at most Bound  *)
(* of them are in transit.                                                 *)
(***************************************************************************)
EXTENDS Naturals, Sequences

CONSTANTS
  Triple,   (* the triples a document may contain                          *)
  Bound     (* how many triples may be inserted and not yet delivered      *)

VARIABLES
  sent,     (* the triples inserted so far                                 *)
  received  (* the triples delivered so far                                *)

vars == <<sent, received>>

Init == sent = <<>> /\ received = <<>>

Send ==
  /\ Len(sent) < Len(received) + Bound
  /\ \E t \in Triple : sent' = Append(sent, t)
  /\ UNCHANGED received

Receive ==
  /\ Len(received) < Len(sent)
  /\ received' = Append(received, sent[Len(received) + 1])
  /\ UNCHANGED sent

Next == Send \/ Receive

Spec == Init /\ [][Next]_vars

TypeOK ==
  /\ sent \in Seq(Triple)
  /\ received \in Seq(Triple)

(* What has been delivered is a prefix of what has been inserted, with no   *)
(* triple left out, repeated or overtaken, and no more than Bound behind.   *)
InTransit ==
  /\ Len(received) <= Len(sent)
  /\ Len(sent) <= Len(received) + Bound
  /\ \A i \in 1 .. Len(received) : received[i] = sent[i]
=============================================================================
