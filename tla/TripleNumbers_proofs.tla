------------------------- MODULE TripleNumbers_proofs -------------------------
(***************************************************************************)
(* Inserting, delivering and counting numbered triples, for all numbers.   *)
(***************************************************************************)
EXTENDS TripleNumbers, TLAPS

(* push puts the next triple behind those that wait.                        *)
LEMMA AppendNumbered ==
  ASSUME NEW n \in Nat, NEW s \in Seq(Nat), NumberedFrom(n, s)
  PROVE  /\ Len(Append(s, n + Len(s) + 1)) = Len(s) + 1
         /\ NumberedFrom(n, Append(s, n + Len(s) + 1))
BY DEF NumberedFrom

(* pop takes the next triple from those that wait.                          *)
LEMMA TailNumbered ==
  ASSUME NEW n \in Nat, NEW s \in Seq(Nat), s # <<>>, NumberedFrom(n, s)
  PROVE  /\ Head(s) = n + 1
         /\ Len(Tail(s)) = Len(s) - 1
         /\ NumberedFrom(n + 1, Tail(s))
BY DEF NumberedFrom

LEMMA FirstTriplesGrow ==
  ASSUME NEW n \in Nat
  PROVE  /\ Len(FirstTriples(n)) = n
         /\ FirstTriples(n + 1) = Append(FirstTriples(n), n + 1)
         /\ \A i \in 1 .. n : FirstTriples(n)[i] = i
<1>1. FirstTriples(n) \in Seq(Nat) /\ Len(FirstTriples(n)) = n
  BY DEF FirstTriples
<1> QED
  BY <1>1 DEF FirstTriples
=============================================================================
