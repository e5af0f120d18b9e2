---------------------------- MODULE TripleNumbers ----------------------------
(***************************************************************************)
(* The models of the parsers number the triples of a document in the order *)
(* in which the grammar actions insert them.                               *)
(***************************************************************************)
EXTENDS Naturals, Sequences

(* The first n triples that insertTriple is given.                          *)
FirstTriples(n) == [i \in 1 .. n |-> i]

(* s holds the triples after the n-th, none left out.                       *)
NumberedFrom(n, s) == \A i \in 1 .. Len(s) : s[i] = n + i
=============================================================================
