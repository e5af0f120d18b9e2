--------------------------- MODULE TripleIterator ---------------------------
(***************************************************************************)
(* The Iterator of AbstractParser.hpp and the loop that runs it:           *)
(*                                                                         *)
(*   auto it = parser.begin();  while (it) { auto t = *it; it++; }         *)
(*                                                                         *)
(* The iterator is one triple ahead of the loop: its constructor fetches   *)
(* the first triple, and each increment fetches a triple and asks whether  *)
(* another one follows.  A module that EXTENDS this one supplies what      *)
(* hasNextTriple and nextTriple do.                                        *)
(***************************************************************************)
EXTENDS Naturals, Sequences

CONSTANT NoTriple  (* the default-constructed current_triple               *)

VARIABLES
  at,          (* where the thread that iterates is, one of Places         *)
  parserDone,  (* Iterator::parser_done_                                   *)
  current,     (* AbstractParser::current_triple                           *)
  visited      (* history: what the loop body has seen                     *)

iterVars == <<at, parserDone, current, visited>>

Places == {"hasFirst", "next", "hasNext", "body", "end", "left", "thrown"}

IterInit ==
  /\ at = "hasFirst"
  /\ parserDone = FALSE
  /\ current = NoTriple
  /\ visited = <<>>

(* hasNextTriple returns b to the constructor ("hasFirst") or to the        *)
(* increment ("hasNext").                                                   *)
AfterHasNext_NoFirstFetch(b) == "body"

AfterHasNext_EndsWithLast(b) ==
  IF b THEN (IF at = "hasFirst" THEN "next" ELSE "body") ELSE "end"

AfterHasNext(b) == IF b /\ at = "hasFirst" THEN "next" ELSE "body"

HasNextReturns(b) ==
  /\ at \in {"hasFirst", "hasNext"}
  /\ at' = AfterHasNext(b)
  /\ parserDone' = ~b
  /\ UNCHANGED <<current, visited>>

(* nextTriple has stored t in current_triple.                               *)
NextTripleReturns(t) ==
  /\ at = "next"
  /\ at' = "hasNext"
  /\ current' = t
  /\ UNCHANGED <<parserDone, visited>>

(* hasNextTriple throws.                                                    *)
HasNextThrows ==
  /\ at \in {"hasFirst", "hasNext"}
  /\ at' = "thrown"
  /\ UNCHANGED <<parserDone, current, visited>>

Visit_ForgetsEnd ==
  /\ at = "body"
  /\ visited' = Append(visited, current)
  /\ at' = "next"
  /\ UNCHANGED <<parserDone, current>>

(* The loop body reads *it; the increment ends the loop if the parser had   *)
(* no further triple, and fetches the next one otherwise.                   *)
Visit ==
  /\ at = "body"
  /\ visited' = Append(visited, current)
  /\ at' = IF parserDone THEN "end" ELSE "next"
  /\ UNCHANGED <<parserDone, current>>

(* The loop body reads *it and breaks out of the loop.                      *)
Leave ==
  /\ at = "body"
  /\ visited' = Append(visited, current)
  /\ at' = "left"
  /\ UNCHANGED <<parserDone, current>>

(* Another loop over the same parser: a new Iterator, the old parser.       *)
BeginAgain ==
  /\ at \in {"end", "left"}
  /\ at' = "hasFirst"
  /\ parserDone' = FALSE
  /\ UNCHANGED <<current, visited>>
=============================================================================
