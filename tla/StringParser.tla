---------------------------- MODULE StringParser ----------------------------
(***************************************************************************)
(* BaseStringParser, the parser behind TurtleStringParser and              *)
(* TriplesBlockStringParser: the constructor parses the whole text into a  *)
(* queue, in one thread, and the loop over the triples empties the queue.  *)
(* A text that does not parse leaves no parser behind, whatever has been   *)
(* inserted by then.                                                       *)
(***************************************************************************)
EXTENDS TripleIterator, TripleNumbers

CONSTANTS
  MaxTriples,  (* bound: triples of the text                                *)
  MaxLoops     (* bound: loops over the triples                             *)

ASSUME StringParserAssumption ==
  /\ MaxTriples \in Nat
  /\ MaxLoops \in Nat \ {0}

VARIABLES
  parsedTerms,
  constructor,  (* "parsing", "returned" or "threw"                         *)
  loops,        (* loops begun                                              *)
  inserted,     (* history: number of calls of insertTriple                 *)
  delivered     (* history: the triples nextTriple took                     *)

vars == <<parsedTerms, constructor, loops, inserted, delivered, iterVars>>

Triples == 1 .. MaxTriples

Init ==
  /\ parsedTerms = <<>>
  /\ constructor = "parsing"
  /\ loops = 1
  /\ inserted = 0
  /\ delivered = <<>>
  /\ IterInit

InsertTriple ==
  /\ constructor = "parsing"
  /\ inserted < MaxTriples
  /\ inserted' = inserted + 1
  /\ parsedTerms' = Append(parsedTerms, inserted + 1)
  /\ UNCHANGED <<constructor, loops, delivered, iterVars>>

(* The text matches the grammar, with or without triples in it ...          *)
Parsed ==
  /\ constructor = "parsing"
  /\ constructor' = "returned"
  /\ UNCHANGED <<parsedTerms, loops, inserted, delivered, iterVars>>

(* ... or it does not, or an action throws: RDFParsingException.            *)
RDFParsingException ==
  /\ constructor = "parsing"
  /\ constructor' = "threw"
  /\ UNCHANGED <<parsedTerms, loops, inserted, delivered, iterVars>>

HasNextTriple ==
  /\ constructor = "returned"
  /\ HasNextReturns(parsedTerms # <<>>)
  /\ UNCHANGED <<parsedTerms, constructor, loops, inserted, delivered>>

NextTriple_NoPop ==
  /\ constructor = "returned"
  /\ NextTripleReturns(Head(parsedTerms))
  /\ delivered' = Append(delivered, Head(parsedTerms))
  /\ UNCHANGED <<parsedTerms, constructor, loops, inserted>>

NextTriple ==
  /\ constructor = "returned"
  /\ NextTripleReturns(Head(parsedTerms))
  /\ delivered' = Append(delivered, Head(parsedTerms))
  /\ parsedTerms' = Tail(parsedTerms)
  /\ UNCHANGED <<constructor, loops, inserted>>

LoopBody ==
  /\ constructor = "returned"
  /\ Visit \/ Leave
  /\ UNCHANGED <<parsedTerms, constructor, loops, inserted, delivered>>

LoopAgain ==
  /\ constructor = "returned"
  /\ loops < MaxLoops
  /\ loops' = loops + 1
  /\ BeginAgain
  /\ UNCHANGED <<parsedTerms, constructor, inserted, delivered>>

(* The program goes on without the parser.                                  *)
Stopped ==
  /\ constructor = "threw" \/ at \in {"end", "left"}
  /\ UNCHANGED vars

Next ==
  \/ InsertTriple \/ Parsed \/ RDFParsingException
  \/ HasNextTriple \/ NextTriple \/ LoopBody \/ LoopAgain
  \/ Stopped

Spec == Init /\ [][Next]_vars

-----------------------------------------------------------------------------
(* nextTriple is only called with a triple in the queue, though the Iterator *)
(* remembers hasNextTriple's answer over the whole loop body and the user   *)
(* may leave one loop and begin another (front() of an empty queue is       *)
(* undefined).                                                              *)
NextHasTriple == at = "next" => parsedTerms # <<>>

(* The triples come out of nextTriple in their order, once each, however    *)
(* the loops over them are left and begun again.                            *)
Channel == INSTANCE TripleChannel
  WITH Triple <- Triples, Bound <- MaxTriples,
       sent <- FirstTriples(inserted), received <- delivered

ImplementsChannel == Channel!Spec

(* When a loop comes to its end, every triple of the text has been visited, *)
(* in this loop or in one before it.                                        *)
NothingSkipped == at = "end" => \A t \in 1 .. inserted : \E i \in 1 .. Len(visited) : visited[i] = t
=============================================================================
