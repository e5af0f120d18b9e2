------------------------- MODULE StringParser_proofs -------------------------
(***************************************************************************)
(* Proofs about the parser of a string, for texts of any length and any    *)
(* number of loops over their triples, wherever the loops are left.        *)
(***************************************************************************)
EXTENDS StringParser, TripleNumbers_proofs

(* Types, and the triples in the queue follow those delivered.              *)
QueueInv ==
  /\ parsedTerms \in Seq(Nat) /\ delivered \in Seq(Nat)
  /\ inserted \in 0 .. MaxTriples
  /\ inserted = Len(delivered) + Len(parsedTerms)
  /\ NumberedFrom(0, delivered)
  /\ NumberedFrom(Len(delivered), parsedTerms)

(* Nothing is inserted once the loops begin, and the Iterator's last answer *)
(* from hasNextTriple is still right when it acts on it.                    *)
AnswerInv ==
  /\ at \in Places \ {"thrown"}
  /\ constructor \in {"parsing", "returned", "threw"}
  /\ constructor # "returned" => at = "hasFirst" /\ ~parserDone
  /\ at \in {"next", "end"} => (parserDone <=> at = "end")
  /\ parserDone => parsedTerms = <<>>
  /\ at = "next" \/ (at = "body" /\ ~parserDone) => parsedTerms # <<>>

(* Every triple delivered has been visited, except the last one while the   *)
(* loop body is still to see it.                                            *)
Visited(t) == \E i \in 1 .. Len(visited) : visited[i] = t

SeenInv ==
  /\ visited \in Seq(Nat \cup {NoTriple})
  /\ current \in Nat \cup {NoTriple}
  /\ \A t \in 1 .. Len(delivered) :
       Visited(t) \/ (t = Len(delivered) /\ at \in {"hasNext", "body"} /\ current = t)

-----------------------------------------------------------------------------
LEMMA NextQueueInv == QueueInv /\ AnswerInv /\ [Next]_vars => QueueInv'
<1> SUFFICES ASSUME QueueInv, AnswerInv, [Next]_vars PROVE QueueInv'
  OBVIOUS
<1> USE StringParserAssumption DEF QueueInv
<1>1. CASE InsertTriple
  <2>1. /\ inserted' = inserted + 1 /\ inserted < MaxTriples /\ delivered' = delivered
        /\ parsedTerms' = Append(parsedTerms, Len(delivered) + Len(parsedTerms) + 1)
    BY <1>1 DEF InsertTriple
  <2> QED
    BY <2>1, AppendNumbered
<1>2. CASE NextTriple
  <2>1. parsedTerms # <<>>
    BY <1>2 DEF NextTriple, NextTripleReturns, AnswerInv
  <2>2. /\ Head(parsedTerms) = Len(delivered) + 1
        /\ Len(Tail(parsedTerms)) = Len(parsedTerms) - 1
        /\ NumberedFrom(Len(delivered) + 1, Tail(parsedTerms))
        /\ Tail(parsedTerms) \in Seq(Nat)
    BY <2>1, TailNumbered
  <2>3. /\ delivered' = Append(delivered, Head(parsedTerms)) /\ parsedTerms' = Tail(parsedTerms)
        /\ inserted' = inserted
    BY <1>2 DEF NextTriple
  <2>4. Len(delivered') = Len(delivered) + 1 /\ NumberedFrom(0, delivered')
    BY <2>2, <2>3, AppendNumbered
  <2> QED
    BY <2>2, <2>3, <2>4
<1>3. CASE Parsed \/ RDFParsingException \/ HasNextTriple \/ LoopBody \/ LoopAgain
  BY <1>3 DEF Parsed, RDFParsingException, HasNextTriple, LoopBody, LoopAgain
<1>4. CASE Stopped \/ UNCHANGED vars
  BY <1>4 DEF Stopped, vars
<1> QED
  BY <1>1, <1>2, <1>3, <1>4 DEF Next

LEMMA NextAnswerInv == QueueInv /\ AnswerInv /\ [Next]_vars => AnswerInv'
<1> SUFFICES ASSUME QueueInv, AnswerInv, [Next]_vars PROVE AnswerInv'
  OBVIOUS
<1> USE DEF AnswerInv, Places, iterVars
<1>1. CASE InsertTriple
  <2>1. parsedTerms' # <<>>
    BY <1>1 DEF InsertTriple, QueueInv
  <2> QED
    BY <1>1, <2>1 DEF InsertTriple
<1>2. CASE Parsed \/ RDFParsingException
  BY <1>2 DEF Parsed, RDFParsingException
<1>3. CASE HasNextTriple
  BY <1>3 DEF HasNextTriple, HasNextReturns, AfterHasNext
<1>4. CASE NextTriple
  BY <1>4 DEF NextTriple, NextTripleReturns
<1>5. CASE LoopBody
  BY <1>5 DEF LoopBody, Visit, Leave
<1>6. CASE LoopAgain
  BY <1>6 DEF LoopAgain, BeginAgain
<1>7. CASE Stopped \/ UNCHANGED vars
  BY <1>7 DEF Stopped, vars
<1> QED
  BY <1>1, <1>2, <1>3, <1>4, <1>5, <1>6, <1>7 DEF Next

LEMMA NextSeenInv == QueueInv /\ AnswerInv /\ SeenInv /\ [Next]_vars => SeenInv'
<1> SUFFICES ASSUME QueueInv, AnswerInv, SeenInv, [Next]_vars PROVE SeenInv'
  OBVIOUS
<1>1. CASE InsertTriple \/ Parsed \/ RDFParsingException \/ Stopped \/ UNCHANGED vars
  BY <1>1 DEF InsertTriple, Parsed, RDFParsingException, Stopped, vars, iterVars, SeenInv, Visited
<1>2. CASE HasNextTriple
  <2>1. /\ UNCHANGED <<visited, current, delivered>>
        /\ at = "hasNext" => at' = "body"
        /\ at \in {"hasFirst", "hasNext"}
    BY <1>2 DEF HasNextTriple, HasNextReturns, AfterHasNext
  <2> QED
    BY <2>1 DEF SeenInv, Visited
<1>3. CASE NextTriple
  <2>1. parsedTerms # <<>>
    BY <1>3 DEF NextTriple, NextTripleReturns, AnswerInv
  <2>2. Head(parsedTerms) = Len(delivered) + 1
    BY <2>1, TailNumbered DEF QueueInv
  <2>3. /\ delivered' = Append(delivered, Len(delivered) + 1)
        /\ at = "next" /\ at' = "hasNext" /\ current' = Len(delivered) + 1 /\ visited' = visited
    BY <1>3, <2>2 DEF NextTriple, NextTripleReturns
  <2>4. Len(delivered') = Len(delivered) + 1 /\ Len(delivered) \in Nat
    BY <2>3 DEF QueueInv
  <2> QED
    BY <2>3, <2>4 DEF SeenInv, Visited
<1>4. CASE LoopBody
  <2>1. /\ visited' = Append(visited, current) /\ at = "body"
        /\ UNCHANGED <<delivered, current>>
    BY <1>4 DEF LoopBody, Visit, Leave
  <2>2. /\ Len(visited') = Len(visited) + 1 /\ visited' \in Seq(Nat \cup {NoTriple})
        /\ visited'[Len(visited) + 1] = current
        /\ \A i \in 1 .. Len(visited) : visited'[i] = visited[i]
    BY <2>1 DEF SeenInv
  <2>3. ASSUME NEW t \in 1 .. Len(delivered) PROVE Visited(t)'
    <3>1. CASE Visited(t)
      BY <2>2, <3>1 DEF Visited
    <3>2. CASE current = t
      <4>1. Len(visited) + 1 \in 1 .. Len(visited')
        BY <2>2 DEF SeenInv
      <4> QED
        BY <2>2, <3>2, <4>1 DEF Visited
    <3> QED
      BY <3>1, <3>2 DEF SeenInv
  <2> QED
    BY <2>1, <2>2, <2>3 DEF SeenInv
<1>5. CASE LoopAgain
  <2>1. UNCHANGED <<visited, current, delivered>> /\ at \in {"end", "left"}
    BY <1>5 DEF LoopAgain, BeginAgain
  <2> QED
    BY <2>1 DEF SeenInv, Visited
<1> QED
  BY <1>1, <1>2, <1>3, <1>4, <1>5 DEF Next

LEMMA Invariant == Spec => [](QueueInv /\ AnswerInv /\ SeenInv)
<1>1. Init => QueueInv
  BY StringParserAssumption DEF Init, QueueInv, NumberedFrom
<1>2. Init => AnswerInv
  BY DEF Init, IterInit, AnswerInv, Places
<1>3. Init => SeenInv
  BY DEF Init, IterInit, SeenInv
<1> QED
  BY <1>1, <1>2, <1>3, NextQueueInv, NextAnswerInv, NextSeenInv, PTL DEF Spec

-----------------------------------------------------------------------------
(* nextTriple never takes the front of an empty queue, however the loops    *)
(* over the triples are left and begun again.                               *)
THEOREM NextTripleFindsOne == Spec => []NextHasTriple
<1>1. AnswerInv => NextHasTriple
  BY DEF AnswerInv, NextHasTriple
<1> QED
  BY Invariant, <1>1, PTL

(* A loop that comes to its end leaves no triple of the text unvisited.     *)
THEOREM EveryTripleIsVisited == Spec => []NothingSkipped
<1>1. QueueInv /\ AnswerInv /\ SeenInv => NothingSkipped
  <2> SUFFICES ASSUME QueueInv, AnswerInv, SeenInv, at = "end", NEW t \in 1 .. inserted
               PROVE  Visited(t)
    BY DEF NothingSkipped, Visited
  <2>1. parsedTerms = <<>>
    BY DEF AnswerInv
  <2>2. inserted = Len(delivered)
    BY <2>1 DEF QueueInv
  <2> QED
    BY <2>2 DEF SeenInv
<1> QED
  BY Invariant, <1>1, PTL

(* InsertTriple is Send, NextTriple is Receive.                             *)
LEMMA StepsOfChannel ==
  QueueInv /\ AnswerInv /\ [Next]_vars => [Channel!Next]_(Channel!vars)
<1> SUFFICES ASSUME QueueInv, AnswerInv, [Next]_vars PROVE [Channel!Next]_(Channel!vars)
  OBVIOUS
<1> USE DEF Channel!vars
<1>1. CASE InsertTriple
  <2>1. /\ inserted' = inserted + 1 /\ delivered' = delivered
        /\ inserted \in Nat /\ inserted < MaxTriples /\ Len(delivered) \in Nat
    BY <1>1, StringParserAssumption DEF InsertTriple, QueueInv
  <2>2. Len(FirstTriples(inserted)) < Len(delivered) + MaxTriples
    BY <2>1, FirstTriplesGrow, StringParserAssumption
  <2>3. FirstTriples(inserted') = Append(FirstTriples(inserted), inserted + 1)
    BY <2>1, FirstTriplesGrow
  <2>4. inserted + 1 \in Triples
    BY <2>1, StringParserAssumption DEF Triples
  <2> QED
    BY <2>1, <2>2, <2>3, <2>4 DEF Channel!Next, Channel!Send
<1>2. CASE NextTriple
  <2>1. parsedTerms # <<>>
    BY <1>2 DEF NextTriple, NextTripleReturns, AnswerInv
  <2>2. delivered' = Append(delivered, Len(delivered) + 1) /\ inserted' = inserted
    BY <1>2, <2>1, TailNumbered DEF NextTriple, QueueInv
  <2>3. inserted \in Nat /\ Len(delivered) \in Nat /\ Len(delivered) + 1 \in 1 .. inserted
    BY <2>1, StringParserAssumption DEF QueueInv
  <2>4. /\ Len(delivered) < Len(FirstTriples(inserted))
        /\ FirstTriples(inserted)[Len(delivered) + 1] = Len(delivered) + 1
    <3>1. /\ Len(FirstTriples(inserted)) = inserted
          /\ \A i \in 1 .. inserted : FirstTriples(inserted)[i] = i
      BY <2>3, FirstTriplesGrow
    <3> QED
      BY <2>3, <3>1
  <2> QED
    BY <2>2, <2>4 DEF Channel!Next, Channel!Receive
<1>3. CASE Parsed \/ RDFParsingException \/ HasNextTriple \/ LoopBody \/ LoopAgain
  BY <1>3 DEF Parsed, RDFParsingException, HasNextTriple, LoopBody, LoopAgain
<1>4. CASE Stopped \/ UNCHANGED vars
  BY <1>4 DEF Stopped, vars
<1> QED
  BY <1>1, <1>2, <1>3, <1>4 DEF Next

(* The parser of a string implements TripleChannel: nextTriple gives the    *)
(* triples of the text in their order, once each.                           *)
THEOREM ParserImplementsChannel == Spec => ImplementsChannel
<1>1. Init => Channel!Init
  BY DEF Init, Channel!Init, FirstTriples
<1> QED
  BY Invariant, <1>1, StepsOfChannel, PTL DEF Spec, ImplementsChannel, Channel!Spec
=============================================================================
