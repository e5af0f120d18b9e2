------------------- MODULE TurtleFileParser_iterator_proofs -------------------
(***************************************************************************)
(* Proofs about what the loop over the triples of the concurrent parser    *)
(* sees, for every ring, one that overflows included, every pair of        *)
(* thresholds, every document and every interleaving.                      *)
(***************************************************************************)
EXTENDS TurtleFileParser_proofs, SequenceTheorems

(* The ring holds later triples than those delivered, each of both once.    *)
Increasing(s) == \A i, j \in 1 .. Len(s) : i < j => s[i] < s[j]

OrderInv ==
  /\ Increasing(delivered)
  /\ Increasing(queue)
  /\ \A i \in 1 .. Len(delivered), j \in 1 .. Len(queue) : delivered[i] < queue[j]
  /\ \A i \in 1 .. Len(delivered) : delivered[i] <= inserted
  /\ \A i \in 1 .. Len(queue) : queue[i] <= inserted

(* The end of the document: parsingIsDone is set by the last action of the  *)
(* grammar, and hasNextTriple returns false only after it.                  *)
EndInv ==
  /\ parsingIsDone => producer \in {"eof", "finished", "aborted"}
  /\ parserDone => parsingIsDone

(* Which call the main thread is in, and what the Iterator has asked for:   *)
(* after a positive answer the ring stays nonempty until nextTriple is      *)
(* called, because only the main thread takes triples out.                  *)
InHasNext ==
  {"constructor", "testEmpty", "testDone", "wait", "asleep", "awake", "retestEmpty", "retestDone"}

CallInv ==
  /\ consumer \in InHasNext => at \in {"hasFirst", "hasNext"}
  /\ consumer \in {"testBelow", "signal", "notify"} => at = "hasNext"
  /\ consumer \in {"constructor", "rejected"} => at = "hasFirst"
  /\ consumer = "pop" <=> at = "next"
  /\ consumer = "loop" => at \in {"body", "end", "left", "thrown"}
  /\ consumer \in {"join", "exited"} => at # "body"
  /\ at = "next" \/ (at = "body" /\ ~parserDone) => queue # <<>>

(* The current loop: how many triples were delivered to it, and how many    *)
(* its body has seen.                                                       *)
Loop == loops[Len(loops)]

Fetched == Len(delivered) - Loop.delivered

Visits == Len(visited) - Loop.visited

AheadInv ==
  /\ Len(loops) > 0
  /\ Loop.delivered \in 0 .. Len(delivered) /\ Loop.visited \in 0 .. Len(visited)
  /\ current = LastDelivered
  /\ at = "hasFirst" => Fetched = 0 /\ Visits = 0 /\ ~parserDone
  /\ at = "next" => Fetched = Visits
  /\ at = "hasNext" => Fetched = Visits + 1
  /\ at = "body" => Fetched = Visits + 1 \/ (Fetched = 0 /\ Visits = 0 /\ parserDone)
  /\ at \in {"end", "left"} => Fetched = Visits \/ (Fetched = 0 /\ Visits = 1)
  /\ at = "thrown" => (Fetched = 0 /\ Visits = 0) \/ Fetched = Visits + 1

SeenInv ==
  /\ \A i \in 1 .. Visits :
       Fetched > 0 => visited[Loop.visited + i] = delivered[Loop.delivered + i]
  /\ Fetched = 0 /\ Visits = 1 => visited[Loop.visited + 1] = LastDelivered

-----------------------------------------------------------------------------
(* What a step can do.                                                      *)

(* Only insertTriple and nextTriple change the ring.                        *)
LEMMA RingSteps == [Next]_vars => Push \/ NextTriple \/ UNCHANGED <<queue, inserted, delivered>>
<1> SUFFICES ASSUME [Next]_vars
             PROVE  Push \/ NextTriple \/ UNCHANGED <<queue, inserted, delivered>>
  OBVIOUS
<1> USE DEF ToProducer, SignalTo, NotifyTo, FromTo, KeepsParser
<1>1. CASE ParsingThread
  BY <1>1 DEF ParsingThread, BeginStatement, InsertTriple, InsertSignal, InsertNotify,
     StatementMatched, SyncWithMainThread, SleepAboveUpper, ParserWakes, EndOfDocument,
     SyntaxError, UndefinedPrefix, SetParsingIsDone, DoneSignal, DoneNotify, SetDone, MatchEof
<1>2. CASE MainThread
  BY <1>2 DEF MainThread, Constructor, HasNextQueueTest, HasNextDoneTest, HasNextWait, MainWakes,
     HasNextQueueRetest, HasNextDoneRetest, NextTripleBelowTest, NextTripleSignal,
     NextTripleNotify, LoopBody, LoopAgain, Destructor, Join
<1>3. CASE ParserSpuriousWake \/ MainSpuriousWake
  BY <1>3 DEF ParserSpuriousWake, MainSpuriousWake
<1>4. CASE Stopped \/ UNCHANGED vars
  BY <1>4 DEF Stopped, vars, parserVars
<1> QED
  BY <1>1, <1>2, <1>3, <1>4 DEF Next

(* hasNextTriple answers TRUE only when it has seen a triple in the ring,   *)
(* and FALSE only when parsing is done.                                     *)
Answers(b) ==
  /\ consumer \in InHasNext
  /\ Answer(b)
  /\ IF b THEN queue # <<>> ELSE parsingIsDone
  /\ UNCHANGED <<queue, delivered, loops, parsingIsDone>>

Throws ==
  /\ consumer = "retestDone" /\ consumer' = "loop"
  /\ HasNextThrows
  /\ UNCHANGED <<queue, delivered, loops, parsingIsDone>>

LEMMA AnswerSteps ==
  HasNextQueueTest \/ HasNextDoneTest \/ HasNextQueueRetest \/ HasNextDoneRetest
    => \/ Answers(TRUE) \/ Answers(FALSE) \/ Throws
       \/ /\ consumer \in InHasNext /\ consumer' \in InHasNext
          /\ UNCHANGED <<queue, delivered, loops, parsingIsDone, iterVars>>
BY DEF HasNextQueueTest, HasNextDoneTest, HasNextQueueRetest, HasNextDoneRetest, Answers, Throws,
       KeepsParser, InHasNext

(* The main thread alone changes what the Iterator and the loop see.        *)
LEMMA IteratorSteps ==
  [Next]_vars =>
    \/ Answers(TRUE) \/ Answers(FALSE) \/ Throws \/ NextTriple \/ LoopBody \/ LoopAgain
    \/ UNCHANGED <<delivered, loops, iterVars>>
<1> SUFFICES ASSUME [Next]_vars
             PROVE  \/ Answers(TRUE) \/ Answers(FALSE) \/ Throws
                    \/ NextTriple \/ LoopBody \/ LoopAgain
                    \/ UNCHANGED <<delivered, loops, iterVars>>
  OBVIOUS
<1> USE DEF ToProducer, SignalTo, NotifyTo, FromTo, KeepsParser
<1>1. CASE ParsingThread
  BY <1>1 DEF ParsingThread, BeginStatement, InsertTriple, InsertSignal, Push, InsertNotify,
     StatementMatched, SyncWithMainThread, SleepAboveUpper, ParserWakes, EndOfDocument,
     SyntaxError, UndefinedPrefix, SetParsingIsDone, DoneSignal, DoneNotify, SetDone, MatchEof
<1>2. CASE HasNextQueueTest \/ HasNextDoneTest \/ HasNextQueueRetest \/ HasNextDoneRetest
  BY <1>2, AnswerSteps
<1>3. CASE Constructor \/ HasNextWait \/ MainWakes
  BY <1>3 DEF Constructor, HasNextWait, MainWakes
<1>4. CASE NextTripleBelowTest \/ NextTripleSignal \/ NextTripleNotify \/ Destructor \/ Join
  BY <1>4 DEF NextTripleBelowTest, NextTripleSignal, NextTripleNotify, Destructor, Join
<1>5. CASE ParserSpuriousWake \/ MainSpuriousWake
  BY <1>5 DEF ParserSpuriousWake, MainSpuriousWake
<1>6. CASE Stopped \/ UNCHANGED vars
  BY <1>6 DEF Stopped, vars, parserVars
<1> QED
  BY <1>1, <1>2, <1>3, <1>4, <1>5, <1>6 DEF Next, MainThread

-----------------------------------------------------------------------------
(* The order of the triples.                                                *)

LEMMA AppendIncreasing ==
  ASSUME NEW s \in Seq(Nat), NEW n \in Nat, Increasing(s), \A i \in 1 .. Len(s) : s[i] < n
  PROVE  Increasing(Append(s, n))
BY DEF Increasing

LEMMA TailIncreasing ==
  ASSUME NEW s \in Seq(Nat), s # <<>>, Increasing(s)
  PROVE  /\ Increasing(Tail(s))
         /\ \A i \in 1 .. Len(Tail(s)) : Head(s) < Tail(s)[i] /\ Tail(s)[i] = s[i + 1]
BY DEF Increasing

LEMMA NextOrderInv == StateTypes /\ OrderInv /\ [Next]_vars => OrderInv'
<1> SUFFICES ASSUME StateTypes, OrderInv, [Next]_vars PROVE OrderInv'
  OBVIOUS
<1>1. queue \in Seq(Nat) /\ delivered \in Seq(Nat) /\ inserted \in Nat
  BY DEF StateTypes, ControlTypes
<1>2. CASE Push
  <2>1. inserted' = inserted + 1 /\ delivered' = delivered
    BY <1>2 DEF Push
  <2>2. CASE queue' = queue
    <3>1. \A n \in Nat : n <= inserted => n <= inserted'
      BY <1>1, <2>1
    <3>2. /\ \A i \in 1 .. Len(delivered) : delivered[i] <= inserted'
          /\ \A i \in 1 .. Len(queue) : queue[i] <= inserted'
      BY <1>1, <3>1 DEF OrderInv
    <3> QED
      BY <2>1, <2>2, <3>2 DEF OrderInv, Increasing
  <2>3. CASE queue' = Append(queue, inserted + 1)
    <3>1. Increasing(queue')
      <4>1. \A i \in 1 .. Len(queue) : queue[i] < inserted + 1
        BY <1>1 DEF OrderInv
      <4> QED
        BY <1>1, <2>3, <4>1, AppendIncreasing DEF OrderInv
    <3>2. /\ Len(queue') = Len(queue) + 1
          /\ queue'[Len(queue) + 1] = inserted + 1
          /\ \A i \in 1 .. Len(queue) : queue'[i] = queue[i]
      BY <1>1, <2>3
    <3>3. \A i \in 1 .. Len(delivered'), j \in 1 .. Len(queue') : delivered'[i] < queue'[j]
      <4> SUFFICES ASSUME NEW i \in 1 .. Len(delivered'), NEW j \in 1 .. Len(queue')
                   PROVE  delivered'[i] < queue'[j]
        OBVIOUS
      <4>1. CASE j \in 1 .. Len(queue)
        BY <2>1, <3>2, <4>1 DEF OrderInv
      <4>2. CASE j = Len(queue) + 1
        BY <1>1, <2>1, <3>2, <4>2 DEF OrderInv
      <4> QED
        BY <1>1, <3>2, <4>1, <4>2
    <3>4. \A i \in 1 .. Len(delivered') : delivered'[i] <= inserted'
      BY <1>1, <2>1 DEF OrderInv
    <3>5. \A i \in 1 .. Len(queue') : queue'[i] <= inserted'
      <4> SUFFICES ASSUME NEW i \in 1 .. Len(queue') PROVE queue'[i] <= inserted'
        OBVIOUS
      <4>1. CASE i \in 1 .. Len(queue)
        <5>1. queue[i] \in Nat /\ queue[i] <= inserted
          BY <1>1, <4>1 DEF OrderInv
        <5> QED
          BY <1>1, <2>1, <3>2, <4>1, <5>1
      <4>2. CASE i = Len(queue) + 1
        BY <1>1, <2>1, <3>2, <4>2
      <4> QED
        BY <1>1, <3>2, <4>1, <4>2
    <3>6. Increasing(delivered')
      BY <2>1 DEF OrderInv
    <3> QED
      BY <3>1, <3>3, <3>4, <3>5, <3>6 DEF OrderInv
  <2> QED
    BY <1>2, <2>2, <2>3 DEF Push, RingPush
<1>3. CASE NextTriple
  <2>1. CASE queue = <<>>
    BY <1>3, <2>1 DEF NextTriple, KeepsParser, OrderInv, Increasing
  <2>2. CASE queue # <<>>
    <3>1. /\ queue' = Tail(queue)
          /\ delivered' = Append(delivered, Head(queue))
          /\ inserted' = inserted
      BY <1>3, <2>2 DEF NextTriple, KeepsParser
    <3>2. Head(queue) \in Nat /\ Head(queue) = queue[1] /\ 1 \in 1 .. Len(queue)
      BY <1>1, <2>2
    <3>3. Increasing(delivered')
      BY <1>1, <3>1, <3>2, AppendIncreasing DEF OrderInv
    <3>4. /\ Increasing(queue')
          /\ \A i \in 1 .. Len(queue') :
               /\ Head(queue) < queue'[i]
               /\ queue'[i] = queue[i + 1] /\ i + 1 \in 1 .. Len(queue)
      BY <1>1, <2>2, <3>1, TailIncreasing DEF OrderInv
    <3>5. /\ Len(delivered') = Len(delivered) + 1
          /\ delivered'[Len(delivered) + 1] = Head(queue)
          /\ \A i \in 1 .. Len(delivered) : delivered'[i] = delivered[i]
      BY <1>1, <3>1, <3>2
    <3>6. \A i \in 1 .. Len(delivered'), j \in 1 .. Len(queue') : delivered'[i] < queue'[j]
      <4> SUFFICES ASSUME NEW i \in 1 .. Len(delivered'), NEW j \in 1 .. Len(queue')
                   PROVE  delivered'[i] < queue'[j]
        OBVIOUS
      <4>1. CASE i \in 1 .. Len(delivered)
        BY <3>4, <3>5, <4>1 DEF OrderInv
      <4>2. CASE i = Len(delivered) + 1
        BY <3>4, <3>5, <4>2
      <4> QED
        BY <1>1, <3>5, <4>1, <4>2
    <3>7. \A i \in 1 .. Len(delivered') : delivered'[i] <= inserted'
      <4>1. Head(queue) <= inserted
        BY <3>2 DEF OrderInv
      <4> SUFFICES ASSUME NEW i \in 1 .. Len(delivered')
                   PROVE  delivered'[i] <= inserted
        BY <3>1
      <4>2. CASE i \in 1 .. Len(delivered)
        BY <3>5, <4>2 DEF OrderInv
      <4>3. CASE i = Len(delivered) + 1
        BY <3>5, <4>1, <4>3
      <4> QED
        BY <1>1, <3>5, <4>2, <4>3
    <3>8. \A i \in 1 .. Len(queue') : queue'[i] <= inserted'
      BY <3>1, <3>4 DEF OrderInv
    <3> QED
      BY <3>3, <3>4, <3>6, <3>7, <3>8 DEF OrderInv
  <2> QED
    BY <2>1, <2>2
<1>4. CASE UNCHANGED <<queue, inserted, delivered>>
  BY <1>4 DEF OrderInv, Increasing
<1> QED
  BY <1>2, <1>3, <1>4, RingSteps

(* nextTriple delivers no triple twice and none before an earlier one,      *)
(* whatever the ring has dropped when insertTriple found it full.           *)
THEOREM DeliveryIsInOrder == Spec => []DeliveredInOrder
<1>1. Init => OrderInv
  BY DEF Init, OrderInv, Increasing
<1>2. TypeInv /\ OrderInv /\ [Next]_vars => OrderInv'
  BY NextOrderInv DEF TypeInv
<1>3. OrderInv => DeliveredInOrder
  BY DEF OrderInv, Increasing, DeliveredInOrder
<1> QED
  BY TypeInvariant, <1>1, <1>2, <1>3, PTL DEF Spec

-----------------------------------------------------------------------------
(* The end of the document.                                                 *)

LEMMA NextEndInv == StateTypes /\ EndInv /\ [Next]_vars => EndInv'
<1> SUFFICES ASSUME StateTypes, EndInv, [Next]_vars PROVE EndInv'
  OBVIOUS
<1> USE DEF EndInv, iterVars, ToProducer, SignalTo, NotifyTo, NotifyParser, FromTo, KeepsParser
<1>1. CASE ParsingThread
  BY <1>1 DEF ParsingThread, BeginStatement, InsertTriple, InsertSignal, Push, InsertNotify,
     StatementMatched, SyncWithMainThread, SleepAboveUpper, ParserWakes, EndOfDocument,
     SyntaxError, UndefinedPrefix, SetParsingIsDone, DoneSignal, DoneNotify, SetDone, MatchEof,
     AfterPush
<1>2. CASE HasNextQueueTest \/ HasNextDoneTest \/ HasNextQueueRetest \/ HasNextDoneRetest
  <2>1. producer' = producer /\ parsingIsDone' = parsingIsDone
    BY <1>2 DEF HasNextQueueTest, HasNextDoneTest, HasNextQueueRetest, HasNextDoneRetest
  <2>2. parserDone' => parserDone \/ parsingIsDone
    BY <1>2, AnswerSteps, Zenon DEF Answers, Throws, Answer, HasNextReturns, HasNextThrows
  <2> QED
    BY <2>1, <2>2
<1>3. CASE Constructor \/ HasNextWait \/ MainWakes \/ NextTripleBelowTest \/ NextTripleSignal
            \/ NextTripleNotify \/ Destructor \/ Join
  BY <1>3 DEF Constructor, HasNextWait, MainWakes, NextTripleBelowTest, NextTripleSignal,
     NextTripleNotify, Destructor, Join
<1>4. CASE NextTriple \/ LoopBody \/ LoopAgain
  BY <1>4 DEF NextTriple, NextTripleReturns, LoopBody, Visit, Leave, LoopAgain, BeginAgain
<1>5. CASE ParserSpuriousWake \/ MainSpuriousWake
  BY <1>5 DEF ParserSpuriousWake, MainSpuriousWake
<1>6. CASE Stopped \/ UNCHANGED vars
  BY <1>6 DEF Stopped, vars, parserVars
<1> QED
  BY <1>1, <1>2, <1>3, <1>4, <1>5, <1>6 DEF Next, MainThread

LEMMA EndInvariant == Spec => []EndInv
<1>1. Init => EndInv
  BY DEF Init, IterInit, EndInv
<1>2. TypeInv /\ EndInv /\ [Next]_vars => EndInv'
  BY NextEndInv DEF TypeInv
<1> QED
  BY TypeInvariant, <1>1, <1>2, PTL DEF Spec

(* hasNextTriple returns false only when the parsing thread is past its     *)
(* last insertTriple, which sets parsingIsDone after the whole document.    *)
THEOREM EndIsFinal == Spec => NothingInsertedAfterEnd
<1>1. EndInv /\ [Next]_vars => [parserDone => inserted' = inserted]_vars
  BY RingSteps DEF EndInv, Push, NextTriple, KeepsParser
<1> QED
  BY EndInvariant, <1>1, PTL DEF Spec, NothingInsertedAfterEnd

-----------------------------------------------------------------------------
(* The calls of the main thread.                                            *)

LEMMA NextCallInv == StateTypes /\ CallInv /\ [Next]_vars => CallInv'
<1> SUFFICES ASSUME StateTypes, CallInv, [Next]_vars PROVE CallInv'
  OBVIOUS
<1> USE DEF CallInv, InHasNext, iterVars, ToProducer, SignalTo, NotifyTo, NotifyMain, NotifyParser,
            FromTo, KeepsParser
<1>1. CASE Push
  <2>1. consumer' = consumer /\ at' = at /\ parserDone' = parserDone
    BY <1>1 DEF Push
  <2>2. queue # <<>> => queue' # <<>>
    BY <1>1 DEF Push, RingPush, StateTypes, ControlTypes
  <2> QED
    BY <2>1, <2>2
<1>2. ASSUME ParsingThread, ~Push PROVE CallInv'
  BY <1>2 DEF ParsingThread, BeginStatement, InsertTriple, InsertSignal, InsertNotify,
     StatementMatched, SyncWithMainThread, SleepAboveUpper, ParserWakes, EndOfDocument,
     SyntaxError, UndefinedPrefix, SetParsingIsDone, DoneSignal, DoneNotify, SetDone, MatchEof
<1>3. CASE HasNextQueueTest \/ HasNextDoneTest \/ HasNextQueueRetest \/ HasNextDoneRetest
  <2>1. CASE Answers(TRUE)
    BY <2>1 DEF Answers, Answer, HasNextReturns, AfterHasNext
  <2>2. CASE Answers(FALSE)
    BY <2>2 DEF Answers, Answer, HasNextReturns, AfterHasNext
  <2>3. CASE Throws
    BY <2>3 DEF Throws, HasNextThrows
  <2>4. CASE /\ consumer \in InHasNext /\ consumer' \in InHasNext
             /\ UNCHANGED <<queue, delivered, loops, parsingIsDone, iterVars>>
    BY <1>3, <2>4 DEF HasNextQueueTest, HasNextDoneTest, HasNextQueueRetest, HasNextDoneRetest,
       Answer, HasNextReturns, HasNextThrows
  <2> QED
    BY <1>3, <2>1, <2>2, <2>3, <2>4, AnswerSteps
<1>4. CASE Constructor \/ HasNextWait \/ MainWakes \/ NextTripleBelowTest \/ NextTripleSignal
            \/ NextTripleNotify \/ Destructor \/ Join
  BY <1>4 DEF Constructor, HasNextWait, MainWakes, NextTripleBelowTest, NextTripleSignal,
     NextTripleNotify, Destructor, Join
<1>5. CASE NextTriple
  BY <1>5 DEF NextTriple, NextTripleReturns
<1>6. CASE LoopBody
  BY <1>6 DEF LoopBody, Visit, Leave
<1>7. CASE LoopAgain
  BY <1>7 DEF LoopAgain, BeginAgain
<1>8. CASE ParserSpuriousWake \/ MainSpuriousWake
  BY <1>8 DEF ParserSpuriousWake, MainSpuriousWake
<1>9. CASE Stopped \/ UNCHANGED vars
  BY <1>9 DEF Stopped, vars, parserVars
<1> QED
  BY <1>1, <1>2, <1>3, <1>4, <1>5, <1>6, <1>7, <1>8, <1>9 DEF Next, MainThread

LEMMA CallInvariant == Spec => []CallInv
<1>1. Init => CallInv
  BY DEF Init, IterInit, CallInv, InHasNext
<1>2. TypeInv /\ CallInv /\ [Next]_vars => CallInv'
  BY NextCallInv DEF TypeInv
<1> QED
  BY TypeInvariant, <1>1, <1>2, PTL DEF Spec

(* The answer TRUE of hasNextTriple still holds when the Iterator calls     *)
(* nextTriple: nobody else takes triples out of the ring.                   *)
THEOREM NextTripleFindsOne == Spec => []NextHasTriple
<1>1. CallInv => NextHasTriple
  BY DEF CallInv, NextHasTriple
<1> QED
  BY CallInvariant, <1>1, PTL

-----------------------------------------------------------------------------
(* What the loop body sees.                                                 *)

LEMMA LastOfAppend ==
  ASSUME NEW S, NEW s \in Seq(S), NEW e \in S
  PROVE  /\ Append(s, e) \in Seq(S) /\ Append(s, e) # <<>>
         /\ Len(Append(s, e)) = Len(s) + 1
         /\ Append(s, e)[Len(s) + 1] = e
         /\ \A i \in 1 .. Len(s) : Append(s, e)[i] = s[i]
BY AppendProperties

(* While a loop goes on it keeps its record, the last one.                  *)
LEMMA SameLoop == UNCHANGED loops => Loop' = Loop
BY DEF Loop

LEMMA LoopTypes ==
  ElementTypes /\ AheadInv =>
    /\ Loop.delivered \in Nat /\ Loop.visited \in Nat
    /\ Len(delivered) \in Nat /\ Len(visited) \in Nat
    /\ Loop.delivered <= Len(delivered) /\ Loop.visited <= Len(visited)
    /\ Fetched \in Nat /\ Visits \in Nat
<1> SUFFICES ASSUME ElementTypes, AheadInv
             PROVE  /\ Loop.delivered \in Nat /\ Loop.visited \in Nat
                    /\ Len(delivered) \in Nat /\ Len(visited) \in Nat
                    /\ Loop.delivered <= Len(delivered) /\ Loop.visited <= Len(visited)
                    /\ Fetched \in Nat /\ Visits \in Nat
  OBVIOUS
<1>1. Len(delivered) \in Nat /\ Len(visited) \in Nat
  BY DEF ElementTypes
<1>2. Loop.delivered \in 0 .. Len(delivered) /\ Loop.visited \in 0 .. Len(visited)
  BY DEF AheadInv
<1> QED
  BY <1>1, <1>2 DEF Fetched, Visits

(* nextTriple, with the triple that hasNextTriple has seen.                 *)
Fetches ==
  /\ NextTripleReturns(Head(queue))
  /\ Head(queue) \in Triples
  /\ delivered' = Append(delivered, Head(queue))
  /\ UNCHANGED loops

LEMMA NextTripleFetches == ElementTypes /\ CallInv /\ NextTriple => Fetches
<1> SUFFICES ASSUME ElementTypes, CallInv, NextTriple PROVE Fetches
  OBVIOUS
<1>1. queue # <<>>
  BY DEF CallInv, NextTriple, FromTo
<1>2. Head(queue) \in Triples
  BY <1>1 DEF ElementTypes
<1> QED
  BY <1>1, <1>2 DEF NextTriple, Fetches, KeepsParser

LEMMA Positions ==
  ASSUME NEW a \in Nat, NEW b \in Nat, b <= a
  PROVE  /\ a - b \in Nat
         /\ a + 1 - b = a - b + 1
         /\ a = b + (a - b)
OBVIOUS

LEMMA LoopPositions ==
  ElementTypes /\ AheadInv =>
    /\ Len(delivered) = Loop.delivered + Fetched
    /\ Len(visited) = Loop.visited + Visits
BY LoopTypes, Positions DEF Fetched, Visits

LEMMA FetchesOne ==
  ElementTypes /\ AheadInv /\ UNCHANGED <<loops, visited>> /\ Len(delivered') = Len(delivered) + 1
    => Fetched' = Fetched + 1 /\ Visits' = Visits
BY LoopTypes, SameLoop, Positions DEF Fetched, Visits

LEMMA VisitsOne ==
  ElementTypes /\ AheadInv /\ UNCHANGED <<loops, delivered>> /\ Len(visited') = Len(visited) + 1
    => Fetched' = Fetched /\ Visits' = Visits + 1
BY LoopTypes, SameLoop, Positions DEF Fetched, Visits

LEMMA NextAheadInv == ElementTypes /\ CallInv /\ EndInv /\ AheadInv /\ [Next]_vars => AheadInv'
<1> SUFFICES ASSUME ElementTypes, CallInv, EndInv, AheadInv, [Next]_vars PROVE AheadInv'
  OBVIOUS
<1>1. /\ Loop.delivered \in Nat /\ Loop.visited \in Nat
      /\ Len(delivered) \in Nat /\ Len(visited) \in Nat
      /\ Loop.delivered <= Len(delivered) /\ Loop.visited <= Len(visited)
  BY LoopTypes
<1>2. CASE Answers(TRUE) \/ Answers(FALSE)
  <2>1. UNCHANGED <<delivered, loops, current, visited>>
    BY <1>2 DEF Answers, Answer, HasNextReturns
  <2>2. /\ at \in {"hasFirst", "hasNext"}
        /\ at' \in {"next", "body"}
        /\ at' = "next" => at = "hasFirst"
        /\ at' = "body" /\ at = "hasFirst" => parserDone'
    BY <1>2 DEF Answers, Answer, HasNextReturns, AfterHasNext
  <2> QED
    BY <1>1, <2>1, <2>2, SameLoop DEF AheadInv, Fetched, Visits, LastDelivered
<1>3. CASE Throws
  BY <1>1, <1>3, SameLoop
  DEF Throws, HasNextThrows, AheadInv, Fetched, Visits, LastDelivered
<1>4. CASE NextTriple
  <2>1. /\ at = "next" /\ at' = "hasNext" /\ visited' = visited /\ loops' = loops
        /\ current' = Head(queue) /\ Head(queue) \in Triples
        /\ delivered' = Append(delivered, Head(queue))
    BY <1>4, NextTripleFetches DEF Fetches, NextTripleReturns
  <2>2. /\ Len(delivered') = Len(delivered) + 1 /\ delivered' # <<>>
        /\ delivered'[Len(delivered) + 1] = Head(queue)
    BY <2>1, LastOfAppend DEF ElementTypes
  <2>3. LastDelivered' = current'
    BY <2>1, <2>2 DEF LastDelivered
  <2>4. /\ Loop' = Loop /\ loops' = loops /\ Len(visited') = Len(visited)
        /\ Len(delivered') \in Nat /\ Loop.delivered <= Len(delivered')
    BY <1>1, <2>1, <2>2, SameLoop
  <2>5. Fetched' = Visits' + 1
    <3>1. Fetched = Visits
      BY <2>1 DEF AheadInv
    <3>2. Fetched' = Fetched + 1 /\ Visits' = Visits
      BY <2>1, <2>2, FetchesOne
    <3> QED
      BY <3>1, <3>2
  <2> QED
    BY <1>1, <2>1, <2>3, <2>4, <2>5 DEF AheadInv
<1>5. CASE LoopBody
  <2>1. /\ at = "body" /\ UNCHANGED <<delivered, loops, current, parserDone>>
        /\ visited' = Append(visited, current)
        /\ at' \in {"end", "next", "left"} /\ (at' = "next" => ~parserDone)
    BY <1>5 DEF LoopBody, Visit, Leave, KeepsParser
  <2>2. Len(visited') = Len(visited) + 1
    BY <2>1, LastOfAppend DEF ElementTypes
  <2>3. LastDelivered' = LastDelivered
    BY <2>1 DEF LastDelivered
  <2>4. /\ Loop' = Loop /\ loops' = loops /\ Len(delivered') = Len(delivered)
        /\ Len(visited') \in Nat /\ Loop.visited <= Len(visited')
    BY <1>1, <2>1, <2>2, SameLoop
  <2>5. /\ Fetched' = Fetched /\ Visits' = Visits + 1
        /\ Fetched \in Nat /\ Visits \in Nat
    BY <1>1, <2>1, <2>2, <2>4 DEF Fetched, Visits
  <2>6. Fetched' = Visits' \/ (Fetched' = 0 /\ Visits' = 1 /\ parserDone)
    BY <2>1, <2>5 DEF AheadInv
  <2> QED
    BY <1>1, <2>1, <2>3, <2>4, <2>5, <2>6 DEF AheadInv
<1>6. CASE LoopAgain
  <2>1. /\ at' = "hasFirst" /\ parserDone' = FALSE
        /\ UNCHANGED <<delivered, current, visited>>
        /\ loops' = Append(loops, [delivered |-> Len(delivered), visited |-> Len(visited)])
    BY <1>6 DEF LoopAgain, BeginAgain
  <2>2. /\ Len(loops') = Len(loops) + 1
        /\ loops'[Len(loops) + 1] = [delivered |-> Len(delivered), visited |-> Len(visited)]
    <3>1. [delivered |-> Len(delivered), visited |-> Len(visited)]
            \in [delivered : Nat, visited : Nat]
      BY <1>1
    <3> QED
      BY <2>1, <3>1, LastOfAppend DEF ElementTypes
  <2>3. Loop' = [delivered |-> Len(delivered), visited |-> Len(visited)] /\ Len(loops') > 0
    BY <2>2 DEF Loop, ElementTypes
  <2> QED
    BY <1>1, <2>1, <2>3 DEF AheadInv, Fetched, Visits, LastDelivered
<1>7. CASE UNCHANGED <<delivered, loops, iterVars>>
  BY <1>7, SameLoop DEF iterVars, AheadInv, Fetched, Visits, LastDelivered
<1> QED
  BY <1>2, <1>3, <1>4, <1>5, <1>6, <1>7, IteratorSteps

LEMMA NextSeenInv ==
  ElementTypes /\ CallInv /\ AheadInv /\ SeenInv /\ [Next]_vars => SeenInv'
<1> SUFFICES ASSUME ElementTypes, CallInv, AheadInv, SeenInv, [Next]_vars PROVE SeenInv'
  OBVIOUS
<1>1. /\ Loop.delivered \in Nat /\ Loop.visited \in Nat
      /\ Fetched \in Nat /\ Visits \in Nat
      /\ Len(delivered) = Loop.delivered + Fetched
      /\ Len(visited) = Loop.visited + Visits
  BY LoopTypes, LoopPositions
<1>2. CASE UNCHANGED <<delivered, loops, visited>>
  BY <1>2, SameLoop DEF SeenInv, Fetched, Visits, LastDelivered
<1>3. CASE NextTriple
  <2>1. /\ at = "next" /\ visited' = visited /\ loops' = loops
        /\ delivered' = Append(delivered, Head(queue)) /\ Head(queue) \in Triples
    BY <1>3, NextTripleFetches DEF Fetches, NextTripleReturns
  <2>2. /\ Len(delivered') = Len(delivered) + 1
        /\ \A i \in 1 .. Len(delivered) : delivered'[i] = delivered[i]
    BY <2>1, LastOfAppend DEF ElementTypes
  <2>3. Fetched' = Fetched + 1 /\ Visits' = Visits /\ Fetched = Visits /\ Loop' = Loop
    <3>1. Fetched = Visits
      BY <2>1 DEF AheadInv
    <3> QED
      BY <2>1, <2>2, <3>1, FetchesOne, SameLoop
  <2>4. \A i \in 1 .. Visits : visited'[Loop.visited + i] = delivered'[Loop.delivered + i]
    <3> SUFFICES ASSUME NEW i \in 1 .. Visits
                 PROVE  visited[Loop.visited + i] = delivered'[Loop.delivered + i]
      BY <2>1
    <3>1. visited[Loop.visited + i] = delivered[Loop.delivered + i]
      <4>1. Visits > 0
        BY <1>1
      <4> QED
        BY <2>3, <4>1 DEF SeenInv
    <3>2. Loop.delivered + i \in 1 .. Len(delivered)
      BY <1>1, <2>3
    <3> QED
      BY <2>2, <3>1, <3>2
  <2> QED
    BY <1>1, <2>3, <2>4 DEF SeenInv
<1>4. CASE LoopBody
  <2>1. /\ at = "body" /\ UNCHANGED <<delivered, loops>>
        /\ visited' = Append(visited, current) /\ current = LastDelivered
    BY <1>4 DEF LoopBody, Visit, Leave, KeepsParser, AheadInv
  <2>2. /\ Len(visited') = Len(visited) + 1
        /\ visited'[Len(visited) + 1] = LastDelivered
        /\ \A i \in 1 .. Len(visited) : visited'[i] = visited[i]
    BY <2>1, LastOfAppend DEF ElementTypes
  <2>3. /\ Fetched' = Fetched /\ Visits' = Visits + 1 /\ Loop' = Loop
        /\ LastDelivered' = LastDelivered
    BY <2>1, <2>2, VisitsOne, SameLoop DEF LastDelivered
  <2>4. Fetched = Visits + 1 \/ (Fetched = 0 /\ Visits = 0)
    BY <2>1 DEF AheadInv
  <2>5. ASSUME Fetched > 0, NEW i \in 1 .. Visits + 1
        PROVE  visited'[Loop.visited + i] = delivered[Loop.delivered + i]
    <3>1. CASE i \in 1 .. Visits
      <4>1. visited[Loop.visited + i] = delivered[Loop.delivered + i]
        BY <2>5, <3>1 DEF SeenInv
      <4>2. Loop.visited + i \in 1 .. Len(visited)
        BY <1>1, <3>1
      <4> QED
        BY <2>2, <4>1, <4>2
    <3>2. CASE i = Visits + 1
      <4>1. Loop.visited + i = Len(visited) + 1 /\ Loop.delivered + i = Len(delivered)
        <5>1. Fetched = Visits + 1
          BY <2>4, <2>5
        <5>2. Len(delivered) = Loop.delivered + Fetched /\ Len(visited) = Loop.visited + Visits
          BY <1>1
        <5> QED
          BY <1>1, <3>2, <5>1, <5>2
      <4>2. Len(delivered) # 0
        BY <1>1, <2>5
      <4>3. LastDelivered = delivered[Len(delivered)]
        BY <4>2 DEF LastDelivered
      <4> QED
        BY <2>2, <4>1, <4>3
    <3> QED
      BY <1>1, <3>1, <3>2
  <2>6. Fetched = 0 => Len(visited) + 1 = Loop.visited + 1
    BY <1>1, <2>4
  <2>7. Fetched = 0 => visited'[Loop.visited + 1] = LastDelivered
    BY <2>2, <2>6
  <2> QED
    BY <2>1, <2>3, <2>5, <2>7 DEF SeenInv
<1>5. CASE LoopAgain
  <2>1. Visits' = 0
    <3>1. /\ visited' = visited
          /\ loops' = Append(loops, [delivered |-> Len(delivered), visited |-> Len(visited)])
          /\ [delivered |-> Len(delivered), visited |-> Len(visited)]
               \in [delivered : Nat, visited : Nat]
      BY <1>5, LoopTypes DEF LoopAgain, BeginAgain
    <3>2. Loop' = [delivered |-> Len(delivered), visited |-> Len(visited)]
      BY <3>1, LastOfAppend DEF Loop, ElementTypes
    <3> QED
      BY <3>1, <3>2, LoopTypes DEF Visits
  <2> QED
    BY <2>1 DEF SeenInv
<1>6. Answers(TRUE) \/ Answers(FALSE) \/ Throws => UNCHANGED <<delivered, loops, visited>>
  BY DEF Answers, Answer, HasNextReturns, Throws, HasNextThrows
<1> QED
  BY <1>2, <1>3, <1>4, <1>5, <1>6, IteratorSteps DEF iterVars

LEMMA SinceProperties ==
  ASSUME NEW S, NEW s \in Seq(S), NEW n \in Nat, n <= Len(s)
  PROVE  /\ Since(n, s) \in Seq(S)
         /\ Len(Since(n, s)) = Len(s) - n
         /\ \A i \in 1 .. Len(s) - n : Since(n, s)[i] = s[n + i]
<1>1. \A i \in n + 1 .. Len(s) : s[i] \in S
  OBVIOUS
<1> QED
  BY <1>1, SubSeqProperties DEF Since

(* What the invariants say of the loop is what the property asks.           *)
LEMMA SeenIsVisitedOnce ==
  StateTypes /\ ElementTypes /\ AheadInv /\ SeenInv => EachTripleVisitedOnce
<1> SUFFICES ASSUME StateTypes, ElementTypes, AheadInv, SeenInv PROVE EachTripleVisitedOnce
  OBVIOUS
<1> DEFINE T == Triples \cup {NoTriple}
           D == DeliveredInLoop
           V == VisitedInLoop
<1>1. /\ Loop.delivered \in Nat /\ Loop.visited \in Nat
      /\ Len(delivered) \in Nat /\ Len(visited) \in Nat
      /\ Loop.delivered <= Len(delivered) /\ Loop.visited <= Len(visited)
      /\ Fetched \in Nat /\ Visits \in Nat
      /\ Fetched = Len(delivered) - Loop.delivered /\ Visits = Len(visited) - Loop.visited
  BY LoopTypes DEF Fetched, Visits
<1>2. /\ D \in Seq(T) /\ Len(D) = Fetched
      /\ \A i \in 1 .. Fetched : D[i] = delivered[Loop.delivered + i]
  <2>1. delivered \in Seq(T)
    BY DEF ElementTypes
  <2>2. D = Since(Loop.delivered, delivered)
    BY DEF DeliveredInLoop, Loop
  <2> HIDE DEF D, T
  <2>3. /\ Since(Loop.delivered, delivered) \in Seq(T)
        /\ Len(Since(Loop.delivered, delivered)) = Len(delivered) - Loop.delivered
        /\ \A i \in 1 .. Len(delivered) - Loop.delivered :
             Since(Loop.delivered, delivered)[i] = delivered[Loop.delivered + i]
    BY <1>1, <2>1, SinceProperties
  <2> QED
    BY <1>1, <2>2, <2>3
<1>3. /\ V \in Seq(T) /\ Len(V) = Visits
      /\ \A i \in 1 .. Visits : V[i] = visited[Loop.visited + i]
  <2>1. visited \in Seq(T)
    BY DEF ElementTypes
  <2>2. V = Since(Loop.visited, visited)
    BY DEF VisitedInLoop, Loop
  <2> HIDE DEF V, T
  <2>3. /\ Since(Loop.visited, visited) \in Seq(T)
        /\ Len(Since(Loop.visited, visited)) = Len(visited) - Loop.visited
        /\ \A i \in 1 .. Len(visited) - Loop.visited :
             Since(Loop.visited, visited)[i] = visited[Loop.visited + i]
    BY <1>1, <2>1, SinceProperties
  <2> QED
    BY <1>1, <2>2, <2>3
<1>4. /\ Fetched > 0 => Fetched = Visits \/ Fetched = Visits + 1
      /\ Fetched > 0 /\ at \in {"end", "left"} => Fetched = Visits
      /\ Fetched = 0 => Visits = 0 \/ Visits = 1
  <2>1. at \in Places
    BY DEF StateTypes, ControlTypes
  <2> HIDE DEF Fetched, Visits
  <2> QED
    BY <1>1, <2>1 DEF AheadInv, Places
<1> HIDE DEF D, V, T
<1>5. CASE Fetched = 0
  <2>1. D = <<>>
    BY <1>2, <1>5
  <2>2. V = <<>> \/ V = <<LastDelivered>>
    <3>1. CASE Visits = 0
      BY <1>3, <3>1
    <3>2. CASE Visits = 1
      <4>1. Len(V) = 1 /\ V[1] = LastDelivered
        BY <1>3, <1>5, <3>2 DEF SeenInv
      <4> QED
        BY <1>3, <4>1
    <3> QED
      BY <1>4, <1>5, <3>1, <3>2
  <2> QED
    BY <2>1, <2>2 DEF EachTripleVisitedOnce, D, V
<1>6. CASE Fetched > 0
  <2>1. D # <<>>
    BY <1>2, <1>6
  <2>2. \A i \in 1 .. Visits : i \in 1 .. Fetched => V[i] = D[i]
    BY <1>2, <1>3, <1>6 DEF SeenInv
  <2>3. CASE Visits = Fetched
    <3>1. \A i \in 1 .. Len(V) : V[i] = D[i]
      BY <1>2, <1>3, <2>2, <2>3
    <3>2. V = D
      BY <1>2, <1>3, <2>3, <3>1, SeqEqual
    <3> QED
      BY <2>1, <3>2 DEF EachTripleVisitedOnce, D, V
  <2>4. CASE Fetched = Visits + 1
    <3> DEFINE Front == SubSeq(D, 1, Len(D) - 1)
    <3>1. /\ Front \in Seq(T) /\ Len(Front) = Visits
          /\ \A i \in 1 .. Visits : Front[i] = D[i]
      <4>1. Len(D) - 1 = Visits /\ \A i \in 1 .. Visits : D[i] \in T
        <5>1. Len(D) = Visits + 1 /\ Visits \in Nat
          BY <1>1, <1>2, <2>4
        <5>2. \A i \in 1 .. Len(D) : D[i] \in T
          BY <1>2
        <5> QED
          BY <5>1, <5>2
      <4>2. /\ Front \in Seq(T) /\ Len(Front) = IF 1 <= Visits THEN Visits - 1 + 1 ELSE 0
            /\ \A i \in 1 .. Visits - 1 + 1 : Front[i] = D[1 + i - 1]
        <5>1. Visits \in Nat /\ D \in Seq(T) /\ \A i \in 1 .. Visits : D[i] \in T
          BY <1>1, <1>2, <4>1
        <5>2. Front = SubSeq(D, 1, Visits)
          BY <4>1
        <5> QED
          BY <5>1, <5>2, SubSeqProperties
      <4>3. Visits - 1 + 1 = Visits /\ \A i \in 1 .. Visits : 1 + i - 1 = i
        BY <1>1
      <4>4. Len(Front) = Visits
        BY <1>1, <4>2, <4>3
      <4> HIDE DEF Front
      <4> QED
        BY <4>2, <4>3, <4>4
    <3>2. \A i \in 1 .. Len(V) : V[i] = Front[i]
      <4> HIDE DEF Front
      <4>1. \A i \in 1 .. Visits : V[i] = D[i]
        BY <1>1, <2>2, <2>4
      <4> QED
        BY <1>3, <3>1, <4>1
    <3> HIDE DEF Front
    <3>3. V = Front
      BY <1>3, <3>1, <3>2, SeqEqual
    <3>4. at \notin {"end", "left"}
      BY <1>1, <1>4, <1>6, <2>4
    <3> QED
      BY <2>1, <3>3, <3>4 DEF EachTripleVisitedOnce, D, V, Front
  <2> QED
    BY <1>4, <1>6, <2>3, <2>4
<1> QED
  BY <1>1, <1>5, <1>6

LEMMA LoopInvariant == Spec => [](TypeInv /\ CallInv /\ EndInv /\ AheadInv /\ SeenInv)
<1>1. Init => AheadInv /\ SeenInv
  BY DEF Init, IterInit, AheadInv, SeenInv, Loop, Fetched, Visits, LastDelivered
<1>2. TypeInv /\ CallInv /\ EndInv /\ AheadInv /\ SeenInv /\ [Next]_vars
        => AheadInv' /\ SeenInv'
  BY NextAheadInv, NextSeenInv DEF TypeInv
<1> QED
  BY TypeInvariant, CallInvariant, EndInvariant, <1>1, <1>2, PTL DEF Spec

(* However hasNextTriple and nextTriple interleave with the parsing thread, *)
(* and wherever a loop is left, the Iterator shows each triple delivered to *)
(* its loop once and in order.                                              *)
THEOREM VisitedOnce == Spec => []EachTripleVisitedOnce
<1>1. TypeInv /\ AheadInv /\ SeenInv => EachTripleVisitedOnce
  BY SeenIsVisitedOnce DEF TypeInv
<1> QED
  BY LoopInvariant, <1>1, PTL
=============================================================================
