----------------------- MODULE TurtleFileParser_proofs -----------------------
(***************************************************************************)
(* Proofs about the concurrent parser, for every ring capacity, every pair *)
(* of thresholds, every document and every interleaving.                   *)
(***************************************************************************)
EXTENDS TurtleFileParser, TripleNumbers_proofs

(* The type invariant, without the bound on the number of triples: that one *)
(* needs CountInv.                                                          *)
FlagTypes ==
  /\ termCountWithinThresholds \in BOOLEAN
  /\ termsCountIsNotEmpty \in BOOLEAN
  /\ parsingIsDone \in BOOLEAN
  /\ syntaxError \in BOOLEAN
  /\ parserDone \in BOOLEAN

ControlTypes ==
  /\ queue \in Seq(Nat) /\ Len(queue) <= RingCapacity
  /\ producer \in ProducerPlaces
  /\ todo \in 0 .. MaxTriplesPerStatement
  /\ todo > 0 => InStatement \/ producer = "aborted"
  /\ producer \in {"signal", "push", "pushAndNotify"} => todo > 0
  /\ statements \in 0 .. MaxStatements
  /\ InStatement => statements < MaxStatements
  /\ consumer \in ConsumerPlaces
  /\ inserted \in Nat
  /\ delivered \in Seq(Nat)
  /\ at \in Places

StateTypes == FlagTypes /\ ControlTypes

LEMMA InitStateTypes == Init => StateTypes
<1> SUFFICES ASSUME Init PROVE StateTypes
  OBVIOUS
<1>1. FlagTypes
  BY Zenon DEF Init, IterInit, FlagTypes
<1>2. ControlTypes
  BY ConstantsAssumption
  DEF Init, IterInit, ControlTypes, ProducerPlaces, ConsumerPlaces, Places, InStatement
<1> QED
  BY <1>1, <1>2 DEF StateTypes

LEMMA NextStateTypes == StateTypes /\ [Next]_vars => StateTypes'
<1> SUFFICES ASSUME StateTypes, [Next]_vars PROVE StateTypes'
  OBVIOUS
<1> USE ConstantsAssumption
        DEF StateTypes, FlagTypes, ControlTypes, ProducerPlaces, ConsumerPlaces, Places, InStatement, iterVars, ToProducer,
            SignalTo, NotifyTo, NotifyMain, NotifyParser, RingPush,
            AboveUpper, BelowLower, Running, FromTo, KeepsParser, Answer, AfterHasNext,
            HasNextReturns, NextTripleReturns, HasNextThrows
<1>1. ASSUME BeginStatement PROVE StateTypes'
  BY <1>1 DEF BeginStatement
<1>2. ASSUME InsertTriple PROVE StateTypes'
  BY <1>2 DEF InsertTriple
<1>3. ASSUME InsertSignal PROVE StateTypes'
  BY <1>3 DEF InsertSignal
<1>4. ASSUME Push PROVE StateTypes'
  BY <1>4 DEF Push, AfterPush
<1>5. ASSUME InsertNotify PROVE StateTypes'
  BY <1>5 DEF InsertNotify
<1>6. ASSUME StatementMatched PROVE StateTypes'
  BY <1>6 DEF StatementMatched
<1>7. ASSUME SyncWithMainThread PROVE StateTypes'
  BY <1>7 DEF SyncWithMainThread
<1>8. ASSUME SleepAboveUpper PROVE StateTypes'
  <2>1. FlagTypes'
    BY <1>8 DEF SleepAboveUpper
  <2>2. ControlTypes'
    BY <1>8 DEF SleepAboveUpper
  <2> QED
    BY <2>1, <2>2
<1>9. ASSUME ParserWakes PROVE StateTypes'
  BY <1>9 DEF ParserWakes, WakeTest
<1>10. ASSUME EndOfDocument PROVE StateTypes'
  BY <1>10 DEF EndOfDocument
<1>11. ASSUME SyntaxError PROVE StateTypes'
  BY <1>11 DEF SyntaxError
<1>12. ASSUME UndefinedPrefix PROVE StateTypes'
  BY <1>12 DEF UndefinedPrefix
<1>13. ASSUME SetParsingIsDone PROVE StateTypes'
  BY <1>13 DEF SetParsingIsDone
<1>14. ASSUME DoneSignal PROVE StateTypes'
  BY <1>14 DEF DoneSignal
<1>15. ASSUME DoneNotify PROVE StateTypes'
  BY <1>15 DEF DoneNotify
<1>16. ASSUME SetDone PROVE StateTypes'
  BY <1>16 DEF SetDone
<1>17. ASSUME MatchEof PROVE StateTypes'
  BY <1>17 DEF MatchEof
<1>18. ASSUME Constructor PROVE StateTypes'
  BY <1>18 DEF Constructor
<1>19. ASSUME HasNextQueueTest PROVE StateTypes'
  <2>1. CASE queue # <<>>
    <3>1. FlagTypes'
      BY <1>19, <2>1 DEF HasNextQueueTest
    <3>2. ControlTypes'
      BY <1>19, <2>1 DEF HasNextQueueTest
    <3> QED
      BY <3>1, <3>2
  <2>2. CASE queue = <<>>
    BY <1>19, <2>2 DEF HasNextQueueTest
  <2> QED
    BY <2>1, <2>2
<1>20. ASSUME HasNextDoneTest PROVE StateTypes'
  BY <1>20 DEF HasNextDoneTest
<1>21. ASSUME HasNextWait PROVE StateTypes'
  <2>1. FlagTypes'
    BY <1>21 DEF HasNextWait
  <2>2. ControlTypes'
    BY <1>21 DEF HasNextWait
  <2> QED
    BY <2>1, <2>2
<1>22. ASSUME MainWakes PROVE StateTypes'
  BY <1>22 DEF MainWakes
<1>23. ASSUME HasNextQueueRetest PROVE StateTypes'
  <2>1. CASE queue # <<>>
    <3>1. FlagTypes'
      BY <1>23, <2>1 DEF HasNextQueueRetest
    <3>2. ControlTypes'
      BY <1>23, <2>1 DEF HasNextQueueRetest
    <3> QED
      BY <3>1, <3>2
  <2>2. CASE queue = <<>>
    BY <1>23, <2>2 DEF HasNextQueueRetest
  <2> QED
    BY <2>1, <2>2
<1>24. ASSUME HasNextDoneRetest PROVE StateTypes'
  BY <1>24 DEF HasNextDoneRetest
<1>25. ASSUME NextTriple PROVE StateTypes'
  <2>1. CASE queue = <<>>
    BY <1>25, <2>1 DEF NextTriple
  <2>2. CASE queue # <<>>
    <3>1. /\ Head(queue) \in Nat /\ Tail(queue) \in Seq(Nat)
          /\ Len(Tail(queue)) = Len(queue) - 1
      BY <2>2
    <3>2. FlagTypes'
      BY <1>25, <2>2 DEF NextTriple
    <3>3. /\ queue' \in Seq(Nat) /\ Len(queue') <= RingCapacity
          /\ delivered' \in Seq(Nat)
      <4>1. /\ queue' = Tail(queue)
            /\ delivered' = Append(delivered, Head(queue))
        BY <1>25, <2>2 DEF NextTriple
      <4> QED
        BY <3>1, <4>1
    <3>4. ControlTypes'
      BY <1>25, <2>2, <3>3 DEF NextTriple
    <3> QED
      BY <3>2, <3>4
  <2> QED
    BY <2>1, <2>2
<1>26. ASSUME NextTripleBelowTest PROVE StateTypes'
  BY <1>26 DEF NextTripleBelowTest
<1>27. ASSUME NextTripleSignal PROVE StateTypes'
  BY <1>27 DEF NextTripleSignal
<1>28. ASSUME NextTripleNotify PROVE StateTypes'
  BY <1>28 DEF NextTripleNotify
<1>29. ASSUME LoopBody PROVE StateTypes'
  BY <1>29 DEF LoopBody, Visit, Leave
<1>30. ASSUME Destructor PROVE StateTypes'
  BY <1>30 DEF Destructor
<1>31. ASSUME Join PROVE StateTypes'
  BY <1>31 DEF Join
<1>32. ASSUME ParserSpuriousWake PROVE StateTypes'
  BY <1>32 DEF ParserSpuriousWake
<1>33. ASSUME MainSpuriousWake PROVE StateTypes'
  BY <1>33 DEF MainSpuriousWake
<1>34. ASSUME Stopped \/ UNCHANGED vars PROVE StateTypes'
  BY <1>34 DEF Stopped, vars, parserVars
<1>35. ASSUME LoopAgain PROVE StateTypes'
  BY <1>35 DEF LoopAgain, BeginAgain
<1> QED
  BY <1>1, <1>2, <1>3, <1>4, <1>5, <1>6, <1>7, <1>8, <1>9, <1>10, <1>11, <1>12, <1>13, <1>14,
     <1>15, <1>16, <1>17, <1>18, <1>19, <1>20, <1>21, <1>22, <1>23, <1>24, <1>25, <1>26, <1>27,
     <1>28, <1>29, <1>30, <1>31, <1>32, <1>33, <1>34, <1>35
  DEF Next, ParsingThread, MainThread

-----------------------------------------------------------------------------
LEMMA InitBacklogInv == Init => BacklogInv
BY ConstantsAssumption
DEF Init, BacklogInv, Backlog, Overrun, InStatement, BetweenStatements

LEMMA NextBacklogInv == StateTypes /\ BacklogInv /\ [Next]_vars => BacklogInv'
<1> SUFFICES ASSUME StateTypes, BacklogInv, [Next]_vars PROVE BacklogInv'
  OBVIOUS
<1> USE ConstantsAssumption
        DEF StateTypes, FlagTypes, ControlTypes,
            BacklogInv, Backlog, Overrun, InStatement, BetweenStatements, iterVars, ToProducer,
            SignalTo, NotifyTo, NotifyMain, NotifyParser, RingPush,
            AboveUpper, BelowLower, Running, FromTo, KeepsParser, Answer
<1>1. ASSUME BeginStatement PROVE BacklogInv'
  BY <1>1 DEF BeginStatement
<1>2. ASSUME InsertTriple PROVE BacklogInv'
  BY <1>2 DEF InsertTriple
<1>3. ASSUME InsertSignal PROVE BacklogInv'
  BY <1>3 DEF InsertSignal
<1>4. ASSUME Push PROVE BacklogInv'
  BY <1>4 DEF Push, AfterPush
<1>5. ASSUME InsertNotify PROVE BacklogInv'
  BY <1>5 DEF InsertNotify
<1>6. ASSUME StatementMatched PROVE BacklogInv'
  BY <1>6 DEF StatementMatched
<1>7. ASSUME SyncWithMainThread PROVE BacklogInv'
  BY <1>7 DEF SyncWithMainThread
<1>8. ASSUME SleepAboveUpper PROVE BacklogInv'
  BY <1>8 DEF SleepAboveUpper
<1>9. ASSUME ParserWakes PROVE BacklogInv'
  BY <1>9 DEF ParserWakes, WakeTest
<1>10. ASSUME EndOfDocument PROVE BacklogInv'
  BY <1>10 DEF EndOfDocument
<1>11. ASSUME SyntaxError PROVE BacklogInv'
  BY <1>11 DEF SyntaxError
<1>12. ASSUME UndefinedPrefix PROVE BacklogInv'
  BY <1>12 DEF UndefinedPrefix
<1>13. ASSUME SetParsingIsDone PROVE BacklogInv'
  BY <1>13 DEF SetParsingIsDone
<1>14. ASSUME DoneSignal PROVE BacklogInv'
  BY <1>14 DEF DoneSignal
<1>15. ASSUME DoneNotify PROVE BacklogInv'
  BY <1>15 DEF DoneNotify
<1>16. ASSUME SetDone PROVE BacklogInv'
  BY <1>16 DEF SetDone
<1>17. ASSUME MatchEof PROVE BacklogInv'
  BY <1>17 DEF MatchEof
<1>18. ASSUME Constructor PROVE BacklogInv'
  BY <1>18 DEF Constructor
<1>19. ASSUME HasNextQueueTest PROVE BacklogInv'
  BY <1>19 DEF HasNextQueueTest
<1>20. ASSUME HasNextDoneTest PROVE BacklogInv'
  BY <1>20 DEF HasNextDoneTest
<1>21. ASSUME HasNextWait PROVE BacklogInv'
  BY <1>21 DEF HasNextWait
<1>22. ASSUME MainWakes PROVE BacklogInv'
  BY <1>22 DEF MainWakes
<1>23. ASSUME HasNextQueueRetest PROVE BacklogInv'
  BY <1>23 DEF HasNextQueueRetest
<1>24. ASSUME HasNextDoneRetest PROVE BacklogInv'
  BY <1>24 DEF HasNextDoneRetest
<1>25. ASSUME NextTriple PROVE BacklogInv'
  BY <1>25 DEF NextTriple
<1>26. ASSUME NextTripleBelowTest PROVE BacklogInv'
  BY <1>26 DEF NextTripleBelowTest
<1>27. ASSUME NextTripleSignal PROVE BacklogInv'
  BY <1>27 DEF NextTripleSignal
<1>28. ASSUME NextTripleNotify PROVE BacklogInv'
  BY <1>28 DEF NextTripleNotify
<1>29. ASSUME LoopBody PROVE BacklogInv'
  BY <1>29 DEF LoopBody, Visit, Leave
<1>30. ASSUME Destructor PROVE BacklogInv'
  BY <1>30 DEF Destructor
<1>31. ASSUME Join PROVE BacklogInv'
  BY <1>31 DEF Join
<1>32. ASSUME ParserSpuriousWake PROVE BacklogInv'
  BY <1>32 DEF ParserSpuriousWake
<1>33. ASSUME MainSpuriousWake PROVE BacklogInv'
  BY <1>33 DEF MainSpuriousWake
<1>34. ASSUME Stopped \/ UNCHANGED vars PROVE BacklogInv'
  BY <1>34 DEF Stopped, vars, parserVars
<1>35. ASSUME LoopAgain PROVE BacklogInv'
  BY <1>35 DEF LoopAgain, BeginAgain
<1> QED
  BY <1>1, <1>2, <1>3, <1>4, <1>5, <1>6, <1>7, <1>8, <1>9, <1>10, <1>11, <1>12, <1>13, <1>14,
     <1>15, <1>16, <1>17, <1>18, <1>19, <1>20, <1>21, <1>22, <1>23, <1>24, <1>25, <1>26, <1>27,
     <1>28, <1>29, <1>30, <1>31, <1>32, <1>33, <1>34, <1>35
  DEF Next, ParsingThread, MainThread

-----------------------------------------------------------------------------
(* The document has at most MaxStatements * MaxTriplesPerStatement triples: *)
(* what a statement inserts beyond those before it is bounded by todo.      *)
CountInv ==
  /\ inserted <= MaxStatements * MaxTriplesPerStatement
  /\ InStatement =>
       inserted + todo <= statements * MaxTriplesPerStatement + MaxTriplesPerStatement
  /\ producer \in {"boundary", "sync", "lock", "asleep", "awake"} =>
       inserted <= statements * MaxTriplesPerStatement

LEMMA OneMoreStatement ==
  ASSUME NEW a \in Nat, NEW b \in Nat, NEW c \in Nat, a < b
  PROVE  /\ a * c + c <= b * c
         /\ (a + 1) * c = a * c + c
         /\ a * c \in Nat /\ b * c \in Nat
OBVIOUS

LEMMA AddBounds ==
  ASSUME NEW a \in Nat, NEW b \in Nat, NEW c \in Nat, NEW d \in Nat, a <= b, c <= d
  PROVE  a + c <= b + d
OBVIOUS

LEMMA NextCountInv == StateTypes /\ CountInv /\ [Next]_vars => CountInv'
<1> SUFFICES ASSUME StateTypes, CountInv, [Next]_vars PROVE CountInv'
  OBVIOUS
<1> USE ConstantsAssumption
        DEF StateTypes, FlagTypes, ControlTypes, ProducerPlaces, CountInv, InStatement, iterVars,
            ToProducer, SignalTo, NotifyTo, NotifyMain, NotifyParser, RingPush,
            Running, FromTo, KeepsParser, Answer
<1>1. ASSUME BeginStatement PROVE CountInv'
  <2>1. statements * MaxTriplesPerStatement \in Nat
    BY <1>1, OneMoreStatement DEF BeginStatement
  <2>2. /\ producer = "boundary" /\ producer' = "insert"
        /\ todo' <= MaxTriplesPerStatement /\ todo' \in Nat
        /\ inserted' = inserted /\ statements' = statements
    BY <1>1 DEF BeginStatement
  <2>3. inserted' + todo' <= statements * MaxTriplesPerStatement + MaxTriplesPerStatement
    <3>1. inserted <= statements * MaxTriplesPerStatement /\ inserted \in Nat
      BY <2>2
    <3> QED
      BY <2>1, <2>2, <3>1, AddBounds
  <2> QED
    BY <2>2, <2>3
<1>2. ASSUME InsertTriple PROVE CountInv'
  BY <1>2 DEF InsertTriple
<1>3. ASSUME InsertSignal PROVE CountInv'
  BY <1>3 DEF InsertSignal
<1>4. ASSUME Push PROVE CountInv'
  <2>1. inserted + todo <= MaxStatements * MaxTriplesPerStatement
    <3>1. /\ InStatement /\ statements < MaxStatements
          /\ statements \in Nat /\ MaxStatements \in Nat /\ MaxTriplesPerStatement \in Nat
      BY <1>4 DEF Push
    <3>2. /\ statements * MaxTriplesPerStatement + MaxTriplesPerStatement
                <= MaxStatements * MaxTriplesPerStatement
          /\ statements * MaxTriplesPerStatement \in Nat
          /\ MaxStatements * MaxTriplesPerStatement \in Nat
      BY <3>1, OneMoreStatement
    <3> QED
      BY <3>1, <3>2
  <2> QED
    BY <1>4, <2>1 DEF Push, AfterPush
<1>5. ASSUME InsertNotify PROVE CountInv'
  BY <1>5 DEF InsertNotify
<1>6. ASSUME StatementMatched PROVE CountInv'
  BY <1>6, OneMoreStatement DEF StatementMatched
<1>7. ASSUME SyncWithMainThread PROVE CountInv'
  BY <1>7 DEF SyncWithMainThread
<1>8. ASSUME SleepAboveUpper PROVE CountInv'
  BY <1>8 DEF SleepAboveUpper
<1>9. ASSUME ParserWakes PROVE CountInv'
  BY <1>9 DEF ParserWakes, WakeTest
<1>10. ASSUME EndOfDocument PROVE CountInv'
  BY <1>10 DEF EndOfDocument
<1>11. ASSUME SyntaxError PROVE CountInv'
  BY <1>11 DEF SyntaxError
<1>12. ASSUME UndefinedPrefix PROVE CountInv'
  BY <1>12 DEF UndefinedPrefix
<1>13. ASSUME SetParsingIsDone PROVE CountInv'
  BY <1>13 DEF SetParsingIsDone
<1>14. ASSUME DoneSignal PROVE CountInv'
  BY <1>14 DEF DoneSignal
<1>15. ASSUME DoneNotify PROVE CountInv'
  BY <1>15 DEF DoneNotify
<1>16. ASSUME SetDone PROVE CountInv'
  BY <1>16 DEF SetDone
<1>17. ASSUME MatchEof PROVE CountInv'
  BY <1>17 DEF MatchEof
<1>18. ASSUME Constructor PROVE CountInv'
  BY <1>18 DEF Constructor
<1>19. ASSUME HasNextQueueTest PROVE CountInv'
  BY <1>19 DEF HasNextQueueTest
<1>20. ASSUME HasNextDoneTest PROVE CountInv'
  BY <1>20 DEF HasNextDoneTest
<1>21. ASSUME HasNextWait PROVE CountInv'
  BY <1>21 DEF HasNextWait
<1>22. ASSUME MainWakes PROVE CountInv'
  BY <1>22 DEF MainWakes
<1>23. ASSUME HasNextQueueRetest PROVE CountInv'
  BY <1>23 DEF HasNextQueueRetest
<1>24. ASSUME HasNextDoneRetest PROVE CountInv'
  BY <1>24 DEF HasNextDoneRetest
<1>25. ASSUME NextTriple PROVE CountInv'
  BY <1>25 DEF NextTriple
<1>26. ASSUME NextTripleBelowTest PROVE CountInv'
  BY <1>26 DEF NextTripleBelowTest
<1>27. ASSUME NextTripleSignal PROVE CountInv'
  BY <1>27 DEF NextTripleSignal
<1>28. ASSUME NextTripleNotify PROVE CountInv'
  BY <1>28 DEF NextTripleNotify
<1>29. ASSUME LoopBody PROVE CountInv'
  BY <1>29 DEF LoopBody, Visit, Leave
<1>30. ASSUME Destructor PROVE CountInv'
  BY <1>30 DEF Destructor
<1>31. ASSUME Join PROVE CountInv'
  BY <1>31 DEF Join
<1>32. ASSUME ParserSpuriousWake PROVE CountInv'
  BY <1>32 DEF ParserSpuriousWake
<1>33. ASSUME MainSpuriousWake PROVE CountInv'
  BY <1>33 DEF MainSpuriousWake
<1>34. ASSUME Stopped \/ UNCHANGED vars PROVE CountInv'
  BY <1>34 DEF Stopped, vars, parserVars
<1>35. ASSUME LoopAgain PROVE CountInv'
  BY <1>35 DEF LoopAgain, BeginAgain
<1> QED
  BY <1>1, <1>2, <1>3, <1>4, <1>5, <1>6, <1>7, <1>8, <1>9, <1>10, <1>11, <1>12, <1>13, <1>14,
     <1>15, <1>16, <1>17, <1>18, <1>19, <1>20, <1>21, <1>22, <1>23, <1>24, <1>25, <1>26, <1>27,
     <1>28, <1>29, <1>30, <1>31, <1>32, <1>33, <1>34, <1>35
  DEF Next, ParsingThread, MainThread

ElementTypes ==
  /\ queue \in Seq(Triples)
  /\ delivered \in Seq(Triples)
  /\ current \in Triples \cup {NoTriple}
  /\ visited \in Seq(Triples \cup {NoTriple})
  /\ loops \in Seq([delivered : Nat, visited : Nat])

LEMMA AppendInSeq ==
  ASSUME NEW S, NEW s \in Seq(S), NEW e \in S
  PROVE  Append(s, e) \in Seq(S)
OBVIOUS

LEMMA NextElementTypes ==
  StateTypes /\ CountInv /\ CountInv' /\ ElementTypes /\ [Next]_vars => ElementTypes'
<1> SUFFICES ASSUME StateTypes, CountInv, CountInv', ElementTypes, [Next]_vars
             PROVE  ElementTypes'
  OBVIOUS
<1> USE ConstantsAssumption
        DEF StateTypes, FlagTypes, ControlTypes, ElementTypes, InStatement, iterVars, ToProducer,
            SignalTo, NotifyTo, NotifyMain, NotifyParser, Running, FromTo, KeepsParser, Answer,
            HasNextReturns, NextTripleReturns, HasNextThrows
<1>1. ASSUME BeginStatement PROVE ElementTypes'
  BY <1>1 DEF BeginStatement
<1>2. ASSUME InsertTriple PROVE ElementTypes'
  BY <1>2 DEF InsertTriple
<1>3. ASSUME InsertSignal PROVE ElementTypes'
  BY <1>3 DEF InsertSignal
<1>4. ASSUME Push PROVE ElementTypes'
  <2>1. inserted + 1 \in Triples
    BY <1>4 DEF Push, CountInv, Triples
  <2>2. queue' \in Seq(Triples)
    <3>1. queue' = queue \/ queue' = Append(queue, inserted + 1)
      BY <1>4 DEF Push, RingPush
    <3>2. Append(queue, inserted + 1) \in Seq(Triples)
      BY <2>1, AppendInSeq
    <3> QED
      BY <3>1, <3>2
  <2> QED
    BY <1>4, <2>2 DEF Push
<1>5. ASSUME InsertNotify PROVE ElementTypes'
  BY <1>5 DEF InsertNotify
<1>6. ASSUME StatementMatched PROVE ElementTypes'
  BY <1>6 DEF StatementMatched
<1>7. ASSUME SyncWithMainThread PROVE ElementTypes'
  BY <1>7 DEF SyncWithMainThread
<1>8. ASSUME SleepAboveUpper PROVE ElementTypes'
  BY <1>8 DEF SleepAboveUpper
<1>9. ASSUME ParserWakes PROVE ElementTypes'
  BY <1>9 DEF ParserWakes, WakeTest
<1>10. ASSUME EndOfDocument PROVE ElementTypes'
  BY <1>10 DEF EndOfDocument
<1>11. ASSUME SyntaxError PROVE ElementTypes'
  BY <1>11 DEF SyntaxError
<1>12. ASSUME UndefinedPrefix PROVE ElementTypes'
  BY <1>12 DEF UndefinedPrefix
<1>13. ASSUME SetParsingIsDone PROVE ElementTypes'
  BY <1>13 DEF SetParsingIsDone
<1>14. ASSUME DoneSignal PROVE ElementTypes'
  BY <1>14 DEF DoneSignal
<1>15. ASSUME DoneNotify PROVE ElementTypes'
  BY <1>15 DEF DoneNotify
<1>16. ASSUME SetDone PROVE ElementTypes'
  BY <1>16 DEF SetDone
<1>17. ASSUME MatchEof PROVE ElementTypes'
  BY <1>17 DEF MatchEof
<1>18. ASSUME Constructor PROVE ElementTypes'
  BY <1>18 DEF Constructor
<1>19. ASSUME HasNextQueueTest PROVE ElementTypes'
  BY <1>19 DEF HasNextQueueTest
<1>20. ASSUME HasNextDoneTest PROVE ElementTypes'
  BY <1>20 DEF HasNextDoneTest
<1>21. ASSUME HasNextWait PROVE ElementTypes'
  BY <1>21 DEF HasNextWait
<1>22. ASSUME MainWakes PROVE ElementTypes'
  BY <1>22 DEF MainWakes
<1>23. ASSUME HasNextQueueRetest PROVE ElementTypes'
  BY <1>23 DEF HasNextQueueRetest
<1>24. ASSUME HasNextDoneRetest PROVE ElementTypes'
  BY <1>24 DEF HasNextDoneRetest
<1>25. ASSUME NextTriple PROVE ElementTypes'
  <2>1. CASE queue = <<>>
    BY <1>25, <2>1 DEF NextTriple
  <2>2. CASE queue # <<>>
    <3>1. Head(queue) \in Triples /\ Tail(queue) \in Seq(Triples)
      BY <2>2
    <3>2. /\ queue' = Tail(queue)
          /\ delivered' = Append(delivered, Head(queue))
          /\ current' = Head(queue) /\ visited' = visited /\ loops' = loops
      BY <1>25, <2>2 DEF NextTriple
    <3> QED
      BY <3>1, <3>2
  <2> QED
    BY <2>1, <2>2
<1>26. ASSUME NextTripleBelowTest PROVE ElementTypes'
  BY <1>26 DEF NextTripleBelowTest
<1>27. ASSUME NextTripleSignal PROVE ElementTypes'
  BY <1>27 DEF NextTripleSignal
<1>28. ASSUME NextTripleNotify PROVE ElementTypes'
  BY <1>28 DEF NextTripleNotify
<1>29. ASSUME LoopBody PROVE ElementTypes'
  <2>1. visited' = Append(visited, current)
    BY <1>29 DEF LoopBody, Visit, Leave
  <2>2. visited' \in Seq(Triples \cup {NoTriple})
    BY <2>1
  <2> QED
    BY <1>29, <2>2 DEF LoopBody, Visit, Leave
<1>30. ASSUME Destructor PROVE ElementTypes'
  BY <1>30 DEF Destructor
<1>31. ASSUME Join PROVE ElementTypes'
  BY <1>31 DEF Join
<1>32. ASSUME ParserSpuriousWake PROVE ElementTypes'
  BY <1>32 DEF ParserSpuriousWake
<1>33. ASSUME MainSpuriousWake PROVE ElementTypes'
  BY <1>33 DEF MainSpuriousWake
<1>34. ASSUME Stopped \/ UNCHANGED vars PROVE ElementTypes'
  BY <1>34 DEF Stopped, vars, parserVars
<1>35. ASSUME LoopAgain PROVE ElementTypes'
  <2>1. [delivered |-> Len(delivered), visited |-> Len(visited)]
          \in [delivered : Nat, visited : Nat]
    OBVIOUS
  <2>2. loops' \in Seq([delivered : Nat, visited : Nat])
    BY <1>35, <2>1, AppendInSeq DEF LoopAgain
  <2> QED
    BY <1>35, <2>2 DEF LoopAgain, BeginAgain
<1> QED
  BY <1>1, <1>2, <1>3, <1>4, <1>5, <1>6, <1>7, <1>8, <1>9, <1>10, <1>11, <1>12, <1>13, <1>14,
     <1>15, <1>16, <1>17, <1>18, <1>19, <1>20, <1>21, <1>22, <1>23, <1>24, <1>25, <1>26, <1>27,
     <1>28, <1>29, <1>30, <1>31, <1>32, <1>33, <1>34, <1>35
  DEF Next, ParsingThread, MainThread

(* Everything an invariant proof needs to know of the types.                *)
TypeInv == StateTypes /\ CountInv /\ ElementTypes

LEMMA TypeInvIsTypeOK == TypeInv => TypeOK
BY ConstantsAssumption
DEF TypeInv, StateTypes, FlagTypes, ControlTypes, CountInv, ElementTypes, TypeOK, Triples

LEMMA TypeInvariant == Spec => []TypeInv
<1>1. Init => TypeInv
  <2>1. Init => CountInv
    BY ConstantsAssumption, OneMoreStatement DEF Init, CountInv, InStatement
  <2>2. Init => ElementTypes
    BY DEF Init, IterInit, ElementTypes
  <2> QED
    BY <2>1, <2>2, InitStateTypes DEF TypeInv
<1>2. TypeInv /\ [Next]_vars => TypeInv'
  BY NextStateTypes, NextCountInv, NextElementTypes DEF TypeInv
<1> QED
  BY <1>1, <1>2, PTL DEF Spec

(* Every reachable state is well typed: in particular a statement inserts   *)
(* no more triples than it has, and the ring never exceeds its capacity     *)
(* (insertTriple, syncWithMainThread, nextTriple).                          *)
THEOREM TypeCorrect == Spec => []TypeOK
BY TypeInvariant, TypeInvIsTypeOK, PTL

(* What syncWithMainThread leaves the ring and the rest of a statement to   *)
(* add up to, at each place of the two threads.                             *)
THEOREM BacklogInvariant == Spec => []BacklogInv
<1>1. TypeInv /\ BacklogInv /\ [Next]_vars => BacklogInv'
  BY NextBacklogInv DEF TypeInv
<1> QED
  BY TypeInvariant, InitBacklogInv, <1>1, PTL DEF Spec

(* The backlog in the ring is at most upperThreshold and the triples of two *)
(* statements, whatever the interleaving of syncWithMainThread with         *)
(* nextTriple and its stale wake-ups.                                       *)
THEOREM BacklogIsBounded == Spec => []BacklogBounded
<1>1. TypeInv /\ BacklogInv => BacklogBounded
  BY ConstantsAssumption
  DEF TypeInv, StateTypes, ControlTypes, BacklogInv, BacklogBounded, Backlog, Overrun
<1> QED
  BY TypeInvariant, BacklogInvariant, <1>1, PTL

-----------------------------------------------------------------------------
(* Delivery, with a ring that never refuses a triple.                       *)

LEMMA NextDeliveryInv ==
  Headroom /\ StateTypes /\ BacklogInv /\ DeliveryInv /\ [Next]_vars => DeliveryInv'
<1> SUFFICES ASSUME Headroom, StateTypes, BacklogInv, DeliveryInv, [Next]_vars
             PROVE  DeliveryInv'
  OBVIOUS
<1> USE ConstantsAssumption
        DEF StateTypes, FlagTypes, ControlTypes, DeliveryInv, iterVars, ToProducer,
            SignalTo, NotifyTo, NotifyMain, NotifyParser, Running, FromTo, KeepsParser, Answer
<1>1. ASSUME BeginStatement PROVE DeliveryInv'
  BY <1>1 DEF BeginStatement
<1>2. ASSUME InsertTriple PROVE DeliveryInv'
  BY <1>2 DEF InsertTriple
<1>3. ASSUME InsertSignal PROVE DeliveryInv'
  BY <1>3 DEF InsertSignal
<1>4. ASSUME Push PROVE DeliveryInv'
  <2>1. Len(queue) < RingCapacity
    BY <1>4 DEF Push, BacklogInv, Backlog, Overrun, Headroom
  <2>2. /\ queue' = Append(queue, inserted + 1)
        /\ inserted' = inserted + 1 /\ delivered' = delivered
    BY <1>4, <2>1 DEF Push, RingPush
  <2> QED
    BY <2>2, AppendNumbered
<1>5. ASSUME InsertNotify PROVE DeliveryInv'
  BY <1>5 DEF InsertNotify
<1>6. ASSUME StatementMatched PROVE DeliveryInv'
  BY <1>6 DEF StatementMatched
<1>7. ASSUME SyncWithMainThread PROVE DeliveryInv'
  BY <1>7 DEF SyncWithMainThread
<1>8. ASSUME SleepAboveUpper PROVE DeliveryInv'
  BY <1>8 DEF SleepAboveUpper
<1>9. ASSUME ParserWakes PROVE DeliveryInv'
  BY <1>9 DEF ParserWakes, WakeTest
<1>10. ASSUME EndOfDocument PROVE DeliveryInv'
  BY <1>10 DEF EndOfDocument
<1>11. ASSUME SyntaxError PROVE DeliveryInv'
  BY <1>11 DEF SyntaxError
<1>12. ASSUME UndefinedPrefix PROVE DeliveryInv'
  BY <1>12 DEF UndefinedPrefix
<1>13. ASSUME SetParsingIsDone PROVE DeliveryInv'
  BY <1>13 DEF SetParsingIsDone
<1>14. ASSUME DoneSignal PROVE DeliveryInv'
  BY <1>14 DEF DoneSignal
<1>15. ASSUME DoneNotify PROVE DeliveryInv'
  BY <1>15 DEF DoneNotify
<1>16. ASSUME SetDone PROVE DeliveryInv'
  BY <1>16 DEF SetDone
<1>17. ASSUME MatchEof PROVE DeliveryInv'
  BY <1>17 DEF MatchEof
<1>18. ASSUME Constructor PROVE DeliveryInv'
  BY <1>18 DEF Constructor
<1>19. ASSUME HasNextQueueTest PROVE DeliveryInv'
  BY <1>19 DEF HasNextQueueTest
<1>20. ASSUME HasNextDoneTest PROVE DeliveryInv'
  BY <1>20 DEF HasNextDoneTest
<1>21. ASSUME HasNextWait PROVE DeliveryInv'
  BY <1>21 DEF HasNextWait
<1>22. ASSUME MainWakes PROVE DeliveryInv'
  BY <1>22 DEF MainWakes
<1>23. ASSUME HasNextQueueRetest PROVE DeliveryInv'
  BY <1>23 DEF HasNextQueueRetest
<1>24. ASSUME HasNextDoneRetest PROVE DeliveryInv'
  BY <1>24 DEF HasNextDoneRetest
<1>25. ASSUME NextTriple PROVE DeliveryInv'
  <2>1. CASE queue = <<>>
    BY <1>25, <2>1 DEF NextTriple
  <2>2. CASE queue # <<>>
    <3>1. /\ queue' = Tail(queue)
          /\ delivered' = Append(delivered, Head(queue))
          /\ inserted' = inserted
      BY <1>25, <2>2 DEF NextTriple
    <3>2. /\ Head(queue) = Len(delivered) + 1
          /\ Len(Tail(queue)) = Len(queue) - 1
          /\ NumberedFrom(Len(delivered) + 1, Tail(queue))
      BY <2>2, TailNumbered
    <3>3. /\ Len(delivered') = Len(delivered) + 1
          /\ NumberedFrom(0, delivered')
      BY <3>1, <3>2, AppendNumbered
    <3>4. inserted' = Len(delivered') + Len(queue')
      <4>1. Len(delivered) \in Nat /\ Len(queue) \in Nat /\ Len(queue') = Len(queue) - 1
        BY <3>1, <3>2
      <4>2. inserted' = Len(delivered) + Len(queue)
        BY <3>1
      <4>3. Len(delivered') = Len(delivered) + 1
        BY <3>3
      <4> HIDE DEF StateTypes, DeliveryInv
      <4> QED
        BY <4>1, <4>2, <4>3
    <3> QED
      BY <3>1, <3>2, <3>3, <3>4
  <2> QED
    BY <2>1, <2>2
<1>26. ASSUME NextTripleBelowTest PROVE DeliveryInv'
  BY <1>26 DEF NextTripleBelowTest
<1>27. ASSUME NextTripleSignal PROVE DeliveryInv'
  BY <1>27 DEF NextTripleSignal
<1>28. ASSUME NextTripleNotify PROVE DeliveryInv'
  BY <1>28 DEF NextTripleNotify
<1>29. ASSUME LoopBody PROVE DeliveryInv'
  BY <1>29 DEF LoopBody, Visit, Leave
<1>30. ASSUME Destructor PROVE DeliveryInv'
  BY <1>30 DEF Destructor
<1>31. ASSUME Join PROVE DeliveryInv'
  BY <1>31 DEF Join
<1>32. ASSUME ParserSpuriousWake PROVE DeliveryInv'
  BY <1>32 DEF ParserSpuriousWake
<1>33. ASSUME MainSpuriousWake PROVE DeliveryInv'
  BY <1>33 DEF MainSpuriousWake
<1>34. ASSUME Stopped \/ UNCHANGED vars PROVE DeliveryInv'
  BY <1>34 DEF Stopped, vars, parserVars
<1>35. ASSUME LoopAgain PROVE DeliveryInv'
  BY <1>35 DEF LoopAgain, BeginAgain
<1> QED
  BY <1>1, <1>2, <1>3, <1>4, <1>5, <1>6, <1>7, <1>8, <1>9, <1>10, <1>11, <1>12, <1>13, <1>14,
     <1>15, <1>16, <1>17, <1>18, <1>19, <1>20, <1>21, <1>22, <1>23, <1>24, <1>25, <1>26, <1>27,
     <1>28, <1>29, <1>30, <1>31, <1>32, <1>33, <1>34, <1>35
  DEF Next, ParsingThread, MainThread

LEMMA DeliveryInvariant == Headroom => (Spec => [](TypeInv /\ BacklogInv /\ DeliveryInv))
<1> SUFFICES ASSUME Headroom PROVE Spec => [](TypeInv /\ BacklogInv /\ DeliveryInv)
  OBVIOUS
<1>1. Init => DeliveryInv
  BY DEF Init, DeliveryInv, NumberedFrom
<1>2. TypeInv /\ BacklogInv /\ DeliveryInv /\ [Next]_vars => DeliveryInv'
  BY NextDeliveryInv DEF TypeInv
<1> QED
  BY TypeInvariant, BacklogInvariant, <1>1, <1>2, PTL DEF Spec

(* With headroom in the ring it holds the triples that follow the last one  *)
(* delivered, and no other: no call of push in insertTriple is refused.     *)
THEOREM RingIsComplete == Headroom => (Spec => []DeliveryInv)
BY DeliveryInvariant, PTL

(* Push is Send, NextTriple is Receive, and every other step leaves the     *)
(* channel alone.                                                           *)
LEMMA StepsOfChannel ==
  Headroom /\ TypeInv /\ BacklogInv /\ DeliveryInv /\ [Next]_vars
    => [Channel!Next]_(Channel!vars)
<1> SUFFICES ASSUME Headroom, TypeInv, BacklogInv, DeliveryInv, [Next]_vars
             PROVE  [Channel!Next]_(Channel!vars)
  OBVIOUS
<1> USE ConstantsAssumption
        DEF TypeInv, StateTypes, FlagTypes, ControlTypes, Channel!vars, iterVars,
            ToProducer, SignalTo, NotifyTo, Running, FromTo, KeepsParser
<1>1. ASSUME BeginStatement PROVE [Channel!Next]_(Channel!vars)
  BY <1>1 DEF BeginStatement
<1>2. ASSUME InsertTriple PROVE [Channel!Next]_(Channel!vars)
  BY <1>2 DEF InsertTriple
<1>3. ASSUME InsertSignal PROVE [Channel!Next]_(Channel!vars)
  BY <1>3 DEF InsertSignal
<1>4. ASSUME Push PROVE [Channel!Next]_(Channel!vars)
  <2>1. Len(queue) < upperThreshold + Overrun /\ Len(queue) < RingCapacity
    BY <1>4 DEF Push, BacklogInv, Backlog, Overrun, Headroom
  <2>2. inserted' = inserted + 1 /\ delivered' = delivered
    BY <1>4 DEF Push
  <2>3. inserted + 1 \in Triples
    BY <1>4, <2>2 DEF Push, CountInv, Triples
  <2>4. Len(FirstTriples(inserted)) < Len(delivered) + (upperThreshold + Overrun)
    <3>1. inserted = Len(delivered) + Len(queue)
      BY DEF DeliveryInv
    <3>2. Len(FirstTriples(inserted)) = inserted
      BY FirstTriplesGrow
    <3>3. Len(delivered) \in Nat /\ Len(queue) \in Nat /\ Overrun \in Nat
      BY DEF Overrun
    <3> QED
      BY <2>1, <3>1, <3>2, <3>3
  <2>5. FirstTriples(inserted') = Append(FirstTriples(inserted), inserted + 1)
    BY <2>2, FirstTriplesGrow
  <2> QED
    BY <2>2, <2>3, <2>4, <2>5 DEF Channel!Next, Channel!Send
<1>5. ASSUME InsertNotify PROVE [Channel!Next]_(Channel!vars)
  BY <1>5 DEF InsertNotify
<1>6. ASSUME StatementMatched PROVE [Channel!Next]_(Channel!vars)
  BY <1>6 DEF StatementMatched
<1>7. ASSUME SyncWithMainThread PROVE [Channel!Next]_(Channel!vars)
  BY <1>7 DEF SyncWithMainThread
<1>8. ASSUME SleepAboveUpper PROVE [Channel!Next]_(Channel!vars)
  BY <1>8 DEF SleepAboveUpper
<1>9. ASSUME ParserWakes PROVE [Channel!Next]_(Channel!vars)
  BY <1>9 DEF ParserWakes, WakeTest
<1>10. ASSUME EndOfDocument PROVE [Channel!Next]_(Channel!vars)
  BY <1>10 DEF EndOfDocument
<1>11. ASSUME SyntaxError PROVE [Channel!Next]_(Channel!vars)
  BY <1>11 DEF SyntaxError
<1>12. ASSUME UndefinedPrefix PROVE [Channel!Next]_(Channel!vars)
  BY <1>12 DEF UndefinedPrefix
<1>13. ASSUME SetParsingIsDone PROVE [Channel!Next]_(Channel!vars)
  BY <1>13 DEF SetParsingIsDone
<1>14. ASSUME DoneSignal PROVE [Channel!Next]_(Channel!vars)
  BY <1>14 DEF DoneSignal
<1>15. ASSUME DoneNotify PROVE [Channel!Next]_(Channel!vars)
  BY <1>15 DEF DoneNotify
<1>16. ASSUME SetDone PROVE [Channel!Next]_(Channel!vars)
  BY <1>16 DEF SetDone
<1>17. ASSUME MatchEof PROVE [Channel!Next]_(Channel!vars)
  BY <1>17 DEF MatchEof
<1>18. ASSUME Constructor PROVE [Channel!Next]_(Channel!vars)
  BY <1>18 DEF Constructor
<1>19. ASSUME HasNextQueueTest PROVE [Channel!Next]_(Channel!vars)
  BY <1>19 DEF HasNextQueueTest
<1>20. ASSUME HasNextDoneTest PROVE [Channel!Next]_(Channel!vars)
  BY <1>20 DEF HasNextDoneTest
<1>21. ASSUME HasNextWait PROVE [Channel!Next]_(Channel!vars)
  BY <1>21 DEF HasNextWait
<1>22. ASSUME MainWakes PROVE [Channel!Next]_(Channel!vars)
  BY <1>22 DEF MainWakes
<1>23. ASSUME HasNextQueueRetest PROVE [Channel!Next]_(Channel!vars)
  BY <1>23 DEF HasNextQueueRetest
<1>24. ASSUME HasNextDoneRetest PROVE [Channel!Next]_(Channel!vars)
  BY <1>24 DEF HasNextDoneRetest
<1>25. ASSUME NextTriple PROVE [Channel!Next]_(Channel!vars)
  <2>1. CASE queue = <<>>
    BY <1>25, <2>1 DEF NextTriple
  <2>2. CASE queue # <<>>
    <3>1. /\ delivered' = Append(delivered, Head(queue))
          /\ inserted' = inserted
      BY <1>25, <2>2 DEF NextTriple
    <3>2. Head(queue) = Len(delivered) + 1
      BY <2>2, TailNumbered DEF DeliveryInv
    <3>3. Len(delivered) < inserted /\ Len(delivered) \in Nat
      BY <2>2 DEF DeliveryInv
    <3>4. /\ Len(delivered) < Len(FirstTriples(inserted))
          /\ FirstTriples(inserted)[Len(delivered) + 1] = Len(delivered) + 1
      <4>1. /\ Len(FirstTriples(inserted)) = inserted
            /\ \A i \in 1 .. inserted : FirstTriples(inserted)[i] = i
        BY FirstTriplesGrow
      <4>2. Len(delivered) + 1 \in 1 .. inserted
        BY <3>3
      <4> QED
        BY <3>3, <4>1, <4>2
    <3> QED
      BY <3>1, <3>2, <3>4 DEF Channel!Next, Channel!Receive
  <2> QED
    BY <2>1, <2>2
<1>26. ASSUME NextTripleBelowTest PROVE [Channel!Next]_(Channel!vars)
  BY <1>26 DEF NextTripleBelowTest
<1>27. ASSUME NextTripleSignal PROVE [Channel!Next]_(Channel!vars)
  BY <1>27 DEF NextTripleSignal
<1>28. ASSUME NextTripleNotify PROVE [Channel!Next]_(Channel!vars)
  BY <1>28 DEF NextTripleNotify
<1>29. ASSUME LoopBody PROVE [Channel!Next]_(Channel!vars)
  BY <1>29 DEF LoopBody, Visit, Leave
<1>30. ASSUME Destructor PROVE [Channel!Next]_(Channel!vars)
  BY <1>30 DEF Destructor
<1>31. ASSUME Join PROVE [Channel!Next]_(Channel!vars)
  BY <1>31 DEF Join
<1>32. ASSUME ParserSpuriousWake PROVE [Channel!Next]_(Channel!vars)
  BY <1>32 DEF ParserSpuriousWake
<1>33. ASSUME MainSpuriousWake PROVE [Channel!Next]_(Channel!vars)
  BY <1>33 DEF MainSpuriousWake
<1>34. ASSUME Stopped \/ UNCHANGED vars PROVE [Channel!Next]_(Channel!vars)
  BY <1>34 DEF Stopped, vars, parserVars
<1>35. ASSUME LoopAgain PROVE [Channel!Next]_(Channel!vars)
  BY <1>35 DEF LoopAgain, BeginAgain
<1> QED
  BY <1>1, <1>2, <1>3, <1>4, <1>5, <1>6, <1>7, <1>8, <1>9, <1>10, <1>11, <1>12, <1>13, <1>14,
     <1>15, <1>16, <1>17, <1>18, <1>19, <1>20, <1>21, <1>22, <1>23, <1>24, <1>25, <1>26, <1>27,
     <1>28, <1>29, <1>30, <1>31, <1>32, <1>33, <1>34, <1>35
  DEF Next, ParsingThread, MainThread

(* With headroom in the ring the concurrent parser implements TripleChannel:*)
(* all triples that reach insertTriple come out of nextTriple, once each, in*)
(* their order, with a bounded number in transit.                           *)
THEOREM ParserImplementsChannel == Headroom => (Spec => ImplementsChannel)
<1> SUFFICES ASSUME Headroom PROVE Spec => ImplementsChannel
  OBVIOUS
<1>1. Init => Channel!Init
  BY DEF Init, Channel!Init, FirstTriples
<1>2. TypeInv /\ BacklogInv /\ DeliveryInv /\ [Next]_vars => [Channel!Next]_(Channel!vars)
  BY StepsOfChannel
<1> QED
  BY DeliveryInvariant, <1>1, <1>2, PTL DEF Spec, ImplementsChannel, Channel!Spec

-----------------------------------------------------------------------------
(* The condition variables.                                                 *)

LEMMA NextWakeups ==
  StateTypes /\ MainWakeupPending /\ ParserWakeupPending /\ [Next]_vars
    => MainWakeupPending' /\ ParserWakeupPending'
<1> SUFFICES ASSUME StateTypes, MainWakeupPending, ParserWakeupPending, [Next]_vars
             PROVE  MainWakeupPending' /\ ParserWakeupPending'
  OBVIOUS
<1> USE DEF StateTypes, FlagTypes, ControlTypes, MainWakeupPending, ParserWakeupPending, iterVars,
            ToProducer, SignalTo, NotifyTo, NotifyMain, NotifyParser, Running, FromTo, KeepsParser,
            Answer, M2Free
<1>1. ASSUME BeginStatement PROVE MainWakeupPending' /\ ParserWakeupPending'
  BY <1>1 DEF BeginStatement
<1>2. ASSUME InsertTriple PROVE MainWakeupPending' /\ ParserWakeupPending'
  BY <1>2 DEF InsertTriple
<1>3. ASSUME InsertSignal PROVE MainWakeupPending' /\ ParserWakeupPending'
  BY <1>3 DEF InsertSignal
<1>4. ASSUME Push PROVE MainWakeupPending' /\ ParserWakeupPending'
  BY <1>4 DEF Push, AfterPush
<1>5. ASSUME InsertNotify PROVE MainWakeupPending' /\ ParserWakeupPending'
  BY <1>5 DEF InsertNotify
<1>6. ASSUME StatementMatched PROVE MainWakeupPending' /\ ParserWakeupPending'
  BY <1>6 DEF StatementMatched
<1>7. ASSUME SyncWithMainThread PROVE MainWakeupPending' /\ ParserWakeupPending'
  BY <1>7 DEF SyncWithMainThread
<1>8. ASSUME SleepAboveUpper PROVE MainWakeupPending' /\ ParserWakeupPending'
  BY <1>8 DEF SleepAboveUpper
<1>9. ASSUME ParserWakes PROVE MainWakeupPending' /\ ParserWakeupPending'
  BY <1>9 DEF ParserWakes, WakeTest
<1>10. ASSUME EndOfDocument PROVE MainWakeupPending' /\ ParserWakeupPending'
  BY <1>10 DEF EndOfDocument
<1>11. ASSUME SyntaxError PROVE MainWakeupPending' /\ ParserWakeupPending'
  BY <1>11 DEF SyntaxError
<1>12. ASSUME UndefinedPrefix PROVE MainWakeupPending' /\ ParserWakeupPending'
  BY <1>12 DEF UndefinedPrefix
<1>13. ASSUME SetParsingIsDone PROVE MainWakeupPending' /\ ParserWakeupPending'
  BY <1>13 DEF SetParsingIsDone
<1>14. ASSUME DoneSignal PROVE MainWakeupPending' /\ ParserWakeupPending'
  BY <1>14 DEF DoneSignal
<1>15. ASSUME DoneNotify PROVE MainWakeupPending' /\ ParserWakeupPending'
  BY <1>15 DEF DoneNotify
<1>16. ASSUME SetDone PROVE MainWakeupPending' /\ ParserWakeupPending'
  BY <1>16 DEF SetDone
<1>17. ASSUME MatchEof PROVE MainWakeupPending' /\ ParserWakeupPending'
  BY <1>17 DEF MatchEof
<1>18. ASSUME Constructor PROVE MainWakeupPending' /\ ParserWakeupPending'
  BY <1>18 DEF Constructor
<1>19. ASSUME HasNextQueueTest PROVE MainWakeupPending' /\ ParserWakeupPending'
  BY <1>19 DEF HasNextQueueTest
<1>20. ASSUME HasNextDoneTest PROVE MainWakeupPending' /\ ParserWakeupPending'
  BY <1>20 DEF HasNextDoneTest
<1>21. ASSUME HasNextWait PROVE MainWakeupPending' /\ ParserWakeupPending'
  BY <1>21 DEF HasNextWait
<1>22. ASSUME MainWakes PROVE MainWakeupPending' /\ ParserWakeupPending'
  BY <1>22 DEF MainWakes
<1>23. ASSUME HasNextQueueRetest PROVE MainWakeupPending' /\ ParserWakeupPending'
  BY <1>23 DEF HasNextQueueRetest
<1>24. ASSUME HasNextDoneRetest PROVE MainWakeupPending' /\ ParserWakeupPending'
  BY <1>24 DEF HasNextDoneRetest
<1>25. ASSUME NextTriple PROVE MainWakeupPending' /\ ParserWakeupPending'
  BY <1>25 DEF NextTriple
<1>26. ASSUME NextTripleBelowTest PROVE MainWakeupPending' /\ ParserWakeupPending'
  BY <1>26 DEF NextTripleBelowTest
<1>27. ASSUME NextTripleSignal PROVE MainWakeupPending' /\ ParserWakeupPending'
  BY <1>27 DEF NextTripleSignal
<1>28. ASSUME NextTripleNotify PROVE MainWakeupPending' /\ ParserWakeupPending'
  BY <1>28 DEF NextTripleNotify
<1>29. ASSUME LoopBody PROVE MainWakeupPending' /\ ParserWakeupPending'
  BY <1>29 DEF LoopBody, Visit, Leave
<1>30. ASSUME Destructor PROVE MainWakeupPending' /\ ParserWakeupPending'
  BY <1>30 DEF Destructor
<1>31. ASSUME Join PROVE MainWakeupPending' /\ ParserWakeupPending'
  BY <1>31 DEF Join
<1>32. ASSUME ParserSpuriousWake PROVE MainWakeupPending' /\ ParserWakeupPending'
  BY <1>32 DEF ParserSpuriousWake
<1>33. ASSUME MainSpuriousWake PROVE MainWakeupPending' /\ ParserWakeupPending'
  BY <1>33 DEF MainSpuriousWake
<1>34. ASSUME Stopped \/ UNCHANGED vars PROVE MainWakeupPending' /\ ParserWakeupPending'
  BY <1>34 DEF Stopped, vars, parserVars
<1>35. ASSUME LoopAgain PROVE MainWakeupPending' /\ ParserWakeupPending'
  BY <1>35 DEF LoopAgain, BeginAgain
<1> QED
  BY <1>1, <1>2, <1>3, <1>4, <1>5, <1>6, <1>7, <1>8, <1>9, <1>10, <1>11, <1>12, <1>13, <1>14,
     <1>15, <1>16, <1>17, <1>18, <1>19, <1>20, <1>21, <1>22, <1>23, <1>24, <1>25, <1>26, <1>27,
     <1>28, <1>29, <1>30, <1>31, <1>32, <1>33, <1>34, <1>35
  DEF Next, ParsingThread, MainThread

LEMMA Wakeups == Spec => [](MainWakeupPending /\ ParserWakeupPending)
<1>1. Init => MainWakeupPending /\ ParserWakeupPending
  BY DEF Init, MainWakeupPending, ParserWakeupPending
<1>2. TypeInv /\ MainWakeupPending /\ ParserWakeupPending /\ [Next]_vars
        => MainWakeupPending' /\ ParserWakeupPending'
  BY NextWakeups DEF TypeInv
<1> QED
  BY TypeInvariant, <1>1, <1>2, PTL DEF Spec

(* cv2.wait of hasNextTriple: a main thread whose condition has come true   *)
(* never sleeps without a notify_one of the parsing thread on its way.      *)
THEOREM MainWakeupNotLost == Spec => []MainWakeupPending
BY Wakeups, PTL

(* cv.wait of syncWithMainThread: the same for the parsing thread and       *)
(* nextTriple.                                                              *)
THEOREM ParserWakeupNotLost == Spec => []ParserWakeupPending
BY Wakeups, PTL
=============================================================================
