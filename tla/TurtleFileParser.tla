-------------------------- MODULE TurtleFileParser --------------------------
(***************************************************************************)
(* TurtleFileParser: a parsing thread reads a Turtle file and pushes its   *)
(* triples into a bounded lock-free ring; the main thread iterates over    *)
(* the ring.  Two condition variables put the threads to sleep: cv the     *)
(* parsing thread when the ring holds more than upperThreshold triples,    *)
(* cv2 the main thread when the ring is empty.                             *)
(*                                                                         *)
(* Steps.  One action is one access to a shared object: the ring, an       *)
(* atomic flag, a condition variable.  A critical section of m, and one    *)
(* of m2 other than the end of hasNextTriple, accesses a single flag and   *)
(* is one step; hasNextTriple keeps m2 until it returns (M2Free).          *)
(* A sleeping thread may wake without a notification.                      *)
(*                                                                         *)
(* Data.  Triples are numbered in the order in which the grammar actions   *)
(* insert them.  The document is chosen while it is parsed: how many       *)
(* triples a statement has (none for a directive), where the document      *)
(* ends, and where, if anywhere, it is wrong.                              *)
(***************************************************************************)
EXTENDS TripleIterator, TripleNumbers

CONSTANTS
  RingCapacity,            (* what parsedTerms can hold                     *)
  upperThreshold,          (* constructor parameter queue_capacity          *)
  lowerThreshold,          (* parameter queue_capacity_lower_threshold      *)
  MaxStatements,           (* bound: statements of a document               *)
  MaxTriplesPerStatement,  (* bound: triples of a statement                 *)
  Errors,                  (* the ways a document may be wrong              *)
  MayLeave,                (* may a loop over the triples be left early     *)
  MaxLoops                 (* bound: loops over the triples of one parser   *)

ASSUME ConstantsAssumption ==
  /\ RingCapacity \in Nat \ {0}
  /\ upperThreshold \in Nat
  /\ lowerThreshold \in Nat
  /\ MaxStatements \in Nat
  /\ MaxTriplesPerStatement \in Nat
  /\ Errors \subseteq {"syntax", "undefinedPrefix"}
  /\ MayLeave \in BOOLEAN
  /\ MaxLoops \in Nat \ {0}

VARIABLES
  queue,                      (* parsedTerms                                *)
  termCountWithinThresholds,  (* what the parsing thread waits for on cv    *)
  termsCountIsNotEmpty,       (* what the main thread waits for on cv2      *)
  parsingIsDone,
  producer,                   (* where the parsing thread is                *)
  todo,                       (* triples the current statement has yet to insert *)
  statements,                 (* statements matched                         *)
  syntaxError,                (* the rest of the document does not match    *)
  consumer,                   (* where the main thread is in a parser method *)
  inserted,                   (* history: number of calls of insertTriple   *)
  delivered,                  (* history: the triples nextTriple popped     *)
  loops                       (* history: how many triples had been         *)
                              (* delivered and visited when each loop began *)

parserVars == <<queue, termCountWithinThresholds, termsCountIsNotEmpty, parsingIsDone,
                producer, todo, statements, syntaxError, consumer, inserted, delivered, loops>>

vars == <<parserVars, iterVars>>

ProducerPlaces ==
  {"boundary", "insert", "signal", "push", "pushAndNotify", "notify", "sync", "lock",
   "asleep", "awake", "done", "doneSignal", "doneNotify", "setDone", "eof",
   "finished", "aborted"}

ConsumerPlaces ==
  {"constructor", "testEmpty", "testDone", "wait", "asleep", "awake", "retestEmpty",
   "retestDone", "pop", "testBelow", "signal", "notify", "loop", "join",
   "rejected", "exited"}

Triples == 1 .. MaxStatements * MaxTriplesPerStatement

Init ==
  /\ queue = <<>>
  /\ termCountWithinThresholds = FALSE
  /\ termsCountIsNotEmpty = FALSE
  /\ parsingIsDone = FALSE
  /\ producer = "boundary"
  /\ todo = 0
  /\ statements = 0
  /\ syntaxError = FALSE
  /\ consumer = "constructor"
  /\ inserted = 0
  /\ delivered = <<>>
  /\ loops = <<[delivered |-> 0, visited |-> 0]>>
  /\ IterInit

-----------------------------------------------------------------------------
(* Shared objects.                                                          *)

(* hasNextTriple holds m2 from the end of its wait until it returns.        *)
M2Free == consumer \notin {"retestEmpty", "retestDone"}

(* cv2.notify_one and cv.notify_one: a notification that finds no sleeper   *)
(* is lost.                                                                 *)
NotifyMain == consumer' = IF consumer = "asleep" THEN "awake" ELSE consumer

NotifyParser == producer' = IF producer = "asleep" THEN "awake" ELSE producer

(* parsed_elements.push returns false on a full ring, and insertTriple does *)
(* not look at the result.                                                  *)
RingPush_Front(t) == queue' = IF Len(queue) < RingCapacity THEN <<t>> \o queue ELSE queue

RingPush_Unbounded(t) == queue' = Append(queue, t)

RingPush(t) == queue' = IF Len(queue) < RingCapacity THEN Append(queue, t) ELSE queue

AboveUpper_NotStrict == Len(queue) >= upperThreshold

AboveUpper_Never == FALSE

AboveUpper == Len(queue) > upperThreshold

BelowLower_Never == FALSE

BelowLower == Len(queue) < lowerThreshold

-----------------------------------------------------------------------------
(* The parsing thread: turtleDoc = plus<ignored, statement>.                *)

ToProducer(place) ==
  /\ producer' = place
  /\ UNCHANGED <<consumer, inserted, delivered, loops, iterVars>>

BeginStatement ==
  /\ producer = "boundary"
  /\ statements < MaxStatements
  /\ todo' \in 0 .. MaxTriplesPerStatement
  /\ ToProducer("insert")
  /\ UNCHANGED <<queue, termCountWithinThresholds, termsCountIsNotEmpty, parsingIsDone,
                 statements, syntaxError>>

(* insertTriple first looks whether the main thread may be asleep.          *)
InsertTriple ==
  /\ producer = "insert"
  /\ todo > 0
  /\ ToProducer(IF termsCountIsNotEmpty THEN "push" ELSE "signal")
  /\ UNCHANGED <<queue, termCountWithinThresholds, termsCountIsNotEmpty, parsingIsDone,
                 todo, statements, syntaxError>>

SignalTo(place) ==
  /\ M2Free
  /\ termsCountIsNotEmpty' = TRUE
  /\ ToProducer(place)
  /\ UNCHANGED <<queue, termCountWithinThresholds, parsingIsDone, todo, statements, syntaxError>>

InsertSignal == producer = "signal" /\ SignalTo("pushAndNotify")

AfterPush_NoNotify == "insert"

AfterPush == IF producer = "push" THEN "insert" ELSE "notify"

Push ==
  /\ producer \in {"push", "pushAndNotify"}
  /\ RingPush(inserted + 1)
  /\ inserted' = inserted + 1
  /\ todo' = todo - 1
  /\ producer' = AfterPush
  /\ UNCHANGED <<termCountWithinThresholds, termsCountIsNotEmpty, parsingIsDone, statements,
                 syntaxError, consumer, delivered, loops, iterVars>>

NotifyTo(place) ==
  /\ NotifyMain
  /\ producer' = place
  /\ UNCHANGED <<queue, termCountWithinThresholds, termsCountIsNotEmpty, parsingIsDone, todo,
                 statements, syntaxError, inserted, delivered, loops, iterVars>>

InsertNotify == producer = "notify" /\ NotifyTo("insert")

StatementMatched ==
  /\ producer = "insert"
  /\ todo = 0
  /\ statements' = statements + 1
  /\ ToProducer("sync")
  /\ UNCHANGED <<queue, termCountWithinThresholds, termsCountIsNotEmpty, parsingIsDone,
                 todo, syntaxError>>

(* The action of statement, syncWithMainThread.                             *)
SyncWithMainThread ==
  /\ producer = "sync"
  /\ ToProducer(IF AboveUpper THEN "lock" ELSE "boundary")
  /\ UNCHANGED <<queue, termCountWithinThresholds, termsCountIsNotEmpty, parsingIsDone,
                 todo, statements, syntaxError>>

SleepAboveUpper ==
  /\ producer = "lock"
  /\ termCountWithinThresholds' = FALSE
  /\ ToProducer("asleep")
  /\ UNCHANGED <<queue, termsCountIsNotEmpty, parsingIsDone, todo, statements, syntaxError>>

ParserSpuriousWake ==
  /\ producer = "asleep"
  /\ ToProducer("awake")
  /\ UNCHANGED <<queue, termCountWithinThresholds, termsCountIsNotEmpty, parsingIsDone,
                 todo, statements, syntaxError>>

WakeTest == IF termCountWithinThresholds THEN "boundary" ELSE "asleep"

ParserWakes ==
  /\ producer = "awake"
  /\ ToProducer(WakeTest)
  /\ UNCHANGED <<queue, termCountWithinThresholds, termsCountIsNotEmpty, parsingIsDone,
                 todo, statements, syntaxError>>

(* The document ends after a statement, or its rest does not match one.     *)
(* ~TurtleFileParser closes the stream while the parsing thread reads it:   *)
(* the thread may then run into the end of the input anywhere.  Without a   *)
(* first statement turtleDoc fails and must<> throws; after one it succeeds *)
(* with what it has matched.                                                *)
EndOfDocument ==
  /\ producer = "boundary"
  /\ statements > 0
  /\ ToProducer("done")
  /\ UNCHANGED <<queue, termCountWithinThresholds, termsCountIsNotEmpty, parsingIsDone,
                 todo, statements, syntaxError>>

SyntaxError ==
  /\ producer \in {"boundary", "insert"}
  /\ "syntax" \in Errors \/ consumer = "join"
  /\ syntaxError' = TRUE
  /\ todo' = 0
  /\ ToProducer(IF statements > 0 THEN "done" ELSE "aborted")
  /\ UNCHANGED <<queue, termCountWithinThresholds, termsCountIsNotEmpty, parsingIsDone, statements>>

(* The action of PrefixedName throws; startParsing turns the exception into *)
(* a RDFParsingException, which leaves the thread: std::terminate.          *)
UndefinedPrefix ==
  /\ producer = "insert"
  /\ "undefinedPrefix" \in Errors
  /\ ToProducer("aborted")
  /\ UNCHANGED <<queue, termCountWithinThresholds, termsCountIsNotEmpty, parsingIsDone,
                 todo, statements, syntaxError>>

(* The action of turtleDoc, setParsingIsDone.                               *)
SetParsingIsDone ==
  /\ producer = "done"
  /\ ToProducer(IF termsCountIsNotEmpty THEN "setDone" ELSE "doneSignal")
  /\ UNCHANGED <<queue, termCountWithinThresholds, termsCountIsNotEmpty, parsingIsDone,
                 todo, statements, syntaxError>>

DoneSignal == producer = "doneSignal" /\ SignalTo("doneNotify")

DoneNotify == producer = "doneNotify" /\ NotifyTo("setDone")

SetDone ==
  /\ producer = "setDone"
  /\ parsingIsDone' = TRUE
  /\ ToProducer("eof")
  /\ UNCHANGED <<queue, termCountWithinThresholds, termsCountIsNotEmpty, todo, statements, syntaxError>>

(* must<turtleDoc, eof>: only now is the end of the input looked for.       *)
MatchEof ==
  /\ producer = "eof"
  /\ ToProducer(IF syntaxError THEN "aborted" ELSE "finished")
  /\ UNCHANGED <<queue, termCountWithinThresholds, termsCountIsNotEmpty, parsingIsDone,
                 todo, statements, syntaxError>>

ParsingThread ==
  \/ BeginStatement \/ InsertTriple \/ InsertSignal \/ Push \/ InsertNotify
  \/ StatementMatched \/ SyncWithMainThread \/ SleepAboveUpper \/ ParserWakes
  \/ EndOfDocument \/ SyntaxError \/ UndefinedPrefix
  \/ SetParsingIsDone \/ DoneSignal \/ DoneNotify \/ SetDone \/ MatchEof

-----------------------------------------------------------------------------
(* The main thread.  It is gone once std::terminate has run.                *)

Running == producer # "aborted"

FromTo(place, next) == Running /\ consumer = place /\ consumer' = next

KeepsParser == UNCHANGED <<parsingIsDone, todo, statements, syntaxError, inserted, loops>>

(* The body of the constructor, with the parsing thread already running:    *)
(* the exception destroys the members, and the last of them joins.          *)
Constructor ==
  /\ FromTo("constructor", IF upperThreshold < lowerThreshold THEN "rejected" ELSE "testEmpty")
  /\ KeepsParser
  /\ UNCHANGED <<queue, termCountWithinThresholds, termsCountIsNotEmpty, producer, delivered, iterVars>>

(* hasNextTriple returns b.                                                 *)
Answer(b) ==
  /\ HasNextReturns(b)
  /\ consumer' = IF AfterHasNext(b) = "next" THEN "pop" ELSE "loop"

HasNextQueueTest ==
  /\ Running
  /\ consumer = "testEmpty"
  /\ IF queue # <<>> THEN Answer(TRUE) ELSE consumer' = "testDone" /\ UNCHANGED iterVars
  /\ KeepsParser
  /\ UNCHANGED <<queue, termCountWithinThresholds, termsCountIsNotEmpty, producer, delivered>>

HasNextDoneTest_NotTested ==
  /\ Running
  /\ consumer = "testDone"
  /\ Answer(FALSE)
  /\ KeepsParser
  /\ UNCHANGED <<queue, termCountWithinThresholds, termsCountIsNotEmpty, producer, delivered>>

HasNextDoneTest ==
  /\ Running
  /\ consumer = "testDone"
  /\ IF parsingIsDone THEN Answer(FALSE) ELSE consumer' = "wait" /\ UNCHANGED iterVars
  /\ KeepsParser
  /\ UNCHANGED <<queue, termCountWithinThresholds, termsCountIsNotEmpty, producer, delivered>>

HasNextWait ==
  /\ FromTo("wait", "asleep")
  /\ termsCountIsNotEmpty' = FALSE
  /\ KeepsParser
  /\ UNCHANGED <<queue, termCountWithinThresholds, producer, delivered, iterVars>>

MainSpuriousWake ==
  /\ FromTo("asleep", "awake")
  /\ KeepsParser
  /\ UNCHANGED <<queue, termCountWithinThresholds, termsCountIsNotEmpty, producer, delivered, iterVars>>

MainWakes ==
  /\ FromTo("awake", IF termsCountIsNotEmpty THEN "retestEmpty" ELSE "asleep")
  /\ KeepsParser
  /\ UNCHANGED <<queue, termCountWithinThresholds, termsCountIsNotEmpty, producer, delivered, iterVars>>

HasNextQueueRetest ==
  /\ Running
  /\ consumer = "retestEmpty"
  /\ IF queue # <<>> THEN Answer(TRUE) ELSE consumer' = "retestDone" /\ UNCHANGED iterVars
  /\ KeepsParser
  /\ UNCHANGED <<queue, termCountWithinThresholds, termsCountIsNotEmpty, producer, delivered>>

HasNextDoneRetest_TrustsFlag ==
  /\ Running
  /\ consumer = "retestDone"
  /\ Answer(~parsingIsDone)
  /\ KeepsParser
  /\ UNCHANGED <<queue, termCountWithinThresholds, termsCountIsNotEmpty, producer, delivered>>

(* The last else of hasNextTriple throws InternalError.                     *)
HasNextDoneRetest ==
  /\ Running
  /\ consumer = "retestDone"
  /\ IF parsingIsDone THEN Answer(FALSE) ELSE consumer' = "loop" /\ HasNextThrows
  /\ KeepsParser
  /\ UNCHANGED <<queue, termCountWithinThresholds, termsCountIsNotEmpty, producer, delivered>>

(* parsedTerms.pop leaves current_triple alone when the ring is empty.       *)
NextTriple ==
  /\ FromTo("pop", "testBelow")
  /\ IF queue = <<>>
       THEN NextTripleReturns(current) /\ UNCHANGED <<queue, delivered>>
       ELSE /\ NextTripleReturns(Head(queue))
            /\ queue' = Tail(queue)
            /\ delivered' = Append(delivered, Head(queue))
  /\ KeepsParser
  /\ UNCHANGED <<termCountWithinThresholds, termsCountIsNotEmpty, producer>>

NextTripleBelowTest ==
  /\ FromTo("testBelow", IF BelowLower THEN "signal" ELSE "testEmpty")
  /\ KeepsParser
  /\ UNCHANGED <<queue, termCountWithinThresholds, termsCountIsNotEmpty, producer, delivered, iterVars>>

NextTripleSignal_NoNotify ==
  /\ FromTo("signal", "testEmpty")
  /\ termCountWithinThresholds' = TRUE
  /\ KeepsParser
  /\ UNCHANGED <<queue, termsCountIsNotEmpty, producer, delivered, iterVars>>

NextTripleSignal ==
  /\ FromTo("signal", "notify")
  /\ termCountWithinThresholds' = TRUE
  /\ KeepsParser
  /\ UNCHANGED <<queue, termsCountIsNotEmpty, producer, delivered, iterVars>>

NextTripleNotify ==
  /\ FromTo("notify", "testEmpty")
  /\ NotifyParser
  /\ KeepsParser
  /\ UNCHANGED <<queue, termCountWithinThresholds, termsCountIsNotEmpty, delivered, iterVars>>

(* The loop over the triples.                                               *)
LoopBody ==
  /\ Running
  /\ consumer = "loop"
  /\ \/ Visit
     \/ MayLeave /\ Leave
  /\ consumer' = IF at' = "next" THEN "pop" ELSE "loop"
  /\ KeepsParser
  /\ UNCHANGED <<queue, termCountWithinThresholds, termsCountIsNotEmpty, producer, delivered>>

(* Another loop over the same parser, after one that ended or was left.     *)
LoopAgain ==
  /\ FromTo("loop", "testEmpty")
  /\ Len(loops) < MaxLoops
  /\ BeginAgain
  /\ loops' = Append(loops, [delivered |-> Len(delivered), visited |-> Len(visited)])
  /\ UNCHANGED <<queue, termCountWithinThresholds, termsCountIsNotEmpty, parsingIsDone,
                 producer, todo, statements, syntaxError, inserted, delivered>>

(* ~TurtleFileParser closes the stream, then ~ScopedThread joins the        *)
(* parsing thread.                                                          *)
Destructor ==
  /\ at \in {"end", "left", "thrown"}
  /\ FromTo("loop", "join")
  /\ KeepsParser
  /\ UNCHANGED <<queue, termCountWithinThresholds, termsCountIsNotEmpty, producer, delivered, iterVars>>

Join ==
  /\ consumer \in {"join", "rejected"}
  /\ producer = "finished"
  /\ consumer' = "exited"
  /\ KeepsParser
  /\ UNCHANGED <<queue, termCountWithinThresholds, termsCountIsNotEmpty, producer, delivered, iterVars>>

MainThread ==
  \/ Constructor
  \/ HasNextQueueTest \/ HasNextDoneTest \/ HasNextWait \/ MainWakes
  \/ HasNextQueueRetest \/ HasNextDoneRetest
  \/ NextTriple \/ NextTripleBelowTest \/ NextTripleSignal \/ NextTripleNotify
  \/ LoopBody \/ LoopAgain \/ Destructor \/ Join

(* The program may stop here, and only here.                                *)
Stopped ==
  /\ consumer = "exited" \/ producer = "aborted"
  /\ UNCHANGED vars

-----------------------------------------------------------------------------
Next == ParsingThread \/ MainThread \/ ParserSpuriousWake \/ MainSpuriousWake \/ Stopped

Spec == Init /\ [][Next]_vars

(* Each thread that can run is scheduled.                                   *)
FairSpec == Spec /\ WF_vars(ParsingThread) /\ WF_vars(MainThread)

-----------------------------------------------------------------------------
(* Safety.                                                                  *)

(* Every variable holds values of its type; the ring holds no more than its *)
(* capacity, and a statement never inserts more triples than it has.        *)
TypeOK ==
  /\ queue \in Seq(Triples) /\ Len(queue) <= RingCapacity
  /\ termCountWithinThresholds \in BOOLEAN
  /\ termsCountIsNotEmpty \in BOOLEAN
  /\ parsingIsDone \in BOOLEAN
  /\ producer \in ProducerPlaces
  /\ todo \in 0 .. MaxTriplesPerStatement
  /\ statements \in 0 .. MaxStatements
  /\ syntaxError \in BOOLEAN
  /\ consumer \in ConsumerPlaces
  /\ inserted \in 0 .. MaxStatements * MaxTriplesPerStatement
  /\ delivered \in Seq(Triples)
  /\ loops \in Seq([delivered : Nat, visited : Nat])
  /\ at \in Places
  /\ parserDone \in BOOLEAN
  /\ current \in Triples \cup {NoTriple}
  /\ visited \in Seq(Triples \cup {NoTriple})

(* How far the ring runs over upperThreshold: the test comes after a whole  *)
(* statement, and a wake-up that nextTriple decided on before the parsing   *)
(* thread went to sleep lets one more statement through.                    *)
Overrun == 2 * MaxTriplesPerStatement

(* syncWithMainThread bounds the backlog of triples whatever the two        *)
(* threads do.                                                              *)
BacklogBounded == Len(queue) <= upperThreshold + Overrun

(* Why: what is in the ring and what the current statement still adds.  A   *)
(* main thread that has decided to signal saw the ring below lowerThreshold *)
(* and can have overlooked one statement at most; a parsing thread that     *)
(* passes the test, or is woken, starts the next statement from there.      *)
Backlog == Len(queue) + todo

InStatement == producer \in {"insert", "signal", "push", "pushAndNotify", "notify"}

BetweenStatements ==
  \/ producer = "boundary"
  \/ producer \in {"asleep", "awake"} /\ termCountWithinThresholds

BacklogInv ==
  /\ Backlog <= upperThreshold + Overrun
  /\ todo > 0 => InStatement \/ producer = "aborted"
  /\ producer \in {"signal", "push", "pushAndNotify"} => todo > 0
  /\ upperThreshold < lowerThreshold => consumer \in {"constructor", "rejected", "exited"}
  /\ BetweenStatements => Len(queue) <= upperThreshold + MaxTriplesPerStatement
  /\ consumer = "signal" =>
       /\ Backlog <= upperThreshold + MaxTriplesPerStatement
       /\ BetweenStatements => Len(queue) <= upperThreshold

(* A ring of this capacity never refuses a triple.                          *)
Headroom == RingCapacity >= upperThreshold + Overrun

(* With such a ring the parser keeps the promise of TripleChannel: all the  *)
(* triples that insertTriple is given come out of nextTriple, once each and *)
(* in their order.                                                          *)
Channel == INSTANCE TripleChannel
  WITH Triple <- Triples, Bound <- upperThreshold + Overrun,
       sent <- FirstTriples(inserted), received <- delivered

ImplementsChannel == Channel!Spec

(* Why: the ring holds the triples after the last one delivered.            *)
DeliveryInv ==
  /\ inserted = Len(delivered) + Len(queue)
  /\ NumberedFrom(0, delivered)
  /\ NumberedFrom(Len(delivered), queue)

(* With any ring, one that drops triples included, nextTriple delivers no   *)
(* triple twice and none before an earlier one.                             *)
DeliveredInOrder ==
  \A i, j \in 1 .. Len(delivered) : i < j => delivered[i] < delivered[j]

(* nextTriple never finds the ring empty, though the Iterator calls it on   *)
(* an answer of hasNextTriple that is as old as the loop body               *)
(* (parsedTerms.pop would leave the previous triple in current_triple).     *)
NextHasTriple == at = "next" => queue # <<>>

(* cv2: when the main thread is asleep although what it waits for has come  *)
(* true, insertTriple or setParsingIsDone is about to notify it.            *)
MainWakeupPending ==
  consumer = "asleep" /\ termsCountIsNotEmpty
    => producer \in {"pushAndNotify", "notify", "doneNotify"}

(* cv: when the parsing thread is asleep although what it waits for has     *)
(* come true, nextTriple is about to notify it.                             *)
ParserWakeupPending ==
  producer = "asleep" /\ termCountWithinThresholds => consumer = "notify"

(* What nextTriple delivered, and the loop body saw, since the loop began.  *)
Since(n, s) == SubSeq(s, n + 1, Len(s))

DeliveredInLoop == Since(loops[Len(loops)].delivered, delivered)

VisitedInLoop == Since(loops[Len(loops)].visited, visited)

LastDelivered == IF delivered = <<>> THEN NoTriple ELSE delivered[Len(delivered)]

(* The Iterator shows the loop body each triple delivered to its loop once  *)
(* and in its order, though it runs one triple ahead, and when the loop is  *)
(* over, by its end or by a break, no delivered triple waits for a visit    *)
(* that a later loop will not make.  Only a loop that is delivered nothing  *)
(* shows its body what an earlier loop has shown, or the                    *)
(* default-constructed triple.                                              *)
EachTripleVisitedOnce ==
  IF DeliveredInLoop = <<>>
    THEN VisitedInLoop \in {<<>>, <<LastDelivered>>}
    ELSE /\ VisitedInLoop \in {DeliveredInLoop, SubSeq(DeliveredInLoop, 1, Len(DeliveredInLoop) - 1)}
         /\ at \in {"end", "left"} => VisitedInLoop = DeliveredInLoop

(* Once hasNextTriple has returned false the parsing thread inserts nothing *)
(* more.                                                                    *)
NothingInsertedAfterEnd == [][parserDone => inserted' = inserted]_vars

-----------------------------------------------------------------------------
(* Liveness, under FairSpec.                                                *)

(* nextTriple wakes a sleeping parsing thread while there are triples left  *)
(* to take, unless hasNextTriple had found the ring empty just before and   *)
(* the main thread goes to sleep as well (lowerThreshold > 0, a loop that   *)
(* takes all the triples).                                                  *)
SleeperResumes ==
  (producer = "asleep" /\ queue # <<>> /\ consumer \notin {"testDone", "wait", "asleep", "awake"})
    ~> (producer = "boundary" \/ consumer = "join")

(* hasNextTriple does not sleep through what the parsing thread inserts     *)
(* after the main thread fell asleep, nor through an end of the document    *)
(* that comes instead, unless std::terminate has run.                       *)
MainIsWoken ==
  (consumer = "asleep" /\ producer = "insert" /\ todo > 0)
    ~> (consumer # "asleep" \/ producer = "aborted")

(* The parsing thread sleeps, but for spurious wakes: only a document of    *)
(* more than upperThreshold triples brings it there (syncWithMainThread).   *)
ParserSleeps == producer \in {"asleep", "awake"} /\ inserted > upperThreshold

(* The main thread is in a join and has not taken all the triples.          *)
JoinsWithTriplesLeft == consumer \in {"join", "rejected"} /\ queue # <<>>

(* A document is parsed to its end, or std::terminate runs.  The parsing    *)
(* thread is only left asleep for good in such a document, by a main thread *)
(* that joins it with triples left or sleeps itself in hasNextTriple        *)
(* (TurtleFileParser.hpp, ConcurrentState.hpp).                             *)
DocumentIsParsed ==
  <>[](\/ producer \in {"finished", "aborted"}
       \/ ParserSleeps /\ (JoinsWithTriplesLeft \/ consumer \in {"asleep", "awake"}))

(* The destructor returns, or std::terminate runs, when the loop has ended  *)
(* with hasNextTriple false, however many triples the document has; behind  *)
(* a loop that was left or that threw, it only waits for ever for a parsing *)
(* thread that sleeps, behind the insertion of more than queue_capacity     *)
(* triples, some of them left in the ring (~ScopedThread).                  *)
DestructorReturns ==
  (consumer = "join")
    ~> \/ consumer = "exited" \/ producer = "aborted"
       \/ ParserSleeps /\ JoinsWithTriplesLeft /\ at # "end"

-----------------------------------------------------------------------------
(* What the documentation says and the code does not do: each is refuted by *)
(* a run of its own.                                                        *)

(* TurtleFileParser.hpp, queue_capacity: "maximum number of entries which   *)
(* are cached.  When the capacity is reached processing stops."  With the   *)
(* default queue_capacity, which is the capacity of the ring, it would stop *)
(* before the ring refuses a triple.                                        *)
NothingDropped == Len(delivered) + Len(queue) = inserted

(* InternalError.hpp: "Internal error. This should not happen."             *)
NoInternalError == at # "thrown"

(* AbstractParser.hpp, hasNextTriple: "check whether there is a further     *)
(* triple".  The call answers in the end ...                                *)
HasNextAnswers == (consumer = "asleep") ~> (consumer # "asleep")

(* ... and the answer is no only when all the triples have been delivered.  *)
EndIsTheEnd == at = "end" => Len(delivered) = inserted
=============================================================================
