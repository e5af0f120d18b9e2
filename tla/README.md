# A TLA+ model of rdf-parser

rdf-parser is a header-only C++ library that turns Turtle documents and SPARQL
triples blocks into triples. A PEGTL grammar matches the text; actions attached
to its rules build terms and triples in a state object; a parser object hands
the triples to a loop. One of the parsers does this in two threads.

This directory holds TLA+ modules of those parts, configurations that check
them with TLC, and theorems about them that TLAPS proves.

## The system

| part | source | state | operations | what makes it correct |
|---|---|---|---|---|
| file parser | `TurtleFileParser.hpp`, `ConcurrentState.hpp`, `ScopedThread.hpp`, `Configurations.hpp` | ring, three atomic flags, two condition variables with their mutexes | `insertTriple`, `syncWithMainThread`, `setParsingIsDone` in the parsing thread; constructor, `hasNextTriple`, `nextTriple`, destructor in the main thread | every triple delivered once and in order, bounded backlog, no lost wake-up, the loop ends when and only when the document does |
| iterator | `AbstractParser.hpp` | `parser_done_`, `done_`, the parser's `current_triple` | constructor, `++`, `*`, `bool` | the loop body sees each delivered triple once |
| string parsers | `BaseStringParser.hpp`, `SequentialState.hpp`, `TurtleStringParser.hpp`, `TriplesBlockStringParser.hpp` | a queue | constructor, `hasNextTriple`, `nextTriple` | the same, sequentially; `front()` never on an empty queue |
| triple assembly | `State.hpp`, `Actions.hpp`, `Grammar.hpp:291-407` | stacks of verbs, of lists, of verb-object pairs | one method per rule with an action | the triples inserted are those the document means |
| term assembly | `BasicState.hpp`, `BasicActions.hpp`, `Term.hpp` (constructors) | current term, parts of a literal, base, prefixes, label counter | one action per token or term rule | the term left behind is the one in the document |
| tokens | `Grammar.hpp:15-287` | none | matching, with committed choice and greedy repetition | each rule matches the longest token there is |
| term parser | `ParseTerm.hpp` | none | `parse_term` | the term of the text, which its identifier denotes again |
| data types | `Term.hpp`, `Triple.hpp`, `TriplePattern.hpp`, `Variable.hpp` | an identifier and views of it | constructors, views, comparison, format | the views cut the identifier into the parts it was made of |

How they interact. The parser's constructor (or the thread it starts) runs the
grammar. Terms are built bottom-up by term assembly and picked up from
`element_` by triple assembly, which calls `insertTriple`; the parser stores
the triple in a ring or a queue. After each statement the grammar calls
`syncWithMainThread`, and after the document `setParsingIsDone`, both of which
only the file parser's state implements. The user's loop runs the iterator,
which calls `hasNextTriple` and `nextTriple`.

What is hard in it: the file parser's two threads share a lock-free ring and
flags of which some are read outside the mutex that protects their change; the
document may be wrong anywhere while the other thread is anywhere; the loop may
be left at any triple; the test of a threshold and the sleep that follows are
separate steps. A loop may be begun again behind one that was left. In the assemblies the hard part is the order of calls: a stack,
a flag or a string is left by one rule's action for another's, and a
document decides which comes next. PEGTL never comes back to a choice: the
order of alternatives, and what a repetition takes, decide what a text means.
`PROJECT.json` lists the hazards by line.

## The modules

- `TripleChannel`: the abstract specification, a bounded FIFO from
  `insertTriple` to `nextTriple`. Both kinds of parser are shown to implement it.
- `TripleIterator`: the iterator and the loop; a parser's module EXTENDS it and
  supplies what `hasNextTriple` and `nextTriple` do.
- `TurtleFileParser`: both threads. `producer` and `consumer` are their program
  counters; one action is one access to a shared object.
  The document is chosen while it is parsed: the number of triples of each
  statement, its end, and its error. `loops` remembers where each loop over the
  parser began, so that a property can speak of one loop. `MCTurtleFileParser`
  has the sets of errors.
- `StringParser`: one thread; the constructor inserts, then loops empty the queue.
- `TurtleState`: triple assembly as a pushdown machine, for a document or a
  triples block (`sparqlQuery`). `rules` holds what the
  grammar has still to match; an element that is the name of a method of `State`
  is the action that calls it. Every term read gets its own number.
  `contexts`, `denoted` and `meaning` build, beside the code's stacks, what the
  document means; brackets get the labels the code gives them, so that only
  the shape of the triples is compared.
- `TermActions`: term assembly. A document is a sequence of terms and
  directives; `at` says how much of an item has been matched; `meant` is the
  term that stands in the document. A directive is a sequence of tokens, glued
  together or with comments between them; `Words` is what the string streams of
  the directive actions make of it.
- `TokenGrammar`: the token rules as data, and `Match`, which interprets them as
  PEGTL does. This is the only module with a RECURSIVE operator; it and the
  modules that use it hold no theorem.
- `TokenLanguages`: the same tokens defined without a matcher, as sets of texts.
  These are the reference definitions, told by where the characters of a text stand
  and independent of the order of alternatives.
- `ParseTerm`: `parse_term` on every text that pieces of an alphabet make, with
  the constructors and views of `Term.hpp`. `MCParseTerm` has the alphabets.
- `TripleNumbers`: triples are told apart by their numbers; the sequence of the
  first n of them, and what it is for another one to follow on from n.
- The theorems: `TurtleFileParser_proofs` (types, backlog, delivery, wake-ups),
  `TurtleFileParser_iterator_proofs` (order, the end, the loops),
  `StringParser_proofs`, `TurtleState_proofs` (the stacks),
  `TurtleState_meaning_proofs` (the triples), `TermActions_proofs`,
  `TripleChannel_proofs`, and `TripleNumbers_proofs` with the lemmas on sequences
  that the parsers' proofs share.

Correspondence. Actions carry the names of the methods or of the lines they
stand for; variables carry the members' names (`parsedTerms` of the file parser
is `queue`). `map` in `PROJECT.json` gives the lines of each definition.

### What the file parser's model assumes

- Sequentially consistent memory: flags are `std::atomic_bool` with default
  ordering; the ring's own acquire/release protocol is taken as correct.
- A critical section that touches a single flag is one step. The mutex `m2` is
  modelled explicitly only where it is held over several shared accesses,
  at the end of `hasNextTriple` (`M2Free`).
- Condition variables may wake spuriously: both spurious wakes are actions, and
  no fairness is given to them.
- A syntax error behind the first statement ends `turtleDoc` like the end of the
  document: `setParsingIsDone` runs, and only then `must<eof>` throws. An exception
  that leaves the parsing thread is `std::terminate`: `producer = "aborted"`,
  after which no main-thread action is enabled.
- Closing the stream in the destructor while the other thread reads it may end
  the input for that thread at any place.
- The 128 MB buffer of the input is not modelled.

## The runs

Every passing run explores its whole state space.

| run | question | bounds |
|---|---|---|
| `FileParser_headroom` | delivery, backlog, wake-ups, iterator, with a ring that never fills | ring 8, thresholds 2 and 1, 4 statements of up to 2 triples, any error, 2 loops left at any triple |
| `FileParser_overflow` | what remains when the ring overflows, that `nextTriple` finds a triple, who wakes whom, and where a parsing thread may be left asleep and the destructor hang | ring 3, thresholds 2 and 1, 3 statements, any error, 2 loops left anywhere; fair |
| `StringParser` | the sequential parsers, loops left and begun again | 4 triples, 3 loops |
| `State_meaning` | the triples inserted against the meaning of the document or triples block, each inserted once, and the stacks | 7 terms, 3 brackets, one property list among the objects of a verb |
| `Terms_meaning` | the terms built against the document's | 4 items, one prefix, two namespaces, relative and empty IRIs, Turtle and triples block, base and `a` allowed |
| `ParseTerm` | tokens, terms and views of every short text | ten alphabets, up to 6 pieces each |
| `FileParser_v_dropped` | refutes that no triple is lost with the default capacity | ring 2 = threshold 2 |
| `FileParser_v_internal_error` | refutes that `InternalError` is never thrown | |
| `FileParser_v_lost_wakeup` | refutes that `hasNextTriple` answers in the end | ring 4, thresholds 1 and 1; fair |
| `FileParser_v_early_end` | refutes that the loop ends only with the document | |
| `State_v_two_lists` | refutes the meaning when a verb has two property lists | 7 terms, 2 brackets |
| `Terms_v_prefix` | refutes that a name has the namespace of the last directive | directives without spaces, redefinitions |

Why the bounds are enough. Statements of two triples overrun a threshold
between two tests of it; four statements allow a full ring, a sleep, a wake
that comes too early and another statement, so that `BacklogBounded` is reached
with equality. In `State_meaning` seven terms and three brackets nest a list in a
collection in a list and still leave room for a further verb behind each. In
`Terms_meaning` four items let a directive, a tagged literal and two terms
follow each other in any order. Two loops are enough for every way in which one
loop leaves the iterator's flags to the next, and for the destructor to meet
either. In `ParseTerm` each alphabet has
one character of each class that a group of rules tells apart, and room for its
longest alternative: six for a number such as `-1.e+1`; whole escapes and three
quotes are one piece in strings.

Fairness. `FairSpec` has weak fairness of each thread as a whole: an operating
system runs a thread that can run. A thread's next step is either determined
by its program counter or the document's choice; blocked steps (a sleeping
thread, a wait for `m2`, a join) are not enabled. Nothing obliges a sleeping
thread to wake without a notification.

### What the violation runs show

Each property of such a run is what a comment or a test says; the findings quote it.

- *Lost triples.* `insertTriple` ignores the result of `push`. With the default
  arguments the threshold equals the ring's capacity and the test is
  `read_available() > upperThreshold`: the parsing thread never sleeps, and a
  slow loop loses triples.
- *InternalError.* The flag goes up before the triple is in the ring, and before
  `parsingIsDone`. A main thread that looks in between throws.
- *Lost wake-up.* `parsingIsDone` is set between the main thread's test of it and
  its reset of the flag, and no notification follows. In the same window the
  parsing thread can fill the ring past the threshold and go to sleep: both
  threads then wait for each other with triples in the ring.
- *Early end.* The ring is tested before `parsingIsDone`; the last triples may
  come in between and are left in the ring.
- *Two lists.* In `s p o ; p1 [..] , [..]` the second list takes the pairs of `s`.
- *Prefix.* In `@prefix p: <ns>.` the dot is part of the third word, so that the
  namespace ends in `>`; and a second definition of a prefix is ignored.

The model contains further behaviour that differs from a comment or a test. It
has no run of its own; the properties are stated around it, at the place named.

- The ring exceeds `queue_capacity` by up to two statements (`BacklogBounded`).
- A parsing thread that sleeps may stay asleep with the ring below the lower
  threshold: nextTriple's signal came before it slept, and the main thread
  then sleeps or leaves the loop (the conditions of `SleeperResumes`).
- Behind a loop that was left the destructor joins a sleeping parsing thread for
  ever. `DestructorReturns` says for documents of any length that this happens
  only so: more than `queue_capacity` triples have been inserted, the thread
  sleeps, there are triples left in the ring, and `hasNextTriple` has not
  returned false.
  `DocumentIsParsed` adds the other way to leave the thread behind, a main thread
  that sleeps itself (the lost wake-up above). A constructor that rejects its
  thresholds joins in the same way.
- A document without triples still runs the loop body once
  (`EachTripleVisitedOnce`), and a loop over an exhausted string parser runs it
  once more on the last triple (`NothingSkipped` only asks for the others).
- `()` becomes a node with `rdf:first rdf:nil`, where the test
  `empty_collection` has `rdf:nil` (`Folded` in `MeaningPreserved`).
- A label `_:b1` meets a generated one (`Constructs`).
- In a triples block the nodes of brackets are `BNode`s, while `[]` and labels
  become `Variable`s; `_:x` and `?x` are the same one.
- The base goes into the middle of every IRI, absolute ones included, and `a`
  gets two pairs of angle brackets (both excepted in `TermsDenote`).
- `truex:y` is read as `true` (`BeginsWithBoolean`).
- A string between single quotes gets double quotes without a look at its
  characters (`Respelled`); a long string keeps two of its three quotes on each
  side in its value; an empty datatype IRI counts as none (`EmptyType`).
- `parse_term` returns an empty term for a text that is none, and `term_parsable`
  then returns true, although the comments at `ParseTerm.hpp:13` and
  `ParseTerm.hpp:31` say that the first throws `std::logic_error` and that the
  second tells whether the text can be parsed. `ReadsLongestTerm` asks nothing of
  such a text. Where an action does throw, which only an undefined prefix brings
  about, the format string of the message lacks its argument: a `format_error`
  leaves `parse_term`, and `term_parsable` as well.
- Triples are inserted as soon as they are matched, before the dot of their
  statement; the alternative for an empty document is never tried, since
  `must` throws before it.

## What is proved

Every theorem holds for all values of the constants that the assumption of its
module allows: `ConstantsAssumption`, `StringParserAssumption`, `TermAssumption`
and `BoundsAssumption`, all of which TLC evaluates in the runs. They type the
bounds; only two clauses say more, that xsd:string is a namespace and that
`None` is no text, as is true of a `std::optional` or a map's `end()`. What a theorem
supposes beyond them is a named hypothesis, given below.

### The file parser

`TurtleFileParser_proofs`:

- `TypeCorrect`: `Spec => []TypeOK`. The invariant is `TypeInv`, split so that
  each backend sees what it can decide: Boolean flags, program counters,
  counters and sequences. Bounding `inserted` needs `CountInv`, which ties the
  triples inserted and still to be inserted to the statements matched.
- `BacklogInvariant`, `BacklogIsBounded`: `Spec => []BacklogBounded`. The bound
  alone is not inductive. `BacklogInv` strengthens it with where the two threads
  are: a main thread about to signal has seen the ring below the lower threshold
  and missed one statement at most, and a parsing thread that starts a statement
  does so below the upper threshold plus one statement.
- `RingIsComplete`, `ParserImplementsChannel`: `Headroom => (Spec => []DeliveryInv)`
  and `Headroom => (Spec => ImplementsChannel)`, where `Headroom` says that the
  ring has room for two statements above `queue_capacity`; without it
  `FileParser_v_dropped` refutes both. `DeliveryInv` says that the ring holds exactly
  the triples after the last one delivered; every step is a step of
  `TripleChannel` or a stutter.
- `MainWakeupNotLost`, `ParserWakeupNotLost`: a thread that is asleep although its
  condition holds has a notification coming; each is inductive beside the types.

`TurtleFileParser_iterator_proofs`, for a ring of any size, so with triples lost
as well, and any number of loops left at any triple:

- `DeliveryIsInOrder`: `Spec => []DeliveredInOrder`. `OrderInv` says it of what was
  delivered and what the ring holds, taken together as one sequence below `inserted`.
- `EndIsFinal`: `Spec => NothingInsertedAfterEnd`, an action property. `EndInv`
  follows the main thread from its test of `parsingIsDone` to the answer, and the
  parsing thread from the last insertion to the flag.
- `NextTripleFindsOne`: `Spec => []NextHasTriple`. `CallInv` carries the non-empty ring
  from the test in `hasNextTriple` to the `pop` of `nextTriple`, over every step
  in between; only the main thread takes triples out.
- `VisitedOnce`: `Spec => []EachTripleVisitedOnce`. `AheadInv` says where
  `current_triple` runs ahead of the loop body and what the flags of the iterator
  then are; `SeenInv` describes the triples seen by the current loop
  in terms of where it began. The case of a loop begun again behind one left
  early is what needs both.

### The string parsers

`StringParser_proofs`: `NextTripleFindsOne`, `EveryTripleIsVisited` and
`ParserImplementsChannel`, for texts of any number of triples and any number of
loops. `QueueInv` is the content of the queue, `AnswerInv` what an answer of
`hasNextTriple` promises, `SeenInv` which triples the loops have seen between them.

### Triple assembly

For documents and triples blocks of any size, with brackets nested to any depth.
`TurtleState_proofs`, for any number of property lists under a verb:

- `EveryPopHasItsPush`: `Spec => []NoPopOfEmptyStack`.
- `StatementsLeaveNothing`: `Spec => []NothingLeftBehind`.

`TurtleState_meaning_proofs`:

- `NoTripleTwice`: `Spec => []EachTripleOnce`, also for any number of lists.
- `TriplesAreTheMeaning`: `OneListPerVerb => (Spec => []MeaningPreserved)`.

The hypothesis `OneListPerVerb` says that a verb has no more than one property list
among its objects, those inside collections included. It cannot be dropped:
`State_v_two_lists` refutes `MeaningPreserved` with two.

The pushes and pops of one stack are in the actions of different rules, so that
no invariant on the stacks alone is inductive. What they hold is read off
`rules`, what is still to be matched. A *shape* has a frame for the statement and one
for each open bracket, with its kind (before its verb, among the objects of a verb,
behind them, ...) and the number of verbs read up to it. `Move` says from which
shape to which the matching of a rule leads, and `Runs` that the rules of a sequence
do one after the other; an alternative of a rule runs between the same shapes
as the rule. `Ahead(s)` says that `rules` runs from the shape `s` to the empty one.
Every invariant below speaks of such an `s`; a step of the grammar keeps it
and an action makes the move of its rule (`ShapeStep`).

- `StackInv`, with `Fits`: the depths of the stacks are those of the shape. They
  are exact for `verb_stack` and `bnpl_collection_list_stack`. Whether `processVerb`
  pushes on `verb_object_pair_list_stack` depends on a test that goes wrong with
  two lists under a verb; its depth is bounded from above by the number of
  verbs, which is enough, since `appendToPredicateObjectList` looks before it
  pops. `VerbInv` says that the test finds a verb whose pairs are not put aside yet.
- `OnceInv`, beside `KnownInv` (whatever State holds has been read or made): there
  is a function that gives each object one place, in a list, in a list of pairs,
  or in a triple. Objects move from place to place and are nowhere twice, hence in no two
  triples; the triples of a collection describe nodes made for it. Which
  subject a pair ends up with does not matter here, so that nothing is supposed
  of the lists under a verb.
- `CountInv`, with `OpeningInv`: under the hypothesis the test in `processVerb` is
  right, so that the depth of `verb_object_pair_list_stack` is exact too. It
  relates `verb_stack_one_step_pre_size` to that depth at each kind of frame.
- `LinkInv`: frame by frame, the context that the document has there agrees with the
  code's stacks at the depth of that frame: the pairs with a list of pairs and the
  objects not yet paired, the items with a list, the verb with an
  entry of `verb_stack`, `denoted` with `element_`. The code has one list of pairs
  for each verb and one list of objects for each bracket; the frame's depth and
  number tell which belongs to it.
- `FoldInv`: the triples inserted, with rdf:nil for the nodes of empty collections, are
  `meaning`. It holds inside statements as well. A node once used is
  never used again, so that what it stands for does not change (`Agree`).

TLC checked these invariants on small documents before they were proved.

### Term assembly

`TermActions_proofs`, for documents with any number of terms and directives and
any prefixes and namespaces:

- `TermsAreTheDocuments`, `LiteralsAreTheDocuments`, `RejectsOnlyMeaninglessNames`:
  `TermsDenote` and `LiteralsDenote` as invariants, and the action property
  `FailsOnMeaninglessName`: where no base is in force, the step that rejects the
  document is the action of a name whose prefix has no namespace, and every such
  name is rejected. It is stated of the step and of the base before it, so that a
  directive that throws violates it; with directives whose tokens are not apart
  TLC finds one that does. All three follow from `TermInv`. It says in which scope of prefixes and base the document stands (`ScopeInv`),
  which parts of the current literal lie in which field and what the
  flags say of them at each place of a literal (`PartsInv`), and that
  `blank_node_string_` is the blank node just matched (`NodeInv`). `RejectingStep`
  goes through the actions and reads off `ScopeInv` which of them can throw.
  `TermInv` claims nothing of a document that has already been rejected. The hypotheses are
  `PlainDirectives` (white space between the tokens of a directive, no prefix defined
  twice: `Terms_v_prefix` refutes more) and `NoneIsNew` (`None` is no tuple; so
  it is in TLC, where `None` is a model value).
- `BlankNodesKeepApart`: `OnlyUserLabels` implies `Spec => []UniqueLabels`, where
  `OnlyUserLabels` says that the document has no label of the generated form: with
  one the labels do meet. Nothing is supposed of the directives. `LabelInv` says that
  a generated label has a number below `latest_BN_label`, and is of one node.

### The abstract channel

`TripleChannel_proofs`: `DeliveredIsPrefix`, what any implementation of the
channel promises.

### Only model-checked

- The liveness properties `SleeperResumes`, `MainIsWoken`, `DocumentIsParsed` and
  `DestructorReturns`: TLAPS 1.4.5 has no reasoning about fairness or ENABLED.
- The four properties of `ParseTerm`, whose matcher is recursive over the rules:
  induction over data is out of the prover's reach.

## Not modelled

Hashing, formatting and comparison of terms and the accessors of triples, which
change no state; `isParsable` and `calculateParsingTime`; the inside of the ring
and weak memory; the input buffer; characters beyond one representative of each
range; a loop begun again after `InternalError`, which would skip the triple
that was fetched; build and packaging.

## Plan

1. Done: channel, iterator, file parser with several loops, string parser, triple
   assembly, term assembly, tokens and `parse_term`; proofs of the safety
   properties of all of them but those of `ParseTerm`.
2. A composition of `TurtleState` with the file parser's statements: how many
   triples a statement inserts, and where it inserts them.
