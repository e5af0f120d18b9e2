----------------------------- MODULE TurtleState -----------------------------
(***************************************************************************)
(* State.hpp with the actions of Actions.hpp: how the triples of a document *)
(* are put together while the grammar matches it.                          *)
(*                                                                         *)
(* The grammar is a pushdown machine: rules holds what is still to be      *)
(* matched, and a rule with an action ends in the name of the State method *)
(* that the action calls.  The document is chosen while it is matched.     *)
(* Only documents that match are generated: after a failure the grammar    *)
(* never matches on, whatever has been inserted by then.                   *)
(*                                                                         *)
(* Every term that is read gets a number of its own, so that a term in the *)
(* wrong triple shows.  Beside the State, the module keeps what the document *)
(* means, in contexts: one for the statement and one for each open bracket. *)
(***************************************************************************)
EXTENDS Naturals, Sequences

CONSTANTS
  MaxTerms,          (* bound: no repetition goes on once so many are read  *)
  MaxBrackets,       (* bound: "[" and "(" of a document                    *)
  MaxListsPerVerb,   (* bound: "[" among the objects of one verb            *)
  EmptyCollections   (* may a collection be ()                              *)

ASSUME BoundsAssumption ==
  /\ MaxTerms \in Nat
  /\ MaxBrackets \in Nat
  /\ MaxListsPerVerb \in Nat
  /\ EmptyCollections \in BOOLEAN

VARIABLES
  sparqlQuery,                    (* a triples block, or else a Turtle document *)
  rules,                          (* what is still to be matched, next first *)
  terms,                          (* terms read                              *)
  brackets,                       (* brackets opened                         *)
  lists,                          (* "[" under each open verb                *)
  latest_BN_label,
  element_,
  subject_,
  verb_stack,                     (* stacks have their top at the front      *)
  verb_stack_one_step_pre_size,
  verb_stack_two_step_pre_size,
  bnpl_collection_list,
  bnpl_collection_list_stack,
  verb_object_pair_list,
  verb_object_pair_list_stack,
  first_BNPL,
  parsed,                         (* the triples given to insertTriple       *)
  denoted,                        (* the document's meaning: of element_     *)
  contexts,                       (* the document's meaning: open contexts   *)
  meaning                         (* the document's meaning: its triples     *)

docVars == <<terms, brackets, lists>>
verbVars == <<verb_stack, verb_stack_one_step_pre_size, verb_stack_two_step_pre_size>>
listVars == <<bnpl_collection_list, bnpl_collection_list_stack>>
pairVars == <<verb_object_pair_list, verb_object_pair_list_stack>>
meaningVars == <<denoted, contexts, meaning>>

vars == <<sparqlQuery, rules, docVars, latest_BN_label, element_, subject_, verbVars, listVars, pairVars,
          first_BNPL, parsed, meaningVars>>

Term(n) == <<"term", n>>
BNode(n) == <<"bnode", n>>
None == <<"none", 0>>
first == <<"rdf:first", 0>>
rest == <<"rdf:rest", 0>>
nil == <<"rdf:nil", 0>>

Pushed(x, stack) == <<x>> \o stack

-----------------------------------------------------------------------------
(* The rules of Grammar.hpp from object to turtleDoc and triplesBlock, and  *)
(* where each calls an action.  A term is a varOrTerm in a triples block,   *)
(* and a statement is one without directives there.                         *)

Repeated == {"moreStatements", "moreVerbs", "moreObjects", "items"}

Items == IF EmptyCollections THEN <<"items">> ELSE <<"object", "items">>

Alternatives ==
  [turtleDoc |->              {<<"statement", "moreStatements">>},
   triplesBlock |->           {<<"statement", "moreStatements">>},
   moreStatements |->         {<<>>, <<"statement", "moreStatements">>},
   statement |->              {<<"beginStatement", "tripleSeq1", "clearTripleParameters">>,
                               <<"beginStatement", "tripleSeq2", "clearTripleParameters">>},
   tripleSeq1 |->             {<<"subject", "predicateObjectList", "processTripleSeq">>},
   tripleSeq2 |->             {<<"blankNodePropertyList", "processTripleSeq2">>,
                               <<"blankNodePropertyList", "predicateObjectList",
                                 "processTripleSeq2">>},
   subject |->                {<<"term", "setSubject">>} \cup
                                (IF sparqlQuery THEN {} ELSE {<<"collection", "setSubject">>}),
   predicateObjectList |->    {<<"predicateObjectListInner", "moreVerbs">>},
   moreVerbs |->              {<<>>, <<"predicateObjectListInner", "moreVerbs">>},
   predicateObjectListInner |-> {<<"term", "processVerb", "objectList",
                                   "processPredicateObjectListInner">>},
   objectList |->             {<<"object", "moreObjects">>},
   moreObjects |->            {<<>>, <<"object", "moreObjects">>},
   object |->                 {<<"term", "pushCurrentTerm">>, <<"collection", "pushCurrentTerm">>,
                               <<"blankNodePropertyList", "pushCurrentTerm">>},
   collection |->             {<<"collectionBegin">> \o Items \o <<"processCollection">>},
   items |->                  {<<>>, <<"object", "items">>},
   blankNodePropertyList |->  {<<"blankNodePropertyListBegin", "predicateObjectList",
                                 "processBlankNodePropertyList">>}]

(* The bounds: no repetition once MaxTerms terms are read, no bracket beyond *)
(* MaxBrackets, no list beyond MaxListsPerVerb under one verb.              *)
MayOpen == brackets < MaxBrackets

MayOpenList == MayOpen /\ (lists # <<>> => Head(lists) < MaxListsPerVerb)

WithinBounds(rule, alternative) ==
  /\ rule \in Repeated => alternative = <<>> \/ terms < MaxTerms
  /\ alternative # <<>> /\ Head(alternative) = "collection" => MayOpen
  /\ alternative # <<>> /\ Head(alternative) = "blankNodePropertyList" => MayOpenList
  /\ "tripleSeq2" \in {alternative[i] : i \in 1 .. Len(alternative)} => MayOpen

Init ==
  /\ sparqlQuery \in BOOLEAN
  /\ rules = <<IF sparqlQuery THEN "triplesBlock" ELSE "turtleDoc">>
  /\ terms = 0
  /\ brackets = 0
  /\ lists = <<>>
  /\ latest_BN_label = 1
  /\ element_ = None
  /\ subject_ = None
  /\ verb_stack = <<>>
  /\ verb_stack_one_step_pre_size = 0
  /\ verb_stack_two_step_pre_size = 0
  /\ bnpl_collection_list = <<>>
  /\ bnpl_collection_list_stack = <<>>
  /\ verb_object_pair_list = <<>>
  /\ verb_object_pair_list_stack = <<>>
  /\ first_BNPL = None
  /\ parsed = <<>>
  /\ denoted = None
  /\ contexts = <<>>
  /\ meaning = {}

(* rule is next, and it is done.                                            *)
Matched(rule) ==
  /\ rules # <<>>
  /\ Head(rules) = rule
  /\ rules' = Tail(rules)
  /\ UNCHANGED sparqlQuery

MatchRule ==
  /\ rules # <<>>
  /\ Head(rules) \in DOMAIN Alternatives
  /\ \E alternative \in Alternatives[Head(rules)] :
       /\ WithinBounds(Head(rules), alternative)
       /\ rules' = alternative \o Tail(rules)
  /\ UNCHANGED <<sparqlQuery, docVars, latest_BN_label, element_, subject_, verbVars, listVars,
                 pairVars, first_BNPL, parsed, meaningVars>>

(* A literal, an IRI, a labelled blank node: its action stores the term.    *)
ReadTerm ==
  /\ Matched("term")
  /\ terms' = terms + 1
  /\ element_' = Term(terms + 1)
  /\ denoted' = Term(terms + 1)
  /\ UNCHANGED <<brackets, lists, latest_BN_label, subject_, verbVars, listVars, pairVars,
                 first_BNPL, parsed, contexts, meaning>>

-----------------------------------------------------------------------------
(* What the document means: a context collects the pairs of verb and object *)
(* of one subject, or the items of one collection.                          *)

Context == [subject |-> None, verb |-> None, pairs |-> {}, items |-> <<>>]

Inner == Head(contexts)

Outer == Tail(contexts)

InnerBecomes(context) == contexts' = Pushed(context, Outer)

(* An object goes to the verb it follows, an item to its collection.        *)
WithObject(o) ==
  IF Inner.verb = None
    THEN [Inner EXCEPT !.items = Append(@, o)]
    ELSE [Inner EXCEPT !.pairs = @ \cup {<<Inner.verb, o>>}]

(* The list that a statement begins with is its subject.                    *)
ClosedBy(node) ==
  IF Len(Outer) = 1 /\ Head(Outer).subject = None /\ Head(Outer).verb = None
    THEN Pushed([Head(Outer) EXCEPT !.subject = node], Tail(Outer))
    ELSE Outer

About(subject, context) == {<<subject, pair[1], pair[2]>> : pair \in context.pairs}

(* The nodes of a collection are numbered from its last item.               *)
Node(items, label, i) == IF i > Len(items) THEN nil ELSE BNode(label + Len(items) - i)

Chain(items, label) ==
  UNION {{<<Node(items, label, i), first, items[i]>>,
          <<Node(items, label, i), rest, Node(items, label, i + 1)>>} : i \in 1 .. Len(items)}

BeginStatement ==
  /\ Matched("beginStatement")
  /\ contexts' = <<Context>>
  /\ UNCHANGED <<docVars, latest_BN_label, element_, subject_, verbVars, listVars, pairVars,
                 first_BNPL, parsed, denoted, meaning>>

-----------------------------------------------------------------------------
(* The methods of State, with insertTriple a call that keeps the triple.    *)

setSubject ==
  /\ Matched("setSubject")
  /\ subject_' = element_
  /\ InnerBecomes([Inner EXCEPT !.subject = denoted])
  /\ UNCHANGED <<docVars, latest_BN_label, element_, verbVars, listVars, pairVars, first_BNPL,
                 parsed, denoted, meaning>>

(* Is this the first verb of a list under a verb?  The test compares the    *)
(* depth of verb_stack with the depth before the previous verb; when it     *)
(* holds the pairs of the enclosing subject are put aside.                  *)
OpensList_UnderAnyVerb == Len(verb_stack) > 0

OpensList == Len(verb_stack) + 1 = verb_stack_one_step_pre_size + 2

processVerb ==
  /\ Matched("processVerb")
  /\ verb_stack_two_step_pre_size' = verb_stack_one_step_pre_size
  /\ verb_stack_one_step_pre_size' = Len(verb_stack)
  /\ verb_stack' = Pushed(element_, verb_stack)
  /\ IF OpensList
       THEN /\ verb_object_pair_list_stack' =
                   Pushed(verb_object_pair_list, verb_object_pair_list_stack)
            /\ verb_object_pair_list' = <<>>
       ELSE UNCHANGED pairVars
  /\ lists' = Pushed(0, lists)
  /\ InnerBecomes([Inner EXCEPT !.verb = denoted])
  /\ UNCHANGED <<terms, brackets, latest_BN_label, element_, subject_, listVars, first_BNPL,
                 parsed, denoted, meaning>>

pushCurrentTermIntoBnpl_collection_list ==
  /\ Matched("pushCurrentTerm")
  /\ bnpl_collection_list' = Append(bnpl_collection_list, element_)
  /\ InnerBecomes(WithObject(denoted))
  /\ UNCHANGED <<docVars, latest_BN_label, element_, subject_, verbVars,
                 bnpl_collection_list_stack, pairVars, first_BNPL, parsed, denoted, meaning>>

(* The action of collectionBegin and of blankNodePropertyListBegin.         *)
moveBnpl_collection_listIntoStack ==
  /\ \/ Matched("collectionBegin") /\ UNCHANGED lists
     \/ /\ Matched("blankNodePropertyListBegin")
        /\ lists' = IF lists = <<>> THEN <<>> ELSE Pushed(Head(lists) + 1, Tail(lists))
  /\ brackets' = brackets + 1
  /\ bnpl_collection_list_stack' = Pushed(bnpl_collection_list, bnpl_collection_list_stack)
  /\ bnpl_collection_list' = <<>>
  /\ contexts' = Pushed(Context, contexts)
  /\ UNCHANGED <<terms, latest_BN_label, element_, subject_, verbVars, pairVars, first_BNPL,
                 parsed, denoted, meaning>>

RestoreList_Clears ==
  /\ bnpl_collection_list' = Head(bnpl_collection_list_stack)
  /\ bnpl_collection_list_stack' = <<>>

RestoreList ==
  /\ bnpl_collection_list' = Head(bnpl_collection_list_stack)
  /\ bnpl_collection_list_stack' = Tail(bnpl_collection_list_stack)

processPredicateObjectListInner ==
  /\ Matched("processPredicateObjectListInner")
  /\ verb_stack' = Tail(verb_stack)
  /\ verb_object_pair_list' =
       verb_object_pair_list \o [i \in 1 .. Len(bnpl_collection_list) |->
                                  <<Head(verb_stack), bnpl_collection_list[i]>>]
  /\ bnpl_collection_list' = <<>>
  /\ lists' = Tail(lists)
  /\ UNCHANGED <<terms, brackets, latest_BN_label, element_, subject_,
                 verb_stack_one_step_pre_size, verb_stack_two_step_pre_size,
                 bnpl_collection_list_stack, verb_object_pair_list_stack, first_BNPL, parsed,
                 meaningVars>>

(* The nodes of a collection in the order in which they are made.           *)
ItemNode_OneLabel(k) == BNode(latest_BN_label)

ItemNode(k) == BNode(latest_BN_label + k - 1)

(* LocalParsedTerms: one node for each item, from the last item to the      *)
(* first, and the rest of a node before its first.                          *)
CollectionTriples ==
  LET list == bnpl_collection_list
  IN  IF list = <<>>
        THEN <<<<ItemNode(1), first, nil>>>>
        ELSE [j \in 1 .. 2 * Len(list) |->
               LET k == (j + 1) \div 2
               IN  IF j % 2 = 1 THEN <<ItemNode(k), rest, IF k = 1 THEN nil ELSE ItemNode(k - 1)>>
                                ELSE <<ItemNode(k), first, list[Len(list) + 1 - k]>>]

processCollection ==
  /\ Matched("processCollection")
  /\ latest_BN_label' =
       latest_BN_label + (IF bnpl_collection_list = <<>> THEN 1 ELSE Len(bnpl_collection_list))
  /\ element_' = BNode(latest_BN_label' - 1)
  /\ parsed' = parsed \o CollectionTriples
  /\ RestoreList
  /\ denoted' = Node(Inner.items, latest_BN_label, 1)
  /\ contexts' = Outer
  /\ meaning' = meaning \cup Chain(Inner.items, latest_BN_label)
  /\ UNCHANGED <<docVars, subject_, verbVars, pairVars, first_BNPL>>

Triples(subject) ==
  [i \in 1 .. Len(verb_object_pair_list) |->
     <<subject, verb_object_pair_list[i][1], verb_object_pair_list[i][2]>>]

(* The list is the first of a statement when no pairs have been put aside.  *)
processBlankNodePropertyList ==
  /\ Matched("processBlankNodePropertyList")
  /\ latest_BN_label' = latest_BN_label + 1
  /\ element_' = BNode(latest_BN_label)
  /\ parsed' = parsed \o Triples(BNode(latest_BN_label))
  /\ IF verb_object_pair_list_stack # <<>>
       THEN /\ verb_object_pair_list' = Head(verb_object_pair_list_stack)
            /\ verb_object_pair_list_stack' = Tail(verb_object_pair_list_stack)
            /\ UNCHANGED first_BNPL
       ELSE /\ verb_object_pair_list' = <<>>
            /\ first_BNPL' = BNode(latest_BN_label)
            /\ UNCHANGED verb_object_pair_list_stack
  /\ RestoreList
  /\ denoted' = BNode(latest_BN_label)
  /\ contexts' = ClosedBy(BNode(latest_BN_label))
  /\ meaning' = meaning \cup About(BNode(latest_BN_label), Inner)
  /\ UNCHANGED <<docVars, subject_, verbVars>>

(* The actions of tripleSeq1 and, with the list as its subject, tripleSeq2. *)
processTripleSeq ==
  /\ \/ Matched("processTripleSeq") /\ UNCHANGED subject_
     \/ Matched("processTripleSeq2") /\ subject_' = first_BNPL
  /\ parsed' = parsed \o Triples(subject_')
  /\ meaning' = meaning \cup About(Inner.subject, Inner)
  /\ UNCHANGED <<docVars, latest_BN_label, element_, verbVars, listVars, pairVars, first_BNPL,
                 denoted, contexts>>

clearTripleParameters ==
  /\ Matched("clearTripleParameters")
  /\ verb_stack_two_step_pre_size' = 0
  /\ verb_stack_one_step_pre_size' = 0
  /\ bnpl_collection_list' = <<>>
  /\ verb_object_pair_list' = <<>>
  /\ contexts' = Outer
  /\ UNCHANGED <<docVars, latest_BN_label, element_, subject_, verb_stack,
                 bnpl_collection_list_stack, verb_object_pair_list_stack, first_BNPL, parsed,
                 denoted, meaning>>

(* The document has been matched.                                           *)
Done == rules = <<>> /\ UNCHANGED vars

-----------------------------------------------------------------------------
Next ==
  \/ MatchRule \/ ReadTerm \/ BeginStatement
  \/ setSubject \/ processVerb \/ pushCurrentTermIntoBnpl_collection_list
  \/ moveBnpl_collection_listIntoStack \/ processPredicateObjectListInner
  \/ processCollection \/ processBlankNodePropertyList
  \/ processTripleSeq \/ clearTripleParameters
  \/ Done

Spec == Init /\ [][Next]_vars

-----------------------------------------------------------------------------
BetweenStatements == rules = <<>> \/ Head(rules) = "moreStatements"

Parsed == {parsed[i] : i \in 1 .. Len(parsed)}

(* processCollection writes an empty collection, which means rdf:nil, as a  *)
(* node with an rdf:first and no rdf:rest.                                  *)
EmptyNodes ==
  {t[1] : t \in {u \in Parsed : u[2] = first /\ u[3] = nil
                                /\ \A v \in Parsed : v[1] = u[1] => v[2] # rest}}

(* The triples with rdf:nil for each of these nodes.                        *)
Folded ==
  LET empty == EmptyNodes
      fold(x) == IF x \in empty THEN nil ELSE x
  IN  {<<fold(t[1]), t[2], fold(t[3])>> :
         t \in {u \in Parsed : u[2] = first => u[1] \notin empty}}

(* insertTriple is never given a triple again: whichever list an object     *)
(* ends up in, it leaves it for one triple, and no two collections share a  *)
(* node (processTripleSeq, processBlankNodePropertyList, processCollection). *)
EachTripleOnce == \A i, j \in 1 .. Len(parsed) : i # j => parsed[i] # parsed[j]

(* Between statements insertTriple has been given exactly the triples that  *)
(* the document means so far (processTripleSeq, processCollection,          *)
(* processBlankNodePropertyList), up to the spelling of the empty           *)
(* collection.                                                              *)
MeaningPreserved == BetweenStatements => Folded = meaning

(* A statement leaves nothing on the stacks of State for the next one:      *)
(* clearTripleParameters does not clear them.                               *)
NothingLeftBehind ==
  BetweenStatements =>
    verb_stack = <<>> /\ bnpl_collection_list_stack = <<>> /\ verb_object_pair_list_stack = <<>>

(* No action takes the top of an empty stack, which std::stack leaves       *)
(* undefined: whatever the document, each pop has had its push.             *)
NoPopOfEmptyStack ==
  rules # <<>> =>
    /\ Head(rules) = "processPredicateObjectListInner" => verb_stack # <<>>
    /\ Head(rules) \in {"processCollection", "processBlankNodePropertyList"} =>
         bnpl_collection_list_stack # <<>>
=============================================================================
