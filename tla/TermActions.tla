----------------------------- MODULE TermActions -----------------------------
(***************************************************************************)
(* BasicState.hpp with BasicActions.hpp: how the terms of a document are   *)
(* put together.  The actions of PEGTL run bottom-up, so a literal is the  *)
(* work of several of them, which pass the parts on in fields of the state.*)
(* Beside the state the module keeps what each term means.                 *)
(*                                                                         *)
(* A document is a sequence of items: terms and directives.  A string is   *)
(* abstracted to what two strings of a document can differ in: an IRI to   *)
(* the base spliced into it and the text, which is the name of a namespace *)
(* for namespace and local name; the text of a literal to the number of    *)
(* its item; a label to who chose it and a number.                         *)
(***************************************************************************)
EXTENDS Naturals, Sequences, FiniteSets

LOCAL Sequence == INSTANCE SequencesExt

CONSTANTS
  Prefixes,      (* the prefixes a document uses                            *)
  Namespaces,    (* the absolute IRIs of a document                         *)
  XsdString,     (* the one of them that is xsd:string                      *)
  MaxItems,      (* bound: directives and terms of a document               *)
  Constructs,    (* what a document may use, of AllConstructs               *)
  None           (* no value                                                *)

AllConstructs == {"redefinition", "glued", "base", "bLabels", "a"}

ASSUME TermAssumption ==
  /\ XsdString \in Namespaces
  /\ MaxItems \in Nat
  /\ Constructs \subseteq AllConstructs
  /\ None \notin Namespaces \cup {"relative", "empty"}

VARIABLES
  sparqlQuery,       (* template parameter: a SPARQL triples block          *)
  at,                (* what has been matched of the current item           *)
  items,             (* items begun                                         *)
  tag,               (* the text of the current literal's tag               *)
  failed,            (* an action has thrown                                *)
  element_,
  type_tag_found,
  lang_tag_found,
  iri_is_IRIREF,
  lang_tag_,
  type_tag_,
  literal_string_,
  blank_node_string_,
  base_,
  latest_BN_label,
  prefix_map,
  meant,             (* meaning: of the last term                           *)
  meantPrefix,       (* meaning: the namespaces in force                    *)
  meantBase,         (* meaning: the base in force                          *)
  named              (* history: the blank nodes and their labels           *)

placeVars == <<at, items, tag, failed>>
partVars == <<type_tag_found, lang_tag_found, lang_tag_, type_tag_, literal_string_>>
nodeVars == <<blank_node_string_, latest_BN_label, named>>
scopeVars == <<base_, prefix_map, meantPrefix, meantBase>>

vars == <<sparqlQuery, placeVars, element_, iri_is_IRIREF, partVars, nodeVars, scopeVars, meant>>

Texts == Namespaces \cup {"relative", "empty"}

URIRef(base, text) == <<"iri", base, text>>

BNode(label) == <<"bnode", label>>

Variable(name) == <<"variable", name>>

(* A language tag excludes a type, and xsd:string is the type of a plain    *)
(* literal.                                                                 *)
Literal(text, lang, type) ==
  <<"literal", text, lang, IF lang = None /\ type # URIRef(None, XsdString) THEN type ELSE None>>

(* A label is "b" and a number, or one that only a user chooses.            *)
Generated(n) == <<"b", n>>

UserLabels == {<<"user", 1>>} \cup (IF "bLabels" \in Constructs THEN {Generated(1)} ELSE {})

Undefined == [p \in Prefixes |-> None]

(* A triples block has the prefixes given to BaseStringParser's constructor.*)
Init ==
  /\ sparqlQuery \in BOOLEAN
  /\ at = "item"
  /\ items = 0
  /\ tag = None
  /\ failed = FALSE
  /\ element_ = None
  /\ type_tag_found = FALSE
  /\ lang_tag_found = FALSE
  /\ iri_is_IRIREF = FALSE
  /\ lang_tag_ = None
  /\ type_tag_ = None
  /\ literal_string_ = None
  /\ blank_node_string_ = None
  /\ base_ = None
  /\ latest_BN_label = 1
  /\ prefix_map \in IF sparqlQuery THEN [Prefixes -> Namespaces \cup {None}] ELSE {Undefined}
  /\ meant = None
  /\ meantPrefix = [p \in Prefixes |-> IF prefix_map[p] = None THEN None
                                       ELSE URIRef(None, prefix_map[p])]
  /\ meantBase = None
  /\ named = {}

(* Nothing is matched after an exception.                                   *)
BeginItem ==
  /\ ~failed
  /\ at = "item"
  /\ items < MaxItems
  /\ items' = items + 1
  /\ tag' = None
  /\ UNCHANGED sparqlQuery

-----------------------------------------------------------------------------
(* IRIs, alone or after the "^^" of a literal.                              *)

(* base_ is spliced into every IRIREF behind its first character: an empty  *)
(* one has none.                                                            *)
OutOfRange(text) == base_ # None /\ text = "empty"

(* In Turtle an absolute IRI is left alone, and any other is resolved.      *)
MeantIri(text) == URIRef(IF text \in Namespaces THEN None ELSE meantBase, text)

(* The term is a subject, a predicate or an object, or the type of a literal.*)
AsTermOrTag(text, meaning) ==
  \/ BeginItem /\ at' = at /\ meant' = meaning
  \/ at = "string" /\ at' = "tagIri" /\ tag' = text /\ UNCHANGED <<sparqlQuery, items, meant>>

IRIREF(text) ==
  /\ AsTermOrTag(<<"iriref", text>>, MeantIri(text))
  /\ IF OutOfRange(text)
       THEN failed' = TRUE /\ UNCHANGED <<element_, iri_is_IRIREF>>
       ELSE element_' = URIRef(base_, text) /\ iri_is_IRIREF' = TRUE /\ UNCHANGED failed
  /\ UNCHANGED <<partVars, nodeVars, scopeVars>>

PrefixedName(p) ==
  /\ AsTermOrTag(<<"name", p>>, meantPrefix[p])
  /\ IF prefix_map[p] = None
       THEN failed' = TRUE /\ UNCHANGED <<element_, iri_is_IRIREF>>
       ELSE /\ element_' = URIRef(None, prefix_map[p])
            /\ iri_is_IRIREF' = FALSE
            /\ UNCHANGED failed
  /\ UNCHANGED <<partVars, nodeVars, scopeVars>>

(* The angle brackets are part of the text that URIRef puts into others.    *)
RdfType == URIRef(None, "rdf:type")

verb_a ==
  /\ "a" \in Constructs
  /\ BeginItem
  /\ element_' = URIRef(None, "<rdf:type>")
  /\ meant' = RdfType
  /\ UNCHANGED <<at, failed, iri_is_IRIREF, partVars, nodeVars, scopeVars>>

-----------------------------------------------------------------------------
(* Literals.                                                                *)

turtleString ==
  /\ BeginItem
  /\ at' = "string"
  /\ literal_string_' = items'
  /\ UNCHANGED <<failed, element_, iri_is_IRIREF, type_tag_found, lang_tag_found, lang_tag_,
                 type_tag_, nodeVars, scopeVars, meant>>

LANGTAG ==
  /\ at = "string"
  /\ at' = "tagged"
  /\ tag' = <<"lang", items>>
  /\ lang_tag_found' = TRUE
  /\ lang_tag_' = items
  /\ UNCHANGED <<sparqlQuery, items, failed, element_, iri_is_IRIREF, type_tag_found, type_tag_,
                 literal_string_, nodeVars, scopeVars, meant>>

TagText_Element == IF iri_is_IRIREF THEN element_ ELSE tag

(* The tag without "^^", and without angle brackets if the flag is up.      *)
TagText == IF iri_is_IRIREF THEN URIRef(None, tag[2]) ELSE tag

RdfLiteralTypeTag ==
  /\ at = "tagIri"
  /\ ~failed
  /\ at' = "tagged"
  /\ type_tag_found' = TRUE
  /\ type_tag_' = TagText
  /\ UNCHANGED <<sparqlQuery, items, tag, failed, element_, iri_is_IRIREF, lang_tag_found,
                 lang_tag_, literal_string_, nodeVars, scopeVars, meant>>

Expanded(name) == IF prefix_map[name[2]] = None THEN name ELSE URIRef(None, prefix_map[name[2]])

LowerFlags_NotLang == type_tag_found' = FALSE /\ UNCHANGED lang_tag_found

LowerFlags ==
  IF type_tag_found THEN type_tag_found' = FALSE /\ UNCHANGED lang_tag_found
                    ELSE lang_tag_found' = FALSE /\ UNCHANGED type_tag_found

MeantTag == CASE tag[1] = "iriref" -> MeantIri(tag[2])
              [] tag[1] = "name" -> meantPrefix[tag[2]]

RdfLiteral ==
  /\ at \in {"string", "tagged"}
  /\ at' = "item"
  /\ element_' =
       CASE type_tag_found ->
              Literal(literal_string_, None, IF iri_is_IRIREF THEN type_tag_ ELSE Expanded(type_tag_))
         [] lang_tag_found /\ ~type_tag_found -> Literal(literal_string_, lang_tag_, None)
         [] OTHER -> Literal(literal_string_, None, None)
  /\ LowerFlags
  /\ meant' = CASE tag = None -> Literal(items, None, None)
                [] tag # None /\ tag[1] = "lang" -> Literal(items, tag[2], None)
                [] OTHER -> Literal(items, None, MeantTag)
  /\ UNCHANGED <<sparqlQuery, items, tag, failed, iri_is_IRIREF, lang_tag_, type_tag_,
                 literal_string_, nodeVars, scopeVars>>

(* The action of DOUBLE, DECIMAL or INTEGER, and then of NumericLiteral.    *)
NumericLiteral(type) ==
  /\ BeginItem
  /\ type_tag_' = URIRef(None, type)
  /\ element_' = Literal(items', None, type_tag_')
  /\ meant' = Literal(items', None, URIRef(None, type))
  /\ UNCHANGED <<at, failed, iri_is_IRIREF, type_tag_found, lang_tag_found, lang_tag_,
                 literal_string_, nodeVars, scopeVars>>

BooleanLiteral ==
  /\ BeginItem
  /\ literal_string_' = items'
  /\ element_' = Literal(literal_string_', None, URIRef(None, "boolean"))
  /\ meant' = Literal(items', None, URIRef(None, "boolean"))
  /\ UNCHANGED <<at, failed, iri_is_IRIREF, type_tag_found, lang_tag_found, lang_tag_,
                 type_tag_, nodeVars, scopeVars>>

-----------------------------------------------------------------------------
(* Blank nodes and variables.                                               *)

Blank(label) == IF sparqlQuery THEN Variable(label) ELSE BNode(label)

createBlankNodeLabel_Same == latest_BN_label' = latest_BN_label

createBlankNodeLabel == latest_BN_label' = latest_BN_label + 1

ANON ==
  /\ BeginItem
  /\ at' = "blank"
  /\ createBlankNodeLabel
  /\ blank_node_string_' = Generated(latest_BN_label)
  /\ named' = named \cup {<<<<"anonymous", items'>>, blank_node_string_'>>}
  /\ meant' = Blank(blank_node_string_')
  /\ UNCHANGED <<failed, element_, iri_is_IRIREF, partVars, scopeVars>>

BLANK_NODE_LABEL(label) ==
  /\ BeginItem
  /\ at' = "blank"
  /\ literal_string_' = label
  /\ blank_node_string_' = literal_string_'
  /\ named' = named \cup {<<<<"labelled", label>>, blank_node_string_'>>}
  /\ meant' = Blank(label)
  /\ UNCHANGED <<failed, element_, iri_is_IRIREF, type_tag_found, lang_tag_found, lang_tag_,
                 type_tag_, latest_BN_label, scopeVars>>

BlankNode ==
  /\ at = "blank"
  /\ at' = "item"
  /\ element_' = Blank(blank_node_string_)
  /\ UNCHANGED <<sparqlQuery, items, tag, failed, iri_is_IRIREF, partVars, nodeVars, scopeVars,
                 meant>>

var(name) ==
  /\ sparqlQuery
  /\ BeginItem
  /\ element_' = Variable(name)
  /\ meant' = Variable(name)
  /\ UNCHANGED <<at, failed, iri_is_IRIREF, partVars, nodeVars, scopeVars>>

-----------------------------------------------------------------------------
(* Directives.  The IRIREF in one is an action of its own, with its effect  *)
(* on element_; the directive reads its text once more, word by word.       *)

(* The tokens of a directive, with "@" and a dot or without, and with a     *)
(* comment before any of them but the first.                                *)
Commented(tokens) ==
  {tokens} \cup (IF "glued" \in Constructs
                   THEN {Sequence!InsertAt(tokens, i, "comment") : i \in 2 .. Len(tokens)} ELSE {})

PrefixTokens == Commented(<<"keyword", "name", "iri", "dot">>) \cup
                Commented(<<"keyword", "name", "iri">>)

BaseTokens == Commented(<<"keyword", "iri", "dot">>) \cup Commented(<<"keyword", "iri">>)

(* Which tokens follow the one before them without white space: any, except *)
(* the one after a comment, which ends with its line.                       *)
Glued(tokens) ==
  IF "glued" \in Constructs
    THEN SUBSET {tokens[i] : i \in {j \in 2 .. Len(tokens) : tokens[j - 1] # "comment"}}
    ELSE {{}}

(* A word begins with each token that is not glued to the one before it.    *)
Words(tokens, glued) ==
  LET starts == {i \in 1 .. Len(tokens) : tokens[i] \notin glued}
      number(i) == Cardinality({j \in starts : j <= i})
      start(k) == CHOOSE i \in starts : number(i) = k
      end(k) == IF k = Cardinality(starts) THEN Len(tokens) ELSE start(k + 1) - 1
  IN  [k \in 1 .. Cardinality(starts) |-> SubSeq(tokens, start(k), end(k))]

(* erase takes the last character of a word that is missing or, in a value, *)
(* of what is left of a single dot: it throws.                              *)
Missing(words, k) == k > Len(words) \/ words[k] = <<"dot">>

(* The value is the word without its first and its last character: the IRI  *)
(* if the word is no more than that.                                        *)
ValueOf(word, text) == IF word = <<"iri">> THEN text ELSE <<word, text>>

Directive(text, words, k) ==
  /\ ~sparqlQuery
  /\ BeginItem
  /\ IF OutOfRange(text)
       THEN failed' = TRUE /\ UNCHANGED <<element_, iri_is_IRIREF>>
       ELSE /\ element_' = URIRef(base_, text)
            /\ iri_is_IRIREF' = TRUE
            /\ failed' = Missing(words, k)
  /\ meant' = None
  /\ UNCHANGED <<at, partVars, nodeVars>>

addPrefix_KeepsColon(p, value) == UNCHANGED prefix_map

(* emplace inserts a prefix that is not there yet, and does nothing else.   *)
addPrefix(p, value) ==
  prefix_map' = [prefix_map EXCEPT ![p] = IF @ = None THEN value ELSE @]

(* "@prefix" and "PREFIX".  A second word that is not the name alone is a   *)
(* prefix that no name has.                                                 *)
prefixID(p, text, words) ==
  /\ "redefinition" \in Constructs \/ prefix_map[p] = None
  /\ Directive(text, words, 3)
  /\ IF ~failed' /\ words[2] = <<"name">>
       THEN addPrefix(p, ValueOf(words[3], text))
       ELSE UNCHANGED prefix_map
  /\ meantPrefix' = [meantPrefix EXCEPT ![p] = MeantIri(text)]
  /\ UNCHANGED <<base_, meantBase>>

(* "@base" and "BASE".  An empty base_ is none.                             *)
base(text, words) ==
  /\ "base" \in Constructs
  /\ Directive(text, words, 2)
  /\ IF failed' THEN UNCHANGED base_
     ELSE base_' = IF text = "empty" /\ words[2] = <<"iri">> THEN None ELSE ValueOf(words[2], text)
  /\ meantBase' = IF text = "empty" THEN meantBase ELSE MeantIri(text)
  /\ UNCHANGED <<prefix_map, meantPrefix>>

-----------------------------------------------------------------------------
(* The document ends after an item, or the parse ends with an exception.    *)
Stopped == (failed \/ at = "item") /\ UNCHANGED vars

Matches ==
  \/ \E text \in Texts : IRIREF(text)
  \/ \E p \in Prefixes : PrefixedName(p)
  \/ verb_a
  \/ turtleString \/ LANGTAG \/ RdfLiteralTypeTag \/ RdfLiteral
  \/ \E type \in {"integer", "decimal"} : NumericLiteral(type)
  \/ BooleanLiteral
  \/ ANON \/ BlankNode
  \/ \E label \in UserLabels : BLANK_NODE_LABEL(label)
  \/ \E name \in UserLabels : var(name)
  \/ \E p \in Prefixes, text \in Texts, tokens \in PrefixTokens :
       \E glued \in Glued(tokens) : prefixID(p, text, Words(tokens, glued))
  \/ \E text \in Texts, tokens \in BaseTokens :
       \E glued \in Glued(tokens) : base(text, Words(tokens, glued))

Next == Matches \/ Stopped

Spec == Init /\ [][Next]_vars

-----------------------------------------------------------------------------
AfterTerm == at = "item" /\ ~failed /\ meant # None

(* Whatever terms and directives came before, the term that the actions     *)
(* leave in element_ is the one that the document has there, with no part   *)
(* of an earlier literal and with the namespace in force (setElement).  The *)
(* verb a and what is read under a base are left to other properties.       *)
TermsDenote == AfterTerm /\ meantBase = None /\ meant # RdfType => element_ = meant

(* Under a base, too, a literal is the one that the document has there when *)
(* its datatype, if any, is an absolute IRI: the base that the action of    *)
(* IRIREF splices into the IRI does not get into the datatype               *)
(* (RdfLiteralTypeTag, RdfLiteral).                                         *)
LiteralsDenote ==
  AfterTerm /\ meant[1] = "literal" /\ (meant[4] # None => meant[4][2] = None) => element_ = meant

(* Where no base is in force, the step that rejects the document is the     *)
(* action of a name, be it a term or the type of a literal, whose prefix no *)
(* directive before it defines (PrefixedName), and each such name rejects   *)
(* it.  In particular no directive does, as long as there is white space    *)
(* between its tokens (prefixID, base), nor any other IRI.                  *)
FailsOnMeaninglessName ==
  [][~failed /\ meantBase = None =>
       (failed' <=> \E p \in Prefixes : PrefixedName(p) /\ meantPrefix[p] = None)]_vars

(* BasicState.hpp, createBlankNodeLabel: "create a unique label for a       *)
(* BlankNode".  Two blank nodes of a document have two labels, as long as   *)
(* the document itself does not use labels of that form.                    *)
UniqueLabels == \A a, b \in named : a[2] = b[2] => a[1] = b[1]

-----------------------------------------------------------------------------
(* What a test says and the code does not do.                               *)

(* TurtleOfficialEvaluationTests.cpp, prefix_reassigned_and_used: after     *)
(* "@prefix p: <http://a.example/>." and "@prefix p: <http://b.example/>."  *)
(* p:s is <http://b.example/s>.  A name has the namespace that the last     *)
(* directive before it gives to its prefix.                                 *)
PrefixInForce == AfterTerm /\ meantBase = None /\ meant[1] = "iri" => element_ = meant
=============================================================================
