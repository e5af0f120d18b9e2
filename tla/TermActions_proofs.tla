-------------------------- MODULE TermActions_proofs --------------------------
(***************************************************************************)
(* Theorems about TermActions, for every set of prefixes and namespaces    *)
(* and for documents of any length.                                        *)
(***************************************************************************)
EXTENDS TermActions, FiniteSetTheorems, TLAPS

-----------------------------------------------------------------------------
(* The words of a directive with white space between all its tokens are its *)
(* tokens (addPrefix and addBase split the text of the directive there).    *)
LEMMA WordsAreTokens ==
  ASSUME NEW T, NEW tokens \in Seq(T)
  PROVE  Words(tokens, {}) = [k \in 1 .. Len(tokens) |-> <<tokens[k]>>]
PROOF
  <1> DEFINE n == Len(tokens)
             starts == {i \in 1 .. n : tokens[i] \notin {}}
             number(i) == Cardinality({j \in starts : j <= i})
             start(k) == CHOOSE i \in starts : number(i) = k
             end(k) == IF k = Cardinality(starts) THEN n ELSE start(k + 1) - 1
  <1>1. n \in Nat
    OBVIOUS
  <1>2. starts = 1 .. n
    OBVIOUS
  <1>3. Cardinality(starts) = n
    <2>1. Cardinality(1 .. n) = IF 1 > n THEN 0 ELSE n - 1 + 1
      BY <1>1, FS_Interval
    <2>2. Cardinality(1 .. n) = n
      BY <1>1, <2>1
    <2> QED
      BY <1>2, <2>2
  <1>4. ASSUME NEW i \in 1 .. n
        PROVE  number(i) = i
    <2>1. {j \in starts : j <= i} = 1 .. i
      BY <1>1, <1>2
    <2>2. Cardinality(1 .. i) = IF 1 > i THEN 0 ELSE i - 1 + 1
      BY <1>1, FS_Interval
    <2>3. Cardinality(1 .. i) = i
      BY <1>1, <2>2
    <2> QED
      BY <2>1, <2>3
  <1> HIDE DEF starts, number
  <1>5. ASSUME NEW k \in 1 .. n
        PROVE  start(k) = k
    <2>1. k \in starts /\ number(k) = k
      BY <1>2, <1>4
    <2>2. \A i \in starts : number(i) = k => i = k
      BY <1>2, <1>4
    <2> QED
      BY <2>1, <2>2
  <1> HIDE DEF start
  <1>6. ASSUME NEW k \in 1 .. n
        PROVE  end(k) = k
    <2>1. CASE k = n
      BY <1>3, <2>1
    <2>2. CASE k # n
      <3>1. k + 1 \in 1 .. n
        BY <1>1, <2>2
      <3>2. start(k + 1) = k + 1
        BY <1>5, <3>1
      <3> QED
        BY <1>1, <1>3, <2>2, <3>2
    <2> QED
      BY <2>1, <2>2
  <1>7. Words(tokens, {}) =
          [k \in 1 .. Cardinality(starts) |-> SubSeq(tokens, start(k), end(k))]
    BY DEF Words, starts, number, start
  <1> HIDE DEF end, n
  <1>8. ASSUME NEW k \in 1 .. n
        PROVE  SubSeq(tokens, k, k) = <<tokens[k]>>
    <2>1. SubSeq(tokens, k, k) = [j \in 1 .. 1 |-> tokens[k + j - 1]]
      BY <1>1 DEF n
    <2>2. 1 .. 1 = {1} /\ k + 1 - 1 = k
      BY <1>1
    <2> QED
      BY <2>1, <2>2
  <1>9. Words(tokens, {}) = [k \in 1 .. n |-> SubSeq(tokens, start(k), end(k))]
    BY <1>3, <1>7
  <1>10. [k \in 1 .. n |-> SubSeq(tokens, start(k), end(k))] = [k \in 1 .. n |-> <<tokens[k]>>]
    BY <1>5, <1>6, <1>8
  <1> QED
    BY <1>9, <1>10 DEF n

-----------------------------------------------------------------------------
(* What the theorems suppose of the constants.                              *)

(* None is not one of the model's terms or tags.                            *)
NoneIsNew == \A x, y, z : None # <<x, y>> /\ None # <<x, y, z>>

(* A document that defines a prefix once and writes its directives with     *)
(* white space between the tokens.                                          *)
PlainDirectives == "redefinition" \notin Constructs /\ "glued" \notin Constructs

LEMMA PrefixWords ==
  ASSUME PlainDirectives, NEW tokens \in PrefixTokens, NEW glued \in Glued(tokens)
  PROVE  /\ Words(tokens, glued)[2] = <<"name">>
         /\ Words(tokens, glued)[3] = <<"iri">>
         /\ ~Missing(Words(tokens, glued), 3)
PROOF
  <1>1. glued = {}
    BY DEF PlainDirectives, Glued
  <1>2. tokens = <<"keyword", "name", "iri", "dot">> \/ tokens = <<"keyword", "name", "iri">>
    BY DEF PlainDirectives, PrefixTokens, Commented
  <1>3. /\ tokens \in Seq({"keyword", "name", "iri", "dot"})
        /\ Len(tokens) \in {3, 4}
        /\ tokens[2] = "name"
        /\ tokens[3] = "iri"
    <2>1. CASE tokens = <<"keyword", "name", "iri", "dot">>
      BY <2>1
    <2>2. CASE tokens = <<"keyword", "name", "iri">>
      BY <2>2
    <2> QED
      BY <1>2, <2>1, <2>2
  <1>4. Words(tokens, {}) = [k \in 1 .. Len(tokens) |-> <<tokens[k]>>]
    BY <1>3, WordsAreTokens
  <1>5. Len(Words(tokens, {})) = Len(tokens)
    BY <1>3, <1>4
  <1>6. Words(tokens, {})[2] = <<"name">> /\ Words(tokens, {})[3] = <<"iri">>
    BY <1>3, <1>4
  <1>7. <<"iri">> # <<"dot">>
    <2> DEFINE iri == <<"iri">>  dot == <<"dot">>
    <2>1. iri[1] = "iri" /\ dot[1] = "dot"
      OBVIOUS
    <2>2. iri[1] # dot[1]
      BY <2>1
    <2> HIDE DEF iri, dot
    <2>3. iri # dot
      BY <2>2
    <2> QED
      BY <2>3 DEF iri, dot
  <1> QED
    BY <1>1, <1>3, <1>5, <1>6, <1>7 DEF Missing

LEMMA BaseWords ==
  ASSUME PlainDirectives, NEW tokens \in BaseTokens, NEW glued \in Glued(tokens)
  PROVE  /\ Words(tokens, glued)[2] = <<"iri">>
         /\ ~Missing(Words(tokens, glued), 2)
PROOF
  <1>1. glued = {}
    BY DEF PlainDirectives, Glued
  <1>2. tokens = <<"keyword", "iri", "dot">> \/ tokens = <<"keyword", "iri">>
    BY DEF PlainDirectives, BaseTokens, Commented
  <1>3. /\ tokens \in Seq({"keyword", "name", "iri", "dot"})
        /\ Len(tokens) \in {2, 3}
        /\ tokens[2] = "iri"
    <2>1. CASE tokens = <<"keyword", "iri", "dot">>
      BY <2>1
    <2>2. CASE tokens = <<"keyword", "iri">>
      BY <2>2
    <2> QED
      BY <1>2, <2>1, <2>2
  <1>4. Words(tokens, {}) = [k \in 1 .. Len(tokens) |-> <<tokens[k]>>]
    BY <1>3, WordsAreTokens
  <1>5. Len(Words(tokens, {})) = Len(tokens)
    BY <1>3, <1>4
  <1>6. Words(tokens, {})[2] = <<"iri">>
    BY <1>3, <1>4
  <1>7. <<"iri">> # <<"dot">>
    <2> DEFINE iri == <<"iri">>  dot == <<"dot">>
    <2>1. iri[1] = "iri" /\ dot[1] = "dot"
      OBVIOUS
    <2>2. iri[1] # dot[1]
      BY <2>1
    <2> HIDE DEF iri, dot
    <2>3. iri # dot
      BY <2>2
    <2> QED
      BY <2>3 DEF iri, dot
  <1> QED
    BY <1>1, <1>3, <1>5, <1>6, <1>7 DEF Missing

-----------------------------------------------------------------------------
(* The inductive invariant.                                                 *)

Places == {"item", "string", "tagIri", "tagged", "blank"}

TypeInv ==
  /\ sparqlQuery \in BOOLEAN
  /\ at \in Places
  /\ items \in Nat
  /\ failed \in BOOLEAN
  /\ type_tag_found \in BOOLEAN
  /\ lang_tag_found \in BOOLEAN
  /\ iri_is_IRIREF \in BOOLEAN
  /\ prefix_map \in [Prefixes -> Texts \cup {None}]
  /\ meantPrefix = [p \in Prefixes |-> meantPrefix[p]]

(* The base and the namespaces of the state against those in force.  A      *)
(* namespace may have been resolved against a base that the state spliced   *)
(* into something else, but not while there has been no base.               *)
NamespaceInv(p) ==
  IF prefix_map[p] = None THEN meantPrefix[p] = None
  ELSE \E b : /\ meantPrefix[p] = URIRef(b, prefix_map[p])
              /\ meantBase = None => b = None

ScopeInv ==
  /\ meantBase = None => base_ = None
  /\ \A p \in Prefixes : NamespaceInv(p)

(* The tag that IRIREF or PrefixedName has left behind.                     *)
IriTag ==
  \/ iri_is_IRIREF /\ \E text \in Texts : tag = <<"iriref", text>>
  \/ ~iri_is_IRIREF /\ \E p \in Prefixes : tag = <<"name", p>> /\ prefix_map[p] # None

(* The parts of a literal: the flags are down when its string is read, and  *)
(* at its end at most the one of its own tag is up.                         *)
PartsInv ==
  /\ at # "tagged" => ~type_tag_found /\ ~lang_tag_found
  /\ at \in {"string", "tagIri", "tagged"} => literal_string_ = items
  /\ at = "string" => tag = None
  /\ at = "tagIri" => IriTag
  /\ at = "tagged" =>
       \/ /\ lang_tag_found /\ ~type_tag_found
          /\ tag = <<"lang", items>> /\ lang_tag_ = items
       \/ type_tag_found /\ ~lang_tag_found /\ IriTag /\ type_tag_ = TagText

NodeInv == at = "blank" => meant = Blank(blank_node_string_)

FailInv == failed => at \in {"item", "tagIri"}

SoundInv == ScopeInv /\ PartsInv /\ NodeInv /\ TermsDenote /\ LiteralsDenote

TermInv == TypeInv /\ FailInv /\ (~failed => SoundInv)

LEMMA InitTermInv == ASSUME Init PROVE TermInv
PROOF
  <1>1. prefix_map \in [Prefixes -> Texts \cup {None}]
    BY TermAssumption DEF Init, Texts, Undefined
  <1>2. TypeInv
    BY <1>1 DEF Init, TypeInv, Places
  <1>3. ASSUME NEW p \in Prefixes
        PROVE  NamespaceInv(p)
    BY DEF Init, NamespaceInv
  <1>4. ScopeInv
    BY <1>3 DEF Init, ScopeInv
  <1>5. PartsInv /\ NodeInv
    BY DEF Init, PartsInv, NodeInv
  <1>6. ~failed /\ meant = None
    BY DEF Init
  <1>7. TermsDenote /\ LiteralsDenote
    BY <1>6 DEF TermsDenote, LiteralsDenote, AfterTerm
  <1> QED
    BY <1>2, <1>4, <1>5, <1>6, <1>7 DEF TermInv, FailInv, SoundInv

-----------------------------------------------------------------------------
(* Steps that end an item or leave one unfinished.                          *)

(* A step that leaves the base and the namespaces alone.                    *)
LEMMA ScopeKept ==
  ASSUME ScopeInv, UNCHANGED scopeVars
  PROVE  ScopeInv'
PROOF
  <1>1. ASSUME NEW p \in Prefixes
        PROVE  NamespaceInv(p)'
    <2>1. NamespaceInv(p)
      BY DEF ScopeInv
    <2> QED
      BY <2>1 DEF NamespaceInv, scopeVars, URIRef
  <1> QED
    BY <1>1 DEF ScopeInv, scopeVars

LEMMA TypeKept ==
  ASSUME TypeInv, at' \in Places, items' \in Nat, failed' \in BOOLEAN,
         type_tag_found' \in BOOLEAN, lang_tag_found' \in BOOLEAN, iri_is_IRIREF' \in BOOLEAN,
         UNCHANGED <<sparqlQuery, prefix_map, meantPrefix>>
  PROVE  TypeInv'
PROOF
  BY DEF TypeInv

LEMMA BeginItemFacts ==
  ASSUME TermInv, BeginItem
  PROVE  /\ SoundInv /\ ~failed /\ at = "item"
         /\ ~type_tag_found /\ ~lang_tag_found
         /\ items' \in Nat /\ tag' = None /\ sparqlQuery' = sparqlQuery
PROOF
  BY DEF BeginItem, TermInv, TypeInv, SoundInv, PartsInv

LEMMA EndItem ==
  ASSUME TypeInv', ScopeInv', at' = "item", ~failed', ~type_tag_found', ~lang_tag_found',
         TermsDenote', LiteralsDenote'
  PROVE  TermInv'
PROOF
  <1>1. PartsInv' /\ NodeInv'
    BY DEF PartsInv, NodeInv
  <1> QED
    BY <1>1 DEF TermInv, SoundInv, FailInv

(* Within an item nothing is said of its term.                              *)
LEMMA WithinItem ==
  ASSUME TypeInv', ScopeInv', at' # "item", ~failed', PartsInv', NodeInv'
  PROVE  TermInv'
PROOF
  <1>1. TermsDenote' /\ LiteralsDenote'
    BY DEF TermsDenote, LiteralsDenote, AfterTerm
  <1> QED
    BY <1>1 DEF TermInv, SoundInv, FailInv

(* The action of a whole term that is no IRI.                               *)
LEMMA WholeTerm ==
  ASSUME TermInv, BeginItem, element_' = meant',
         UNCHANGED <<at, failed, iri_is_IRIREF, type_tag_found, lang_tag_found, scopeVars>>
  PROVE  TermInv'
PROOF
  <1>1. SoundInv /\ ~failed /\ at = "item" /\ ~type_tag_found /\ ~lang_tag_found
    BY BeginItemFacts
  <1>2. ScopeInv'
    BY <1>1, ScopeKept DEF SoundInv
  <1>3. TypeInv'
    <2>1. items' \in Nat /\ sparqlQuery' = sparqlQuery
      BY BeginItemFacts
    <2> QED
      BY <2>1, TypeKept DEF TermInv, TypeInv, scopeVars
  <1>4. TermsDenote' /\ LiteralsDenote'
    BY DEF TermsDenote, LiteralsDenote
  <1> QED
    BY <1>1, <1>2, <1>3, <1>4, EndItem

-----------------------------------------------------------------------------
(* IRIs.                                                                    *)

LEMMA AsTermOrTagFacts ==
  ASSUME TermInv, NEW text, NEW meaning, AsTermOrTag(text, meaning)
  PROVE  /\ SoundInv /\ ~failed /\ ~type_tag_found /\ ~lang_tag_found
         /\ items' \in Nat /\ sparqlQuery' = sparqlQuery
         /\ \/ at' = "item" /\ meant' = meaning
            \/ at' = "tagIri" /\ tag' = text /\ literal_string_ = items'
PROOF
  <1>1. CASE BeginItem /\ at' = at /\ meant' = meaning
    BY <1>1, BeginItemFacts
  <1>2. CASE at = "string" /\ at' = "tagIri" /\ tag' = text /\ UNCHANGED <<sparqlQuery, items, meant>>
    BY <1>2 DEF TermInv, TypeInv, FailInv, SoundInv, PartsInv
  <1> QED
    BY <1>1, <1>2 DEF AsTermOrTag

LEMMA IRIREFStep ==
  ASSUME TermInv, NEW text \in Texts, IRIREF(text)
  PROVE  TermInv'
PROOF
  <1> DEFINE iri == <<"iriref", text>>
  <1>1. /\ SoundInv /\ ~failed /\ ~type_tag_found /\ ~lang_tag_found
        /\ items' \in Nat /\ sparqlQuery' = sparqlQuery
        /\ \/ at' = "item" /\ meant' = MeantIri(text)
           \/ at' = "tagIri" /\ tag' = iri /\ literal_string_ = items'
    BY AsTermOrTagFacts DEF IRIREF
  <1>2. UNCHANGED <<partVars, nodeVars, scopeVars>>
    BY DEF IRIREF
  <1>3. ScopeInv'
    BY <1>1, <1>2, ScopeKept DEF SoundInv
  <1>4. TypeInv'
    BY <1>1, <1>2, TypeKept DEF IRIREF, TermInv, TypeInv, Places, partVars, scopeVars
  <1>5. CASE OutOfRange(text)
    <2>1. failed'
      BY <1>5 DEF IRIREF
    <2> QED
      BY <1>1, <1>4, <2>1 DEF TermInv, FailInv
  <1>6. CASE ~OutOfRange(text)
    <2>1. element_' = URIRef(base_, text) /\ iri_is_IRIREF' /\ ~failed'
      BY <1>1, <1>6 DEF IRIREF
    <2>2. ~type_tag_found' /\ ~lang_tag_found' /\ literal_string_' = literal_string_
      BY <1>1, <1>2 DEF partVars
    <2>3. CASE at' = "item" /\ meant' = MeantIri(text)
      <3>1. meantBase' = None => element_' = meant'
        BY <1>1, <1>2, <2>1, <2>3 DEF MeantIri, SoundInv, ScopeInv, scopeVars
      <3>2. meant'[1] # "literal"
        BY <2>3 DEF MeantIri, URIRef
      <3>3. TermsDenote' /\ LiteralsDenote'
        BY <3>1, <3>2 DEF TermsDenote, LiteralsDenote
      <3> QED
        BY <1>3, <1>4, <2>1, <2>2, <2>3, <3>3, EndItem
    <2>4. CASE at' = "tagIri" /\ tag' = iri /\ literal_string_ = items'
      <3>1. IriTag'
        BY <2>1, <2>4 DEF IriTag, Texts
      <3>2. PartsInv' /\ NodeInv'
        BY <2>2, <2>4, <3>1 DEF PartsInv, NodeInv
      <3> QED
        BY <1>3, <1>4, <2>1, <2>4, <3>2, WithinItem
    <2> QED
      BY <1>1, <2>3, <2>4
  <1> QED
    BY <1>5, <1>6

LEMMA PrefixedNameStep ==
  ASSUME TermInv, NEW p \in Prefixes, PrefixedName(p)
  PROVE  TermInv'
PROOF
  <1> DEFINE name == <<"name", p>>
  <1>1. /\ SoundInv /\ ~failed /\ ~type_tag_found /\ ~lang_tag_found
        /\ items' \in Nat /\ sparqlQuery' = sparqlQuery
        /\ \/ at' = "item" /\ meant' = meantPrefix[p]
           \/ at' = "tagIri" /\ tag' = name /\ literal_string_ = items'
    BY AsTermOrTagFacts DEF PrefixedName
  <1>2. UNCHANGED <<partVars, nodeVars, scopeVars>>
    BY DEF PrefixedName
  <1>3. ScopeInv' /\ NamespaceInv(p)
    BY <1>1, <1>2, ScopeKept DEF SoundInv, ScopeInv
  <1>4. TypeInv'
    BY <1>1, <1>2, TypeKept DEF PrefixedName, TermInv, TypeInv, Places, partVars, scopeVars
  <1>5. CASE prefix_map[p] = None
    <2>1. failed'
      BY <1>5 DEF PrefixedName
    <2> QED
      BY <1>1, <1>4, <2>1 DEF TermInv, FailInv
  <1>6. CASE prefix_map[p] # None
    <2>1. element_' = URIRef(None, prefix_map[p]) /\ ~iri_is_IRIREF' /\ ~failed'
      BY <1>1, <1>6 DEF PrefixedName
    <2>2. ~type_tag_found' /\ ~lang_tag_found' /\ literal_string_' = literal_string_
      BY <1>1, <1>2 DEF partVars
    <2>3. PICK b : /\ meantPrefix[p] = URIRef(b, prefix_map[p])
                   /\ meantBase = None => b = None
      BY <1>3, <1>6 DEF NamespaceInv
    <2>4. CASE at' = "item" /\ meant' = meantPrefix[p]
      <3>1. meantBase' = None => element_' = meant'
        BY <1>2, <2>1, <2>3, <2>4 DEF scopeVars
      <3>2. meant'[1] # "literal"
        BY <2>3, <2>4 DEF URIRef
      <3>3. TermsDenote' /\ LiteralsDenote'
        BY <3>1, <3>2 DEF TermsDenote, LiteralsDenote
      <3> QED
        BY <1>3, <1>4, <2>1, <2>2, <2>4, <3>3, EndItem
    <2>5. CASE at' = "tagIri" /\ tag' = name /\ literal_string_ = items'
      <3>1. IriTag'
        BY <1>2, <1>6, <2>1, <2>5 DEF IriTag, scopeVars
      <3>2. PartsInv' /\ NodeInv'
        BY <2>2, <2>5, <3>1 DEF PartsInv, NodeInv
      <3> QED
        BY <1>3, <1>4, <2>1, <2>5, <3>2, WithinItem
    <2> QED
      BY <1>1, <2>4, <2>5
  <1> QED
    BY <1>5, <1>6

-----------------------------------------------------------------------------
(* The verb a, literals, blank nodes and variables.                         *)

LEMMA VerbStep ==
  ASSUME TermInv, verb_a
  PROVE  TermInv'
PROOF
  <1>1. SoundInv /\ ~failed /\ at = "item" /\ ~type_tag_found /\ ~lang_tag_found
        /\ items' \in Nat /\ sparqlQuery' = sparqlQuery
    BY BeginItemFacts DEF verb_a
  <1>2. UNCHANGED <<at, failed, iri_is_IRIREF, type_tag_found, lang_tag_found, scopeVars>>
    BY DEF verb_a, partVars
  <1>3. ScopeInv'
    BY <1>1, <1>2, ScopeKept DEF SoundInv
  <1>4. TypeInv'
    BY <1>1, <1>2, TypeKept DEF TermInv, TypeInv, scopeVars
  <1>5. meant' = RdfType /\ meant'[1] # "literal"
    BY DEF verb_a, RdfType, URIRef
  <1>6. TermsDenote' /\ LiteralsDenote'
    BY <1>5 DEF TermsDenote, LiteralsDenote, RdfType, URIRef
  <1> QED
    BY <1>1, <1>2, <1>3, <1>4, <1>6, EndItem

LEMMA StringStep ==
  ASSUME TermInv, turtleString
  PROVE  TermInv'
PROOF
  <1>1. /\ SoundInv /\ ~failed /\ ~type_tag_found /\ ~lang_tag_found
        /\ items' \in Nat /\ tag' = None /\ sparqlQuery' = sparqlQuery
    BY BeginItemFacts DEF turtleString
  <1>2. /\ at' = "string" /\ literal_string_' = items'
        /\ UNCHANGED <<failed, iri_is_IRIREF, type_tag_found, lang_tag_found, scopeVars>>
    BY DEF turtleString
  <1>3. ScopeInv'
    BY <1>1, <1>2, ScopeKept DEF SoundInv
  <1>4. TypeInv'
    BY <1>1, <1>2, TypeKept DEF TermInv, TypeInv, Places, scopeVars
  <1>5. PartsInv' /\ NodeInv'
    BY <1>1, <1>2 DEF PartsInv, NodeInv
  <1> QED
    BY <1>1, <1>2, <1>3, <1>4, <1>5, WithinItem

LEMMA LangStep ==
  ASSUME TermInv, LANGTAG
  PROVE  TermInv'
PROOF
  <1>1. /\ SoundInv /\ ~failed /\ ~type_tag_found /\ literal_string_ = items
    BY DEF LANGTAG, TermInv, TypeInv, FailInv, SoundInv, PartsInv
  <1>2. /\ at' = "tagged" /\ tag' = <<"lang", items>> /\ lang_tag_found' /\ lang_tag_' = items
        /\ UNCHANGED <<sparqlQuery, items, failed, iri_is_IRIREF, type_tag_found,
                       literal_string_, scopeVars>>
    BY DEF LANGTAG
  <1>3. ScopeInv'
    BY <1>1, <1>2, ScopeKept DEF SoundInv
  <1>4. TypeInv'
    BY <1>2, TypeKept DEF LANGTAG, TermInv, TypeInv, Places, scopeVars
  <1>5. PartsInv' /\ NodeInv'
    BY <1>1, <1>2 DEF PartsInv, NodeInv
  <1> QED
    BY <1>1, <1>2, <1>3, <1>4, <1>5, WithinItem

LEMMA TypeTagStep ==
  ASSUME TermInv, RdfLiteralTypeTag
  PROVE  TermInv'
PROOF
  <1>1. /\ SoundInv /\ ~failed /\ ~lang_tag_found /\ literal_string_ = items /\ IriTag
    BY DEF RdfLiteralTypeTag, TermInv, SoundInv, PartsInv
  <1>2. /\ at' = "tagged" /\ type_tag_found' /\ type_tag_' = TagText
        /\ UNCHANGED <<sparqlQuery, items, tag, failed, iri_is_IRIREF, lang_tag_found,
                       literal_string_, scopeVars>>
    BY DEF RdfLiteralTypeTag
  <1>3. ScopeInv'
    BY <1>1, <1>2, ScopeKept DEF SoundInv
  <1>4. TypeInv'
    BY <1>2, TypeKept DEF RdfLiteralTypeTag, TermInv, TypeInv, Places, scopeVars
  <1>5. IriTag' /\ TagText' = TagText
    BY <1>1, <1>2 DEF IriTag, TagText, scopeVars, URIRef
  <1>6. PartsInv' /\ NodeInv'
    BY <1>1, <1>2, <1>5 DEF PartsInv, NodeInv
  <1> QED
    BY <1>1, <1>2, <1>3, <1>4, <1>6, WithinItem

(* The datatype that a tag means, and the one that the action of the        *)
(* literal reads off its text.                                              *)
LEMMA DatatypeOfTag ==
  ASSUME ScopeInv, IriTag, type_tag_ = TagText
  PROVE  \E b, text :
           /\ MeantTag = URIRef(b, text)
           /\ meantBase = None => b = None
           /\ (IF iri_is_IRIREF THEN type_tag_ ELSE Expanded(type_tag_)) = URIRef(None, text)
PROOF
  <1>1. ASSUME iri_is_IRIREF, NEW text \in Texts, tag = <<"iriref", text>>
        PROVE  /\ MeantTag = MeantIri(text)
               /\ type_tag_ = URIRef(None, text)
    BY <1>1 DEF MeantTag, TagText
  <1>2. ASSUME NEW text
        PROVE  \E b : MeantIri(text) = URIRef(b, text) /\ (meantBase = None => b = None)
    BY DEF MeantIri
  <1>3. ASSUME ~iri_is_IRIREF, NEW p \in Prefixes, tag = <<"name", p>>, prefix_map[p] # None
        PROVE  /\ MeantTag = meantPrefix[p]
               /\ Expanded(type_tag_) = URIRef(None, prefix_map[p])
               /\ \E b : MeantTag = URIRef(b, prefix_map[p]) /\ (meantBase = None => b = None)
    <2>1. tag[1] = "name" /\ tag[2] = p /\ type_tag_ = tag
      BY <1>3 DEF TagText
    <2>2. NamespaceInv(p)
      BY DEF ScopeInv
    <2>3. MeantTag = meantPrefix[p]
      BY <2>1 DEF MeantTag
    <2> QED
      BY <1>3, <2>1, <2>2, <2>3 DEF NamespaceInv, Expanded
  <1> QED
    BY <1>1, <1>2, <1>3 DEF IriTag

(* A datatype that is an absolute IRI was resolved against no base.         *)
LEMMA AbsoluteDatatype ==
  ASSUME NoneIsNew, NEW t, NEW b, NEW text,
         LET literal == Literal(t, None, URIRef(b, text))
         IN  literal[4] # None => literal[4][2] = None
  PROVE  Literal(t, None, URIRef(b, text)) = Literal(t, None, URIRef(None, text))
PROOF
  <1> DEFINE type == URIRef(b, text)
             literal == Literal(t, None, type)
  <1>1. type # None /\ type[2] = b
    BY DEF NoneIsNew, URIRef
  <1>2. literal[4] = IF type # URIRef(None, XsdString) THEN type ELSE None
    BY DEF Literal
  <1>3. CASE type = URIRef(None, XsdString)
    <2>1. b = None
      BY <1>1, <1>3 DEF URIRef
    <2> QED
      BY <2>1
  <1>4. CASE type # URIRef(None, XsdString)
    <2>1. literal[4] = type
      BY <1>2, <1>4
    <2>2. b = None
      BY <1>1, <2>1
    <2> QED
      BY <2>2
  <1> QED
    BY <1>3, <1>4

LEMMA LiteralStep ==
  ASSUME NoneIsNew, TermInv, RdfLiteral
  PROVE  TermInv'
PROOF
  <1>1. SoundInv /\ ~failed /\ literal_string_ = items
    BY DEF RdfLiteral, TermInv, TypeInv, FailInv, SoundInv, PartsInv
  <1>2. /\ at' = "item" /\ LowerFlags
        /\ UNCHANGED <<sparqlQuery, items, tag, failed, iri_is_IRIREF, literal_string_, scopeVars>>
    BY DEF RdfLiteral
  <1>3. ScopeInv'
    BY <1>1, <1>2, ScopeKept DEF SoundInv
  <1>4. TypeInv'
    BY <1>2, TypeKept DEF LowerFlags, TermInv, TypeInv, Places, scopeVars
  <1>5. ~type_tag_found' /\ ~lang_tag_found'
    BY <1>1, <1>2 DEF RdfLiteral, LowerFlags, SoundInv, PartsInv
  <1>6. TermsDenote' /\ LiteralsDenote'
    <2>1. CASE at = "string"
      <3>1. ~type_tag_found /\ ~lang_tag_found /\ tag = None
        BY <1>1, <2>1 DEF SoundInv, PartsInv
      <3>2. element_' = meant'
        BY <1>1, <3>1 DEF RdfLiteral
      <3> QED
        BY <3>2 DEF TermsDenote, LiteralsDenote
    <2>2. CASE lang_tag_found /\ ~type_tag_found /\ tag = <<"lang", items>> /\ lang_tag_ = items
      <3>1. tag # None /\ tag[1] = "lang" /\ tag[2] = items
        BY <2>2 DEF NoneIsNew
      <3>2. element_' = meant'
        BY <1>1, <2>2, <3>1 DEF RdfLiteral
      <3> QED
        BY <3>2 DEF TermsDenote, LiteralsDenote
    <2>3. CASE type_tag_found /\ ~lang_tag_found /\ IriTag /\ type_tag_ = TagText
      <3>1. tag # None /\ tag[1] # "lang"
        BY <2>3 DEF IriTag, NoneIsNew
      <3>2. PICK b, text :
              /\ MeantTag = URIRef(b, text)
              /\ meantBase = None => b = None
              /\ (IF iri_is_IRIREF THEN type_tag_ ELSE Expanded(type_tag_)) = URIRef(None, text)
        BY <1>1, <2>3, DatatypeOfTag DEF SoundInv
      <3>3. /\ element_' = Literal(items, None, URIRef(None, text))
            /\ meant' = Literal(items, None, URIRef(b, text))
        BY <1>1, <2>3, <3>1, <3>2 DEF RdfLiteral
      <3>4. meantBase = None => element_' = meant'
        BY <3>2, <3>3
      <3>5. (meant'[4] # None => meant'[4][2] = None) => element_' = meant'
        BY <3>3, AbsoluteDatatype
      <3>6. meantBase' = meantBase
        BY <1>2 DEF scopeVars
      <3> QED
        BY <3>4, <3>5, <3>6 DEF TermsDenote, LiteralsDenote
    <2> QED
      BY <1>1, <2>1, <2>2, <2>3 DEF RdfLiteral, SoundInv, PartsInv
  <1> QED
    BY <1>1, <1>2, <1>3, <1>4, <1>5, <1>6, EndItem

LEMMA NumericStep ==
  ASSUME TermInv, NEW type, NumericLiteral(type)
  PROVE  TermInv'
PROOF
  <1>1. element_' = meant'
    BY DEF NumericLiteral
  <1> QED
    BY <1>1, WholeTerm DEF NumericLiteral

LEMMA BooleanStep ==
  ASSUME TermInv, BooleanLiteral
  PROVE  TermInv'
PROOF
  <1>1. element_' = meant'
    BY DEF BooleanLiteral
  <1> QED
    BY <1>1, WholeTerm DEF BooleanLiteral

LEMMA VariableStep ==
  ASSUME TermInv, NEW name, var(name)
  PROVE  TermInv'
PROOF
  <1>1. BeginItem /\ element_' = meant'
    BY DEF var
  <1>2. UNCHANGED <<at, failed, iri_is_IRIREF, type_tag_found, lang_tag_found, scopeVars>>
    BY DEF var, partVars
  <1> QED
    BY <1>1, <1>2, WholeTerm

(* The label of a blank node is read before its node is made.               *)
LEMMA LabelStep ==
  ASSUME TermInv, BeginItem, at' = "blank", meant' = Blank(blank_node_string_'),
         UNCHANGED <<failed, iri_is_IRIREF, type_tag_found, lang_tag_found, scopeVars>>
  PROVE  TermInv'
PROOF
  <1>1. /\ SoundInv /\ ~failed /\ ~type_tag_found /\ ~lang_tag_found
        /\ items' \in Nat /\ sparqlQuery' = sparqlQuery
    BY BeginItemFacts
  <1>2. ScopeInv'
    BY <1>1, ScopeKept DEF SoundInv
  <1>3. TypeInv'
    BY <1>1, TypeKept DEF TermInv, TypeInv, Places, scopeVars
  <1>4. PartsInv'
    BY <1>1 DEF PartsInv
  <1>5. NodeInv'
    BY <1>1 DEF NodeInv, Blank
  <1> QED
    BY <1>1, <1>2, <1>3, <1>4, <1>5, WithinItem

LEMMA AnonStep ==
  ASSUME TermInv, ANON
  PROVE  TermInv'
PROOF
  <1>1. BeginItem /\ at' = "blank" /\ meant' = Blank(blank_node_string_')
    BY DEF ANON, Blank
  <1>2. UNCHANGED <<failed, iri_is_IRIREF, type_tag_found, lang_tag_found, scopeVars>>
    BY DEF ANON, partVars
  <1> QED
    BY <1>1, <1>2, LabelStep

LEMMA BlankLabelStep ==
  ASSUME TermInv, NEW label, BLANK_NODE_LABEL(label)
  PROVE  TermInv'
PROOF
  <1>1. BeginItem /\ at' = "blank" /\ meant' = Blank(blank_node_string_')
    BY DEF BLANK_NODE_LABEL, Blank
  <1>2. UNCHANGED <<failed, iri_is_IRIREF, type_tag_found, lang_tag_found, scopeVars>>
    BY DEF BLANK_NODE_LABEL
  <1> QED
    BY <1>1, <1>2, LabelStep

LEMMA BlankNodeStep ==
  ASSUME TermInv, BlankNode
  PROVE  TermInv'
PROOF
  <1>1. SoundInv /\ ~failed /\ meant = Blank(blank_node_string_)
    BY DEF BlankNode, TermInv, TypeInv, FailInv, SoundInv, NodeInv
  <1>2. /\ at' = "item" /\ element_' = meant'
        /\ UNCHANGED <<sparqlQuery, items, failed, iri_is_IRIREF, partVars, scopeVars>>
    BY <1>1 DEF BlankNode
  <1>3. ScopeInv'
    BY <1>1, <1>2, ScopeKept DEF SoundInv
  <1>4. TypeInv'
    BY <1>2, TypeKept DEF TermInv, TypeInv, Places, partVars, scopeVars
  <1>5. ~type_tag_found' /\ ~lang_tag_found'
    BY <1>1, <1>2 DEF BlankNode, SoundInv, PartsInv, partVars
  <1>6. TermsDenote' /\ LiteralsDenote'
    BY <1>2 DEF TermsDenote, LiteralsDenote
  <1> QED
    BY <1>1, <1>2, <1>3, <1>4, <1>5, <1>6, EndItem

-----------------------------------------------------------------------------
(* Directives.                                                              *)

(* What a directive does beside its effect on the base or the namespaces.   *)
LEMMA DirectiveFacts ==
  ASSUME TermInv, NEW text, NEW words, NEW k, ~Missing(words, k), Directive(text, words, k)
  PROVE  /\ SoundInv /\ at' = "item" /\ meant' = None
         /\ failed' \in BOOLEAN /\ (failed' <=> OutOfRange(text))
         /\ type_tag_found' = FALSE /\ lang_tag_found' = FALSE
         /\ items' \in Nat /\ sparqlQuery' = sparqlQuery /\ iri_is_IRIREF' \in BOOLEAN
PROOF
  <1>1. /\ SoundInv /\ ~failed /\ at = "item" /\ ~type_tag_found /\ ~lang_tag_found
        /\ items' \in Nat /\ sparqlQuery' = sparqlQuery
    BY BeginItemFacts DEF Directive
  <1>2. /\ at' = at /\ meant' = None
        /\ type_tag_found' = type_tag_found /\ lang_tag_found' = lang_tag_found
    BY DEF Directive, partVars
  <1>3. /\ type_tag_found \in BOOLEAN /\ lang_tag_found \in BOOLEAN /\ iri_is_IRIREF \in BOOLEAN
        /\ failed \in BOOLEAN
    BY DEF TermInv, TypeInv
  <1>4. /\ failed' = OutOfRange(text)
        /\ iri_is_IRIREF' \in BOOLEAN
    <2>1. CASE OutOfRange(text)
      BY <1>3, <2>1 DEF Directive, OutOfRange
    <2>2. CASE ~OutOfRange(text)
      BY <1>3, <2>2 DEF Directive, OutOfRange, Missing
    <2> QED
      BY <2>1, <2>2
  <1> QED
    BY <1>1, <1>2, <1>3, <1>4 DEF OutOfRange

(* A directive leaves the state sound if its base and namespaces are.       *)
LEMMA DirectiveStep ==
  ASSUME TypeInv', at' = "item", meant' = None, ~type_tag_found', ~lang_tag_found',
         failed' \/ ScopeInv'
  PROVE  TermInv'
PROOF
  <1>1. TermsDenote' /\ LiteralsDenote'
    BY DEF TermsDenote, LiteralsDenote, AfterTerm
  <1>2. CASE failed'
    BY <1>2 DEF TermInv, FailInv
  <1>3. CASE ~failed'
    BY <1>1, <1>3, EndItem
  <1> QED
    BY <1>2, <1>3

LEMMA PrefixStep ==
  ASSUME PlainDirectives, TermInv, NEW p \in Prefixes, NEW text \in Texts,
         NEW words, words[2] = <<"name">>, words[3] = <<"iri">>, ~Missing(words, 3),
         prefixID(p, text, words)
  PROVE  TermInv'
PROOF
  <1>1. /\ SoundInv /\ at' = "item" /\ meant' = None
        /\ failed' \in BOOLEAN /\ (failed' <=> OutOfRange(text))
        /\ type_tag_found' = FALSE /\ lang_tag_found' = FALSE
        /\ items' \in Nat /\ sparqlQuery' = sparqlQuery /\ iri_is_IRIREF' \in BOOLEAN
    BY DirectiveFacts DEF prefixID
  <1>2. prefix_map[p] = None
    BY DEF PlainDirectives, prefixID
  <1>3. prefix_map' = IF failed' THEN prefix_map ELSE [prefix_map EXCEPT ![p] = text]
    BY <1>2 DEF prefixID, addPrefix, ValueOf
  <1>4. meantPrefix' = [meantPrefix EXCEPT ![p] = MeantIri(text)] /\ UNCHANGED <<base_, meantBase>>
    BY DEF prefixID
  <1>5. TypeInv
    BY DEF TermInv
  <1>6. TypeInv'
    <2>1. prefix_map' \in [Prefixes -> Texts \cup {None}]
      BY <1>3, <1>5 DEF TypeInv
    <2>2. meantPrefix' = [q \in Prefixes |-> meantPrefix'[q]]
      BY <1>4, <1>5 DEF TypeInv
    <2> QED
      BY <1>1, <1>5, <2>1, <2>2 DEF TypeInv, Places
  <1>7. ASSUME ~failed'
        PROVE  ScopeInv'
    <2>1. ASSUME NEW q \in Prefixes
          PROVE  NamespaceInv(q)'
      <3>1. CASE q = p
        <4>1. prefix_map'[q] = text /\ meantPrefix'[q] = MeantIri(text)
          BY <1>3, <1>4, <1>5, <1>7, <3>1 DEF TypeInv
        <4>2. text # None
          BY TermAssumption DEF TermAssumption, Texts
        <4>3. \E b : MeantIri(text) = URIRef(b, text) /\ (meantBase = None => b = None)
          BY DEF MeantIri
        <4> QED
          BY <1>4, <4>1, <4>2, <4>3 DEF NamespaceInv, URIRef
      <3>2. CASE q # p
        <4>1. prefix_map'[q] = prefix_map[q] /\ meantPrefix'[q] = meantPrefix[q]
          BY <1>3, <1>4, <1>5, <3>2 DEF TypeInv
        <4>2. NamespaceInv(q)
          BY <1>1 DEF SoundInv, ScopeInv
        <4> QED
          BY <1>4, <4>1, <4>2 DEF NamespaceInv, URIRef
      <3> QED
        BY <3>1, <3>2
    <2>2. meantBase' = None => base_' = None
      BY <1>1, <1>4 DEF SoundInv, ScopeInv
    <2> QED
      BY <2>1, <2>2 DEF ScopeInv
  <1> QED
    BY <1>1, <1>6, <1>7, DirectiveStep

LEMMA BaseStep ==
  ASSUME NoneIsNew, TermInv, NEW text \in Texts,
         NEW words, words[2] = <<"iri">>, ~Missing(words, 2), base(text, words)
  PROVE  TermInv'
PROOF
  <1>1. /\ SoundInv /\ at' = "item" /\ meant' = None
        /\ failed' \in BOOLEAN /\ (failed' <=> OutOfRange(text))
        /\ type_tag_found' = FALSE /\ lang_tag_found' = FALSE
        /\ items' \in Nat /\ sparqlQuery' = sparqlQuery /\ iri_is_IRIREF' \in BOOLEAN
    BY DirectiveFacts DEF base
  <1>2. UNCHANGED <<prefix_map, meantPrefix>>
    BY DEF base
  <1>3. TypeInv'
    BY <1>1, <1>2 DEF TermInv, TypeInv, Places
  <1>4. meantBase' = IF text = "empty" THEN meantBase ELSE MeantIri(text)
    BY DEF base
  <1>5. meantBase' = None => meantBase = None /\ text = "empty"
    BY <1>4 DEF MeantIri, URIRef, NoneIsNew
  <1>6. ASSUME ~failed'
        PROVE  ScopeInv'
    <2>1. text = "empty" => base_' = None
      BY <1>6 DEF base
    <2>2. ASSUME NEW p \in Prefixes
          PROVE  NamespaceInv(p)'
      <3>1. NamespaceInv(p)
        BY <1>1 DEF SoundInv, ScopeInv
      <3> QED
        BY <1>2, <1>5, <3>1 DEF NamespaceInv, URIRef
    <2> QED
      BY <1>5, <2>1, <2>2 DEF ScopeInv
  <1> QED
    BY <1>1, <1>3, <1>6, DirectiveStep

-----------------------------------------------------------------------------
(* All steps together.                                                      *)

(* A failed parse takes no step, and a state that stutters keeps all.       *)
LEMMA TermInvKept ==
  ASSUME TermInv, UNCHANGED vars
  PROVE  TermInv'
PROOF
  <1>1. TypeInv'
    BY DEF vars, placeVars, partVars, scopeVars, TermInv, TypeInv
  <1>2. FailInv'
    BY DEF vars, placeVars, TermInv, FailInv
  <1>3. ASSUME ~failed'
        PROVE  SoundInv'
    <2>1. SoundInv
      BY <1>3 DEF vars, placeVars, TermInv
    <2>2. ScopeInv'
      BY <2>1, ScopeKept DEF SoundInv, vars
    <2>3. IriTag' = IriTag /\ TagText' = TagText
      BY DEF vars, placeVars, scopeVars, IriTag, TagText, URIRef
    <2>4. PartsInv'
      BY <2>1, <2>3 DEF vars, placeVars, partVars, SoundInv, PartsInv
    <2>5. NodeInv'
      BY <2>1 DEF vars, placeVars, nodeVars, SoundInv, NodeInv, Blank
    <2>6. TermsDenote' /\ LiteralsDenote'
      BY <2>1 DEF vars, placeVars, scopeVars, SoundInv, TermsDenote, LiteralsDenote, AfterTerm,
                  RdfType, URIRef
    <2> QED
      BY <2>2, <2>4, <2>5, <2>6 DEF SoundInv
  <1> QED
    BY <1>1, <1>2, <1>3 DEF TermInv

LEMMA TermInvStep ==
  ASSUME NoneIsNew, PlainDirectives, TermInv, [Next]_vars
  PROVE  TermInv'
PROOF
  <1>1. ASSUME NEW text \in Texts, IRIREF(text)
        PROVE  TermInv'
    BY <1>1, IRIREFStep
  <1>2. ASSUME NEW p \in Prefixes, PrefixedName(p)
        PROVE  TermInv'
    BY <1>2, PrefixedNameStep
  <1>3. CASE verb_a
    BY <1>3, VerbStep
  <1>4. CASE turtleString
    BY <1>4, StringStep
  <1>5. CASE LANGTAG
    BY <1>5, LangStep
  <1>6. CASE RdfLiteralTypeTag
    BY <1>6, TypeTagStep
  <1>7. CASE RdfLiteral
    BY <1>7, LiteralStep
  <1>8. ASSUME NEW type \in {"integer", "decimal"}, NumericLiteral(type)
        PROVE  TermInv'
    BY <1>8, NumericStep
  <1>9. CASE BooleanLiteral
    BY <1>9, BooleanStep
  <1>10. CASE ANON
    BY <1>10, AnonStep
  <1>11. CASE BlankNode
    BY <1>11, BlankNodeStep
  <1>12. ASSUME NEW label \in UserLabels, BLANK_NODE_LABEL(label)
         PROVE  TermInv'
    BY <1>12, BlankLabelStep
  <1>13. ASSUME NEW name \in UserLabels, var(name)
         PROVE  TermInv'
    BY <1>13, VariableStep
  <1>14. ASSUME NEW p \in Prefixes, NEW text \in Texts, NEW tokens \in PrefixTokens,
                NEW glued \in Glued(tokens), prefixID(p, text, Words(tokens, glued))
         PROVE  TermInv'
    BY <1>14, PrefixStep, PrefixWords
  <1>15. ASSUME NEW text \in Texts, NEW tokens \in BaseTokens,
                NEW glued \in Glued(tokens), base(text, Words(tokens, glued))
         PROVE  TermInv'
    BY <1>15, BaseStep, BaseWords
  <1>16. CASE UNCHANGED vars
    BY <1>16, TermInvKept
  <1> QED
    BY <1>1, <1>2, <1>3, <1>4, <1>5, <1>6, <1>7, <1>8, <1>9, <1>10, <1>11, <1>12, <1>13, <1>14,
       <1>15, <1>16 DEF Next, Matches, Stopped

THEOREM TermInvariant ==
  ASSUME NoneIsNew, PlainDirectives
  PROVE  Spec => []TermInv
PROOF
  <1>1. Init => TermInv
    BY InitTermInv
  <1>2. TermInv /\ [Next]_vars => TermInv'
    BY TermInvStep
  <1> QED
    BY <1>1, <1>2, PTL DEF Spec

(* Whatever came before it, a term outside the scope of a base is the one   *)
(* that the document has there.                                             *)
THEOREM TermsAreTheDocuments ==
  ASSUME NoneIsNew, PlainDirectives
  PROVE  Spec => []TermsDenote
PROOF
  <1>1. TermInv => TermsDenote
    BY DEF TermInv, TypeInv, SoundInv, TermsDenote, AfterTerm
  <1> QED
    BY <1>1, TermInvariant, PTL

(* So is every literal without a datatype or with an absolute one, under    *)
(* any base.                                                                *)
THEOREM LiteralsAreTheDocuments ==
  ASSUME NoneIsNew, PlainDirectives
  PROVE  Spec => []LiteralsDenote
PROOF
  <1>1. TermInv => LiteralsDenote
    BY DEF TermInv, TypeInv, SoundInv, LiteralsDenote, AfterTerm
  <1> QED
    BY <1>1, TermInvariant, PTL

(* Without a base in force, an IRI does not fail ...                        *)
LEMMA NothingOutOfRange ==
  ASSUME TermInv, ~failed, meantBase = None, NEW text
  PROVE  ~OutOfRange(text)
PROOF
  BY DEF TermInv, SoundInv, ScopeInv, OutOfRange

(* ... nor does a directive, whose text holds an IRI ...                    *)
LEMMA DirectivePasses ==
  ASSUME TermInv, ~failed, meantBase = None,
         NEW text, NEW words, NEW k, ~Missing(words, k), Directive(text, words, k)
  PROVE  ~failed'
PROOF
  <1>1. failed' <=> OutOfRange(text)
    BY DirectiveFacts
  <1> QED
    BY <1>1, NothingOutOfRange

(* ... and a name fails if and only if its prefix has no namespace.         *)
LEMMA NameFails ==
  ASSUME NoneIsNew, TermInv, ~failed, NEW p \in Prefixes, PrefixedName(p)
  PROVE  failed' <=> meantPrefix[p] = None
PROOF
  <1>1. NamespaceInv(p)
    BY DEF TermInv, SoundInv, ScopeInv
  <1>2. prefix_map[p] = None <=> meantPrefix[p] = None
    BY <1>1 DEF NamespaceInv, URIRef, NoneIsNew
  <1>3. failed' <=> prefix_map[p] = None
    BY DEF PrefixedName
  <1> QED
    BY <1>2, <1>3

LEMMA RejectingStep ==
  ASSUME NoneIsNew, PlainDirectives, TermInv, [Next]_vars, ~failed, meantBase = None
  PROVE  failed' <=> \E p \in Prefixes : PrefixedName(p) /\ meantPrefix[p] = None
PROOF
  <1>1. ASSUME NEW p \in Prefixes, PrefixedName(p), meantPrefix[p] = None
        PROVE  failed'
    BY <1>1, NameFails
  <1>2. ASSUME failed'
        PROVE  \E p \in Prefixes : PrefixedName(p) /\ meantPrefix[p] = None
    <2>1. ASSUME NEW text \in Texts, IRIREF(text)
          PROVE  FALSE
      BY <1>2, <2>1, NothingOutOfRange DEF IRIREF
    <2>2. ASSUME NEW p \in Prefixes, PrefixedName(p)
          PROVE  \E q \in Prefixes : PrefixedName(q) /\ meantPrefix[q] = None
      BY <1>2, <2>2, NameFails
    <2>3. ASSUME NEW p \in Prefixes, NEW text \in Texts, NEW tokens \in PrefixTokens,
                 NEW glued \in Glued(tokens), prefixID(p, text, Words(tokens, glued))
          PROVE  FALSE
      <3>1. ~Missing(Words(tokens, glued), 3)
        BY PrefixWords
      <3>2. Directive(text, Words(tokens, glued), 3)
        BY <2>3 DEF prefixID
      <3> QED
        BY <1>2, <3>1, <3>2, DirectivePasses
    <2>4. ASSUME NEW text \in Texts, NEW tokens \in BaseTokens,
                 NEW glued \in Glued(tokens), base(text, Words(tokens, glued))
          PROVE  FALSE
      <3>1. ~Missing(Words(tokens, glued), 2)
        BY BaseWords
      <3>2. Directive(text, Words(tokens, glued), 2)
        BY <2>4 DEF base
      <3> QED
        BY <1>2, <3>1, <3>2, DirectivePasses
    <2>5. failed' # failed
      BY <1>2
    <2> QED
      BY <2>1, <2>2, <2>3, <2>4, <2>5
         DEF Next, Matches, Stopped, vars, placeVars, verb_a, turtleString, LANGTAG,
             RdfLiteralTypeTag, RdfLiteral, NumericLiteral, BooleanLiteral, ANON, BlankNode,
             BLANK_NODE_LABEL, var
  <1> QED
    BY <1>1, <1>2

(* Where no base is in force, a step rejects the document if and only if it *)
(* is the action of a name whose prefix no directive before it defines: no  *)
(* directive and no other term does.                                        *)
THEOREM RejectsOnlyMeaninglessNames ==
  ASSUME NoneIsNew, PlainDirectives
  PROVE  Spec => FailsOnMeaninglessName
PROOF
  <1>1. TermInv /\ [Next]_vars
          => [~failed /\ meantBase = None =>
                (failed' <=> \E p \in Prefixes : PrefixedName(p) /\ meantPrefix[p] = None)]_vars
    BY RejectingStep
  <1> QED
    BY <1>1, TermInvariant, PTL DEF Spec, FailsOnMeaninglessName

-----------------------------------------------------------------------------
(* Labels of blank nodes.  A generated label has a number below the counter *)
(* and is of one node: the counter was at that number when the label was    *)
(* made, and has only grown since.                                          *)

OnlyUserLabels == "bLabels" \notin Constructs

GeneratedFor(node) ==
  \E n \in Nat : n < latest_BN_label /\ node[2] = Generated(n)

ChosenFor(node) ==
  \E label \in UserLabels : node = <<<<"labelled", label>>, label>>

LabelInv ==
  /\ latest_BN_label \in Nat
  /\ \A node \in named : GeneratedFor(node) \/ ChosenFor(node)
  /\ UniqueLabels

LEMMA LabelInvStep ==
  ASSUME OnlyUserLabels, LabelInv, [Next]_vars
  PROVE  LabelInv'
PROOF
  <1>1. /\ latest_BN_label \in Nat /\ latest_BN_label + 1 \in Nat
        /\ \A node \in named : GeneratedFor(node) \/ ChosenFor(node)
    BY DEF LabelInv
  <1>2. \A label \in UserLabels : label = <<"user", 1>>
    BY DEF OnlyUserLabels, UserLabels
  <1>3. \A n : Generated(n) # <<"user", 1>>
    <2>1. \A n : Generated(n)[1] = "b"
      BY DEF Generated
    <2>2. <<"user", 1>>[1] = "user"
      OBVIOUS
    <2> QED
      BY <2>1, <2>2
  <1>4. CASE ANON
    <2>1. latest_BN_label' = latest_BN_label + 1
      BY <1>4 DEF ANON, createBlankNodeLabel
    <2>2. PICK node, k : /\ named' = named \cup {node}
                         /\ k = latest_BN_label
                         /\ node[2] = Generated(k)
      <3> DEFINE new == <<<<"anonymous", items'>>, blank_node_string_'>>
      <3>1. named' = named \cup {new} /\ blank_node_string_' = Generated(latest_BN_label)
        BY <1>4 DEF ANON
      <3>2. new[2] = blank_node_string_'
        OBVIOUS
      <3> HIDE DEF new
      <3> QED
        BY <3>1, <3>2
    <2>3. ASSUME NEW other \in named
          PROVE  other[2] # node[2]
      <3>1. ASSUME NEW n \in Nat, n < latest_BN_label, other[2] = Generated(n)
            PROVE  other[2] # node[2]
        <4>1. n # k
          BY <1>1, <2>2, <3>1
        <4>2. Generated(n)[2] = n /\ Generated(k)[2] = k
          BY DEF Generated
        <4> QED
          BY <2>2, <3>1, <4>1, <4>2
      <3>2. CASE ChosenFor(other)
        <4>1. other[2] = <<"user", 1>>
          BY <1>2, <3>2 DEF ChosenFor
        <4> QED
          BY <1>3, <2>2, <4>1
      <3> QED
        BY <1>1, <3>1, <3>2 DEF GeneratedFor
    <2>4. UniqueLabels'
      BY <2>2, <2>3 DEF LabelInv, UniqueLabels
    <2>5. ASSUME NEW other \in named
          PROVE  (GeneratedFor(other) \/ ChosenFor(other))'
      <3>1. GeneratedFor(other) => GeneratedFor(other)'
        <4>1. ASSUME NEW n \in Nat, n < latest_BN_label
              PROVE  n < latest_BN_label'
          BY <1>1, <2>1, <4>1
        <4> QED
          BY <4>1 DEF GeneratedFor, Generated
      <3>2. ChosenFor(other) => ChosenFor(other)'
        BY DEF ChosenFor
      <3> QED
        BY <1>1, <3>1, <3>2
    <2>6. GeneratedFor(node)'
      <3>1. k \in Nat /\ k < latest_BN_label'
        BY <1>1, <2>1, <2>2
      <3> QED
        BY <2>2, <3>1 DEF GeneratedFor, Generated
    <2> QED
      BY <1>1, <2>1, <2>2, <2>4, <2>5, <2>6 DEF LabelInv
  <1>5. ASSUME NEW chosen \in UserLabels, BLANK_NODE_LABEL(chosen)
        PROVE  LabelInv'
    <2> DEFINE node == <<<<"labelled", chosen>>, chosen>>
    <2>1. named' = named \cup {node} /\ latest_BN_label' = latest_BN_label
      BY <1>5 DEF BLANK_NODE_LABEL
    <2>2. ChosenFor(node) /\ node[2] = <<"user", 1>>
      BY <1>2 DEF ChosenFor
    <2>3. ASSUME NEW other \in named, other[2] = node[2]
          PROVE  other = node
      <3>1. ChosenFor(other)
        BY <1>1, <1>3, <2>2, <2>3 DEF GeneratedFor
      <3> QED
        BY <1>2, <3>1 DEF ChosenFor
    <2> HIDE DEF node
    <2>4. UniqueLabels'
      BY <2>1, <2>3 DEF LabelInv, UniqueLabels
    <2> QED
      BY <1>1, <2>1, <2>2, <2>4 DEF LabelInv, GeneratedFor, ChosenFor
  <1>6. CASE UNCHANGED <<latest_BN_label, named>>
    BY <1>6 DEF LabelInv, GeneratedFor, ChosenFor, UniqueLabels
  <1>7. \/ ANON \/ \E label \in UserLabels : BLANK_NODE_LABEL(label)
        \/ UNCHANGED <<latest_BN_label, named>>
    BY DEF Next, Matches, Stopped, vars, nodeVars, IRIREF, PrefixedName, verb_a, turtleString,
           LANGTAG, RdfLiteralTypeTag, RdfLiteral, NumericLiteral, BooleanLiteral, BlankNode, var,
           prefixID, base, Directive
  <1> QED
    BY <1>4, <1>5, <1>6, <1>7

(* Two blank nodes of a document have two labels if its own labels are not  *)
(* of the form that createBlankNodeLabel gives; nothing is supposed of its  *)
(* directives.                                                              *)
THEOREM BlankNodesKeepApart ==
  ASSUME OnlyUserLabels
  PROVE  Spec => []UniqueLabels
PROOF
  <1>1. Init => LabelInv
    BY DEF Init, LabelInv, UniqueLabels
  <1>2. LabelInv /\ [Next]_vars => LabelInv'
    BY LabelInvStep
  <1>3. LabelInv => UniqueLabels
    BY DEF LabelInv
  <1> QED
    BY <1>1, <1>2, <1>3, PTL DEF Spec

=============================================================================
