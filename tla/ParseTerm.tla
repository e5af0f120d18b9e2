------------------------------ MODULE ParseTerm ------------------------------
(***************************************************************************)
(* parse_term: the rule term on the text of one term, with the actions of  *)
(* BasicActions.hpp on a fresh state, and the constructors and accessors   *)
(* of Term.hpp.  A state of this module is one text; texts grow piece by   *)
(* piece.                                                                  *)
(***************************************************************************)
EXTENDS TokenLanguages

CONSTANT Alphabets  (* by name: how a text starts, the pieces that may      *)
                    (* follow, and the bound on how many of them do         *)

VARIABLES
  alphabet,   (* one of the names                                           *)
  pieces,     (* how many pieces the text has                               *)
  text

vars == <<alphabet, pieces, text>>

Init ==
  /\ alphabet \in DOMAIN Alphabets
  /\ pieces = 0
  /\ text = Alphabets[alphabet].start

Extend ==
  /\ pieces < Alphabets[alphabet].bound
  /\ \E piece \in Alphabets[alphabet].pieces : text' = text \o piece
  /\ pieces' = pieces + 1
  /\ UNCHANGED alphabet

Complete == pieces = Alphabets[alphabet].bound /\ UNCHANGED vars

Next == Extend \/ Complete

Spec == Init /\ [][Next]_vars

-----------------------------------------------------------------------------
(* Term.hpp: a term is its identifier, and views of the identifier.  An     *)
(* optional string is a sequence of none or one.                            *)

View(start, count) == [start |-> start, count |-> count]

NoView == View(0, 0)

string_view(view, identifier) ==
  SubSeq(identifier, view.start + 1, view.start + view.count)

Term(identifier, type, value, lang, data_type) ==
  [identifier |-> identifier, type |-> type, value |-> value, lang |-> lang,
   data_type |-> data_type]

NoTerm == Term(<<>>, "None", NoView, NoView, NoView)

URIRef(uri) == Term(<<"<">> \o uri \o <<">">>, "URIRef", View(1, Len(uri)), NoView, NoView)

BNode(label) == Term(<<"_", ":">> \o label, "BNode", View(2, Len(label)), NoView, NoView)

(* The IRIs of the built-in datatypes, a character each.                    *)
Xsd == [string |-> <<"xsd:string">>, double |-> <<"xsd:double">>, decimal |-> <<"xsd:decimal">>,
        integer |-> <<"xsd:integer">>, boolean |-> <<"xsd:boolean">>]

TypeStart_NoBracket(value) == 1 + Len(value) + 1 + 2

TypeStart(value) == 1 + Len(value) + 1 + 2 + 1

Literal(value, lang, type) ==
  LET quoted == <<"\"">> \o value \o <<"\"">>
      view == View(1, Len(value))
  IN  CASE lang # <<>> ->
             Term(quoted \o <<"@">> \o lang[1], "Literal", view,
                  View(1 + Len(value) + 1 + 1, Len(lang[1])), NoView)
        [] lang = <<>> /\ type # <<>> /\ type # <<Xsd.string>> ->
             Term(quoted \o <<"^", "^", "<">> \o type[1] \o <<">">>, "Literal", view,
                  NoView, View(TypeStart(value), Len(type[1])))
        [] OTHER -> Term(quoted, "Literal", view, NoView, NoView)

value(t) == string_view(t.value, t.identifier)

lang(t) == string_view(t.lang, t.identifier)

dataType(t) == string_view(t.data_type, t.identifier)

hasLang(t) == t.lang.count # 0

hasDataType(t) == t.data_type.count # 0

-----------------------------------------------------------------------------
(* ParseTerm.hpp.  An exception of an action, which only that of            *)
(* PrefixedName throws on a state without prefixes, leaves parse_term; that *)
(* the text does not match, or not to its end, goes unnoticed.              *)

Returns(t) == [threw |-> FALSE, term |-> t]

Throws == [threw |-> TRUE, term |-> NoTerm]

(* The alternative of a sor that matches the text first.                    *)
Chosen(rule, s) ==
  LET matching == {k \in DOMAIN rule.rules : Matches(rule.rules[k], s)}
  IN  rule.rules[CHOOSE k \in matching : \A j \in matching : k <= j]

After(rule, s) == Rest(s, Match(rule, s, 1) - 1)

(* RdfLiteralTypeTag takes "^^<" and ">" off the tag.                       *)
TagIri_KeepsBracket(type) == SubSeq(Matched(IRIREF, type), 1, Match(IRIREF, type, 1) - 2)

TagIri(type) == Content(Matched(IRIREF, type), 1)

(* turtleString takes one character off each end, of a long string too.     *)
RdfLiteralOf(s) ==
  LET string == Content(Matched(turtleString, s), 1)
      tag == After(turtleString, s)
      type == Rest(tag, 2)
  IN  CASE Matches(LANGTAG, tag) ->
             Returns(Literal(string, <<Rest(Matched(LANGTAG, tag), 1)>>, <<>>))
        [] Matches(RdfLiteralTypeTag, tag) /\ Matches(IRIREF, type) ->
             Returns(Literal(string, <<>>, <<TagIri(type)>>))
        [] Matches(RdfLiteralTypeTag, tag) /\ ~Matches(IRIREF, type) -> Throws
        [] OTHER -> Returns(Literal(string, <<>>, <<>>))

NumericType(rule) ==
  CASE rule = DOUBLE -> Xsd.double
    [] rule = DECIMAL -> Xsd.decimal
    [] rule = INTEGER -> Xsd.integer

parse_term(s) ==
  IF ~Matches(term, s) THEN Returns(NoTerm)
  ELSE LET rule == Chosen(Chosen(term, s), s)
           read == Matched(rule, s)
       IN  CASE rule = RdfLiteral -> RdfLiteralOf(s)
             [] rule = NumericLiteral ->
                  Returns(Literal(read, <<>>, <<NumericType(Chosen(NumericLiteral, s))>>))
             [] rule = BooleanLiteral -> Returns(Literal(read, <<>>, <<Xsd.boolean>>))
             [] rule = BLANK_NODE_LABEL -> Returns(BNode(Rest(read, 2)))
             [] rule = ANON -> Returns(BNode(<<"b", "1">>))
             [] rule = IRIREF -> Returns(URIRef(Content(read, 1)))
             [] rule = PrefixedName -> Throws

-----------------------------------------------------------------------------
(* The longest beginning of the text that is a token is what the rule       *)
(* matches, for each token: no alternative hides a longer one, and star     *)
(* takes nothing that the rest of its rule needs (Grammar.hpp).             *)
Beginnings(Is(_)) == {n \in 0 .. Len(text) : Is(SubSeq(text, 1, n))}

IsLongest(n, lengths) == n \in lengths /\ \A k \in lengths : k <= n

MatchesLongest(rule, lengths) ==
  IF lengths = {} THEN ~Matches(rule, text)
                  ELSE IsLongest(Match(rule, text, 1) - 1, lengths)

TokensAreLongest ==
  \A name \in DOMAIN Rules :
    MatchesLongest(Rules[name], Beginnings(LAMBDA s : IsToken(name, s)))

(* parse_term reads the longest term that the text begins with, gives a     *)
(* number the datatype of its notation, and throws exactly when the term    *)
(* contains a prefixed name.  What it does with a text that does not begin  *)
(* with a term is left out: the code returns an empty term where its        *)
(* comment promises std::logic_error (ParseTerm.hpp).  BooleanLiteral does  *)
(* not look at what follows it, so that a name may begin with a truth value.*)
BeginsWithBoolean == \E n \in 4 .. 5 : n <= Len(text) /\ IsBoolean(SubSeq(text, 1, n))

ReadsLongestTerm ==
  LET lengths == Beginnings(IsTerm)
      result == parse_term(text)
      read == Matched(term, text)
      named == \E n \in 0 .. Len(read) : IsPrefixedName(Rest(read, n)) /\
                 (n = 0 \/ (n > 2 /\ IsTurtleString(SubSeq(read, 1, n - 2))))
  IN  BeginsWithBoolean \/
      /\ MatchesLongest(term, lengths)
      /\ lengths # {} =>
           /\ result.threw <=> named
           /\ IsNumeric(read) =>
                /\ value(result.term) = read
                /\ dataType(result.term) = CASE IsINTEGER(read) -> Xsd.integer
                                             [] IsDECIMAL(read) -> Xsd.decimal
                                             [] IsDOUBLE(read) -> Xsd.double

(* What parse_term returns is written down as its identifier, and           *)
(* parse_term reads the same term back, with the same parts (Term.hpp).  A  *)
(* string between single quotes keeps its characters but gets double quotes:*)
(* it must not contain one, nor the end of a line.                          *)
Respelled ==
  LET s == value(parse_term(text).term)
  IN  StartsWith({"'"}, text) /\
      \E i \in 1 .. Len(s) : s[i] \in Newline \/ BareQuote(s, i, "\"")

ReadsBack ==
  LET result == parse_term(text)
  IN  result.threw \/ Respelled \/ parse_term(result.term.identifier) = result

(* value, lang and dataType cut the identifier of a term into its parts,    *)
(* whatever their lengths: nothing of the identifier but the punctuation    *)
(* between them is left out, or read twice (unbound_string_view).           *)
Parts(t) ==
  CASE t.type = "URIRef" -> <<"<">> \o value(t) \o <<">">>
    [] t.type = "BNode" -> <<"_", ":">> \o value(t)
    [] t.type = "Literal" ->
         <<"\"">> \o value(t) \o <<"\"">>
           \o (IF hasLang(t) THEN <<"@">> \o lang(t) ELSE <<>>)
           \o (IF hasDataType(t) THEN <<"^", "^", "<">> \o dataType(t) \o <<">">> ELSE <<>>)
    [] t.type = "None" -> <<>>

EmptyType(t) == t.data_type.start # 0 /\ ~hasDataType(t)

ViewsAreParts == LET t == parse_term(text).term IN EmptyType(t) \/ Parts(t) = t.identifier
=============================================================================
