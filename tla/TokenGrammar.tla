---------------------------- MODULE TokenGrammar ----------------------------
(***************************************************************************)
(* The tokens of Grammar.hpp, PN_LOCAL_ESC to var, as rules of PEGTL.      *)
(*                                                                         *)
(* A rule is data, and Match interprets it: like PEGTL it commits to the   *)
(* first alternative of a sor that matches, lets star take all it can and  *)
(* never comes back to either.  A text is a sequence of characters, each a *)
(* string: the character itself, or the name of one that TLA+ cannot       *)
(* spell.                                                                  *)
(***************************************************************************)
EXTENDS Naturals, Sequences

-----------------------------------------------------------------------------
(* PEGTL's combinators.                                                     *)

one(chars) == [op |-> "one", chars |-> chars]
not_one(chars) == [op |-> "not_one", chars |-> chars]
seq(rules) == [op |-> "seq", rules |-> rules]
sor(rules) == [op |-> "sor", rules |-> rules]
star(rule) == [op |-> "star", rule |-> rule]
plus(rule) == seq(<<rule, star(rule)>>)
opt(rule) == sor(<<rule, seq(<<>>)>>)

Fails == 0

(* Where the rule ends that begins at position i, or Fails.                 *)
RECURSIVE Match(_, _, _)
Match(rule, text, i) ==
  CASE rule.op = "one" ->
         IF i <= Len(text) /\ text[i] \in rule.chars THEN i + 1 ELSE Fails
    [] rule.op = "not_one" ->
         IF i <= Len(text) /\ text[i] \notin rule.chars THEN i + 1 ELSE Fails
    [] rule.op = "seq" ->
         IF rule.rules = <<>> THEN i
         ELSE LET next == Match(Head(rule.rules), text, i)
              IN  IF next = Fails THEN Fails ELSE Match(seq(Tail(rule.rules)), text, next)
    [] rule.op = "sor" ->
         IF rule.rules = <<>> THEN Fails
         ELSE LET next == Match(Head(rule.rules), text, i)
              IN  IF next = Fails THEN Match(sor(Tail(rule.rules)), text, i) ELSE next
    [] rule.op = "star" ->
         LET next == Match(rule.rule, text, i)
         IN  IF next = Fails THEN i ELSE Match(rule, text, next)

Matches(rule, text) == Match(rule, text, 1) # Fails

(* What the rule matches at the beginning of the text, if it does.          *)
Matched(rule, text) == SubSeq(text, 1, Match(rule, text, 1) - 1)

-----------------------------------------------------------------------------
(* Characters.                                                              *)

lower == {"a", "b", "c", "d", "e", "f", "g", "h", "i", "j", "k", "l", "m",
          "n", "o", "p", "q", "r", "s", "t", "u", "v", "w", "x", "y", "z"}
upper == {"A", "B", "C", "D", "E", "F", "G", "H", "I", "J", "K", "L", "M",
          "N", "O", "P", "Q", "R", "S", "T", "U", "V", "W", "X", "Y", "Z"}
digit == {"0", "1", "2", "3", "4", "5", "6", "7", "8", "9"}
whiteSpace == {" ", "\t", "\r", "\n"}
control == {"\f", "U+000B"}

(* One of the ranges of PN_CHARS_BASE, and one of those that PN_CHARS adds. *)
beyondAscii == {"U+00E9"}
combining == {"U+0301"}

HEX == one({"a", "b", "c", "d", "e", "f", "A", "B", "C", "D", "E", "F"} \cup digit)

PN_LOCAL_ESC ==
  seq(<<one({"\\"}), one({"_", "~", ".", "-", "!", "$", "&", "'", "(", ")", "*", "+", ",", ";",
                          "=", "/", "?", "#", "@", "%"})>>)

PERCENT == seq(<<one({"%"}), HEX, HEX>>)

PLX == sor(<<PERCENT, PN_LOCAL_ESC>>)

BaseChars == lower \cup upper \cup beyondAscii

PN_CHARS_BASE == one(BaseChars)

PN_CHARS_U == one(BaseChars \cup {"_"})

PN_CHARS == one(BaseChars \cup {"_", "-"} \cup digit \cup combining)

-----------------------------------------------------------------------------
(* Names.                                                                   *)

PN_LOCAL_Greedy ==
  seq(<<sor(<<PN_CHARS_U, one({":"}), one(digit), PLX>>),
        star(sor(<<one({"."}), PN_CHARS, one({":"}), PLX>>))>>)

PN_LOCAL ==
  seq(<<sor(<<PN_CHARS_U, one({":"}), one(digit), PLX>>),
        star(seq(<<star(one({"."})), plus(sor(<<PN_CHARS, one({":"}), PLX>>))>>))>>)

DottedChars == star(seq(<<star(one({"."})), PN_CHARS>>))

PN_PREFIX == seq(<<PN_CHARS_BASE, DottedChars>>)

BLANK_NODE_LABEL ==
  seq(<<one({"_"}), one({":"}), sor(<<PN_CHARS_U, one(digit)>>), DottedChars>>)

PNAME_NS == seq(<<opt(PN_PREFIX), one({":"})>>)

PNAME_LN == seq(<<PNAME_NS, PN_LOCAL>>)

PrefixedName == sor(<<PNAME_LN, PNAME_NS>>)

ANON == seq(<<one({"["}), star(one(whiteSpace)), one({"]"})>>)

BlankNode == sor(<<BLANK_NODE_LABEL, ANON>>)

varname ==
  seq(<<sor(<<PN_CHARS_U, one(digit)>>),
        star(sor(<<PN_CHARS_U, one(digit), one(combining)>>))>>)

var1 == seq(<<one({"?"}), varname>>)

var2 == seq(<<one({"$"}), varname>>)

var == sor(<<var1, var2>>)

-----------------------------------------------------------------------------
(* Strings and IRIs.                                                        *)

HexDigits(n) == seq([k \in 1 .. n |-> HEX])

UCHAR ==
  sor(<<seq(<<one({"\\"}), one({"u"}), HexDigits(4)>>),
        seq(<<one({"\\"}), one({"U"}), HexDigits(8)>>)>>)

ECHAR == seq(<<one({"\\"}), one({"t", "b", "n", "r", "f", "\"", "'", "\\"})>>)

ShortString(quote) ==
  seq(<<one({quote}),
        star(sor(<<not_one({quote, "\\", "\r", "\n"}), ECHAR, UCHAR>>)),
        one({quote})>>)

LongString(quote) ==
  LET q == one({quote})
  IN  seq(<<q, q, q,
            star(seq(<<opt(sor(<<seq(<<q, q>>), q>>)),
                       sor(<<not_one({quote, "\\"}), ECHAR, UCHAR>>)>>)),
            q, q, q>>)

STRING_LITERAL_QUOTE == ShortString("\"")

STRING_LITERAL_SINGLE_QUOTE == ShortString("'")

STRING_LITERAL_LONG_QUOTE == LongString("\"")

STRING_LITERAL_LONG_SINGLE_QUOTE == LongString("'")

turtleString ==
  sor(<<STRING_LITERAL_LONG_QUOTE, STRING_LITERAL_LONG_SINGLE_QUOTE,
        STRING_LITERAL_SINGLE_QUOTE, STRING_LITERAL_QUOTE>>)

(* A character of an IRI is above 0x20.                                     *)
IRIREF ==
  seq(<<one({"<"}),
        star(sor(<<not_one({"<", ">", "\"", "{", "}", "|", "^", "U+0060", "\\"}
                             \cup whiteSpace \cup control),
                   UCHAR>>)),
        one({">"})>>)

iri == sor(<<IRIREF, PrefixedName>>)

LANGTAG ==
  seq(<<one({"@"}), plus(one(lower \cup upper)),
        star(seq(<<one({"-"}), plus(one(lower \cup upper \cup digit))>>))>>)

RdfLiteralTypeTag == seq(<<one({"^"}), one({"^"}), iri>>)

RdfLiteral == seq(<<turtleString, opt(sor(<<LANGTAG, RdfLiteralTypeTag>>))>>)

-----------------------------------------------------------------------------
(* Numbers and truth values.                                                *)

sign == opt(sor(<<one({"+"}), one({"-"})>>))

dot == one({"."})

INTEGER == seq(<<sign, plus(one(digit))>>)

DECIMAL == seq(<<sign, star(one(digit)), dot, plus(one(digit))>>)

EXPONENT == seq(<<sor(<<one({"e"}), one({"E"})>>), sign, plus(one(digit))>>)

DOUBLE ==
  seq(<<sign, sor(<<seq(<<plus(one(digit)), dot, star(one(digit)), EXPONENT>>),
                    seq(<<dot, plus(one(digit)), EXPONENT>>),
                    seq(<<plus(one(digit)), EXPONENT>>)>>)>>)

NumericLiteral_IntegerFirst == sor(<<INTEGER, DECIMAL, DOUBLE>>)

NumericLiteral == sor(<<DOUBLE, DECIMAL, INTEGER>>)

Word(chars) == seq([k \in 1 .. Len(chars) |-> one({chars[k]})])

BooleanLiteral == sor(<<Word(<<"t", "r", "u", "e">>), Word(<<"f", "a", "l", "s", "e">>)>>)

-----------------------------------------------------------------------------
(* Terms, and what may stand between tokens.                                *)

literal == sor(<<RdfLiteral, NumericLiteral, BooleanLiteral>>)

term == sor(<<literal, BlankNode, iri>>)

comment == seq(<<one({"#"}), star(not_one({"\n", "\r", "\f"})), one({"\n", "\r"})>>)

ignored == star(sor(<<one(whiteSpace \cup control), comment>>))
=============================================================================
