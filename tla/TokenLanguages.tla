--------------------------- MODULE TokenLanguages ---------------------------
(***************************************************************************)
(* What the tokens of TokenGrammar are, without a matcher: for each token  *)
(* the set of its texts, told by where the characters of a text stand.     *)
(***************************************************************************)
EXTENDS TokenGrammar

Rest(s, n) == SubSeq(s, n + 1, Len(s))

Over(chars, s) == \A i \in 1 .. Len(s) : s[i] \in chars

NonEmpty(s) == s # <<>>

StartsWith(chars, s) == NonEmpty(s) /\ s[1] \in chars

EndsWith(char, s) == NonEmpty(s) /\ s[Len(s)] = char

-----------------------------------------------------------------------------
(* Numbers.                                                                 *)

Unsigned(s) == IF StartsWith({"+", "-"}, s) THEN Rest(s, 1) ELSE s

Digits(s) == NonEmpty(s) /\ Over(digit, s)

(* Digits with at most one dot, which is not all there is.                  *)
Mantissa(s) ==
  /\ \E i \in 1 .. Len(s) : s[i] \in digit
  /\ Over(digit \cup {"."}, s)
  /\ \A i, j \in 1 .. Len(s) : s[i] = "." /\ s[j] = "." => i = j

IsINTEGER(s) == Digits(Unsigned(s))

IsDECIMAL(s) == Mantissa(Unsigned(s)) /\ ~Digits(Unsigned(s)) /\ ~EndsWith(".", s)

IsDOUBLE(s) ==
  \E e \in 1 .. Len(Unsigned(s)) :
    /\ Unsigned(s)[e] \in {"e", "E"}
    /\ Mantissa(SubSeq(Unsigned(s), 1, e - 1))
    /\ IsINTEGER(Rest(Unsigned(s), e))

-----------------------------------------------------------------------------
(* Escapes.  A backslash begins an escape unless it is the second character *)
(* of one.                                                                  *)

BeginsEscape(s, i) ==
  /\ s[i] = "\\"
  /\ \E k \in 0 .. i - 1 : /\ k % 2 = 0
                           /\ \A j \in i - k .. i - 1 : s[j] = "\\"
                           /\ i - k = 1 \/ s[i - k - 1] # "\\"

Hex(s, first, last) == last <= Len(s) /\ \A i \in first .. last : s[i] \in HEX.chars

UcharEnd(s, i) ==
  CASE i < Len(s) /\ s[i + 1] = "u" /\ Hex(s, i + 2, i + 5) -> i + 5
    [] i < Len(s) /\ s[i + 1] = "U" /\ Hex(s, i + 2, i + 9) -> i + 9
    [] OTHER -> Fails

EcharEnd(s, i) ==
  IF i < Len(s) /\ s[i + 1] \in {"t", "b", "n", "r", "f", "\"", "'", "\\"} THEN i + 1 ELSE Fails

(* In a string every escape is an ECHAR or a UCHAR.                         *)
EscapesValid(s) ==
  \A i \in 1 .. Len(s) : BeginsEscape(s, i) => EcharEnd(s, i) # Fails \/ UcharEnd(s, i) # Fails

(* No escape covers position i.                                             *)
Bare(s, i) == ~BeginsEscape(s, i) /\ (i > 1 => ~BeginsEscape(s, i - 1))

-----------------------------------------------------------------------------
(* Strings: quotes around characters without a bare quote, or three quotes  *)
(* around characters without three bare quotes in a row and without one     *)
(* just before the end.                                                     *)

Content(s, quotes) == SubSeq(s, quotes + 1, Len(s) - quotes)

Quoted(s, quote, quotes) ==
  /\ Len(s) >= 2 * quotes
  /\ \A i \in 1 .. quotes : s[i] = quote /\ s[Len(s) + 1 - i] = quote

BareQuote(c, i, quote) == i \in 1 .. Len(c) /\ c[i] = quote /\ Bare(c, i)

IsShortString(s, quote) ==
  /\ Quoted(s, quote, 1)
  /\ LET c == Content(s, 1)
     IN  /\ EscapesValid(c)
         /\ \A i \in 1 .. Len(c) : c[i] \notin {"\r", "\n"} /\ ~BareQuote(c, i, quote)

IsLongString(s, quote) ==
  /\ Quoted(s, quote, 3)
  /\ LET c == Content(s, 3)
     IN  /\ EscapesValid(c)
         /\ ~BareQuote(c, Len(c), quote)
         /\ ~ \E i \in 1 .. Len(c) : \A k \in 0 .. 2 : BareQuote(c, i + k, quote)

IsTurtleString(s) == \E quote \in {"\"", "'"} : IsShortString(s, quote) \/ IsLongString(s, quote)

-----------------------------------------------------------------------------
(* IRIs and names.                                                          *)

IsIRIREF(s) ==
  /\ Len(s) >= 2 /\ s[1] = "<" /\ s[Len(s)] = ">"
  /\ LET c == Content(s, 1)
     IN  /\ \A i \in 1 .. Len(c) : c[i] \notin {"<", ">", "\"", "{", "}", "|", "^", "U+0060"}
                                               \cup whiteSpace \cup control
         /\ \A i \in 1 .. Len(c) : c[i] = "\\" => UcharEnd(c, i) # Fails

NameChars == BaseChars \cup {"_", "-"} \cup digit \cup combining

(* Dots only stand inside a name.                                           *)
IsDotted(s, firsts) ==
  StartsWith(firsts, s) /\ Over(NameChars \cup {"."}, s) /\ ~EndsWith(".", s)

IsPrefix(s) == s = <<>> \/ IsDotted(s, BaseChars)

(* In a local name "%" takes two hexadecimal digits, and a backslash the    *)
(* character after it.                                                      *)
Escapable == PN_LOCAL_ESC.rules[2].chars

LocalEscapesValid(s) ==
  \A i \in 1 .. Len(s) :
    /\ BeginsEscape(s, i) => i < Len(s) /\ s[i + 1] \in Escapable
    /\ s[i] = "%" /\ Bare(s, i) => Hex(s, i + 1, i + 2) /\ Len(s) >= i + 2

IsLocal(s) ==
  /\ NonEmpty(s)
  /\ LocalEscapesValid(s)
  /\ \A i \in 1 .. Len(s) : Bare(s, i) => s[i] \in NameChars \cup {".", ":", "%"}
  /\ s[1] \in BaseChars \cup {"_", ":", "%", "\\"} \cup digit
  /\ ~(s[Len(s)] = "." /\ Bare(s, Len(s)))

IsPrefixedName(s) ==
  \E colon \in 1 .. Len(s) : /\ s[colon] = ":"
                             /\ IsPrefix(SubSeq(s, 1, colon - 1))
                             /\ Rest(s, colon) = <<>> \/ IsLocal(Rest(s, colon))

IsIri(s) == IsIRIREF(s) \/ IsPrefixedName(s)

IsBLANK_NODE_LABEL(s) ==
  Len(s) > 2 /\ s[1] = "_" /\ s[2] = ":" /\ IsDotted(Rest(s, 2), BaseChars \cup {"_"} \cup digit)

IsANON(s) == Len(s) >= 2 /\ s[1] = "[" /\ EndsWith("]", s) /\ Over(whiteSpace, Content(s, 1))

IsVar(s) ==
  /\ StartsWith({"?", "$"}, s)
  /\ StartsWith(BaseChars \cup {"_"} \cup digit, Rest(s, 1))
  /\ Over(BaseChars \cup {"_"} \cup digit \cup combining, Rest(s, 1))

-----------------------------------------------------------------------------
(* Literals.                                                                *)

IsLANGTAG(s) ==
  /\ StartsWith({"@"}, s) /\ StartsWith(lower \cup upper, Rest(s, 1))
  /\ Over(lower \cup upper \cup digit \cup {"-"}, Rest(s, 1))
  /\ ~EndsWith("-", s)
  /\ \A i \in 1 .. Len(s) - 1 : ~(s[i] = "-" /\ s[i + 1] = "-")
  /\ \A i \in 1 .. Len(s) : s[i] \in digit => \E j \in 1 .. i : s[j] = "-"

IsTag(s) == IsLANGTAG(s) \/ (Len(s) > 2 /\ s[1] = "^" /\ s[2] = "^" /\ IsIri(Rest(s, 2)))

IsRdfLiteral(s) ==
  \E n \in 1 .. Len(s) :
    IsTurtleString(SubSeq(s, 1, n)) /\ (Rest(s, n) = <<>> \/ IsTag(Rest(s, n)))

IsBoolean(s) == s \in {<<"t", "r", "u", "e">>, <<"f", "a", "l", "s", "e">>}

IsNumeric(s) == IsINTEGER(s) \/ IsDECIMAL(s) \/ IsDOUBLE(s)

IsTerm(s) ==
  \/ IsRdfLiteral(s) \/ IsNumeric(s) \/ IsBoolean(s)
  \/ IsBLANK_NODE_LABEL(s) \/ IsANON(s) \/ IsIri(s)

(* White space and comments, each with the end of its line and without a    *)
(* form feed.                                                               *)
Newline == {"\n", "\r"}

InComment(s, i) == \E j \in 1 .. i : s[j] = "#" /\ \A k \in j .. i - 1 : s[k] \notin Newline

IsIgnored(s) ==
  \A i \in 1 .. Len(s) :
    IF InComment(s, i)
      THEN s[i] # "\f" /\ \E k \in i .. Len(s) : s[k] \in Newline
      ELSE s[i] \in whiteSpace \cup control

-----------------------------------------------------------------------------
(* The tokens by their names.                                               *)

Rules ==
  [DOUBLE |-> DOUBLE, DECIMAL |-> DECIMAL, INTEGER |-> INTEGER, NumericLiteral |-> NumericLiteral,
   turtleString |-> turtleString, RdfLiteral |-> RdfLiteral, LANGTAG |-> LANGTAG,
   IRIREF |-> IRIREF, PrefixedName |-> PrefixedName, BlankNode |-> BlankNode, var |-> var,
   ignored |-> ignored]

IsToken(name, s) ==
  CASE name = "DOUBLE" -> IsDOUBLE(s)
    [] name = "DECIMAL" -> IsDECIMAL(s)
    [] name = "INTEGER" -> IsINTEGER(s)
    [] name = "NumericLiteral" -> IsNumeric(s)
    [] name = "turtleString" -> IsTurtleString(s)
    [] name = "RdfLiteral" -> IsRdfLiteral(s)
    [] name = "LANGTAG" -> IsLANGTAG(s)
    [] name = "IRIREF" -> IsIRIREF(s)
    [] name = "PrefixedName" -> IsPrefixedName(s)
    [] name = "BlankNode" -> IsBLANK_NODE_LABEL(s) \/ IsANON(s)
    [] name = "var" -> IsVar(s)
    [] name = "ignored" -> IsIgnored(s)
=============================================================================
