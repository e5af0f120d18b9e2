----------------------------- MODULE MCParseTerm -----------------------------
(***************************************************************************)
(* The texts that TLC feeds to ParseTerm: for each part of the grammar the *)
(* characters that it tells apart, in every order up to a bound that leaves *)
(* room for the longest token and for what comes after it.                 *)
(***************************************************************************)
EXTENDS ParseTerm

Escape == <<"\\", "u", "1", "1", "1", "1">>

Single(chars) == {<<c>> : c \in chars}

From(start, more, bound) == [start |-> start, pieces |-> more, bound |-> bound]

Texts ==
  [numbers |-> From(<<>>, Single({"1", ".", "e", "+", "-"}), 6),
   quotes |-> From(<<>>, Single({"\"", "a", "\\", "\n"}) \cup {<<"\"", "\"", "\"">>, Escape}, 5),
   singleQuotes |-> From(<<>>, Single({"'", "\"", "\\", "\n"}) \cup {<<"'", "'", "'">>}, 5),
   tags |-> From(<<"\"", "a", "\"">>, Single({"@", "a", "-", "1", "<", ">", ":", "xsd:string"})
                                       \cup {<<"^", "^">>}, 4),
   names |-> From(<<>>, Single({"a", ":", ".", "_", "1", "U+0301"}), 5),
   locals |-> From(<<"a", ":">>, Single({"a", ".", ":", "%", "\\", "-"}) \cup {<<"%", "1", "1">>}, 4),
   iris |-> From(<<"<">>, Single({"a", " ", "\\", ">"}) \cup {Escape}, 4),
   variables |-> From(<<>>, Single({"?", "$", "a", "_", "-", "1", "U+0301"}), 4),
   blanks |-> From(<<>>, Single({"[", "]", " ", "\n", "#", "\f"}), 5),
   words |-> From(<<>>, Single({"a", ":"}) \cup {<<"t", "r", "u", "e">>, <<"f", "a", "l", "s", "e">>}, 3)]
=============================================================================
