------------------------- MODULE MCTurtleFileParser -------------------------
(***************************************************************************)
(* The instances of TurtleFileParser that TLC checks.  Statements have at  *)
(* most two triples, which is enough for a statement to overrun a          *)
(* threshold between two tests of it.                                      *)
(***************************************************************************)
EXTENDS TurtleFileParser

NoErrors == {}

AllErrors == {"syntax", "undefinedPrefix"}
=============================================================================
