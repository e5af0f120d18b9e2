--------------------------- MODULE MCStringParser ---------------------------
(***************************************************************************)
(* The instances of StringParser that TLC checks.                          *)
(***************************************************************************)
EXTENDS StringParser
=============================================================================
