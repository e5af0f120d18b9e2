---------------------------- MODULE MCTermActions ----------------------------
(***************************************************************************)
(* The instances of TermActions that TLC checks.  In the first no prefix   *)
(* is defined twice, directives have white space between their tokens and  *)
(* no label of the document has the form of a generated one.               *)
(***************************************************************************)
EXTENDS TermActions

BaseAndA == {"base", "a"}

FreeDirectives == {"redefinition", "glued"}
=============================================================================
