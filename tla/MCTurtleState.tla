---------------------------- MODULE MCTurtleState ----------------------------
(***************************************************************************)
(* The instances of TurtleState that TLC checks.                           *)
(***************************************************************************)
EXTENDS TurtleState
=============================================================================
