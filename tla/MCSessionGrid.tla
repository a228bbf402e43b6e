---------------------------- MODULE MCSessionGrid ----------------------------
(***************************************************************************)
(* TLC instances of SessionGrid: names for the characters.                  *)
(***************************************************************************)
EXTENDS SessionGrid

CONSTANTS a, b

===============================================================================
