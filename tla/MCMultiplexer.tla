----------------------------- MODULE MCMultiplexer -----------------------------
(***************************************************************************)
(* TLC instances of Multiplexer: a small odd window, whose halves of halves *)
(* may be empty, and an even one.                                          *)
(***************************************************************************)
EXTENDS Multiplexer

TwoWindows == {[w |-> 3, h |-> 4], [w |-> 8, h |-> 8]}

===============================================================================
