-------------------------- MODULE MCPositionEngine --------------------------
(* A small instance of PositionEngine. *)
EXTENDS PositionEngine

Snap(l, h, c, atr, s) ==
  [low |-> l, high |-> h, close |-> c, atr |-> atr, vol |-> 100, weak |-> FALSE, signal |-> s]

Rising == Snap(5, 7, 6, 1, "LONG")
Higher == Snap(7, 9, 8, 2, "LONG")       \* a pyramid's distance, and an ATR that jumped
Crash == Snap(1, 2, 1, 2, "SHORT")       \* gaps through a LONG stop
Quiet == Snap(5, 6, 5, 1, "FLAT")

SomeSnapshots == {Rising, Higher, Crash, Quiet}

\* The shipped multipliers, the stop of longs narrowed, that of shorts widened.
Shipped ==
  [trail |-> [LONG |-> 3, SHORT |-> 2], risk |-> [LONG |-> 10, SHORT |-> 5],
   cap |-> 1, floor |-> TRUE]
Retuned ==
  [trail |-> [LONG |-> 2, SHORT |-> 3], risk |-> [LONG |-> 10, SHORT |-> 5],
   cap |-> NoCap, floor |-> FALSE]
SomeSettings == {Shipped, Retuned}

=============================================================================
