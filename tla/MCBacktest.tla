----------------------------- MODULE MCBacktest ------------------------------
(* A small instance of a market beside its backtest. *)
EXTENDS Backtest

Up == [adx |-> 30, moms |-> <<3, 3, NaN>>]
Down == [adx |-> 25, moms |-> <<-3, 2, -4>>]
Mixed == [adx |-> 30, moms |-> <<3, -3, 2>>]     \* two thresholds, no majority
Low == [adx |-> 18, moms |-> <<3, 3, 3>>]        \* over this gate, under the ADX that holds a position

Snap(l, h, c, atr, r) ==
  [low |-> l, high |-> h, close |-> c, atr |-> atr, vol |-> 100, weak |-> FALSE,
   signal |-> GetSignal(r)]

Rising == Snap(5, 7, 6, 1, Up)
Higher == Snap(7, 9, 8, 2, Up)       \* a pyramid's distance, and an ATR that jumped
Whipsaw == Snap(3, 8, 6, 1, Up)      \* hits the stop and still signals LONG
Crash == Snap(1, 2, 1, 2, Down)      \* gaps through a LONG stop
Quiet == Snap(5, 6, 5, 1, Mixed)
Weak == [Snap(5, 7, 6, 1, Low) EXCEPT !.weak = TRUE]
Calm == [Rising EXCEPT !.vol = 200]  \* low volatility: twice the size
Wild == [Snap(3, 5, 4, 1, Down) EXCEPT !.vol = 30]

AllSnapshots == {Rising, Higher, Whipsaw, Crash, Quiet, Weak, Calm, Wild}

Indicators ==
  [m \in AllSnapshots |->
     CASE m \in {Rising, Higher, Whipsaw, Calm} -> Up
       [] m \in {Crash, Wild} -> Down
       [] m = Quiet -> Mixed
       [] OTHER -> Low]

\* Without floor and cap, and with both, as the markets are shipped.
Open == [trail |-> [LONG |-> 3, SHORT |-> 2], risk |-> [LONG |-> 10, SHORT |-> 5],
         cap |-> NoCap, floor |-> FALSE]
Shipped == [Open EXCEPT !.cap = 1, !.floor = TRUE]
SomeSettings == {Open, Shipped}

=============================================================================
