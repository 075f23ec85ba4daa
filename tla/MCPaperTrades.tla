--------------------------- MODULE MCPaperTrades ---------------------------
(* Small instances of PaperTrades. *)
EXTENDS PaperTrades

CONSTANT SPI   \* model values

Bar(l, h, c) == [low |-> l, high |-> h, close |-> c]

\* For LONG rows with an ATR of 2: the first hits the stops 1 and 2, the second
\* hits 2 and approaches 1; without a bar both are clear.
TwoBars == {Bar(1, 3, 2), Bar(2, 3, 2)}
=============================================================================
