------------------------------ MODULE Backtest ------------------------------
(***************************************************************************)
(* The backtest of a market beside its live runs: simulate steps every bar *)
(* once and in order, through the same sizing_engine.step, with a vote and *)
(* a bookkeeping of its own.  The code replays a finished history; here    *)
(* the replay takes each bar before the feed moves on, which is the same   *)
(* fold.                                                                   *)
(*                                                                         *)
(* The two can be compared as long as the live side stepped every bar      *)
(* exactly once, nobody traded by hand and nobody saved other settings;    *)
(* after that the replay is Over.                                          *)
(***************************************************************************)
EXTENDS PositionEngine

CONSTANTS
  Reading,        \* the indicators of a bar: its ADX and three momentums
  AdxGate, MomThreshold, VotesRequired, DirectionMode,  \* resolve_vote_params
  NaN,            \* an indicator that is still warming up
  Over            \* the live side left what a backtest can replay

VARIABLE replay   \* simulate's locals, and the bars the two sides have stepped

allVars == <<vars, replay>>

-----------------------------------------------------------------------------
(* The vote. *)

Votes(r, sign) == {i \in 1..3 : r.moms[i] # NaN /\ sign * r.moms[i] > MomThreshold}

Majority(r, sign) == Cardinality(Votes(r, sign)) >= VotesRequired

GateOpen(r) == r.adx # NaN /\ r.adx >= AdxGate

\* get_signal: the vote of a live run.
GetSignal(r) ==
  IF GateOpen(r) /\ Majority(r, 1) /\ DirectionMode # "short_only" THEN "LONG"
  ELSE IF GateOpen(r) /\ ~Majority(r, 1) /\ Majority(r, -1) /\ DirectionMode # "long_only"
    THEN "SHORT"
  ELSE "FLAT"

\* _extract_signals: the vote of the backtest, on every row; it has no
\* direction mode.
ExtractedSignal(r) ==
  IF GateOpen(r) /\ Majority(r, 1) THEN "LONG"
  ELSE IF GateOpen(r) /\ Majority(r, -1) THEN "SHORT"
  ELSE "FLAT"

ASSUME ReadingAssumption ==
  \A m \in Snapshots : m.signal = GetSignal(Reading[m])

-----------------------------------------------------------------------------
(* simulate. *)

\* Mutant: the whole round trip is charged when the position closes.
RealisedPnlRoundTrip(p, exit) ==
  Toward(p.side, exit - p.entry) * p.contracts * Multiplier - 2 * HalfCost * p.contracts

\* _close_position: the net a ClosedTrade carries.
RealisedPnl(p, exit) ==
  Toward(p.side, exit - p.entry) * p.contracts * Multiplier - HalfCost * p.contracts

\* _row_to_bar and _row_to_indicators, with the replay's own signal.
Row(m) == [m EXCEPT !.signal = ExtractedSignal(Reading[m])]

\* The position step leaves behind, and the reason it closed the old one for.
ReplayReason(r, m) ==
  IF r.position = NoPosition THEN "none" ELSE ExitReason(Updated(r.position, m), m)

ReplayPosition(r, m) ==
  LET p == Updated(r.position, m)
  IN  CASE r.position = NoPosition \/ ReplayReason(r, m) = "signal_reversal" ->
             Entered(m, r.account)
        [] r.position # NoPosition /\ ReplayReason(r, m) = "none" ->
             IF PyramidAdds(p, m.close, p.atrEntry) THEN Pyramided(p) ELSE p
        [] OTHER -> NoPosition

\* The entry simulate appends to its trade log.
ReplayTrade(r, m, bar) ==
  LET p == Updated(r.position, m)
      exit == ExitPrice(p, m, ReplayReason(r, m))
  IN  [side |-> p.side, entry |-> p.entry, exit |-> exit, contracts |-> p.contracts,
       reason |-> ReplayReason(r, m), net |-> RealisedPnl(p, exit), bar |-> bar]

\* The body of simulate's loop, on the bar that is its next one.
Simulated(r, m, bar) ==
  IF ReplayReason(r, m) = "none"
    THEN [r EXCEPT !.position = ReplayPosition(r, m), !.bars = bar]
    ELSE [r EXCEPT !.position = ReplayPosition(r, m), !.bars = bar,
                   !.account = @ + ReplayTrade(r, m, bar).net,
                   !.trades = Append(@, ReplayTrade(r, m, bar))]

Fresh ==
  [position |-> NoPosition, account |-> InitialAccount, trades |-> <<>>,
   bars |-> 0, runs |-> 0]

ReplayBar ==
  /\ replay # Over
  /\ replay.bars # barNo
  /\ replay' = Simulated(replay, Row(market), barNo)
  /\ UNCHANGED vars

-----------------------------------------------------------------------------
(* The live side. *)

\* A second step of the same bar is one a backtest never makes.
StepBar ==
  /\ RunFlat \/ RunExit \/ RunHold
  /\ replay' = IF replay # Over /\ replay.runs # barNo
                 THEN [replay EXCEPT !.runs = barNo] ELSE Over

\* Neither trades: a bar that was skipped may still be stepped by a later run.
SkipBar == (RunGated \/ ClearWarnings) /\ UNCHANGED replay

ByHand == Web /\ replay' = Over

\* A bar the live side missed is one the backtest does not miss.
BarEnds ==
  /\ NextBar
  /\ replay # Over => replay.bars = barNo
  /\ replay' = IF replay # Over /\ replay.runs = barNo THEN replay ELSE Over

BacktestInit == Init /\ replay = Fresh

BacktestNext == ReplayBar \/ StepBar \/ SkipBar \/ ByHand \/ BarEnds

BacktestSpec == BacktestInit /\ [][BacktestNext]_allVars

-----------------------------------------------------------------------------
\* Two computations of one strategy: where the live side stepped every bar
\* once, the backtest of the same bars holds the same position and has the
\* same account and the same trades (simulate against the daily run, with
\* their two votes and their two ways to charge the costs of a trade).
BacktestAgrees ==
  (replay # Over /\ replay.bars = barNo /\ replay.runs = barNo) =>
    /\ replay.position = position
    /\ replay.account = account
    /\ replay.trades = tradeLog
=============================================================================
