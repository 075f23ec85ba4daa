--------------------------- MODULE PositionEngine ---------------------------
(***************************************************************************)
(* One market of one user: sizing_engine.step as the daily run drives it,  *)
(* and the web handlers that open, add to, close and modify the position,  *)
(* every one of them a single mutation of the stored document.             *)
(*                                                                         *)
(* A run looks at the last bar of the price feed.  The feed may not have   *)
(* moved since the previous run (a restart, --force-email, a holiday), so  *)
(* the same bar can be stepped more than once.                             *)
(*                                                                         *)
(* Prices and ATRs are integers; vol_scale is in percent and risk_pct in   *)
(* thousandths, so that calc_position_size is exact.                       *)
(***************************************************************************)
EXTENDS Integers, Sequences, FiniteSets, SequencesExt

CONSTANTS
  Snapshots,        \* what the feed and the indicators may say of a bar
  OperatorPrices,   \* prices in web requests
  OperatorCounts,   \* contracts in web requests
  Stops,            \* manual stops in web requests
  Settings,         \* what strategy_settings[market] may say: trail multipliers, risk,
                    \* contract_cap (or NoCap) and one_contract_floor
  Multiplier,
  HalfCost,         \* half of the round-trip cost of a contract
  InitialAccount,
  NoPosition, NoStop, NoAtr, NoCap, Same,
  MaxBars,          \* bound: bars of the feed
  MaxTrades,        \* bound: trades ever closed
  MaxContracts      \* bound: contracts held

Sides == {"LONG", "SHORT"}
MaxPyramidLevel == 2

ASSUME EngineAssumption ==
  /\ Snapshots \subseteq [low: Int, high: Int, close: Int, atr: Nat, vol: Nat,
                          weak: BOOLEAN, signal: Sides \cup {"FLAT"}]
  /\ \A m \in Snapshots : m.low <= m.close /\ m.close <= m.high
  /\ OperatorPrices \subseteq Int
  /\ OperatorCounts \subseteq Nat \ {0}
  /\ Stops \subseteq Int
  /\ Settings \subseteq [trail: [Sides -> Nat \ {0}], risk: [Sides -> Nat],
                          cap: Nat \cup {NoCap}, floor: BOOLEAN]
  /\ Settings # {} /\ NoCap \notin Nat
  /\ Multiplier \in Nat \ {0}
  /\ HalfCost \in Nat
  /\ InitialAccount \in Int
  /\ NoStop \notin Int /\ NoAtr \notin Nat /\ Same \notin Int \cup {NoStop}
  /\ MaxBars \in Nat \ {0} /\ MaxTrades \in Nat /\ MaxContracts \in Nat

VARIABLES
  position,   \* user['positions'][market]
  account,    \* user['account']
  tradeLog,   \* user['trade_log'], its entries of this market
  recorded,   \* trades ever recorded, the ones an admin deleted from the log included
  signal,     \* state['signals'][market]: direction and last_scalars.atr
  drift,      \* the drift warning in state['warnings']: <<held, signalled>> or <<>>
  market,     \* what the feed says now
  barNo,      \* which bar that is
  settings    \* state['strategy_settings'][market], read again by every run

book == <<position, account, tradeLog, recorded>>
given == <<market, barNo, settings>>
vars == <<book, signal, drift, given>>

Positions ==
  [side: Sides, entry: Int, contracts: Nat \ {0}, level: 0..MaxPyramidLevel,
   best: Int, atrEntry: Nat, manualStop: Stops \cup {NoStop}]

ASSUME PositionAssumption == NoPosition \notin Positions

Reasons == {"adx_exit", "stop_hit", "flat_signal", "signal_reversal", "operator_close"}

Trades ==
  [side: Sides, entry: Int, exit: Int, contracts: Nat \ {0}, reason: Reasons,
   net: Int, bar: 1..MaxBars]

TypeOK ==
  /\ position \in Positions \cup {NoPosition}
  /\ account \in Int
  /\ tradeLog \in Seq(Trades)
  /\ recorded \in Nat
  /\ signal \in [direction: Sides \cup {"FLAT"}, atr: Nat \cup {NoAtr}]
  /\ drift \in {<<>>} \cup (Sides \X {"LONG", "SHORT", "FLAT"})
  /\ market \in Snapshots
  /\ barNo \in 1..MaxBars
  /\ settings \in Settings

Init ==
  /\ position = NoPosition
  /\ account = InitialAccount
  /\ tradeLog = <<>>
  /\ recorded = 0
  /\ signal = [direction |-> "FLAT", atr |-> NoAtr]
  /\ drift = <<>>
  /\ market \in Snapshots
  /\ barNo = 1
  /\ settings \in Settings

-----------------------------------------------------------------------------
(* The pure functions of sizing_engine. *)

\* +1 for a price move in the position's favour.
Toward(side, x) == IF side = "LONG" THEN x ELSE -x

\* Mutant: the peak is today's high.
UpdatedToday(p, m) == [p EXCEPT !.best = IF p.side = "LONG" THEN m.high ELSE m.low]

\* step, phase 0: the peak (LONG) or trough (SHORT) includes today's bar.
Updated(p, m) ==
  [p EXCEPT !.best = IF p.side = "LONG"
                       THEN IF m.high > p.best THEN m.high ELSE p.best
                       ELSE IF m.low < p.best THEN m.low ELSE p.best]

\* The computed stop: anchored on the ATR of the entry, not today's, and on
\* the multiplier the settings have now.
TrailingStop(p) == p.best - Toward(p.side, settings.trail[p.side] * p.atrEntry)

\* get_trailing_stop: the operator's stop wins.
StopLevel(p) == IF p.manualStop = NoStop THEN TrailingStop(p) ELSE p.manualStop

\* check_stop_hit: the operator's stop is not looked at.
StopHit(p, m) ==
  IF p.side = "LONG" THEN m.low <= TrailingStop(p) ELSE m.high >= TrailingStop(p)

\* Mutant: the trigger of the level held.
PyramidAddsEarly(p, price, atr) ==
  p.level < MaxPyramidLevel /\ Toward(p.side, price - p.entry) >= p.level * atr

\* check_pyramid: only the trigger of the next level.
PyramidAdds(p, price, atr) ==
  /\ p.level < MaxPyramidLevel
  /\ Toward(p.side, price - p.entry) >= (p.level + 1) * atr
Pyramided(p) == [p EXCEPT !.contracts = @ + 1, !.level = @ + 1]

\* int(): towards zero.
Truncated(n, d) == IF n < 0 THEN -((-n) \div d) ELSE n \div d

StopDistance(side, m) == settings.trail[side] * m.atr * Multiplier
Budget(side, m, acct) == acct * settings.risk[side] * m.vol     \* times 100 * 1000

\* Mutant: rounded up.
PositionSizeRoundedUp(side, m, acct) ==
  IF StopDistance(side, m) = 0 THEN 0
  ELSE 1 + Budget(side, m, acct) \div (100000 * StopDistance(side, m))

\* calc_position_size.
PositionSize(side, m, acct) ==
  LET denominator == 100000 * StopDistance(side, m)
      numerator == Budget(side, m, acct)
      floored == settings.floor /\ 0 < numerator /\ numerator < denominator
      contracts == IF floored THEN 1 ELSE Truncated(numerator, denominator)
  IN  IF denominator = 0 THEN 0
      ELSE IF settings.cap # NoCap /\ settings.cap < contracts THEN settings.cap
      ELSE contracts

\* step, phase 1, in the order of its branches.
ExitReason(p, m) ==
  CASE m.weak -> "adx_exit"
    [] ~m.weak /\ StopHit(p, m) -> "stop_hit"
    [] ~m.weak /\ ~StopHit(p, m) /\ m.signal = "FLAT" -> "flat_signal"
    [] ~m.weak /\ ~StopHit(p, m) /\ m.signal \in Sides \ {p.side} -> "signal_reversal"
    [] OTHER -> "none"

ExitPrice(p, m, reason) == IF reason = "stop_hit" THEN StopLevel(p) ELSE m.close

\* step, phase 2: what a flat book, or one whose position was reversed, opens.
Entered(m, acct) ==
  IF m.signal \in Sides /\ PositionSize(m.signal, m, acct) > 0
    THEN [side |-> m.signal, entry |-> m.close,
          contracts |-> PositionSize(m.signal, m, acct), level |-> 0,
          best |-> m.close, atrEntry |-> m.atr, manualStop |-> NoStop]
    ELSE NoPosition

\* detect_drift.
Drift(p, direction) ==
  IF p = NoPosition \/ p.side = direction THEN <<>> ELSE <<p.side, direction>>

-----------------------------------------------------------------------------
(* state_manager.record_trade on the trade the caller builds. *)

Gross(p, exit) == Toward(p.side, exit - p.entry) * p.contracts * Multiplier

\* The opening half of the cost is not charged here.
Net(p, exit) == Gross(p, exit) - HalfCost * p.contracts

RecordTrade(p, exit, reason) ==
  /\ recorded < MaxTrades
  /\ recorded' = recorded + 1
  /\ account' = account + Net(p, exit)
  /\ tradeLog' = Append(tradeLog,
       [side |-> p.side, entry |-> p.entry, exit |-> exit, contracts |-> p.contracts,
        reason |-> reason, net |-> Net(p, exit), bar |-> barNo])

-----------------------------------------------------------------------------
(* The daily run, on a document nobody else is writing. *)

RunSaves(p) ==
  /\ position' = p
  /\ signal' = [direction |-> market.signal, atr |-> market.atr]
  /\ drift' = Drift(p, market.signal)
  /\ UNCHANGED given

RunFlat ==
  /\ position = NoPosition
  /\ RunSaves(Entered(market, account))
  /\ UNCHANGED <<account, tradeLog, recorded>>

\* record_trade first, then the position: a reversal is sized with the
\* account of before the close.
RunExit ==
  /\ position # NoPosition
  /\ LET p == Updated(position, market)
         reason == ExitReason(p, market)
     IN  /\ reason # "none"
         /\ RecordTrade(p, ExitPrice(p, market, reason), reason)
         /\ RunSaves(IF reason = "signal_reversal" THEN Entered(market, account) ELSE NoPosition)

RunHold ==
  /\ position # NoPosition
  /\ LET p == Updated(position, market)
         adds == PyramidAdds(p, market.close, p.atrEntry)
     IN  /\ ExitReason(p, market) = "none"
         /\ adds => p.contracts < MaxContracts
         /\ RunSaves(IF adds THEN Pyramided(p) ELSE p)
  /\ UNCHANGED <<account, tradeLog, recorded>>

\* The news gate skips the market; the drift is recomputed all the same.
RunGated ==
  /\ drift' = Drift(position, signal.direction)
  /\ UNCHANGED <<book, signal, given>>

\* The mail is out: clear_warnings, and the second save.
ClearWarnings ==
  /\ drift' = <<>>
  /\ UNCHANGED <<book, signal, given>>

-----------------------------------------------------------------------------
(* The web handlers. *)

\* POST /trades/open on an empty market, with the peak (trough) and level the
\* request may carry.
OpenTrade(side, price, contracts, best, level) ==
  /\ position = NoPosition
  /\ signal.atr # NoAtr
  /\ contracts <= MaxContracts
  /\ Toward(side, best - price) >= 0
  /\ position' = [side |-> side, entry |-> price, contracts |-> contracts, level |-> level,
                  best |-> best, atrEntry |-> signal.atr, manualStop |-> NoStop]
  /\ drift' = Drift(position', signal.direction)
  /\ UNCHANGED <<account, tradeLog, recorded, signal, given>>

\* POST /trades/open on a position of the same side: the pyramid gate, with
\* the request's price and today's ATR; no drift recompute, no price averaging.
AddTrade(price) ==
  /\ position # NoPosition
  /\ signal.atr # NoAtr
  /\ PyramidAdds(position, price, signal.atr)
  /\ position.contracts < MaxContracts
  /\ position' = Pyramided(position)
  /\ UNCHANGED <<account, tradeLog, recorded, signal, drift, given>>

\* Mutant: no drift recompute.
CloseTradeKeepsDrift(price) ==
  /\ position # NoPosition
  /\ RecordTrade(position, price, "operator_close")
  /\ position' = NoPosition
  /\ UNCHANGED <<signal, drift, given>>

\* POST /trades/close.
CloseTrade(price) ==
  /\ position # NoPosition
  /\ RecordTrade(position, price, "operator_close")
  /\ position' = NoPosition
  /\ drift' = <<>>
  /\ UNCHANGED <<signal, given>>

\* POST /trades/modify: a field that is not sent stays the Same; the pyramid
\* level is reset whatever was sent.
ModifyTrade(stop, contracts) ==
  /\ position # NoPosition
  /\ stop # Same \/ contracts # Same
  /\ position' = [position EXCEPT
       !.manualStop = IF stop = Same THEN @ ELSE stop,
       !.contracts = IF contracts = Same THEN @ ELSE contracts,
       !.level = 0]
  /\ drift' = Drift(position', signal.direction)
  /\ UNCHANGED <<account, tradeLog, recorded, signal, given>>

\* DELETE /trades/{index}: the entry goes, the account stays.
DeleteLogEntry(i) ==
  /\ tradeLog' = RemoveAt(tradeLog, i)
  /\ UNCHANGED <<position, account, recorded, signal, drift, given>>

\* PATCH /markets/settings: the position is not looked at.
SaveSettings(s) ==
  /\ settings' = s
  /\ UNCHANGED <<book, signal, drift, market, barNo>>

NextBar ==
  /\ barNo < MaxBars
  /\ barNo' = barNo + 1
  /\ market' \in Snapshots
  /\ UNCHANGED <<book, signal, drift, settings>>

-----------------------------------------------------------------------------
Run == RunFlat \/ RunExit \/ RunHold \/ RunGated \/ ClearWarnings

Web ==
  \/ \E price \in OperatorPrices :
       \/ \E side \in Sides, contracts \in OperatorCounts, best \in OperatorPrices,
             level \in 0..MaxPyramidLevel : OpenTrade(side, price, contracts, best, level)
       \/ AddTrade(price)
       \/ CloseTrade(price)
  \/ \E stop \in Stops \cup {NoStop, Same}, contracts \in OperatorCounts \cup {Same} :
       ModifyTrade(stop, contracts)
  \/ \E i \in DOMAIN tradeLog : DeleteLogEntry(i)
  \/ \E s \in Settings : SaveSettings(s)

Next == Run \/ Web \/ NextBar

Spec == Init /\ [][Next]_vars

-----------------------------------------------------------------------------
(* What must hold. *)

\* The trailing stop of a position moves away from the price in one case only,
\* when PATCH /markets/settings raises the multiplier of the side that is held:
\* not with a bar, not when the ATR jumps, not when the operator adds to the
\* position or edits it, and not when other settings change (the D-15 anchor of
\* get_trailing_stop and the running peak of step).
StopOnlyTightens ==
  [][/\ position # NoPosition /\ position' # NoPosition /\ position'.side = position.side
     /\ settings'.trail[position.side] <= settings.trail[position.side]
     => Toward(position.side, TrailingStop(position)' - TrailingStop(position)) >= 0]_vars

\* A drift warning that is shown is about the position that is held and the
\* signal that is stored, whatever was done since it was raised.
DriftWarningsAreTrue ==
  drift # <<>> => position # NoPosition /\ drift = <<position.side, signal.direction>>
                  /\ position.side # signal.direction

\* A run that steps the market leaves its owner in line with the signal, even
\* over a position the operator opened against it or a reversal.
RunLeavesNoDrift ==
  [][RunFlat \/ RunExit \/ RunHold => drift' = <<>>
       /\ (position' # NoPosition => position'.side = signal'.direction)]_vars

\* Without operator trades, a position at level k has been k ATRs of its entry
\* in the money.
LevelsAreEarned ==
  position # NoPosition =>
    Toward(position.side, position.best - position.entry) >= position.level * position.atrEntry

\* What a run opens risks no more than the budget of the account it had when
\* it started, but for the single contract that the one-contract floor grants,
\* and never passes the contract cap (calc_position_size with the settings in
\* force, a reversal included).
EntriesWithinBudget ==
  [][(RunFlat \/ RunExit) /\ position' # NoPosition =>
       /\ settings.cap # NoCap => position'.contracts <= settings.cap
       /\ \/ settings.floor /\ position'.contracts = 1
          \/ 100000 * position'.contracts * StopDistance(position'.side, market)
               <= Budget(position'.side, market, account)]_vars
=============================================================================
