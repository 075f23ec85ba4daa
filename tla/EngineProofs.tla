---------------------------- MODULE EngineProofs ----------------------------
(***************************************************************************)
(* Theorems about PositionEngine and the Backtest beside it, for every     *)
(* given, every operator, every strategy setting and every bound.           *)
(*                                                                         *)
(* The engine.  The type invariant is inductive and carries most of them;  *)
(* that a drift warning is true and that a pyramid level was earned are    *)
(* inductive on top of it, the latter for an engine no operator trades     *)
(* beside.                                                                 *)
(*                                                                         *)
(* The backtest.  It computes what the live runs did when the market       *)
(* trades in both directions.  The two sides step a bar in either order,   *)
(* so the inductive invariant says what holds in between: the side that    *)
(* has stepped the bar is where simulate's loop body takes the other.      *)
(***************************************************************************)
EXTENDS Backtest, SequenceTheorems, TLAPS

-----------------------------------------------------------------------------
(* Facts about the pure functions. *)

LEMMA SnapshotType ==
  ASSUME NEW m \in Snapshots
  PROVE  /\ m.low \in Int /\ m.high \in Int /\ m.close \in Int
         /\ m.low <= m.close /\ m.close <= m.high
         /\ m.atr \in Nat /\ m.vol \in Nat /\ m.weak \in BOOLEAN
         /\ m.signal \in Sides \cup {"FLAT"}
  BY EngineAssumption

\* Truncation rounds a non-negative quotient down.
LEMMA TruncatedRoundsDown ==
  ASSUME NEW n \in Int, NEW d \in Nat \ {0}
  PROVE  /\ Truncated(n, d) \in Int
         /\ Truncated(n, d) > 0 => d * Truncated(n, d) <= n
<1>1. CASE n < 0
  <2>1. (-n) \div d \in Nat
    BY <1>1, SMT
  <2> QED BY <1>1, <2>1 DEF Truncated
<1>2. CASE n >= 0
  <2>1. n \div d \in Nat /\ d * (n \div d) <= n
    BY <1>2, SMT
  <2> QED BY <1>2, <2>1 DEF Truncated
<1> QED BY <1>1, <1>2

\* Today's bar only moves the peak (trough) in the position's favour, and
\* never short of the close.
LEMMA UpdatedPeak ==
  ASSUME NEW p \in Positions, NEW m \in Snapshots
  PROVE  /\ Updated(p, m) \in Positions
         /\ Updated(p, m) = [p EXCEPT !.best = Updated(p, m).best]
         /\ Toward(p.side, Updated(p, m).best - p.best) >= 0
         /\ Toward(p.side, Updated(p, m).best - m.close) >= 0
<1>1. m.low \in Int /\ m.high \in Int /\ m.close \in Int /\ m.low <= m.close /\ m.close <= m.high
  BY SnapshotType
<1>2. p.side \in {"LONG", "SHORT"} /\ p.best \in Int
  BY DEF Positions, Sides
<1>3. CASE p.side = "LONG"
  <2>1. Updated(p, m) = [p EXCEPT !.best = IF m.high > p.best THEN m.high ELSE p.best]
    BY <1>3 DEF Updated
  <2> QED BY <1>1, <1>2, <1>3, <2>1 DEF Toward, Positions
<1>4. CASE p.side = "SHORT"
  <2>1. Updated(p, m) = [p EXCEPT !.best = IF m.low < p.best THEN m.low ELSE p.best]
    BY <1>4 DEF Updated
  <2> QED BY <1>1, <1>2, <1>4, <2>1 DEF Toward, Positions
<1> QED BY <1>2, <1>3, <1>4

LEMMA SettingsType ==
  ASSUME NEW s \in Settings, NEW side \in Sides
  PROVE  /\ s.trail[side] \in Nat /\ s.risk[side] \in Nat
         /\ s.cap \in Nat \cup {NoCap} /\ s.floor \in BOOLEAN
  BY EngineAssumption

\* The distance and the budget are numbers.
LEMMA RiskTypes ==
  ASSUME settings \in Settings, NEW side \in Sides, NEW m \in Snapshots, NEW acct \in Int
  PROVE  StopDistance(side, m) \in Nat /\ Budget(side, m, acct) \in Int
<1>1. settings.trail[side] \in Nat /\ settings.risk[side] \in Nat /\ m.atr \in Nat /\ m.vol \in Nat
  BY SettingsType, SnapshotType
<1>2. settings.trail[side] * m.atr \in Nat
  BY <1>1
<1>3. StopDistance(side, m) \in Nat
  BY <1>2, EngineAssumption DEF StopDistance
<1>4. acct * settings.risk[side] \in Int
  BY <1>1
<1>5. Budget(side, m, acct) \in Int
  BY <1>1, <1>4 DEF Budget
<1> QED BY <1>3, <1>5

\* A size is a number within the cap; a positive one fits the budget, but for
\* the floor's single contract.
LEMMA SizeFitsBudget ==
  ASSUME settings \in Settings, NEW side \in Sides, NEW m \in Snapshots, NEW acct \in Int
  PROVE  /\ PositionSize(side, m, acct) \in Int
         /\ settings.cap # NoCap /\ PositionSize(side, m, acct) > 0 =>
              PositionSize(side, m, acct) <= settings.cap
         /\ PositionSize(side, m, acct) > 0 =>
              \/ settings.floor /\ PositionSize(side, m, acct) = 1
              \/ 100000 * PositionSize(side, m, acct) * StopDistance(side, m)
                   <= Budget(side, m, acct)
<1> DEFINE d == 100000 * StopDistance(side, m)
           n == Budget(side, m, acct)
           size == PositionSize(side, m, acct)
<1>1. d \in Nat /\ n \in Int /\ StopDistance(side, m) \in Nat
  BY RiskTypes
<1>2. CASE d = 0
  BY <1>2 DEF PositionSize
<1>3. CASE d # 0
  <2> DEFINE raw == IF settings.floor /\ 0 < n /\ n < d THEN 1 ELSE Truncated(n, d)
  <2>1. Truncated(n, d) \in Int /\ (Truncated(n, d) > 0 => d * Truncated(n, d) <= n)
    <3> HIDE DEF d, n
    <3> QED BY <1>1, <1>3, TruncatedRoundsDown
  <2>2. size = IF settings.cap # NoCap /\ settings.cap < raw THEN settings.cap ELSE raw
    BY <1>3 DEF PositionSize
  <2>3. raw \in Int
    BY <2>1
  <2>4. size \in Int
    BY <2>2, <2>3, SettingsType
  <2>0. settings.cap # NoCap => size <= settings.cap
    BY <2>2, <2>3, SettingsType
  <2>5. ASSUME size > 0, ~(settings.floor /\ size = 1) PROVE d * size <= n
    <3>2. size <= raw /\ size \in Nat
      BY <2>2, <2>3, <2>4, <2>5, SettingsType
    <3>1. raw = Truncated(n, d)
      <4>1. raw = 1 => size = 1
        BY <2>4, <2>5, <3>2
      <4> QED BY <2>5, <4>1
    <3>3. raw > 0 /\ d * raw <= n
      BY <2>1, <2>3, <2>5, <3>1, <3>2
    <3>4. d * size <= d * raw
      <4> HIDE DEF d, n, size, raw
      <4>1. \E k \in Nat : raw = size + k
        BY <2>3, <3>2, <3>3
      <4>2. PICK k \in Nat : raw = size + k
        BY <4>1
      <4>3. d * raw = d * size + d * k /\ d * k \in Nat /\ d * size \in Nat
        BY <1>1, <3>2, <4>2
      <4> QED BY <4>3
    <3> HIDE DEF d, n, size, raw
    <3>5. d * size \in Int /\ d * raw \in Int
      BY <1>1, <2>3, <3>2
    <3> QED BY <1>1, <3>3, <3>4, <3>5
  <2>6. ASSUME size > 0 PROVE 100000 * size * StopDistance(side, m) = d * size
    <3> HIDE DEF size
    <3> QED BY <1>1, <2>4
  <2> QED BY <2>0, <2>4, <2>5, <2>6
<1> QED BY <1>1, <1>2, <1>3

\* What a run opens is a position on the side of the signal, at the close.
LEMMA EnteredType ==
  ASSUME settings \in Settings, NEW m \in Snapshots, NEW acct \in Int,
         Entered(m, acct) # NoPosition
  PROVE  /\ Entered(m, acct) \in Positions
         /\ m.signal \in Sides
         /\ Entered(m, acct).side = m.signal
         /\ Entered(m, acct).level = 0
         /\ Entered(m, acct).best = Entered(m, acct).entry
         /\ Entered(m, acct).contracts = PositionSize(m.signal, m, acct)
<1>1. m.signal \in Sides /\ PositionSize(m.signal, m, acct) > 0
  BY DEF Entered
<1>2. PositionSize(m.signal, m, acct) \in Nat \ {0}
  BY <1>1, SizeFitsBudget
<1>3. m.close \in Int /\ m.atr \in Nat
  BY SnapshotType
<1>4. Entered(m, acct) =
        [side |-> m.signal, entry |-> m.close,
         contracts |-> PositionSize(m.signal, m, acct), level |-> 0,
         best |-> m.close, atrEntry |-> m.atr, manualStop |-> NoStop]
  BY <1>1 DEF Entered
<1> QED BY <1>1, <1>2, <1>3, <1>4 DEF Positions, MaxPyramidLevel

-----------------------------------------------------------------------------
(* The type invariant. *)

\* Recording the trade of a position keeps the account and the log well typed.
LEMMA RecordTradeTypes ==
  ASSUME TypeOK, NEW p \in Positions, NEW exit \in Int, NEW reason \in Reasons,
         RecordTrade(p, exit, reason)
  PROVE  account' \in Int /\ tradeLog' \in Seq(Trades) /\ recorded' \in Nat
<1>1. p.contracts \in Nat \ {0} /\ p.entry \in Int /\ p.side \in Sides /\ account \in Int
      /\ recorded \in Nat /\ tradeLog \in Seq(Trades) /\ barNo \in 1..MaxBars
  BY DEF TypeOK, Positions
<1>2. Toward(p.side, exit - p.entry) \in Int
  BY <1>1 DEF Toward
<1>3. Toward(p.side, exit - p.entry) * p.contracts \in Int
  BY <1>1, <1>2
<1>4. Gross(p, exit) \in Int
  BY <1>3, EngineAssumption DEF Gross
<1>5. HalfCost * p.contracts \in Int
  BY <1>1, EngineAssumption
<1>6. Net(p, exit) \in Int
  BY <1>4, <1>5 DEF Net
<1>7. [side |-> p.side, entry |-> p.entry, exit |-> exit, contracts |-> p.contracts,
       reason |-> reason, net |-> Net(p, exit), bar |-> barNo] \in Trades
  BY <1>1, <1>6 DEF Trades
<1> QED BY <1>1, <1>6, <1>7 DEF RecordTrade

\* The stop of a position is a price.
LEMMA StopTypes ==
  ASSUME settings \in Settings, NEW p \in Positions
  PROVE  TrailingStop(p) \in Int /\ StopLevel(p) \in Int
<1>1. settings.trail[p.side] \in Nat /\ p.atrEntry \in Nat /\ p.best \in Int /\ p.side \in Sides
      /\ p.manualStop \in Stops \cup {NoStop}
  BY SettingsType DEF Positions
<1>2. settings.trail[p.side] * p.atrEntry \in Nat
  BY <1>1
<1>3. TrailingStop(p) \in Int
  BY <1>1, <1>2 DEF TrailingStop, Toward
<1> QED BY <1>1, <1>3, EngineAssumption DEF StopLevel

\* An add keeps the position well typed.
LEMMA PyramidedType ==
  ASSUME NEW p \in Positions, NEW price, NEW atr, PyramidAdds(p, price, atr)
  PROVE  /\ Pyramided(p) \in Positions
         /\ Pyramided(p) = [p EXCEPT !.contracts = p.contracts + 1, !.level = p.level + 1]
<1>1. p.level \in 0..2 /\ p.level < 2 /\ p.contracts \in Nat \ {0}
  BY DEF PyramidAdds, Positions, MaxPyramidLevel
<1>2. p.level + 1 \in 0..2 /\ p.contracts + 1 \in Nat \ {0}
  BY <1>1
<1>3. Pyramided(p) = [p EXCEPT !.contracts = p.contracts + 1, !.level = p.level + 1]
  BY DEF Pyramided
<1> QED BY <1>2, <1>3 DEF Positions, MaxPyramidLevel

LEMMA DriftType ==
  ASSUME NEW p \in Positions \cup {NoPosition}, NEW d \in Sides \cup {"FLAT"}
  PROVE  Drift(p, d) \in {<<>>} \cup (Sides \X {"LONG", "SHORT", "FLAT"})
  BY DEF Drift, Positions, Sides

\* What a run exit does, case by case.
LEMMA RunExitShape ==
  ASSUME TypeOK, RunExit
  PROVE  LET p == Updated(position, market)
         IN  /\ position \in Positions /\ p \in Positions /\ p.side = position.side
             /\ \E reason \in Reasons \ {"operator_close"} :
                  /\ reason = ExitReason(p, market)
                  /\ RecordTrade(p, ExitPrice(p, market, reason), reason)
                  /\ ExitPrice(p, market, reason) \in Int
                  /\ position' = IF reason = "signal_reversal" THEN Entered(market, account)
                                                               ELSE NoPosition
                  /\ reason = "signal_reversal" =>
                       market.signal \in Sides /\ market.signal # position.side
             /\ RunSaves(position')
<1> DEFINE p == Updated(position, market)
<1>1. position \in Positions /\ market \in Snapshots /\ settings \in Settings
  BY DEF TypeOK, RunExit
<1>2. p \in Positions /\ p.side = position.side
  BY <1>1, UpdatedPeak DEF Positions
<1>3. /\ ExitReason(p, market) # "none"
      /\ RecordTrade(p, ExitPrice(p, market, ExitReason(p, market)), ExitReason(p, market))
      /\ RunSaves(IF ExitReason(p, market) = "signal_reversal"
                    THEN Entered(market, account) ELSE NoPosition)
  BY DEF RunExit
<1>4. /\ ExitReason(p, market) \in (Reasons \ {"operator_close"}) \cup {"none"}
      /\ ExitReason(p, market) = "signal_reversal" =>
           market.signal \in Sides /\ market.signal # p.side
  BY SnapshotType, <1>1 DEF ExitReason, Reasons
<1>5. ExitPrice(p, market, ExitReason(p, market)) \in Int
  BY <1>1, <1>2, SnapshotType, StopTypes DEF ExitPrice
<1> HIDE DEF p
<1> QED BY <1>1, <1>2, <1>3, <1>4, <1>5 DEF RunSaves, p

LEMMA TypeInit == Init => TypeOK
<1> SUFFICES ASSUME Init PROVE TypeOK
  OBVIOUS
<1>1. tradeLog \in Seq(Trades)
  BY DEF Init
<1>2. market \in Snapshots /\ barNo \in 1..MaxBars /\ settings \in Settings
  BY EngineAssumption DEF Init
<1>3. account \in Int
  BY EngineAssumption DEF Init
<1> QED BY <1>1, <1>2, <1>3 DEF Init, TypeOK

\* What a run saves is well typed when the position is.
LEMMA RunSavesTypes ==
  ASSUME TypeOK, NEW p \in Positions \cup {NoPosition}, RunSaves(p)
  PROVE  /\ position' \in Positions \cup {NoPosition}
         /\ signal' \in [direction: Sides \cup {"FLAT"}, atr: Nat \cup {NoAtr}]
         /\ drift' \in {<<>>} \cup (Sides \X {"LONG", "SHORT", "FLAT"})
         /\ market' \in Snapshots /\ barNo' \in 1..MaxBars /\ settings' \in Settings
<1>1. market.signal \in Sides \cup {"FLAT"} /\ market.atr \in Nat
  BY SnapshotType DEF TypeOK
<1>2. drift' \in {<<>>} \cup (Sides \X {"LONG", "SHORT", "FLAT"})
  BY <1>1, DriftType DEF RunSaves
<1> QED BY <1>1, <1>2 DEF RunSaves, TypeOK, given

LEMMA TypeRun == TypeOK /\ Run => TypeOK'
<1> SUFFICES ASSUME TypeOK, Run PROVE TypeOK'
  OBVIOUS
<1>1. CASE RunFlat
  <2>1. Entered(market, account) \in Positions \cup {NoPosition}
    BY EnteredType DEF TypeOK
  <2>2. RunSaves(Entered(market, account))
    BY <1>1 DEF RunFlat
  <2> QED BY <1>1, <2>1, <2>2, RunSavesTypes DEF RunFlat, TypeOK
<1>2. CASE RunExit
  <2>1. account' \in Int /\ tradeLog' \in Seq(Trades) /\ recorded' \in Nat
    BY <1>2, RunExitShape, RecordTradeTypes
  <2>2. position' \in Positions \cup {NoPosition} /\ RunSaves(position')
    BY <1>2, RunExitShape, EnteredType DEF TypeOK
  <2> QED BY <2>1, <2>2, RunSavesTypes DEF TypeOK
<1>3. CASE RunHold
  <2> DEFINE p == Updated(position, market)
             adds == PyramidAdds(p, market.close, p.atrEntry)
  <2>1. p \in Positions
    BY <1>3, UpdatedPeak DEF RunHold, TypeOK
  <2>2. RunSaves(IF adds THEN Pyramided(p) ELSE p)
    BY <1>3 DEF RunHold
  <2>3. adds => Pyramided(p) \in Positions
    BY <2>1, PyramidedType
  <2>4. UNCHANGED <<account, tradeLog, recorded>>
    BY <1>3 DEF RunHold
  <2> HIDE DEF p, adds
  <2>5. (IF adds THEN Pyramided(p) ELSE p) \in Positions \cup {NoPosition}
    BY <2>1, <2>3
  <2> QED BY <2>2, <2>4, <2>5, RunSavesTypes DEF TypeOK
<1>4. CASE RunGated
  <2>1. drift' \in {<<>>} \cup (Sides \X {"LONG", "SHORT", "FLAT"})
    BY <1>4, DriftType DEF RunGated, TypeOK
  <2> QED BY <1>4, <2>1 DEF RunGated, TypeOK, book, given
<1>5. CASE ClearWarnings
  BY <1>5 DEF ClearWarnings, TypeOK, book, given
<1> QED BY <1>1, <1>2, <1>3, <1>4, <1>5 DEF Run

LEMMA OpenTradeType ==
  ASSUME TypeOK, NEW price \in OperatorPrices, NEW side \in Sides,
         NEW contracts \in OperatorCounts, NEW best \in OperatorPrices,
         NEW level \in 0..MaxPyramidLevel, OpenTrade(side, price, contracts, best, level)
  PROVE  position' \in Positions /\ position'.level = level
         /\ drift' = Drift(position', signal.direction)
<1>1. price \in Int /\ best \in Int /\ contracts \in Nat \ {0}
  BY EngineAssumption
<1>2. signal.atr \in Nat
  BY DEF OpenTrade, TypeOK
<1> QED BY <1>1, <1>2 DEF OpenTrade, Positions

LEMMA ModifyTradeType ==
  ASSUME TypeOK, NEW stop \in Stops \cup {NoStop, Same},
         NEW contracts \in OperatorCounts \cup {Same}, ModifyTrade(stop, contracts)
  PROVE  /\ position \in Positions /\ position' \in Positions
         /\ position'.side = position.side /\ position'.entry = position.entry
         /\ position'.best = position.best /\ position'.atrEntry = position.atrEntry
         /\ position'.level = 0
         /\ drift' = Drift(position', signal.direction)
<1>1. position \in Positions
  BY DEF ModifyTrade, TypeOK
<1>2. (IF stop = Same THEN position.manualStop ELSE stop) \in Stops \cup {NoStop}
  BY <1>1 DEF Positions
<1>3. (IF contracts = Same THEN position.contracts ELSE contracts) \in Nat \ {0}
  BY <1>1, EngineAssumption DEF Positions
<1>4. position' = [position EXCEPT
        !.manualStop = IF stop = Same THEN position.manualStop ELSE stop,
        !.contracts = IF contracts = Same THEN position.contracts ELSE contracts,
        !.level = 0]
  BY DEF ModifyTrade
<1>5. 0 \in 0..MaxPyramidLevel
  BY DEF MaxPyramidLevel
<1> QED BY <1>1, <1>2, <1>3, <1>4, <1>5 DEF Positions, ModifyTrade

\* Deleting a log entry leaves a log.
LEMMA RemoveAtType ==
  ASSUME NEW S, NEW s \in Seq(S), NEW i \in DOMAIN s
  PROVE  RemoveAt(s, i) \in Seq(S)
<1>1. i \in 1..Len(s) /\ Len(s) \in Nat
  BY LenProperties
<1>2. SubSeq(s, 1, i - 1) \in Seq(S) /\ SubSeq(s, i + 1, Len(s)) \in Seq(S)
  BY <1>1, SubSeqProperties
<1> QED BY <1>2, ConcatProperties DEF RemoveAt

LEMMA TypeWeb == TypeOK /\ Web => TypeOK'
<1> SUFFICES ASSUME TypeOK, Web PROVE TypeOK'
  OBVIOUS
<1>1. ASSUME NEW price \in OperatorPrices, NEW side \in Sides, NEW contracts \in OperatorCounts,
             NEW best \in OperatorPrices, NEW level \in 0..MaxPyramidLevel,
             OpenTrade(side, price, contracts, best, level)
      PROVE  TypeOK'
  <2>1. position' \in Positions /\ drift' = Drift(position', signal.direction)
    BY <1>1, OpenTradeType
  <2>2. drift' \in {<<>>} \cup (Sides \X {"LONG", "SHORT", "FLAT"})
    BY <2>1, DriftType DEF TypeOK
  <2> QED BY <1>1, <2>1, <2>2 DEF OpenTrade, TypeOK, given
<1>2. ASSUME NEW price \in OperatorPrices, AddTrade(price) PROVE TypeOK'
  <2>1. position \in Positions
    BY <1>2 DEF AddTrade, TypeOK
  <2>2. position' \in Positions
    BY <1>2, <2>1, PyramidedType DEF AddTrade
  <2> QED BY <1>2, <2>2 DEF AddTrade, TypeOK, given
<1>3. ASSUME NEW price \in OperatorPrices, CloseTrade(price) PROVE TypeOK'
  <2>1. position \in Positions /\ price \in Int
    BY <1>3, EngineAssumption DEF CloseTrade, TypeOK
  <2>2. account' \in Int /\ tradeLog' \in Seq(Trades) /\ recorded' \in Nat
    BY <1>3, <2>1, RecordTradeTypes DEF CloseTrade, Reasons
  <2> QED BY <1>3, <2>2 DEF CloseTrade, TypeOK, given
<1>4. ASSUME NEW stop \in Stops \cup {NoStop, Same}, NEW contracts \in OperatorCounts \cup {Same},
             ModifyTrade(stop, contracts)
      PROVE  TypeOK'
  <2>1. position' \in Positions /\ drift' = Drift(position', signal.direction)
    BY <1>4, ModifyTradeType
  <2>2. drift' \in {<<>>} \cup (Sides \X {"LONG", "SHORT", "FLAT"})
    BY <2>1, DriftType DEF TypeOK
  <2> QED BY <1>4, <2>1, <2>2 DEF ModifyTrade, TypeOK, given
<1>5. ASSUME NEW i \in DOMAIN tradeLog, DeleteLogEntry(i) PROVE TypeOK'
  <2>1. tradeLog' \in Seq(Trades)
    BY <1>5, RemoveAtType DEF DeleteLogEntry, TypeOK
  <2> QED BY <1>5, <2>1 DEF DeleteLogEntry, TypeOK, given
<1>6. ASSUME NEW s \in Settings, SaveSettings(s) PROVE TypeOK'
  BY <1>6 DEF SaveSettings, TypeOK, book
<1> QED BY <1>1, <1>2, <1>3, <1>4, <1>5, <1>6 DEF Web

LEMMA TypeStep == TypeOK /\ [Next]_vars => TypeOK'
<1> SUFFICES ASSUME TypeOK, [Next]_vars PROVE TypeOK'
  OBVIOUS
<1>1. CASE NextBar
  BY <1>1, EngineAssumption DEF NextBar, TypeOK, book
<1>2. CASE UNCHANGED vars
  BY <1>2 DEF vars, book, given, TypeOK
<1> QED BY <1>1, <1>2, TypeRun, TypeWeb DEF Next

\* Positions, account, log, signal and warning keep their types in every
\* interleaving of runs and requests.
THEOREM EngineTypeCorrect == Spec => []TypeOK
  BY TypeInit, TypeStep, PTL DEF Spec

-----------------------------------------------------------------------------
(* The trailing stop. *)

\* The trailing stop under a multiplier.
StopAt(p, mult) == p.best - Toward(p.side, mult * p.atrEntry)

\* A stop whose peak and multiplier do not loosen it does not loosen.
LEMMA StopFollowsPeak ==
  ASSUME NEW p \in Positions, NEW q \in Positions, q.side = p.side, q.atrEntry = p.atrEntry,
         NEW k \in Nat, NEW l \in Nat, l <= k, Toward(p.side, q.best - p.best) >= 0
  PROVE  Toward(p.side, StopAt(q, l) - StopAt(p, k)) >= 0
<1>1. p.side \in {"LONG", "SHORT"} /\ p.best \in Int /\ q.best \in Int /\ p.atrEntry \in Nat
  BY DEF Positions, Sides
<1>2. k * p.atrEntry \in Nat /\ l * p.atrEntry \in Nat /\ l * p.atrEntry <= k * p.atrEntry
  <2>1. PICK d \in Nat : k = l + d
    <3>1. k - l \in Nat /\ k = l + (k - l)
      OBVIOUS
    <3> QED BY <3>1
  <2>2. d * p.atrEntry \in Nat /\ l * p.atrEntry \in Nat
    BY <1>1
  <2>3. k * p.atrEntry = l * p.atrEntry + d * p.atrEntry
    BY <1>1, <2>1
  <2> QED BY <2>2, <2>3
<1> DEFINE before == k * p.atrEntry
           after == l * p.atrEntry
<1>3. /\ StopAt(p, k) = p.best - Toward(p.side, before)
      /\ StopAt(q, l) = q.best - Toward(p.side, after)
  BY DEF StopAt
<1>4. before \in Nat /\ after \in Nat /\ after <= before
  BY <1>2
<1> HIDE DEF before, after
<1> QED BY <1>1, <1>3, <1>4 DEF Toward

StopStep ==
  /\ position # NoPosition /\ position' # NoPosition /\ position'.side = position.side
  /\ settings'.trail[position.side] <= settings.trail[position.side]
  => Toward(position.side, TrailingStop(position)' - TrailingStop(position)) >= 0

LEMMA StopTightensInStep == TypeOK /\ [Next]_vars => StopStep
<1> DEFINE k == settings.trail[position.side]
           l == settings'.trail[position.side]
<1> SUFFICES ASSUME TypeOK, [Next]_vars, position # NoPosition, position' # NoPosition,
                    position'.side = position.side, l <= k
             PROVE  Toward(position.side, StopAt(position', l) - StopAt(position, k)) >= 0
  BY DEF StopStep, StopAt, TrailingStop
<1>1. position \in Positions /\ market \in Snapshots
  BY DEF TypeOK
<1>0. k \in Nat /\ l \in Nat
  <2>1. settings' \in Settings
    BY TypeStep DEF TypeOK
  <2> QED BY <1>1, <2>1, SettingsType DEF TypeOK, Positions
<1> HIDE DEF k, l
<1>2. position.best \in Int /\ position.side \in {"LONG", "SHORT"}
  BY <1>1 DEF Positions, Sides
\* The cases in which the peak and the ATR of the entry stay.
<1>3. ASSUME position' \in Positions, position'.best = position.best,
             position'.atrEntry = position.atrEntry
      PROVE  Toward(position.side, StopAt(position', l) - StopAt(position, k)) >= 0
  <2>1. Toward(position.side, position'.best - position.best) >= 0
    BY <1>2, <1>3 DEF Toward
  <2> QED BY <1>0, <1>1, <1>3, <2>1, StopFollowsPeak
<1>4. CASE RunExit
  \* A reversal is on the other side.
  <2>1. position' = Entered(market, account) /\ market.signal # position.side
    BY <1>4, RunExitShape
  <2>2. position'.side = market.signal
    BY <1>1, <2>1, EnteredType DEF TypeOK
  <2> QED BY <2>1, <2>2
<1>5. CASE RunHold
  <2> DEFINE p == Updated(position, market)
             adds == PyramidAdds(p, market.close, p.atrEntry)
  <2>1. p \in Positions /\ p.side = position.side /\ p.atrEntry = position.atrEntry
        /\ Toward(position.side, p.best - position.best) >= 0
    BY <1>1, UpdatedPeak DEF Positions
  <2>2. position' = IF adds THEN Pyramided(p) ELSE p
    BY <1>5 DEF RunHold, RunSaves
  <2>3. adds => /\ Pyramided(p) \in Positions
                /\ Pyramided(p).side = p.side /\ Pyramided(p).atrEntry = p.atrEntry
                /\ Pyramided(p).best = p.best
    BY <2>1, PyramidedType DEF Positions
  <2> HIDE DEF p, adds
  <2>4. /\ position' \in Positions /\ position'.atrEntry = position.atrEntry
        /\ position'.best = p.best
    BY <2>1, <2>2, <2>3
  <2> QED BY <1>0, <1>1, <2>1, <2>4, StopFollowsPeak
<1>6. ASSUME NEW price \in OperatorPrices, AddTrade(price)
      PROVE  Toward(position.side, StopAt(position', l) - StopAt(position, k)) >= 0
  <2>1. position' = Pyramided(position) /\ PyramidAdds(position, price, signal.atr)
    BY <1>6 DEF AddTrade
  <2>2. position' \in Positions /\ position'.best = position.best
        /\ position'.atrEntry = position.atrEntry
    BY <1>1, <2>1, PyramidedType DEF Positions
  <2> QED BY <1>3, <2>2
<1>7. ASSUME NEW stop \in Stops \cup {NoStop, Same}, NEW contracts \in OperatorCounts \cup {Same},
             ModifyTrade(stop, contracts)
      PROVE  Toward(position.side, StopAt(position', l) - StopAt(position, k)) >= 0
  BY <1>3, <1>7, ModifyTradeType
<1>8. CASE position' = position
  BY <1>1, <1>3, <1>8
<1>9. CASE RunFlat
  BY <1>9 DEF RunFlat
<1>10. CASE RunGated \/ ClearWarnings \/ NextBar \/ UNCHANGED vars
  BY <1>8, <1>10 DEF RunGated, ClearWarnings, NextBar, vars, book
<1>11. CASE Web
  <2>1. ASSUME NEW price \in OperatorPrices, NEW side \in Sides, NEW contracts \in OperatorCounts,
               NEW best \in OperatorPrices, NEW level \in 0..MaxPyramidLevel
        PROVE  ~OpenTrade(side, price, contracts, best, level)
    BY DEF OpenTrade
  <2>2. ASSUME NEW price \in OperatorPrices PROVE ~CloseTrade(price)
    BY DEF CloseTrade
  <2>3. ASSUME NEW i \in DOMAIN tradeLog, DeleteLogEntry(i) PROVE position' = position
    BY <2>3 DEF DeleteLogEntry
  <2>4. ASSUME NEW s \in Settings, SaveSettings(s) PROVE position' = position
    BY <2>4 DEF SaveSettings, book
  <2> QED BY <1>6, <1>7, <1>8, <1>11, <2>1, <2>2, <2>3, <2>4 DEF Web
<1> QED BY <1>4, <1>5, <1>9, <1>10, <1>11 DEF Next, Run

\* Only a larger multiplier in the settings of the held side moves the trailing
\* stop of a position away from the price: neither a bar, nor an ATR that jumps,
\* nor an add or an edit of the operator, nor any other change of the settings.
THEOREM StopNeverLoosens == Spec => StopOnlyTightens
<1>1. TypeOK /\ [Next]_vars => [StopStep]_vars
  BY StopTightensInStep
<1> QED BY <1>1, EngineTypeCorrect, PTL DEF Spec, StopOnlyTightens, StopStep

-----------------------------------------------------------------------------
(* Drift. *)

LEMMA DriftIsTrue ==
  ASSUME NEW p, NEW d, Drift(p, d) # <<>>
  PROVE  p # NoPosition /\ Drift(p, d) = <<p.side, d>> /\ p.side # d
  BY DEF Drift

LEMMA DriftStep == TypeOK /\ DriftWarningsAreTrue /\ [Next]_vars => DriftWarningsAreTrue'
<1> SUFFICES ASSUME TypeOK, DriftWarningsAreTrue, [Next]_vars, drift' # <<>>
             PROVE  /\ position' # NoPosition /\ drift' = <<position'.side, signal'.direction>>
                    /\ position'.side # signal'.direction
  BY DEF DriftWarningsAreTrue
<1>1. ASSUME drift' = Drift(position', signal'.direction)
      PROVE  /\ position' # NoPosition /\ drift' = <<position'.side, signal'.direction>>
             /\ position'.side # signal'.direction
  BY <1>1, DriftIsTrue
<1>2. ASSUME NEW p, RunSaves(p) PROVE drift' = Drift(position', signal'.direction)
  BY <1>2 DEF RunSaves
<1>3. CASE RunFlat \/ RunExit \/ RunHold
  BY <1>1, <1>2, <1>3 DEF RunFlat, RunExit, RunHold
<1>4. CASE RunGated
  BY <1>1, <1>4 DEF RunGated, book
<1>5. CASE ClearWarnings
  BY <1>5 DEF ClearWarnings
<1>6. CASE Web
  <2>1. ASSUME NEW price \in OperatorPrices, NEW side \in Sides, NEW contracts \in OperatorCounts,
               NEW best \in OperatorPrices, NEW level \in 0..MaxPyramidLevel,
               OpenTrade(side, price, contracts, best, level)
        PROVE  drift' = Drift(position', signal'.direction)
    BY <2>1 DEF OpenTrade
  <2>2. ASSUME NEW price \in OperatorPrices, AddTrade(price)
        PROVE  /\ position' # NoPosition /\ drift' = <<position'.side, signal'.direction>>
               /\ position'.side # signal'.direction
    \* The warning raised before the add is about the same side.
    <3>1. position \in Positions /\ position' = Pyramided(position)
          /\ PyramidAdds(position, price, signal.atr) /\ UNCHANGED <<signal, drift>>
      BY <2>2 DEF AddTrade, TypeOK
    <3>2. position'.side = position.side
      BY <3>1, PyramidedType DEF Positions
    <3>3. drift # <<>> /\ drift = <<position.side, signal.direction>>
          /\ position.side # signal.direction
      BY <3>1 DEF DriftWarningsAreTrue
    <3>4. position' # NoPosition
      BY <3>1, PyramidedType, PositionAssumption
    <3> QED BY <3>1, <3>2, <3>3, <3>4
  <2>3. ASSUME NEW price \in OperatorPrices, CloseTrade(price) PROVE drift' = <<>>
    BY <2>3 DEF CloseTrade
  <2>4. ASSUME NEW stop \in Stops \cup {NoStop, Same}, NEW contracts \in OperatorCounts \cup {Same},
               ModifyTrade(stop, contracts)
        PROVE  drift' = Drift(position', signal'.direction)
    BY <2>4 DEF ModifyTrade
  <2>5. ASSUME NEW i \in DOMAIN tradeLog, DeleteLogEntry(i)
        PROVE  UNCHANGED <<position, signal, drift>>
    BY <2>5 DEF DeleteLogEntry
  <2>6. ASSUME NEW s \in Settings, SaveSettings(s)
        PROVE  UNCHANGED <<position, signal, drift>>
    BY <2>6 DEF SaveSettings, book
  <2> QED BY <1>1, <1>6, <2>1, <2>2, <2>3, <2>4, <2>5, <2>6 DEF Web, DriftWarningsAreTrue
<1>7. CASE NextBar \/ UNCHANGED vars
  BY <1>7 DEF NextBar, vars, book, DriftWarningsAreTrue
<1> QED BY <1>3, <1>4, <1>5, <1>6, <1>7 DEF Next, Run

\* A drift warning on show names the side that is held and the signal that is
\* stored: a close takes it down, an open or an edit replaces it.
THEOREM WarningsAreTrue == Spec => []DriftWarningsAreTrue
<1>1. Init => DriftWarningsAreTrue
  BY DEF Init, DriftWarningsAreTrue
<1> QED BY <1>1, DriftStep, EngineTypeCorrect, PTL DEF Spec

\* A step of the market ends with no position, or with one on the signal's side.
AlignedStep ==
  RunFlat \/ RunExit \/ RunHold =>
    drift' = <<>> /\ (position' # NoPosition => position'.side = signal'.direction)

LEMMA RunsAlign == TypeOK /\ [Next]_vars => AlignedStep
<1> SUFFICES ASSUME TypeOK, RunFlat \/ RunExit \/ RunHold
             PROVE  drift' = <<>> /\ (position' # NoPosition => position'.side = signal'.direction)
  BY DEF AlignedStep
<1>1. RunSaves(position')
  BY RunExitShape DEF RunFlat, RunHold, RunSaves
<1>2. signal'.direction = market.signal
  BY <1>1 DEF RunSaves
<1>3. ASSUME position' = NoPosition \/ position'.side = market.signal
      PROVE  drift' = <<>> /\ (position' # NoPosition => position'.side = signal'.direction)
  BY <1>1, <1>2, <1>3 DEF RunSaves, Drift
<1>4. CASE RunFlat
  <2>1. position' = Entered(market, account)
    BY <1>4 DEF RunFlat, RunSaves
  <2> QED BY <1>3, <2>1, EnteredType DEF TypeOK
<1>5. CASE RunExit
  <2>1. position' \in {Entered(market, account), NoPosition}
    BY <1>5, RunExitShape
  <2> QED BY <1>3, <2>1, EnteredType DEF TypeOK
<1>6. CASE RunHold
  <2> DEFINE p == Updated(position, market)
             adds == PyramidAdds(p, market.close, p.atrEntry)
  <2>1. p \in Positions
    BY <1>6, UpdatedPeak DEF RunHold, TypeOK
  <2>2. position' = IF adds THEN Pyramided(p) ELSE p
    BY <1>6 DEF RunHold, RunSaves
  <2>3. adds => Pyramided(p).side = p.side
    BY <2>1, PyramidedType DEF Positions
  <2>4. ExitReason(p, market) = "none"
    BY <1>6 DEF RunHold
  \* None of the exits: the signal is neither FLAT nor the other side.
  <2>5. p.side = market.signal
    <3>1. market.weak \in BOOLEAN /\ market.signal \in Sides \cup {"FLAT"}
      BY SnapshotType DEF TypeOK
    <3>2. ~market.weak /\ ~StopHit(p, market)
      BY <2>4 DEF ExitReason
    <3>3. market.signal # "FLAT"
      BY <2>4, <3>2 DEF ExitReason
    <3>4. market.signal \notin Sides \ {p.side}
      BY <2>4, <3>2, <3>3 DEF ExitReason
    <3> QED BY <3>1, <3>3, <3>4
  <2> HIDE DEF p, adds
  <2> QED BY <1>3, <2>2, <2>3, <2>5
<1> QED BY <1>4, <1>5, <1>6

\* Whatever the operator held against the signal, a run that steps the market
\* leaves no position on the wrong side and no drift warning.
THEOREM RunsLeaveNoDrift == Spec => RunLeavesNoDrift
<1>1. TypeOK /\ [Next]_vars => [AlignedStep]_vars
  BY RunsAlign
<1> QED BY <1>1, EngineTypeCorrect, PTL DEF Spec, RunLeavesNoDrift, AlignedStep

-----------------------------------------------------------------------------
(* Sizing. *)

BudgetStep ==
  (RunFlat \/ RunExit) /\ position' # NoPosition =>
     /\ settings.cap # NoCap => position'.contracts <= settings.cap
     /\ \/ settings.floor /\ position'.contracts = 1
        \/ 100000 * position'.contracts * StopDistance(position'.side, market)
             <= Budget(position'.side, market, account)

LEMMA RunsFitBudget == TypeOK /\ [Next]_vars => BudgetStep
<1> SUFFICES ASSUME TypeOK, RunFlat \/ RunExit, position' # NoPosition
             PROVE  /\ settings.cap # NoCap => position'.contracts <= settings.cap
                    /\ \/ settings.floor /\ position'.contracts = 1
                       \/ 100000 * position'.contracts * StopDistance(position'.side, market)
                            <= Budget(position'.side, market, account)
  BY DEF BudgetStep
<1>1. position' = Entered(market, account)
  BY RunExitShape DEF RunFlat, RunSaves
<1>2. /\ market \in Snapshots /\ settings \in Settings /\ account \in Int /\ market.signal \in Sides
      /\ position'.side = market.signal
      /\ position'.contracts = PositionSize(market.signal, market, account)
      /\ position'.contracts \in Nat \ {0}
  BY <1>1, EnteredType DEF TypeOK, Positions
<1> QED BY <1>2, SizeFitsBudget

\* What a run opens risks no more than the budget of the account it read, but
\* for the floor's single contract, and stays within the cap, a reversal
\* included and whatever the settings were before.
THEOREM EntriesFitBudget == Spec => EntriesWithinBudget
<1>1. TypeOK /\ [Next]_vars => [BudgetStep]_vars
  BY RunsFitBudget
<1> QED BY <1>1, EngineTypeCorrect, PTL DEF Spec, EntriesWithinBudget, BudgetStep

-----------------------------------------------------------------------------
(* Pyramid levels of an engine no operator trades beside. *)

LEMMA LevelStep ==
  ASSUME OperatorPrices = {}
  PROVE  TypeOK /\ LevelsAreEarned /\ [Next]_vars => LevelsAreEarned'
<1> SUFFICES ASSUME TypeOK, LevelsAreEarned, [Next]_vars, position' # NoPosition
             PROVE  Toward(position'.side, position'.best - position'.entry)
                      >= position'.level * position'.atrEntry
  BY DEF LevelsAreEarned
<1>1. ASSUME position # NoPosition
      PROVE  /\ position \in Positions
             /\ position.level \in 0..2 /\ position.atrEntry \in Nat
             /\ Toward(position.side, position.best - position.entry)
                  >= position.level * position.atrEntry
             /\ Toward(position.side, position.best - position.entry) >= 0
  <2>1. position \in Positions /\ position.level \in 0..2 /\ position.atrEntry \in Nat
        /\ position.best \in Int /\ position.entry \in Int
    BY <1>1 DEF TypeOK, Positions, MaxPyramidLevel
  <2>2. position.level * position.atrEntry \in Nat
    BY <2>1
  <2>3. Toward(position.side, position.best - position.entry)
          >= position.level * position.atrEntry
    BY <1>1 DEF LevelsAreEarned
  <2>4. Toward(position.side, position.best - position.entry) \in Int
    BY <2>1 DEF Toward
  <2> QED BY <2>1, <2>2, <2>3, <2>4
<1>2. ASSUME NEW p \in Positions, p.level = 0, Toward(p.side, p.best - p.entry) >= 0
      PROVE  Toward(p.side, p.best - p.entry) >= p.level * p.atrEntry
  <2>1. p.level * p.atrEntry = 0
    BY <1>2 DEF Positions
  <2> QED BY <1>2, <2>1
<1>3. CASE RunFlat \/ RunExit
  <2>1. position' = Entered(market, account)
    BY <1>3, RunExitShape DEF RunFlat, RunSaves
  <2>2. position' \in Positions /\ position'.level = 0 /\ position'.best = position'.entry
    BY <2>1, EnteredType DEF TypeOK
  <2>3. Toward(position'.side, position'.best - position'.entry) >= 0
    BY <2>2 DEF Toward, Positions
  <2> QED BY <1>2, <2>2, <2>3
<1>4. CASE RunHold
  <2> DEFINE p == Updated(position, market)
             adds == PyramidAdds(p, market.close, p.atrEntry)
  <2>1. position # NoPosition /\ market \in Snapshots
    BY <1>4 DEF RunHold, TypeOK
  <2>2. /\ p \in Positions /\ p.side = position.side /\ p.entry = position.entry
        /\ p.atrEntry = position.atrEntry /\ p.level = position.level
        /\ Toward(p.side, p.best - position.best) >= 0
        /\ Toward(p.side, p.best - market.close) >= 0
    BY <1>1, <2>1, UpdatedPeak DEF Positions
  <2>3. position' = IF adds THEN Pyramided(p) ELSE p
    BY <1>4 DEF RunHold, RunSaves
  <2>4. /\ p.side \in {"LONG", "SHORT"} /\ p.best \in Int /\ p.entry \in Int
        /\ position.best \in Int /\ market.close \in Int
        /\ p.level * p.atrEntry \in Int /\ (p.level + 1) * p.atrEntry \in Int
    <3>1. p.level \in Nat /\ p.atrEntry \in Nat
      BY <2>2 DEF Positions
    <3> QED BY <1>1, <2>1, <2>2, <3>1, SnapshotType DEF Positions, Sides
  \* The peak is past the close that triggered the add.
  <2>5. CASE adds
    <3>1. /\ position'.level = p.level + 1 /\ position'.side = p.side
          /\ position'.best = p.best /\ position'.entry = p.entry
          /\ position'.atrEntry = p.atrEntry
      BY <2>2, <2>3, <2>5, PyramidedType, ZenonT(30) DEF Positions
    <3>2. Toward(p.side, market.close - p.entry) >= (p.level + 1) * p.atrEntry
      BY <2>5 DEF PyramidAdds
    <3> HIDE DEF p, adds
    <3>3. Toward(p.side, p.best - p.entry) >= Toward(p.side, market.close - p.entry)
      BY <2>2, <2>4 DEF Toward
    <3>4. Toward(p.side, p.best - p.entry) \in Int /\ Toward(p.side, market.close - p.entry) \in Int
      BY <2>4 DEF Toward
    <3>5. Toward(p.side, p.best - p.entry) >= (p.level + 1) * p.atrEntry
      BY <2>4, <3>2, <3>3, <3>4
    <3> QED BY <3>1, <3>5
  <2>6. CASE ~adds
    <3>1. position' = p
      BY <2>3, <2>6
    <3>2. Toward(p.side, position.best - p.entry) >= p.level * p.atrEntry
      BY <1>1, <2>1, <2>2
    <3> HIDE DEF p, adds
    <3>3. Toward(p.side, p.best - p.entry) >= Toward(p.side, position.best - p.entry)
      BY <2>2, <2>4 DEF Toward
    <3>4. Toward(p.side, p.best - p.entry) \in Int /\ Toward(p.side, position.best - p.entry) \in Int
      BY <2>4 DEF Toward
    <3> QED BY <2>4, <3>1, <3>2, <3>3, <3>4
  <2> QED BY <2>5, <2>6
<1>5. CASE position' = position
  BY <1>1, <1>5
<1>6. CASE RunGated \/ ClearWarnings \/ NextBar \/ UNCHANGED vars
  BY <1>5, <1>6 DEF RunGated, ClearWarnings, NextBar, vars, book
<1>7. ASSUME NEW stop \in Stops \cup {NoStop, Same}, NEW contracts \in OperatorCounts \cup {Same},
             ModifyTrade(stop, contracts)
      PROVE  Toward(position'.side, position'.best - position'.entry)
               >= position'.level * position'.atrEntry
  <2>1. position # NoPosition
    BY <1>7 DEF ModifyTrade
  <2> QED BY <1>1, <1>2, <1>7, <2>1, ModifyTradeType
<1>8. ASSUME NEW i \in DOMAIN tradeLog, DeleteLogEntry(i) PROVE position' = position
  BY <1>8 DEF DeleteLogEntry
<1>10. ASSUME NEW s \in Settings, SaveSettings(s) PROVE position' = position
  BY <1>10 DEF SaveSettings, book
<1>9. CASE Web
  BY <1>5, <1>7, <1>8, <1>9, <1>10 DEF Web
<1> QED BY <1>3, <1>4, <1>6, <1>9 DEF Next, Run

\* Beside no operator trade, a position that was added to k times has been k
\* ATRs of its entry in the money, in any feed and through any restart.
THEOREM EngineLevelsAreEarned ==
  ASSUME OperatorPrices = {} PROVE Spec => []LevelsAreEarned
<1>1. Init => LevelsAreEarned
  BY DEF Init, LevelsAreEarned
<1>2. TypeOK /\ LevelsAreEarned /\ [Next]_vars => LevelsAreEarned'
  BY LevelStep
<1> QED BY <1>1, <1>2, EngineTypeCorrect, PTL DEF Spec

-----------------------------------------------------------------------------
(* The backtest beside the engine. *)

\* What the live document holds, in the form of a replay.
Live == [position |-> position, account |-> account, trades |-> tradeLog,
         bars |-> 0, runs |-> 0]

IsReplay(r) ==
  r = [position |-> r.position, account |-> r.account, trades |-> r.trades,
       bars |-> r.bars, runs |-> r.runs]

SameBook(r, s) == r.position = s.position /\ r.account = s.account /\ r.trades = s.trades

InStep ==
  replay # Over =>
    /\ IsReplay(replay)
    /\ replay.bars \in {barNo - 1, barNo}
    /\ replay.runs \in {barNo - 1, barNo}
    /\ replay.bars = replay.runs => SameBook(replay, Live)
    /\ (replay.bars = barNo /\ replay.runs # barNo) =>
         SameBook(replay, Simulated(Live, market, barNo))
    /\ (replay.bars # barNo /\ replay.runs = barNo) =>
         SameBook(Live, Simulated(replay, market, barNo))

-----------------------------------------------------------------------------
(* Facts about the two computations. *)

\* Without a direction mode the two votes are one.
LEMMA RowIsTheBar ==
  ASSUME DirectionMode = "both", NEW m \in Snapshots
  PROVE  Row(m) = m
<1>1. ExtractedSignal(Reading[m]) = GetSignal(Reading[m])
  BY DEF ExtractedSignal, GetSignal
<1>2. ExtractedSignal(Reading[m]) = m.signal
  BY <1>1, ReadingAssumption
<1> QED BY <1>2, EngineAssumption DEF Row

\* The loop body reads the book of a replay and nothing else of it.
LEMMA SimulatedReadsTheBook ==
  ASSUME NEW r, NEW s, IsReplay(r), IsReplay(s), SameBook(r, s), NEW m, NEW bar
  PROVE  /\ SameBook(Simulated(r, m, bar), Simulated(s, m, bar))
         /\ IsReplay(Simulated(r, m, bar))
         /\ Simulated(r, m, bar).bars = bar
         /\ Simulated(r, m, bar).runs = r.runs
<1>1. /\ ReplayReason(r, m) = ReplayReason(s, m)
      /\ ReplayPosition(r, m) = ReplayPosition(s, m)
  BY DEF ReplayReason, ReplayPosition, SameBook
<1>2. ReplayTrade(r, m, bar) = ReplayTrade(s, m, bar)
  BY <1>1 DEF ReplayTrade, SameBook
<1>3. CASE ReplayReason(r, m) = "none"
  BY <1>1, <1>3 DEF Simulated, SameBook, IsReplay
<1>4. CASE ReplayReason(r, m) # "none"
  <2> DEFINE t == ReplayTrade(r, m, bar)
  <2>1. Simulated(r, m, bar) =
          [position |-> ReplayPosition(r, m), account |-> r.account + t.net,
           trades |-> Append(r.trades, t), bars |-> bar, runs |-> r.runs]
    BY <1>4 DEF Simulated, IsReplay
  <2>2. Simulated(s, m, bar) =
          [position |-> ReplayPosition(r, m), account |-> s.account + t.net,
           trades |-> Append(s.trades, t), bars |-> bar, runs |-> s.runs]
    BY <1>1, <1>2, <1>4 DEF Simulated, IsReplay
  <2> HIDE DEF t
  <2> QED BY <2>1, <2>2 DEF SameBook, IsReplay
<1> QED BY <1>3, <1>4

\* A run is the loop body on the live book.
LEMMA RunIsSimulated ==
  ASSUME RunFlat \/ RunExit \/ RunHold
  PROVE  SameBook(Live', Simulated(Live, market, barNo))
<1>1. /\ Live.position = position /\ Live.account = account /\ Live.trades = tradeLog
      /\ Live'.position = position' /\ Live'.account = account' /\ Live'.trades = tradeLog'
  BY DEF Live
<1>2. CASE RunFlat
  <2>1. ReplayReason(Live, market) = "none"
    BY <1>1, <1>2 DEF RunFlat, ReplayReason
  <2>2. ReplayPosition(Live, market) = Entered(market, account)
    BY <1>1, <1>2 DEF RunFlat, ReplayPosition
  <2>3. Simulated(Live, market, barNo) =
          [Live EXCEPT !.position = Entered(market, account), !.bars = barNo]
    BY <2>1, <2>2 DEF Simulated
  <2> QED BY <1>1, <1>2, <2>3 DEF RunFlat, RunSaves, SameBook, Live
<1>3. CASE RunHold
  <2> DEFINE p == Updated(position, market)
             q == IF PyramidAdds(p, market.close, p.atrEntry) THEN Pyramided(p) ELSE p
  <2>1. ReplayReason(Live, market) = "none"
    BY <1>1, <1>3 DEF RunHold, ReplayReason
  <2>2. ReplayPosition(Live, market) = q
    BY <1>1, <1>3, <2>1 DEF RunHold, ReplayPosition
  <2>3. position' = q
    BY <1>3 DEF RunHold, RunSaves
  <2> HIDE DEF q
  <2>4. Simulated(Live, market, barNo) = [Live EXCEPT !.position = q, !.bars = barNo]
    BY <2>1, <2>2 DEF Simulated
  <2> QED BY <1>1, <1>3, <2>3, <2>4 DEF RunHold, SameBook, Live
<1>4. CASE RunExit
  <2> DEFINE p == Updated(position, market)
             reason == ExitReason(p, market)
             exit == ExitPrice(p, market, reason)
             trade == [side |-> p.side, entry |-> p.entry, exit |-> exit,
                       contracts |-> p.contracts, reason |-> reason,
                       net |-> Net(p, exit), bar |-> barNo]
             q == IF reason = "signal_reversal" THEN Entered(market, account) ELSE NoPosition
  <2>1. ReplayReason(Live, market) = reason /\ reason # "none" /\ position # NoPosition
    BY <1>1, <1>4 DEF RunExit, ReplayReason
  <2>2. ReplayPosition(Live, market) = q
    BY <1>1, <2>1 DEF ReplayPosition
  <2>3. RealisedPnl(p, exit) = Net(p, exit)
    BY DEF RealisedPnl, Net, Gross
  <2>4. ReplayTrade(Live, market, barNo) = trade
    BY <1>1, <2>1, <2>3 DEF ReplayTrade
  <2>5. position' = q /\ account' = account + Net(p, exit) /\ tradeLog' = Append(tradeLog, trade)
    BY <1>4 DEF RunExit, RunSaves, RecordTrade
  <2>6. trade.net = Net(p, exit)
    OBVIOUS
  <2> HIDE DEF q, trade, exit
  <2>7. Simulated(Live, market, barNo) =
          [Live EXCEPT !.position = q, !.bars = barNo, !.account = @ + trade.net,
                       !.trades = Append(@, trade)]
    BY <2>1, <2>2, <2>4 DEF Simulated
  <2> QED BY <1>1, <2>5, <2>6, <2>7 DEF SameBook, Live
<1> QED BY <1>2, <1>3, <1>4

\* The loop body reads nothing of the state but the settings.
LEMMA SimulatedReadsSettings ==
  ASSUME settings' = settings, NEW r, NEW m, NEW bar
  PROVE  Simulated(r, m, bar)' = Simulated(r, m, bar)
<1>1. \A p : TrailingStop(p)' = TrailingStop(p)
  BY DEF TrailingStop
<1>2. \A p : StopHit(p, m)' = StopHit(p, m) /\ StopLevel(p)' = StopLevel(p)
  BY <1>1 DEF StopHit, StopLevel
<1>3. \A p : ExitReason(p, m)' = ExitReason(p, m)
  BY <1>2 DEF ExitReason
<1>4. \A p, reason : ExitPrice(p, m, reason)' = ExitPrice(p, m, reason)
  BY <1>2 DEF ExitPrice
<1>5. \A side, acct : PositionSize(side, m, acct)' = PositionSize(side, m, acct)
  BY DEF PositionSize, StopDistance, Budget
<1>6. \A acct : Entered(m, acct)' = Entered(m, acct)
  BY <1>5 DEF Entered
<1>7. ReplayReason(r, m)' = ReplayReason(r, m)
  BY <1>3 DEF ReplayReason
<1>8. ReplayPosition(r, m)' = ReplayPosition(r, m)
  BY <1>6, <1>7 DEF ReplayPosition
<1>9. ReplayTrade(r, m, bar)' = ReplayTrade(r, m, bar)
  BY <1>4, <1>7 DEF ReplayTrade
<1> QED BY <1>7, <1>8, <1>9 DEF Simulated

-----------------------------------------------------------------------------
(* The backtest beside the engine is the engine. *)

LEMMA BacktestStepsTheEngine == [BacktestNext]_allVars => [Next]_vars
<1> SUFFICES ASSUME [BacktestNext]_allVars PROVE [Next]_vars
  OBVIOUS
<1>1. CASE ReplayBar
  BY <1>1 DEF ReplayBar
<1>2. CASE StepBar
  BY <1>2 DEF StepBar, Next, Run
<1>3. CASE SkipBar
  BY <1>3 DEF SkipBar, Next, Run
<1>4. CASE ByHand
  BY <1>4 DEF ByHand, Next
<1>5. CASE BarEnds
  BY <1>5 DEF BarEnds, Next
<1>6. CASE UNCHANGED allVars
  BY <1>6 DEF allVars
<1> QED BY <1>1, <1>2, <1>3, <1>4, <1>5, <1>6 DEF BacktestNext

\* A backtest disturbs nothing: every theorem about the engine holds beside one.
THEOREM BacktestKeepsEngine == BacktestSpec => Spec
<1>1. BacktestInit => Init
  BY DEF BacktestInit
<1> QED BY <1>1, BacktestStepsTheEngine, PTL DEF BacktestSpec, Spec

-----------------------------------------------------------------------------
(* The two sides stay in step. *)

LEMMA InStepInit == BacktestInit => InStep
<1> SUFFICES ASSUME BacktestInit PROVE InStep
  OBVIOUS
<1>1. replay = Fresh /\ barNo = 1
  BY DEF BacktestInit, Init
<1>2. SameBook(Fresh, Live)
  BY DEF BacktestInit, Init, SameBook, Fresh, Live
<1> QED BY <1>1, <1>2 DEF InStep, IsReplay, Fresh

LEMMA InStepNext ==
  ASSUME DirectionMode = "both" PROVE TypeOK /\ InStep /\ [BacktestNext]_allVars => InStep'
<1> SUFFICES ASSUME TypeOK, InStep, [BacktestNext]_allVars, replay' # Over
             PROVE  InStep'
  BY DEF InStep
<1>a. barNo \in Nat /\ market \in Snapshots
  BY EngineAssumption DEF TypeOK
<1>b. IsReplay(Live) /\ IsReplay(Live')
  BY DEF IsReplay, Live
<1>1. CASE ReplayBar
  <2>1. replay # Over /\ replay.bars = barNo - 1
    BY <1>1 DEF ReplayBar, InStep
  <2>2. replay' = Simulated(replay, market, barNo)
    BY <1>1, <1>a, RowIsTheBar DEF ReplayBar
  <2>3. IsReplay(replay) /\ SameBook(replay, replay)
    BY <2>1 DEF InStep, SameBook
  <2>4. IsReplay(replay') /\ replay'.bars = barNo /\ replay'.runs = replay.runs
    BY <2>2, <2>3, SimulatedReadsTheBook
  <2>5. Live' = Live /\ market' = market /\ barNo' = barNo /\ settings' = settings
    BY <1>1 DEF ReplayBar, vars, book, given, Live
  <2>6. CASE replay.runs = barNo
    <3>1. SameBook(Live, replay')
      BY <1>a, <2>1, <2>2, <2>6 DEF InStep
    <3> QED BY <1>a, <2>4, <2>5, <2>6, <3>1 DEF InStep, SameBook
  <2>7. CASE replay.runs = barNo - 1
    <3>1. SameBook(replay, Live)
      BY <2>1, <2>7 DEF InStep
    <3>2. SameBook(replay', Simulated(Live, market, barNo))
      BY <1>b, <2>2, <2>3, <3>1, SimulatedReadsTheBook
    <3> QED BY <1>a, <2>4, <2>5, <2>7, <3>2, SimulatedReadsSettings DEF InStep
  <2> QED BY <2>1, <2>6, <2>7 DEF InStep
<1>2. CASE StepBar
  <2>1. replay # Over /\ replay.runs # barNo /\ replay' = [replay EXCEPT !.runs = barNo]
    BY <1>2 DEF StepBar
  <2>2. IsReplay(replay) /\ replay.runs = barNo - 1
    BY <2>1 DEF InStep
  <2>3. /\ IsReplay(replay') /\ replay'.bars = replay.bars /\ replay'.runs = barNo
        /\ SameBook(replay', replay)
    BY <2>1, <2>2 DEF IsReplay, SameBook
  <2>4. market' = market /\ barNo' = barNo /\ settings' = settings
    BY <1>2 DEF StepBar, RunFlat, RunExit, RunHold, RunSaves, given
  <2>5. SameBook(Live', Simulated(Live, market, barNo))
    BY <1>2, RunIsSimulated DEF StepBar
  <2>6. CASE replay.bars = barNo
    <3>1. SameBook(replay, Simulated(Live, market, barNo))
      BY <1>a, <2>1, <2>2, <2>6 DEF InStep
    <3>2. SameBook(replay', Live')
      BY <2>3, <2>5, <3>1 DEF SameBook
    <3> QED BY <1>a, <2>3, <2>4, <2>6, <3>2 DEF InStep
  <2>7. CASE replay.bars = barNo - 1
    <3>1. SameBook(replay', Live)
      BY <2>1, <2>2, <2>3, <2>7 DEF InStep, SameBook
    <3>2. SameBook(Simulated(replay', market, barNo), Simulated(Live, market, barNo))
      BY <1>b, <2>3, <3>1, SimulatedReadsTheBook
    <3>3. SameBook(Live', Simulated(replay', market, barNo))
      BY <2>5, <3>2 DEF SameBook
    <3>4. SameBook(Live', Simulated(replay, market, barNo)')
      BY <2>4, <3>3, SimulatedReadsSettings
    <3> QED BY <1>a, <2>3, <2>4, <2>7, <3>4 DEF InStep
  <2> QED BY <2>1, <2>6, <2>7 DEF InStep
<1>3. CASE SkipBar
  <2>1. Live' = Live /\ market' = market /\ barNo' = barNo /\ replay' = replay
        /\ settings' = settings
    BY <1>3 DEF SkipBar, RunGated, ClearWarnings, book, given, Live
  <2> QED BY <2>1, SimulatedReadsSettings DEF InStep
<1>4. CASE ByHand
  BY <1>4 DEF ByHand
<1>5. CASE BarEnds
  <2>1. replay # Over /\ replay.runs = barNo /\ replay' = replay /\ replay.bars = barNo
    BY <1>5 DEF BarEnds
  <2>2. Live' = Live /\ barNo' = barNo + 1
    BY <1>5 DEF BarEnds, NextBar, book, Live
  <2>3. IsReplay(replay) /\ SameBook(replay, Live)
    BY <2>1 DEF InStep
  <2> QED BY <1>a, <2>1, <2>2, <2>3 DEF InStep
<1>6. CASE UNCHANGED allVars
  <2>1. Live' = Live /\ market' = market /\ barNo' = barNo /\ replay' = replay
        /\ settings' = settings
    BY <1>6 DEF allVars, vars, book, given, Live
  <2> QED BY <2>1, SimulatedReadsSettings DEF InStep
<1> QED BY <1>1, <1>2, <1>3, <1>4, <1>5, <1>6 DEF BacktestNext

\* The backtest of a market that trades in both directions agrees with its
\* live runs, whatever the bars, the costs and the settings they share
\* (simulate against the daily run).
THEOREM BacktestsAgree ==
  ASSUME DirectionMode = "both" PROVE BacktestSpec => []BacktestAgrees
<1>1. BacktestInit => TypeOK /\ InStep
  BY InStepInit, TypeInit DEF BacktestInit
<1>2. TypeOK /\ InStep /\ [BacktestNext]_allVars => TypeOK' /\ InStep'
  BY InStepNext, TypeStep, BacktestStepsTheEngine
<1>3. TypeOK /\ InStep => BacktestAgrees
  BY DEF InStep, SameBook, Live, BacktestAgrees
<1> QED BY <1>1, <1>2, <1>3, PTL DEF BacktestSpec
=============================================================================
