------------------------------- MODULE Schema -------------------------------
(***************************************************************************)
(* The shapes of state.json (state_manager/migrations.py, validation.py): *)
(* a document of any schema version, the eleven steps that bring it to     *)
(* version 12 each time it is loaded, and what a load makes of it.         *)
(*                                                                         *)
(* A row (of a signal, a position, a paper trade, a market or its          *)
(* settings) is a function from the keys it has to who set their values.   *)
(* Money is counted in tenths of a cent.                                   *)
(***************************************************************************)
EXTENDS Integers, Sequences

CONSTANTS
  DefaultMarkets,     \* the keys of DEFAULT_MARKETS
  AddedMarkets,       \* ids the operator may add
  InitialAccount,     \* INITIAL_ACCOUNT
  MaxWarnings         \* MAX_WARNINGS

ASSUME SchemaAssumption ==
  /\ DefaultMarkets \cap AddedMarkets = {}
  /\ InitialAccount \in Nat
  /\ MaxWarnings \in Nat \ {0, 1}     \* [-(MAX_WARNINGS - 1):] keeps all of a list when it is [-0:]

Markets == DefaultMarkets \cup AddedMarkets

Version == 12                                   \* STATE_SCHEMA_VERSION
Admin == "u_admin_marc"

\* Who set a value: the program's default, the document's owner, or a null.
Default == "default"
Own == "own"
Null == "null"

Filled(keys, value) == [k \in keys |-> value]
NoRow == Filled({}, Own)                        \* None, or an empty dict

\* {**under, **row}: what the row has stays, what it lacks is added.
Merged(row, under) ==
  [k \in DOMAIN row \cup DOMAIN under |-> IF k \in DOMAIN row THEN row[k] ELSE under[k]]

Backfill(row, keys) == Merged(row, Filled(keys, Default))

\* A key a mapping may lack (dict.get).
Get(map, key, default) == IF key \in DOMAIN map THEN map[key] ELSE default

\* _quantize_aud: to the cent, half up.
Cents(mils) == ((mils + 5) \div 10) * 10

-----------------------------------------------------------------------------
(* Documents.  A signal row may be the bare int the first versions wrote.   *)

Bare == Filled({"bare"}, Own)
IsDict(row) == "bare" \notin DOMAIN row

SettingKeys == {"adx_gate", "risk_pct", "direction_mode"}
PriceKeys == {"multiplier", "cost_aud"}
MarketKeys == PriceKeys \cup {"contract_type"}   \* the type stands for the financing rate too

\* What version 12 keeps under users[uid].
UserKeys == {"account", "initial_account", "contracts", "positions",
             "trade_log", "equity_history", "paper_trades"}

\* default_settings_for_market: every key, tuned for the default markets.
DefaultSettings == Filled(SettingKeys, Default)

\* The tier labels of the default markets (spi-mini, audusd-standard).
DefaultContracts == Filled(DefaultMarkets, Default)

\* reset_state, with the account it is given.
ResetState(account) ==
  [version |-> Version, top |-> NoRow,
   markets |-> [m \in DefaultMarkets |-> Filled(MarketKeys, Default)],
   settings |-> [m \in DefaultMarkets |-> DefaultSettings],
   signals |-> [m \in DefaultMarkets |-> Filled({"signal", "strategy_version"}, Default)],
   warnings |-> <<>>,
   users |-> [u \in {Admin} |->
     [account |-> account, initial_account |-> account, contracts |-> DefaultContracts,
      positions |-> [m \in DefaultMarkets |-> NoRow],
      trade_log |-> <<>>, equity_history |-> <<>>, paper_trades |-> <<>>]]]

-----------------------------------------------------------------------------
(* The migrations, one per version.                                         *)

V2(d) ==
  [d EXCEPT !.top = Merged(@, [initial_account |-> InitialAccount, contracts |-> DefaultContracts])]

V3(d) ==
  LET held == Get(d.top, "positions", NoRow)
      kept == [m \in DOMAIN held |->
                 IF held[m] = NoRow THEN NoRow ELSE Backfill(held[m], {"manual_stop"})]
  IN  [d EXCEPT !.top = Merged([positions |-> kept], @)]

\* Dict rows only: the bare ints stay as they are until version 10.
DictsGet(signals, keys) ==
  [m \in DOMAIN signals |-> IF IsDict(signals[m]) THEN Backfill(signals[m], keys) ELSE signals[m]]

V4(d) == [d EXCEPT !.signals = DictsGet(@, {"strategy_version"})]

V5(d) == [d EXCEPT !.signals = DictsGet(@, {"ohlc_window", "indicator_scalars"})]

V6(d) == [d EXCEPT !.top = Merged(@, [paper_trades |-> <<>>])]

V7(d) ==
  IF "paper_trades" \notin DOMAIN d.top THEN d
  ELSE [d EXCEPT !.top.paper_trades =
          [i \in DOMAIN @ |-> Backfill(@[i], {"last_alert_state"})]]

\* The registry, settings for each of its markets, and an empty position and
\* a bare 0 for those that have none.  Only a default market has defaults.
V8(d) ==
  LET known == DefaultMarkets \cup DOMAIN d.markets
      entry(m) ==
        Backfill(Get(d.markets, m, NoRow), IF m \in DefaultMarkets THEN MarketKeys ELSE {})
  IN  [d EXCEPT !.markets = [m \in known |-> entry(m)],
                !.settings = [m \in known \cup DOMAIN @ |-> Backfill(Get(@, m, NoRow), SettingKeys)],
                !.signals = Merged(@, [m \in known |-> Bare]),
                !.top = Merged([positions |-> Merged(Get(@, "positions", NoRow),
                                                     [m \in known |-> NoRow])], @)]

\* Money at the top level, which is where it was before version 12.
Quantised(key, value) ==
  CASE key \in {"account", "initial_account"} -> Cents(value)
    [] key \in {"trade_log", "equity_history"} -> [i \in DOMAIN value |-> Cents(value[i])]
    [] OTHER -> value

V9(d) == [d EXCEPT !.top = [k \in DOMAIN @ |-> Quantised(k, @[k])]]

\* Mutant: the bare ints stay.
V10Nothing(d) == d

V10(d) ==
  [d EXCEPT !.signals =
     [m \in DOMAIN @ |->
        IF IsDict(@[m]) THEN @[m] ELSE [signal |-> Own, strategy_version |-> Default]]]

V11(d) == [d EXCEPT !.markets = [m \in DOMAIN @ |-> Backfill(@[m], {"contract_type"})]]

\* Mutant: the guard on 'users' is gone.
V12Again(d) ==
  LET moved == Merged(d.top, ResetState(InitialAccount).users[Admin])
  IN  [d EXCEPT !.users = [u \in {Admin} |-> [k \in UserKeys |-> moved[k]]],
                !.top = [k \in DOMAIN @ \ UserKeys |-> @[k]]]

\* Mutant: the labels stay where they were.
V12NoLabels(d) ==
  IF d.users # NoRow THEN d
  ELSE [d EXCEPT !.users = [u \in {Admin} |-> [k \in UserKeys |->
          IF k = "contracts" THEN NoRow ELSE d.top[k]]]]

V12(d) ==
  LET moved == Merged(d.top, ResetState(InitialAccount).users[Admin])
  IN  IF d.users # NoRow THEN d
      ELSE [d EXCEPT !.users = [u \in {Admin} |-> [k \in UserKeys |-> moved[k]]],
                     !.top = [k \in DOMAIN @ \ UserKeys |-> @[k]]]

\* MIGRATIONS[v]: each version has one, which an assertion checks.
Migration(v, d) ==
  CASE v = 1 -> d        [] v = 2 -> V2(d)   [] v = 3 -> V3(d)   [] v = 4 -> V4(d)
    [] v = 5 -> V5(d)   [] v = 6 -> V6(d)   [] v = 7 -> V7(d)   [] v = 8 -> V8(d)
    [] v = 9 -> V9(d)   [] v = 10 -> V10(d) [] v = 11 -> V11(d) [] v = 12 -> V12(d)

\* One turn of _migrate's loop, which a document from that version or a later
\* one does not take.
Step(v, from, last, d) == Migration(IF from < v /\ v <= last THEN v ELSE 1, d)

\* _migrate as far as a version: the steps in order, which leave the version
\* to it.
MigrateTo(last, d) ==
  LET inOrder(step(_, _)) ==
        LET early == step(4, step(3, step(2, d)))
            middle == step(8, step(7, step(6, step(5, early))))
        IN  step(12, step(11, step(10, step(9, middle))))
  IN  IF d.version >= last THEN d
      ELSE [inOrder(LAMBDA v, e : Step(v, d.version, last, e)) EXCEPT !.version = last]

-----------------------------------------------------------------------------
(* What load_state makes of the document.                                   *)

Migrate(d) == MigrateTo(Version, d)

\* _validate_loaded_state and StateV12 hold of any document here (its keys are
\* fields); _resolved_contracts is what can raise: a label it cannot find, or
\* float(None), for the multiplier or the cost of a market that has no table.
Loads(d) ==
  LET s == Migrate(d)
      labels == Get(Get(s.users, Admin, NoRow), "contracts", NoRow)
  IN  /\ DefaultMarkets \subseteq DOMAIN labels
      /\ \A m \in DOMAIN s.markets \ DefaultMarkets, key \in PriceKeys :
           Get(s.markets[m], key, Default) # Null

\* save_state quantises again, where version 12 no longer keeps money.
Saved(s) == V9(s)
-----------------------------------------------------------------------------
(* What the programs left: a document of version v, from the field list of   *)
(* its migrations.  The version field itself may run behind, as it does      *)
(* while the steps are taken.                                                *)

IsDocument(d) ==
  d = [version |-> d.version, top |-> d.top, markets |-> d.markets, settings |-> d.settings,
       signals |-> d.signals, warnings |-> d.warnings, users |-> d.users]

\* The keys of one user, at the top level or, in version 12, in a bucket.
BucketAsOf(v, b) ==
  /\ \A k \in {"account", "initial_account"} \cap DOMAIN b : b[k] \in Int
  /\ \A k \in {"trade_log", "equity_history"} \cap DOMAIN b : b[k] \in Seq(Int)
  /\ "contracts" \in DOMAIN b => DefaultMarkets \subseteq DOMAIN b.contracts
  /\ v >= 3 /\ "positions" \in DOMAIN b =>
       \A m \in DOMAIN b.positions :
         b.positions[m] # NoRow => "manual_stop" \in DOMAIN b.positions[m]
  /\ v >= 7 /\ "paper_trades" \in DOMAIN b =>
       \A i \in DOMAIN b.paper_trades : "last_alert_state" \in DOMAIN b.paper_trades[i]

\* The registry, with the signal and the settings of each of its markets.
MarketsAsOf(v, d) ==
  /\ DOMAIN d.markets \subseteq Markets /\ DOMAIN d.settings \subseteq DOMAIN d.markets
  /\ \A m \in DOMAIN d.settings : DOMAIN d.settings[m] \subseteq SettingKeys
  /\ \A m \in DOMAIN d.markets : m \in DefaultMarkets \/ PriceKeys \subseteq DOMAIN d.markets[m]
  /\ v >= 4 => \A m \in DOMAIN d.signals :
       IsDict(d.signals[m]) => "strategy_version" \in DOMAIN d.signals[m]
  /\ v >= 8 => \A m \in DOMAIN d.markets :
       /\ m \in DOMAIN d.signals /\ m \in DOMAIN d.settings
       /\ SettingKeys \subseteq DOMAIN d.settings[m] /\ PriceKeys \subseteq DOMAIN d.markets[m]
  /\ v >= 10 => \A m \in DOMAIN d.signals : IsDict(d.signals[m])
  /\ v >= 11 => \A m \in DOMAIN d.markets : "contract_type" \in DOMAIN d.markets[m]

WarningsAsOf(d) == d.warnings \in Seq({"drift", "other"}) /\ Len(d.warnings) <= MaxWarnings

\* Before version 12: everything of the user at the top level, rounded from
\* version 9 on.
AsOf(v, d) ==
  /\ IsDocument(d) /\ d.users = NoRow
  /\ DOMAIN d.top \subseteq UserKeys
  /\ BucketAsOf(v, d.top) /\ MarketsAsOf(v, d) /\ WarningsAsOf(d)
  /\ v >= 9 => \A k \in DOMAIN d.top : Quantised(k, d.top[k]) = d.top[k]
=============================================================================
