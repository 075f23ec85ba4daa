---------------------------- MODULE MCDocuments -----------------------------
(* Instances of Documents for TLC: the files an upgrade may find. *)
EXTENDS Documents

CONSTANTS web, page, rates, sport

\* A row as a program of version v wrote it: the first keys, and those of the
\* versions up to v, all set by the owner.
RowOf(v, first, later) == Filled({first} \cup {k \in DOMAIN later : later[k] <= v}, Own)

HeldRow(v) == RowOf(v, "entry", [manual_stop |-> 3])
PaperRow(v) == RowOf(v, "entry", [last_alert_state |-> 7])
SignalRow(v) ==
  RowOf(v, "signal", [strategy_version |-> 4, ohlc_window |-> 5, indicator_scalars |-> 5])
MarketRow(v) == RowOf(v, "multiplier", [cost_aud |-> 8, contract_type |-> 11])

Only(v, from, keys) == IF v >= from THEN keys ELSE NoRow

\* The document of version v: with positions, and signals as dicts; or with
\* neither, the signals being bare ints before version 10.  From version 8 on
\* the operator may have added a market and set it up.
OldDocument(v, held) ==
  LET known == IF v >= 8 THEN Markets ELSE DefaultMarkets
      \* money was rounded from version 9 on
      account == IF v >= 9 THEN 120 ELSE 123
  IN  [version |-> v,
       top |-> Merged([account |-> account,
                       positions |-> [m \in known |-> IF held THEN HeldRow(v) ELSE NoRow],
                       trade_log |-> IF held THEN <<30>> ELSE <<>>,
                       equity_history |-> IF held THEN <<account>> ELSE <<>>],
                Merged(Only(v, 2, [initial_account |-> 90, contracts |-> Filled(DefaultMarkets, Own)]),
                       Only(v, 6, [paper_trades |-> IF held THEN <<PaperRow(v)>> ELSE <<>>]))),
       markets |-> Only(v, 8, [m \in known |-> MarketRow(v)]),
       settings |-> Only(v, 8, [m \in known |-> Filled(SettingKeys, Own)]),
       signals |-> [m \in known |-> IF ~held /\ v < 10 THEN Bare ELSE SignalRow(v)],
       warnings |-> IF held THEN <<"drift", "other">> ELSE <<>>,
       users |-> NoRow]

Files ==
  {OldDocument(v, held) : v \in 0..11, held \in BOOLEAN}
    \cup {ResetState(InitialAccount)}
=============================================================================
