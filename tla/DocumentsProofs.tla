-------------------------- MODULE DocumentsProofs ---------------------------
(***************************************************************************)
(* Theorems about Documents: for any installation whose file was left by   *)
(* an older version, and any number of callers, markets and edits.         *)
(*                                                                         *)
(* First the eleven migrations.  Each takes a document of the version      *)
(* before it (AsOf) to one of its own version and leaves what its owner    *)
(* set (V2Step to V12Step), so that a load makes a document of version 12  *)
(* of any older one (Migrated); and each repeats itself (V2Repeats to      *)
(* V12Repeats).  Then the inductive invariant: the file is as the older    *)
(* program left it, or a document of version 12 whose bucket holds exactly *)
(* what the history says the admin owns (FileIsGood).  Each edit keeps     *)
(* that of the document it was given, and the lock makes that document the *)
(* file.                                                                   *)
(***************************************************************************)
EXTENDS Documents, FiniteSetTheorems, SequenceTheorems, WellFoundedInduction, TLAPS

-----------------------------------------------------------------------------
(* Rows and mappings. *)

LEMMA FilledKeys ==
  ASSUME NEW keys, NEW value
  PROVE  DOMAIN Filled(keys, value) = keys /\ \A k \in keys : Filled(keys, value)[k] = value
  BY DEF Filled

LEMMA NoRowIsEmpty == DOMAIN NoRow = {}
  BY FilledKeys DEF NoRow

LEMMA BackfillKeys ==
  ASSUME NEW row, NEW keys
  PROVE  /\ DOMAIN Backfill(row, keys) = DOMAIN row \cup keys
         /\ \A k \in DOMAIN row : Backfill(row, keys)[k] = row[k]
         /\ \A k \in keys \ DOMAIN row : Backfill(row, keys)[k] = Default
  BY DEF Backfill, Merged, Filled

LEMMA BackfillDomain ==
  ASSUME NEW row, NEW keys
  PROVE  DOMAIN Backfill(row, keys) = DOMAIN row \cup keys
  BY BackfillKeys

LEMMA BackfillKeeps ==
  ASSUME NEW row, NEW keys, NEW k \in DOMAIN row
  PROVE  Backfill(row, keys)[k] = row[k]
  BY BackfillKeys

\* A default is nobody's own.
LEMMA BackfillOwnsNothing ==
  ASSUME NEW row, NEW keys
  PROVE  OwnKeys(Backfill(row, keys)) = OwnKeys(row)
<1>1. Default # Own
  BY DEF Default, Own
<1> DEFINE b == Backfill(row, keys)
<1>2. /\ DOMAIN b = DOMAIN row \cup keys
      /\ \A k \in DOMAIN row : b[k] = row[k]
      /\ \A k \in keys \ DOMAIN row : b[k] = Default
  BY BackfillKeys
<1> HIDE DEF b
<1>3. OwnKeys(b) = OwnKeys(row)
  BY <1>1, <1>2 DEF OwnKeys
<1> QED BY <1>3 DEF b

LEMMA NoRowOwnsNothing == OwnKeys(NoRow) = {}
  BY NoRowIsEmpty DEF OwnKeys

LEMMA InOwnPairs ==
  ASSUME NEW rows, NEW p
  PROVE  p \in OwnPairs(rows) <=> \E m \in DOMAIN rows : \E k \in OwnKeys(rows[m]) : p = <<m, k>>
  BY DEF OwnPairs

\* Two tables own the same when their rows do and the rest owns nothing.
LEMMA SamePairs ==
  ASSUME NEW rows, NEW others,
         \A m \in DOMAIN rows \cap DOMAIN others : OwnKeys(others[m]) = OwnKeys(rows[m]),
         \A m \in DOMAIN rows \ DOMAIN others : OwnKeys(rows[m]) = {},
         \A m \in DOMAIN others \ DOMAIN rows : OwnKeys(others[m]) = {}
  PROVE  OwnPairs(others) = OwnPairs(rows)
<1>1. ASSUME NEW p PROVE p \in OwnPairs(others) <=> p \in OwnPairs(rows)
  <2>1. ASSUME p \in OwnPairs(others) PROVE p \in OwnPairs(rows)
    BY <2>1, InOwnPairs
  <2>2. ASSUME p \in OwnPairs(rows) PROVE p \in OwnPairs(others)
    BY <2>2, InOwnPairs
  <2> QED BY <2>1, <2>2
<1> QED BY <1>1

-----------------------------------------------------------------------------
(* Money. *)

LEMMA CentsOnce ==
  ASSUME NEW x \in Int
  PROVE  Cents(x) \in Int /\ Cents(Cents(x)) = Cents(x)
  BY DEF Cents

LEMMA QuantisedKinds ==
  ASSUME NEW x
  PROVE  /\ \A k \in {"account", "initial_account"} : Quantised(k, x) = Cents(x)
         /\ \A k \in {"trade_log", "equity_history"} :
               Quantised(k, x) = [i \in DOMAIN x |-> Cents(x[i])]
         /\ \A k \in {"contracts", "positions", "paper_trades"} : Quantised(k, x) = x
  BY DEF Quantised

LEMMA CentsOfSeq ==
  ASSUME NEW s \in Seq(Int)
  PROVE  /\ [i \in DOMAIN s |-> Cents(s[i])] \in Seq(Int)
         /\ LET t == [i \in DOMAIN s |-> Cents(s[i])] IN [i \in DOMAIN t |-> Cents(t[i])] = t
<1> DEFINE t == [i \in DOMAIN s |-> Cents(s[i])]
<1>1. DOMAIN s = 1..Len(s) /\ Len(s) \in Nat /\ \A i \in DOMAIN s : s[i] \in Int
  BY LenProperties, ElementOfSeq
<1>2. \A i \in 1..Len(s) : Cents(s[i]) \in Int /\ Cents(Cents(s[i])) = Cents(s[i])
  BY <1>1, CentsOnce
<1>3. t \in [1..Len(s) -> Int]
  BY <1>1, <1>2
<1>4. t \in Seq(Int)
  BY <1>1, <1>3, SeqDef
<1>5. [i \in DOMAIN t |-> Cents(t[i])] = t
  BY <1>1, <1>2
<1> QED BY <1>4, <1>5

\* What the keys of a user hold, when there is money in them.
HoldsMoney(k, x) ==
  /\ k \in {"account", "initial_account"} => x \in Int
  /\ k \in {"trade_log", "equity_history"} => x \in Seq(Int)

LEMMA QuantisedOnce ==
  ASSUME NEW k \in UserKeys, NEW x, HoldsMoney(k, x)
  PROVE  HoldsMoney(k, Quantised(k, x)) /\ Quantised(k, Quantised(k, x)) = Quantised(k, x)
<1>1. CASE k \in {"account", "initial_account"}
  BY <1>1, CentsOnce, QuantisedKinds DEF HoldsMoney
<1>2. CASE k \in {"trade_log", "equity_history"}
  <2>1. Quantised(k, x) = [i \in DOMAIN x |-> Cents(x[i])]
    BY <1>2, QuantisedKinds
  <2>2. x \in Seq(Int)
    BY <1>2 DEF HoldsMoney
  <2> QED BY <1>2, <2>1, <2>2, CentsOfSeq, QuantisedKinds DEF HoldsMoney
<1>3. CASE k \in {"contracts", "positions", "paper_trades"}
  BY <1>3, QuantisedKinds DEF HoldsMoney
<1> QED BY <1>1, <1>2, <1>3 DEF UserKeys

-----------------------------------------------------------------------------
(* The steps of a migration, one lemma each: the document becomes one of the *)
(* next version, and what it carries stays.                                  *)

NoNulls(d) ==
  \A m \in DOMAIN d.markets \ DefaultMarkets, key \in PriceKeys :
    Get(d.markets[m], key, Own) # Null

Carries(d, e) ==
  /\ e.version = d.version /\ e.warnings = d.warnings
  /\ OwnAtFirst(e) = OwnAtFirst(d)
  /\ NoNulls(d) => NoNulls(e)

LEMMA CarriesOn ==
  ASSUME NEW c, NEW d, NEW e, Carries(c, d), Carries(d, e)
  PROVE  Carries(c, e)
  BY DEF Carries

LEMMA NewTop ==
  ASSUME NEW d, IsDocument(d), NEW x
  PROVE  LET e == [d EXCEPT !.top = x]
         IN  /\ IsDocument(e) /\ e.top = x /\ e.version = d.version /\ e.markets = d.markets
             /\ e.settings = d.settings /\ e.signals = d.signals /\ e.warnings = d.warnings
             /\ e.users = d.users
  BY DEF IsDocument

LEMMA NewSignals ==
  ASSUME NEW d, IsDocument(d), NEW x
  PROVE  LET e == [d EXCEPT !.signals = x]
         IN  /\ IsDocument(e) /\ e.signals = x /\ e.version = d.version /\ e.markets = d.markets
             /\ e.settings = d.settings /\ e.top = d.top /\ e.warnings = d.warnings
             /\ e.users = d.users
  BY DEF IsDocument

LEMMA NewMarkets ==
  ASSUME NEW d, IsDocument(d), NEW x
  PROVE  LET e == [d EXCEPT !.markets = x]
         IN  /\ IsDocument(e) /\ e.markets = x /\ e.version = d.version /\ e.signals = d.signals
             /\ e.settings = d.settings /\ e.top = d.top /\ e.warnings = d.warnings
             /\ e.users = d.users
  BY DEF IsDocument

LEMMA NewSettings ==
  ASSUME NEW d, IsDocument(d), NEW x
  PROVE  LET e == [d EXCEPT !.settings = x]
         IN  /\ IsDocument(e) /\ e.settings = x /\ e.version = d.version /\ e.signals = d.signals
             /\ e.markets = d.markets /\ e.top = d.top /\ e.warnings = d.warnings
             /\ e.users = d.users
  BY DEF IsDocument

\* A step that leaves the user's things and the registry alone.
LEMMA SameFirst ==
  ASSUME NEW d, NEW e, e.version = d.version, e.warnings = d.warnings, e.markets = d.markets,
         e.settings = d.settings, e.top = d.top
  PROVE  Carries(d, e)
  BY DEF Carries, NoNulls, OwnAtFirst, BucketAtFirst

\* What a user owns is read from six keys.
LEMMA SameBuckets ==
  ASSUME NEW b, NEW c, DOMAIN b = UserKeys, DOMAIN c = UserKeys,
         c.account = b.account, c.trade_log = b.trade_log, c.equity_history = b.equity_history,
         OwnPairs(c.positions) = OwnPairs(b.positions), OwnKeys(c.contracts) = OwnKeys(b.contracts),
         [i \in DOMAIN c.paper_trades |-> OwnKeys(c.paper_trades[i])]
           = [i \in DOMAIN b.paper_trades |-> OwnKeys(b.paper_trades[i])],
         NEW settings, NEW others, OwnPairs(others) = OwnPairs(settings)
  PROVE  OwnOf(c, others) = OwnOf(b, settings)
<1>1. /\ Get(b, "email_enabled", TRUE) = Get(c, "email_enabled", TRUE)
      /\ Get(b, "news_panel_collapsed", FALSE) = Get(c, "news_panel_collapsed", FALSE)
  BY DEF Get, UserKeys
<1> QED BY <1>1 DEF OwnOf

LEMMA FirstKeys ==
  ASSUME NEW d
  PROVE  /\ DOMAIN BucketAtFirst(d) = UserKeys
         /\ \A k \in UserKeys \cap DOMAIN d.top : BucketAtFirst(d)[k] = Quantised(k, d.top[k])
         /\ \A k \in UserKeys \ DOMAIN d.top : BucketAtFirst(d)[k] = NoDoc.users[Admin][k]
  BY DEF BucketAtFirst

\* ... and the seventh, the initial account, may be anything.
LEMMA SameOwner ==
  ASSUME NEW d, NEW e, OwnPairs(e.settings) = OwnPairs(d.settings),
         \A k \in UserKeys \ {"initial_account"} : BucketAtFirst(e)[k] = BucketAtFirst(d)[k]
  PROVE  OwnAtFirst(e) = OwnAtFirst(d)
<1> DEFINE b == BucketAtFirst(d)
           c == BucketAtFirst(e)
<1>1. DOMAIN b = UserKeys /\ DOMAIN c = UserKeys
  BY FirstKeys
<1>2. /\ c.account = b.account /\ c.trade_log = b.trade_log /\ c.equity_history = b.equity_history
      /\ c.positions = b.positions /\ c.contracts = b.contracts /\ c.paper_trades = b.paper_trades
  BY DEF UserKeys
<1> HIDE DEF b, c
<1>3. OwnOf(c, e.settings) = OwnOf(b, d.settings)
  BY <1>1, <1>2, SameBuckets
<1> QED BY <1>3 DEF OwnAtFirst, b, c

\* What version 12 gives a user without a key.
LEMMA FreshBucket ==
  LET b == ResetState(InitialAccount).users[Admin]
  IN  /\ NoDoc.users[Admin] = b /\ DOMAIN b = UserKeys
      /\ b.account = InitialAccount /\ b.initial_account = InitialAccount
      /\ b.contracts = DefaultContracts /\ b.positions = [m \in DefaultMarkets |-> NoRow]
      /\ b.trade_log = <<>> /\ b.equity_history = <<>> /\ b.paper_trades = <<>>
  BY DEF ResetState, NoDoc, UserKeys

LEMMA V2Step ==
  ASSUME NEW d, AsOf(1, d)
  PROVE  AsOf(2, V2(d)) /\ Carries(d, V2(d))
<1> DEFINE add == [initial_account |-> InitialAccount, contracts |-> DefaultContracts]
           top == Merged(d.top, add)
           e == V2(d)
<1>1. /\ DOMAIN top = DOMAIN d.top \cup {"initial_account", "contracts"}
      /\ \A k \in DOMAIN d.top : top[k] = d.top[k]
      /\ \A k \in {"initial_account", "contracts"} \ DOMAIN d.top : top[k] = add[k]
  BY DEF Merged
<1>2. /\ IsDocument(e) /\ e.top = top /\ e.version = d.version /\ e.markets = d.markets
      /\ e.settings = d.settings /\ e.signals = d.signals /\ e.warnings = d.warnings
      /\ e.users = d.users
  BY NewTop DEF V2, AsOf
<1> HIDE DEF top, e
<1>3. BucketAsOf(2, top)
  <2>1. \A k \in {"account", "initial_account"} \cap DOMAIN top : top[k] \in Int
    BY <1>1, SchemaAssumption DEF AsOf, BucketAsOf
  <2>2. \A k \in {"trade_log", "equity_history"} \cap DOMAIN top : top[k] \in Seq(Int)
    BY <1>1 DEF AsOf, BucketAsOf
  <2>3. DefaultMarkets \subseteq DOMAIN top.contracts
    BY <1>1 DEF AsOf, BucketAsOf, DefaultContracts, Filled
  <2> QED BY <2>1, <2>2, <2>3 DEF BucketAsOf
<1>4. AsOf(2, e)
  BY <1>1, <1>2, <1>3 DEF AsOf, MarketsAsOf, WarningsAsOf, UserKeys
<1>5. ASSUME NEW k \in UserKeys \ {"initial_account"}
      PROVE  BucketAtFirst(e)[k] = BucketAtFirst(d)[k]
  <2>1. CASE k \in DOMAIN d.top
    BY <1>1, <1>2, <2>1, FirstKeys
  <2>2. CASE k \notin DOMAIN d.top /\ k = "contracts"
    <3>1. k \in UserKeys \cap DOMAIN e.top /\ e.top[k] = DefaultContracts
      BY <1>1, <1>2, <2>2
    <3>2. BucketAtFirst(e)[k] = DefaultContracts
      BY <2>2, <3>1, FirstKeys, QuantisedKinds
    <3> QED BY <2>2, <3>2, FirstKeys, FreshBucket
  <2>3. CASE k \notin DOMAIN d.top /\ k # "contracts"
    BY <1>1, <1>2, <2>3, FirstKeys
  <2> QED BY <2>1, <2>2, <2>3
<1>6. OwnAtFirst(e) = OwnAtFirst(d)
  BY <1>2, <1>5, SameOwner
<1> QED BY <1>2, <1>4, <1>6 DEF Carries, NoNulls, e

LEMMA V3Step ==
  ASSUME NEW d, AsOf(2, d)
  PROVE  AsOf(3, V3(d)) /\ Carries(d, V3(d))
<1> DEFINE held == Get(d.top, "positions", NoRow)
           kept == [m \in DOMAIN held |->
                      IF held[m] = NoRow THEN NoRow ELSE Backfill(held[m], {"manual_stop"})]
           top == Merged([positions |-> kept], d.top)
           e == V3(d)
<1>1. /\ DOMAIN top = DOMAIN d.top \cup {"positions"} /\ top.positions = kept
      /\ \A k \in DOMAIN d.top \ {"positions"} : top[k] = d.top[k]
  BY DEF Merged
<1>2. /\ IsDocument(e) /\ e.top = top /\ e.version = d.version /\ e.markets = d.markets
      /\ e.settings = d.settings /\ e.signals = d.signals /\ e.warnings = d.warnings
      /\ e.users = d.users
  BY NewTop DEF V3, AsOf
<1>3. /\ DOMAIN kept = DOMAIN held
      /\ \A m \in DOMAIN held : /\ kept[m] # NoRow => "manual_stop" \in DOMAIN kept[m]
                                /\ OwnKeys(kept[m]) = OwnKeys(held[m])
  <2>1. ASSUME NEW m \in DOMAIN held, held[m] # NoRow
        PROVE  /\ kept[m] = Backfill(held[m], {"manual_stop"})
               /\ "manual_stop" \in DOMAIN kept[m] /\ OwnKeys(kept[m]) = OwnKeys(held[m])
    <3>1. kept[m] = Backfill(held[m], {"manual_stop"})
      BY <2>1
    <3>2. /\ "manual_stop" \in DOMAIN Backfill(held[m], {"manual_stop"})
          /\ OwnKeys(Backfill(held[m], {"manual_stop"})) = OwnKeys(held[m])
      BY BackfillKeys, BackfillOwnsNothing
    <3> QED BY <3>1, <3>2
  <2>2. ASSUME NEW m \in DOMAIN held, held[m] = NoRow
        PROVE  kept[m] = held[m]
    BY <2>2
  <2> HIDE DEF held
  <2> QED BY <2>1, <2>2
<1> HIDE DEF kept, top, e
<1>4. BucketAsOf(3, top)
  BY <1>1, <1>3 DEF AsOf, BucketAsOf
<1>5. AsOf(3, e)
  BY <1>1, <1>2, <1>4 DEF AsOf, MarketsAsOf, WarningsAsOf, UserKeys
<1>6. OwnPairs(kept) = OwnPairs(held)
  BY <1>3, SamePairs
<1> DEFINE b == BucketAtFirst(d)
           c == BucketAtFirst(e)
<1>7. /\ DOMAIN b = UserKeys /\ DOMAIN c = UserKeys
      /\ \A k \in UserKeys \ {"positions"} : c[k] = b[k]
  BY <1>1, <1>2, FirstKeys
<1>8. OwnPairs(c.positions) = OwnPairs(b.positions)
  <2>1. c.positions = kept
    BY <1>1, <1>2, FirstKeys, QuantisedKinds DEF UserKeys
  <2>2. CASE "positions" \in DOMAIN d.top
    <3>1. b.positions = held
      BY <2>2, FirstKeys, QuantisedKinds DEF UserKeys, Get
    <3> QED BY <1>6, <2>1, <3>1
  <2>3. CASE "positions" \notin DOMAIN d.top
    <3>1. b.positions = [m \in DefaultMarkets |-> NoRow]
      BY <2>3, FirstKeys, FreshBucket DEF UserKeys
    <3>2. DOMAIN held = {}
      BY <2>3, NoRowIsEmpty DEF Get
    <3>3. OwnPairs(b.positions) = OwnPairs(held)
      BY <3>1, <3>2, NoRowOwnsNothing, SamePairs
    <3> QED BY <1>6, <2>1, <3>3
  <2> QED BY <2>2, <2>3
<1> HIDE DEF b, c
<1>9. OwnOf(c, e.settings) = OwnOf(b, d.settings)
  BY <1>2, <1>7, <1>8, SameBuckets DEF UserKeys
<1> QED BY <1>2, <1>5, <1>9 DEF Carries, NoNulls, OwnAtFirst, b, c, e

LEMMA DictsGetKeys ==
  ASSUME NEW signals, NEW keys, "bare" \notin keys
  PROVE  LET got == DictsGet(signals, keys)
         IN  /\ DOMAIN got = DOMAIN signals
             /\ \A m \in DOMAIN signals :
                  /\ IsDict(got[m]) <=> IsDict(signals[m])
                  /\ DOMAIN signals[m] \subseteq DOMAIN got[m]
                  /\ IsDict(signals[m]) => keys \subseteq DOMAIN got[m]
<1> DEFINE got == DictsGet(signals, keys)
<1>1. DOMAIN got = DOMAIN signals
  BY DEF DictsGet
<1>2. ASSUME NEW m \in DOMAIN signals, IsDict(signals[m])
      PROVE  /\ IsDict(got[m]) /\ DOMAIN signals[m] \subseteq DOMAIN got[m]
             /\ keys \subseteq DOMAIN got[m]
  <2>1. got[m] = Backfill(signals[m], keys)
    BY <1>2 DEF DictsGet
  <2>2. DOMAIN Backfill(signals[m], keys) = DOMAIN signals[m] \cup keys
    BY BackfillKeys
  <2> QED BY <1>2, <2>1, <2>2 DEF IsDict
<1>3. ASSUME NEW m \in DOMAIN signals, ~IsDict(signals[m])
      PROVE  got[m] = signals[m]
  BY <1>3 DEF DictsGet
<1> HIDE DEF got
<1>4. \A m \in DOMAIN signals :
        /\ IsDict(got[m]) <=> IsDict(signals[m])
        /\ DOMAIN signals[m] \subseteq DOMAIN got[m]
        /\ IsDict(signals[m]) => keys \subseteq DOMAIN got[m]
  BY <1>2, <1>3
<1> QED BY <1>1, <1>4 DEF got

LEMMA V4Step ==
  ASSUME NEW d, AsOf(3, d)
  PROVE  AsOf(4, V4(d)) /\ Carries(d, V4(d))
<1> DEFINE got == DictsGet(d.signals, {"strategy_version"})
           e == V4(d)
<1>1. /\ IsDocument(e) /\ e.signals = got /\ e.version = d.version /\ e.markets = d.markets
      /\ e.settings = d.settings /\ e.top = d.top /\ e.warnings = d.warnings
      /\ e.users = d.users
  BY NewSignals DEF V4, AsOf
<1>2. /\ DOMAIN got = DOMAIN d.signals
      /\ \A m \in DOMAIN got : IsDict(got[m]) => "strategy_version" \in DOMAIN got[m]
  BY DictsGetKeys
<1> HIDE DEF got, e
<1>3. AsOf(4, e)
  BY <1>1, <1>2 DEF AsOf, BucketAsOf, MarketsAsOf, WarningsAsOf
<1> QED BY <1>1, <1>3, SameFirst DEF e

LEMMA V5Step ==
  ASSUME NEW d, AsOf(4, d)
  PROVE  AsOf(5, V5(d)) /\ Carries(d, V5(d))
<1> DEFINE got == DictsGet(d.signals, {"ohlc_window", "indicator_scalars"})
           e == V5(d)
<1>1. /\ IsDocument(e) /\ e.signals = got /\ e.version = d.version /\ e.markets = d.markets
      /\ e.settings = d.settings /\ e.top = d.top /\ e.warnings = d.warnings
      /\ e.users = d.users
  BY NewSignals DEF V5, AsOf
<1>2. /\ DOMAIN got = DOMAIN d.signals
      /\ \A m \in DOMAIN got : (IsDict(got[m]) <=> IsDict(d.signals[m]))
                               /\ DOMAIN d.signals[m] \subseteq DOMAIN got[m]
  BY DictsGetKeys
<1> HIDE DEF got, e
<1>3. AsOf(5, e)
  BY <1>1, <1>2 DEF AsOf, BucketAsOf, MarketsAsOf, WarningsAsOf
<1> QED BY <1>1, <1>3, SameFirst DEF e

LEMMA V6Step ==
  ASSUME NEW d, AsOf(5, d)
  PROVE  AsOf(6, V6(d)) /\ Carries(d, V6(d))
<1> DEFINE top == Merged(d.top, [paper_trades |-> <<>>])
           e == V6(d)
<1>1. /\ DOMAIN top = DOMAIN d.top \cup {"paper_trades"}
      /\ \A k \in DOMAIN d.top : top[k] = d.top[k]
      /\ "paper_trades" \notin DOMAIN d.top => top.paper_trades = <<>>
  BY DEF Merged
<1>2. /\ IsDocument(e) /\ e.top = top /\ e.version = d.version /\ e.markets = d.markets
      /\ e.settings = d.settings /\ e.signals = d.signals /\ e.warnings = d.warnings
      /\ e.users = d.users
  BY NewTop DEF V6, AsOf
<1> HIDE DEF top, e
<1>3. BucketAsOf(6, top)
  BY <1>1 DEF AsOf, BucketAsOf
<1>4. AsOf(6, e)
  BY <1>1, <1>2, <1>3 DEF AsOf, MarketsAsOf, WarningsAsOf, UserKeys
<1>5. ASSUME NEW k \in UserKeys \ {"initial_account"}
      PROVE  BucketAtFirst(e)[k] = BucketAtFirst(d)[k]
  <2>1. CASE k \in DOMAIN d.top
    BY <1>1, <1>2, <2>1, FirstKeys
  <2>2. CASE k \notin DOMAIN d.top /\ k = "paper_trades"
    <3>1. k \in UserKeys \cap DOMAIN e.top /\ e.top[k] = <<>>
      BY <1>1, <1>2, <2>2
    <3>2. BucketAtFirst(e)[k] = <<>>
      BY <2>2, <3>1, FirstKeys, QuantisedKinds
    <3> QED BY <2>2, <3>2, FirstKeys, FreshBucket
  <2>3. CASE k \notin DOMAIN d.top /\ k # "paper_trades"
    BY <1>1, <1>2, <2>3, FirstKeys
  <2> QED BY <2>1, <2>2, <2>3
<1>6. OwnAtFirst(e) = OwnAtFirst(d)
  BY <1>2, <1>5, SameOwner
<1> QED BY <1>2, <1>4, <1>6 DEF Carries, NoNulls, e

LEMMA V7Step ==
  ASSUME NEW d, AsOf(6, d)
  PROVE  AsOf(7, V7(d)) /\ Carries(d, V7(d))
<1>1. CASE "paper_trades" \notin DOMAIN d.top
  <2>1. V7(d) = d
    BY <1>1 DEF V7
  <2>2. AsOf(7, d)
    BY <1>1 DEF AsOf, BucketAsOf, MarketsAsOf
  <2> QED BY <2>1, <2>2, SameFirst
<1>2. CASE "paper_trades" \in DOMAIN d.top
  <2> DEFINE old == d.top.paper_trades
             rows == [i \in DOMAIN old |-> Backfill(old[i], {"last_alert_state"})]
             top == [d.top EXCEPT !.paper_trades = rows]
             e == V7(d)
  <2>1. e = [d EXCEPT !.top = top]
    BY <1>2 DEF V7, AsOf, IsDocument
  <2>2. /\ IsDocument(e) /\ e.top = top /\ e.version = d.version /\ e.markets = d.markets
        /\ e.settings = d.settings /\ e.signals = d.signals /\ e.warnings = d.warnings
        /\ e.users = d.users
    BY <2>1, NewTop DEF AsOf
  <2>3. /\ DOMAIN top = DOMAIN d.top /\ top.paper_trades = rows
        /\ \A k \in DOMAIN d.top \ {"paper_trades"} : top[k] = d.top[k]
    BY <1>2
  <2>4. /\ DOMAIN rows = DOMAIN old
        /\ \A i \in DOMAIN old : /\ "last_alert_state" \in DOMAIN rows[i]
                                 /\ OwnKeys(rows[i]) = OwnKeys(old[i])
    <3>1. ASSUME NEW i \in DOMAIN old
          PROVE  /\ "last_alert_state" \in DOMAIN rows[i]
                 /\ OwnKeys(rows[i]) = OwnKeys(old[i])
      <4>1. rows[i] = Backfill(old[i], {"last_alert_state"})
        OBVIOUS
      <4>2. /\ "last_alert_state" \in DOMAIN Backfill(old[i], {"last_alert_state"})
            /\ OwnKeys(Backfill(old[i], {"last_alert_state"})) = OwnKeys(old[i])
        <5>1. DOMAIN Backfill(old[i], {"last_alert_state"})
                = DOMAIN old[i] \cup {"last_alert_state"}
          BY BackfillKeys
        <5> QED BY <5>1, BackfillOwnsNothing
      <4> QED BY <4>1, <4>2
    <3> QED BY <3>1
  <2> HIDE DEF rows, top, e
  <2>5. BucketAsOf(7, top)
    BY <1>2, <2>3, <2>4 DEF AsOf, BucketAsOf
  <2>6. AsOf(7, e)
    BY <2>2, <2>3, <2>5 DEF AsOf, MarketsAsOf, WarningsAsOf
  <2> DEFINE b == BucketAtFirst(d)
             c == BucketAtFirst(e)
  <2>7. /\ DOMAIN b = UserKeys /\ DOMAIN c = UserKeys
        /\ \A k \in UserKeys \ {"paper_trades"} : c[k] = b[k]
    BY <2>2, <2>3, FirstKeys
  <2>8. b.paper_trades = old /\ c.paper_trades = rows
    BY <1>2, <2>2, <2>3, FirstKeys, QuantisedKinds DEF UserKeys
  <2>9. [i \in DOMAIN c.paper_trades |-> OwnKeys(c.paper_trades[i])]
          = [i \in DOMAIN b.paper_trades |-> OwnKeys(b.paper_trades[i])]
    BY <2>4, <2>8
  <2> HIDE DEF b, c
  <2>10. OwnOf(c, e.settings) = OwnOf(b, d.settings)
    BY <2>2, <2>7, <2>9, SameBuckets DEF UserKeys
  <2> QED BY <2>2, <2>6, <2>10 DEF Carries, NoNulls, OwnAtFirst, b, c, e
<1> QED BY <1>1, <1>2

LEMMA V8Step ==
  ASSUME NEW d, AsOf(7, d)
  PROVE  AsOf(8, V8(d)) /\ Carries(d, V8(d))
<1> DEFINE known == DefaultMarkets \cup DOMAIN d.markets
           wanted(m) == IF m \in DefaultMarkets THEN MarketKeys ELSE {}
           held == Get(d.top, "positions", NoRow)
           positions == Merged(held, [m \in known |-> NoRow])
           top == Merged([positions |-> positions], d.top)
           e == V8(d)
<1> DEFINE markets == [m \in known |-> Backfill(Get(d.markets, m, NoRow), wanted(m))]
           settings == [m \in known \cup DOMAIN d.settings |->
                          Backfill(Get(d.settings, m, NoRow), SettingKeys)]
           signals == Merged(d.signals, [m \in known |-> Bare])
<1>0. e = [d EXCEPT !.markets = markets, !.settings = settings, !.signals = signals, !.top = top]
  BY DEF V8, AsOf, IsDocument
<1>1. /\ IsDocument(e) /\ e.version = d.version /\ e.warnings = d.warnings /\ e.users = d.users
      /\ e.markets = markets /\ e.settings = settings /\ e.signals = signals /\ e.top = top
  <2> HIDE DEF markets, settings, signals, top, e
  <2> DEFINE d1 == [d EXCEPT !.markets = markets]
             d2 == [d1 EXCEPT !.settings = settings]
             d3 == [d2 EXCEPT !.signals = signals]
             d4 == [d3 EXCEPT !.top = top]
  <2>0. IsDocument(d)
    BY DEF AsOf
  <2>1. e = d4
    BY <1>0
  <2>2. /\ IsDocument(d1) /\ d1.markets = markets /\ d1.version = d.version
        /\ d1.warnings = d.warnings /\ d1.users = d.users
    BY <2>0, NewMarkets
  <2> HIDE DEF d1
  <2>3. /\ IsDocument(d2) /\ d2.markets = markets /\ d2.version = d.version
        /\ d2.warnings = d.warnings /\ d2.users = d.users /\ d2.settings = settings
    BY <2>2, NewSettings
  <2> HIDE DEF d2
  <2>4. /\ IsDocument(d3) /\ d3.markets = markets /\ d3.version = d.version
        /\ d3.warnings = d.warnings /\ d3.users = d.users /\ d3.settings = settings
        /\ d3.signals = signals
    BY <2>3, NewSignals
  <2> HIDE DEF d3
  <2>5. /\ IsDocument(d4) /\ d4.markets = markets /\ d4.version = d.version
        /\ d4.warnings = d.warnings /\ d4.users = d.users /\ d4.settings = settings
        /\ d4.signals = signals /\ d4.top = top
    BY <2>4, NewTop
  <2> QED BY <2>1, <2>5
<1>2. e.top = top
  BY <1>1
<1>3. /\ DOMAIN top = DOMAIN d.top \cup {"positions"} /\ top.positions = positions
      /\ \A k \in DOMAIN d.top \ {"positions"} : top[k] = d.top[k]
  BY DEF Merged
<1>4. /\ DOMAIN positions = DOMAIN held \cup known
      /\ \A m \in DOMAIN held : positions[m] = held[m]
      /\ \A m \in known \ DOMAIN held : positions[m] = NoRow
  BY DEF Merged
<1>5. /\ DOMAIN e.signals = DOMAIN d.signals \cup known
      /\ \A m \in DOMAIN d.signals : e.signals[m] = d.signals[m]
      /\ \A m \in known \ DOMAIN d.signals : e.signals[m] = Bare
  BY <1>1 DEF Merged
<1>6. ASSUME NEW m \in DOMAIN e.markets
      PROVE  /\ m \in known /\ PriceKeys \subseteq DOMAIN e.markets[m]
             /\ m \in DOMAIN e.settings /\ SettingKeys \subseteq DOMAIN e.settings[m]
             /\ m \notin DefaultMarkets =>
                  /\ m \in DOMAIN d.markets
                  /\ \A key \in PriceKeys : e.markets[m][key] = d.markets[m][key]
  <2>1. /\ m \in known /\ e.markets[m] = Backfill(Get(d.markets, m, NoRow), wanted(m))
        /\ e.settings[m] = Backfill(Get(d.settings, m, NoRow), SettingKeys)
        /\ m \in DOMAIN e.settings
    BY <1>1
  <2>2. SettingKeys \subseteq DOMAIN e.settings[m]
    <3>1. DOMAIN Backfill(Get(d.settings, m, NoRow), SettingKeys)
            = DOMAIN Get(d.settings, m, NoRow) \cup SettingKeys
      BY BackfillDomain
    <3>2. e.settings[m] = Backfill(Get(d.settings, m, NoRow), SettingKeys)
      BY <2>1
    <3> QED BY <3>1, <3>2
  <2>3. CASE m \in DefaultMarkets
    <3>1. DOMAIN e.markets[m] = DOMAIN Get(d.markets, m, NoRow) \cup wanted(m)
      BY <2>1, BackfillDomain
    <3> QED BY <2>1, <2>2, <2>3, <3>1 DEF MarketKeys
  <2>4. CASE m \notin DefaultMarkets
    <3>1. m \in DOMAIN d.markets /\ Get(d.markets, m, NoRow) = d.markets[m]
      BY <2>1, <2>4 DEF Get
    <3>2. PriceKeys \subseteq DOMAIN d.markets[m]
      BY <2>4, <3>1 DEF AsOf, MarketsAsOf
    <3>3. e.markets[m] = Backfill(d.markets[m], wanted(m))
      BY <2>1, <3>1
    <3>4. DOMAIN e.markets[m] = DOMAIN d.markets[m] \cup wanted(m)
      BY <3>3, BackfillDomain
    <3>5. \A key \in PriceKeys : e.markets[m][key] = d.markets[m][key]
      BY <3>2, <3>3, BackfillKeeps
    <3> QED BY <2>1, <2>2, <3>1, <3>2, <3>4, <3>5
  <2> QED BY <2>3, <2>4
<1>7. DOMAIN e.markets = known /\ known \subseteq Markets /\ DOMAIN d.markets \subseteq known
  BY <1>1 DEF AsOf, MarketsAsOf, Markets
<1>8. /\ \A m \in DOMAIN d.settings : OwnKeys(e.settings[m]) = OwnKeys(d.settings[m])
      /\ \A m \in DOMAIN e.settings \ DOMAIN d.settings : OwnKeys(e.settings[m]) = {}
      /\ DOMAIN d.settings \subseteq DOMAIN e.settings
  <2>1. ASSUME NEW m \in DOMAIN e.settings
        PROVE  OwnKeys(e.settings[m]) = OwnKeys(Get(d.settings, m, NoRow))
    <3>1. e.settings[m] = Backfill(Get(d.settings, m, NoRow), SettingKeys)
      BY <1>1
    <3> QED BY <3>1, BackfillOwnsNothing
  <2>2. DOMAIN d.settings \subseteq DOMAIN e.settings
    BY <1>1
  <2> QED BY <2>1, <2>2, NoRowOwnsNothing DEF Get
<1>9. /\ DOMAIN e.settings \subseteq DOMAIN e.markets
      /\ \A m \in DOMAIN e.settings : DOMAIN e.settings[m] \subseteq SettingKeys
  <2>1. DOMAIN e.settings \subseteq DOMAIN e.markets
    BY <1>1 DEF AsOf, MarketsAsOf
  <2>2. ASSUME NEW m \in DOMAIN e.settings PROVE DOMAIN e.settings[m] \subseteq SettingKeys
    <3>1. e.settings[m] = Backfill(Get(d.settings, m, NoRow), SettingKeys)
      BY <1>1
    <3>2. DOMAIN Get(d.settings, m, NoRow) \subseteq SettingKeys
      BY NoRowIsEmpty DEF Get, AsOf, MarketsAsOf
    <3>3. DOMAIN Backfill(Get(d.settings, m, NoRow), SettingKeys)
            = DOMAIN Get(d.settings, m, NoRow) \cup SettingKeys
      BY BackfillDomain
    <3> HIDE DEF e
    <3> QED BY <3>1, <3>2, <3>3
  <2> QED BY <2>1, <2>2
<1> HIDE DEF known, wanted, markets, settings, signals, positions, top, e
<1>10. MarketsAsOf(8, e)
  <2>1. \A m \in DOMAIN e.signals :
          IsDict(e.signals[m]) => "strategy_version" \in DOMAIN e.signals[m]
    <3>1. ~IsDict(Bare)
      BY FilledKeys DEF IsDict, Bare
    <3> QED BY <1>5, <3>1 DEF AsOf, MarketsAsOf
  <2> QED BY <1>5, <1>6, <1>7, <1>9, <2>1 DEF MarketsAsOf
<1>11. BucketAsOf(8, top)
  <2>1. \A m \in DOMAIN positions : positions[m] # NoRow => "manual_stop" \in DOMAIN positions[m]
    BY <1>4, NoRowIsEmpty DEF AsOf, BucketAsOf, Get
  <2> QED BY <1>3, <2>1 DEF AsOf, BucketAsOf
<1>12. AsOf(8, e)
  BY <1>1, <1>3, <1>10, <1>11 DEF AsOf, WarningsAsOf, UserKeys
<1>13. OwnPairs(e.settings) = OwnPairs(d.settings)
  BY <1>8, SamePairs
<1>14. OwnPairs(positions) = OwnPairs(held)
  BY <1>4, NoRowOwnsNothing, SamePairs
<1> DEFINE b == BucketAtFirst(d)
           c == BucketAtFirst(e)
<1>15. /\ DOMAIN b = UserKeys /\ DOMAIN c = UserKeys
       /\ \A k \in UserKeys \ {"positions"} : c[k] = b[k]
  BY <1>2, <1>3, FirstKeys
<1>16. OwnPairs(c.positions) = OwnPairs(b.positions)
  <2>1. c.positions = positions
    BY <1>1, <1>3, FirstKeys, QuantisedKinds DEF UserKeys
  <2>2. CASE "positions" \in DOMAIN d.top
    <3>1. b.positions = held
      BY <2>2, FirstKeys, QuantisedKinds DEF UserKeys, Get
    <3> QED BY <1>14, <2>1, <3>1
  <2>3. CASE "positions" \notin DOMAIN d.top
    <3>1. b.positions = [m \in DefaultMarkets |-> NoRow]
      BY <2>3, FirstKeys, FreshBucket DEF UserKeys
    <3>2. DOMAIN held = {}
      BY <2>3, NoRowIsEmpty DEF Get
    <3>3. OwnPairs(b.positions) = OwnPairs(held)
      BY <3>1, <3>2, NoRowOwnsNothing, SamePairs
    <3> QED BY <1>14, <2>1, <3>3
  <2> QED BY <2>2, <2>3
<1> HIDE DEF b, c
<1>17. OwnOf(c, e.settings) = OwnOf(b, d.settings)
  BY <1>13, <1>15, <1>16, SameBuckets DEF UserKeys
<1>18. NoNulls(d) => NoNulls(e)
  <2> SUFFICES ASSUME NoNulls(d), NEW m \in DOMAIN e.markets \ DefaultMarkets,
                      NEW key \in PriceKeys
               PROVE  Get(e.markets[m], key, Own) # Null
    BY DEF NoNulls
  <2>1. /\ m \in DOMAIN d.markets /\ e.markets[m][key] = d.markets[m][key]
        /\ key \in DOMAIN e.markets[m] /\ key \in DOMAIN d.markets[m]
    BY <1>6 DEF AsOf, MarketsAsOf
  <2>2. Get(d.markets[m], key, Own) # Null
    BY <2>1 DEF NoNulls
  <2> QED BY <2>1, <2>2 DEF Get
<1> QED BY <1>1, <1>12, <1>17, <1>18 DEF Carries, OwnAtFirst, b, c, e

\* The keys of a user at the top level hold money where they should.
LEMMA TopHoldsMoney ==
  ASSUME NEW v, NEW b, BucketAsOf(v, b), NEW k \in DOMAIN b
  PROVE  HoldsMoney(k, b[k])
  BY DEF BucketAsOf, HoldsMoney

\* Rounding what is typed leaves it typed, and the rows of positions, papers
\* and labels as they are.
LEMMA RoundedBucket ==
  ASSUME NEW v \in Int, NEW b, DOMAIN b \subseteq UserKeys, BucketAsOf(v, b)
  PROVE  LET r == [k \in DOMAIN b |-> Quantised(k, b[k])]
         IN  /\ BucketAsOf(v, r) /\ DOMAIN r = DOMAIN b
             /\ \A k \in DOMAIN b : r[k] = Quantised(k, b[k]) /\ Quantised(k, r[k]) = r[k]
<1> DEFINE r == [k \in DOMAIN b |-> Quantised(k, b[k])]
<1>1. ASSUME NEW k \in DOMAIN b
      PROVE  /\ r[k] = Quantised(k, b[k]) /\ HoldsMoney(k, r[k]) /\ Quantised(k, r[k]) = r[k]
             /\ k \in {"contracts", "positions", "paper_trades"} => r[k] = b[k]
  BY TopHoldsMoney, QuantisedOnce, QuantisedKinds
<1>2. DOMAIN r = DOMAIN b
  OBVIOUS
<1> HIDE DEF r
<1>3. BucketAsOf(v, r)
  BY <1>1, <1>2 DEF BucketAsOf, HoldsMoney
<1> QED BY <1>1, <1>2, <1>3 DEF r

LEMMA V9Step ==
  ASSUME NEW d, AsOf(8, d)
  PROVE  AsOf(9, V9(d)) /\ Carries(d, V9(d))
<1> DEFINE top == [k \in DOMAIN d.top |-> Quantised(k, d.top[k])]
           e == V9(d)
<1>1. /\ IsDocument(e) /\ e.top = top /\ e.version = d.version /\ e.markets = d.markets
      /\ e.settings = d.settings /\ e.signals = d.signals /\ e.warnings = d.warnings
      /\ e.users = d.users
  BY NewTop DEF V9, AsOf
<1>2. /\ BucketAsOf(8, top) /\ DOMAIN top = DOMAIN d.top
      /\ \A k \in DOMAIN d.top : top[k] = Quantised(k, d.top[k]) /\ Quantised(k, top[k]) = top[k]
  BY RoundedBucket DEF AsOf
<1> HIDE DEF top, e
<1>3. AsOf(9, e)
  BY <1>1, <1>2 DEF AsOf, BucketAsOf, MarketsAsOf, WarningsAsOf
<1>4. ASSUME NEW k \in UserKeys \ {"initial_account"}
      PROVE  BucketAtFirst(e)[k] = BucketAtFirst(d)[k]
  BY <1>1, <1>2, FirstKeys
<1>5. OwnAtFirst(e) = OwnAtFirst(d)
  BY <1>1, <1>4, SameOwner
<1> QED BY <1>1, <1>3, <1>5 DEF Carries, NoNulls, e

LEMMA V10Step ==
  ASSUME NEW d, AsOf(9, d)
  PROVE  AsOf(10, V10(d)) /\ Carries(d, V10(d))
<1> DEFINE row == [signal |-> Own, strategy_version |-> Default]
           dicts == [m \in DOMAIN d.signals |-> IF IsDict(d.signals[m]) THEN d.signals[m] ELSE row]
           e == V10(d)
<1>1. /\ IsDocument(e) /\ e.signals = dicts /\ e.version = d.version /\ e.markets = d.markets
      /\ e.settings = d.settings /\ e.top = d.top /\ e.warnings = d.warnings
      /\ e.users = d.users
  BY NewSignals DEF V10, AsOf
<1>2. IsDict(row) /\ "strategy_version" \in DOMAIN row
  BY DEF IsDict
<1>3. /\ DOMAIN dicts = DOMAIN d.signals
      /\ \A m \in DOMAIN dicts : IsDict(dicts[m]) /\ "strategy_version" \in DOMAIN dicts[m]
  <2> HIDE DEF row
  <2> QED BY <1>2 DEF AsOf, MarketsAsOf
<1> HIDE DEF dicts, e
<1>4. AsOf(10, e)
  BY <1>1, <1>3 DEF AsOf, BucketAsOf, MarketsAsOf, WarningsAsOf
<1> QED BY <1>1, <1>4, SameFirst DEF e

LEMMA V11Step ==
  ASSUME NEW d, AsOf(10, d)
  PROVE  AsOf(11, V11(d)) /\ Carries(d, V11(d))
<1> DEFINE typed == [m \in DOMAIN d.markets |-> Backfill(d.markets[m], {"contract_type"})]
           e == V11(d)
<1>1. /\ IsDocument(e) /\ e.markets = typed /\ e.version = d.version /\ e.signals = d.signals
      /\ e.settings = d.settings /\ e.top = d.top /\ e.warnings = d.warnings
      /\ e.users = d.users
  BY NewMarkets DEF V11, AsOf
<1>2. /\ DOMAIN typed = DOMAIN d.markets
      /\ \A m \in DOMAIN d.markets :
           /\ DOMAIN typed[m] = DOMAIN d.markets[m] \cup {"contract_type"}
           /\ \A k \in DOMAIN d.markets[m] : typed[m][k] = d.markets[m][k]
  <2>1. ASSUME NEW m \in DOMAIN d.markets
        PROVE  /\ DOMAIN typed[m] = DOMAIN d.markets[m] \cup {"contract_type"}
               /\ \A k \in DOMAIN d.markets[m] : typed[m][k] = d.markets[m][k]
    <3>1. typed[m] = Backfill(d.markets[m], {"contract_type"})
      OBVIOUS
    <3> HIDE DEF typed
    <3>2. DOMAIN typed[m] = DOMAIN d.markets[m] \cup {"contract_type"}
      BY <3>1, BackfillDomain
    <3>3. \A k \in DOMAIN d.markets[m] : typed[m][k] = d.markets[m][k]
      BY <3>1, BackfillKeeps
    <3> QED BY <3>2, <3>3
  <2> QED BY <2>1
<1> HIDE DEF typed, e
<1>3. AsOf(11, e)
  BY <1>1, <1>2 DEF AsOf, BucketAsOf, MarketsAsOf, WarningsAsOf
<1>4. OwnAtFirst(e) = OwnAtFirst(d)
  BY <1>1 DEF OwnAtFirst, BucketAtFirst
<1>5. NoNulls(d) => NoNulls(e)
  BY <1>1, <1>2 DEF NoNulls, Get, AsOf, MarketsAsOf
<1> QED BY <1>1, <1>3, <1>4, <1>5 DEF Carries, e

-----------------------------------------------------------------------------
(* The last step, and the documents of version 12.                           *)

Current(s) ==
  /\ IsDocument(s) /\ s.version = Version
  /\ DOMAIN s.top \subseteq UserKeys /\ BucketAsOf(0, s.top)
  /\ DOMAIN s.users = {Admin} /\ UserKeys \subseteq DOMAIN Bucket(s)
  /\ BucketAsOf(Version, Bucket(s)) /\ MarketsAsOf(Version, s) /\ WarningsAsOf(s)

LEMMA VersionIs12 == Version = 12
  BY DEF Version

\* The bucket that version 12 makes of the keys at the top level.
LEMMA MovedKeys ==
  ASSUME NEW d, DOMAIN d.top \subseteq UserKeys
  PROVE  LET moved == Merged(d.top, ResetState(InitialAccount).users[Admin])
         IN  /\ DOMAIN moved = UserKeys
             /\ \A k \in DOMAIN d.top : moved[k] = d.top[k]
             /\ \A k \in UserKeys \ DOMAIN d.top :
                  moved[k] = ResetState(InitialAccount).users[Admin][k]
  BY FreshBucket DEF Merged

LEMMA V12Shape ==
  ASSUME NEW d, IsDocument(d), d.users = NoRow, DOMAIN d.top \subseteq UserKeys
  PROVE  LET moved == Merged(d.top, ResetState(InitialAccount).users[Admin])
             e == V12(d)
         IN  /\ IsDocument(e) /\ e.version = d.version /\ e.warnings = d.warnings
             /\ e.markets = d.markets /\ e.settings = d.settings /\ e.signals = d.signals
             /\ DOMAIN e.users = {Admin} /\ DOMAIN e.users[Admin] = UserKeys
             /\ \A k \in UserKeys : e.users[Admin][k] = moved[k]
             /\ DOMAIN e.top = {}
<1> DEFINE moved == Merged(d.top, ResetState(InitialAccount).users[Admin])
           users == [u \in {Admin} |-> [k \in UserKeys |-> moved[k]]]
           top == [k \in DOMAIN d.top \ UserKeys |-> d.top[k]]
           e == V12(d)
<1> DEFINE d1 == [d EXCEPT !.users = users]
<1>1. e = [d1 EXCEPT !.top = top]
  BY DEF V12, IsDocument
<1>2. DOMAIN top = {}
  OBVIOUS
<1>3. /\ DOMAIN users = {Admin} /\ DOMAIN users[Admin] = UserKeys
      /\ \A k \in UserKeys : users[Admin][k] = moved[k]
  OBVIOUS
<1>4. /\ IsDocument(d1) /\ d1.users = users /\ d1.version = d.version
      /\ d1.markets = d.markets /\ d1.settings = d.settings /\ d1.signals = d.signals
      /\ d1.warnings = d.warnings
  BY DEF IsDocument
<1> HIDE DEF moved, users, top, d1, e
<1>5. /\ IsDocument(e) /\ e.users = users /\ e.top = top /\ e.version = d.version
      /\ e.markets = d.markets /\ e.settings = d.settings /\ e.signals = d.signals
      /\ e.warnings = d.warnings
  BY <1>1, <1>4, NewTop
<1> QED BY <1>2, <1>3, <1>5 DEF moved, e

LEMMA FreshBucketIsGood ==
  ASSUME NEW v \in Int
  PROVE  BucketAsOf(v, ResetState(InitialAccount).users[Admin])
<1> DEFINE b == ResetState(InitialAccount).users[Admin]
<1>1. /\ DOMAIN b = UserKeys /\ b.account = InitialAccount /\ b.initial_account = InitialAccount
      /\ b.contracts = DefaultContracts /\ b.positions = [m \in DefaultMarkets |-> NoRow]
      /\ b.trade_log = <<>> /\ b.equity_history = <<>> /\ b.paper_trades = <<>>
  BY FreshBucket
<1> HIDE DEF b
<1>2. \A k \in {"account", "initial_account"} : b[k] \in Int
  BY <1>1, SchemaAssumption
<1>3. \A k \in {"trade_log", "equity_history"} : b[k] \in Seq(Int)
  <2>1. <<>> \in Seq(Int)
    OBVIOUS
  <2> QED BY <1>1, <2>1
<1>4. DOMAIN b.contracts = DefaultMarkets
  BY <1>1, FilledKeys DEF DefaultContracts
<1>5. \A m \in DOMAIN b.positions : b.positions[m] = NoRow
  BY <1>1
<1>6. DOMAIN b.paper_trades = {}
  BY <1>1
<1> QED BY <1>2, <1>3, <1>4, <1>5, <1>6 DEF BucketAsOf, b

LEMMA V12Step ==
  ASSUME NEW d, AsOf(11, d)
  PROVE  LET e == [V12(d) EXCEPT !.version = Version]
         IN  /\ Current(e) /\ DOMAIN Bucket(e) = UserKeys
             /\ OwnOf(Bucket(e), e.settings) = OwnAtFirst(d)
             /\ NoNulls(d) => NoNulls(e)
<1> DEFINE fresh == ResetState(InitialAccount).users[Admin]
           moved == Merged(d.top, fresh)
           w == V12(d)
           e == [w EXCEPT !.version = Version]
<1>1. /\ IsDocument(w) /\ w.version = d.version /\ w.warnings = d.warnings
      /\ w.markets = d.markets /\ w.settings = d.settings /\ w.signals = d.signals
      /\ DOMAIN w.users = {Admin} /\ DOMAIN w.users[Admin] = UserKeys
      /\ \A k \in UserKeys : w.users[Admin][k] = moved[k]
      /\ DOMAIN w.top = {}
  BY V12Shape DEF AsOf
<1>2. /\ DOMAIN moved = UserKeys
      /\ \A k \in DOMAIN d.top : moved[k] = d.top[k]
      /\ \A k \in UserKeys \ DOMAIN d.top : moved[k] = fresh[k]
  BY MovedKeys DEF AsOf
<1>3. BucketAsOf(11, d.top) /\ BucketAsOf(11, fresh)
  BY FreshBucketIsGood DEF AsOf
<1> HIDE DEF fresh, moved, w
<1>4. /\ IsDocument(e) /\ e.version = Version /\ e.warnings = d.warnings
      /\ e.markets = d.markets /\ e.settings = d.settings /\ e.signals = d.signals
      /\ e.users = w.users /\ e.top = w.top
  BY <1>1 DEF IsDocument
<1> HIDE DEF e
<1> DEFINE b == Bucket(e)
<1>5. DOMAIN b = UserKeys /\ \A k \in UserKeys : b[k] = moved[k]
  BY <1>1, <1>4 DEF Bucket
<1>6. BucketAsOf(11, b)
  <2>0. /\ DOMAIN d.top \subseteq UserKeys /\ DOMAIN fresh = UserKeys
        /\ \A k \in UserKeys : b[k] = IF k \in DOMAIN d.top THEN d.top[k] ELSE fresh[k]
    BY <1>2, <1>5, FreshBucket DEF AsOf, fresh
  <2> HIDE DEF b
  <2>1. \A k \in {"account", "initial_account"} \cap DOMAIN b : b[k] \in Int
    BY <1>3, <1>5, <2>0 DEF BucketAsOf, UserKeys
  <2>2. \A k \in {"trade_log", "equity_history"} \cap DOMAIN b : b[k] \in Seq(Int)
    BY <1>3, <1>5, <2>0 DEF BucketAsOf, UserKeys
  <2>3. DefaultMarkets \subseteq DOMAIN b.contracts
    BY <1>3, <1>5, <2>0 DEF BucketAsOf, UserKeys
  <2>4. \A m \in DOMAIN b.positions :
          b.positions[m] # NoRow => "manual_stop" \in DOMAIN b.positions[m]
    BY <1>3, <1>5, <2>0 DEF BucketAsOf, UserKeys
  <2>5. \A i \in DOMAIN b.paper_trades : "last_alert_state" \in DOMAIN b.paper_trades[i]
    BY <1>3, <1>5, <2>0 DEF BucketAsOf, UserKeys
  <2> QED BY <2>1, <2>2, <2>3, <2>4, <2>5 DEF BucketAsOf
<1>7. BucketAsOf(Version, b) /\ BucketAsOf(0, e.top)
  BY <1>1, <1>4, <1>6, VersionIs12 DEF BucketAsOf
<1>8. MarketsAsOf(Version, e) /\ WarningsAsOf(e)
  BY <1>4, VersionIs12 DEF AsOf, MarketsAsOf, WarningsAsOf
<1>9. Current(e)
  BY <1>1, <1>4, <1>5, <1>7, <1>8 DEF Current
<1>10. ASSUME NEW k \in UserKeys \ {"initial_account"}
       PROVE  BucketAtFirst(d)[k] = b[k]
  <2>1. CASE k \in DOMAIN d.top
    <3>1. Quantised(k, d.top[k]) = d.top[k]
      BY <2>1 DEF AsOf
    <3>2. BucketAtFirst(d)[k] = Quantised(k, d.top[k])
      BY <2>1, FirstKeys
    <3> QED BY <1>2, <1>5, <2>1, <3>1, <3>2
  <2>2. CASE k \notin DOMAIN d.top
    <3>1. BucketAtFirst(d)[k] = NoDoc.users[Admin][k]
      BY <2>2, FirstKeys
    <3>2. NoDoc.users[Admin] = fresh
      BY FreshBucket DEF fresh
    <3>3. b[k] = moved[k] /\ moved[k] = fresh[k]
      BY <1>2, <1>5, <2>2
    <3> QED BY <3>1, <3>2, <3>3
  <2> QED BY <2>1, <2>2
<1>11. OwnOf(b, e.settings) = OwnAtFirst(d)
  <2> DEFINE c == BucketAtFirst(d)
  <2>1. DOMAIN c = UserKeys
    BY FirstKeys
  <2>2. /\ c.account = b.account /\ c.trade_log = b.trade_log /\ c.equity_history = b.equity_history
        /\ c.positions = b.positions /\ c.contracts = b.contracts /\ c.paper_trades = b.paper_trades
    BY <1>10 DEF UserKeys
  <2> HIDE DEF b, c
  <2>3. OwnOf(b, e.settings) = OwnOf(c, d.settings)
    BY <1>4, <1>5, <2>1, <2>2, SameBuckets
  <2> QED BY <2>3 DEF OwnAtFirst, c
<1> QED BY <1>4, <1>5, <1>9, <1>11 DEF NoNulls, e, w

-----------------------------------------------------------------------------
(* The chain.                                                                *)

\* The version a document has the shape of, on the way to v.
Reached(v, d) == AsOf(IF d.version >= v THEN d.version ELSE v, d)

Upto(v, last) == IF v <= last THEN v ELSE last

LEMMA StepTaken ==
  ASSUME NEW v, NEW from, NEW last, NEW d
  PROVE  /\ from < v /\ v <= last => Step(v, from, last, d) = Migration(v, d)
         /\ ~(from < v /\ v <= last) => Step(v, from, last, d) = d
<1>1. Migration(1, d) = d
  BY DEF Migration
<1> QED BY <1>1 DEF Step

LEMMA StepUp ==
  ASSUME NEW d, NEW from \in 0..11, d.version = from, NEW last \in 1..12, NEW v \in 2..11,
         Reached(Upto(v - 1, last), d)
  PROVE  LET e == Step(v, from, last, d)
         IN  Reached(Upto(v, last), e) /\ Carries(d, e) /\ e.version = from
<1> DEFINE e == Step(v, from, last, d)
<1> HIDE DEF e
<1>1. CASE ~(from < v /\ v <= last)
  <2>1. e = d
    BY <1>1, StepTaken DEF e
  <2>2. Reached(Upto(v, last), d)
    BY <1>1 DEF Reached, Upto
  <2> QED BY <2>1, <2>2, SameFirst DEF e
<1>2. CASE from < v /\ v <= last
  <2>1. e = Migration(v, d)
    BY <1>2, StepTaken DEF e
  <2>2. AsOf(v - 1, d)
    BY <1>2 DEF Reached, Upto
  <2>3. AsOf(v, Migration(v, d)) /\ Carries(d, Migration(v, d))
    <3>2. CASE v = 2
      BY <2>2, <3>2, V2Step DEF Migration
    <3>3. CASE v = 3
      BY <2>2, <3>3, V3Step DEF Migration
    <3>4. CASE v = 4
      BY <2>2, <3>4, V4Step DEF Migration
    <3>5. CASE v = 5
      BY <2>2, <3>5, V5Step DEF Migration
    <3>6. CASE v = 6
      BY <2>2, <3>6, V6Step DEF Migration
    <3>7. CASE v = 7
      BY <2>2, <3>7, V7Step DEF Migration
    <3>8. CASE v = 8
      BY <2>2, <3>8, V8Step DEF Migration
    <3>9. CASE v = 9
      BY <2>2, <3>9, V9Step DEF Migration
    <3>10. CASE v = 10
      BY <2>2, <3>10, V10Step DEF Migration
    <3>11. CASE v = 11
      BY <2>2, <3>11, V11Step DEF Migration
    <3> QED BY <3>2, <3>3, <3>4, <3>5, <3>6, <3>7, <3>8, <3>9, <3>10, <3>11
  <2>4. Reached(Upto(v, last), Migration(v, d))
    BY <1>2, <2>3 DEF Reached, Upto, Carries
  <2> QED BY <2>1, <2>3, <2>4 DEF Carries, e
<1> QED BY <1>1, <1>2

\* After the first ten turns of the loop.
LEMMA TenSteps ==
  ASSUME NEW d, d.version \in 0..11, AsOf(d.version, d), NEW last \in 1..12, d.version < last
  PROVE  \E e : /\ Reached(Upto(11, last), e) /\ Carries(d, e)
                /\ MigrateTo(last, d) = [Step(12, d.version, last, e) EXCEPT !.version = last]
<1> DEFINE x2 == Step(2, d.version, last, d)
           x3 == Step(3, d.version, last, x2)
           x4 == Step(4, d.version, last, x3)
           x5 == Step(5, d.version, last, x4)
           x6 == Step(6, d.version, last, x5)
           x7 == Step(7, d.version, last, x6)
           x8 == Step(8, d.version, last, x7)
           x9 == Step(9, d.version, last, x8)
           x10 == Step(10, d.version, last, x9)
           x11 == Step(11, d.version, last, x10)
<1>0. ASSUME NEW x, Carries(d, x), x.version = d.version, NEW v \in 2..11, NEW u, u = v - 1,
             Reached(Upto(u, last), x)
      PROVE  /\ Reached(Upto(v, last), Step(v, d.version, last, x))
             /\ Carries(d, Step(v, d.version, last, x))
             /\ Step(v, d.version, last, x).version = d.version
  <2> DEFINE e == Step(v, d.version, last, x)
  <2>1. Reached(Upto(v - 1, last), x)
    BY <1>0
  <2>2. Reached(Upto(v, last), e) /\ Carries(x, e) /\ e.version = d.version
    BY <1>0, <2>1, StepUp
  <2> HIDE DEF e
  <2>3. Carries(d, e)
    BY <1>0, <2>2, CarriesOn
  <2> QED BY <2>2, <2>3 DEF e
<1>1. MigrateTo(last, d) = [Step(12, d.version, last, x11) EXCEPT !.version = last]
  BY DEF MigrateTo
<1>2. Reached(Upto(1, last), d) /\ Carries(d, d)
  <2>1. AsOf(IF d.version >= 1 THEN d.version ELSE 1, d)
    BY DEF AsOf, BucketAsOf, MarketsAsOf
  <2> QED BY <2>1, SameFirst DEF Reached, Upto
<1>3. Reached(Upto(2, last), x2) /\ Carries(d, x2) /\ x2.version = d.version
  BY <1>2, <1>0
<1> HIDE DEF x2
<1>4. Reached(Upto(3, last), x3) /\ Carries(d, x3) /\ x3.version = d.version
  BY <1>3, <1>0
<1> HIDE DEF x3
<1>5. Reached(Upto(4, last), x4) /\ Carries(d, x4) /\ x4.version = d.version
  BY <1>4, <1>0
<1> HIDE DEF x4
<1>6. Reached(Upto(5, last), x5) /\ Carries(d, x5) /\ x5.version = d.version
  BY <1>5, <1>0
<1> HIDE DEF x5
<1>7. Reached(Upto(6, last), x6) /\ Carries(d, x6) /\ x6.version = d.version
  BY <1>6, <1>0
<1> HIDE DEF x6
<1>8. Reached(Upto(7, last), x7) /\ Carries(d, x7) /\ x7.version = d.version
  BY <1>7, <1>0
<1> HIDE DEF x7
<1>9. Reached(Upto(8, last), x8) /\ Carries(d, x8) /\ x8.version = d.version
  BY <1>8, <1>0
<1> HIDE DEF x8
<1>10. Reached(Upto(9, last), x9) /\ Carries(d, x9) /\ x9.version = d.version
  BY <1>9, <1>0
<1> HIDE DEF x9
<1>11. Reached(Upto(10, last), x10) /\ Carries(d, x10) /\ x10.version = d.version
  BY <1>10, <1>0
<1> HIDE DEF x10
<1>12. Reached(Upto(11, last), x11) /\ Carries(d, x11) /\ x11.version = d.version
  BY <1>11, <1>0
<1> HIDE DEF x11
<1> QED BY <1>1, <1>12 DEF x2, x3, x4, x5, x6, x7, x8, x9, x10, x11

\* A load brings any older document to version 12 and keeps what was its owner's.
LEMMA Migrated ==
  ASSUME NEW d, d.version \in 0..11, AsOf(d.version, d)
  PROVE  LET s == Migrate(d)
         IN  /\ Current(s) /\ DOMAIN Bucket(s) = UserKeys
             /\ OwnOf(Bucket(s), s.settings) = OwnAtFirst(d)
             /\ NoNulls(d) => NoNulls(s)
<1>1. PICK e : /\ Reached(Upto(11, 12), e) /\ Carries(d, e)
               /\ MigrateTo(12, d) = [Step(12, d.version, 12, e) EXCEPT !.version = 12]
  BY TenSteps
<1>2. e.version = d.version /\ AsOf(11, e)
  BY <1>1 DEF Carries, Reached, Upto
<1>3. Step(12, d.version, 12, e) = V12(e)
  <2>1. Step(12, d.version, 12, e) = Migration(12, e)
    BY StepTaken
  <2>2. Migration(12, e) = V12(e)
    BY DEF Migration
  <2> QED BY <2>1, <2>2
<1>4. Migrate(d) = [V12(e) EXCEPT !.version = Version]
  BY <1>1, <1>3, VersionIs12 DEF Migrate
<1> QED BY <1>1, <1>2, <1>4, V12Step DEF Carries

\* ... and leaves a document of version 12 as it is.
LEMMA CurrentStays ==
  ASSUME NEW s, s.version = Version
  PROVE  Migrate(s) = s
  BY VersionIs12 DEF Migrate, MigrateTo

-----------------------------------------------------------------------------
(* A step on what it made.                                                   *)

LEMMA SameTop ==
  ASSUME NEW d, IsDocument(d)
  PROVE  [d EXCEPT !.top = d.top] = d
  BY DEF IsDocument

LEMMA SameSignals ==
  ASSUME NEW d, IsDocument(d)
  PROVE  [d EXCEPT !.signals = d.signals] = d
  BY DEF IsDocument

LEMMA SameMarkets ==
  ASSUME NEW d, IsDocument(d)
  PROVE  [d EXCEPT !.markets = d.markets] = d
  BY DEF IsDocument

LEMMA MergedTwice ==
  ASSUME NEW f, NEW g
  PROVE  /\ Merged(Merged(f, g), g) = Merged(f, g)
         /\ Merged(f, Merged(f, g)) = Merged(f, g)
<1> DEFINE h == Merged(f, g)
<1>1. /\ h = [k \in DOMAIN f \cup DOMAIN g |-> h[k]]
      /\ \A k \in DOMAIN f : h[k] = f[k]
  BY DEF Merged
<1> HIDE DEF h
<1>2. Merged(h, g) = h /\ Merged(f, h) = h
  BY <1>1 DEF Merged
<1> QED BY <1>2 DEF h

LEMMA BackfillTwice ==
  ASSUME NEW row, NEW keys
  PROVE  Backfill(Backfill(row, keys), keys) = Backfill(row, keys)
  BY MergedTwice DEF Backfill

LEMMA V2Repeats ==
  ASSUME NEW d, IsDocument(d)
  PROVE  V2(V2(d)) = V2(d)
<1> DEFINE add == [initial_account |-> InitialAccount, contracts |-> DefaultContracts]
           e == V2(d)
<1>1. IsDocument(e) /\ e.top = Merged(d.top, add)
  BY NewTop DEF V2
<1>2. V2(e) = [e EXCEPT !.top = Merged(e.top, add)]
  BY DEF V2
<1> HIDE DEF e
<1>3. Merged(e.top, add) = e.top
  BY <1>1, MergedTwice
<1>4. V2(e) = e
  BY <1>1, <1>2, <1>3, SameTop
<1> QED BY <1>4 DEF e

LEMMA V3Repeats ==
  ASSUME NEW d, IsDocument(d)
  PROVE  V3(V3(d)) = V3(d)
<1> DEFINE With(row) == IF row = NoRow THEN NoRow ELSE Backfill(row, {"manual_stop"})
           held == Get(d.top, "positions", NoRow)
           kept == [m \in DOMAIN held |-> With(held[m])]
           e == V3(d)
<1>1. IsDocument(e) /\ e.top = Merged([positions |-> kept], d.top)
  BY NewTop DEF V3
<1>2. Get(e.top, "positions", NoRow) = kept
  BY <1>1 DEF Get, Merged
<1>3. ASSUME NEW row PROVE With(With(row)) = With(row)
  BY BackfillTwice
<1>4. V3(e) = [e EXCEPT !.top = Merged(
         [positions |-> [m \in DOMAIN kept |-> With(kept[m])]], e.top)]
  BY <1>2 DEF V3
<1> HIDE DEF e, With, held
<1>5. [m \in DOMAIN kept |-> With(kept[m])] = kept
  BY <1>3
<1> HIDE DEF kept
<1>6. V3(e) = [e EXCEPT !.top = e.top]
  BY <1>1, <1>4, <1>5, MergedTwice
<1>7. V3(e) = e
  BY <1>1, <1>6, SameTop
<1> QED BY <1>7 DEF e

LEMMA DictsGetTwice ==
  ASSUME NEW signals, NEW keys, "bare" \notin keys
  PROVE  DictsGet(DictsGet(signals, keys), keys) = DictsGet(signals, keys)
<1> DEFINE With(row) == IF IsDict(row) THEN Backfill(row, keys) ELSE row
           got == [m \in DOMAIN signals |-> With(signals[m])]
<1>1. ASSUME NEW row PROVE With(With(row)) = With(row)
  BY BackfillTwice
<1> HIDE DEF With
<1>2. [m \in DOMAIN got |-> With(got[m])] = got
  BY <1>1
<1> QED BY <1>2 DEF DictsGet, With

LEMMA V4Repeats ==
  ASSUME NEW d, IsDocument(d)
  PROVE  V4(V4(d)) = V4(d)
<1> DEFINE e == V4(d)
<1>1. IsDocument(e) /\ e.signals = DictsGet(d.signals, {"strategy_version"})
  BY NewSignals DEF V4
<1>2. V4(e) = [e EXCEPT !.signals = DictsGet(e.signals, {"strategy_version"})]
  BY DEF V4
<1> HIDE DEF e
<1>3. V4(e) = e
  BY <1>1, <1>2, DictsGetTwice, SameSignals
<1> QED BY <1>3 DEF e

LEMMA V5Repeats ==
  ASSUME NEW d, IsDocument(d)
  PROVE  V5(V5(d)) = V5(d)
<1> DEFINE e == V5(d)
<1>1. IsDocument(e) /\ e.signals = DictsGet(d.signals, {"ohlc_window", "indicator_scalars"})
  BY NewSignals DEF V5
<1>2. V5(e) = [e EXCEPT !.signals = DictsGet(e.signals, {"ohlc_window", "indicator_scalars"})]
  BY DEF V5
<1> HIDE DEF e
<1>3. V5(e) = e
  BY <1>1, <1>2, DictsGetTwice, SameSignals
<1> QED BY <1>3 DEF e

LEMMA V6Repeats ==
  ASSUME NEW d, IsDocument(d)
  PROVE  V6(V6(d)) = V6(d)
<1> DEFINE add == [paper_trades |-> <<>>]
           e == V6(d)
<1>1. IsDocument(e) /\ e.top = Merged(d.top, add)
  BY NewTop DEF V6
<1>2. V6(e) = [e EXCEPT !.top = Merged(e.top, add)]
  BY DEF V6
<1> HIDE DEF e
<1>3. V6(e) = e
  BY <1>1, <1>2, MergedTwice, SameTop
<1> QED BY <1>3 DEF e

LEMMA V7Repeats ==
  ASSUME NEW d, IsDocument(d)
  PROVE  V7(V7(d)) = V7(d)
<1>1. CASE "paper_trades" \notin DOMAIN d.top
  BY <1>1 DEF V7
<1>2. CASE "paper_trades" \in DOMAIN d.top
  <2> DEFINE paper == [i \in DOMAIN d.top.paper_trades |->
                         Backfill(d.top.paper_trades[i], {"last_alert_state"})]
             top == [d.top EXCEPT !.paper_trades = paper]
             e == V7(d)
             again == [i \in DOMAIN e.top.paper_trades |->
                         Backfill(e.top.paper_trades[i], {"last_alert_state"})]
  <2>1. IsDocument(e) /\ e.top = top
    BY <1>2, NewTop DEF V7
  <2>2. "paper_trades" \in DOMAIN top /\ top.paper_trades = paper
    BY <1>2
  <2>3. [i \in DOMAIN paper |-> Backfill(paper[i], {"last_alert_state"})] = paper
    BY BackfillTwice
  <2>4. V7(e) = [e EXCEPT !.top = [e.top EXCEPT !.paper_trades = again]]
    BY <2>1, <2>2 DEF V7
  <2> HIDE DEF e, paper
  <2>5. [e.top EXCEPT !.paper_trades = again] = e.top
    BY <2>1, <2>2, <2>3
  <2>6. V7(e) = e
    BY <2>1, <2>4, <2>5, SameTop
  <2> QED BY <2>6 DEF e
<1> QED BY <1>1, <1>2

LEMMA V8Repeats ==
  ASSUME NEW d, IsDocument(d)
  PROVE  V8(V8(d)) = V8(d)
<1> DEFINE known == DefaultMarkets \cup DOMAIN d.markets
           wanted(m) == IF m \in DefaultMarkets THEN MarketKeys ELSE {}
           empty == [m \in known |-> NoRow]
           bare == [m \in known |-> Bare]
           held == Merged(Get(d.top, "positions", NoRow), empty)
           markets == [m \in known |-> Backfill(Get(d.markets, m, NoRow), wanted(m))]
           settings == [m \in known \cup DOMAIN d.settings |->
                          Backfill(Get(d.settings, m, NoRow), SettingKeys)]
           signals == Merged(d.signals, bare)
           top == Merged([positions |-> held], d.top)
           e == V8(d)
<1>1. e = [d EXCEPT !.markets = markets, !.settings = settings, !.signals = signals, !.top = top]
  BY DEF V8, IsDocument
<1>2. e = [version |-> d.version, top |-> top, markets |-> markets, settings |-> settings,
           signals |-> signals, warnings |-> d.warnings, users |-> d.users]
  <2> HIDE DEF markets, settings, signals, top, e
  <2> QED BY <1>1 DEF IsDocument
<1> DEFINE markets2 == [m \in known |-> Backfill(Get(markets, m, NoRow), wanted(m))]
           settings2 == [m \in known \cup DOMAIN settings |->
                           Backfill(Get(settings, m, NoRow), SettingKeys)]
           top2 == Merged([positions |-> Merged(Get(top, "positions", NoRow), empty)], top)
<1>3. DOMAIN markets = known /\ DefaultMarkets \cup DOMAIN markets = known
  OBVIOUS
<1>4. V8(e) = [e EXCEPT !.markets = markets2, !.settings = settings2,
                        !.signals = Merged(signals, bare), !.top = top2]
  <2>1. e.markets = markets /\ e.settings = settings /\ e.signals = signals /\ e.top = top
    <3> HIDE DEF markets, settings, signals, top, e
    <3> QED BY <1>2
  <2>2. DefaultMarkets \cup DOMAIN e.markets = known
    BY <1>3, <2>1
  <2> HIDE DEF known, markets, settings, signals, top, e
  <2> DEFINE of == DefaultMarkets \cup DOMAIN e.markets
             m2 == [m \in of |-> Backfill(Get(e.markets, m, NoRow), wanted(m))]
             s2 == [m \in of \cup DOMAIN e.settings |->
                      Backfill(Get(e.settings, m, NoRow), SettingKeys)]
             n2 == Merged(e.signals, [m \in of |-> Bare])
             t2 == Merged([positions |-> Merged(Get(e.top, "positions", NoRow),
                                                [m \in of |-> NoRow])], e.top)
  <2>3. V8(e) = [e EXCEPT !.markets = m2, !.settings = s2, !.signals = n2, !.top = t2]
    BY DEF V8
  <2>4. m2 = markets2 /\ s2 = settings2 /\ n2 = Merged(signals, bare) /\ t2 = top2
    BY <2>1, <2>2
  <2> HIDE DEF m2, s2, n2, t2, markets2, settings2, top2
  <2> QED BY <2>3, <2>4
<1>5. markets2 = markets
  <2>1. ASSUME NEW m \in known PROVE markets2[m] = markets[m]
    <3>1. markets2[m] = Backfill(markets[m], wanted(m))
      BY DEF Get
    <3>2. markets[m] = Backfill(Get(d.markets, m, NoRow), wanted(m))
      OBVIOUS
    <3> HIDE DEF markets, markets2, wanted
    <3> QED BY <3>1, <3>2, BackfillTwice
  <2> QED BY <2>1
<1>6. settings2 = settings
  <2>1. ASSUME NEW m \in DOMAIN settings PROVE settings2[m] = settings[m]
    <3>1. settings2[m] = Backfill(settings[m], SettingKeys)
      BY DEF Get
    <3>2. settings[m] = Backfill(Get(d.settings, m, NoRow), SettingKeys)
      OBVIOUS
    <3> HIDE DEF settings, settings2
    <3> QED BY <3>1, <3>2, BackfillTwice
  <2>2. known \cup DOMAIN settings = DOMAIN settings
    OBVIOUS
  <2> QED BY <2>1, <2>2
<1>7. Merged(signals, bare) = signals
  BY MergedTwice
<1>8. top2 = top
  <2>1. Get(top, "positions", NoRow) = held
    BY DEF Get, Merged
  <2>2. Merged(held, empty) = held
    BY MergedTwice
  <2> HIDE DEF held, empty
  <2> QED BY <2>1, <2>2, MergedTwice
<1> HIDE DEF markets, settings, signals, top, e, markets2, settings2, top2
<1>9. V8(e) = [e EXCEPT !.markets = markets, !.settings = settings, !.signals = signals,
                        !.top = top]
  BY <1>4, <1>5, <1>6, <1>7, <1>8
<1>10. V8(e) = e
  BY <1>2, <1>9
<1> QED BY <1>10 DEF e

LEMMA V9Repeats ==
  ASSUME NEW d, AsOf(8, d)
  PROVE  V9(V9(d)) = V9(d)
<1> DEFINE e == V9(d)
<1>1. IsDocument(e) /\ e.top = [k \in DOMAIN d.top |-> Quantised(k, d.top[k])]
  BY NewTop DEF V9, AsOf
<1>2. V9(e) = [e EXCEPT !.top = [k \in DOMAIN e.top |-> Quantised(k, e.top[k])]]
  BY DEF V9
<1>3. AsOf(9, e)
  BY V9Step
<1> HIDE DEF e
<1>4. [k \in DOMAIN e.top |-> Quantised(k, e.top[k])] = e.top
  BY <1>1, <1>3 DEF AsOf
<1>5. V9(e) = e
  BY <1>1, <1>2, <1>4, SameTop
<1> QED BY <1>5 DEF e

LEMMA V10Repeats ==
  ASSUME NEW d, IsDocument(d)
  PROVE  V10(V10(d)) = V10(d)
<1> DEFINE row == [signal |-> Own, strategy_version |-> Default]
           With(r) == IF IsDict(r) THEN r ELSE row
           dicts == [m \in DOMAIN d.signals |-> With(d.signals[m])]
           e == V10(d)
<1>1. IsDocument(e) /\ e.signals = dicts
  BY NewSignals DEF V10
<1>2. V10(e) = [e EXCEPT !.signals = [m \in DOMAIN e.signals |-> With(e.signals[m])]]
  BY DEF V10
<1>3. ASSUME NEW r PROVE With(With(r)) = With(r)
  OBVIOUS
<1> HIDE DEF With, e
<1>4. [m \in DOMAIN dicts |-> With(dicts[m])] = dicts
  BY <1>3
<1> HIDE DEF dicts
<1>5. V10(e) = e
  BY <1>1, <1>2, <1>4, SameSignals
<1> QED BY <1>5 DEF e

LEMMA V11Repeats ==
  ASSUME NEW d, IsDocument(d)
  PROVE  V11(V11(d)) = V11(d)
<1> DEFINE typed == [m \in DOMAIN d.markets |-> Backfill(d.markets[m], {"contract_type"})]
           e == V11(d)
<1>1. IsDocument(e) /\ e.markets = typed
  BY NewMarkets DEF V11
<1>2. V11(e) = [e EXCEPT !.markets =
                  [m \in DOMAIN e.markets |-> Backfill(e.markets[m], {"contract_type"})]]
  BY DEF V11
<1>3. [m \in DOMAIN typed |-> Backfill(typed[m], {"contract_type"})] = typed
  BY BackfillTwice
<1> HIDE DEF typed, e
<1>4. V11(e) = e
  BY <1>1, <1>2, <1>3, SameMarkets
<1> QED BY <1>4 DEF e

LEMMA V12Repeats ==
  ASSUME NEW d, AsOf(11, d)
  PROVE  V12(V12(d)) = V12(d)
<1> DEFINE e == V12(d)
<1>1. DOMAIN e.users = {Admin}
  BY V12Shape DEF AsOf
<1>2. e.users # NoRow
  BY <1>1, NoRowIsEmpty
<1> HIDE DEF e
<1>3. V12(e) = e
  BY <1>2 DEF V12
<1> QED BY <1>3 DEF e

\* A document on its way to version v, when step v takes it up.
LEMMA OnTheWay ==
  ASSUME NEW d, d.version \in 0..11, AsOf(d.version, d), NEW last \in 1..11, d.version <= last
  PROVE  AsOf(last, MigrateTo(last, d))
<1>1. CASE d.version = last
  BY <1>1 DEF MigrateTo
<1>2. CASE d.version < last
  <2>1. PICK e : /\ Reached(Upto(11, last), e) /\ Carries(d, e)
                 /\ MigrateTo(last, d) = [Step(12, d.version, last, e) EXCEPT !.version = last]
    BY <1>2, TenSteps
  <2>2. Upto(11, last) = last
    BY DEF Upto
  <2>3. AsOf(last, e)
    <3>1. e.version = d.version
      BY <2>1 DEF Carries
    <3>2. (IF e.version >= last THEN e.version ELSE last) = last
      BY <1>2, <3>1
    <3> QED BY <2>1, <2>2, <3>2 DEF Reached
  <2>4. Step(12, d.version, last, e) = e
    BY StepTaken
  <2> DEFINE x == [e EXCEPT !.version = last]
  <2>5. MigrateTo(last, d) = x
    BY <2>1, <2>4
  <2>6. /\ IsDocument(x) /\ x.top = e.top /\ x.markets = e.markets /\ x.settings = e.settings
        /\ x.signals = e.signals /\ x.warnings = e.warnings /\ x.users = e.users
    BY <2>3 DEF AsOf, IsDocument
  <2> HIDE DEF x
  <2>7. AsOf(last, x)
    BY <2>3, <2>6 DEF AsOf, MarketsAsOf, WarningsAsOf
  <2> QED BY <2>5, <2>7
<1> QED BY <1>1, <1>2

LEMMA StepsRepeat ==
  ASSUME NEW v \in 2..12, NEW d, AsOf(v - 1, d)
  PROVE  Migration(v, Migration(v, d)) = Migration(v, d)
<1>0. IsDocument(d)
  BY DEF AsOf
<1>2. CASE v = 2
  BY <1>0, <1>2, V2Repeats DEF Migration
<1>3. CASE v = 3
  BY <1>0, <1>3, V3Repeats DEF Migration
<1>4. CASE v = 4
  BY <1>0, <1>4, V4Repeats DEF Migration
<1>5. CASE v = 5
  BY <1>0, <1>5, V5Repeats DEF Migration
<1>6. CASE v = 6
  BY <1>0, <1>6, V6Repeats DEF Migration
<1>7. CASE v = 7
  BY <1>0, <1>7, V7Repeats DEF Migration
<1>8. CASE v = 8
  BY <1>0, <1>8, V8Repeats DEF Migration
<1>9. CASE v = 9
  BY <1>9, V9Repeats DEF Migration
<1>10. CASE v = 10
  BY <1>0, <1>10, V10Repeats DEF Migration
<1>11. CASE v = 11
  BY <1>0, <1>11, V11Repeats DEF Migration
<1>12. CASE v = 12
  BY <1>12, V12Repeats DEF Migration
<1> QED BY <1>2, <1>3, <1>4, <1>5, <1>6, <1>7, <1>8, <1>9, <1>10, <1>11, <1>12

-----------------------------------------------------------------------------
(* The inductive invariant.                                                  *)

Types ==
  /\ today \in 1..LastDay /\ saves \in 0..MaxSaves /\ upgraded \in BOOLEAN
  /\ day \in [Callers -> 1..LastDay] /\ \A c \in Callers : day[c] <= today
  /\ phase \in [Callers -> Phases] /\ spoiled \subseteq {"copy", "day"}
  /\ DOMAIN mem = Callers /\ DOMAIN source = Callers
  /\ \A c \in Callers : source[c].version \in 0..Version
  /\ backup.is \in {"none", "cut", "whole"} /\ backup.of.version \in 0..Version

\* One editor at a time has the lock, and what it loaded is still the file.
Holds(e) == phase[e] \in {"copy", "copying", "loaded"}
Locked ==
  \A e \in Editors : Holds(e) =>
    mem[e] = file /\ \A other \in Editors : Holds(other) => other = e

\* What a document hides on a day is what was dismissed that day.
Hides(s, now, gone, wrong) ==
  LET b == Dismissals(s)
  IN  /\ b.date \in 0..now /\ \A p \in gone : p[2] \in 1..now
      /\ \A h \in b.hashes : <<h, b.date>> \in gone
      /\ "day" \notin wrong =>
           \A p \in gone : p[2] < b.date \/ (p[2] = b.date /\ p[1] \in b.hashes)

\* A document of version 12 with what its owner did to it.
Good(s, own, now, gone, wrong) ==
  Current(s) /\ OwnOf(Bucket(s), s.settings) = own /\ Hides(s, now, gone, wrong)

\* The file is what the older program left, or good.
Untouched ==
  /\ file.version \in 0..Version - 1 /\ AsOf(file.version, file)
  /\ owned = OwnAtFirst(file) /\ dismissed = {}
FileIsGood == Untouched \/ Good(file, owned, today, dismissed, spoiled)

\* The copy is of an older version, and is there before that is overwritten.
Copied ==
  "copy" \notin spoiled =>
    /\ \A c \in Callers : phase[c] = "copying" => source[c].version < Version
    /\ backup.is = "whole" => backup.of.version < Version
    /\ backup.is = "cut" => \E c \in Callers : phase[c] = "copying"
    /\ upgraded => backup.is # "none"
    /\ \A c \in Callers : phase[c] = "loaded" /\ mem[c].version < Version => backup.is # "none"

IInv == Types /\ Locked /\ FileIsGood /\ Copied

-----------------------------------------------------------------------------
(* Edits of a document of version 12.                                        *)

LEMMA RoundedStays ==
  ASSUME NEW s, Current(s)
  PROVE  Current(Saved(s)) /\ Saved(s).users = s.users /\ Saved(s).settings = s.settings
<1> DEFINE top == [k \in DOMAIN s.top |-> Quantised(k, s.top[k])]
           e == Saved(s)
<1>1. /\ IsDocument(e) /\ e.top = top /\ e.version = s.version /\ e.markets = s.markets
      /\ e.settings = s.settings /\ e.signals = s.signals /\ e.warnings = s.warnings
      /\ e.users = s.users
  BY NewTop DEF Saved, V9, Current
<1>2. BucketAsOf(0, top) /\ DOMAIN top = DOMAIN s.top
  BY RoundedBucket DEF Current
<1> HIDE DEF top, e
<1>3. Current(e)
  BY <1>1, <1>2 DEF Current, MarketsAsOf, WarningsAsOf, Bucket
<1> QED BY <1>1, <1>3 DEF e

LEMMA SaveIsGood ==
  ASSUME NEW s, NEW own, NEW now, NEW gone, NEW wrong, Good(s, own, now, gone, wrong)
  PROVE  Good(Saved(s), own, now, gone, wrong)
<1>1. Current(Saved(s)) /\ Bucket(Saved(s)) = Bucket(s) /\ Saved(s).settings = s.settings
  BY RoundedStays DEF Good, Bucket
<1> QED BY <1>1 DEF Good, Hides, Dismissals

\* An edit that leaves the bucket and the settings alone.
LEMMA ElsewhereIsGood ==
  ASSUME NEW s, NEW own, NEW now, NEW gone, NEW wrong, Good(s, own, now, gone, wrong),
         NEW e, Current(e), e.users = s.users, OwnPairs(e.settings) = OwnPairs(s.settings)
  PROVE  Good(e, own, now, gone, wrong)
<1>1. Bucket(e) = Bucket(s)
  BY DEF Bucket
<1>2. OwnOf(Bucket(e), e.settings) = OwnOf(Bucket(s), s.settings)
  BY <1>1 DEF OwnOf
<1> QED BY <1>1, <1>2 DEF Good, Hides, Dismissals

LEMMA NewBucket ==
  ASSUME NEW s, Current(s), NEW b, UserKeys \subseteq DOMAIN b, BucketAsOf(Version, b)
  PROVE  LET e == [s EXCEPT !.users = [@ EXCEPT ![Admin] = b]]
         IN  Current(e) /\ Bucket(e) = b /\ e.settings = s.settings
<1> DEFINE users == [s.users EXCEPT ![Admin] = b]
           e == [s EXCEPT !.users = users]
<1>1. /\ IsDocument(e) /\ e.users = users /\ e.version = s.version /\ e.markets = s.markets
      /\ e.settings = s.settings /\ e.signals = s.signals /\ e.warnings = s.warnings
      /\ e.top = s.top
  BY DEF Current, IsDocument
<1>2. DOMAIN users = {Admin} /\ users[Admin] = b
  BY DEF Current
<1> HIDE DEF users, e
<1>3. Bucket(e) = b
  BY <1>1, <1>2 DEF Bucket
<1>4. Current(e)
  BY <1>1, <1>2, <1>3 DEF Current, MarketsAsOf, WarningsAsOf
<1> QED BY <1>1, <1>3, <1>4 DEF e, users

LEMMA InTheBucket ==
  ASSUME NEW s, Current(s)
  PROVE  /\ UserKeys \subseteq DOMAIN Bucket(s)
         /\ Bucket(s).account \in Int
         /\ Bucket(s).trade_log \in Seq(Int) /\ Bucket(s).equity_history \in Seq(Int)
         /\ DefaultMarkets \subseteq DOMAIN Bucket(s).contracts
         /\ \A m \in DOMAIN Bucket(s).positions :
              Bucket(s).positions[m] # NoRow => "manual_stop" \in DOMAIN Bucket(s).positions[m]
         /\ \A i \in DOMAIN Bucket(s).paper_trades :
              "last_alert_state" \in DOMAIN Bucket(s).paper_trades[i]
<1> DEFINE b == Bucket(s)
<1>1. UserKeys \subseteq DOMAIN b /\ BucketAsOf(12, b)
  BY VersionIs12 DEF Current
<1> HIDE DEF b
<1>2. /\ b.account \in Int /\ b.trade_log \in Seq(Int) /\ b.equity_history \in Seq(Int)
      /\ DefaultMarkets \subseteq DOMAIN b.contracts
  BY <1>1 DEF BucketAsOf, UserKeys
<1>3. \A m \in DOMAIN b.positions :
        b.positions[m] # NoRow => "manual_stop" \in DOMAIN b.positions[m]
  BY <1>1 DEF BucketAsOf, UserKeys
<1>4. \A i \in DOMAIN b.paper_trades : "last_alert_state" \in DOMAIN b.paper_trades[i]
  BY <1>1 DEF BucketAsOf, UserKeys
<1> QED BY <1>1, <1>2, <1>3, <1>4 DEF b

\* record_trade

LEMMA ClearedPairs ==
  ASSUME NEW rows, NEW m \in DOMAIN rows
  PROVE  OwnPairs([rows EXCEPT ![m] = NoRow]) = {h \in OwnPairs(rows) : h[1] # m}
<1> DEFINE others == [rows EXCEPT ![m] = NoRow]
<1>1. /\ DOMAIN others = DOMAIN rows /\ others[m] = NoRow
      /\ \A n \in DOMAIN rows \ {m} : others[n] = rows[n]
  OBVIOUS
<1> HIDE DEF others
<1>2. ASSUME NEW p
      PROVE  p \in OwnPairs(others) <=> p \in OwnPairs(rows) /\ p[1] # m
  <2>1. ASSUME p \in OwnPairs(others) PROVE p \in OwnPairs(rows) /\ p[1] # m
    <3>1. PICK n \in DOMAIN others : \E k \in OwnKeys(others[n]) : p = <<n, k>>
      BY <2>1, InOwnPairs
    <3>2. n # m /\ n \in DOMAIN rows /\ others[n] = rows[n]
      BY <1>1, <3>1, NoRowOwnsNothing
    <3> QED BY <3>1, <3>2, InOwnPairs
  <2>2. ASSUME p \in OwnPairs(rows), p[1] # m PROVE p \in OwnPairs(others)
    <3>1. PICK n \in DOMAIN rows : \E k \in OwnKeys(rows[n]) : p = <<n, k>>
      BY <2>2, InOwnPairs
    <3>2. n # m
      BY <2>2, <3>1
    <3> QED BY <1>1, <3>1, <3>2, InOwnPairs
  <2> QED BY <2>1, <2>2
<1>3. OwnPairs(others) = {h \in OwnPairs(rows) : h[1] # m}
  BY <1>2
<1> QED BY <1>3 DEF others

LEMMA BookedIsGood ==
  ASSUME NEW s, NEW own, NEW now, NEW gone, NEW wrong, Good(s, own, now, gone, wrong),
         NEW m \in DOMAIN Bucket(s).positions, NEW net \in Int
  PROVE  Good(Booked(s, m, net),
              [own EXCEPT !.account = @ + net, !.trades = Append(@, net),
                          !.held = {h \in @ : h[1] # m}],
              now, gone, wrong)
<1> DEFINE b == Bucket(s)
           positions == [b.positions EXCEPT ![m] = NoRow]
           c == [b EXCEPT !.account = b.account + net, !.trade_log = Append(b.trade_log, net),
                          !.positions = positions]
           e == Booked(s, m, net)
<1>0. Current(s)
  BY DEF Good
<1>1. e = [s EXCEPT !.users = [@ EXCEPT ![Admin] = c]]
  BY DEF Booked, Bucket
<1>2. /\ UserKeys \subseteq DOMAIN b /\ b.account \in Int /\ b.trade_log \in Seq(Int)
      /\ \A n \in DOMAIN b.positions :
           b.positions[n] # NoRow => "manual_stop" \in DOMAIN b.positions[n]
      /\ BucketAsOf(Version, b)
  BY <1>0, InTheBucket DEF Current
<1>3. /\ DOMAIN positions = DOMAIN b.positions /\ positions[m] = NoRow
      /\ \A n \in DOMAIN b.positions \ {m} : positions[n] = b.positions[n]
  OBVIOUS
<1>4. OwnPairs(positions) = {h \in OwnPairs(b.positions) : h[1] # m}
  BY ClearedPairs
<1> HIDE DEF b, positions, e
<1>5. /\ DOMAIN c = DOMAIN b /\ c.account = b.account + net
      /\ c.trade_log = Append(b.trade_log, net) /\ c.positions = positions
      /\ \A k \in DOMAIN b \ {"account", "trade_log", "positions"} : c[k] = b[k]
  BY <1>2 DEF UserKeys
<1> HIDE DEF c
<1>6. c.account \in Int /\ c.trade_log \in Seq(Int)
  BY <1>2, <1>5
<1>7. BucketAsOf(Version, c)
  BY <1>2, <1>3, <1>5, <1>6 DEF BucketAsOf, UserKeys
<1>8. Current(e) /\ Bucket(e) = c /\ e.settings = s.settings
  BY <1>0, <1>1, <1>2, <1>5, <1>7, NewBucket
<1>9. /\ c.equity_history = b.equity_history /\ c.contracts = b.contracts
      /\ c.paper_trades = b.paper_trades
      /\ Get(c, "email_enabled", TRUE) = Get(b, "email_enabled", TRUE)
      /\ Get(c, "news_panel_collapsed", FALSE) = Get(b, "news_panel_collapsed", FALSE)
      /\ Get(c, "news_dismissed", NoDismissals) = Get(b, "news_dismissed", NoDismissals)
  BY <1>2, <1>5 DEF Get, UserKeys
<1>10. own = OwnOf(b, s.settings) /\ Hides(s, now, gone, wrong)
  BY DEF Good, b
<1>11. OwnOf(c, e.settings) = [own EXCEPT !.account = @ + net, !.trades = Append(@, net),
                                          !.held = {h \in @ : h[1] # m}]
  <2> DEFINE account == b.account + net
             trades == Append(b.trade_log, net)
             held == {h \in OwnPairs(b.positions) : h[1] # m}
  <2>1. OwnPairs(c.positions) = held
    BY <1>4, <1>5
  <2>2. c.account = account /\ c.trade_log = trades
    BY <1>5
  <2>3. own.account + net = account /\ Append(own.trades, net) = trades
        /\ {h \in own.held : h[1] # m} = held
    BY <1>10 DEF OwnOf
  <2> HIDE DEF account, trades, held
  <2> DEFINE paper == [i \in DOMAIN b.paper_trades |-> OwnKeys(b.paper_trades[i])]
             pairs == OwnPairs(s.settings)
             labels == OwnKeys(b.contracts)
             email == Get(b, "email_enabled", TRUE)
             collapsed == Get(b, "news_panel_collapsed", FALSE)
  <2>4. own = [account |-> b.account, settings |-> pairs, held |-> OwnPairs(b.positions),
               labels |-> labels, trades |-> b.trade_log, equity |-> b.equity_history,
               paper |-> paper, email |-> email, collapsed |-> collapsed]
    BY <1>10 DEF OwnOf
  <2>5. OwnOf(c, s.settings) =
          [account |-> account, settings |-> pairs, held |-> held,
           labels |-> labels, trades |-> trades, equity |-> b.equity_history,
           paper |-> paper, email |-> email, collapsed |-> collapsed]
    BY <1>9, <2>1, <2>2 DEF OwnOf
  <2> HIDE DEF paper, pairs, labels, email, collapsed
  <2> DEFINE own1 == [own EXCEPT !.account = account]
             own2 == [own1 EXCEPT !.trades = trades]
             own3 == [own2 EXCEPT !.held = held]
  <2>6. [own EXCEPT !.account = account, !.trades = trades, !.held = held] = own3
    OBVIOUS
  <2>7. own1 = [account |-> account, settings |-> pairs, held |-> OwnPairs(b.positions),
                labels |-> labels, trades |-> b.trade_log, equity |-> b.equity_history,
                paper |-> paper, email |-> email, collapsed |-> collapsed]
    BY <2>4
  <2> HIDE DEF own1
  <2>8. own2 = [account |-> account, settings |-> pairs, held |-> OwnPairs(b.positions),
                labels |-> labels, trades |-> trades, equity |-> b.equity_history,
                paper |-> paper, email |-> email, collapsed |-> collapsed]
    BY <2>7
  <2> HIDE DEF own2
  <2>9. own3 = OwnOf(c, s.settings)
    BY <2>5, <2>8
  <2> HIDE DEF own3
  <2> QED BY <1>8, <2>3, <2>6, <2>9
<1>12. Hides(e, now, gone, wrong)
  BY <1>8, <1>9, <1>10 DEF Hides, Dismissals, b
<1> QED BY <1>8, <1>11, <1>12 DEF Good, e

\* The edits that set one key of the bucket.

LEMMA PutOwns ==
  ASSUME NEW s, Current(s), NEW key \in {"equity_history", "email_enabled",
                                         "news_panel_collapsed", "news_dismissed"},
         NEW value, key = "equity_history" => value \in Seq(Int)
  PROVE  LET b == Bucket(s)
             e == Put(s, key, value)
             c == Bucket(e)
         IN  /\ Current(e) /\ e.settings = s.settings /\ c[key] = value
             /\ c.account = b.account /\ c.trade_log = b.trade_log /\ c.positions = b.positions
             /\ c.contracts = b.contracts /\ c.paper_trades = b.paper_trades
             /\ key # "equity_history" => c.equity_history = b.equity_history
             /\ \A k \in {"email_enabled", "news_panel_collapsed", "news_dismissed"} :
                  \A x : Get(c, k, x) = IF k = key THEN value ELSE Get(b, k, x)
<1> DEFINE b == Bucket(s)
           b2 == WithKey(b, key, value)
           e == Put(s, key, value)
           c == Bucket(e)
<1>1. /\ DOMAIN b2 = DOMAIN b \cup {key} /\ b2[key] = value
      /\ \A k \in DOMAIN b \ {key} : b2[k] = b[k]
  BY DEF WithKey, Merged
<1>2. e = [s EXCEPT !.users = [@ EXCEPT ![Admin] = b2]]
  BY DEF Put, Bucket
<1>3. UserKeys \subseteq DOMAIN b /\ BucketAsOf(Version, b)
  BY InTheBucket DEF Current
<1> HIDE DEF b, b2, e
<1>4. BucketAsOf(Version, b2)
  BY <1>1, <1>3 DEF BucketAsOf, UserKeys
<1>5. /\ Current(e) /\ e.settings = s.settings /\ key \in DOMAIN c /\ c[key] = value
      /\ DOMAIN c = DOMAIN b \cup {key} /\ \A k \in DOMAIN b \ {key} : c[k] = b[k]
  <2>1. UserKeys \subseteq DOMAIN b2
    BY <1>1, <1>3
  <2>2. Current(e) /\ Bucket(e) = b2 /\ e.settings = s.settings
    BY <1>2, <1>4, <2>1, NewBucket
  <2> QED BY <1>1, <2>2
<1> HIDE DEF c
<1>6. /\ c.account = b.account /\ c.trade_log = b.trade_log /\ c.positions = b.positions
      /\ c.contracts = b.contracts /\ c.paper_trades = b.paper_trades
      /\ key # "equity_history" => c.equity_history = b.equity_history
  BY <1>5, <1>3 DEF UserKeys
<1>7. ASSUME NEW k \in {"email_enabled", "news_panel_collapsed", "news_dismissed"}, NEW x
      PROVE  Get(c, k, x) = IF k = key THEN value ELSE Get(b, k, x)
  BY <1>5 DEF Get
<1> QED BY <1>5, <1>6, <1>7 DEF b, c, e

LEMMA EquityIsGood ==
  ASSUME NEW s, NEW own, NEW now, NEW gone, NEW wrong, Good(s, own, now, gone, wrong)
  PROVE  Good(Put(s, "equity_history", Append(Bucket(s).equity_history, Bucket(s).account)),
              [own EXCEPT !.equity = Append(@, own.account)], now, gone, wrong)
<1> DEFINE b == Bucket(s)
           value == Append(b.equity_history, b.account)
           e == Put(s, "equity_history", value)
           c == Bucket(e)
<1>0. Current(s) /\ own = OwnOf(b, s.settings) /\ Hides(s, now, gone, wrong)
  BY DEF Good
<1>1. value \in Seq(Int)
  BY <1>0, InTheBucket
<1> HIDE DEF value
<1>2. /\ Current(e) /\ e.settings = s.settings /\ c.equity_history = value
      /\ c.account = b.account /\ c.trade_log = b.trade_log /\ c.positions = b.positions
      /\ c.contracts = b.contracts /\ c.paper_trades = b.paper_trades
      /\ \A k \in {"email_enabled", "news_panel_collapsed", "news_dismissed"} :
           \A x : Get(c, k, x) = Get(b, k, x)
  BY <1>0, <1>1, PutOwns
<1> HIDE DEF c, e
<1>3. [own EXCEPT !.equity = value] = OwnOf(c, e.settings)
  <2> DEFINE paper == [i \in DOMAIN b.paper_trades |-> OwnKeys(b.paper_trades[i])]
             pairs == OwnPairs(s.settings)
             held == OwnPairs(b.positions)
             labels == OwnKeys(b.contracts)
             email == Get(b, "email_enabled", TRUE)
             collapsed == Get(b, "news_panel_collapsed", FALSE)
  <2>1. own = [account |-> b.account, settings |-> pairs, held |-> held,
               labels |-> labels, trades |-> b.trade_log, equity |-> b.equity_history,
               paper |-> paper, email |-> email, collapsed |-> collapsed]
    BY <1>0 DEF OwnOf
  <2>2. OwnOf(c, e.settings) =
          [account |-> b.account, settings |-> pairs, held |-> held,
           labels |-> labels, trades |-> b.trade_log, equity |-> value,
           paper |-> paper, email |-> email, collapsed |-> collapsed]
    BY <1>2 DEF OwnOf
  <2> HIDE DEF paper, pairs, held, labels, email, collapsed
  <2> QED BY <2>1, <2>2
<1>4. Append(own.equity, own.account) = value
  BY <1>0 DEF OwnOf, value
<1>5. Dismissals(e) = Dismissals(s)
  BY <1>2 DEF Dismissals, c
<1>6. Good(e, [own EXCEPT !.equity = value], now, gone, wrong)
  BY <1>0, <1>2, <1>3, <1>5 DEF Good, Hides, c
<1> QED BY <1>4, <1>6 DEF e, value

LEMMA EmailIsGood ==
  ASSUME NEW s, NEW own, NEW now, NEW gone, NEW wrong, Good(s, own, now, gone, wrong), NEW value
  PROVE  Good(Put(s, "email_enabled", value), [own EXCEPT !.email = value], now, gone, wrong)
<1> DEFINE b == Bucket(s)
           e == Put(s, "email_enabled", value)
           c == Bucket(e)
<1>0. Current(s) /\ own = OwnOf(b, s.settings) /\ Hides(s, now, gone, wrong)
  BY DEF Good
<1>2. /\ Current(e) /\ e.settings = s.settings /\ c.equity_history = b.equity_history
      /\ c.account = b.account /\ c.trade_log = b.trade_log /\ c.positions = b.positions
      /\ c.contracts = b.contracts /\ c.paper_trades = b.paper_trades
      /\ Get(c, "email_enabled", TRUE) = value
      /\ \A k \in {"news_panel_collapsed", "news_dismissed"} :
           \A x : Get(c, k, x) = Get(b, k, x)
  <2>1. /\ Current(e) /\ e.settings = s.settings /\ c.equity_history = b.equity_history
        /\ c.account = b.account /\ c.trade_log = b.trade_log /\ c.positions = b.positions
        /\ c.contracts = b.contracts /\ c.paper_trades = b.paper_trades
    BY <1>0, PutOwns
  <2>2. \A k \in {"email_enabled", "news_panel_collapsed", "news_dismissed"} :
          \A x : Get(c, k, x) = IF k = "email_enabled" THEN value ELSE Get(b, k, x)
    BY <1>0, PutOwns
  <2> HIDE DEF b, c, e
  <2> QED BY <2>1, <2>2
<1> HIDE DEF c, e
<1>3. [own EXCEPT !.email = value] = OwnOf(c, e.settings)
  <2> DEFINE paper == [i \in DOMAIN b.paper_trades |-> OwnKeys(b.paper_trades[i])]
             pairs == OwnPairs(s.settings)
             held == OwnPairs(b.positions)
             labels == OwnKeys(b.contracts)
             email == Get(b, "email_enabled", TRUE)
             collapsed == Get(b, "news_panel_collapsed", FALSE)
  <2>1. own = [account |-> b.account, settings |-> pairs, held |-> held,
               labels |-> labels, trades |-> b.trade_log, equity |-> b.equity_history,
               paper |-> paper, email |-> email, collapsed |-> collapsed]
    BY <1>0 DEF OwnOf
  <2>2. OwnOf(c, e.settings) =
          [account |-> b.account, settings |-> pairs, held |-> held,
           labels |-> labels, trades |-> b.trade_log, equity |-> b.equity_history,
           paper |-> paper, email |-> value, collapsed |-> collapsed]
    BY <1>2 DEF OwnOf
  <2> HIDE DEF paper, pairs, held, labels, email, collapsed
  <2> QED BY <2>1, <2>2
<1>5. Dismissals(e) = Dismissals(s)
  BY <1>2 DEF Dismissals, c
<1> QED BY <1>0, <1>2, <1>3, <1>5 DEF Good, Hides, c, e

LEMMA CollapseIsGood ==
  ASSUME NEW s, NEW own, NEW now, NEW gone, NEW wrong, Good(s, own, now, gone, wrong)
  PROVE  Good(Put(s, "news_panel_collapsed", ~Get(Bucket(s), "news_panel_collapsed", FALSE)),
              [own EXCEPT !.collapsed = ~@], now, gone, wrong)
<1> DEFINE b == Bucket(s)
           value == ~Get(b, "news_panel_collapsed", FALSE)
           e == Put(s, "news_panel_collapsed", value)
           c == Bucket(e)
<1>0. Current(s) /\ own = OwnOf(b, s.settings) /\ Hides(s, now, gone, wrong)
  BY DEF Good
<1>1. own.collapsed = Get(b, "news_panel_collapsed", FALSE)
  BY <1>0 DEF OwnOf
<1>2. [own EXCEPT !.collapsed = ~@] = [own EXCEPT !.collapsed = value]
  BY <1>1
<1> HIDE DEF value
<1>3. /\ Current(e) /\ e.settings = s.settings /\ c.equity_history = b.equity_history
      /\ c.account = b.account /\ c.trade_log = b.trade_log /\ c.positions = b.positions
      /\ c.contracts = b.contracts /\ c.paper_trades = b.paper_trades
      /\ Get(c, "news_panel_collapsed", FALSE) = value
      /\ \A k \in {"email_enabled", "news_dismissed"} :
           \A x : Get(c, k, x) = Get(b, k, x)
  <2>1. /\ Current(e) /\ e.settings = s.settings /\ c.equity_history = b.equity_history
        /\ c.account = b.account /\ c.trade_log = b.trade_log /\ c.positions = b.positions
        /\ c.contracts = b.contracts /\ c.paper_trades = b.paper_trades
    BY <1>0, PutOwns
  <2>2. \A k \in {"email_enabled", "news_panel_collapsed", "news_dismissed"} :
          \A x : Get(c, k, x) = IF k = "news_panel_collapsed" THEN value ELSE Get(b, k, x)
    BY <1>0, PutOwns
  <2> HIDE DEF b, c, e
  <2> QED BY <2>1, <2>2
<1> HIDE DEF c, e
<1>4. [own EXCEPT !.collapsed = value] = OwnOf(c, e.settings)
  <2> DEFINE paper == [i \in DOMAIN b.paper_trades |-> OwnKeys(b.paper_trades[i])]
             pairs == OwnPairs(s.settings)
             held == OwnPairs(b.positions)
             labels == OwnKeys(b.contracts)
             email == Get(b, "email_enabled", TRUE)
             collapsed == Get(b, "news_panel_collapsed", FALSE)
  <2>1. own = [account |-> b.account, settings |-> pairs, held |-> held,
               labels |-> labels, trades |-> b.trade_log, equity |-> b.equity_history,
               paper |-> paper, email |-> email, collapsed |-> collapsed]
    BY <1>0 DEF OwnOf
  <2>2. OwnOf(c, e.settings) =
          [account |-> b.account, settings |-> pairs, held |-> held,
           labels |-> labels, trades |-> b.trade_log, equity |-> b.equity_history,
           paper |-> paper, email |-> email, collapsed |-> value]
    BY <1>3 DEF OwnOf
  <2> HIDE DEF paper, pairs, held, labels, email, collapsed
  <2> QED BY <2>1, <2>2
<1>5. Dismissals(e) = Dismissals(s)
  BY <1>3 DEF Dismissals, c
<1>6. Good(e, [own EXCEPT !.collapsed = value], now, gone, wrong)
  BY <1>0, <1>3, <1>4, <1>5 DEF Good, Hides, c
<1> QED BY <1>2, <1>6, Zenon DEF e, value

\* The headline is dismissed on the day its request read.
LEMMA DismissedIsGood ==
  ASSUME NEW s, NEW own, NEW now \in Nat, NEW gone, NEW wrong, Good(s, own, now, gone, wrong),
         NEW h, NEW on \in 1..now, NEW takes \in BOOLEAN,
         takes = FALSE => h \notin KeptHashes(Dismissals(s), on)
  PROVE  LET kept == KeptHashes(Dismissals(s), on)
         IN  Good(Put(s, "news_dismissed",
                      [date |-> on, hashes |-> IF takes THEN kept \cup {h} ELSE kept]),
                  own, now, IF takes THEN gone \cup {<<h, on>>} ELSE gone,
                  IF on < now THEN wrong \cup {"day"} ELSE wrong)
<1> DEFINE b == Bucket(s)
           old == Dismissals(s)
           kept == KeptHashes(old, on)
           hashes == IF takes THEN kept \cup {h} ELSE kept
           value == [date |-> on, hashes |-> hashes]
           gone2 == IF takes THEN gone \cup {<<h, on>>} ELSE gone
           wrong2 == IF on < now THEN wrong \cup {"day"} ELSE wrong
           e == Put(s, "news_dismissed", value)
           c == Bucket(e)
<1>0. Current(s) /\ own = OwnOf(b, s.settings) /\ Hides(s, now, gone, wrong)
  BY DEF Good
<1>1. value.date = on /\ value.hashes = hashes
  OBVIOUS
<1> HIDE DEF value
<1>2. /\ Current(e) /\ e.settings = s.settings /\ c.equity_history = b.equity_history
      /\ c.account = b.account /\ c.trade_log = b.trade_log /\ c.positions = b.positions
      /\ c.contracts = b.contracts /\ c.paper_trades = b.paper_trades
      /\ Get(c, "news_dismissed", NoDismissals) = value
      /\ \A k \in {"email_enabled", "news_panel_collapsed"} :
           \A x : Get(c, k, x) = Get(b, k, x)
  BY <1>0, PutOwns
<1>3. OwnOf(c, e.settings) = own
  <2> HIDE DEF b, c, e
  <2> QED BY <1>0, <1>2 DEF OwnOf
<1>4. Dismissals(e) = value
  BY <1>2 DEF Dismissals
<1> HIDE DEF b, c, e, old
<1>5. /\ old.date \in 0..now /\ \A p \in gone : p[2] \in 1..now
      /\ \A x \in old.hashes : <<x, old.date>> \in gone
      /\ "day" \notin wrong =>
           \A p \in gone : p[2] < old.date \/ (p[2] = old.date /\ p[1] \in old.hashes)
  BY <1>0 DEF Hides, old
<1>6. kept = IF old.date = on THEN old.hashes ELSE {}
  BY DEF KeptHashes
<1> HIDE DEF kept
<1>7. \A x \in hashes : <<x, on>> \in gone2
  BY <1>5, <1>6
<1>8. ASSUME "day" \notin wrong2, NEW p \in gone2
      PROVE  p[2] < on \/ (p[2] = on /\ p[1] \in hashes)
  <2>1. "day" \notin wrong /\ on = now
    BY <1>8
  <2>2. CASE p \in gone
    BY <1>5, <1>6, <2>1, <2>2
  <2>3. CASE p \notin gone
    BY <1>8, <2>3
  <2> QED BY <2>2, <2>3
<1>9. Hides(e, now, gone2, wrong2)
  <2>1. \A p \in gone2 : p[2] \in 1..now
    BY <1>5
  <2> HIDE DEF hashes, gone2, wrong2
  <2> QED BY <1>1, <1>4, <1>7, <1>8, <2>1 DEF Hides
<1>10. Good(e, own, now, gone2, wrong2)
  BY <1>2, <1>3, <1>9 DEF Good, c
<1> QED BY <1>10 DEF e, value, kept, old

\* append_warning and clear_warnings_by_source

\* A non-empty set of naturals has a least element.
LEMMA LeastNat ==
  ASSUME NEW T \in SUBSET Nat, T # {}
  PROVE  \E n \in T : \A m \in T : n <= m
<1> DEFINE R == OpToRel(<, Nat)
<1>1. IsWellFoundedOn(R, Nat)
  BY NatLessThanWellFounded
<1> HIDE DEF R
<1>2. PICK n \in T : \A m \in T : ~(<<m, n>> \in R)
  BY <1>1, WFMin
<1>3. ASSUME NEW m \in T PROVE n <= m
  <2>1. ~(m < n)
    BY <1>2 DEF R, OpToRel
  <2> QED BY <2>1
<1> QED BY <1>2, <1>3

LEMMA NewestFit ==
  ASSUME NEW S, NEW warnings \in Seq(S), NEW from \in S
  PROVE  /\ NewestAnd(warnings, from) \in Seq(S)
         /\ Len(NewestAnd(warnings, from)) <= MaxWarnings
<1> DEFINE n == Len(warnings)
           lo == IF n < MaxWarnings THEN 1 ELSE n - MaxWarnings + 2
           kept == {i \in DOMAIN warnings : i > n - (MaxWarnings - 1)}
           newest == SubSeq(warnings, lo, n)
<1>1. n \in Nat /\ DOMAIN warnings = 1..n /\ MaxWarnings \in Nat /\ MaxWarnings >= 2
  BY LenProperties, SchemaAssumption
<1>2. lo \in 1..n + 1
  BY <1>1
<1>3. kept = lo..n
  BY <1>1
<1>4. n - Cardinality(kept) + 1 = lo
  <2> HIDE DEF lo, n, kept
  <2>1. lo \in Int /\ n \in Int
    BY <1>1, <1>2
  <2>2. Cardinality(lo..n) = IF lo > n THEN 0 ELSE n - lo + 1
    BY <2>1, FS_Interval
  <2> QED BY <1>1, <1>2, <1>3, <2>2
<1>5. NewestAnd(warnings, from) = Append(newest, from)
  BY <1>4 DEF NewestAnd
<1>6. n - lo + 1 <= MaxWarnings - 1
  BY <1>1
<1> HIDE DEF lo
<1>7. newest \in Seq(S) /\ Len(newest) <= MaxWarnings - 1
  <2>1. newest \in Seq(S) /\ Len(newest) = IF lo <= n THEN n - lo + 1 ELSE 0
    BY <1>1, <1>2, SubSeqProperties
  <2> QED BY <1>1, <1>2, <1>6, <2>1
<1> HIDE DEF newest
<1> QED BY <1>1, <1>5, <1>7, AppendProperties

\* The list that is left after the first n warnings.
Left(warnings, from, f, n) ==
  IF n = 0 THEN <<>>
  ELSE IF warnings[n] = from THEN f[n - 1] ELSE Append(f[n - 1], warnings[n])

LEMMA WithoutExists ==
  ASSUME NEW S, NEW warnings \in Seq(S), NEW from
  PROVE  \E f : f = [n \in 0..Len(warnings) |-> Left(warnings, from, f, n)]
<1> DEFINE P(j) == \E f : f = [n \in 0..j |-> Left(warnings, from, f, n)]
           T == {j \in 0..Len(warnings) : ~P(j)}
<1>1. SUFFICES ASSUME T # {} PROVE FALSE
  <2>1. Len(warnings) \in 0..Len(warnings)
    BY LenProperties
  <2> QED BY <1>1, <2>1
<1>2. T \in SUBSET Nat
  OBVIOUS
<1>3. PICK j \in T : \A m \in T : j <= m
  BY <1>1, <1>2, LeastNat
<1>4. P(0)
  <2> DEFINE f == [n \in 0..0 |-> <<>>]
  <2>1. f = [n \in 0..0 |-> Left(warnings, from, f, n)]
    BY DEF Left
  <2> QED BY <2>1
<1>5. j # 0 /\ j \in 1..Len(warnings) /\ j - 1 \in 0..Len(warnings) /\ ~(j <= j - 1)
  <2>1. j \in 0..Len(warnings) /\ ~P(j) /\ Len(warnings) \in Nat
    BY LenProperties
  <2> HIDE DEF P
  <2> QED BY <1>4, <2>1
<1>6. P(j - 1)
  BY <1>3, <1>5
<1>7. PICK f : f = [n \in 0..j - 1 |-> Left(warnings, from, f, n)]
  BY <1>6
<1> DEFINE g == [n \in 0..j |-> IF n < j THEN f[n] ELSE Left(warnings, from, f, j)]
<1>8. ASSUME NEW n \in 0..j PROVE g[n] = Left(warnings, from, g, n)
  <2>1. n # 0 => n - 1 \in 0..j /\ n - 1 < j /\ g[n - 1] = f[n - 1]
    BY <1>5
  <2>2. Left(warnings, from, g, n) = Left(warnings, from, f, n)
    BY <2>1 DEF Left
  <2>3. CASE n = j
    BY <2>2, <2>3
  <2>4. CASE n # j
    <3>1. n \in 0..j - 1 /\ n < j
      BY <1>5, <2>4
    <3>2. f[n] = Left(warnings, from, f, n)
      BY <1>7, <3>1
    <3> QED BY <2>2, <3>1, <3>2
  <2> QED BY <2>3, <2>4
<1>9. g = [n \in 0..j |-> Left(warnings, from, g, n)]
  <2>1. g = [n \in 0..j |-> g[n]]
    OBVIOUS
  <2> HIDE DEF g
  <2> QED BY <1>8, <2>1
<1>10. P(j)
  BY <1>9
<1> QED BY <1>3, <1>10

LEMMA WithoutFits ==
  ASSUME NEW S, NEW warnings \in Seq(S), NEW from
  PROVE  /\ Without(warnings, from) \in Seq(S)
         /\ Len(Without(warnings, from)) <= Len(warnings)
<1> DEFINE f == CHOOSE g : g = [n \in 0..Len(warnings) |-> Left(warnings, from, g, n)]
           Fits(n) == f[n] \in Seq(S) /\ Len(f[n]) <= n
           T == {n \in 0..Len(warnings) : ~Fits(n)}
<1>1. Without(warnings, from) = f[Len(warnings)]
  BY DEF Without, Left
<1>2. f = [n \in 0..Len(warnings) |-> Left(warnings, from, f, n)]
  BY WithoutExists
<1> HIDE DEF f
<1>3. Len(warnings) \in Nat /\ \A n \in 1..Len(warnings) : warnings[n] \in S
  BY LenProperties, ElementOfSeq
<1>4. \A n \in 0..Len(warnings) : f[n] = Left(warnings, from, f, n)
  BY <1>2
<1>5. T = {}
  <2>1. SUFFICES ASSUME T # {} PROVE FALSE
    OBVIOUS
  <2>2. T \in SUBSET Nat
    BY <1>3
  <2>3. PICK n \in T : \A m \in T : n <= m
    BY <2>1, <2>2, LeastNat
  <2>4. n # 0
    <3>1. f[0] = <<>>
      BY <1>3, <1>4 DEF Left
    <3>2. Fits(0)
      BY <3>1
    <3> QED BY <2>3, <3>2
  <2>5. n \in 1..Len(warnings) /\ n - 1 \in 0..Len(warnings) /\ ~(n <= n - 1)
    BY <1>3, <2>3, <2>4
  <2>6. f[n - 1] \in Seq(S) /\ Len(f[n - 1]) <= n - 1 /\ Len(f[n - 1]) \in Nat
    <3>1. Fits(n - 1)
      BY <2>3, <2>5
    <3> QED BY <3>1, LenProperties
  <2>7. f[n] = f[n - 1] \/ f[n] = Append(f[n - 1], warnings[n])
    <3>1. f[n] = Left(warnings, from, f, n)
      BY <1>4
    <3>2. n # 0
      BY <2>5
    <3> HIDE DEF T
    <3> QED BY <3>1, <3>2, Zenon DEF Left
  <2>8. Append(f[n - 1], warnings[n]) \in Seq(S)
        /\ Len(Append(f[n - 1], warnings[n])) = Len(f[n - 1]) + 1
    BY <1>3, <2>5, <2>6, AppendProperties
  <2>9. Fits(n)
    <3>1. n \in Nat /\ n - 1 + 1 = n
      BY <2>5
    <3> DEFINE before == f[n - 1]
               after == Append(before, warnings[n])
               m == n - 1
    <3>2. before \in Seq(S) /\ Len(before) \in Nat /\ Len(before) <= m
      BY <2>6
    <3>3. after \in Seq(S) /\ Len(after) = Len(before) + 1
      BY <2>8
    <3>4. m \in Int /\ n = m + 1
      BY <3>1
    <3>5. f[n] = before \/ f[n] = after
      BY <2>7
    <3> HIDE DEF before, after, m
    <3> QED BY <3>2, <3>3, <3>4, <3>5
  <2> QED BY <2>3, <2>9
<1>6. Fits(Len(warnings))
  BY <1>3, <1>5
<1> QED BY <1>1, <1>6

LEMMA WarnedIsGood ==
  ASSUME NEW s, NEW own, NEW now, NEW gone, NEW wrong, Good(s, own, now, gone, wrong),
         NEW warnings \in Seq({"drift", "other"}), Len(warnings) <= MaxWarnings
  PROVE  Good([s EXCEPT !.warnings = warnings], own, now, gone, wrong)
<1> DEFINE e == [s EXCEPT !.warnings = warnings]
<1>1. /\ IsDocument(e) /\ e.warnings = warnings /\ e.version = s.version /\ e.markets = s.markets
      /\ e.settings = s.settings /\ e.signals = s.signals /\ e.top = s.top /\ e.users = s.users
  BY DEF Good, Current, IsDocument
<1> HIDE DEF e
<1>2. Current(e)
  BY <1>1 DEF Good, Current, MarketsAsOf, WarningsAsOf, Bucket
<1>3. Good(e, own, now, gone, wrong)
  BY <1>1, <1>2, ElsewhereIsGood
<1> QED BY <1>3 DEF e

\* The edits of the registry and of the account at the top level.

LEMMA RegistryIsGood ==
  ASSUME NEW s, NEW own, NEW now, NEW gone, NEW wrong, Good(s, own, now, gone, wrong),
         NEW e, IsDocument(e), e.version = s.version, e.users = s.users, e.warnings = s.warnings,
         DOMAIN e.top \subseteq UserKeys, BucketAsOf(0, e.top), MarketsAsOf(Version, e),
         OwnPairs(e.settings) = OwnPairs(s.settings)
  PROVE  Good(e, own, now, gone, wrong)
<1>1. Current(e)
  BY DEF Good, Current, WarningsAsOf, Bucket
<1> QED BY <1>1, ElsewhereIsGood

\* The keys a registry entry, a signal and the settings of a market must have.
MarketIsWhole(d, m) ==
  /\ m \in DOMAIN d.signals /\ m \in DOMAIN d.settings
  /\ SettingKeys \subseteq DOMAIN d.settings[m]
  /\ MarketKeys \subseteq DOMAIN d.markets[m]

LEMMA Markets12 ==
  ASSUME NEW d
  PROVE  MarketsAsOf(Version, d) <=>
           /\ DOMAIN d.markets \subseteq Markets /\ DOMAIN d.settings \subseteq DOMAIN d.markets
           /\ \A m \in DOMAIN d.settings : DOMAIN d.settings[m] \subseteq SettingKeys
           /\ \A m \in DOMAIN d.markets : MarketIsWhole(d, m)
           /\ \A m \in DOMAIN d.signals :
                IsDict(d.signals[m]) /\ "strategy_version" \in DOMAIN d.signals[m]
  BY VersionIs12 DEF MarketsAsOf, MarketIsWhole, MarketKeys

LEMMA AddedIsGood ==
  ASSUME NEW s, NEW own, NEW now, NEW gone, NEW wrong, Good(s, own, now, gone, wrong),
         NEW m \in AddedMarkets, m \notin DOMAIN s.markets, NEW market, NEW top, NEW signal,
         DOMAIN market = MarketKeys, DOMAIN top \subseteq UserKeys, BucketAsOf(0, top),
         IsDict(signal), "strategy_version" \in DOMAIN signal
  PROVE  Good([s EXCEPT !.markets = WithKey(@, m, market), !.top = top,
                        !.signals = WithKey(@, m, signal),
                        !.settings = WithKey(@, m, DefaultSettings)], own, now, gone, wrong)
<1> DEFINE markets == WithKey(s.markets, m, market)
           signals == WithKey(s.signals, m, signal)
           settings == WithKey(s.settings, m, DefaultSettings)
           d1 == [s EXCEPT !.markets = markets]
           d2 == [d1 EXCEPT !.top = top]
           d3 == [d2 EXCEPT !.signals = signals]
           e == [d3 EXCEPT !.settings = settings]
<1>0. Current(s) /\ IsDocument(s)
  BY DEF Good, Current
<1>1. /\ DOMAIN markets = DOMAIN s.markets \cup {m} /\ markets[m] = market
      /\ \A n \in DOMAIN s.markets \ {m} : markets[n] = s.markets[n]
  BY DEF WithKey, Merged
<1>2. /\ DOMAIN signals = DOMAIN s.signals \cup {m} /\ signals[m] = signal
      /\ \A n \in DOMAIN s.signals \ {m} : signals[n] = s.signals[n]
  BY DEF WithKey, Merged
<1>3. /\ DOMAIN settings = DOMAIN s.settings \cup {m} /\ settings[m] = DefaultSettings
      /\ \A n \in DOMAIN s.settings \ {m} : settings[n] = s.settings[n]
  BY DEF WithKey, Merged
<1>4. [s EXCEPT !.markets = WithKey(@, m, market), !.top = top,
                !.signals = WithKey(@, m, signal),
                !.settings = WithKey(@, m, DefaultSettings)] = e
  BY <1>0 DEF IsDocument
<1> HIDE DEF markets, signals, settings
<1>5. /\ IsDocument(e) /\ e.markets = markets /\ e.top = top /\ e.signals = signals
      /\ e.settings = settings /\ e.version = s.version /\ e.users = s.users
      /\ e.warnings = s.warnings
  <2>1. /\ IsDocument(d1) /\ d1.markets = markets /\ d1.version = s.version
        /\ d1.users = s.users /\ d1.warnings = s.warnings
    BY <1>0, NewMarkets
  <2> HIDE DEF d1
  <2>2. /\ IsDocument(d2) /\ d2.markets = markets /\ d2.version = s.version
        /\ d2.users = s.users /\ d2.warnings = s.warnings /\ d2.top = top
    BY <2>1, NewTop
  <2> HIDE DEF d2
  <2>3. /\ IsDocument(d3) /\ d3.markets = markets /\ d3.version = s.version
        /\ d3.users = s.users /\ d3.warnings = s.warnings /\ d3.top = top
        /\ d3.signals = signals
    BY <2>2, NewSignals
  <2> HIDE DEF d3
  <2> QED BY <2>3, NewSettings
<1> HIDE DEF e
<1>6. DOMAIN DefaultSettings = SettingKeys /\ OwnKeys(DefaultSettings) = {}
  BY DEF DefaultSettings, Filled, OwnKeys, Default, Own
<1>7. m \notin DOMAIN s.settings
  BY <1>0 DEF Current, MarketsAsOf
<1>8. OwnPairs(e.settings) = OwnPairs(s.settings)
  BY <1>3, <1>5, <1>6, <1>7, SamePairs
<1>9. MarketsAsOf(Version, e)
  <2>1. MarketsAsOf(Version, s)
    BY <1>0 DEF Current
  <2>2. ASSUME NEW n \in DOMAIN e.markets PROVE MarketIsWhole(e, n)
    <3>1. CASE n = m
      BY <1>1, <1>2, <1>3, <1>5, <1>6, <3>1 DEF MarketIsWhole, MarketKeys
    <3>2. CASE n # m
      <4>1. n \in DOMAIN s.markets /\ MarketIsWhole(s, n)
        BY <1>1, <1>5, <2>1, <3>2, Markets12
      <4> QED BY <1>1, <1>2, <1>3, <1>5, <3>2, <4>1 DEF MarketIsWhole
    <3> QED BY <3>1, <3>2
  <2>3. \A n \in DOMAIN e.signals :
          IsDict(e.signals[n]) /\ "strategy_version" \in DOMAIN e.signals[n]
    BY <1>2, <1>5, <2>1, Markets12
  <2>4. /\ DOMAIN e.markets \subseteq Markets /\ DOMAIN e.settings \subseteq DOMAIN e.markets
        /\ \A n \in DOMAIN e.settings : DOMAIN e.settings[n] \subseteq SettingKeys
    BY <1>1, <1>3, <1>5, <1>6, <2>1, Markets12 DEF Markets
  <2> QED BY <2>2, <2>3, <2>4, Markets12
<1>10. Good(e, own, now, gone, wrong)
  BY <1>5, <1>8, <1>9, RegistryIsGood
<1> QED BY <1>4, <1>10

LEMMA PatchedIsGood ==
  ASSUME NEW s, NEW own, NEW now, NEW gone, NEW wrong, Good(s, own, now, gone, wrong),
         NEW m \in DOMAIN s.markets, NEW market, DOMAIN s.markets[m] \subseteq DOMAIN market
  PROVE  Good([s EXCEPT !.markets = [@ EXCEPT ![m] = market]], own, now, gone, wrong)
<1> DEFINE markets == [s.markets EXCEPT ![m] = market]
           e == [s EXCEPT !.markets = markets]
<1>0. Current(s) /\ IsDocument(s)
  BY DEF Good, Current
<1>1. /\ DOMAIN markets = DOMAIN s.markets /\ markets[m] = market
      /\ \A n \in DOMAIN s.markets \ {m} : markets[n] = s.markets[n]
  OBVIOUS
<1> HIDE DEF markets
<1>2. /\ IsDocument(e) /\ e.markets = markets /\ e.version = s.version /\ e.signals = s.signals
      /\ e.settings = s.settings /\ e.top = s.top /\ e.warnings = s.warnings /\ e.users = s.users
  BY <1>0, NewMarkets
<1> HIDE DEF e
<1>3. MarketsAsOf(Version, e)
  <2>1. MarketsAsOf(Version, s)
    BY <1>0 DEF Current
  <2>2. ASSUME NEW n \in DOMAIN e.markets PROVE MarketIsWhole(e, n)
    <3>1. MarketIsWhole(s, n)
      BY <1>1, <1>2, <2>1, Markets12
    <3> QED BY <1>1, <1>2, <3>1 DEF MarketIsWhole
  <2> QED BY <1>1, <1>2, <2>1, <2>2, Markets12
<1>4. DOMAIN e.top \subseteq UserKeys /\ BucketAsOf(0, e.top)
  BY <1>0, <1>2 DEF Current
<1>5. Good(e, own, now, gone, wrong)
  BY <1>2, <1>3, <1>4, RegistryIsGood
<1> QED BY <1>5 DEF e, markets

LEMMA BalanceIsGood ==
  ASSUME NEW s, NEW own, NEW now, NEW gone, NEW wrong, Good(s, own, now, gone, wrong),
         NEW amount \in Int
  PROVE  Good([s EXCEPT !.top = Merged([account |-> amount, initial_account |-> amount], @)],
              own, now, gone, wrong)
<1> DEFINE top == Merged([account |-> amount, initial_account |-> amount], s.top)
           e == [s EXCEPT !.top = top]
<1>0. Current(s) /\ IsDocument(s)
  BY DEF Good, Current
<1>1. /\ DOMAIN top = DOMAIN s.top \cup {"account", "initial_account"}
      /\ top["account"] = amount /\ top["initial_account"] = amount
      /\ \A k \in DOMAIN s.top \ {"account", "initial_account"} : top[k] = s.top[k]
  BY DEF Merged
<1> HIDE DEF top
<1>2. /\ IsDocument(e) /\ e.markets = s.markets /\ e.version = s.version /\ e.signals = s.signals
      /\ e.settings = s.settings /\ e.top = top /\ e.warnings = s.warnings /\ e.users = s.users
  BY <1>0, NewTop
<1> HIDE DEF e
<1>3. DOMAIN top \subseteq UserKeys /\ BucketAsOf(0, top)
  BY <1>0, <1>1 DEF Current, BucketAsOf, UserKeys
<1>4. MarketsAsOf(Version, e)
  BY <1>0, <1>2 DEF Current, MarketsAsOf
<1>5. Good(e, own, now, gone, wrong)
  BY <1>2, <1>3, <1>4, RegistryIsGood
<1> QED BY <1>5 DEF e, top

LEMMA TableIsGood ==
  ASSUME NEW s, NEW own, NEW now, NEW gone, NEW wrong, Good(s, own, now, gone, wrong),
         NEW m \in DOMAIN s.markets, NEW market, DOMAIN s.markets[m] \subseteq DOMAIN market,
         NEW settings, settings = WithKey(s.settings, m, Filled(SettingKeys, Own)),
         NEW all, all = own.settings \cup {<<m, k>> : k \in SettingKeys}
  PROVE  Good([s EXCEPT !.settings = settings, !.markets[m] = market],
              [own EXCEPT !.settings = all], now, gone, wrong)
<1> DEFINE pairs == OwnPairs(s.settings) \cup {<<m, k>> : k \in SettingKeys}
           d == [s EXCEPT !.settings = settings]
           e == [d EXCEPT !.markets = [@ EXCEPT ![m] = market]]
           own2 == [own EXCEPT !.settings = pairs]
<1>0. /\ Current(s) /\ IsDocument(s) /\ own = OwnOf(Bucket(s), s.settings)
      /\ Hides(s, now, gone, wrong)
  BY DEF Good, Current
<1>1. /\ DOMAIN settings = DOMAIN s.settings \cup {m} /\ settings[m] = Filled(SettingKeys, Own)
      /\ \A n \in DOMAIN s.settings \ {m} : settings[n] = s.settings[n]
  BY DEF WithKey, Merged
<1>2. [s EXCEPT !.settings = settings, !.markets[m] = market] = e
  BY <1>0 DEF IsDocument
<1>3. /\ IsDocument(d) /\ d.settings = settings /\ d.version = s.version /\ d.signals = s.signals
      /\ d.markets = s.markets /\ d.top = s.top /\ d.warnings = s.warnings /\ d.users = s.users
  BY <1>0, NewSettings
<1> HIDE DEF d
<1>4. /\ DOMAIN Filled(SettingKeys, Own) = SettingKeys
      /\ OwnKeys(Filled(SettingKeys, Own)) = SettingKeys
  BY DEF Filled, OwnKeys
<1>5. MarketsAsOf(Version, s)
  BY <1>0 DEF Current
<1>6. OwnPairs(settings) = pairs
  <2>1. ASSUME NEW p \in OwnPairs(settings) PROVE p \in pairs
    <3>1. PICK n \in DOMAIN settings : \E k \in OwnKeys(settings[n]) : p = <<n, k>>
      BY InOwnPairs
    <3>2. CASE n = m
      BY <1>1, <1>4, <3>1, <3>2
    <3>3. CASE n # m
      BY <1>1, <3>1, <3>3, InOwnPairs
    <3> QED BY <3>2, <3>3
  <2>2. ASSUME NEW p \in OwnPairs(s.settings) PROVE p \in OwnPairs(settings)
    <3>1. PICK n \in DOMAIN s.settings : \E k \in OwnKeys(s.settings[n]) : p = <<n, k>>
      BY InOwnPairs
    <3>2. CASE n = m
      <4>0. PICK k \in OwnKeys(s.settings[n]) : p = <<n, k>>
        BY <3>1
      <4>1. k \in SettingKeys
        BY <1>5, Markets12 DEF OwnKeys
      <4> QED BY <1>1, <1>4, <3>2, <4>0, <4>1, InOwnPairs
    <3>3. CASE n # m
      BY <1>1, <3>1, <3>3, InOwnPairs
    <3> QED BY <3>2, <3>3
  <2>3. ASSUME NEW k \in SettingKeys PROVE <<m, k>> \in OwnPairs(settings)
    BY <1>1, <1>4, InOwnPairs
  <2> QED BY <2>1, <2>2, <2>3
<1>7. MarketsAsOf(Version, d)
  <2>2. ASSUME NEW n \in DOMAIN d.markets PROVE MarketIsWhole(d, n)
    <3>1. MarketIsWhole(s, n)
      BY <1>3, <1>5, Markets12
    <3> QED BY <1>1, <1>3, <1>4, <3>1 DEF MarketIsWhole
  <2>3. /\ DOMAIN d.settings \subseteq DOMAIN d.markets
        /\ \A n \in DOMAIN d.settings : DOMAIN d.settings[n] \subseteq SettingKeys
    BY <1>1, <1>3, <1>4, <1>5, Markets12
  <2> QED BY <1>3, <1>5, <2>2, <2>3, Markets12
<1>8. Current(d) /\ Bucket(d) = Bucket(s)
  BY <1>0, <1>3, <1>7 DEF Current, WarningsAsOf, Bucket
<1>9. OwnOf(Bucket(d), d.settings) = own2
  <2> DEFINE b == Bucket(s)
             paper == [i \in DOMAIN b.paper_trades |-> OwnKeys(b.paper_trades[i])]
             held == OwnPairs(b.positions)
             labels == OwnKeys(b.contracts)
             email == Get(b, "email_enabled", TRUE)
             collapsed == Get(b, "news_panel_collapsed", FALSE)
  <2>1. own = [account |-> b.account, settings |-> OwnPairs(s.settings), held |-> held,
               labels |-> labels, trades |-> b.trade_log, equity |-> b.equity_history,
               paper |-> paper, email |-> email, collapsed |-> collapsed]
    BY <1>0 DEF OwnOf
  <2>2. OwnOf(Bucket(d), d.settings) =
          [account |-> b.account, settings |-> pairs, held |-> held,
           labels |-> labels, trades |-> b.trade_log, equity |-> b.equity_history,
           paper |-> paper, email |-> email, collapsed |-> collapsed]
    BY <1>3, <1>6, <1>8 DEF OwnOf
  <2> HIDE DEF b, paper, held, labels, email, collapsed, pairs
  <2> QED BY <2>1, <2>2
<1>10. Good(d, own2, now, gone, wrong)
  BY <1>0, <1>8, <1>9 DEF Good, Hides, Dismissals
<1>11. all = pairs
  BY <1>0 DEF OwnOf
<1> HIDE DEF own2
<1>12. Good(e, own2, now, gone, wrong)
  BY <1>3, <1>10, PatchedIsGood
<1> QED BY <1>2, <1>11, <1>12 DEF own2

\* --reset

LEMMA ResetIsCurrent ==
  LET s == ResetState(InitialAccount)
  IN  Current(s) /\ DOMAIN Bucket(s) = UserKeys /\ s.version = Version
<1> DEFINE s == ResetState(InitialAccount)
<1>1. /\ IsDocument(s) /\ s.version = Version /\ s.top = NoRow /\ s.warnings = <<>>
      /\ DOMAIN s.users = {Admin}
      /\ s.markets = [m \in DefaultMarkets |-> Filled(MarketKeys, Default)]
      /\ s.settings = [m \in DefaultMarkets |-> DefaultSettings]
      /\ s.signals = [m \in DefaultMarkets |-> Filled({"signal", "strategy_version"}, Default)]
  BY DEF ResetState, IsDocument
<1>2. Bucket(s) = ResetState(InitialAccount).users[Admin]
  BY DEF Bucket
<1> HIDE DEF s
<1>3. DOMAIN Bucket(s) = UserKeys /\ BucketAsOf(Version, Bucket(s))
  BY <1>2, FreshBucket, FreshBucketIsGood, VersionIs12
<1>4. DOMAIN s.top \subseteq UserKeys /\ BucketAsOf(0, s.top)
  BY <1>1, NoRowIsEmpty DEF BucketAsOf
<1>5. MarketsAsOf(Version, s)
  <2> DEFINE market == Filled(MarketKeys, Default)
             signal == Filled({"signal", "strategy_version"}, Default)
  <2>1. /\ DOMAIN market = MarketKeys /\ DOMAIN DefaultSettings = SettingKeys
        /\ DOMAIN signal = {"signal", "strategy_version"}
    BY FilledKeys DEF DefaultSettings
  <2>2. IsDict(signal)
    BY <2>1 DEF IsDict
  <2> HIDE DEF market, signal
  <2>3. \A m \in DefaultMarkets : /\ s.markets[m] = market /\ s.settings[m] = DefaultSettings
                                  /\ s.signals[m] = signal
    BY <1>1 DEF market, signal
  <2>4. /\ DOMAIN s.markets = DefaultMarkets /\ DOMAIN s.settings = DefaultMarkets
        /\ DOMAIN s.signals = DefaultMarkets
    BY <1>1
  <2>5. \A m \in DOMAIN s.markets : MarketIsWhole(s, m)
    BY <2>1, <2>3, <2>4 DEF MarketIsWhole, MarketKeys
  <2> QED BY <2>1, <2>2, <2>3, <2>4, <2>5, Markets12 DEF Markets
<1>6. WarningsAsOf(s)
  <2>1. <<>> \in Seq({"drift", "other"}) /\ Len(<<>>) = 0
    OBVIOUS
  <2> QED BY <1>1, <2>1, SchemaAssumption DEF WarningsAsOf
<1> QED BY <1>1, <1>3, <1>4, <1>5, <1>6 DEF Current, s

\* A document that no request has touched hides nothing.
LEMMA HidesNothing ==
  ASSUME NEW s, "news_dismissed" \notin DOMAIN Bucket(s), NEW now \in Nat, NEW wrong
  PROVE  Hides(s, now, {}, wrong)
  BY DEF Hides, Dismissals, NoDismissals, Get

LEMMA ResetIsGood ==
  ASSUME NEW now \in Nat, NEW wrong, NEW amount \in Int
  PROVE  LET fresh == [ResetState(InitialAccount) EXCEPT !.top =
                         [account |-> amount, initial_account |-> amount,
                          contracts |-> Filled(DefaultMarkets, Own)]]
         IN  Good(fresh, OwnOf(Bucket(fresh), fresh.settings), now, {}, wrong)
<1> DEFINE s == ResetState(InitialAccount)
           top == [account |-> amount, initial_account |-> amount,
                   contracts |-> Filled(DefaultMarkets, Own)]
           e == [s EXCEPT !.top = top]
<1>1. Current(s) /\ DOMAIN Bucket(s) = UserKeys
  BY ResetIsCurrent
<1>2. /\ IsDocument(e) /\ e.markets = s.markets /\ e.version = s.version /\ e.signals = s.signals
      /\ e.settings = s.settings /\ e.top = top /\ e.warnings = s.warnings /\ e.users = s.users
  BY <1>1, NewTop DEF Current
<1>3. DOMAIN top \subseteq UserKeys /\ BucketAsOf(0, top)
  BY FilledKeys DEF BucketAsOf, UserKeys
<1> HIDE DEF s, top, e
<1>4. Current(e) /\ DOMAIN Bucket(e) = UserKeys
  BY <1>1, <1>2, <1>3 DEF Current, MarketsAsOf, WarningsAsOf, Bucket
<1>5. Hides(e, now, {}, wrong)
  BY <1>4, HidesNothing DEF UserKeys
<1> QED BY <1>4, <1>5 DEF Good, e, s, top
-----------------------------------------------------------------------------
(* What a caller with the lock has loaded.                                   *)

LEMMA TypedFile ==
  ASSUME FileIsGood
  PROVE  file.version \in 0..Version
<1>1. CASE Untouched
  BY <1>1, VersionIs12 DEF Untouched
<1>2. CASE Good(file, owned, today, dismissed, spoiled)
  BY <1>2, VersionIs12 DEF Good, Current
<1> QED BY <1>1, <1>2 DEF FileIsGood

LEMMA LoadedIsGood ==
  ASSUME Types, FileIsGood
  PROVE  Good(Migrate(file), owned, today, dismissed, spoiled)
<1> DEFINE s == Migrate(file)
<1>1. CASE Untouched
  <2>1. file.version \in 0..11 /\ AsOf(file.version, file)
    BY <1>1, VersionIs12 DEF Untouched
  <2>2. /\ Current(s) /\ DOMAIN Bucket(s) = UserKeys
        /\ OwnOf(Bucket(s), s.settings) = OwnAtFirst(file)
    BY <2>1, Migrated
  <2> HIDE DEF s
  <2>3. Hides(s, today, {}, spoiled)
    BY <2>2, HidesNothing DEF Types, UserKeys
  <2>4. Good(s, owned, today, dismissed, spoiled)
    BY <1>1, <2>2, <2>3 DEF Good, Untouched
  <2> QED BY <2>4 DEF s
<1>2. CASE Good(file, owned, today, dismissed, spoiled)
  <2>1. s = file
    BY <1>2, CurrentStays DEF Good, Current
  <2> QED BY <1>2, <2>1
<1> QED BY <1>1, <1>2 DEF FileIsGood

\* What else may have gone wrong does not matter to what is hidden.
LEMMA SameDays ==
  ASSUME NEW s, NEW own, NEW now, NEW gone, NEW wrong, Good(s, own, now, gone, wrong),
         NEW other, "day" \in wrong => "day" \in other
  PROVE  Good(s, own, now, gone, other)
  BY DEF Good, Hides

LEMMA NextDay ==
  ASSUME NEW s, NEW own, NEW now \in Nat, NEW gone, NEW wrong, Good(s, own, now, gone, wrong)
  PROVE  Good(s, own, now + 1, gone, wrong)
<1>1. Hides(s, now, gone, wrong)
  BY DEF Good
<1>2. \A n \in Int : (n \in 0..now => n \in 0..now + 1) /\ (n \in 1..now => n \in 1..now + 1)
  OBVIOUS
<1>3. Hides(s, now + 1, gone, wrong)
  BY <1>1, <1>2 DEF Hides
<1> QED BY <1>3 DEF Good

-----------------------------------------------------------------------------
(* Every step keeps the invariant.                                           *)

LEMMA NoDocIsTyped == NoDoc.version = Version
  BY DEF NoDoc, ResetState

LEMMA InitGood == Init => IInv
<1> SUFFICES ASSUME Init PROVE IInv
  OBVIOUS
<1>1. Types
  <2>1. today \in 1..LastDay /\ saves \in 0..MaxSaves /\ upgraded \in BOOLEAN
    <3>1. upgraded \in BOOLEAN
      BY DEF Init
    <3>2. today = 1 /\ saves = 0
      BY DEF Init
    <3> QED BY <3>1, <3>2, DocumentsAssumption
  <2>2. day \in [Callers -> 1..LastDay] /\ \A c \in Callers : day[c] <= today
    BY DocumentsAssumption DEF Init
  <2>3. phase \in [Callers -> Phases] /\ spoiled \subseteq {"copy", "day"}
    BY DEF Init, Phases
  <2>4. /\ DOMAIN mem = Callers /\ DOMAIN source = Callers
        /\ \A c \in Callers : source[c].version \in 0..Version
    BY NoDocIsTyped, VersionIs12 DEF Init
  <2>5. backup.is \in {"none", "cut", "whole"} /\ backup.of.version \in 0..Version
    BY NoDocIsTyped, VersionIs12 DEF Init, Copy
  <2> QED BY <2>1, <2>2, <2>3, <2>4, <2>5 DEF Types
<1>2. \A c \in Callers : phase[c] = "idle"
  BY DEF Init
<1>3. Locked
  BY <1>2 DEF Locked, Holds, Callers
<1>4. Copied
  BY <1>2 DEF Init, Copied, Copy
<1>5. FileIsGood
  <2>1. CASE file.version \in 0..Version - 1 /\ AsOf(file.version, file)
    <3>1. file.version < Version
      BY <2>1, VersionIs12
    <3>2. owned = OwnAtFirst(file) /\ dismissed = {}
      BY <3>1 DEF Init
    <3> QED BY <2>1, <3>2 DEF FileIsGood, Untouched
  <2>2. CASE file = ResetState(InitialAccount)
    <3>1. Current(file) /\ DOMAIN Bucket(file) = UserKeys /\ file.version = Version
      BY <2>2, ResetIsCurrent
    <3>2. owned = OwnOf(Bucket(file), file.settings) /\ today = 1 /\ dismissed = {}
      BY <3>1, VersionIs12 DEF Init, Bucket
    <3>3. Hides(file, today, {}, spoiled)
      BY <3>1, <3>2, HidesNothing DEF UserKeys
    <3> QED BY <3>1, <3>2, <3>3 DEF FileIsGood, Good
  <2>3. file \in OldDocuments
    BY DEF Init
  <2> QED BY <2>1, <2>2, <2>3, OldDocumentsAssumption
<1> QED BY <1>1, <1>3, <1>4, <1>5 DEF IInv

\* A step that writes nothing.
LEMMA FileStays ==
  ASSUME FileIsGood, file' = file, owned' = owned, dismissed' = dismissed, today' = today,
         "day" \in spoiled => "day" \in spoiled'
  PROVE  FileIsGood'
<1>1. CASE Untouched
  BY <1>1 DEF Untouched, FileIsGood
<1>2. CASE Good(file, owned, today, dismissed, spoiled)
  <2>1. Good(file, owned, today, dismissed, spoiled')
    BY <1>2, SameDays
  <2> QED BY <2>1 DEF FileIsGood
<1> QED BY <1>1, <1>2 DEF FileIsGood

LEMMA NewDayKeeps ==
  ASSUME IInv, NewDay
  PROVE  IInv'
<1> USE DEF NewDay, caller, history
<1>1. Types'
  BY DocumentsAssumption DEF IInv, Types
<1>2. Locked' /\ Copied'
  BY DEF IInv, Locked, Holds, Copied
<1>3. FileIsGood'
  <2>1. CASE Untouched
    BY <2>1 DEF Untouched, FileIsGood
  <2>2. CASE Good(file, owned, today, dismissed, spoiled)
    <3>1. Good(file, owned, today + 1, dismissed, spoiled)
      BY <2>2, NextDay DEF IInv, Types
    <3> QED BY <3>1 DEF FileIsGood
  <2> QED BY <2>1, <2>2 DEF IInv, FileIsGood
<1> QED BY <1>1, <1>2, <1>3 DEF IInv

LEMMA ArriveKeeps ==
  ASSUME IInv, NEW c \in Callers, Arrive(c)
  PROVE  IInv'
<1> USE DEF Arrive, history
<1>1. Types'
  BY DEF IInv, Types, Phases
<1>2. Locked' /\ Copied'
  BY DEF IInv, Types, Locked, Holds, Copied
<1>3. FileIsGood'
  BY FileStays DEF IInv
<1> QED BY <1>1, <1>2, <1>3 DEF IInv

LEMMA LoadKeeps ==
  ASSUME IInv, NEW c \in Callers, Load(c)
  PROVE  IInv'
<1> USE DEF Load, history
<1>1. Types'
  BY DEF IInv, Types, Phases
<1>2. Locked'
  BY DocumentsAssumption DEF IInv, Types, Locked, Holds, MayLoad
<1>3. Copied'
  BY DEF IInv, Types, Copied, Copies, MayLoad
<1>4. FileIsGood'
  BY FileStays DEF IInv
<1> QED BY <1>1, <1>2, <1>3, <1>4 DEF IInv

LEMMA OpenCopyKeeps ==
  ASSUME IInv, NEW c \in Callers, OpenCopy(c)
  PROVE  IInv'
<1> USE DEF OpenCopy, history
<1>1. file.version \in 0..Version
  BY TypedFile DEF IInv
<1>2. Types'
  BY <1>1, NoDocIsTyped, VersionIs12 DEF IInv, Types, Phases, Copy
<1>3. Locked'
  BY DEF IInv, Types, Locked, Holds
<1>4. Copied'
  BY <1>1, VersionIs12 DEF IInv, Types, Copied, Copy
<1>5. FileIsGood'
  BY FileStays DEF IInv
<1> QED BY <1>2, <1>3, <1>4, <1>5 DEF IInv

LEMMA FillCopyKeeps ==
  ASSUME IInv, NEW c \in Callers, FillCopy(c)
  PROVE  IInv'
<1> USE DEF FillCopy, history
<1>1. Types'
  BY NoDocIsTyped, VersionIs12 DEF IInv, Types, Phases, Copy
<1>2. Locked'
  BY DEF IInv, Types, Locked, Holds
<1>3. Copied'
  BY DEF IInv, Types, Copied, Copy
<1>4. FileIsGood'
  BY FileStays DEF IInv
<1> QED BY <1>1, <1>2, <1>3, <1>4 DEF IInv

LEMMA ReturnKeeps ==
  ASSUME IInv, NEW c \in Callers, Return(c)
  PROVE  IInv'
<1> USE DEF Return, Idle, history
<1>1. Types'
  BY NoDocIsTyped, VersionIs12, DocumentsAssumption DEF IInv, Types, Phases
<1>2. Locked'
  BY DEF IInv, Types, Locked, Holds
<1>3. Copied'
  BY DEF IInv, Types, Copied
<1>4. FileIsGood'
  BY FileStays DEF IInv
<1> QED BY <1>1, <1>2, <1>3, <1>4 DEF IInv

LEMMA KillKeeps ==
  ASSUME IInv, NEW c \in Callers, Kill(c)
  PROVE  IInv'
<1> USE DEF Kill, Idle, history
<1>1. Types'
  BY NoDocIsTyped, VersionIs12, DocumentsAssumption DEF IInv, Types, Phases
<1>2. Locked'
  BY DEF IInv, Types, Locked, Holds
<1>3. Copied'
  BY DEF IInv, Types, Copied
<1>4. FileIsGood'
  BY FileStays DEF IInv
<1> QED BY <1>1, <1>2, <1>3, <1>4 DEF IInv

-----------------------------------------------------------------------------
(* Edits.                                                                    *)

\* A caller with the lock has loaded what the file still holds.
LEMMA LoadedUnderLock ==
  ASSUME IInv, NEW c \in Editors, phase[c] = "loaded"
  PROVE  mem[c] = file /\ Good(Loaded(c), owned, today, dismissed, spoiled)
<1>1. mem[c] = file
  BY DEF IInv, Locked, Holds
<1> QED BY <1>1, LoadedIsGood DEF IInv, Loaded

LEMMA WritesKeep ==
  ASSUME IInv, NEW c \in Editors, NEW s, Writes(c, s),
         Good(s, owned', today, dismissed', spoiled'),
         spoiled' = spoiled \/ spoiled' = spoiled \cup {"day"}
  PROVE  IInv'
<1> USE DEF Writes, Idle
<1>1. Types'
  <2>1. c \in Callers
    BY DEF Callers
  <2>2. today' \in 1..LastDay /\ saves' \in 0..MaxSaves /\ upgraded' \in BOOLEAN
    BY VersionIs12, DocumentsAssumption DEF IInv, Types
  <2>3. day' \in [Callers -> 1..LastDay] /\ \A e \in Callers : day'[e] <= today'
    BY <2>1, DocumentsAssumption DEF IInv, Types
  <2>4. phase' \in [Callers -> Phases] /\ spoiled' \subseteq {"copy", "day"}
    BY <2>1 DEF IInv, Types, Phases
  <2>5. /\ DOMAIN mem' = Callers /\ DOMAIN source' = Callers
        /\ \A e \in Callers : source'[e].version \in 0..Version
    BY <2>1, NoDocIsTyped, VersionIs12 DEF IInv, Types
  <2>6. backup'.is \in {"none", "cut", "whole"} /\ backup'.of.version \in 0..Version
    BY DEF IInv, Types
  <2> QED BY <2>2, <2>3, <2>4, <2>5, <2>6 DEF Types
<1>2. Locked'
  BY DEF IInv, Types, Locked, Holds, Callers
<1>3. Copied'
  <2>1. mem[c] = file
    BY LoadedUnderLock
  <2> QED BY <2>1 DEF IInv, Types, Copied, Callers
<1>4. FileIsGood'
  <2>1. Good(Saved(s), owned', today, dismissed', spoiled')
    BY SaveIsGood
  <2> QED BY <2>1 DEF FileIsGood
<1> QED BY <1>1, <1>2, <1>3, <1>4 DEF IInv

LEMMA TradeKeeps ==
  ASSUME IInv, NEW c \in Editors, RecordTrade(c)
  PROVE  IInv'
<1> DEFINE s == Loaded(c)
<1>1. PICK m \in Markets, net \in {14} :
        /\ phase[c] = "loaded" /\ m \in DOMAIN Bucket(s).positions
        /\ Writes(c, Booked(s, m, net))
        /\ owned' = [owned EXCEPT !.account = @ + net, !.trades = Append(@, net),
                                  !.held = {h \in @ : h[1] # m}]
        /\ dismissed' = dismissed /\ spoiled' = spoiled
  BY DEF RecordTrade
<1>2. Good(s, owned, today, dismissed, spoiled)
  BY <1>1, LoadedUnderLock
<1> HIDE DEF s
<1>3. net \in Int
  OBVIOUS
<1>4. Good(Booked(s, m, net), owned', today, dismissed', spoiled')
  BY <1>1, <1>2, <1>3, BookedIsGood
<1> QED BY <1>1, <1>4, WritesKeep

LEMMA EquityKeeps ==
  ASSUME IInv, NEW c \in Editors, UpdateEquityHistory(c)
  PROVE  IInv'
<1> DEFINE s == Loaded(c)
           e == Put(s, "equity_history", Append(Bucket(s).equity_history, Bucket(s).account))
<1>1. /\ Writes(c, e) /\ owned' = [owned EXCEPT !.equity = Append(@, owned.account)]
      /\ dismissed' = dismissed /\ spoiled' = spoiled
  BY DEF UpdateEquityHistory
<1>2. Good(s, owned, today, dismissed, spoiled)
  BY <1>1, LoadedUnderLock DEF Writes
<1> HIDE DEF s
<1>3. Good(e, owned', today, dismissed', spoiled')
  BY <1>1, <1>2, EquityIsGood
<1> HIDE DEF e
<1> QED BY <1>1, <1>3, WritesKeep

\* Edits of the document that the history does not see.
LEMMA ElsewhereKeeps ==
  ASSUME IInv, NEW c \in Editors, NEW s, Writes(c, s), Unchanged,
         Good(s, owned, today, dismissed, spoiled)
  PROVE  IInv'
  BY WritesKeep DEF Unchanged

LEMMA AppendKeeps ==
  ASSUME IInv, NEW c \in Editors, AppendWarning(c)
  PROVE  IInv'
<1> DEFINE s == Loaded(c)
<1>1. PICK from \in {"drift", "other"} :
        Writes(c, [s EXCEPT !.warnings = NewestAnd(@, from)]) /\ Unchanged
  BY DEF AppendWarning
<1> DEFINE w == NewestAnd(s.warnings, from)
           e == [s EXCEPT !.warnings = w]
<1>2. Writes(c, e)
  BY <1>1
<1>3. Good(s, owned, today, dismissed, spoiled)
  BY <1>2, LoadedUnderLock DEF Writes
<1> HIDE DEF s
<1>4. s.warnings \in Seq({"drift", "other"})
  BY <1>3 DEF Good, Current, WarningsAsOf
<1>5. w \in Seq({"drift", "other"}) /\ Len(w) <= MaxWarnings
  BY <1>4, NewestFit
<1> HIDE DEF w
<1>6. Good(e, owned, today, dismissed, spoiled)
  BY <1>3, <1>5, WarnedIsGood
<1> HIDE DEF e
<1> QED BY <1>1, <1>2, <1>6, ElsewhereKeeps

LEMMA ClearKeeps ==
  ASSUME IInv, NEW c \in Editors, ClearDrift(c)
  PROVE  IInv'
<1> DEFINE s == Loaded(c)
           w == Without(s.warnings, "drift")
           e == [s EXCEPT !.warnings = w]
<1>1. Writes(c, e) /\ Unchanged
  BY DEF ClearDrift
<1>2. Good(s, owned, today, dismissed, spoiled)
  BY <1>1, LoadedUnderLock DEF Writes
<1> HIDE DEF s
<1>3. s.warnings \in Seq({"drift", "other"}) /\ Len(s.warnings) <= MaxWarnings
  BY <1>2 DEF Good, Current, WarningsAsOf
<1>4. w \in Seq({"drift", "other"}) /\ Len(w) <= Len(s.warnings)
  BY <1>3, WithoutFits
<1> HIDE DEF w
<1>5. Len(w) <= MaxWarnings
  <2>1. Len(w) \in Nat /\ Len(s.warnings) \in Nat /\ MaxWarnings \in Nat
    BY <1>3, <1>4, SchemaAssumption
  <2> QED BY <1>3, <1>4, <2>1
<1>6. Good(e, owned, today, dismissed, spoiled)
  BY <1>2, <1>4, <1>5, WarnedIsGood
<1> HIDE DEF e
<1> QED BY <1>1, <1>6, ElsewhereKeeps

LEMMA AddKeeps ==
  ASSUME IInv, NEW c \in Editors, AddMarket(c)
  PROVE  IInv'
<1> DEFINE s == Loaded(c)
           market == Filled(MarketKeys, Own)
           signal == Filled({"signal", "strategy_version", "ohlc_window"}, Default)
<1>1. PICK m \in AddedMarkets :
        /\ m \notin DOMAIN s.markets /\ Unchanged
        /\ Writes(c, [s EXCEPT
             !.markets = WithKey(@, m, market),
             !.top = WithKey(@, "positions", WithKey(Get(@, "positions", NoRow), m, NoRow)),
             !.signals = WithKey(@, m, signal), !.settings = WithKey(@, m, DefaultSettings)])
  BY DEF AddMarket
<1> DEFINE positions == WithKey(Get(s.top, "positions", NoRow), m, NoRow)
           top == WithKey(s.top, "positions", positions)
           e == [s EXCEPT !.markets = WithKey(@, m, market), !.top = top,
                          !.signals = WithKey(@, m, signal),
                          !.settings = WithKey(@, m, DefaultSettings)]
<1>2. Writes(c, e)
  BY <1>1
<1>3. Good(s, owned, today, dismissed, spoiled)
  BY <1>2, LoadedUnderLock DEF Writes
<1>4. /\ DOMAIN market = MarketKeys /\ IsDict(signal) /\ "strategy_version" \in DOMAIN signal
  BY FilledKeys DEF IsDict
<1> HIDE DEF s, market, signal, positions
<1>5. DOMAIN top \subseteq UserKeys /\ BucketAsOf(0, top)
  <2>1. DOMAIN s.top \subseteq UserKeys /\ BucketAsOf(0, s.top)
    BY <1>3 DEF Good, Current
  <2>2. /\ DOMAIN top = DOMAIN s.top \cup {"positions"}
        /\ \A k \in DOMAIN s.top \ {"positions"} : top[k] = s.top[k]
    BY DEF WithKey, Merged
  <2> HIDE DEF top
  <2> QED BY <2>1, <2>2 DEF BucketAsOf, UserKeys
<1> HIDE DEF top
<1>6. m \notin DOMAIN s.markets
  BY <1>1
<1>7. Good(e, owned, today, dismissed, spoiled)
  BY <1>3, <1>4, <1>5, <1>6, AddedIsGood
<1> HIDE DEF e
<1> QED BY <1>1, <1>2, <1>7, ElsewhereKeeps

LEMMA WithKeyKeeps ==
  ASSUME NEW map, NEW key, NEW value
  PROVE  DOMAIN map \subseteq DOMAIN WithKey(map, key, value)
  BY DEF WithKey, Merged

LEMMA PatchKeeps ==
  ASSUME IInv, NEW c \in Editors, UpdateMarket(c)
  PROVE  IInv'
<1> DEFINE s == Loaded(c)
<1>1. PICK m \in Markets, key \in MarketKeys, value \in {Own, Null} :
        /\ m \in DOMAIN s.markets /\ Unchanged
        /\ Writes(c, [s EXCEPT !.markets[m] = WithKey(@, key, value)])
  BY DEF UpdateMarket
<1> DEFINE market == WithKey(s.markets[m], key, value)
           e == [s EXCEPT !.markets = [@ EXCEPT ![m] = market]]
<1>2. Writes(c, e)
  BY <1>1
<1>3. Good(s, owned, today, dismissed, spoiled)
  BY <1>2, LoadedUnderLock DEF Writes
<1>4. m \in DOMAIN s.markets /\ DOMAIN s.markets[m] \subseteq DOMAIN market
  BY <1>1, WithKeyKeeps
<1> HIDE DEF s, market
<1>5. Good(e, owned, today, dismissed, spoiled)
  BY <1>3, <1>4, PatchedIsGood
<1> HIDE DEF e
<1> QED BY <1>1, <1>2, <1>5, ElsewhereKeeps

LEMMA SettingsKeep ==
  ASSUME IInv, NEW c \in Editors, SaveSettings(c)
  PROVE  IInv'
<1> DEFINE s == Loaded(c)
<1>1. PICK m \in Markets, typed \in BOOLEAN :
        /\ m \in DOMAIN s.markets
        /\ Writes(c, [s EXCEPT
             !.settings = WithKey(@, m, Filled(SettingKeys, Own)),
             !.markets[m] = IF typed THEN WithKey(@, "contract_type", Own) ELSE @])
        /\ owned' = [owned EXCEPT !.settings = @ \cup {<<m, k>> : k \in SettingKeys}]
        /\ dismissed' = dismissed /\ spoiled' = spoiled
  BY DEF SaveSettings
<1> DEFINE market == IF typed THEN WithKey(s.markets[m], "contract_type", Own) ELSE s.markets[m]
           settings == WithKey(s.settings, m, Filled(SettingKeys, Own))
           all == owned.settings \cup {<<m, k>> : k \in SettingKeys}
           e == [s EXCEPT !.settings = settings, !.markets[m] = market]
<1>2. Writes(c, e)
  BY <1>1
<1>3. Good(s, owned, today, dismissed, spoiled)
  BY <1>2, LoadedUnderLock DEF Writes
<1>4. m \in DOMAIN s.markets /\ DOMAIN s.markets[m] \subseteq DOMAIN market
  BY <1>1, WithKeyKeeps
<1>5. owned' = [owned EXCEPT !.settings = all] /\ dismissed' = dismissed /\ spoiled' = spoiled
  BY <1>1
<1> HIDE DEF s, market
<1>6. Good(e, owned', today, dismissed', spoiled')
  <2>1. /\ settings = WithKey(s.settings, m, Filled(SettingKeys, Own))
        /\ all = owned.settings \cup {<<m, k>> : k \in SettingKeys}
    OBVIOUS
  <2> HIDE DEF settings, all
  <2>2. Good(e, [owned EXCEPT !.settings = all], today, dismissed, spoiled)
    BY <1>3, <1>4, <2>1, TableIsGood
  <2> QED BY <1>5, <2>2
<1> HIDE DEF e
<1> QED BY <1>1, <1>2, <1>6, WritesKeep

LEMMA BalanceKeeps ==
  ASSUME IInv, NEW c \in Editors, SaveAccountBalance(c)
  PROVE  IInv'
<1> DEFINE s == Loaded(c)
           amount == InitialAccount + 50
           e == [s EXCEPT !.top = Merged([account |-> amount, initial_account |-> amount], @)]
<1>1. Writes(c, e) /\ Unchanged
  BY DEF SaveAccountBalance, Unchanged
<1>2. Good(s, owned, today, dismissed, spoiled)
  BY <1>1, LoadedUnderLock DEF Writes
<1>3. amount \in Int
  BY SchemaAssumption
<1> HIDE DEF s, amount
<1>4. Good(e, owned, today, dismissed, spoiled)
  BY <1>2, <1>3, BalanceIsGood
<1> HIDE DEF e
<1> QED BY <1>1, <1>4, ElsewhereKeeps

LEMMA ResetKeeps ==
  ASSUME IInv, NEW c \in Editors, HandleReset(c)
  PROVE  IInv'
<1> DEFINE amount == InitialAccount + 70
           fresh == [ResetState(InitialAccount) EXCEPT !.top =
                      [account |-> amount, initial_account |-> amount,
                       contracts |-> Filled(DefaultMarkets, Own)]]
<1>1. /\ Writes(c, fresh) /\ owned' = OwnOf(Bucket(fresh), fresh.settings)
      /\ dismissed' = {} /\ spoiled' = spoiled
  BY DEF HandleReset
<1>2. amount \in Int /\ today \in Nat
  BY SchemaAssumption, DocumentsAssumption DEF IInv, Types
<1> HIDE DEF amount
<1>3. Good(fresh, OwnOf(Bucket(fresh), fresh.settings), today, {}, spoiled)
  BY <1>2, ResetIsGood
<1> HIDE DEF fresh
<1>4. Good(fresh, owned', today, dismissed', spoiled')
  BY <1>1, <1>3
<1> QED BY <1>1, <1>4, WritesKeep

LEMMA EmailKeeps ==
  ASSUME IInv, NEW c \in Editors, PatchEmailPrefs(c)
  PROVE  IInv'
<1> DEFINE s == Loaded(c)
<1>1. PICK on \in BOOLEAN :
        /\ Writes(c, Put(s, "email_enabled", on)) /\ owned' = [owned EXCEPT !.email = on]
        /\ dismissed' = dismissed /\ spoiled' = spoiled
  BY DEF PatchEmailPrefs
<1>2. Good(s, owned, today, dismissed, spoiled)
  BY <1>1, LoadedUnderLock DEF Writes
<1> HIDE DEF s
<1>3. Good(Put(s, "email_enabled", on), owned', today, dismissed', spoiled')
  BY <1>1, <1>2, EmailIsGood
<1> QED BY <1>1, <1>3, WritesKeep

LEMMA CollapseKeeps ==
  ASSUME IInv, NEW c \in Editors, ToggleCollapse(c)
  PROVE  IInv'
<1> DEFINE s == Loaded(c)
           e == Put(s, "news_panel_collapsed", ~Get(Bucket(s), "news_panel_collapsed", FALSE))
<1>1. /\ Writes(c, e) /\ owned' = [owned EXCEPT !.collapsed = ~@]
      /\ dismissed' = dismissed /\ spoiled' = spoiled
  BY DEF ToggleCollapse
<1>2. Good(s, owned, today, dismissed, spoiled)
  BY <1>1, LoadedUnderLock DEF Writes
<1> HIDE DEF s
<1>3. Good(e, owned', today, dismissed', spoiled')
  BY <1>1, <1>2, CollapseIsGood
<1> HIDE DEF e
<1> QED BY <1>1, <1>3, WritesKeep

LEMMA DismissKeeps ==
  ASSUME IInv, NEW c \in Editors, DismissHeadline(c)
  PROVE  IInv'
<1> DEFINE s == Loaded(c)
           on == day[c]
           kept == KeptHashes(Dismissals(s), on)
<1>1. PICK h \in Headlines :
        LET takes == h \in kept \/ Cardinality(kept) < MaxHashes
        IN  /\ Writes(c, Put(s, "news_dismissed",
                             [date |-> on, hashes |-> IF takes THEN kept \cup {h} ELSE kept]))
            /\ dismissed' = IF takes THEN dismissed \cup {<<h, on>>} ELSE dismissed
            /\ spoiled' = IF on < today THEN spoiled \cup {"day"} ELSE spoiled
            /\ owned' = owned
  BY DEF DismissHeadline
<1> DEFINE takes == h \in kept \/ Cardinality(kept) < MaxHashes
           e == Put(s, "news_dismissed",
                    [date |-> on, hashes |-> IF takes THEN kept \cup {h} ELSE kept])
<1>2. Writes(c, e)
  BY <1>1
<1>3. Good(s, owned, today, dismissed, spoiled)
  BY <1>2, LoadedUnderLock DEF Writes
<1>4. today \in Nat /\ on \in 1..today
  BY DocumentsAssumption DEF IInv, Types, Callers
<1>5. takes \in BOOLEAN /\ (takes = FALSE => h \notin kept)
  OBVIOUS
<1>6. /\ dismissed' = IF takes THEN dismissed \cup {<<h, on>>} ELSE dismissed
      /\ spoiled' = IF on < today THEN spoiled \cup {"day"} ELSE spoiled
      /\ owned' = owned
  BY <1>1
<1> HIDE DEF s, on, takes
<1>7. Good(e, owned, today, IF takes THEN dismissed \cup {<<h, on>>} ELSE dismissed,
           IF on < today THEN spoiled \cup {"day"} ELSE spoiled)
  BY <1>3, <1>4, <1>5, DismissedIsGood
<1> HIDE DEF e
<1>8. Good(e, owned', today, dismissed', spoiled')
  BY <1>6, <1>7
<1>9. spoiled' = spoiled \/ spoiled' = spoiled \cup {"day"}
  BY <1>6
<1> QED BY <1>2, <1>8, <1>9, WritesKeep

LEMMA StepGood == IInv /\ [Next]_vars => IInv'
<1> SUFFICES ASSUME IInv, [Next]_vars PROVE IInv'
  OBVIOUS
<1>1. CASE NewDay
  BY <1>1, NewDayKeeps
<1>2. ASSUME NEW c \in Callers,
             Arrive(c) \/ Load(c) \/ OpenCopy(c) \/ FillCopy(c) \/ Return(c) \/ Kill(c)
      PROVE  IInv'
  BY <1>2, ArriveKeeps, LoadKeeps, OpenCopyKeeps, FillCopyKeeps, ReturnKeeps, KillKeeps
<1>3. ASSUME NEW c \in Editors, Edit(c) PROVE IInv'
  BY <1>3, TradeKeeps, EquityKeeps, AppendKeeps, ClearKeeps, AddKeeps, PatchKeeps, SettingsKeep,
     BalanceKeeps, ResetKeeps, EmailKeeps, CollapseKeeps, DismissKeeps DEF Edit
<1>4. CASE UNCHANGED vars
  <2> USE <1>4 DEF vars
  <2>1. Types' /\ Locked' /\ Copied'
    BY DEF IInv, Types, Locked, Holds, Copied
  <2>2. FileIsGood'
    BY FileStays DEF IInv
  <2> QED BY <2>1, <2>2 DEF IInv
<1> QED BY <1>1, <1>2, <1>3, <1>4 DEF Next

-----------------------------------------------------------------------------
(* What the invariant says of the installation.                              *)

LEMMA Invariant == Spec => []IInv
  BY InitGood, StepGood, PTL DEF Spec

LEMMA MigratedFile ==
  ASSUME IInv
  PROVE  /\ Current(Migrate(file)) /\ Hides(Migrate(file), today, dismissed, spoiled)
         /\ OwnOf(Bucket(Migrate(file)), Migrate(file).settings) = owned
  BY LoadedIsGood DEF IInv, Good

\* The fields of the document, the copy and the callers keep their types, no
\* two editors are past the lock at once, and append_warning keeps the list
\* within MAX_WARNINGS (state_manager/core.py, trades.py).
THEOREM DocumentsTypeCorrect == Spec => []TypeOK
<1>1. IInv => TypeOK
  <2> SUFFICES ASSUME IInv PROVE TypeOK
    OBVIOUS
  <2>1. file.version \in 0..Version
    BY TypedFile DEF IInv
  <2>2. /\ DOMAIN file.top \subseteq UserKeys /\ DOMAIN file.markets \subseteq Markets
        /\ DOMAIN file.users \subseteq {Admin} /\ Len(file.warnings) <= MaxWarnings
    <3>1. CASE Untouched
      BY <3>1, NoRowIsEmpty DEF Untouched, AsOf, MarketsAsOf, WarningsAsOf
    <3>2. CASE Good(file, owned, today, dismissed, spoiled)
      BY <3>2 DEF Good, Current, MarketsAsOf, WarningsAsOf
    <3> QED BY <3>1, <3>2 DEF IInv, FileIsGood
  <2>3. Cardinality({c \in Editors : phase[c] \in {"copy", "copying", "loaded"}}) <= 1
    <3> DEFINE holders == {c \in Editors : phase[c] \in {"copy", "copying", "loaded"}}
    <3>1. CASE holders = {}
      BY <3>1, FS_EmptySet
    <3>2. CASE holders # {}
      <4>1. PICK e \in holders : TRUE
        BY <3>2
      <4>2. holders = {e}
        BY <4>1 DEF IInv, Locked, Holds
      <4>3. Cardinality({e}) = 1
        BY FS_Singleton
      <4> QED BY <4>2, <4>3
    <3> QED BY <3>1, <3>2
  <2> QED BY <2>1, <2>2, <2>3 DEF IInv, Types, TypeOK
<1> QED BY <1>1, Invariant, PTL

\* Whatever version state.json came from and whatever was edited since, a load
\* finds exactly what the admin owned (_migrate and the mutators).
THEOREM NothingOwnedIsLost == Spec => []KeptThroughUpgrade
<1>1. IInv => KeptThroughUpgrade
  BY MigratedFile DEF KeptThroughUpgrade
<1> QED BY <1>1, Invariant, PTL

\* A loaded document has every key that its readers take for granted: the
\* signal, settings and entry of each market, and the rows of the bucket
\* (the readers of load_state index them without asking).
THEOREM KeysAreThere == Spec => []ReadersFindTheirKeys
<1>1. IInv => ReadersFindTheirKeys
  <2> SUFFICES ASSUME IInv PROVE ReadersFindTheirKeys
    OBVIOUS
  <2> DEFINE s == Migrate(file)
  <2>1. Current(s)
    BY MigratedFile
  <2> HIDE DEF s
  <2>2. MarketsAsOf(Version, s)
    BY <2>1 DEF Current
  <2>3. ASSUME NEW m \in DOMAIN s.markets
        PROVE  /\ m \in DOMAIN s.signals /\ "strategy_version" \in DOMAIN s.signals[m]
               /\ m \in DOMAIN s.settings /\ SettingKeys \subseteq DOMAIN s.settings[m]
               /\ MarketKeys \subseteq DOMAIN s.markets[m]
    BY <2>2, Markets12 DEF MarketIsWhole, MarketKeys
  <2>4. /\ UserKeys \subseteq DOMAIN Bucket(s)
        /\ \A m \in DOMAIN Bucket(s).positions :
             Bucket(s).positions[m] # NoRow => "manual_stop" \in DOMAIN Bucket(s).positions[m]
        /\ \A i \in DOMAIN Bucket(s).paper_trades :
             "last_alert_state" \in DOMAIN Bucket(s).paper_trades[i]
    BY <2>1, InTheBucket
  <2> QED BY <2>3, <2>4 DEF ReadersFindTheirKeys, s
<1> QED BY <1>1, Invariant, PTL

\* Each step of _migrate may run again on what it made, whatever the older
\* document holds ("Idempotent", migrations.py).
THEOREM MigrationsAreIdempotent == Spec => []MigrationsMayRepeat
<1>1. IInv => MigrationsMayRepeat
  <2> SUFFICES ASSUME IInv, NEW v \in 2..Version, v > file.version
               PROVE  Migration(v, Migration(v, MigrateTo(v - 1, file)))
                        = Migration(v, MigrateTo(v - 1, file))
    BY DEF MigrationsMayRepeat
  <2>1. CASE Untouched
    <3>1. v \in 2..12 /\ v - 1 \in 1..11 /\ file.version \in 0..11 /\ file.version <= v - 1
      BY <2>1, VersionIs12 DEF Untouched
    <3>2. AsOf(v - 1, MigrateTo(v - 1, file))
      BY <2>1, <3>1, OnTheWay DEF Untouched
    <3> QED BY <3>1, <3>2, StepsRepeat
  <2>2. CASE Good(file, owned, today, dismissed, spoiled)
    BY <2>2, VersionIs12 DEF Good, Current
  <2> QED BY <2>1, <2>2 DEF IInv, FileIsGood
<1> QED BY <1>1, Invariant, PTL

\* An older document that is written over has been copied, or is being copied,
\* but for the two ways in which the copy is spoiled (load_state).
THEOREM TheCopyIsThere == Spec => []UpgradeLeavesACopy
<1>1. IInv => UpgradeLeavesACopy
  BY DEF IInv, Types, Copied, UpgradeLeavesACopy
<1> QED BY <1>1, Invariant, PTL

\* Only a null for the multiplier or the cost of an added market keeps a
\* document from being loaded (_resolved_contracts).
THEOREM OnlyANullStopsALoad == Spec => []LoadsUnlessNull
<1>1. IInv => LoadsUnlessNull
  <2> SUFFICES ASSUME IInv,
                      \A m \in DOMAIN file.markets \ DefaultMarkets, key \in PriceKeys :
                        Get(file.markets[m], key, Own) # Null
               PROVE  Loads(file)
    BY DEF LoadsUnlessNull
  <2> DEFINE s == Migrate(file)
  <2>1. Current(s)
    BY MigratedFile
  <2>2. NoNulls(s)
    <3>1. NoNulls(file)
      BY DEF NoNulls
    <3>2. CASE Untouched
      <4>1. file.version \in 0..11 /\ AsOf(file.version, file)
        BY <3>2, VersionIs12 DEF Untouched
      <4> QED BY <3>1, <4>1, Migrated
    <3>3. CASE Good(file, owned, today, dismissed, spoiled)
      BY <3>1, <3>3, CurrentStays DEF Good, Current
    <3> QED BY <3>2, <3>3 DEF IInv, FileIsGood
  <2> HIDE DEF s
  <2>3. \A m \in DOMAIN s.markets : PriceKeys \subseteq DOMAIN s.markets[m]
    BY <2>1, Markets12 DEF Current, MarketIsWhole, MarketKeys
  <2>4. \A m \in DOMAIN s.markets \ DefaultMarkets, key \in PriceKeys :
          Get(s.markets[m], key, Default) # Null
    BY <2>2, <2>3 DEF NoNulls, Get
  <2>5. DefaultMarkets \subseteq DOMAIN Get(Get(s.users, Admin, NoRow), "contracts", NoRow)
    <3>1. "contracts" \in DOMAIN Bucket(s) /\ Admin \in DOMAIN s.users
      BY <2>1 DEF Current, UserKeys
    <3> QED BY <2>1, <3>1, InTheBucket DEF Bucket, Get
  <2> QED BY <2>4, <2>5 DEF Loads, s
<1> QED BY <1>1, Invariant, PTL

\* The panel hides what was dismissed today and keeps it hidden today, but for
\* a request that is written after midnight (dismiss_headline).
THEOREM HiddenIsOfToday == Spec => []HiddenToday
<1>1. IInv => HiddenToday
  <2> SUFFICES ASSUME IInv PROVE HiddenToday
    OBVIOUS
  <2> DEFINE b == Dismissals(Migrate(file))
  <2>1. /\ b.date \in 0..today /\ today \in Nat
        /\ \A h \in b.hashes : <<h, b.date>> \in dismissed
        /\ "day" \notin spoiled =>
             \A p \in dismissed : p[2] < b.date \/ (p[2] = b.date /\ p[1] \in b.hashes)
    BY MigratedFile, DocumentsAssumption DEF Hides, IInv, Types
  <2> HIDE DEF b
  <2>2. ASSUME "day" \notin spoiled, NEW h, <<h, today>> \in dismissed
        PROVE  b.date = today /\ h \in b.hashes
    <3>1. today < b.date \/ (today = b.date /\ h \in b.hashes)
      BY <2>1, <2>2
    <3> QED BY <2>1, <3>1
  <2> QED BY <2>1, <2>2 DEF HiddenToday, b
<1> QED BY <1>1, Invariant, PTL
=============================================================================
