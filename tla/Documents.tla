----------------------------- MODULE Documents ------------------------------
(***************************************************************************)
(* An installation that is upgraded while it runs: state.json begins as a  *)
(* document of some older version, every load migrates it in memory and    *)
(* leaves a copy of the old file beside it, and the first locked edit      *)
(* writes it back as version 12.  Requests and the daily run edit what     *)
(* belongs to the admin, the market registry and the warnings.             *)
(* StateFile has the lock, the replacement of the file and its repair;     *)
(* here they are one step each.                                            *)
(***************************************************************************)
EXTENDS Schema, FiniteSets

CONSTANTS
  Editors,        \* callers of mutate_state
  Readers,        \* callers of load_state, which take no lock
  Headlines,      \* of one market's news panel
  MaxHashes,      \* _MAX_DISMISSED_HASHES
  OldDocuments,   \* what state.json may be when version 12 is installed
  MaxSaves,       \* bound: edits written
  LastDay         \* bound: days

ASSUME DocumentsAssumption ==
  /\ MaxHashes \in Nat /\ MaxSaves \in Nat /\ LastDay \in Nat \ {0}
  /\ Editors \cap Readers = {}

\* state.json is what a program of its version left, or there is none yet.
ASSUME OldDocumentsAssumption ==
  \A d \in OldDocuments :
    \/ d.version \in 0..Version - 1 /\ AsOf(d.version, d)
    \/ d = ResetState(InitialAccount)

Callers == Editors \cup Readers

VARIABLES
  file,           \* state.json
  backup,         \* state.json.v11-backup-<day>
  today,
  phase,          \* of a caller
  day,            \* the date a request read before it had the lock
  mem,            \* the document a caller has loaded
  source,         \* the file an unfinished copy reads, which keeps its inode
  saves,          \* bound
  owned,          \* history: what the admin owns
  dismissed,      \* history: headlines dismissed, each with its day
  upgraded,       \* history: an older document was written back
  spoiled         \* history: what went wrong for the copy or a dismissal

vars == <<file, backup, today, phase, day, mem, source, saves,
          owned, dismissed, upgraded, spoiled>>

caller == <<phase, day, mem, source>>
history == <<owned, dismissed, upgraded>>

Phases == {"idle", "asked", "copy", "copying", "loaded"}

\* A document in memory nobody has, and one of no file.
NoDoc == ResetState(InitialAccount)

\* The copy: not there, not finished, or of a document.
Copy(is, of) == [is |-> is, of |-> of]

\* What of a user's bucket is the user's own: values no step made up.
OwnKeys(row) == {k \in DOMAIN row : row[k] = Own}
OwnPairs(rows) == UNION {{<<m, k>> : k \in OwnKeys(rows[m])} : m \in DOMAIN rows}
OwnOf(bucket, settings) ==
  [account |-> bucket.account,
   settings |-> OwnPairs(settings),
   held |-> OwnPairs(bucket.positions),
   labels |-> OwnKeys(bucket.contracts),
   trades |-> bucket.trade_log,
   equity |-> bucket.equity_history,
   paper |-> [i \in DOMAIN bucket.paper_trades |-> OwnKeys(bucket.paper_trades[i])],
   email |-> Get(bucket, "email_enabled", TRUE),
   collapsed |-> Get(bucket, "news_panel_collapsed", FALSE)]

\* An old document keeps a user's things at the top level.
BucketAtFirst(d) ==
  [k \in UserKeys |->
     IF k \in DOMAIN d.top THEN Quantised(k, d.top[k]) ELSE NoDoc.users[Admin][k]]
OwnAtFirst(d) == OwnOf(BucketAtFirst(d), d.settings)

TypeOK ==
  /\ file.version \in 0..Version /\ DOMAIN file.top \subseteq UserKeys
  /\ DOMAIN file.markets \subseteq Markets /\ DOMAIN file.users \subseteq {Admin}
  /\ Len(file.warnings) <= MaxWarnings
  /\ backup.is \in {"none", "cut", "whole"} /\ backup.of.version \in 0..Version
  /\ today \in 1..LastDay /\ day \in [Callers -> 1..LastDay]
  /\ phase \in [Callers -> Phases]
  /\ Cardinality({c \in Editors : phase[c] \in {"copy", "copying", "loaded"}}) <= 1
  /\ saves \in 0..MaxSaves /\ upgraded \in BOOLEAN
  /\ spoiled \subseteq {"copy", "day"}

Init ==
  /\ file \in OldDocuments
  /\ backup = Copy("none", NoDoc) /\ today = 1 /\ saves = 0
  /\ phase = [c \in Callers |-> "idle"] /\ day = [c \in Callers |-> 1]
  /\ mem = [c \in Callers |-> NoDoc] /\ source = [c \in Callers |-> NoDoc]
  /\ owned = IF file.version < Version THEN OwnAtFirst(file)
             ELSE OwnOf(file.users[Admin], file.settings)
  /\ dismissed = {} /\ upgraded = FALSE /\ spoiled = {}

-----------------------------------------------------------------------------
(* Loading.                                                                 *)

\* A request that edits reads the date; then it waits for the lock.
Arrive(c) ==
  /\ c \in Editors /\ phase[c] = "idle" /\ saves < MaxSaves
  /\ phase' = [phase EXCEPT ![c] = "asked"] /\ day' = [day EXCEPT ![c] = today]
  /\ UNCHANGED <<file, backup, today, mem, source, saves, history, spoiled>>

\* A reader takes no lock; an editor waits until no other has it.
MayLoad(c) ==
  IF c \in Readers THEN phase[c] = "idle"
  ELSE phase[c] = "asked" /\ \A e \in Editors : phase[e] \in {"idle", "asked"}

\* Mutant: no copy of an older file.
NeverCopies(d) == FALSE

\* An older file, and no copy of that name yet.
Copies(d) == d.version < Version /\ backup.is = "none"

\* load_state up to the test of the copy.
Load(c) ==
  /\ MayLoad(c)
  /\ mem' = [mem EXCEPT ![c] = file]
  /\ phase' = [phase EXCEPT ![c] = IF Copies(file) THEN "copy" ELSE "loaded"]
  /\ UNCHANGED <<file, backup, today, day, source, saves, history, spoiled>>

\* copy2 opens what state.json is by now and empties the copy ...
OpenCopy(c) ==
  /\ phase[c] = "copy"
  /\ source' = [source EXCEPT ![c] = file]
  /\ backup' = Copy("cut", NoDoc)
  /\ phase' = [phase EXCEPT ![c] = "copying"]
  /\ spoiled' = IF file.version = Version THEN spoiled \cup {"copy"} ELSE spoiled
  /\ UNCHANGED <<file, today, day, mem, saves, history>>

\* ... and fills it.
FillCopy(c) ==
  /\ phase[c] = "copying"
  /\ backup' = Copy("whole", source[c])
  /\ source' = [source EXCEPT ![c] = NoDoc]
  /\ phase' = [phase EXCEPT ![c] = "loaded"]
  /\ UNCHANGED <<file, today, day, mem, saves, history, spoiled>>

Idle(c) ==
  /\ phase' = [phase EXCEPT ![c] = "idle"] /\ day' = [day EXCEPT ![c] = 1]
  /\ mem' = [mem EXCEPT ![c] = NoDoc] /\ source' = [source EXCEPT ![c] = NoDoc]

\* A reader has its document, or the load raised.
Return(c) ==
  /\ phase[c] = "loaded" /\ (c \in Readers \/ ~Loads(mem[c]))
  /\ Idle(c)
  /\ UNCHANGED <<file, backup, today, saves, history, spoiled>>

\* A kill at any point; the lock goes with the process.
Kill(c) ==
  /\ phase[c] # "idle"
  /\ spoiled' = IF phase[c] = "copying" THEN spoiled \cup {"copy"} ELSE spoiled
  /\ Idle(c)
  /\ UNCHANGED <<file, backup, today, saves, history>>

NewDay ==
  /\ today < LastDay /\ today' = today + 1
  /\ UNCHANGED <<file, backup, caller, saves, history, spoiled>>

-----------------------------------------------------------------------------
(* Editing: the mutator, the save and the release of the lock.              *)

Loaded(c) == Migrate(mem[c])

Writes(c, s) ==
  /\ c \in Editors /\ phase[c] = "loaded" /\ Loads(mem[c]) /\ saves < MaxSaves
  /\ file' = Saved(s)
  /\ upgraded' = (upgraded \/ file.version < Version)
  /\ saves' = saves + 1
  /\ Idle(c)
  /\ UNCHANGED <<backup, today>>

\* _admin_user, and a user's keys by setdefault.
Bucket(s) == s.users[Admin]
WithKey(map, key, value) == Merged([k \in {key} |-> value], map)
Put(s, key, value) == [s EXCEPT !.users[Admin] = WithKey(@, key, value)]

Unchanged == UNCHANGED <<owned, dismissed, spoiled>>

\* Mutant: the trade is booked where version 11 kept the account.
BookedAtTop(s, m, net) ==
  [s EXCEPT !.top = WithKey(@, "account", Bucket(s).account + net),
            !.users[Admin] = WithKey(WithKey(@, "trade_log", Append(@.trade_log, net)),
                                     "positions", WithKey(@.positions, m, NoRow))]

\* record_trade: the account, the log and the position go together.
Booked(s, m, net) ==
  LET after == [Bucket(s) EXCEPT !.account = @ + net, !.trade_log = Append(@, net),
                                 !.positions[m] = NoRow]
  IN  [s EXCEPT !.users[Admin] = after]

\* _validate_trade takes instruments the user has a key for.
RecordTrade(c) ==
  \E m \in Markets, net \in {14} :
    LET s == Loaded(c) IN
    /\ c \in Editors /\ phase[c] = "loaded"
    /\ m \in DOMAIN Bucket(s).positions /\ Bucket(s).positions[m] # NoRow
    /\ Writes(c, Booked(s, m, net))
    /\ owned' = [owned EXCEPT !.account = @ + net, !.trades = Append(@, net),
                              !.held = {h \in @ : h[1] # m}]
    /\ UNCHANGED <<dismissed, spoiled>>

UpdateEquityHistory(c) ==
  LET s == Loaded(c)
      equity == Bucket(s).account
  IN  /\ Writes(c, Put(s, "equity_history", Append(Bucket(s).equity_history, equity)))
      /\ owned' = [owned EXCEPT !.equity = Append(@, owned.account)]
      /\ UNCHANGED <<dismissed, spoiled>>

\* append_warning: the newest, and this one.
NewestAnd(warnings, from) ==
  LET kept == {i \in DOMAIN warnings : i > Len(warnings) - (MaxWarnings - 1)}
  IN  Append(SubSeq(warnings, Len(warnings) - Cardinality(kept) + 1, Len(warnings)), from)

AppendWarning(c) ==
  \E from \in {"drift", "other"} :
    LET s == Loaded(c)
    IN  Writes(c, [s EXCEPT !.warnings = NewestAnd(@, from)]) /\ Unchanged

\* [w for w in warnings if w.get('source') != source]
Without(warnings, from) ==
  LET kept[n \in 0..Len(warnings)] ==
        IF n = 0 THEN <<>>
        ELSE IF warnings[n] = from THEN kept[n - 1] ELSE Append(kept[n - 1], warnings[n])
  IN  kept[Len(warnings)]

\* clear_warnings_by_source
ClearDrift(c) ==
  LET s == Loaded(c)
  IN  /\ s.warnings # <<>>
      /\ Writes(c, [s EXCEPT !.warnings = Without(@, "drift")]) /\ Unchanged

\* POST /markets; the position key goes to the top level.
AddMarket(c) ==
  \E m \in AddedMarkets :
    LET s == Loaded(c) IN
    /\ m \notin DOMAIN s.markets
    /\ Writes(c, [s EXCEPT
         !.markets = WithKey(@, m, Filled(MarketKeys, Own)),
         !.top = WithKey(@, "positions", WithKey(Get(@, "positions", NoRow), m, NoRow)),
         !.signals = WithKey(@, m, Filled({"signal", "strategy_version", "ohlc_window"}, Default)),
         !.settings = WithKey(@, m, DefaultSettings)])
    /\ Unchanged

\* PATCH /markets/<m>: the keys that were sent, a null as well as a value.
UpdateMarket(c) ==
  \E m \in Markets, key \in MarketKeys, value \in {Own, Null} :
    LET s == Loaded(c) IN
    /\ m \in DOMAIN s.markets
    /\ Writes(c, [s EXCEPT !.markets[m] = WithKey(@, key, value)])
    /\ Unchanged

\* PATCH /markets/<m>/settings: all settings, and the type when it is sent.
SaveSettings(c) ==
  \E m \in Markets, typed \in BOOLEAN :
    LET s == Loaded(c) IN
    /\ m \in DOMAIN s.markets
    /\ Writes(c, [s EXCEPT
         !.settings = WithKey(@, m, Filled(SettingKeys, Own)),
         !.markets[m] = IF typed THEN WithKey(@, "contract_type", Own) ELSE @])
    /\ owned' = [owned EXCEPT !.settings = @ \cup {<<m, k>> : k \in SettingKeys}]
    /\ UNCHANGED <<dismissed, spoiled>>

\* PATCH /account/balance
SaveAccountBalance(c) ==
  LET s == Loaded(c)
      amount == InitialAccount + 50
  IN  /\ Writes(c, [s EXCEPT !.top = Merged([account |-> amount, initial_account |-> amount], @)])
      /\ UNCHANGED <<owned, dismissed, spoiled>>

\* --reset, once the operator has typed YES: a fresh document, with the
\* answers at its top level.
HandleReset(c) ==
  LET amount == InitialAccount + 70
      fresh == [ResetState(InitialAccount) EXCEPT !.top =
                  [account |-> amount, initial_account |-> amount,
                   contracts |-> Filled(DefaultMarkets, Own)]]
  IN  /\ Writes(c, fresh)
      /\ owned' = OwnOf(Bucket(fresh), fresh.settings)
      /\ dismissed' = {}
      /\ UNCHANGED spoiled

PatchEmailPrefs(c) ==
  \E on \in BOOLEAN :
    /\ Writes(c, Put(Loaded(c), "email_enabled", on))
    /\ owned' = [owned EXCEPT !.email = on]
    /\ UNCHANGED <<dismissed, spoiled>>

ToggleCollapse(c) ==
  LET s == Loaded(c)
  IN  /\ Writes(c, Put(s, "news_panel_collapsed", ~Get(Bucket(s), "news_panel_collapsed", FALSE)))
      /\ owned' = [owned EXCEPT !.collapsed = ~@]
      /\ UNCHANGED <<dismissed, spoiled>>

NoDismissals == [date |-> 0, hashes |-> {}]
Dismissals(s) == Get(Bucket(s), "news_dismissed", NoDismissals)

\* Mutant: a new day keeps the headlines of the old one.
AgedHashes(b, d) == b.hashes

\* A list of another day starts again.
KeptHashes(b, d) == IF b.date = d THEN b.hashes ELSE {}

\* POST /news/<m>/dismiss/<hash>
DismissHeadline(c) ==
  \E h \in Headlines :
    LET s == Loaded(c)
        kept == KeptHashes(Dismissals(s), day[c])
        takes == h \in kept \/ Cardinality(kept) < MaxHashes
    IN  /\ Writes(c, Put(s, "news_dismissed",
                         [date |-> day[c], hashes |-> IF takes THEN kept \cup {h} ELSE kept]))
        /\ dismissed' = IF takes THEN dismissed \cup {<<h, day[c]>>} ELSE dismissed
        /\ spoiled' = IF day[c] < today THEN spoiled \cup {"day"} ELSE spoiled
        /\ UNCHANGED owned

Edit(c) ==
  \/ RecordTrade(c) \/ UpdateEquityHistory(c) \/ AppendWarning(c) \/ ClearDrift(c)
  \/ AddMarket(c) \/ UpdateMarket(c) \/ SaveSettings(c) \/ SaveAccountBalance(c)
  \/ HandleReset(c) \/ PatchEmailPrefs(c) \/ ToggleCollapse(c) \/ DismissHeadline(c)

Next ==
  \/ NewDay
  \/ \E c \in Callers :
       Arrive(c) \/ Load(c) \/ OpenCopy(c) \/ FillCopy(c) \/ Return(c) \/ Kill(c)
  \/ \E c \in Editors : Edit(c)

Spec == Init /\ [][Next]_vars
-----------------------------------------------------------------------------
(* What the installation promises.                                          *)

\* Whatever version it came from, a load finds what the admin owned: the
\* balance, the positions with their stops, the trades, the equity, the paper
\* trades, the preferences and the settings, with every edit since and no other.
KeptThroughUpgrade == OwnOf(Bucket(Migrate(file)), Migrate(file).settings) = owned

\* A loaded document has every key that the code reads without asking: of a
\* signal, the settings and the registry entry of each market, the bucket of
\* the admin, and the rows that an older version wrote into it.
ReadersFindTheirKeys ==
  LET s == Migrate(file) IN
  /\ \A m \in DOMAIN s.markets :
       /\ m \in DOMAIN s.signals /\ "strategy_version" \in DOMAIN s.signals[m]
       /\ m \in DOMAIN s.settings /\ SettingKeys \subseteq DOMAIN s.settings[m]
       /\ MarketKeys \subseteq DOMAIN s.markets[m]
  /\ UserKeys \subseteq DOMAIN Bucket(s)
  /\ \A m \in DOMAIN Bucket(s).positions :
       Bucket(s).positions[m] # NoRow => "manual_stop" \in DOMAIN Bucket(s).positions[m]
  /\ \A i \in DOMAIN Bucket(s).paper_trades :
       "last_alert_state" \in DOMAIN Bucket(s).paper_trades[i]

\* Each migration may run again on what it made ("Idempotent" in each of their
\* docstrings): the one of the money does at every save.
MigrationsMayRepeat ==
  \A v \in 2..Version :
    LET once == Migration(v, MigrateTo(v - 1, file))
    IN  v > file.version => Migration(v, once) = once

\* Once an older document is overwritten, its copy is there or being filled,
\* unless a caller decided to copy before that and opened the file after it,
\* or was killed while it copied.
UpgradeLeavesACopy ==
  upgraded /\ "copy" \notin spoiled =>
    \/ backup.is = "whole" /\ backup.of.version < Version
    \/ \E c \in Callers : phase[c] = "copying" /\ source[c].version < Version

\* A document can be loaded until a market that the operator added is given a
\* null for its multiplier or its cost (which PATCH /markets/<m> accepts).
LoadsUnlessNull ==
  (\A m \in DOMAIN file.markets \ DefaultMarkets, key \in PriceKeys :
     Get(file.markets[m], key, Own) # Null) => Loads(file)

\* What the page hides was dismissed today, and stays hidden today, unless a
\* request of the day before was written after midnight or the list was full.
HiddenToday ==
  LET b == Dismissals(Migrate(file))
      hidden == IF b.date = today THEN b.hashes ELSE {}
  IN  /\ \A h \in hidden : <<h, today>> \in dismissed
      /\ "day" \notin spoiled => \A h \in Headlines : <<h, today>> \in dismissed => h \in hidden
=============================================================================
