# Trading signals: a TLA+ model of the program

The repository is a small trading assistant. Once a day a process fetches a
daily bar per market, computes a signal, trades a paper account by it and mails
the result to the operator and to a few invited users; beside it a web service
shows the state and lets them open, close and edit positions by hand. There is
no database: everything both processes know is in `state.json` and, for
identities, `auth.json`, each rewritten as a whole at every change.

What is hard here is therefore what two processes, several request threads and
the power switch do to a file, what a slow daily run does to a document that
others edit while it works, and what is left when a step of a long sequence
fails. That is what is modelled, checked and proved.

The directory holds

| kind | files |
| --- | --- |
| models | `StateFile`, `PaperTrades`, `PositionEngine`, `Backtest`, `DailyRun`, `AuthStore`, `SignIn`, `Cycle`, `Processes`, `PriceFeed`, `NewsFeed`, `Feeds`, `Schema`, `Documents` |
| abstract specification | `AtomicStore` |
| instances for TLC | `MC*.tla`, one `.cfg` per run |
| proofs | `StateFileProofs`, `PaperTradesProofs`, `EngineProofs` (of `PositionEngine` and `Backtest`), `DailyRunProofs`, `SignInProofs`, `CycleProofs`, `FeedsProofs`, `DocumentsProofs` (of `Schema` and `Documents`) |
| index | `PROJECT.json`: components, runs, mutants, the source lines of each definition, findings, hazards, theorems |

To check: `tlc -config StateFile_one_user.cfg MCStateFile`,
`tlapm StateFileProofs.tla`, and so on for the others.

## Inventory

Paths are relative to `src/`.

### State store: `state_manager/__init__.py`, `state_manager/io.py`

*State*: the file `state.json`, its siblings (temporary files, quarantined
`state.json.corrupt.*`), the advisory lock on the file's inode, a lock file per
user id (`state/users/{uid}.lock`), a thread-local flag against re-entry.
*Operations*: `load_state` (unlocked; on a file that does not parse it renames
the file and writes a fresh document), `save_state` (locked), `mutate_state`
(lock, load, apply, replace, unlock), `mutate_user_state` (the user's lock file
around it). A save writes a temporary file, fsyncs it, renames it over the path
and fsyncs the directory.
*Used by*: every other component, from both processes.
*Hard*: the rename changes the inode that the lock is on; recovery runs in
readers without the lock; a crash between any two system calls.
*Correct if*: an acknowledged change is never lost, a reader always finds a
whole document, recovery moves only corrupt files, and every call returns.

### Documents: `state_manager/{__init__,migrations,validation,trades}.py`, `web/routes/{markets,news,dashboard}`, `interactive.py`

*State*: the shape of `state.json`: its schema version, the keys of its rows,
the copy of an older file that the first upgrade leaves beside it.
*Operations*: eleven migrations at every load until somebody saves, validation,
rounding at a save, record helpers, market and account settings, dismissed
headlines, mail preferences, `--reset`.
*Hard*: each migration must compose with the others and may run again; keys
move from the top level into a user's bucket; readers copy the old file without
a lock; requests read the date before they wait for the lock.
*Correct if*: what a user owned is still there after an upgrade, readers find
the keys they take for granted, the old file is not lost, loads do not raise.

### Paper-trade ledger and stop alerts: `web/routes/paper_trades/`, `paper_trade_alerts.py`, `alert_engine.py`

*State*: rows with an id, a status, a stop and the last alert state; the bar of
the day.
*Operations*: open, edit, close and delete over HTTP; once a day the evaluator
reads the rows, works out which alerts to send, mails them and then commits the
alert states.
*Hard*: the evaluator holds rows from before the mail while requests change
them; the mail may fail; the commit may fail; ids are made from counts.
*Correct if*: ids tell rows apart but for a day that lost a row in the middle,
what is stored as told was told unless a request came between, a hit stop is
told in the end, the outcome of a closed trade never changes.

### Sizing engine, manual trades and backtest: `sizing_engine/`, `state_manager/trades.py`, `web/routes/trades/`, `signal_engine.py`, `backtest/simulator.py`

*State*: per market one position (side, entry, contracts, pyramid level, peak or
trough, entry ATR, manual stop), the account, the log, the signal, drift
warnings, the strategy settings that each run reads again; of a backtest the
same for its own replay.
*Operations*: `step` (exit, pyramid, entry, in that order), the handlers
open/close/modify, the saving of settings, `record_trade`, `detect_drift`; the
vote `get_signal`; `simulate`, with a vote and a bookkeeping of its own.
*Hard*: the same bar may be stepped again; settings change under a position
that is held; manual stop and trailing stop interact; pyramiding and forced
exits meet in one step; web trades do not know the engine's invariants; one
strategy is written down twice.
*Correct if*: only a saved setting loosens the stop, entries fit the risk
budget, levels are earned, warnings are true, a backtest and a live run of the
same bars agree.

### Daily run and its saves: `main.py`, `daily_run.py`, `daily_run_helpers.py`, `crash_boundary.py`, `daily_loop.py`, `state_actions.py`

*State*: the run's copy of the document and its deep copy from the start.
*Operations*: load without the lock, step each market, save #1 (replay of the
keys that changed), push, mail, save #2 (warnings).
*Hard*: minutes pass between the load and save #1; what comes in between over
the web is overwritten or kept by rules of each key; the process may be killed
anywhere and is restarted with an immediate rerun.
*Correct if*: account and log agree, other users are untouched, and closed
positions stay closed, booked trades booked, edits and markets in place, but
for requests that came between the load and the save that replays over them.

### Cycle: `per_user_fanout.py`, `scheduler_driver.py`, `crash_boundary.py`, `notifier/{transport,dispatch,crash_path}.py`

*State*: `last_cycle` in the document, `last_crash.json`, the queue of a
fan-out with its semaphore and its outcomes.
*Operations*: a run of the daemon or of the command line; the mails of its
users, each with retries; the record of the cycle or of its crash; the crash
report.
*Hard*: the guard against a second fan-out reads a document in memory; mails go
out before the record is written; an answer of the mail service may be lost
after it took the mail; two processes may run at once.
*Correct if*: a user is mailed by one run of a day, the record tells what
happened, it is not set back, a fan-out ends.

### Feeds: `data_fetcher.py`, `news_fetcher.py`, `news_filter.py`

*State*: a session with IG, the label of a symbol's last source; a cache file
of headlines per market in two formats.
*Operations*: `fetch_ohlcv` (session, prices, one renewal after a 403, retries,
fallback to Yahoo), `fetch_news`, `refresh_news_cache`, `has_critical_event`.
*Hard*: a retry loop that gives an attempt back; two writers of one file, one of
which forgets the date; failures that must neither open the gate nor lose the
last good headlines.
*Correct if*: a fallback is never silent, the gate opens only on headlines of
the day, the file holds what the service said, a run ends.

### Identities: `auth_store/`, `web/middleware/`, `web/routes/{login,totp,reset,invite,devices,admin}`

*State*: `auth.json` (the TOTP secret, trusted devices, reset links,
invitations, users), signed cookies.
*Operations*: helpers that load, edit and save the whole document, without a
lock but for `consume_and_create_user`; the requests that call them.
*Hard*: every helper overlaps every other; the lock of a consume is on an inode
that any save orphans; protocols of several requests (a wizard, an enrolment, a
reset) over a store that can be taken back under them.
*Correct if*: an invitation makes one user, a link lets one click in, a revoked
device stays revoked, an enrolled secret was verified, a user that was created
stays; or else it is known exactly which overlap can break it.

### Not modelled

| part | why |
| --- | --- |
| money arithmetic, `pnl_engine.py` | decimal rounding of one number, no state; prices and costs of the models are integers |
| indicators, `signal_engine.py` but for the vote | floating-point series; the indicators of a bar are inputs |
| backtest report, combined curve, parquet cache, its pages | pure computation and files nobody else writes |
| dashboard, `dashboard_renderer/`, `notifier/templates*.py`, read-only routes | text and HTML without state; their readers are callers of `StateFile` |
| parameters, `system_params.py`, deployment, scripts | constants, taken as CONSTANTS; one web worker and one daemon are assumed; the mail about an old backup is a script of its own |

`web/routes/totp.py` is never imported: the package `web/routes/totp/` has the
same name and wins.

### How they interact

```
 requests (threads of one process)              daily process (daemon, command line)
   trades, paper_trades, markets, news   run_daily_check -> step per market
        |                                     |        |  \-> prices, news gate (Feeds)
        |  mutate_(user_)state                |        v
        |                            load_state,  save #1, alert commit,
        v                            save #2, last_cycle:  mutate_state
   +---------------- state.json (StateFile, Documents) ------+
        ^ load_state by every page and by /api/state
 login, invites, devices --> auth.json (AuthStore) <-- fan-out (list of users)
```

The processes share nothing but files. In the web process handlers run on a
pool of threads (the paper-trade handlers on the event loop), so two of them can
be in `mutate_user_state`, or in a helper of `auth_store`, at once; a daily
process is one thread but for the fan-out's mails, which do not write.

## The models

`PROJECT.json` names the source lines of each definition. The correspondence in
words:

### StateFile, AtomicStore

`path` is the inode the name `state.json` is bound to, `content` what an inode
holds, `synced` the inodes whose data an fsync has put on disk, `onDisk` the
bindings of the name that a power cut may leave, `flock` the holder of each
inode's lock, `userLock` the holder of each `state/users/{uid}.lock`. Callers
(`Writers` with `UidOf`, `Readers`) make `MaxOps` calls each, one system call
per action, in the order of the code:

| code | actions |
| --- | --- |
| `mutate_user_state`: open and flock the user's lock file | `BeginMutate`, `LockUser`, `UnlockUser` |
| `mutate_state`: open (creating), flock, close | `OpenState`, `AcquireFlock`, `Unlock` |
| `load_state` (bare, or under the lock) | `BeginLoad`, `CheckExists`, `ReadFile`, `BackupCorrupt` |
| the mutator | `Mutate`, or `MutatorRaises` |
| `_atomic_write_unlocked` | `StageTemp`, `ReplaceFile`, `FsyncDir`, or `SaveFails` |
| a kill, a power cut | `Crash`, `PowerCut` |

A document is the set of mutations it contains, which is all that a lost update
is about, and whether it says that it was recovered. A mutation is acknowledged
from the fsync of the directory on, the last call that can fail.

`AtomicStore` is what a caller is promised: a set of mutations that grows one
mutation at a time and loses none that was acknowledged. `StoreIsAtomic` is the
refinement, with the store mapped to `Published`, the mutations in the file that
the path leads to.

Abstractions: a document parses or not (what a load makes of one that parses is
`Documents`); where the quarantined file goes is not kept; an inode that nothing
refers to is used again, so a few stand for all.

### Schema, Documents

`Schema` holds documents of any version and the eleven migrations as operators
`V2` to `V12`. `Step` is one turn of `_migrate`'s loop, or none for a version the
document has already, and `MigrateTo` is the loop as far as some version.
`Loads` is whether `load_state` returns, which a null among a market's
`PriceKeys` (`multiplier`, `cost_aud`) prevents. `AsOf`, at the end, says what a program of some version left, from the field list of its
migrations: it is the assumption on the first file, and what the proofs carry
from step to step.
A row (of a signal, a position, a paper trade, a market, its settings) is a
function from the keys it has to who set their values: the program's default,
the owner, or a null. Money is counted in tenths of a cent, so that the rounding
of `V9`, which a save repeats, is visible.

`Documents` is an installation that begins with a file of some older version.
`Arrive` is a request reading the date before it waits for the lock; `Load` is a
load with its test for the copy of the old file, `OpenCopy` and `FillCopy` the
two halves of `copy2`, `Return` what a reader or a failed load does, `Kill` the
end of a caller anywhere. Each edit (`RecordTrade`, `UpdateEquityHistory`,
`AppendWarning`, `ClearDrift`, `AddMarket`, `UpdateMarket`, `SaveSettings`,
`SaveAccountBalance`, `HandleReset`, `PatchEmailPrefs`, `ToggleCollapse`,
`DismissHeadline`) is one step, since `StateFile` says what the lock is worth.
`owned` follows what the admin has by the meaning of the edits, apart from the
document that stores it. The number of edits is bounded where a request arrives
and where it writes.

Abstractions: the copy has one name (the code's name has the date in it, so a
second day makes another copy); the read of the file and the test for the copy
are one step; one bucket, the admin's; the values of paper trades are not kept,
so their rounding is not either.

### PaperTrades

One user's rows, as records that carry the order of their opening (`serial`),
and an id of instrument, day and counter. `Open`, `Edit`, `Delete`, `Close` are
single actions because each is one `mutate_user_state`, and `StateFile` says
what that is worth. The evaluator is three actions with every handler possible
in between: `Evaluate` (on the document that the daily save returned),
`SendAlerts` (one mail, which arrives or not), `CommitAlerts` (by id, to
whatever has that id then); `EvaluatorFails` is its death or a failed commit.
`FirstMatch` is the handlers' `matches[0]`.

`Delete` is possible on the day of opening, as in the code, and then the number
of a row may be given a second time. `gapped` names the days on which that can
happen (an instrument lost a row, but not its last), `overtaken` the rows that
were edited, or opened under an id, while a transition of that id was pending,
`told` the mails about rows as they stand; the properties speak of all rows and
except exactly those.

Prices are small integers; of a closed row the model keeps that it is closed
and when, not the cents of its profit.

### PositionEngine

One market of one user. A run's turn is `RunFlat`, `RunExit`, `RunHold` (by what
`step` does with the position it finds) or `RunGated`, built from the parts of
the sizing engine (`Updated`, `ExitReason`, `PyramidAdds`, `PositionSize`,
`RecordTrade`); `ClearWarnings` is what the mail's save does to the warning. The
handlers are `OpenTrade`, `AddTrade`, `CloseTrade`, `ModifyTrade`,
`DeleteLogEntry`. `NextBar` moves the feed, and until it does a bar may be
stepped again, as a rerun, a restart or a holiday does it. `SaveSettings` is
`PATCH /markets/settings`, which changes the multipliers of the trailing stop,
the risk, the contract cap and the one-contract floor while a position is held;
`settings` is what the next run reads. The contract's multiplier and the cost
are constants, though `PATCH /markets/{id}` can change them: the properties of
the engine are about single steps and hold with either value, and a backtest is
given one value of each. Runs and requests are atomic here; that
they are not is `DailyRun`'s subject.

### Backtest

`Backtest` extends `PositionEngine` by `replay`, the locals of `simulate`. The
code replays a finished history; here `ReplayBar` takes each bar before the feed
moves on, which is the same fold. The vote is modelled twice, as the code has it
twice: `GetSignal` for the live run, `ExtractedSignal` for the backtest, over
the `Reading` of a bar (its ADX and three momentums, each of them possibly not
yet a number). So is the cost of a trade: the live run charges half of it at the
close through `record_trade`, the backtest in `RealisedPnl`.

The two can be compared as long as the live side steps every bar once and
nobody trades by hand or saves other settings; `StepBar`, `ByHand` and `BarEnds` set the replay to `Over`
when that ends. `BacktestAgrees` then says that position, account and trades are
the same. The theorem needs the market to trade both directions: `simulate` does
not read `direction_mode`.

### DailyRun

The composition: what `PositionEngine` decides in a run is one of the outcomes
that the held side and the signal leave, and the question is what of it
survives. `Load` takes the copy and the baseline; `StepMarket` and `GateMarket`
work on the copy; `Save` replays the copy's changes onto the current document,
key by key (`Replayed`); `PushState`, `SendMail` and `Flush` (or `FlushOnce`,
`EndTest`, by the mode) follow; `Abort` is a typed failure of a fetch, `Die` a
kill anywhere. Requests arrive at every point of a run.

What comes between the load and save #1 may be overwritten by the replay, and it
is. `BucketAtRisk` and `SignalsAtRisk` are the phases in which the run holds a
copy that it has yet to write; `racedCloses`, `racedEdits` and `late` are the
closes, stop edits and markets that came then. The properties speak of all
others, and `LostUpdateRaceClosed` of these: it is what a comment of the code
says, and it is violated.

Abstractions, each with what it hides:

* a position is a serial number, its side, the day its peak was last moved and
  whether its stop was edited. Pyramid adds, which change contract counts only,
  are left out;
* a signal is told by its direction and day; an account is how often each serial
  was credited (so no trade nets exactly zero), the log how often it is listed;
* warnings are a set, so the bound of 50 on their list is not modelled here
  (`Documents` has it), and a drift warning carries no day, since only its
  source decides about it;
* `equity_history` (written by the run only) and the enabled switch of a market
  are left out; the day changes between runs only; there is one run at a time
  (two of them are in `Cycle`); what a mail shows, and the mail of a `--test`
  run, change nothing;
* a fresh document may have no market: it then stands for one whose default
  markets the model does not look at.

### Cycle

`Procs` are the daemon and what is started from the command line, each of the
kinds (`loop`, `once`, `force`, `test`) that `Kinds` allows. A turn goes from
`check` (the daily check, which saves, fails or crashes: `Saved`, `Tested`,
`CheckFails`, `Crashes`) over `cycle` to `sending`, or over `report`
(`ReportCrash`) to its end; who catches an exception depends on the kind
(`Escapes`). `FanOut` is the guard on `last_cycle` and the list of users,
`Begin` a task that got a slot of the semaphore, `Request` one request to the
mail service with one of four answers, `Record` the write of the cycle,
`RecordCrash` that of a fan-out that raised. `PatchEmailPrefs` and `PatchUser`
are the web's edits, `Kill` ends a process at any step, `NextDay` moves the
date, also while a run is under way.

`got` and `excused` are histories: the mails that arrived, and the days on which
two runs met between save #1 and the record (or one met the check of a run of
another day), one was killed while it mailed, or no record could be written.

Abstractions: the operator's mail, save #2, the guard and the listing of users
are one step, as are the record and the summary mailed after it; preferences
are a switch and a day until which mails are paused; weekend days do nothing.

### PriceFeed, NewsFeed, Feeds

`Processes` only declares the processes that both feeds belong to. `PriceFeed`
is one fetch: `OpenSession`, `AskPrices`, `RenewSession`, `AskYahoo`, each a
request and the reading of its answer, with `tries`, `renewed` and the label
`source` as the code has them. `NewsFeed` is the cache file and the sequences of
`fetch_news` (`LookInCache`, `AskNews`, `WriteNews`) and `refresh_news_cache`
(`ReadResult`, `ReadPrior`, `ReplaceCache`); its two formats are the file with a
date (`Envelope`) and without (`Payload`). `Feeds` is a market's part of a run
over both: prices, the warning of a fallback, the gate, the refresh of the loop.

`said` numbers the answers of the news service; a file or a result in hand
carries the number it came from and whether midnight or another process came
between, which is what the properties compare.

Abstractions: one market; prices, waiting times and headers are left out; what
makes a headline critical is a constant set; a process's environment does not
change; processes are not killed inside a fetch (the file is replaced
atomically, so a kill is a failure to replace it).

### AuthStore, SignIn

A helper of `auth_store` is a `Load` and, some time later, a `Save` (or `Skip`,
when the row it looks for is not there) of the whole document by a thread; in
between any other thread may do the same. `Normalise` is the write-back of a
document of version 1, `LoadGarbage` and `Quarantine` the renaming of a broken
file, which may hit another thread's good one. `consume_and_create_user` is
`Open`, `Lock`, `Scan`, `Consume` or `Refuse`: its lock is on the inode it
opened, while every replacement binds the path to a new one (`NewInode`).

`SignIn` is the requests: `Handled` is what a handler makes of the document it
looked at (the helper calls, cookies, a page that shows a secret, a mail),
`Admitted` what the middleware and the cookies let through, `Start`, `Decide`
and `Reply` the beginning, the look and the answer of a request. `Restart` drops
all threads at once, `Tick` moves the clock of links and invitations.

Several of the properties are false of this store in general: a helper that
loaded before another saved takes that save back. Histories name what was taken
back, thing by thing. `behind[t]` is what others did since the thread's copy was
loaded and the copy lacks (`Missed`: a device or a link that was withdrawn, an
invitation that was accepted, another secret); `overtaken` is what a write of
such a copy took back, or the renaming of a good file. `disturbed` are the
invitations with a foreign write between the open and the replacement of a
consume, and `stale` the threads that others overtook. So a device that is let
in again after its revocation is in `overtaken`, and `RevokedStaysRevoked` says
that this, a helper that read it unrevoked and wrote after, is the only way: the
`last_seen` bump of any request of that device is one such helper. `LinkUsedOnce`
and `EnrolledWasVerified` are of that kind too, and hold of every link and secret
that no overlap took back, whatever other overlaps there were.

Abstractions: passwords and codes that are wrong change nothing and are left
out, so are attempt counters and the expiry of cookies; a code is right if the
authenticator has the secret on file; a load's `exists` and read are one step.

## The runs

Each finishes in under three minutes; two of them are counterexamples.

| run | question | instance |
| --- | --- | --- |
| `one_user` | does the file protocol give one user's writers an atomic durable store, and readers whole documents? | two writers, one reader, two operations each, kills and power cuts |
| `recovery` | does recovery from a corrupt file lose anything, or leave a call waiting? | two writers, a corrupt file at the start, kills and power cuts, fairness |
| `lost_update` (violated) | are writers of different users serialised by the file lock? | two writers of two users |
| `paper_ledger` | do rows, ids, alerts and closings stay in step with each other and with the mails? | three rows opened, two at a time, over two days, two kinds of bar or none, deletes on any day, failing mails and commits, fairness |
| `engine_alone` | what does the engine guarantee when only it trades, and does a backtest agree with it? | four bars out of eight kinds, reruns, news gate, stop edits, settings with and without cap and floor, beside a replay |
| `engine_operator` | what is left of it beside manual trades? | three bars, all handlers, settings that widen the stop of one side and narrow the other's |
| `run_any_time` | what holds of runs beside requests that come at any point? | two days, two runs in any of three modes, a market added, two positions, kills |
| `run_race` (violated) | does save #1 close the race against the web? | one day, two runs, two positions |
| `accounts` | what can overlapping requests take back from each other? | three requests of any route on two threads, five starting situations, restarts, a clock whose one step outlasts every lifetime |
| `cycle` | who is mailed how often, and does the record tell it? | the daemon and a command line, two runs, two days, two users (one without a bucket), one slot, two requests per mail, one kill or edit anywhere, fairness |
| `feeds` | what may prices, gate and cache be trusted for? | the daemon with a key for IG and a command line without, two runs, two days, every answer of both services, two attempts each, fairness |
| `upgrade` | what of an old document survives an upgrade under load? | every version from 0 to 12, with positions and signal rows or with neither (bare ints); one editor with two edits of any kind, one reader, kills, a midnight |

The properties, by what they guard against:

* *StateFile*: `StoreIsAtomic`, `AcknowledgedSurvive` (an operation whose call
  returned is in the document ever after), `NoGoodFileQuarantined`,
  `EveryCallReturns`.
* *PaperTrades*: `UniqueIds`, `StoredAlertsWereTold` (a stored HIT or
  APPROACHING has been mailed), `ClosedOutcomesFrozen`, `HitIsReported`.
* *PositionEngine*: `LevelsAreEarned`, `EntriesWithinBudget`,
  `DriftWarningsAreTrue`, `StopOnlyTightens`. *Backtest*: `BacktestAgrees`.
* *DailyRun*: `AccountMatchesLog`, without reservation; `NoZombies`,
  `WebTradesAreBooked` and `EveryMarketHasASignal`, of all but the requests that
  a save may overwrite; `LostUpdateRaceClosed`, of those too (violated).
* *AuthStore*, *SignIn*: `OneUserPerInvite`, which holds without reservation, as
  the user and the mark of its invitation are one write; `SingleUse`,
  `LinkUsedOnce`, `AcceptedUserExists`, `EnrolledWasVerified` and
  `RevokedStaysRevoked`, each of the invitations, links, users, secrets and
  devices that no overlap of the kind it names took back.
* *Cycle*: `OneRunMails`, `RecordIsTrue`, `RecordMovesForward`, `FanOutEnds`.
* *Feeds*: `RenewalIsUsed` (a 403 costs no attempt, and a renewed session is
  used), `NoSilentFallback`, `GateFailsClosed`, `CacheIsTrue`, `AskedOncePerRun`,
  `LastGoodIsKept`, `RunEnds`.
* *Documents*: `KeptThroughUpgrade` (what the admin owns after a migration is
  `owned`), `ReadersFindTheirKeys`, `MigrationsMayRepeat`, `UpgradeLeavesACopy`,
  `LoadsUnlessNull`, `HiddenToday`.

Each property has a mutant in `PROJECT.json`: a definition of its module
replaced by a slightly wrong one (a missing fsync, a lock nobody waits for, an
id counter that starts again, a slot that is not given back) with which the same
run fails.

### Why the bounds are enough

*StateFile*: the anomalies the protocol can have need a holder, a waiter with
the old inode and, for the lost update, a third opener: two writers with two
operations each give that, as `lost_update` shows by finding it. An inode is in
use while the path, a binding that a power cut may bring back, a descriptor or a
temporary file refers to it; unused ones are taken again, and the six or seven
of the instances never run out (checked as an invariant when they were chosen).
*PaperTrades*: id reuse needs two rows, a delete of the first and a third open,
an alert race one row and a second day. *PositionEngine*, *Backtest*: three add levels need three
favourable bars, and a fourth to exit; eight kinds of bar hold each sign of gap,
range and signal, and two settings each direction of a change. *DailyRun*: a
zombie needs one position, a booking two (the old one and its replacement), an
older document a run before, hence two runs; a second user is touched by no step
of a run, which is proved (`OtherUsersAreKept`). *SignIn*: every overlap that breaks a property is
one of two requests (a third makes the situation for them, or the five starts
do), so two threads and three requests; one step of the clock makes every link
and invitation expire, at any point of an overlap. *Cycle*: a second mail needs a second
run, a set-back record a second day, a starved task a slot less than users.
*Feeds*: the interesting 403 is that of the last of two attempts; a file lives
through one midnight and one other process; two answers tell the newer from the
older. *Documents*: a migration reads only what one before it left, so one
document per version covers the chain; two edits put one on top of a document
that another has upgraded. Beyond these numbers the proofs below take over.

### Fairness

Four runs assume it. In `recovery` a caller that stays able to take a step of
its call takes one (weak fairness per caller): threads are scheduled. A kill
ends a call too, but nothing makes it happen. Nobody has to make another call,
and nothing is assumed about the order in which the kernel serves waiters. In
`paper_ledger` the evaluator is started again and again and goes through its
phases (weak fairness of each), as the scheduler and the code's sequence do, and
of infinitely many mails tried some arrive (strong fairness of the successful
send); its commit may fail every time. In `cycle` and `feeds` a process that
runs goes on running (weak fairness of its steps): every request has a timeout,
so an answer or an error comes; which one is never assumed. Starts of runs,
handlers, kills and midnights are never fair: nobody has to press a button.

`CHECK_DEADLOCK FALSE` stands in the runs of `Cycle`, `Feeds` and `Documents`,
which stop when the runs or edits of the instance are used up.

## What is proved

TLAPS proves the following for every value of the constants that satisfies the
modules' assumptions, not just for the instances above.

| module | theorem | says | under |
| --- | --- | --- | --- |
| `StateFileProofs` | `TypeCorrect` | types | |
| | `ReadersAlwaysFindADocument` | `PublishedFileParses` | a good file at the start |
| | `NothingGoodIsQuarantined` | `NoGoodFileQuarantined` | the same |
| | `OneUserLosesNothing` | `AcknowledgedSurvive` | one user's writers; a good file at the start, or no bare reader |
| | `RecoveryMovesOnlyCorrupt` | `NoGoodFileQuarantined` | the same |
| | `OneUserStoreIsAtomic` | refinement of `AtomicStore` | the same |
| `PaperTradesProofs` | `LedgerTypeCorrect` | types | |
| | `ClosedTradesAreSafe` | `ClosedOutcomesFrozen` | |
| | `IdsAreUnique` | `UniqueIds` | |
| | `StoredAlertsAreHonest` | `StoredAlertsWereTold` | |
| `EngineProofs` | `EngineTypeCorrect` | types | |
| | `StopNeverLoosens` | `StopOnlyTightens` | |
| | `WarningsAreTrue` | `DriftWarningsAreTrue` | |
| | `RunsLeaveNoDrift` | `RunLeavesNoDrift` | |
| | `EntriesFitBudget` | `EntriesWithinBudget` | |
| | `EngineLevelsAreEarned` | `LevelsAreEarned` | no operator trades |
| | `BacktestsAgree` | `BacktestAgrees` | a market that trades both directions |
| | `BacktestKeepsEngine` | refinement of `PositionEngine` | |
| `DailyRunProofs` | `DailyRunTypeCorrect` | types | |
| | `BooksStayMatched` | `AccountMatchesLog` | |
| | `OtherUsersAreKept` | `OthersAreKept` | |
| | `ClosedStaysClosed`, `WebTradesStay`, `EditsStay` | `NoZombies`, `WebTradesAreBooked`, `EditsStick` | |
| | `MarketsKeepSignals` | `EveryMarketHasASignal` | |
| `SignInProofs` | `SignInTypeCorrect` | types | |
| | `SignInOneUserPerInvite` | `OneUserPerInvite` | |
| | `SignInSingleUse`, `SignInLinkUsedOnce`, `SignInAcceptedUserExists`, `SignInEnrolledWasVerified`, `SignInRevokedStaysRevoked` | the property of that name | |
| `CycleProofs` | `CycleTypeCorrect` | types | |
| | `CycleMailsOnce`, `CycleRecordIsTrue`, `CycleMovesForward` | `OneRunMails`, `RecordIsTrue`, `RecordMovesForward` | |
| `FeedsProofs` | `FeedsTypeCorrect` | types | |
| | `FeedsLabelIsTrue` | `LabelIsTrue` | |
| | `FeedsRenewalIsUsed`, `FeedsNoSilentFallback`, `FeedsCacheIsTrue`, `FeedsAskedOncePerRun`, `FeedsLastGoodIsKept`, `FeedsGateFailsClosed` | the property of that name | |
| `DocumentsProofs` | `DocumentsTypeCorrect` | types, one editor past the lock | an older file as its program left it |
| | `NothingOwnedIsLost` | `KeptThroughUpgrade` | the same |
| | `KeysAreThere` | `ReadersFindTheirKeys` | the same |
| | `MigrationsAreIdempotent` | `MigrationsMayRepeat` | the same |
| | `TheCopyIsThere`, `OnlyANullStopsALoad`, `HiddenIsOfToday` | `UpgradeLeavesACopy`, `LoadsUnlessNull`, `HiddenToday` | the same |

What a property excepts (a raced close, a row of a day with a gap, a device in
`overtaken`) is in its statement; the last column lists assumptions beyond that.
`PublishedFileParses`, `RunLeavesNoDrift`, `OthersAreKept`, `EditsStick`,
`LabelIsTrue` and the types have no run of their own; TLC checked them before
they were proved.

How the arguments go:

* *StateFile*. `GoodInv`: whatever the path or the disk's name may lead to is a
  synced, whole document, because only synced temporary files are ever renamed
  onto it; so no reader finds it corrupt and nothing is quarantined. `AcksInv`
  does not need it: the user's lock file admits one writer to the section, so
  the inode's lock does not matter. What this writer holds (`Working`) is the
  published document with at most its own mutation added, where a corrupt or
  missing file counts as the empty one (`Applied`); what it is about to move away
  does not parse; and everything acknowledged is in all bindings that a power cut
  may leave, each of which is synced or does not parse. So a step of the file is
  an `Apply`, `Ack` or `Revert` of the store, or nothing of it, also while a
  corrupt file is replaced. Readers are excluded there since one that recovers
  takes no user lock; with a good file `GoodInv` shows that none ever does.
* *PaperTrades*. `SerialsInv` gives rows distinct serials. `IdsInv`: as long as
  a day has no gap, no counter of it exceeds the number of its rows, so the next
  is fresh. `PendingInv`: a pending transition still is about the row of its id
  as it stands, unless that row is in `overtaken` or of a day with a gap, so what
  is committed under an id was mailed about that row.
  `ClosedFirst` needs no such assumption: of rows with one id, a closed one is
  the oldest, which is the one that the handlers find, and refuse.
* *PositionEngine*. The stop is a distance (the ATR of the entry, times the
  multiplier in the settings) from a peak that moves one way, so of two stops of
  one position the later is away from the price only if the multiplier grew;
  types are the only invariant this needs. `SizeFitsBudget` bounds what the
  quotient, the floor and the cap leave of the budget. A level is raised past its
  threshold only, and the peak remembers that it was passed.
* *Backtest*. `InStep`: the two sides are at most one bar apart; at the same bar
  they are equal, else the one ahead is one step of the other's. That a step of
  the live side is `Simulated` needs the votes to agree (`Majority` cannot hold
  of both signs, nor a direction be excluded) and the two ways to charge costs.
* *DailyRun*. `BooksInv`: document, copy and baseline each have matching books
  or the copy is ahead of the baseline by the same trades in log and account
  (`SameTrades`), hence the replay takes over both or none. `SafeInv` speaks of
  the document and, until save #1, also of what that save would make of it
  (`CopyAhead` with `MergedPositions` and `MergedAccount`): but for the serials
  in `racedCloses` and `racedEdits` the account is still that of the baseline, no
  trade is in the log that the copy's lacks, and no edit is on a position that
  the copy has without it. From there the run writes signals, the date of the run
  and warnings only. `SignalInv` says that every market but the late ones has its
  signal entry in the document and in a copy that is yet to be written.
* *SignIn*. `TypeInv` says what calls each request may still have to make
  (`Planned`, `Shape`), and that there is always an inode left: one more than
  descriptors (by the pigeonhole theorem of the library). `StepCases` sorts
  steps into those that leave the store alone, move a thread, or write, and
  `EditOf` says what each call changes of a document. `Fresh`: a value drawn at random is in no
  document until the call it was drawn for. `Abreast`: whatever the copy of a
  thread that is about to write lacks is in its `behind`, so that a write moves
  it to `overtaken` and takes nothing else back. On these stand `LinkFacts` (a
  spent link is not live in the document, an acknowledged user is in it),
  `Enrolment` (who is about to mark a secret as enrolled checked a code of it, or
  knows of the one chosen since), `Revocation` (a revoking request ends with its
  device gone), each but for what is in `overtaken`; and `Single`: one holder
  per inode (`Excluded`), nothing of an invitation left behind a path that was
  rebound (`Orphaned`), and of two consumers at most one with an offer in hand
  (`OneOffered`).
* *Cycle*. `Order`, on a day that is not excused: one process between save #1
  and its record (`Alone`), whose copy of the record is the record (`Current`),
  run numbers that grow with the days (`InOrder`), and a record that never runs
  ahead (`NotPast`). `Posted`: what was mailed is recorded, or its run is still
  there (`Closed`), so no later run passes the guard. `Fans` counts, in a
  fan-out, what each user's outcome says of his mails; `Honest` is the same of
  the record.
* *Feeds*. `Fetch` ties the requests made with each session to the attempts used
  up and the renewal; `Label` the label to the phase. `Quotes` and `Dated`: every
  file and result in hand holds one answer of the service, with its day unless
  something came between. `Once`: a run that got headlines finds them in the
  file, or is known to be disturbed. `Warned` carries the label to the warning.
* *Documents*. One lemma per migration (`V2Step` to `V12Step`) says that it takes
  a document as of the version before to one as of its own and leaves the
  owner's values where `OwnAtFirst` finds them; chained over the loop
  (`TenSteps`, `Migrated`) they make a load of any older document one of version
  12 (`Current`) with the same owner's values. A loop that starts later or stops
  earlier is the same chain with steps left out, so no induction is needed.
  `FileIsGood`: the file is as the older program left it and nothing is
  dismissed, or `Good`: current, with `owned` in its bucket, and with the
  dismissals of the day that it names (`Hides`, which speaks of all days, so that
  a midnight changes nothing). `Locked`: an editor past the lock is alone and its
  document is the file, so an edit of a good document (one lemma each,
  `BookedIsGood` to `ResetIsGood`) makes a good file. `Copied` says of the copy
  what the test for it and the two halves of `copy2` leave true until `spoiled`.
  The strengthened invariant was checked by TLC first, on the instance of
  `upgrade` and on one with two editors.

Not proved, and only checked by TLC: the liveness properties `EveryCallReturns`,
`HitIsReported`, `FanOutEnds` and `RunEnds` (the prover does not reach
fairness). A bare reader that meets a corrupt file, or writers of several users,
have no theorem because the properties fail there (next section), nor has
`LostUpdateRaceClosed`.

## Where code and text disagree

Two runs are violated, and quoted in `PROJECT.json` with their lines:

* `lost_update`: the lock is on an inode that `os.replace` takes away from the
  path. A waiter then holds the lock of a file nobody will open again, while
  another caller locks the new one, though the docstrings promise one critical
  section for any caller. Writers of one user are saved by the user's lock file,
  which nobody replaces.
* `run_race`: a comment (`daily_run.py:458`) says that replaying onto the fresh
  document closes the race against the web's handlers. What is replayed are
  whole keys computed from the unlocked load: a trade that was closed over the
  web after that load leaves the log when the run recorded a trade too.

Seen while modelling, with no run of their own:

*The daily run and the engine*

* for the same reason save #1 brings back a position that was closed over the web
  between the load and it, and takes back an edited stop (`daily_run.py:477`;
  `racedCloses` and `racedEdits` name them);
* a market added before a loop-mode run has ended, or before save #1 of a
  `--once` run, loses its signal entry, and later runs fail on that market
  (`late` names it);
* every run reads the multiplier of the trailing stop from the settings, also
  for a position that is held, so a saved setting moves its stop, away from the
  price too (`daily_run.py:241`);
* a failed mail's notice is never shown: the next mail filters warnings by a date
  that the run has already set to today (`notifier/templates.py:281`), while
  `crash_boundary.py:165` says that it will be;
* `docs/DEPLOY.md:26` says that `--once` sends the mail; it dispatches none;
* a second run of a day adds a second row to `equity_history`, enters again
  after a forced exit of the same bar, and fills a manual stop at the stop even
  when the bar opened beyond it; an add by the web uses today's ATR where the
  engine's uses the entry's;
* `simulate` does not read `direction_mode` (`backtest/simulator.py:44`, whose
  docstring says it replicates `get_signal`): it shorts a market that is set to
  `long_only`, as SPI 200 is (`system_params.py:379`);
* drift warnings of all users share one list, so a handler of one user removes
  another's (`web/routes/trades/__init__.py:147`).

*The ledger*

* a row number is today's count plus one; when a row that is not the last of its
  day was deleted, the next number is one that is taken, and the open row behind
  a closed one answers 405 (`web/routes/paper_trades/__init__.py:110`;
  `.planning/milestones/v1.2-phases/19-paper-trade-ledger/19-01-PLAN.md:40` calls
  the collision impossible);
* an alert commit writes to a row that was closed or edited while the mails went
  out (`paper_trade_alerts.py:154`), and an edit may leave a stop on the wrong
  side of the entry.

*The files*

* the first write of an installation finds the empty file its own lock open
  created and records a recovery (`state_manager/__init__.py:387`);
* recovery can rename a good file if another recovery finished between its read
  and its rename (`state_manager/io.py:223`), with a corrupt file and several
  users or a bare reader; `RecoveryMovesOnlyCorrupt` shows that it cannot among
  the writers of one user;
* two loads can race on the copy of a version-11 file, so that the second copies
  the upgraded document over it, and a kill leaves a cut copy that counts as one
  (`state_manager/__init__.py:291`);
* `PATCH /account/balance` (`web/routes/markets.py:262`) and `--reset` write
  top-level keys that a version-12 document no longer reads, as does the
  position that a new market gets; the rounding at save looks at the same ones,
  so user accounts are not rounded; `README.md:20` promises $100k of a reset,
  where `INITIAL_ACCOUNT` is 10,000;
* a null multiplier or a null cost (`cost_aud`), both of which `PATCH
  /markets/{id}` accepts, make every load of an added market raise, that of
  `--reset` included (`state_manager/__init__.py:318`);
* a dismissal that waits for the lock over midnight starts yesterday's list
  again over today's;
* `notifier/warnings_fifo.py` has no caller, and nothing reads
  `news_gate_skips`, which is not among the keys that save #1 replays either.

*The cycle*

* the fan-out takes a user's address from a bucket key that nobody writes
  (`per_user_fanout.py:117`);
* `record_cycle_crash` dates the record, so that a rerun on the same day mails
  nobody; it also replaces the outcomes of mails that went out, when only the
  write of the record failed;
* a run that is still under way when the next day's has recorded its cycle sets
  the record back by a day;
* `notifier/dispatch.py:250` names `last_crash.json` as the surface for a missing
  variable, but that path returns before it is written; nothing deletes the file;
* `scheduler_driver.py:100` says that the loop mails crashes; it only logs them.

*The feeds*

* "one fetch per market per day" holds within a run only: the refresh writes a
  file without a date, which no later gate of the day uses;
* headlines from the cache are dated now by a refresh, not when they came;
* a critical headline beyond the first five is not looked at; a market that is
  not among the known ids is always gated; `--test` writes the cache too.

*Identities*

* every request of a trusted device rewrites the whole of `auth.json`
  (`auth_store/_devices.py:110`): one that loaded before a revocation, a
  disabling or a new user and saves after it takes that back, also when
  it is the revoked device's own;
* `revoke_invite` is unlocked (`auth_store/_users.py:394`), though its comment
  says that a concurrent consume wins;
* two clicks of one reset link can both be let in (`auth_store/_magic_links.py:90`), and the
  daily limit of links be passed by concurrent requests
  (`web/routes/login/__init__.py:197`);
* a code is checked against one secret and whichever is then on file is marked
  as enrolled (`web/routes/totp/__init__.py:202`).

## What is left out, and why

* *Two runs at once over the trading document*. `Cycle` has them for mails and
  record, `DailyRun` one at a time; an operator who starts `--once` beside the
  daemon is told by `Replayed` what would happen, but no property is stated.
* *Kills inside a fetch* (`Feeds`): nothing of a fetch outlives the process but
  the cache file, which is replaced atomically.
* *Several users in `Documents`*: only the admin has a bucket that migrations
  touch; other buckets are made by handlers and have defaults by `setdefault`.
* *Values of paper trades and their rounding, profit and loss, indicators,
  reports, HTML*: arithmetic and text without state.
* *Attempt counters and cookie lifetimes*: in memory or signed, and independent
  of the store.
* *A registry in which each request is atomic*, as an abstract specification of
  `AuthStore`: the store does not implement it, as the list above says; the
  properties with their histories say what it implements instead.
