------------------------------ MODULE DailyRun ------------------------------
(***************************************************************************)
(* The daily run beside the web handlers.  Both write state.json through   *)
(* StateFile's mutate_state, so each write below is one atomic step; but   *)
(* the run reads the document once, without the lock, works on its copy    *)
(* while the handlers go on, and then replays onto the current document    *)
(* the keys that its copy changed.                                         *)
(*                                                                         *)
(* What a step of a market decides is PositionEngine's; here it is one of  *)
(* the outcomes the position and the signal allow.  A position is told     *)
(* from another by its serial, a signal by its day; a log counts how often *)
(* each serial stands in it, an account how often it was credited (no net  *)
(* is zero).  equity_history, which nobody else writes, pyramid adds and   *)
(* the paper trades (PaperTrades) are left out.                            *)
(***************************************************************************)
EXTENDS Integers, FiniteSets

CONSTANTS
  Markets,         \* market ids
  FirstMarkets,    \* the ones of a fresh document
  Users,
  Admin,           \* whose positions the run trades: _ADMIN_UID
  Modes,           \* of {"loop", "once", "test"}; --force-email is a "loop" run
  NoPosition, NoSignal,
  MaxPositions,    \* bound: positions ever opened
  MaxCloses,       \* bound: times the web closes one position
  MaxRuns,         \* bound: runs that may save
  LastDay          \* bound: days

Sides == {"LONG", "SHORT"}
Directions == Sides \cup {"FLAT"}
PCs == {"idle", "stepping", "saved", "pushed", "flush"}

ASSUME RunAssumption ==
  /\ FirstMarkets \subseteq Markets
  /\ Admin \in Users
  /\ Modes \subseteq {"loop", "once", "test"}
  /\ MaxPositions \in Nat /\ MaxCloses \in Nat /\ MaxRuns \in Nat
  /\ LastDay \in Nat \ {0}

Serials == 1..MaxPositions
Days == 1..LastDay

\* Without a day: not computed by a run yet, so without an ATR.
Signals == [way: Directions, day: {0} \cup Days]

\* seen: the day of the last step that moved the peak; edited: a manual stop.
Positions == [serial: Serials, side: Sides, seen: Days, edited: BOOLEAN]

ASSUME NullAssumption == NoPosition \notin Positions /\ NoSignal \notin Signals

\* What a run warns of: a stale frame, a failed push, a failed mail.
RunWarning == [source |-> "run"]
Warnings ==
  {RunWarning} \cup [source: {"drift"}, market: Markets, held: Sides, signalled: Directions]

Documents ==
  [markets: SUBSET Markets,
   signals: [Markets -> Signals \cup {NoSignal}],
   positions: [Users -> [Markets -> Positions \cup {NoPosition}]],
   log: [Users -> [Serials -> Nat]],
   account: [Users -> [Serials -> Nat]],
   skips: SUBSET Markets,
   lastRun: {0} \cup Days,
   warnings: SUBSET Warnings]

VARIABLES
  doc,      \* state.json
  pc,       \* where the run is
  mode,     \* of the run under way
  mem,      \* its copy of the document
  base,     \* baseline_state
  todo,     \* markets it has not looked at
  mail,     \* what became of this run's mail
  today,
  started,  \* runs begun that may save
  opened,   \* positions opened so far
  booked,   \* serials each user closed over the web
  struck,   \* serials an admin deleted from the log
  edits,    \* serials whose stop a user edited over the web
  racedCloses,   \* those of booked closed while a save of the run may undo it,
  racedEdits,    \* and those of edits edited then
  late           \* markets added while a save of the run may take their signal

run == <<pc, mode, mem, base, todo, mail>>
ghosts == <<booked, struck, edits, racedCloses, racedEdits, late>>
vars == <<doc, run, today, started, opened, ghosts>>

TypeOK ==
  /\ doc \in Documents /\ mem \in Documents /\ base \in Documents
  /\ pc \in PCs /\ mode \in Modes \cup {"none"}
  /\ todo \in SUBSET Markets
  /\ mail \in {"none", "sent", "failed"}
  /\ today \in Days
  /\ started \in 0..MaxRuns /\ opened \in 0..MaxPositions
  /\ booked \in [Users -> SUBSET Serials]
  /\ struck \in SUBSET Serials /\ edits \in SUBSET Serials
  /\ racedCloses \in SUBSET Serials /\ racedEdits \in SUBSET Serials
  /\ late \in SUBSET Markets

NewSignal == [way |-> "FLAT", day |-> 0]

Fresh ==
  [markets |-> FirstMarkets,
   signals |-> [m \in Markets |-> IF m \in FirstMarkets THEN NewSignal ELSE NoSignal],
   positions |-> [u \in Users |-> [m \in Markets |-> NoPosition]],
   log |-> [u \in Users |-> [s \in Serials |-> 0]],
   account |-> [u \in Users |-> [s \in Serials |-> 0]],
   skips |-> {},
   lastRun |-> 0,
   warnings |-> {}]

Init ==
  /\ doc = Fresh /\ mem = Fresh /\ base = Fresh
  /\ pc = "idle" /\ mode = "none" /\ todo = {} /\ mail = "none"
  /\ today = 1 /\ started = 0 /\ opened = 0
  /\ booked = [u \in Users |-> {}] /\ struck = {} /\ edits = {}
  /\ racedCloses = {} /\ racedEdits = {} /\ late = {}

-----------------------------------------------------------------------------
(* Helpers on documents. *)

\* detect_drift for a user's positions.
DriftOf(d, u) ==
  {[source |-> "drift", market |-> m,
    held |-> d.positions[u][m].side, signalled |-> d.signals[m].way] :
     m \in {n \in Markets : /\ d.positions[u][n] # NoPosition
                            /\ d.signals[n] # NoSignal
                            /\ d.positions[u][n].side # d.signals[n].way}}

\* clear_warnings_by_source(state, 'drift'), then the user's drift: the list
\* belongs to all users.
WithDrift(d, u) ==
  [d EXCEPT !.warnings = {w \in @ : w.source # "drift"} \cup DriftOf(d, u)]

\* Mutant: a trade is recorded and the position stays open.
RecordedStillOpen(d, u, m) ==
  LET serial == d.positions[u][m].serial
  IN  [d EXCEPT !.log[u][serial] = @ + 1, !.account[u][serial] = @ + 1]

\* record_trade: log, account and position in one go.
Recorded(d, u, m) ==
  LET serial == d.positions[u][m].serial
  IN  [d EXCEPT !.log[u][serial] = @ + 1, !.account[u][serial] = @ + 1,
                !.positions[u][m] = NoPosition]

NewPosition(side) == [serial |-> opened + 1, side |-> side, seen |-> today, edited |-> FALSE]

-----------------------------------------------------------------------------
(* The run, up to its first save. *)

\* The run ends, however: its copy is gone.
Ends ==
  /\ pc' = "idle"
  /\ mode' = "none" /\ mem' = Fresh /\ base' = Fresh /\ todo' = {}
  /\ mail' = "none"

\* load_state without the lock, and the baseline.
Load ==
  /\ pc = "idle"
  /\ pc' = "stepping"
  /\ mode' \in Modes
  /\ \/ mode' = "test" /\ UNCHANGED started
     \/ mode' # "test" /\ started < MaxRuns /\ started' = started + 1
  /\ mem' = doc /\ base' = doc
  /\ todo' = doc.markets
  /\ UNCHANGED <<doc, mail, today, opened, ghosts>>

\* step's outcome for a market with a signal: the copy's position and trade.
StepMarket(m, direction) ==
  LET p == mem.positions[Admin][m]
      signalled == [mem EXCEPT !.signals[m] = [way |-> direction, day |-> today]]
      Holds == /\ p # NoPosition /\ p.side = direction
               /\ \E day \in {p.seen, today} :
                    mem' = [signalled EXCEPT !.positions[Admin][m].seen = day]
               /\ UNCHANGED opened
      StaysFlat == p = NoPosition /\ mem' = signalled /\ UNCHANGED opened
      Exits == p # NoPosition /\ mem' = Recorded(signalled, Admin, m) /\ UNCHANGED opened
      Enters == /\ direction \in Sides
                /\ p # NoPosition => p.side # direction
                /\ opened < MaxPositions /\ opened' = opened + 1
                /\ mem' = [(IF p = NoPosition THEN signalled ELSE Recorded(signalled, Admin, m))
                             EXCEPT !.positions[Admin][m] = NewPosition(direction)]
  IN  /\ pc = "stepping" /\ m \in todo
      /\ mem.signals[m] # NoSignal
      /\ todo' = todo \ {m}
      /\ Holds \/ StaysFlat \/ Exits \/ Enters
      /\ UNCHANGED <<doc, pc, mode, base, mail, today, started, ghosts>>

\* The news gate: the skip is noted in the copy.
GateMarket(m) ==
  /\ pc = "stepping" /\ m \in todo
  /\ todo' = todo \ {m}
  /\ mem' = [mem EXCEPT !.skips = @ \cup {m}]
  /\ UNCHANGED <<doc, pc, mode, base, mail, today, started, opened, ghosts>>

\* A fetch error, a short frame, or a market without a signal entry.
Abort ==
  /\ pc = "stepping" /\ todo # {}
  /\ Ends
  /\ UNCHANGED <<doc, today, started, opened, ghosts>>

\* Steps 5 to 7: queued warnings, drift, last_run.
Finished(stale) ==
  LET warned == IF stale THEN mem.warnings \cup {RunWarning} ELSE mem.warnings
  IN  WithDrift([mem EXCEPT !.warnings = warned, !.lastRun = today], Admin)

\* _apply_daily_run: a key the copy changed replaces the document's.
Changed(old, accumulated, baseline) == IF accumulated # baseline THEN accumulated ELSE old

\* Mutant: the replay forgets trade_log.
ReplayedWithoutLog(d, acc, bas) ==
  [d EXCEPT
    !.positions[Admin] = Changed(@, acc.positions[Admin], bas.positions[Admin]),
    !.account[Admin] = Changed(@, acc.account[Admin], bas.account[Admin]),
    !.signals = Changed(@, acc.signals, bas.signals),
    !.lastRun = Changed(@, acc.lastRun, bas.lastRun),
    !.warnings = Changed(@, acc.warnings, bas.warnings)]

Replayed(d, acc, bas) ==
  [d EXCEPT
    !.positions[Admin] = Changed(@, acc.positions[Admin], bas.positions[Admin]),
    !.log[Admin] = Changed(@, acc.log[Admin], bas.log[Admin]),
    !.account[Admin] = Changed(@, acc.account[Admin], bas.account[Admin]),
    !.signals = Changed(@, acc.signals, bas.signals),
    !.lastRun = Changed(@, acc.lastRun, bas.lastRun),
    !.warnings = Changed(@, acc.warnings, bas.warnings)]

\* Save #1; the run goes on with the document as saved.
Save(stale) ==
  /\ pc = "stepping" /\ todo = {} /\ mode # "test"
  /\ pc' = "saved"
  /\ doc' = Replayed(doc, Finished(stale), base)
  /\ mem' = doc' /\ base' = Fresh
  /\ UNCHANGED <<mode, todo, mail, today, started, opened, ghosts>>

-----------------------------------------------------------------------------
(* The run, from its first save on. *)

\* _push_state_to_git: a failure is a warning in the copy only.
PushState ==
  /\ pc = "saved"
  /\ pc' = "pushed"
  /\ \/ mem' = mem
     \/ mem' = [mem EXCEPT !.warnings = @ \cup {RunWarning}]
  /\ UNCHANGED <<doc, mode, base, todo, mail, today, started, opened, ghosts>>

\* Sent, or written to a file for want of an API key, or refused.
SendMail ==
  /\ pc = "pushed" /\ mode = "loop"
  /\ pc' = "flush"
  /\ mail' \in {"sent", "failed"}
  /\ UNCHANGED <<doc, mode, mem, base, todo, today, started, opened, ghosts>>

\* Mutant: save #2 replays the user bucket too, as it did before v12.
FlushBucket ==
  /\ pc = "flush"
  /\ Ends
  /\ doc' = [doc EXCEPT
       !.positions[Admin] = mem.positions[Admin],
       !.log[Admin] = mem.log[Admin],
       !.account[Admin] = mem.account[Admin],
       !.signals = mem.signals,
       !.lastRun = mem.lastRun,
       !.warnings = IF mail = "failed" THEN {RunWarning} ELSE {}]
  /\ UNCHANGED <<today, started, opened, ghosts>>

\* clear_warnings, maybe a notifier warning, and save #2.
Flush ==
  /\ pc = "flush"
  /\ Ends
  /\ doc' = [doc EXCEPT
       !.signals = mem.signals,
       !.lastRun = mem.lastRun,
       !.warnings = IF mail = "failed" THEN {RunWarning} ELSE {}]
  /\ UNCHANGED <<today, started, opened, ghosts>>

\* --once: no mail; the copy's warnings replace the document's.
FlushOnce ==
  /\ pc = "pushed" /\ mode = "once"
  /\ Ends
  /\ doc' = IF mem.warnings = {} THEN doc ELSE [doc EXCEPT !.warnings = mem.warnings]
  /\ UNCHANGED <<today, started, opened, ghosts>>

\* --test: a mail of the copy, and nothing is saved.
EndTest ==
  /\ pc = "stepping" /\ todo = {} /\ mode = "test"
  /\ Ends
  /\ UNCHANGED <<doc, today, started, opened, ghosts>>

\* The process is killed.
Die ==
  /\ pc # "idle"
  /\ Ends
  /\ UNCHANGED <<doc, today, started, opened, ghosts>>

-----------------------------------------------------------------------------
(* The web handlers, each one mutation of the document. *)

Served == UNCHANGED <<run, today, started>>

\* The run holds a copy of the admin's bucket, or of the signals, that it has yet
\* to write.
BucketAtRisk == pc = "stepping" /\ mode # "test"
SignalsAtRisk == BucketAtRisk \/ (pc # "idle" /\ mode = "loop")

\* With a request of u about a position, when it is one that save #1 may undo.
Races(u, raced, serial) == IF u = Admin /\ BucketAtRisk THEN raced \cup {serial} ELSE raced

OpenTrade(u, m, side) ==
  /\ Served
  /\ m \in doc.markets
  /\ doc.signals[m] # NoSignal /\ doc.signals[m].day # 0     \* an ATR is known
  /\ doc.positions[u][m] = NoPosition
  /\ opened < MaxPositions /\ opened' = opened + 1
  /\ doc' = WithDrift([doc EXCEPT !.positions[u][m] = NewPosition(side)], u)
  /\ UNCHANGED ghosts

CloseTrade(u, m) ==
  /\ Served
  /\ m \in doc.markets
  /\ doc.positions[u][m] # NoPosition
  /\ doc.account[u][doc.positions[u][m].serial] < MaxCloses
  /\ doc' = WithDrift(Recorded(doc, u, m), u)
  /\ booked' = [booked EXCEPT ![u] = @ \cup {doc.positions[u][m].serial}]
  /\ racedCloses' = Races(u, racedCloses, doc.positions[u][m].serial)
  /\ UNCHANGED <<opened, struck, edits, racedEdits, late>>

ModifyTrade(u, m) ==
  /\ Served
  /\ m \in doc.markets
  /\ doc.positions[u][m] # NoPosition
  /\ doc' = WithDrift([doc EXCEPT !.positions[u][m].edited = TRUE], u)
  /\ edits' = edits \cup {doc.positions[u][m].serial}
  /\ racedEdits' = Races(u, racedEdits, doc.positions[u][m].serial)
  /\ UNCHANGED <<opened, booked, struck, racedCloses, late>>

\* The account is left as it is.
DeleteLogEntry(serial) ==
  /\ Served
  /\ doc.log[Admin][serial] > 0
  /\ doc' = [doc EXCEPT !.log[Admin][serial] = @ - 1]
  /\ struck' = struck \cup {serial}
  /\ UNCHANGED <<opened, booked, edits, racedCloses, racedEdits, late>>

\* Mutant: the market comes without its entry in signals.
AddBareMarket(m) ==
  /\ Served
  /\ m \notin doc.markets
  /\ doc' = [doc EXCEPT !.markets = @ \cup {m}]
  /\ late' = IF SignalsAtRisk THEN late \cup {m} ELSE late
  /\ UNCHANGED <<opened, booked, struck, edits, racedCloses, racedEdits>>

AddMarket(m) ==
  /\ Served
  /\ m \notin doc.markets
  /\ doc' = [doc EXCEPT !.markets = @ \cup {m},
                        !.signals[m] = NewSignal]
  /\ late' = IF SignalsAtRisk THEN late \cup {m} ELSE late
  /\ UNCHANGED <<opened, booked, struck, edits, racedCloses, racedEdits>>

NextDay ==
  /\ pc = "idle" /\ today < LastDay
  /\ today' = today + 1
  /\ UNCHANGED <<doc, run, started, opened, ghosts>>

-----------------------------------------------------------------------------
RunStep ==
  \/ Load \/ Abort \/ PushState \/ SendMail \/ Flush \/ FlushOnce \/ EndTest \/ Die
  \/ \E m \in todo : GateMarket(m) \/ \E direction \in Directions : StepMarket(m, direction)
  \/ \E stale \in BOOLEAN : Save(stale)

Web ==
  \/ \E u \in Users, m \in Markets :
       CloseTrade(u, m) \/ ModifyTrade(u, m) \/ \E side \in Sides : OpenTrade(u, m, side)
  \/ \E m \in Markets : AddMarket(m)
  \/ \E serial \in Serials : DeleteLogEntry(serial)

Next == RunStep \/ Web \/ NextDay

Spec == Init /\ [][Next]_vars

-----------------------------------------------------------------------------
(* Properties. *)

\* Every account holds exactly the trades of its log, but for the entries an
\* admin deleted: save #1 replays both or neither, and a handler's close
\* changes both, whatever comes between the run's load and its save.
AccountMatchesLog ==
  \A u \in Users, s \in Serials \ struck : doc.account[u][s] = doc.log[u][s]

\* The run replays the admin's bucket and no other: a step of the run leaves
\* positions, log and account of the other users as they are.
OthersAreKept ==
  [][run' # run => \A u \in Users \ {Admin} :
       /\ doc'.positions[u] = doc.positions[u]
       /\ doc'.log[u] = doc.log[u]
       /\ doc'.account[u] = doc.account[u]]_vars

\* A position that is open has not been closed before, unless the close came
\* between a run's load and its save #1: no other step of a run, and no save #2,
\* brings back what POST /trades/close or an exit of the run took out.
NoZombies ==
  \A u \in Users, m \in Markets :
    LET p == doc.positions[u][m]
    IN  p # NoPosition /\ p.serial \notin racedCloses => doc.account[u][p.serial] = 0

\* A trade that a user closed over the web, other than in that window, stays in
\* the log until an admin deletes it: no save replaces the log by an older one.
WebTradesAreBooked ==
  \A u \in Users : \A s \in booked[u] \ (struck \cup racedCloses) : doc.log[u][s] > 0

\* What the comment at daily_run.py 458-460 says of save #1: the lost-update race
\* against the web's POST handlers is closed, in that window too.
LostUpdateRaceClosed ==
  \A u \in Users : \A s \in booked[u] \ struck : doc.log[u][s] > 0

\* A manual stop that a user set, other than in that window, stays with the
\* position: no save of the run replaces the position by an older one.
EditsStick ==
  \A u \in Users, m \in Markets :
    LET p == doc.positions[u][m]
    IN  p # NoPosition /\ p.serial \in edits \ racedEdits => p.edited

\* Every market has the signal entry a run needs to get past it, unless POST
\* /markets came while a run had yet to save signals: to the end of a run of the
\* loop (save #2 writes them again), to save #1 of a --once run, never --test.
EveryMarketHasASignal ==
  \A m \in doc.markets \ late : doc.signals[m] # NoSignal
=============================================================================
