---------------------------- MODULE PaperTrades ----------------------------
(***************************************************************************)
(* One user's paper-trade ledger: the four web handlers that open, edit,   *)
(* delete and close a row, each one mutate_user_state, and the daily       *)
(* stop-alert evaluator, which works on the document its save returned,    *)
(* mails the operator, and only then commits the new alert states by id.   *)
(*                                                                         *)
(* The ledger is a list in the code.  Here it is a set of rows that carry  *)
(* the order in which they were opened (serial), which is the list order:  *)
(* open appends, delete filters, and nothing else moves a row.             *)
(***************************************************************************)
EXTENDS Integers, FiniteSets

CONSTANTS
  Instruments,
  Sides,            \* subset of {"LONG", "SHORT"}
  Prices,           \* entry prices
  StopPrices,
  Bars,             \* daily bars, [low, high, close]
  NoBar,            \* no ohlc_window, or no ATR
  NoStop,
  Atr,
  MaxPerDay,        \* ids per instrument and day (999)
  LastDay,          \* bound: days
  Dates,            \* the entry and exit dates requests give
  MaxOpens,         \* bound: rows ever opened
  MaxRows           \* bound: rows at a time

Days == 1..LastDay

ASSUME LedgerAssumption ==
  /\ Sides \subseteq {"LONG", "SHORT"}
  /\ Prices \subseteq Nat \ {0} /\ StopPrices \subseteq Nat \ {0}
  /\ Bars \subseteq [low: Nat, high: Nat, close: Nat]
  /\ NoBar \notin Bars
  /\ NoStop \notin StopPrices
  /\ Atr \in Nat
  /\ MaxPerDay \in Nat \ {0}
  /\ LastDay \in Nat \ {0}
  /\ Dates \subseteq Nat \ {0}
  /\ MaxOpens \in Nat /\ MaxRows \in Nat

VARIABLES
  rows,        \* state['users'][uid]['paper_trades']
  opened,      \* rows ever opened, the source of serials
  today,
  bar,         \* the last bar of each instrument's ohlc_window
  phase,       \* where the evaluator is: "idle", "evaluated", "sent"
  pending,     \* the transitions it computed
  emailed,     \* its send returned True
  told,        \* history: confirmed mails about rows not edited since
  overtaken,   \* history: rows edited, or opened under an id, while it was pending
  gapped       \* history: days of an instrument that lost a row but the last one

ledger == <<rows, opened>>
evaluator == <<bar, phase, pending, emailed>>
history == <<told, overtaken, gapped>>
vars == <<ledger, today, evaluator, history>>

Ids == [instrument: Instruments, day: Days, counter: 1..MaxPerDay]
Alarms == {"APPROACHING", "HIT"}
AlertStates == Alarms \cup {"CLEAR"}

Rows ==
  [serial: 1..MaxOpens, id: Ids, instrument: Instruments, side: Sides,
   entry: Prices, stop: StopPrices \cup {NoStop}, entryDt: Dates,
   exitDt: Dates \cup {0}, status: {"open", "closed"},
   alert: AlertStates \cup {"None"}]

Transitions ==
  [serial: 1..MaxOpens, id: Ids, side: Sides, stop: StopPrices, instrument: Instruments,
   new: AlertStates, worthy: BOOLEAN]

Mails ==
  [serial: 1..MaxOpens, instrument: Instruments, side: Sides, stop: StopPrices, state: Alarms]

TypeOK ==
  /\ rows \in SUBSET Rows
  /\ opened \in 0..MaxOpens
  /\ today \in Days
  /\ bar \in [Instruments -> Bars \cup {NoBar}]
  /\ phase \in {"idle", "evaluated", "sent"}
  /\ pending \in SUBSET Transitions
  /\ emailed \in BOOLEAN
  /\ told \in SUBSET Mails
  /\ overtaken \in SUBSET (1..MaxOpens)
  /\ gapped \in SUBSET (Instruments \X Days)

Init ==
  /\ rows = {}
  /\ opened = 0
  /\ today = 1
  /\ bar = [i \in Instruments |-> NoBar]
  /\ phase = "idle"
  /\ pending = {}
  /\ emailed = FALSE
  /\ told = {} /\ overtaken = {} /\ gapped = {}

-----------------------------------------------------------------------------
(* The web handlers.  A request that is refused (400, 404, 405) writes     *)
(* nothing and is not an action.                                           *)

\* Mutant of SameDay: closed rows are not counted.
SameDayOpen(i) ==
  {r \in rows : r.id.instrument = i /\ r.id.day = today /\ r.status = "open"}

SameDay(i) == {r \in rows : r.id.instrument = i /\ r.id.day = today}
Matches(id) == {r \in rows : r.id = id}

\* matches[0]: of the rows with that id, the one first in the list.
FirstMatch(id) ==
  CHOOSE r \in Matches(id) : \A q \in Matches(id) : r.serial <= q.serial

\* A transition was computed for that id and is not committed yet.
Pending(id) == \E t \in pending : t.id = id
MailsAbout(n) == {m \in told : m.serial = n}

\* The cross-field rule of OpenPaperTradeRequest.
Coherent(side, entry, stop) ==
  stop # NoStop => IF side = "LONG" THEN stop < entry ELSE stop > entry

\* POST /paper-trade/open: the id is the number of today's rows plus one.
Open(i, side, entry, stop, entryDt) ==
  /\ opened < MaxOpens /\ Cardinality(rows) < MaxRows
  /\ Coherent(side, entry, stop)
  /\ entryDt <= today
  /\ Cardinality(SameDay(i)) < MaxPerDay
  /\ opened' = opened + 1
  /\ rows' = rows \cup
       {[serial |-> opened + 1,
         id |-> [instrument |-> i, day |-> today, counter |-> Cardinality(SameDay(i)) + 1],
         instrument |-> i, side |-> side, entry |-> entry, stop |-> stop,
         entryDt |-> entryDt, exitDt |-> 0, status |-> "open", alert |-> "None"]}
  /\ overtaken' = overtaken \cup
       {n \in {opened + 1} :
          Pending([instrument |-> i, day |-> today, counter |-> Cardinality(SameDay(i)) + 1])}
  /\ UNCHANGED <<today, evaluator, told, gapped>>

\* PATCH /paper-trade/{id}: the supplied fields (a value equal to the present
\* one stands for a field that is not supplied), no check of the merged row;
\* the alert state is reset.  The form cannot clear a stop.
Edit(id, i, side, entry, stop, entryDt) ==
  /\ Matches(id) # {}
  /\ FirstMatch(id).status = "open"
  /\ stop = NoStop => FirstMatch(id).stop = NoStop
  /\ rows' = (rows \ {FirstMatch(id)}) \cup
       {[FirstMatch(id) EXCEPT !.instrument = i, !.side = side, !.entry = entry,
                               !.stop = stop, !.entryDt = entryDt, !.alert = "None"]}
  /\ told' = told \ MailsAbout(FirstMatch(id).serial)
  /\ overtaken' = IF Pending(id) THEN overtaken \cup {FirstMatch(id).serial}
                                ELSE overtaken \ {FirstMatch(id).serial}
  /\ UNCHANGED <<opened, today, evaluator, gapped>>

\* History: a delete that takes the count below a counter that stays behind.
GapsLeft(id) ==
  {<<r.id.instrument, r.id.day>> :
     r \in {s \in SameDay(id.instrument) : id.day = today /\ s.id.counter > id.counter}}

\* History: what is kept of rows ends with them.
Forget(gone) ==
  /\ told' = told \ UNION {MailsAbout(r.serial) : r \in gone}
  /\ overtaken' = overtaken \ {r.serial : r \in gone}

\* Mutant of Delete: the immutability check is forgotten.
DeleteClosed(id) ==
  /\ Matches(id) # {}
  /\ rows' = rows \ Matches(id)
  /\ Forget(Matches(id))
  /\ gapped' = gapped \cup GapsLeft(id)
  /\ UNCHANGED <<opened, today, evaluator>>

\* DELETE /paper-trade/{id}: the first match must be open, every match goes.
Delete(id) ==
  /\ Matches(id) # {}
  /\ FirstMatch(id).status = "open"
  /\ rows' = rows \ Matches(id)
  /\ Forget(Matches(id))
  /\ gapped' = gapped \cup GapsLeft(id)
  /\ UNCHANGED <<opened, today, evaluator>>

\* POST /paper-trade/{id}/close, with any exit time from the entry on.
Close(id, exitDt) ==
  /\ Matches(id) # {}
  /\ FirstMatch(id).status = "open"
  /\ exitDt >= FirstMatch(id).entryDt
  /\ rows' = (rows \ {FirstMatch(id)}) \cup
       {[FirstMatch(id) EXCEPT !.exitDt = exitDt, !.status = "closed"]}
  /\ UNCHANGED <<opened, today, evaluator, history>>

NextDay ==
  /\ today < LastDay
  /\ today' = today + 1
  /\ UNCHANGED <<ledger, evaluator, history>>

-----------------------------------------------------------------------------
(* The daily stop-alert evaluator. *)

Distance(x, y) == IF x < y THEN y - x ELSE x - y

\* alert_engine.compute_alert_state; HIT is looked at before APPROACHING.
AlertState(side, b, stop) ==
  IF b = NoBar \/ Atr = 0 THEN "CLEAR"
  ELSE IF (side = "LONG" /\ b.low <= stop) \/ (side = "SHORT" /\ b.high >= stop) THEN "HIT"
  ELSE IF 2 * Distance(b.close, stop) <= Atr THEN "APPROACHING"
  ELSE "CLEAR"

\* Mutant of EmailWorthy: a hit after an approach counts as known.
EmailWorthyFirst(old, new) ==
  \/ new \in {"HIT", "APPROACHING"} /\ old \notin {"HIT", "APPROACHING"}
  \/ new = "CLEAR" /\ old = "HIT"

\* The transitions the operator is mailed about.
EmailWorthy(old, new) ==
  \/ new = "HIT"
  \/ new = "APPROACHING" /\ old # "APPROACHING"
  \/ new = "CLEAR" /\ old = "HIT"

\* Phase 1, on the document the daily save has just returned: its bars are
\* today's, its rows are those of that instant.
Evaluate(bars) ==
  /\ phase = "idle"
  /\ bar' = bars
  /\ LET watched == {r \in rows : r.status = "open" /\ r.stop # NoStop}
         New(r) == AlertState(r.side, bars[r.instrument], r.stop)
     IN  pending' = {[serial |-> r.serial, id |-> r.id, side |-> r.side, stop |-> r.stop,
                      instrument |-> r.instrument, new |-> New(r),
                      worthy |-> EmailWorthy(r.alert, New(r))]
                       : r \in {w \in watched : New(w) # w.alert}}
  /\ phase' = "evaluated"
  /\ emailed' = FALSE
  /\ UNCHANGED <<ledger, today, history>>

Worthy == {t \in pending : t.worthy}

\* The line of the mail about a transition.
MailOf(t) ==
  [serial |-> t.serial, instrument |-> t.instrument, side |-> t.side, stop |-> t.stop,
   state |-> t.new]

\* Phase 2: one mail for all email-worthy transitions; it arrives or it fails.
SendAlerts(ok) ==
  /\ phase = "evaluated"
  /\ ok => Worthy # {}
  /\ emailed' = ok
  /\ told' = told \cup {MailOf(t) : t \in {w \in Worthy : ok /\ w.new \in Alarms}}
  /\ phase' = "sent"
  /\ UNCHANGED <<ledger, today, bar, pending, overtaken, gapped>>

\* Mutant of Committed: the result of the send is not looked at.
CommittedAnyway == pending

\* commit_map is keyed by id: writes that were not mailed override those that
\* were, and a later row overrides an earlier one with the same id.
Committed == {t \in pending : t.worthy => emailed}
Overrides(t, s) ==
  \/ ~t.worthy /\ s.worthy
  \/ t.worthy = s.worthy /\ t.serial > s.serial
Winner(id) ==
  CHOOSE t \in {c \in Committed : c.id = id} :
    \A s \in {c \in Committed : c.id = id} : ~Overrides(s, t)

\* History: after a run, what no row stores is forgotten.
Remember(rs) ==
  /\ told' = {m \in told : \E r \in rs : r.serial = m.serial /\ r.alert = m.state}
  /\ overtaken' = {n \in overtaken : \E r \in rs : r.serial = n /\ r.alert \in Alarms}

\* The second mutate_state: every row whose id is in commit_map, whatever
\* became of it since the evaluation.
CommitAlerts ==
  /\ phase = "sent"
  /\ rows' = {IF \E t \in Committed : t.id = r.id
                THEN [r EXCEPT !.alert = Winner(r.id).new] ELSE r : r \in rows}
  /\ phase' = "idle"
  /\ pending' = {}
  /\ emailed' = FALSE
  /\ Remember(rows')
  /\ UNCHANGED <<opened, today, bar, gapped>>

\* The process dies, or mutate_state raises: the daily run logs and goes on.
EvaluatorFails ==
  /\ phase # "idle"
  /\ phase' = "idle"
  /\ pending' = {}
  /\ emailed' = FALSE
  /\ Remember(rows)
  /\ UNCHANGED <<ledger, today, bar, gapped>>

-----------------------------------------------------------------------------
WebStep ==
  \/ \E i \in Instruments, side \in Sides, entry \in Prices,
        stop \in StopPrices \cup {NoStop}, entryDt \in Dates :
       \/ Open(i, side, entry, stop, entryDt)
       \/ \E id \in Ids : Edit(id, i, side, entry, stop, entryDt)
  \/ \E id \in Ids : Delete(id) \/ \E exitDt \in Dates : Close(id, exitDt)

EvaluatorStep ==
  \/ \E bars \in [Instruments -> Bars \cup {NoBar}] : Evaluate(bars)
  \/ \E ok \in BOOLEAN : SendAlerts(ok)
  \/ CommitAlerts
  \/ EvaluatorFails

Next == WebStep \/ NextDay \/ EvaluatorStep

Spec == Init /\ [][Next]_vars

\* The scheduler runs the evaluator again and again, it comes to its end each
\* time, and of infinitely many mails tried some arrive.
FairSpec ==
  /\ Spec
  /\ WF_vars(\E bars \in [Instruments -> Bars \cup {NoBar}] : Evaluate(bars))
  /\ WF_vars(\E ok \in BOOLEAN : SendAlerts(ok))
  /\ WF_vars(CommitAlerts \/ EvaluatorFails)
  /\ SF_vars(SendAlerts(TRUE))

-----------------------------------------------------------------------------
(* Properties. *)

Gapped(r) == <<r.id.instrument, r.id.day>> \in gapped

\* Two rows have the same id in one case only: on its day a row was deleted
\* that was not the last of its instrument, so that the count of
\* open_paper_trade came back to a number that is taken.  Edits, closes, other
\* deletes and alert commits addressed to an id cannot land on another trade.
UniqueIds == \A r, s \in rows : r.id = s.id /\ ~Gapped(r) => r = s

\* The operator got a mail that this row, with its present stop, is in that state.
Mailed(r, state) ==
  [serial |-> r.serial, instrument |-> r.instrument, side |-> r.side, stop |-> r.stop,
   state |-> state] \in told

\* An alarm that a row stores is one the operator really got a mail about, for
\* the stop the row has now and since it was last edited (the two-phase commit
\* of _evaluate_paper_trade_alerts_impl).  The commit goes by id, so it says
\* something else in two cases only: the row was edited, or opened under an id
\* that a deleted row had, between the evaluation and the commit; or its id is
\* of a day that gives ids twice.
StoredAlertsWereTold ==
  \A r \in rows :
    r.alert \in Alarms => Mailed(r, r.alert) \/ r.serial \in overtaken \/ Gapped(r)

\* Nothing takes a closed trade out of the ledger or changes its outcome.
ClosedOutcomesFrozen ==
  [][\A r \in rows : r.status = "closed" => \E s \in rows' : s = [r EXCEPT !.alert = s.alert]]_vars

HitUnreported(n) ==
  \E r \in rows : /\ r.serial = n /\ r.status = "open" /\ r.stop # NoStop
                  /\ r.alert # "HIT"
                  /\ AlertState(r.side, bar[r.instrument], r.stop) = "HIT"

\* A stop that was hit is reported: failed mails and failed commits are made
\* up for by a later run, unless the price leaves the stop or the row changes.
HitIsReported ==
  \A n \in 1..MaxOpens :
    HitUnreported(n) ~>
      (~HitUnreported(n) \/ \E m \in MailsAbout(n) : m.state = "HIT")
=============================================================================
