-------------------------------- MODULE Cycle --------------------------------
(***************************************************************************)
(* A day's cycle: a process runs the daily check, mails the operator and   *)
(* then fans out one mail to every active user, and records the cycle in   *)
(* state.json, so that another run of the day does not mail them again.    *)
(*                                                                         *)
(* The daemon's loop and a run from the command line are processes of      *)
(* their own, each with its copy of the document as save #1 returned it;   *)
(* either may be killed at any step.  A mail is up to Retries requests to  *)
(* a service whose answer may be lost after it has accepted the mail.      *)
(*                                                                         *)
(* What the check itself does is DailyRun's; here it saves, or fails.  The *)
(* texts of the mails and the reasons of failures are left out.            *)
(***************************************************************************)
EXTENDS Integers, FiniteSets

CONSTANTS
  Users,          \* the users auth.json lists as friends and family
  Addressed,      \* the ones whose bucket holds an address
  Procs, Kinds,   \* which of {"loop", "once", "force", "test"} a process may be
  Limit,          \* FANOUT_SEMAPHORE_LIMIT
  Retries,        \* _RESEND_RETRIES
  Environments,   \* what the environment may hold of "from", "key", "to"
  Weekend,
  Wishes,         \* the preferences a user may ask for
  LastDay, MaxRuns, \* bounds: days; runs begun
  MaxEvents       \* bound: kills and edits, together

ASSUME CycleAssumption ==
  /\ Addressed \subseteq Users /\ IsFiniteSet(Users)
  /\ Kinds \in [Procs -> SUBSET {"loop", "once", "force", "test"}]
  /\ Limit \in Nat \ {0} /\ Retries \in Nat \ {0}
  /\ Environments \subseteq SUBSET {"from", "key", "to"}
  /\ {MaxRuns, MaxEvents} \subseteq Nat /\ LastDay \in Nat \ {0}
  /\ Wishes \subseteq [on: BOOLEAN, until: 0..LastDay]

Days == 1..LastDay
Runs == 1..MaxRuns

\* What becomes of a user's mail: the reason in the outcome, none for "sent".
\* "skipped", "no_api_key" and "sent" are ok.
Outcomes == {"sent", "skipped", "no_api_key", "no_recipient", "failed"}

\* last_cycle; a crash of the fan-out leaves no users.
Cycles == [date: Days, users: UNION {[S -> Outcomes] : S \in SUBSET Users},
           crash: BOOLEAN]
NoCycle == [date |-> 0, users |-> [u \in {} |-> "sent"], crash |-> FALSE]

\* A user's bucket, when there is one: email_enabled, pause_until.
Buckets == [on: BOOLEAN, until: 0..LastDay]
NoBucket == [on |-> TRUE, until |-> -1]

Prefs == [Users -> Buckets \cup {NoBucket}]

PCs == {"idle", "check", "cycle", "sending", "crashed", "report"}

Turns == [kind: {"loop", "once", "force", "test"}, day: Days, nr: Runs]
NoTurn == [kind |-> "none", day |-> 0, nr |-> 0]

VARIABLES
  today, env,
  record,           \* state.json: last_cycle
  prefs,            \* state.json: users
  active,           \* auth.json: the users who are not disabled
  pc,
  turn,             \* what a process is: its kind, the day and the number of its run
  mem,              \* a process's copy of record and prefs
  todo, tries, outs, \* its fan-out: users waiting, requests made, outcomes
  crashFile,        \* last_crash.json: of which run
  runs, events,
  got,              \* history: mails that arrived, as <<user, day, run>>
  excused           \* history: days on which two runs met, or one went unrecorded

fan == <<todo, tries, outs>>
store == <<record, prefs, active, crashFile>>
vars == <<today, env, store, pc, turn, mem, fan, runs, events, got, excused>>

PartialOutcomes == UNION {[S -> Outcomes] : S \in SUBSET Users}

TypeOK ==
  /\ today \in Days /\ env \in Environments
  /\ record \in Cycles \cup {NoCycle} /\ prefs \in Prefs
  /\ active \in SUBSET Users /\ crashFile \in {0} \cup Runs
  /\ pc \in [Procs -> PCs] /\ turn \in [Procs -> Turns \cup {NoTurn}]
  /\ mem \in [Procs -> [record: Cycles \cup {NoCycle}, prefs: Prefs]]
  /\ todo \in [Procs -> SUBSET Users]
  /\ tries \in [Procs -> UNION {[S -> 0..(Retries - 1)] : S \in SUBSET Users}]
  /\ outs \in [Procs -> PartialOutcomes]
  /\ runs \in {0} \cup Runs /\ events \in 0..MaxEvents
  /\ got \in SUBSET (Users \X Days \X Runs) /\ excused \in SUBSET Days

NoCopy == [record |-> NoCycle, prefs |-> [u \in Users |-> NoBucket]]
Nobody == [u \in {} |-> "sent"]
NoTries == [u \in {} |-> 0]

Init ==
  /\ today = 1 /\ env \in Environments
  /\ record = NoCycle /\ active = Users /\ crashFile = 0
  /\ prefs = [u \in Users |-> IF u \in Addressed THEN [on |-> TRUE, until |-> 0] ELSE NoBucket]
  /\ pc = [p \in Procs |-> "idle"] /\ turn = [p \in Procs |-> NoTurn]
  /\ mem = [p \in Procs |-> NoCopy]
  /\ todo = [p \in Procs |-> {}] /\ tries = [p \in Procs |-> NoTries]
  /\ outs = [p \in Procs |-> Nobody]
  /\ runs = 0 /\ events = 0 /\ got = {} /\ excused = {}

-----------------------------------------------------------------------------
(* One request to the mail service, as _post_to_resend reads its answer.    *)

Answers == {"accepted", "lost", "busy", "refused"}

\* The service has the mail, whether or not the process learns of it.
Arrives(answer) == answer \in {"accepted", "lost"}

\* After n requests before this one: the outcome, or another request.
Judged(answer, n) ==
  CASE answer = "accepted" -> "sent"
    [] answer = "refused" -> "failed"
    [] answer \in {"lost", "busy"} -> IF n + 1 = Retries THEN "failed" ELSE "again"

\* A mail to the operator, all its requests at once: does it arrive, and does
\* the process take it to have?
OperatorMails(needs) ==
  IF needs \subseteq env
    THEN {[arrived |-> TRUE, ok |-> TRUE], [arrived |-> FALSE, ok |-> FALSE],
          [arrived |-> TRUE, ok |-> FALSE]}
    ELSE {[arrived |-> FALSE, ok |-> FALSE]}

-----------------------------------------------------------------------------
(* The run up to the fan-out.                                               *)

Goto(p, where) == pc' = [pc EXCEPT ![p] = where]

\* The end of a process, or of a turn of the loop, which goes on.
Ends(p) ==
  /\ Goto(p, "idle")
  /\ todo' = [todo EXCEPT ![p] = {}] /\ tries' = [tries EXCEPT ![p] = NoTries]
  /\ outs' = [outs EXCEPT ![p] = Nobody]
  /\ mem' = [mem EXCEPT ![p] = NoCopy] /\ turn' = [turn EXCEPT ![p] = NoTurn]

\* An exception nobody expected: the loop logs it, main mails it and returns 1.
Escapes(p) ==
  IF turn[p].kind = "loop" THEN Ends(p)
  ELSE Goto(p, "report") /\ UNCHANGED <<fan, mem, turn>>

\* Mutant: the daemon keeps the date it started on.
FirstDate(p) == IF "loop" \in Kinds[p] THEN 1 ELSE today

\* _compute_run_date, when the run begins.
RunDate(p) == today

\* The scheduler's time, a start of the daemon (which runs at once), a timer or
\* the operator.
Start(p) ==
  /\ pc[p] = "idle" /\ runs < MaxRuns
  /\ runs' = runs + 1
  /\ IF today \in Weekend THEN UNCHANGED <<pc, turn>>
     ELSE \E k \in Kinds[p] :
            /\ turn' = [turn EXCEPT ![p] = [kind |-> k, day |-> RunDate(p), nr |-> runs + 1]]
            /\ Goto(p, "check")
  /\ UNCHANGED <<today, env, store, mem, fan, events, got, excused>>

\* Between its save and its record of the cycle; or in the check, of another day.
Meets(p, q) ==
  \/ pc[q] \in {"cycle", "sending", "crashed"}
  \/ pc[q] = "check" /\ turn[q].day # turn[p].day

\* Save #1, which returns the document the rest of the run works on.
Saved(p) ==
  /\ pc[p] = "check" /\ turn[p].kind # "test"
  /\ mem' = [mem EXCEPT ![p] = [record |-> record, prefs |-> prefs]]
  /\ Goto(p, "cycle")
  /\ LET others == {q \in Procs \ {p} : Meets(p, q)}
     IN  excused' = IF others = {} THEN excused
                    ELSE excused \cup {turn[p].day} \cup {turn[q].day : q \in others}
  /\ UNCHANGED <<today, env, store, turn, fan, runs, events, got>>

\* A test run saves nothing, mails, and does not fan out.
Tested(p) ==
  /\ pc[p] = "check" /\ turn[p].kind = "test"
  /\ Ends(p)
  /\ UNCHANGED <<today, env, store, runs, events, got, excused>>

\* DataFetchError and ShortFrameError: return code 2, or the loop's warning.
CheckFails(p) ==
  /\ pc[p] = "check"
  /\ Ends(p)
  /\ UNCHANGED <<today, env, store, runs, events, got, excused>>

\* Anything else, in the check or in the save after the mail.
Crashes(p) ==
  /\ pc[p] \in {"check", "cycle"}
  /\ Escapes(p)
  /\ UNCHANGED <<today, env, store, runs, events, got, excused>>

\* _resolve_email_to_or_skip: without an operator's address no mail is tried.
HasAddressee == "to" \in env

\* _write_last_crash: the payload replaces that of the crash before, or the
\* write fails and nobody is told.
WriteLastCrash(p) == crashFile' \in {turn[p].nr, crashFile}

\* send_crash_email: on failure last_crash.json.  A missing variable returns
\* before the file is written.
ReportCrash(p) ==
  /\ pc[p] = "report"
  /\ IF HasAddressee /\ {"from", "key"} \subseteq env
       THEN \E mail \in OperatorMails({"from", "key", "to"}) :
              IF mail.ok THEN UNCHANGED crashFile ELSE WriteLastCrash(p)
       ELSE UNCHANGED crashFile
  /\ Ends(p)
  /\ UNCHANGED <<today, env, record, prefs, active, runs, events, got, excused>>

-----------------------------------------------------------------------------
(* The fan-out.                                                             *)

\* Mutant: the guard against a second fan-out is missing.
AlreadyNever(p) == FALSE

\* The guard against a second fan-out of a day, on the process's copy.
AlreadyDone(p) == mem[p].record.date = turn[p].day

\* The operator's mail, save #2, the guard, and auth.json's list.
FanOut(p) ==
  /\ pc[p] = "cycle"
  /\ IF AlreadyDone(p) THEN Ends(p)
     ELSE /\ todo' = [todo EXCEPT ![p] = active]
          /\ Goto(p, "sending")
          /\ UNCHANGED <<mem, turn, tries, outs>>
  /\ UNCHANGED <<today, env, store, runs, events, got, excused>>

\* run() raises: auth.json cannot be read.
FanOutCrashes(p) ==
  /\ pc[p] = "cycle" /\ ~AlreadyDone(p)
  /\ Goto(p, "crashed")
  /\ UNCHANGED <<today, env, store, turn, mem, fan, runs, events, got, excused>>

InFlight(p) == DOMAIN tries[p]
With(f, u, x) == [v \in DOMAIN f \cup {u} |-> IF v = u THEN x ELSE f[v]]
Without(f, u) == [v \in DOMAIN f \ {u} |-> f[v]]

SlotIsFree(p) == Cardinality(InFlight(p)) < Limit

\* By the copy's preferences, on the day of the mail.
OptedOut(p, u) ==
  LET bucket == mem[p].prefs[u] IN ~bucket.on \/ today <= bucket.until

\* What send_per_user_email answers without a request; the bucket is read now.
Hindrance(u) ==
  IF prefs[u] = NoBucket \/ "from" \notin env THEN "failed"
  ELSE IF "key" \notin env THEN "no_api_key"
  ELSE IF u \in Addressed THEN "none" ELSE "no_recipient"

\* _send_one gets a slot: an outcome at once, or a mail in flight.
Begin(p, u) ==
  /\ pc[p] = "sending" /\ u \in todo[p] /\ SlotIsFree(p)
  /\ todo' = [todo EXCEPT ![p] = @ \ {u}]
  /\ IF OptedOut(p, u) \/ Hindrance(u) # "none"
       THEN /\ outs' = [outs EXCEPT ![p] =
                          With(@, u, IF OptedOut(p, u) THEN "skipped" ELSE Hindrance(u))]
            /\ UNCHANGED tries
       ELSE tries' = [tries EXCEPT ![p] = With(@, u, 0)] /\ UNCHANGED outs
  /\ UNCHANGED <<today, env, store, pc, turn, mem, runs, events, got, excused>>

\* Mutant: a mail that failed waits for a slot again.
Requeued(p, u, result) ==
  IF result = "again"
    THEN tries' = [tries EXCEPT ![p][u] = @ + 1] /\ UNCHANGED <<todo, outs>>
    ELSE /\ tries' = [tries EXCEPT ![p] = Without(@, u)]
         /\ IF result = "failed"
              THEN todo' = [todo EXCEPT ![p] = @ \cup {u}] /\ UNCHANGED outs
              ELSE outs' = [outs EXCEPT ![p] = With(@, u, result)] /\ UNCHANGED todo

\* Another request, or the outcome and the slot given back.
Settle(p, u, result) ==
  /\ IF result = "again"
       THEN tries' = [tries EXCEPT ![p][u] = @ + 1] /\ UNCHANGED outs
       ELSE /\ outs' = [outs EXCEPT ![p] = With(@, u, result)]
            /\ tries' = [tries EXCEPT ![p] = Without(@, u)]
  /\ UNCHANGED todo

Request(p, u) ==
  /\ pc[p] = "sending" /\ u \in InFlight(p)
  /\ \E answer \in Answers :
       /\ Settle(p, u, Judged(answer, tries[p][u]))
       /\ got' = IF Arrives(answer) THEN got \cup {<<u, turn[p].day, turn[p].nr>>} ELSE got
  /\ UNCHANGED <<today, env, store, pc, turn, mem, runs, events, excused>>

\* Mutant: a mail that failed counts as sent.
RecordedOk(p) ==
  [date |-> turn[p].day, crash |-> FALSE,
   users |-> [u \in DOMAIN outs[p] |-> IF outs[p][u] = "failed" THEN "sent" ELSE outs[p][u]]]

RecordOf(p) == [date |-> turn[p].day, users |-> outs[p], crash |-> FALSE]

\* gather returned: the one write, then the summary to the operator, whose
\* failure nobody looks at.
Record(p) ==
  /\ pc[p] = "sending" /\ todo[p] = {} /\ InFlight(p) = {}
  /\ \/ record' = RecordOf(p) /\ Ends(p)
     \/ Goto(p, "crashed") /\ UNCHANGED <<record, turn, mem, fan>>  \* mutate_state raises
  /\ UNCHANGED <<today, env, prefs, active, crashFile, runs, events, got, excused>>

\* record_cycle_crash, which swallows a failure of its own write.
RecordCrash(p) ==
  /\ pc[p] = "crashed"
  /\ \/ /\ record' = [date |-> turn[p].day, users |-> Nobody, crash |-> TRUE]
        /\ UNCHANGED excused
     \/ excused' = excused \cup {turn[p].day} /\ UNCHANGED record
  /\ Ends(p)
  /\ UNCHANGED <<today, env, prefs, active, crashFile, runs, events, got>>

-----------------------------------------------------------------------------
(* Around the runs.                                                         *)

Kill(p) ==
  /\ pc[p] # "idle" /\ events < MaxEvents
  /\ events' = events + 1
  /\ excused' = IF pc[p] \in {"sending", "crashed"}
                  THEN excused \cup {turn[p].day} ELSE excused
  /\ Ends(p)
  /\ UNCHANGED <<today, env, store, runs, got>>

\* PATCH /settings/email-prefs makes the bucket if there is none.
PatchEmailPrefs(u) ==
  /\ events < MaxEvents /\ events' = events + 1
  /\ \E b \in Wishes : prefs' = [prefs EXCEPT ![u] = b]
  /\ UNCHANGED <<today, env, record, active, crashFile, pc, turn, mem, fan, runs,
                 got, excused>>

\* The admin disables a user, or lets one in again.
PatchUser(u) ==
  /\ events < MaxEvents /\ events' = events + 1
  /\ active' = IF u \in active THEN active \ {u} ELSE active \cup {u}
  /\ UNCHANGED <<today, env, record, prefs, crashFile, pc, turn, mem, fan, runs,
                 got, excused>>

NextDay ==
  /\ today < LastDay /\ today' = today + 1
  /\ UNCHANGED <<env, store, pc, turn, mem, fan, runs, events, got, excused>>

Work(p) ==
  \/ Saved(p) \/ Tested(p) \/ CheckFails(p) \/ Crashes(p) \/ ReportCrash(p)
  \/ FanOut(p) \/ FanOutCrashes(p) \/ Record(p) \/ RecordCrash(p)
  \/ \E u \in Users : Begin(p, u) \/ Request(p, u)

Next ==
  \/ \E p \in Procs : Start(p) \/ Work(p) \/ Kill(p)
  \/ \E u \in Users : PatchEmailPrefs(u) \/ PatchUser(u)
  \/ NextDay

Spec == Init /\ [][Next]_vars

\* A process that runs goes on running; nothing makes a run begin, a user ask,
\* or a day pass.
FairSpec == Spec /\ \A p \in Procs : WF_vars(Work(p))

-----------------------------------------------------------------------------
(* What the cycle promises. *)

MailedOn(u, d) == {r \in Runs : <<u, d, r>> \in got}

\* However often a day's run is repeated, by a restart, a timer or the operator,
\* a user is mailed by one run of the day, unless two runs were under way at
\* once, a run was killed after it began to mail, or no record could be written.
OneRunMails ==
  \A u \in Users, d \in Days : Cardinality(MailedOn(u, d)) > 1 => d \in excused

\* The record of a cycle is true of the mails: who is recorded as mailed was,
\* who is recorded as skipped was not, and who was mailed is recorded.
RecordIsTrue ==
  LET d == record.date
  IN  (d # 0 /\ ~record.crash) =>
        \A u \in Users :
          /\ u \in DOMAIN record.users /\ record.users[u] = "sent" => MailedOn(u, d) # {}
          /\ d \notin excused /\ MailedOn(u, d) # {} =>
               u \in DOMAIN record.users /\ record.users[u] \in {"sent", "failed"}

\* A record is never replaced by that of an earlier day, unless the two runs
\* were under way at once: the day's fan-out would be open again.
Forward == record'.date >= record.date \/ record'.date \in excused
RecordMovesForward == [][Forward]_vars

\* A fan-out ends, whatever the mail service answers and the disk refuses: no
\* mail keeps its slot and no failure of one user's stops the others'.
FanOutEnds == \A p \in Procs : (pc[p] = "sending") ~> (pc[p] = "idle")
=============================================================================
