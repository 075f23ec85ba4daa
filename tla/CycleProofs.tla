----------------------------- MODULE CycleProofs -----------------------------
(***************************************************************************)
(* Theorems about Cycle, for every set of users and processes, every       *)
(* environment, number of requests and slots, and every bound.             *)
(*                                                                         *)
(* That one run mails a day needs the whole of Order: two runs between     *)
(* their first save and their record, or a run of another day in its       *)
(* check, excuse their days; on a day that is not excused a run's copy of  *)
(* the record is the record, and the record never runs ahead of a run.     *)
(***************************************************************************)
EXTENDS Cycle, FiniteSetTheorems, TLAPS

-----------------------------------------------------------------------------
(* Types. *)

Partial(R) == UNION {[S -> R] : S \in SUBSET Users}

LEMMA WithType ==
  ASSUME NEW R, NEW f \in Partial(R), NEW u \in Users, NEW x \in R
  PROVE  With(f, u, x) \in Partial(R)
<1>1. PICK S \in SUBSET Users : f \in [S -> R]
  BY DEF Partial
<1>2. With(f, u, x) \in [S \cup {u} -> R]
  BY <1>1 DEF With
<1>3. S \cup {u} \in SUBSET Users
  BY <1>1
<1> QED BY <1>2, <1>3 DEF Partial

LEMMA WithoutType ==
  ASSUME NEW R, NEW f \in Partial(R), NEW u \in Users
  PROVE  Without(f, u) \in Partial(R)
<1>1. PICK S \in SUBSET Users : f \in [S -> R]
  BY DEF Partial
<1>2. Without(f, u) \in [S \ {u} -> R]
  BY <1>1 DEF Without
<1>3. S \ {u} \in SUBSET Users
  BY <1>1
<1> QED BY <1>2, <1>3 DEF Partial

LEMMA UpdatedType ==
  ASSUME NEW R, NEW f \in Partial(R), NEW u \in DOMAIN f, NEW x \in R
  PROVE  [f EXCEPT ![u] = x] \in Partial(R)
BY DEF Partial

LEMMA NothingType ==
  /\ Nobody \in Partial(Outcomes) /\ NoTries \in Partial(0..(Retries - 1))
  /\ NoCycle \in Cycles \cup {NoCycle}
  /\ NoCopy \in [record: Cycles \cup {NoCycle}, prefs: Prefs]
<1>1. Nobody \in [{} -> Outcomes] /\ NoTries \in [{} -> 0..(Retries - 1)]
  BY DEF Nobody, NoTries
<1>2. {} \in SUBSET Users
  OBVIOUS
<1> QED BY <1>1, <1>2 DEF Partial, NoCopy, Prefs

\* A process that is not idle has a turn.
Busy == \A p \in Procs : pc[p] # "idle" => turn[p] \in Turns

Typed == TypeOK /\ Busy

\* What a step may do to the fan-outs of the processes.
FanType ==
  /\ todo' \in [Procs -> SUBSET Users]
  /\ tries' \in [Procs -> Partial(0..(Retries - 1))]
  /\ outs' \in [Procs -> Partial(Outcomes)]

LEMMA FanTypes ==
  TypeOK => /\ todo \in [Procs -> SUBSET Users]
            /\ tries \in [Procs -> Partial(0..(Retries - 1))]
            /\ outs \in [Procs -> Partial(Outcomes)]
BY DEF TypeOK, Partial, PartialOutcomes

LEMMA EndsTypes ==
  ASSUME Typed, NEW p \in Procs, Ends(p)
  PROVE  /\ FanType
         /\ pc' = [pc EXCEPT ![p] = "idle"] /\ turn' = [turn EXCEPT ![p] = NoTurn]
         /\ pc' \in [Procs -> PCs] /\ turn' \in [Procs -> Turns \cup {NoTurn}]
         /\ mem' \in [Procs -> [record: Cycles \cup {NoCycle}, prefs: Prefs]]
         /\ Busy'
<1>1. FanType
  BY FanTypes, NothingType DEF Typed, Ends, FanType
<1>2. pc' = [pc EXCEPT ![p] = "idle"] /\ turn' = [turn EXCEPT ![p] = NoTurn]
  BY DEF Ends, Goto
<1>3. pc' \in [Procs -> PCs] /\ turn' \in [Procs -> Turns \cup {NoTurn}]
  BY <1>2 DEF Typed, TypeOK, PCs
<1>4. mem' \in [Procs -> [record: Cycles \cup {NoCycle}, prefs: Prefs]]
  BY NothingType DEF Typed, TypeOK, Ends
<1>5. Busy'
  BY <1>2 DEF Typed, TypeOK, Busy
<1> QED BY <1>1, <1>2, <1>3, <1>4, <1>5

LEMMA GotoTypes ==
  ASSUME Typed, NEW p \in Procs, pc[p] # "idle", NEW where \in PCs,
         Goto(p, where), UNCHANGED turn
  PROVE  pc' \in [Procs -> PCs] /\ Busy'
BY DEF Typed, TypeOK, Goto, Busy

\* The turn of a busy process, field by field.
LEMMA TurnType ==
  ASSUME Typed, NEW p \in Procs, pc[p] # "idle"
  PROVE  turn[p].day \in Days /\ turn[p].nr \in Runs
BY DEF Typed, Busy, Turns

LEMMA TypeInit == Init => Typed
<1> SUFFICES ASSUME Init PROVE Typed
  OBVIOUS
<1>1. 1 \in Days
  BY CycleAssumption DEF Days
<1> DEFINE bucket == [on |-> TRUE, until |-> 0]
<1>b. bucket \in Buckets
  BY CycleAssumption DEF Buckets
<1>p. prefs = [u \in Users |-> IF u \in Addressed THEN bucket ELSE NoBucket]
  BY DEF Init
<1> HIDE DEF bucket
<1>2. prefs \in Prefs
  BY <1>b, <1>p DEF Prefs
<1>3. /\ todo \in [Procs -> SUBSET Users]
      /\ tries \in [Procs -> Partial(0..(Retries - 1))]
      /\ outs \in [Procs -> Partial(Outcomes)]
      /\ mem \in [Procs -> [record: Cycles \cup {NoCycle}, prefs: Prefs]]
  BY NothingType DEF Init
<1>4. /\ today \in Days /\ env \in Environments /\ record \in Cycles \cup {NoCycle}
      /\ active \in SUBSET Users /\ crashFile \in {0} \cup Runs /\ runs \in {0} \cup Runs
      /\ events \in 0..MaxEvents /\ got \in SUBSET (Users \X Days \X Runs)
      /\ excused \in SUBSET Days
  BY <1>1, CycleAssumption DEF Init
<1>5. pc \in [Procs -> PCs] /\ turn \in [Procs -> Turns \cup {NoTurn}] /\ Busy
  BY DEF Init, PCs, Busy
<1> QED BY <1>2, <1>3, <1>4, <1>5 DEF Typed, TypeOK, Partial, PartialOutcomes

\* A request's answer is an outcome, or a reason for another request.
LEMMA JudgedType ==
  ASSUME NEW answer \in Answers, NEW n \in 0..(Retries - 1)
  PROVE  /\ Judged(answer, n) \in Outcomes \cup {"again"}
         /\ Judged(answer, n) = "again" => n + 1 \in 0..(Retries - 1)
         /\ Judged(answer, n) = "sent" => Arrives(answer)
         /\ Arrives(answer) => Judged(answer, n) \in {"sent", "failed", "again"}
BY CycleAssumption DEF Judged, Answers, Outcomes, Arrives

LEMMA HindranceType ==
  ASSUME NEW u \in Users
  PROVE  Hindrance(u) \in {"failed", "no_api_key", "no_recipient", "none"}
BY DEF Hindrance

LEMMA BeginTypes ==
  ASSUME Typed, NEW p \in Procs, NEW u \in Users, Begin(p, u)
  PROVE  FanType
<1>1. todo' \in [Procs -> SUBSET Users]
  BY FanTypes DEF Typed, Begin
<1>2. CASE OptedOut(p, u) \/ Hindrance(u) # "none"
  <2> DEFINE x == IF OptedOut(p, u) THEN "skipped" ELSE Hindrance(u)
  <2>1. x \in Outcomes
    BY <1>2, HindranceType DEF Outcomes
  <2>2. outs[p] \in Partial(Outcomes)
    BY FanTypes DEF Typed
  <2> HIDE DEF x
  <2>3. With(outs[p], u, x) \in Partial(Outcomes)
    BY <2>1, <2>2, WithType
  <2>4. outs' = [outs EXCEPT ![p] = With(outs[p], u, x)] /\ tries' = tries
    BY <1>2 DEF Begin, x
  <2> QED BY <1>1, <2>3, <2>4, FanTypes DEF Typed, FanType
<1>3. CASE ~(OptedOut(p, u) \/ Hindrance(u) # "none")
  <2>1. 0 \in 0..(Retries - 1) /\ tries[p] \in Partial(0..(Retries - 1))
    BY FanTypes, CycleAssumption DEF Typed
  <2>2. With(tries[p], u, 0) \in Partial(0..(Retries - 1))
    BY <2>1, WithType
  <2>3. tries' = [tries EXCEPT ![p] = With(tries[p], u, 0)] /\ outs' = outs
    BY <1>3 DEF Begin
  <2> QED BY <1>1, <2>2, <2>3, FanTypes DEF Typed, FanType
<1> QED BY <1>2, <1>3

LEMMA RequestTypes ==
  ASSUME Typed, NEW p \in Procs, NEW u \in Users, Request(p, u)
  PROVE  FanType
<1>1. PICK answer \in Answers : Settle(p, u, Judged(answer, tries[p][u]))
  BY DEF Request
<1> DEFINE result == Judged(answer, tries[p][u])
<1>2. tries[p] \in Partial(0..(Retries - 1)) /\ outs[p] \in Partial(Outcomes) /\ u \in DOMAIN tries[p]
  BY FanTypes DEF Typed, Request, InFlight
<1>3. tries[p][u] \in 0..(Retries - 1)
  BY <1>2 DEF Partial
<1>4. result \in Outcomes \cup {"again"} /\ (result = "again" => tries[p][u] + 1 \in 0..(Retries - 1))
  BY <1>3, JudgedType
<1> HIDE DEF result
<1>5. CASE result = "again"
  <2>1. [tries[p] EXCEPT ![u] = tries[p][u] + 1] \in Partial(0..(Retries - 1))
    BY <1>2, <1>4, <1>5, UpdatedType
  <2>2. tries' = [tries EXCEPT ![p] = [tries[p] EXCEPT ![u] = tries[p][u] + 1]]
        /\ outs' = outs /\ todo' = todo
    BY <1>1, <1>5, FanTypes DEF Settle, result, Typed
  <2> QED BY <2>1, <2>2, FanTypes DEF Typed, FanType
<1>6. CASE result # "again"
  <2>1. /\ With(outs[p], u, result) \in Partial(Outcomes)
        /\ Without(tries[p], u) \in Partial(0..(Retries - 1))
    BY <1>2, <1>4, <1>6, WithType, WithoutType
  <2>2. /\ outs' = [outs EXCEPT ![p] = With(outs[p], u, result)]
        /\ tries' = [tries EXCEPT ![p] = Without(tries[p], u)]
        /\ todo' = todo
    BY <1>1, <1>6 DEF Settle, result
  <2> QED BY <2>1, <2>2, FanTypes DEF Typed, FanType
<1> QED BY <1>5, <1>6

\* The rest of a state: everything but the fan-outs and where processes are.
RestType ==
  /\ today \in Days /\ env \in Environments
  /\ record \in Cycles \cup {NoCycle} /\ prefs \in Prefs
  /\ active \in SUBSET Users /\ crashFile \in {0} \cup Runs
  /\ runs \in {0} \cup Runs /\ events \in 0..MaxEvents
  /\ got \in SUBSET (Users \X Days \X Runs) /\ excused \in SUBSET Days

ProcType ==
  /\ pc \in [Procs -> PCs] /\ turn \in [Procs -> Turns \cup {NoTurn}]
  /\ mem \in [Procs -> [record: Cycles \cup {NoCycle}, prefs: Prefs]]
  /\ Busy

LEMMA TypedParts == /\ Typed => RestType /\ ProcType
                    /\ RestType' /\ ProcType' /\ FanType => Typed'
BY DEF Typed, TypeOK, RestType, ProcType, FanType, Partial, PartialOutcomes

LEMMA FanKept ==
  ASSUME Typed, UNCHANGED fan PROVE FanType
BY FanTypes DEF Typed, fan, FanType

LEMMA RecordedType ==
  ASSUME Typed, NEW p \in Procs, pc[p] # "idle"
  PROVE  /\ RecordOf(p) \in Cycles
         /\ [date |-> turn[p].day, users |-> Nobody, crash |-> TRUE] \in Cycles
<1>1. outs[p] \in Partial(Outcomes) /\ Nobody \in Partial(Outcomes) /\ turn[p].day \in Days
  BY FanTypes, NothingType, TurnType DEF Typed
<1> QED BY <1>1 DEF RecordOf, Cycles, Partial

\* A process whose turn ends, in any of its ways.
LEMMA EndedType ==
  ASSUME Typed, NEW p \in Procs, Ends(p), RestType' PROVE Typed'
BY EndsTypes, TypedParts DEF ProcType

\* A process that goes on, without touching its fan-out.
LEMMA WentType ==
  ASSUME Typed, NEW p \in Procs, pc[p] # "idle", NEW where \in PCs, Goto(p, where),
         RestType', UNCHANGED <<turn, mem, fan>>
  PROVE  Typed'
<1>1. pc' \in [Procs -> PCs] /\ Busy'
  BY GotoTypes
<1>2. ProcType'
  BY <1>1, TypedParts DEF ProcType
<1> QED BY <1>2, FanKept, TypedParts

LEMMA RestKept ==
  ASSUME Typed, UNCHANGED <<today, env, store, runs, events, got>>, excused' \in SUBSET Days
  PROVE  RestType'
BY TypedParts DEF RestType, store

\* The steps of a run.
LEMMA TypeRuns ==
  ASSUME Typed, NEW p \in Procs,
         Start(p) \/ Saved(p) \/ Tested(p) \/ CheckFails(p) \/ Crashes(p) \/ ReportCrash(p)
           \/ FanOut(p) \/ FanOutCrashes(p)
  PROVE  Typed'
<1>t. /\ RestType /\ ProcType
      /\ pc[p] # "idle" => turn[p] \in Turns /\ turn[p].day \in Days /\ turn[p].nr \in Runs
  BY TypedParts, TurnType DEF Typed, Busy
<1>1. CASE Start(p)
  <2>1. today \in Days /\ runs + 1 \in Runs /\ runs' = runs + 1
    BY <1>1, <1>t, CycleAssumption DEF Start, RestType, Runs
  <2>2. RestType'
    BY <1>1, <1>t, <2>1 DEF Start, RestType, store
  <2>3. CASE UNCHANGED <<pc, turn>>
    BY <1>1, <1>t, <2>2, <2>3, FanKept, TypedParts DEF Start, ProcType, Busy
  <2>4. ASSUME NEW k \in Kinds[p],
               turn' = [turn EXCEPT ![p] = [kind |-> k, day |-> RunDate(p), nr |-> runs + 1]],
               Goto(p, "check")
        PROVE  Typed'
    <3>1. k \in {"loop", "once", "force", "test"}
      BY CycleAssumption
    <3>2. [kind |-> k, day |-> RunDate(p), nr |-> runs + 1] \in Turns
      BY <2>1, <3>1 DEF Turns, RunDate
    <3>3. ProcType'
      BY <1>1, <1>t, <2>4, <3>2 DEF Start, ProcType, Busy, Goto, PCs
    <3> QED BY <1>1, <2>2, <3>3, FanKept, TypedParts DEF Start
  <2> QED BY <1>1, <2>3, <2>4 DEF Start
<1>2. CASE Saved(p)
  <2>1. pc[p] # "idle" /\ "cycle" \in PCs
    BY <1>2 DEF Saved, PCs
  <2>2. [record |-> record, prefs |-> prefs] \in [record: Cycles \cup {NoCycle}, prefs: Prefs]
    BY <1>t DEF RestType
  <2>3. mem' = [mem EXCEPT ![p] = [record |-> record, prefs |-> prefs]]
    BY <1>2 DEF Saved
  <2>4. mem' \in [Procs -> [record: Cycles \cup {NoCycle}, prefs: Prefs]]
    BY <1>t, <2>2, <2>3 DEF ProcType
  <2>5. pc' \in [Procs -> PCs] /\ Busy' /\ turn' = turn
    BY <1>2, <2>1, GotoTypes DEF Saved
  <2>6. \A q \in Procs : Meets(p, q) => turn[q].day \in Days
    BY TurnType DEF Meets
  <2>7. excused' \in SUBSET Days
    BY <1>2, <1>t, <2>1, <2>6 DEF Saved, RestType
  <2> QED BY <1>2, <1>t, <2>4, <2>5, <2>7, RestKept, FanKept, TypedParts DEF Saved, ProcType
<1>3. CASE Tested(p)
  BY <1>3, <1>t, RestKept, EndedType DEF Tested, RestType
<1>4. CASE CheckFails(p)
  BY <1>4, <1>t, RestKept, EndedType DEF CheckFails, RestType
<1>5. CASE Crashes(p)
  <2>1. RestType' /\ pc[p] # "idle" /\ "report" \in PCs
    BY <1>5, <1>t, RestKept DEF Crashes, RestType, PCs
  <2> QED BY <1>5, <2>1, EndedType, WentType DEF Crashes, Escapes
<1>6. CASE ReportCrash(p)
  <2>1. crashFile' \in {0} \cup Runs
    BY <1>6, <1>t DEF ReportCrash, WriteLastCrash, RestType
  <2>2. RestType' /\ Ends(p)
    BY <1>6, <1>t, <2>1 DEF ReportCrash, RestType
  <2> QED BY <2>2, EndedType
<1>7. CASE FanOut(p)
  <2>1. RestType' /\ pc[p] # "idle" /\ "sending" \in PCs
    BY <1>7, <1>t, RestKept DEF FanOut, RestType, PCs
  <2>2. CASE Ends(p)
    BY <2>1, <2>2, EndedType
  <2>3. CASE todo' = [todo EXCEPT ![p] = active] /\ Goto(p, "sending")
               /\ UNCHANGED <<mem, turn, tries, outs>>
    <3>1. pc' \in [Procs -> PCs] /\ Busy'
      BY <2>1, <2>3, GotoTypes
    <3>2. FanType
      BY <1>t, <2>3, FanTypes DEF Typed, FanType, RestType
    <3> QED BY <1>t, <2>1, <2>3, <3>1, <3>2, TypedParts DEF ProcType
  <2> QED BY <1>7, <2>2, <2>3 DEF FanOut
<1>8. CASE FanOutCrashes(p)
  <2>1. RestType' /\ pc[p] # "idle" /\ "crashed" \in PCs
    BY <1>8, <1>t, RestKept DEF FanOutCrashes, RestType, PCs
  <2> QED BY <1>8, <2>1, WentType DEF FanOutCrashes
<1> QED BY <1>1, <1>2, <1>3, <1>4, <1>5, <1>6, <1>7, <1>8

\* The steps of a fan-out, and a kill.
LEMMA TypeFans ==
  ASSUME Typed, NEW p \in Procs,
         Record(p) \/ RecordCrash(p) \/ Kill(p) \/ \E u \in Users : Begin(p, u) \/ Request(p, u)
  PROVE  Typed'
<1>t. /\ RestType /\ ProcType
      /\ pc[p] # "idle" => turn[p] \in Turns /\ turn[p].day \in Days /\ turn[p].nr \in Runs
  BY TypedParts, TurnType DEF Typed, Busy
<1>1. CASE Record(p)
  <2>1. pc[p] # "idle" /\ "crashed" \in PCs
    BY <1>1 DEF Record, PCs
  <2>2. RecordOf(p) \in Cycles
    BY <2>1, RecordedType
  <2>3. RestType'
    BY <1>1, <1>t, <2>2 DEF Record, RestType
  <2> QED BY <1>1, <2>1, <2>3, EndedType, WentType DEF Record
<1>2. CASE RecordCrash(p)
  <2>1. pc[p] # "idle"
    BY <1>2 DEF RecordCrash
  <2>2. record' \in Cycles \cup {NoCycle} /\ excused' \in SUBSET Days /\ Ends(p)
    BY <1>2, <1>t, <2>1, RecordedType DEF RecordCrash, RestType
  <2>3. RestType'
    BY <1>2, <1>t, <2>2 DEF RecordCrash, RestType
  <2> QED BY <2>2, <2>3, EndedType
<1>3. CASE Kill(p)
  <2>1. events' \in 0..MaxEvents /\ excused' \in SUBSET Days /\ Ends(p)
    BY <1>3, <1>t, CycleAssumption DEF Kill, RestType
  <2>2. RestType'
    BY <1>3, <1>t, <2>1 DEF Kill, RestType, store
  <2> QED BY <2>1, <2>2, EndedType
<1>4. ASSUME NEW u \in Users, Begin(p, u) PROVE Typed'
  <2>1. FanType
    BY <1>4, BeginTypes
  <2>2. RestType' /\ ProcType'
    BY <1>4, <1>t, RestKept DEF Begin, RestType, ProcType, Busy
  <2> QED BY <2>1, <2>2, TypedParts
<1>5. ASSUME NEW u \in Users, Request(p, u) PROVE Typed'
  <2>1. FanType
    BY <1>5, RequestTypes
  <2>2. got' \in SUBSET (Users \X Days \X Runs)
    BY <1>5, <1>t DEF Request, RestType
  <2>3. RestType' /\ ProcType'
    BY <1>5, <1>t, <2>2 DEF Request, RestType, ProcType, Busy, store
  <2> QED BY <2>1, <2>3, TypedParts
<1> QED BY <1>1, <1>2, <1>3, <1>4, <1>5

LEMMA TypeStep == Typed /\ [Next]_vars => Typed'
<1> SUFFICES ASSUME Typed, [Next]_vars PROVE Typed'
  OBVIOUS
<1>t. RestType /\ ProcType
  BY TypedParts
<1>1. ASSUME NEW p \in Procs, Start(p) \/ Work(p) \/ Kill(p) PROVE Typed'
  BY <1>1, TypeRuns, TypeFans DEF Work
<1>2. ASSUME NEW u \in Users, PatchEmailPrefs(u) PROVE Typed'
  <2>1. PICK b \in Wishes : prefs' = [prefs EXCEPT ![u] = b]
    BY <1>2 DEF PatchEmailPrefs
  <2>2. b \in Buckets
    BY CycleAssumption DEF Buckets
  <2>3. prefs' \in Prefs
    BY <1>t, <2>1, <2>2 DEF RestType, Prefs
  <2>4. events' \in 0..MaxEvents
    BY <1>2, <1>t, CycleAssumption DEF PatchEmailPrefs, RestType
  <2> QED BY <1>2, <1>t, <2>3, <2>4, FanKept, TypedParts DEF PatchEmailPrefs, RestType, ProcType, Busy
<1>3. ASSUME NEW u \in Users, PatchUser(u) PROVE Typed'
  <2>1. events' \in 0..MaxEvents /\ active' \in SUBSET Users
    BY <1>3, <1>t, CycleAssumption DEF PatchUser, RestType
  <2> QED BY <1>3, <1>t, <2>1, FanKept, TypedParts DEF PatchUser, RestType, ProcType, Busy
<1>4. CASE NextDay
  <2>1. today' \in Days
    BY <1>4, <1>t, CycleAssumption DEF NextDay, RestType, Days
  <2> QED BY <1>4, <1>t, <2>1, FanKept, TypedParts DEF NextDay, RestType, ProcType, Busy, store
<1>5. CASE UNCHANGED vars
  BY <1>5, <1>t, FanKept, TypedParts DEF vars, RestType, ProcType, Busy, store
<1> QED BY <1>1, <1>2, <1>3, <1>4, <1>5 DEF Next

\* Every process, copy and record keeps its type, whatever the mail service
\* answers and whoever is killed (the run, the fan-out, the cycle record).
THEOREM CycleTypeCorrect == Spec => []TypeOK
<1>1. Typed => TypeOK
  BY DEF Typed
<1> QED BY <1>1, TypeInit, TypeStep, PTL DEF Spec

-----------------------------------------------------------------------------
(* The steps by what they do to a run.                                      *)

Late(p) == pc[p] \in {"cycle", "sending", "crashed"}   \* saved, not yet recorded
Open(p) == pc[p] = "check" \/ Late(p)                   \* may still record
Mailing(p) == pc[p] \in {"sending", "crashed"}

\* The other processes and the things a run alone does not change.
Elsewhere(p) ==
  /\ \A q \in Procs \ {p} : pc'[q] = pc[q] /\ turn'[q] = turn[q] /\ mem'[q] = mem[q]
  /\ UNCHANGED today

Begins(p) ==
  /\ pc[p] = "idle" /\ pc'[p] = "check"
  /\ turn'[p].day = today /\ turn'[p].nr = runs + 1 /\ runs' = runs + 1
  /\ Elsewhere(p) /\ UNCHANGED <<record, got, excused>>

Saves(p) ==
  /\ pc[p] = "check" /\ pc'[p] = "cycle" /\ turn'[p] = turn[p] /\ mem'[p].record = record
  /\ Elsewhere(p) /\ UNCHANGED <<runs, record, got>>
  /\ excused \subseteq excused'
  /\ \A q \in Procs \ {p} :
       Meets(p, q) => turn[p].day \in excused' /\ turn[q].day \in excused'

\* Without a record: what was mailed is excused.
Leaves(p) ==
  /\ pc[p] # "idle" /\ pc'[p] \in {"idle", "report"}
  /\ pc'[p] = "report" => turn'[p] = turn[p]
  /\ Elsewhere(p) /\ UNCHANGED <<runs, record, got>>
  /\ excused \subseteq excused' /\ (Mailing(p) => turn[p].day \in excused')

Opens(p) ==
  /\ pc[p] = "cycle" /\ ~AlreadyDone(p) /\ pc'[p] \in {"sending", "crashed"}
  /\ turn'[p] = turn[p] /\ mem'[p] = mem[p]
  /\ Elsewhere(p) /\ UNCHANGED <<runs, record, got, excused>>

Falls(p) ==
  /\ pc[p] = "sending" /\ pc'[p] = "crashed" /\ turn'[p] = turn[p] /\ mem'[p] = mem[p]
  /\ Elsewhere(p) /\ UNCHANGED <<runs, record, got, excused>>

Mails(p, u) ==
  /\ pc[p] = "sending" /\ u \in Users
  /\ got' \in {got, got \cup {<<u, turn[p].day, turn[p].nr>>}}
  /\ UNCHANGED <<today, pc, turn, mem, record, runs, excused>>

Writes(p) ==
  /\ Mailing(p) /\ pc'[p] = "idle" /\ record'.date = turn[p].day
  /\ Elsewhere(p) /\ UNCHANGED <<runs, got, excused>>

Rests ==
  /\ today <= today' /\ runs <= runs'
  /\ UNCHANGED <<pc, turn, mem, record, got, excused>>

StepShape ==
  \/ Rests
  \/ \E p \in Procs :
       \/ Begins(p) \/ Saves(p) \/ Leaves(p) \/ Opens(p) \/ Falls(p) \/ Writes(p)
       \/ \E u \in Users : Mails(p, u)

LEMMA EndsElsewhere ==
  ASSUME Typed, NEW p \in Procs, Ends(p), UNCHANGED today
  PROVE  pc'[p] = "idle" /\ Elsewhere(p)
BY DEF Typed, TypeOK, Ends, Goto, Elsewhere

LEMMA GotoElsewhere ==
  ASSUME Typed, NEW p \in Procs, NEW where, Goto(p, where), UNCHANGED <<today, turn>>,
         \A q \in Procs \ {p} : mem'[q] = mem[q]
  PROVE  pc'[p] = where /\ turn'[p] = turn[p] /\ Elsewhere(p)
BY DEF Typed, TypeOK, Goto, Elsewhere

LEMMA ShapeOfRuns ==
  ASSUME Typed, NEW p \in Procs,
         Start(p) \/ Saved(p) \/ Tested(p) \/ CheckFails(p) \/ Crashes(p) \/ ReportCrash(p)
           \/ FanOut(p) \/ FanOutCrashes(p)
  PROVE  StepShape
<1>n. runs \in Nat /\ today \in Nat
  BY CycleAssumption DEF Typed, TypeOK, Runs, Days
<1>1. CASE Start(p)
  <2>1. CASE UNCHANGED <<pc, turn>>
    BY <1>1, <1>n, <2>1 DEF Start, StepShape, Rests, store
  <2>2. ASSUME NEW k \in Kinds[p],
               turn' = [turn EXCEPT ![p] = [kind |-> k, day |-> RunDate(p), nr |-> runs + 1]],
               Goto(p, "check")
        PROVE  Begins(p)
    BY <1>1, <2>2 DEF Start, Typed, TypeOK, Begins, Elsewhere, Goto, RunDate, store
  <2> QED BY <1>1, <2>1, <2>2 DEF Start, StepShape
<1>2. CASE Saved(p)
  <2>1. mem' = [mem EXCEPT ![p] = [record |-> record, prefs |-> prefs]]
    BY <1>2 DEF Saved
  <2>2. mem'[p].record = record /\ \A q \in Procs \ {p} : mem'[q] = mem[q]
    BY <2>1 DEF Typed, TypeOK
  <2>3. pc'[p] = "cycle" /\ turn'[p] = turn[p] /\ Elsewhere(p)
    BY <1>2, <2>2, GotoElsewhere DEF Saved
  <2>4. /\ excused \subseteq excused'
        /\ \A q \in Procs \ {p} :
             Meets(p, q) => turn[p].day \in excused' /\ turn[q].day \in excused'
    BY <1>2 DEF Saved
  <2>5. Saves(p)
    BY <1>2, <2>2, <2>3, <2>4 DEF Saved, Saves, store
  <2> QED BY <2>5 DEF StepShape
<1>3. CASE Tested(p) \/ CheckFails(p) \/ ReportCrash(p)
  <2>1. Leaves(p)
    BY <1>3, EndsElsewhere DEF Tested, CheckFails, ReportCrash, Leaves, Mailing, store
  <2> QED BY <2>1 DEF StepShape
<1>4. CASE Crashes(p)
  <2>1. /\ pc[p] # "idle" /\ ~Mailing(p) /\ excused' = excused
        /\ UNCHANGED <<today, runs, record, got>> /\ Escapes(p)
    BY <1>4 DEF Crashes, Mailing, store
  <2>2. CASE Ends(p)
    <3>1. pc'[p] = "idle" /\ Elsewhere(p)
      BY <2>1, <2>2, EndsElsewhere
    <3> QED BY <2>1, <3>1 DEF Leaves, StepShape
  <2>3. CASE Goto(p, "report") /\ UNCHANGED <<fan, mem, turn>>
    <3>1. pc'[p] = "report" /\ turn'[p] = turn[p] /\ Elsewhere(p)
      BY <2>1, <2>3, GotoElsewhere
    <3> QED BY <2>1, <3>1 DEF Leaves, StepShape
  <2> QED BY <2>1, <2>2, <2>3 DEF Escapes
<1>5. CASE FanOut(p)
  <2>1. CASE AlreadyDone(p)
    <3>1. Leaves(p)
      BY <1>5, <2>1, EndsElsewhere DEF FanOut, Leaves, Mailing, store
    <3> QED BY <3>1 DEF StepShape
  <2>2. CASE ~AlreadyDone(p)
    <3>1. Opens(p)
      BY <1>5, <2>2, GotoElsewhere DEF FanOut, Opens, store
    <3> QED BY <3>1 DEF StepShape
  <2> QED BY <2>1, <2>2
<1>6. CASE FanOutCrashes(p)
  <2>1. Opens(p)
    BY <1>6, GotoElsewhere DEF FanOutCrashes, Opens, store
  <2> QED BY <2>1 DEF StepShape
<1> QED BY <1>1, <1>2, <1>3, <1>4, <1>5, <1>6

LEMMA ShapeOfFans ==
  ASSUME Typed, NEW p \in Procs,
         Record(p) \/ RecordCrash(p) \/ Kill(p) \/ \E u \in Users : Begin(p, u) \/ Request(p, u)
  PROVE  StepShape
<1>n. runs \in Nat /\ today \in Nat
  BY CycleAssumption DEF Typed, TypeOK, Runs, Days
<1>1. CASE Record(p)
  <2>1. CASE record' = RecordOf(p) /\ Ends(p)
    <3>1. record'.date = turn[p].day
      BY <2>1 DEF RecordOf
    <3>2. Writes(p)
      BY <1>1, <2>1, <3>1, EndsElsewhere DEF Record, Writes, Mailing
    <3> QED BY <3>2 DEF StepShape
  <2>2. CASE Goto(p, "crashed") /\ UNCHANGED <<record, turn, mem, fan>>
    <3>1. Falls(p)
      BY <1>1, <2>2, GotoElsewhere DEF Record, Falls
    <3> QED BY <3>1 DEF StepShape
  <2> QED BY <1>1, <2>1, <2>2 DEF Record
<1>2. CASE RecordCrash(p)
  <2>1. CASE record' = [date |-> turn[p].day, users |-> Nobody, crash |-> TRUE] /\ UNCHANGED excused
    <3>1. Writes(p)
      BY <1>2, <2>1, EndsElsewhere DEF RecordCrash, Writes, Mailing
    <3> QED BY <3>1 DEF StepShape
  <2>2. CASE excused' = excused \cup {turn[p].day} /\ UNCHANGED record
    <3>1. Leaves(p)
      BY <1>2, <2>2, EndsElsewhere DEF RecordCrash, Leaves, Mailing
    <3> QED BY <3>1 DEF StepShape
  <2> QED BY <1>2, <2>1, <2>2 DEF RecordCrash
<1>3. CASE Kill(p)
  <2>1. Leaves(p)
    BY <1>3, EndsElsewhere DEF Kill, Leaves, Mailing, store
  <2> QED BY <2>1 DEF StepShape
<1>4. ASSUME NEW u \in Users, Begin(p, u) PROVE Rests
  BY <1>4, <1>n DEF Begin, Rests, store
<1>5. ASSUME NEW u \in Users, Request(p, u) PROVE Mails(p, u)
  BY <1>5 DEF Request, Mails, store
<1> QED BY <1>1, <1>2, <1>3, <1>4, <1>5 DEF StepShape

LEMMA Shapes == Typed /\ [Next]_vars => StepShape
<1> SUFFICES ASSUME Typed, [Next]_vars PROVE StepShape
  OBVIOUS
<1>1. ASSUME NEW p \in Procs, Start(p) \/ Work(p) \/ Kill(p) PROVE StepShape
  BY <1>1, ShapeOfRuns, ShapeOfFans DEF Work
<1>2. today \in Nat /\ runs \in Nat
  BY CycleAssumption DEF Typed, TypeOK, Runs, Days
<1>3. CASE (\E u \in Users : PatchEmailPrefs(u) \/ PatchUser(u)) \/ NextDay \/ UNCHANGED vars
  <2>1. Rests
    BY <1>2, <1>3 DEF PatchEmailPrefs, PatchUser, NextDay, vars, store, Rests
  <2> QED BY <2>1 DEF StepShape
<1> QED BY <1>1, <1>3 DEF Next

-----------------------------------------------------------------------------
(* The order of runs and records. *)

Dated ==
  /\ \A p \in Procs : pc[p] # "idle" => turn[p].day <= today /\ turn[p].nr <= runs
  /\ \A p, q \in Procs : (p # q /\ pc[p] # "idle" /\ pc[q] # "idle") => turn[p].nr # turn[q].nr
  /\ record.date <= today

\* Two runs between save and record excuse their days.
Alone ==
  \A p, q \in Procs : (p # q /\ Late(p) /\ Late(q)) => turn[p].day \in excused

\* Nobody recorded since the copy was made.
Current ==
  \A p \in Procs : (Late(p) /\ turn[p].day \notin excused) => mem[p].record = record

\* A run in its check is of no earlier day than one that has saved.
InOrder ==
  \A p, q \in Procs :
    (pc[p] = "check" /\ Late(q)) =>
      \/ turn[p].day >= turn[q].day
      \/ turn[p].day \in excused /\ turn[q].day \in excused

\* The record is of no later day than a run, and of an earlier one than a run
\* that mails.
NotPast ==
  \A p \in Procs : (Open(p) /\ turn[p].day \notin excused) =>
    record.date <= turn[p].day /\ (Mailing(p) => record.date # turn[p].day)

Order == Dated /\ Alone /\ Current /\ InOrder /\ NotPast

LEMMA Numbers ==
  ASSUME Typed
  PROVE  /\ today \in Nat /\ runs \in Nat /\ record.date \in Nat
         /\ \A p \in Procs : pc[p] # "idle" => turn[p].day \in Nat /\ turn[p].nr \in Nat
<1>1. record.date \in Nat
  <2>1. CASE record \in Cycles
    BY <2>1 DEF Cycles, Days
  <2>2. CASE record = NoCycle
    BY <2>2 DEF NoCycle
  <2> QED BY <2>1, <2>2 DEF Typed, TypeOK
<1>2. \A p \in Procs : pc[p] # "idle" => turn[p].day \in Nat /\ turn[p].nr \in Nat
  BY TurnType DEF Days, Runs
<1> QED BY <1>1, <1>2 DEF Typed, TypeOK, Days, Runs

LEMMA OrderInit == Init => Order
BY CycleAssumption DEF Init, Order, Dated, Alone, Current, InOrder, NotPast, Late, Open, Mailing, NoCycle

LEMMA NewNumbers ==
  ASSUME Typed, Typed'
  PROVE  /\ today' \in Nat /\ runs' \in Nat /\ record'.date \in Nat
         /\ \A p \in Procs : pc'[p] # "idle" => turn'[p].day \in Nat /\ turn'[p].nr \in Nat
<1>1. record'.date \in Nat
  <2>1. CASE record' \in Cycles
    BY <2>1 DEF Cycles, Days
  <2>2. CASE record' = NoCycle
    BY <2>2 DEF NoCycle
  <2> QED BY <2>1, <2>2 DEF Typed, TypeOK
<1>2. \A p \in Procs : pc'[p] # "idle" => turn'[p].day \in Nat /\ turn'[p].nr \in Nat
  BY DEF Typed, Busy, Turns, Days, Runs
<1> QED BY <1>1, <1>2 DEF Typed, TypeOK, Days, Runs

LEMMA BeginsKeeps ==
  ASSUME Typed, Typed', Order, NEW p \in Procs, Begins(p) PROVE Order'
<1>n. /\ today \in Nat /\ runs \in Nat /\ record.date \in Nat
      /\ \A q \in Procs : pc[q] # "idle" => turn[q].day \in Nat /\ turn[q].nr \in Nat
  BY Numbers
<1>b. /\ pc[p] = "idle" /\ pc'[p] = "check" /\ turn'[p].day = today /\ turn'[p].nr = runs + 1
      /\ runs' = runs + 1 /\ today' = today /\ record' = record /\ excused' = excused
      /\ \A q \in Procs \ {p} : pc'[q] = pc[q] /\ turn'[q] = turn[q] /\ mem'[q] = mem[q]
  BY DEF Begins, Elsewhere
<1>1. Dated'
  BY <1>n, <1>b DEF Order, Dated
<1>2. Alone'
  BY <1>b DEF Order, Alone, Late
<1>3. Current'
  BY <1>b DEF Order, Current, Late
<1>4. InOrder'
  BY <1>n, <1>b DEF Order, Dated, InOrder, Late
<1>5. NotPast'
  BY <1>n, <1>b DEF Order, Dated, NotPast, Open, Mailing, Late
<1> QED BY <1>1, <1>2, <1>3, <1>4, <1>5 DEF Order

LEMMA SavesKeeps ==
  ASSUME Typed, Typed', Order, NEW p \in Procs, Saves(p) PROVE Order'
<1>b. /\ pc[p] = "check" /\ pc'[p] = "cycle" /\ turn'[p] = turn[p] /\ mem'[p].record = record
      /\ runs' = runs /\ today' = today /\ record' = record /\ excused \subseteq excused'
      /\ \A q \in Procs \ {p} : pc'[q] = pc[q] /\ turn'[q] = turn[q] /\ mem'[q] = mem[q]
      /\ \A q \in Procs \ {p} :
           Meets(p, q) => turn[p].day \in excused' /\ turn[q].day \in excused'
  BY DEF Saves, Elsewhere
<1>n. \A q \in Procs : pc[q] # "idle" => turn[q].day \in Nat
  BY Numbers
<1>1. Dated'
  BY <1>b DEF Order, Dated
<1>2. Alone'
  BY <1>b DEF Order, Alone, Late, Meets
<1>3. Current'
  BY <1>b DEF Order, Current, Late
<1>4. InOrder'
  BY <1>b, <1>n DEF Order, InOrder, Late, Meets
<1>5. NotPast'
  BY <1>b DEF Order, NotPast, Open, Mailing, Late
<1> QED BY <1>1, <1>2, <1>3, <1>4, <1>5 DEF Order

LEMMA LeavesKeeps ==
  ASSUME Typed, Order, NEW p \in Procs, Leaves(p) PROVE Order'
<1>b. /\ pc[p] # "idle" /\ pc'[p] \in {"idle", "report"} /\ (pc'[p] = "report" => turn'[p] = turn[p])
      /\ runs' = runs /\ today' = today /\ record' = record /\ excused \subseteq excused'
      /\ \A q \in Procs \ {p} : pc'[q] = pc[q] /\ turn'[q] = turn[q] /\ mem'[q] = mem[q]
  BY DEF Leaves, Elsewhere
<1>1. Dated'
  BY <1>b DEF Order, Dated
<1>2. Alone'
  BY <1>b DEF Order, Alone, Late
<1>3. Current'
  BY <1>b DEF Order, Current, Late
<1>4. InOrder'
  BY <1>b DEF Order, InOrder, Late
<1>5. NotPast'
  BY <1>b DEF Order, NotPast, Open, Mailing, Late
<1> QED BY <1>1, <1>2, <1>3, <1>4, <1>5 DEF Order

\* A fan-out begins only if the copy, and so the record, is of another day.
LEMMA OpensKeeps ==
  ASSUME Typed, Order, NEW p \in Procs, Opens(p) \/ Falls(p) PROVE Order'
<1>b. /\ pc[p] \in {"cycle", "sending"} /\ pc'[p] \in {"sending", "crashed"}
      /\ turn'[p] = turn[p] /\ mem'[p] = mem[p]
      /\ runs' = runs /\ today' = today /\ record' = record /\ excused' = excused
      /\ \A q \in Procs \ {p} : pc'[q] = pc[q] /\ turn'[q] = turn[q] /\ mem'[q] = mem[q]
  BY DEF Opens, Falls, Elsewhere
<1>a. (pc[p] = "cycle" => mem[p].record.date # turn[p].day) /\ Late(p)
  BY DEF Opens, Falls, AlreadyDone, Late
<1>1. Dated'
  BY <1>b DEF Order, Dated
<1>2. Alone'
  BY <1>b DEF Order, Alone, Late
<1>3. Current'
  BY <1>b DEF Order, Current, Late
<1>4. InOrder'
  BY <1>b DEF Order, InOrder, Late
<1>5. NotPast'
  <2>1. turn[p].day \notin excused =>
          record.date <= turn[p].day /\ record.date # turn[p].day
    BY <1>a, <1>b DEF Order, Current, NotPast, Open, Mailing, Late
  <2> QED BY <1>b, <2>1 DEF Order, NotPast, Open, Mailing, Late
<1> QED BY <1>1, <1>2, <1>3, <1>4, <1>5 DEF Order

LEMMA WritesKeeps ==
  ASSUME Typed, Order, NEW p \in Procs, Writes(p) PROVE Order'
<1>b. /\ Mailing(p) /\ pc'[p] = "idle" /\ record'.date = turn[p].day
      /\ runs' = runs /\ today' = today /\ excused' = excused
      /\ \A q \in Procs \ {p} : pc'[q] = pc[q] /\ turn'[q] = turn[q] /\ mem'[q] = mem[q]
  BY DEF Writes, Elsewhere
<1>n. \A q \in Procs : pc[q] # "idle" => turn[q].day \in Nat
  BY Numbers
<1>a. \A q \in Procs \ {p} : Late(q) => turn[q].day \in excused
  BY <1>b DEF Order, Alone, Late, Mailing
<1>1. Dated'
  BY <1>b DEF Order, Dated, Mailing
<1>2. Alone'
  BY <1>b DEF Order, Alone, Late
<1>3. Current'
  BY <1>a, <1>b DEF Current, Late
<1>4. InOrder'
  BY <1>b DEF Order, InOrder, Late
<1>5. NotPast'
  <2>1. \A q \in Procs \ {p} : (pc[q] = "check" /\ turn[q].day \notin excused) =>
          turn[p].day <= turn[q].day
    BY <1>b, <1>n DEF Order, InOrder, Late, Mailing
  <2> QED BY <1>a, <1>b, <2>1 DEF NotPast, Open, Mailing, Late
<1> QED BY <1>1, <1>2, <1>3, <1>4, <1>5 DEF Order

LEMMA RestsKeeps ==
  ASSUME Typed, Typed', Order, Rests \/ \E p \in Procs, u \in Users : Mails(p, u) PROVE Order'
<1>b. /\ today <= today' /\ runs <= runs' /\ UNCHANGED <<pc, turn, mem, record, excused>>
  BY Numbers DEF Rests, Mails
<1>n. /\ today \in Nat /\ runs \in Nat /\ record.date \in Nat /\ today' \in Nat /\ runs' \in Nat
      /\ \A p \in Procs : pc[p] # "idle" => turn[p].day \in Nat /\ turn[p].nr \in Nat
  BY Numbers, NewNumbers
<1>1. Dated'
  BY <1>b, <1>n DEF Order, Dated
<1> QED BY <1>1, <1>b DEF Order, Alone, Current, InOrder, NotPast, Late, Open, Mailing

LEMMA OrderStep == Typed /\ Typed' /\ Order /\ StepShape => Order'
BY BeginsKeeps, SavesKeeps, LeavesKeeps, OpensKeeps, WritesKeeps, RestsKeeps DEF StepShape

\* A record of a day that is not excused is never replaced by an earlier
\* day's: only the two ends of a fan-out write it.
LEMMA ForwardStep ==
  ASSUME Typed, Order, StepShape PROVE Forward
<1>n. /\ record.date \in Nat
      /\ \A p \in Procs : pc[p] # "idle" => turn[p].day \in Nat
  BY Numbers
<1>1. ASSUME NEW p \in Procs, Writes(p)
      PROVE  Forward
  <2>1. record'.date = turn[p].day /\ excused' = excused /\ Mailing(p)
    BY <1>1 DEF Writes
  <2>2. turn[p].day \notin excused => record.date <= turn[p].day
    BY <2>1 DEF Order, NotPast, Open, Late, Mailing
  <2> QED BY <1>n, <2>1, <2>2 DEF Mailing, Forward
<1>2. CASE record' = record
  BY <1>n, <1>2 DEF Forward
<1>3. record' = record \/ \E p \in Procs : Writes(p)
  BY DEF StepShape, Rests, Begins, Saves, Leaves, Opens, Falls, Mails
<1> QED BY <1>1, <1>2, <1>3

LEMMA Ordered == Spec => [](Typed /\ Order)
<1>1. Init => Typed /\ Order
  BY TypeInit, OrderInit
<1>2. Typed /\ Order /\ [Next]_vars => (Typed /\ Order)'
  BY TypeStep, Shapes, OrderStep
<1> QED BY <1>1, <1>2, PTL DEF Spec

\* No record replaces that of a later day unless the two runs were under way
\* at once, however the loop, a timer and the operator start runs and
\* whichever of them is killed (the guard and the write at the end of run).
THEOREM CycleMovesForward == Spec => RecordMovesForward
<1>1. Typed /\ Order /\ [Next]_vars => [Forward]_vars
  BY Shapes, ForwardStep
<1> QED BY <1>1, Ordered, PTL DEF Spec, RecordMovesForward

-----------------------------------------------------------------------------
(* The mails. *)

Past == \A m \in got : m[2] <= today /\ m[3] <= runs

\* Nobody may still record a day earlier than one that was mailed.
NoneEarlier ==
  \A m \in got, p \in Procs : (m[2] \notin excused /\ Open(p)) => m[2] <= turn[p].day

\* What was mailed is recorded, or the run that mailed it is still there.
Closed ==
  \A m \in got : m[2] \notin excused =>
    \/ m[2] <= record.date
    \/ \E p \in Procs : Mailing(p) /\ turn[p].day = m[2] /\ turn[p].nr = m[3]

One == \A m, n \in got : (m[2] = n[2] /\ m[2] \notin excused) => m[3] = n[3]

Posted == Past /\ NoneEarlier /\ Closed /\ One

LEMMA GotType ==
  ASSUME Typed
  PROVE  \A m \in got : m \in Users \X Days \X Runs /\ m[2] \in Nat /\ m[3] \in Nat
BY DEF Typed, TypeOK, Days, Runs

LEMMA PostedInit == Init => Posted
BY DEF Init, Posted, Past, NoneEarlier, Closed, One

\* Of a day that is not excused, a run that mails finds only its own mails.
LEMMA Own ==
  ASSUME Typed, Order, Closed, NEW p \in Procs, Mailing(p), turn[p].day \notin excused,
         NEW m \in got, m[2] = turn[p].day
  PROVE  m[3] = turn[p].nr
<1>1. record.date <= turn[p].day /\ record.date # turn[p].day
  BY DEF Order, NotPast, Open, Late, Mailing
<1>2. record.date \in Nat /\ turn[p].day \in Nat
  BY Numbers DEF Mailing
<1>3. PICK q \in Procs : Mailing(q) /\ turn[q].day = m[2] /\ turn[q].nr = m[3]
  BY <1>1, <1>2 DEF Closed
<1>4. q = p
  BY <1>3 DEF Order, Alone, Late, Mailing
<1> QED BY <1>3, <1>4

LEMMA PostedMails ==
  ASSUME Typed, Order, Posted, NEW p \in Procs, NEW u \in Users, Mails(p, u)
  PROVE  Posted'
<1> DEFINE mail == <<u, turn[p].day, turn[p].nr>>
<1>b. /\ pc[p] = "sending" /\ got' \in {got, got \cup {mail}}
      /\ UNCHANGED <<today, pc, turn, mem, record, runs, excused>>
  BY DEF Mails
<1>c. /\ mail[2] = turn[p].day /\ mail[3] = turn[p].nr
      /\ \A m \in got' : m \in got \/ m = mail
      /\ Mailing(p) /\ Late(p)
  BY <1>b DEF Mailing, Late
<1> HIDE DEF mail
<1>n. \A q \in Procs : pc[q] # "idle" => turn[q].day \in Nat /\ turn[q].nr \in Nat
  BY Numbers
<1>1. Past'
  BY <1>b, <1>c DEF Posted, Past, Order, Dated
<1>2. NoneEarlier'
  <2>1. ASSUME NEW q \in Procs, Open(q), turn[p].day \notin excused
        PROVE  turn[p].day <= turn[q].day
    <3>1. CASE q = p
      BY <1>b, <1>n, <3>1
    <3>2. CASE q # p
      <4>1. ~Late(q)
        BY <1>c, <2>1, <3>2 DEF Order, Alone
      <4> QED BY <1>b, <1>c, <1>n, <2>1, <4>1 DEF Order, InOrder, Open
    <3> QED BY <3>1, <3>2
  <2> QED BY <1>b, <1>c, <2>1 DEF Posted, NoneEarlier, Open, Late
<1>3. Closed'
  BY <1>b, <1>c DEF Posted, Closed, Mailing
<1>4. One'
  <2>1. \A m \in got : (m[2] = mail[2] /\ m[2] \notin excused) => m[3] = mail[3]
    BY <1>c, Own DEF Posted
  <2> QED BY <1>b, <1>c, <2>1 DEF Posted, One
<1> QED BY <1>1, <1>2, <1>3, <1>4 DEF Posted

LEMMA PostedWrites ==
  ASSUME Typed, Order, Posted, NEW p \in Procs, Writes(p) PROVE Posted'
<1>b. /\ Mailing(p) /\ pc'[p] = "idle" /\ record'.date = turn[p].day
      /\ runs' = runs /\ today' = today /\ excused' = excused /\ got' = got
      /\ \A q \in Procs \ {p} : pc'[q] = pc[q] /\ turn'[q] = turn[q] /\ mem'[q] = mem[q]
  BY DEF Writes, Elsewhere
<1>1. Past'
  BY <1>b DEF Posted, Past
<1>2. NoneEarlier'
  BY <1>b DEF Posted, NoneEarlier, Open, Late
<1>3. Closed'
  <2>1. \A m \in got : m[2] \notin excused => m[2] <= turn[p].day
    BY <1>b DEF Posted, NoneEarlier, Open, Late, Mailing
  <2> QED BY <1>b, <2>1 DEF Closed
<1>4. One'
  BY <1>b DEF Posted, One
<1> QED BY <1>1, <1>2, <1>3, <1>4 DEF Posted

\* The steps that neither mail nor write.
LEMMA PostedRuns ==
  ASSUME Typed, Typed', Order, Posted, NEW p \in Procs,
         Begins(p) \/ Saves(p) \/ Leaves(p) \/ Opens(p) \/ Falls(p)
  PROVE  Posted'
<1>b. /\ today' = today /\ got' = got /\ record' = record /\ excused \subseteq excused'
      /\ runs' \in {runs, runs + 1}
      /\ \A q \in Procs \ {p} : pc'[q] = pc[q] /\ turn'[q] = turn[q]
  BY DEF Begins, Saves, Leaves, Opens, Falls, Elsewhere
<1>c. Open(p)' => turn'[p].day = IF pc[p] = "idle" THEN today ELSE turn[p].day
  BY DEF Open, Late, Begins, Saves, Leaves, Opens, Falls
<1>d. (Open(p)' /\ pc[p] # "idle") => Open(p)
  BY DEF Open, Late, Begins, Saves, Leaves, Opens, Falls
<1>e. Mailing(p) => \/ Mailing(p)' /\ turn'[p] = turn[p]
                    \/ turn[p].day \in excused'
  BY DEF Mailing, Begins, Saves, Leaves, Opens, Falls
<1>n. runs \in Nat /\ \A m \in got : m[3] \in Nat
  BY Numbers, GotType
<1>1. Past'
  BY <1>b, <1>n DEF Posted, Past
<1>2. NoneEarlier'
  <2>1. ASSUME NEW m \in got, m[2] \notin excused, Open(p)' PROVE m[2] <= turn'[p].day
    BY <1>c, <1>d, <2>1 DEF Posted, Past, NoneEarlier
  <2>2. ASSUME NEW m \in got, m[2] \notin excused, NEW q \in Procs \ {p}, Open(q)'
        PROVE  m[2] <= turn'[q].day
    BY <1>b, <2>2 DEF Posted, NoneEarlier, Open, Late
  <2> QED BY <1>b, <2>1, <2>2 DEF NoneEarlier
<1>3. Closed'
  <2>1. ASSUME NEW m \in got, m[2] \notin excused'
        PROVE  \/ m[2] <= record.date
               \/ \E q \in Procs : Mailing(q)' /\ turn'[q].day = m[2] /\ turn'[q].nr = m[3]
    <3>1. CASE m[2] <= record.date
      BY <3>1
    <3>2. ASSUME NEW q \in Procs, Mailing(q), turn[q].day = m[2], turn[q].nr = m[3]
          PROVE  Mailing(q)' /\ turn'[q] = turn[q]
      <4>1. CASE q = p
        BY <1>e, <2>1, <3>2, <4>1
      <4>2. CASE q # p
        BY <1>b, <3>2, <4>2 DEF Mailing
      <4> QED BY <4>1, <4>2
    <3> QED BY <1>b, <2>1, <3>1, <3>2 DEF Posted, Closed
  <2> QED BY <1>b, <2>1 DEF Closed, Mailing
<1>4. One'
  BY <1>b DEF Posted, One
<1> QED BY <1>1, <1>2, <1>3, <1>4 DEF Posted

LEMMA PostedRests ==
  ASSUME Typed, Typed', Posted, Rests PROVE Posted'
<1>n. /\ today \in Nat /\ runs \in Nat /\ today' \in Nat /\ runs' \in Nat
      /\ \A m \in got : m[2] \in Nat /\ m[3] \in Nat
  BY Numbers, NewNumbers, GotType
<1>1. Past'
  BY <1>n DEF Posted, Past, Rests
<1> QED BY <1>1 DEF Posted, NoneEarlier, Closed, One, Rests, Open, Late, Mailing

LEMMA PostedStep == Typed /\ Typed' /\ Order /\ Posted /\ StepShape => Posted'
BY PostedMails, PostedWrites, PostedRuns, PostedRests DEF StepShape

LEMMA Delivered == Spec => [](Typed /\ Order /\ Posted)
<1>1. Init => Typed /\ Order /\ Posted
  BY TypeInit, OrderInit, PostedInit
<1>2. Typed /\ Order /\ Posted /\ [Next]_vars => (Typed /\ Order /\ Posted)'
  BY TypeStep, Shapes, OrderStep, PostedStep
<1> QED BY <1>1, <1>2, PTL DEF Spec

\* However many runs a day has, and whenever they start, one of them mails,
\* unless the day is excused (the guard on last_cycle in run).
THEOREM CycleMailsOnce == Spec => []OneRunMails
<1>1. One => OneRunMails
  <2> SUFFICES ASSUME One, NEW u \in Users, NEW d \in Days, d \notin excused
               PROVE  ~(Cardinality(MailedOn(u, d)) > 1)
    BY DEF OneRunMails
  <2>1. \A r, s \in MailedOn(u, d) : r = s
    <3>1. ASSUME NEW r \in MailedOn(u, d), NEW s \in MailedOn(u, d) PROVE r = s
      <4> DEFINE m == <<u, d, r>>
                 n == <<u, d, s>>
      <4>1. m \in got /\ n \in got /\ m[2] = d /\ n[2] = d /\ m[3] = r /\ n[3] = s
        BY DEF MailedOn
      <4> HIDE DEF m, n
      <4> QED BY <4>1 DEF One
    <3> QED BY <3>1
  <2>2. CASE MailedOn(u, d) = {}
    BY <2>2, FS_EmptySet
  <2>3. ASSUME NEW r \in MailedOn(u, d) PROVE Cardinality(MailedOn(u, d)) = 1
    <3>1. MailedOn(u, d) = {r}
      BY <2>1, <2>3
    <3> QED BY <3>1, FS_Singleton
  <2> QED BY <2>2, <2>3
<1> QED BY <1>1, Delivered, PTL DEF Posted

-----------------------------------------------------------------------------
(* The record. *)

\* The mail a run sends to u.
MailOf(p, u) == <<u, turn[p].day, turn[p].nr>>

\* A run that has not opened its fan-out has mailed nobody.
Unopened(p) ==
  /\ tries[p] = NoTries /\ outs[p] = Nobody
  /\ \A m \in got : pc[p] # "idle" => m[3] # turn[p].nr

\* Who waits has no mail of this run, nor a request under way; who has one is
\* in flight, or is down as mailed; who is down as mailed has one.
Counted(p) ==
  /\ \A u \in todo[p] : u \notin DOMAIN tries[p] /\ MailOf(p, u) \notin got
  /\ \A u \in Users : MailOf(p, u) \in got =>
       u \in DOMAIN tries[p] \/ (u \in DOMAIN outs[p] /\ outs[p][u] \in {"sent", "failed"})
  /\ \A u \in DOMAIN outs[p] : outs[p][u] = "sent" => MailOf(p, u) \in got

Fans ==
  \A p \in Procs : /\ pc[p] \in {"idle", "check", "cycle"} => Unopened(p)
                   /\ pc[p] = "sending" => Counted(p)

Honest ==
  (record.date # 0 /\ ~record.crash) =>
    /\ \A u \in DOMAIN record.users : record.users[u] = "sent" =>
         \E m \in got : m[1] = u /\ m[2] = record.date
    /\ \A m \in got : (m[2] = record.date /\ record.date \notin excused) =>
         m[1] \in DOMAIN record.users /\ record.users[m[1]] \in {"sent", "failed"}

LEMMA FansInit == Init => Fans /\ Honest
BY DEF Init, Fans, Unopened, Honest, NoCycle

\* A fan-out that goes on as it is, while nothing is mailed.
Same(p) == /\ todo'[p] = todo[p] /\ tries'[p] = tries[p] /\ outs'[p] = outs[p]
           /\ turn'[p] = turn[p]

\* A step at p, as the other fan-outs see it.
Apart(p) == \A q \in Procs \ {p} : pc'[q] = pc[q] /\ Same(q)

LEMMA FansApart ==
  ASSUME Typed, Order, Fans, NEW p \in Procs, Apart(p), got' = got, NEW q \in Procs \ {p}
  PROVE  /\ pc'[q] \in {"idle", "check", "cycle"} => Unopened(q)'
         /\ pc'[q] = "sending" => Counted(q)'
BY DEF Apart, Same, Fans, Unopened, Counted, MailOf

LEMMA FansIdle ==
  ASSUME Typed, Order, Fans, NEW p \in Procs, Ends(p), got' = got PROVE Fans'
<1>1. Apart(p)
  BY FanTypes DEF Typed, TypeOK, Ends, Goto, Apart, Same
<1>2. pc'[p] = "idle" /\ tries'[p] = NoTries /\ outs'[p] = Nobody
  BY FanTypes DEF Typed, TypeOK, Ends, Goto
<1>3. Unopened(p)'
  BY <1>2 DEF Unopened
<1> QED BY <1>1, <1>2, <1>3, FansApart DEF Fans

LEMMA FansGo ==
  ASSUME Typed, Order, Fans, NEW p \in Procs, pc[p] # "idle", NEW where, Goto(p, where),
         UNCHANGED <<turn, fan, got>>,
         where \in {"report", "crashed"} \/ (pc[p] = "check" /\ where = "cycle")
  PROVE  Fans'
<1>1. Apart(p) /\ pc'[p] = where
  BY DEF Typed, TypeOK, Goto, Apart, Same, fan
<1>2. where = "cycle" => Unopened(p)'
  BY <1>1 DEF Fans, Unopened, fan
<1> QED BY <1>1, <1>2, FansApart DEF Fans

LEMMA FansStart ==
  ASSUME Typed, Order, Posted, Fans, NEW p \in Procs, Start(p) PROVE Fans'
<1>1. CASE UNCHANGED <<pc, turn>>
  BY <1>1 DEF Start, Fans, Unopened, Counted, MailOf, fan
<1>2. ASSUME NEW k \in Kinds[p],
             turn' = [turn EXCEPT ![p] = [kind |-> k, day |-> RunDate(p), nr |-> runs + 1]],
             Goto(p, "check")
      PROVE  Fans'
  <2>1. /\ pc'[p] = "check" /\ turn'[p].nr = runs + 1
        /\ Apart(p) /\ got' = got /\ tries' = tries /\ outs' = outs /\ pc[p] = "idle"
    BY <1>2 DEF Start, Typed, TypeOK, Goto, Apart, Same, fan
  <2>2. \A m \in got : m[3] # runs + 1
    <3>1. runs \in Nat /\ \A m \in got : m[3] \in Nat
      BY Numbers, GotType
    <3> QED BY <3>1 DEF Posted, Past
  <2>3. Unopened(p)'
    BY <2>1, <2>2 DEF Fans, Unopened
  <2> QED BY <2>1, <2>3, FansApart DEF Fans
<1> QED BY <1>1, <1>2 DEF Start

LEMMA FansOpen ==
  ASSUME Typed, Order, Fans, NEW p \in Procs, pc[p] = "cycle",
         todo' = [todo EXCEPT ![p] = active], Goto(p, "sending"),
         UNCHANGED <<turn, tries, outs, got>>
  PROVE  Fans'
<1>1. Apart(p) /\ pc'[p] = "sending"
  BY FanTypes DEF Typed, TypeOK, Goto, Apart, Same
<1>2. Unopened(p)
  BY DEF Fans
<1>3. \A u : MailOf(p, u) \notin got
  BY <1>2 DEF Unopened, MailOf
<1>4. DOMAIN tries[p] = {} /\ DOMAIN outs[p] = {}
  BY <1>2 DEF Unopened, NoTries, Nobody
<1>5. Counted(p)'
  BY <1>3, <1>4 DEF Counted, MailOf
<1> QED BY <1>1, <1>5, FansApart DEF Fans

LEMMA FansBegin ==
  ASSUME Typed, Order, Fans, NEW p \in Procs, NEW u \in Users, Begin(p, u) PROVE Fans'
<1>b. /\ pc[p] = "sending" /\ pc' = pc /\ turn' = turn /\ got' = got /\ u \in todo[p]
      /\ todo'[p] = todo[p] \ {u}
  BY FanTypes DEF Begin, Typed
<1>c. Counted(p)
  BY <1>b DEF Fans
<1>1. CASE OptedOut(p, u) \/ Hindrance(u) # "none"
  <2> DEFINE x == IF OptedOut(p, u) THEN "skipped" ELSE Hindrance(u)
  <2>1. x # "sent"
    BY HindranceType
  <2> HIDE DEF x
  <2>2. outs' = [outs EXCEPT ![p] = With(outs[p], u, x)] /\ tries' = tries
    BY <1>1 DEF Begin, x
  <2>3. Apart(p) /\ outs'[p] = With(outs[p], u, x)
    BY <1>b, <2>2, FanTypes DEF Begin, Typed, Apart, Same
  <2>4. Counted(p)'
    BY <1>b, <1>c, <2>1, <2>2, <2>3 DEF Counted, MailOf, With
  <2> QED BY <1>b, <2>3, <2>4, FansApart DEF Fans
<1>2. CASE ~(OptedOut(p, u) \/ Hindrance(u) # "none")
  <2>1. tries' = [tries EXCEPT ![p] = With(tries[p], u, 0)] /\ outs' = outs
    BY <1>2 DEF Begin
  <2>2. Apart(p) /\ DOMAIN tries'[p] = DOMAIN tries[p] \cup {u}
    BY <1>b, <2>1, FanTypes DEF Begin, Typed, Apart, Same, With
  <2>3. Counted(p)'
    BY <1>b, <1>c, <2>1, <2>2 DEF Counted, MailOf
  <2> QED BY <1>b, <2>2, <2>3, FansApart DEF Fans
<1> QED BY <1>1, <1>2

LEMMA FansRequest ==
  ASSUME Typed, Order, Fans, NEW p \in Procs, NEW u \in Users, Request(p, u) PROVE Fans'
<1>1. PICK answer \in Answers :
        /\ Settle(p, u, Judged(answer, tries[p][u]))
        /\ got' = IF Arrives(answer) THEN got \cup {MailOf(p, u)} ELSE got
  BY DEF Request, MailOf
<1> DEFINE result == Judged(answer, tries[p][u])
<1>b. /\ pc[p] = "sending" /\ pc' = pc /\ turn' = turn /\ todo' = todo /\ u \in DOMAIN tries[p]
  BY <1>1 DEF Request, InFlight, Settle
<1>c. Counted(p)
  BY <1>b DEF Fans
<1>2. tries[p][u] \in 0..(Retries - 1)
  BY <1>b, FanTypes DEF Typed, Partial
<1>3. result \in {"sent", "failed", "again"} /\ (result = "sent" => Arrives(answer))
  BY <1>2, JudgedType DEF Judged, Answers
<1> HIDE DEF result
<1>s. Settle(p, u, result)
  BY <1>1 DEF result
<1>g. /\ \A m \in got' : m \in got \/ m = MailOf(p, u)
      /\ got \subseteq got' /\ (result = "sent" => MailOf(p, u) \in got')
  BY <1>1, <1>3
<1>a. Apart(p)
  BY <1>b, <1>s, FanTypes DEF Typed, Apart, Same, Settle
<1>m. \A v : MailOf(p, v)' = MailOf(p, v)
  BY <1>b DEF MailOf
<1>4. Counted(p)'
  <2>1. CASE result = "again"
    <3>1. DOMAIN tries'[p] = DOMAIN tries[p] /\ outs'[p] = outs[p]
      BY <1>s, <2>1, FanTypes DEF Settle, Typed
    <3> QED BY <1>b, <1>c, <1>g, <1>m, <3>1 DEF Counted, MailOf
  <2>2. CASE result \in {"sent", "failed"}
    <3>1. tries'[p] = Without(tries[p], u) /\ outs'[p] = With(outs[p], u, result)
      BY <1>s, <2>2, FanTypes DEF Settle, Typed
    <3>2. /\ DOMAIN tries'[p] = DOMAIN tries[p] \ {u} /\ DOMAIN outs'[p] = DOMAIN outs[p] \cup {u}
          /\ outs'[p][u] = result /\ \A v \in DOMAIN outs[p] \ {u} : outs'[p][v] = outs[p][v]
      BY <3>1 DEF With, Without
    <3> HIDE DEF MailOf
    <3>3. \A v \in todo[p] : v \notin DOMAIN tries'[p] /\ MailOf(p, v) \notin got'
      BY <1>b, <1>c, <1>g, <3>2 DEF Counted, MailOf
    <3>4. \A v \in Users : MailOf(p, v) \in got' =>
            v \in DOMAIN tries'[p] \/ (v \in DOMAIN outs'[p] /\ outs'[p][v] \in {"sent", "failed"})
      <4>1. \A v \in Users : MailOf(p, v) = MailOf(p, u) => v = u
        BY DEF MailOf
      <4> QED BY <1>c, <1>g, <2>2, <3>2, <4>1 DEF Counted
    <3>5. \A v \in DOMAIN outs'[p] : outs'[p][v] = "sent" => MailOf(p, v) \in got'
      BY <1>c, <1>g, <3>2 DEF Counted
    <3> QED BY <1>b, <1>m, <3>3, <3>4, <3>5 DEF Counted
  <2> QED BY <1>3, <2>1, <2>2
<1>5. ASSUME NEW q \in Procs \ {p}
      PROVE  /\ pc'[q] \in {"idle", "check", "cycle"} => Unopened(q)'
             /\ pc'[q] = "sending" => Counted(q)'
  <2>1. pc[q] # "idle" => turn[q].nr # turn[p].nr
    BY <1>b DEF Order, Dated
  <2>2. pc[q] # "idle" => \A v : MailOf(q, v) # MailOf(p, u)
    BY <2>1 DEF MailOf
  <2>3. CASE pc[q] \in {"idle", "check", "cycle"}
    BY <1>a, <1>b, <1>g, <2>1, <2>3 DEF Fans, Unopened, Apart, Same, MailOf
  <2>4. CASE pc[q] = "sending"
    <3>1. Counted(q) /\ \A v : MailOf(q, v) \in got' <=> MailOf(q, v) \in got
      BY <1>g, <2>2, <2>4 DEF Fans
    <3>2. \A v : MailOf(q, v)' = MailOf(q, v)
      BY <1>b DEF MailOf
    <3> QED BY <1>a, <1>b, <2>4, <3>1, <3>2 DEF Counted, Apart, Same
  <2> QED BY <1>b, <2>3, <2>4
<1> QED BY <1>b, <1>4, <1>5 DEF Fans

LEMMA FansStep ==
  ASSUME Typed, Order, Posted, Fans, [Next]_vars PROVE Fans'
<1>1. ASSUME NEW p \in Procs, Start(p) PROVE Fans'
  BY <1>1, FansStart
<1>2. ASSUME NEW p \in Procs, Tested(p) \/ CheckFails(p) \/ ReportCrash(p) \/ RecordCrash(p) \/ Kill(p)
      PROVE  Fans'
  BY <1>2, FansIdle DEF Tested, CheckFails, ReportCrash, RecordCrash, Kill
<1>3. ASSUME NEW p \in Procs, Saved(p) \/ FanOutCrashes(p) PROVE Fans'
  BY <1>3, FansGo DEF Saved, FanOutCrashes
<1>4. ASSUME NEW p \in Procs, Crashes(p) PROVE Fans'
  BY <1>4, FansIdle, FansGo DEF Crashes, Escapes
<1>5. ASSUME NEW p \in Procs, Record(p) PROVE Fans'
  BY <1>5, FansIdle, FansGo DEF Record
<1>6. ASSUME NEW p \in Procs, FanOut(p) PROVE Fans'
  BY <1>6, FansIdle, FansOpen DEF FanOut
<1>7. ASSUME NEW p \in Procs, NEW u \in Users, Begin(p, u) \/ Request(p, u) PROVE Fans'
  BY <1>7, FansBegin, FansRequest
<1>8. CASE (\E u \in Users : PatchEmailPrefs(u) \/ PatchUser(u)) \/ NextDay \/ UNCHANGED vars
  <2>1. UNCHANGED <<pc, turn, fan, got>>
    BY <1>8 DEF PatchEmailPrefs, PatchUser, NextDay, vars
  <2> QED BY <2>1 DEF Fans, Unopened, Counted, MailOf, fan
<1> QED BY <1>1, <1>2, <1>3, <1>4, <1>5, <1>6, <1>7, <1>8 DEF Next, Work

\* A record that is written counts the mails of its run, and on a day that is
\* not excused there are no others.
LEMMA HonestRecord ==
  ASSUME Typed, Order, Posted, Fans, NEW p \in Procs, Record(p), record' = RecordOf(p)
  PROVE  Honest'
<1>b. /\ pc[p] = "sending" /\ DOMAIN tries[p] = {} /\ got' = got /\ excused' = excused
      /\ record'.date = turn[p].day /\ record'.users = outs[p]
  BY DEF Record, RecordOf, InFlight
<1>c. Counted(p) /\ Mailing(p)
  BY <1>b DEF Fans, Mailing
<1>1. \A u \in DOMAIN outs[p] : outs[p][u] = "sent" =>
        \E m \in got : m[1] = u /\ m[2] = turn[p].day
  <2>1. ASSUME NEW u \in DOMAIN outs[p], outs[p][u] = "sent"
        PROVE  \E m \in got : m[1] = u /\ m[2] = turn[p].day
    <3>1. MailOf(p, u) \in got
      BY <1>c, <2>1 DEF Counted
    <3> QED BY <3>1 DEF MailOf
  <2> QED BY <2>1
<1>2. ASSUME NEW m \in got, m[2] = turn[p].day, turn[p].day \notin excused
      PROVE  m[1] \in DOMAIN outs[p] /\ outs[p][m[1]] \in {"sent", "failed"}
  <2>1. m[3] = turn[p].nr
    BY <1>2, <1>c, Own DEF Posted
  <2>2. m[1] \in Users /\ m = MailOf(p, m[1])
    BY <1>2, <2>1, GotType DEF MailOf
  <2> QED BY <1>b, <1>c, <2>2 DEF Counted
<1> QED BY <1>b, <1>1, <1>2 DEF Honest

LEMMA HonestStep ==
  ASSUME Typed, Order, Posted, Fans, Honest, [Next]_vars PROVE Honest'
<1>1. ASSUME NEW p \in Procs, Record(p), record' = RecordOf(p) PROVE Honest'
  BY <1>1, HonestRecord
<1>2. ASSUME NEW p \in Procs, RecordCrash(p), record'.crash = TRUE PROVE Honest'
  BY <1>2 DEF Honest
<1>3. ASSUME NEW p \in Procs, NEW u \in Users, Request(p, u) PROVE Honest'
  <2>1. /\ pc[p] = "sending" /\ got' \in {got, got \cup {MailOf(p, u)}}
        /\ record' = record /\ excused' = excused
    BY <1>3 DEF Request, MailOf, store
  <2>2. turn[p].day \notin excused => record.date # turn[p].day
    BY <2>1 DEF Order, NotPast, Open, Late, Mailing
  <2>3. MailOf(p, u)[2] = turn[p].day
    BY DEF MailOf
  <2> QED BY <2>1, <2>2, <2>3 DEF Honest
<1>4. CASE record' = record /\ got' = got /\ excused \subseteq excused'
  BY <1>4 DEF Honest
<1>5. \/ record' = record /\ got' = got /\ excused \subseteq excused'
      \/ \E p \in Procs : \/ Record(p) /\ record' = RecordOf(p)
                          \/ RecordCrash(p) /\ record'.crash = TRUE
                          \/ \E u \in Users : Request(p, u)
  <2>1. ASSUME NEW p \in Procs,
               Start(p) \/ Saved(p) \/ Tested(p) \/ CheckFails(p) \/ Crashes(p) \/ ReportCrash(p)
                 \/ FanOut(p) \/ FanOutCrashes(p) \/ Kill(p)
        PROVE  record' = record /\ got' = got /\ excused \subseteq excused'
    BY <2>1 DEF Start, Saved, Tested, CheckFails, Crashes, ReportCrash, FanOut, FanOutCrashes,
                Kill, store
  <2>2. ASSUME NEW p \in Procs, NEW u \in Users, Begin(p, u)
        PROVE  record' = record /\ got' = got /\ excused \subseteq excused'
    BY <2>2 DEF Begin, store
  <2>3. ASSUME NEW p \in Procs, Record(p)
        PROVE  record' = RecordOf(p) \/ (record' = record /\ got' = got /\ excused \subseteq excused')
    BY <2>3 DEF Record
  <2>4. ASSUME NEW p \in Procs, RecordCrash(p)
        PROVE  record'.crash = TRUE \/ (record' = record /\ got' = got /\ excused \subseteq excused')
    BY <2>4 DEF RecordCrash
  <2>5. CASE (\E u \in Users : PatchEmailPrefs(u) \/ PatchUser(u)) \/ NextDay \/ UNCHANGED vars
    BY <2>5 DEF PatchEmailPrefs, PatchUser, NextDay, vars, store
  <2> QED BY <2>1, <2>2, <2>3, <2>4, <2>5 DEF Next, Work
<1> QED BY <1>1, <1>2, <1>3, <1>4, <1>5

LEMMA Recorded == Spec => [](Typed /\ Order /\ Posted /\ Fans /\ Honest)
<1>1. Init => Typed /\ Order /\ Posted /\ Fans /\ Honest
  BY TypeInit, OrderInit, PostedInit, FansInit
<1>2. Typed /\ Order /\ Posted /\ Fans /\ Honest /\ [Next]_vars
        => (Typed /\ Order /\ Posted /\ Fans /\ Honest)'
  BY TypeStep, Shapes, OrderStep, PostedStep, FansStep, HonestStep
<1> QED BY <1>1, <1>2, PTL DEF Spec

\* The outcomes a cycle records are true of the mails: for every user, every
\* answer of the service and every number of requests (_send_one, the summary
\* of run and its write).
THEOREM CycleRecordIsTrue == Spec => []RecordIsTrue
<1>1. Typed /\ Honest => RecordIsTrue
  <2> SUFFICES ASSUME Typed, Honest, record.date # 0, ~record.crash, NEW u \in Users
               PROVE  /\ u \in DOMAIN record.users /\ record.users[u] = "sent"
                           => MailedOn(u, record.date) # {}
                      /\ record.date \notin excused /\ MailedOn(u, record.date) # {} =>
                           u \in DOMAIN record.users /\ record.users[u] \in {"sent", "failed"}
    BY DEF RecordIsTrue
  <2>1. ASSUME NEW m \in got, m[1] = u, m[2] = record.date PROVE MailedOn(u, record.date) # {}
    <3>1. m[3] \in Runs /\ m = <<u, record.date, m[3]>>
      BY <2>1, GotType
    <3> QED BY <3>1 DEF MailedOn
  <2>2. ASSUME NEW r \in MailedOn(u, record.date)
        PROVE  \E m \in got : m[1] = u /\ m[2] = record.date
    BY <2>2 DEF MailedOn
  <2> QED BY <2>1, <2>2 DEF Honest
<1> QED BY <1>1, Recorded, PTL

=============================================================================
