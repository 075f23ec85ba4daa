------------------------- MODULE PaperTradesProofs -------------------------
(***************************************************************************)
(* Theorems about PaperTrades, for every set of instruments, prices and    *)
(* bars and every bound on days, rows and ids.                             *)
(*                                                                         *)
(* SerialsInv says that the rows are a list; ClosedFirst that a closed row *)
(* comes first among the rows of its id, from which closed trades are      *)
(* safe; IdsInv when the number of today's rows is a fresh counter; and    *)
(* PendingInv to which row a pending transition still belongs.             *)
(***************************************************************************)
EXTENDS PaperTrades, FiniteSetTheorems, WellFoundedInduction, TLAPS

SerialsInv ==
  /\ \A r, s \in rows : r.serial = s.serial => r = s
  /\ \A r \in rows : r.serial <= opened /\ r.id.day <= today

-----------------------------------------------------------------------------
(* Facts about the helpers. *)

\* A non-empty set of naturals has a least element.
LEMMA LeastNat ==
  ASSUME NEW T \in SUBSET Nat, T # {}
  PROVE  \E n \in T : \A m \in T : n <= m
<1> DEFINE R == OpToRel(<, Nat)
<1>1. IsWellFoundedOn(R, Nat)
  BY NatLessThanWellFounded
<1> HIDE DEF R
<1>2. PICK n \in T : \A m \in T : ~(<<m, n>> \in R)
  BY <1>1, WFMin
<1>3. ASSUME NEW m \in T PROVE n <= m
  <2>1. ~(m < n)
    BY <1>2 DEF R, OpToRel
  <2> QED BY <2>1
<1> QED BY <1>2, <1>3

\* matches[0] exists as soon as there is a match, and is the oldest match.
LEMMA FirstMatchIsOldest ==
  ASSUME TypeOK, NEW id, Matches(id) # {}
  PROVE  /\ FirstMatch(id) \in rows
         /\ FirstMatch(id).id = id
         /\ \A q \in rows : q.id = id => FirstMatch(id).serial <= q.serial
<1> DEFINE T == {q.serial : q \in Matches(id)}
<1>1. T \in SUBSET Nat /\ T # {}
  BY LedgerAssumption DEF TypeOK, Rows, Matches
<1>2. PICK n \in T : \A m \in T : n <= m
  BY <1>1, LeastNat
<1>3. \E r \in Matches(id) : \A q \in Matches(id) : r.serial <= q.serial
  BY <1>2
<1>4. /\ FirstMatch(id) \in Matches(id)
      /\ \A q \in Matches(id) : FirstMatch(id).serial <= q.serial
  BY <1>3 DEF FirstMatch
<1> QED BY <1>4 DEF Matches

\* The ledger is finite: serials number its rows.
LEMMA RowsAreFinite ==
  ASSUME TypeOK, SerialsInv PROVE IsFiniteSet(rows)
<1> DEFINE f == [r \in rows |-> r.serial]
<1>1. f \in Injection(rows, 1..MaxOpens)
  BY DEF TypeOK, Rows, SerialsInv, Injection, IsInjective
<1>2. IsFiniteSet(1..MaxOpens)
  BY FS_Interval, LedgerAssumption
<1> QED BY <1>1, <1>2, FS_Injection

\* The rows counted for a new id number a natural.
LEMMA SameDayIsFinite ==
  ASSUME TypeOK, SerialsInv, NEW i
  PROVE  IsFiniteSet(SameDay(i)) /\ Cardinality(SameDay(i)) \in Nat
<1>1. SameDay(i) \in SUBSET rows
  BY DEF SameDay
<1> QED BY <1>1, RowsAreFinite, FS_Subset, FS_CardinalityType

\* commit_map has an entry for an id iff some transition is to be committed.
LEMMA WinnerIsCommitted ==
  ASSUME TypeOK, NEW id, \E t \in Committed : t.id = id
  PROVE  Winner(id) \in Committed /\ Winner(id).id = id
<1> DEFINE C == {c \in Committed : c.id = id}
           key(t) == IF t.worthy THEN 2 * MaxOpens - t.serial ELSE MaxOpens - t.serial
           T == {key(t) : t \in C}
<1>1. \A t \in C : t.serial \in 1..MaxOpens /\ t.worthy \in BOOLEAN
  BY DEF TypeOK, Committed, Transitions
<1>2. T \in SUBSET Nat /\ T # {}
  BY <1>1, LedgerAssumption
<1>3. PICK t \in C : \A s \in C : key(t) <= key(s)
  <2>1. PICK n \in T : \A m \in T : n <= m
    BY <1>2, LeastNat
  <2> QED BY <2>1
<1>4. \A s \in C : ~Overrides(s, t)
  BY <1>1, <1>3, LedgerAssumption DEF Overrides
<1> HIDE DEF key, T
<1>5. Winner(id) \in C
  BY <1>3, <1>4 DEF Winner
<1> QED BY <1>5

-----------------------------------------------------------------------------
(* Type correctness, and the rows are a list. *)

LEMMA InitTypes == Init => TypeOK /\ SerialsInv
<1> SUFFICES ASSUME Init PROVE TypeOK /\ SerialsInv
  OBVIOUS
<1>1. 1 \in Days /\ 0 \in 0..MaxOpens
  BY LedgerAssumption DEF Days
<1>2. TypeOK
  BY <1>1 DEF Init, TypeOK
<1>3. SerialsInv
  BY DEF Init, SerialsInv
<1> QED BY <1>2, <1>3

LEMMA NextTypes ==
  TypeOK /\ SerialsInv /\ [Next]_vars => TypeOK' /\ SerialsInv'
<1> SUFFICES ASSUME TypeOK, SerialsInv, [Next]_vars PROVE TypeOK' /\ SerialsInv'
  OBVIOUS
<1>r. /\ rows \in SUBSET Rows /\ opened \in 0..MaxOpens /\ MaxOpens \in Nat
      /\ today \in Days /\ LastDay \in Nat /\ Days \subseteq Nat
  BY LedgerAssumption DEF TypeOK, Days
<1>e. TypeOK' <=> /\ rows' \in SUBSET Rows /\ opened' \in 0..MaxOpens /\ today' \in Days
                  /\ bar' \in [Instruments -> Bars \cup {NoBar}]
                  /\ phase' \in {"idle", "evaluated", "sent"}
                  /\ pending' \in SUBSET Transitions /\ emailed' \in BOOLEAN
                  /\ told' \in SUBSET Mails
                  /\ overtaken' \in SUBSET (1..MaxOpens)
                  /\ gapped' \in SUBSET (Instruments \X Days)
  BY DEF TypeOK
<1>s. \A r \in rows : /\ r.serial \in 1..MaxOpens /\ r.id \in Ids /\ r.status \in {"open", "closed"}
                      /\ r.id.day \in Nat
  BY <1>r DEF Rows, Ids
<1>1. ASSUME NEW i \in Instruments, NEW side \in Sides, NEW entry \in Prices,
             NEW stop \in StopPrices \cup {NoStop}, NEW dt \in Dates,
             Open(i, side, entry, stop, dt)
      PROVE  TypeOK' /\ SerialsInv'
  <2> DEFINE c == Cardinality(SameDay(i)) + 1
             id == [instrument |-> i, day |-> today, counter |-> c]
             n == [serial |-> opened + 1, id |-> id, instrument |-> i, side |-> side,
                   entry |-> entry, stop |-> stop, entryDt |-> dt, exitDt |-> 0,
                   status |-> "open", alert |-> "None"]
  <2>1. c \in 1..MaxPerDay
    BY <1>1, SameDayIsFinite, LedgerAssumption DEF Open
  <2>2. id \in Ids
    BY <2>1, <1>r DEF Ids
  <2>3. opened + 1 \in 1..MaxOpens
    BY <1>1, <1>r DEF Open
  <2> HIDE DEF c, id
  <2>4. n \in Rows /\ n.serial = opened + 1 /\ n.id = id
    BY <2>2, <2>3 DEF Rows
  <2>5. /\ rows' = rows \cup {n} /\ opened' = opened + 1
        /\ UNCHANGED <<today, evaluator, told, gapped>>
    BY <1>1 DEF Open, c, id
  <2> HIDE DEF n
  <2>a. overtaken' \in SUBSET (1..MaxOpens)
    BY <1>1, <2>3 DEF Open, TypeOK
  <2>6. TypeOK'
    BY <1>e, <2>a, <2>3, <2>4, <2>5, <1>r DEF TypeOK, evaluator
  <2>7. id.day = today
    BY DEF id
  <2>8. today' = today /\ \A r \in rows : r.serial <= opened /\ r.id.day <= today
    BY <2>5 DEF SerialsInv
  <2>9. \A r \in rows : r.serial < opened + 1
    BY <2>8, <1>r, <1>s
  <2>10. \A r, q \in rows' : r.serial = q.serial => r = q
    <3> SUFFICES ASSUME NEW r \in rows', NEW q \in rows', r.serial = q.serial PROVE r = q
      OBVIOUS
    <3>1. CASE r \in rows /\ q \in rows
      BY <3>1 DEF SerialsInv
    <3>2. CASE r = n \/ q = n
      <4>1. opened + 1 \in Nat
        BY <1>r
      <4> QED BY <3>2, <4>1, <2>4, <2>5, <2>9
    <3> QED BY <3>1, <3>2, <2>5
  <2>11. \A r \in rows' : r.serial <= opened' /\ r.id.day <= today'
    <3>1. n.serial <= opened' /\ n.id.day <= today'
      BY <2>4, <2>5, <2>7, <2>8, <1>r DEF Days
    <3>2. \A r \in rows : r.serial <= opened'
      BY <2>5, <2>9, <1>r, <1>s
    <3> QED BY <3>1, <3>2, <2>5, <2>8
  <2> QED BY <2>6, <2>10, <2>11 DEF SerialsInv
<1>u. ASSUME NEW f \in rows, NEW g \in Rows, g.serial = f.serial, g.id = f.id,
             rows' = (rows \ {f}) \cup {g}, UNCHANGED <<opened, today, evaluator, gapped>>,
             told' \subseteq told, overtaken' \subseteq overtaken \cup {f.serial}
      PROVE  TypeOK' /\ SerialsInv'
  <2>1. TypeOK'
    BY <1>u, <1>e, <1>s DEF TypeOK, evaluator
  <2>2. SerialsInv'
    BY <1>u, <1>r DEF SerialsInv
  <2> QED BY <2>1, <2>2
<1>2. ASSUME NEW id \in Ids, NEW i \in Instruments, NEW side \in Sides, NEW entry \in Prices,
             NEW stop \in StopPrices \cup {NoStop}, NEW dt \in Dates,
             Edit(id, i, side, entry, stop, dt)
      PROVE  TypeOK' /\ SerialsInv'
  <2> DEFINE f == FirstMatch(id)
             g == [f EXCEPT !.instrument = i, !.side = side, !.entry = entry,
                            !.stop = stop, !.entryDt = dt, !.alert = "None"]
  <2>1. f \in rows
    BY <1>2, FirstMatchIsOldest DEF Edit
  <2>2. /\ rows' = (rows \ {f}) \cup {g} /\ UNCHANGED <<opened, today, evaluator, gapped>>
        /\ told' \subseteq told /\ overtaken' \subseteq overtaken \cup {f.serial}
    BY <1>2 DEF Edit
  <2> HIDE DEF f
  <2>3. g \in Rows /\ g.serial = f.serial /\ g.id = f.id
    BY <2>1, <1>r DEF Rows
  <2> QED BY <2>1, <2>2, <2>3, <1>u
<1>3. ASSUME NEW id \in Ids, Delete(id) PROVE TypeOK' /\ SerialsInv'
  <2>1. /\ rows' \subseteq rows /\ told' \subseteq told /\ overtaken' \subseteq overtaken
        /\ UNCHANGED <<opened, today, evaluator>>
    BY <1>3 DEF Delete, Forget
  <2>2. GapsLeft(id) \in SUBSET (Instruments \X Days)
    BY <1>r, <1>s DEF GapsLeft, SameDay, Ids
  <2>3. gapped' \in SUBSET (Instruments \X Days)
    BY <1>3, <2>2 DEF Delete, TypeOK
  <2>4. TypeOK'
    BY <1>e, <2>1, <2>3 DEF TypeOK, evaluator
  <2> QED BY <2>1, <2>4 DEF SerialsInv
<1>4. ASSUME NEW id \in Ids, NEW dt \in Dates, Close(id, dt) PROVE TypeOK' /\ SerialsInv'
  <2> DEFINE f == FirstMatch(id)
             g == [f EXCEPT !.exitDt = dt, !.status = "closed"]
  <2>1. f \in rows
    BY <1>4, FirstMatchIsOldest DEF Close
  <2>2. rows' = (rows \ {f}) \cup {g} /\ UNCHANGED <<opened, today, evaluator, history>>
    BY <1>4 DEF Close
  <2> HIDE DEF f
  <2>3. g \in Rows /\ g.serial = f.serial /\ g.id = f.id
    BY <2>1, <1>r DEF Rows
  <2> QED BY <2>1, <2>2, <2>3, <1>u DEF history
<1>5. ASSUME NextDay PROVE TypeOK' /\ SerialsInv'
  <2>1. today' \in Days
    BY <1>5, <1>r DEF NextDay, Days
  <2>2. TypeOK'
    BY <1>5, <2>1, <1>e DEF NextDay, TypeOK, ledger, evaluator, history
  <2>3. SerialsInv'
    BY <1>5, <1>r, <1>s DEF NextDay, SerialsInv, ledger
  <2> QED BY <2>2, <2>3
<1>6. ASSUME NEW bars \in [Instruments -> Bars \cup {NoBar}], Evaluate(bars)
      PROVE  TypeOK' /\ SerialsInv'
  <2>1. \A r \in rows : AlertState(r.side, bars[r.instrument], r.stop) \in AlertStates
    BY DEF AlertState, AlertStates, Alarms
  <2>2. \A r \in rows, new \in AlertStates : EmailWorthy(r.alert, new) \in BOOLEAN
    BY DEF EmailWorthy
  <2>3. \A r \in rows : r.stop # NoStop => r.stop \in StopPrices
    BY <1>r DEF Rows
  <2>4. pending' \in SUBSET Transitions
    BY <1>6, <1>r, <2>1, <2>2, <2>3 DEF Evaluate, Transitions, Rows
  <2>5. TypeOK'
    BY <1>6, <2>4, <1>e DEF Evaluate, TypeOK, ledger, history
  <2>6. SerialsInv'
    BY <1>6 DEF Evaluate, SerialsInv, ledger
  <2> QED BY <2>5, <2>6
<1>7. ASSUME NEW ok \in BOOLEAN, SendAlerts(ok) PROVE TypeOK' /\ SerialsInv'
  <2>1. {MailOf(t) : t \in {w \in Worthy : ok /\ w.new \in Alarms}} \in SUBSET Mails
    BY DEF Worthy, TypeOK, Transitions, MailOf, Mails
  <2>2. TypeOK'
    BY <1>7, <2>1, <1>e DEF SendAlerts, TypeOK, ledger
  <2>3. SerialsInv'
    BY <1>7 DEF SendAlerts, SerialsInv, ledger
  <2> QED BY <2>2, <2>3
<1>8. ASSUME CommitAlerts PROVE TypeOK' /\ SerialsInv'
  <2> DEFINE W(r) == IF \E t \in Committed : t.id = r.id
                       THEN [r EXCEPT !.alert = Winner(r.id).new] ELSE r
  <2>1. ASSUME NEW r \in rows
        PROVE  W(r) \in Rows /\ W(r).serial = r.serial /\ W(r).id = r.id
    <3>1. CASE \E t \in Committed : t.id = r.id
      <4>1. Winner(r.id).new \in AlertStates
        BY <3>1, WinnerIsCommitted DEF Committed, TypeOK, Transitions
      <4>2. W(r) = [r EXCEPT !.alert = Winner(r.id).new]
        BY <3>1
      <4> QED BY <4>1, <4>2, <1>r DEF Rows
    <3>2. CASE ~\E t \in Committed : t.id = r.id
      BY <3>2, <1>r
    <3> QED BY <3>1, <3>2
  <2>2. rows' = {W(r) : r \in rows}
    BY <1>8 DEF CommitAlerts
  <2> HIDE DEF W
  <2>3. TypeOK'
    BY <1>8, <2>1, <2>2, <1>e DEF CommitAlerts, TypeOK, Remember
  <2>4. SerialsInv'
    <3>1. ASSUME NEW r \in rows, NEW q \in rows, W(r).serial = W(q).serial PROVE W(r) = W(q)
      BY <2>1, <3>1 DEF SerialsInv
    <3>2. \A r \in rows : W(r).serial <= opened /\ W(r).id.day <= today
      BY <2>1 DEF SerialsInv
    <3>3. opened' = opened /\ today' = today
      BY <1>8 DEF CommitAlerts
    <3> QED BY <2>2, <3>1, <3>2, <3>3 DEF SerialsInv
  <2> QED BY <2>3, <2>4
<1>9. ASSUME EvaluatorFails PROVE TypeOK' /\ SerialsInv'
  BY <1>9, <1>e DEF EvaluatorFails, TypeOK, SerialsInv, ledger, Remember
<1>10. ASSUME UNCHANGED vars PROVE TypeOK' /\ SerialsInv'
  BY <1>10, <1>e DEF vars, TypeOK, SerialsInv, ledger, evaluator, history
<1> QED
  BY <1>1, <1>2, <1>3, <1>4, <1>5, <1>6, <1>7, <1>8, <1>9, <1>10
     DEF Next, WebStep, EvaluatorStep

\* Every variable of the ledger and of the evaluator keeps its type; in
\* particular no id's counter passes MaxPerDay (the 999 limit).
THEOREM LedgerTypeCorrect == Spec => []TypeOK
<1>1. TypeOK /\ SerialsInv /\ [Next]_vars => (TypeOK /\ SerialsInv)'
  BY NextTypes
<1> QED BY InitTypes, <1>1, PTL DEF Spec

-----------------------------------------------------------------------------
(* Closed trades are safe, also when ids are reused. *)

\* A closed row is the oldest row of its id.
ClosedFirst ==
  \A r, s \in rows : r.id = s.id /\ s.status = "closed" => s.serial <= r.serial

Frozen(r) == \E s \in rows' : s = [r EXCEPT !.alert = s.alert]

\* If the row a request addresses is open, so is every row of that id.
LEMMA OpenMatchesOnly ==
  ASSUME TypeOK, SerialsInv, ClosedFirst, NEW id, Matches(id) # {},
         FirstMatch(id).status = "open", NEW r \in rows, r.id = id
  PROVE  r.status # "closed"
<1> SUFFICES ASSUME r.status = "closed" PROVE FALSE
  OBVIOUS
<1> DEFINE f == FirstMatch(id)
<1>1. f \in rows /\ f.id = id /\ f.serial <= r.serial
  BY FirstMatchIsOldest
<1>2. r.serial <= f.serial
  BY <1>1 DEF ClosedFirst
<1>3. f.serial = r.serial
  BY <1>1, <1>2 DEF TypeOK, Rows
<1> QED BY <1>1, <1>3 DEF SerialsInv

\* The row itself is what its update with its own alert state is.
LEMMA SameRow ==
  ASSUME TypeOK, NEW r \in rows PROVE r = [r EXCEPT !.alert = r.alert]
BY DEF TypeOK, Rows

LEMMA NextClosed ==
  TypeOK /\ SerialsInv /\ ClosedFirst /\ [Next]_vars
    => /\ ClosedFirst'
       /\ \A r \in rows : r.status = "closed" => Frozen(r)
<1> SUFFICES ASSUME TypeOK, SerialsInv, ClosedFirst, [Next]_vars
             PROVE  /\ ClosedFirst'
                    /\ \A r \in rows : r.status = "closed" => Frozen(r)
  OBVIOUS
<1> DEFINE Goal == /\ ClosedFirst'
                   /\ \A r \in rows : r.status = "closed" => Frozen(r)
<1>r. /\ opened \in Nat
      /\ \A r \in rows : r.serial \in Nat
  BY LedgerAssumption DEF TypeOK, Rows
<1>k. \A r \in rows : r \in rows' => Frozen(r)
  BY SameRow DEF Frozen
<1>1. ASSUME NEW i \in Instruments, NEW side \in Sides, NEW entry \in Prices,
             NEW stop \in StopPrices \cup {NoStop}, NEW dt \in Dates,
             Open(i, side, entry, stop, dt)
      PROVE  Goal
  <2> DEFINE n == [serial |-> opened + 1,
                   id |-> [instrument |-> i, day |-> today,
                           counter |-> Cardinality(SameDay(i)) + 1],
                   instrument |-> i, side |-> side, entry |-> entry, stop |-> stop,
                   entryDt |-> dt, exitDt |-> 0, status |-> "open", alert |-> "None"]
  <2>1. rows' = rows \cup {n} /\ n.serial = opened + 1 /\ n.status = "open"
    BY <1>1 DEF Open
  <2> HIDE DEF n
  <2>2. ClosedFirst'
    BY <2>1, <1>r DEF ClosedFirst, SerialsInv
  <2> QED BY <2>1, <2>2, <1>k
<1>2. ASSUME NEW id \in Ids, NEW i \in Instruments, NEW side \in Sides, NEW entry \in Prices,
             NEW stop \in StopPrices \cup {NoStop}, NEW dt \in Dates,
             Edit(id, i, side, entry, stop, dt)
      PROVE  Goal
  <2> DEFINE f == FirstMatch(id)
             g == [f EXCEPT !.instrument = i, !.side = side, !.entry = entry,
                            !.stop = stop, !.entryDt = dt, !.alert = "None"]
  <2>1. f \in rows /\ f.status = "open"
    BY <1>2, FirstMatchIsOldest DEF Edit
  <2>2. rows' = (rows \ {f}) \cup {g}
    BY <1>2 DEF Edit
  <2> HIDE DEF f
  <2>3. g.serial = f.serial /\ g.id = f.id /\ g.status = "open"
    BY <2>1 DEF TypeOK, Rows
  <2> HIDE DEF g
  <2>4. ClosedFirst'
    BY <2>1, <2>2, <2>3 DEF ClosedFirst
  <2> QED BY <2>1, <2>2, <2>4, <1>k
<1>3. ASSUME NEW id \in Ids, Delete(id) PROVE Goal
  <2>1. rows' = rows \ Matches(id)
    BY <1>3 DEF Delete
  <2>2. \A r \in rows : r.status = "closed" => r \in rows'
    BY <1>3, <2>1, OpenMatchesOnly DEF Delete, Matches
  <2>3. ClosedFirst'
    BY <2>1 DEF ClosedFirst
  <2> QED BY <2>2, <2>3, <1>k
<1>4. ASSUME NEW id \in Ids, NEW dt \in Dates, Close(id, dt) PROVE Goal
  <2> DEFINE f == FirstMatch(id)
             g == [f EXCEPT !.exitDt = dt, !.status = "closed"]
  <2>1. /\ f \in rows /\ f.id = id /\ f.status = "open"
        /\ \A q \in rows : q.id = id => f.serial <= q.serial
    BY <1>4, FirstMatchIsOldest DEF Close
  <2>2. rows' = (rows \ {f}) \cup {g}
    BY <1>4 DEF Close
  <2> HIDE DEF f
  <2>3. g.serial = f.serial /\ g.id = f.id
    BY <2>1 DEF TypeOK, Rows
  <2> HIDE DEF g
  <2>4. ClosedFirst'
    BY <2>1, <2>2, <2>3, <1>r DEF ClosedFirst
  <2> QED BY <2>1, <2>2, <2>4, <1>k
<1>5. ASSUME CommitAlerts PROVE Goal
  <2> DEFINE W(r) == IF \E t \in Committed : t.id = r.id
                       THEN [r EXCEPT !.alert = Winner(r.id).new] ELSE r
  <2>1. ASSUME NEW r \in rows
        PROVE  /\ W(r) = [r EXCEPT !.alert = W(r).alert]
               /\ W(r).serial = r.serial /\ W(r).id = r.id /\ W(r).status = r.status
    <3>1. CASE \E t \in Committed : t.id = r.id
      <4>1. W(r) = [r EXCEPT !.alert = Winner(r.id).new]
        BY <3>1
      <4> QED BY <4>1 DEF TypeOK, Rows
    <3>2. CASE ~\E t \in Committed : t.id = r.id
      BY <3>2, SameRow
    <3> QED BY <3>1, <3>2
  <2>2. rows' = {W(r) : r \in rows}
    BY <1>5 DEF CommitAlerts
  <2> HIDE DEF W
  <2>3. ClosedFirst'
    BY <2>1, <2>2 DEF ClosedFirst
  <2>4. \A r \in rows : Frozen(r)
    BY <2>1, <2>2 DEF Frozen
  <2> QED BY <2>3, <2>4
<1>6. ASSUME UNCHANGED rows PROVE Goal
  BY <1>6, <1>k DEF ClosedFirst
<1> QED
  BY <1>1, <1>2, <1>3, <1>4, <1>5, <1>6
     DEF Next, WebStep, EvaluatorStep, NextDay, Evaluate, SendAlerts, EvaluatorFails, vars, ledger

\* No sequence of web requests and evaluator steps, with ids reused or not,
\* takes a closed trade out of the ledger or changes its outcome.
THEOREM ClosedTradesAreSafe == Spec => ClosedOutcomesFrozen
<1>1. Init => TypeOK /\ SerialsInv /\ ClosedFirst
  BY InitTypes DEF Init, ClosedFirst
<1>2. TypeOK /\ SerialsInv /\ ClosedFirst /\ [Next]_vars
        => (TypeOK /\ SerialsInv /\ ClosedFirst)'
  BY NextTypes, NextClosed
<1>3. TypeOK /\ SerialsInv /\ ClosedFirst /\ [Next]_vars
        => [\A r \in rows : r.status = "closed" => \E s \in rows' : s = [r EXCEPT !.alert = s.alert]]_vars
  BY NextClosed DEF Frozen
<1> QED BY <1>1, <1>2, <1>3, PTL DEF Spec, ClosedOutcomesFrozen

-----------------------------------------------------------------------------
(* Ids are unique where no day has a gap. *)

TodaysIds(i) == {id \in {r.id : r \in rows} : id.instrument = i /\ id.day = today}

\* Without a gap the ids given out today are still there up to the last one, so
\* that none exceeds their number.
IdsInv ==
  /\ UniqueIds
  /\ \A r \in rows : r.id.day = today /\ ~Gapped(r)
       => r.id.counter <= Cardinality(TodaysIds(r.id.instrument))
  /\ \A g \in gapped : g[2] <= today

\* Counting today's rows is counting today's ids.
LEMMA CountingIds ==
  ASSUME TypeOK, SerialsInv, UniqueIds, NEW i, <<i, today>> \notin gapped
  PROVE  /\ IsFiniteSet(TodaysIds(i))
         /\ Cardinality(TodaysIds(i)) = Cardinality(SameDay(i))
<1> DEFINE f == [r \in SameDay(i) |-> r.id]
<1>1. f \in Bijection(SameDay(i), TodaysIds(i))
  BY DEF SameDay, TodaysIds, UniqueIds, Gapped, Bijection, Injection, Surjection, IsInjective
<1>2. ExistsBijection(SameDay(i), TodaysIds(i))
  BY <1>1 DEF ExistsBijection
<1> QED BY <1>2, SameDayIsFinite, FS_Bijection

\* The counter of a new id is a natural no present id of that day has.
LEMMA NewIdIsNew ==
  ASSUME TypeOK, SerialsInv, IdsInv, NEW i, NEW r \in rows,
         r.id.instrument = i, r.id.day = today, ~Gapped(r)
  PROVE  r.id.counter < Cardinality(SameDay(i)) + 1
<1>1. r.id.counter <= Cardinality(SameDay(i))
  BY CountingIds DEF IdsInv, Gapped
<1>2. r.id.counter \in Nat /\ Cardinality(SameDay(i)) \in Nat
  BY SameDayIsFinite, LedgerAssumption DEF TypeOK, Rows, Ids
<1> QED BY <1>1, <1>2

\* A step that rewrites rows one by one and leaves serials and ids alone.
RewritesRows ==
  /\ \A s \in rows' : \E r \in rows : r.serial = s.serial /\ r.id = s.id
  /\ \A r \in rows : \E s \in rows' : r.serial = s.serial /\ r.id = s.id
  /\ today' = today /\ gapped' = gapped

LEMMA RewritesKeepIds ==
  ASSUME SerialsInv', IdsInv, RewritesRows PROVE IdsInv'
<1>1. UniqueIds'
  <2> SUFFICES ASSUME NEW r \in rows', NEW s \in rows', r.id = s.id, ~Gapped(r)' PROVE r = s
    BY DEF UniqueIds
  <2>1. PICK p \in rows : p.serial = r.serial /\ p.id = r.id
    BY DEF RewritesRows
  <2>2. PICK q \in rows : q.serial = s.serial /\ q.id = s.id
    BY DEF RewritesRows
  <2>3. p = q
    BY <2>1, <2>2 DEF IdsInv, UniqueIds, Gapped, RewritesRows
  <2> QED BY <2>1, <2>2, <2>3 DEF SerialsInv
<1>2. {r.id : r \in rows}' = {r.id : r \in rows}
  BY DEF RewritesRows
<1>3. \A i : TodaysIds(i)' = TodaysIds(i)
  BY <1>2 DEF TodaysIds, RewritesRows
<1> QED BY <1>1, <1>3 DEF IdsInv, RewritesRows, Gapped

\* Edits, closes and alert commits are such steps.
LEMMA UpdatesRewriteRows ==
  ASSUME TypeOK, SerialsInv
  PROVE  /\ \A id, i, side, entry, stop, dt : Edit(id, i, side, entry, stop, dt) => RewritesRows
         /\ \A id, dt : Close(id, dt) => RewritesRows
         /\ CommitAlerts => RewritesRows
<1>1. ASSUME NEW id, NEW i, NEW side, NEW entry, NEW stop, NEW dt,
             Edit(id, i, side, entry, stop, dt)
      PROVE  RewritesRows
  <2> DEFINE f == FirstMatch(id)
             g == [f EXCEPT !.instrument = i, !.side = side, !.entry = entry,
                            !.stop = stop, !.entryDt = dt, !.alert = "None"]
  <2>1. f \in rows
    BY <1>1, FirstMatchIsOldest DEF Edit
  <2>2. rows' = (rows \ {f}) \cup {g} /\ today' = today /\ gapped' = gapped
    BY <1>1 DEF Edit
  <2> HIDE DEF f
  <2>3. g.serial = f.serial /\ g.id = f.id
    BY <2>1 DEF TypeOK, Rows
  <2> HIDE DEF g
  <2> QED BY <2>1, <2>2, <2>3 DEF RewritesRows
<1>2. ASSUME NEW id, NEW dt, Close(id, dt) PROVE RewritesRows
  <2> DEFINE f == FirstMatch(id)
             g == [f EXCEPT !.exitDt = dt, !.status = "closed"]
  <2>1. f \in rows
    BY <1>2, FirstMatchIsOldest DEF Close
  <2>2. rows' = (rows \ {f}) \cup {g} /\ today' = today /\ gapped' = gapped
    BY <1>2 DEF Close, history
  <2> HIDE DEF f
  <2>3. g.serial = f.serial /\ g.id = f.id
    BY <2>1 DEF TypeOK, Rows
  <2> HIDE DEF g
  <2> QED BY <2>1, <2>2, <2>3 DEF RewritesRows
<1>3. ASSUME CommitAlerts PROVE RewritesRows
  <2> DEFINE W(r) == IF \E t \in Committed : t.id = r.id
                       THEN [r EXCEPT !.alert = Winner(r.id).new] ELSE r
  <2>1. \A r \in rows : W(r).serial = r.serial /\ W(r).id = r.id
    BY DEF TypeOK, Rows
  <2>2. rows' = {W(r) : r \in rows} /\ today' = today /\ gapped' = gapped
    BY <1>3 DEF CommitAlerts
  <2> HIDE DEF W
  <2> QED BY <2>1, <2>2 DEF RewritesRows
<1> QED BY <1>1, <1>2, <1>3

LEMMA NextIds == TypeOK /\ SerialsInv /\ SerialsInv' /\ IdsInv /\ [Next]_vars => IdsInv'
<1> SUFFICES ASSUME TypeOK, SerialsInv, SerialsInv', IdsInv, [Next]_vars PROVE IdsInv'
  OBVIOUS
<1>n. /\ today \in Nat
      /\ \A r \in rows : r.id.counter \in Nat /\ r.id.day \in Nat /\ r.id.day <= today
      /\ \A r \in rows : r.id = [instrument |-> r.id.instrument, day |-> r.id.day,
                                 counter |-> r.id.counter]
  BY LedgerAssumption DEF TypeOK, Rows, Ids, Days, SerialsInv
<1>1. ASSUME NEW i \in Instruments, NEW side \in Sides, NEW entry \in Prices,
             NEW stop \in StopPrices \cup {NoStop}, NEW dt \in Dates,
             Open(i, side, entry, stop, dt)
      PROVE  IdsInv'
  <2> DEFINE c == Cardinality(SameDay(i)) + 1
             id == [instrument |-> i, day |-> today, counter |-> c]
             n == [serial |-> opened + 1, id |-> id, instrument |-> i, side |-> side,
                   entry |-> entry, stop |-> stop, entryDt |-> dt, exitDt |-> 0,
                   status |-> "open", alert |-> "None"]
  <2>1. rows' = rows \cup {n} /\ today' = today /\ gapped' = gapped
    BY <1>1 DEF Open
  <2>2. n.id = id /\ id.instrument = i /\ id.day = today /\ id.counter = c
    OBVIOUS
  <2>8. \A j : j # i => TodaysIds(j)' = TodaysIds(j)
    BY <2>1, <2>2 DEF TodaysIds
  <2>g. \A r : Gapped(r)' <=> Gapped(r)
    BY <2>1 DEF Gapped
  \* On a day with a gap nothing is said of the new row.
  <2>3. CASE <<i, today>> \in gapped
    <3> HIDE DEF n, id
    <3>1. Gapped(n)
      BY <2>2, <2>3 DEF Gapped
    <3>2. UniqueIds'
      <4> SUFFICES ASSUME NEW r \in rows', NEW s \in rows', r.id = s.id, ~Gapped(r)
                   PROVE  r = s
        BY <2>g DEF UniqueIds
      <4>1. ~Gapped(s)
        BY DEF Gapped
      <4> QED BY <2>1, <3>1, <4>1 DEF IdsInv, UniqueIds
    <3>3. ASSUME NEW r \in rows', r.id.day = today, ~Gapped(r)
          PROVE  r.id.counter <= Cardinality(TodaysIds(r.id.instrument)')
      <4>1. r \in rows /\ r.id.instrument # i
        BY <2>1, <2>3, <3>1, <3>3 DEF Gapped
      <4> QED BY <2>8, <3>3, <4>1 DEF IdsInv
    <3> QED BY <2>1, <2>g, <3>2, <3>3 DEF IdsInv
  <2>4. CASE <<i, today>> \notin gapped
    <3>1. c \in Nat /\ c = Cardinality(TodaysIds(i)) + 1
      BY <2>4, SameDayIsFinite, CountingIds DEF IdsInv
    <3>2. \A r \in rows : r.id.instrument = i /\ r.id.day = today => r.id.counter < c
      BY <2>4, NewIdIsNew DEF Gapped
    <3> HIDE DEF c, id, n
    <3>3. \A r \in rows : r.id # id
      BY <2>2, <3>1, <3>2, <1>n
    <3>4. UniqueIds'
      BY <2>1, <2>2, <2>g, <3>3 DEF UniqueIds, IdsInv
    <3>5. TodaysIds(i)' = TodaysIds(i) \cup {id}
      BY <2>1, <2>2 DEF TodaysIds
    <3>6. Cardinality(TodaysIds(i)') = c
      <4>1. id \notin TodaysIds(i)
        BY <3>3 DEF TodaysIds
      <4>2. IsFiniteSet(TodaysIds(i))
        BY <2>4, CountingIds DEF IdsInv
      <4>3. Cardinality(TodaysIds(i) \cup {id}) = Cardinality(TodaysIds(i)) + 1
        BY <4>1, <4>2, FS_AddElement
      <4> QED BY <3>1, <3>5, <4>3
    <3>7. ASSUME NEW r \in rows', r.id.day = today, ~Gapped(r)
          PROVE  r.id.counter <= Cardinality(TodaysIds(r.id.instrument)')
      <4>1. CASE r.id.instrument = i
        BY <2>1, <2>2, <3>1, <3>2, <3>6, <3>7, <4>1, <1>n
      <4>2. CASE r.id.instrument # i
        BY <2>1, <2>2, <2>8, <3>7, <4>2 DEF IdsInv
      <4> QED BY <4>1, <4>2
    <3> QED BY <2>1, <2>g, <3>4, <3>7 DEF IdsInv
  <2> QED BY <2>3, <2>4
<1>2. ASSUME NEW id \in Ids, Delete(id) PROVE IdsInv'
  <2>1. /\ rows' = rows \ Matches(id) /\ today' = today /\ gapped' = gapped \cup GapsLeft(id)
        /\ Matches(id) # {}
    BY <1>2 DEF Delete
  <2>2. \A r : Gapped(r) => Gapped(r)'
    BY <2>1 DEF Gapped
  <2>3. UniqueIds'
    BY <2>1, <2>2 DEF IdsInv, UniqueIds
  <2>4. \A g \in gapped' : g[2] <= today'
    BY <2>1, <1>n DEF IdsInv, GapsLeft, SameDay
  <2>5. ASSUME NEW r \in rows', r.id.day = today, ~Gapped(r)'
        PROVE  r.id.counter <= Cardinality(TodaysIds(r.id.instrument)')
    <3>1. r \in rows /\ r.id # id /\ ~Gapped(r)
      BY <2>1, <2>2, <2>5 DEF Matches
    <3> DEFINE i == r.id.instrument
    <3>2. TodaysIds(i)' = TodaysIds(i) \ {id}
      BY <2>1 DEF TodaysIds, Matches
    <3>3. r.id.counter <= Cardinality(TodaysIds(i))
      BY <2>5, <3>1 DEF IdsInv
    <3>4. CASE id \notin TodaysIds(i)
      BY <3>2, <3>3, <3>4
    \* What is left of the day is below the id that is gone, which was counted.
    <3>5. CASE id \in TodaysIds(i)
      <4>1. id.instrument = i /\ id.day = today
        BY <3>5 DEF TodaysIds
      <4>2. PICK q \in rows : q.id = id
        BY <2>1 DEF Matches
      <4>3. id.counter <= Cardinality(TodaysIds(i))
        BY <3>1, <4>1, <4>2, <2>5 DEF IdsInv, Gapped
      <4>4. ~(r.id.counter > id.counter)
        <5>1. SUFFICES ASSUME r.id.counter > id.counter PROVE <<r.id.instrument, r.id.day>> \in gapped'
          BY <2>5 DEF Gapped
        <5>2. r \in SameDay(id.instrument)
          BY <3>1, <4>1, <2>5 DEF SameDay
        <5> QED BY <2>1, <4>1, <5>1, <5>2 DEF GapsLeft
      <4>5. r.id.counter # id.counter
        <5>1. id = [instrument |-> id.instrument, day |-> id.day, counter |-> id.counter]
          BY <4>2, <1>n
        <5> QED BY <3>1, <4>1, <2>5, <5>1, <1>n
      <4>6. IsFiniteSet(TodaysIds(i)) /\ Cardinality(TodaysIds(i)) \in Nat
        BY <3>1, <2>5, CountingIds, FS_CardinalityType DEF IdsInv, Gapped
      <4>7. Cardinality(TodaysIds(i) \ {id}) = Cardinality(TodaysIds(i)) - 1
        BY <3>5, <4>6, FS_RemoveElement
      <4>8. r.id.counter \in Nat /\ id.counter \in Nat
        BY <3>1, <4>2, <1>n
      <4> QED BY <3>2, <4>3, <4>4, <4>5, <4>6, <4>7, <4>8
    <3> QED BY <3>4, <3>5
  <2> QED BY <2>1, <2>3, <2>4, <2>5 DEF IdsInv
<1>3. ASSUME NextDay PROVE IdsInv'
  <2>1. rows' = rows /\ today' = today + 1 /\ gapped' = gapped
    BY <1>3 DEF NextDay, ledger, history
  <2>2. \A r \in rows : r.id.day # today'
    BY <2>1, <1>n
  <2>3. \A g \in gapped : g[2] <= today'
    <3>1. \A g \in gapped : g[2] \in Nat
      BY LedgerAssumption DEF TypeOK, Days
    <3> QED BY <2>1, <3>1, <1>n DEF IdsInv
  <2> QED BY <2>1, <2>2, <2>3 DEF IdsInv, UniqueIds, Gapped
<1>4. ASSUME RewritesRows PROVE IdsInv'
  BY <1>4, RewritesKeepIds
<1>5. ASSUME UNCHANGED <<rows, today, gapped>> PROVE IdsInv'
  BY <1>5 DEF IdsInv, UniqueIds, TodaysIds, Gapped
<1> QED
  BY <1>1, <1>2, <1>3, <1>4, <1>5, UpdatesRewriteRows
     DEF Next, WebStep, EvaluatorStep, Evaluate, SendAlerts, EvaluatorFails, vars, ledger, history

\* An id names one trade, through any edits, closes, deletes and alert commits,
\* unless a row of its day that was not the last was deleted on that day.
THEOREM IdsAreUnique == Spec => []UniqueIds
<1>1. Init => TypeOK /\ SerialsInv /\ IdsInv
  BY InitTypes DEF Init, IdsInv, UniqueIds
<1>2. TypeOK /\ SerialsInv /\ IdsInv /\ [Next]_vars => (TypeOK /\ SerialsInv /\ IdsInv)'
  BY NextTypes, NextIds
<1>3. IdsInv => UniqueIds
  BY DEF IdsInv
<1> QED BY <1>1, <1>2, <1>3, PTL DEF Spec

-----------------------------------------------------------------------------
(* What the ledger says was alerted, was alerted. *)

\* The transition still is about that row as it is, and if its mail arrived,
\* the mail is.
Belongs(t, r) ==
  /\ t.serial = r.serial /\ t.instrument = r.instrument /\ t.side = r.side /\ t.stop = r.stop
  /\ phase = "sent" /\ emailed /\ t.worthy /\ t.new \in Alarms => MailOf(t) \in told

\* A pending transition belongs to the row of its id, unless that row was
\* edited or opened since, or its id is one given twice.
PendingInv ==
  /\ \A t \in pending, r \in rows :
       t.id = r.id /\ r.serial \notin overtaken /\ ~Gapped(r) => Belongs(t, r)
  /\ \A t \in pending : t.new \in Alarms => t.worthy
  /\ StoredAlertsWereTold

LEMMA NextPending ==
  TypeOK /\ SerialsInv /\ IdsInv /\ PendingInv /\ [Next]_vars => PendingInv'
<1> SUFFICES ASSUME TypeOK, SerialsInv, IdsInv, PendingInv, [Next]_vars
             PROVE  PendingInv'
  OBVIOUS
<1>s. \A r, q \in rows : r.serial = q.serial => r = q
  BY DEF SerialsInv
<1>1. ASSUME NEW i \in Instruments, NEW side \in Sides, NEW entry \in Prices,
             NEW stop \in StopPrices \cup {NoStop}, NEW dt \in Dates,
             Open(i, side, entry, stop, dt)
      PROVE  PendingInv'
  <2> DEFINE id == [instrument |-> i, day |-> today, counter |-> Cardinality(SameDay(i)) + 1]
             n == [serial |-> opened + 1, id |-> id, instrument |-> i, side |-> side,
                   entry |-> entry, stop |-> stop, entryDt |-> dt, exitDt |-> 0,
                   status |-> "open", alert |-> "None"]
  <2>1. /\ rows' = rows \cup {n} /\ UNCHANGED <<today, evaluator, told, gapped>>
        /\ overtaken' = overtaken \cup {k \in {opened + 1} : Pending(id)}
    BY <1>1 DEF Open
  <2>2. n.id = id /\ n.alert = "None" /\ n.serial = opened + 1
    OBVIOUS
  <2> HIDE DEF id, n
  <2>3. \A t \in pending : t.id = n.id => n.serial \in overtaken'
    BY <2>1, <2>2 DEF Pending
  <2>4. \A r : Gapped(r)' <=> Gapped(r)
    BY <2>1 DEF Gapped
  <2>5. \A t, r : Belongs(t, r) => Belongs(t, r)'
    BY <2>1 DEF Belongs, MailOf, evaluator
  <2>6. \A r : Mailed(r, r.alert) => Mailed(r, r.alert)'
    BY <2>1 DEF Mailed
  <2>7. StoredAlertsWereTold'
    BY <2>1, <2>2, <2>4, <2>6 DEF PendingInv, StoredAlertsWereTold, Alarms
  <2> QED BY <2>1, <2>3, <2>4, <2>5, <2>7 DEF PendingInv, evaluator
\* An edit: mails and mark of the row begin anew.
<1>2. ASSUME NEW id \in Ids, NEW i \in Instruments, NEW side \in Sides, NEW entry \in Prices,
             NEW stop \in StopPrices \cup {NoStop}, NEW dt \in Dates,
             Edit(id, i, side, entry, stop, dt)
      PROVE  PendingInv'
  <2> DEFINE f == FirstMatch(id)
             g == [f EXCEPT !.instrument = i, !.side = side, !.entry = entry,
                            !.stop = stop, !.entryDt = dt, !.alert = "None"]
  <2>1. f \in rows /\ f.id = id
    BY <1>2, FirstMatchIsOldest DEF Edit
  <2>2. /\ rows' = (rows \ {f}) \cup {g} /\ UNCHANGED <<opened, today, evaluator, gapped>>
        /\ told' = told \ MailsAbout(f.serial)
        /\ overtaken' = IF Pending(id) THEN overtaken \cup {f.serial}
                                       ELSE overtaken \ {f.serial}
    BY <1>2 DEF Edit
  <2> HIDE DEF f
  <2>3. g.serial = f.serial /\ g.id = id /\ g.alert = "None"
    BY <2>1 DEF TypeOK, Rows
  <2> HIDE DEF g
  <2>4. \A t \in pending : t.id = g.id => g.serial \in overtaken'
    BY <2>2, <2>3 DEF Pending
  <2>5. \A r : Gapped(r)' <=> Gapped(r)
    BY <2>2 DEF Gapped
  <2>6. \A r \in rows : r # f => r.serial # f.serial /\ (r.serial \in overtaken' <=> r.serial \in overtaken)
    BY <1>s, <2>1, <2>2
  <2>7. \A t, r : r.serial # f.serial /\ Belongs(t, r) => Belongs(t, r)'
    BY <2>2 DEF Belongs, MailOf, MailsAbout, evaluator
  <2>8. \A r : r.serial # f.serial /\ Mailed(r, r.alert) => Mailed(r, r.alert)'
    BY <2>2 DEF Mailed, MailsAbout
  <2>9. StoredAlertsWereTold'
    BY <2>2, <2>3, <2>5, <2>6, <2>8 DEF PendingInv, StoredAlertsWereTold, Alarms
  <2> QED BY <2>2, <2>4, <2>5, <2>6, <2>7, <2>9 DEF PendingInv, evaluator
<1>3. ASSUME NEW id \in Ids, NEW dt \in Dates, Close(id, dt) PROVE PendingInv'
  <2> DEFINE f == FirstMatch(id)
             g == [f EXCEPT !.exitDt = dt, !.status = "closed"]
  <2>1. f \in rows
    BY <1>3, FirstMatchIsOldest DEF Close
  <2>2. rows' = (rows \ {f}) \cup {g} /\ UNCHANGED <<evaluator, history>>
    BY <1>3 DEF Close
  <2> HIDE DEF f
  <2>3. /\ g.serial = f.serial /\ g.id = f.id /\ g.alert = f.alert
        /\ g.instrument = f.instrument /\ g.side = f.side /\ g.stop = f.stop
    BY <2>1 DEF TypeOK, Rows
  <2> HIDE DEF g
  <2>4. /\ \A r : Gapped(r)' <=> Gapped(r)
        /\ \A t, r : Belongs(t, r)' <=> Belongs(t, r)
        /\ \A r : Mailed(r, r.alert)' <=> Mailed(r, r.alert)
    BY <2>2 DEF Gapped, Belongs, MailOf, Mailed, evaluator, history
  <2>5. \A t : Belongs(t, f) => Belongs(t, g)
    BY <2>3 DEF Belongs
  <2>6. (Gapped(g) <=> Gapped(f)) /\ (Mailed(g, g.alert) <=> Mailed(f, f.alert))
    BY <2>3 DEF Gapped, Mailed
  <2>7. StoredAlertsWereTold'
    BY <2>1, <2>2, <2>3, <2>4, <2>6 DEF PendingInv, StoredAlertsWereTold, history
  <2> QED BY <2>1, <2>2, <2>3, <2>4, <2>5, <2>6, <2>7 DEF PendingInv, evaluator, history
\* A delete: the rows that stay have serials of their own.
<1>4. ASSUME NEW id \in Ids, Delete(id) PROVE PendingInv'
  <2> DEFINE gone == {r.serial : r \in Matches(id)}
  <2>1. /\ rows' = rows \ Matches(id) /\ UNCHANGED <<today, evaluator>>
        /\ gapped \subseteq gapped'
        /\ \A m \in told : m.serial \notin gone => m \in told'
        /\ \A n \in overtaken : n \notin gone => n \in overtaken'
    BY <1>4 DEF Delete, Forget, MailsAbout
  <2>2. \A r \in rows' : r \in rows /\ r.serial \notin gone
    BY <1>s, <2>1 DEF Matches
  <2> HIDE DEF gone
  <2>3. \A r : Gapped(r) => Gapped(r)'
    BY <2>1 DEF Gapped
  <2>4. \A t, r : r.serial \notin gone /\ Belongs(t, r) => Belongs(t, r)'
    BY <2>1 DEF Belongs, MailOf, evaluator
  <2>5. \A r : r.serial \notin gone /\ Mailed(r, r.alert) => Mailed(r, r.alert)'
    BY <2>1 DEF Mailed
  <2>6. StoredAlertsWereTold'
    BY <2>1, <2>2, <2>3, <2>5 DEF PendingInv, StoredAlertsWereTold
  <2> QED BY <2>1, <2>2, <2>3, <2>4, <2>6 DEF PendingInv, evaluator
<1>5. ASSUME NextDay \/ UNCHANGED vars PROVE PendingInv'
  BY <1>5 DEF NextDay, vars, PendingInv, StoredAlertsWereTold, ledger, evaluator, history,
              Gapped, Belongs, MailOf, Mailed
<1>6. ASSUME NEW bars, Evaluate(bars) PROVE PendingInv'
  <2>1. \A t \in pending' : \E r \in rows :
          /\ t.id = r.id /\ t.serial = r.serial /\ t.instrument = r.instrument
          /\ t.side = r.side /\ t.stop = r.stop /\ t.new # r.alert
          /\ t.worthy = EmailWorthy(r.alert, t.new)
    BY <1>6 DEF Evaluate
  <2>2. UNCHANGED <<rows, opened, today, history>> /\ phase' = "evaluated"
    BY <1>6 DEF Evaluate, ledger
  <2>3. ASSUME NEW t \in pending', t.new \in Alarms PROVE t.worthy
    <3>1. PICK r \in rows : t.new # r.alert /\ t.worthy = EmailWorthy(r.alert, t.new)
      BY <2>1
    <3>2. EmailWorthy(r.alert, t.new)
      BY <2>3, <3>1 DEF EmailWorthy, Alarms
    <3> QED BY <3>1, <3>2
  <2>4. ASSUME NEW t \in pending', NEW r \in rows, t.id = r.id, ~Gapped(r)
        PROVE  Belongs(t, r)'
    <3>1. PICK q \in rows : /\ t.id = q.id /\ t.serial = q.serial /\ t.instrument = q.instrument
                            /\ t.side = q.side /\ t.stop = q.stop
      BY <2>1
    <3>2. q = r
      BY <2>4, <3>1 DEF IdsInv, UniqueIds
    <3> QED BY <2>2, <3>1, <3>2 DEF Belongs
  <2>5. \A r : (Gapped(r)' <=> Gapped(r)) /\ (Mailed(r, r.alert)' <=> Mailed(r, r.alert))
    BY <2>2 DEF Gapped, Mailed, history
  <2> QED BY <2>2, <2>3, <2>4, <2>5 DEF PendingInv, StoredAlertsWereTold, history
<1>7. ASSUME NEW ok \in BOOLEAN, SendAlerts(ok) PROVE PendingInv'
  <2>1. /\ UNCHANGED <<rows, pending, overtaken, gapped>> /\ told \subseteq told' /\ emailed' = ok
        /\ \A t \in pending : ok /\ t.worthy /\ t.new \in Alarms => MailOf(t) \in told'
    BY <1>7 DEF SendAlerts, ledger, Worthy
  <2>2. \A t \in pending : \A r : Belongs(t, r) => Belongs(t, r)'
    BY <2>1 DEF Belongs, MailOf
  <2>3. \A r : (Gapped(r)' <=> Gapped(r)) /\ (Mailed(r, r.alert) => Mailed(r, r.alert)')
    BY <2>1 DEF Gapped, Mailed
  <2> QED BY <2>1, <2>2, <2>3 DEF PendingInv, StoredAlertsWereTold
\* What Remember keeps is what the rows need.
<1>r. ASSUME NEW r, Remember(rows'), r \in rows', r.alert \in Alarms
      PROVE  /\ Mailed(r, r.alert) => Mailed(r, r.alert)'
             /\ r.serial \in overtaken => r.serial \in overtaken'
  BY <1>r DEF Remember, Mailed
<1>8. ASSUME CommitAlerts PROVE PendingInv'
  <2> DEFINE W(r) == IF \E t \in Committed : t.id = r.id
                       THEN [r EXCEPT !.alert = Winner(r.id).new] ELSE r
  <2>1. /\ rows' = {W(r) : r \in rows} /\ gapped' = gapped /\ pending' = {} /\ Remember(rows')
        /\ phase = "sent"
    BY <1>8 DEF CommitAlerts
  <2>2. ASSUME NEW r \in rows, W(r).alert \in Alarms, W(r).serial \notin overtaken, ~Gapped(W(r))
        PROVE  Mailed(W(r), W(r).alert)
    <3>1. CASE \E t \in Committed : t.id = r.id
      <4> DEFINE t == Winner(r.id)
      <4>1. t \in Committed /\ t.id = r.id
        BY <3>1, WinnerIsCommitted
      <4>2. /\ W(r).serial = r.serial /\ W(r).alert = t.new /\ W(r).id = r.id
            /\ W(r).instrument = r.instrument /\ W(r).side = r.side /\ W(r).stop = r.stop
        BY <3>1 DEF TypeOK, Rows
      <4> HIDE DEF t, W
      <4>3. t \in pending /\ Belongs(t, r)
        BY <2>2, <4>1, <4>2 DEF Committed, PendingInv, Gapped
      <4>4. t.worthy /\ emailed
        BY <2>2, <4>1, <4>2, <4>3 DEF Committed, PendingInv
      <4>5. MailOf(t) \in told
        BY <2>1, <2>2, <4>2, <4>3, <4>4 DEF Belongs
      <4> QED BY <4>2, <4>3, <4>5 DEF Mailed, MailOf, Belongs
    <3>2. CASE ~\E t \in Committed : t.id = r.id
      <4>1. W(r) = r
        BY <3>2
      <4> HIDE DEF W
      <4> QED BY <2>2, <4>1 DEF PendingInv, StoredAlertsWereTold
    <3> QED BY <3>1, <3>2
  <2> HIDE DEF W
  <2>3. \A r : Gapped(r)' <=> Gapped(r)
    BY <2>1 DEF Gapped
  <2>4. StoredAlertsWereTold'
    BY <1>r, <2>1, <2>2, <2>3 DEF StoredAlertsWereTold
  <2> QED BY <2>1, <2>4 DEF PendingInv
<1>9. ASSUME EvaluatorFails PROVE PendingInv'
  <2>1. rows' = rows /\ gapped' = gapped /\ pending' = {} /\ Remember(rows')
    BY <1>9 DEF EvaluatorFails, ledger, Remember
  <2>2. \A r : Gapped(r)' <=> Gapped(r)
    BY <2>1 DEF Gapped
  <2>3. StoredAlertsWereTold'
    BY <1>r, <2>1, <2>2 DEF PendingInv, StoredAlertsWereTold
  <2> QED BY <2>1, <2>3 DEF PendingInv
<1> QED
  BY <1>1, <1>2, <1>3, <1>4, <1>5, <1>6, <1>7, <1>8, <1>9
     DEF Next, WebStep, EvaluatorStep

\* A HIT or APPROACHING stored on a row is a state that the operator was mailed
\* about for the row as it is, whatever fails and whatever the web does between
\* evaluation, mail and commit, but for the edits and reused ids that the
\* property names.
THEOREM StoredAlertsAreHonest == Spec => []StoredAlertsWereTold
<1>1. Init => TypeOK /\ SerialsInv /\ IdsInv /\ PendingInv
  BY InitTypes DEF Init, IdsInv, UniqueIds, PendingInv, StoredAlertsWereTold
<1>2. TypeOK /\ SerialsInv /\ IdsInv /\ PendingInv /\ [Next]_vars
        => (TypeOK /\ SerialsInv /\ IdsInv /\ PendingInv)'
  BY NextTypes, NextIds, NextPending
<1>3. PendingInv => StoredAlertsWereTold
  BY DEF PendingInv
<1> QED BY <1>1, <1>2, <1>3, PTL DEF Spec
=============================================================================
