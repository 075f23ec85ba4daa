---------------------------- MODULE DailyRunProofs ----------------------------
(***************************************************************************)
(* Theorems about DailyRun, for every set of markets, users and modes.     *)
(*                                                                         *)
(* Requests may arrive at any point of a run.  What save #1 may undo of    *)
(* them is what the properties name; the rest is shown by an invariant of  *)
(* the merge, the document with the admin's bucket taken from the run's    *)
(* copy: it is as sound as the document itself.                            *)
(***************************************************************************)
EXTENDS DailyRun, TLAPS

-----------------------------------------------------------------------------
(* The helpers on documents. *)

\* The fields the theorems are about.
Core(d) == <<d.markets, d.signals, d.positions, d.log, d.account>>

LEMMA FreshType == Fresh \in Documents
BY RunAssumption DEF Fresh, Documents, NewSignal, Signals, Directions, Sides, Serials, Warnings

LEMMA NewPositionType ==
  ASSUME TypeOK, NEW side \in Sides, opened < MaxPositions
  PROVE  NewPosition(side) \in Positions
BY RunAssumption DEF TypeOK, NewPosition, Positions, Serials, Days

\* A document whose warnings alone change.
LEMMA DriftType ==
  ASSUME NEW d \in Documents, NEW u \in Users
  PROVE  DriftOf(d, u) \subseteq Warnings
<1> SUFFICES ASSUME NEW m \in Markets, d.positions[u][m] # NoPosition, d.signals[m] # NoSignal
             PROVE  [source |-> "drift", market |-> m,
                     held |-> d.positions[u][m].side, signalled |-> d.signals[m].way] \in Warnings
  BY DEF DriftOf
<1>1. d.positions[u][m] \in Positions /\ d.signals[m] \in Signals
  BY DEF Documents
<1> QED
  BY <1>1 DEF Positions, Signals, Warnings

LEMMA WithDriftFields ==
  ASSUME NEW d \in Documents, NEW u \in Users
  PROVE  /\ WithDrift(d, u) \in Documents
         /\ Core(WithDrift(d, u)) = Core(d)
BY DriftType DEF WithDrift, Documents, Core

\* What record_trade does to the document d, field by field: one more entry and
\* one more booking of the position s, and the slot of m empty.
IsRecorded(r, d, u, m, s) ==
  /\ r \in Documents
  /\ r.markets = d.markets /\ r.signals = d.signals
  /\ r.log = [d.log EXCEPT ![u][s] = d.log[u][s] + 1]
  /\ r.account = [d.account EXCEPT ![u][s] = d.account[u][s] + 1]
  /\ r.positions = [d.positions EXCEPT ![u][m] = NoPosition]

\* record_trade changes the log, the account and the one slot, and nothing else.
LEMMA RecordedFields ==
  ASSUME NEW d \in Documents, NEW u \in Users, NEW m \in Markets,
         d.positions[u][m] # NoPosition
  PROVE  /\ d.positions[u][m].serial \in Serials
         /\ IsRecorded(Recorded(d, u, m), d, u, m, d.positions[u][m].serial)
<1> DEFINE s == d.positions[u][m].serial
           log == [d.log EXCEPT ![u][s] = d.log[u][s] + 1]
           account == [d.account EXCEPT ![u][s] = d.account[u][s] + 1]
           positions == [d.positions EXCEPT ![u][m] = NoPosition]
<1>1. s \in Serials
  BY DEF Documents, Positions
<1>2. /\ log \in [Users -> [Serials -> Nat]]
      /\ account \in [Users -> [Serials -> Nat]]
      /\ positions \in [Users -> [Markets -> Positions \cup {NoPosition}]]
  <2>1. d.log[u] \in [Serials -> Nat] /\ d.account[u] \in [Serials -> Nat]
    BY DEF Documents
  <2> QED
    BY <1>1, <2>1 DEF Documents
<1>3. Recorded(d, u, m) = [d EXCEPT !.log = log, !.account = account, !.positions = positions]
  BY <1>1 DEF Recorded, Documents
<1>4. DOMAIN d = {"markets", "signals", "positions", "log", "account", "skips", "lastRun", "warnings"}
  BY DEF Documents
<1>5. LET r == Recorded(d, u, m)
      IN  r.log = log /\ r.account = account /\ r.positions = positions
  <2> HIDE DEF log, account, positions
  <2> QED BY <1>3, <1>4
<1>6. Recorded(d, u, m) \in Documents
  <2> HIDE DEF log, account, positions
  <2> QED BY <1>2, <1>3 DEF Documents
<1> QED
  <2> HIDE DEF log, account, positions
  <2>1. Recorded(d, u, m).markets = d.markets /\ Recorded(d, u, m).signals = d.signals
    BY <1>3, <1>4
  <2>2. /\ Recorded(d, u, m).log = [d.log EXCEPT ![u][s] = d.log[u][s] + 1]
        /\ Recorded(d, u, m).account = [d.account EXCEPT ![u][s] = d.account[u][s] + 1]
        /\ Recorded(d, u, m).positions = [d.positions EXCEPT ![u][m] = NoPosition]
    BY <1>5 DEF log, account, positions
  <2> QED BY <1>1, <1>6, <2>1, <2>2 DEF IsRecorded

\* What the run hands to its first save: only warnings and last_run are new.
LEMMA FinishedFields ==
  ASSUME TypeOK, NEW stale \in BOOLEAN
  PROVE  /\ Finished(stale) \in Documents
         /\ Core(Finished(stale)) = Core(mem)
<1> DEFINE warned == IF stale THEN mem.warnings \cup {RunWarning} ELSE mem.warnings
           d == [mem EXCEPT !.warnings = warned, !.lastRun = today]
<1>1. warned \subseteq Warnings
  BY DEF TypeOK, Documents, Warnings
<1>2. d \in Documents
  BY <1>1 DEF TypeOK, Documents
<1>3. Finished(stale) = WithDrift(d, Admin)
  BY DEF Finished
<1>4. Core(d) = Core(mem)
  BY DEF Core, TypeOK, Documents
<1> HIDE DEF d
<1> QED
  BY <1>2, <1>3, <1>4, WithDriftFields, RunAssumption

\* The admin's keys of the replay.
LEMMA ReplayedFields ==
  ASSUME NEW d \in Documents, NEW acc \in Documents, NEW bas \in Documents
  PROVE  LET r == Replayed(d, acc, bas)
         IN  /\ r \in Documents
             /\ r.markets = d.markets
             /\ r.positions = [d.positions EXCEPT ![Admin] =
                  Changed(d.positions[Admin], acc.positions[Admin], bas.positions[Admin])]
             /\ r.log = [d.log EXCEPT ![Admin] =
                  Changed(d.log[Admin], acc.log[Admin], bas.log[Admin])]
             /\ r.account = [d.account EXCEPT ![Admin] =
                  Changed(d.account[Admin], acc.account[Admin], bas.account[Admin])]
             /\ r.signals = Changed(d.signals, acc.signals, bas.signals)
<1> DEFINE positions == [d.positions EXCEPT ![Admin] =
                         Changed(d.positions[Admin], acc.positions[Admin], bas.positions[Admin])]
           log == [d.log EXCEPT ![Admin] =
                    Changed(d.log[Admin], acc.log[Admin], bas.log[Admin])]
           account == [d.account EXCEPT ![Admin] =
                        Changed(d.account[Admin], acc.account[Admin], bas.account[Admin])]
           signals == Changed(d.signals, acc.signals, bas.signals)
           lastRun == Changed(d.lastRun, acc.lastRun, bas.lastRun)
           warnings == Changed(d.warnings, acc.warnings, bas.warnings)
<1>1. /\ positions \in [Users -> [Markets -> Positions \cup {NoPosition}]]
      /\ log \in [Users -> [Serials -> Nat]]
      /\ account \in [Users -> [Serials -> Nat]]
  BY RunAssumption DEF Changed, Documents
<1>2. /\ signals \in [Markets -> Signals \cup {NoSignal}]
      /\ lastRun \in {0} \cup Days
      /\ warnings \in SUBSET Warnings
  BY DEF Changed, Documents
<1>3. Replayed(d, acc, bas) =
        [d EXCEPT !.positions = positions, !.log = log, !.account = account,
                  !.signals = signals, !.lastRun = lastRun, !.warnings = warnings]
  BY DEF Replayed, Documents
<1>4. Replayed(d, acc, bas) \in Documents
  <2> HIDE DEF positions, log, account, signals, lastRun, warnings
  <2> QED BY <1>1, <1>2, <1>3, ZenonT(30) DEF Documents
<1>5. LET r == Replayed(d, acc, bas)
      IN  /\ r.markets = d.markets /\ r.positions = positions /\ r.log = log
          /\ r.account = account /\ r.signals = signals
  <2> HIDE DEF positions, log, account, signals, lastRun, warnings
  <2> QED BY <1>3 DEF Documents
<1> QED
  <2> HIDE DEF Replayed
  <2> QED BY <1>4, <1>5

-----------------------------------------------------------------------------
(* What stepping a market does to the copy. *)

Counted(f, s) == [f EXCEPT ![Admin][s] = f[Admin][s] + 1]

LEMMA StepMarketFields ==
  ASSUME TypeOK, NEW m \in Markets, NEW direction \in Directions, StepMarket(m, direction)
  PROVE  LET p == mem.positions[Admin][m]
             Books == /\ p # NoPosition
                      /\ mem'.log = Counted(mem.log, p.serial)
                      /\ mem'.account = Counted(mem.account, p.serial)
             NoTrade == mem'.log = mem.log /\ mem'.account = mem.account
             Becomes(q) == mem'.positions = [mem.positions EXCEPT ![Admin][m] = q]
         IN  /\ mem' \in Documents
             /\ mem'.markets = mem.markets
             /\ mem'.signals = [mem.signals EXCEPT ![m] = [way |-> direction, day |-> today]]
             /\ \/ /\ opened' = opened
                   /\ \/ NoTrade /\ mem'.positions = mem.positions
                      \/ NoTrade /\ p # NoPosition /\ \E day \in Days : Becomes([p EXCEPT !.seen = day])
                      \/ Books /\ Becomes(NoPosition)
                \/ /\ opened < MaxPositions /\ opened' = opened + 1 /\ direction \in Sides
                   /\ Books \/ (NoTrade /\ p = NoPosition)
                   /\ Becomes(NewPosition(direction))
<1> DEFINE p == mem.positions[Admin][m]
           signal == [way |-> direction, day |-> today]
           signalled == [mem EXCEPT !.signals[m] = signal]
<1>1. signal \in Signals /\ mem \in Documents
  BY DEF TypeOK, Signals
<1>2. /\ signalled \in Documents
      /\ signalled.markets = mem.markets
      /\ signalled.signals = [mem.signals EXCEPT ![m] = signal]
      /\ signalled.positions = mem.positions
      /\ signalled.log = mem.log
      /\ signalled.account = mem.account
  <2> HIDE DEF signal
  <2> QED BY <1>1 DEF Documents
<1>3. Admin \in Users /\ p \in Positions \cup {NoPosition}
  BY <1>1, RunAssumption DEF Documents
<1> HIDE DEF signalled
<1>4. CASE p # NoPosition /\ opened' = opened
             /\ \E day \in {p.seen, today} : mem' = [signalled EXCEPT !.positions[Admin][m].seen = day]
  <2>1. PICK day \in {p.seen, today} : mem' = [signalled EXCEPT !.positions[Admin][m].seen = day]
    BY <1>4
  <2>2. day \in Days /\ [p EXCEPT !.seen = day] \in Positions
    BY <1>3, <1>4 DEF Positions, TypeOK
  <2> DEFINE positions == [mem.positions EXCEPT ![Admin][m] = [p EXCEPT !.seen = day]]
  <2>3. positions \in [Users -> [Markets -> Positions \cup {NoPosition}]]
    BY <1>1, <1>3, <2>2 DEF Documents
  <2>4. mem' = [signalled EXCEPT !.positions = positions]
    BY <1>2, <1>3, <2>1 DEF Documents
  <2> HIDE DEF positions
  <2>5. /\ mem' \in Documents /\ mem'.positions = positions
        /\ mem'.markets = signalled.markets /\ mem'.signals = signalled.signals
        /\ mem'.log = signalled.log /\ mem'.account = signalled.account
    BY <1>2, <2>3, <2>4 DEF Documents
  <2> QED BY <1>2, <1>4, <2>2, <2>5 DEF positions
<1>5. CASE p = NoPosition /\ mem' = signalled /\ opened' = opened
  BY <1>2, <1>5
<1>r. ASSUME p # NoPosition
      PROVE  LET r == Recorded(signalled, Admin, m)
             IN  /\ r \in Documents
                 /\ r.markets = mem.markets /\ r.signals = signalled.signals
                 /\ r.log = Counted(mem.log, p.serial)
                 /\ r.account = Counted(mem.account, p.serial)
                 /\ r.positions = [mem.positions EXCEPT ![Admin][m] = NoPosition]
  <2>1. signalled.positions[Admin][m] = p
    BY <1>2
  <2> HIDE DEF p
  <2>2. LET r == Recorded(signalled, Admin, m)
        IN  /\ r \in Documents
            /\ r.markets = signalled.markets /\ r.signals = signalled.signals
            /\ r.log = [signalled.log EXCEPT ![Admin][p.serial] = signalled.log[Admin][p.serial] + 1]
            /\ r.account =
                 [signalled.account EXCEPT ![Admin][p.serial] = signalled.account[Admin][p.serial] + 1]
            /\ r.positions = [signalled.positions EXCEPT ![Admin][m] = NoPosition]
    <3> HIDE DEF signalled
    <3>1. IsRecorded(Recorded(signalled, Admin, m), signalled, Admin, m, p.serial)
      BY <1>2, <1>3, <1>r, <2>1, RecordedFields
    <3> QED BY <3>1 DEF IsRecorded
  <2> HIDE DEF Recorded
  <2> QED BY <1>2, <2>2 DEF Counted
<1>6. CASE p # NoPosition /\ mem' = Recorded(signalled, Admin, m) /\ opened' = opened
  <2> HIDE DEF Recorded
  <2> QED BY <1>2, <1>6, <1>r
<1>7. CASE /\ direction \in Sides /\ opened < MaxPositions /\ opened' = opened + 1
           /\ mem' = [(IF p = NoPosition THEN signalled ELSE Recorded(signalled, Admin, m))
                        EXCEPT !.positions[Admin][m] = NewPosition(direction)]
  <2> DEFINE before == IF p = NoPosition THEN signalled ELSE Recorded(signalled, Admin, m)
             q == NewPosition(direction)
             positions == [mem.positions EXCEPT ![Admin][m] = q]
  <2>1. q \in Positions
    BY <1>7, NewPositionType
  <2> HIDE DEF q
  <2>2. /\ before \in Documents
        /\ before.markets = mem.markets /\ before.signals = signalled.signals
        /\ \/ p = NoPosition /\ before.log = mem.log /\ before.account = mem.account
           \/ /\ p # NoPosition
              /\ before.log = Counted(mem.log, p.serial)
              /\ before.account = Counted(mem.account, p.serial)
        /\ [before.positions EXCEPT ![Admin][m] = q] = positions
    <3>1. CASE p = NoPosition
      BY <1>2, <3>1
    <3>2. CASE p # NoPosition
      <4>1. before = Recorded(signalled, Admin, m)
        BY <3>2
      <4>2. before.positions = [mem.positions EXCEPT ![Admin][m] = NoPosition]
        BY <1>r, <3>2, <4>1
      <4>3. [before.positions EXCEPT ![Admin][m] = q] = positions
        <5> HIDE DEF before
        <5>1. mem.positions \in [Users -> [Markets -> Positions \cup {NoPosition}]]
          BY <1>1 DEF Documents
        <5> QED BY <1>3, <4>2, <5>1
      <4> HIDE DEF before, positions
      <4> QED BY <1>r, <3>2, <4>1, <4>3
    <3> QED BY <3>1, <3>2
  <2>3. mem' = [before EXCEPT !.positions[Admin][m] = q]
    BY <1>7 DEF q
  <2> HIDE DEF before
  <2>4. mem' = [before EXCEPT !.positions = positions]
    BY <2>2, <2>3 DEF Documents
  <2>5. positions \in [Users -> [Markets -> Positions \cup {NoPosition}]]
    BY <1>1, <1>3, <2>1 DEF Documents
  <2> HIDE DEF positions
  <2>6. /\ mem' \in Documents /\ mem'.positions = positions
        /\ mem'.markets = before.markets /\ mem'.signals = before.signals
        /\ mem'.log = before.log /\ mem'.account = before.account
    BY <2>2, <2>4, <2>5 DEF Documents
  <2> QED BY <1>2, <1>7, <2>2, <2>6 DEF positions, q
<1> QED
  BY <1>4, <1>5, <1>6, <1>7 DEF StepMarket, signalled

-----------------------------------------------------------------------------
(* What the first save and the handlers do to the document. *)

LEMMA SaveFields ==
  ASSUME TypeOK, NEW stale \in BOOLEAN, Save(stale)
  PROVE  /\ doc' \in Documents
         /\ doc'.markets = doc.markets
         /\ doc'.signals = Changed(doc.signals, mem.signals, base.signals)
         /\ doc'.positions = [doc.positions EXCEPT ![Admin] =
              Changed(doc.positions[Admin], mem.positions[Admin], base.positions[Admin])]
         /\ doc'.log = [doc.log EXCEPT ![Admin] =
              Changed(doc.log[Admin], mem.log[Admin], base.log[Admin])]
         /\ doc'.account = [doc.account EXCEPT ![Admin] =
              Changed(doc.account[Admin], mem.account[Admin], base.account[Admin])]
<1> DEFINE f == Finished(stale)
<1>1. doc \in Documents /\ base \in Documents
  BY DEF TypeOK
<1>2. f \in Documents /\ Core(f) = Core(mem)
  BY FinishedFields
<1>3. doc' = Replayed(doc, f, base)
  BY DEF Save
<1>4. /\ f.signals = mem.signals /\ f.positions = mem.positions
      /\ f.log = mem.log /\ f.account = mem.account
  BY <1>2 DEF Core
<1> HIDE DEF f
<1>5. LET r == Replayed(doc, f, base)
      IN  /\ r \in Documents
          /\ r.markets = doc.markets
          /\ r.positions = [doc.positions EXCEPT ![Admin] =
               Changed(doc.positions[Admin], f.positions[Admin], base.positions[Admin])]
          /\ r.log = [doc.log EXCEPT ![Admin] =
               Changed(doc.log[Admin], f.log[Admin], base.log[Admin])]
          /\ r.account = [doc.account EXCEPT ![Admin] =
               Changed(doc.account[Admin], f.account[Admin], base.account[Admin])]
          /\ r.signals = Changed(doc.signals, f.signals, base.signals)
  BY <1>1, <1>2, ReplayedFields
<1> QED
  BY <1>3, <1>4, <1>5

LEMMA OpenTradeFields ==
  ASSUME TypeOK, NEW u \in Users, NEW m \in Markets, NEW side \in Sides, OpenTrade(u, m, side)
  PROVE  /\ doc' \in Documents
         /\ doc'.markets = doc.markets /\ doc'.signals = doc.signals
         /\ doc'.log = doc.log /\ doc'.account = doc.account
         /\ doc'.positions = [doc.positions EXCEPT ![u][m] = NewPosition(side)]
<1> DEFINE q == NewPosition(side)
           d == [doc EXCEPT !.positions[u][m] = q]
<1>1. q \in Positions
  BY NewPositionType DEF OpenTrade
<1> HIDE DEF q
<1>2. /\ d \in Documents /\ d.markets = doc.markets /\ d.signals = doc.signals
      /\ d.log = doc.log /\ d.account = doc.account
      /\ d.positions = [doc.positions EXCEPT ![u][m] = q]
  BY <1>1 DEF TypeOK, Documents
<1>3. doc' = WithDrift(d, u)
  BY DEF OpenTrade, q
<1> HIDE DEF d
<1>4. doc' \in Documents /\ Core(doc') = Core(d)
  BY <1>2, <1>3, WithDriftFields
<1> QED
  BY <1>2, <1>4 DEF Core, q

LEMMA CloseTradeFields ==
  ASSUME TypeOK, NEW u \in Users, NEW m \in Markets, CloseTrade(u, m)
  PROVE  LET s == doc.positions[u][m].serial
         IN  /\ s \in Serials
             /\ doc' \in Documents
             /\ doc'.markets = doc.markets /\ doc'.signals = doc.signals
             /\ doc'.log = [doc.log EXCEPT ![u][s] = doc.log[u][s] + 1]
             /\ doc'.account = [doc.account EXCEPT ![u][s] = doc.account[u][s] + 1]
             /\ doc'.positions = [doc.positions EXCEPT ![u][m] = NoPosition]
<1> DEFINE s == doc.positions[u][m].serial
           r == Recorded(doc, u, m)
<1>1. doc \in Documents /\ doc.positions[u][m] # NoPosition
  BY DEF TypeOK, CloseTrade
<1>2. /\ s \in Serials /\ r \in Documents
      /\ r.markets = doc.markets /\ r.signals = doc.signals
      /\ r.log = [doc.log EXCEPT ![u][s] = doc.log[u][s] + 1]
      /\ r.account = [doc.account EXCEPT ![u][s] = doc.account[u][s] + 1]
      /\ r.positions = [doc.positions EXCEPT ![u][m] = NoPosition]
  <2>1. s \in Serials /\ IsRecorded(r, doc, u, m, s)
    BY <1>1, RecordedFields
  <2> QED BY <2>1 DEF IsRecorded
<1>3. doc' = WithDrift(r, u)
  BY DEF CloseTrade
<1> HIDE DEF r
<1>4. doc' \in Documents /\ Core(doc') = Core(r)
  BY <1>2, <1>3, WithDriftFields
<1> QED
  BY <1>2, <1>4 DEF Core

LEMMA ModifyTradeFields ==
  ASSUME TypeOK, NEW u \in Users, NEW m \in Markets, ModifyTrade(u, m)
  PROVE  LET p == doc.positions[u][m]
         IN  /\ p \in Positions /\ [p EXCEPT !.edited = TRUE] \in Positions
             /\ doc' \in Documents
             /\ doc'.markets = doc.markets /\ doc'.signals = doc.signals
             /\ doc'.log = doc.log /\ doc'.account = doc.account
             /\ doc'.positions = [doc.positions EXCEPT ![u][m] = [p EXCEPT !.edited = TRUE]]
<1> DEFINE p == doc.positions[u][m]
           q == [p EXCEPT !.edited = TRUE]
           d == [doc EXCEPT !.positions[u][m].edited = TRUE]
<1>1. p \in Positions /\ q \in Positions
  <2>1. p \in Positions
    BY DEF ModifyTrade, TypeOK, Documents
  <2> HIDE DEF p
  <2> QED BY <2>1 DEF Positions
<1>2. d = [doc EXCEPT !.positions[u][m] = q]
  BY DEF TypeOK, Documents
<1>3. doc' = WithDrift(d, u)
  BY DEF ModifyTrade
<1> HIDE DEF d, q
<1>4. /\ d \in Documents /\ d.markets = doc.markets /\ d.signals = doc.signals
      /\ d.log = doc.log /\ d.account = doc.account
      /\ d.positions = [doc.positions EXCEPT ![u][m] = q]
  BY <1>1, <1>2 DEF TypeOK, Documents
<1>5. doc' \in Documents /\ Core(doc') = Core(d)
  BY <1>3, <1>4, WithDriftFields
<1> QED
  BY <1>1, <1>4, <1>5 DEF Core, q

-----------------------------------------------------------------------------
(* Type correctness. *)

LEMMA InitTypeOK == Init => TypeOK
BY FreshType, RunAssumption DEF Init, TypeOK, PCs, Days, Serials

LEMMA NextTypeOK == TypeOK /\ [Next]_vars => TypeOK'
<1> SUFFICES ASSUME TypeOK, [Next]_vars PROVE TypeOK'
  OBVIOUS
<1> USE RunAssumption, FreshType
<1>0. ASSUME Ends, doc' \in Documents, UNCHANGED <<today, started, opened, ghosts>> PROVE TypeOK'
  BY <1>0 DEF TypeOK, Ends, ghosts, PCs
<1>1. CASE Load
  BY <1>1 DEF TypeOK, Load, ghosts, PCs, Documents
<1>2. ASSUME NEW m \in Markets, NEW direction \in Directions, StepMarket(m, direction)
      PROVE  TypeOK'
  <2>1. mem' \in Documents /\ opened' \in 0..MaxPositions
    <3> HIDE DEF StepMarket
    <3>1. mem' \in Documents /\ (opened' = opened \/ (opened < MaxPositions /\ opened' = opened + 1))
      BY <1>2, StepMarketFields
    <3> QED BY <3>1 DEF TypeOK
  <2>2. todo' = todo \ {m} /\ UNCHANGED <<doc, pc, mode, base, mail, today, started, ghosts>>
    BY <1>2 DEF StepMarket
  <2> QED BY <2>1, <2>2 DEF TypeOK, ghosts
<1>3. ASSUME NEW m \in Markets, GateMarket(m) PROVE TypeOK'
  BY <1>3 DEF TypeOK, GateMarket, ghosts, Documents
<1>4. CASE Abort
  BY <1>0, <1>4 DEF Abort, TypeOK
<1>5. ASSUME NEW stale \in BOOLEAN, Save(stale) PROVE TypeOK'
  <2>1. doc' \in Documents
    BY <1>5, SaveFields
  <2> QED BY <1>5, <2>1 DEF Save, TypeOK, ghosts, PCs
<1>6. CASE PushState
  <2> DEFINE warnings == mem.warnings \cup {RunWarning}
  <2>1. warnings \subseteq Warnings /\ mem \in Documents
    BY DEF TypeOK, Documents, Warnings
  <2>2. mem' \in Documents
    <3>1. mem' = mem \/ mem' = [mem EXCEPT !.warnings = warnings]
      BY <1>6, <2>1 DEF PushState, Documents
    <3> HIDE DEF warnings
    <3> QED BY <2>1, <3>1 DEF Documents
  <2> QED BY <1>6, <2>2 DEF PushState, TypeOK, ghosts, PCs
<1>7. CASE SendMail
  BY <1>7 DEF SendMail, TypeOK, ghosts, PCs
<1>8. CASE Flush
  <2>1. RunWarning \in Warnings
    BY DEF Warnings
  <2>2. doc' \in Documents
    BY <1>8, <2>1 DEF Flush, TypeOK, Documents
  <2> QED BY <1>0, <1>8, <2>2 DEF Flush
<1>9. CASE FlushOnce
  <2>1. doc' \in Documents
    BY <1>9 DEF FlushOnce, TypeOK, Documents
  <2> QED BY <1>0, <1>9, <2>1 DEF FlushOnce
<1>10. CASE EndTest
  BY <1>0, <1>10 DEF EndTest, TypeOK
<1>11. CASE Die
  BY <1>0, <1>11 DEF Die, TypeOK
<1>12. ASSUME NEW u \in Users, NEW m \in Markets, NEW side \in Sides, OpenTrade(u, m, side)
       PROVE  TypeOK'
  <2>1. doc' \in Documents
    BY <1>12, OpenTradeFields
  <2> QED BY <1>12, <2>1 DEF OpenTrade, Served, run, ghosts, TypeOK
<1>13. ASSUME NEW u \in Users, NEW m \in Markets, CloseTrade(u, m) PROVE TypeOK'
  <2>1. doc.positions[u][m].serial \in Serials /\ doc' \in Documents
    BY <1>13, CloseTradeFields
  <2> QED BY <1>13, <2>1 DEF CloseTrade, Races, Served, run, TypeOK
<1>14. ASSUME NEW u \in Users, NEW m \in Markets, ModifyTrade(u, m) PROVE TypeOK'
  <2>1. doc.positions[u][m] \in Positions /\ doc' \in Documents
    BY <1>14, ModifyTradeFields
  <2>2. doc.positions[u][m].serial \in Serials
    BY <2>1 DEF Positions
  <2> QED BY <1>14, <2>1, <2>2 DEF ModifyTrade, Races, Served, run, TypeOK
<1>15. ASSUME NEW m \in Markets, AddMarket(m) PROVE TypeOK'
  <2>1. NewSignal \in Signals
    BY DEF NewSignal, Signals, Directions
  <2> QED BY <1>15, <2>1 DEF AddMarket, Served, run, ghosts, TypeOK, Documents
<1>16. ASSUME NEW serial \in Serials, DeleteLogEntry(serial) PROVE TypeOK'
  <2>1. doc.log[Admin][serial] - 1 \in Nat
    BY <1>16 DEF DeleteLogEntry, TypeOK, Documents
  <2>2. doc' \in Documents
    BY <1>16, <2>1 DEF DeleteLogEntry, TypeOK, Documents
  <2> QED BY <1>16, <2>2 DEF DeleteLogEntry, Served, run, TypeOK
<1>17. CASE NextDay
  BY <1>17 DEF NextDay, run, ghosts, TypeOK, Days
<1>18. CASE UNCHANGED vars
  BY <1>18 DEF vars, run, ghosts, TypeOK
<1> QED
  BY <1>1, <1>2, <1>3, <1>4, <1>5, <1>6, <1>7, <1>8, <1>9, <1>10, <1>11, <1>12, <1>13,
     <1>14, <1>15, <1>16, <1>17, <1>18 DEF Next, RunStep, Web, TypeOK

\* The document, the run's copy and the baseline are documents in every
\* interleaving of runs, kills and requests.
THEOREM DailyRunTypeCorrect == Spec => []TypeOK
BY InitTypeOK, NextTypeOK, PTL DEF Spec
-----------------------------------------------------------------------------
(* Accounts and logs, whenever the requests come. *)

Matched(d) == \A u \in Users, s \in Serials \ struck : d.account[u][s] = d.log[u][s]

\* The run's copy moved away from the baseline by the same trades in the
\* account and in the log.
SameTrades ==
  \A s \in Serials :
    mem.log[Admin][s] - base.log[Admin][s] = mem.account[Admin][s] - base.account[Admin][s]

BooksInv ==
  /\ TypeOK
  /\ Matched(doc)
  /\ pc = "stepping" => Matched(mem) /\ SameTrades

\* As SameTrades has it, both change or neither.
LEMMA BothOrNeither ==
  ASSUME TypeOK, SameTrades
  PROVE  mem.log[Admin] # base.log[Admin] <=> mem.account[Admin] # base.account[Admin]
<1>1. /\ mem.log[Admin] \in [Serials -> Nat] /\ base.log[Admin] \in [Serials -> Nat]
      /\ mem.account[Admin] \in [Serials -> Nat] /\ base.account[Admin] \in [Serials -> Nat]
  BY RunAssumption DEF TypeOK, Documents
<1>2. \A s \in Serials : mem.log[Admin][s] = base.log[Admin][s]
                          <=> mem.account[Admin][s] = base.account[Admin][s]
  <2> TAKE s \in Serials
  <2>1. /\ mem.log[Admin][s] \in Nat /\ base.log[Admin][s] \in Nat
        /\ mem.account[Admin][s] \in Nat /\ base.account[Admin][s] \in Nat
    BY <1>1
  <2>2. mem.log[Admin][s] - base.log[Admin][s] = mem.account[Admin][s] - base.account[Admin][s]
    BY DEF SameTrades
  <2> QED BY <2>1, <2>2
<1> QED
  BY <1>1, <1>2

LEMMA InitBooks == Init => BooksInv
<1> SUFFICES ASSUME Init PROVE BooksInv
  OBVIOUS
<1> QED
  BY InitTypeOK DEF Init, BooksInv, Matched, Fresh

LEMMA NextBooks == BooksInv /\ [Next]_vars => BooksInv'
<1> SUFFICES ASSUME BooksInv, [Next]_vars PROVE BooksInv'
  OBVIOUS
<1> USE RunAssumption
<1>t. TypeOK /\ TypeOK'
  BY NextTypeOK DEF BooksInv
<1>d. doc \in Documents /\ mem \in Documents /\ base \in Documents
  BY <1>t DEF TypeOK
<1>k. ASSUME doc'.log = doc.log, doc'.account = doc.account, struck' = struck,
             \/ pc' # "stepping"
             \/ UNCHANGED run
      PROVE  BooksInv'
  BY <1>t, <1>k DEF BooksInv, Matched, SameTrades, run
<1>1. CASE Load
  BY <1>t, <1>d, <1>1 DEF Load, BooksInv, Matched, SameTrades, ghosts, Documents
<1>2. ASSUME NEW m \in Markets, NEW direction \in Directions, StepMarket(m, direction)
      PROVE  BooksInv'
  <2> DEFINE s == mem.positions[Admin][m].serial
  <2>1. pc = "stepping" /\ UNCHANGED <<doc, pc, base, struck>>
    BY <1>2 DEF StepMarket, ghosts
  <2>2. \/ mem'.log = mem.log /\ mem'.account = mem.account
        \/ /\ mem.positions[Admin][m] # NoPosition
           /\ mem'.log = Counted(mem.log, s) /\ mem'.account = Counted(mem.account, s)
    BY <1>2, <1>t, StepMarketFields
  <2>3. CASE mem'.log = mem.log /\ mem'.account = mem.account
    BY <1>t, <2>1, <2>3 DEF BooksInv, Matched, SameTrades
  <2>4. CASE /\ mem.positions[Admin][m] # NoPosition
             /\ mem'.log = Counted(mem.log, s) /\ mem'.account = Counted(mem.account, s)
    <3>1. s \in Serials
      BY <1>d, <2>4 DEF Documents, Positions
    <3> HIDE DEF s
    <3>2. /\ mem.log \in [Users -> [Serials -> Nat]] /\ mem.account \in [Users -> [Serials -> Nat]]
          /\ base.log \in [Users -> [Serials -> Nat]] /\ base.account \in [Users -> [Serials -> Nat]]
      BY <1>d DEF Documents
    <3>3. \A u \in Users, t \in Serials :
             /\ mem'.log[u][t] = mem.log[u][t] + (IF u = Admin /\ t = s THEN 1 ELSE 0)
             /\ mem'.account[u][t] = mem.account[u][t] + (IF u = Admin /\ t = s THEN 1 ELSE 0)
      BY <2>4, <3>1, <3>2 DEF Counted
    <3>4. Matched(mem)'
      BY <2>1, <3>2, <3>3 DEF BooksInv, Matched
    <3>5. SameTrades'
      <4> SUFFICES ASSUME NEW t \in Serials
                   PROVE  mem'.log[Admin][t] - base'.log[Admin][t]
                            = mem'.account[Admin][t] - base'.account[Admin][t]
        BY DEF SameTrades
      <4>1. /\ mem.log[Admin][t] \in Nat /\ base.log[Admin][t] \in Nat
            /\ mem.account[Admin][t] \in Nat /\ base.account[Admin][t] \in Nat
        BY <3>2
      <4>2. mem.log[Admin][t] - base.log[Admin][t] = mem.account[Admin][t] - base.account[Admin][t]
        BY <2>1 DEF BooksInv, SameTrades
      <4>3. /\ mem'.log[Admin][t] = mem.log[Admin][t] + (IF t = s THEN 1 ELSE 0)
            /\ mem'.account[Admin][t] = mem.account[Admin][t] + (IF t = s THEN 1 ELSE 0)
        BY <3>3
      <4> QED BY <2>1, <4>1, <4>2, <4>3
    <3> QED BY <1>t, <2>1, <3>4, <3>5 DEF BooksInv, Matched
  <2> QED BY <2>2, <2>3, <2>4
<1>3. ASSUME NEW m \in Markets, GateMarket(m) PROVE BooksInv'
  <2>1. mem'.log = mem.log /\ mem'.account = mem.account
    BY <1>d, <1>3 DEF GateMarket, Documents
  <2> QED BY <1>t, <1>3, <2>1 DEF GateMarket, ghosts, BooksInv, Matched, SameTrades
<1>4. CASE Abort
  BY <1>k, <1>4 DEF Abort, Ends, ghosts
<1>5. ASSUME NEW stale \in BOOLEAN, Save(stale) PROVE BooksInv'
  <2>1. pc = "stepping" /\ pc' = "saved" /\ struck' = struck
    BY <1>5 DEF Save, ghosts
  <2>2. SameTrades /\ Matched(mem) /\ Matched(doc)
    BY <2>1 DEF BooksInv
  <2>3. \/ doc'.log = doc.log /\ doc'.account = doc.account
        \/ /\ doc'.log = [doc.log EXCEPT ![Admin] = mem.log[Admin]]
           /\ doc'.account = [doc.account EXCEPT ![Admin] = mem.account[Admin]]
    <3>1. /\ doc.log = [doc.log EXCEPT ![Admin] = doc.log[Admin]]
          /\ doc.account = [doc.account EXCEPT ![Admin] = doc.account[Admin]]
      BY <1>d DEF Documents
    <3> QED BY <1>5, <1>t, <2>2, <3>1, SaveFields, BothOrNeither DEF Changed
  <2>4. Matched(doc)'
    <3>1. \A u \in Users : \/ doc'.log[u] = doc.log[u] /\ doc'.account[u] = doc.account[u]
                           \/ doc'.log[u] = mem.log[u] /\ doc'.account[u] = mem.account[u]
      <4>1. doc.log \in [Users -> [Serials -> Nat]] /\ doc.account \in [Users -> [Serials -> Nat]]
        BY <1>d DEF Documents
      <4>2. CASE doc'.log = doc.log /\ doc'.account = doc.account
        BY <4>2
      <4>3. CASE /\ doc'.log = [doc.log EXCEPT ![Admin] = mem.log[Admin]]
                 /\ doc'.account = [doc.account EXCEPT ![Admin] = mem.account[Admin]]
        BY <4>1, <4>3
      <4> QED BY <2>3, <4>2, <4>3
    <3> QED BY <2>1, <2>2, <3>1 DEF Matched
  <2> QED BY <1>t, <2>1, <2>4 DEF BooksInv
<1>6. CASE PushState
  BY <1>k, <1>6 DEF PushState, ghosts
<1>7. CASE SendMail
  BY <1>k, <1>7 DEF SendMail, ghosts
<1>8. CASE Flush
  <2>1. doc'.log = doc.log /\ doc'.account = doc.account
    BY <1>d, <1>8 DEF Flush, Documents
  <2> QED BY <1>k, <1>8, <2>1 DEF Flush, Ends, ghosts
<1>9. CASE FlushOnce
  <2>1. doc'.log = doc.log /\ doc'.account = doc.account
    BY <1>d, <1>9 DEF FlushOnce, Documents
  <2> QED BY <1>k, <1>9, <2>1 DEF FlushOnce, Ends, ghosts
<1>10. CASE EndTest
  BY <1>k, <1>10 DEF EndTest, Ends, ghosts
<1>11. CASE Die
  BY <1>k, <1>11 DEF Die, Ends, ghosts
<1>12. ASSUME NEW u \in Users, NEW m \in Markets, NEW side \in Sides, OpenTrade(u, m, side)
       PROVE  BooksInv'
  BY <1>k, <1>t, <1>12, OpenTradeFields DEF OpenTrade, Served, ghosts
<1>13. ASSUME NEW u \in Users, NEW m \in Markets, CloseTrade(u, m) PROVE BooksInv'
  <2> DEFINE s == doc.positions[u][m].serial
  <2>1. /\ s \in Serials
        /\ doc'.log = [doc.log EXCEPT ![u][s] = doc.log[u][s] + 1]
        /\ doc'.account = [doc.account EXCEPT ![u][s] = doc.account[u][s] + 1]
    BY <1>t, <1>13, CloseTradeFields, ZenonT(30)
  <2>2. UNCHANGED run /\ struck' = struck
    BY <1>13 DEF CloseTrade, Served
  <2> HIDE DEF s
  <2>3. Matched(doc)'
    BY <1>d, <2>1, <2>2 DEF BooksInv, Matched, Documents
  <2> QED BY <1>t, <2>2, <2>3 DEF BooksInv, Matched, SameTrades, run
<1>14. ASSUME NEW u \in Users, NEW m \in Markets, ModifyTrade(u, m) PROVE BooksInv'
  BY <1>k, <1>t, <1>14, ModifyTradeFields DEF ModifyTrade, Served
<1>15. ASSUME NEW m \in Markets, AddMarket(m) PROVE BooksInv'
  <2>1. doc'.log = doc.log /\ doc'.account = doc.account
    BY <1>d, <1>15 DEF AddMarket, Documents
  <2> QED BY <1>k, <1>15, <2>1 DEF AddMarket, Served, ghosts
<1>16. ASSUME NEW serial \in Serials, DeleteLogEntry(serial) PROVE BooksInv'
  <2>1. /\ doc'.account = doc.account
        /\ \A u \in Users, s \in Serials \ {serial} : doc'.log[u][s] = doc.log[u][s]
    BY <1>d, <1>16 DEF DeleteLogEntry, Documents
  <2>2. UNCHANGED run /\ struck' = struck \cup {serial}
    BY <1>16 DEF DeleteLogEntry, Served
  <2> QED BY <1>t, <2>1, <2>2 DEF BooksInv, Matched, SameTrades, run
<1>17. CASE NextDay
  BY <1>k, <1>17 DEF NextDay, ghosts
<1>18. CASE UNCHANGED vars
  BY <1>k, <1>18 DEF vars, ghosts
<1> QED
  BY <1>1, <1>2, <1>3, <1>4, <1>5, <1>6, <1>7, <1>8, <1>9, <1>10, <1>11, <1>12, <1>13,
     <1>14, <1>15, <1>16, <1>17, <1>18, <1>t DEF Next, RunStep, Web, TypeOK

\* Whenever requests arrive, and wherever a run is killed, an account holds
\* exactly the trades of its log, but for the entries an admin deleted.
THEOREM BooksStayMatched == Spec => []AccountMatchesLog
<1>1. BooksInv => AccountMatchesLog
  BY DEF BooksInv, Matched, AccountMatchesLog
<1> QED
  BY <1>1, InitBooks, NextBooks, PTL DEF Spec
-----------------------------------------------------------------------------
(* The other users, whenever the requests come. *)

LEMMA RunKeepsOthers ==
  ASSUME TypeOK, RunStep, NEW u \in Users \ {Admin}
  PROVE  /\ doc'.positions[u] = doc.positions[u]
         /\ doc'.log[u] = doc.log[u]
         /\ doc'.account[u] = doc.account[u]
<1> USE RunAssumption
<1>d. doc \in Documents
  BY DEF TypeOK
<1>1. ASSUME NEW stale \in BOOLEAN, Save(stale)
      PROVE  /\ doc'.positions[u] = doc.positions[u]
             /\ doc'.log[u] = doc.log[u]
             /\ doc'.account[u] = doc.account[u]
  <2>1. /\ doc'.positions = [doc.positions EXCEPT ![Admin] = doc'.positions[Admin]]
        /\ doc'.log = [doc.log EXCEPT ![Admin] = doc'.log[Admin]]
        /\ doc'.account = [doc.account EXCEPT ![Admin] = doc'.account[Admin]]
    BY <1>1, <1>d, SaveFields DEF Documents
  <2>2. u \in DOMAIN doc.positions /\ u \in DOMAIN doc.log /\ u \in DOMAIN doc.account /\ u # Admin
    BY <1>d DEF Documents
  <2> QED BY <2>1, <2>2
<1>2. CASE Flush
  BY <1>d, <1>2 DEF Flush, Documents
<1>3. CASE FlushOnce
  BY <1>d, <1>3 DEF FlushOnce, Documents
<1>4. ASSUME UNCHANGED doc
      PROVE  /\ doc'.positions[u] = doc.positions[u]
             /\ doc'.log[u] = doc.log[u]
             /\ doc'.account[u] = doc.account[u]
  BY <1>4
<1>5. \/ \E stale \in BOOLEAN : Save(stale)
      \/ Flush \/ FlushOnce
      \/ UNCHANGED doc
  BY DEF RunStep, Load, StepMarket, GateMarket, Abort, PushState, SendMail, EndTest, Die
<1> QED
  BY <1>1, <1>2, <1>3, <1>4, <1>5

\* A run changes the bucket of the admin and of nobody else, however requests
\* interleave with it.
THEOREM OtherUsersAreKept == Spec => OthersAreKept
<1> DEFINE Kept == run' # run => \A u \in Users \ {Admin} :
                     /\ doc'.positions[u] = doc.positions[u]
                     /\ doc'.log[u] = doc.log[u]
                     /\ doc'.account[u] = doc.account[u]
<1>1. TypeOK /\ [Next]_vars => [Kept]_vars
  <2> SUFFICES ASSUME TypeOK, Next, run' # run PROVE Kept
    OBVIOUS
  <2>1. CASE RunStep
    BY <2>1, RunKeepsOthers
  <2>2. CASE Web
    BY <2>2 DEF Web, OpenTrade, CloseTrade, ModifyTrade, AddMarket, DeleteLogEntry, Served
  <2>3. CASE NextDay
    BY <2>3 DEF NextDay
  <2> QED BY <2>1, <2>2, <2>3 DEF Next
<1> QED
  BY <1>1, DailyRunTypeCorrect, PTL DEF Spec, OthersAreKept

-----------------------------------------------------------------------------
(* Positions and accounts, as functions of users: what a document without  *)
(* zombies looks like, and what keeps it so.                               *)

Books == [Users -> [Markets -> Positions \cup {NoPosition}]]
Accounts == [Users -> [Serials -> Nat]]

\* Open positions are numbered up to n, each once, not credited yet but for the
\* serials X, and edited if one of the serials E.
Sound(P, A, n, E, X) ==
  /\ \A u \in Users, m \in Markets : P[u][m] # NoPosition =>
       /\ P[u][m].serial <= n
       /\ P[u][m].serial \notin X => A[u][P[u][m].serial] = 0
       /\ P[u][m].serial \in E => P[u][m].edited
  /\ \A u, v \in Users, m, k \in Markets :
       /\ P[u][m] # NoPosition /\ P[v][k] # NoPosition
       /\ P[u][m].serial = P[v][k].serial
       => u = v /\ m = k
  /\ \A u \in Users, s \in Serials : s > n => A[u][s] = 0
  /\ \A s \in E : s <= n

LEMMA SoundGrows ==
  ASSUME NEW P \in Books, NEW A \in Accounts, NEW n \in Nat, NEW E \in SUBSET Serials, NEW X,
         Sound(P, A, n, E, X)
  PROVE  Sound(P, A, n + 1, E, X)
<1>1. \A u \in Users, m \in Markets : P[u][m] # NoPosition => P[u][m].serial \in Serials
  BY DEF Books, Positions
<1> QED
  BY <1>1, RunAssumption DEF Sound, Serials

\* A position takes another's place, with its serial and its edit.
LEMMA SoundHold ==
  ASSUME NEW P \in Books, NEW A \in Accounts, NEW n \in Nat, NEW E \in SUBSET Serials, NEW X,
         Sound(P, A, n, E, X), NEW u \in Users, NEW m \in Markets, P[u][m] # NoPosition,
         NEW q \in Positions, q.serial = P[u][m].serial, q.edited = P[u][m].edited
  PROVE  Sound([P EXCEPT ![u][m] = q], A, n, E, X)
<1> DEFINE R == [P EXCEPT ![u][m] = q]
<1>1. \A v \in Users, k \in Markets :
        R[v][k] = IF v = u /\ k = m THEN q ELSE P[v][k]
  BY DEF Books
<1>2. \A v \in Users, k \in Markets : R[v][k] # NoPosition =>
        /\ P[v][k] # NoPosition
        /\ R[v][k].serial = P[v][k].serial /\ R[v][k].edited = P[v][k].edited
  BY <1>1
<1> HIDE DEF R
<1> QED
  BY <1>2 DEF Sound

LEMMA SoundClose ==
  ASSUME NEW P \in Books, NEW A \in Accounts, NEW n \in Nat, NEW E \in SUBSET Serials, NEW X,
         Sound(P, A, n, E, X), NEW u \in Users, NEW m \in Markets, P[u][m] # NoPosition,
         NEW s, s = P[u][m].serial
  PROVE  Sound([P EXCEPT ![u][m] = NoPosition], [A EXCEPT ![u][s] = A[u][s] + 1], n, E, X)
<1> DEFINE R == [P EXCEPT ![u][m] = NoPosition]
           B == [A EXCEPT ![u][s] = A[u][s] + 1]
<1>1. \A v \in Users, k \in Markets : R[v][k] # NoPosition =>
        R[v][k] = P[v][k] /\ P[v][k] # NoPosition /\ ~(v = u /\ k = m)
  BY DEF Books
<1>2. s \in Serials /\ s <= n
  BY DEF Books, Positions, Sound
<1>3. \A v \in Users, t \in Serials : ~(v = u /\ t = s) => B[v][t] = A[v][t]
  BY DEF Accounts
<1>4. \A v \in Users, k \in Markets : R[v][k] # NoPosition =>
        /\ R[v][k].serial \in Serials
        /\ ~(v = u /\ R[v][k].serial = s)
  BY <1>1 DEF Books, Positions, Sound
<1>5. \A v \in Users, t \in Serials : t > n => B[v][t] = 0
  BY <1>2, <1>3 DEF Sound, Serials
<1> HIDE DEF R, B
<1>6. Sound(R, B, n, E, X)
  BY <1>1, <1>3, <1>4, <1>5 DEF Sound
<1> QED
  BY <1>6 DEF R, B

LEMMA SoundOpen ==
  ASSUME NEW P \in Books, NEW A \in Accounts, NEW n \in Nat, NEW E \in SUBSET Serials, NEW X,
         Sound(P, A, n, E, X), NEW u \in Users, NEW m \in Markets, P[u][m] = NoPosition,
         NEW q \in Positions, q.serial = n + 1
  PROVE  Sound([P EXCEPT ![u][m] = q], A, n + 1, E, X)
<1> DEFINE R == [P EXCEPT ![u][m] = q]
<1>1. \A v \in Users, k \in Markets : R[v][k] # NoPosition =>
        \/ v = u /\ k = m /\ R[v][k] = q
        \/ R[v][k] = P[v][k] /\ P[v][k].serial <= n /\ P[v][k].serial \in Serials
  BY DEF Books, Sound, Positions
<1>2. n + 1 \in Serials /\ n + 1 \notin E /\ ~(n + 1 <= n)
  BY RunAssumption DEF Positions, Sound, Serials
<1>3. \A v \in Users : A[v][n + 1] = 0
  BY <1>2 DEF Sound
<1>4. Sound(P, A, n + 1, E, X)
  BY SoundGrows
<1> HIDE DEF R
<1>5. \A v \in Users, k \in Markets : R[v][k] # NoPosition =>
        /\ R[v][k].serial <= n + 1
        /\ R[v][k].serial \notin X => A[v][R[v][k].serial] = 0
        /\ R[v][k].serial \in E => R[v][k].edited
  BY <1>1, <1>2, <1>3, <1>4 DEF Sound
<1>6. \A v, w \in Users, k, l \in Markets :
        /\ R[v][k] # NoPosition /\ R[w][l] # NoPosition
        /\ R[v][k].serial = R[w][l].serial
        => v = w /\ k = l
  BY <1>1, <1>2, <1>4 DEF Sound
<1>7. Sound(R, A, n + 1, E, X)
  BY <1>4, <1>5, <1>6 DEF Sound
<1> QED
  BY <1>7 DEF R

LEMMA SoundEdit ==
  ASSUME NEW P \in Books, NEW A \in Accounts, NEW n \in Nat, NEW E \in SUBSET Serials, NEW X,
         Sound(P, A, n, E, X), NEW u \in Users, NEW m \in Markets, P[u][m] # NoPosition,
         NEW q \in Positions, q.serial = P[u][m].serial, q.edited = TRUE
  PROVE  Sound([P EXCEPT ![u][m] = q], A, n, E \cup {q.serial}, X)
<1> DEFINE R == [P EXCEPT ![u][m] = q]
<1>1. \A v \in Users, k \in Markets : R[v][k] # NoPosition =>
        /\ P[v][k] # NoPosition /\ R[v][k].serial = P[v][k].serial
        /\ \/ v = u /\ k = m /\ R[v][k].edited = TRUE
           \/ ~(v = u /\ k = m) /\ R[v][k].edited = P[v][k].edited
  BY DEF Books
<1> HIDE DEF R
<1>2. \A v \in Users, k \in Markets : R[v][k] # NoPosition =>
        /\ R[v][k].serial <= n
        /\ R[v][k].serial \notin X => A[v][R[v][k].serial] = 0
        /\ R[v][k].serial \in E \cup {q.serial} => R[v][k].edited
  BY <1>1 DEF Sound
<1>3. q.serial <= n
  BY DEF Sound
<1>4. Sound(R, A, n, E \cup {q.serial}, X)
  BY <1>1, <1>2, <1>3 DEF Sound
<1> QED
  BY <1>4 DEF R

\* What holds for more edits and fewer exemptions.
LEMMA SoundWeaker ==
  ASSUME NEW P, NEW A, NEW n, NEW E, NEW X, Sound(P, A, n, E, X),
         NEW D \in SUBSET E, NEW Y, X \subseteq Y
  PROVE  Sound(P, A, n, D, Y)
BY DEF Sound

\* The account may be another one that agrees with it but for X.
LEMMA SoundAgree ==
  ASSUME NEW P \in Books, NEW A, NEW B, NEW n, NEW E, NEW X, Sound(P, A, n, E, X),
         \A u \in Users, s \in Serials \ X : B[u][s] = A[u][s],
         \A u \in Users, s \in Serials : s > n => B[u][s] = 0
  PROVE  Sound(P, B, n, E, X)
<1>1. \A u \in Users, m \in Markets : P[u][m] # NoPosition => P[u][m].serial \in Serials
  BY DEF Books, Positions
<1> QED
  BY <1>1 DEF Sound
-----------------------------------------------------------------------------
(* The document, and what save #1 would make of it. *)

SoundIn(P, A) == Sound(P, A, opened, edits \ racedEdits, racedCloses)
SoundDoc == SoundIn(doc.positions, doc.account)

MergedPositions == [doc.positions EXCEPT ![Admin] = mem.positions[Admin]]
MergedAccount == [doc.account EXCEPT ![Admin] = mem.account[Admin]]

\* The run's copy, against the baseline and the document it will be saved to.
CopyAhead ==
  /\ SoundIn(MergedPositions, MergedAccount)
  /\ \A s \in Serials \ racedCloses : /\ doc.account[Admin][s] = base.account[Admin][s]
                                      /\ mem.log[Admin][s] >= doc.log[Admin][s]
  /\ \A m \in todo : mem.positions[Admin][m] = base.positions[Admin][m]
  /\ mem.account[Admin] # base.account[Admin] =>
       \E m \in Markets \ todo : mem.positions[Admin][m] # base.positions[Admin][m]

SafeInv ==
  /\ TypeOK
  /\ SoundDoc
  /\ WebTradesAreBooked
  /\ BucketAtRisk => CopyAhead

LEMMA DocParts ==
  ASSUME NEW d \in Documents
  PROVE  d.positions \in Books /\ d.account \in Accounts /\ d.log \in Accounts
BY DEF Documents, Books, Accounts

LEMMA TypedParts ==
  ASSUME TypeOK
  PROVE  /\ doc \in Documents /\ mem \in Documents /\ base \in Documents
         /\ doc.positions \in Books /\ doc.account \in Accounts /\ doc.log \in Accounts
         /\ mem.positions \in Books /\ mem.account \in Accounts /\ mem.log \in Accounts
         /\ base.positions \in Books /\ base.account \in Accounts /\ base.log \in Accounts
         /\ MergedPositions \in Books /\ MergedAccount \in Accounts
         /\ opened \in Nat /\ edits \ racedEdits \in SUBSET Serials
<1>1. doc \in Documents /\ mem \in Documents /\ base \in Documents
  BY DEF TypeOK
<1>2. MergedPositions \in Books /\ MergedAccount \in Accounts
  BY <1>1, DocParts, RunAssumption DEF MergedPositions, MergedAccount, Books, Accounts
<1> QED
  BY <1>1, <1>2, DocParts DEF TypeOK

\* What another user does to the document, it does to the merge; what the admin
\* does to the admin's part is not in it.
LEMMA MergeFollows ==
  ASSUME NEW S, NEW T, NEW F \in [Users -> [S -> T]], NEW g \in [S -> T],
         NEW u \in Users, NEW x \in S, NEW y,
         NEW M, M = [F EXCEPT ![Admin] = g],
         NEW N, N = [[F EXCEPT ![u][x] = y] EXCEPT ![Admin] = g]
  PROVE  N = IF u = Admin THEN M ELSE [M EXCEPT ![u][x] = y]
<1>1. CASE u = Admin
  BY <1>1
<1>2. CASE u # Admin
  BY <1>2
<1> QED
  BY <1>1, <1>2

LEMMA BooksFollow ==
  ASSUME NEW F \in Books, NEW H \in Books, NEW u \in Users, NEW x \in Markets, NEW y,
         NEW M, M = [F EXCEPT ![Admin] = H[Admin]],
         NEW N, N = [[F EXCEPT ![u][x] = y] EXCEPT ![Admin] = H[Admin]]
  PROVE  N = IF u = Admin THEN M ELSE [M EXCEPT ![u][x] = y]
<1>1. H[Admin] \in [Markets -> Positions \cup {NoPosition}]
  BY RunAssumption DEF Books
<1> QED
  BY <1>1, MergeFollows DEF Books

LEMMA AccountsFollow ==
  ASSUME NEW F \in Accounts, NEW H \in Accounts, NEW u \in Users, NEW x \in Serials, NEW y,
         NEW M, M = [F EXCEPT ![Admin] = H[Admin]],
         NEW N, N = [[F EXCEPT ![u][x] = y] EXCEPT ![Admin] = H[Admin]]
  PROVE  N = IF u = Admin THEN M ELSE [M EXCEPT ![u][x] = y]
<1>1. H[Admin] \in [Serials -> Nat]
  BY RunAssumption DEF Accounts
<1> QED
  BY <1>1, MergeFollows DEF Accounts

\* What the run does to its copy, it does to the merge.
LEMMA MergeSteps ==
  ASSUME NEW S, NEW T, NEW F \in [Users -> [S -> T]], NEW H \in [Users -> [S -> T]],
         NEW x \in S, NEW y
  PROVE  LET M == [F EXCEPT ![Admin] = H[Admin]]
             I == [H EXCEPT ![Admin][x] = y]
         IN  /\ M[Admin] = H[Admin]
             /\ [F EXCEPT ![Admin] = I[Admin]] = [M EXCEPT ![Admin][x] = y]
BY RunAssumption

LEMMA InitSafe == Init => SafeInv
<1> SUFFICES ASSUME Init PROVE SafeInv
  OBVIOUS
<1> QED
  BY InitTypeOK DEF Init, SafeInv, SoundDoc, SoundIn, Sound, WebTradesAreBooked, Fresh, BucketAtRisk

\* Stepping a market keeps the copy ahead.
LEMMA StepAhead ==
  ASSUME TypeOK, TypeOK', SoundDoc, CopyAhead,
         NEW m \in Markets, NEW direction \in Directions, StepMarket(m, direction)
  PROVE  SoundDoc' /\ CopyAhead'
<1> DEFINE p == mem.positions[Admin][m]
           s == p.serial
           P == MergedPositions
           A == MergedAccount
           E == edits \ racedEdits
           Trades == /\ p # NoPosition
                     /\ mem'.log = Counted(mem.log, p.serial)
                     /\ mem'.account = Counted(mem.account, p.serial)
           NoTrade == mem'.log = mem.log /\ mem'.account = mem.account
           Becomes(q) == mem'.positions = [mem.positions EXCEPT ![Admin][m] = q]
           Enters == /\ opened < MaxPositions /\ opened' = opened + 1 /\ direction \in Sides
                     /\ Trades \/ (NoTrade /\ p = NoPosition)
                     /\ Becomes(NewPosition(direction))
<1> USE RunAssumption
<1>d. /\ doc.positions \in Books /\ doc.account \in Accounts /\ doc.log \in Accounts
      /\ mem.positions \in Books /\ mem.account \in Accounts /\ mem.log \in Accounts
      /\ base.positions \in Books /\ P \in Books /\ A \in Accounts
      /\ opened \in Nat /\ E \in SUBSET Serials
  BY TypedParts
<1>1. /\ doc' = doc /\ base' = base /\ m \in todo /\ todo' = todo \ {m}
      /\ UNCHANGED <<struck, edits, racedEdits, racedCloses>>
  BY DEF StepMarket, ghosts
<1>2. \/ /\ opened' = opened
         /\ \/ NoTrade /\ mem'.positions = mem.positions
            \/ NoTrade /\ p # NoPosition /\ \E day \in Days : Becomes([p EXCEPT !.seen = day])
            \/ Trades /\ Becomes(NoPosition)
      \/ Enters
  BY StepMarketFields
<1>3. /\ p \in Positions \cup {NoPosition} /\ P[Admin][m] = p
      /\ Sound(P, A, opened, E, racedCloses)
  BY <1>d DEF Books, CopyAhead, SoundIn, MergedPositions
<1>4. ASSUME NEW q, Becomes(q) PROVE MergedPositions' = [P EXCEPT ![Admin][m] = q]
  BY <1>d, <1>1, <1>4, MergeSteps DEF Books, MergedPositions
<1>5. ASSUME mem'.positions = mem.positions PROVE MergedPositions' = P
  BY <1>1, <1>5 DEF MergedPositions
<1>6. ASSUME NoTrade PROVE MergedAccount' = A
  BY <1>1, <1>6 DEF MergedAccount
<1>7. ASSUME Trades
      PROVE  /\ s \in Serials /\ s <= opened
             /\ MergedAccount' = [A EXCEPT ![Admin][s] = A[Admin][s] + 1]
  <2>1. s \in Serials /\ s <= opened
    BY <1>3, <1>7 DEF Positions, Sound
  <2>2. mem'.account = [mem.account EXCEPT ![Admin][s] = mem.account[Admin][s] + 1]
    BY <1>7 DEF Counted
  <2>3. A[Admin] = mem.account[Admin]
    BY <1>d DEF MergedAccount, Accounts
  <2>4. MergedAccount' = [A EXCEPT ![Admin][s] = mem.account[Admin][s] + 1]
    <3> DEFINE y == mem.account[Admin][s] + 1
    <3>1. mem'.account = [mem.account EXCEPT ![Admin][s] = y]
      BY <2>2
    <3> HIDE DEF y, s
    <3> QED BY <1>d, <1>1, <2>1, <3>1, MergeSteps DEF Accounts, MergedAccount
  <2> QED BY <2>1, <2>3, <2>4
<1>16. Trades => ~NoTrade
  <2> SUFFICES ASSUME Trades, NoTrade PROVE FALSE
    OBVIOUS
  <2>1. s \in Serials /\ mem.account = [mem.account EXCEPT ![Admin][s] = mem.account[Admin][s] + 1]
    BY <1>7 DEF Counted
  <2>2. mem.account[Admin][s] \in Nat /\ mem.account[Admin][s] = mem.account[Admin][s] + 1
    <3> HIDE DEF s
    <3> QED BY <1>d, <2>1 DEF Accounts
  <2> QED BY <2>2
<1> HIDE DEF P, A, E
\* The merge stays sound, ...
<1>8. ASSUME Trades
      PROVE  LET Flat == [P EXCEPT ![Admin][m] = NoPosition]
             IN  /\ Sound(Flat, MergedAccount', opened, E, racedCloses)
                 /\ Flat \in Books /\ Flat[Admin][m] = NoPosition
  <2>1. s = P[Admin][m].serial /\ P[Admin][m] # NoPosition
    BY <1>3, <1>8
  <2> HIDE DEF s
  <2>2. Sound([P EXCEPT ![Admin][m] = NoPosition], [A EXCEPT ![Admin][s] = A[Admin][s] + 1],
              opened, E, racedCloses)
    BY <1>d, <1>3, <2>1, SoundClose
  <2> QED BY <1>d, <1>7, <1>8, <2>2 DEF Books
<1>9. Sound(MergedPositions', MergedAccount', opened', E, racedCloses)
  <2>1. CASE opened' = opened /\ NoTrade /\ mem'.positions = mem.positions
    BY <1>3, <1>5, <1>6, <2>1
  <2>2. CASE /\ opened' = opened /\ NoTrade /\ p # NoPosition
             /\ \E day \in Days : Becomes([p EXCEPT !.seen = day])
    <3>1. PICK day \in Days : Becomes([p EXCEPT !.seen = day])
      BY <2>2
    <3> DEFINE q == [p EXCEPT !.seen = day]
    <3>2. q \in Positions /\ q.serial = p.serial /\ q.edited = p.edited
      <4> HIDE DEF p
      <4> QED BY <1>3, <2>2 DEF Positions
    <3>3. MergedPositions' = [P EXCEPT ![Admin][m] = q]
      BY <1>4, <3>1
    <3> HIDE DEF q
    <3>4. Sound([P EXCEPT ![Admin][m] = q], A, opened, E, racedCloses)
      BY <1>d, <1>3, <2>2, <3>2, SoundHold
    <3> QED BY <1>6, <2>2, <3>3, <3>4
  <2>3. CASE opened' = opened /\ Trades /\ Becomes(NoPosition)
    BY <1>4, <1>8, <2>3
  <2>4. CASE Enters
    <3> DEFINE q == NewPosition(direction)
    <3>1. q \in Positions /\ q.serial = opened + 1
      BY <2>4, NewPositionType DEF NewPosition
    <3>2. MergedPositions' = [P EXCEPT ![Admin][m] = q]
      BY <1>4, <2>4
    <3> HIDE DEF q
    <3>3. CASE Trades
      <4> DEFINE Flat == [P EXCEPT ![Admin][m] = NoPosition]
      <4>1. /\ Sound(Flat, MergedAccount', opened, E, racedCloses)
            /\ Flat \in Books /\ Flat[Admin][m] = NoPosition
        BY <1>8, <3>3
      <4>2. [Flat EXCEPT ![Admin][m] = q] = [P EXCEPT ![Admin][m] = q]
        BY <1>d DEF Books
      <4> HIDE DEF Flat
      <4>3. MergedAccount' \in Accounts
        <5>1. mem' \in Documents
          BY DEF TypeOK
        <5>2. mem'.account \in Accounts
          BY <5>1, DocParts
        <5> QED BY <1>d, <1>1, <5>2 DEF Accounts, MergedAccount
      <4>4. Sound([Flat EXCEPT ![Admin][m] = q], MergedAccount', opened + 1, E, racedCloses)
        BY <1>d, <3>1, <4>1, <4>3, SoundOpen
      <4> QED BY <2>4, <3>2, <4>2, <4>4
    <3>4. CASE NoTrade /\ p = NoPosition
      <4>1. Sound([P EXCEPT ![Admin][m] = q], A, opened + 1, E, racedCloses)
        BY <1>d, <1>3, <3>1, <3>4, SoundOpen
      <4> QED BY <1>6, <2>4, <3>2, <3>4, <4>1
    <3> QED BY <2>4, <3>3, <3>4
  <2> QED BY <1>2, <2>1, <2>2, <2>3, <2>4
\* ... the document too, whose next serial may be taken, ...
<1>10. SoundDoc'
  <2>1. Sound(doc.positions, doc.account, opened, E, racedCloses)
    BY DEF SoundDoc, SoundIn, E
  <2>2. Sound(doc.positions, doc.account, opened', E, racedCloses)
    BY <1>d, <1>2, <2>1, SoundGrows
  <2> QED BY <1>1, <2>2 DEF SoundDoc, SoundIn, E
\* ... the log only grows, ...
<1>11. \A t \in Serials \ racedCloses : mem'.log[Admin][t] >= doc.log[Admin][t]
  <2> SUFFICES ASSUME NEW t \in Serials \ racedCloses
               PROVE  mem'.log[Admin][t] >= doc.log[Admin][t]
    OBVIOUS
  <2>1. /\ mem.log[Admin][t] \in Nat /\ doc.log[Admin][t] \in Nat
        /\ mem.log[Admin][t] >= doc.log[Admin][t]
    BY <1>d DEF Accounts, CopyAhead
  <2>2. mem'.log = mem.log \/ (Trades /\ mem'.log = [mem.log EXCEPT ![Admin][s] = mem.log[Admin][s] + 1])
    BY <1>2 DEF Counted
  <2>3. mem'.log[Admin][t] = mem.log[Admin][t] \/ mem'.log[Admin][t] = mem.log[Admin][t] + 1
    <3>1. mem.log \in [Users -> [Serials -> Nat]]
      BY <1>d DEF Accounts
    <3> HIDE DEF s
    <3> QED BY <2>2, <3>1
  <2> QED BY <2>1, <2>3
\* ... and a trade shows in the slot of its market, which is not stepped again.
<1>12. \A k \in Markets \ {m} : mem'.positions[Admin][k] = mem.positions[Admin][k]
  <2>1. CASE mem'.positions = mem.positions
    BY <2>1
  <2>2. CASE \E q : Becomes(q)
    <3>1. PICK q : Becomes(q)
      BY <2>2
    <3> QED BY <1>d, <3>1 DEF Books
  <2> QED BY <1>2, <2>1, <2>2
<1>13. todo \subseteq Markets
  BY DEF TypeOK
<1>14. \A k \in todo' : mem'.positions[Admin][k] = base'.positions[Admin][k]
  BY <1>1, <1>12, <1>13 DEF CopyAhead
<1>15. mem'.account[Admin] # base'.account[Admin] =>
         \E k \in Markets \ todo' : mem'.positions[Admin][k] # base'.positions[Admin][k]
  <2>1. CASE NoTrade
    <3>1. mem.account[Admin] # base.account[Admin] =>
            \E k \in Markets \ todo : mem.positions[Admin][k] # base.positions[Admin][k]
      BY DEF CopyAhead
    <3> QED BY <1>1, <1>12, <2>1, <3>1
  <2>2. CASE Trades
    <3>1. base.positions[Admin][m] = p
      BY <1>1 DEF CopyAhead
    <3>2. mem'.positions[Admin][m] # p
      <4>1. CASE Becomes(NoPosition)
        BY <1>d, <2>2, <4>1 DEF Books
      <4>2. CASE opened < MaxPositions /\ Becomes(NewPosition(direction))
        <5>1. mem'.positions[Admin][m].serial = opened + 1
          BY <1>d, <4>2 DEF Books, NewPosition
        <5>2. s <= opened /\ s \in Nat
          BY <1>7, <2>2 DEF Serials
        <5> QED BY <1>d, <5>1, <5>2
      <4> QED BY <1>2, <2>2, <4>1, <4>2, <1>16
    <3> QED BY <1>1, <3>1, <3>2
  <2> QED BY <1>2, <2>1, <2>2
<1> QED
  BY <1>1, <1>9, <1>10, <1>11, <1>14, <1>15 DEF CopyAhead, SoundIn, E

\* Save #1 installs the merge, or leaves the admin's bucket as it is.
LEMMA SaveSafe ==
  ASSUME SafeInv, TypeOK', NEW stale \in BOOLEAN, Save(stale)
  PROVE  SafeInv'
<1> DEFINE E == edits \ racedEdits
<1> USE RunAssumption
<1>t. TypeOK /\ SoundDoc /\ WebTradesAreBooked
  BY DEF SafeInv
<1>d. /\ doc.positions \in Books /\ doc.account \in Accounts /\ doc.log \in Accounts
      /\ mem.positions \in Books /\ mem.account \in Accounts /\ mem.log \in Accounts
      /\ base.positions \in Books /\ base.account \in Accounts
      /\ MergedPositions \in Books /\ MergedAccount \in Accounts
  BY <1>t, TypedParts
<1>1. /\ todo = {} /\ CopyAhead /\ pc' = "saved" /\ UNCHANGED <<opened, ghosts>>
  BY DEF Save, SafeInv, BucketAtRisk
<1>2. /\ doc'.positions = [doc.positions EXCEPT ![Admin] =
           Changed(doc.positions[Admin], mem.positions[Admin], base.positions[Admin])]
      /\ doc'.log = [doc.log EXCEPT ![Admin] =
           Changed(doc.log[Admin], mem.log[Admin], base.log[Admin])]
      /\ doc'.account = [doc.account EXCEPT ![Admin] =
           Changed(doc.account[Admin], mem.account[Admin], base.account[Admin])]
  BY <1>t, SaveFields
<1>3. /\ [doc.positions EXCEPT ![Admin] = doc.positions[Admin]] = doc.positions
      /\ [doc.account EXCEPT ![Admin] = doc.account[Admin]] = doc.account
  BY <1>d DEF Books, Accounts
<1>4. \/ doc'.positions = doc.positions /\ doc'.account = doc.account
      \/ doc'.positions = MergedPositions /\ doc'.account = MergedAccount
      \/ /\ doc'.positions = MergedPositions /\ doc'.account = doc.account
         /\ mem.account[Admin] = base.account[Admin]
  <2>1. mem.account[Admin] # base.account[Admin] => mem.positions[Admin] # base.positions[Admin]
    BY <1>1 DEF CopyAhead
  <2> QED BY <1>2, <1>3, <2>1 DEF Changed, MergedPositions, MergedAccount
<1>5. Sound(doc.positions, doc.account, opened, E, racedCloses)
  BY <1>t DEF SoundDoc, SoundIn
<1>6. Sound(MergedPositions, MergedAccount, opened, E, racedCloses)
  BY <1>1 DEF CopyAhead, SoundIn
<1>7. ASSUME mem.account[Admin] = base.account[Admin]
      PROVE  Sound(MergedPositions, doc.account, opened, E, racedCloses)
  <2>1. \A u \in Users, s \in Serials \ racedCloses : doc.account[u][s] = MergedAccount[u][s]
    BY <1>1, <1>7, <1>d DEF CopyAhead, MergedAccount, Accounts
  <2>2. \A u \in Users, s \in Serials : s > opened => doc.account[u][s] = 0
    BY <1>5 DEF Sound
  <2> HIDE DEF E
  <2> QED BY <1>d, <1>6, <2>1, <2>2, SoundAgree
<1>8. SoundDoc'
  <2>1. Sound(doc'.positions, doc'.account, opened, E, racedCloses)
    BY <1>4, <1>5, <1>6, <1>7
  <2> QED BY <1>1, <2>1 DEF SoundDoc, SoundIn, ghosts
<1>9. WebTradesAreBooked'
  <2> SUFFICES ASSUME NEW u \in Users, NEW s \in booked[u] \ (struck \cup racedCloses)
               PROVE  doc'.log[u][s] > 0
    BY <1>1 DEF WebTradesAreBooked, ghosts
  <2>1. s \in Serials /\ doc.log[u][s] > 0 /\ doc.log[u][s] \in Nat
    BY <1>t, <1>d DEF TypeOK, WebTradesAreBooked, Accounts
  <2>2. CASE u = Admin
    <3>1. mem.log[Admin][s] >= doc.log[Admin][s] /\ mem.log[Admin][s] \in Nat
      BY <1>1, <1>d, <2>1 DEF CopyAhead, Accounts
    <3>2. doc'.log[Admin] = doc.log[Admin] \/ doc'.log[Admin] = mem.log[Admin]
      BY <1>2, <1>d DEF Changed, Accounts
    <3> QED BY <2>1, <2>2, <3>1, <3>2
  <2>3. CASE u # Admin
    BY <1>2, <1>d, <2>1, <2>3 DEF Accounts
  <2> QED BY <2>2, <2>3
<1> QED
  BY <1>1, <1>8, <1>9 DEF SafeInv, BucketAtRisk

LEMMA OpenSafe ==
  ASSUME SafeInv, TypeOK', NEW u \in Users, NEW m \in Markets, NEW side \in Sides,
         OpenTrade(u, m, side)
  PROVE  SafeInv'
<1> DEFINE q == NewPosition(side)
           P == MergedPositions
           A == MergedAccount
           E == edits \ racedEdits
<1> USE RunAssumption
<1>t. TypeOK /\ SoundDoc /\ WebTradesAreBooked
  BY DEF SafeInv
<1>d. /\ doc.positions \in Books /\ doc.account \in Accounts /\ mem.positions \in Books
      /\ P \in Books /\ A \in Accounts /\ opened \in Nat /\ E \in SUBSET Serials
  BY <1>t, TypedParts
<1>1. /\ opened < MaxPositions /\ opened' = opened + 1 /\ doc.positions[u][m] = NoPosition
      /\ UNCHANGED <<run, ghosts>>
  BY DEF OpenTrade, Served
<1>2. q \in Positions /\ q.serial = opened + 1
  BY <1>t, <1>1, NewPositionType DEF NewPosition
<1>3. /\ doc'.positions = [doc.positions EXCEPT ![u][m] = q]
      /\ doc'.account = doc.account /\ doc'.log = doc.log
  BY <1>t, OpenTradeFields
<1> HIDE DEF q
<1>4. SoundDoc'
  <2>1. Sound(doc.positions, doc.account, opened, E, racedCloses)
    BY <1>t DEF SoundDoc, SoundIn
  <2> HIDE DEF E
  <2>2. Sound([doc.positions EXCEPT ![u][m] = q], doc.account, opened + 1, E, racedCloses)
    BY <1>d, <1>1, <1>2, <2>1, SoundOpen
  <2> QED BY <1>1, <1>3, <2>2 DEF SoundDoc, SoundIn, E, ghosts
<1>5. ASSUME BucketAtRisk PROVE CopyAhead'
  <2>1. Sound(P, A, opened, E, racedCloses)
    BY <1>5 DEF SafeInv, CopyAhead, SoundIn
  <2>2. MergedAccount' = A
    BY <1>1, <1>3 DEF MergedAccount, run
  <2>3. MergedPositions' = IF u = Admin THEN P ELSE [P EXCEPT ![u][m] = q]
    <3>1. MergedPositions' = [[doc.positions EXCEPT ![u][m] = q] EXCEPT ![Admin] = mem.positions[Admin]]
      BY <1>1, <1>3 DEF MergedPositions, run
    <3>2. P = [doc.positions EXCEPT ![Admin] = mem.positions[Admin]]
      BY DEF MergedPositions
    <3> HIDE DEF P
    <3>3. doc.positions \in Books /\ mem.positions \in Books
      BY <1>d
    <3> QED BY <3>1, <3>2, <3>3, BooksFollow
  <2>4. u # Admin => P[u][m] = NoPosition
    BY <1>1, <1>d DEF MergedPositions, Books
  <2> HIDE DEF P, A, E
  <2>5. CASE u = Admin
    <3>1. Sound(P, A, opened + 1, E, racedCloses)
      BY <1>d, <2>1, SoundGrows
    <3> QED BY <1>1, <1>3, <1>5, <2>2, <2>3, <2>5, <3>1 DEF SafeInv, CopyAhead, SoundIn, E, run, ghosts
  <2>6. CASE u # Admin
    <3>1. Sound([P EXCEPT ![u][m] = q], A, opened + 1, E, racedCloses)
      BY <1>d, <1>2, <2>1, <2>4, <2>6, SoundOpen
    <3> QED BY <1>1, <1>3, <1>5, <2>2, <2>3, <2>6, <3>1 DEF SafeInv, CopyAhead, SoundIn, E, run, ghosts
  <2> QED BY <2>5, <2>6
<1> QED
  BY <1>t, <1>1, <1>3, <1>4, <1>5 DEF SafeInv, WebTradesAreBooked, BucketAtRisk, run, ghosts

LEMMA CloseSafe ==
  ASSUME SafeInv, TypeOK', NEW u \in Users, NEW m \in Markets, CloseTrade(u, m)
  PROVE  SafeInv'
<1> DEFINE s == doc.positions[u][m].serial
           P == MergedPositions
           A == MergedAccount
           E == edits \ racedEdits
           X == racedCloses
           Y == Races(u, racedCloses, s)
<1> USE RunAssumption
<1>t. TypeOK /\ SoundDoc /\ WebTradesAreBooked
  BY DEF SafeInv
<1>d. /\ doc.positions \in Books /\ doc.account \in Accounts /\ doc.log \in Accounts
      /\ mem.positions \in Books /\ mem.account \in Accounts /\ mem.log \in Accounts
      /\ P \in Books /\ A \in Accounts /\ opened \in Nat /\ E \in SUBSET Serials
  BY <1>t, TypedParts
<1>1. /\ doc.positions[u][m] # NoPosition /\ opened' = opened
      /\ booked' = [booked EXCEPT ![u] = @ \cup {s}] /\ racedCloses' = Y
      /\ UNCHANGED <<run, struck, edits, racedEdits>>
  BY DEF CloseTrade, Served
<1>2. /\ s \in Serials
      /\ doc'.log = [doc.log EXCEPT ![u][s] = doc.log[u][s] + 1]
      /\ doc'.account = [doc.account EXCEPT ![u][s] = doc.account[u][s] + 1]
      /\ doc'.positions = [doc.positions EXCEPT ![u][m] = NoPosition]
  BY <1>t, CloseTradeFields, ZenonT(30)
<1>3. X \subseteq Y /\ (u = Admin /\ BucketAtRisk => s \in Y)
  BY DEF Races
<1>4. SoundDoc'
  <2>1. Sound(doc.positions, doc.account, opened, E, X)
    BY <1>t DEF SoundDoc, SoundIn
  <2>2. s = doc.positions[u][m].serial
    OBVIOUS
  <2> HIDE DEF E, X, Y, s
  <2>3. Sound([doc.positions EXCEPT ![u][m] = NoPosition],
              [doc.account EXCEPT ![u][s] = doc.account[u][s] + 1], opened, E, X)
    BY <1>d, <1>1, <2>1, <2>2, SoundClose
  <2>4. Sound(doc'.positions, doc'.account, opened, E, Y)
    BY <1>2, <1>3, <2>3, SoundWeaker
  <2> QED BY <1>1, <2>4 DEF SoundDoc, SoundIn, E
<1>5. ASSUME BucketAtRisk PROVE CopyAhead'
  <2>1. CopyAhead /\ Sound(P, A, opened, E, X)
    BY <1>5 DEF SafeInv, CopyAhead, SoundIn
  <2>2. MergedPositions' = IF u = Admin THEN P ELSE [P EXCEPT ![u][m] = NoPosition]
    <3>1. MergedPositions' =
            [[doc.positions EXCEPT ![u][m] = NoPosition] EXCEPT ![Admin] = mem.positions[Admin]]
      BY <1>1, <1>2 DEF MergedPositions, run
    <3>2. P = [doc.positions EXCEPT ![Admin] = mem.positions[Admin]]
      BY DEF MergedPositions
    <3> HIDE DEF P, A, E, X, Y, s
    <3>3. doc.positions \in Books /\ mem.positions \in Books
      BY <1>d
    <3> QED BY <3>1, <3>2, <3>3, BooksFollow
  <2>3. MergedAccount' = IF u = Admin THEN A ELSE [A EXCEPT ![u][s] = doc.account[u][s] + 1]
    <3> DEFINE y == doc.account[u][s] + 1
    <3>1. MergedAccount' = [[doc.account EXCEPT ![u][s] = y] EXCEPT ![Admin] = mem.account[Admin]]
      BY <1>1, <1>2 DEF MergedAccount, run
    <3> HIDE DEF y, s
    <3>2. A = [doc.account EXCEPT ![Admin] = mem.account[Admin]]
      BY DEF MergedAccount
    <3> HIDE DEF P, A, E, X, Y
    <3>3. MergedAccount' = IF u = Admin THEN A ELSE [A EXCEPT ![u][s] = y]
      <4>1. doc.account \in Accounts /\ mem.account \in Accounts /\ s \in Serials
        BY <1>d, <1>2
      <4> QED BY <3>1, <3>2, <4>1, AccountsFollow
    <3> QED BY <3>3 DEF y
  <2>4. u # Admin => P[u] = doc.positions[u] /\ A[u] = doc.account[u]
    BY <1>d DEF MergedPositions, MergedAccount, Books, Accounts
  <2>5. SoundIn(MergedPositions, MergedAccount)'
    <3>1. s = doc.positions[u][m].serial
      OBVIOUS
    <3> HIDE DEF P, A, E, X, Y, s
    <3>2. CASE u = Admin
      <4>1. Sound(P, A, opened, E, Y)
        BY <1>3, <2>1, SoundWeaker
      <4> QED BY <1>1, <2>2, <2>3, <3>2, <4>1 DEF SoundIn, E
    <3>3. CASE u # Admin
      <4>1. Sound([P EXCEPT ![u][m] = NoPosition], [A EXCEPT ![u][s] = A[u][s] + 1], opened, E, X)
        BY <1>d, <1>1, <2>1, <2>4, <3>1, <3>3, SoundClose
      <4>2. Sound([P EXCEPT ![u][m] = NoPosition], [A EXCEPT ![u][s] = A[u][s] + 1], opened, E, Y)
        BY <1>3, <4>1, SoundWeaker
      <4> QED BY <1>1, <2>2, <2>3, <2>4, <3>3, <4>2 DEF SoundIn, E
    <3> QED BY <3>2, <3>3
  <2>6. \A t \in Serials \ Y : doc'.account[Admin][t] = doc.account[Admin][t]
                               /\ doc'.log[Admin][t] = doc.log[Admin][t]
    BY <1>2, <1>3, <1>5, <1>d DEF Accounts
  <2>7. \A t \in Serials \ racedCloses' : /\ doc'.account[Admin][t] = base'.account[Admin][t]
                                          /\ mem'.log[Admin][t] >= doc'.log[Admin][t]
    BY <1>1, <1>3, <2>1, <2>6 DEF CopyAhead, run
  <2> QED BY <1>1, <2>1, <2>5, <2>7 DEF CopyAhead, run
<1>6. WebTradesAreBooked'
  <2> SUFFICES ASSUME NEW v \in Users, NEW t \in booked'[v] \ (struck \cup Y)
               PROVE  doc'.log[v][t] > 0
    BY <1>1 DEF WebTradesAreBooked
  <2>1. booked \in [Users -> SUBSET Serials] /\ t \in Serials
    BY <1>t, <1>1, <1>2 DEF TypeOK
  <2>2. doc.log[v][t] \in Nat /\ doc.log[u][s] \in Nat
    BY <1>d, <1>2, <2>1 DEF Accounts
  <2> HIDE DEF s
  <2>3. CASE v = u /\ t = s
    BY <1>d, <1>2, <2>2, <2>3 DEF Accounts
  <2>4. CASE ~(v = u /\ t = s)
    <3>1. t \in booked[v] \ (struck \cup racedCloses)
      BY <1>1, <1>3, <2>1, <2>4
    <3>2. doc.log[v][t] > 0
      BY <1>t, <3>1 DEF WebTradesAreBooked
    <3> QED BY <1>d, <1>2, <2>1, <2>4, <3>2 DEF Accounts
  <2> QED BY <2>3, <2>4
<1> QED
  BY <1>1, <1>4, <1>5, <1>6 DEF SafeInv, BucketAtRisk, run

LEMMA ModifySafe ==
  ASSUME SafeInv, TypeOK', NEW u \in Users, NEW m \in Markets, ModifyTrade(u, m)
  PROVE  SafeInv'
<1> DEFINE p == doc.positions[u][m]
           q == [p EXCEPT !.edited = TRUE]
           P == MergedPositions
           A == MergedAccount
           E == edits \ racedEdits
           D == edits' \ racedEdits'
<1> USE RunAssumption
<1>t. TypeOK /\ SoundDoc /\ WebTradesAreBooked
  BY DEF SafeInv
<1>d. /\ doc.positions \in Books /\ doc.account \in Accounts /\ mem.positions \in Books
      /\ P \in Books /\ A \in Accounts /\ opened \in Nat /\ E \in SUBSET Serials
  BY <1>t, TypedParts
<1>1. /\ p # NoPosition /\ opened' = opened
      /\ edits' = edits \cup {p.serial} /\ racedEdits' = Races(u, racedEdits, p.serial)
      /\ UNCHANGED <<run, booked, struck, racedCloses>>
  BY DEF ModifyTrade, Served
<1>2. /\ p \in Positions /\ q \in Positions
      /\ doc'.log = doc.log /\ doc'.account = doc.account
      /\ doc'.positions = [doc.positions EXCEPT ![u][m] = q]
  BY <1>t, ModifyTradeFields
<1>3. q.serial = p.serial /\ q.edited = TRUE
  <2> HIDE DEF p
  <2> QED BY <1>2 DEF Positions
<1>4. /\ D \in SUBSET (E \cup {p.serial})
      /\ u = Admin /\ BucketAtRisk => D \in SUBSET E
  BY <1>1 DEF Races
<1> HIDE DEF q
<1>5. SoundDoc'
  <2>1. Sound(doc.positions, doc.account, opened, E, racedCloses)
    BY <1>t DEF SoundDoc, SoundIn
  <2> HIDE DEF E, D
  <2>2. Sound([doc.positions EXCEPT ![u][m] = q], doc.account, opened, E \cup {q.serial}, racedCloses)
    BY <1>d, <1>1, <1>2, <1>3, <2>1, SoundEdit
  <2>3. Sound([doc.positions EXCEPT ![u][m] = q], doc.account, opened, D, racedCloses)
    BY <1>3, <1>4, <2>2, SoundWeaker
  <2> QED BY <1>1, <1>2, <2>3 DEF SoundDoc, SoundIn, D
<1>6. ASSUME BucketAtRisk PROVE CopyAhead'
  <2>1. CopyAhead /\ Sound(P, A, opened, E, racedCloses)
    BY <1>6 DEF SafeInv, CopyAhead, SoundIn
  <2>2. MergedAccount' = A
    BY <1>1, <1>2 DEF MergedAccount, run
  <2>3. MergedPositions' = IF u = Admin THEN P ELSE [P EXCEPT ![u][m] = q]
    <3>1. MergedPositions' = [[doc.positions EXCEPT ![u][m] = q] EXCEPT ![Admin] = mem.positions[Admin]]
      BY <1>1, <1>2 DEF MergedPositions, run
    <3>2. P = [doc.positions EXCEPT ![Admin] = mem.positions[Admin]]
      BY DEF MergedPositions
    <3> HIDE DEF P, A, E, D, p
    <3>3. doc.positions \in Books /\ mem.positions \in Books
      BY <1>d
    <3> QED BY <3>1, <3>2, <3>3, BooksFollow
  <2>4. u # Admin => P[u][m] = p
    BY <1>d DEF MergedPositions, Books
  <2>5. SoundIn(MergedPositions, MergedAccount)'
    <3> HIDE DEF P, A, E, D, p
    <3>1. CASE u = Admin
      <4>1. Sound(P, A, opened, D, racedCloses)
        BY <1>4, <1>6, <2>1, <3>1, SoundWeaker
      <4> QED BY <1>1, <2>2, <2>3, <3>1, <4>1 DEF SoundIn, D
    <3>2. CASE u # Admin
      <4>1. Sound([P EXCEPT ![u][m] = q], A, opened, E \cup {q.serial}, racedCloses)
        BY <1>d, <1>1, <1>2, <1>3, <2>1, <2>4, <3>2, SoundEdit
      <4>2. Sound([P EXCEPT ![u][m] = q], A, opened, D, racedCloses)
        BY <1>3, <1>4, <4>1, SoundWeaker
      <4> QED BY <1>1, <2>2, <2>3, <3>2, <4>2 DEF SoundIn, D
    <3> QED BY <3>1, <3>2
  <2> QED BY <1>1, <1>2, <2>1, <2>5 DEF CopyAhead, run
<1> QED
  BY <1>t, <1>1, <1>2, <1>5, <1>6 DEF SafeInv, WebTradesAreBooked, BucketAtRisk, run

LEMMA NextSafe == SafeInv /\ [Next]_vars => SafeInv'
<1> SUFFICES ASSUME SafeInv, [Next]_vars PROVE SafeInv'
  OBVIOUS
<1> USE RunAssumption
<1>t. TypeOK /\ TypeOK' /\ SoundDoc /\ WebTradesAreBooked
  BY NextTypeOK DEF SafeInv
<1>d. /\ doc \in Documents /\ mem \in Documents
      /\ doc.positions \in Books /\ doc.account \in Accounts /\ doc.log \in Accounts
  BY <1>t, TypedParts
\* A step that leaves the buckets alone, and ends the window or the copy's too.
<1>k. ASSUME doc'.positions = doc.positions, doc'.log = doc.log, doc'.account = doc.account,
             UNCHANGED <<opened, booked, struck, edits, racedEdits, racedCloses>>,
             \/ ~BucketAtRisk'
             \/ /\ UNCHANGED <<pc, mode, base>> /\ todo' \subseteq todo
                /\ mem'.positions = mem.positions /\ mem'.log = mem.log
                /\ mem'.account = mem.account
      PROVE  SafeInv'
  <2>1. SoundDoc' /\ WebTradesAreBooked'
    BY <1>t, <1>k DEF SoundDoc, SoundIn, WebTradesAreBooked
  <2>2. ASSUME BucketAtRisk' PROVE CopyAhead'
    <3>1. BucketAtRisk /\ CopyAhead
      BY <1>k, <2>2 DEF SafeInv, BucketAtRisk
    <3>2. /\ UNCHANGED <<MergedPositions, MergedAccount, base>> /\ todo' \subseteq todo
          /\ mem'.positions = mem.positions /\ mem'.log = mem.log /\ mem'.account = mem.account
      BY <1>k, <2>2 DEF MergedPositions, MergedAccount
    <3>3. mem.account[Admin] # base.account[Admin] =>
            \E m \in Markets \ todo' : mem.positions[Admin][m] # base.positions[Admin][m]
      BY <3>1, <3>2 DEF CopyAhead
    <3> QED BY <1>k, <3>1, <3>2, <3>3 DEF CopyAhead, SoundIn
  <2> QED BY <1>t, <2>1, <2>2 DEF SafeInv
<1>1. CASE Load
  <2>1. /\ mem' = doc /\ base' = doc /\ doc' = doc
        /\ UNCHANGED <<opened, booked, struck, edits, racedEdits, racedCloses>>
    BY <1>1 DEF Load, ghosts
  <2>2. MergedPositions' = doc.positions /\ MergedAccount' = doc.account
    BY <1>d, <2>1 DEF MergedPositions, MergedAccount, Books, Accounts
  <2>3. SoundDoc' /\ SoundIn(MergedPositions, MergedAccount)' /\ WebTradesAreBooked'
    BY <1>t, <2>1, <2>2 DEF SoundDoc, SoundIn, WebTradesAreBooked
  <2>4. \A s \in Serials : doc.log[Admin][s] >= doc.log[Admin][s]
    BY <1>d DEF Accounts
  <2> QED BY <1>t, <2>1, <2>3, <2>4 DEF SafeInv, CopyAhead
<1>2. ASSUME NEW m \in Markets, NEW direction \in Directions, StepMarket(m, direction)
      PROVE  SafeInv'
  <2>1. /\ pc' = pc /\ mode' = mode /\ doc' = doc /\ pc = "stepping"
        /\ UNCHANGED <<booked, struck, edits, racedEdits, racedCloses>>
    BY <1>2 DEF StepMarket, ghosts
  <2>2. WebTradesAreBooked'
    BY <1>t, <2>1 DEF WebTradesAreBooked
  <2>3. CASE BucketAtRisk
    <3>1. SoundDoc' /\ CopyAhead'
      BY <1>t, <1>2, <2>3, StepAhead DEF SafeInv
    <3> QED BY <1>t, <2>2, <3>1 DEF SafeInv
  <2>4. CASE ~BucketAtRisk
    <3>1. opened' = opened \/ opened' = opened + 1
      BY <1>2, <1>t, StepMarketFields
    <3>2. SoundDoc'
      <4> DEFINE E == edits \ racedEdits
      <4>1. Sound(doc.positions, doc.account, opened, E, racedCloses) /\ E \in SUBSET Serials
        BY <1>t, TypedParts DEF SoundDoc, SoundIn
      <4> HIDE DEF E
      <4>2. opened \in Nat
        BY <1>t, TypedParts
      <4>3. Sound(doc.positions, doc.account, opened', E, racedCloses)
        BY <1>d, <3>1, <4>1, <4>2, SoundGrows
      <4> QED BY <2>1, <4>3 DEF SoundDoc, SoundIn, E
    <3> QED BY <1>t, <2>1, <2>2, <2>4, <3>2 DEF SafeInv, BucketAtRisk
  <2> QED BY <2>3, <2>4
<1>3. ASSUME NEW m \in Markets, GateMarket(m) PROVE SafeInv'
  <2>1. mem'.positions = mem.positions /\ mem'.log = mem.log /\ mem'.account = mem.account
    BY <1>d, <1>3 DEF GateMarket, Documents
  <2> QED BY <1>k, <1>3, <2>1 DEF GateMarket, ghosts
<1>4. CASE Abort
  BY <1>k, <1>4 DEF Abort, Ends, BucketAtRisk, ghosts
<1>5. ASSUME NEW stale \in BOOLEAN, Save(stale) PROVE SafeInv'
  BY <1>t, <1>5, SaveSafe
<1>6. CASE PushState
  BY <1>k, <1>6 DEF PushState, BucketAtRisk, ghosts
<1>7. CASE SendMail
  BY <1>k, <1>7 DEF SendMail, BucketAtRisk, ghosts
<1>8. CASE Flush
  <2>1. doc'.positions = doc.positions /\ doc'.log = doc.log /\ doc'.account = doc.account
    BY <1>d, <1>8 DEF Flush, Documents
  <2> QED BY <1>k, <1>8, <2>1 DEF Flush, Ends, BucketAtRisk, ghosts
<1>9. CASE FlushOnce
  <2>1. doc'.positions = doc.positions /\ doc'.log = doc.log /\ doc'.account = doc.account
    BY <1>d, <1>9 DEF FlushOnce, Documents
  <2> QED BY <1>k, <1>9, <2>1 DEF FlushOnce, Ends, BucketAtRisk, ghosts
<1>10. CASE EndTest
  BY <1>k, <1>10 DEF EndTest, Ends, BucketAtRisk, ghosts
<1>11. CASE Die
  BY <1>k, <1>11 DEF Die, Ends, BucketAtRisk, ghosts
<1>12. ASSUME NEW u \in Users, NEW m \in Markets, NEW side \in Sides, OpenTrade(u, m, side)
       PROVE  SafeInv'
  BY <1>t, <1>12, OpenSafe
<1>13. ASSUME NEW u \in Users, NEW m \in Markets, CloseTrade(u, m) PROVE SafeInv'
  BY <1>t, <1>13, CloseSafe
<1>14. ASSUME NEW u \in Users, NEW m \in Markets, ModifyTrade(u, m) PROVE SafeInv'
  BY <1>t, <1>14, ModifySafe
<1>15. ASSUME NEW m \in Markets, AddMarket(m) PROVE SafeInv'
  <2>1. doc'.positions = doc.positions /\ doc'.log = doc.log /\ doc'.account = doc.account
    BY <1>d, <1>15 DEF AddMarket, Documents
  <2> QED BY <1>k, <1>15, <2>1 DEF AddMarket, Served, run
<1>16. ASSUME NEW serial \in Serials, DeleteLogEntry(serial) PROVE SafeInv'
  <2>1. /\ doc'.positions = doc.positions /\ doc'.account = doc.account
        /\ doc'.log = [doc.log EXCEPT ![Admin][serial] = @ - 1]
    BY <1>d, <1>16 DEF DeleteLogEntry, Documents
  <2>2. /\ UNCHANGED <<run, opened, booked, edits, racedEdits, racedCloses>>
        /\ struck' = struck \cup {serial} /\ doc.log[Admin][serial] > 0
    BY <1>16 DEF DeleteLogEntry, Served
  <2>3. \A u \in Users, s \in Serials : doc.log[u][s] \in Nat
    BY <1>d DEF Accounts
  <2>4. /\ \A u \in Users, s \in Serials \ {serial} : doc'.log[u][s] = doc.log[u][s]
        /\ \A s \in Serials : doc'.log[Admin][s] \in Nat /\ doc.log[Admin][s] >= doc'.log[Admin][s]
    BY <1>d, <2>1, <2>2, <2>3 DEF Accounts
  <2>5. SoundDoc' /\ WebTradesAreBooked'
    BY <1>t, <2>1, <2>2, <2>4 DEF SoundDoc, SoundIn, WebTradesAreBooked, TypeOK
  <2>6. ASSUME BucketAtRisk PROVE CopyAhead'
    <3>1. CopyAhead
      BY <2>6 DEF SafeInv
    <3>2. UNCHANGED <<MergedPositions, MergedAccount>>
      BY <2>1, <2>2 DEF MergedPositions, MergedAccount, run
    <3>3. \A s \in Serials \ racedCloses : mem.log[Admin][s] >= doc'.log[Admin][s]
      <4> SUFFICES ASSUME NEW s \in Serials \ racedCloses
                   PROVE  mem.log[Admin][s] >= doc'.log[Admin][s]
        OBVIOUS
      <4>1. mem.log[Admin][s] \in Nat
        BY <1>d, DocParts DEF Accounts
      <4> QED BY <2>3, <2>4, <3>1, <4>1 DEF CopyAhead
    <3> QED BY <2>1, <2>2, <3>1, <3>2, <3>3 DEF CopyAhead, SoundIn, run
  <2> QED BY <1>t, <2>2, <2>5, <2>6 DEF SafeInv, BucketAtRisk, run
<1>17. CASE NextDay
  BY <1>k, <1>17 DEF NextDay, run, ghosts
<1>18. CASE UNCHANGED vars
  BY <1>k, <1>18 DEF vars, run, ghosts
<1> QED
  BY <1>1, <1>2, <1>3, <1>4, <1>5, <1>6, <1>7, <1>8, <1>9, <1>10, <1>11, <1>12, <1>13,
     <1>14, <1>15, <1>16, <1>17, <1>18, <1>t DEF Next, RunStep, Web, TypeOK

LEMMA SafeAlways == Spec => []SafeInv
BY InitSafe, NextSafe, PTL DEF Spec

\* A closed position never comes back, whatever the requests, the kills and the
\* modes of the runs, unless the close fell between a run's load and its save #1.
THEOREM ClosedStaysClosed == Spec => []NoZombies
<1>1. SafeInv => NoZombies
  BY DEF SafeInv, SoundDoc, SoundIn, Sound, NoZombies
<1> QED
  BY <1>1, SafeAlways, PTL

\* A trade closed over the web, other than in that window, stays in the log.
THEOREM WebTradesStay == Spec => []WebTradesAreBooked
<1>1. SafeInv => WebTradesAreBooked
  BY DEF SafeInv
<1> QED
  BY <1>1, SafeAlways, PTL

\* A stop edited other than in that window stays edited: save #2 takes nothing of
\* the bucket back, and neither does the save #1 of a later run.
THEOREM EditsStay == Spec => []EditsStick
<1>1. SafeInv => EditsStick
  BY DEF SafeInv, SoundDoc, SoundIn, Sound, EditsStick
<1> QED
  BY <1>1, SafeAlways, PTL

-----------------------------------------------------------------------------
(* Signals. *)

Signalled(signals) == \A m \in doc.markets \ late : signals[m] # NoSignal

\* Both saves of a loop run write the copy's signals, the one of a --once run too.
SignalInv ==
  /\ TypeOK
  /\ Signalled(doc.signals)
  /\ SignalsAtRisk => Signalled(mem.signals)
  /\ pc = "flush" => mode = "loop"

LEMMA InitSignals == Init => SignalInv
<1> SUFFICES ASSUME Init PROVE SignalInv
  OBVIOUS
<1>1. NewSignal # NoSignal
  BY NullAssumption DEF NewSignal, Signals, Directions
<1>2. \A m \in FirstMarkets : Fresh.signals[m] = NewSignal
  BY RunAssumption DEF Fresh
<1> QED
  BY InitTypeOK, <1>1, <1>2 DEF Init, SignalInv, Signalled, Fresh, SignalsAtRisk, BucketAtRisk

LEMMA NextSignals == SignalInv /\ [Next]_vars => SignalInv'
<1> SUFFICES ASSUME SignalInv, [Next]_vars PROVE SignalInv'
  OBVIOUS
<1> USE RunAssumption
<1>t. TypeOK /\ TypeOK'
  BY NextTypeOK DEF SignalInv
<1>d. doc \in Documents /\ mem \in Documents
  BY <1>t DEF TypeOK
\* A step that leaves the signals alone, or ends the run.
<1>k. ASSUME doc'.markets = doc.markets, doc'.signals = doc.signals, late' = late,
             \/ pc' = "idle"
             \/ UNCHANGED <<pc, mode>> /\ mem'.signals = mem.signals
      PROVE  SignalInv'
  BY <1>t, <1>k DEF SignalInv, Signalled, SignalsAtRisk, BucketAtRisk
<1>1. CASE Load
  BY <1>t, <1>1 DEF Load, SignalInv, Signalled, ghosts
<1>2. ASSUME NEW m \in Markets, NEW direction \in Directions, StepMarket(m, direction)
      PROVE  SignalInv'
  <2>1. doc' = doc /\ late' = late /\ pc' = pc /\ mode' = mode
    BY <1>2 DEF StepMarket, ghosts
  <2>2. mem'.signals = [mem.signals EXCEPT ![m] = [way |-> direction, day |-> today]]
    BY <1>2, <1>t, StepMarketFields
  <2>3. [way |-> direction, day |-> today] # NoSignal
    BY <1>t, NullAssumption DEF TypeOK, Signals
  <2>4. Signalled(mem.signals) => Signalled(mem.signals)'
    BY <1>d, <2>1, <2>2, <2>3 DEF Signalled, Documents
  <2> QED BY <1>t, <2>1, <2>4 DEF SignalInv, Signalled, SignalsAtRisk, BucketAtRisk
<1>3. ASSUME NEW m \in Markets, GateMarket(m) PROVE SignalInv'
  <2>1. mem'.signals = mem.signals
    BY <1>d, <1>3 DEF GateMarket, Documents
  <2> QED BY <1>k, <1>3, <2>1 DEF GateMarket, ghosts
<1>4. CASE Abort
  BY <1>k, <1>4 DEF Abort, Ends, ghosts
<1>5. ASSUME NEW stale \in BOOLEAN, Save(stale) PROVE SignalInv'
  <2>1. /\ pc = "stepping" /\ mode # "test" /\ pc' = "saved" /\ late' = late /\ mem' = doc'
    BY <1>5 DEF Save, ghosts
  <2>2. doc'.markets = doc.markets /\ (doc'.signals = doc.signals \/ doc'.signals = mem.signals)
    BY <1>5, <1>t, SaveFields DEF Changed
  <2>3. Signalled(doc.signals)'
    BY <2>1, <2>2 DEF SignalInv, Signalled, SignalsAtRisk, BucketAtRisk
  <2> QED BY <1>t, <2>1, <2>3 DEF SignalInv
<1>6. CASE PushState
  <2>1. mem'.signals = mem.signals
    BY <1>d, <1>6 DEF PushState, Documents
  <2> QED BY <1>t, <1>6, <2>1 DEF PushState, SignalInv, Signalled, SignalsAtRisk, BucketAtRisk, ghosts
<1>7. CASE SendMail
  BY <1>t, <1>7 DEF SendMail, SignalInv, Signalled, SignalsAtRisk, BucketAtRisk, ghosts
<1>8. CASE Flush
  <2>1. doc'.markets = doc.markets /\ doc'.signals = mem.signals /\ late' = late
    BY <1>d, <1>8 DEF Flush, Documents, ghosts
  <2>2. Signalled(mem.signals) /\ pc' = "idle"
    BY <1>8 DEF Flush, Ends, SignalInv, SignalsAtRisk
  <2> QED BY <1>t, <2>1, <2>2 DEF SignalInv, Signalled, SignalsAtRisk, BucketAtRisk
<1>9. CASE FlushOnce
  <2>1. doc'.markets = doc.markets /\ doc'.signals = doc.signals
    BY <1>d, <1>9 DEF FlushOnce, Documents
  <2> QED BY <1>k, <1>9, <2>1 DEF FlushOnce, Ends, ghosts
<1>10. CASE EndTest
  BY <1>k, <1>10 DEF EndTest, Ends, ghosts
<1>11. CASE Die
  BY <1>k, <1>11 DEF Die, Ends, ghosts
<1>12. ASSUME NEW u \in Users, NEW m \in Markets, NEW side \in Sides, OpenTrade(u, m, side)
       PROVE  SignalInv'
  <2>1. doc'.markets = doc.markets /\ doc'.signals = doc.signals
    BY <1>12, <1>t, OpenTradeFields
  <2> QED BY <1>k, <1>12, <2>1 DEF OpenTrade, Served, run, ghosts
<1>13. ASSUME NEW u \in Users, NEW m \in Markets, CloseTrade(u, m) PROVE SignalInv'
  <2>1. doc'.markets = doc.markets /\ doc'.signals = doc.signals
    BY <1>13, <1>t, CloseTradeFields
  <2> QED BY <1>k, <1>13, <2>1 DEF CloseTrade, Served, run
<1>14. ASSUME NEW u \in Users, NEW m \in Markets, ModifyTrade(u, m) PROVE SignalInv'
  <2>1. doc'.markets = doc.markets /\ doc'.signals = doc.signals
    BY <1>14, <1>t, ModifyTradeFields
  <2> QED BY <1>k, <1>14, <2>1 DEF ModifyTrade, Served, run
<1>15. ASSUME NEW m \in Markets, AddMarket(m) PROVE SignalInv'
  <2>1. /\ doc'.markets = doc.markets \cup {m}
        /\ doc'.signals = [doc.signals EXCEPT ![m] = NewSignal]
    BY <1>d, <1>15 DEF AddMarket, Documents
  <2>2. UNCHANGED run /\ late' = IF SignalsAtRisk THEN late \cup {m} ELSE late
    BY <1>15 DEF AddMarket, Served
  <2>3. NewSignal # NoSignal
    BY NullAssumption DEF NewSignal, Signals, Directions
  <2>4. Signalled(doc.signals)'
    BY <1>d, <2>1, <2>2, <2>3 DEF SignalInv, Signalled, Documents
  <2>5. SignalsAtRisk => Signalled(mem.signals)'
    BY <2>1, <2>2 DEF SignalInv, Signalled, run
  <2> QED BY <1>t, <2>2, <2>4, <2>5 DEF SignalInv, SignalsAtRisk, BucketAtRisk, run
<1>16. ASSUME NEW serial \in Serials, DeleteLogEntry(serial) PROVE SignalInv'
  <2>1. doc'.markets = doc.markets /\ doc'.signals = doc.signals
    BY <1>d, <1>16 DEF DeleteLogEntry, Documents
  <2> QED BY <1>k, <1>16, <2>1 DEF DeleteLogEntry, Served, run
<1>17. CASE NextDay
  BY <1>k, <1>17 DEF NextDay, run, ghosts
<1>18. CASE UNCHANGED vars
  BY <1>k, <1>18 DEF vars, run, ghosts
<1> QED
  BY <1>1, <1>2, <1>3, <1>4, <1>5, <1>6, <1>7, <1>8, <1>9, <1>10, <1>11, <1>12, <1>13,
     <1>14, <1>15, <1>16, <1>17, <1>18, <1>t DEF Next, RunStep, Web, TypeOK

\* A market keeps the signal entry the next run needs, through the runs of every
\* mode, unless it was added while a run had yet to save signals.
THEOREM MarketsKeepSignals == Spec => []EveryMarketHasASignal
<1>1. SignalInv => EveryMarketHasASignal
  BY DEF SignalInv, Signalled, EveryMarketHasASignal
<1> QED
  BY <1>1, InitSignals, NextSignals, PTL DEF Spec
=============================================================================
