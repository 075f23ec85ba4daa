--------------------------- MODULE StateFileProofs ---------------------------
(***************************************************************************)
(* Theorems about StateFile, for every set of callers, users and inodes.   *)
(*                                                                         *)
(* Two invariants.  GoodInv needs only that a good file is there at boot   *)
(* and gives that every reader always finds a complete document.  AcksInv  *)
(* needs that all writers act for one user, so that the lock file, which   *)
(* nothing replaces, serialises them; it gives the refinement of           *)
(* AtomicStore, also when the file is corrupt or missing at boot and there *)
(* is no reader outside the lock to recover it.                            *)
(***************************************************************************)
EXTENDS StateFile, TLAPS

\* The path holds a document when the system starts.
DocAtBoot == InitialFile = "doc"

\* Every writer goes through mutate_user_state with the same uid.
OneUserOnly ==
  /\ \A w \in Writers : UidOf[w] \in Uids
  /\ \A v, w \in Writers : UidOf[v] = UidOf[w]

-----------------------------------------------------------------------------
(* Facts about the helpers. *)

\* The inode the kernel hands out is in use by nobody.
LEMMA NewInodeIsFree ==
  ASSUME FreeInodes # {}
  PROVE  /\ NewInode \in Inodes
         /\ NewInode # path
         /\ NewInode \notin onDisk
         /\ \A p \in Procs : fd[p] # NewInode /\ tmp[p] # NewInode
BY DEF NewInode, FreeInodes

\* The file of the initial state exists.
LEMMA FirstInodeType == FirstInode \in Inodes
BY ConstantsAssumption DEF FirstInode

-----------------------------------------------------------------------------
(* Type correctness. *)

LEMMA InitTypeOK == Init => TypeOK
<1> SUFFICES ASSUME Init PROVE TypeOK
  OBVIOUS
<1>1. FreshDoc \in Content /\ Unparsable \in Content
  BY DEF FreshDoc, Doc, Unparsable, Content
<1>2. path \in Inodes \cup {NoFile}
  BY FirstInodeType DEF Init
<1>3. content \in [Inodes -> Content]
  BY <1>1 DEF Init
<1> QED
  BY <1>1, <1>2, <1>3, FirstInodeType, ConstantsAssumption DEF Init, TypeOK, Steps

\* Every action keeps every variable in its type.
LEMMA NextTypeOK == TypeOK /\ [Next]_vars => TypeOK'
<1> SUFFICES ASSUME TypeOK, [Next]_vars PROVE TypeOK'
  OBVIOUS
<1> USE DEF TypeOK, fileVars, lockVars, procVars, Goto, Steps
<1>c. Unparsable \in Content /\ FreshDoc \in Content /\ Doc({}, TRUE) \in Content
  BY DEF Doc, FreshDoc, Unparsable, Content
<1>u. ASSUME NEW p \in Writers PROVE Current(p) \in Updates
  BY <1>u DEF Current, Updates, Procs
<1>1. ASSUME NEW p \in Procs, BeginMutate(p) PROVE TypeOK'
  <2>1. started' \in [Procs -> 0..MaxOps]
    BY <1>1, ConstantsAssumption DEF BeginMutate
  <2> QED BY <1>1, <2>1 DEF BeginMutate
<1>2. ASSUME NEW p \in Procs, BeginLoad(p) PROVE TypeOK'
  <2>1. started' \in [Procs -> 0..MaxOps]
    BY <1>2, ConstantsAssumption DEF BeginLoad
  <2> QED BY <1>2, <2>1 DEF BeginLoad
<1>3. ASSUME NEW p \in Procs, LockUser(p) PROVE TypeOK'
  BY <1>3 DEF LockUser
<1>4. ASSUME NEW p \in Procs, OpenState(p) PROVE TypeOK'
  <2>1. CASE path # NoFile
    BY <1>4, <2>1 DEF OpenState
  <2>2. CASE path = NoFile
    BY <1>4, <2>2, <1>c, NewInodeIsFree DEF OpenState
  <2> QED BY <2>1, <2>2
<1>5. ASSUME NEW p \in Procs, AcquireFlock(p) PROVE TypeOK'
  BY <1>5 DEF AcquireFlock
<1>6. ASSUME NEW p \in Procs, CheckExists(p) PROVE TypeOK'
  BY <1>6, <1>c DEF CheckExists
<1>7. ASSUME NEW p \in Procs, ReadFile(p) PROVE TypeOK'
  BY <1>7 DEF ReadFile, AfterError
<1>8. ASSUME NEW p \in Procs, BackupCorrupt(p) PROVE TypeOK'
  <2>1. CASE path = NoFile
    BY <1>8, <2>1, ConstantsAssumption DEF BackupCorrupt, AfterError
  <2>2. CASE path # NoFile
    <3>1. buf' \in [Procs -> Content]
      BY <1>8, <2>2, <1>c, ZenonT(30) DEF BackupCorrupt
    <3> QED BY <1>8, <2>2, <3>1 DEF BackupCorrupt
  <2> QED BY <2>1, <2>2
<1>9. ASSUME NEW p \in Procs, Mutate(p) PROVE TypeOK'
  <2>1. Doc(buf[p].applied \cup {Current(p)}, buf[p].recovered) \in Content
    BY <1>9, <1>u DEF Mutate, Content, Doc
  <2>3. buf' \in [Procs -> Content]
    BY <1>9, <2>1 DEF Mutate
  <2> QED BY <1>9, <2>3 DEF Mutate
<1>10. ASSUME NEW p \in Procs, MutatorRaises(p) PROVE TypeOK'
  BY <1>10 DEF MutatorRaises
<1>11. ASSUME NEW p \in Procs, StageTemp(p) PROVE TypeOK'
  BY <1>11, NewInodeIsFree DEF StageTemp
<1>12. ASSUME NEW p \in Procs, ReplaceFile(p) PROVE TypeOK'
  BY <1>12 DEF ReplaceFile
<1>13. ASSUME NEW p \in Procs, FsyncDir(p) PROVE TypeOK'
  <2>1. acked' \in SUBSET Updates
    BY <1>13, <1>u DEF FsyncDir
  <2> QED BY <1>13, <2>1 DEF FsyncDir
<1>14. ASSUME NEW p \in Procs, SaveFails(p) PROVE TypeOK'
  BY <1>14 DEF SaveFails
<1>15. ASSUME NEW p \in Procs, Unlock(p) PROVE TypeOK'
  BY <1>15 DEF Unlock, Release
<1>16. ASSUME NEW p \in Procs, UnlockUser(p) PROVE TypeOK'
  BY <1>16 DEF UnlockUser, ReleaseUser
<1>17. ASSUME NEW p \in Procs, Crash(p) PROVE TypeOK'
  BY <1>17 DEF Crash, Release, ReleaseUser
<1>18. ASSUME PowerCut PROVE TypeOK'
  BY <1>18, <1>c DEF PowerCut
<1>19. ASSUME UNCHANGED vars PROVE TypeOK'
  BY <1>19 DEF vars
<1> QED
  BY <1>1, <1>2, <1>3, <1>4, <1>5, <1>6, <1>7, <1>8, <1>9, <1>10, <1>11, <1>12, <1>13,
     <1>14, <1>15, <1>16, <1>17, <1>18, <1>19 DEF Next, Progress, Finished

\* Type correctness of the state file protocol (every call of state_manager/io.py
\* and state_manager/__init__.py, under kills and power cuts).
THEOREM TypeCorrect == Spec => []TypeOK
<1>1. Init => TypeOK
  BY InitTypeOK
<1>2. TypeOK /\ [Next]_vars => TypeOK'
  BY NextTypeOK
<1> QED
  BY <1>1, <1>2, PTL DEF Spec
-----------------------------------------------------------------------------
(* A good file stays good. *)

\* What holds for ever once a document is at the path: no caller is led to
\* recover, and whatever a power cut may bring back is a synced document.
GoodInv ==
  /\ path \in onDisk
  /\ \A i \in onDisk : i \in Inodes /\ i \in synced /\ content[i].parses
  /\ \A p \in Procs :
       /\ pc[p] # "backup"
       /\ ~recovering[p]
       /\ pc[p] \in {"mutate", "stage"} => buf[p].parses
       /\ pc[p] = "replace" =>
            tmp[p] \in Inodes /\ tmp[p] \in synced /\ content[tmp[p]].parses
  /\ \A p \in Readers : pc[p] \in {"idle", "exists", "read"}

LEMMA InitGood == ASSUME DocAtBoot PROVE Init => GoodInv
<1> SUFFICES ASSUME Init PROVE GoodInv
  OBVIOUS
<1>1. path = FirstInode /\ content[path].parses /\ path \in synced /\ onDisk = {path}
  BY FirstInodeType DEF Init, DocAtBoot, FreshDoc, Doc
<1>2. \A p \in Procs : pc[p] = "idle" /\ ~recovering[p]
  BY DEF Init
<1> QED
  BY <1>1, <1>2, FirstInodeType DEF GoodInv, Procs

\* A caller that leaves the inodes and the directory alone only has to keep
\* what GoodInv says of itself.
LEMMA GoodLocal ==
  ASSUME TypeOK, GoodInv, UNCHANGED fileVars, NEW p \in Procs,
         \A q \in Procs \ {p} : /\ pc'[q] = pc[q] /\ tmp'[q] = tmp[q]
                                /\ buf'[q] = buf[q] /\ recovering'[q] = recovering[q],
         pc'[p] \notin {"backup", "replace"},
         ~recovering'[p],
         pc'[p] \in {"mutate", "stage"} => buf'[p].parses,
         p \in Readers => pc'[p] \in {"idle", "exists", "read"}
  PROVE  GoodInv'
BY DEF GoodInv, fileVars, Procs

LEMMA NextGood == TypeOK /\ GoodInv /\ [Next]_vars => GoodInv'
<1> SUFFICES ASSUME TypeOK, GoodInv, [Next]_vars PROVE GoodInv'
  OBVIOUS
<1>d. path \in Inodes /\ path # NoFile /\ content[path].parses
  BY ConstantsAssumption DEF GoodInv
<1>t. /\ pc \in [Procs -> Steps] /\ tmp \in [Procs -> Inodes \cup {NoFile}]
      /\ buf \in [Procs -> Content] /\ recovering \in [Procs -> BOOLEAN]
  BY DEF TypeOK
<1>r. \A p \in Procs : p \in Readers =>
        p \notin Writers /\ pc[p] \in {"idle", "exists", "read"}
  BY ConstantsAssumption DEF GoodInv
<1>1. ASSUME NEW p \in Procs, BeginMutate(p) PROVE GoodInv'
  <2>1. p \notin Readers /\ pc'[p] \in {"userlock", "open"}
    BY <1>1, <1>t, <1>r DEF BeginMutate, Goto
  <2> QED BY <1>1, <2>1, <1>t, GoodLocal DEF BeginMutate, Goto, GoodInv
<1>2. ASSUME NEW p \in Procs, BeginLoad(p) PROVE GoodInv'
  BY <1>2, <1>t, GoodLocal DEF BeginLoad, Goto, GoodInv
<1>3. ASSUME NEW p \in Procs, LockUser(p) PROVE GoodInv'
  BY <1>3, <1>t, <1>r, GoodLocal DEF LockUser, Goto, GoodInv
<1>4. ASSUME NEW p \in Procs, OpenState(p) PROVE GoodInv'
  BY <1>4, <1>t, <1>r, <1>d, GoodLocal DEF OpenState, Goto, GoodInv
<1>5. ASSUME NEW p \in Procs, AcquireFlock(p) PROVE GoodInv'
  <2>1. p \in Writers
    BY <1>5, <1>r DEF AcquireFlock, Procs
  <2>2. p \notin Readers
    BY <2>1, ConstantsAssumption
  <2> QED BY <1>5, <1>t, <2>1, <2>2, GoodLocal DEF AcquireFlock, Goto, GoodInv
<1>6. ASSUME NEW p \in Procs, CheckExists(p) PROVE GoodInv'
  BY <1>6, <1>t, <1>d, GoodLocal DEF CheckExists, Goto, GoodInv
<1>7. ASSUME NEW p \in Procs, ReadFile(p) PROVE GoodInv'
  <2>1. /\ buf' = [buf EXCEPT ![p] = IF p \in Writers THEN content[path] ELSE @]
        /\ pc' = [pc EXCEPT ![p] = IF p \in Writers THEN "mutate" ELSE "idle"]
    BY <1>7, <1>d DEF ReadFile, Goto
  <2>2. CASE p \in Writers
    BY <1>7, <1>t, <1>d, <1>r, <2>1, <2>2, GoodLocal DEF ReadFile, GoodInv
  <2>3. CASE p \notin Writers
    BY <1>7, <1>t, <1>d, <2>1, <2>3, GoodLocal DEF ReadFile, GoodInv
  <2> QED BY <2>2, <2>3
<1>8. ASSUME NEW p \in Procs, BackupCorrupt(p) PROVE GoodInv'
  BY <1>8 DEF BackupCorrupt, GoodInv
<1>9. ASSUME NEW p \in Procs, Mutate(p) PROVE GoodInv'
  <2>1. buf'[p].parses /\ \A q \in Procs \ {p} : buf'[q] = buf[q]
    BY <1>9, <1>t DEF Mutate, Doc
  <2> QED BY <1>9, <1>t, <1>r, <2>1, GoodLocal DEF Mutate, Goto, GoodInv
<1>10. ASSUME NEW p \in Procs, MutatorRaises(p) PROVE GoodInv'
  BY <1>10, <1>t, <1>r, GoodLocal DEF MutatorRaises, Goto, GoodInv
<1>11. ASSUME NEW p \in Procs, StageTemp(p) PROVE GoodInv'
  <2> DEFINE n == NewInode
  <2>1. /\ n \in Inodes /\ n # path /\ n \notin onDisk
        /\ \A q \in Procs : tmp[q] # n
    BY <1>11, NewInodeIsFree DEF StageTemp
  <2>2. /\ pc' = [pc EXCEPT ![p] = "replace"] /\ tmp' = [tmp EXCEPT ![p] = n]
        /\ content' = [content EXCEPT ![n] = buf[p]] /\ synced' = synced \cup {n}
        /\ UNCHANGED <<path, onDisk, buf, recovering>> /\ pc[p] = "stage"
    BY <1>11 DEF StageTemp, Goto
  <2>3. content'[n].parses /\ \A i \in Inodes \ {n} : content'[i] = content[i]
    BY <2>1, <2>2 DEF TypeOK, GoodInv
  <2> HIDE DEF n
  <2>4. \A i \in onDisk' : i \in Inodes /\ i \in synced' /\ content'[i].parses
    BY <2>1, <2>2, <2>3 DEF GoodInv
  <2>5. \A q \in Procs : /\ pc'[q] # "backup" /\ ~recovering'[q]
                         /\ pc'[q] \in {"mutate", "stage"} => buf'[q].parses
    BY <2>2, <1>t DEF GoodInv
  <2>6. ASSUME NEW q \in Procs, pc'[q] = "replace"
        PROVE tmp'[q] \in Inodes /\ tmp'[q] \in synced' /\ content'[tmp'[q]].parses
    <3>1. CASE q = p
      BY <3>1, <2>1, <2>2, <2>3, <1>t
    <3>2. CASE q # p
      BY <3>2, <2>1, <2>2, <2>3, <2>6, <1>t DEF GoodInv
    <3> QED BY <3>1, <3>2
  <2>7. \A q \in Readers : pc'[q] \in {"idle", "exists", "read"}
    BY <2>2, <1>t DEF GoodInv, Procs
  <2> QED BY <2>2, <2>4, <2>5, <2>6, <2>7 DEF GoodInv
<1>12. ASSUME NEW p \in Procs, ReplaceFile(p) PROVE GoodInv'
  <2>1. p \notin Readers
    BY <1>12, <1>r DEF ReplaceFile
  <2>2. /\ path' = tmp[p] /\ onDisk' = onDisk \cup {tmp[p]}
        /\ tmp[p] \in Inodes /\ tmp[p] \in synced /\ content[tmp[p]].parses
        /\ UNCHANGED <<content, synced, buf, recovering>>
        /\ pc' = [pc EXCEPT ![p] = "fsync"] /\ tmp' = [tmp EXCEPT ![p] = NoFile]
    BY <1>12 DEF ReplaceFile, GoodInv, Goto
  <2> QED BY <2>1, <2>2, <1>t DEF GoodInv, Procs
<1>13. ASSUME NEW p \in Procs, FsyncDir(p) PROVE GoodInv'
  <2>1. p \notin Readers
    BY <1>13, <1>r DEF FsyncDir
  <2>2. /\ onDisk' = {path} /\ UNCHANGED <<path, content, synced, buf, tmp>>
        /\ recovering' = [recovering EXCEPT ![p] = FALSE]
        /\ pc' = [pc EXCEPT ![p] = "unlock"]
    BY <1>13 DEF FsyncDir, GoodInv, Goto
  <2> QED BY <2>1, <2>2, <1>t DEF GoodInv, Procs
<1>14. ASSUME NEW p \in Procs, SaveFails(p) PROVE GoodInv'
  BY <1>14, <1>t, <1>r, GoodLocal DEF SaveFails, Goto
<1>15. ASSUME NEW p \in Procs, Unlock(p) PROVE GoodInv'
  BY <1>15, <1>t, <1>r, GoodLocal DEF Unlock, Goto, GoodInv
<1>16. ASSUME NEW p \in Procs, UnlockUser(p) PROVE GoodInv'
  BY <1>16, <1>t, <1>r, GoodLocal DEF UnlockUser, Goto, GoodInv
<1>17. ASSUME NEW p \in Procs, Crash(p) PROVE GoodInv'
  BY <1>17, <1>t, GoodLocal DEF Crash, Goto, GoodInv
<1>18. ASSUME PowerCut PROVE GoodInv'
  <2>1. path' \in onDisk /\ onDisk' = {path'} /\ UNCHANGED <<synced, buf>>
    BY <1>18 DEF PowerCut
  <2>2. content'[path'] = content[path']
    BY <1>18, <2>1 DEF PowerCut, GoodInv
  <2>3. \A p \in Procs : pc'[p] = "idle" /\ ~recovering'[p]
    BY <1>18 DEF PowerCut
  <2> QED BY <2>1, <2>2, <2>3 DEF GoodInv, Procs
<1>19. ASSUME UNCHANGED vars PROVE GoodInv'
  BY <1>19 DEF vars, fileVars, procVars, GoodInv
<1> QED
  BY <1>1, <1>2, <1>3, <1>4, <1>5, <1>6, <1>7, <1>8, <1>9, <1>10, <1>11, <1>12, <1>13,
     <1>14, <1>15, <1>16, <1>17, <1>18, <1>19 DEF Next, Progress, Finished

\* Once there is a good state.json, every reader at every instant finds a
\* complete document, for any number of writers, readers and users, under any
\* kills and power cuts (_atomic_write_unlocked: fsync, then os.replace).
THEOREM ReadersAlwaysFindADocument ==
  ASSUME DocAtBoot PROVE Spec => []PublishedFileParses
<1>1. Init => TypeOK /\ GoodInv
  BY InitTypeOK, InitGood
<1>2. TypeOK /\ GoodInv /\ [Next]_vars => (TypeOK /\ GoodInv)'
  BY NextTypeOK, NextGood
<1>3. GoodInv => PublishedFileParses
  BY ConstantsAssumption DEF GoodInv, PublishedFileParses
<1> QED
  BY <1>1, <1>2, <1>3, PTL DEF Spec

\* From a good file nothing is ever quarantined: _backup_corrupt never runs.
THEOREM NothingGoodIsQuarantined ==
  ASSUME DocAtBoot PROVE Spec => NoGoodFileQuarantined
<1>1. Init => TypeOK /\ GoodInv
  BY InitTypeOK, InitGood
<1>2. TypeOK /\ GoodInv /\ [Next]_vars => (TypeOK /\ GoodInv)'
  BY NextTypeOK, NextGood
<1>3. GoodInv' => [\A p \in Procs : ~recovering[p] /\ recovering'[p] => ~PublishedFileParses]_vars
  BY DEF GoodInv
<1> QED
  BY <1>1, <1>2, <1>3, PTL DEF Spec, NoGoodFileQuarantined

-----------------------------------------------------------------------------
(* One user's writers never lose an update, whatever the first file is.      *)

\* A good file at boot, or no reader that could meet a corrupt one: recovery
\* by a reader is outside the user's lock.
OnlyWritersRecover == DocAtBoot \/ Readers = {}

ReadersOnlyRead == \A p \in Readers : pc[p] \in {"idle", "exists", "read"}

\* Where a writer holds its user's lock.
Critical == Steps \ {"idle", "userlock"}

\* The mutations behind a binding of the name.
Applied(i) == IF i # NoFile /\ content[i].parses THEN content[i].applied ELSE {}

\* What w is about to publish: the published document with its own mutation,
\* or without, in place of a corrupt one.
Extends(w, doc) ==
  /\ doc.parses
  /\ doc.applied = IF recovering[w] THEN Applied(path) ELSE Applied(path) \cup {Current(w)}

Working(w) ==
  /\ pc[w] = "backup" => ~PublishedFileParses
  /\ pc[w] = "mutate" => buf[w].parses /\ buf[w].applied = Applied(path)
  /\ pc[w] = "stage" => Extends(w, buf[w])
  /\ pc[w] = "replace" => tmp[w] \in Inodes /\ tmp[w] \in synced /\ Extends(w, content[tmp[w]])
  /\ pc[w] = "fsync" /\ ~recovering[w] => Current(w) \in Applied(path)
  /\ recovering[w] => /\ pc[w] \in {"stage", "replace", "fsync"}
                      /\ buf[w].parses /\ buf[w].applied = Applied(path)

\* What one user's lock gives: the writer in the critical section works on the
\* published document, so what it publishes extends it by its own mutation.
AcksInv ==
  /\ path \in onDisk
  /\ \A w \in Writers : pc[w] \in Critical => userLock[UidOf[w]] = w
  /\ \A i \in onDisk : /\ acked \subseteq Applied(i) /\ Applied(i) \subseteq Applied(path)
                       /\ i # NoFile /\ content[i].parses => i \in synced
  /\ \A w \in Writers : Working(w)

LEMMA IdleWorks ==
  ASSUME NEW w, pc[w] \notin Critical, ~recovering[w]
  PROVE  Working(w)
BY DEF Critical, Steps, Working

LEMMA InitAcks == Init => AcksInv
<1> SUFFICES ASSUME Init PROVE AcksInv
  OBVIOUS
<1>1. \A w \in Writers : pc[w] = "idle" /\ ~recovering[w]
  BY DEF Init, Procs
<1>2. onDisk = {path} /\ acked = {}
  BY DEF Init
<1>3. path # NoFile /\ content[path].parses => path \in synced
  BY DEF Init
<1> QED BY <1>1, <1>2, <1>3, IdleWorks DEF AcksInv, Critical

\* At most one writer is past the user lock.
LEMMA OneCritical ==
  ASSUME OneUserOnly, TypeOK, AcksInv, NEW v \in Writers, NEW w \in Writers,
         pc[v] \in Critical, pc[w] \in Critical
  PROVE  v = w
BY DEF OneUserOnly, AcksInv

\* The others are outside, and stay there.
LEMMA OthersIdle ==
  ASSUME OneUserOnly, TypeOK, AcksInv, NEW p \in Writers, pc[p] \in Critical,
         \A q \in Procs \ {p} : pc'[q] = pc[q] /\ recovering'[q] = recovering[q]
  PROVE  \A w \in Writers \ {p} : pc'[w] \notin Critical /\ Working(w)'
<1> SUFFICES ASSUME NEW w \in Writers \ {p}
             PROVE  pc'[w] \notin Critical /\ Working(w)'
  OBVIOUS
<1>1. pc[w] \notin Critical /\ Working(w)
  BY OneCritical DEF AcksInv
<1>2. ~recovering[w]
  BY <1>1 DEF Working, Critical, Steps
<1>3. pc'[w] \notin Critical /\ ~recovering'[w]
  BY <1>1, <1>2 DEF Procs
<1>4. Working(w)'
  BY <1>3 DEF Critical, Steps, Working
<1> QED BY <1>3, <1>4

\* A step of p that leaves the files, the lock and acked alone, keeps the other
\* callers as they are, and does not let p into the critical section.
LEMMA AcksLocal ==
  ASSUME TypeOK, AcksInv, UNCHANGED <<fileVars, userLock, acked>>, NEW p \in Procs,
         \A q \in Procs \ {p} : /\ pc'[q] = pc[q] /\ tmp'[q] = tmp[q] /\ buf'[q] = buf[q]
                                /\ started'[q] = started[q] /\ recovering'[q] = recovering[q],
         p \in Writers => /\ pc'[p] \in Critical => pc[p] \in Critical
                          /\ Working(p)'
  PROVE  AcksInv'
<1>1. UNCHANGED <<path, content, synced, onDisk, userLock, acked>>
  BY DEF fileVars
<1>2. ASSUME NEW w \in Writers PROVE Working(w)'
  <2>1. CASE w = p
    BY <2>1
  <2>2. CASE w # p
    <3>1. /\ pc'[w] = pc[w] /\ tmp'[w] = tmp[w] /\ buf'[w] = buf[w]
          /\ recovering'[w] = recovering[w] /\ Current(w)' = Current(w)
      BY <2>2 DEF Current, Procs
    <3>2. Working(w)
      BY DEF AcksInv
    <3> QED BY <1>1, <3>1, <3>2 DEF Working, Extends, Applied, PublishedFileParses
  <2> QED BY <2>1, <2>2
<1>3. ASSUME NEW w \in Writers, pc'[w] \in Critical PROVE userLock'[UidOf[w]] = w
  <2>1. pc[w] \in Critical
    BY <1>3 DEF Procs
  <2> QED BY <2>1, <1>1 DEF AcksInv
<1> QED BY <1>1, <1>2, <1>3 DEF AcksInv, Applied

LEMMA NextAcks ==
  ASSUME OneUserOnly
  PROVE  TypeOK /\ ReadersOnlyRead /\ AcksInv /\ [Next]_vars => AcksInv'
<1> SUFFICES ASSUME TypeOK, ReadersOnlyRead, AcksInv, [Next]_vars PROVE AcksInv'
  OBVIOUS
<1>a. /\ pc \in [Procs -> Steps] /\ tmp \in [Procs -> Inodes \cup {NoFile}]
      /\ buf \in [Procs -> Content] /\ started \in [Procs -> 0..MaxOps]
      /\ userLock \in [Uids -> Procs \cup {NoProc}] /\ content \in [Inodes -> Content]
      /\ recovering \in [Procs -> BOOLEAN] /\ path \in Inodes \cup {NoFile}
  BY DEF TypeOK
<1>b. \A p \in Procs : p \in Writers \/ pc[p] \in {"idle", "exists", "read"}
  BY DEF ReadersOnlyRead, Procs
<1>c. \A w \in Writers : HasUid(w) /\ UidOf[w] \in Uids
  BY ConstantsAssumption DEF OneUserOnly, HasUid
<1>d. \A w \in Writers : Working(w) /\ w \in Procs
  BY DEF AcksInv, Procs
<1>e. \A i \in onDisk : acked \subseteq Applied(i) /\ Applied(i) \subseteq Applied(path)
  BY DEF AcksInv
<1>1. ASSUME NEW p \in Procs, BeginMutate(p) PROVE AcksInv'
  <2>1. pc' = [pc EXCEPT ![p] = "userlock"] /\ p \in Writers /\ pc[p] = "idle"
    BY <1>1, <1>c DEF BeginMutate, Goto
  <2>2. Working(p)'
    BY <1>1, <2>1, <1>a, <1>d DEF BeginMutate, Working
  <2> QED BY <1>1, <2>1, <2>2, <1>a, AcksLocal DEF BeginMutate, Critical, lockVars
<1>2. ASSUME NEW p \in Procs, BeginLoad(p) PROVE AcksInv'
  <2>1. p \notin Writers
    BY <1>2, ConstantsAssumption DEF BeginLoad
  <2> QED BY <1>2, <2>1, <1>a, AcksLocal DEF BeginLoad, Goto, lockVars
<1>3. ASSUME NEW p \in Procs, LockUser(p) PROVE AcksInv'
  <2>1. p \in Writers
    BY <1>3, <1>b DEF LockUser
  <2>2. \A w \in Writers : pc[w] \notin Critical
    BY <1>3, <2>1, ConstantsAssumption DEF LockUser, AcksInv, OneUserOnly, Procs
  <2>3. userLock'[UidOf[p]] = p
    BY <1>3, <1>a, <1>c, <2>1 DEF LockUser
  <2>4. ASSUME NEW w \in Writers PROVE (pc'[w] \in Critical => w = p) /\ Working(w)'
    <3>1. ~recovering[w]
      BY <2>2, <1>d DEF Working, Critical, Steps
    <3> QED BY <1>3, <1>a, <1>d, <2>2, <3>1 DEF LockUser, Goto, Critical, Steps, Working
  <2> QED BY <1>3, <2>3, <2>4 DEF LockUser, AcksInv, fileVars, Applied
<1>4. ASSUME NEW p \in Procs, OpenState(p) PROVE AcksInv'
  <2>1. p \in Writers /\ pc[p] \in Critical /\ pc[p] = "open" /\ pc' = [pc EXCEPT ![p] = "flock"]
    BY <1>4, <1>b DEF OpenState, Goto, Critical, Steps
  <2>2. UNCHANGED <<userLock, acked, tmp, buf, recovering, started>>
    BY <1>4 DEF OpenState, lockVars
  <2>3. Working(p)'
    BY <2>1, <2>2, <1>a, <1>d DEF Working
  <2>4. CASE path # NoFile
    <3>1. UNCHANGED fileVars
      BY <1>4, <2>4 DEF OpenState
    <3> QED BY <2>1, <2>2, <2>3, <3>1, <1>a, AcksLocal
  <2>5. CASE path = NoFile
    <3> DEFINE n == NewInode
    <3>1. /\ path' = n /\ content' = [content EXCEPT ![n] = Unparsable]
          /\ onDisk' = onDisk \cup {n} /\ synced' = synced /\ n \in Inodes /\ n \notin onDisk
      BY <1>4, <2>5, NewInodeIsFree DEF OpenState
    <3> HIDE DEF n
    <3>2. ~content'[n].parses /\ \A i \in Inodes \ {n} : content'[i] = content[i]
      BY <3>1, <1>a DEF Unparsable
    <3>3. acked = {} /\ \A i \in onDisk : Applied(i) = {}
      BY <2>5, <1>e DEF AcksInv, Applied
    <3>4. \A i \in onDisk : i = NoFile \/ content'[i] = content[i]
      BY <3>1, <3>2 DEF TypeOK
    <3>5. \A i \in onDisk' : /\ i = n \/ (i \in onDisk /\ i # n)
                             /\ i # NoFile /\ content'[i].parses => content'[i].applied = {}
                             /\ i # NoFile /\ content'[i].parses => i \in synced'
      BY <3>1, <3>2, <3>3, <3>4 DEF Applied, AcksInv
    <3>6. \A w \in Writers \ {p} : pc'[w] \notin Critical /\ Working(w)'
      BY <2>1, <2>2, <1>a, OthersIdle
    <3>7. userLock'[UidOf[p]] = p
      BY <2>1, <2>2 DEF AcksInv
    <3> QED BY <2>2, <2>3, <3>1, <3>3, <3>5, <3>6, <3>7 DEF AcksInv, Applied
  <2> QED BY <2>4, <2>5
<1>5. ASSUME NEW p \in Procs, AcquireFlock(p) PROVE AcksInv'
  <2>1. p \in Writers /\ pc[p] = "flock" /\ pc' = [pc EXCEPT ![p] = "exists"]
    BY <1>5, <1>b DEF AcquireFlock, Goto
  <2>2. Working(p)'
    BY <1>5, <2>1, <1>a, <1>d DEF AcquireFlock, Working
  <2> QED BY <1>5, <2>1, <2>2, <1>a, AcksLocal DEF AcquireFlock, Critical, Steps
<1>6. ASSUME NEW p \in Procs, CheckExists(p) PROVE AcksInv'
  <2>1. CASE path = NoFile /\ p \in Writers
    <3>1. /\ pc[p] = "exists" /\ pc' = [pc EXCEPT ![p] = "mutate"]
          /\ buf' = [buf EXCEPT ![p] = FreshDoc]
          /\ UNCHANGED <<fileVars, lockVars, tmp, recovering, started, acked>>
      BY <1>6, <2>1 DEF CheckExists, Goto
    <3>2. ~recovering[p] /\ Applied(path)' = {}
      BY <2>1, <3>1, <1>d DEF Working, Applied, fileVars
    <3>3. Working(p)'
      BY <3>1, <3>2, <1>a DEF Working, FreshDoc, Doc
    <3> QED BY <2>1, <3>1, <3>3, <1>a, AcksLocal DEF lockVars, Critical, Steps
  <2>2. CASE path # NoFile /\ p \in Writers
    <3>1. /\ pc[p] = "exists" /\ pc' = [pc EXCEPT ![p] = "read"]
          /\ UNCHANGED <<fileVars, lockVars, buf, tmp, recovering, started, acked>>
      BY <1>6, <2>2 DEF CheckExists, Goto
    <3>2. Working(p)'
      BY <2>2, <3>1, <1>a, <1>d DEF Working
    <3> QED BY <2>2, <3>1, <3>2, <1>a, AcksLocal DEF lockVars, Critical, Steps
  <2>3. CASE p \notin Writers
    BY <1>6, <2>3, <1>a, AcksLocal DEF CheckExists, Goto, lockVars
  <2> QED BY <2>1, <2>2, <2>3
<1>7. ASSUME NEW p \in Procs, ReadFile(p) PROVE AcksInv'
  <2>1. /\ pc[p] = "read" /\ UNCHANGED <<fileVars, lockVars, tmp, recovering, started, acked>>
        /\ \A q \in Procs \ {p} : pc'[q] = pc[q] /\ buf'[q] = buf[q]
    BY <1>7, <1>a DEF ReadFile, Goto
  <2>2. ASSUME p \in Writers PROVE Working(p)'
    <3>1. ~recovering'[p]
      BY <2>1, <2>2, <1>d DEF Working
    <3>2. CASE path = NoFile
      BY <1>7, <2>2, <3>1, <3>2, <1>a DEF ReadFile, Goto, AfterError, Working
    <3>3. CASE path # NoFile /\ ~content[path].parses
      BY <1>7, <2>1, <2>2, <3>1, <3>3, <1>a
         DEF ReadFile, Goto, Working, PublishedFileParses, fileVars
    <3>4. CASE path # NoFile /\ content[path].parses
      <4>1. pc'[p] = "mutate" /\ buf'[p] = content[path]
        BY <1>7, <2>2, <3>4, <1>a DEF ReadFile, Goto
      <4>2. Applied(path)' = content[path].applied
        BY <2>1, <3>4 DEF Applied, fileVars
      <4> QED BY <3>1, <3>4, <4>1, <4>2 DEF Working
    <3> QED BY <3>2, <3>3, <3>4
  <2> QED BY <2>1, <2>2, AcksLocal DEF lockVars, Critical, Steps
<1>8. ASSUME NEW p \in Procs, BackupCorrupt(p) PROVE AcksInv'
  <2>1. p \in Writers /\ pc[p] = "backup" /\ pc[p] \in Critical
    BY <1>8, <1>b DEF BackupCorrupt, Critical, Steps
  <2>2. ~recovering[p] /\ ~PublishedFileParses
    BY <2>1, <1>d DEF Working
  <2>3. /\ UNCHANGED <<content, synced, lockVars, fd, tmp, started, acked>>
        /\ \A q \in Procs \ {p} : /\ pc'[q] = pc[q] /\ buf'[q] = buf[q]
                                  /\ recovering'[q] = recovering[q]
    BY <1>8, <1>a DEF BackupCorrupt, Goto
  <2>4. CASE path = NoFile
    <3>1. /\ pc' = [pc EXCEPT ![p] = "unlock"] /\ UNCHANGED <<path, onDisk, buf, recovering>>
      BY <1>8, <2>1, <2>4 DEF BackupCorrupt, AfterError, Goto
    <3>2. Working(p)'
      BY <2>2, <3>1, <1>a DEF Working
    <3> QED BY <2>1, <2>3, <3>1, <3>2, <1>a, AcksLocal DEF fileVars, lockVars
  <2>5. CASE path # NoFile
    <3>1. /\ path' = NoFile /\ onDisk' = onDisk \cup {NoFile}
          /\ buf'[p] = Doc({}, TRUE) /\ recovering'[p] /\ pc'[p] = "stage"
      BY <1>8, <2>1, <2>5, <1>a DEF BackupCorrupt, Goto
    <3>2. acked = {} /\ \A i \in onDisk : Applied(i) = {}
      BY <2>2, <1>e DEF AcksInv, Applied, PublishedFileParses
    <3>3. Applied(path)' = {} /\ \A i \in onDisk' : Applied(i)' = {}
      BY <2>3, <3>1, <3>2 DEF Applied
    <3>4. Working(p)'
      BY <3>1, <3>3 DEF Working, Extends, Doc
    <3>5. \A w \in Writers \ {p} : pc'[w] \notin Critical /\ Working(w)'
      BY <2>1, <2>3, OthersIdle
    <3>6. userLock'[UidOf[p]] = p
      BY <2>1, <2>3 DEF AcksInv, lockVars
    <3>7. \A i \in onDisk' : i # NoFile /\ content'[i].parses => i \in synced'
      BY <2>3, <3>1 DEF AcksInv
    <3> QED BY <2>3, <3>1, <3>2, <3>3, <3>4, <3>5, <3>6, <3>7 DEF AcksInv
  <2> QED BY <2>4, <2>5
<1>9. ASSUME NEW p \in Procs, Mutate(p) PROVE AcksInv'
  <2>1. /\ p \in Writers /\ pc[p] = "mutate" /\ pc' = [pc EXCEPT ![p] = "stage"]
        /\ buf' = [buf EXCEPT ![p] = Doc(@.applied \cup {Current(p)}, @.recovered)]
        /\ UNCHANGED <<fileVars, lockVars, tmp, recovering, started, acked>>
    BY <1>9 DEF Mutate, Goto
  <2>2. buf[p].applied = Applied(path) /\ ~recovering[p]
    BY <2>1, <1>d DEF Working
  <2>3. buf'[p].parses /\ buf'[p].applied = Applied(path) \cup {Current(p)}
    BY <2>1, <2>2, <1>a DEF Doc
  <2>4. Applied(path)' = Applied(path) /\ Current(p)' = Current(p)
    BY <2>1 DEF Applied, Current, fileVars
  <2>5. Working(p)'
    BY <2>1, <2>2, <2>3, <2>4, <1>a DEF Working, Extends
  <2> QED BY <2>1, <2>5, <1>a, AcksLocal DEF lockVars, Critical, Steps
<1>10. ASSUME NEW p \in Procs, MutatorRaises(p) PROVE AcksInv'
  <2>1. p \in Writers /\ pc[p] = "mutate" /\ pc' = [pc EXCEPT ![p] = "unlock"]
    BY <1>10 DEF MutatorRaises, Goto
  <2>2. Working(p)'
    BY <1>10, <2>1, <1>a, <1>d DEF MutatorRaises, Working
  <2> QED BY <1>10, <2>1, <2>2, <1>a, AcksLocal DEF MutatorRaises, lockVars, Critical, Steps
<1>11. ASSUME NEW p \in Procs, StageTemp(p) PROVE AcksInv'
  <2> DEFINE n == NewInode
  <2>1. n \in Inodes /\ n # path /\ n \notin onDisk
    BY <1>11, NewInodeIsFree DEF StageTemp
  <2>2. /\ pc' = [pc EXCEPT ![p] = "replace"] /\ tmp' = [tmp EXCEPT ![p] = n]
        /\ content' = [content EXCEPT ![n] = buf[p]] /\ synced' = synced \cup {n}
        /\ UNCHANGED <<path, onDisk, buf, recovering, started, userLock, acked>> /\ pc[p] = "stage"
    BY <1>11 DEF StageTemp, Goto, lockVars
  <2>3. content'[n] = buf[p] /\ \A i \in Inodes \ {n} : content'[i] = content[i]
    BY <2>1, <2>2, <1>a
  <2> HIDE DEF n
  <2>4. p \in Writers /\ pc[p] \in Critical
    BY <2>2, <1>b DEF Critical, Steps
  <2>5. \A i \in onDisk : i = NoFile \/ content'[i] = content[i]
    BY <2>1, <2>3 DEF TypeOK
  <2>6. Applied(path)' = Applied(path) /\ \A i \in onDisk : Applied(i)' = Applied(i)
    BY <2>2, <2>5 DEF Applied, AcksInv
  <2>7. Current(p)' = Current(p)
    BY <2>2 DEF Current
  <2>8. Working(p)'
    <3>1. Extends(p, buf[p])
      BY <2>2, <2>4, <1>d DEF Working
    <3>2. /\ pc'[p] = "replace" /\ tmp'[p] = n /\ recovering'[p] = recovering[p]
          /\ buf'[p] = buf[p]
      BY <2>2, <1>a
    <3>3. Extends(p, buf[p])'
      BY <2>6, <2>7, <3>1, <3>2 DEF Extends
    <3>4. recovering[p] => buf[p].parses /\ buf[p].applied = Applied(path)
      BY <2>4, <1>d DEF Working
    <3> QED BY <2>1, <2>2, <2>3, <2>6, <3>2, <3>3, <3>4 DEF Working, Extends
  <2>9. \A w \in Writers \ {p} : pc'[w] \notin Critical /\ Working(w)'
    BY <2>2, <2>4, <1>a, OthersIdle
  <2>10. userLock'[UidOf[p]] = p
    BY <2>2, <2>4 DEF AcksInv
  <2>11. \A i \in onDisk' : i # NoFile /\ content'[i].parses => i \in synced'
    BY <2>2, <2>5 DEF AcksInv
  <2> QED BY <2>2, <2>6, <2>8, <2>9, <2>10, <2>11 DEF AcksInv
<1>12. ASSUME NEW p \in Procs, ReplaceFile(p) PROVE AcksInv'
  <2>1. /\ path' = tmp[p] /\ onDisk' = onDisk \cup {tmp[p]}
        /\ UNCHANGED <<content, synced, buf, recovering, started, userLock, acked>>
        /\ pc[p] = "replace" /\ pc' = [pc EXCEPT ![p] = "fsync"]
    BY <1>12 DEF ReplaceFile, Goto, lockVars
  <2>2. p \in Writers /\ pc[p] \in Critical
    BY <2>1, <1>b DEF Critical, Steps
  <2>3. tmp[p] \in Inodes /\ tmp[p] \in synced /\ Extends(p, content[tmp[p]])
    BY <2>1, <2>2, <1>d DEF Working
  <2>4. Applied(path)' = content[tmp[p]].applied /\ \A i \in onDisk : Applied(i)' = Applied(i)
    BY <2>1, <2>3, ConstantsAssumption DEF Applied, Extends
  <2>5. Applied(path) \subseteq Applied(path)' /\ acked \subseteq Applied(path)
    BY <2>3, <2>4, <1>e DEF Extends, AcksInv
  <2>6. \A i \in onDisk' : /\ acked' \subseteq Applied(i)' /\ Applied(i)' \subseteq Applied(path)'
                           /\ i # NoFile /\ content'[i].parses => i \in synced'
    <3>1. ASSUME NEW i \in onDisk' PROVE i \in onDisk \/ i = path'
      BY <2>1
    <3>2. Applied(path') = Applied(tmp[p])
      BY <2>1
    <3>3. \A i : Applied(i)' = Applied(i)
      BY <2>1 DEF Applied
    <3> QED BY <2>1, <2>3, <2>4, <2>5, <3>1, <3>3, <1>e DEF AcksInv
  <2>7. Working(p)'
    <3>1. Current(p)' = Current(p) /\ pc'[p] = "fsync"
      BY <2>1, <1>a DEF Current
    <3>2. recovering[p] => buf[p].parses /\ buf[p].applied = Applied(path)
      BY <2>2, <1>d DEF Working
    <3> QED BY <2>1, <2>3, <2>4, <3>1, <3>2 DEF Working, Extends
  <2>8. \A w \in Writers \ {p} : pc'[w] \notin Critical /\ Working(w)'
    BY <2>1, <2>2, <1>a, OthersIdle
  <2>9. userLock'[UidOf[p]] = p
    BY <2>1, <2>2 DEF AcksInv
  <2> QED BY <2>1, <2>6, <2>7, <2>8, <2>9 DEF AcksInv
<1>13. ASSUME NEW p \in Procs, FsyncDir(p) PROVE AcksInv'
  <2>1. /\ onDisk' = {path} /\ pc[p] = "fsync"
        /\ pc' = [pc EXCEPT ![p] = IF p \in Writers /\ recovering[p] THEN "mutate" ELSE "unlock"]
        /\ recovering' = [recovering EXCEPT ![p] = FALSE]
        /\ UNCHANGED <<path, content, synced, buf, started, userLock>>
        /\ acked' = IF p \in Writers /\ ~recovering[p] THEN acked \cup {Current(p)} ELSE acked
    BY <1>13 DEF FsyncDir, Goto, lockVars
  <2>2. p \in Writers /\ pc[p] \in Critical
    BY <2>1, <1>b DEF Critical, Steps
  <2>3. \A i : Applied(i)' = Applied(i)
    BY <2>1 DEF Applied
  <2>4. Applied(path)' = Applied(path)
    BY <2>1 DEF Applied
  <2>5. acked' \subseteq Applied(path)
    BY <2>1, <2>2, <1>d, <1>e DEF Working, AcksInv
  <2>6. Working(p)'
    BY <2>1, <2>2, <2>4, <1>a, <1>d DEF Working
  <2>7. \A w \in Writers \ {p} : pc'[w] \notin Critical /\ Working(w)'
    BY <2>1, <2>2, <1>a, OthersIdle
  <2>8. userLock'[UidOf[p]] = p
    BY <2>1, <2>2 DEF AcksInv
  <2> QED BY <2>1, <2>3, <2>4, <2>5, <2>6, <2>7, <2>8 DEF AcksInv
<1>14. ASSUME NEW p \in Procs, SaveFails(p) PROVE AcksInv'
  <2>1. p \in Writers /\ pc[p] \in Critical
    BY <1>14, <1>b DEF SaveFails, Critical, Steps
  <2>2. Working(p)'
    BY <1>14, <2>1, <1>a DEF SaveFails, Goto, Working
  <2> QED BY <1>14, <2>1, <2>2, <1>a, AcksLocal DEF SaveFails, Goto, lockVars
<1>15. ASSUME NEW p \in Procs, Unlock(p) PROVE AcksInv'
  <2>1. p \in Writers /\ pc[p] \in Critical
    BY <1>15, <1>b DEF Unlock, Critical, Steps
  <2>2. Working(p)'
    BY <1>15, <2>1, <1>a, <1>c, <1>d DEF Unlock, Goto, Working
  <2> QED BY <1>15, <2>1, <2>2, <1>a, AcksLocal DEF Unlock, Goto
<1>16. ASSUME NEW p \in Procs, UnlockUser(p) PROVE AcksInv'
  <2>1. p \in Writers /\ pc[p] \in Critical
    BY <1>16, <1>b DEF UnlockUser, Critical, Steps
  <2>2. /\ pc' = [pc EXCEPT ![p] = "idle"]
        /\ UNCHANGED <<fileVars, buf, tmp, recovering, started, acked>>
    BY <1>16 DEF UnlockUser, Goto
  <2>3. \A w \in Writers \ {p} : pc'[w] \notin Critical /\ Working(w)'
    BY <2>1, <2>2, <1>a, OthersIdle
  <2>4. pc'[p] \notin Critical /\ Working(p)'
    BY <1>16, <2>1, <2>2, <1>a, <1>d DEF UnlockUser, Critical, Working
  <2> QED BY <2>2, <2>3, <2>4 DEF AcksInv, fileVars, Applied
<1>17. ASSUME NEW p \in Procs, Crash(p) PROVE AcksInv'
  <2>1. /\ UNCHANGED <<fileVars, buf, started, acked>>
        /\ pc' = [pc EXCEPT ![p] = "idle"] /\ tmp' = [tmp EXCEPT ![p] = NoFile]
        /\ recovering' = [recovering EXCEPT ![p] = FALSE] /\ userLock' = ReleaseUser(p)
    BY <1>17 DEF Crash, Goto
  <2>2. ASSUME NEW w \in Writers, pc'[w] \in Critical PROVE userLock'[UidOf[w]] = w
    <3>1. w # p /\ pc'[w] = pc[w]
      BY <2>1, <2>2, <1>a DEF Critical, Procs
    <3>2. userLock[UidOf[w]] = w /\ UidOf[w] \in Uids
      BY <2>2, <3>1, <1>c DEF AcksInv
    <3> QED BY <2>1, <3>1, <3>2 DEF ReleaseUser
  <2>3. ASSUME NEW w \in Writers PROVE Working(w)'
    <3>1. CASE w = p
      BY <2>1, <3>1, <1>a DEF Working
    <3>2. CASE w # p
      <4>1. /\ pc'[w] = pc[w] /\ tmp'[w] = tmp[w] /\ buf'[w] = buf[w]
            /\ recovering'[w] = recovering[w] /\ Current(w)' = Current(w)
        BY <2>1, <3>2, <1>a DEF Current, Procs
      <4>2. path' = path /\ content' = content /\ synced' = synced
        BY <2>1 DEF fileVars
      <4>3. Working(w)
        BY <1>d
      <4> QED BY <4>1, <4>2, <4>3 DEF Working, Extends, Applied, PublishedFileParses
    <3> QED BY <3>1, <3>2
  <2> QED BY <2>1, <2>2, <2>3 DEF AcksInv, fileVars, Applied
<1>18. ASSUME PowerCut PROVE AcksInv'
  <2>1. /\ path' \in onDisk /\ onDisk' = {path'} /\ acked' = acked /\ synced' = synced
        /\ \A w \in Writers : pc'[w] = "idle" /\ ~recovering'[w]
        /\ content' = [i \in Inodes |-> IF i \in synced THEN content[i] ELSE Unparsable]
    BY <1>18 DEF PowerCut, Procs
  <2>2. path' \in Inodes \cup {NoFile}
    BY <2>1 DEF TypeOK
  <2>3. /\ Applied(path)' = Applied(path')
        /\ path' # NoFile /\ content'[path'].parses => path' \in synced
    BY <2>1, <2>2 DEF Applied, AcksInv, Unparsable
  <2>4. \A w \in Writers : Working(w)' /\ pc'[w] \notin Critical
    BY <2>1 DEF Working, Critical
  <2>5. acked \subseteq Applied(path')
    BY <2>1, <1>e
  <2> QED BY <2>1, <2>3, <2>4, <2>5 DEF AcksInv
<1>19. ASSUME UNCHANGED vars PROVE AcksInv'
  BY <1>19 DEF vars, fileVars, lockVars, procVars, AcksInv, Current, Working, Extends, Applied,
               PublishedFileParses
<1> QED
  BY <1>1, <1>2, <1>3, <1>4, <1>5, <1>6, <1>7, <1>8, <1>9, <1>10, <1>11, <1>12, <1>13,
     <1>14, <1>15, <1>16, <1>17, <1>18, <1>19 DEF Next, Progress, Finished

\* The invariant of one user's writers.
OneUserInv == TypeOK /\ (GoodInv \/ Readers = {}) /\ AcksInv

LEMMA OneUserReads == OneUserInv => ReadersOnlyRead
BY DEF OneUserInv, GoodInv, ReadersOnlyRead

LEMMA OneUserAlways ==
  ASSUME OnlyWritersRecover, OneUserOnly PROVE Spec => []OneUserInv
<1>1. Init => OneUserInv
  BY InitTypeOK, InitGood, InitAcks DEF OneUserInv, OnlyWritersRecover
<1>2. OneUserInv /\ [Next]_vars => OneUserInv'
  BY OneUserReads, NextTypeOK, NextGood, NextAcks DEF OneUserInv
<1> QED
  BY <1>1, <1>2, PTL DEF Spec

\* When all writers act for one user, the published document contains every
\* acknowledged mutation, for any number of callers and at any point of any
\* interleaving, kill or power cut, also while a corrupt file is replaced
\* (mutate_user_state, _atomic_write_unlocked, _backup_corrupt).
THEOREM OneUserLosesNothing ==
  ASSUME OnlyWritersRecover, OneUserOnly PROVE Spec => []AcknowledgedSurvive
<1>1. OneUserInv => AcknowledgedSurvive
  BY DEF OneUserInv, AcksInv, Applied, AcknowledgedSurvive, Published
<1> QED
  BY <1>1, OneUserAlways, PTL

\* One user's writers move only a corrupt file away, whatever the file was at
\* boot (_backup_corrupt).
THEOREM RecoveryMovesOnlyCorrupt ==
  ASSUME OnlyWritersRecover, OneUserOnly PROVE Spec => NoGoodFileQuarantined
<1>1. OneUserInv /\ [Next]_vars
        => [\A p \in Procs : ~recovering[p] /\ recovering'[p] => ~PublishedFileParses]_vars
  <2> SUFFICES ASSUME OneUserInv, [Next]_vars, NEW p \in Procs, ~recovering[p], recovering'[p]
               PROVE  ~PublishedFileParses
    OBVIOUS
  <2>1. recovering \in [Procs -> BOOLEAN] /\ ReadersOnlyRead
    BY OneUserReads DEF OneUserInv, TypeOK
  <2>2. PICK q \in Procs : BackupCorrupt(q)
    BY <2>1 DEF Next, Progress, Finished, BeginMutate, BeginLoad, LockUser, OpenState, AcquireFlock,
                CheckExists, ReadFile, Mutate, MutatorRaises, StageTemp, ReplaceFile, FsyncDir,
                SaveFails, Unlock, UnlockUser, Crash, PowerCut, vars, procVars
  <2>3. q \in Writers /\ pc[q] = "backup"
    BY <2>1, <2>2 DEF BackupCorrupt, ReadersOnlyRead, Procs
  <2> QED BY <2>3 DEF OneUserInv, AcksInv, Working
<1> QED
  BY <1>1, OneUserAlways, PTL DEF Spec, NoGoodFileQuarantined

-----------------------------------------------------------------------------
(* The refinement of AtomicStore. *)

LEMMA PublishedIsApplied == Published = Applied(path)
BY DEF Published, Applied

LEMMA InitRefines == Init => Store!AInit
BY FirstInodeType DEF Init, Store!AInit, Published, FreshDoc, Doc, Unparsable

LEMMA NextRefines ==
  ASSUME OneUserOnly
  PROVE  OneUserInv /\ OneUserInv' /\ [Next]_vars => [Store!ANext]_(Store!avars)
<1> SUFFICES ASSUME OneUserInv, OneUserInv', [Next]_vars
             PROVE  [Store!ANext]_(Store!avars)
  OBVIOUS
<1>a. /\ path \in Inodes \cup {NoFile} /\ content \in [Inodes -> Content]
      /\ pc \in [Procs -> Steps] /\ started \in [Procs -> 0..MaxOps] /\ ReadersOnlyRead
  BY OneUserReads DEF OneUserInv, TypeOK
<1>b. \A w \in Writers : Working(w)
  BY DEF OneUserInv, AcksInv
<1>c. ASSUME NEW p \in Procs, pc[p] \in {"open", "backup", "replace", "fsync"}
      PROVE  p \in Writers /\ Working(p) /\ Current(p) \in Updates
  BY <1>a, <1>b, <1>c DEF ReadersOnlyRead, Procs, Current, Updates
<1>d. ASSUME path' = path, content' = content, acked' = acked PROVE UNCHANGED Store!avars
  BY <1>d DEF Published, Store!avars
<1>1. ASSUME NEW p \in Procs,
             BeginMutate(p) \/ BeginLoad(p) \/ LockUser(p) \/ AcquireFlock(p)
               \/ CheckExists(p) \/ ReadFile(p)
      PROVE  UNCHANGED Store!avars
  BY <1>1, <1>d
     DEF BeginMutate, BeginLoad, LockUser, AcquireFlock, CheckExists, ReadFile, fileVars
<1>2. ASSUME NEW p \in Procs,
             Mutate(p) \/ MutatorRaises(p) \/ SaveFails(p) \/ Unlock(p)
               \/ UnlockUser(p) \/ Crash(p)
      PROVE  UNCHANGED Store!avars
  BY <1>2, <1>d
     DEF Mutate, MutatorRaises, SaveFails, Unlock, UnlockUser, Crash, fileVars
<1>3. ASSUME NEW p \in Procs, OpenState(p) PROVE UNCHANGED Store!avars
  <2>1. CASE path # NoFile
    BY <1>3, <2>1, <1>d DEF OpenState, fileVars
  <2>2. CASE path = NoFile
    <3>1. /\ path' = NewInode /\ content' = [content EXCEPT ![NewInode] = Unparsable]
          /\ acked' = acked /\ NewInode \in Inodes
      BY <1>3, <2>2, NewInodeIsFree DEF OpenState
    <3>2. ~content'[path'].parses
      BY <3>1, <1>a DEF Unparsable
    <3>3. Published = {} /\ Published' = {}
      BY <2>2, <3>2 DEF Published
    <3> QED BY <3>1, <3>3 DEF Store!avars
  <2> QED BY <2>1, <2>2
<1>4. ASSUME NEW p \in Procs, BackupCorrupt(p) PROVE UNCHANGED Store!avars
  <2>1. ~PublishedFileParses
    BY <1>4, <1>c DEF BackupCorrupt, Working
  <2>2. path' \in {path, NoFile} /\ content' = content /\ acked' = acked
    BY <1>4 DEF BackupCorrupt
  <2>3. Published = {} /\ Published' = {}
    BY <2>1, <2>2 DEF Published, PublishedFileParses
  <2> QED BY <2>2, <2>3 DEF Store!avars
<1>5. ASSUME NEW p \in Procs, StageTemp(p) PROVE UNCHANGED Store!avars
  <2>1. NewInode # path
    BY <1>5, NewInodeIsFree DEF StageTemp
  <2>2. path' = path /\ acked' = acked /\ (path # NoFile => content'[path] = content[path])
    BY <1>5, <1>a, <2>1 DEF StageTemp
  <2> QED BY <2>2 DEF Published, Store!avars
<1>6. ASSUME NEW p \in Procs, ReplaceFile(p)
      PROVE  UNCHANGED Store!avars \/ Store!Apply(Current(p))
  <2>1. /\ path' = tmp[p] /\ content' = content /\ acked' = acked /\ pc[p] = "replace"
    BY <1>6 DEF ReplaceFile
  <2>2. tmp[p] \in Inodes /\ Extends(p, content[tmp[p]])
    BY <2>1, <1>c DEF Working
  <2>3. Published' = content[tmp[p]].applied
    BY <2>1, <2>2, ConstantsAssumption DEF Published, Extends
  <2>4. Published' = Published \/ Published' = Published \cup {Current(p)}
    BY <2>2, <2>3, PublishedIsApplied DEF Extends
  <2> QED BY <2>1, <2>4 DEF Store!Apply, Store!avars
<1>7. ASSUME NEW p \in Procs, FsyncDir(p)
      PROVE  UNCHANGED Store!avars \/ Store!Ack(Current(p))
  <2>1. /\ path' = path /\ content' = content /\ pc[p] = "fsync"
        /\ acked' = IF p \in Writers /\ ~recovering[p] THEN acked \cup {Current(p)} ELSE acked
    BY <1>7 DEF FsyncDir
  <2>2. Published' = Published
    BY <2>1 DEF Published
  <2>3. ~recovering[p] => Current(p) \in Published
    BY <2>1, <1>c, PublishedIsApplied DEF Working
  <2> QED BY <2>1, <2>2, <2>3 DEF Store!Ack, Store!avars
<1>8. ASSUME PowerCut PROVE Store!Revert
  <2>1. path' \in onDisk /\ acked' = acked
    BY <1>8 DEF PowerCut
  <2>2. Applied(path') \subseteq Applied(path) /\ acked \subseteq Applied(path')
    BY <2>1 DEF OneUserInv, AcksInv
  <2>3. Published' = Applied(path')
    <3>1. content' = [i \in Inodes |-> IF i \in synced THEN content[i] ELSE Unparsable]
      BY <1>8 DEF PowerCut
    <3>2. path' \in Inodes \cup {NoFile}
      BY <2>1 DEF OneUserInv, TypeOK
    <3>3. path' # NoFile /\ content[path'].parses => path' \in synced
      BY <2>1 DEF OneUserInv, AcksInv
    <3> QED BY <3>1, <3>2, <3>3 DEF Published, Applied, Unparsable
  <2> QED BY <2>1, <2>2, <2>3, PublishedIsApplied DEF Store!Revert
<1>9. ASSUME UNCHANGED vars PROVE UNCHANGED Store!avars
  BY <1>9, <1>d DEF vars, fileVars
<1> QED
  BY <1>1, <1>2, <1>3, <1>4, <1>5, <1>6, <1>7, <1>8, <1>9, <1>c
     DEF Next, Progress, Finished, Store!ANext, ReplaceFile, FsyncDir

\* One user's mutate_user_state is the atomic, durable store it promises to
\* be: every behaviour of the file protocol, with any number of callers, kills
\* and power cuts, from a good file or through its recovery from a corrupt or
\* a missing one, is a behaviour of AtomicStore.
THEOREM OneUserStoreIsAtomic ==
  ASSUME OnlyWritersRecover, OneUserOnly PROVE Spec => StoreIsAtomic
<1>1. Init => Store!AInit
  BY InitRefines
<1>2. OneUserInv /\ OneUserInv' /\ [Next]_vars => [Store!ANext]_(Store!avars)
  BY NextRefines
<1> QED
  BY <1>1, <1>2, OneUserAlways, PTL DEF Spec, StoreIsAtomic, Store!ASpec
=============================================================================
