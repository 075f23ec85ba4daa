------------------------------ MODULE StateFile ------------------------------
(***************************************************************************)
(* state.json and everything that touches it: the processes and threads    *)
(* that call state_manager, the inodes behind the path, the flock each     *)
(* caller takes, the temporary file it publishes with os.replace, and the  *)
(* directory entry that a power cut may take back.                         *)
(*                                                                         *)
(* One action per system call that another process can observe.  The two   *)
(* facts of POSIX the protocol lives on are kept: flock() belongs to the   *)
(* inode that was opened, not to the path, and os.replace() binds the path *)
(* to another inode.                                                       *)
(***************************************************************************)
EXTENDS Naturals

CONSTANTS
  Writers,      \* callers of mutate_state / mutate_user_state
  Readers,      \* callers of a bare load_state (page handlers, healthz)
  Uids,         \* users that own a state/users/{uid}.lock
  NoUid,
  UidOf,        \* UidOf[w]: the uid w passes, NoUid when it calls mutate_state
  Inodes,
  NoFile,       \* the path is not bound / the descriptor is closed
  NoProc,       \* the lock is free
  MaxOps,       \* bound: calls each process makes
  InitialFile,  \* "doc", "missing" or "garbage": what the path holds at boot
  Crashes       \* TRUE: processes may be killed and the power may fail

Procs == Writers \cup Readers

ASSUME ConstantsAssumption ==
  /\ Writers \cap Readers = {}
  /\ NoProc \notin Procs
  /\ NoFile \notin Inodes
  /\ NoUid \notin Uids
  /\ UidOf \in [Writers -> Uids \cup {NoUid}]
  /\ Inodes # {}
  /\ MaxOps \in Nat
  /\ InitialFile \in {"doc", "missing", "garbage"}
  /\ Crashes \in BOOLEAN

VARIABLES
  path,         \* the inode the name state.json is bound to
  content,      \* what each inode holds
  synced,       \* inodes whose data reached the disk (fsync of the file)
  onDisk,       \* bindings of the name a power cut may leave behind
  flock,        \* holder of the exclusive flock on each inode
  userLock,     \* holder of the flock on each state/users/{uid}.lock
  pc,           \* where each caller is
  fd,           \* the inode each caller opened to lock
  tmp,          \* the temporary file each caller is about to publish
  buf,          \* the document each caller holds in memory
  recovering,   \* the caller is saving the document that replaces a corrupt one
  started,      \* calls each process has made
  acked         \* mutations that are certain to return to their caller

fileVars == <<path, content, synced, onDisk>>
lockVars == <<flock, userLock>>
procVars == <<pc, fd, tmp, buf, recovering, started>>
vars == <<fileVars, lockVars, procVars, acked>>

-----------------------------------------------------------------------------
(* Documents. *)

Updates == Writers \X (0..MaxOps)

Content == [parses: BOOLEAN, applied: SUBSET Updates, recovered: BOOLEAN]

\* A state document: the mutations it contains, and whether its warnings say
\* "recovered from corruption".
Doc(ups, rec) == [parses |-> TRUE, applied |-> ups, recovered |-> rec]

Unparsable == [parses |-> FALSE, applied |-> {}, recovered |-> FALSE]

FreshDoc == Doc({}, FALSE)             \* reset_state()

Steps == {"idle", "userlock", "open", "flock", "exists", "read", "backup",
          "mutate", "stage", "replace", "fsync", "unlock", "userunlock"}

TypeOK ==
  /\ path \in Inodes \cup {NoFile}
  /\ content \in [Inodes -> Content]
  /\ synced \in SUBSET Inodes
  /\ onDisk \in SUBSET (Inodes \cup {NoFile})
  /\ flock \in [Inodes -> Procs \cup {NoProc}]
  /\ userLock \in [Uids -> Procs \cup {NoProc}]
  /\ pc \in [Procs -> Steps]
  /\ fd \in [Procs -> Inodes \cup {NoFile}]
  /\ tmp \in [Procs -> Inodes \cup {NoFile}]
  /\ buf \in [Procs -> Content]
  /\ recovering \in [Procs -> BOOLEAN]
  /\ started \in [Procs -> 0..MaxOps]
  /\ acked \in SUBSET Updates

-----------------------------------------------------------------------------
(* Helpers. *)

Goto(p, step) == pc' = [pc EXCEPT ![p] = step]

\* The mutation the writer is carrying out.
Current(p) == <<p, started[p]>>

FreeInodes ==
  {i \in Inodes : /\ i # path /\ i \notin onDisk
                  /\ \A p \in Procs : fd[p] # i /\ tmp[p] # i}

\* The kernel hands out an unused inode; which one carries no meaning.
NewInode == CHOOSE i \in FreeInodes : TRUE

HasUid(p) == p \in Writers /\ UidOf[p] # NoUid

\* Where a caller goes when an exception leaves load_state.
AfterError(p) == IF p \in Writers THEN "unlock" ELSE "idle"

FirstInode == CHOOSE i \in Inodes : TRUE

Init ==
  /\ path = IF InitialFile = "missing" THEN NoFile ELSE FirstInode
  /\ content = [i \in Inodes |->
                  IF InitialFile = "doc" /\ i = FirstInode THEN FreshDoc ELSE Unparsable]
  /\ synced = {FirstInode}
  /\ onDisk = {path}
  /\ flock = [i \in Inodes |-> NoProc]
  /\ userLock = [u \in Uids |-> NoProc]
  /\ pc = [p \in Procs |-> "idle"]
  /\ fd = [p \in Procs |-> NoFile]
  /\ tmp = [p \in Procs |-> NoFile]
  /\ buf = [p \in Procs |-> FreshDoc]
  /\ recovering = [p \in Procs |-> FALSE]
  /\ started = [p \in Procs |-> 0]
  /\ acked = {}

-----------------------------------------------------------------------------
(* Entry points. *)

\* mutate_user_state or mutate_state is called.
BeginMutate(p) ==
  /\ p \in Writers
  /\ pc[p] = "idle"
  /\ started[p] < MaxOps
  /\ started' = [started EXCEPT ![p] = @ + 1]
  /\ Goto(p, IF HasUid(p) THEN "userlock" ELSE "open")
  /\ UNCHANGED <<fileVars, lockVars, fd, tmp, buf, recovering, acked>>

\* load_state is called without a lock.
BeginLoad(p) ==
  /\ p \in Readers
  /\ pc[p] = "idle"
  /\ started[p] < MaxOps
  /\ started' = [started EXCEPT ![p] = @ + 1]
  /\ Goto(p, "exists")
  /\ UNCHANGED <<fileVars, lockVars, fd, tmp, buf, recovering, acked>>

\* Mutant of LockUser: the lock is shared (LOCK_SH), nobody waits.
LockUserShared(p) ==
  /\ pc[p] = "userlock"
  /\ userLock' = [userLock EXCEPT ![UidOf[p]] = p]
  /\ Goto(p, "open")
  /\ UNCHANGED <<fileVars, flock, fd, tmp, buf, recovering, started, acked>>

\* The outer flock of mutate_user_state, on a lock file nothing ever replaces.
LockUser(p) ==
  /\ pc[p] = "userlock"
  /\ userLock[UidOf[p]] = NoProc
  /\ userLock' = [userLock EXCEPT ![UidOf[p]] = p]
  /\ Goto(p, "open")
  /\ UNCHANGED <<fileVars, flock, fd, tmp, buf, recovering, started, acked>>

\* os.open(path, O_RDWR | O_CREAT): an unbound path gets an empty file.
OpenState(p) ==
  /\ pc[p] = "open"
  /\ \/ /\ path # NoFile
        /\ fd' = [fd EXCEPT ![p] = path]
        /\ UNCHANGED fileVars
     \/ /\ path = NoFile
        /\ FreeInodes # {}
        /\ path' = NewInode
        /\ fd' = [fd EXCEPT ![p] = NewInode]
        /\ content' = [content EXCEPT ![NewInode] = Unparsable]
        /\ onDisk' = onDisk \cup {NewInode}
        /\ UNCHANGED synced
  /\ Goto(p, "flock")
  /\ UNCHANGED <<lockVars, tmp, buf, recovering, started, acked>>

\* fcntl.flock(fd, LOCK_EX) returns: the lock is on the inode behind fd.  A
\* writer goes on to load; a reader that recovers goes straight to its save.
AcquireFlock(p) ==
  /\ pc[p] = "flock"
  /\ flock[fd[p]] = NoProc
  /\ flock' = [flock EXCEPT ![fd[p]] = p]
  /\ Goto(p, IF p \in Writers THEN "exists" ELSE "stage")
  /\ UNCHANGED <<fileVars, userLock, fd, tmp, buf, recovering, started, acked>>

-----------------------------------------------------------------------------
(* load_state. *)

\* path.exists(): a missing file is a fresh state, and is not written.
CheckExists(p) ==
  /\ pc[p] = "exists"
  /\ \/ /\ path = NoFile
        /\ buf' = [buf EXCEPT ![p] = FreshDoc]
        /\ Goto(p, IF p \in Writers THEN "mutate" ELSE "idle")
     \/ /\ path # NoFile
        /\ Goto(p, "read")
        /\ UNCHANGED buf
  /\ UNCHANGED <<fileVars, lockVars, fd, tmp, recovering, started, acked>>

\* Mutant of ReadFile: `except ValueError` around the migrations too, so that
\* a sound document can be taken for a corrupt one.
ReadFileBroadCatch(p) ==
  /\ pc[p] = "read"
  /\ path # NoFile
  /\ \/ /\ Goto(p, "backup")
        /\ UNCHANGED buf
     \/ /\ content[path].parses
        /\ buf' = [buf EXCEPT ![p] = content[path]]
        /\ Goto(p, IF p \in Writers THEN "mutate" ELSE "idle")
  /\ UNCHANGED <<fileVars, lockVars, fd, tmp, recovering, started, acked>>

\* Mutant of ReadFile: a file that does not parse is read again until it does.
ReadFileRetries(p) ==
  /\ pc[p] = "read"
  /\ path # NoFile
  /\ \/ /\ ~content[path].parses
        /\ Goto(p, "exists")
        /\ UNCHANGED buf
     \/ /\ content[path].parses
        /\ buf' = [buf EXCEPT ![p] = content[path]]
        /\ Goto(p, IF p \in Writers THEN "mutate" ELSE "idle")
  /\ UNCHANGED <<fileVars, lockVars, fd, tmp, recovering, started, acked>>

\* path.read_bytes() and json.loads: the path is looked up again, whatever
\* inode the caller locked.
ReadFile(p) ==
  /\ pc[p] = "read"
  /\ \/ /\ path = NoFile                     \* FileNotFoundError
        /\ Goto(p, AfterError(p))
        /\ UNCHANGED buf
     \/ /\ path # NoFile
        /\ ~content[path].parses             \* JSONDecodeError
        /\ Goto(p, "backup")
        /\ UNCHANGED buf
     \/ /\ path # NoFile
        /\ content[path].parses
        /\ buf' = [buf EXCEPT ![p] = IF p \in Writers THEN content[path] ELSE @]
        /\ Goto(p, IF p \in Writers THEN "mutate" ELSE "idle")
  /\ UNCHANGED <<fileVars, lockVars, fd, tmp, recovering, started, acked>>

\* _backup_corrupt renames whatever the path is bound to now; then a fresh
\* state that carries the warning is saved, under the lock the caller holds
\* (a writer) or through save_state, which opens and locks again (a reader).
BackupCorrupt(p) ==
  /\ pc[p] = "backup"
  /\ \/ /\ path = NoFile                     \* FileNotFoundError
        /\ Goto(p, AfterError(p))
        /\ UNCHANGED <<path, onDisk, buf, recovering>>
     \/ /\ path # NoFile
        /\ path' = NoFile
        /\ onDisk' = onDisk \cup {NoFile}
        /\ buf' = [buf EXCEPT ![p] = Doc({}, TRUE)]
        /\ recovering' = [recovering EXCEPT ![p] = TRUE]
        /\ Goto(p, IF p \in Writers THEN "stage" ELSE "open")
  /\ UNCHANGED <<content, synced, lockVars, fd, tmp, started, acked>>

-----------------------------------------------------------------------------
(* The mutator and the durable write. *)

Mutate(p) ==
  /\ p \in Writers
  /\ pc[p] = "mutate"
  /\ buf' = [buf EXCEPT ![p] = Doc(@.applied \cup {Current(p)}, @.recovered)]
  /\ Goto(p, "stage")
  /\ UNCHANGED <<fileVars, lockVars, fd, tmp, recovering, started, acked>>

\* The mutator raises (a 404, a 409, a validation error): nothing is saved.
MutatorRaises(p) ==
  /\ p \in Writers
  /\ pc[p] = "mutate"
  /\ Goto(p, "unlock")
  /\ UNCHANGED <<fileVars, lockVars, fd, tmp, buf, recovering, started, acked>>

\* Mutant of StageTemp: no fsync of the temporary file before os.replace.
StageTempNoFsync(p) ==
  /\ pc[p] = "stage"
  /\ FreeInodes # {}
  /\ tmp' = [tmp EXCEPT ![p] = NewInode]
  /\ content' = [content EXCEPT ![NewInode] = buf[p]]
  /\ Goto(p, "replace")
  /\ UNCHANGED <<path, onDisk, synced, lockVars, fd, buf, recovering, started, acked>>

\* The document goes to a temporary file, which is flushed and fsynced.
StageTemp(p) ==
  /\ pc[p] = "stage"
  /\ FreeInodes # {}
  /\ tmp' = [tmp EXCEPT ![p] = NewInode]
  /\ content' = [content EXCEPT ![NewInode] = buf[p]]
  /\ synced' = synced \cup {NewInode}
  /\ Goto(p, "replace")
  /\ UNCHANGED <<path, onDisk, lockVars, fd, buf, recovering, started, acked>>

\* os.replace: the name is bound to another inode, the locked one is orphaned.
ReplaceFile(p) ==
  /\ pc[p] = "replace"
  /\ path' = tmp[p]
  /\ onDisk' = onDisk \cup {tmp[p]}
  /\ tmp' = [tmp EXCEPT ![p] = NoFile]
  /\ Goto(p, "fsync")
  /\ UNCHANGED <<content, synced, lockVars, fd, buf, recovering, started, acked>>

\* fsync of the directory.  It is the last call that can fail, so a mutation
\* counts as acknowledged from here on; a writer that has only replaced a
\* corrupt file still has its mutator to run.
FsyncDir(p) ==
  /\ pc[p] = "fsync"
  /\ onDisk' = {path}
  /\ recovering' = [recovering EXCEPT ![p] = FALSE]
  /\ IF p \in Writers /\ recovering[p]
       THEN Goto(p, "mutate")
       ELSE Goto(p, "unlock")
  /\ acked' = IF p \in Writers /\ ~recovering[p] THEN acked \cup {Current(p)} ELSE acked
  /\ UNCHANGED <<path, content, synced, lockVars, fd, tmp, buf, started>>

\* OSError while writing the temporary file, replacing, or syncing: the
\* temporary file is unlinked and the error leaves mutate_state.
SaveFails(p) ==
  /\ pc[p] \in {"stage", "replace", "fsync"}
  /\ tmp' = [tmp EXCEPT ![p] = NoFile]
  /\ recovering' = [recovering EXCEPT ![p] = FALSE]
  /\ Goto(p, "unlock")
  /\ UNCHANGED <<fileVars, lockVars, fd, buf, started, acked>>

Release(p) == [i \in Inodes |-> IF flock[i] = p THEN NoProc ELSE flock[i]]
ReleaseUser(p) == [u \in Uids |-> IF userLock[u] = p THEN NoProc ELSE userLock[u]]

\* The finally clauses: LOCK_UN, close, and back to mutate_user_state if it
\* is the caller.
Unlock(p) ==
  /\ pc[p] = "unlock"
  /\ flock' = Release(p)
  /\ fd' = [fd EXCEPT ![p] = NoFile]
  /\ Goto(p, IF HasUid(p) THEN "userunlock" ELSE "idle")
  /\ UNCHANGED <<fileVars, userLock, tmp, buf, recovering, started, acked>>

UnlockUser(p) ==
  /\ pc[p] = "userunlock"
  /\ userLock' = ReleaseUser(p)
  /\ Goto(p, "idle")
  /\ UNCHANGED <<fileVars, flock, fd, tmp, buf, recovering, started, acked>>

-----------------------------------------------------------------------------
(* Failures of the environment. *)

\* The process is killed: the kernel closes its descriptors.
Crash(p) ==
  /\ Crashes
  /\ pc[p] # "idle"
  /\ flock' = Release(p)
  /\ userLock' = ReleaseUser(p)
  /\ fd' = [fd EXCEPT ![p] = NoFile]
  /\ tmp' = [tmp EXCEPT ![p] = NoFile]
  /\ recovering' = [recovering EXCEPT ![p] = FALSE]
  /\ Goto(p, "idle")
  /\ UNCHANGED <<fileVars, buf, started, acked>>

\* The machine loses power: data that was not fsynced is gone, and the name
\* is bound to any inode it was bound to since the directory was last synced.
PowerCut ==
  /\ Crashes
  /\ path' \in onDisk
  /\ onDisk' = {path'}
  /\ content' = [i \in Inodes |-> IF i \in synced THEN content[i] ELSE Unparsable]
  /\ flock' = [i \in Inodes |-> NoProc]
  /\ userLock' = [u \in Uids |-> NoProc]
  /\ pc' = [p \in Procs |-> "idle"]
  /\ fd' = [p \in Procs |-> NoFile]
  /\ tmp' = [p \in Procs |-> NoFile]
  /\ recovering' = [p \in Procs |-> FALSE]
  /\ UNCHANGED <<synced, buf, started, acked>>

\* Every mutation of the bounded instance has been asked for and is over.
Finished ==
  /\ \A p \in Procs : pc[p] = "idle" /\ started[p] = MaxOps
  /\ UNCHANGED vars

-----------------------------------------------------------------------------
Progress(p) ==
  \/ LockUser(p) \/ OpenState(p) \/ AcquireFlock(p)
  \/ CheckExists(p) \/ ReadFile(p) \/ BackupCorrupt(p)
  \/ Mutate(p) \/ MutatorRaises(p) \/ StageTemp(p) \/ ReplaceFile(p) \/ FsyncDir(p)
  \/ SaveFails(p) \/ Unlock(p) \/ UnlockUser(p)

Next ==
  \/ \E p \in Procs : BeginMutate(p) \/ BeginLoad(p) \/ Progress(p) \/ Crash(p)
  \/ PowerCut
  \/ Finished

Spec == Init /\ [][Next]_vars

\* A runnable thread is scheduled; nothing obliges a caller to ask for more.
FairSpec == Spec /\ \A p \in Procs : WF_vars(Progress(p))
-----------------------------------------------------------------------------
(* Properties. *)

\* The mutations in the published document.
Published == IF path # NoFile /\ content[path].parses THEN content[path].applied ELSE {}

Store == INSTANCE AtomicStore WITH store <- Published

\* mutate_state is the atomic read-modify-write its docstring promises: seen
\* from outside, a call takes effect whole at one instant, and a kill or a
\* power cut at any point never takes back a mutation that was acknowledged.
StoreIsAtomic == Store!ASpec

\* No lost update: whatever the interleaving of callers, kills and power cuts,
\* the published document contains every mutation whose call was acknowledged.
AcknowledgedSurvive == acked \subseteq Published

\* Once there is a good state.json, every reader at every instant finds a
\* complete document at the path: never a missing, empty or torn file.
PublishedFileParses == path # NoFile /\ content[path].parses

\* _backup_corrupt renames corrupt files only: when a caller starts to replace
\* the file it has just moved away, what it moved did not parse.
NoGoodFileQuarantined ==
  [][\A p \in Procs : ~recovering[p] /\ recovering'[p] => ~PublishedFileParses]_vars

\* No call is blocked for ever: the outer lock is always taken before the
\* inner one, and no caller waits for a flock it holds itself.
EveryCallReturns == \A p \in Procs : pc[p] # "idle" ~> pc[p] = "idle"
=============================================================================
