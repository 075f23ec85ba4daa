------------------------------ MODULE AuthStore ------------------------------
(***************************************************************************)
(* auth.json and the helpers of auth_store that read and rewrite it.       *)
(*                                                                         *)
(* A helper loads the document, edits the row it is about and writes the   *)
(* whole document back with os.replace, without a lock; only               *)
(* consume_and_create_user takes a flock, on the inode it opened, which    *)
(* the next os.replace by anybody orphans.  Threads of the web process run *)
(* helpers side by side, so each is a load and, some time later, a save.   *)
(***************************************************************************)
EXTENDS Naturals, Sequences, FiniteSets

CONSTANTS
  Threads,            \* the thread pool's threads and the event loop
  Secrets, NoSecret,  \* TOTP secrets
  Devices,            \* uuids of trusted devices
  Links,              \* tokens of reset links
  Invites,            \* tokens of invitations
  Uids, Admin,        \* users; the operator's row
  NoFile, Garbage     \* the path is not bound / holds what is not JSON

ASSUME StoreAssumption ==
  /\ Admin \in Uids
  /\ NoSecret \notin Secrets /\ Links \cap Invites = {} /\ NoFile # Garbage /\ NoFile \notin Nat
  /\ IsFiniteSet(Threads)

VARIABLES
  file,       \* the document the path leads to, NoFile or Garbage
  inode,      \* which inode that is: every os.replace binds the path to a new one
  pc,         \* where each thread is
  todo,       \* the helper calls left to each thread's request
  copy,       \* the document each thread loaded
  opened,     \* the inode behind each thread's lock descriptor, or NoFile
  applied,    \* the thread's last call found its row
  stale,      \* history: others wrote the file since the request first read it
  behind,     \* history: what others withdrew, accepted or chose that the thread's copy lacks
  overtaken,  \* history: what a write of such a copy took back
  disturbed,  \* history: invites with a foreign write in the way of a consume
  used,       \* history: links and invites a caller was told are his
  reused      \* history: those a second caller was told are his

fileVars == <<file, inode>>
callVars == <<pc, todo, copy, opened, applied>>
historyVars == <<stale, behind, overtaken, disturbed, used, reused>>
storeVars == <<fileVars, callVars, historyVars>>

Docs ==
  [version: {1, 2}, secret: Secrets \cup {NoSecret}, enrolled: BOOLEAN,
   devices: SUBSET Devices, revoked: SUBSET Devices,
   links: SUBSET Links, spent: SUBSET Links,
   invites: SUBSET Invites, consumed: SUBSET Invites,
   users: SUBSET (Uids \X (Invites \cup {Admin})), disabled: SUBSET Uids]

ASSUME FileAssumption == {NoFile, Garbage} \cap Docs = {}

\* _default_auth_data: no user either, not even the operator's.
DefaultDoc ==
  [version |-> 2, secret |-> NoSecret, enrolled |-> FALSE, devices |-> {}, revoked |-> {},
   links |-> {}, spent |-> {}, invites |-> {}, consumed |-> {}, users |-> {}, disabled |-> {}]

\* _normalize_v2.
Normalised(doc) == [doc EXCEPT !.version = 2]

\* _read_auth_unlocked: what a consume makes of the path inside its lock.
Readable == IF file \in {NoFile, Garbage} THEN DefaultDoc ELSE Normalised(file)

Inodes == 0 .. Cardinality(Threads)

\* The devices and links a document lets in, and the invites it has users of.
Active(doc) == doc.devices \ doc.revoked
Live(doc) == doc.links \ doc.spent
Accepted(doc) == {u[2] : u \in doc.users}

-----------------------------------------------------------------------------
(* The helpers, as a test for the row they are about and an edit. *)

SecretCalls ==
  [op: {"look", "mark_enrolled"}] \cup [op: {"set_secret"}, secret: Secrets]
DeviceCalls ==
  [op: {"add_device", "touch_device", "revoke_device", "revoke_others"}, device: Devices]
    \cup [op: {"revoke_all"}]
LinkCalls == [op: {"purge"}] \cup [op: {"add_link", "consume_link"}, link: Links]
UserCalls ==
  [op: {"mint", "revoke_invite"}, invite: Invites]
    \cup [op: {"consume_invite"}, invite: Invites, uid: Uids]
    \cup [op: {"disable", "enable"}, uid: Uids]
Calls == SecretCalls \cup DeviceCalls \cup LinkCalls \cup UserCalls

\* get_user, list_users: the users with a row.
Rows(doc) == {u[1] : u \in doc.users}

\* Mutant: a spent link is offered again.
LinkFoundSpent(call, doc, expired, aged) ==
  CASE call.op = "add_link" -> TRUE
    [] call.op = "consume_link" -> call.link \in doc.links \ expired
    [] call.op = "purge" -> doc.links \cap aged # {}

\* The row the helper looks for is there: otherwise nothing is written.
DeviceFound(call, doc) ==
  CASE call.op = "add_device" -> TRUE
    [] call.op = "touch_device" -> call.device \in doc.devices
    [] call.op = "revoke_device" -> call.device \in doc.devices \ doc.revoked
    [] call.op = "revoke_others" -> doc.devices \ (doc.revoked \cup {call.device}) # {}
    [] call.op = "revoke_all" -> doc.devices \ doc.revoked # {}

LinkFound(call, doc, expired, aged) ==
  CASE call.op = "add_link" -> TRUE
    [] call.op = "consume_link" -> call.link \in doc.links \ (doc.spent \cup expired)
    [] call.op = "purge" -> doc.links \cap aged # {}

UserFound(call, doc, expired) ==
  CASE call.op = "mint" -> TRUE
    [] call.op = "revoke_invite" -> call.invite \in doc.invites \ doc.consumed
    [] call.op = "consume_invite" -> call.invite \in doc.invites \ (doc.consumed \cup expired)
    [] call.op \in {"disable", "enable"} -> call.uid \in Rows(doc)

Applies(call, doc, expired, aged) ==
  CASE call \in SecretCalls -> call.op # "look"
    [] call \in DeviceCalls -> DeviceFound(call, doc)
    [] call \in LinkCalls -> LinkFound(call, doc, expired, aged)
    [] call \in UserCalls -> UserFound(call, doc, expired)

\* Mutant: a new secret keeps the mark of the old one.
SecretStillEnrolled(call, doc) ==
  CASE call.op = "look" -> doc
    [] call.op = "set_secret" -> [doc EXCEPT !.secret = call.secret]
    [] call.op = "mark_enrolled" -> [doc EXCEPT !.enrolled = TRUE]

\* The document after the helper's edit.
SecretEdited(call, doc) ==
  CASE call.op = "look" -> doc
    [] call.op = "set_secret" -> [doc EXCEPT !.secret = call.secret, !.enrolled = FALSE]
    [] call.op = "mark_enrolled" -> [doc EXCEPT !.enrolled = TRUE]

\* Mutant: every row is set to whether it is another device.
DeviceFlipped(call, doc) ==
  CASE call.op = "add_device" -> [doc EXCEPT !.devices = @ \cup {call.device}]
    [] call.op = "touch_device" -> doc
    [] call.op = "revoke_device" -> [doc EXCEPT !.revoked = @ \cup {call.device}]
    [] call.op = "revoke_others" -> [doc EXCEPT !.revoked = doc.devices \ {call.device}]
    [] call.op = "revoke_all" -> [doc EXCEPT !.revoked = doc.devices]

DeviceEdited(call, doc) ==
  CASE call.op = "add_device" -> [doc EXCEPT !.devices = @ \cup {call.device}]
    [] call.op = "touch_device" -> doc                       \* last_seen only
    [] call.op = "revoke_device" -> [doc EXCEPT !.revoked = @ \cup {call.device}]
    [] call.op = "revoke_others" ->
         [doc EXCEPT !.revoked = @ \cup (doc.devices \ {call.device})]
    [] call.op = "revoke_all" -> [doc EXCEPT !.revoked = doc.devices]

LinkEdited(call, doc, aged) ==
  CASE call.op = "add_link" -> [doc EXCEPT !.links = @ \cup {call.link}]
    [] call.op = "consume_link" -> [doc EXCEPT !.spent = @ \cup {call.link}]
    [] call.op = "purge" -> [doc EXCEPT !.links = @ \ aged, !.spent = @ \ aged]

\* Mutant: the invite is left to whoever asks next.
UserUnconsumed(call, doc) ==
  CASE call.op = "mint" -> [doc EXCEPT !.invites = @ \cup {call.invite}]
    [] call.op = "consume_invite" -> [doc EXCEPT !.users = @ \cup {<<call.uid, call.invite>>}]
    [] OTHER -> doc

\* Mutant: a list of the operator and the new user is written.
UserAlone(call, doc) ==
  CASE call.op = "mint" -> [doc EXCEPT !.invites = @ \cup {call.invite}]
    [] call.op = "consume_invite" ->
         [doc EXCEPT !.consumed = @ \cup {call.invite},
                     !.users = {<<Admin, Admin>>, <<call.uid, call.invite>>}]
    [] OTHER -> doc

UserEdited(call, doc) ==
  CASE call.op = "mint" -> [doc EXCEPT !.invites = @ \cup {call.invite}]
    [] call.op = "revoke_invite" -> [doc EXCEPT !.consumed = @ \cup {call.invite}]
    [] call.op = "consume_invite" ->
         [doc EXCEPT !.consumed = @ \cup {call.invite},
                     !.users = @ \cup {<<call.uid, call.invite>>}]
    [] call.op = "disable" -> [doc EXCEPT !.disabled = @ \cup {call.uid}]
    [] call.op = "enable" -> [doc EXCEPT !.disabled = @ \ {call.uid}]

Edited(call, doc, aged) ==
  CASE call \in SecretCalls -> SecretEdited(call, doc)
    [] call \in DeviceCalls -> DeviceEdited(call, doc)
    [] call \in LinkCalls -> LinkEdited(call, doc, aged)
    [] call \in UserCalls -> UserEdited(call, doc)

-----------------------------------------------------------------------------
(* A thread at work on the calls of its request. *)

Call(t) == Head(todo[t])
Consumes(t) == todo[t] # <<>> /\ Call(t).op = "consume_invite"

\* What is new in a document for who holds an older copy.
Missed(old, doc) ==
  (Active(old) \ Active(doc)) \cup (Live(old) \ Live(doc))
    \cup (Accepted(doc) \ Accepted(old)) \cup ({doc.secret} \ {old.secret})

\* Thread t makes this the document: the others' copies fall behind, and what
\* its own copy lacked is gone.
Overtakes(t, doc) ==
  /\ behind' = [u \in Threads |->
       IF u # t /\ pc[u] \notin {"idle", "start"} THEN behind[u] \cup Missed(copy[u], doc)
       ELSE behind[u]]
  /\ overtaken' = overtaken \cup behind[t]

\* A history variable's share of a write by thread t: who is stale from now
\* on, whose consume was disturbed.
Wrote(t) ==
  /\ stale' = [u \in Threads |-> stale[u] \/ (u # t /\ pc[u] \notin {"idle", "start"})]
  /\ disturbed' = disturbed \cup
       {i \in Invites :
          /\ ~(Consumes(t) /\ Call(t).invite = i)
          /\ \/ stale[t]
             \/ \E u \in Threads \ {t} :
                  Consumes(u) /\ Call(u).invite = i /\ opened[u] # NoFile}

\* An inode no descriptor is open on.
NewInode == CHOOSE n \in Inodes : \A u \in Threads : opened[u] # n

\* os.replace: the path leads to a new inode.
Replace(t, doc) ==
  /\ file' = doc
  /\ inode' = NewInode
  /\ Wrote(t) /\ Overtakes(t, doc)

\* What the caller of a link's or an invite's consume is told.
Claimed(call) ==
  IF call.op = "consume_link" THEN {call.link}
  ELSE IF call.op = "consume_invite" THEN {call.invite} ELSE {}

Claim(call) ==
  /\ used' = used \cup Claimed(call)
  /\ reused' = reused \cup (used \cap Claimed(call))

\* A fresh copy lacks nothing; that another secret was chosen since the request
\* began stays to be known.
CatchesUp(t) ==
  /\ behind' = [behind EXCEPT ![t] = @ \cap (Secrets \cup {NoSecret})]
  /\ UNCHANGED <<stale, overtaken, disturbed, used, reused>>

\* load_auth, on a path that is bound to a document or not bound.
Load(t) ==
  /\ pc[t] \in {"start", "call"} /\ todo[t] # <<>> /\ ~Consumes(t)
  /\ file # Garbage
  /\ copy' = [copy EXCEPT ![t] = Readable]
  /\ pc' = [pc EXCEPT ![t] =
       IF file # NoFile /\ file.version = 1 THEN "normalise" ELSE "edit"]
  /\ CatchesUp(t)
  /\ UNCHANGED <<fileVars, todo, opened, applied>>

\* load_auth writes a document of version 1 back at once.
Normalise(t) ==
  /\ pc[t] = "normalise"
  /\ Replace(t, copy[t])
  /\ pc' = [pc EXCEPT ![t] = "edit"]
  /\ UNCHANGED <<todo, copy, opened, applied, used, reused>>

\* load_auth found what is not JSON: it will rename the file.
LoadGarbage(t) ==
  /\ pc[t] \in {"start", "call"} /\ todo[t] # <<>> /\ ~Consumes(t)
  /\ file = Garbage
  /\ copy' = [copy EXCEPT ![t] = DefaultDoc]
  /\ pc' = [pc EXCEPT ![t] = "quarantine"]
  /\ CatchesUp(t)
  /\ UNCHANGED <<fileVars, todo, opened, applied>>

\* _quarantine_corrupt_auth_file renames whatever the path leads to by now.
Quarantine(t) ==
  /\ pc[t] = "quarantine"
  /\ file' = NoFile
  /\ Overtakes(t, DefaultDoc)
  /\ pc' = [pc EXCEPT ![t] = "edit"]
  /\ UNCHANGED <<inode, todo, copy, opened, applied, stale, disturbed, used, reused>>

\* The helper found its row and saves the document it loaded, edited.
Save(t, expired, aged) ==
  /\ pc[t] = "edit" /\ Call(t).op # "look"
  /\ Applies(Call(t), copy[t], expired, aged)
  /\ Replace(t, Edited(Call(t), copy[t], aged))
  /\ Claim(Call(t))
  /\ applied' = [applied EXCEPT ![t] = TRUE]
  /\ todo' = [todo EXCEPT ![t] = Tail(@)]
  /\ pc' = [pc EXCEPT ![t] = "call"]
  /\ UNCHANGED <<copy, opened>>

\* It did not: nothing is written.
Skip(t, expired, aged) ==
  /\ pc[t] = "edit" /\ Call(t).op # "look"
  /\ ~Applies(Call(t), copy[t], expired, aged)
  /\ applied' = [applied EXCEPT ![t] = FALSE]
  /\ todo' = [todo EXCEPT ![t] = Tail(@)]
  /\ pc' = [pc EXCEPT ![t] = "call"]
  /\ UNCHANGED <<fileVars, copy, opened, historyVars>>

\* consume_and_create_user: os.open with O_CREAT, so that a path nothing is
\* bound to becomes an empty file, which is not JSON.
Open(t) ==
  /\ pc[t] = "start" /\ Consumes(t)
  /\ file' = IF file = NoFile THEN Garbage ELSE file
  /\ inode' = IF file = NoFile THEN NewInode ELSE inode
  /\ opened' = [opened EXCEPT ![t] = inode']
  /\ pc' = [pc EXCEPT ![t] = "flock"]
  /\ UNCHANGED <<todo, copy, applied, historyVars>>

Locked(n) == \E u \in Threads : pc[u] \in {"scan", "replace"} /\ opened[u] = n

\* Mutant: nobody waits.
LockAlways(t) ==
  /\ pc[t] = "flock"
  /\ pc' = [pc EXCEPT ![t] = "scan"]
  /\ UNCHANGED <<fileVars, todo, copy, opened, applied, historyVars>>

\* flock(LOCK_EX) on the inode opened, whichever the path leads to by now.
Lock(t) ==
  /\ pc[t] = "flock" /\ ~Locked(opened[t])
  /\ pc' = [pc EXCEPT ![t] = "scan"]
  /\ UNCHANGED <<fileVars, todo, copy, opened, applied, historyVars>>

\* The document is read by path, inside the lock.
Scan(t) ==
  /\ pc[t] = "scan"
  /\ copy' = [copy EXCEPT ![t] = Readable]
  /\ stale' = [stale EXCEPT ![t] = FALSE]
  /\ behind' = [behind EXCEPT ![t] = {}]
  /\ pc' = [pc EXCEPT ![t] = "replace"]
  /\ UNCHANGED <<fileVars, todo, opened, applied, overtaken, disturbed, used, reused>>

\* The invite is good: consumed and user are written together, by path.
Consume(t, expired) ==
  /\ pc[t] = "replace"
  /\ Applies(Call(t), copy[t], expired, {})
  /\ Replace(t, Edited(Call(t), copy[t], {}))
  /\ Claim(Call(t))
  /\ applied' = [applied EXCEPT ![t] = TRUE]
  /\ todo' = [todo EXCEPT ![t] = Tail(@)]
  /\ opened' = [opened EXCEPT ![t] = NoFile]
  /\ pc' = [pc EXCEPT ![t] = "call"]
  /\ UNCHANGED copy

\* It is unknown, consumed or expired: InviteAlreadyConsumed, InviteExpired.
Refuse(t, expired) ==
  /\ pc[t] = "replace"
  /\ ~Applies(Call(t), copy[t], expired, {})
  /\ applied' = [applied EXCEPT ![t] = FALSE]
  /\ todo' = [todo EXCEPT ![t] = Tail(@)]
  /\ opened' = [opened EXCEPT ![t] = NoFile]
  /\ pc' = [pc EXCEPT ![t] = "call"]
  /\ UNCHANGED <<fileVars, copy, historyVars>>

StoreStep(t, expired, aged) ==
  \/ Load(t) \/ Normalise(t) \/ LoadGarbage(t) \/ Quarantine(t)
  \/ Save(t, expired, aged) \/ Skip(t, expired, aged)
  \/ Open(t) \/ Lock(t) \/ Scan(t) \/ Consume(t, expired) \/ Refuse(t, expired)

-----------------------------------------------------------------------------
\* What may fall behind.  The row of the operator counts as accepted, too.
Tokens == Devices \cup Links \cup Invites \cup {Admin, NoSecret} \cup Secrets

StoreTypeOK ==
  /\ file \in Docs \cup {NoFile, Garbage}
  /\ inode \in Inodes
  /\ pc \in [Threads -> {"idle", "start", "call", "normalise", "quarantine", "edit",
                         "flock", "scan", "replace"}]
  /\ todo \in [Threads -> Seq(Calls)]
  /\ copy \in [Threads -> Docs]
  /\ opened \in [Threads -> Inodes \cup {NoFile}]
  /\ applied \in [Threads -> BOOLEAN]
  /\ stale \in [Threads -> BOOLEAN]
  /\ behind \in [Threads -> SUBSET Tokens] /\ overtaken \subseteq Tokens
  /\ disturbed \subseteq Invites
  /\ used \subseteq Links \cup Invites
  /\ reused \subseteq Links \cup Invites

OneUserPerInviteIn(doc) ==
  /\ \A u, v \in doc.users : u[2] = v[2] /\ u[2] # Admin => u = v
  /\ \A u \in doc.users : u[2] # Admin => u[2] \in doc.consumed

\* However the writes of the threads overlap, the document on disk (and every
\* copy about to replace it) never holds two users made from one invite, nor a
\* user whose invite it offers to somebody else: the user and the mark of
\* consume_and_create_user are one write.
OneUserPerInvite ==
  /\ file \notin {NoFile, Garbage} => OneUserPerInviteIn(file)
  /\ \A t \in Threads : OneUserPerInviteIn(copy[t])

\* "preventing two concurrent callers from both succeeding on the same token"
\* (consume_and_create_user): two callers are told that the invite is theirs
\* only if a write that is not a consume of this invite came between the open
\* and the replace of one of them, or wrote a stale document.
SingleUse == reused \cap Invites \subseteq disturbed

\* A reset link lets one click in: two only when a helper that had loaded the
\* link unspent wrote after another had spent it, as two clicks at once do.
LinkUsedOnce == reused \cap Links \subseteq overtaken

\* The user whose acceptance was acknowledged has a row.  Only a helper that
\* had loaded the document before the user was in it, and wrote after, loses
\* it (or the rename of a repaired file): last_seen bumps and revoke_invite do.
AcceptedUserExists == (used \cap Invites) \ overtaken \subseteq Accepted(Readable)
=============================================================================
