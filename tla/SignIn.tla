------------------------------- MODULE SignIn -------------------------------
(***************************************************************************)
(* The requests that sign somebody in, invite somebody or revoke a device: *)
(* the routes login, totp, reset, invite, devices and admin, and the       *)
(* cookie check of the middleware, over the store of AuthStore.            *)
(*                                                                         *)
(* A request is accepted or refused by the browser's cookies, looks at     *)
(* auth.json if its handler does, runs its helper calls, and answers with  *)
(* cookies.  A cookie is signed by the server, so that a browser holds one *)
(* only if an answer gave it; passwords are right and the TOTP code is     *)
(* that of the secret in the user's authenticator.                         *)
(***************************************************************************)
EXTENDS AuthStore

CONSTANTS
  Browsers,
  Nothing,                                    \* no device, no wizard, no argument
  LinkLimit,                                  \* reset links per window
  LinkLife, InviteLife, RateWindow, Retention, \* in steps of the clock
  Starts,                                     \* what the web process may find
  MaxRequests, MaxTime                        \* bounds of a run

ASSUME SignInAssumption ==
  /\ Nothing \notin Devices \cup Secrets \cup Links \cup Invites \cup Uids
  /\ {LinkLimit, LinkLife, InviteLife, RateWindow, Retention, MaxRequests, MaxTime}
       \subseteq Nat

VARIABLES
  asked,      \* requests so far
  now, born,  \* the clock; when each link and invite was made
  req, out,   \* each thread's request, and the answer it will send
  jar,        \* each browser's cookies
  app,        \* the secret in each user's authenticator
  mailbox,    \* links and invites somebody was mailed
  issued,     \* random values drawn so far
  verified,   \* history: secrets whose code was accepted at enrolment
  dropped     \* history: devices whose revocation was acknowledged

webVars == <<asked, now, born, req, out, jar, app, mailbox, issued, verified, dropped>>
vars == <<storeVars, webVars>>

\* A cookie is absent (Nothing), or names the operator, a device, or the
\* wizard's step and its invite.
Names == {"session", "pending", "enroll", "wizard", "trusted"}
Cookies == {Nothing, Admin} \cup ({"password", "totp", "device"} \X Invites) \cup Devices

\* What somebody left: rows whose random values were drawn, and an enrolment
\* that went through.
ASSUME StartsAssumption ==
  \A s \in Starts :
    /\ s.file \in Docs \cup {NoFile, Garbage}
    /\ s.file \in Docs =>
         /\ OneUserPerInviteIn(s.file)
         /\ s.file.devices \cup s.file.links \cup s.file.invites \subseteq s.issued
         /\ s.file.enrolled => s.file.secret \in s.verified
    /\ s.jar \in [Browsers -> [Names -> Cookies]]
    /\ s.app \in [Browsers -> Secrets \cup {NoSecret}]
    /\ s.mailbox \subseteq Links \cup Invites /\ s.verified \subseteq Secrets

expired == {l \in Links : now - born[l] >= LinkLife}
             \cup {i \in Invites : now - born[i] >= InviteLife}
aged == {l \in Links : now - born[l] >= LinkLife + Retention}

\* count_recent_magic_links.
Recent(doc) == {l \in doc.links : now - born[l] < RateWindow}

-----------------------------------------------------------------------------
(* The handlers, as what they make of a request and of the document they    *)
(* looked at: the helper calls, and an answer's cookies, the secret its     *)
(* page shows, the mail.                                                    *)

Handling == [ok: BOOLEAN, calls: Seq(Calls), set: UNION {[N -> Cookies] : N \in SUBSET Names},
             shows: Secrets \cup {NoSecret}, mails: SUBSET (Links \cup Invites)]

Does(calls, set) ==
  [ok |-> TRUE, calls |-> calls, set |-> set, shows |-> NoSecret, mails |-> {}]
Unchanged == [n \in {} |-> Nothing]
Refused == [Does(<<>>, Unchanged) EXCEPT !.ok = FALSE]

PostLogin(q, doc) ==
  IF doc.secret = NoSecret
    THEN Does(<<[op |-> "set_secret", secret |-> q.new]>>, [enroll |-> Admin])
  ELSE IF doc.enrolled THEN Does(<<>>, [pending |-> Admin])
  ELSE Does(<<>>, [enroll |-> Admin])

PostForgot(q, doc) ==
  IF Cardinality(Recent(doc)) >= LinkLimit THEN Refused
  ELSE [Does(<<[op |-> "purge"], [op |-> "add_link", link |-> q.new]>>, Unchanged)
          EXCEPT !.mails = {q.new}]

PostLogout(q, doc) == Does(<<>>, [session |-> Nothing])

GetEnroll(q, doc) ==
  IF doc.secret = NoSecret THEN Refused
  ELSE [Does(<<>>, Unchanged) EXCEPT !.shows = doc.secret]

CodeIsRight(q, doc) == doc.secret # NoSecret /\ app[q.by] = doc.secret

PostEnroll(q, doc) ==
  IF CodeIsRight(q, doc)
    THEN Does(<<[op |-> "mark_enrolled"]>>, [session |-> Admin, enroll |-> Nothing])
    ELSE Refused

\* The other form of that page, after a reset: a new secret.
PostEnrollNew(q, doc) ==
  [Does(<<[op |-> "set_secret", secret |-> q.new]>>, [enroll |-> Admin])
     EXCEPT !.shows = q.new]

PostVerify(q, doc) ==
  IF ~CodeIsRight(q, doc) THEN Refused
  ELSE IF q.new = Nothing THEN Does(<<>>, [session |-> Admin, pending |-> Nothing])
  ELSE Does(<<[op |-> "add_device", device |-> q.new]>>,
            [session |-> Admin, pending |-> Nothing, trusted |-> q.new])

GetReset(q, doc) == Does(<<[op |-> "consume_link", link |-> q.arg]>>, [session |-> Admin])

\* _peek_invite_token: good now; nothing is consumed.
Peek(i, doc) == i \in doc.invites \ (doc.consumed \cup expired)

GetAccept(q, doc) ==
  IF Peek(q.arg, doc)
    THEN Does(<<>>, [wizard |-> <<"password", q.arg>>]) ELSE Refused

PostAccept(q, doc) ==
  Does(<<[op |-> "consume_invite", invite |-> q.arg, uid |-> q.new]>>,
       [wizard |-> <<"totp", q.arg>>, enroll |-> Admin])

GetDevicePage(q, doc) == Does(<<>>, [wizard |-> <<"device", q.arg>>])

PostDevicePage(q, doc) ==
  IF q.new = Nothing THEN Does(<<>>, [wizard |-> Nothing])
  ELSE Does(<<[op |-> "add_device", device |-> q.new]>>,
            [wizard |-> Nothing, trusted |-> q.new])

\* The check of the trusted-device cookie, on any page: is_uuid_active, then
\* update_last_seen.
TryCookie(q, doc) ==
  IF q.arg \in doc.devices \ doc.revoked
    THEN Does(<<[op |-> "touch_device", device |-> q.arg]>>, Unchanged) ELSE Refused

PostRevoke(q, doc) == Does(<<[op |-> "revoke_device", device |-> q.arg]>>, Unchanged)

PostRevokeAll(q, doc) ==
  Does(<<IF q.arg = Nothing THEN [op |-> "revoke_all"]
         ELSE [op |-> "revoke_others", device |-> q.arg]>>, Unchanged)

\* require_admin.
IsAdmin(doc) == Admin \in Rows(doc) \ doc.disabled

PostInvite(q, doc) ==
  IF ~IsAdmin(doc) THEN Refused
  ELSE [Does(<<[op |-> "mint", invite |-> q.new]>>, Unchanged) EXCEPT !.mails = {q.new}]

DeleteInvite(q, doc) ==
  IF IsAdmin(doc) THEN Does(<<[op |-> "revoke_invite", invite |-> q.arg]>>, Unchanged)
  ELSE Refused

PatchUser(q, doc) ==
  IF IsAdmin(doc) THEN Does(<<[op |-> q.op, uid |-> q.arg]>>, Unchanged) ELSE Refused

Handled(q, doc) ==
  CASE q.op = "login" -> PostLogin(q, doc)
    [] q.op = "forgot" -> PostForgot(q, doc)
    [] q.op = "logout" -> PostLogout(q, doc)
    [] q.op = "show_enroll" -> GetEnroll(q, doc)
    [] q.op = "enroll" -> PostEnroll(q, doc)
    [] q.op = "choose_new" -> PostEnrollNew(q, doc)
    [] q.op = "verify" -> PostVerify(q, doc)
    [] q.op = "reset" -> GetReset(q, doc)
    [] q.op = "peek" -> GetAccept(q, doc)
    [] q.op = "accept" -> PostAccept(q, doc)
    [] q.op = "device_page" -> GetDevicePage(q, doc)
    [] q.op = "finish" -> PostDevicePage(q, doc)
    [] q.op = "touch" -> TryCookie(q, doc)
    [] q.op = "revoke" -> PostRevoke(q, doc)
    [] q.op = "revoke_all" -> PostRevokeAll(q, doc)
    [] q.op = "invite" -> PostInvite(q, doc)
    [] q.op = "revoke_invite" -> DeleteInvite(q, doc)
    [] q.op \in {"disable", "enable"} -> PatchUser(q, doc)

\* Requests whose handler, or the check before it, reads auth.json and decides
\* before the first helper writes.
Looks == {"login", "show_enroll", "enroll", "verify", "forgot", "touch",
          "invite", "revoke_invite", "disable", "enable", "peek"}

\* _require_cookie_session_or_403, and the middleware's own check.
HasSession(q) == jar[q.by]["session"] # Nothing

\* The cookie, or the mailed token, without which a request is turned away.
Admitted(q) ==
  LET cookies == jar[q.by] IN
  CASE q.op \in {"login", "forgot"} -> TRUE
    [] q.op \in {"show_enroll", "enroll"} -> cookies["enroll"] # Nothing
    [] q.op = "verify" -> cookies["pending"] # Nothing
    [] q.op = "reset" -> q.arg \in mailbox \ expired
    [] q.op = "peek" -> q.arg \in mailbox
    [] q.op = "accept" -> cookies["wizard"] = <<"password", q.arg>>
    [] q.op = "device_page" ->
         cookies["wizard"] \in {<<"totp", q.arg>>, <<"device", q.arg>>}
    [] q.op = "finish" -> cookies["wizard"] = <<"device", q.arg>>
    [] q.op = "touch" -> cookies["session"] = Nothing /\ cookies["trusted"] = q.arg
    [] q.op = "revoke" -> HasSession(q) /\ q.arg \in Readable.devices
    [] q.op = "revoke_all" -> HasSession(q) /\ q.arg = cookies["trusted"]
    [] OTHER -> HasSession(q)

-----------------------------------------------------------------------------
(* Requests, by route.  "new" is what the handler would draw at random. *)

\* A value of the set that nobody has drawn yet.
Draw(S) == IF S \ issued = {} THEN {} ELSE {CHOOSE x \in S \ issued : TRUE}

Request(ops, args, new) ==
  [op: ops, by: Browsers, arg: args, new: IF new = {Nothing} THEN new ELSE Draw(new)]

Requests ==
  Request({"login", "choose_new"}, {Nothing}, Secrets)
  \cup Request({"show_enroll", "enroll", "verify", "logout"}, {Nothing}, {Nothing})
  \cup Request({"verify"}, {Nothing}, Devices)
  \cup Request({"forgot"}, {Nothing}, Links)
  \cup Request({"reset"}, Links, {Nothing})
  \cup Request({"accept"}, Invites, Uids)
  \cup Request({"peek", "device_page", "finish", "revoke_invite"}, Invites, {Nothing})
  \cup Request({"finish"}, Invites, Devices)
  \cup Request({"touch", "revoke"}, Devices, {Nothing})
  \cup Request({"revoke_all"}, Devices \cup {Nothing}, {Nothing})
  \cup Request({"invite"}, {Nothing}, Invites)
  \cup Request({"disable", "enable"}, Uids \ {Admin}, {Nothing})

NoRequest == [op |-> "none", by |-> Nothing, arg |-> Nothing, new |-> Nothing]

\* A handler begins on an idle thread.  A link and an invite get their date.
Start(t, q) ==
  /\ pc[t] = "idle" /\ asked < MaxRequests
  /\ Admitted(q)
  /\ LET handling == IF q.op \in Looks
                        THEN Does(<<[op |-> "look"]>>, Unchanged)
                        ELSE Handled(q, DefaultDoc)
     IN  /\ todo' = [todo EXCEPT ![t] = handling.calls]
         /\ out' = [out EXCEPT ![t] = handling]
  /\ asked' = asked + 1
  /\ req' = [req EXCEPT ![t] = q]
  /\ issued' = issued \cup ({q.new} \ {Nothing})
  /\ born' = IF q.new \in DOMAIN born THEN [born EXCEPT ![q.new] = now] ELSE born
  /\ pc' = [pc EXCEPT ![t] = "start"]
  /\ UNCHANGED <<fileVars, copy, opened, applied, historyVars,
                 now, jar, app, mailbox, verified, dropped>>

\* What the look found decides the calls and the answer.
Decide(t) ==
  /\ pc[t] = "edit" /\ Call(t).op = "look"
  /\ LET handling == Handled(req[t], copy[t])
     IN  /\ todo' = [todo EXCEPT ![t] = handling.calls]
         /\ out' = [out EXCEPT ![t] = handling]
         /\ verified' = IF handling.ok /\ req[t].op = "enroll"
                          THEN verified \cup {copy[t].secret} ELSE verified
  /\ pc' = [pc EXCEPT ![t] = "call"]
  /\ UNCHANGED <<fileVars, copy, opened, applied, historyVars,
                 asked, now, born, req, jar, app, mailbox, issued, dropped>>

\* The thread's local variables are gone.
Forget(T) ==
  /\ pc' = [t \in Threads |-> IF t \in T THEN "idle" ELSE pc[t]]
  /\ todo' = [t \in Threads |-> IF t \in T THEN <<>> ELSE todo[t]]
  /\ copy' = [t \in Threads |-> IF t \in T THEN DefaultDoc ELSE copy[t]]
  /\ opened' = [t \in Threads |-> IF t \in T THEN NoFile ELSE opened[t]]
  /\ applied' = [t \in Threads |-> IF t \in T THEN TRUE ELSE applied[t]]
  /\ stale' = [t \in Threads |-> IF t \in T THEN FALSE ELSE stale[t]]
  /\ behind' = [t \in Threads |-> IF t \in T THEN {} ELSE behind[t]]
  /\ req' = [t \in Threads |-> IF t \in T THEN NoRequest ELSE req[t]]
  /\ out' = [t \in Threads |-> IF t \in T THEN Refused ELSE out[t]]

\* send_magic_link_email and send_invite_email never raise: a mail arrives or
\* it does not, and the handler's answer is the same.
Delivered(mails) == SUBSET mails

\* The answer: cookies, the page that shows a secret, the mail before it.  A
\* consume that found nothing to consume answers with an error page; the other
\* handlers do not ask whether their helper found its row.
Reply(t) ==
  /\ pc[t] \in {"start", "call"} /\ todo[t] = <<>>
  /\ LET b == req[t].by
         granted == out[t].ok /\ (applied[t] \/ req[t].op \notin {"reset", "accept"})
     IN  /\ jar' = IF granted
                     THEN [jar EXCEPT ![b] = [n \in Names |->
                            IF n \in DOMAIN out[t].set THEN out[t].set[n] ELSE @[n]]]
                     ELSE jar
         /\ app' = IF out[t].shows # NoSecret
                     THEN [app EXCEPT ![b] = out[t].shows] ELSE app
         /\ \E mails \in Delivered(out[t].mails) : mailbox' = mailbox \cup mails
         /\ dropped' = IF req[t].op = "revoke" THEN dropped \cup {req[t].arg} ELSE dropped
  /\ Forget({t})
  /\ UNCHANGED <<fileVars, overtaken, disturbed, used, reused,
                 asked, now, born, issued, verified>>

Work(t) == StoreStep(t, expired, aged) /\ UNCHANGED webVars

Tick ==
  /\ now < MaxTime
  /\ now' = now + 1
  /\ UNCHANGED <<storeVars, asked, born, req, out, jar, app, mailbox, issued, verified, dropped>>

\* The web process is restarted: no handler goes on, no answer is sent.
Restart ==
  /\ Forget(Threads)
  /\ UNCHANGED <<fileVars, overtaken, disturbed, used, reused, asked, now, born,
                 jar, app, mailbox, issued, verified, dropped>>

Init ==
  /\ \E s \in Starts :
       /\ file = s.file /\ jar = s.jar /\ app = s.app /\ mailbox = s.mailbox
       /\ issued = s.issued /\ verified = s.verified
  /\ inode = 0
  /\ pc = [t \in Threads |-> "idle"]
  /\ todo = [t \in Threads |-> <<>>]
  /\ copy = [t \in Threads |-> DefaultDoc]
  /\ opened = [t \in Threads |-> NoFile]
  /\ applied = [t \in Threads |-> TRUE]
  /\ stale = [t \in Threads |-> FALSE]
  /\ behind = [t \in Threads |-> {}] /\ overtaken = {}
  /\ disturbed = {} /\ used = {} /\ reused = {} /\ dropped = {}
  /\ asked = 0 /\ now = 0
  /\ born = [x \in Links \cup Invites |-> 0]
  /\ req = [t \in Threads |-> NoRequest]
  /\ out = [t \in Threads |-> Refused]

Next ==
  \/ \E t \in Threads : Work(t) \/ Decide(t) \/ Reply(t) \/ \E q \in Requests : Start(t, q)
  \/ Tick
  \/ Restart

Spec == Init /\ [][Next]_vars

-----------------------------------------------------------------------------
WebTypeOK ==
  /\ asked \in Nat /\ now \in Nat
  /\ born \in [Links \cup Invites -> Nat]
  /\ out \in [Threads -> Handling]
  /\ jar \in [Browsers -> [Names -> Cookies]]
  /\ app \in [Browsers -> Secrets \cup {NoSecret}]
  /\ mailbox \subseteq Links \cup Invites
  /\ verified \subseteq Secrets
  /\ dropped \subseteq Devices

TypeOK == StoreTypeOK /\ WebTypeOK

\* Login asks for a code of the secret on file only when somebody has proved
\* that his authenticator holds it: set_totp_secret takes the mark back.  Only
\* a request that had read the file before this secret was there and wrote
\* after, as a mark_enrolled does whose code was of the one before, tears this.
EnrolledWasVerified ==
  Readable.enrolled /\ Readable.secret \notin overtaken => Readable.secret \in verified

\* A device whose revocation was acknowledged is let in again only when a
\* helper that had loaded it unrevoked wrote after the revocation: every
\* last_seen bump of a device is such a helper.  No other write undoes it.
RevokedStaysRevoked == dropped \cap Active(Readable) \subseteq overtaken

=============================================================================
