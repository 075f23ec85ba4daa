----------------------------- MODULE SignInProofs -----------------------------
(***************************************************************************)
(* Theorems about SignIn, for every number of threads and browsers, all    *)
(* sets of secrets, devices, links and invitations, and every bound.       *)
(***************************************************************************)
EXTENDS SignIn, TLAPS, FiniteSetTheorems

-----------------------------------------------------------------------------
(* The documents.                                                           *)

\* What can still be used, besides the devices of Active and the links of Live.
Offered(doc) == doc.invites \ doc.consumed

Held(doc) == doc.devices \cup doc.links \cup doc.invites

\* The row a call adds.
Adds(call) ==
  IF call.op = "add_device" THEN {call.device}
  ELSE IF call.op = "add_link" THEN {call.link}
  ELSE IF call.op = "mint" THEN {call.invite} ELSE {}

LEMMA DefaultIsDoc ==
  /\ DefaultDoc \in Docs /\ DefaultDoc.version = 2 /\ ~DefaultDoc.enrolled /\ DefaultDoc.users = {}
  /\ DefaultDoc.secret = NoSecret
  /\ Live(DefaultDoc) = {} /\ Active(DefaultDoc) = {} /\ Offered(DefaultDoc) = {}
  /\ Accepted(DefaultDoc) = {}
  /\ Held(DefaultDoc) = {} /\ OneUserPerInviteIn(DefaultDoc)
BY DEF DefaultDoc, Docs, Live, Active, Offered, Accepted, Held, OneUserPerInviteIn

\* What a copy may lack.
LEMMA MissedTokens ==
  ASSUME NEW old \in Docs, NEW doc \in Docs
  PROVE  Missed(old, doc) \subseteq Tokens
<1>1. Active(old) \subseteq Devices /\ Live(old) \subseteq Links
      /\ doc.secret \in Secrets \cup {NoSecret}
  BY DEF Active, Live, Docs
<1>2. Accepted(doc) \subseteq Invites \cup {Admin}
  <2> SUFFICES ASSUME NEW u \in doc.users PROVE u[2] \in Invites \cup {Admin}
    BY DEF Accepted
  <2>1. doc.users \subseteq Uids \X (Invites \cup {Admin})
    BY DEF Docs
  <2> QED BY <2>1
<1> QED BY <1>1, <1>2 DEF Missed, Tokens

LEMMA NothingMissed == ASSUME NEW doc PROVE Missed(doc, doc) = {}
BY DEF Missed

LEMMA NormalisedDoc ==
  ASSUME NEW doc \in Docs
  PROVE  /\ Normalised(doc) \in Docs /\ Normalised(doc).version = 2
         /\ Normalised(doc).users = doc.users /\ Normalised(doc).secret = doc.secret
         /\ Normalised(doc).enrolled = doc.enrolled
         /\ Held(Normalised(doc)) = Held(doc)
         /\ OneUserPerInviteIn(doc) => OneUserPerInviteIn(Normalised(doc))
         /\ doc.version = 2 => Normalised(doc) = doc
<1>1. /\ Normalised(doc) \in Docs /\ Normalised(doc).version = 2
      /\ Normalised(doc).users = doc.users /\ Normalised(doc).secret = doc.secret
      /\ Normalised(doc).enrolled = doc.enrolled /\ Normalised(doc).consumed = doc.consumed
      /\ Normalised(doc).devices = doc.devices /\ Normalised(doc).links = doc.links
      /\ Normalised(doc).invites = doc.invites
  BY DEF Normalised, Docs
<1>2. doc.version = 2 => Normalised(doc) = doc
  BY DEF Normalised, Docs
<1> QED BY <1>1, <1>2 DEF Held, OneUserPerInviteIn

\* What an edit makes of a document, whichever the call.
EditOf(call, doc, new) ==
  /\ new \in Docs /\ new.version = doc.version
  /\ call.op = "set_secret" => ~new.enrolled
  /\ call.op # "set_secret" => new.secret = doc.secret
  /\ call.op \notin {"set_secret", "mark_enrolled"} => new.enrolled = doc.enrolled
  /\ Active(new) \subseteq Active(doc) \cup Adds(call)
  /\ Live(new) \subseteq Live(doc) \cup Adds(call)
  /\ Offered(new) \subseteq Offered(doc) \cup Adds(call)
  /\ Held(new) \subseteq Held(doc) \cup Adds(call)
  /\ call.op = "revoke_device" => call.device \notin Active(new)
  /\ call.op = "consume_link" => call.link \notin Live(new)
  /\ call.op = "consume_invite" => call.invite \notin Offered(new) /\ call.invite \in new.consumed
                                   /\ new.users = doc.users \cup {<<call.uid, call.invite>>}
  /\ call.op # "consume_invite" => new.users = doc.users
  /\ doc.consumed \subseteq new.consumed

LEMMA OpsOf ==
  ASSUME NEW call
  PROVE  /\ call \in SecretCalls => call.op \in {"look", "mark_enrolled", "set_secret"}
         /\ call \in DeviceCalls => call.op \in {"add_device", "touch_device", "revoke_device",
                                                "revoke_others", "revoke_all"}
         /\ call \in LinkCalls => call.op \in {"purge", "add_link", "consume_link"}
         /\ call \in UserCalls => call.op \in {"mint", "revoke_invite", "consume_invite",
                                              "disable", "enable"}
BY DEF SecretCalls, DeviceCalls, LinkCalls, UserCalls

LEMMA EditedDoc ==
  ASSUME NEW call \in Calls, NEW doc \in Docs, NEW old
  PROVE  EditOf(call, doc, Edited(call, doc, old))
<1>1. CASE call \in SecretCalls
  <2>1. Edited(call, doc, old) = SecretEdited(call, doc)
    BY <1>1, OpsOf DEF Edited
  <2>2. CASE call.op = "set_secret"
    <3>1. SecretEdited(call, doc) = [doc EXCEPT !.secret = call.secret, !.enrolled = FALSE]
          /\ call.secret \in Secrets
      BY <1>1, <2>2 DEF SecretEdited, SecretCalls
    <3> DEFINE new == Edited(call, doc, old)
    <3>2. new = [doc EXCEPT !.secret = call.secret, !.enrolled = FALSE]
      BY <2>1, <3>1
    <3> HIDE DEF new
    <3>3. new \in Docs
      BY <3>1, <3>2 DEF Docs
    <3>4. /\ new.secret = call.secret /\ new.enrolled = FALSE
      BY <3>2 DEF Docs
    <3>5. /\ new.version = doc.version /\ new.devices = doc.devices
          /\ new.revoked = doc.revoked /\ new.links = doc.links /\ new.spent = doc.spent
      BY <3>2 DEF Docs
    <3>6. /\ new.invites = doc.invites /\ new.consumed = doc.consumed
          /\ new.users = doc.users /\ new.disabled = doc.disabled
      BY <3>2 DEF Docs
    <3>7. EditOf(call, doc, new)
      BY <2>2, <3>1, <3>3, <3>4, <3>5, <3>6 DEF EditOf, Live, Active, Offered, Held, Adds
    <3> QED BY <3>7 DEF new
  <2>3. CASE call.op = "mark_enrolled"
    <3>1. SecretEdited(call, doc) = [doc EXCEPT !.enrolled = TRUE]
      BY <1>1, <2>3 DEF SecretEdited, SecretCalls
    <3> DEFINE new == Edited(call, doc, old)
    <3>2. new = [doc EXCEPT !.enrolled = TRUE]
      BY <2>1, <3>1
    <3> HIDE DEF new
    <3>3. new \in Docs
      BY <3>1, <3>2 DEF Docs
    <3>4. new.enrolled = TRUE
      BY <3>2 DEF Docs
    <3>5. /\ new.version = doc.version /\ new.secret = doc.secret
          /\ new.devices = doc.devices /\ new.revoked = doc.revoked /\ new.links = doc.links
      BY <3>2 DEF Docs
    <3>6. /\ new.spent = doc.spent /\ new.invites = doc.invites
          /\ new.consumed = doc.consumed /\ new.users = doc.users
          /\ new.disabled = doc.disabled
      BY <3>2 DEF Docs
    <3>7. EditOf(call, doc, new)
      BY <2>3, <3>1, <3>3, <3>4, <3>5, <3>6 DEF EditOf, Live, Active, Offered, Held, Adds
    <3> QED BY <3>7 DEF new
  <2>4. CASE call.op = "look"
    <3>1. SecretEdited(call, doc) = doc
      BY <1>1, <2>4 DEF SecretEdited, SecretCalls
    <3> QED BY <2>1, <2>4, <3>1 DEF EditOf, Docs, Live, Active, Offered, Held, Adds
  <2> QED BY <1>1, <2>2, <2>3, <2>4 DEF SecretCalls
<1>2. CASE call \in DeviceCalls
  <2>1. Edited(call, doc, old) = DeviceEdited(call, doc)
    BY <1>2, OpsOf DEF Edited
  <2>2. CASE call.op = "add_device"
    <3>1. DeviceEdited(call, doc) = [doc EXCEPT !.devices = doc.devices \cup {call.device}]
          /\ call.device \in Devices
      BY <1>2, <2>2 DEF DeviceEdited, DeviceCalls
    <3> QED BY <2>1, <2>2, <3>1 DEF EditOf, Docs, Live, Active, Offered, Held, Adds
  <2>3. CASE call.op = "touch_device"
    <3>1. DeviceEdited(call, doc) = doc
      BY <1>2, <2>3 DEF DeviceEdited, DeviceCalls
    <3> QED BY <2>1, <2>3, <3>1 DEF EditOf, Docs, Live, Active, Offered, Held, Adds
  <2>4. CASE call.op \in {"revoke_device", "revoke_others", "revoke_all"}
    <3>1. PICK gone \in SUBSET Devices :
            /\ DeviceEdited(call, doc) = [doc EXCEPT !.revoked = gone]
            /\ doc.revoked \cap doc.devices \subseteq gone
            /\ call.op = "revoke_device" => call.device \in gone
      <4>1. CASE call.op = "revoke_device"
        <5>1. /\ DeviceEdited(call, doc) = [doc EXCEPT !.revoked = doc.revoked \cup {call.device}]
              /\ call.device \in Devices
          BY <1>2, <4>1 DEF DeviceEdited, DeviceCalls
        <5> QED BY <4>1, <5>1 DEF Docs
      <4>2. CASE call.op = "revoke_others"
        <5>1. DeviceEdited(call, doc) =
                [doc EXCEPT !.revoked = doc.revoked \cup (doc.devices \ {call.device})]
          BY <1>2, <4>2 DEF DeviceEdited, DeviceCalls
        <5>2. doc.revoked \cup (doc.devices \ {call.device}) \in SUBSET Devices
          BY DEF Docs
        <5> QED BY <4>2, <5>1, <5>2
      <4>3. CASE call.op = "revoke_all"
        <5>1. DeviceEdited(call, doc) = [doc EXCEPT !.revoked = doc.devices]
          BY <1>2, <4>3 DEF DeviceEdited, DeviceCalls
        <5> QED BY <4>3, <5>1 DEF Docs
      <4> QED BY <2>4, <4>1, <4>2, <4>3
    <3> QED BY <2>1, <2>4, <3>1 DEF EditOf, Docs, Live, Active, Offered, Held, Adds
  <2> QED BY <1>2, <2>2, <2>3, <2>4 DEF DeviceCalls
<1>3. CASE call \in LinkCalls
  <2>1. Edited(call, doc, old) = LinkEdited(call, doc, old)
    BY <1>3, OpsOf DEF Edited
  <2>2. CASE call.op = "add_link"
    <3>1. LinkEdited(call, doc, old) = [doc EXCEPT !.links = doc.links \cup {call.link}]
          /\ call.link \in Links
      BY <1>3, <2>2 DEF LinkEdited, LinkCalls
    <3> QED BY <2>1, <2>2, <3>1 DEF EditOf, Docs, Live, Active, Offered, Held, Adds
  <2>3. CASE call.op = "consume_link"
    <3>1. LinkEdited(call, doc, old) = [doc EXCEPT !.spent = doc.spent \cup {call.link}]
          /\ call.link \in Links
      BY <1>3, <2>3 DEF LinkEdited, LinkCalls
    <3> QED BY <2>1, <2>3, <3>1 DEF EditOf, Docs, Live, Active, Offered, Held, Adds
  <2>4. CASE call.op = "purge"
    <3>1. LinkEdited(call, doc, old) = [doc EXCEPT !.links = doc.links \ old, !.spent = doc.spent \ old]
      BY <1>3, <2>4 DEF LinkEdited, LinkCalls
    <3> DEFINE new == Edited(call, doc, old)
    <3>2. new = [doc EXCEPT !.links = doc.links \ old, !.spent = doc.spent \ old]
      BY <2>1, <3>1
    <3> HIDE DEF new
    <3>3. new \in Docs
      BY <3>1, <3>2 DEF Docs
    <3>4. /\ new.links = doc.links \ old /\ new.spent = doc.spent \ old
      BY <3>2 DEF Docs
    <3>5. /\ new.version = doc.version /\ new.secret = doc.secret
          /\ new.enrolled = doc.enrolled /\ new.devices = doc.devices
          /\ new.revoked = doc.revoked
      BY <3>2 DEF Docs
    <3>6. /\ new.invites = doc.invites /\ new.consumed = doc.consumed
          /\ new.users = doc.users /\ new.disabled = doc.disabled
      BY <3>2 DEF Docs
    <3>7. EditOf(call, doc, new)
      BY <2>4, <3>1, <3>3, <3>4, <3>5, <3>6 DEF EditOf, Live, Active, Offered, Held, Adds
    <3> QED BY <3>7 DEF new
  <2> QED BY <1>3, <2>2, <2>3, <2>4 DEF LinkCalls
<1>4. CASE call \in UserCalls
  <2>1. Edited(call, doc, old) = UserEdited(call, doc)
    BY <1>4, OpsOf DEF Edited
  <2>2. CASE call.op = "mint"
    <3>1. UserEdited(call, doc) = [doc EXCEPT !.invites = doc.invites \cup {call.invite}]
          /\ call.invite \in Invites
      BY <1>4, <2>2 DEF UserEdited, UserCalls
    <3> QED BY <2>1, <2>2, <3>1 DEF EditOf, Docs, Live, Active, Offered, Held, Adds
  <2>3. CASE call.op = "revoke_invite"
    <3>1. UserEdited(call, doc) = [doc EXCEPT !.consumed = doc.consumed \cup {call.invite}]
          /\ call.invite \in Invites
      BY <1>4, <2>3 DEF UserEdited, UserCalls
    <3> QED BY <2>1, <2>3, <3>1 DEF EditOf, Docs, Live, Active, Offered, Held, Adds
  <2>4. CASE call.op = "consume_invite"
    <3>1. UserEdited(call, doc) = [doc EXCEPT !.consumed = doc.consumed \cup {call.invite},
                                              !.users = doc.users \cup {<<call.uid, call.invite>>}]
          /\ call.invite \in Invites /\ call.uid \in Uids
      BY <1>4, <2>4 DEF UserEdited, UserCalls
    <3> DEFINE new == Edited(call, doc, old)
    <3>2. new = [doc EXCEPT !.consumed = doc.consumed \cup {call.invite},
                              !.users = doc.users \cup {<<call.uid, call.invite>>}]
      BY <2>1, <3>1
    <3> HIDE DEF new
    <3>3. new \in Docs
      <4>1. /\ doc.consumed \cup {call.invite} \in SUBSET Invites
            /\ doc.users \cup {<<call.uid, call.invite>>} \in SUBSET (Uids \X (Invites \cup {Admin}))
        BY <3>1 DEF Docs
      <4> QED BY <3>2, <4>1 DEF Docs
    <3>4. /\ new.consumed = doc.consumed \cup {call.invite}
          /\ new.users = doc.users \cup {<<call.uid, call.invite>>}
      BY <3>2 DEF Docs
    <3>5. /\ new.version = doc.version /\ new.secret = doc.secret
          /\ new.enrolled = doc.enrolled /\ new.devices = doc.devices
          /\ new.revoked = doc.revoked
      BY <3>2 DEF Docs
    <3>6. /\ new.links = doc.links /\ new.spent = doc.spent /\ new.invites = doc.invites
          /\ new.disabled = doc.disabled
      BY <3>2 DEF Docs
    <3>7. EditOf(call, doc, new)
      BY <2>4, <3>1, <3>3, <3>4, <3>5, <3>6 DEF EditOf, Live, Active, Offered, Held, Adds
    <3> QED BY <3>7 DEF new
  <2>5. CASE call.op \in {"disable", "enable"}
    <3>1. PICK off \in SUBSET Uids : UserEdited(call, doc) = [doc EXCEPT !.disabled = off]
      <4>1. CASE call.op = "disable"
        <5>1. /\ UserEdited(call, doc) = [doc EXCEPT !.disabled = doc.disabled \cup {call.uid}]
              /\ call.uid \in Uids
          BY <1>4, <4>1 DEF UserEdited, UserCalls
        <5> QED BY <5>1 DEF Docs
      <4>2. CASE call.op = "enable"
        <5>1. UserEdited(call, doc) = [doc EXCEPT !.disabled = doc.disabled \ {call.uid}]
          BY <1>4, <4>2 DEF UserEdited, UserCalls
        <5> QED BY <5>1 DEF Docs
      <4> QED BY <2>5, <4>1, <4>2
    <3> QED BY <2>1, <2>5, <3>1 DEF EditOf, Docs, Live, Active, Offered, Held, Adds
  <2> QED BY <1>4, <2>2, <2>3, <2>4, <2>5 DEF UserCalls
<1> QED BY <1>1, <1>2, <1>3, <1>4 DEF Calls


-----------------------------------------------------------------------------
(* The handlers: what their requests, plans and answers look like.          *)

\* A request, whatever it draws.
Asks(ops, args, new) == [op: ops, by: Browsers, arg: args, new: new]

Kinds ==
  Asks({"login", "choose_new"}, {Nothing}, Secrets)
  \cup Asks({"show_enroll", "enroll", "verify", "logout"}, {Nothing}, {Nothing})
  \cup Asks({"verify"}, {Nothing}, Devices)
  \cup Asks({"forgot"}, {Nothing}, Links)
  \cup Asks({"reset"}, Links, {Nothing})
  \cup Asks({"accept"}, Invites, Uids)
  \cup Asks({"peek", "device_page", "finish", "revoke_invite"}, Invites, {Nothing})
  \cup Asks({"finish"}, Invites, Devices)
  \cup Asks({"touch", "revoke"}, Devices, {Nothing})
  \cup Asks({"revoke_all"}, Devices \cup {Nothing}, {Nothing})
  \cup Asks({"invite"}, {Nothing}, Invites)
  \cup Asks({"disable", "enable"}, Uids \ {Admin}, {Nothing})

LEMMA DrawnOnce ==
  ASSUME NEW S PROVE Draw(S) \subseteq S \ issued
<1>1. CASE S \ issued = {} BY <1>1 DEF Draw
<1>2. CASE S \ issued # {}
  <2>1. (CHOOSE x \in S \ issued : TRUE) \in S \ issued BY <1>2
  <2> QED BY <1>2, <2>1 DEF Draw
<1> QED BY <1>1, <1>2

LEMMA RequestIsKind ==
  ASSUME NEW q \in Requests
  PROVE  q \in Kinds /\ (q.new = Nothing \/ q.new \notin issued)
<1>1. ASSUME NEW ops, NEW args, NEW new, q \in Request(ops, args, new)
      PROVE  q \in Asks(ops, args, new) /\ (q.new = Nothing \/ q.new \notin issued)
  <2>1. /\ (IF new = {Nothing} THEN new ELSE Draw(new)) \subseteq new
        /\ q.new \in (IF new = {Nothing} THEN new ELSE Draw(new))
        /\ q \in [op: ops, by: Browsers, arg: args, new: IF new = {Nothing} THEN new ELSE Draw(new)]
    BY <1>1, DrawnOnce DEF Request
  <2>2. q.new = Nothing \/ q.new \notin issued
    BY <2>1, DrawnOnce
  <2> QED BY <2>1, <2>2 DEF Asks
<1>2. CASE \/ q \in Request({"login", "choose_new"}, {Nothing}, Secrets)
           \/ q \in Request({"show_enroll", "enroll", "verify", "logout"}, {Nothing}, {Nothing})
           \/ q \in Request({"verify"}, {Nothing}, Devices)
  BY <1>1, <1>2 DEF Kinds
<1>3. CASE \/ q \in Request({"forgot"}, {Nothing}, Links)
           \/ q \in Request({"reset"}, Links, {Nothing})
           \/ q \in Request({"accept"}, Invites, Uids)
  BY <1>1, <1>3 DEF Kinds
<1>4. CASE \/ q \in Request({"peek", "device_page", "finish", "revoke_invite"}, Invites, {Nothing})
           \/ q \in Request({"finish"}, Invites, Devices)
           \/ q \in Request({"touch", "revoke"}, Devices, {Nothing})
  BY <1>1, <1>4 DEF Kinds
<1>5. CASE \/ q \in Request({"revoke_all"}, Devices \cup {Nothing}, {Nothing})
           \/ q \in Request({"invite"}, {Nothing}, Invites)
           \/ q \in Request({"disable", "enable"}, Uids \ {Admin}, {Nothing})
  BY <1>1, <1>5 DEF Kinds
<1> QED BY <1>2, <1>3, <1>4, <1>5 DEF Requests

\* What a request's calls have to do with it: only a purge is followed by
\* another call; what is added is what was drawn; consume_and_create_user is
\* called by the wizard alone, mark_enrolled by the enrolment page alone.
Planned(q, calls) ==
  /\ calls \in Seq(Calls)
  /\ \A k \in 1 .. Len(calls) :
       /\ k < Len(calls) => calls[k].op = "purge"
       /\ Adds(calls[k]) \subseteq {q.new} \ {Nothing}
       /\ calls[k].op = "consume_invite" => q.op = "accept"
       /\ calls[k].op = "mark_enrolled" => q.op = "enroll"
       /\ calls[k].op = "purge" => q.op = "forgot"
       /\ q.op = "revoke" => calls[k].op = "revoke_device" /\ calls[k].device = q.arg

LEMMA NonePlanned == ASSUME NEW q PROVE Planned(q, <<>>)
BY DEF Planned

LEMMA OnePlanned ==
  ASSUME NEW q, NEW call \in Calls,
         Adds(call) \subseteq {q.new} \ {Nothing},
         call.op = "consume_invite" => q.op = "accept",
         call.op = "mark_enrolled" => q.op = "enroll", call.op = "purge" => q.op = "forgot",
         q.op = "revoke" => call.op = "revoke_device" /\ call.device = q.arg
  PROVE  Planned(q, <<call>>)
BY DEF Planned

LEMMA KindOf ==
  ASSUME NEW q \in Kinds
  PROVE  /\ q.by \in Browsers
         /\ q.op \in {"login", "choose_new"} => q.new \in Secrets
         /\ q.op = "verify" => q.new \in Devices \cup {Nothing}
         /\ q.op = "forgot" => q.new \in Links
         /\ q.op = "reset" => q.arg \in Links
         /\ q.op = "accept" => q.arg \in Invites /\ q.new \in Uids
         /\ q.op \in {"peek", "device_page", "finish", "revoke_invite"} => q.arg \in Invites
         /\ q.op = "finish" => q.new \in Devices \cup {Nothing}
         /\ q.op \in {"touch", "revoke"} => q.arg \in Devices
         /\ q.op = "revoke_all" => q.arg \in Devices \cup {Nothing}
         /\ q.op = "invite" => q.new \in Invites
         /\ q.op \in {"disable", "enable"} => q.arg \in Uids
         /\ q.op \in {"login", "choose_new", "show_enroll", "enroll", "verify", "logout", "forgot",
                      "reset", "accept", "peek", "device_page", "finish", "revoke_invite", "touch",
                      "revoke", "revoke_all", "invite", "disable", "enable"}
BY DEF Kinds, Asks

\* The cookies an answer may set.
Sets == UNION {[N -> Cookies] : N \in SUBSET Names}

LEMMA DoesIs ==
  ASSUME NEW calls \in Seq(Calls), NEW set \in Sets
  PROVE  /\ Does(calls, set) \in Handling
         /\ Does(calls, set).calls = calls /\ Does(calls, set).ok
BY DEF Does, Handling, Sets

LEMMA NoCalls == <<>> \in Seq(Calls)
OBVIOUS

LEMMA UnchangedSets == Unchanged \in Sets
<1>1. Unchanged \in [{} -> Cookies] BY DEF Unchanged
<1> QED BY <1>1 DEF Sets

LEMMA RefusedIs == Refused \in Handling /\ Refused.calls = <<>> /\ ~Refused.ok
<1>1. Does(<<>>, Unchanged) \in Handling /\ Does(<<>>, Unchanged).calls = <<>>
  BY DoesIs, NoCalls, UnchangedSets
<1> QED BY <1>1 DEF Refused, Handling

\* An answer is well made.
WellMade(q, doc, handling) ==
  /\ handling \in Handling
  /\ Planned(q, handling.calls)
  /\ handling.calls # <<>> => handling.ok
  /\ handling.ok /\ q.op = "enroll" => doc.secret # NoSecret

LEMMA RefusedWell == ASSUME NEW q, NEW doc PROVE WellMade(q, doc, Refused)
BY RefusedIs, NonePlanned DEF WellMade

LEMMA DoesWell ==
  ASSUME NEW q, NEW doc, NEW calls, NEW set \in Sets,
         Planned(q, calls), q.op = "enroll" => doc.secret # NoSecret
  PROVE  WellMade(q, doc, Does(calls, set))
<1>1. calls \in Seq(Calls)
  BY DEF Planned
<1>2. Does(calls, set) \in Handling /\ Does(calls, set).calls = calls /\ Does(calls, set).ok
  BY <1>1, DoesIs
<1> QED BY <1>2 DEF WellMade

LEMMA HandledWell ==
  ASSUME NEW q \in Kinds, NEW doc \in Docs
  PROVE  WellMade(q, doc, Handled(q, doc))
<1> USE KindOf
<1>1. CASE q.op = "login"
  <2>1. /\ [enroll |-> Admin] \in Sets /\ [pending |-> Admin] \in Sets
    BY DEF Sets, Names, Cookies
  <2>2. Planned(q, <<[op |-> "set_secret", secret |-> q.new]>>)
    BY <1>1, OnePlanned, SignInAssumption DEF Adds, Calls, SecretCalls
  <2>3. WellMade(q, doc, PostLogin(q, doc))
    BY <1>1, <2>1, <2>2, NonePlanned, DoesWell DEF PostLogin
  <2> QED BY <1>1, <2>3 DEF Handled
<1>2. CASE q.op = "forgot"
  <2> DEFINE calls == <<[op |-> "purge"], [op |-> "add_link", link |-> q.new]>>
  <2>1. Planned(q, calls)
    <3>1. calls \in Seq(Calls) /\ Len(calls) = 2
      BY <1>2 DEF Calls, LinkCalls
    <3> QED BY <1>2, <3>1, SignInAssumption DEF Planned, Adds
  <2>2. Does(calls, Unchanged) \in Handling /\ Does(calls, Unchanged).calls = calls
        /\ Does(calls, Unchanged).ok
    BY <2>1, DoesIs, UnchangedSets DEF Planned
  <2> HIDE DEF calls
  <2> DEFINE handling == [Does(calls, Unchanged) EXCEPT !.mails = {q.new}]
  <2>3. handling \in Handling /\ handling.calls = calls /\ handling.ok
    BY <1>2, <2>2 DEF Handling
  <2>4. WellMade(q, doc, handling)
    BY <1>2, <2>1, <2>3 DEF WellMade
  <2> HIDE DEF handling
  <2>5. WellMade(q, doc, PostForgot(q, doc))
    BY <2>4, RefusedWell DEF PostForgot, handling, calls
  <2> QED BY <1>2, <2>5 DEF Handled
<1>3. CASE q.op = "logout"
  <2>1. [session |-> Nothing] \in Sets
    BY DEF Sets, Names, Cookies
  <2> QED BY <1>3, <2>1, NonePlanned, DoesWell DEF Handled, PostLogout
<1>4. CASE q.op = "show_enroll"
  <2> DEFINE handling == [Does(<<>>, Unchanged) EXCEPT !.shows = doc.secret]
  <2>1. Does(<<>>, Unchanged) \in Handling /\ Does(<<>>, Unchanged).calls = <<>>
    BY DoesIs, NoCalls, UnchangedSets
  <2>2. handling \in Handling /\ handling.calls = <<>>
    BY <2>1 DEF Handling, Docs
  <2>3. WellMade(q, doc, handling)
    BY <1>4, <2>2, NonePlanned DEF WellMade
  <2> HIDE DEF handling
  <2>4. WellMade(q, doc, GetEnroll(q, doc))
    BY <2>3, RefusedWell DEF GetEnroll, handling
  <2> QED BY <1>4, <2>4 DEF Handled
<1>5. CASE q.op = "enroll"
  <2>1. [session |-> Admin, enroll |-> Nothing] \in Sets
    BY DEF Sets, Names, Cookies
  <2>2. Planned(q, <<[op |-> "mark_enrolled"]>>)
    BY <1>5, OnePlanned DEF Adds, Calls, SecretCalls
  <2>3. WellMade(q, doc, PostEnroll(q, doc))
    BY <2>1, <2>2, DoesWell, RefusedWell DEF PostEnroll, CodeIsRight
  <2> QED BY <1>5, <2>3 DEF Handled
<1>6. CASE q.op = "choose_new"
  <2> DEFINE calls == <<[op |-> "set_secret", secret |-> q.new]>>
  <2>1. [enroll |-> Admin] \in Sets
    BY DEF Sets, Names, Cookies
  <2>2. Planned(q, calls)
    BY <1>6, OnePlanned DEF Adds, Calls, SecretCalls
  <2>3. Does(calls, [enroll |-> Admin]) \in Handling /\ Does(calls, [enroll |-> Admin]).calls = calls
        /\ Does(calls, [enroll |-> Admin]).ok
    BY <2>1, <2>2, DoesIs DEF Planned
  <2> HIDE DEF calls
  <2> DEFINE handling == [Does(calls, [enroll |-> Admin]) EXCEPT !.shows = q.new]
  <2>4. handling \in Handling /\ handling.calls = calls /\ handling.ok
    BY <1>6, <2>3 DEF Handling
  <2> QED BY <1>6, <2>2, <2>4 DEF WellMade, Handled, PostEnrollNew, calls
<1>7. CASE q.op = "verify"
  <2>1. /\ [session |-> Admin, pending |-> Nothing] \in Sets
        /\ q.new \in Devices => [session |-> Admin, pending |-> Nothing, trusted |-> q.new] \in Sets
    BY DEF Sets, Names, Cookies
  <2>2. q.new # Nothing => Planned(q, <<[op |-> "add_device", device |-> q.new]>>)
    BY <1>7, OnePlanned DEF Adds, Calls, DeviceCalls
  <2>3. WellMade(q, doc, PostVerify(q, doc))
    BY <1>7, <2>1, <2>2, NonePlanned, DoesWell, RefusedWell DEF PostVerify
  <2> QED BY <1>7, <2>3 DEF Handled
<1>8. CASE q.op = "reset"
  <2>1. [session |-> Admin] \in Sets
    BY DEF Sets, Names, Cookies
  <2>2. Planned(q, <<[op |-> "consume_link", link |-> q.arg]>>)
    BY <1>8, OnePlanned DEF Adds, Calls, LinkCalls
  <2> QED BY <1>8, <2>1, <2>2, DoesWell DEF Handled, GetReset
<1>9. CASE q.op = "peek"
  <2>1. [wizard |-> <<"password", q.arg>>] \in Sets
    BY <1>9 DEF Sets, Names, Cookies
  <2>2. WellMade(q, doc, GetAccept(q, doc))
    BY <1>9, <2>1, NonePlanned, DoesWell, RefusedWell DEF GetAccept
  <2> QED BY <1>9, <2>2 DEF Handled
<1>10. CASE q.op = "accept"
  <2>1. [wizard |-> <<"totp", q.arg>>, enroll |-> Admin] \in Sets
    BY <1>10 DEF Sets, Names, Cookies
  <2>2. Planned(q, <<[op |-> "consume_invite", invite |-> q.arg, uid |-> q.new]>>)
    BY <1>10, OnePlanned DEF Adds, Calls, UserCalls
  <2> QED BY <1>10, <2>1, <2>2, DoesWell DEF Handled, PostAccept
<1>11. CASE q.op = "device_page"
  <2>1. [wizard |-> <<"device", q.arg>>] \in Sets
    BY <1>11 DEF Sets, Names, Cookies
  <2> QED BY <1>11, <2>1, NonePlanned, DoesWell DEF Handled, GetDevicePage
<1>12. CASE q.op = "finish"
  <2>1. /\ [wizard |-> Nothing] \in Sets
        /\ q.new \in Devices => [wizard |-> Nothing, trusted |-> q.new] \in Sets
    BY DEF Sets, Names, Cookies
  <2>2. q.new # Nothing => Planned(q, <<[op |-> "add_device", device |-> q.new]>>)
    BY <1>12, OnePlanned DEF Adds, Calls, DeviceCalls
  <2>3. WellMade(q, doc, PostDevicePage(q, doc))
    BY <1>12, <2>1, <2>2, NonePlanned, DoesWell DEF PostDevicePage
  <2> QED BY <1>12, <2>3 DEF Handled
<1>13. CASE q.op = "touch"
  <2>1. Planned(q, <<[op |-> "touch_device", device |-> q.arg]>>)
    BY <1>13, OnePlanned DEF Adds, Calls, DeviceCalls
  <2>2. WellMade(q, doc, TryCookie(q, doc))
    BY <1>13, <2>1, UnchangedSets, DoesWell, RefusedWell DEF TryCookie
  <2> QED BY <1>13, <2>2 DEF Handled
<1>14. CASE q.op = "revoke"
  <2>1. Planned(q, <<[op |-> "revoke_device", device |-> q.arg]>>)
    BY <1>14, OnePlanned DEF Adds, Calls, DeviceCalls
  <2> QED BY <1>14, <2>1, UnchangedSets, DoesWell DEF Handled, PostRevoke
<1>15. CASE q.op = "revoke_all"
  <2> DEFINE call == IF q.arg = Nothing THEN [op |-> "revoke_all"]
                     ELSE [op |-> "revoke_others", device |-> q.arg]
  <2>1. /\ call \in Calls /\ call.op \in {"revoke_all", "revoke_others"}
    BY <1>15 DEF Calls, DeviceCalls
  <2> HIDE DEF call
  <2>2. Planned(q, <<call>>)
    BY <1>15, <2>1, OnePlanned DEF Adds
  <2>3. WellMade(q, doc, Does(<<call>>, Unchanged))
    BY <1>15, <2>2, UnchangedSets, DoesWell
  <2> QED BY <1>15, <2>3 DEF Handled, PostRevokeAll, call
<1>16. CASE q.op = "invite"
  <2> DEFINE calls == <<[op |-> "mint", invite |-> q.new]>>
  <2>1. Planned(q, calls)
    BY <1>16, OnePlanned, SignInAssumption DEF Adds, Calls, UserCalls
  <2>2. Does(calls, Unchanged) \in Handling /\ Does(calls, Unchanged).calls = calls
        /\ Does(calls, Unchanged).ok
    BY <2>1, UnchangedSets, DoesIs DEF Planned
  <2> HIDE DEF calls
  <2> DEFINE handling == [Does(calls, Unchanged) EXCEPT !.mails = {q.new}]
  <2>3. handling \in Handling /\ handling.calls = calls /\ handling.ok
    BY <1>16, <2>2 DEF Handling
  <2>4. WellMade(q, doc, handling)
    BY <1>16, <2>1, <2>3 DEF WellMade
  <2> HIDE DEF handling
  <2>5. WellMade(q, doc, PostInvite(q, doc))
    BY <2>4, RefusedWell DEF PostInvite, handling, calls
  <2> QED BY <1>16, <2>5 DEF Handled
<1>17. CASE q.op = "revoke_invite"
  <2>1. Planned(q, <<[op |-> "revoke_invite", invite |-> q.arg]>>)
    BY <1>17, OnePlanned DEF Adds, Calls, UserCalls
  <2>2. WellMade(q, doc, DeleteInvite(q, doc))
    BY <1>17, <2>1, UnchangedSets, DoesWell, RefusedWell DEF DeleteInvite
  <2> QED BY <1>17, <2>2 DEF Handled
<1>18. CASE q.op \in {"disable", "enable"}
  <2>1. Planned(q, <<[op |-> q.op, uid |-> q.arg]>>)
    BY <1>18, OnePlanned DEF Adds, Calls, UserCalls
  <2>2. WellMade(q, doc, PatchUser(q, doc))
    BY <1>18, <2>1, UnchangedSets, DoesWell, RefusedWell DEF PatchUser
  <2> QED BY <1>18, <2>2 DEF Handled
<1> QED BY <1>1, <1>2, <1>3, <1>4, <1>5, <1>6, <1>7, <1>8, <1>9, <1>10, <1>11, <1>12, <1>13,
           <1>14, <1>15, <1>16, <1>17, <1>18

-----------------------------------------------------------------------------
(* The shape of the threads, with the types.                                *)

Locking == {"flock", "scan", "replace"}

Shape(t) ==
  /\ copy[t].version = 2
  /\ pc[t] = "idle" => todo[t] = <<>>
  /\ pc[t] # "idle" => req[t] \in Kinds
  /\ Planned(req[t], todo[t])
  /\ opened[t] # NoFile <=> pc[t] \in Locking
  /\ pc[t] \in {"normalise", "quarantine", "edit"} => todo[t] # <<>> /\ ~Consumes(t)
  /\ pc[t] \in Locking => Consumes(t)
  /\ pc[t] = "quarantine" => copy[t] = DefaultDoc

TypeInv ==
  /\ TypeOK
  /\ req \in [Threads -> Kinds \cup {NoRequest}]
  /\ \A t \in Threads : Shape(t)

\* Some inode is free: there are more of them than descriptors.
LEMMA InodeFree ==
  ASSUME TypeInv PROVE NewInode \in Inodes
<1>1. /\ IsFiniteSet(Threads) /\ Cardinality(Threads) \in Nat
      /\ IsFiniteSet(Inodes) /\ Cardinality(Inodes) = Cardinality(Threads) + 1
  <2>1. IsFiniteSet(Threads) /\ Cardinality(Threads) \in Nat
    BY StoreAssumption, FS_CardinalityType
  <2>2. 0 \in Int /\ Cardinality(Threads) \in Int /\ 0 <= Cardinality(Threads)
    BY <2>1
  <2>3. /\ IsFiniteSet(0 .. Cardinality(Threads))
        /\ Cardinality(0 .. Cardinality(Threads)) =
             IF 0 > Cardinality(Threads) THEN 0 ELSE Cardinality(Threads) - 0 + 1
    BY <2>2, FS_Interval
  <2> QED BY <2>1, <2>3 DEF Inodes
<1>2. \E n \in Inodes : \A u \in Threads : opened[u] # n
  <2>1. SUFFICES ASSUME \A n \in Inodes : \E u \in Threads : opened[u] = n
                 PROVE  FALSE
    OBVIOUS
  <2> DEFINE f == [n \in Inodes |-> CHOOSE u \in Threads : opened[u] = n]
  <2>2. \A n \in Inodes : f[n] \in Threads /\ opened[f[n]] = n
    BY <2>1
  <2>3. f \in [Inodes -> Threads]
    BY <2>2
  <2> HIDE DEF f
  <2>4. Cardinality(Threads) < Cardinality(Inodes)
    BY <1>1
  <2>5. \E x, y \in Inodes : x # y /\ f[x] = f[y]
    BY <1>1, <2>3, <2>4, FS_PigeonHole
  <2> QED BY <2>2, <2>5
<1> QED BY <1>2 DEF NewInode

\* The call at the head, and those behind it.
LEMMA CallOf ==
  ASSUME TypeInv, NEW t \in Threads, todo[t] # <<>>
  PROVE  /\ Call(t) \in Calls /\ Tail(todo[t]) \in Seq(Calls)
         /\ Planned(req[t], Tail(todo[t]))
         /\ Call(t).op # "purge" => Tail(todo[t]) = <<>>
         /\ Adds(Call(t)) \subseteq {req[t].new} \ {Nothing}
         /\ Call(t).op = "mark_enrolled" => req[t].op = "enroll"
         /\ Call(t).op = "purge" => req[t].op = "forgot"
         /\ Call(t).op = "consume_invite" => req[t].op = "accept"
         /\ req[t].op = "revoke" => Call(t).op = "revoke_device" /\ Call(t).device = req[t].arg
<1>1. todo[t] \in Seq(Calls) /\ Planned(req[t], todo[t])
  BY DEF TypeInv, TypeOK, StoreTypeOK, Shape
<1>2. /\ Len(todo[t]) \in Nat /\ Len(todo[t]) >= 1 /\ 1 \in 1 .. Len(todo[t])
      /\ Call(t) = todo[t][1] /\ Call(t) \in Calls
  BY <1>1 DEF Call
<1>3. /\ Tail(todo[t]) \in Seq(Calls) /\ Len(Tail(todo[t])) = Len(todo[t]) - 1
      /\ \A k \in 1 .. Len(Tail(todo[t])) : Tail(todo[t])[k] = todo[t][k + 1]
  BY <1>1, <1>2
<1>4. Planned(req[t], Tail(todo[t]))
  <2> SUFFICES ASSUME NEW k \in 1 .. Len(Tail(todo[t]))
               PROVE  LET call == Tail(todo[t])[k] IN
                      /\ k < Len(Tail(todo[t])) => call.op = "purge"
                      /\ Adds(call) \subseteq {req[t].new} \ {Nothing}
                      /\ call.op = "consume_invite" => req[t].op = "accept"
                      /\ call.op = "mark_enrolled" => req[t].op = "enroll"
                      /\ call.op = "purge" => req[t].op = "forgot"
                      /\ req[t].op = "revoke" => call.op = "revoke_device"
                                                   /\ call.device = req[t].arg
    BY <1>3 DEF Planned
  <2>1. /\ k + 1 \in 1 .. Len(todo[t]) /\ Tail(todo[t])[k] = todo[t][k + 1]
        /\ k < Len(Tail(todo[t])) => k + 1 < Len(todo[t])
    BY <1>2, <1>3
  <2> QED BY <1>1, <2>1 DEF Planned
<1>5. Call(t).op # "purge" => Tail(todo[t]) = <<>>
  BY <1>1, <1>2, <1>3 DEF Planned
<1> QED BY <1>1, <1>2, <1>3, <1>4, <1>5 DEF Planned

LEMMA ClaimedIs ==
  ASSUME NEW call \in Calls
  PROVE  Claimed(call) \subseteq Links \cup Invites
BY DEF Claimed, Calls, SecretCalls, DeviceCalls, LinkCalls, UserCalls

LEMMA ReadableDoc ==
  ASSUME TypeInv PROVE Readable \in Docs /\ Readable.version = 2
BY DefaultIsDoc, NormalisedDoc DEF TypeInv, TypeOK, StoreTypeOK, Readable

LEMMA InitTypes == Init => TypeInv
<1> SUFFICES ASSUME Init PROVE TypeInv
  OBVIOUS
<1>1. 0 \in Inodes
  BY StoreAssumption, FS_CardinalityType DEF Inodes
<1>2. PICK s \in Starts : file = s.file /\ jar = s.jar /\ app = s.app /\ mailbox = s.mailbox
                          /\ verified = s.verified
  BY DEF Init
<1>3. StoreTypeOK
  <2>1. file \in Docs \cup {NoFile, Garbage}
    BY <1>2, StartsAssumption
  <2> QED BY <1>1, <2>1, DefaultIsDoc, NoCalls DEF Init, StoreTypeOK
<1>5. WebTypeOK
  BY <1>2, RefusedIs, StartsAssumption DEF Init, WebTypeOK
<1>4. \A t \in Threads : Shape(t)
  BY DefaultIsDoc, NonePlanned DEF Init, Shape, Locking, Consumes
<1> QED BY <1>3, <1>4, <1>5 DEF Init, TypeInv, TypeOK

LEMMA OvertakesTypes ==
  ASSUME TypeInv, NEW t \in Threads, NEW doc \in Docs, Overtakes(t, doc)
  PROVE  behind' \in [Threads -> SUBSET Tokens] /\ overtaken' \subseteq Tokens
<1>1. \A u \in Threads : Missed(copy[u], doc) \subseteq Tokens
  BY MissedTokens DEF TypeInv, TypeOK, StoreTypeOK
<1> QED BY <1>1 DEF Overtakes, TypeInv, TypeOK, StoreTypeOK

LEMMA CatchesUpTypes ==
  ASSUME TypeInv, NEW t \in Threads, CatchesUp(t)
  PROVE  /\ behind' \in [Threads -> SUBSET Tokens] /\ overtaken' = overtaken /\ stale' = stale
         /\ disturbed' = disturbed /\ used' = used /\ reused' = reused
BY DEF CatchesUp, TypeInv, TypeOK, StoreTypeOK

LEMMA ReplaceTypes ==
  ASSUME TypeInv, NEW t \in Threads, NEW doc \in Docs, Replace(t, doc)
  PROVE  /\ file' = doc /\ file' \in Docs \cup {NoFile, Garbage} /\ inode' \in Inodes
         /\ stale' \in [Threads -> BOOLEAN] /\ disturbed' \subseteq Invites
         /\ behind' \in [Threads -> SUBSET Tokens] /\ overtaken' \subseteq Tokens
<1>1. behind' \in [Threads -> SUBSET Tokens] /\ overtaken' \subseteq Tokens
  BY OvertakesTypes DEF Replace
<1> QED BY <1>1, InodeFree DEF Replace, Wrote, TypeInv, TypeOK, StoreTypeOK

LEMMA ClaimTypes ==
  ASSUME TypeInv, NEW call \in Calls, Claim(call)
  PROVE  used' \subseteq Links \cup Invites /\ reused' \subseteq Links \cup Invites
BY ClaimedIs DEF Claim, TypeInv, TypeOK, StoreTypeOK

LEMMA WorkTypes ==
  ASSUME TypeInv, NEW t \in Threads, Work(t)
  PROVE  TypeInv'
<1> USE DEF TypeInv, TypeOK
<1>1. WebTypeOK'
  BY DEF Work, webVars, WebTypeOK
<1>2. req' = req /\ req' \in [Threads -> Kinds \cup {NoRequest}]
  BY DEF Work, webVars
<1>3. CASE Load(t)
  <2>1. StoreTypeOK'
    BY <1>3, ReadableDoc, CatchesUpTypes DEF Load, StoreTypeOK, fileVars
  <2>2. \A u \in Threads : Shape(u)'
    BY <1>2, <1>3, ReadableDoc DEF Load, StoreTypeOK, Shape, Consumes, Call, Locking
  <2> QED BY <1>1, <1>2, <2>1, <2>2
<1>4. CASE Normalise(t)
  <2>1. StoreTypeOK'
    BY <1>4, ReplaceTypes DEF Normalise, StoreTypeOK
  <2>2. \A u \in Threads : Shape(u)'
    BY <1>2, <1>4 DEF Normalise, StoreTypeOK, Shape, Consumes, Call, Locking
  <2> QED BY <1>1, <1>2, <2>1, <2>2
<1>5. CASE LoadGarbage(t)
  <2>1. StoreTypeOK'
    BY <1>5, DefaultIsDoc, CatchesUpTypes DEF LoadGarbage, StoreTypeOK, fileVars
  <2>2. \A u \in Threads : Shape(u)'
    BY <1>2, <1>5, DefaultIsDoc DEF LoadGarbage, StoreTypeOK, Shape, Consumes, Call, Locking
  <2> QED BY <1>1, <1>2, <2>1, <2>2
<1>6. CASE Quarantine(t)
  <2>1. StoreTypeOK'
    BY <1>6, DefaultIsDoc, OvertakesTypes DEF Quarantine, StoreTypeOK
  <2>2. \A u \in Threads : Shape(u)'
    BY <1>2, <1>6, DefaultIsDoc DEF Quarantine, StoreTypeOK, Shape, Consumes, Call, Locking
  <2> QED BY <1>1, <1>2, <2>1, <2>2
<1>7. CASE Save(t, expired, aged) \/ Skip(t, expired, aged)
  <2>1. /\ pc[t] = "edit" /\ todo[t] # <<>> /\ ~Consumes(t)
        /\ pc' = [pc EXCEPT ![t] = "call"] /\ todo' = [todo EXCEPT ![t] = Tail(todo[t])]
        /\ copy' = copy /\ opened' = opened /\ applied' \in [Threads -> BOOLEAN]
    BY <1>7 DEF Save, Skip, StoreTypeOK, Shape
  <2>2. \A u \in Threads : Shape(u)'
    BY <1>2, <2>1, CallOf DEF StoreTypeOK, Shape, Consumes, Call, Locking
  <2>3. CASE Save(t, expired, aged)
    <3>1. Edited(Call(t), copy[t], aged) \in Docs
      BY <2>1, CallOf, EditedDoc DEF StoreTypeOK, EditOf
    <3>2. StoreTypeOK'
      BY <2>1, <2>3, <3>1, CallOf, ReplaceTypes, ClaimTypes DEF Save, StoreTypeOK
    <3> QED BY <1>1, <1>2, <2>2, <3>2
  <2>4. CASE Skip(t, expired, aged)
    <3>1. StoreTypeOK'
      BY <2>1, <2>4, CallOf DEF Skip, StoreTypeOK, fileVars, historyVars
    <3> QED BY <1>1, <1>2, <2>2, <3>1
  <2> QED BY <1>7, <2>3, <2>4
<1>8. CASE Open(t)
  <2>1. inode' \in Inodes /\ inode' # NoFile
    BY <1>8, InodeFree, StoreAssumption, FS_CardinalityType DEF Open, StoreTypeOK, Inodes
  <2>2. StoreTypeOK'
    BY <1>8, <2>1 DEF Open, StoreTypeOK, historyVars
  <2>3. \A u \in Threads : Shape(u)'
    BY <1>2, <1>8, <2>1 DEF Open, StoreTypeOK, Shape, Consumes, Call, Locking
  <2> QED BY <1>1, <1>2, <2>2, <2>3
<1>9. CASE Lock(t)
  <2>1. StoreTypeOK'
    BY <1>9 DEF Lock, StoreTypeOK, fileVars, historyVars
  <2>2. \A u \in Threads : Shape(u)'
    BY <1>2, <1>9 DEF Lock, StoreTypeOK, Shape, Consumes, Call, Locking
  <2> QED BY <1>1, <1>2, <2>1, <2>2
<1>10. CASE Scan(t)
  <2>1. StoreTypeOK'
    BY <1>10, ReadableDoc DEF Scan, StoreTypeOK, fileVars
  <2>2. \A u \in Threads : Shape(u)'
    BY <1>2, <1>10, ReadableDoc DEF Scan, StoreTypeOK, Shape, Consumes, Call, Locking
  <2> QED BY <1>1, <1>2, <2>1, <2>2
<1>11. CASE Consume(t, expired) \/ Refuse(t, expired)
  <2>1. /\ pc[t] = "replace" /\ todo[t] # <<>> /\ Consumes(t)
        /\ pc' = [pc EXCEPT ![t] = "call"] /\ todo' = [todo EXCEPT ![t] = Tail(todo[t])]
        /\ copy' = copy /\ opened' = [opened EXCEPT ![t] = NoFile]
        /\ applied' \in [Threads -> BOOLEAN]
    BY <1>11 DEF Consume, Refuse, StoreTypeOK, Shape, Locking, Consumes
  <2>2. \A u \in Threads : Shape(u)'
    BY <1>2, <2>1, CallOf DEF StoreTypeOK, Shape, Consumes, Call, Locking
  <2>3. CASE Consume(t, expired)
    <3>1. Edited(Call(t), copy[t], {}) \in Docs
      BY <2>1, CallOf, EditedDoc DEF StoreTypeOK, EditOf
    <3>2. StoreTypeOK'
      BY <2>1, <2>3, <3>1, CallOf, ReplaceTypes, ClaimTypes DEF Consume, StoreTypeOK
    <3> QED BY <1>1, <1>2, <2>2, <3>2
  <2>4. CASE Refuse(t, expired)
    <3>1. StoreTypeOK'
      BY <2>1, <2>4, CallOf DEF Refuse, StoreTypeOK, fileVars, historyVars
    <3> QED BY <1>1, <1>2, <2>2, <3>1
  <2> QED BY <1>11, <2>3, <2>4
<1> QED BY <1>3, <1>4, <1>5, <1>6, <1>7, <1>8, <1>9, <1>10, <1>11 DEF Work, StoreStep

\* What a request does before it looked at anything.
Begun(q) == IF q.op \in Looks THEN Does(<<[op |-> "look"]>>, Unchanged) ELSE Handled(q, DefaultDoc)

LEMMA BegunWell ==
  ASSUME NEW q \in Kinds
  PROVE  /\ Begun(q) \in Handling /\ Planned(q, Begun(q).calls)
         /\ q.op = "revoke" => Begun(q).calls # <<>>
         /\ \A k \in 1 .. Len(Begun(q).calls) : Begun(q).calls[k].op # "mark_enrolled"
<1>1. CASE q.op \in Looks
  <2>1. Planned(q, <<[op |-> "look"]>>)
    BY <1>1, OnePlanned DEF Looks, Adds, Calls, SecretCalls
  <2>2. Does(<<[op |-> "look"]>>, Unchanged) \in Handling
        /\ Does(<<[op |-> "look"]>>, Unchanged).calls = <<[op |-> "look"]>>
    BY <2>1, DoesIs, UnchangedSets DEF Planned
  <2> QED BY <1>1, <2>1, <2>2 DEF Begun
<1>2. CASE q.op \notin Looks
  <2>1. WellMade(q, DefaultDoc, Handled(q, DefaultDoc)) /\ Begun(q) = Handled(q, DefaultDoc)
    BY <1>2, HandledWell, DefaultIsDoc DEF Begun
  <2>2. q.op = "revoke" => Begun(q).calls # <<>>
    BY <1>2, <2>1, UnchangedSets DEF Handled, PostRevoke, Does
  <2>3. q.op # "enroll"
    BY <1>2 DEF Looks
  <2> QED BY <2>1, <2>2, <2>3 DEF WellMade, Planned
<1> QED BY <1>1, <1>2

LEMMA StartIs ==
  ASSUME TypeInv, NEW t \in Threads, NEW q \in Requests, Start(t, q)
  PROVE  /\ q \in Kinds /\ (q.new = Nothing \/ q.new \notin issued)
         /\ pc[t] = "idle" /\ todo[t] = <<>>
         /\ pc' = [pc EXCEPT ![t] = "start"] /\ req' = [req EXCEPT ![t] = q]
         /\ todo' = [todo EXCEPT ![t] = Begun(q).calls] /\ out' = [out EXCEPT ![t] = Begun(q)]
         /\ issued' = issued \cup ({q.new} \ {Nothing})
         /\ UNCHANGED <<file, inode, copy, opened, applied, stale, behind, overtaken, disturbed,
                        used, reused, now, jar, app, mailbox, verified, dropped>>
<1>1. q \in Kinds /\ (q.new = Nothing \/ q.new \notin issued)
  BY RequestIsKind
<1>2. todo' = [todo EXCEPT ![t] = Begun(q).calls] /\ out' = [out EXCEPT ![t] = Begun(q)]
  BY DEF Start, Begun
<1>3. pc[t] = "idle" /\ todo[t] = <<>>
  BY DEF Start, TypeInv, Shape
<1> QED BY <1>1, <1>2, <1>3 DEF Start, fileVars, historyVars

LEMMA DecideIs ==
  ASSUME TypeInv, NEW t \in Threads, Decide(t)
  PROVE  LET handling == Handled(req[t], copy[t])
         IN  /\ pc[t] = "edit" /\ todo[t] # <<>> /\ Call(t).op = "look" /\ req[t] \in Kinds
             /\ req[t].op # "revoke"
             /\ WellMade(req[t], copy[t], handling)
             /\ pc' = [pc EXCEPT ![t] = "call"]
             /\ todo' = [todo EXCEPT ![t] = handling.calls]
             /\ out' = [out EXCEPT ![t] = handling]
             /\ verified' = IF handling.ok /\ req[t].op = "enroll"
                              THEN verified \cup {copy[t].secret} ELSE verified
<1>1. pc[t] = "edit" /\ todo[t] # <<>> /\ Call(t).op = "look" /\ req[t] \in Kinds
  BY DEF Decide, TypeInv, Shape
<1>2. req[t].op # "revoke"
  BY <1>1, CallOf
<1>3. WellMade(req[t], copy[t], Handled(req[t], copy[t]))
  BY <1>1, HandledWell DEF TypeInv, TypeOK, StoreTypeOK
<1> QED BY <1>1, <1>2, <1>3 DEF Decide

LEMMA ForgetTypes ==
  ASSUME TypeInv, NEW T, Forget(T), UNCHANGED <<fileVars, overtaken, disturbed, used, reused>>
  PROVE  /\ StoreTypeOK' /\ (\A u \in Threads : Shape(u)')
         /\ out' \in [Threads -> Handling] /\ req' \in [Threads -> Kinds \cup {NoRequest}]
<1>1. StoreTypeOK'
  BY DefaultIsDoc, NoCalls DEF Forget, TypeInv, TypeOK, StoreTypeOK, fileVars
<1>2. out' \in [Threads -> Handling] /\ req' \in [Threads -> Kinds \cup {NoRequest}]
  BY RefusedIs DEF Forget, TypeInv, TypeOK, WebTypeOK
<1>3. ASSUME NEW u \in Threads PROVE Shape(u)'
  <2>1. CASE u \in T
    BY <2>1, DefaultIsDoc, NonePlanned DEF Forget, Shape, Locking, Consumes
  <2>2. CASE u \notin T
    BY <2>2 DEF Forget, TypeInv, Shape, Locking, Consumes, Call
  <2> QED BY <2>1, <2>2
<1> QED BY <1>1, <1>2, <1>3

LEMMA WebTypes ==
  ASSUME TypeInv, NEW t \in Threads,
         Decide(t) \/ Reply(t) \/ \E q \in Requests : Start(t, q)
  PROVE  TypeInv'
<1> USE DEF TypeInv, TypeOK
<1>1. CASE Decide(t)
  <2> DEFINE handling == Handled(req[t], copy[t])
  <2>1. /\ handling \in Handling /\ handling.calls \in Seq(Calls) /\ Planned(req[t], handling.calls)
        /\ handling.ok /\ req[t].op = "enroll" => copy[t].secret \in Secrets
    <3>1. WellMade(req[t], copy[t], handling)
      BY <1>1, DecideIs
    <3>2. copy[t].secret \in Secrets \cup {NoSecret}
      BY DEF StoreTypeOK, Docs
    <3> QED BY <3>1, <3>2 DEF WellMade, Planned
  <2> HIDE DEF handling
  <2>2. /\ pc[t] = "edit" /\ pc' = [pc EXCEPT ![t] = "call"]
        /\ todo' = [todo EXCEPT ![t] = handling.calls]
        /\ out' = [out EXCEPT ![t] = handling]
        /\ verified' = IF handling.ok /\ req[t].op = "enroll"
                         THEN verified \cup {copy[t].secret} ELSE verified
    BY <1>1, DecideIs DEF handling
  <2>3. StoreTypeOK'
    BY <1>1, <2>1, <2>2 DEF Decide, StoreTypeOK, fileVars, historyVars
  <2>4. WebTypeOK'
    BY <1>1, <2>1, <2>2 DEF Decide, WebTypeOK
  <2>5. \A u \in Threads : Shape(u)'
    BY <1>1, <2>1, <2>2 DEF Decide, StoreTypeOK, Shape, Consumes, Call, Locking
  <2> QED BY <1>1, <2>3, <2>4, <2>5 DEF Decide
<1>2. CASE Reply(t)
  <2>1. /\ StoreTypeOK' /\ (\A u \in Threads : Shape(u)')
        /\ out' \in [Threads -> Handling] /\ req' \in [Threads -> Kinds \cup {NoRequest}]
    BY <1>2, ForgetTypes DEF Reply
  <2>2. req[t] \in Kinds
    BY <1>2 DEF Reply, Shape
  <2>3. jar' \in [Browsers -> [Names -> Cookies]]
    <3>1. out[t].set \in UNION {[N -> Cookies] : N \in SUBSET Names}
      BY DEF WebTypeOK, Handling
    <3>2. PICK N \in SUBSET Names : out[t].set \in [N -> Cookies]
      BY <3>1
    <3> QED BY <1>2, <3>2 DEF Reply, WebTypeOK
  <2>4. app' \in [Browsers -> Secrets \cup {NoSecret}]
    BY <1>2 DEF Reply, WebTypeOK, Handling
  <2>5. mailbox' \subseteq Links \cup Invites
    BY <1>2 DEF Reply, WebTypeOK, Handling, Delivered
  <2>6. dropped' \subseteq Devices
    BY <1>2, <2>2, KindOf DEF Reply, WebTypeOK
  <2> QED BY <1>2, <2>1, <2>3, <2>4, <2>5, <2>6 DEF Reply, WebTypeOK
<1>3. ASSUME NEW q \in Requests, Start(t, q) PROVE TypeInv'
  <2> DEFINE handling == Begun(q)
  <2>1. /\ q \in Kinds /\ handling \in Handling /\ handling.calls \in Seq(Calls)
        /\ Planned(q, handling.calls)
    BY <1>3, StartIs, BegunWell DEF Planned
  <2>2. /\ pc[t] = "idle"
        /\ pc' = [pc EXCEPT ![t] = "start"] /\ req' = [req EXCEPT ![t] = q]
        /\ todo' = [todo EXCEPT ![t] = handling.calls] /\ out' = [out EXCEPT ![t] = handling]
        /\ copy' = copy /\ opened' = opened
    BY <1>3, StartIs
  <2> HIDE DEF handling
  <2>3. StoreTypeOK'
    BY <1>3, <2>1, <2>2 DEF Start, StoreTypeOK, fileVars, historyVars
  <2>4. born' \in [Links \cup Invites -> Nat] /\ asked' \in Nat
    BY <1>3 DEF Start, WebTypeOK
  <2>5. WebTypeOK'
    BY <1>3, <2>1, <2>2, <2>4 DEF Start, WebTypeOK
  <2>6. \A u \in Threads : Shape(u)'
    BY <2>1, <2>2 DEF StoreTypeOK, Shape, Consumes, Call, Locking
  <2> QED BY <2>1, <2>2, <2>3, <2>5, <2>6
<1> QED BY <1>1, <1>2, <1>3

LEMMA ClockTypes ==
  ASSUME TypeInv, Tick \/ Restart
  PROVE  TypeInv'
<1> USE DEF TypeInv, TypeOK
<1>1. CASE Tick
  <2>1. StoreTypeOK'
    BY <1>1 DEF Tick, StoreTypeOK, storeVars, fileVars, callVars, historyVars
  <2>2. WebTypeOK'
    BY <1>1 DEF Tick, WebTypeOK
  <2>3. \A u \in Threads : Shape(u)'
    BY <1>1 DEF Tick, Shape, Consumes, Call, storeVars, callVars
  <2> QED BY <1>1, <2>1, <2>2, <2>3 DEF Tick
<1>2. CASE Restart
  <2>1. /\ StoreTypeOK' /\ (\A u \in Threads : Shape(u)')
        /\ out' \in [Threads -> Handling] /\ req' \in [Threads -> Kinds \cup {NoRequest}]
    BY <1>2, ForgetTypes DEF Restart
  <2> QED BY <1>2, <2>1 DEF Restart, WebTypeOK
<1> QED BY <1>1, <1>2

LEMMA TypesKept == TypeInv /\ [Next]_vars => TypeInv'
<1> SUFFICES ASSUME TypeInv, [Next]_vars PROVE TypeInv'
  OBVIOUS
<1>1. CASE \E t \in Threads : Work(t) \/ Decide(t) \/ Reply(t) \/ \E q \in Requests : Start(t, q)
  BY <1>1, WorkTypes, WebTypes
<1>2. CASE Tick \/ Restart
  BY <1>2, ClockTypes
<1>3. CASE UNCHANGED vars
  BY <1>3 DEF TypeInv, TypeOK, StoreTypeOK, WebTypeOK, Shape, Consumes, Call, vars, webVars,
              storeVars, fileVars, callVars, historyVars
<1> QED BY <1>1, <1>2, <1>3 DEF Next

\* The store's and the web's variables keep their types (by TypeInv, which adds
\* the shape of a thread: inside the lock's section it runs
\* consume_and_create_user on an open descriptor, about to rewrite the file it
\* has a call left to do, and every call belongs to the request that makes it).
THEOREM SignInTypeCorrect == Spec => []TypeOK
<1>1. TypeInv => TypeOK BY DEF TypeInv
<1> QED BY InitTypes, TypesKept, <1>1, PTL DEF Spec

-----------------------------------------------------------------------------
(* One user per invitation.                                                 *)

LEMMA ConsumeApplies ==
  ASSUME NEW call \in Calls, NEW doc, NEW old, NEW older, Applies(call, doc, old, older)
  PROVE  /\ call.op = "consume_invite" => call.invite \in Offered(doc)
         /\ call.op = "consume_link" => call.link \in Live(doc)
<1>1. CASE call.op = "consume_invite"
  <2>1. call \notin SecretCalls /\ call \notin DeviceCalls /\ call \notin LinkCalls
        /\ call \in UserCalls
    BY <1>1, OpsOf DEF Calls
  <2> QED BY <1>1, <2>1 DEF Applies, UserFound, Offered
<1>2. CASE call.op = "consume_link"
  <2>1. call \notin SecretCalls /\ call \notin DeviceCalls /\ call \in LinkCalls
        /\ call \notin UserCalls
    BY <1>2, OpsOf DEF Calls
  <2>2. Applies(call, doc, old, older) = LinkFound(call, doc, old, older)
    BY <2>1 DEF Applies
  <2>3. call.link \in doc.links \ (doc.spent \cup old)
    BY <1>2, <2>2 DEF LinkFound
  <2> QED BY <1>2, <2>3 DEF Live
<1> QED BY <1>1, <1>2

LEMMA EditKeepsOne ==
  ASSUME NEW call \in Calls, NEW doc \in Docs, NEW new, EditOf(call, doc, new),
         OneUserPerInviteIn(doc),
         call.op = "consume_invite" => call.invite \in Offered(doc)
  PROVE  OneUserPerInviteIn(new)
<1>1. CASE call.op = "consume_invite"
  <2>1. /\ new.users = doc.users \cup {<<call.uid, call.invite>>} /\ call.invite \in new.consumed
        /\ doc.consumed \subseteq new.consumed /\ call.invite \notin doc.consumed
    BY <1>1 DEF EditOf, Offered
  <2>2. <<call.uid, call.invite>>[2] = call.invite
    OBVIOUS
  <2>3. ASSUME NEW u \in new.users, u[2] # Admin
        PROVE  u[2] \in new.consumed
    BY <2>1, <2>2, <2>3 DEF OneUserPerInviteIn
  <2>4. ASSUME NEW u \in new.users, NEW v \in new.users, u[2] = v[2], u[2] # Admin
        PROVE  u = v
    BY <2>1, <2>2, <2>4 DEF OneUserPerInviteIn
  <2> QED BY <2>3, <2>4 DEF OneUserPerInviteIn
<1>2. CASE call.op # "consume_invite"
  BY <1>2 DEF EditOf, OneUserPerInviteIn
<1> QED BY <1>1, <1>2

\* A call of the thread that found its row, and what it makes of the copy.
LEMMA EditHere ==
  ASSUME TypeInv, NEW t \in Threads, NEW old, NEW older,
         todo[t] # <<>>, Applies(Call(t), copy[t], old, older)
  PROVE  LET new == Edited(Call(t), copy[t], older)
         IN  /\ EditOf(Call(t), copy[t], new) /\ new \in Docs /\ new.version = 2
             /\ new \notin {NoFile, Garbage}
             /\ Call(t).op = "consume_invite" => Call(t).invite \in Offered(copy[t])
             /\ Call(t).op = "consume_link" => Call(t).link \in Live(copy[t])
<1>1. Call(t) \in Calls /\ copy[t] \in Docs /\ copy[t].version = 2
  BY CallOf DEF TypeInv, TypeOK, StoreTypeOK, Shape
<1>2. EditOf(Call(t), copy[t], Edited(Call(t), copy[t], older))
  BY <1>1, EditedDoc
<1> QED BY <1>1, <1>2, ConsumeApplies, FileAssumption DEF EditOf

LEMMA InitOne == Init => OneUserPerInvite
BY StartsAssumption, DefaultIsDoc DEF Init, OneUserPerInvite

LEMMA OneKept == TypeInv /\ OneUserPerInvite /\ [Next]_vars => OneUserPerInvite'
<1> SUFFICES ASSUME TypeInv, OneUserPerInvite, [Next]_vars PROVE OneUserPerInvite'
  OBVIOUS
<1> DEFINE Fine(f) == f \notin {NoFile, Garbage} => OneUserPerInviteIn(f)
<1>1. OneUserPerInviteIn(Readable)
  BY DefaultIsDoc, NormalisedDoc
     DEF Readable, OneUserPerInvite, TypeInv, TypeOK, StoreTypeOK
<1>2. /\ file \in Docs \cup {NoFile, Garbage} /\ copy \in [Threads -> Docs]
      /\ Fine(file) /\ \A u \in Threads : OneUserPerInviteIn(copy[u])
  BY DEF TypeInv, TypeOK, StoreTypeOK, OneUserPerInvite
<1>3. ASSUME Fine(file'), \A u \in Threads : OneUserPerInviteIn(copy'[u])
      PROVE  OneUserPerInvite'
  BY <1>3 DEF OneUserPerInvite
<1>4. ASSUME NEW t \in Threads, StoreStep(t, expired, aged)
      PROVE  OneUserPerInvite'
  <2>1. CASE Load(t) \/ Scan(t)
    BY <1>1, <1>2, <1>3, <2>1 DEF Load, Scan, fileVars
  <2>2. CASE Normalise(t)
    BY <1>2, <1>3, <2>2 DEF Normalise, Replace
  <2>3. CASE Quarantine(t)
    BY <1>2, <1>3, <2>3, DefaultIsDoc DEF Quarantine
  <2>4. CASE Open(t)
    BY <1>2, <1>3, <2>4 DEF Open
  <2>5. CASE Save(t, expired, aged)
    <3>1. todo[t] # <<>>
      BY <2>5 DEF Save, TypeInv, Shape
    <3>2. OneUserPerInviteIn(Edited(Call(t), copy[t], aged))
      BY <1>2, <2>5, <3>1, CallOf, EditHere, EditKeepsOne DEF Save
    <3> QED BY <1>2, <1>3, <2>5, <3>2 DEF Save, Replace
  <2>6. CASE Consume(t, expired)
    <3>1. todo[t] # <<>>
      BY <2>6 DEF Consume, TypeInv, Shape, Locking, Consumes
    <3>2. OneUserPerInviteIn(Edited(Call(t), copy[t], {}))
      BY <1>2, <2>6, <3>1, CallOf, EditHere, EditKeepsOne DEF Consume
    <3> QED BY <1>2, <1>3, <2>6, <3>2 DEF Consume, Replace
  <2>7. CASE LoadGarbage(t) \/ Skip(t, expired, aged) \/ Lock(t) \/ Refuse(t, expired)
    BY <1>2, <1>3, <2>7, DefaultIsDoc DEF LoadGarbage, Skip, Lock, Refuse, fileVars
  <2> QED BY <1>4, <2>1, <2>2, <2>3, <2>4, <2>5, <2>6, <2>7 DEF StoreStep
<1>5. ASSUME NEW t \in Threads, Decide(t) \/ \E q \in Requests : Start(t, q)
      PROVE  OneUserPerInvite'
  BY <1>2, <1>3, <1>5 DEF Decide, Start, fileVars
<1>6. ASSUME NEW T, Forget(T), file' = file PROVE OneUserPerInvite'
  BY <1>2, <1>3, <1>6, DefaultIsDoc DEF Forget
<1>7. CASE Tick \/ UNCHANGED vars
  BY <1>2, <1>3, <1>7 DEF Tick, vars, storeVars, fileVars, callVars
<1> QED BY <1>4, <1>5, <1>6, <1>7 DEF Next, Work, Reply, Restart, fileVars

\* However the requests' loads and saves overlap, restarts included: nowhere
\* two users of one invitation, nor a user whose invitation is still offered.
THEOREM SignInOneUserPerInvite == Spec => []OneUserPerInvite
<1>1. TypeInv /\ OneUserPerInvite /\ [Next]_vars => (TypeInv /\ OneUserPerInvite)'
  BY TypesKept, OneKept
<1> QED BY InitTypes, InitOne, <1>1, PTL DEF Spec

-----------------------------------------------------------------------------
(* Three kinds of step.  Nobody who is about to write reads or moves; or    *)
(* one thread reads, opens, locks or renames; or one thread writes.         *)

Kept(u) ==
  /\ pc'[u] = pc[u] /\ todo'[u] = todo[u] /\ copy'[u] = copy[u] /\ opened'[u] = opened[u]
  /\ stale'[u] = stale[u] /\ behind'[u] = behind[u] /\ req'[u] = req[u]
Left(u) ==
  /\ pc'[u] \in {"idle", "start", "call"} /\ copy'[u] \in {copy[u], DefaultDoc}

Leaves ==
  /\ file' = file /\ inode' = inode /\ overtaken' = overtaken
  /\ disturbed' = disturbed /\ used' = used /\ reused' = reused
  /\ \A u \in Threads : Kept(u) \/ Left(u)

Moves(t) ==
  Load(t) \/ LoadGarbage(t) \/ Quarantine(t) \/ Open(t) \/ Lock(t) \/ Scan(t)

Writes(t) ==
  Normalise(t) \/ Save(t, expired, aged) \/ Consume(t, expired)

LEMMA StepCases ==
  ASSUME TypeInv, [Next]_vars
  PROVE  \/ Leaves
         \/ \E t \in Threads : (Moves(t) \/ Writes(t)) /\ UNCHANGED webVars
<1> USE DEF TypeInv, TypeOK, StoreTypeOK
<1>1. ASSUME NEW t \in Threads,
             Skip(t, expired, aged) \/ Refuse(t, expired), UNCHANGED webVars
      PROVE  Leaves
  BY <1>1 DEF Skip, Refuse, Leaves, Kept, Left, fileVars, historyVars, webVars
<1>2. ASSUME NEW t \in Threads, Decide(t) PROVE Leaves
  BY <1>2 DEF Decide, Leaves, Kept, Left, fileVars, historyVars
<1>3. ASSUME NEW t \in Threads, NEW q \in Requests, Start(t, q) PROVE Leaves
  BY <1>3 DEF Start, Leaves, Kept, Left, fileVars, historyVars
<1>4. ASSUME NEW T, Forget(T), UNCHANGED <<fileVars, overtaken, disturbed, used, reused>>
      PROVE  Leaves
  <2>1. ASSUME NEW u \in Threads PROVE Kept(u) \/ Left(u)
    BY <1>4 DEF Forget, Kept, Left
  <2> QED BY <1>4, <2>1 DEF Leaves, fileVars
<1>5. ASSUME Tick \/ UNCHANGED vars PROVE Leaves
  BY <1>5 DEF Tick, vars, webVars, storeVars, fileVars, callVars, historyVars, Leaves, Kept
<1>6. ASSUME NEW t \in Threads, Work(t)
      PROVE  Leaves \/ ((Moves(t) \/ Writes(t)) /\ UNCHANGED webVars)
  BY <1>1, <1>6 DEF Work, StoreStep, Moves, Writes
<1>7. ASSUME NEW t \in Threads, Reply(t) PROVE Leaves
  BY <1>4, <1>7 DEF Reply
<1>8. ASSUME Restart PROVE Leaves
  BY <1>4, <1>8 DEF Restart
<1> QED BY <1>2, <1>3, <1>5, <1>6, <1>7, <1>8 DEF Next

\* The new values a request's calls may still write.
Due(t) == IF todo[t] # <<>> THEN {req[t].new} \ {Nothing} ELSE {}

LEMMA LookIs ==
  LET look == [op |-> "look"] IN
  /\ look \in Calls /\ Adds(look) = {} /\ Claimed(look) = {}
  /\ \A doc \in Docs : EditOf(look, doc, doc)
BY DEF Calls, SecretCalls, Adds, Claimed, EditOf

LEMMA ReplaceReads ==
  ASSUME NEW t \in Threads, NEW new \in Docs, new.version = 2, Replace(t, new)
  PROVE  Readable' = new
BY NormalisedDoc, FileAssumption DEF Replace, Readable

\* What a write makes of the thread's copy, as if Normalise were a call that
\* changes nothing.
WriteOf(t, call, new) ==
  /\ pc[t] \in {"normalise", "edit", "replace"} /\ todo[t] # <<>>
  /\ call \in Calls /\ EditOf(call, copy[t], new) /\ new \in Docs /\ Readable' = new
  /\ Wrote(t) /\ Overtakes(t, new) /\ Claim(call)
  /\ call.op = "consume_invite" => call.invite \in Offered(copy[t]) /\ pc[t] = "replace"
  /\ call.op = "consume_link" => call.link \in Live(copy[t])
  /\ call.op = "look" \/ call = Call(t)
  /\ call.op = "consume_invite" <=> Consumes(t)
  /\ Adds(call) \subseteq Due(t)
  /\ Adds(call) # {} => Due(t)' = {}
  /\ Due(t)' \subseteq Due(t)
  /\ copy' = copy /\ (\E tail : todo' = [todo EXCEPT ![t] = tail])
  /\ \A u \in Threads : u # t => opened'[u] = opened[u]
  /\ \E p \in {"edit", "call"} : pc' = [pc EXCEPT ![t] = p]
  /\ pc[t] = "normalise" => call.op = "look" /\ new = copy[t] /\ pc'[t] = "edit" /\ todo' = todo
  /\ pc[t] # "normalise" => call = Call(t) /\ pc'[t] = "call" /\ todo'[t] = Tail(todo[t])

LEMMA WriteIs ==
  ASSUME TypeInv, NEW t \in Threads, Writes(t), UNCHANGED webVars
  PROVE  \E call, new : WriteOf(t, call, new)
<1> USE DEF TypeInv, TypeOK, StoreTypeOK
<1>1. CASE Normalise(t)
  <2> DEFINE look == [op |-> "look"]
  <2>1. copy[t] \in Docs /\ copy[t].version = 2 /\ todo[t] # <<>> /\ pc[t] = "normalise"
        /\ ~Consumes(t)
    BY <1>1 DEF Normalise, Shape
  <2>2. Readable' = copy[t] /\ Wrote(t) /\ Overtakes(t, copy[t])
    BY <1>1, <2>1, ReplaceReads DEF Normalise, Replace
  <2>3. look \in Calls /\ Adds(look) = {} /\ Claimed(look) = {} /\ EditOf(look, copy[t], copy[t])
        /\ look.op = "look"
    BY <2>1, LookIs
  <2> HIDE DEF look
  <2>4. Claim(look) /\ Due(t)' \subseteq Due(t)
    BY <1>1, <2>3 DEF Claim, Normalise, Due, webVars
  <2>5. /\ copy' = copy /\ todo' = [todo EXCEPT ![t] = todo[t]] /\ todo' = todo
        /\ pc' = [pc EXCEPT ![t] = "edit"]
        /\ pc'[t] = "edit" /\ opened' = opened
    BY <1>1 DEF Normalise
  <2>6. WriteOf(t, look, copy[t])
    BY <2>1, <2>2, <2>3, <2>4, <2>5 DEF WriteOf
  <2> QED BY <2>6
<1>2. ASSUME NEW old, NEW older, todo[t] # <<>>, pc[t] \in {"edit", "replace"},
             Applies(Call(t), copy[t], old, older), Replace(t, Edited(Call(t), copy[t], older)),
             Claim(Call(t)), copy' = copy, todo' = [todo EXCEPT ![t] = Tail(todo[t])],
             pc' = [pc EXCEPT ![t] = "call"],
             opened' = opened \/ opened' = [opened EXCEPT ![t] = NoFile],
             Call(t).op = "consume_invite" <=> pc[t] = "replace"
      PROVE  \E call, new : WriteOf(t, call, new)
  <2> DEFINE new == Edited(Call(t), copy[t], older)
  <2>1. /\ EditOf(Call(t), copy[t], new) /\ new \in Docs /\ new.version = 2
        /\ Call(t).op = "consume_invite" => Call(t).invite \in Offered(copy[t])
        /\ Call(t).op = "consume_link" => Call(t).link \in Live(copy[t])
    BY <1>2, EditHere
  <2>2. Replace(t, new)
    BY <1>2
  <2> HIDE DEF new
  <2>3. Readable' = new /\ Wrote(t) /\ Overtakes(t, new)
    BY <2>1, <2>2, ReplaceReads DEF Replace
  <2>4. /\ Call(t) \in Calls /\ Adds(Call(t)) \subseteq Due(t)
        /\ Call(t).op # "purge" => Tail(todo[t]) = <<>>
    BY <1>2, CallOf DEF Due
  <2>5. Due(t)' \subseteq Due(t) /\ (Adds(Call(t)) # {} => Due(t)' = {})
    BY <1>2, <2>4 DEF Due, Adds, webVars
  <2>6. pc'[t] = "call" /\ todo'[t] = Tail(todo[t])
    BY <1>2
  <2>7. WriteOf(t, Call(t), new)
    BY <1>2, <2>1, <2>3, <2>4, <2>5, <2>6 DEF WriteOf, Consumes
  <2> QED BY <2>7
<1>3. CASE Save(t, expired, aged)
  BY <1>2, <1>3 DEF Save, Shape, Consumes
<1>4. CASE Consume(t, expired)
  BY <1>2, <1>4 DEF Consume, Shape, Consumes, Locking
<1> QED BY <1>1, <1>3, <1>4 DEF Writes

\* What a step that writes nothing does to the document.
Quiet ==
  /\ overtaken \subseteq overtaken'
  /\ Readable' \in {Readable, DefaultDoc}
  /\ used' = used /\ reused' = reused /\ disturbed' = disturbed

LEMMA MovesQuietly ==
  ASSUME TypeInv, NEW t \in Threads, Moves(t) PROVE Quiet
<1>1. CASE Load(t) \/ LoadGarbage(t) \/ Lock(t) \/ Scan(t)
  BY <1>1 DEF Load, LoadGarbage, CatchesUp, Lock, Scan, fileVars, historyVars, Quiet, Readable
<1>2. CASE Quarantine(t)
  BY <1>2 DEF Quarantine, Overtakes, Quiet, Readable, TypeInv, TypeOK, StoreTypeOK
<1>3. CASE Open(t)
  BY <1>3 DEF Open, historyVars, Quiet, Readable, TypeInv, TypeOK, StoreTypeOK
<1> QED BY <1>1, <1>2, <1>3 DEF Moves

LEMMA LeavesQuietly == ASSUME Leaves PROVE Quiet /\ Readable' = Readable
BY DEF Leaves, Quiet, Readable

-----------------------------------------------------------------------------
(* Random values are drawn once.                                            *)

\* The device a request is to revoke.
Aims(t) == IF req[t].op = "revoke" THEN {req[t].arg} ELSE {}

\* The values that are somewhere already.
Taken == Held(Readable) \cup used \cup dropped \cup UNION {Held(copy[u]) \cup Aims(u) : u \in Threads}

Fresh ==
  /\ Taken \subseteq issued
  /\ \A t \in Threads : Due(t) \subseteq issued /\ Due(t) \cap Taken = {}
  /\ \A t, u \in Threads : t # u => Due(t) \cap Due(u) = {}

LEMMA InitFresh == Init => Fresh
<1> SUFFICES ASSUME Init PROVE Fresh
  OBVIOUS
<1>1. PICK s \in Starts : file = s.file /\ issued = s.issued
  BY DEF Init
<1>2. Held(Readable) \subseteq issued
  BY <1>1, StartsAssumption, DefaultIsDoc, NormalisedDoc DEF Readable, Held
<1>3. \A u \in Threads : Held(copy[u]) = {} /\ Aims(u) = {} /\ Due(u) = {}
  BY DefaultIsDoc DEF Init, Aims, NoRequest, Due
<1>4. used = {} /\ dropped = {}
  BY DEF Init
<1> QED BY <1>2, <1>3, <1>4 DEF Fresh, Taken

\* A step that at most moves values one thread was about to write.
LEMMA FreshStep ==
  ASSUME Fresh, NEW D,
         Held(Readable') \subseteq Taken \cup D, used' \subseteq Taken, dropped' \subseteq Taken,
         \A u \in Threads : Held(copy'[u]) \subseteq Taken /\ Aims(u)' \subseteq Taken,
         \A u \in Threads : Due(u)' \subseteq Due(u),
         D = {} \/ \E t \in Threads : D \subseteq Due(t) /\ Due(t)' = {},
         issued' = issued
  PROVE  Fresh'
<1>1. Taken' \subseteq Taken \cup D
  BY DEF Taken
<1>2. D \subseteq issued
  BY DEF Fresh
<1>3. ASSUME NEW t \in Threads PROVE Due(t)' \cap D = {}
  BY DEF Fresh
<1>4. \A t \in Threads : Due(t)' \subseteq issued /\ Due(t)' \cap Taken = {}
  BY DEF Fresh
<1>5. \A t, u \in Threads : t # u => Due(t)' \cap Due(u)' = {}
  BY DEF Fresh
<1>6. Taken' \subseteq issued'
  BY <1>1, <1>2 DEF Fresh
<1>7. \A t \in Threads : Due(t)' \subseteq issued' /\ Due(t)' \cap Taken' = {}
  BY <1>1, <1>3, <1>4
<1> QED BY <1>5, <1>6, <1>7 DEF Fresh

LEMMA TakenHas ==
  /\ Held(Readable) \subseteq Taken /\ used \subseteq Taken /\ dropped \subseteq Taken
  /\ \A u \in Threads : Held(copy[u]) \subseteq Taken /\ Aims(u) \subseteq Taken
BY DEF Taken

LEMMA WriteKeepsFresh ==
  ASSUME TypeInv, Fresh, NEW t \in Threads, NEW call, NEW new, WriteOf(t, call, new),
         UNCHANGED webVars
  PROVE  Fresh'
<1>1. /\ Held(Readable') \subseteq Taken \cup Adds(call)
  BY TakenHas DEF WriteOf, EditOf
<1>2. used' \subseteq Taken
  BY TakenHas DEF WriteOf, Claim, Claimed, Offered, Live, Held
<1>3. \A u \in Threads : Held(copy'[u]) \subseteq Taken /\ Aims(u)' \subseteq Taken
  BY TakenHas DEF WriteOf, Aims, webVars
<1>4. \A u \in Threads : Due(u)' \subseteq Due(u)
  BY DEF WriteOf, Due, webVars, TypeInv, TypeOK, StoreTypeOK
<1>5. Adds(call) = {} \/ (Adds(call) \subseteq Due(t) /\ Due(t)' = {})
  BY DEF WriteOf
<1> QED BY <1>1, <1>2, <1>3, <1>4, <1>5, TakenHas, FreshStep DEF webVars

LEMMA FreshKept == TypeInv /\ Fresh /\ [Next]_vars => Fresh'
<1> SUFFICES ASSUME TypeInv, Fresh, [Next]_vars PROVE Fresh'
  OBVIOUS
<1>1. ASSUME Held(Readable') \subseteq Taken, used' \subseteq Taken, dropped' \subseteq Taken,
             \A u \in Threads : Held(copy'[u]) \subseteq Taken /\ Aims(u)' \subseteq Taken
                                  /\ Due(u)' \subseteq Due(u),
             issued' = issued
      PROVE  Fresh'
  BY <1>1, FreshStep
<1>2. ASSUME NEW t \in Threads, Moves(t) \/ Skip(t, expired, aged) \/ Refuse(t, expired),
             UNCHANGED webVars
      PROVE  Fresh'
  <2>1. used' = used /\ dropped' = dropped /\ issued' = issued /\ req' = req
    BY <1>2, MovesQuietly DEF Quiet, Skip, Refuse, historyVars, webVars
  <2>2. Readable' \in {Readable, DefaultDoc}
    BY <1>2, MovesQuietly DEF Quiet, Skip, Refuse, fileVars, Readable
  <2>3. \A u \in Threads : copy'[u] \in {copy[u], Readable, DefaultDoc}
    BY <1>2 DEF Moves, Load, Quarantine, Open, Lock, Scan, LoadGarbage, Skip, Refuse, TypeInv,
                TypeOK, StoreTypeOK
  <2>4. \A u \in Threads : todo'[u] = todo[u] \/ (todo[u] # <<>> /\ todo'[u] = Tail(todo[u]))
    <3>1. CASE Moves(t)
      BY <3>1 DEF Moves, Load, Quarantine, Open, Lock, Scan, LoadGarbage
    <3>2. CASE Skip(t, expired, aged) \/ Refuse(t, expired)
      <4>1. todo[t] # <<>>
        BY <3>2 DEF Skip, Refuse, TypeInv, Shape, Locking, Consumes
      <4>2. todo' = [todo EXCEPT ![t] = Tail(todo[t])] /\ todo \in [Threads -> Seq(Calls)]
        BY <3>2 DEF Skip, Refuse, TypeInv, TypeOK, StoreTypeOK
      <4> QED BY <4>1, <4>2
    <3> QED BY <1>2, <3>1, <3>2
  <2>5. \A u \in Threads : Due(u)' \subseteq Due(u) /\ Aims(u)' = Aims(u)
    BY <2>1, <2>4 DEF Due, Aims
  <2> QED BY <1>1, <2>1, <2>2, <2>3, <2>5, TakenHas, DefaultIsDoc
<1>3. ASSUME NEW t \in Threads, Writes(t), UNCHANGED webVars PROVE Fresh'
  <2>1. PICK call, new : WriteOf(t, call, new)
    BY <1>3, WriteIs
  <2> QED BY <1>3, <2>1, WriteKeepsFresh
<1>4. ASSUME NEW t \in Threads, Decide(t) PROVE Fresh'
  <2>1. /\ used' = used /\ dropped' = dropped /\ issued' = issued /\ req' = req /\ copy' = copy
        /\ Readable' = Readable
    BY <1>4 DEF Decide, historyVars, fileVars, Readable
  <2>2. todo[t] # <<>> /\ \A u \in Threads : u # t => todo'[u] = todo[u]
    BY <1>4, DecideIs DEF TypeInv, TypeOK, StoreTypeOK
  <2>3. \A u \in Threads : Due(u)' \subseteq Due(u) /\ Aims(u)' = Aims(u)
    BY <2>1, <2>2 DEF Due, Aims
  <2> QED BY <1>1, <2>1, <2>3, TakenHas
<1>5. ASSUME NEW T, Forget(T), file' = file, used' = used, dropped' \subseteq Taken, issued' = issued
      PROVE  Fresh'
  <2>1. Readable' = Readable
    BY <1>5 DEF Readable
  <2>2. ASSUME NEW u \in Threads
        PROVE  /\ copy'[u] \in {copy[u], DefaultDoc}
               /\ Aims(u)' \subseteq Aims(u) /\ Due(u)' \subseteq Due(u)
    <3>1. CASE u \in T
      BY <1>5, <3>1 DEF Forget, Aims, Due, NoRequest
    <3>2. CASE u \notin T
      BY <1>5, <3>2 DEF Forget, Aims, Due
    <3> QED BY <3>1, <3>2
  <2> QED BY <1>1, <1>5, <2>1, <2>2, TakenHas, DefaultIsDoc
<1>6. ASSUME NEW t \in Threads, Reply(t) PROVE Fresh'
  <2>1. dropped' \subseteq Taken
    BY <1>6, TakenHas DEF Reply, Aims
  <2> QED BY <1>5, <1>6, <2>1 DEF Reply, fileVars
<1>7. CASE Restart
  BY <1>5, <1>7, TakenHas DEF Restart, fileVars
<1>8. CASE Tick \/ UNCHANGED vars
  <2>1. /\ used' = used /\ dropped' = dropped /\ issued' = issued /\ req' = req /\ copy' = copy
        /\ todo' = todo /\ Readable' = Readable
    BY <1>8 DEF Tick, vars, storeVars, webVars, historyVars, callVars, fileVars, Readable
  <2>2. \A u \in Threads : Due(u)' = Due(u) /\ Aims(u)' = Aims(u)
    BY <2>1 DEF Due, Aims
  <2> QED BY <1>1, <2>1, <2>2, TakenHas
<1>9. ASSUME NEW t \in Threads, NEW q \in Requests, Start(t, q) PROVE Fresh'
  <2>1. /\ q.new = Nothing \/ q.new \notin issued
        /\ todo[t] = <<>>
        /\ \A u \in Threads : u # t => req'[u] = req[u] /\ todo'[u] = todo[u]
        /\ req'[t] = q /\ copy' = copy /\ used' = used /\ dropped' = dropped
        /\ issued' = issued \cup ({q.new} \ {Nothing})
    BY <1>9, StartIs DEF TypeInv, TypeOK, StoreTypeOK
  <2>2. Readable' = Readable
    BY <1>9, StartIs DEF Readable
  <2>3. \A u \in Threads : u # t => Due(u)' = Due(u) /\ Aims(u)' = Aims(u)
    BY <2>1 DEF Due, Aims
  <2>4. Due(t)' \subseteq {q.new} \ {Nothing} /\ ({q.new} \ {Nothing}) \cap issued = {}
    BY <2>1 DEF Due
  <2>5. Aims(t)' \subseteq Taken
    <3>1. q.op = "revoke" => q.arg \in Readable.devices
      BY <1>9 DEF Start, Admitted
    <3> QED BY <2>1, <3>1, TakenHas DEF Aims, Held
  <2>6. Taken' \subseteq Taken
    BY <2>1, <2>2, <2>3, <2>5, TakenHas DEF Taken
  <2>7. /\ Taken \subseteq issued
        /\ \A u \in Threads : Due(u) \subseteq issued /\ Due(u) \cap Taken = {}
        /\ \A u, v \in Threads : u # v => Due(u) \cap Due(v) = {}
    BY DEF Fresh
  <2>8. \A u \in Threads : Due(u)' \subseteq issued' /\ Due(u)' \cap Taken' = {}
    BY <2>1, <2>3, <2>4, <2>6, <2>7
  <2>9. \A u, v \in Threads : u # v => Due(u)' \cap Due(v)' = {}
    BY <2>3, <2>4, <2>7
  <2> QED BY <2>1, <2>6, <2>7, <2>8, <2>9 DEF Fresh
<1>10. ASSUME NEW t \in Threads, Work(t) PROVE Fresh'
  BY <1>2, <1>3, <1>10 DEF Work, StoreStep, Moves, Writes
<1> QED BY <1>4, <1>6, <1>7, <1>8, <1>9, <1>10 DEF Next

-----------------------------------------------------------------------------
(* A thread about to write knows what its copy lacks, and a write leaves    *)
(* that as overtaken.                                                       *)

Abreast ==
  \A t \in Threads :
    pc[t] \in {"normalise", "quarantine", "edit", "replace"} =>
      Missed(copy[t], Readable) \subseteq behind[t]

LEMMA InitAbreast == Init => Abreast
BY DEF Init, Abreast

LEMMA MovesIs ==
  ASSUME TypeInv, NEW t \in Threads, Moves(t)
  PROVE  /\ \A u \in Threads \ {t} :
              /\ pc'[u] = pc[u] /\ copy'[u] = copy[u] /\ opened'[u] = opened[u]
              /\ stale'[u] = stale[u] /\ behind[u] \subseteq behind'[u]
         /\ todo' = todo /\ todo[t] # <<>> /\ (stale'[t] = stale[t] \/ pc'[t] = "replace")
         /\ pc[t] \in {"start", "call", "quarantine", "flock", "scan"}
         /\ pc'[t] \in {"normalise", "quarantine", "edit", "replace"} =>
              copy'[t] \in {Readable, DefaultDoc} /\ copy'[t] = Readable'
         /\ Consumes(t) => pc'[t] \in {"flock", "scan", "replace"}
         /\ pc'[t] = "replace" => copy'[t] = Readable /\ Readable' = Readable /\ opened' = opened
                                    /\ inode' = inode /\ pc[t] = "scan"
<1> USE DEF TypeInv, TypeOK, StoreTypeOK
<1>1. CASE Load(t)
  BY <1>1 DEF Load, CatchesUp, fileVars, Readable
<1>2. CASE LoadGarbage(t)
  BY <1>2 DEF LoadGarbage, CatchesUp, fileVars, Readable
<1>3. CASE Quarantine(t)
  BY <1>3 DEF Quarantine, Overtakes, Readable, Shape
<1>4. CASE Open(t)
  BY <1>4 DEF Open, historyVars, Consumes
<1>5. CASE Lock(t)
  BY <1>5 DEF Lock, fileVars, historyVars, Shape, Locking, Consumes
<1>6. CASE Scan(t)
  BY <1>6 DEF Scan, fileVars, Readable, Shape, Locking, Consumes
<1> QED BY <1>1, <1>2, <1>3, <1>4, <1>5, <1>6 DEF Moves

\* A step that writes nothing leaves the document, or renames it away: then
\* the copies of the others have lost what it held.
LEMMA MovesAway ==
  ASSUME TypeInv, NEW t \in Threads, Moves(t)
  PROVE  \/ Readable' = Readable
         \/ /\ Readable' = DefaultDoc /\ pc[t] = "quarantine" /\ copy[t] = DefaultDoc
            /\ behind[t] \subseteq overtaken'
            /\ \A u \in Threads : u # t /\ pc[u] \notin {"idle", "start"} =>
                 Missed(copy[u], DefaultDoc) \subseteq behind'[u]
<1> USE DEF TypeInv, TypeOK, StoreTypeOK
<1>1. CASE Quarantine(t)
  BY <1>1 DEF Quarantine, Overtakes, Readable, Shape
<1>2. CASE Open(t)
  BY <1>2 DEF Open, Readable
<1>3. CASE Load(t) \/ LoadGarbage(t) \/ Lock(t) \/ Scan(t)
  BY <1>3 DEF Load, LoadGarbage, Lock, Scan, fileVars, Readable
<1> QED BY <1>1, <1>2, <1>3 DEF Moves

\* What the others see of a write.
LEMMA WriteStands ==
  ASSUME TypeInv, NEW t \in Threads, NEW call, NEW new, WriteOf(t, call, new)
  PROVE  /\ overtaken' = overtaken \cup behind[t] /\ behind'[t] = behind[t]
         /\ \A u \in Threads : u # t /\ pc[u] \notin {"idle", "start"} =>
              stale'[u] /\ behind'[u] = behind[u] \cup Missed(copy[u], new)
         /\ stale'[t] = stale[t]
         /\ \A u \in Threads : u # t => pc'[u] = pc[u] /\ todo'[u] = todo[u]
         /\ pc'[t] \in {"edit", "call"} /\ copy' = copy
<1>1. stale' = [u \in Threads |-> stale[u] \/ (u # t /\ pc[u] \notin {"idle", "start"})]
  BY DEF WriteOf, Wrote
<1>2. /\ overtaken' = overtaken \cup behind[t] /\ behind'[t] = behind[t]
      /\ \A u \in Threads : u # t /\ pc[u] \notin {"idle", "start"} =>
           behind'[u] = behind[u] \cup Missed(copy[u], new)
  BY DEF WriteOf, Overtakes
<1> QED BY <1>1, <1>2 DEF WriteOf, TypeInv, TypeOK, StoreTypeOK

\* What a write brings back that the document no longer lets in, and what it
\* drops from it, is overtaken.
LEMMA WriteCovers ==
  ASSUME TypeInv, Abreast, NEW t \in Threads, NEW call, NEW new, WriteOf(t, call, new)
  PROVE  /\ overtaken \subseteq overtaken' /\ behind[t] \subseteq overtaken'
         /\ Active(new) \subseteq Active(Readable) \cup Adds(call) \cup overtaken'
         /\ Live(copy[t]) \subseteq Live(Readable) \cup overtaken'
         /\ Live(new) \subseteq Live(Readable) \cup Adds(call) \cup overtaken'
         /\ Accepted(Readable) \subseteq Accepted(new) \cup overtaken'
<1>1. Missed(copy[t], Readable) \subseteq behind[t] /\ overtaken' = overtaken \cup behind[t]
  BY WriteStands DEF Abreast, WriteOf
<1>2. /\ Active(copy[t]) \subseteq Active(Readable) \cup overtaken'
      /\ Live(copy[t]) \subseteq Live(Readable) \cup overtaken'
      /\ Accepted(Readable) \subseteq Accepted(copy[t]) \cup overtaken'
  BY <1>1 DEF Missed
<1>3. /\ Active(new) \subseteq Active(copy[t]) \cup Adds(call)
      /\ Live(new) \subseteq Live(copy[t]) \cup Adds(call)
      /\ copy[t].users \subseteq new.users
  BY DEF WriteOf, EditOf
<1>4. Accepted(copy[t]) \subseteq Accepted(new)
  BY <1>3 DEF Accepted
<1> QED BY <1>1, <1>2, <1>3, <1>4

LEMMA AbreastKept == TypeInv /\ Abreast /\ [Next]_vars => Abreast'
<1> SUFFICES ASSUME TypeInv, Abreast, [Next]_vars, NEW u \in Threads,
                    pc'[u] \in {"normalise", "quarantine", "edit", "replace"}
             PROVE  Missed(copy'[u], Readable') \subseteq behind'[u]
  BY DEF Abreast
<1>1. CASE Leaves
  BY <1>1, LeavesQuietly DEF Leaves, Kept, Left, Abreast
<1>2. ASSUME NEW t \in Threads, Moves(t) PROVE Missed(copy'[u], Readable') \subseteq behind'[u]
  <2>1. CASE u = t
    BY <1>2, <2>1, MovesIs, NothingMissed
  <2>2. CASE u # t
    <3>1. pc[u] = pc'[u] /\ copy'[u] = copy[u] /\ behind[u] \subseteq behind'[u]
      BY <1>2, <2>2, MovesIs
    <3>2. CASE Readable' = Readable
      BY <3>1, <3>2 DEF Abreast
    <3>3. CASE Readable' # Readable
      BY <1>2, <2>2, <3>1, <3>3, MovesAway
    <3> QED BY <3>2, <3>3
  <2> QED BY <2>1, <2>2
<1>3. ASSUME NEW t \in Threads, Writes(t), UNCHANGED webVars
      PROVE  Missed(copy'[u], Readable') \subseteq behind'[u]
  <2>1. PICK call, new : WriteOf(t, call, new)
    BY <1>3, WriteIs
  <2>2. Readable' = new /\ copy' = copy
    BY <2>1 DEF WriteOf
  <2>3. CASE u = t
    <3>1. pc[t] = "normalise" /\ new = copy[t]
      BY <2>1, <2>3 DEF WriteOf
    <3> QED BY <2>2, <2>3, <3>1, NothingMissed
  <2>4. CASE u # t
    BY <2>1, <2>2, <2>4, WriteStands
  <2> QED BY <2>3, <2>4
<1> QED BY <1>1, <1>2, <1>3, StepCases

-----------------------------------------------------------------------------
(* Reset links, and the users of accepted invitations.                      *)

SpentStays == used \cap Live(Readable) \subseteq overtaken

LinkFacts == LinkUsedOnce /\ SpentStays /\ AcceptedUserExists

LEMMA InitLinks == Init => LinkFacts
BY DEF Init, LinkFacts, LinkUsedOnce, SpentStays, AcceptedUserExists

LEMMA WriteKeepsLinks ==
  ASSUME TypeInv, Fresh, Abreast, LinkFacts,
         NEW t \in Threads, NEW call, NEW new, WriteOf(t, call, new)
  PROVE  LinkFacts'
<1>1. Readable' = new /\ EditOf(call, copy[t], new) /\ new \in Docs /\ call \in Calls
      /\ copy[t] \in Docs
  BY DEF WriteOf, TypeInv, TypeOK, StoreTypeOK
<1>2. used' = used \cup Claimed(call) /\ reused' = reused \cup (used \cap Claimed(call))
  BY DEF WriteOf, Claim
<1>3. Adds(call) \cap used = {}
  BY TakenHas DEF Fresh, WriteOf
<1>4. used \cap Live(Readable) \subseteq overtaken'
  BY WriteCovers DEF LinkFacts, SpentStays
<1>5. call.op = "consume_link" =>
        Claimed(call) = {call.link} /\ call.link \in Live(copy[t]) /\ call.link \notin Live(new)
  BY <1>1 DEF WriteOf, Claimed, EditOf
<1>6. call.op = "consume_invite" =>
        /\ Claimed(call) = {call.invite} /\ call.invite \in Invites
        /\ <<call.uid, call.invite>> \in new.users
  <2>1. call.op = "consume_invite" => call.invite \in Offered(copy[t])
    BY DEF WriteOf
  <2> QED BY <1>1, <2>1 DEF Claimed, EditOf, Offered, Docs
<1>7. call.op \notin {"consume_link", "consume_invite"} => Claimed(call) = {}
  BY DEF Claimed
<1>8. Live(new) \subseteq Links /\ Live(copy[t]) \subseteq Links /\ Links \cap Invites = {}
  BY <1>1, StoreAssumption DEF Live, Docs
<1>9. SpentStays'
  <2> SUFFICES ASSUME NEW l \in used' \cap Live(new) PROVE l \in overtaken'
    BY <1>1 DEF SpentStays
  <2>1. l \in used
    BY <1>2, <1>5, <1>6, <1>7, <1>8
  <2>2. l \in Live(Readable) \cup overtaken'
    BY <1>3, <2>1, WriteCovers
  <2> QED BY <1>4, <2>1, <2>2
<1>10. LinkUsedOnce'
  <2> SUFFICES ASSUME NEW l \in reused' \cap Links PROVE l \in overtaken'
    BY DEF LinkUsedOnce
  <2>1. CASE l \in reused
    BY <2>1, WriteCovers DEF LinkFacts, LinkUsedOnce
  <2>2. CASE l \in used /\ l \in Claimed(call)
    <3>1. l \in Live(copy[t])
      BY <1>5, <1>6, <1>7, <1>8, <2>2
    <3> QED BY <1>4, <2>2, <3>1, WriteCovers
  <2> QED BY <1>2, <2>1, <2>2
<1>11. AcceptedUserExists'
  <2> SUFFICES ASSUME NEW i \in (used' \cap Invites) \ overtaken'
               PROVE  i \in Accepted(new)
    BY <1>1 DEF AcceptedUserExists
  <2>1. CASE i \in used
    <3>1. i \in Accepted(Readable)
      BY <2>1, WriteCovers DEF LinkFacts, AcceptedUserExists
    <3> QED BY <3>1, WriteCovers
  <2>2. CASE i \in Claimed(call)
    <3>1. call.op = "consume_invite" /\ i = call.invite
      BY <1>5, <1>6, <1>7, <1>8, <2>2
    <3>2. <<call.uid, call.invite>> \in new.users /\ <<call.uid, call.invite>>[2] = i
      BY <1>6, <3>1
    <3> QED BY <3>2 DEF Accepted
  <2> QED BY <1>2, <2>1, <2>2
<1> QED BY <1>9, <1>10, <1>11 DEF LinkFacts

LEMMA LinksKept == TypeInv /\ Fresh /\ Abreast /\ LinkFacts /\ [Next]_vars => LinkFacts'
<1> SUFFICES ASSUME TypeInv, Fresh, Abreast, LinkFacts, [Next]_vars
             PROVE  LinkFacts'
  OBVIOUS
<1>1. ASSUME Quiet, Accepted(Readable) \subseteq Accepted(Readable') \cup overtaken'
      PROVE  LinkFacts'
  <2>1. Live(Readable') \subseteq Live(Readable)
    BY <1>1, DefaultIsDoc DEF Quiet
  <2> QED BY <1>1, <2>1 DEF Quiet, LinkFacts, LinkUsedOnce, SpentStays, AcceptedUserExists
<1>2. ASSUME NEW t \in Threads, Writes(t), UNCHANGED webVars
      PROVE  LinkFacts'
  BY <1>2, WriteIs, WriteKeepsLinks
<1>3. ASSUME NEW t \in Threads, Moves(t) PROVE LinkFacts'
  <2>1. CASE Readable' = Readable
    BY <1>1, <1>3, <2>1, MovesQuietly
  <2>2. CASE Readable' # Readable
    <3>1. /\ pc[t] = "quarantine" /\ copy[t] = DefaultDoc /\ behind[t] \subseteq overtaken'
      BY <1>3, <2>2, MovesAway
    <3>2. Accepted(Readable) \subseteq overtaken'
      BY <3>1, DefaultIsDoc DEF Abreast, Missed
    <3> QED BY <1>1, <1>3, <3>2, MovesQuietly
  <2> QED BY <2>1, <2>2
<1> QED BY <1>1, <1>2, <1>3, StepCases, LeavesQuietly

\* A reset link lets one click in, whatever the overlap of loads and saves,
\* unless a helper that had loaded the link unspent wrote after it was spent.
THEOREM SignInLinkUsedOnce == Spec => []LinkUsedOnce
<1> DEFINE I == TypeInv /\ Fresh /\ Abreast /\ LinkFacts
<1>1. Init => I
  BY InitTypes, InitFresh, InitAbreast, InitLinks
<1>2. I /\ [Next]_vars => I'
  BY TypesKept, FreshKept, AbreastKept, LinksKept
<1>3. I => LinkUsedOnce
  BY DEF LinkFacts
<1> QED BY <1>1, <1>2, <1>3, PTL DEF Spec

\* The user whose acceptance was acknowledged has a row, unless a helper that
\* had loaded the document before the user was in it wrote after.
THEOREM SignInAcceptedUserExists == Spec => []AcceptedUserExists
<1> DEFINE I == TypeInv /\ Fresh /\ Abreast /\ LinkFacts
<1>1. Init => I
  BY InitTypes, InitFresh, InitAbreast, InitLinks
<1>2. I /\ [Next]_vars => I'
  BY TypesKept, FreshKept, AbreastKept, LinksKept
<1>3. I => AcceptedUserExists
  BY DEF LinkFacts
<1> QED BY <1>1, <1>2, <1>3, PTL DEF Spec

-----------------------------------------------------------------------------
(* The enrolment.                                                           *)

\* A copy marked as enrolled holds a secret that was checked, or one on which a
\* write that did not know it put the mark.
CopiesVerified ==
  \A t \in Threads : copy[t].enrolled => copy[t].secret \in verified \cup overtaken

\* A thread about to mark the secret as enrolled has checked a code of the one
\* it read, and knows of any other chosen since.
Marks(t) ==
  todo[t] # <<>> /\ Call(t).op = "mark_enrolled" =>
    /\ pc[t] \notin {"idle", "start"}
    /\ copy[t].secret \in verified \cup behind[t]
    /\ Readable.secret \in {copy[t].secret} \cup behind[t]

Enrolment == EnrolledWasVerified /\ CopiesVerified /\ \A t \in Threads : Marks(t)

LEMMA InitEnrolment == Init => Enrolment
<1> SUFFICES ASSUME Init PROVE Enrolment
  OBVIOUS
<1>1. PICK s \in Starts : file = s.file /\ verified = s.verified
  BY DEF Init
<1>2. Readable.enrolled => Readable.secret \in verified
  BY <1>1, StartsAssumption, DefaultIsDoc, NormalisedDoc DEF Readable
<1>3. \A t \in Threads : todo[t] = <<>> /\ ~copy[t].enrolled
  BY DefaultIsDoc DEF Init
<1> QED BY <1>2, <1>3 DEF Enrolment, EnrolledWasVerified, CopiesVerified, Marks

\* The calls left to a thread whose call is done: no mark among them.
LEMMA NoMarkLeft ==
  ASSUME TypeInv, NEW t \in Threads, todo[t] # <<>>, Tail(todo[t]) # <<>>
  PROVE  Head(Tail(todo[t])).op # "mark_enrolled"
<1> DEFINE rest == Tail(todo[t])
<1>1. req[t].op = "forgot"
  BY CallOf
<1>2. Planned(req[t], rest) /\ rest \in Seq(Calls)
  BY CallOf
<1>3. 1 \in 1 .. Len(rest) /\ Head(rest) = rest[1]
  BY <1>2
<1> HIDE DEF rest
<1>4. Head(rest).op = "mark_enrolled" => req[t].op = "enroll"
  BY <1>2, <1>3 DEF Planned
<1> QED BY <1>1, <1>4 DEF rest

LEMMA WriteKeepsEnrolment ==
  ASSUME TypeInv, Abreast, Enrolment, NEW t \in Threads, NEW call, NEW new,
         WriteOf(t, call, new), UNCHANGED webVars
  PROVE  Enrolment'
<1>1. verified' = verified /\ Readable' = new /\ copy' = copy
  BY DEF webVars, WriteOf
<1>2. overtaken \subseteq overtaken' /\ behind[t] \subseteq overtaken' /\ behind'[t] = behind[t]
  BY WriteCovers, WriteStands
<1>3. ASSUME new.enrolled PROVE new.secret \in verified \cup overtaken'
  <2>1. /\ EditOf(call, copy[t], new) /\ (call.op = "look" \/ call = Call(t)) /\ todo[t] # <<>>
    BY DEF WriteOf
  <2>2. CASE call.op = "mark_enrolled"
    BY <1>2, <2>1, <2>2 DEF Enrolment, Marks, EditOf
  <2>3. CASE call.op = "set_secret"
    BY <1>3, <2>1, <2>3 DEF EditOf
  <2>4. CASE call.op \notin {"mark_enrolled", "set_secret"}
    <3>1. new.secret = copy[t].secret /\ copy[t].enrolled
      BY <1>3, <2>1, <2>4 DEF EditOf
    <3> QED BY <1>2, <3>1 DEF Enrolment, CopiesVerified
  <2> QED BY <2>2, <2>3, <2>4
<1>4. EnrolledWasVerified' /\ CopiesVerified'
  BY <1>1, <1>2, <1>3 DEF EnrolledWasVerified, CopiesVerified, Enrolment
<1>5. ASSUME NEW u \in Threads, u # t PROVE Marks(u)'
  <2>1. pc'[u] = pc[u] /\ todo'[u] = todo[u]
    BY <1>5, WriteStands
  <2>2. pc[u] \notin {"idle", "start"} => behind'[u] = behind[u] \cup Missed(copy[u], new)
    BY <1>5, WriteStands
  <2>3. new.secret \in {copy[u].secret} \cup Missed(copy[u], new)
    BY DEF Missed
  <2> QED BY <1>1, <2>1, <2>2, <2>3 DEF Enrolment, Marks, Call
<1>6. Marks(t)'
  <2>1. CASE pc[t] = "normalise"
    <3>1. /\ todo' = todo /\ new = copy[t] /\ pc'[t] = "edit"
      BY <2>1 DEF WriteOf
    <3> QED BY <1>1, <1>2, <3>1 DEF Enrolment, Marks, Call
  <2>2. CASE pc[t] # "normalise"
    <3>1. todo[t] # <<>> /\ todo'[t] = Tail(todo[t])
      BY <2>2 DEF WriteOf
    <3> QED BY <3>1, NoMarkLeft DEF Marks, Call
  <2> QED BY <2>1, <2>2
<1> QED BY <1>4, <1>5, <1>6 DEF Enrolment

LEMMA MovesKeepEnrolment ==
  ASSUME TypeInv, Abreast, Enrolment, NEW t \in Threads, Moves(t), UNCHANGED webVars
  PROVE  Enrolment'
<1>1. Quiet /\ verified' = verified
  BY MovesQuietly DEF webVars
<1>2. EnrolledWasVerified'
  BY <1>1, DefaultIsDoc DEF Quiet, Enrolment, EnrolledWasVerified
<1>3. \A u \in Threads : copy'[u] \in {copy[u], Readable, DefaultDoc}
  BY DEF Moves, Load, LoadGarbage, Quarantine, Open, Lock, Scan, TypeInv, TypeOK, StoreTypeOK
<1>4. CopiesVerified'
  BY <1>1, <1>3, DefaultIsDoc DEF Quiet, Enrolment, EnrolledWasVerified, CopiesVerified
<1>5. ASSUME NEW u \in Threads, u # t PROVE Marks(u)'
  <2> SUFFICES ASSUME todo[u] # <<>>, Call(u).op = "mark_enrolled" PROVE Marks(u)'
    BY MovesIs DEF Marks, Call
  <2>1. /\ pc[u] \notin {"idle", "start"} /\ copy[u].secret \in verified \cup behind[u]
        /\ Readable.secret \in {copy[u].secret} \cup behind[u]
    BY DEF Enrolment, Marks
  <2>2. pc'[u] = pc[u] /\ copy'[u] = copy[u] /\ behind[u] \subseteq behind'[u]
    BY <1>5, MovesIs
  <2>3. Readable'.secret \in {copy[u].secret} \cup behind'[u]
    <3>1. CASE Readable' = Readable
      BY <2>1, <2>2, <3>1
    <3>2. CASE Readable' # Readable
      <4>1. Readable' = DefaultDoc /\ Missed(copy[u], DefaultDoc) \subseteq behind'[u]
        BY <1>5, <2>1, <3>2, MovesAway
      <4> QED BY <4>1 DEF Missed
    <3> QED BY <3>1, <3>2
  <2> QED BY <1>1, <2>1, <2>2, <2>3 DEF Marks
<1>6. Marks(t)'
  <2> SUFFICES ASSUME todo[t] # <<>>, Call(t).op = "mark_enrolled" PROVE Marks(t)'
    BY MovesIs DEF Marks, Call
  <2>1. /\ pc[t] \notin {"idle", "start"} /\ copy[t].secret \in verified \cup behind[t]
        /\ Readable.secret \in {copy[t].secret} \cup behind[t]
    BY DEF Enrolment, Marks
  <2>2. ~Consumes(t)
    BY DEF Consumes
  <2>3. Load(t) \/ LoadGarbage(t) \/ Quarantine(t)
    BY <2>2 DEF Moves, Open, Lock, Scan, TypeInv, Shape, Locking
  <2>4. pc'[t] \in {"normalise", "quarantine", "edit"} /\ copy'[t] = Readable'
    <3>1. pc'[t] \in {"normalise", "quarantine", "edit"}
      BY <2>3 DEF Load, LoadGarbage, Quarantine, TypeInv, TypeOK, StoreTypeOK
    <3> QED BY <3>1, MovesIs
  <2>5. CASE Load(t) \/ LoadGarbage(t)
    <3>1. Readable' = Readable
      BY <2>5 DEF Load, LoadGarbage, fileVars, Readable
    <3>2. behind'[t] = behind[t] \cap (Secrets \cup {NoSecret})
      BY <2>5 DEF Load, LoadGarbage, CatchesUp, TypeInv, TypeOK, StoreTypeOK
    <3>3. Readable.secret \in Secrets \cup {NoSecret}
      BY ReadableDoc DEF Docs
    <3>4. Readable.secret \in verified \cup behind'[t]
      BY <2>1, <3>2, <3>3
    <3> QED BY <1>1, <2>4, <3>1, <3>4 DEF Marks
  <2>6. CASE Quarantine(t)
    <3>1. copy'[t] = copy[t] /\ behind[t] \subseteq behind'[t]
      BY <2>6 DEF Quarantine, Overtakes
    <3> QED BY <1>1, <2>1, <2>4, <3>1 DEF Marks
  <2> QED BY <2>3, <2>5, <2>6
<1> QED BY <1>2, <1>4, <1>5, <1>6 DEF Enrolment

LEMMA EnrolmentKept == TypeInv /\ Abreast /\ Enrolment /\ [Next]_vars => Enrolment'
<1> SUFFICES ASSUME TypeInv, Abreast, Enrolment, [Next]_vars PROVE Enrolment'
  OBVIOUS
<1>1. ASSUME Readable' = Readable, overtaken' = overtaken, verified \subseteq verified',
             \A u \in Threads : copy'[u] \in {copy[u], DefaultDoc}
      PROVE  EnrolledWasVerified' /\ CopiesVerified'
  BY <1>1, DefaultIsDoc DEF Enrolment, EnrolledWasVerified, CopiesVerified
<1>2. ASSUME NEW u \in Threads, Readable' = Readable, verified \subseteq verified',
             todo'[u] = todo[u], pc'[u] \notin {"idle", "start"} \/ pc'[u] = pc[u],
             copy'[u] = copy[u], behind'[u] = behind[u]
      PROVE  Marks(u)'
  BY <1>2 DEF Enrolment, Marks, Call
<1>3. ASSUME NEW u \in Threads, todo'[u] = <<>> PROVE Marks(u)'
  BY <1>3 DEF Marks
<1>4. ASSUME NEW t \in Threads, Moves(t), UNCHANGED webVars PROVE Enrolment'
  BY <1>4, MovesKeepEnrolment
<1>5. ASSUME NEW t \in Threads, Writes(t), UNCHANGED webVars PROVE Enrolment'
  BY <1>5, WriteIs, WriteKeepsEnrolment
<1>6. ASSUME NEW t \in Threads, Skip(t, expired, aged) \/ Refuse(t, expired), UNCHANGED webVars
      PROVE  Enrolment'
  <2>1. Readable' = Readable /\ overtaken' = overtaken /\ verified' = verified
        /\ behind' = behind /\ copy' = copy
    BY <1>6 DEF Skip, Refuse, Readable, fileVars, historyVars, webVars
  <2>2. /\ pc' = [pc EXCEPT ![t] = "call"] /\ todo' = [todo EXCEPT ![t] = Tail(todo[t])]
        /\ todo[t] # <<>>
    BY <1>6 DEF Skip, Refuse, TypeInv, Shape, Locking, Consumes
  <2>3. ASSUME NEW u \in Threads, u # t PROVE Marks(u)'
    BY <1>2, <2>1, <2>2, <2>3 DEF TypeInv, TypeOK, StoreTypeOK
  <2>4. Marks(t)'
    BY <2>2, NoMarkLeft DEF Marks, Call, TypeInv, TypeOK, StoreTypeOK
  <2> QED BY <1>1, <2>1, <2>3, <2>4 DEF Enrolment
<1>7. ASSUME NEW t \in Threads, Decide(t) PROVE Enrolment'
  <2> DEFINE handling == Handled(req[t], copy[t])
  <2>1. /\ pc[t] = "edit" /\ WellMade(req[t], copy[t], handling)
        /\ pc' = [pc EXCEPT ![t] = "call"]
        /\ todo' = [todo EXCEPT ![t] = handling.calls]
        /\ verified' = IF handling.ok /\ req[t].op = "enroll"
                         THEN verified \cup {copy[t].secret} ELSE verified
    BY <1>7, DecideIs
  <2> HIDE DEF handling
  <2>2. Readable' = Readable /\ verified \subseteq verified' /\ behind' = behind /\ copy' = copy
        /\ overtaken' = overtaken
    BY <1>7, <2>1 DEF Decide, Readable, fileVars, historyVars
  <2>3. ASSUME NEW u \in Threads, u # t PROVE Marks(u)'
    BY <1>2, <2>1, <2>2, <2>3 DEF TypeInv, TypeOK, StoreTypeOK
  <2>4. Marks(t)'
    <3>1. pc'[t] = "call" /\ todo'[t] = handling.calls
      BY <2>1 DEF TypeInv, TypeOK, StoreTypeOK
    <3>2. handling.calls # <<>> /\ Head(handling.calls).op = "mark_enrolled" =>
            handling.ok /\ req[t].op = "enroll"
      <4>1. handling.calls # <<>> => /\ 1 \in 1 .. Len(handling.calls)
                                     /\ Head(handling.calls) = handling.calls[1]
        BY <2>1 DEF WellMade, Planned
      <4> QED BY <2>1, <4>1 DEF WellMade, Planned
    <3>3. Readable.secret \in {copy[t].secret} \cup behind[t]
      BY <2>1 DEF Abreast, Missed
    <3> QED BY <2>1, <2>2, <3>1, <3>2, <3>3 DEF Marks, Call
  <2> QED BY <1>1, <2>2, <2>3, <2>4 DEF Enrolment
<1>8. ASSUME NEW T, Forget(T), UNCHANGED <<fileVars, overtaken, disturbed, used, reused>>,
             verified' = verified
      PROVE  Enrolment'
  <2>1. Readable' = Readable /\ \A u \in Threads : copy'[u] \in {copy[u], DefaultDoc}
    BY <1>8 DEF Readable, fileVars, Forget
  <2>2. ASSUME NEW u \in Threads PROVE Marks(u)'
    <3>1. CASE u \in T BY <1>3, <1>8, <3>1 DEF Forget
    <3>2. CASE u \notin T BY <1>2, <1>8, <2>1, <3>2 DEF Forget
    <3> QED BY <3>1, <3>2
  <2> QED BY <1>1, <1>8, <2>1, <2>2 DEF Enrolment
<1>9. ASSUME NEW t \in Threads, Reply(t) PROVE Enrolment'
  BY <1>8, <1>9 DEF Reply
<1>10. CASE Restart
  BY <1>8, <1>10 DEF Restart
<1>11. CASE Tick \/ UNCHANGED vars
  <2>1. /\ Readable' = Readable /\ overtaken' = overtaken /\ verified' = verified /\ todo' = todo
        /\ pc' = pc /\ copy' = copy /\ behind' = behind
    BY <1>11 DEF Tick, vars, storeVars, fileVars, callVars, historyVars, webVars, Readable
  <2> QED BY <1>1, <1>2, <2>1 DEF Enrolment
<1>12. ASSUME NEW t \in Threads, NEW q \in Requests, Start(t, q) PROVE Enrolment'
  <2>1. /\ q \in Kinds /\ pc' = [pc EXCEPT ![t] = "start"]
        /\ todo' = [todo EXCEPT ![t] = Begun(q).calls]
        /\ UNCHANGED <<file, copy, behind, overtaken, verified>>
    BY <1>12, StartIs
  <2>2. Readable' = Readable
    BY <2>1 DEF Readable
  <2>3. ASSUME NEW u \in Threads, u # t PROVE Marks(u)'
    BY <1>2, <2>1, <2>2, <2>3 DEF TypeInv, TypeOK, StoreTypeOK
  <2>4. Marks(t)'
    <3>1. todo'[t] = Begun(q).calls
      BY <2>1 DEF TypeInv, TypeOK, StoreTypeOK
    <3>2. Begun(q).calls # <<>> => /\ 1 \in 1 .. Len(Begun(q).calls)
                                   /\ Head(Begun(q).calls) = Begun(q).calls[1]
      BY <2>1, BegunWell DEF Planned
    <3>3. Begun(q).calls # <<>> => Head(Begun(q).calls).op # "mark_enrolled"
      BY <2>1, <3>2, BegunWell
    <3> QED BY <3>1, <3>3 DEF Marks, Call
  <2> QED BY <1>1, <2>1, <2>2, <2>3, <2>4 DEF Enrolment
<1>13. ASSUME NEW t \in Threads, Work(t) PROVE Enrolment'
  BY <1>4, <1>5, <1>6, <1>13 DEF Work, StoreStep, Moves, Writes
<1> QED BY <1>7, <1>9, <1>10, <1>11, <1>12, <1>13 DEF Next

\* A login asks for codes of the secret on file only if somebody has proved
\* that he holds it, whatever the overlap of the requests that set and mark
\* it, unless a request that had read the file before the secret was there
\* wrote after.
THEOREM SignInEnrolledWasVerified == Spec => []EnrolledWasVerified
<1> DEFINE I == TypeInv /\ Abreast /\ Enrolment
<1>1. Init => I
  BY InitTypes, InitAbreast, InitEnrolment
<1>2. I /\ [Next]_vars => I'
  BY TypesKept, AbreastKept, EnrolmentKept
<1>3. I => EnrolledWasVerified
  BY DEF Enrolment
<1> QED BY <1>1, <1>2, <1>3, PTL DEF Spec

-----------------------------------------------------------------------------
(* The revocation of a device.                                              *)

\* A request that revokes: it has read the device as gone only if it is gone,
\* and when it has no call left the device is gone; or a write brought it back.
Revoking(t) ==
  req[t].op = "revoke" /\ pc[t] # "idle" =>
    /\ pc[t] = "call" <=> todo[t] = <<>>
    /\ pc[t] = "call" \/ (pc[t] \in {"normalise", "edit"} /\ req[t].arg \notin Active(copy[t]))
         => req[t].arg \notin Active(Readable) \ overtaken

Revocation == RevokedStaysRevoked /\ \A t \in Threads : Revoking(t)

LEMMA InitRevocation == Init => Revocation
BY DEF Init, Revocation, RevokedStaysRevoked, Revoking

LEMMA NotFoundIsGone ==
  ASSUME NEW call \in Calls, NEW doc, NEW old, NEW older, ~Applies(call, doc, old, older),
         call.op = "revoke_device"
  PROVE  call.device \notin Active(doc)
<1>1. call \notin SecretCalls /\ call \in DeviceCalls /\ call \notin LinkCalls /\ call \notin UserCalls
  BY OpsOf DEF Calls
<1>2. Applies(call, doc, old, older) = DeviceFound(call, doc)
  BY <1>1 DEF Applies
<1> QED BY <1>2 DEF DeviceFound, Active

LEMMA WriteKeepsRevocation ==
  ASSUME TypeInv, Fresh, Abreast, Revocation, NEW t \in Threads, NEW call, NEW new,
         WriteOf(t, call, new), UNCHANGED webVars
  PROVE  Revocation'
<1>1. dropped' = dropped /\ req' = req /\ Readable' = new /\ copy' = copy
  BY DEF webVars, WriteOf
<1>2. /\ Active(new) \subseteq Active(Readable) \cup Adds(call) \cup overtaken'
      /\ overtaken \subseteq overtaken'
  BY WriteCovers
<1>3. /\ Adds(call) \cap dropped = {} /\ \A u \in Threads : Adds(call) \cap Aims(u) = {}
  BY TakenHas DEF WriteOf, Fresh
<1>4. RevokedStaysRevoked'
  BY <1>1, <1>2, <1>3 DEF Revocation, RevokedStaysRevoked
<1>5. ASSUME NEW u \in Threads, u # t PROVE Revoking(u)'
  <2>1. pc'[u] = pc[u] /\ todo'[u] = todo[u]
    BY <1>5, WriteStands
  <2>2. req[u].op = "revoke" => req[u].arg \notin Adds(call)
    BY <1>3 DEF Aims
  <2> QED BY <1>1, <1>2, <2>1, <2>2 DEF Revocation, Revoking
<1>6. Revoking(t)'
  <2>1. CASE pc[t] = "normalise"
    <3>1. todo' = todo /\ new = copy[t] /\ pc'[t] = "edit"
      BY <2>1 DEF WriteOf
    <3> QED BY <1>1, <1>2, <2>1, <3>1 DEF Revocation, Revoking
  <2>2. CASE pc[t] # "normalise"
    <3>1. call = Call(t) /\ pc'[t] = "call" /\ todo'[t] = Tail(todo[t]) /\ todo[t] # <<>>
          /\ EditOf(call, copy[t], new)
      BY <2>2 DEF WriteOf
    <3>2. req[t].op = "revoke" =>
            call.op = "revoke_device" /\ call.device = req[t].arg /\ Tail(todo[t]) = <<>>
      BY <3>1, CallOf
    <3>3. req[t].op = "revoke" => req[t].arg \notin Active(new)
      BY <3>1, <3>2 DEF EditOf
    <3> QED BY <1>1, <3>1, <3>2, <3>3 DEF Revoking
  <2> QED BY <2>1, <2>2
<1> QED BY <1>4, <1>5, <1>6 DEF Revocation

LEMMA RevocationKept == TypeInv /\ Fresh /\ Abreast /\ Revocation /\ [Next]_vars => Revocation'
<1> SUFFICES ASSUME TypeInv, Fresh, Abreast, Revocation, [Next]_vars PROVE Revocation'
  OBVIOUS
<1>1. ASSUME Quiet, dropped' = dropped PROVE RevokedStaysRevoked'
  BY <1>1, DefaultIsDoc DEF Quiet, Revocation, RevokedStaysRevoked
<1>2. ASSUME NEW u \in Threads, Quiet, todo'[u] = todo[u], pc'[u] = pc[u], copy'[u] = copy[u],
             req'[u] = req[u]
      PROVE  Revoking(u)'
  <2>1. Active(Readable') \ overtaken' \subseteq Active(Readable) \ overtaken
    BY <1>2, DefaultIsDoc DEF Quiet
  <2> QED BY <1>2, <2>1 DEF Revocation, Revoking
<1>3. ASSUME NEW u \in Threads, pc'[u] = "idle" \/ req'[u].op # "revoke" PROVE Revoking(u)'
  BY <1>3 DEF Revoking
<1>4. ASSUME NEW t \in Threads, Moves(t), UNCHANGED webVars PROVE Revocation'
  <2>1. Quiet /\ dropped' = dropped /\ req' = req
    BY <1>4, MovesQuietly DEF webVars
  <2>2. Revoking(t)'
    <3>1. todo' = todo /\ todo[t] # <<>> /\ pc'[t] # "call"
      BY <1>4 DEF Moves, Load, LoadGarbage, Quarantine, Open, Lock, Scan, TypeInv, TypeOK,
                  StoreTypeOK, Shape, Locking, Consumes
    <3>2. pc'[t] \in {"normalise", "edit"} => copy'[t] = Readable'
      BY <1>4, MovesIs
    <3> QED BY <2>1, <3>1, <3>2 DEF Revoking
  <2>3. ASSUME NEW u \in Threads, u # t PROVE Revoking(u)'
    BY <1>2, <1>4, <2>1, <2>3, MovesIs
  <2> QED BY <1>1, <2>1, <2>2, <2>3 DEF Revocation
<1>5. ASSUME NEW t \in Threads, Writes(t), UNCHANGED webVars PROVE Revocation'
  BY <1>5, WriteIs, WriteKeepsRevocation
<1>6. ASSUME NEW t \in Threads, Skip(t, expired, aged) \/ Refuse(t, expired), UNCHANGED webVars
      PROVE  Revocation'
  <2>1. Quiet /\ dropped' = dropped /\ req' = req /\ copy' = copy /\ Readable' = Readable
        /\ overtaken' = overtaken
    BY <1>6 DEF Skip, Refuse, Quiet, Readable, fileVars, historyVars, webVars
  <2>2. ASSUME NEW u \in Threads, u # t PROVE Revoking(u)'
    <3>1. pc' = [pc EXCEPT ![t] = "call"] /\ todo' = [todo EXCEPT ![t] = Tail(todo[t])]
      BY <1>6 DEF Skip, Refuse
    <3>2. todo'[u] = todo[u] /\ pc'[u] = pc[u]
      BY <2>2, <3>1 DEF TypeInv, TypeOK, StoreTypeOK
    <3> QED BY <1>2, <2>1, <3>2
  <2>3. ASSUME Skip(t, expired, aged) PROVE Revoking(t)'
    <3>1. /\ pc[t] = "edit" /\ todo[t] # <<>> /\ todo'[t] = Tail(todo[t]) /\ pc'[t] = "call"
          /\ ~Applies(Call(t), copy[t], expired, aged)
      BY <2>3 DEF Skip, TypeInv, TypeOK, StoreTypeOK, Shape
    <3>2. req[t].op = "revoke" =>
            /\ Call(t) \in Calls /\ Call(t).op = "revoke_device" /\ Call(t).device = req[t].arg
            /\ Tail(todo[t]) = <<>>
      BY <3>1, CallOf
    <3>3. req[t].op = "revoke" => req[t].arg \notin Active(copy[t])
      BY <3>1, <3>2, NotFoundIsGone
    <3>4. req[t].op = "revoke" => req[t].arg \notin Active(Readable) \ overtaken
      BY <3>1, <3>3 DEF Revocation, Revoking
    <3> QED BY <2>1, <3>1, <3>2, <3>4 DEF Revoking
  <2>4. ASSUME Refuse(t, expired) PROVE Revoking(t)'
    <3>1. todo[t] # <<>> /\ Call(t).op = "consume_invite"
      BY <2>4 DEF Refuse, TypeInv, Shape, Locking, Consumes
    <3>2. req[t].op # "revoke"
      BY <3>1, CallOf
    <3> QED BY <1>3, <2>1, <3>2
  <2> QED BY <1>1, <1>6, <2>1, <2>2, <2>3, <2>4 DEF Revocation
<1>7. ASSUME NEW t \in Threads, Decide(t) PROVE Revocation'
  <2>1. /\ req[t].op # "revoke" /\ pc' = [pc EXCEPT ![t] = "call"]
        /\ todo' = [todo EXCEPT ![t] = todo'[t]]
    BY <1>7, DecideIs DEF TypeInv, TypeOK, StoreTypeOK
  <2>2. Quiet /\ req' = req /\ copy' = copy /\ dropped' = dropped
    BY <1>7 DEF Decide, Quiet, Readable, fileVars, historyVars
  <2>3. ASSUME NEW u \in Threads, u # t PROVE Revoking(u)'
    BY <1>2, <2>1, <2>2, <2>3 DEF TypeInv, TypeOK, StoreTypeOK
  <2>4. Revoking(t)'
    BY <1>3, <2>1, <2>2
  <2> QED BY <1>1, <2>2, <2>3, <2>4 DEF Revocation
<1>8. ASSUME NEW T, Forget(T), UNCHANGED <<fileVars, overtaken, disturbed, used, reused>>
      PROVE  /\ Quiet /\ Readable' = Readable /\ overtaken' = overtaken
             /\ \A u \in Threads : Revoking(u)'
  <2>1. Quiet /\ Readable' = Readable
    BY <1>8 DEF Quiet, Readable, fileVars
  <2>2. ASSUME NEW u \in Threads PROVE Revoking(u)'
    <3>1. CASE u \in T BY <1>3, <1>8, <3>1 DEF Forget
    <3>2. CASE u \notin T BY <1>2, <1>8, <2>1, <3>2 DEF Forget
    <3> QED BY <3>1, <3>2
  <2> QED BY <1>8, <2>1, <2>2
<1>9. ASSUME NEW t \in Threads, Reply(t) PROVE Revocation'
  <2>1. Readable' = Readable /\ overtaken' = overtaken /\ \A u \in Threads : Revoking(u)'
    BY <1>8, <1>9 DEF Reply
  <2>2. req[t].op = "revoke" => req[t].arg \notin Active(Readable) \ overtaken
    BY <1>9 DEF Reply, Revocation, Revoking
  <2>3. dropped' = IF req[t].op = "revoke" THEN dropped \cup {req[t].arg} ELSE dropped
    BY <1>9 DEF Reply
  <2>4. RevokedStaysRevoked'
    BY <2>1, <2>2, <2>3 DEF Revocation, RevokedStaysRevoked
  <2> QED BY <2>1, <2>4 DEF Revocation
<1>10. CASE Restart
  BY <1>1, <1>8, <1>10 DEF Restart, Revocation
<1>11. CASE Tick \/ UNCHANGED vars
  <2>1. Quiet /\ dropped' = dropped /\ todo' = todo /\ pc' = pc /\ copy' = copy /\ req' = req
    BY <1>11 DEF Tick, vars, storeVars, fileVars, callVars, historyVars, webVars, Quiet, Readable
  <2> QED BY <1>1, <1>2, <2>1 DEF Revocation
<1>12. ASSUME NEW t \in Threads, NEW q \in Requests, Start(t, q) PROVE Revocation'
  <2>1. /\ q \in Kinds /\ pc' = [pc EXCEPT ![t] = "start"] /\ req' = [req EXCEPT ![t] = q]
        /\ todo' = [todo EXCEPT ![t] = Begun(q).calls]
        /\ UNCHANGED <<file, copy, overtaken, disturbed, used, reused, dropped>>
    BY <1>12, StartIs
  <2>2. Quiet /\ dropped' = dropped
    BY <2>1 DEF Quiet, Readable
  <2>3. ASSUME NEW u \in Threads, u # t PROVE Revoking(u)'
    BY <1>2, <2>1, <2>2, <2>3 DEF TypeInv, TypeOK, StoreTypeOK
  <2>4. Revoking(t)'
    <3>1. pc'[t] = "start" /\ todo'[t] = Begun(q).calls /\ req'[t] = q
      BY <2>1 DEF TypeInv, TypeOK, StoreTypeOK
    <3>2. q.op = "revoke" => Begun(q).calls # <<>>
      BY <2>1, BegunWell
    <3> QED BY <3>1, <3>2 DEF Revoking
  <2> QED BY <1>1, <2>2, <2>3, <2>4 DEF Revocation
<1>13. ASSUME NEW t \in Threads, Work(t) PROVE Revocation'
  BY <1>4, <1>5, <1>6, <1>13 DEF Work, StoreStep, Moves, Writes
<1> QED BY <1>7, <1>9, <1>10, <1>11, <1>12, <1>13 DEF Next

\* A revocation that was acknowledged, its row found or not, lasts: only a
\* helper that had loaded the device unrevoked and wrote after brings it back.
THEOREM SignInRevokedStaysRevoked == Spec => []RevokedStaysRevoked
<1> DEFINE I == TypeInv /\ Fresh /\ Abreast /\ Revocation
<1>1. Init => I
  BY InitTypes, InitFresh, InitAbreast, InitRevocation
<1>2. I /\ [Next]_vars => I'
  BY TypesKept, FreshKept, AbreastKept, RevocationKept
<1>3. I => RevokedStaysRevoked
  BY DEF Revocation
<1> QED BY <1>1, <1>2, <1>3, PTL DEF Spec

-----------------------------------------------------------------------------
(* An invitation is used once, unless a foreign write disturbed it.         *)

Wants(u, i) == Consumes(u) /\ Call(u).invite = i

\* flock: one holder per inode.
Excluded ==
  \A t, u \in Threads :
    t # u /\ pc[t] \in {"scan", "replace"} /\ pc[u] \in {"scan", "replace"} => opened[t] # opened[u]

\* A descriptor that no longer leads to the path: whoever bound the path anew
\* left nothing of the invitation to take.
Orphaned ==
  \A i \in Invites \ (used \cup disturbed), u \in Threads :
    pc[u] \in Locking /\ Wants(u, i) /\ opened[u] # inode => i \notin Offered(Readable)

\* Of two that read the invitation inside their locks, one did not find it.
OneOffered ==
  \A i \in Invites \ (used \cup disturbed), t, u \in Threads :
    t # u /\ pc[t] = "replace" /\ pc[u] = "replace" /\ Wants(t, i) /\ Wants(u, i) =>
      i \notin Offered(copy[t]) \/ i \notin Offered(copy[u])

\* A used invitation is offered by no document that may be written without
\* leaving a trace.
Traceless(t, i) ==
  \/ pc[t] \in {"normalise", "edit", "replace"} /\ ~stale[t]
  \/ pc[t] = "replace" /\ Wants(t, i)

UsedUp ==
  \A i \in (used \cap Invites) \ disturbed :
    /\ i \notin Offered(Readable)
    /\ \A t \in Threads : Traceless(t, i) => i \notin Offered(copy[t])

Single == SingleUse /\ Excluded /\ Orphaned /\ OneOffered /\ UsedUp

LEMMA InitSingle == Init => Single
BY DEF Init, Single, SingleUse, Excluded, Orphaned, OneOffered, UsedUp, Locking

LEMMA LeavesSingle == ASSUME TypeInv, Single, Leaves PROVE Single'
<1>1. Readable' = Readable /\ inode' = inode /\ used' = used /\ disturbed' = disturbed
      /\ reused' = reused
  BY LeavesQuietly DEF Leaves
<1>2. ASSUME NEW u \in Threads, pc'[u] \in {"normalise", "edit", "flock", "scan", "replace"}
      PROVE  /\ pc'[u] = pc[u] /\ opened'[u] = opened[u] /\ copy'[u] = copy[u] /\ stale'[u] = stale[u]
             /\ \A i : Wants(u, i)' <=> Wants(u, i)
  BY <1>2 DEF Leaves, Kept, Left, Wants, Consumes, Call
<1>3. SingleUse'
  BY <1>1 DEF Single, SingleUse
<1>4. Excluded'
  BY <1>2 DEF Single, Excluded
<1>5. Orphaned'
  BY <1>1, <1>2 DEF Single, Orphaned, Locking
<1>6. OneOffered'
  BY <1>1, <1>2 DEF Single, OneOffered
<1>7. UsedUp'
  BY <1>1, <1>2 DEF Single, UsedUp, Traceless
<1> QED BY <1>3, <1>4, <1>5, <1>6, <1>7 DEF Single

LEMMA MovesSingle ==
  ASSUME TypeInv, Single, NEW t \in Threads, Moves(t), UNCHANGED webVars PROVE Single'
<1>1. /\ Readable' \in {Readable, DefaultDoc}
      /\ used' = used /\ disturbed' = disturbed /\ reused' = reused
  BY MovesQuietly DEF Quiet
<1>2. ASSUME NEW u \in Threads, u # t
      PROVE  /\ pc'[u] = pc[u] /\ opened'[u] = opened[u] /\ copy'[u] = copy[u] /\ stale'[u] = stale[u]
  BY <1>2, MovesIs
<1>3. \A u \in Threads : \A i : Wants(u, i)' <=> Wants(u, i)
  BY MovesIs DEF Wants, Consumes, Call
<1>4. \A i : i \notin Offered(DefaultDoc)
  BY DefaultIsDoc
<1>5. inode' = inode \/ Readable' = DefaultDoc
  BY DEF Moves, Load, LoadGarbage, Quarantine, Open, Lock, Scan, fileVars, Readable, TypeInv, TypeOK,
         StoreTypeOK
<1>6. pc'[t] \in Locking =>
        \/ opened'[t] = inode'
        \/ opened'[t] = opened[t] /\ pc[t] \in Locking /\ inode' = inode
  BY DEF Moves, Load, LoadGarbage, Quarantine, Open, Lock, Scan, fileVars, Locking, TypeInv, TypeOK,
         StoreTypeOK
<1>7. pc'[t] \in {"scan", "replace"} =>
        /\ opened'[t] = opened[t]
        /\ \A u \in Threads : u # t /\ pc[u] \in {"scan", "replace"} => opened[u] # opened[t]
  BY DEF Moves, Load, LoadGarbage, Quarantine, Open, Lock, Scan, Locked, Single, Excluded, TypeInv,
         TypeOK, StoreTypeOK
<1>8. pc'[t] \in {"normalise", "edit", "replace"} => copy'[t] \in {Readable, DefaultDoc}
  BY MovesIs
<1>9. pc'[t] = "replace" => copy'[t] = Readable /\ pc[t] = "scan" /\ opened'[t] = opened[t]
  BY MovesIs
<1>10. SingleUse'
  BY <1>1 DEF Single, SingleUse
<1>11. Excluded'
  BY <1>2, <1>7 DEF Single, Excluded
<1>12. Orphaned'
  <2> SUFFICES ASSUME NEW i \in Invites \ (used \cup disturbed), NEW u \in Threads,
                      pc'[u] \in Locking, Wants(u, i), opened'[u] # inode'
               PROVE  i \notin Offered(Readable')
    BY <1>1, <1>3 DEF Orphaned
  <2>1. CASE Readable' = DefaultDoc
    BY <1>4, <2>1
  <2>2. CASE Readable' = Readable /\ inode' = inode
    <3>1. pc[u] \in Locking /\ opened[u] # inode
      BY <1>2, <1>6, <2>2
    <3> QED BY <2>2, <3>1 DEF Single, Orphaned
  <2> QED BY <1>1, <1>5, <2>1, <2>2
<1>13. ASSUME NEW i \in Invites \ (used \cup disturbed), NEW u \in Threads, u # t,
              pc'[t] = "replace", pc'[u] = "replace", Wants(t, i), Wants(u, i)
       PROVE  i \notin Offered(copy'[t])
  <2>1. opened[t] # opened[u] /\ pc[t] \in Locking /\ pc[u] \in Locking
    BY <1>2, <1>7, <1>9, <1>13 DEF Locking
  <2>2. opened[t] # inode \/ opened[u] # inode
    BY <2>1
  <2>3. i \notin Offered(Readable)
    BY <1>13, <2>1, <2>2 DEF Single, Orphaned
  <2> QED BY <1>9, <1>13, <2>3
<1>14. OneOffered'
  <2> SUFFICES ASSUME NEW i \in Invites \ (used \cup disturbed), NEW u \in Threads, NEW v \in Threads,
                      u # v, pc'[u] = "replace", pc'[v] = "replace", Wants(u, i), Wants(v, i)
               PROVE  i \notin Offered(copy'[u]) \/ i \notin Offered(copy'[v])
    BY <1>1, <1>3 DEF OneOffered
  <2>1. CASE u = t \/ v = t
    BY <1>13, <2>1
  <2>2. CASE u # t /\ v # t
    BY <1>2, <2>2 DEF Single, OneOffered
  <2> QED BY <2>1, <2>2
<1>15. UsedUp'
  <2> SUFFICES ASSUME NEW i \in (used \cap Invites) \ disturbed
               PROVE  /\ i \notin Offered(Readable')
                      /\ \A u \in Threads : Traceless(u, i)' => i \notin Offered(copy'[u])
    BY <1>1 DEF UsedUp
  <2>1. i \notin Offered(Readable)
    BY DEF Single, UsedUp
  <2>2. i \notin Offered(Readable')
    BY <1>1, <1>4, <2>1
  <2>3. ASSUME NEW u \in Threads, u # t, Traceless(u, i)' PROVE i \notin Offered(copy'[u])
    BY <1>2, <1>3, <2>3 DEF Single, UsedUp, Traceless
  <2>4. Traceless(t, i)' => i \notin Offered(copy'[t])
    BY <1>4, <1>8, <2>1 DEF Traceless
  <2> QED BY <2>2, <2>3, <2>4
<1> QED BY <1>10, <1>11, <1>12, <1>14, <1>15 DEF Single

LEMMA WriteSingle ==
  ASSUME TypeInv, Fresh, Single, NEW t \in Threads, NEW call, NEW new, WriteOf(t, call, new)
  PROVE  Single'
<1>1. /\ \A u \in Threads : u # t => pc'[u] = pc[u] /\ todo'[u] = todo[u] /\ opened'[u] = opened[u]
      /\ \A u \in Threads : u # t /\ pc[u] \notin {"idle", "start"} => stale'[u]
      /\ stale'[t] = stale[t] /\ copy' = copy /\ Readable' = new
      /\ pc[t] \in {"normalise", "edit", "replace"} /\ pc'[t] \in {"edit", "call"}
      /\ pc'[t] = "edit" => pc[t] = "normalise"
      /\ call \in Calls /\ EditOf(call, copy[t], new)
  BY WriteStands DEF WriteOf
<1>2. /\ disturbed \subseteq disturbed'
      /\ \A i \in Invites \ disturbed' :
           \/ Wants(t, i)
           \/ ~stale[t] /\ \A u \in Threads : u # t => ~(Wants(u, i) /\ opened[u] # NoFile)
  BY DEF WriteOf, Wrote, Wants
<1>3. used' = used \cup Claimed(call) /\ reused' = reused \cup (used \cap Claimed(call))
  BY DEF WriteOf, Claim
<1>4. \A i \in Invites : i \in Claimed(call) <=> Wants(t, i)
  <2>1. call.op = "consume_link" => call.link \notin Invites
    <3>1. call.op = "consume_link" => call.link \in copy[t].links
      BY DEF WriteOf, Live
    <3> QED BY <3>1, StoreAssumption DEF TypeInv, TypeOK, StoreTypeOK, Docs
  <2>2. (call.op = "consume_invite" <=> Consumes(t)) /\ (call.op = "look" \/ call = Call(t))
    BY DEF WriteOf
  <2> QED BY <2>1, <2>2 DEF Claimed, Wants
<1>5. \A i \in Invites : Wants(t, i) =>
        i \in Offered(copy[t]) /\ i \notin Offered(new) /\ pc[t] = "replace" /\ pc'[t] = "call"
  BY <1>1 DEF WriteOf, Wants, EditOf, Consumes
<1>6. Offered(new) \subseteq Offered(copy[t]) \cup Adds(call) /\ Adds(call) \cap used = {}
  BY <1>1, TakenHas DEF EditOf, WriteOf, Fresh
<1>7. \A u \in Threads : \A i : u # t => (Wants(u, i)' <=> Wants(u, i))
  BY <1>1 DEF Wants, Consumes, Call
<1>8. \A u \in Threads : pc[u] \in Locking => opened[u] # NoFile
  BY DEF TypeInv, Shape
<1>9. ASSUME NEW i \in Invites \ disturbed', Wants(t, i) PROVE i \notin used
  BY <1>2, <1>5, <1>9 DEF Single, UsedUp, Traceless
<1>10. SingleUse'
  <2> SUFFICES ASSUME NEW i \in reused' \cap Invites PROVE i \in disturbed'
    BY DEF SingleUse
  <2>1. CASE i \in reused
    BY <1>2, <2>1 DEF Single, SingleUse
  <2>2. CASE i \in used /\ i \in Claimed(call)
    BY <1>4, <1>9, <2>2
  <2> QED BY <1>3, <2>1, <2>2
<1>11. Excluded'
  BY <1>1 DEF Single, Excluded
<1>12. ASSUME NEW i \in Invites \ (used' \cup disturbed'), NEW u \in Threads, u # t, Wants(u, i)
       PROVE  pc[u] \notin Locking
  BY <1>2, <1>3, <1>4, <1>8, <1>12
<1>13. Orphaned'
  BY <1>1, <1>7, <1>12 DEF Orphaned, Locking
<1>14. OneOffered'
  BY <1>1, <1>7, <1>12 DEF OneOffered, Locking
<1>15. UsedUp'
  <2> SUFFICES ASSUME NEW i \in (used' \cap Invites) \ disturbed'
               PROVE  /\ i \notin Offered(new)
                      /\ \A u \in Threads : Traceless(u, i)' => i \notin Offered(copy[u])
    BY <1>1 DEF UsedUp
  <2>1. CASE Wants(t, i)
    <3>1. i \notin used /\ i \notin disturbed
      BY <1>2, <1>9, <2>1
    <3>2. ASSUME NEW u \in Threads, u # t, Traceless(u, i)' PROVE i \notin Offered(copy[u])
      <4>1. pc[u] = "replace" /\ Wants(u, i)
        BY <1>1, <1>7, <3>2 DEF Traceless
      <4> QED BY <1>5, <2>1, <3>1, <3>2, <4>1 DEF Single, OneOffered
    <3>3. ~Traceless(t, i)'
      BY <1>5, <2>1 DEF Traceless
    <3> QED BY <1>5, <2>1, <3>2, <3>3
  <2>2. CASE ~Wants(t, i)
    <3>1. i \in used /\ i \notin disturbed /\ ~stale[t]
      BY <1>2, <1>3, <1>4, <2>2
    <3>2. i \notin Offered(copy[t])
      BY <1>1, <3>1 DEF Single, UsedUp, Traceless
    <3>3. i \notin Offered(new)
      BY <1>6, <3>1, <3>2
    <3>4. ASSUME NEW u \in Threads, u # t PROVE ~Traceless(u, i)'
      BY <1>1, <1>2, <1>7, <1>8, <2>2, <3>4 DEF Traceless, Locking
    <3> QED BY <3>2, <3>3, <3>4
  <2> QED BY <2>1, <2>2
<1> QED BY <1>10, <1>11, <1>13, <1>14, <1>15 DEF Single

LEMMA SingleKept == TypeInv /\ Fresh /\ Single /\ [Next]_vars => Single'
BY StepCases, LeavesSingle, MovesSingle, WriteIs, WriteSingle

\* Two callers of consume_and_create_user are told that an invitation is
\* theirs only if a write that is not a consume of it came between the open
\* and the replace of one of them, or wrote a stale document: the flock holds
\* against other consumes even though each of them rebinds the path.
THEOREM SignInSingleUse == Spec => []SingleUse
<1> DEFINE I == TypeInv /\ Fresh /\ Single
<1>1. Init => I
  BY InitTypes, InitFresh, InitSingle
<1>2. I /\ [Next]_vars => I'
  BY TypesKept, FreshKept, SingleKept
<1>3. I => SingleUse
  BY DEF Single
<1> QED BY <1>1, <1>2, <1>3, PTL DEF Spec

=============================================================================
