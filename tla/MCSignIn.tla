------------------------------ MODULE MCSignIn ------------------------------
(* Small instances of SignIn. *)
EXTENDS SignIn, TLC

CONSTANTS t1, t2, Guest, Visitor, b1, s1, s2, s3, d1, d2, d3, l1, l2, i1, i2, i3   \* model values

NoCookies == [n \in Names |-> Nothing]

\* The operator has enrolled, trusts two devices and has two invitations out.
Enrolled ==
  [version |-> 2, secret |-> s1, enrolled |-> TRUE, devices |-> {d1, d2}, revoked |-> {},
   links |-> {}, spent |-> {}, invites |-> {i1, i2}, consumed |-> {},
   users |-> {<<Admin, Admin>>}, disabled |-> {}]

Start0(doc, cookies, mail) ==
  [file |-> doc, jar |-> [b \in Browsers |-> cookies], app |-> [b \in Browsers |-> s1],
   mailbox |-> mail, issued |-> {s1, d1, d2, i1, i2, Admin}, verified |-> {s1}]

\* Signed in on a trusted device; at the door with the pages of both
\* invitations open; a first deployment; a document of version 1; a file that
\* somebody broke.
SmallStarts ==
  {Start0(Enrolled, [NoCookies EXCEPT !["session"] = Admin, !["trusted"] = d1], {i1}),
   Start0(Enrolled, [NoCookies EXCEPT !["wizard"] = <<"password", i1>>, !["trusted"] = d1], {i2}),
   Start0([Enrolled EXCEPT !.version = 1], NoCookies, {}),
   [Start0(NoFile, NoCookies, {}) EXCEPT !.app = [b \in Browsers |-> NoSecret],
                                         !.issued = {Admin}, !.verified = {}],
   Start0(Garbage, NoCookies, {})}

Alike == Permutations(Threads)
=============================================================================
