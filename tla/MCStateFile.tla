----------------------------- MODULE MCStateFile -----------------------------
(* Instances of StateFile for TLC: who the callers are and for which user. *)
EXTENDS StateFile

CONSTANTS w1, w2, r1, u1, u2, i1, i2, i3, i4, i5, i6, i7

\* Two threads of the web process that act for the same user.
OneUser == [w \in Writers |-> u1]

\* Two users' requests: the outer locks differ, only state.json's is shared.
TwoUsers == [w \in Writers |-> IF w = w1 THEN u1 ELSE u2]
=============================================================================
