----------------------------- MODULE AtomicStore -----------------------------
(***************************************************************************)
(* What state_manager promises its callers: mutate_state applies a         *)
(* mutation "as a single atomic unit", and a mutation whose call returned  *)
(* is on disk for good.  The file, its locks, its temporary files and the  *)
(* directory entry are all hidden here; StateFile implements this module.  *)
(***************************************************************************)
EXTENDS Naturals

CONSTANT Updates          \* every mutation any caller may ask for

VARIABLES
  store,                  \* the mutations the published document contains
  acked                   \* the mutations whose caller was told "saved"

avars == <<store, acked>>

AInit == store = {} /\ acked = {}

\* One load -> mutate -> save cycle takes effect, whole, at one instant.
Apply(u) ==
  /\ store' = store \cup {u}
  /\ UNCHANGED acked

\* The call that asked for u returns; u must be in the document by then.
Ack(u) ==
  /\ u \in store
  /\ acked' = acked \cup {u}
  /\ UNCHANGED store

\* A power cut may take back a mutation nobody was told about, nothing else.
Revert ==
  /\ store' \in SUBSET store
  /\ acked \subseteq store'
  /\ UNCHANGED acked

ANext == Revert \/ \E u \in Updates : Apply(u) \/ Ack(u)

ASpec == AInit /\ [][ANext]_avars
=============================================================================
