---------------------------- MODULE WritingLock ----------------------------
(***************************************************************************)
(* The "writing lock" of iterate.c: one pointer, NULL or the entry or the  *)
(* CA (with the phase of the CA's data being refreshed) that may change    *)
(* key files, certificate files and databases.  It is not a mutex of the   *)
(* operating system: a taker that finds it held by somebody else returns   *)
(* FALSE and comes back later, one that already holds it, or a releaser of *)
(* a free lock, calls abort().                                             *)
(***************************************************************************)

CONSTANTS
  Holders,        \* everything that can be stored in writing_lock
  NoHolder        \* NULL

ASSUME NoHolderAssumption == NoHolder \notin Holders

VARIABLE
  writing_lock    \* writing_lock and writing_lock_ca_phase

Free       == writing_lock = NoHolder
HasLock(h) == writing_lock = h

KeepsLock  == UNCHANGED writing_lock

\* cm_writing_lock_by_entry and _by_ca returning FALSE.
Busy(h)    == ~Free /\ ~HasLock(h)

\* cm_writing_lock_by_entry and _by_ca returning TRUE.
Lock(h)    == Free /\ writing_lock' = h

\* cm_writing_unlock_by_entry and _by_ca returning TRUE.
Unlock(h)  == HasLock(h) /\ writing_lock' = NoHolder

\* Mutant: "or" for "and" in "does not have it and cannot get it".
Hold_Anyway(h) == writing_lock' = h

\* "We should already have the lock here.  In cases where we're resuming
\* things at startup, try to acquire it if we don't have it."
Hold(h)    == (HasLock(h) \/ Free) /\ writing_lock' = h

\* The same, followed at once by the release.
Pulse(h)   == (HasLock(h) \/ Free) /\ writing_lock' = NoHolder

\* What stopping or starting the owner does: release the lock if it is held.
Drop(h)    == writing_lock' = IF HasLock(h) THEN NoHolder ELSE writing_lock

LockTypeOK == writing_lock \in Holders \cup {NoHolder}

(***************************************************************************)
(* What the lock promises to the rest of the daemon: it is granted when it *)
(* is free and to one holder at a time, never passed on while it is held.  *)
(***************************************************************************)
LockInit == Free
LockNext == \E h \in Holders : Lock(h) \/ Unlock(h)
LockSpec == LockInit /\ [][LockNext]_writing_lock

=============================================================================
