---------------------------- MODULE EntryIterate ----------------------------
(***************************************************************************)
(* The life of certificate requests in the daemon: cm_iterate_entry        *)
(* (iterate.c), one action per case of its switch, driven by the event     *)
(* loop and the D-Bus handlers that start, stop and restart requests       *)
(* (cm.c, tdbush.c).  The daemon is one thread: between two events         *)
(* everything a handler does is atomic.  A handler that services several   *)
(* requests is a sequence of steps here, during which "restarting" and     *)
(* "serving" name the calls it still has to make and no event is handled.  *)
(*                                                                         *)
(* What the code reads from outside (results of helper processes, contents *)
(* of the entry, configuration) is a nondeterministic choice among the     *)
(* branches that the case has for it.                                      *)
(***************************************************************************)
EXTENDS EntryStates, WritingLock, Naturals

CONSTANT Entries    \* the requests there can be

ASSUME EntriesAssumption == Entries \subseteq Holders

VARIABLES
  state,        \* cm_state of each entry; saved to the store as it changes
  scheduled,    \* the entries whose next_event (a timer or an FD) is not NULL
  managed,      \* the entries in the daemon's array
  stored,       \* the entries with a file in the store
  restarting,   \* entries that the running handler is still to restart
  serving       \* entries that the running handler is still to service

entryVars == <<state, scheduled, managed, stored, restarting, serving>>
vars      == <<entryVars, writing_lock>>

TypeOK ==
  /\ state \in [Entries -> States]
  /\ scheduled \subseteq managed
  /\ managed \subseteq stored
  /\ stored \subseteq Entries
  /\ restarting \subseteq managed
  /\ serving \subseteq managed
  /\ LockTypeOK

Idle == restarting = {} /\ serving = {}

-----------------------------------------------------------------------------
(***************************************************************************)
(* The shape of every case: a visit, the state it leaves, the next event.  *)
(***************************************************************************)

\* cm_iterate_entry is called for e in state s, by the event loop when the
\* timer or the helper's FD fires, or by a handler that has just started e.
Visit(e, s) ==
  /\ e \in managed /\ state[e] = s
  /\ \/ Idle /\ e \in scheduled /\ UNCHANGED serving
     \/ e \in serving /\ serving' = serving \ {e}
  /\ UNCHANGED <<managed, stored, restarting>>

\* The state moves to one of T and the entry will be visited again.
Becomes(e, T) ==
  /\ \E t \in T : state' = [state EXCEPT ![e] = t]
  /\ scheduled' = scheduled \cup {e}

Moves(e, s, T) == Visit(e, s) /\ Becomes(e, T) /\ KeepsLock
TryAgain(e) == Becomes(e, {state[e]}) /\ KeepsLock

\* "Just hang out in this state while we're messing around with the outside
\* world for another entry."
HangsOut(e) == Busy(e) /\ TryAgain(e)

-----------------------------------------------------------------------------
(***************************************************************************)
(* The key pair and the signing request.  A state among the targets that   *)
(* is also the source stands for a helper that could not be started.       *)
(***************************************************************************)
NEED_KEY_PAIR(e) ==
  /\ Visit(e, "NEED_KEY_PAIR")
  /\ \/ Lock(e) /\ Becomes(e, {"GENERATING_KEY_PAIR"})
     \/ Free /\ TryAgain(e)          \* taken and, with no helper, released
     \/ HangsOut(e)

\* Mutant: the lock is released only if the key pair was saved.
GENERATING_KEY_PAIR_KeepsLock(e) ==
  /\ Visit(e, "GENERATING_KEY_PAIR")
  /\ \/ Unlock(e) /\ Becomes(e, {"HAVE_KEY_PAIR"})
     \/ KeepsLock /\ Becomes(e, {"NEED_KEY_GEN_PERMS", "NEED_KEY_PAIR"})

GENERATING_KEY_PAIR(e) ==
  /\ Visit(e, "GENERATING_KEY_PAIR")
  /\ Unlock(e)
  /\ Becomes(e, {"HAVE_KEY_PAIR", "NEED_KEY_GEN_PERMS", "NEED_KEY_GEN_TOKEN",
                 "NEED_KEY_GEN_PIN", "NEED_KEY_PAIR"})

HAVE_KEY_PAIR(e) == Moves(e, "HAVE_KEY_PAIR", {"NEED_KEYINFO"})

NEED_KEYINFO(e) == Moves(e, "NEED_KEYINFO", {"READING_KEYINFO", "NEED_KEYINFO"})

READING_KEYINFO(e) ==
  Moves(e, "READING_KEYINFO",
        {"HAVE_KEYINFO", "NEED_KEYINFO_READ_TOKEN", "NEED_KEYINFO_READ_PIN",
         "NEED_KEY_PAIR"})

HAVE_KEYINFO(e) == Moves(e, "HAVE_KEYINFO", {"NEED_CSR"})

NEED_CSR(e) == Moves(e, "NEED_CSR", {"GENERATING_CSR", "NEED_CSR"})

GENERATING_CSR(e) ==
  Moves(e, "GENERATING_CSR",
        {"HAVE_CSR", "NEED_CSR_GEN_TOKEN", "NEED_CSR_GEN_PIN", "NEED_CSR"})

HAVE_CSR(e) == Moves(e, "HAVE_CSR", {"NEED_TO_SUBMIT"})

-----------------------------------------------------------------------------
(***************************************************************************)
(* Submission.  None of this is done under the lock.                       *)
(***************************************************************************)
NEED_TO_SUBMIT(e) ==
  Moves(e, "NEED_TO_SUBMIT", {"SUBMITTING", "NEED_CA", "NEED_TO_SUBMIT"})

NEED_SCEP_DATA(e) ==
  Moves(e, "NEED_SCEP_DATA", {"GENERATING_SCEP_DATA", "NEED_SCEP_DATA"})

GENERATING_SCEP_DATA(e) ==
  Moves(e, "GENERATING_SCEP_DATA",
        {"HAVE_SCEP_DATA", "NEED_SCEP_GEN_TOKEN", "NEED_SCEP_GEN_PIN",
         "NEED_SCEP_ENCRYPTION_CERT", "NEED_SCEP_RSA_CLIENT_KEY",
         "NEED_SCEP_DATA"})

HAVE_SCEP_DATA(e) == Moves(e, "HAVE_SCEP_DATA", {"NEED_TO_SUBMIT"})

\* Rejected and unconfigured lead back to MONITORING if the entry already
\* has a certificate.
SUBMITTING(e) ==
  Moves(e, "SUBMITTING",
        {"NEED_TO_SAVE_CERT", "MONITORING", "NEED_TO_NOTIFY_REJECTION",
         "CA_UNREACHABLE", "CA_WORKING", "CA_UNCONFIGURED", "NEED_SCEP_DATA",
         "NEED_KEY_PAIR", "NEED_GUIDANCE"})

CA_WORKING(e)     == Moves(e, "CA_WORKING", {"NEED_TO_SUBMIT"})
CA_UNREACHABLE(e) == Moves(e, "CA_UNREACHABLE", {"NEED_TO_SUBMIT"})

-----------------------------------------------------------------------------
(***************************************************************************)
(* Saving the issued certificate, then the CA's certificates, reading back *)
(* what was saved, telling the user.  The lock is held all along, except   *)
(* on the way back from a failure, when the user is notified without it.   *)
(***************************************************************************)
NEED_TO_SAVE_CERT(e) ==
  /\ Visit(e, "NEED_TO_SAVE_CERT")
  /\ \/ Lock(e) /\ Becomes(e, {"PRE_SAVE_CERT", "START_SAVING_CERT"})
     \/ HangsOut(e)

PRE_SAVE_CERT(e) == Moves(e, "PRE_SAVE_CERT", {"START_SAVING_CERT"})

START_SAVING_CERT(e) ==
  Moves(e, "START_SAVING_CERT", {"SAVING_CERT", "START_SAVING_CERT"})

SAVING_CERT(e) ==
  Moves(e, "SAVING_CERT",
        {"SAVED_CERT", "NEED_CERTSAVE_PERMS", "NEED_CERTSAVE_TOKEN",
         "NEED_CERTSAVE_PIN", "NEED_TO_NOTIFY_ISSUED_SAVE_FAILED"})

SAVED_CERT(e) == Moves(e, "SAVED_CERT", {"NEED_TO_SAVE_CA_CERTS"})

\* Mutant: relies on the lock that was taken before the certificate was saved.
NEED_TO_SAVE_CA_CERTS_TrustsLock(e) ==
  Moves(e, "NEED_TO_SAVE_CA_CERTS", {"START_SAVING_CA_CERTS"})

NEED_TO_SAVE_CA_CERTS(e) ==
  /\ Visit(e, "NEED_TO_SAVE_CA_CERTS")
  /\ \/ Hold(e) /\ Becomes(e, {"START_SAVING_CA_CERTS"})
     \/ HangsOut(e)

\* Mutant: sets no time for the next attempt if the helper did not start.
START_SAVING_CA_CERTS_NoTime(e) ==
  /\ Visit(e, "START_SAVING_CA_CERTS") /\ KeepsLock
  /\ \/ Becomes(e, {"SAVING_CA_CERTS"})
     \/ scheduled' = scheduled \ {e} /\ UNCHANGED state

START_SAVING_CA_CERTS(e) ==
  Moves(e, "START_SAVING_CA_CERTS", {"SAVING_CA_CERTS", "START_SAVING_CA_CERTS"})

SAVING_CA_CERTS(e) ==
  Moves(e, "SAVING_CA_CERTS",
        {"NEED_TO_READ_CERT", "NEED_CA_CERT_SAVE_PERMS",
         "NEED_TO_NOTIFY_ISSUED_CA_SAVE_FAILED"})

NEED_TO_READ_CERT(e) ==
  /\ Visit(e, "NEED_TO_READ_CERT")
  /\ \/ Hold(e) /\ Becomes(e, {"READING_CERT", "NEED_TO_READ_CERT"})
     \/ HangsOut(e)

READING_CERT(e) ==
  Moves(e, "READING_CERT",
        {"POST_SAVED_CERT", "NEED_TO_NOTIFY_ISSUED_SAVED", "NEED_GUIDANCE"})

POST_SAVED_CERT(e) ==
  Moves(e, "POST_SAVED_CERT", {"NEED_TO_NOTIFY_ISSUED_SAVED"})

NEED_TO_SAVE_ONLY_CA_CERTS(e) ==
  /\ Visit(e, "NEED_TO_SAVE_ONLY_CA_CERTS")
  /\ \/ Hold(e) /\ Becomes(e, {"START_SAVING_ONLY_CA_CERTS"})
     \/ HangsOut(e)

START_SAVING_ONLY_CA_CERTS(e) ==
  Moves(e, "START_SAVING_ONLY_CA_CERTS",
        {"SAVING_ONLY_CA_CERTS", "START_SAVING_ONLY_CA_CERTS"})

SAVING_ONLY_CA_CERTS(e) ==
  /\ Visit(e, "SAVING_ONLY_CA_CERTS")
  /\ \/ Unlock(e) /\ Becomes(e, {"MONITORING", "NEED_ONLY_CA_CERT_SAVE_PERMS"})
     \/ KeepsLock /\ Becomes(e, {"NEED_TO_NOTIFY_ONLY_CA_SAVE_FAILED"})

-----------------------------------------------------------------------------
(***************************************************************************)
(* Monitoring, and telling the user.  The four notifications about saving  *)
(* first let go of the lock.                                               *)
(***************************************************************************)
MONITORING(e) ==
  Moves(e, "MONITORING",
        {"NEED_TO_NOTIFY_VALIDITY", "NEED_KEY_PAIR", "NEED_CSR", "MONITORING"})

NEED_TO_NOTIFY_VALIDITY(e) ==
  Moves(e, "NEED_TO_NOTIFY_VALIDITY",
        {"NOTIFYING_VALIDITY", "NEED_TO_NOTIFY_VALIDITY"})

NOTIFYING_VALIDITY(e) ==
  Moves(e, "NOTIFYING_VALIDITY", {"NEED_KEY_PAIR", "NEED_CSR", "MONITORING"})

NEED_TO_NOTIFY_REJECTION(e) ==
  Moves(e, "NEED_TO_NOTIFY_REJECTION",
        {"NOTIFYING_REJECTION", "NEED_TO_NOTIFY_REJECTION"})

NOTIFYING_REJECTION(e) == Moves(e, "NOTIFYING_REJECTION", {"CA_REJECTED"})

\* Release the lock, having taken it if need be, and start the notification.
Notifies(e, need, notifying) ==
  /\ Visit(e, need)
  /\ \/ Pulse(e) /\ Becomes(e, {notifying, need})
     \/ HangsOut(e)

NEED_TO_NOTIFY_ISSUED_SAVE_FAILED(e) ==
  Notifies(e, "NEED_TO_NOTIFY_ISSUED_SAVE_FAILED", "NOTIFYING_ISSUED_SAVE_FAILED")

NOTIFYING_ISSUED_SAVE_FAILED(e) ==
  Moves(e, "NOTIFYING_ISSUED_SAVE_FAILED", {"START_SAVING_CERT"})

NEED_TO_NOTIFY_ISSUED_SAVED(e) ==
  Notifies(e, "NEED_TO_NOTIFY_ISSUED_SAVED", "NOTIFYING_ISSUED_SAVED")

NOTIFYING_ISSUED_SAVED(e) == Moves(e, "NOTIFYING_ISSUED_SAVED", {"MONITORING"})

NEED_TO_NOTIFY_ISSUED_CA_SAVE_FAILED(e) ==
  Notifies(e, "NEED_TO_NOTIFY_ISSUED_CA_SAVE_FAILED",
              "NOTIFYING_ISSUED_CA_SAVE_FAILED")

NOTIFYING_ISSUED_CA_SAVE_FAILED(e) ==
  Moves(e, "NOTIFYING_ISSUED_CA_SAVE_FAILED", {"NEED_TO_SAVE_CA_CERTS"})

\* Mutant: notifies without letting go of the lock.
NEED_TO_NOTIFY_ONLY_CA_SAVE_FAILED_KeepsLock(e) ==
  /\ Visit(e, "NEED_TO_NOTIFY_ONLY_CA_SAVE_FAILED")
  /\ Hold(e)
  /\ Becomes(e, {"NOTIFYING_ONLY_CA_SAVE_FAILED"})

NEED_TO_NOTIFY_ONLY_CA_SAVE_FAILED(e) ==
  Notifies(e, "NEED_TO_NOTIFY_ONLY_CA_SAVE_FAILED",
              "NOTIFYING_ONLY_CA_SAVE_FAILED")

NOTIFYING_ONLY_CA_SAVE_FAILED(e) ==
  Moves(e, "NOTIFYING_ONLY_CA_SAVE_FAILED", {"MONITORING"})

-----------------------------------------------------------------------------
(***************************************************************************)
(* A new request: see what is already there and decide what to do.  "Take  *)
(* the lock here because the database is opened read-write in case we need *)
(* to set a password on it."                                               *)
(***************************************************************************)
NEWLY_ADDED(e) ==
  /\ Visit(e, "NEWLY_ADDED")
  /\ \/ Lock(e) /\ Becomes(e, {"NEWLY_ADDED_START_READING_KEYINFO",
                               "NEWLY_ADDED_START_READING_CERT"})
     \/ HangsOut(e)

NEWLY_ADDED_START_READING_KEYINFO(e) ==
  Moves(e, "NEWLY_ADDED_START_READING_KEYINFO",
        {"NEWLY_ADDED_READING_KEYINFO", "NEWLY_ADDED_START_READING_KEYINFO"})

NEWLY_ADDED_READING_KEYINFO(e) ==
  /\ Visit(e, "NEWLY_ADDED_READING_KEYINFO")
  /\ \/ KeepsLock /\ Becomes(e, {"NEWLY_ADDED_START_READING_CERT"})
     \/ Unlock(e) /\ Becomes(e, {"NEWLY_ADDED_NEED_KEYINFO_READ_TOKEN",
                                 "NEWLY_ADDED_NEED_KEYINFO_READ_PIN"})

NEWLY_ADDED_START_READING_CERT(e) ==
  Moves(e, "NEWLY_ADDED_START_READING_CERT",
        {"NEWLY_ADDED_READING_CERT", "NEWLY_ADDED_START_READING_CERT"})

NEWLY_ADDED_READING_CERT(e) ==
  Moves(e, "NEWLY_ADDED_READING_CERT", {"NEWLY_ADDED_DECIDING"})

NEWLY_ADDED_DECIDING(e) ==
  /\ Visit(e, "NEWLY_ADDED_DECIDING")
  /\ Unlock(e)
  /\ Becomes(e, {"NEED_TO_SAVE_ONLY_CA_CERTS", "MONITORING", "NEED_CSR",
                 "NEED_KEY_PAIR", "NEED_GUIDANCE"})

\* "Revisit this later": no event, nothing happens until a handler comes by.
Parks(e) ==
  /\ \E s \in StuckStates : Visit(e, s)
  /\ scheduled' = scheduled \ {e}
  /\ UNCHANGED state
  /\ KeepsLock

-----------------------------------------------------------------------------
(***************************************************************************)
(* Stopping and starting.  What becomes of the helper at work is the       *)
(* subject of EntryHelpers; here, its result is lost.                      *)
(***************************************************************************)

\* Mutant: does not release the lock.
Stop_KeepsLock(e, s) ==
  /\ e \in managed
  /\ state' = [state EXCEPT ![e] = s]
  /\ scheduled' = scheduled \ {e}
  /\ KeepsLock

\* Mutant: does not free the event.
Stop_KeepsEvent(e, s) ==
  /\ e \in managed
  /\ state' = [state EXCEPT ![e] = s]
  /\ UNCHANGED scheduled
  /\ Drop(e)

\* cm_stop_entry, and perhaps a handler's own choice of state.
Stop(e, s) ==
  /\ e \in managed
  /\ state' = [state EXCEPT ![e] = s]
  /\ scheduled' = scheduled \ {e}
  /\ Drop(e)

\* cm_restart_entry: stop, set up again, and next (in the same handler)
\* service the entry.
StopAndStart(e, s) ==
  /\ Stop(e, Reset(s))
  /\ serving' = serving \cup {e}
  /\ UNCHANGED <<managed, stored>>

-----------------------------------------------------------------------------
(***************************************************************************)
(* The handlers.                                                           *)
(***************************************************************************)
AddRequest(e) ==
  /\ Idle /\ e \notin stored
  /\ state' = [state EXCEPT ![e] = "NEWLY_ADDED"]
  /\ managed' = managed \cup {e}
  /\ stored' = stored \cup {e}
  /\ serving' = {e}
  /\ KeepsLock
  /\ UNCHANGED <<scheduled, restarting>>

\* cm_store_entry_delete says that it deleted the file even if it could not.
RemoveRequest(e) ==
  /\ Idle
  /\ Stop(e, Reset(state[e]))
  /\ managed' = managed \ {e}
  /\ stored' \in {stored, stored \ {e}}
  /\ UNCHANGED <<restarting, serving>>

\* request_modify ends in a restart, whatever the entry was doing.
RequestModify(e) ==
  Idle /\ StopAndStart(e, Reset(state[e])) /\ UNCHANGED restarting

RequestRefresh(e) ==
  /\ Idle
  /\ state[e] \in {"CA_WORKING", "CA_UNREACHABLE"}
  /\ StopAndStart(e, Reset(state[e]))
  /\ UNCHANGED restarting

\* A new key pair is needed unless the one there has the right type and size.
RequestResubmit(e) ==
  /\ Idle
  /\ \E s \in {"NEED_KEY_PAIR", "NEED_CSR"} : StopAndStart(e, s)
  /\ UNCHANGED restarting

RequestRekey(e) ==
  Idle /\ StopAndStart(e, "NEED_KEY_PAIR") /\ UNCHANGED restarting

\* A route has changed: CAs that were out of reach may be reachable now.
NetlinkDelayed ==
  /\ Idle
  /\ restarting' = {e \in scheduled : state[e] = "CA_UNREACHABLE"}
  /\ UNCHANGED <<state, scheduled, managed, stored, serving, writing_lock>>

\* The data of a CA has been refreshed: its entries, S, are restarted.
RestartEntriesByCA(S) ==
  /\ Idle
  /\ restarting' = S
  /\ UNCHANGED <<state, scheduled, managed, stored, serving, writing_lock>>

\* One round of the loops in cm_netlink_delayed_h and cm_restart_entries_by_ca.
RestartEntry(e) ==
  /\ serving = {} /\ e \in restarting
  /\ restarting' = restarting \ {e}
  /\ StopAndStart(e, Reset(state[e]))

-----------------------------------------------------------------------------
(***************************************************************************)
(* The daemon goes away and comes back.  Every change of state has been    *)
(* saved in the handler that made it, so entries come back in the state    *)
(* they were in, rewound by cm_iterate_entry_init; the lock is not saved.  *)
(***************************************************************************)
Boot(f) ==
  /\ state' = f
  /\ scheduled' = {}
  /\ managed' = stored
  /\ serving' = stored
  /\ restarting' = {}
  /\ writing_lock' = NoHolder
  /\ UNCHANGED stored

Crash == Boot([e \in Entries |-> Reset(state[e])])

\* cm_stop_all has stopped every entry, which rewinds it a first time.
ShutdownAndRestart ==
  Idle /\ Boot([e \in Entries |-> Reset(Reset(state[e]))])

-----------------------------------------------------------------------------
EntryStep(e) ==
  \/ NEED_KEY_PAIR(e) \/ GENERATING_KEY_PAIR(e) \/ HAVE_KEY_PAIR(e)
  \/ NEED_KEYINFO(e) \/ READING_KEYINFO(e) \/ HAVE_KEYINFO(e)
  \/ NEED_CSR(e) \/ GENERATING_CSR(e) \/ HAVE_CSR(e)
  \/ NEED_TO_SUBMIT(e) \/ NEED_SCEP_DATA(e) \/ GENERATING_SCEP_DATA(e)
  \/ HAVE_SCEP_DATA(e) \/ SUBMITTING(e) \/ CA_WORKING(e) \/ CA_UNREACHABLE(e)
  \/ NEED_TO_SAVE_CERT(e) \/ PRE_SAVE_CERT(e) \/ START_SAVING_CERT(e)
  \/ SAVING_CERT(e) \/ SAVED_CERT(e)
  \/ NEED_TO_SAVE_CA_CERTS(e) \/ START_SAVING_CA_CERTS(e) \/ SAVING_CA_CERTS(e)
  \/ NEED_TO_READ_CERT(e) \/ READING_CERT(e) \/ POST_SAVED_CERT(e)
  \/ NEED_TO_SAVE_ONLY_CA_CERTS(e) \/ START_SAVING_ONLY_CA_CERTS(e)
  \/ SAVING_ONLY_CA_CERTS(e)
  \/ MONITORING(e) \/ NEED_TO_NOTIFY_VALIDITY(e) \/ NOTIFYING_VALIDITY(e)
  \/ NEED_TO_NOTIFY_REJECTION(e) \/ NOTIFYING_REJECTION(e)
  \/ NEED_TO_NOTIFY_ISSUED_SAVE_FAILED(e) \/ NOTIFYING_ISSUED_SAVE_FAILED(e)
  \/ NEED_TO_NOTIFY_ISSUED_SAVED(e) \/ NOTIFYING_ISSUED_SAVED(e)
  \/ NEED_TO_NOTIFY_ISSUED_CA_SAVE_FAILED(e) \/ NOTIFYING_ISSUED_CA_SAVE_FAILED(e)
  \/ NEED_TO_NOTIFY_ONLY_CA_SAVE_FAILED(e) \/ NOTIFYING_ONLY_CA_SAVE_FAILED(e)
  \/ NEWLY_ADDED(e) \/ NEWLY_ADDED_START_READING_KEYINFO(e)
  \/ NEWLY_ADDED_READING_KEYINFO(e) \/ NEWLY_ADDED_START_READING_CERT(e)
  \/ NEWLY_ADDED_READING_CERT(e) \/ NEWLY_ADDED_DECIDING(e)
  \/ Parks(e)

Handler(e) ==
  \/ AddRequest(e) \/ RemoveRequest(e) \/ RequestModify(e) \/ RequestRefresh(e)
  \/ RequestResubmit(e) \/ RequestRekey(e)

Init ==
  /\ state = [e \in Entries |-> "NEWLY_ADDED"]
  /\ scheduled = {} /\ managed = {} /\ stored = {}
  /\ restarting = {} /\ serving = {}
  /\ LockInit

Next ==
  \/ \E e \in Entries : EntryStep(e) \/ Handler(e) \/ RestartEntry(e)
  \/ NetlinkDelayed
  \/ \E S \in SUBSET managed : RestartEntriesByCA(S)
  \/ Crash
  \/ ShutdownAndRestart

Spec == Init /\ [][Next]_vars

-----------------------------------------------------------------------------
(***************************************************************************)
(* Safety of the lock.                                                     *)
(***************************************************************************)

\* The states that are only ever reached and left with the lock held.
LockedStates ==
  {"GENERATING_KEY_PAIR", "PRE_SAVE_CERT", "START_SAVING_CA_CERTS",
   "SAVING_CA_CERTS", "NEED_CA_CERT_SAVE_PERMS", "READING_CERT",
   "POST_SAVED_CERT", "START_SAVING_ONLY_CA_CERTS", "SAVING_ONLY_CA_CERTS",
   "NEWLY_ADDED_START_READING_KEYINFO", "NEWLY_ADDED_READING_KEYINFO",
   "NEWLY_ADDED_START_READING_CERT", "NEWLY_ADDED_READING_CERT",
   "NEWLY_ADDED_DECIDING"}

\* The states in which it depends on the way there: a certificate is saved
\* again without the lock after a failure, a restart loses the lock, and so
\* does a notification that could not be started.
MaybeLockedStates ==
  {"START_SAVING_CERT", "SAVING_CERT", "NEED_CERTSAVE_PERMS",
   "NEED_CERTSAVE_TOKEN", "NEED_CERTSAVE_PIN", "SAVED_CERT",
   "NEED_TO_NOTIFY_ISSUED_SAVE_FAILED", "NEED_TO_SAVE_CA_CERTS",
   "NEED_TO_READ_CERT", "NEED_TO_NOTIFY_ISSUED_SAVED",
   "NEED_TO_NOTIFY_ISSUED_CA_SAVE_FAILED", "NEED_TO_NOTIFY_ONLY_CA_SAVE_FAILED",
   "NEED_GUIDANCE"}

\* An entry that holds the lock is managed and on its way through saving or
\* first reading: the lock is never leaked to an entry that was removed, or
\* that has gone on to something else and will not release it.
HolderUsesLock ==
  \A e \in Entries :
    HasLock(e) => e \in managed /\ state[e] \in LockedStates \cup MaybeLockedStates

\* Key generation, the hooks, the CA certificates and the first look at the
\* files are serialized: what they touch is touched under the lock.
LockCoversWork ==
  \A e \in managed : state[e] \in LockedStates => HasLock(e)

\* The daemon never runs into the abort() of the lock: whoever takes it does
\* not have it yet, whoever releases it has it, in every order of events.
Takers    == {"NEED_KEY_PAIR", "NEED_TO_SAVE_CERT", "NEWLY_ADDED"}
Releasers == {"GENERATING_KEY_PAIR", "SAVING_ONLY_CA_CERTS",
              "NEWLY_ADDED_READING_KEYINFO", "NEWLY_ADDED_DECIDING"}
NeverAborts ==
  \A e \in managed :
    /\ state[e] \in Takers => ~HasLock(e)
    /\ state[e] \in Releasers => HasLock(e)

\* However entries are started, stopped and restarted, the lock behaves as
\* WritingLock promises: it passes from one holder to another only through
\* being free.
LockRefinement == LockSpec

(***************************************************************************)
(* Safety of the requests.                                                 *)
(***************************************************************************)

\* No request is left without an event while there is something the daemon
\* could do for it: one that nobody will revisit is in a state that clients
\* are told is stuck.
NoLostWakeup ==
  Idle => \A e \in managed \ scheduled : state[e] \in StuckStates

\* How far the saving of an issued certificate has come: the certificate
\* itself, the CA's certificates, reading it back, announcing it.
SavingTheCert ==
  {"NEED_TO_SAVE_CERT", "PRE_SAVE_CERT", "START_SAVING_CERT", "SAVING_CERT",
   "NEED_CERTSAVE_PERMS", "NEED_CERTSAVE_TOKEN", "NEED_CERTSAVE_PIN",
   "NEED_TO_NOTIFY_ISSUED_SAVE_FAILED", "NOTIFYING_ISSUED_SAVE_FAILED"}
SavingTheCACerts ==
  {"SAVED_CERT", "NEED_TO_SAVE_CA_CERTS", "START_SAVING_CA_CERTS",
   "SAVING_CA_CERTS", "NEED_CA_CERT_SAVE_PERMS",
   "NEED_TO_NOTIFY_ISSUED_CA_SAVE_FAILED", "NOTIFYING_ISSUED_CA_SAVE_FAILED"}
ReadingItBack == {"NEED_TO_READ_CERT", "READING_CERT"}
AnnouncingIt ==
  {"POST_SAVED_CERT", "NEED_TO_NOTIFY_ISSUED_SAVED", "NOTIFYING_ISSUED_SAVED"}

SavingStage(s) ==
  CASE s \in SavingTheCert    -> 1
    [] s \in SavingTheCACerts -> 2
    [] s \in ReadingItBack    -> 3
    [] s \in AnnouncingIt     -> 4
    [] OTHER -> 0

\* Neither a restart of the request nor one of the daemon, at any point,
\* makes it forget that it is saving a certificate: it stops saving when the
\* user has been notified, when the certificate cannot be read back, or when
\* the user asks for a new one.
SavingSurvivesRestart ==
  [][\A e \in managed :
       SavingStage(state[e]) > 0 /\ SavingStage(state'[e]) = 0
         => \/ NOTIFYING_ISSUED_SAVED(e) \/ READING_CERT(e)
            \/ RequestResubmit(e) \/ RequestRekey(e)]_vars

\* No stage is skipped, and none is begun again once the next one has begun,
\* whatever is interrupted: a certificate is announced as saved only after it
\* was saved, the CA's certificates were, and it has been read back.
StagesInOrder ==
  [][\A e \in managed :
       LET from == SavingStage(state[e])
           to   == SavingStage(state'[e])
       IN  /\ to > 1 => from \in {to - 1, to}
           /\ from > 1 /\ to > 0 => to >= from]_vars

(***************************************************************************)
(* Progress.  An event that is due is handled some day: tevent runs timers *)
(* that are due before it polls, and polls in turn.  (A handler is several *)
(* steps here during which the events wait, hence strong fairness.)  The   *)
(* visit of a helper's state stands for the helper's exit: helpers end,    *)
(* and a helper that could not be started can be started some day.         *)
(***************************************************************************)
Fairness ==
  /\ \A e \in Entries : SF_vars(EntryStep(e))
  /\ \A e \in Entries : WF_vars(RestartEntry(e))

FairSpec == Spec /\ Fairness

\* Whoever holds the lock lets go of it, unless it comes to need the user's
\* help while it holds it; everybody else waits as long.
LockReleased ==
  \A e \in Entries : HasLock(e) ~> ~HasLock(e) \/ state[e] \in StuckStates

(***************************************************************************)
(* What the comments and the design say and the code does not do.          *)
(***************************************************************************)

\* The states with a helper that writes keys or certificates, or runs a hook.
WritingStates == {"GENERATING_KEY_PAIR", "PRE_SAVE_CERT", "SAVING_CERT",
                  "POST_SAVED_CERT", "SAVING_CA_CERTS", "SAVING_ONLY_CA_CERTS"}

\* "Manage a "lock" that we use to serialize access to THE REST OF THE
\* WORLD": at most one request has a helper at work on keys, certificates or
\* hooks.  It is not so when a certificate is saved again after a failure.
WritersSerialised ==
  \A e, f \in managed :
    state[e] \in WritingStates /\ state[f] \in WritingStates => e = f

=============================================================================
