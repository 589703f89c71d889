----------------------------- MODULE CAIterate -----------------------------
(***************************************************************************)
(* Keeping the data that certmonger has about each certificate authority   *)
(* up to date: cm_iterate_ca (iterate.c), one action per case of its       *)
(* switch, and the parts of the daemon that start, stop and restart it     *)
(* (cm.c, tdbush.c).  The data of a CA comes in phases, each with a state  *)
(* machine of its own: a task <<c, p>> is phase p of CA c.                 *)
(*                                                                         *)
(* The requests, which compete with the CAs for the writing lock, are the  *)
(* other holders here; Daemon puts the two together.                       *)
(***************************************************************************)
EXTENDS WritingLock

CONSTANTS
  CAs,            \* the CAs there can be
  ExternalCAs,    \* those with a helper program; the others are internal
  DefaultCAs,     \* those that the store provides if it has no file for them
  Phases          \* the kinds of data considered

AllPhases == {"identify", "certs", "profiles", "default_profile", "enroll_reqs",
              "renew_reqs", "capabilities", "encryption_certs"}

SavedPhases    == {"certs"}
AnalyzedPhases == {"certs", "encryption_certs"}

Tasks == CAs \X Phases

ASSUME CAsAssumption ==
  /\ ExternalCAs \subseteq CAs
  /\ DefaultCAs \subseteq CAs
  /\ Phases \subseteq AllPhases
  /\ Tasks \subseteq Holders

VARIABLES
  ca_state,        \* cm_ca_state of each task
  ca_scheduled,    \* the tasks whose next_event is not NULL
  ca_managed,      \* the CAs in the daemon's array
  ca_stored,       \* the CAs with a file in the store
  ca_serving,      \* tasks that the running handler is still to service
  crashed          \* the daemon is gone: it went through a NULL pointer

caVars   == <<ca_state, ca_scheduled, ca_managed, ca_stored, ca_serving, crashed>>
caVarsAndLock == <<caVars, writing_lock>>

CAStates ==
  {"IDLE", "NEED_TO_REFRESH", "REFRESHING", "DATA_UNREACHABLE",
   "NEED_TO_SAVE_DATA", "PRE_SAVE_DATA", "START_SAVING_DATA", "SAVING_DATA",
   "NEED_POST_SAVE_DATA", "POST_SAVE_DATA", "SAVED_DATA", "NEED_TO_ANALYZE",
   "ANALYZING", "DISABLED"}

TasksOf(C) == C \X Phases

CAIdle == ca_serving = {} /\ ~crashed

-----------------------------------------------------------------------------
\* cm_service_ca is called for t in state s: by the event loop, or by the
\* handler that has just started t.
CAVisit(t, s) ==
  /\ t[1] \in ca_managed /\ ca_state[t] = s /\ ~crashed
  /\ \/ ca_serving = {} /\ t \in ca_scheduled /\ UNCHANGED ca_serving
     \/ t \in ca_serving /\ ca_serving' = ca_serving \ {t}
  /\ UNCHANGED <<ca_managed, ca_stored>>

\* The state moves to one of T and the task will be visited again.
CABecomes(t, T) ==
  /\ \E s \in T : ca_state' = [ca_state EXCEPT ![t] = s]
  /\ ca_scheduled' = ca_scheduled \cup {t}
  /\ UNCHANGED crashed

CAMoves(t, s, T) == CAVisit(t, s) /\ CABecomes(t, T) /\ KeepsLock

\* The case goes through a NULL pointer.
Dies == crashed' = TRUE /\ UNCHANGED <<ca_state, ca_scheduled, writing_lock>>

-----------------------------------------------------------------------------
(***************************************************************************)
(* Fetching the data.                                                      *)
(***************************************************************************)

\* There is nothing to fetch for an internal CA.  If the helper of another
\* could not be started, cm_casave_done is called for a save that is not.
NEED_TO_REFRESH(t) ==
  /\ CAVisit(t, "NEED_TO_REFRESH")
  /\ \/ t[1] \in ExternalCAs /\ CABecomes(t, {"REFRESHING"}) /\ KeepsLock
     \/ t[1] \notin ExternalCAs /\ CABecomes(t, {"DISABLED"}) /\ KeepsLock
     \/ t[1] \in ExternalCAs /\ Dies

\* Modified, or: unchanged, to be tried again, rejected, unreachable or not
\* configured, unsupported.
REFRESHING(t) ==
  CAMoves(t, "REFRESHING",
          {IF t[2] \in SavedPhases THEN "NEED_TO_SAVE_DATA" ELSE "NEED_TO_ANALYZE",
           "NEED_TO_ANALYZE", "NEED_TO_REFRESH", "IDLE", "DATA_UNREACHABLE",
           "DISABLED"})

DATA_UNREACHABLE(t) == CAMoves(t, "DATA_UNREACHABLE", {"NEED_TO_REFRESH"})

-----------------------------------------------------------------------------
(***************************************************************************)
(* Saving the CA's certificates, under the lock.                           *)
(***************************************************************************)

\* Mutant: waits for the lock without asking to be called again.
NEED_TO_SAVE_DATA_NoTime(t) ==
  /\ CAVisit(t, "NEED_TO_SAVE_DATA")
  /\ \/ Lock(t) /\ CABecomes(t, {"PRE_SAVE_DATA", "START_SAVING_DATA"})
     \/ /\ Busy(t) /\ ca_scheduled' = ca_scheduled \ {t}
        /\ KeepsLock /\ UNCHANGED <<ca_state, crashed>>

NEED_TO_SAVE_DATA(t) ==
  /\ CAVisit(t, "NEED_TO_SAVE_DATA")
  /\ \/ Lock(t) /\ CABecomes(t, {"PRE_SAVE_DATA", "START_SAVING_DATA"})
     \/ Busy(t) /\ CABecomes(t, {"NEED_TO_SAVE_DATA"}) /\ KeepsLock

PRE_SAVE_DATA(t) == CAMoves(t, "PRE_SAVE_DATA", {"START_SAVING_DATA"})

\* If the helper cannot be started, nothing is assigned to *when, which is
\* not initialized in cm_service_ca: there may be a next event or none.
START_SAVING_DATA(t) ==
  \/ CAMoves(t, "START_SAVING_DATA", {"SAVING_DATA"})
  \/ /\ CAVisit(t, "START_SAVING_DATA")
     /\ ca_scheduled' \in {ca_scheduled \cup {t}, ca_scheduled \ {t}}
     /\ KeepsLock
     /\ UNCHANGED <<ca_state, crashed>>

\* Saved, not permitted or failed, it is all the same.
SAVING_DATA(t) == CAMoves(t, "SAVING_DATA", {"NEED_POST_SAVE_DATA"})

NEED_POST_SAVE_DATA(t) ==
  CAMoves(t, "NEED_POST_SAVE_DATA", {"POST_SAVE_DATA", "SAVED_DATA"})

POST_SAVE_DATA(t) == CAMoves(t, "POST_SAVE_DATA", {"SAVED_DATA"})

\* Mutant: goes on without releasing the lock.
SAVED_DATA_KeepsLock(t) == CAMoves(t, "SAVED_DATA", {"NEED_TO_ANALYZE"})

SAVED_DATA(t) ==
  /\ CAVisit(t, "SAVED_DATA")
  /\ Unlock(t)
  /\ CABecomes(t, {"NEED_TO_ANALYZE"})

-----------------------------------------------------------------------------
(***************************************************************************)
(* Finding out when to fetch it again.                                     *)
(***************************************************************************)

\* If there was no memory for the analysis the task is disabled.  If its
\* process could not be started, the daemon asks a NULL process for its FD.
NEED_TO_ANALYZE(t) ==
  /\ CAVisit(t, "NEED_TO_ANALYZE")
  /\ \/ t[2] \in AnalyzedPhases /\ CABecomes(t, {"ANALYZING", "DISABLED"}) /\ KeepsLock
     \/ t[2] \in AnalyzedPhases /\ Dies
     \/ t[2] \notin AnalyzedPhases /\ CABecomes(t, {"IDLE"}) /\ KeepsLock

ANALYZING(t) == CAMoves(t, "ANALYZING", {"NEED_TO_REFRESH", "IDLE"})

\* IDLE and DISABLED: no event.
CARests(t) ==
  /\ CAVisit(t, "IDLE") \/ CAVisit(t, "DISABLED")
  /\ ca_scheduled' = ca_scheduled \ {t}
  /\ KeepsLock
  /\ UNCHANGED <<ca_state, crashed>>

-----------------------------------------------------------------------------
(***************************************************************************)
(* Stopping and starting tasks.                                            *)
(***************************************************************************)

\* Mutant: releases the lock without a look at who has it.
CAStop_ReleasesAny(T) ==
  /\ ca_scheduled' = ca_scheduled \ T
  /\ writing_lock' = NoHolder

\* cm_stop_ca: waits for the helpers, frees the event, releases the lock.
CAStop(T) ==
  /\ ca_scheduled' = ca_scheduled \ T
  /\ writing_lock' = IF writing_lock \in T THEN NoHolder ELSE writing_lock

\* cm_iterate_ca_init of each, for cm_service_ca to be called next.
CAStart(T) ==
  /\ ca_state' = [t \in Tasks |-> IF t \in T THEN "NEED_TO_REFRESH" ELSE ca_state[t]]
  /\ ca_serving' = T

CARestart(T) ==
  CAStop(T) /\ CAStart(T) /\ UNCHANGED <<ca_managed, ca_stored, crashed>>

AddCA(c) ==
  /\ CAIdle /\ c \in ExternalCAs \ ca_stored
  /\ ca_managed' = ca_managed \cup {c}
  /\ ca_stored' = ca_stored \cup {c}
  /\ CAStart(TasksOf({c}))
  /\ KeepsLock
  /\ UNCHANGED <<ca_scheduled, crashed>>

\* cm_store_ca_delete says that it deleted the file even if it could not.
RemoveCA(c) ==
  /\ CAIdle /\ c \in ca_managed
  /\ CAStop(TasksOf({c}))
  /\ ca_managed' = ca_managed \ {c}
  /\ ca_stored' \in {ca_stored, ca_stored \ {c}}
  /\ UNCHANGED <<ca_state, ca_serving, crashed>>

\* The "refresh" method, and setting one of a CA's properties.
CARefresh(c) == CAIdle /\ c \in ca_managed /\ CARestart(TasksOf({c}))

UnreachableTasks ==
  {t \in TasksOf(ca_managed) : ca_state[t] = "DATA_UNREACHABLE"}

\* The CAs' half of cm_netlink_delayed_h.
CANetlinkDelayed == CAIdle /\ CARestart(UnreachableTasks)

\* The daemon goes away, if it has not already, and comes back.
CABoot ==
  /\ ca_managed' = ca_stored \cup DefaultCAs
  /\ ca_stored' = ca_managed'
  /\ ca_scheduled' = {}
  /\ CAStart(TasksOf(ca_managed'))
  /\ crashed' = FALSE
  /\ writing_lock' = NoHolder

\* A request takes or releases the lock.
OthersUseLock ==
  /\ \E h \in Holders \ Tasks : Lock(h) \/ Unlock(h)
  /\ UNCHANGED caVars

-----------------------------------------------------------------------------
CAStep(t) ==
  \/ NEED_TO_REFRESH(t) \/ REFRESHING(t) \/ DATA_UNREACHABLE(t)
  \/ NEED_TO_SAVE_DATA(t) \/ PRE_SAVE_DATA(t) \/ START_SAVING_DATA(t)
  \/ SAVING_DATA(t) \/ NEED_POST_SAVE_DATA(t) \/ POST_SAVE_DATA(t)
  \/ SAVED_DATA(t) \/ NEED_TO_ANALYZE(t) \/ ANALYZING(t) \/ CARests(t)

CAHandler(c) == AddCA(c) \/ RemoveCA(c) \/ CARefresh(c)

CAInit ==
  /\ ca_state = [t \in Tasks |-> "NEED_TO_REFRESH"]
  /\ ca_scheduled = {}
  /\ ca_managed = DefaultCAs /\ ca_stored = DefaultCAs
  /\ ca_serving = TasksOf(DefaultCAs)
  /\ crashed = FALSE
  /\ LockInit

CANext ==
  \/ \E t \in Tasks : CAStep(t)
  \/ \E c \in CAs : CAHandler(c)
  \/ CANetlinkDelayed
  \/ CABoot
  \/ OthersUseLock

CASpec == CAInit /\ [][CANext]_caVarsAndLock

-----------------------------------------------------------------------------
CATypeOK ==
  /\ ca_state \in [Tasks -> CAStates]
  /\ ca_scheduled \subseteq TasksOf(ca_managed)
  /\ ca_managed \subseteq ca_stored
  /\ ca_stored \subseteq CAs
  /\ ca_serving \subseteq TasksOf(ca_managed)
  /\ crashed \in BOOLEAN
  /\ LockTypeOK

\* From taking the lock to releasing it.
CASavingStates ==
  {"PRE_SAVE_DATA", "START_SAVING_DATA", "SAVING_DATA", "NEED_POST_SAVE_DATA",
   "POST_SAVE_DATA", "SAVED_DATA"}

\* The lock is held by a task exactly while the task is saving, through every
\* restart, removal and change of a CA: two CAs, or a CA and a request that
\* holds the lock, never save at the same time; the lock is not leaked to a
\* CA that is gone; and the abort() in the lock's functions is out of reach,
\* for a task that asks for the lock does not have it and one that releases
\* it does.
LockedWhileSaving ==
  \A t \in Tasks :
    HasLock(t) <=> t[1] \in ca_managed /\ ca_state[t] \in CASavingStates

\* A task without an event has nothing left to do; but for the one whose
\* save could not be started: with an unlucky value of the uninitialized time
\* it keeps the lock and is never visited again, though others "just hang out
\* in this state while we're messing around with the outside world" for it.
CANoLostWakeup ==
  CAIdle => \A t \in TasksOf(ca_managed) \ ca_scheduled :
              ca_state[t] \in {"IDLE", "DISABLED", "START_SAVING_DATA"}

=============================================================================
