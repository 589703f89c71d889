---------------------------- MODULE DaemonProofs ----------------------------
(***************************************************************************)
(* Proofs about the CAs, and about their composition with the requests,    *)
(* for any number of either.  The invariants of the two parts, LockInv and *)
(* CAInv, say of each holder when it has the lock; each is preserved by    *)
(* the steps of its own part (lemmas of EntryIterateProofs and below) and  *)
(* by those of the other part because these move the lock only between     *)
(* being free and holders of their own kind.                               *)
(***************************************************************************)
EXTENDS Daemon, EntryIterateProofs

-----------------------------------------------------------------------------
(***************************************************************************)
(* A CA holds the writing lock exactly while it is saving, for any CAs,    *)
(* any phases and any other holders of the lock (CASpec).  The invariant   *)
(* is inductive together with the types.                                   *)
(***************************************************************************)
CAInv == CATypeOK /\ LockedWhileSaving

\* A visit that moves t to one of T, all saving states or none, preserves the
\* invariant if afterwards t has the lock just when T is saving.
LEMMA CAVisitLemma ==
  ASSUME CAInv, NEW t \in Tasks, NEW s, NEW T, CAVisit(t, s), CABecomes(t, T),
         T \subseteq CAStates,
         LockTypeOK',
         \A u \in Tasks \ {t} : HasLock(u)' <=> HasLock(u),
         \A x \in T : HasLock(t)' <=> x \in CASavingStates
  PROVE  CAInv'
<1>1. PICK x \in T : ca_state' = [ca_state EXCEPT ![t] = x]
  BY DEF CABecomes
<1>2. t \in TasksOf(ca_managed)
  BY DEF CAVisit, Tasks, TasksOf
<1>3. CATypeOK'
  BY <1>1, <1>2 DEF CAInv, CATypeOK, CAVisit, CABecomes, TasksOf
<1>4. /\ ca_state'[t] = x
      /\ \A u \in Tasks \ {t} : ca_state'[u] = ca_state[u]
  BY <1>1 DEF CAInv, CATypeOK
<1>5. ca_managed' = ca_managed /\ t[1] \in ca_managed
  BY DEF CAVisit
<1>6. LockedWhileSaving'
  <2> SUFFICES ASSUME NEW u \in Tasks
               PROVE  (HasLock(u) <=> u[1] \in ca_managed
                                       /\ ca_state[u] \in CASavingStates)'
    BY DEF LockedWhileSaving
  <2>1. CASE u = t
    BY <2>1, <1>1, <1>4, <1>5
  <2>2. CASE u # t
    BY <2>2, <1>4, <1>5 DEF CAInv, LockedWhileSaving
  <2>3. QED
    BY <2>1, <2>2
<1>7. QED
  BY <1>3, <1>6 DEF CAInv

\* A move that leaves the lock alone, within the saving states or outside.
LEMMA CAMovesLemma ==
  ASSUME CAInv, NEW t \in Tasks, NEW s, NEW T, CAVisit(t, s), CABecomes(t, T),
         KeepsLock, T \subseteq CAStates,
         \A x \in T : x \in CASavingStates <=> s \in CASavingStates
  PROVE  CAInv'
<1>1. LockTypeOK'
  BY DEF CAInv, CATypeOK, LockTypeOK, KeepsLock
<1>2. \A u \in Tasks : HasLock(u)' <=> HasLock(u)
  BY DEF HasLock, KeepsLock
<1>3. HasLock(t) <=> s \in CASavingStates
  BY DEF CAInv, LockedWhileSaving, CAVisit
<1>4. QED
  BY <1>1, <1>2, <1>3, CAVisitLemma

\* The lock is left alone, and so is the state.
LEMMA CAWaitsLemma ==
  ASSUME CAInv, NEW t \in Tasks, NEW s, CAVisit(t, s), KeepsLock,
         UNCHANGED ca_state, crashed' \in BOOLEAN,
         ca_scheduled' \subseteq ca_scheduled \cup {t}
  PROVE  CAInv'
<1>1. t \in TasksOf(ca_managed)
  BY DEF CAVisit, Tasks, TasksOf
<1>2. CATypeOK'
  BY <1>1 DEF CAInv, CATypeOK, CAVisit, TasksOf, KeepsLock, LockTypeOK
<1>3. LockedWhileSaving'
  BY DEF CAInv, LockedWhileSaving, CAVisit, KeepsLock, HasLock
<1>4. QED
  BY <1>2, <1>3 DEF CAInv

\* Taking the lock gives it to t and to nobody else.
LEMMA TakeLemma ==
  ASSUME CAInv, NEW t \in Tasks, Lock(t)
  PROVE  /\ LockTypeOK' /\ HasLock(t)'
         /\ \A u \in Tasks \ {t} : HasLock(u)' <=> HasLock(u)
BY CAsAssumption, NoHolderAssumption DEF Lock, Free, HasLock, LockTypeOK

\* Releasing it takes it from t and from nobody else.
LEMMA GiveLemma ==
  ASSUME CAInv, NEW t \in Tasks, Unlock(t)
  PROVE  /\ LockTypeOK' /\ ~HasLock(t)'
         /\ \A u \in Tasks \ {t} : HasLock(u)' <=> HasLock(u)
BY CAsAssumption, NoHolderAssumption DEF Unlock, HasLock, LockTypeOK

\* Every case of cm_iterate_ca preserves the invariant.
LEMMA CAStepLemma ==
  ASSUME CAInv, NEW t \in Tasks, CAStep(t)
  PROVE  CAInv'
<1> USE DEF CAStates, CASavingStates
<1>1. CASE NEED_TO_REFRESH(t)
  <2>1. CASE Dies
    BY <1>1, <2>1, CAWaitsLemma DEF NEED_TO_REFRESH, Dies, KeepsLock
  <2>2. CASE ~Dies
    BY <1>1, <2>2, CAMovesLemma DEF NEED_TO_REFRESH
  <2>3. QED
    BY <2>1, <2>2
<1>2. CASE REFRESHING(t)
  BY <1>2, CAMovesLemma DEF REFRESHING, CAMoves
<1>3. CASE DATA_UNREACHABLE(t)
  BY <1>3, CAMovesLemma DEF DATA_UNREACHABLE, CAMoves
<1>4. CASE NEED_TO_SAVE_DATA(t)
  <2>1. CASE Lock(t) /\ CABecomes(t, {"PRE_SAVE_DATA", "START_SAVING_DATA"})
    BY <1>4, <2>1, TakeLemma, CAVisitLemma DEF NEED_TO_SAVE_DATA
  <2>2. CASE Busy(t) /\ CABecomes(t, {"NEED_TO_SAVE_DATA"}) /\ KeepsLock
    BY <1>4, <2>2, CAMovesLemma DEF NEED_TO_SAVE_DATA
  <2>3. QED
    BY <1>4, <2>1, <2>2 DEF NEED_TO_SAVE_DATA
<1>5. CASE PRE_SAVE_DATA(t)
  BY <1>5, CAMovesLemma DEF PRE_SAVE_DATA, CAMoves
<1>6. CASE START_SAVING_DATA(t)
  <2>1. CASE CAMoves(t, "START_SAVING_DATA", {"SAVING_DATA"})
    BY <2>1, CAMovesLemma DEF CAMoves
  <2>2. CASE ~CAMoves(t, "START_SAVING_DATA", {"SAVING_DATA"})
    BY <1>6, <2>2, CAWaitsLemma DEF START_SAVING_DATA, CAInv, CATypeOK
  <2>3. QED
    BY <2>1, <2>2
<1>7. CASE SAVING_DATA(t)
  BY <1>7, CAMovesLemma DEF SAVING_DATA, CAMoves
<1>8. CASE NEED_POST_SAVE_DATA(t)
  BY <1>8, CAMovesLemma DEF NEED_POST_SAVE_DATA, CAMoves
<1>9. CASE POST_SAVE_DATA(t)
  BY <1>9, CAMovesLemma DEF POST_SAVE_DATA, CAMoves
<1>10. CASE SAVED_DATA(t)
  BY <1>10, GiveLemma, CAVisitLemma DEF SAVED_DATA
<1>11. CASE NEED_TO_ANALYZE(t)
  <2>1. CASE Dies
    BY <1>11, <2>1, CAWaitsLemma DEF NEED_TO_ANALYZE, Dies, KeepsLock
  <2>2. CASE ~Dies
    BY <1>11, <2>2, CAMovesLemma DEF NEED_TO_ANALYZE
  <2>3. QED
    BY <2>1, <2>2
<1>12. CASE ANALYZING(t)
  BY <1>12, CAMovesLemma DEF ANALYZING, CAMoves
<1>13. CASE CARests(t)
  BY <1>13, CAWaitsLemma DEF CARests, CAInv, CATypeOK
<1>14. QED
  BY <1>1, <1>2, <1>3, <1>4, <1>5, <1>6, <1>7, <1>8, <1>9, <1>10, <1>11, <1>12,
     <1>13 DEF CAStep

\* After a stop, and perhaps a start, of the tasks T, none of them has the
\* lock, and none of those that are started is saving.
LEMMA CAStopLemma ==
  ASSUME CAInv, NEW T, T \subseteq Tasks, CAStop(T)
  PROVE  /\ LockTypeOK'
         /\ \A t \in Tasks : HasLock(t)' <=> HasLock(t) /\ t \notin T
         /\ ca_scheduled' = ca_scheduled \ T
BY CAsAssumption, NoHolderAssumption
DEF CAStop, CAInv, CATypeOK, LockTypeOK, HasLock

\* Restarting tasks of managed CAs preserves the invariant.
LEMMA CARestartLemma ==
  ASSUME CAInv, NEW T, T \subseteq TasksOf(ca_managed), CARestart(T)
  PROVE  CAInv'
<1>1. T \subseteq Tasks
  BY DEF CAInv, CATypeOK, TasksOf, Tasks
<1>2. CAStop(T) /\ CAStart(T) /\ UNCHANGED <<ca_managed, ca_stored, crashed>>
  BY DEF CARestart
<1>3. CATypeOK'
  BY <1>1, <1>2, CAStopLemma DEF CAInv, CATypeOK, CAStart, CAStates, TasksOf
<1>4. LockedWhileSaving'
  BY <1>1, <1>2, CAStopLemma DEF CAInv, LockedWhileSaving, CAStart, CASavingStates
<1>5. QED
  BY <1>3, <1>4 DEF CAInv

\* So does adding, removing or refreshing a CA.
LEMMA CAHandlerLemma ==
  ASSUME CAInv, NEW c \in CAs, CAHandler(c)
  PROVE  CAInv'
<1>1. TasksOf({c}) \subseteq Tasks
  BY DEF TasksOf, Tasks
<1>2. CASE AddCA(c)
  <2>1. c \notin ca_managed
    BY <1>2 DEF AddCA, CAInv, CATypeOK
  <2>2. CATypeOK'
    BY <1>1, <1>2 DEF AddCA, CAInv, CATypeOK, CAStart, CAStates, TasksOf,
                      LockTypeOK, KeepsLock
  <2>3. LockedWhileSaving'
    <3> SUFFICES ASSUME NEW t \in Tasks
                 PROVE  (HasLock(t) <=> t[1] \in ca_managed
                                         /\ ca_state[t] \in CASavingStates)'
      BY DEF LockedWhileSaving
    <3>1. HasLock(t)' <=> HasLock(t)
      BY <1>2 DEF AddCA, KeepsLock, HasLock
    <3>2. CASE t[1] = c
      BY <1>2, <2>1, <3>1, <3>2
      DEF AddCA, CAStart, TasksOf, Tasks, CAInv, LockedWhileSaving, CASavingStates
    <3>3. CASE t[1] # c
      BY <1>2, <3>1, <3>3
      DEF AddCA, CAStart, TasksOf, Tasks, CAInv, LockedWhileSaving
    <3>4. QED
      BY <3>2, <3>3
  <2>4. QED
    BY <2>2, <2>3 DEF CAInv
<1>3. CASE RemoveCA(c)
  <2>1. \A t \in Tasks : t[1] = c <=> t \in TasksOf({c})
    BY DEF TasksOf, Tasks
  <2>2. CATypeOK'
    BY <1>1, <1>3, CAStopLemma DEF RemoveCA, CAInv, CATypeOK, TasksOf, CAIdle
  <2>3. LockedWhileSaving'
    BY <1>1, <1>3, <2>1, CAStopLemma DEF RemoveCA, CAInv, LockedWhileSaving
  <2>4. QED
    BY <2>2, <2>3 DEF CAInv
<1>4. CASE CARefresh(c)
  BY <1>4, CARestartLemma DEF CARefresh, TasksOf
<1>5. QED
  BY <1>2, <1>3, <1>4 DEF CAHandler

\* So does a change of routes.
LEMMA CANetlinkLemma == CAInv /\ CANetlinkDelayed => CAInv'
BY CARestartLemma DEF CANetlinkDelayed, UnreachableTasks

\* So does a new start of the daemon, in which nobody has the lock.
LEMMA CABootLemma == CAInv /\ CABoot => CAInv'
<1> SUFFICES ASSUME CAInv, CABoot PROVE CAInv'
  OBVIOUS
<1>1. ca_managed' \subseteq CAs
  BY CAsAssumption DEF CABoot, CAInv, CATypeOK
<1>2. CATypeOK'
  BY <1>1 DEF CABoot, CAInv, CATypeOK, CAStart, TasksOf, CAStates, LockTypeOK
<1>3. \A t \in Tasks : ~HasLock(t)'
  BY CAsAssumption, NoHolderAssumption DEF CABoot, HasLock
<1>4. \A t \in Tasks : t[1] \in ca_managed' => ca_state'[t] = "NEED_TO_REFRESH"
  BY DEF CABoot, CAStart, TasksOf, Tasks
<1>5. LockedWhileSaving'
  BY <1>3, <1>4 DEF LockedWhileSaving, CASavingStates
<1>6. QED
  BY <1>2, <1>5 DEF CAInv

\* So does another holder that takes or releases the lock.
LEMMA OthersLemma == CAInv /\ OthersUseLock => CAInv'
<1> SUFFICES ASSUME CAInv, NEW h \in Holders \ Tasks, Lock(h) \/ Unlock(h),
                    UNCHANGED caVars
             PROVE  CAInv'
  BY DEF OthersUseLock
<1>1. LockTypeOK' /\ \A t \in Tasks : HasLock(t)' <=> HasLock(t)
  BY CAsAssumption, NoHolderAssumption
  DEF Lock, Unlock, Free, HasLock, LockTypeOK
<1>2. QED
  BY <1>1 DEF CAInv, CATypeOK, LockedWhileSaving, caVars

\* A daemon that starts for the first time satisfies the invariant.
LEMMA CAInitLemma == CAInit => CAInv
BY CAsAssumption, NoHolderAssumption
DEF CAInit, CAInv, CATypeOK, LockedWhileSaving, CAStates, CASavingStates, TasksOf,
    Tasks, LockInit, Free, LockTypeOK, HasLock

\* A task of a CA has the lock exactly while the CA is managed and the task is
\* between taking the lock to save and having saved.
THEOREM CALockInvariant == CASpec => [](CATypeOK /\ LockedWhileSaving)
<1>1. CAInv /\ [CANext]_caVarsAndLock => CAInv'
  <2> SUFFICES ASSUME CAInv, [CANext]_caVarsAndLock PROVE CAInv'
    OBVIOUS
  <2>1. CASE \E t \in Tasks : CAStep(t)
    BY <2>1, CAStepLemma
  <2>2. CASE \E c \in CAs : CAHandler(c)
    BY <2>2, CAHandlerLemma
  <2>3. CASE UNCHANGED caVarsAndLock
    BY <2>3 DEF caVarsAndLock, caVars, CAInv, CATypeOK, LockedWhileSaving, HasLock,
                LockTypeOK
  <2>4. QED
    BY <2>1, <2>2, <2>3, CANetlinkLemma, CABootLemma, OthersLemma DEF CANext
<1>2. QED
  BY <1>1, CAInitLemma, PTL DEF CASpec, CAInv

-----------------------------------------------------------------------------
(***************************************************************************)
(* No task of a CA is forgotten: in the middle of a handler, too, one      *)
(* without an event is about to be serviced or has a reason to rest.       *)
(***************************************************************************)
CARestingStates == {"IDLE", "DISABLED", "START_SAVING_DATA"}

CAWakeInv ==
  ~crashed => \A t \in TasksOf(ca_managed) \ ca_scheduled :
                t \in ca_serving \/ ca_state[t] \in CARestingStates

\* A visit leaves the task with an event, resting, or the daemon dead.
LEMMA CAVisitShape ==
  ASSUME NEW t \in Tasks, CAStep(t)
  PROVE  /\ \E s : CAVisit(t, s)
         /\ \/ \E T : CABecomes(t, T)
            \/ crashed'
            \/ /\ ca_state[t] \in CARestingStates /\ ca_state' = ca_state
               /\ ca_scheduled \ {t} \subseteq ca_scheduled'
BY DEF CAStep, NEED_TO_REFRESH, REFRESHING, DATA_UNREACHABLE, NEED_TO_SAVE_DATA,
   PRE_SAVE_DATA, START_SAVING_DATA, SAVING_DATA, NEED_POST_SAVE_DATA,
   POST_SAVE_DATA, SAVED_DATA, NEED_TO_ANALYZE, ANALYZING, CARests, CAMoves,
   CAVisit, Dies, CARestingStates

\* What a visit of a CA's task leaves, it can be woken from.
LEMMA CAStepWakes ==
  ASSUME CATypeOK, CAWakeInv, NEW t \in Tasks, CAStep(t)
  PROVE  CAWakeInv'
<1>1. /\ ca_managed' = ca_managed /\ ca_serving \subseteq ca_serving' \cup {t}
      /\ ~crashed
  BY CAVisitShape DEF CAVisit
<1>2. CASE \E T : CABecomes(t, T)
  <2>1. PICK s : ca_state' = [ca_state EXCEPT ![t] = s]
                 /\ ca_scheduled' = ca_scheduled \cup {t}
    BY <1>2 DEF CABecomes
  <2>2. \A u \in Tasks \ {t} : ca_state'[u] = ca_state[u]
    BY <2>1 DEF CATypeOK
  <2>3. TasksOf(ca_managed) \subseteq Tasks
    BY DEF CATypeOK, TasksOf, Tasks
  <2>4. QED
    BY <1>1, <2>1, <2>2, <2>3 DEF CAWakeInv
<1>3. CASE crashed'
  BY <1>3 DEF CAWakeInv
<1>4. CASE /\ ca_state[t] \in CARestingStates /\ ca_state' = ca_state
           /\ ca_scheduled \ {t} \subseteq ca_scheduled'
  BY <1>1, <1>4 DEF CAWakeInv
<1>5. QED
  BY <1>2, <1>3, <1>4, CAVisitShape

\* A task that is stopped is started and serviced next, or gone.
LEMMA CAHandlerWakes ==
  ASSUME CATypeOK, CAWakeInv,
         (\E c \in CAs : CAHandler(c)) \/ CANetlinkDelayed \/ CABoot
  PROVE  CAWakeInv'
<1>0. /\ ca_managed \subseteq CAs
      /\ \A C : C \subseteq CAs => TasksOf(C) \subseteq Tasks
  BY DEF CATypeOK, TasksOf, Tasks
<1>1. ASSUME NEW T, T \subseteq TasksOf(ca_managed), CAIdle, CARestart(T)
      PROVE  CAWakeInv'
  BY <1>0, <1>1 DEF CARestart, CAStop, CAStart, CAIdle, CAWakeInv
<1>2. ASSUME NEW c \in CAs, AddCA(c)
      PROVE  CAWakeInv'
  <2>1. TasksOf(ca_managed') = TasksOf(ca_managed) \cup TasksOf({c})
    BY <1>2 DEF AddCA, TasksOf
  <2>2. QED
    BY <1>0, <1>2, <2>1 DEF AddCA, CAStart, CAIdle, CAWakeInv
<1>3. ASSUME NEW c \in CAs, RemoveCA(c)
      PROVE  CAWakeInv'
  <2>1. TasksOf(ca_managed') = TasksOf(ca_managed) \ TasksOf({c})
    BY <1>3 DEF RemoveCA, TasksOf
  <2>2. QED
    BY <1>3, <2>1 DEF RemoveCA, CAStop, CAIdle, CAWakeInv
<1>4. ASSUME NEW c \in CAs, CARefresh(c)
      PROVE  CAWakeInv'
  BY <1>1, <1>4 DEF CARefresh, TasksOf
<1>5. CASE CANetlinkDelayed
  BY <1>1, <1>5 DEF CANetlinkDelayed, UnreachableTasks
<1>6. CASE CABoot
  BY <1>6 DEF CABoot, CAStart, CAWakeInv
<1>7. QED
  BY <1>2, <1>3, <1>4, <1>5, <1>6 DEF CAHandler

\* A task of a CA without an event has nothing left to do, but for the one
\* that could not start its save.
THEOREM CANoWakeupIsLost == CASpec => []CANoLostWakeup
<1>1. CAInit => CAWakeInv
  BY DEF CAInit, CAWakeInv
<1>2. CATypeOK /\ CAWakeInv /\ [CANext]_caVarsAndLock => CAWakeInv'
  <2>1. UNCHANGED caVars /\ CAWakeInv => CAWakeInv'
    BY DEF caVars, CAWakeInv
  <2>2. QED
    BY <2>1, CAStepWakes, CAHandlerWakes DEF CANext, OthersUseLock, caVarsAndLock
<1>3. CAWakeInv => CANoLostWakeup
  BY DEF CAWakeInv, CANoLostWakeup, CAIdle, CARestingStates
<1>4. QED
  BY <1>1, <1>2, <1>3, CALockInvariant, PTL DEF CASpec

-----------------------------------------------------------------------------
(***************************************************************************)
(* The daemon.                                                             *)
(***************************************************************************)

\* The lock is left to the holders outside of H.
LeavesLockTo(H) ==
  /\ LockTypeOK'
  /\ \A h \in H : HasLock(h)' <=> HasLock(h)

\* What a request does to the lock, it does to its own hold of it.
LEMMA RequestLockLemma ==
  ASSUME NEW e \in Entries, Request(e)
  PROVE  KeepsLock \/ Lock(e) \/ Unlock(e)
<1>1. CASE EntryStep(e)
  BY <1>1, EntryStepShape DEF Hold, Pulse, Lock, Unlock, Free, HasLock, KeepsLock
<1>2. CASE RestartEntry(e) \/ Handler(e)
  BY <1>2 DEF RestartEntry, Handler, AddRequest, RemoveRequest, RequestModify,
     RequestRefresh, RequestResubmit, RequestRekey, StopAndStart, Stop, Drop,
     Unlock, HasLock, KeepsLock
<1>3. QED
  BY <1>1, <1>2 DEF Request

\* To the CAs, a step of a request is a step of another holder, or none.
LEMMA RequestIsOther ==
  ASSUME NEW e \in Entries, Request(e)
  PROVE  [CANext]_caVarsAndLock
<1>1. e \in Holders \ Tasks
  BY EntriesAssumption, ApartAssumption
<1>2. UNCHANGED caVars
  BY DEF Request
<1>3. CASE KeepsLock
  BY <1>2, <1>3 DEF KeepsLock, caVarsAndLock
<1>4. CASE Lock(e) \/ Unlock(e)
  BY <1>1, <1>2, <1>4 DEF OthersUseLock, CANext
<1>5. QED
  BY <1>3, <1>4, RequestLockLemma

\* A step of a request preserves the invariant of the requests.
LEMMA RequestKeepsLockInv ==
  ASSUME LockInv, NEW e \in Entries, Request(e)
  PROVE  LockInv'
BY NextLemma DEF Request, Next

\* What a case of cm_iterate_ca does to the lock is the task's own business.
LEMMA CAStepShape ==
  ASSUME NEW t \in Tasks, CAStep(t)
  PROVE  KeepsLock \/ Lock(t) \/ Unlock(t)
BY DEF CAStep, CAMoves, Dies, NEED_TO_REFRESH, REFRESHING, DATA_UNREACHABLE,
   NEED_TO_SAVE_DATA, PRE_SAVE_DATA, START_SAVING_DATA, SAVING_DATA,
   NEED_POST_SAVE_DATA, POST_SAVE_DATA, SAVED_DATA, NEED_TO_ANALYZE, ANALYZING,
   CARests, KeepsLock

\* The requests are as they were if the lock is left to them.
LEMMA LeftAloneLemma ==
  ASSUME LockInv, LeavesLockTo(Entries), UNCHANGED entryVars
  PROVE  LockInv'
BY DEF LockInv, TypeOK, HolderUsesLock, LockCoversWork, LeavesLockTo, entryVars

\* A case of cm_iterate_ca preserves the invariant of the requests, also when
\* it restarts some of them.
LEMMA CAKeepsLockInv ==
  ASSUME LockInv, NEW t \in Tasks, CA(t)
  PROVE  LockInv'
<1>1. CASE Refreshed(t)
  BY <1>1, NextLemma DEF Refreshed, Next
<1>2. CASE CAStep(t) /\ UNCHANGED entryVars
  <2>1. t \in Holders /\ t \notin Entries
    BY CAsAssumption, ApartAssumption
  <2>2. LeavesLockTo(Entries)
    BY <1>2, <2>1, CAStepShape, EntriesAssumption, NoHolderAssumption
    DEF LeavesLockTo, KeepsLock, Lock, Unlock, Free, HasLock, LockTypeOK, LockInv, TypeOK
  <2>3. QED
    BY <1>2, <2>2, LeftAloneLemma
<1>3. QED
  BY <1>1, <1>2 DEF CA

\* So does a method of a CA: what is stopped is the CA's.
LEMMA CAMethodKeepsLockInv ==
  ASSUME LockInv, NEW c \in CAs, CAMethod(c)
  PROVE  LockInv'
<1>1. TasksOf({c}) \cap Entries = {}
  BY ApartAssumption DEF TasksOf, Tasks
<1>2. KeepsLock \/ CAStop(TasksOf({c}))
  BY DEF CAMethod, CAHandler, AddCA, RemoveCA, CARefresh, CARestart
<1>3. LeavesLockTo(Entries)
  BY <1>1, <1>2, EntriesAssumption, NoHolderAssumption
  DEF LeavesLockTo, KeepsLock, CAStop, HasLock, LockTypeOK, LockInv, TypeOK
<1>4. QED
  BY <1>3, LeftAloneLemma DEF CAMethod

\* Every step of the daemon preserves the invariant of the requests.
LEMMA DaemonKeepsLockInv == LockInv /\ [DaemonNext]_daemonVars => LockInv'
<1> SUFFICES ASSUME LockInv, [DaemonNext]_daemonVars PROVE LockInv'
  OBVIOUS
<1>1. CASE RouteChange
  BY <1>1, NextLemma DEF RouteChange, Next
<1>2. CASE Reboot
  BY <1>2, NextLemma DEF Reboot, Next
<1>3. CASE UNCHANGED daemonVars
  BY <1>3, NextLemma DEF daemonVars
<1>4. QED
  BY <1>1, <1>2, <1>3, RequestKeepsLockInv, CAKeepsLockInv, CAMethodKeepsLockInv
  DEF DaemonNext

\* Every step of the daemon is one of CAIterate, or leaves it alone.
LEMMA DaemonStepRefines == [DaemonNext]_daemonVars => [CANext]_caVarsAndLock
<1> SUFFICES ASSUME [DaemonNext]_daemonVars PROVE [CANext]_caVarsAndLock
  OBVIOUS
<1>1. ASSUME NEW t \in Tasks, CA(t) PROVE CANext
  BY <1>1 DEF CA, Refreshed, CAStep, CANext
<1>2. CASE \E c \in CAs : CAMethod(c)
  BY <1>2 DEF CAMethod, CANext
<1>3. CASE RouteChange \/ Reboot
  BY <1>3 DEF RouteChange, Reboot, CANext
<1>4. CASE UNCHANGED daemonVars
  BY <1>4 DEF daemonVars, vars, caVarsAndLock
<1>5. QED
  BY <1>1, <1>2, <1>3, <1>4, RequestIsOther DEF DaemonNext

\* The daemon implements CAIterate: to the CAs, its requests are other holders
\* of the lock that play by its rules.
THEOREM DaemonImplementsCAs == DaemonSpec => CAsAreRefined
<1>1. DaemonInit => CAInit
  BY DEF DaemonInit
<1>2. QED
  BY <1>1, DaemonStepRefines, PTL DEF DaemonSpec, CASpec, CAsAreRefined

\* In the daemon with its CAs, too, the requests keep the lock's discipline.
THEOREM DaemonLockInvariant == DaemonSpec => []LockInv
<1>1. DaemonInit => LockInv
  BY InitLemma DEF DaemonInit
<1>2. QED
  BY <1>1, DaemonKeepsLockInv, PTL DEF DaemonSpec

\* With CAs competing for the lock, no order of events makes a request abort
\* the daemon in the lock's functions.
THEOREM NeverAbortsWithCAs == DaemonSpec => []NeverAborts
BY DaemonLockInvariant, NoAbortLemma, PTL

\* A CA's certificates are saved while no request generates keys, runs a hook
\* or saves CA certificates: both would have the one lock.
THEOREM CAsExcludeRequests == DaemonSpec => []CASavingExcludesRequests
<1>1. LockInv /\ CATypeOK /\ LockedWhileSaving => CASavingExcludesRequests
  <2> SUFFICES ASSUME LockInv, CATypeOK, LockedWhileSaving,
                      NEW t \in TasksOf(ca_managed), NEW e \in managed,
                      ca_state[t] \in CASavingStates, state[e] \in LockedStates
               PROVE  FALSE
    BY DEF CASavingExcludesRequests
  <2>1. t \in Tasks /\ t[1] \in ca_managed
    BY DEF TasksOf, Tasks, CATypeOK
  <2>2. HasLock(t)
    BY <2>1 DEF LockedWhileSaving
  <2>3. HasLock(e) /\ e \in Entries
    BY DEF LockInv, LockCoversWork, TypeOK
  <2>4. QED
    BY <2>1, <2>2, <2>3, ApartAssumption DEF HasLock
<1>2. QED
  BY <1>1, DaemonLockInvariant, DaemonImplementsCAs, CALockInvariant, PTL
  DEF CAsAreRefined

=============================================================================
