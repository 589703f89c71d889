------------------------- MODULE EntryIterateProofs -------------------------
(***************************************************************************)
(* Proofs about EntryIterate, for any number of requests and whatever else *)
(* shares the lock with them: types, and the discipline of the lock.       *)
(***************************************************************************)
EXTENDS EntryIterate, TLAPS

\* The states in which an entry may hold the lock.
HoldingStates == LockedStates \cup MaybeLockedStates

\* The inductive invariant: an entry has the lock in every state that needs
\* it, and in no state that does not know what to do with it.
LockInv == TypeOK /\ HolderUsesLock /\ LockCoversWork

USE EntriesAssumption, NoHolderAssumption

\* The classes of states are made of states; a new entry needs no lock.
LEMMA StatesAreStates ==
  /\ HoldingStates \subseteq States
  /\ StuckStates \subseteq States
  /\ "NEWLY_ADDED" \in States
  /\ "NEWLY_ADDED" \notin LockedStates
BY DEF HoldingStates, LockedStates, MaybeLockedStates, States, HelperStates,
       StuckStates, PassingStates

\* A stopped entry is in a state that needs no lock.
LEMMA ResetLemma ==
  \A s \in States : Reset(s) \in States \ LockedStates
BY DEF Reset, InterruptedSubmission, InterruptedReading, InterruptedTelling,
       LockedStates, States, HelperStates, StuckStates, PassingStates

\* A visit preserves the invariant if it leaves the lock of the others alone
\* and moves e to a state that fits what e then has.
LEMMA VisitLemma ==
  ASSUME LockInv, NEW e \in Entries, NEW s, NEW T, T \subseteq States,
         Visit(e, s), Becomes(e, T), LockTypeOK',
         \A f \in Entries \ {e} : HasLock(f)' <=> HasLock(f),
         \A t \in T : (t \in LockedStates => HasLock(e)')
                      /\ (HasLock(e)' => t \in HoldingStates)
  PROVE  LockInv'
<1>1. PICK t \in T : state' = [state EXCEPT ![e] = t]
  BY DEF Becomes
<1>2. TypeOK'
  BY <1>1 DEF LockInv, TypeOK, Visit, Becomes
<1>3. HolderUsesLock'
  BY <1>1 DEF LockInv, TypeOK, HolderUsesLock, HoldingStates, Visit
<1>4. LockCoversWork'
  BY <1>1 DEF LockInv, TypeOK, LockCoversWork, Visit
<1>5. QED
  BY <1>2, <1>3, <1>4 DEF LockInv

\* The lock is left alone.
LEMMA MovesLemma ==
  ASSUME LockInv, NEW e \in Entries, NEW s, NEW T, T \subseteq States,
         Moves(e, s, T),
         \A t \in T : (t \in LockedStates => s \in LockedStates)
                      /\ (s \in HoldingStates => t \in HoldingStates)
  PROVE  LockInv'
<1>1. Visit(e, s) /\ Becomes(e, T) /\ writing_lock' = writing_lock
  BY DEF Moves, KeepsLock
<1>2. LockTypeOK' /\ \A f \in Entries : HasLock(f)' <=> HasLock(f)
  BY <1>1 DEF LockInv, TypeOK, LockTypeOK, HasLock
<1>3. /\ s \in LockedStates => HasLock(e)
      /\ HasLock(e) => s \in HoldingStates
  BY <1>1 DEF LockInv, LockCoversWork, HolderUsesLock, Visit, HoldingStates
<1>4. QED
  BY <1>1, <1>2, <1>3, VisitLemma

\* The lock is taken, whether or not e already has it.
LEMMA HoldLemma ==
  ASSUME LockInv, NEW e \in Entries, NEW s, NEW T,
         T \subseteq HoldingStates, Visit(e, s), Becomes(e, T), Hold(e)
  PROVE  LockInv'
<1>1. LockTypeOK' /\ HasLock(e)' /\ \A f \in Entries \ {e} : ~HasLock(f) /\ ~HasLock(f)'
  BY DEF LockInv, TypeOK, LockTypeOK, Hold, HasLock, Free
<1>2. QED
  BY <1>1, StatesAreStates, VisitLemma DEF HoldingStates

\* Taking the lock anew is a way of holding it.
LEMMA LockIsHold ==
  ASSUME NEW e \in Entries, Lock(e)
  PROVE  Hold(e)
BY DEF Lock, Hold, Free, HasLock

\* The lock is released.
LEMMA ReleaseLemma ==
  ASSUME LockInv, NEW e \in Entries, NEW s, NEW T,
         T \subseteq States \ LockedStates, Visit(e, s), Becomes(e, T),
         Unlock(e) \/ Pulse(e)
  PROVE  LockInv'
<1>1. LockTypeOK' /\ ~HasLock(e)' /\ \A f \in Entries \ {e} : ~HasLock(f) /\ ~HasLock(f)'
  BY DEF LockInv, TypeOK, LockTypeOK, Unlock, Pulse, HasLock, Free
<1>2. QED
  BY <1>1, VisitLemma

\* Nothing but the events changes.
LEMMA TryAgainLemma ==
  ASSUME LockInv, NEW e \in Entries, NEW s, Visit(e, s), TryAgain(e)
  PROVE  LockInv'
<1>1. Moves(e, s, {s}) /\ s \in States
  BY DEF Moves, Visit, TryAgain, LockInv, TypeOK
<1>2. QED
  BY <1>1, MovesLemma

\* What a step of cm_iterate_entry may do while it leaves the lock alone.
LegalMove(s, T) ==
  /\ T \subseteq States
  /\ \A t \in T : (t \in LockedStates => s \in LockedStates)
                  /\ (s \in HoldingStates => t \in HoldingStates)

\* A legal move keeps the invariant of the lock.
LEMMA LegalMoveLemma ==
  \A e \in Entries : \A s, T :
     LockInv /\ LegalMove(s, T) /\ Moves(e, s, T) => LockInv'
BY MovesLemma DEF LegalMove

\* The steps that leave the lock alone.
LEMMA EntryMovesLemma ==
  ASSUME LockInv, NEW e \in Entries,
            HAVE_KEY_PAIR(e) \/ NEED_KEYINFO(e) \/ READING_KEYINFO(e)
         \/ HAVE_KEYINFO(e) \/ NEED_CSR(e) \/ GENERATING_CSR(e)
         \/ HAVE_CSR(e) \/ NEED_TO_SUBMIT(e) \/ NEED_SCEP_DATA(e)
         \/ GENERATING_SCEP_DATA(e) \/ HAVE_SCEP_DATA(e) \/ SUBMITTING(e)
         \/ CA_WORKING(e) \/ CA_UNREACHABLE(e) \/ PRE_SAVE_CERT(e)
         \/ START_SAVING_CERT(e) \/ SAVING_CERT(e) \/ SAVED_CERT(e)
         \/ START_SAVING_CA_CERTS(e) \/ SAVING_CA_CERTS(e) \/ READING_CERT(e)
         \/ POST_SAVED_CERT(e) \/ START_SAVING_ONLY_CA_CERTS(e)
         \/ MONITORING(e) \/ NEED_TO_NOTIFY_VALIDITY(e)
         \/ NOTIFYING_VALIDITY(e) \/ NEED_TO_NOTIFY_REJECTION(e)
         \/ NOTIFYING_REJECTION(e) \/ NOTIFYING_ISSUED_SAVE_FAILED(e)
         \/ NOTIFYING_ISSUED_SAVED(e) \/ NOTIFYING_ISSUED_CA_SAVE_FAILED(e)
         \/ NOTIFYING_ONLY_CA_SAVE_FAILED(e)
         \/ NEWLY_ADDED_START_READING_KEYINFO(e)
         \/ NEWLY_ADDED_START_READING_CERT(e) \/ NEWLY_ADDED_READING_CERT(e)
  PROVE  LockInv'
<1> USE DEF LegalMove, HoldingStates, LockedStates, MaybeLockedStates, States,
            HelperStates, StuckStates, PassingStates
<1>1. CASE HAVE_KEY_PAIR(e)
  BY <1>1, LegalMoveLemma DEF HAVE_KEY_PAIR
<1>2. CASE NEED_KEYINFO(e)
  BY <1>2, LegalMoveLemma DEF NEED_KEYINFO
<1>3. CASE READING_KEYINFO(e)
  BY <1>3, LegalMoveLemma DEF READING_KEYINFO
<1>4. CASE HAVE_KEYINFO(e)
  BY <1>4, LegalMoveLemma DEF HAVE_KEYINFO
<1>5. CASE NEED_CSR(e)
  BY <1>5, LegalMoveLemma DEF NEED_CSR
<1>6. CASE GENERATING_CSR(e)
  BY <1>6, LegalMoveLemma DEF GENERATING_CSR
<1>7. CASE HAVE_CSR(e)
  BY <1>7, LegalMoveLemma DEF HAVE_CSR
<1>8. CASE NEED_TO_SUBMIT(e)
  BY <1>8, LegalMoveLemma DEF NEED_TO_SUBMIT
<1>9. CASE NEED_SCEP_DATA(e)
  BY <1>9, LegalMoveLemma DEF NEED_SCEP_DATA
<1>10. CASE GENERATING_SCEP_DATA(e)
  BY <1>10, LegalMoveLemma DEF GENERATING_SCEP_DATA
<1>11. CASE HAVE_SCEP_DATA(e)
  BY <1>11, LegalMoveLemma DEF HAVE_SCEP_DATA
<1>12. CASE SUBMITTING(e)
  BY <1>12, LegalMoveLemma DEF SUBMITTING
<1>13. CASE CA_WORKING(e)
  BY <1>13, LegalMoveLemma DEF CA_WORKING
<1>14. CASE CA_UNREACHABLE(e)
  BY <1>14, LegalMoveLemma DEF CA_UNREACHABLE
<1>15. CASE PRE_SAVE_CERT(e)
  BY <1>15, LegalMoveLemma DEF PRE_SAVE_CERT
<1>16. CASE START_SAVING_CERT(e)
  BY <1>16, LegalMoveLemma DEF START_SAVING_CERT
<1>17. CASE SAVING_CERT(e)
  BY <1>17, LegalMoveLemma DEF SAVING_CERT
<1>18. CASE SAVED_CERT(e)
  BY <1>18, LegalMoveLemma DEF SAVED_CERT
<1>19. CASE START_SAVING_CA_CERTS(e)
  BY <1>19, LegalMoveLemma DEF START_SAVING_CA_CERTS
<1>20. CASE SAVING_CA_CERTS(e)
  BY <1>20, LegalMoveLemma DEF SAVING_CA_CERTS
<1>21. CASE READING_CERT(e)
  BY <1>21, LegalMoveLemma DEF READING_CERT
<1>22. CASE POST_SAVED_CERT(e)
  BY <1>22, LegalMoveLemma DEF POST_SAVED_CERT
<1>23. CASE START_SAVING_ONLY_CA_CERTS(e)
  BY <1>23, LegalMoveLemma DEF START_SAVING_ONLY_CA_CERTS
<1>24. CASE MONITORING(e)
  BY <1>24, LegalMoveLemma DEF MONITORING
<1>25. CASE NEED_TO_NOTIFY_VALIDITY(e)
  BY <1>25, LegalMoveLemma DEF NEED_TO_NOTIFY_VALIDITY
<1>26. CASE NOTIFYING_VALIDITY(e)
  BY <1>26, LegalMoveLemma DEF NOTIFYING_VALIDITY
<1>27. CASE NEED_TO_NOTIFY_REJECTION(e)
  BY <1>27, LegalMoveLemma DEF NEED_TO_NOTIFY_REJECTION
<1>28. CASE NOTIFYING_REJECTION(e)
  BY <1>28, LegalMoveLemma DEF NOTIFYING_REJECTION
<1>29. CASE NOTIFYING_ISSUED_SAVE_FAILED(e)
  BY <1>29, LegalMoveLemma DEF NOTIFYING_ISSUED_SAVE_FAILED
<1>30. CASE NOTIFYING_ISSUED_SAVED(e)
  BY <1>30, LegalMoveLemma DEF NOTIFYING_ISSUED_SAVED
<1>31. CASE NOTIFYING_ISSUED_CA_SAVE_FAILED(e)
  BY <1>31, LegalMoveLemma DEF NOTIFYING_ISSUED_CA_SAVE_FAILED
<1>32. CASE NOTIFYING_ONLY_CA_SAVE_FAILED(e)
  BY <1>32, LegalMoveLemma DEF NOTIFYING_ONLY_CA_SAVE_FAILED
<1>33. CASE NEWLY_ADDED_START_READING_KEYINFO(e)
  BY <1>33, LegalMoveLemma DEF NEWLY_ADDED_START_READING_KEYINFO
<1>34. CASE NEWLY_ADDED_START_READING_CERT(e)
  BY <1>34, LegalMoveLemma DEF NEWLY_ADDED_START_READING_CERT
<1>35. CASE NEWLY_ADDED_READING_CERT(e)
  BY <1>35, LegalMoveLemma DEF NEWLY_ADDED_READING_CERT
<1>36. QED
  BY <1>1, <1>2, <1>3, <1>4, <1>5, <1>6, <1>7, <1>8, <1>9, <1>10, <1>11,
     <1>12, <1>13, <1>14, <1>15, <1>16, <1>17, <1>18, <1>19, <1>20, <1>21,
     <1>22, <1>23, <1>24, <1>25, <1>26, <1>27, <1>28, <1>29, <1>30, <1>31,
     <1>32, <1>33, <1>34, <1>35

\* The steps that take or release the lock.
LEMMA EntryLockLemma ==
  ASSUME LockInv, NEW e \in Entries,
            NEED_KEY_PAIR(e) \/ GENERATING_KEY_PAIR(e) \/ NEED_TO_SAVE_CERT(e)
         \/ NEED_TO_SAVE_CA_CERTS(e) \/ NEED_TO_READ_CERT(e)
         \/ NEED_TO_SAVE_ONLY_CA_CERTS(e) \/ SAVING_ONLY_CA_CERTS(e)
         \/ NEED_TO_NOTIFY_ISSUED_SAVE_FAILED(e) \/ NEED_TO_NOTIFY_ISSUED_SAVED(e)
         \/ NEED_TO_NOTIFY_ISSUED_CA_SAVE_FAILED(e)
         \/ NEED_TO_NOTIFY_ONLY_CA_SAVE_FAILED(e)
         \/ NEWLY_ADDED(e) \/ NEWLY_ADDED_READING_KEYINFO(e)
         \/ NEWLY_ADDED_DECIDING(e)
  PROVE  LockInv'
<1> DEFINE MayHold(T) == T \subseteq HoldingStates
           MayLose(T) == T \subseteq States \ LockedStates
<1>1. ASSUME NEW s, TryAgain(e), Visit(e, s)
      PROVE  LockInv'
  BY <1>1, TryAgainLemma
<1>2. ASSUME NEW s, NEW T, MayHold(T), Visit(e, s), Hold(e) \/ Lock(e), Becomes(e, T)
      PROVE  LockInv'
  BY <1>2, HoldLemma, LockIsHold
<1>3. ASSUME NEW s, NEW T, MayLose(T), Visit(e, s), Unlock(e) \/ Pulse(e), Becomes(e, T)
      PROVE  LockInv'
  BY <1>3, ReleaseLemma
<1>4. ASSUME NEW s, Visit(e, s), HangsOut(e)
      PROVE  LockInv'
  BY <1>1, <1>4 DEF HangsOut
<1> USE DEF HoldingStates, LockedStates, MaybeLockedStates, States,
            HelperStates, StuckStates, PassingStates
<1>5. ASSUME NEW need, NEW notifying, {need, notifying} \subseteq States \ LockedStates,
             Notifies(e, need, notifying)
      PROVE  LockInv'
  <2>1. CASE HangsOut(e)
    BY <1>4, <1>5, <2>1 DEF Notifies
  <2>2. CASE Pulse(e) /\ Becomes(e, {notifying, need})
    BY <1>3, <1>5, <2>2 DEF Notifies
  <2>3. QED
    BY <1>5, <2>1, <2>2 DEF Notifies
<1>6. CASE NEED_KEY_PAIR(e)
  <2>1. MayHold({"GENERATING_KEY_PAIR"})
    OBVIOUS
  <2>2. QED
    BY <1>1, <1>2, <1>4, <1>6, <2>1 DEF NEED_KEY_PAIR
<1>7. CASE GENERATING_KEY_PAIR(e)
  BY <1>3, <1>7 DEF GENERATING_KEY_PAIR
<1>8. CASE NEED_TO_SAVE_CERT(e)
  BY <1>2, <1>4, <1>8 DEF NEED_TO_SAVE_CERT
<1>9. CASE NEED_TO_SAVE_CA_CERTS(e)
  BY <1>2, <1>4, <1>9 DEF NEED_TO_SAVE_CA_CERTS
<1>10. CASE NEED_TO_READ_CERT(e)
  BY <1>2, <1>4, <1>10 DEF NEED_TO_READ_CERT
<1>11. CASE NEED_TO_SAVE_ONLY_CA_CERTS(e)
  BY <1>2, <1>4, <1>11 DEF NEED_TO_SAVE_ONLY_CA_CERTS
<1>12. CASE SAVING_ONLY_CA_CERTS(e)
  <2>1. CASE Unlock(e) /\ Becomes(e, {"MONITORING", "NEED_ONLY_CA_CERT_SAVE_PERMS"})
    BY <1>3, <1>12, <2>1 DEF SAVING_ONLY_CA_CERTS
  <2>2. CASE KeepsLock /\ Becomes(e, {"NEED_TO_NOTIFY_ONLY_CA_SAVE_FAILED"})
    BY <1>12, <2>2, LegalMoveLemma DEF SAVING_ONLY_CA_CERTS, LegalMove, Moves
  <2>3. QED
    BY <1>12, <2>1, <2>2 DEF SAVING_ONLY_CA_CERTS
<1>13. CASE NEED_TO_NOTIFY_ISSUED_SAVE_FAILED(e)
  BY <1>5, <1>13 DEF NEED_TO_NOTIFY_ISSUED_SAVE_FAILED
<1>14. CASE NEED_TO_NOTIFY_ISSUED_SAVED(e)
  BY <1>5, <1>14 DEF NEED_TO_NOTIFY_ISSUED_SAVED
<1>15. CASE NEED_TO_NOTIFY_ISSUED_CA_SAVE_FAILED(e)
  BY <1>5, <1>15 DEF NEED_TO_NOTIFY_ISSUED_CA_SAVE_FAILED
<1>16. CASE NEED_TO_NOTIFY_ONLY_CA_SAVE_FAILED(e)
  BY <1>5, <1>16 DEF NEED_TO_NOTIFY_ONLY_CA_SAVE_FAILED
<1>17. CASE NEWLY_ADDED(e)
  BY <1>2, <1>4, <1>17 DEF NEWLY_ADDED
<1>18. CASE NEWLY_ADDED_READING_KEYINFO(e)
  <2>1. CASE KeepsLock /\ Becomes(e, {"NEWLY_ADDED_START_READING_CERT"})
    BY <1>18, <2>1, LegalMoveLemma DEF NEWLY_ADDED_READING_KEYINFO, LegalMove, Moves
  <2>2. CASE Unlock(e) /\ Becomes(e, {"NEWLY_ADDED_NEED_KEYINFO_READ_TOKEN",
                                      "NEWLY_ADDED_NEED_KEYINFO_READ_PIN"})
    BY <1>3, <1>18, <2>2 DEF NEWLY_ADDED_READING_KEYINFO
  <2>3. QED
    BY <1>18, <2>1, <2>2 DEF NEWLY_ADDED_READING_KEYINFO
<1>19. CASE NEWLY_ADDED_DECIDING(e)
  BY <1>3, <1>19 DEF NEWLY_ADDED_DECIDING
<1>20. QED
  BY <1>6, <1>7, <1>8, <1>9, <1>10, <1>11, <1>12, <1>13, <1>14, <1>15, <1>16,
     <1>17, <1>18, <1>19

\* A parked entry keeps what it has.
LEMMA ParksLemma ==
  ASSUME LockInv, NEW e \in Entries, Parks(e)
  PROVE  LockInv'
<1>1. UNCHANGED <<state, managed, stored, restarting, writing_lock>>
  BY DEF Parks, Visit, KeepsLock
<1>2. scheduled' \subseteq scheduled /\ serving' \subseteq serving
  BY DEF Parks, Visit
<1>3. QED
  BY <1>1, <1>2 DEF LockInv, TypeOK, LockTypeOK, HolderUsesLock, LockCoversWork, HasLock

\* A stopped entry has no lock and is in no state that needs it.
LEMMA StopLemma ==
  ASSUME LockInv, NEW e \in Entries, NEW s \in States \ LockedStates, Stop(e, s),
         managed' \in {managed, managed \ {e}}
  PROVE  /\ state' \in [Entries -> States]
         /\ scheduled' \subseteq managed'
         /\ LockTypeOK'
         /\ HolderUsesLock'
         /\ LockCoversWork'
<1>1. /\ ~HasLock(e)'
      /\ \A f \in Entries \ {e} : HasLock(f)' <=> HasLock(f)
      /\ LockTypeOK'
  BY DEF Stop, Drop, HasLock, LockInv, TypeOK, LockTypeOK
<1>2. /\ state' = [state EXCEPT ![e] = s]
      /\ scheduled' = scheduled \ {e}
  BY DEF Stop
<1>3. QED
  BY <1>1, <1>2 DEF LockInv, TypeOK, HolderUsesLock, LockCoversWork

\* The same, when the entry is to be serviced next.
LEMMA StopAndStartLemma ==
  ASSUME LockInv, NEW e \in Entries, NEW s \in States, StopAndStart(e, s),
         restarting' \in {restarting, restarting \ {e}}
  PROVE  LockInv'
<1>1. Reset(s) \in States \ LockedStates
  BY ResetLemma
<1>2. Stop(e, Reset(s)) /\ managed' = managed /\ stored' = stored
      /\ serving' = serving \cup {e} /\ e \in managed
  BY DEF StopAndStart, Stop
<1>3. QED
  BY <1>1, <1>2, StopLemma DEF LockInv, TypeOK

\* Every D-Bus handler preserves the invariant.
LEMMA HandlerLemma ==
  ASSUME LockInv, NEW e \in Entries, Handler(e) \/ RestartEntry(e)
  PROVE  LockInv'
<1> USE ResetLemma, StatesAreStates
<1>0. state[e] \in States /\ Reset(state[e]) \in States \ LockedStates
  BY DEF LockInv, TypeOK
<1>1. CASE AddRequest(e)
  <2>1. e \notin managed /\ ~HasLock(e)
    BY <1>1 DEF AddRequest, LockInv, TypeOK, HolderUsesLock
  <2>2. QED
    BY <1>1, <2>1 DEF AddRequest, KeepsLock, LockInv, TypeOK, LockTypeOK,
                      HolderUsesLock, LockCoversWork, HasLock, Idle
<1>2. CASE RemoveRequest(e)
  <2>1. Stop(e, Reset(state[e])) /\ managed' = managed \ {e}
    BY <1>2 DEF RemoveRequest
  <2>2. /\ stored' \in {stored, stored \ {e}}
        /\ restarting' = {} /\ serving' = {}
    BY <1>2 DEF RemoveRequest, Idle
  <2>3. QED
    BY <1>0, <2>1, <2>2, StopLemma DEF LockInv, TypeOK
<1>3. CASE RequestModify(e) \/ RequestRefresh(e) \/ RestartEntry(e)
  BY <1>0, <1>3, StopAndStartLemma DEF RequestModify, RequestRefresh, RestartEntry
<1>4. CASE RequestResubmit(e) \/ RequestRekey(e)
  <2>1. {"NEED_KEY_PAIR", "NEED_CSR"} \subseteq States
    BY DEF States, PassingStates
  <2>2. QED
    BY <1>4, <2>1, StopAndStartLemma DEF RequestResubmit, RequestRekey
<1>5. QED
  BY <1>1, <1>2, <1>3, <1>4 DEF Handler

\* Every step of the daemon preserves the invariant.
LEMMA NextLemma == LockInv /\ [Next]_vars => LockInv'
<1> SUFFICES ASSUME LockInv, [Next]_vars
             PROVE  LockInv'
  OBVIOUS
<1>1. ASSUME NEW e \in Entries, EntryStep(e)
      PROVE  LockInv'
  BY <1>1, EntryMovesLemma, EntryLockLemma, ParksLemma DEF EntryStep
<1>2. ASSUME NEW e \in Entries, Handler(e) \/ RestartEntry(e)
      PROVE  LockInv'
  BY <1>2, HandlerLemma
<1>3. CASE NetlinkDelayed
  BY <1>3 DEF NetlinkDelayed, LockInv, TypeOK, LockTypeOK, HolderUsesLock,
              LockCoversWork, HasLock
<1>4. ASSUME NEW S \in SUBSET managed, RestartEntriesByCA(S)
      PROVE  LockInv'
  BY <1>4 DEF RestartEntriesByCA, LockInv, TypeOK, LockTypeOK, HolderUsesLock,
              LockCoversWork, HasLock
<1>5. ASSUME NEW f \in [Entries -> States \ LockedStates], Boot(f)
      PROVE  LockInv'
  BY <1>5 DEF Boot, LockInv, TypeOK, LockTypeOK, HolderUsesLock, LockCoversWork,
              HasLock
<1>6. CASE Crash
  BY <1>5, <1>6, ResetLemma DEF Crash, LockInv, TypeOK
<1>7. CASE ShutdownAndRestart
  BY <1>5, <1>7, ResetLemma DEF ShutdownAndRestart, LockInv, TypeOK
<1>8. CASE UNCHANGED vars
  BY <1>8 DEF vars, entryVars, LockInv, TypeOK, LockTypeOK, HolderUsesLock,
              LockCoversWork, HasLock
<1>9. QED
  BY <1>1, <1>2, <1>3, <1>4, <1>6, <1>7, <1>8 DEF Next

\* A daemon without requests satisfies the invariant.
LEMMA InitLemma == Init => LockInv
BY StatesAreStates DEF Init, LockInit, Free, LockInv, TypeOK, LockTypeOK,
   HolderUsesLock, LockCoversWork, HasLock

\* In every reachable state an entry has the lock if its state needs it, and
\* only if its state knows what to do with it.
THEOREM LockInvariant == Spec => []LockInv
<1>1. Init => LockInv
  BY InitLemma
<1>2. LockInv /\ [Next]_vars => LockInv'
  BY NextLemma
<1>3. QED
  BY <1>1, <1>2, PTL DEF Spec

\* The lock is never leaked: its holder is managed and on its way through
\* saving or first reading.
THEOREM HolderAlwaysUsesLock == Spec => []HolderUsesLock
<1>1. LockInv => HolderUsesLock
  BY DEF LockInv
<1>2. QED
  BY <1>1, LockInvariant, PTL

\* Key generation, the hooks and the CA certificates' saving are serialized.
THEOREM LockAlwaysCoversWork == Spec => []LockCoversWork
<1>1. LockInv => LockCoversWork
  BY DEF LockInv
<1>2. QED
  BY <1>1, LockInvariant, PTL

\* Every variable keeps to its type, however the requests come and go.
THEOREM TypesAreCorrect == Spec => []TypeOK
<1>1. LockInv => TypeOK
  BY DEF LockInv
<1>2. QED
  BY <1>1, LockInvariant, PTL

\* A request that asks for the lock does not have it, for the states from
\* which it asks are not among those in which a request has the lock; one that
\* releases it has it.
LEMMA NoAbortLemma == LockInv => NeverAborts
BY DEF LockInv, TypeOK, HolderUsesLock, LockCoversWork, NeverAborts, Takers,
       Releasers, LockedStates, MaybeLockedStates

\* No order of events makes the daemon abort in the lock's functions.
THEOREM DaemonNeverAborts == Spec => []NeverAborts
BY NoAbortLemma, LockInvariant, PTL

-----------------------------------------------------------------------------
(***************************************************************************)
(* The lock passes from one holder to the next only through being free.    *)
(***************************************************************************)

\* The shape of every step of an entry.
LEMMA EntryStepShape ==
  ASSUME NEW e \in Entries, EntryStep(e)
  PROVE  /\ \E s : Visit(e, s)
         /\ Parks(e) \/ \E T : Becomes(e, T)
         /\ KeepsLock \/ Lock(e) \/ Unlock(e) \/ Hold(e) \/ Pulse(e)
<1> USE DEF Moves, TryAgain, HangsOut, Notifies
<1>1. CASE Parks(e)
  BY <1>1 DEF Parks
<1>2. CASE ~Parks(e)
  BY <1>2 DEF EntryStep,
     NEED_KEY_PAIR, GENERATING_KEY_PAIR, HAVE_KEY_PAIR, NEED_KEYINFO,
     READING_KEYINFO, HAVE_KEYINFO, NEED_CSR, GENERATING_CSR, HAVE_CSR,
     NEED_TO_SUBMIT, NEED_SCEP_DATA, GENERATING_SCEP_DATA, HAVE_SCEP_DATA,
     SUBMITTING, CA_WORKING, CA_UNREACHABLE, NEED_TO_SAVE_CERT, PRE_SAVE_CERT,
     START_SAVING_CERT, SAVING_CERT, SAVED_CERT, NEED_TO_SAVE_CA_CERTS,
     START_SAVING_CA_CERTS, SAVING_CA_CERTS, NEED_TO_READ_CERT, READING_CERT,
     POST_SAVED_CERT, NEED_TO_SAVE_ONLY_CA_CERTS, START_SAVING_ONLY_CA_CERTS,
     SAVING_ONLY_CA_CERTS, MONITORING, NEED_TO_NOTIFY_VALIDITY,
     NOTIFYING_VALIDITY, NEED_TO_NOTIFY_REJECTION, NOTIFYING_REJECTION,
     NEED_TO_NOTIFY_ISSUED_SAVE_FAILED, NOTIFYING_ISSUED_SAVE_FAILED,
     NEED_TO_NOTIFY_ISSUED_SAVED, NOTIFYING_ISSUED_SAVED,
     NEED_TO_NOTIFY_ISSUED_CA_SAVE_FAILED, NOTIFYING_ISSUED_CA_SAVE_FAILED,
     NEED_TO_NOTIFY_ONLY_CA_SAVE_FAILED, NOTIFYING_ONLY_CA_SAVE_FAILED,
     NEWLY_ADDED, NEWLY_ADDED_START_READING_KEYINFO,
     NEWLY_ADDED_READING_KEYINFO, NEWLY_ADDED_START_READING_CERT,
     NEWLY_ADDED_READING_CERT, NEWLY_ADDED_DECIDING
<1>3. QED
  BY <1>1, <1>2

\* A visit takes the lock when it is free, or releases it, or leaves it alone.
LEMMA EntryStepLockStep ==
  ASSUME NEW e \in Entries, EntryStep(e)
  PROVE  [LockNext]_writing_lock
BY EntryStepShape DEF KeepsLock, Hold, Pulse, LockNext, Lock, Unlock, Free, HasLock

\* So does stopping an entry.
LEMMA DropLockStep ==
  ASSUME NEW e \in Entries, Drop(e)
  PROVE  [LockNext]_writing_lock
BY DEF Drop, HasLock, LockNext, Unlock

\* The daemon uses the lock as WritingLock promises: it is taken when it is
\* free and given back by its holder.
THEOREM LockIsRefined == Spec => LockRefinement
<1>1. Init => LockInit
  BY DEF Init
<1>2. LockInv /\ [Next]_vars => [LockNext]_writing_lock
  <2> SUFFICES ASSUME LockInv, [Next]_vars
               PROVE  [LockNext]_writing_lock
    OBVIOUS
  <2>1. ASSUME NEW e \in Entries, Handler(e) \/ RestartEntry(e)
        PROVE  [LockNext]_writing_lock
    <3>1. KeepsLock \/ Drop(e)
      BY <2>1 DEF Handler, RestartEntry, AddRequest, RemoveRequest,
         RequestModify, RequestRefresh, RequestResubmit, RequestRekey,
         StopAndStart, Stop
    <3>2. QED
      BY <3>1, DropLockStep DEF KeepsLock
  <2>2. CASE NetlinkDelayed \/ \E S \in SUBSET managed : RestartEntriesByCA(S)
    BY <2>2 DEF NetlinkDelayed, RestartEntriesByCA
  <2>3. CASE Crash \/ ShutdownAndRestart
    <3>1. writing_lock' = NoHolder
      BY <2>3 DEF Crash, ShutdownAndRestart, Boot
    <3>2. QED
      BY <3>1 DEF LockInv, TypeOK, LockTypeOK, LockNext, Unlock, HasLock
  <2>4. CASE UNCHANGED vars
    BY <2>4 DEF vars
  <2>5. QED
    BY <2>1, <2>2, <2>3, <2>4, EntryStepLockStep DEF Next
<1>3. QED
  BY <1>1, <1>2, LockInvariant, PTL DEF Spec, LockRefinement, LockSpec

-----------------------------------------------------------------------------
(***************************************************************************)
(* Nobody is forgotten: in the middle of a handler, too, an entry without  *)
(* an event is about to be serviced or waits for the user.                 *)
(***************************************************************************)
WakeInv ==
  \A e \in managed \ scheduled : e \in serving \/ state[e] \in StuckStates

\* A visit leaves the entry with an event, or parked in a stuck state.
LEMMA WakeVisitLemma ==
  ASSUME WakeInv, TypeOK, NEW e \in Entries, NEW s, Visit(e, s),
         Parks(e) \/ \E T : Becomes(e, T)
  PROVE  WakeInv'
<1>1. managed' = managed /\ serving \subseteq serving' \cup {e}
  BY DEF Visit
<1>2. CASE Parks(e)
  BY <1>1, <1>2 DEF Parks, Visit, WakeInv
<1>3. CASE \E T : Becomes(e, T)
  <2>1. PICK t : state' = [state EXCEPT ![e] = t] /\ scheduled' = scheduled \cup {e}
    BY <1>3 DEF Becomes
  <2>2. QED
    BY <1>1, <2>1 DEF WakeInv, TypeOK
<1>4. QED
  BY <1>2, <1>3

\* A restarted entry is serviced next.
LEMMA WakeRestartLemma ==
  ASSUME WakeInv, NEW e \in Entries, NEW s, StopAndStart(e, s)
  PROVE  WakeInv'
<1>1. \A f \in Entries \ {e} : state'[f] = state[f]
  BY DEF StopAndStart, Stop
<1>2. QED
  BY <1>1 DEF WakeInv, StopAndStart, Stop

\* A request without an event is one that is reported as stuck.
THEOREM NoWakeupIsLost == Spec => []NoLostWakeup
<1>1. Init => WakeInv
  BY DEF Init, WakeInv
<1>2. LockInv /\ WakeInv /\ [Next]_vars => WakeInv'
  <2> SUFFICES ASSUME LockInv, WakeInv, [Next]_vars
               PROVE  WakeInv'
    OBVIOUS
  <2>1. ASSUME NEW e \in Entries, EntryStep(e)
        PROVE  WakeInv'
    BY <2>1, EntryStepShape, WakeVisitLemma DEF LockInv
  <2>2. ASSUME NEW e \in Entries, RequestModify(e) \/ RequestRefresh(e)
                 \/ RequestResubmit(e) \/ RequestRekey(e) \/ RestartEntry(e)
        PROVE  WakeInv'
    <3>1. \E s : StopAndStart(e, s)
      BY <2>2 DEF RequestModify, RequestRefresh, RequestResubmit, RequestRekey,
                  RestartEntry
    <3>2. QED
      BY <3>1, WakeRestartLemma
  <2>3. ASSUME NEW e \in Entries, AddRequest(e)
        PROVE  WakeInv'
    BY <2>3 DEF AddRequest, WakeInv, LockInv, TypeOK, Idle
  <2>4. ASSUME NEW e \in Entries, RemoveRequest(e)
        PROVE  WakeInv'
    BY <2>4 DEF RemoveRequest, Stop, WakeInv, LockInv, TypeOK
  <2>5. CASE NetlinkDelayed \/ \E S \in SUBSET managed : RestartEntriesByCA(S)
    BY <2>5 DEF NetlinkDelayed, RestartEntriesByCA, WakeInv
  <2>6. CASE Crash \/ ShutdownAndRestart
    <3>1. managed' = serving'
      BY <2>6 DEF Crash, ShutdownAndRestart, Boot
    <3>2. QED
      BY <3>1 DEF WakeInv
  <2>7. CASE UNCHANGED vars
    BY <2>7 DEF vars, entryVars, WakeInv
  <2>8. QED
    BY <2>1, <2>2, <2>3, <2>4, <2>5, <2>6, <2>7 DEF Next, Handler
<1>3. WakeInv => NoLostWakeup
  BY DEF WakeInv, NoLostWakeup, Idle
<1>4. QED
  BY <1>1, <1>2, <1>3, LockInvariant, PTL DEF Spec

-----------------------------------------------------------------------------
(***************************************************************************)
(* The saving of a certificate goes through its stages in order, and is    *)
(* not forgotten, whatever is stopped, restarted or killed on the way.     *)
(***************************************************************************)

\* The stages, by the states that they are made of.
LEMMA StageLemma ==
  \A s : /\ SavingStage(s) \in 0..4
         /\ SavingStage(s) = 1 <=> s \in SavingTheCert
         /\ SavingStage(s) = 2 <=> s \in SavingTheCACerts
         /\ SavingStage(s) = 3 <=> s \in ReadingItBack
         /\ SavingStage(s) = 4 <=> s \in AnnouncingIt
BY DEF SavingStage, SavingTheCert, SavingTheCACerts, ReadingItBack, AnnouncingIt

\* Rewinding a state keeps how far the saving has come.
LEMMA ResetKeepsStage ==
  \A s \in States : SavingStage(Reset(s)) = SavingStage(s)
<1> USE DEF Reset, InterruptedSubmission, InterruptedReading, InterruptedTelling,
         States, HelperStates, StuckStates, PassingStates,
         SavingTheCert, SavingTheCACerts, ReadingItBack, AnnouncingIt
<1> DEFINE Others == States \ (SavingTheCert \cup SavingTheCACerts
                               \cup ReadingItBack \cup AnnouncingIt)
<1>1. \A s \in SavingTheCert : Reset(s) \in SavingTheCert
  OBVIOUS
<1>2. \A s \in SavingTheCACerts : Reset(s) \in SavingTheCACerts
  OBVIOUS
<1>3. \A s \in ReadingItBack : Reset(s) \in ReadingItBack
  OBVIOUS
<1>4. \A s \in AnnouncingIt : Reset(s) \in AnnouncingIt
  OBVIOUS
<1>5. \A s \in Others : Reset(s) \in Others
  OBVIOUS
<1> HIDE DEF Reset
<1>6. QED
  BY <1>1, <1>2, <1>3, <1>4, <1>5, StageLemma DEF Others

\* What a visit can do to the stage.
LEMMA EntryStepStages ==
  ASSUME TypeOK, NEW e \in Entries, EntryStep(e)
  PROVE  LET from == SavingStage(state[e])
             to   == SavingStage(state'[e])
         IN  /\ from > 0 /\ to = 0 => NOTIFYING_ISSUED_SAVED(e) \/ READING_CERT(e)
             /\ to > 1 => from \in {to - 1, to}
             /\ from > 1 /\ to > 0 => to >= from
<1> USE DEF TypeOK, Moves, Visit, Becomes, TryAgain, HangsOut, Notifies, SavingStage,
    SavingTheCert, SavingTheCACerts, ReadingItBack, AnnouncingIt
<1>1. CASE Parks(e)
  BY <1>1 DEF Parks
<1>2. CASE ~Parks(e)
  BY <1>2 DEF EntryStep,
     NEED_KEY_PAIR, GENERATING_KEY_PAIR, HAVE_KEY_PAIR, NEED_KEYINFO,
     READING_KEYINFO, HAVE_KEYINFO, NEED_CSR, GENERATING_CSR, HAVE_CSR,
     NEED_TO_SUBMIT, NEED_SCEP_DATA, GENERATING_SCEP_DATA, HAVE_SCEP_DATA,
     SUBMITTING, CA_WORKING, CA_UNREACHABLE, NEED_TO_SAVE_CERT, PRE_SAVE_CERT,
     START_SAVING_CERT, SAVING_CERT, SAVED_CERT, NEED_TO_SAVE_CA_CERTS,
     START_SAVING_CA_CERTS, SAVING_CA_CERTS, NEED_TO_READ_CERT, READING_CERT,
     POST_SAVED_CERT, NEED_TO_SAVE_ONLY_CA_CERTS, START_SAVING_ONLY_CA_CERTS,
     SAVING_ONLY_CA_CERTS, MONITORING, NEED_TO_NOTIFY_VALIDITY,
     NOTIFYING_VALIDITY, NEED_TO_NOTIFY_REJECTION, NOTIFYING_REJECTION,
     NEED_TO_NOTIFY_ISSUED_SAVE_FAILED, NOTIFYING_ISSUED_SAVE_FAILED,
     NEED_TO_NOTIFY_ISSUED_SAVED, NOTIFYING_ISSUED_SAVED,
     NEED_TO_NOTIFY_ISSUED_CA_SAVE_FAILED, NOTIFYING_ISSUED_CA_SAVE_FAILED,
     NEED_TO_NOTIFY_ONLY_CA_SAVE_FAILED, NOTIFYING_ONLY_CA_SAVE_FAILED,
     NEWLY_ADDED, NEWLY_ADDED_START_READING_KEYINFO,
     NEWLY_ADDED_READING_KEYINFO, NEWLY_ADDED_START_READING_CERT,
     NEWLY_ADDED_READING_CERT, NEWLY_ADDED_DECIDING
<1>3. QED
  BY <1>1, <1>2

\* A step of the daemon visits a request, gives it a new start because the
\* user asks for a new certificate, rewinds it, or leaves its state alone.
LEMMA RequestStep ==
  ASSUME LockInv, [Next]_vars, NEW e \in managed
  PROVE  \/ EntryStep(e)
         \/ RequestResubmit(e) \/ RequestRekey(e)
         \/ state'[e] \in {state[e], Reset(state[e]), Reset(Reset(state[e]))}
<1> USE DEF LockInv, TypeOK
<1>0. e \in Entries /\ e \in stored
  OBVIOUS
<1>1. ASSUME NEW f \in Entries, EntryStep(f)
      PROVE  EntryStep(e) \/ state'[e] = state[e]
  <2>1. state' = state \/ \E t : state' = [state EXCEPT ![f] = t]
    BY <1>1, EntryStepShape DEF Parks, Becomes
  <2>2. QED
    BY <1>0, <1>1, <2>1
<1>2. ASSUME NEW f \in Entries, Handler(f) \/ RestartEntry(f), e # f
      PROVE  state'[e] = state[e]
  BY <1>2, <1>0 DEF Handler, AddRequest, RemoveRequest, RequestModify, RequestRefresh,
     RequestResubmit, RequestRekey, RestartEntry, StopAndStart, Stop
<1>3. ASSUME ~RequestResubmit(e), ~RequestRekey(e), Handler(e) \/ RestartEntry(e)
      PROVE  state'[e] \in {Reset(state[e]), Reset(Reset(state[e]))}
  BY <1>0, <1>3 DEF Handler, AddRequest, RemoveRequest, RequestModify, RequestRefresh,
     RestartEntry, StopAndStart, Stop
<1>4. CASE Crash \/ ShutdownAndRestart
  BY <1>0, <1>4 DEF Crash, ShutdownAndRestart, Boot
<1>5. CASE NetlinkDelayed \/ (\E S \in SUBSET managed : RestartEntriesByCA(S))
           \/ UNCHANGED vars
  BY <1>5 DEF NetlinkDelayed, RestartEntriesByCA, vars, entryVars
<1>6. QED
  BY <1>1, <1>2, <1>3, <1>4, <1>5 DEF Next

\* What a step can do to the stage that the saving of a request has reached.
LEMMA RequestStepStages ==
  ASSUME LockInv, [Next]_vars, NEW e \in managed
  PROVE  LET from == SavingStage(state[e])
             to   == SavingStage(state'[e])
         IN  /\ from > 0 /\ to = 0
                  => \/ NOTIFYING_ISSUED_SAVED(e) \/ READING_CERT(e)
                     \/ RequestResubmit(e) \/ RequestRekey(e)
             /\ to > 1 => from \in {to - 1, to}
             /\ from > 1 /\ to > 0 => to >= from
<1> USE DEF LockInv, TypeOK
<1>0. e \in Entries /\ state[e] \in States
  OBVIOUS
<1>1. CASE EntryStep(e)
  BY <1>0, <1>1, EntryStepStages
<1>2. CASE RequestResubmit(e) \/ RequestRekey(e)
  <2>1. state'[e] \in {"NEED_KEY_PAIR", "HAVE_KEYINFO"}
    BY <1>0, <1>2 DEF RequestResubmit, RequestRekey, StopAndStart, Stop, Reset,
       InterruptedSubmission, InterruptedReading, InterruptedTelling
  <2>2. SavingStage(state'[e]) = 0
    BY <2>1 DEF SavingStage, SavingTheCert, SavingTheCACerts, ReadingItBack,
                AnnouncingIt
  <2>3. QED
    BY <1>2, <2>2, StageLemma
<1>3. CASE state'[e] \in {state[e], Reset(state[e]), Reset(Reset(state[e]))}
  <2>1. SavingStage(state'[e]) = SavingStage(state[e])
    BY <1>0, <1>3, ResetLemma, ResetKeepsStage
  <2>2. QED
    BY <2>1, StageLemma
<1>4. QED
  BY <1>1, <1>2, <1>3, RequestStep

\* However the daemon and the request are restarted, a certificate that is
\* being saved is not forgotten before it has been announced.
THEOREM SavingAlwaysSurvives == Spec => SavingSurvivesRestart
<1>1. LockInv /\ [Next]_vars
        => [\A e \in managed :
              SavingStage(state[e]) > 0 /\ SavingStage(state'[e]) = 0
                => \/ NOTIFYING_ISSUED_SAVED(e) \/ READING_CERT(e)
                   \/ RequestResubmit(e) \/ RequestRekey(e)]_vars
  BY RequestStepStages
<1>2. QED
  BY <1>1, LockInvariant, PTL DEF Spec, SavingSurvivesRestart

\* The stages of the saving come in order.
THEOREM StagesComeInOrder == Spec => StagesInOrder
<1>1. LockInv /\ [Next]_vars
        => [\A e \in managed :
              LET from == SavingStage(state[e])
                  to   == SavingStage(state'[e])
              IN  /\ to > 1 => from \in {to - 1, to}
                  /\ from > 1 /\ to > 0 => to >= from]_vars
  BY RequestStepStages
<1>2. QED
  BY <1>1, LockInvariant, PTL DEF Spec, StagesInOrder

=============================================================================
