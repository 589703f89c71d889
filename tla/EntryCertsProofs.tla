-------------------------- MODULE EntryCertsProofs --------------------------
(***************************************************************************)
(* Proofs about what the requests work with, for any number of requests.   *)
(***************************************************************************)
EXTENDS EntryCerts, EntryHelpers, EntryIterateProofs

-----------------------------------------------------------------------------
(***************************************************************************)
(* Certificates: there is one in hand where one is needed, and what is     *)
(* saved and announced is what the CA has issued last, for any number of   *)
(* certificates.                                                           *)
(***************************************************************************)
USE MaxIssuedAssumption

CertTypeOK ==
  /\ cert \in [Entries -> Certs]
  /\ disk \in [Entries -> Certs]
  /\ issued \in [Entries -> Certs]
  /\ late \in [Entries -> SUBSET Certs]
  /\ disturbed \in [Entries -> BOOLEAN]

\* The certificate in the entry is watched, or the CA's are saved next to it.
WatchedStates ==
  {"MONITORING", "NEED_TO_NOTIFY_VALIDITY", "NOTIFYING_VALIDITY",
   "NEED_TO_SAVE_ONLY_CA_CERTS", "START_SAVING_ONLY_CA_CERTS",
   "SAVING_ONLY_CA_CERTS", "NEED_ONLY_CA_CERT_SAVE_PERMS",
   "NEED_TO_NOTIFY_ONLY_CA_SAVE_FAILED", "NOTIFYING_ONLY_CA_SAVE_FAILED"}

NeedsCert(s) == SavingStage(s) > 0 \/ s \in WatchedStates

\* What is to be shown of a request, for one that was removed while its file
\* could not be deleted as well: it comes back with the next start.
HasNeededCert(e) == NeedsCert(state[e]) => cert[e] # 0

\* An undisturbed save has no forgotten helper at its side.
SavesTheNewest(e) ==
  SavingStage(state[e]) > 0 /\ ~disturbed[e]
    => /\ cert[e] = issued[e] /\ late[e] = {}
       /\ SavingStage(state[e]) > 1 => disk[e] = issued[e]

CertInv ==
  /\ CertTypeOK
  /\ \A e \in stored : HasNeededCert(e) /\ SavesTheNewest(e)

-----------------------------------------------------------------------------
\* With its certificates, a request does nothing that it does not do without.
LEMMA CertsStepIsStep == [CertsNext]_allVars => [Next]_vars
BY DEF CertsNext, allVars, LateSave, Next, Handler

\* Following the certificates adds nothing to what the requests can do: each
\* step of cm_iterate_entry here is one of EntryIterate.
THEOREM CertsImplyEntries == CertsSpec => Spec
<1>1. CertsInit => Init
  BY DEF CertsInit
<1>2. QED
  BY <1>1, CertsStepIsStep, PTL DEF CertsSpec, Spec

\* Rewinding a state does not change whether it needs a certificate.
LEMMA ResetKeepsNeed ==
  \A s \in States : Reset(s) \in States /\ (NeedsCert(Reset(s)) <=> NeedsCert(s))
<1>1. \A s \in WatchedStates : Reset(s) \in WatchedStates
  BY DEF Reset, InterruptedSubmission, InterruptedReading, InterruptedTelling,
         WatchedStates
<1>2. \A s \in States \ WatchedStates : Reset(s) \in States \ WatchedStates
  BY DEF Reset, InterruptedSubmission, InterruptedReading, InterruptedTelling,
         WatchedStates, States, HelperStates, StuckStates, PassingStates
<1>3. QED
  BY <1>1, <1>2, ResetLemma, ResetKeepsStage DEF NeedsCert

\* How a visit comes to a state that needs a certificate, and to each stage of
\* the saving.
LEMMA EntryStepNeeds ==
  ASSUME TypeOK, NEW e \in Entries, EntryStep(e)
  PROVE  LET s == state[e]
             t == state'[e]
         IN  /\ t \in WatchedStates
                  => \/ NeedsCert(s)
                     \/ s = "SUBMITTING" /\ t = "MONITORING"
                     \/ s = "NEWLY_ADDED_DECIDING"
                        /\ t \in {"MONITORING", "NEED_TO_SAVE_ONLY_CA_CERTS"}
             /\ SavingStage(t) = 1
                  => \/ SavingStage(s) = 1
                     \/ s = "SUBMITTING" /\ t = "NEED_TO_SAVE_CERT"
             /\ SavingStage(t) > 1 /\ SavingStage(s) <= 1
                  => s = "SAVING_CERT" /\ t = "SAVED_CERT"
             /\ s = "READING_CERT"
                  => t = "NEED_GUIDANCE" \/ SavingStage(t) = 4
<1> USE DEF TypeOK, Moves, Visit, Becomes, TryAgain, HangsOut, Notifies,
            NeedsCert, WatchedStates, SavingStage, SavingTheCert,
            SavingTheCACerts, ReadingItBack, AnnouncingIt
<1>1. CASE Parks(e)
  BY <1>1 DEF Parks, StuckStates
<1>2. CASE ~Parks(e)
  BY <1>2 DEF EntryStep,
     NEED_KEY_PAIR, GENERATING_KEY_PAIR, HAVE_KEY_PAIR, NEED_KEYINFO,
     READING_KEYINFO, HAVE_KEYINFO, NEED_CSR, GENERATING_CSR, HAVE_CSR,
     NEED_TO_SUBMIT, NEED_SCEP_DATA, GENERATING_SCEP_DATA, HAVE_SCEP_DATA,
     SUBMITTING, CA_WORKING, CA_UNREACHABLE, NEED_TO_SAVE_CERT, PRE_SAVE_CERT,
     START_SAVING_CERT, SAVING_CERT, SAVED_CERT, NEED_TO_SAVE_CA_CERTS,
     START_SAVING_CA_CERTS, SAVING_CA_CERTS, NEED_TO_READ_CERT, READING_CERT,
     POST_SAVED_CERT, NEED_TO_SAVE_ONLY_CA_CERTS, START_SAVING_ONLY_CA_CERTS,
     SAVING_ONLY_CA_CERTS, MONITORING, NEED_TO_NOTIFY_VALIDITY,
     NOTIFYING_VALIDITY, NEED_TO_NOTIFY_REJECTION, NOTIFYING_REJECTION,
     NEED_TO_NOTIFY_ISSUED_SAVE_FAILED, NOTIFYING_ISSUED_SAVE_FAILED,
     NEED_TO_NOTIFY_ISSUED_SAVED, NOTIFYING_ISSUED_SAVED,
     NEED_TO_NOTIFY_ISSUED_CA_SAVE_FAILED, NOTIFYING_ISSUED_CA_SAVE_FAILED,
     NEED_TO_NOTIFY_ONLY_CA_SAVE_FAILED, NOTIFYING_ONLY_CA_SAVE_FAILED,
     NEWLY_ADDED, NEWLY_ADDED_START_READING_KEYINFO,
     NEWLY_ADDED_READING_KEYINFO, NEWLY_ADDED_START_READING_CERT,
     NEWLY_ADDED_READING_CERT, NEWLY_ADDED_DECIDING
<1>3. QED
  BY <1>1, <1>2

\* What a request is shown to have depends on nothing of the others.
LEMMA OthersKeepCerts ==
  ASSUME CertInv, NEW f \in stored,
         UNCHANGED <<state[f], cert[f], disk[f], issued[f], late[f], disturbed[f]>>
  PROVE  HasNeededCert(f)' /\ SavesTheNewest(f)'
BY DEF CertInv, HasNeededCert, SavesTheNewest

\* A visit: the submission brings the newest certificate, saving puts it in
\* place, reading finds it there.
LEMMA CertVisitLemma ==
  ASSUME LockInv, CertInv, NEW e \in Entries, EntryStep(e), CertVisit(e)
  PROVE  CertInv'
<1> DEFINE s == state[e]
           t == state'[e]
<1>0. /\ e \in stored /\ stored' = stored
      /\ s \in States
      /\ \A f \in Entries \ {e} : state'[f] = state[f]
  <2>1. state' = state \/ \E x : state' = [state EXCEPT ![e] = x]
    BY EntryStepShape DEF Parks, Becomes
  <2>2. QED
    BY <2>1, EntryStepShape DEF Visit, LockInv, TypeOK
<1>1. CertTypeOK'
  <2> USE DEF CertInv, CertTypeOK, Certs
  <2>1. CASE Submitted(e)
    <3>1. issued' \in [Entries -> 0..MaxIssued]
      BY <2>1 DEF Submitted
    <3>2. cert' \in [Entries -> 0..MaxIssued]
      BY <2>1, <3>1 DEF Submitted
    <3>3. disturbed' \in [Entries -> BOOLEAN]
      BY <2>1 DEF Submitted
    <3>4. QED
      BY <2>1, <3>1, <3>2, <3>3 DEF Submitted
  <2>2. CASE Saved(e)
    BY <2>2 DEF Saved, Written
  <2>3. CASE Reread(e) \/ FirstRead(e)
    BY <2>3 DEF Reread, FirstRead, ReadBack
  <2>4. CASE UNCHANGED certVars
    BY <2>4 DEF certVars
  <2>5. QED
    BY <2>1, <2>2, <2>3, <2>4 DEF CertVisit, Decided
<1>2. \A f \in stored \ {e} :
        UNCHANGED <<state[f], cert[f], disk[f], issued[f], late[f], disturbed[f]>>
  <2> USE DEF CertInv, CertTypeOK, LockInv, TypeOK
  <2>1. CASE Submitted(e)
    BY <1>0, <2>1 DEF Submitted
  <2>2. CASE Saved(e)
    BY <1>0, <2>2 DEF Saved
  <2>3. CASE Reread(e) \/ FirstRead(e)
    BY <1>0, <2>3 DEF Reread, FirstRead
  <2>4. CASE UNCHANGED certVars
    BY <1>0, <2>4 DEF certVars
  <2>5. QED
    BY <2>1, <2>2, <2>3, <2>4 DEF CertVisit, Decided
<1>3. HasNeededCert(e)' /\ SavesTheNewest(e)'
  <2> USE DEF CertInv, CertTypeOK
  <2>0. /\ HasNeededCert(e) /\ SavesTheNewest(e)
        /\ cert[e] \in Certs /\ issued[e] \in Certs /\ disk[e] \in Certs
    BY <1>0
  <2>1. CASE s = "SUBMITTING" /\ Submitted(e)
    <3>1. SavingStage(t) <= 1 /\ (SavingStage(t) = 1 => t = "NEED_TO_SAVE_CERT")
      BY <2>1, StageLemma, EntryStepNeeds, EntryStepStages
      DEF LockInv, SavingStage, SavingTheCert, SavingTheCACerts, ReadingItBack,
          AnnouncingIt
    <3>2. CASE t = "NEED_TO_SAVE_CERT"
      <4>1. /\ issued'[e] = issued[e] + 1 /\ cert'[e] = issued'[e]
            /\ late' = late /\ (~disturbed'[e] => late[e] = {})
        BY <2>1, <3>2 DEF Submitted
      <4>2. cert'[e] # 0 /\ ~(SavingStage(t) > 1)
        BY <2>0, <3>1, <4>1, StageLemma DEF Certs
      <4>3. QED
        BY <4>1, <4>2 DEF HasNeededCert, SavesTheNewest
    <3>3. CASE t # "NEED_TO_SAVE_CERT"
      <4>1. SavingStage(t) = 0
        BY <3>1, <3>3, StageLemma
      <4>2. t \in WatchedStates => t = "MONITORING"
        BY <2>1, EntryStepNeeds
        DEF LockInv, NeedsCert, SavingStage, SavingTheCert, SavingTheCACerts,
            ReadingItBack, AnnouncingIt, WatchedStates
      <4>3. QED
        BY <2>0, <2>1, <3>3, <4>1, <4>2
        DEF Submitted, HasNeededCert, SavesTheNewest, NeedsCert
    <3>4. QED
      BY <3>2, <3>3
  <2>2. CASE s = "SAVING_CERT" /\ Saved(e)
    <3>1. NeedsCert(s) /\ SavingStage(s) = 1
      BY <2>2, StageLemma DEF NeedsCert, SavingTheCert
    <3>2. /\ UNCHANGED <<cert[e], issued[e], late[e], disturbed[e]>>
          /\ t = "SAVED_CERT" => disk'[e] = cert[e]
      BY <2>2 DEF Saved
    <3>3. SavingStage(t) > 1 => t = "SAVED_CERT"
      BY <3>1, EntryStepNeeds DEF LockInv
    <3>4. QED
      BY <2>0, <3>1, <3>2, <3>3 DEF HasNeededCert, SavesTheNewest
  <2>3. CASE s = "READING_CERT" /\ Reread(e)
    <3>1. SavingStage(s) = 3
      BY <2>3, StageLemma DEF ReadingItBack
    <3>2. CASE t = "NEED_GUIDANCE"
      <4>1. ~NeedsCert(t) /\ ~(SavingStage(t) > 0)
        BY <3>2 DEF NeedsCert, SavingStage, SavingTheCert, SavingTheCACerts,
                    ReadingItBack, AnnouncingIt, WatchedStates
      <4>2. QED
        BY <4>1 DEF HasNeededCert, SavesTheNewest
    <3>3. CASE t # "NEED_GUIDANCE"
      <4>1. /\ UNCHANGED <<disk[e], issued[e], late[e], disturbed[e]>>
            /\ disk[e] # 0 /\ cert'[e] = disk[e]
        BY <2>3, <3>3 DEF Reread
      <4>2. QED
        BY <2>0, <3>1, <4>1 DEF HasNeededCert, SavesTheNewest
    <3>4. QED
      BY <3>2, <3>3
  <2>4. CASE s \notin {"SUBMITTING", "SAVING_CERT", "READING_CERT"}
    <3>0. SavingStage(s) \in 0..4 /\ SavingStage(t) \in 0..4
      BY StageLemma
    <3>1. /\ SavingStage(t) > 0 => SavingStage(s) > 0
          /\ SavingStage(t) > 1 => SavingStage(s) > 1
          /\ t \in WatchedStates
               => \/ NeedsCert(s)
                  \/ s = "NEWLY_ADDED_DECIDING"
                     /\ t \in {"MONITORING", "NEED_TO_SAVE_ONLY_CA_CERTS"}
      BY <2>4, <3>0, EntryStepNeeds DEF LockInv
    <3>2. CASE s = "NEWLY_ADDED_READING_CERT" /\ FirstRead(e)
      <4>1. ~NeedsCert(s) /\ ~(SavingStage(s) > 0)
        BY <3>2 DEF NeedsCert, SavingStage, SavingTheCert, SavingTheCACerts,
                    ReadingItBack, AnnouncingIt, WatchedStates
      <4>2. QED
        BY <3>1, <3>2, <4>1 DEF HasNeededCert, SavesTheNewest, NeedsCert
    <3>3. CASE s = "NEWLY_ADDED_DECIDING" /\ Decided(e)
      BY <2>0, <3>1, <3>3
      DEF Decided, certVars, HasNeededCert, SavesTheNewest, NeedsCert
    <3>4. CASE s \notin Effects /\ UNCHANGED certVars
      BY <2>0, <3>1, <3>4
      DEF Effects, certVars, HasNeededCert, SavesTheNewest, NeedsCert
    <3>5. QED
      BY <2>4, <3>2, <3>3, <3>4 DEF CertVisit
  <2>5. QED
    BY <2>1, <2>2, <2>3, <2>4 DEF CertVisit, Effects
<1>4. QED
  BY <1>0, <1>1, <1>2, <1>3, OthersKeepCerts DEF CertInv

\* Where a request can be after it was stopped, or the daemon was.
Rewound(s) == {s, Reset(s), Reset(Reset(s))}
              \cup {Reset("NEED_KEY_PAIR"), Reset("NEED_CSR")}

\* There it is as far as it was, or not saving at all, and needs no
\* certificate that it did not need before.
LEMMA RewoundLemma ==
  \A s \in States : \A t \in Rewound(s) :
    /\ t \in States
    /\ NeedsCert(t) => NeedsCert(s)
    /\ SavingStage(t) \in {0, SavingStage(s)}
<1>1. /\ {"NEED_KEY_PAIR", "NEED_CSR"} \subseteq States
      /\ \A x \in {"NEED_KEY_PAIR", "NEED_CSR"} : ~NeedsCert(x) /\ SavingStage(x) = 0
  BY DEF States, PassingStates, NeedsCert, SavingStage, SavingTheCert,
         SavingTheCACerts, ReadingItBack, AnnouncingIt, WatchedStates
<1>2. QED
  BY <1>1, ResetKeepsNeed, ResetKeepsStage DEF Rewound

\* Stopping a request disturbs the saving of its certificate, and nothing
\* that is already in place; reading what is in place, when the request is
\* started again, gives the certificate that it had.
LEMMA RewoundKeepsCerts ==
  ASSUME CertInv, NEW e \in stored, state[e] \in States, e \in Entries,
         state'[e] \in Rewound(state[e]),
         NEW o \in CutShort(e), disk'[e] = o[1], late'[e] \in {o[2], {}},
         ~disturbed'[e] => ~disturbed[e] /\ ~BeingSaved(e),
         issued'[e] = issued[e],
         cert'[e] \in ReadBack(cert[e], disk'[e])
  PROVE  HasNeededCert(e)' /\ SavesTheNewest(e)'
<1> DEFINE s == state[e]
           t == state'[e]
<1>0. HasNeededCert(e) /\ SavesTheNewest(e)
  BY DEF CertInv
<1>1. /\ NeedsCert(t) => NeedsCert(s)
      /\ SavingStage(t) \in {0, SavingStage(s)} /\ SavingStage(s) \in 0..4
  BY RewoundLemma, StageLemma
<1>2. HasNeededCert(e)'
  BY <1>0, <1>1 DEF HasNeededCert, ReadBack
<1>3. SavesTheNewest(e)'
  <2> SUFFICES ASSUME SavingStage(t) > 0, ~disturbed'[e]
               PROVE  /\ cert'[e] = issued'[e] /\ late'[e] = {}
                      /\ SavingStage(t) > 1 => disk'[e] = issued'[e]
    BY DEF SavesTheNewest
  <2>1. SavingStage(s) > 1 /\ ~disturbed[e]
    BY <1>1 DEF BeingSaved
  <2>2. cert[e] = issued[e] /\ late[e] = {} /\ disk[e] = issued[e]
    BY <1>0, <1>1, <2>1 DEF SavesTheNewest
  <2>3. s # "SAVING_CERT"
    BY <2>1, StageLemma DEF SavingTheCert
  <2>4. o = <<disk[e], late[e]>>
    BY <2>3 DEF CutShort
  <2>5. QED
    BY <2>2, <2>4 DEF ReadBack
<1>4. QED
  BY <1>2, <1>3

\* What stopping a request leaves is of the right types.
LEMMA CutShortTypes ==
  ASSUME CertTypeOK, NEW e \in Entries
  PROVE  CutShort(e) \subseteq Certs \X SUBSET Certs
BY DEF CertTypeOK, CutShort, Written, Certs

\* Stopping, and starting again or not.
LEMMA CertStopLemma ==
  ASSUME LockInv, CertInv, NEW e \in managed, NEW s \in Rewound(state[e]),
         Stop(e, s), stored' \in {stored, stored \ {e}}, CertStop(e),
         UNCHANGED cert \/ \E c \in ReadBack(cert[e], disk'[e]) :
                             cert' = [cert EXCEPT ![e] = c]
  PROVE  CertInv'
<1>0. e \in stored /\ e \in Entries /\ stored \subseteq Entries /\ state[e] \in States
  BY DEF LockInv, TypeOK
<1>1. PICK o \in CutShort(e) : /\ disk' = [disk EXCEPT ![e] = o[1]]
                               /\ late' = [late EXCEPT ![e] = o[2]]
  BY DEF CertStop
<1>2. o[1] \in Certs /\ o[2] \in SUBSET Certs
  BY <1>0, <1>1, CutShortTypes DEF CertInv
<1>3. CertTypeOK'
  BY <1>0, <1>1, <1>2 DEF CertStop, CertInv, CertTypeOK, ReadBack, Certs
<1>4. ASSUME NEW f \in stored \ {e}
      PROVE  HasNeededCert(f)' /\ SavesTheNewest(f)'
  <2>1. UNCHANGED <<state[f], cert[f], disk[f], issued[f], late[f], disturbed[f]>>
    BY <1>0, <1>1, <1>4 DEF Stop, CertStop, CertInv, CertTypeOK, LockInv, TypeOK
  <2>2. QED
    BY <1>4, <2>1, OthersKeepCerts
<1>5. HasNeededCert(e)' /\ SavesTheNewest(e)'
  <2>1. state'[e] = s
    BY <1>0 DEF Stop, LockInv, TypeOK
  <2>2. /\ disk'[e] = o[1] /\ late'[e] = o[2] /\ issued' = issued
        /\ ~disturbed'[e] => ~disturbed[e] /\ ~BeingSaved(e)
        /\ cert'[e] \in ReadBack(cert[e], disk'[e])
    BY <1>0, <1>1 DEF CertStop, CertInv, CertTypeOK, ReadBack
  <2>3. QED
    BY <1>0, <1>1, <2>1, <2>2, RewoundKeepsCerts
<1>6. QED
  BY <1>3, <1>4, <1>5 DEF CertInv

\* A new request needs no certificate, and the others keep theirs.
LEMMA CertAddLemma ==
  ASSUME LockInv, CertInv, NEW e \in Entries, AddRequest(e), CertAdd(e)
  PROVE  CertInv'
<1>1. /\ e \notin stored /\ stored' = stored \cup {e}
      /\ state' = [state EXCEPT ![e] = "NEWLY_ADDED"]
  BY DEF AddRequest
<1>2. CertTypeOK'
  BY DEF CertAdd, CertInv, CertTypeOK, ReadBack, Certs
<1>3. ASSUME NEW f \in stored
      PROVE  HasNeededCert(f)' /\ SavesTheNewest(f)'
  <2>1. UNCHANGED <<state[f], cert[f], disk[f], issued[f], late[f], disturbed[f]>>
    BY <1>1, <1>3 DEF CertAdd, CertInv, CertTypeOK, LockInv, TypeOK
  <2>2. QED
    BY <1>3, <2>1, OthersKeepCerts
<1>4. HasNeededCert(e)' /\ SavesTheNewest(e)'
  <2>1. state'[e] = "NEWLY_ADDED"
    BY <1>1 DEF LockInv, TypeOK
  <2>2. ~NeedsCert(state'[e]) /\ ~(SavingStage(state'[e]) > 0)
    BY <2>1 DEF NeedsCert, SavingStage, SavingTheCert, SavingTheCACerts,
                ReadingItBack, AnnouncingIt, WatchedStates
  <2>3. QED
    BY <2>2 DEF HasNeededCert, SavesTheNewest
<1>5. QED
  BY <1>1, <1>2, <1>3, <1>4 DEF CertInv

\* A forgotten helper writes next to no undisturbed save.
LEMMA LateSaveLemma ==
  ASSUME LockInv, CertInv, NEW e \in Entries, LateSave(e)
  PROVE  CertInv'
<1>1. PICK c \in late[e] :
        \/ disk' = [disk EXCEPT ![e] = 0] /\ UNCHANGED late
        \/ /\ \E d \in Written(disk[e], c) : disk' = [disk EXCEPT ![e] = d]
           /\ late' = [late EXCEPT ![e] = @ \ {c}]
  BY DEF LateSave
<1>2. UNCHANGED <<state, stored, cert, issued, disturbed>>
  BY DEF LateSave, vars, entryVars
<1>3. CertTypeOK'
  BY <1>1, <1>2 DEF CertInv, CertTypeOK, Written, Certs
<1>4. ASSUME NEW f \in stored
      PROVE  HasNeededCert(f)' /\ SavesTheNewest(f)'
  <2>1. HasNeededCert(f) /\ SavesTheNewest(f)
    BY <1>4 DEF CertInv
  <2>2. f # e => disk'[f] = disk[f] /\ late'[f] = late[f]
    BY <1>1, <1>4 DEF CertInv, CertTypeOK, LockInv, TypeOK
  <2>3. QED
    BY <1>1, <1>2, <2>1, <2>2 DEF HasNeededCert, SavesTheNewest
<1>5. QED
  BY <1>2, <1>3, <1>4 DEF CertInv

\* A new start of the daemon stops and starts every request that has a file.
LEMMA CertBootLemma ==
  ASSUME LockInv, CertInv, Crash \/ ShutdownAndRestart, CertBoot
  PROVE  CertInv'
<1>1. CertTypeOK'
  BY DEF CertBoot, CertInv, CertTypeOK
<1>2. ASSUME NEW e \in stored
      PROVE  HasNeededCert(e)' /\ SavesTheNewest(e)'
  <2>1. e \in Entries /\ state[e] \in States
    BY <1>2 DEF LockInv, TypeOK
  <2>2. state'[e] \in Rewound(state[e])
    BY <2>1 DEF Crash, ShutdownAndRestart, Boot, Rewound
  <2>3. PICK o \in CutShort(e) : disk'[e] = o[1] /\ late'[e] \in {o[2], {}}
    BY <2>1 DEF CertBoot
  <2>4. /\ cert'[e] \in ReadBack(cert[e], disk'[e])
        /\ ~disturbed'[e] => ~disturbed[e] /\ ~BeingSaved(e)
        /\ issued'[e] = issued[e]
    BY <1>2, <2>1 DEF CertBoot
  <2>5. QED
    BY <1>2, <2>1, <2>2, <2>3, <2>4, RewoundKeepsCerts
<1>3. stored' = stored
  BY DEF Crash, ShutdownAndRestart, Boot
<1>4. QED
  BY <1>1, <1>2, <1>3 DEF CertInv

\* Every step of the daemon, its helpers and the CA preserves the invariant.
LEMMA CertsNextLemma == LockInv /\ CertInv /\ [CertsNext]_allVars => CertInv'
<1> SUFFICES ASSUME LockInv, CertInv, [CertsNext]_allVars
             PROVE  CertInv'
  OBVIOUS
<1>1. ASSUME NEW e \in Entries, RemoveRequest(e), CertStop(e), UNCHANGED cert
      PROVE  CertInv'
  BY <1>1, CertStopLemma DEF RemoveRequest, Stop, Rewound
<1>2. ASSUME NEW e \in Entries, CertRestart(e),
             RequestModify(e) \/ RequestRefresh(e) \/ RequestResubmit(e)
               \/ RequestRekey(e) \/ RestartEntry(e)
      PROVE  CertInv'
  <2>1. PICK s \in Rewound(state[e]) : Stop(e, s) /\ stored' = stored
    BY <1>2 DEF RequestModify, RequestRefresh, RequestResubmit, RequestRekey,
                RestartEntry, StopAndStart, Rewound
  <2>2. e \in managed
    BY <2>1 DEF Stop
  <2>3. QED
    BY <1>2, <2>1, <2>2, CertStopLemma DEF CertRestart
<1>3. CASE \/ NetlinkDelayed /\ UNCHANGED certVars
           \/ \E S \in SUBSET managed : RestartEntriesByCA(S) /\ UNCHANGED certVars
           \/ UNCHANGED allVars
  <2>1. UNCHANGED <<state, stored, cert, disk, issued, late, disturbed>>
    BY <1>3 DEF NetlinkDelayed, RestartEntriesByCA, allVars, vars, entryVars, certVars
  <2>2. QED
    BY <2>1, OthersKeepCerts DEF CertInv, CertTypeOK
<1>4. QED
  BY <1>1, <1>2, <1>3, CertVisitLemma, CertAddLemma, LateSaveLemma, CertBootLemma
  DEF CertsNext

\* There is no request at first.
LEMMA CertsInitLemma == CertsInit => CertInv
BY DEF CertsInit, Init, CertInv, CertTypeOK, Certs

\* A certificate that is saved, announced or watched is there.
THEOREM CertAlwaysInHand == CertsSpec => []CertInHand
<1>1. CertsSpec => []LockInv
  BY CertsImplyEntries, LockInvariant, PTL
<1>2. LockInv /\ CertInv => CertInHand
  BY DEF LockInv, TypeOK, CertInv, CertInHand, HasNeededCert, NeedsCert, WatchedStates
<1>3. QED
  BY <1>1, <1>2, CertsInitLemma, CertsNextLemma, PTL DEF CertsSpec

\* What is saved is the newest certificate, and when it is announced it is in
\* place, unless the first attempt to save it was disturbed.
THEOREM AlwaysSavesWhatWasIssued == CertsSpec => []SavesWhatWasIssued
<1>1. CertsSpec => []LockInv
  BY CertsImplyEntries, LockInvariant, PTL
<1>2. LockInv /\ CertInv => SavesWhatWasIssued
  BY DEF LockInv, TypeOK, CertInv, SavesWhatWasIssued, SavesTheNewest
<1>3. QED
  BY <1>1, <1>2, CertsInitLemma, CertsNextLemma, PTL DEF CertsSpec

-----------------------------------------------------------------------------
(***************************************************************************)
(* Helper processes: the task that a state waits for is there, and key     *)
(* pairs and CA certificates have one writer at a time, for any number of  *)
(* forgotten processes.                                                    *)
(***************************************************************************)
HelperTypeOK ==
  /\ tasks \in [Entries -> SUBSET TaskKinds]
  /\ running \subseteq Entries \X TaskKinds
  /\ orphans \subseteq Entries \X TaskKinds

\* A request that is not managed has no task.
NoTaskUnmanaged == \A e \in Entries \ managed : tasks[e] = {}

\* A process that is not forgotten is that of a task.
ProcessesHaveTasks == \A p \in running : p[2] \in tasks[p[1]]

\* A process that was waited for is not forgotten.
OrphansNotAwaited == \A p \in orphans : p[2] \notin AwaitedTasks

HelperInv ==
  /\ HelperTypeOK
  /\ TasksMatchState
  /\ NoTaskUnmanaged
  /\ ProcessesHaveTasks
  /\ OrphansNotAwaited

-----------------------------------------------------------------------------
\* With its helpers, a request does nothing that it does not do without them.
LEMMA HelpersStepIsStep == [HelpersNext]_helperAllVars => [Next]_vars
BY DEF HelpersNext, helperAllVars, HelperExits, OrphanExits, Next, Handler

\* Following the helper processes adds nothing to what the requests can do:
\* each step of cm_iterate_entry here is one of EntryIterate.
THEOREM HelpersImplyEntries == HelpersSpec => Spec
<1>1. HelpersInit => Init
  BY DEF HelpersInit
<1>2. QED
  BY <1>1, HelpersStepIsStep, PTL DEF HelpersSpec, Spec

\* A state waits for one task at most, and none that it can be rewound to
\* waits for any.
LEMMA TaskOfLemma ==
  /\ \A s : TaskOf(s) \subseteq TaskKinds
  /\ \A s : \A j, k \in TaskOf(s) : j = k
  /\ \A s \in States : TaskOf(Reset(s)) = {}
  /\ TaskOf("NEWLY_ADDED") = {}
<1>1. \A s : TaskOf(s) \subseteq TaskKinds /\ \A j, k \in TaskOf(s) : j = k
  BY DEF TaskOf, TaskKinds
<1>2. \A s \in States \ HelperStates : TaskOf(s) = {}
  BY DEF TaskOf, States, HelperStates, StuckStates, PassingStates
<1>3. \A s \in States : Reset(s) \in States \ HelperStates
  BY DEF Reset, InterruptedSubmission, InterruptedReading, InterruptedTelling,
         States, HelperStates, StuckStates, PassingStates
<1>4. "NEWLY_ADDED" \in States \ HelperStates
  BY DEF States, HelperStates, PassingStates
<1>5. QED
  BY <1>1, <1>2, <1>3, <1>4

\* A visit starts the task of the state that it leaves the request in, having
\* freed the one that it found.
LEMMA HelperVisitLemma ==
  ASSUME LockInv, HelperInv, NEW e \in Entries, EntryStep(e), HelperVisit(e)
  PROVE  HelperInv'
<1> USE DEF HelperInv, HelperTypeOK
<1> DEFINE old == TaskOf(state[e])
           new == TaskOf(state'[e])
<1>1. /\ tasks' = [tasks EXCEPT ![e] = (@ \ old) \cup new]
      /\ running' = running \cup Processes(e, new)
      /\ orphans' = orphans
      /\ Processes(e, old) \cap running = {}
  BY DEF HelperVisit
<1>2. /\ e \in managed /\ managed' = managed
      /\ \A f \in Entries \ {e} : state'[f] = state[f]
  <2>1. state' = state \/ \E t : state' = [state EXCEPT ![e] = t]
    BY EntryStepShape DEF Parks, Becomes
  <2>2. QED
    BY <2>1, EntryStepShape DEF Visit, LockInv, TypeOK
<1>3. tasks'[e] = new /\ \A f \in Entries \ {e} : tasks'[f] = tasks[f]
  BY <1>1, <1>2 DEF TasksMatchState
<1>4. HelperTypeOK'
  BY <1>1, TaskOfLemma DEF Processes
<1>5. TasksMatchState' /\ NoTaskUnmanaged'
  BY <1>2, <1>3 DEF TasksMatchState, NoTaskUnmanaged, LockInv, TypeOK
<1>6. ProcessesHaveTasks'
  <2> SUFFICES ASSUME NEW p \in running' PROVE p[2] \in tasks'[p[1]]
    BY DEF ProcessesHaveTasks
  <2>1. CASE p \in running /\ p[1] = e
    <3>1. p = <<e, p[2]>> /\ p[2] \in old
      BY <1>2, <2>1 DEF ProcessesHaveTasks, TasksMatchState
    <3>2. QED
      BY <1>1, <2>1, <3>1 DEF Processes
  <2>2. CASE p \in running /\ p[1] # e
    BY <1>3, <2>2 DEF ProcessesHaveTasks
  <2>3. CASE p \in Processes(e, new)
    BY <1>3, <2>3 DEF Processes
  <2>4. QED
    BY <1>1, <2>1, <2>2, <2>3
<1>7. OrphansNotAwaited'
  BY <1>1 DEF OrphansNotAwaited
<1>8. QED
  BY <1>4, <1>5, <1>6, <1>7

\* Stopping a request leaves it without tasks, in a state that needs none, and
\* forgets only processes that nobody waits for.
LEMMA HelperStopLemma ==
  ASSUME LockInv, HelperInv, NEW e \in Entries, NEW s \in States,
         Stop(e, Reset(s)), HelperStop(e), managed' \in {managed, managed \ {e}}
  PROVE  HelperInv'
<1> USE DEF HelperInv, HelperTypeOK
<1>1. /\ tasks' = [tasks EXCEPT ![e] = {}]
      /\ running' = running \ Processes(e, TaskKinds)
      /\ orphans' = orphans \cup (Processes(e, tasks[e] \ AwaitedTasks) \cap running)
  BY DEF HelperStop
<1>2. state' = [state EXCEPT ![e] = Reset(s)]
  BY DEF Stop
<1>3. HelperTypeOK'
  BY <1>1
<1>4. TasksMatchState' /\ NoTaskUnmanaged'
  BY <1>1, <1>2, TaskOfLemma DEF TasksMatchState, NoTaskUnmanaged, LockInv, TypeOK
<1>5. ProcessesHaveTasks'
  BY <1>1 DEF ProcessesHaveTasks, Processes
<1>6. OrphansNotAwaited'
  BY <1>1 DEF OrphansNotAwaited, Processes
<1>7. QED
  BY <1>3, <1>4, <1>5, <1>6

\* Every step of the daemon and its helpers preserves the invariant.
LEMMA HelpersNextLemma ==
  LockInv /\ HelperInv /\ [HelpersNext]_helperAllVars => HelperInv'
<1> SUFFICES ASSUME LockInv, HelperInv, [HelpersNext]_helperAllVars
             PROVE  HelperInv'
  OBVIOUS
<1> USE DEF HelperInv
<1>1. ASSUME NEW e \in Entries, AddRequest(e), UNCHANGED helperVars
      PROVE  HelperInv'
  <2>1. /\ e \notin managed /\ managed' = managed \cup {e}
        /\ state' = [state EXCEPT ![e] = "NEWLY_ADDED"]
        /\ UNCHANGED <<tasks, running, orphans>>
    BY <1>1 DEF AddRequest, helperVars, LockInv, TypeOK
  <2>2. /\ state'[e] = "NEWLY_ADDED" /\ tasks[e] = {}
        /\ \A f \in managed : f # e /\ state'[f] = state[f]
    BY <2>1 DEF NoTaskUnmanaged, LockInv, TypeOK
  <2>3. TasksMatchState' /\ NoTaskUnmanaged'
    BY <2>1, <2>2, TaskOfLemma DEF TasksMatchState, NoTaskUnmanaged
  <2>4. QED
    BY <2>1, <2>3 DEF HelperTypeOK, ProcessesHaveTasks, OrphansNotAwaited
<1>2. ASSUME NEW e \in Entries, HelperStop(e),
             RemoveRequest(e) \/ RequestModify(e) \/ RequestRefresh(e)
               \/ RequestResubmit(e) \/ RequestRekey(e) \/ RestartEntry(e)
      PROVE  HelperInv'
  <2>1. /\ state[e] \in States /\ Reset(state[e]) \in States
        /\ {"NEED_KEY_PAIR", "NEED_CSR"} \subseteq States
    BY ResetLemma DEF LockInv, TypeOK, States, PassingStates
  <2>2. /\ \E s \in States : Stop(e, Reset(s))
        /\ managed' \in {managed, managed \ {e}}
    BY <1>2, <2>1 DEF RemoveRequest, RequestModify, RequestRefresh, RequestResubmit,
                      RequestRekey, RestartEntry, StopAndStart
  <2>3. QED
    BY <1>2, <2>2, HelperStopLemma
<1>3. ASSUME NEW e \in Entries, HelperExits(e) \/ OrphanExits(e)
      PROVE  HelperInv'
  BY <1>3 DEF HelperExits, OrphanExits, vars, entryVars, HelperTypeOK, TasksMatchState,
     NoTaskUnmanaged, ProcessesHaveTasks, OrphansNotAwaited
<1>4. CASE \/ NetlinkDelayed /\ UNCHANGED helperVars
           \/ \E S \in SUBSET managed : RestartEntriesByCA(S) /\ UNCHANGED helperVars
           \/ UNCHANGED helperAllVars
  BY <1>4 DEF NetlinkDelayed, RestartEntriesByCA, helperAllVars, vars, entryVars, helperVars,
     HelperTypeOK, TasksMatchState, NoTaskUnmanaged, ProcessesHaveTasks,
     OrphansNotAwaited
<1>5. CASE (Crash \/ ShutdownAndRestart) /\ HelpersBoot
  <2>1. \A e \in Entries : TaskOf(state'[e]) = {}
    BY <1>5, ResetLemma, TaskOfLemma DEF Crash, ShutdownAndRestart, Boot, LockInv, TypeOK
  <2>2. managed' \subseteq Entries
    BY <1>5 DEF Crash, ShutdownAndRestart, Boot, LockInv, TypeOK
  <2>3. QED
    BY <1>5, <2>1, <2>2 DEF HelpersBoot, HelperTypeOK, TasksMatchState,
       NoTaskUnmanaged, ProcessesHaveTasks, OrphansNotAwaited
<1>6. QED
  BY <1>1, <1>2, <1>3, <1>4, <1>5, HelperVisitLemma DEF HelpersNext

\* At the start no request has a helper.
LEMMA HelpersInitLemma == HelpersInit => HelperInv
BY DEF HelpersInit, Init, HelperInv, HelperTypeOK, TasksMatchState, NoTaskUnmanaged,
       ProcessesHaveTasks, OrphansNotAwaited

\* Every case of cm_iterate_entry finds the task that it goes through without
\* a look, and no request has a task that its state does not look at.
THEOREM TasksAlwaysMatchState == HelpersSpec => []TasksMatchState
<1>1. HelpersSpec => []LockInv
  BY HelpersImplyEntries, LockInvariant, PTL
<1>2. HelperInv => TasksMatchState
  BY DEF HelperInv
<1>3. QED
  BY <1>1, <1>2, HelpersInitLemma, HelpersNextLemma, PTL DEF HelpersSpec

\* The lock, which a request has in every state that waits for a writer of
\* keys or of CA certificates, and the waiting for such processes when it is
\* stopped, keep two of them from running at once.
LEMMA OneWriterLemma == LockInv /\ HelperInv => KeysAndCACertsHaveOneWriter
<1> SUFFICES ASSUME LockInv, HelperInv,
                    NEW p \in running \cup orphans, NEW q \in running \cup orphans,
                    p[2] \in WriterTasks, q[2] \in WriterTasks
             PROVE  p = q
  BY DEF KeysAndCACertsHaveOneWriter
<1>1. p \in running /\ q \in running
  BY DEF HelperInv, OrphansNotAwaited, WriterTasks, AwaitedTasks
<1>2. \A r \in {p, q} : /\ r[1] \in managed /\ r[2] \in TaskOf(state[r[1]])
                        /\ r = <<r[1], r[2]>>
  BY <1>1 DEF HelperInv, HelperTypeOK, ProcessesHaveTasks, NoTaskUnmanaged,
              TasksMatchState
<1>3. \A s \in States : TaskOf(s) \cap WriterTasks # {} => s \in LockedStates
  BY DEF TaskOf, WriterTasks, LockedStates, States, HelperStates, StuckStates,
         PassingStates
<1>4. HasLock(p[1]) /\ HasLock(q[1])
  BY <1>2, <1>3 DEF LockInv, LockCoversWork, TypeOK
<1>5. p[1] = q[1]
  BY <1>4 DEF HasLock
<1>6. QED
  BY <1>2, <1>5, TaskOfLemma

\* Key pairs and CA certificates have one writer at a time, whatever is
\* stopped, restarted or removed while its helper is at work.
THEOREM OneWriterAtATime == HelpersSpec => []KeysAndCACertsHaveOneWriter
<1>1. HelpersSpec => []LockInv
  BY HelpersImplyEntries, LockInvariant, PTL
<1>2. QED
  BY <1>1, OneWriterLemma, HelpersInitLemma, HelpersNextLemma, PTL DEF HelpersSpec

=============================================================================
