----------------------------- MODULE EntryCerts -----------------------------
(***************************************************************************)
(* Which certificate is where, on top of EntryIterate.  A request has one  *)
(* certificate in its entry (cm_cert, saved to the store in the handler    *)
(* that changes it) and one in the file or database that the rest of the   *)
(* system uses.  The CA numbers the certificates it issues for a request   *)
(* from 1; 0 is no certificate.                                            *)
(***************************************************************************)
EXTENDS EntryIterate

CONSTANT MaxIssued    \* bound: certificates the CA issues for a request

ASSUME MaxIssuedAssumption == MaxIssued \in Nat \ {0}

VARIABLES
  cert,        \* cm_cert of the entry
  disk,        \* the certificate at cm_cert_storage_location
  issued,      \* the newest certificate that the CA has issued
  late,        \* certificates that forgotten helpers are still to write
  disturbed    \* history: the first save of the newest was interfered with

certVars == <<cert, disk, issued, late, disturbed>>
allVars  == <<vars, certVars>>

Certs == 0..MaxIssued

\* What the entry's certificate can be after cm_certread_done: a helper that
\* could not read one gave no output, and then the entry stays as it was.
ReadBack(c, d) == {c} \cup ({d} \ {0})

\* What a process that saves c leaves there if it fails: it opens the file,
\* which truncates it, and writes it, and can go wrong before, between, after.
Written(d, c) == {d, 0, c}

-----------------------------------------------------------------------------
(***************************************************************************)
(* What the visits do to the certificates.                                 *)
(***************************************************************************)

\* Mutant: "already had a certificate" is not looked at.
Submitted_AnyhowMonitored(e) ==
  /\ \/ /\ state'[e] = "NEED_TO_SAVE_CERT"
        /\ issued[e] < MaxIssued
        /\ issued' = [issued EXCEPT ![e] = @ + 1]
        /\ cert' = [cert EXCEPT ![e] = issued'[e]]
        /\ disturbed' = [disturbed EXCEPT ![e] = late[e] # {}]
     \/ /\ state'[e] # "NEED_TO_SAVE_CERT"
        /\ UNCHANGED <<cert, issued, disturbed>>
  /\ UNCHANGED <<disk, late>>

\* cm_submit_issued puts the certificate in the entry; a reply of "issued"
\* with something else for a certificate only takes the old one away.
Submitted(e) ==
  /\ \/ /\ state'[e] = "NEED_TO_SAVE_CERT"
        /\ issued[e] < MaxIssued
        /\ issued' = [issued EXCEPT ![e] = @ + 1]
        /\ cert' = [cert EXCEPT ![e] = issued'[e]]
        /\ disturbed' = [disturbed EXCEPT ![e] = late[e] # {}]
     \/ /\ state'[e] = "MONITORING" /\ cert[e] # 0
        /\ UNCHANGED <<cert, issued, disturbed>>
     \/ /\ state'[e] \in {"NEED_TO_NOTIFY_REJECTION", "CA_UNCONFIGURED"}
        /\ cert[e] = 0
        /\ UNCHANGED <<cert, issued, disturbed>>
     \/ /\ state'[e] = "NEED_GUIDANCE"
        /\ \E c \in {cert[e], 0} : cert' = [cert EXCEPT ![e] = c]
        /\ UNCHANGED <<issued, disturbed>>
     \/ /\ state'[e] \in {"CA_UNREACHABLE", "CA_WORKING", "NEED_SCEP_DATA",
                          "NEED_KEY_PAIR"}
        /\ UNCHANGED <<cert, issued, disturbed>>
  /\ UNCHANGED <<disk, late>>

\* Mutant: the exit status of the process that saves is not looked at.
Saved_Unchecked(e) ==
  /\ \E d \in Written(disk[e], cert[e]) : disk' = [disk EXCEPT ![e] = d]
  /\ UNCHANGED <<cert, issued, late, disturbed>>

\* The process wrote the certificate that the entry had when it was started,
\* which is the one it has: nothing else happens to it in SAVING_CERT.
Saved(e) ==
  /\ \/ state'[e] = "SAVED_CERT" /\ disk' = [disk EXCEPT ![e] = cert[e]]
     \/ /\ state'[e] # "SAVED_CERT"
        /\ \E d \in Written(disk[e], cert[e]) : disk' = [disk EXCEPT ![e] = d]
  /\ UNCHANGED <<cert, issued, late, disturbed>>

\* Reading succeeds only if there is a certificate to read.
Reread(e) ==
  /\ \/ state'[e] = "NEED_GUIDANCE" /\ UNCHANGED cert
     \/ /\ state'[e] # "NEED_GUIDANCE" /\ disk[e] # 0
        /\ cert' = [cert EXCEPT ![e] = disk[e]]
  /\ UNCHANGED <<disk, issued, late, disturbed>>

FirstRead(e) ==
  /\ \E c \in ReadBack(cert[e], disk[e]) : cert' = [cert EXCEPT ![e] = c]
  /\ UNCHANGED <<disk, issued, late, disturbed>>

\* "If we have a certificate in the expected location, we go straight to
\* monitoring it."
Decided(e) ==
  /\ cert[e] # 0 <=> state'[e] \in {"MONITORING", "NEED_TO_SAVE_ONLY_CA_CERTS"}
  /\ UNCHANGED certVars

Effects == {"SUBMITTING", "SAVING_CERT", "READING_CERT",
            "NEWLY_ADDED_READING_CERT", "NEWLY_ADDED_DECIDING"}

CertVisit(e) ==
  \/ state[e] = "SUBMITTING" /\ Submitted(e)
  \/ state[e] = "SAVING_CERT" /\ Saved(e)
  \/ state[e] = "READING_CERT" /\ Reread(e)
  \/ state[e] = "NEWLY_ADDED_READING_CERT" /\ FirstRead(e)
  \/ state[e] = "NEWLY_ADDED_DECIDING" /\ Decided(e)
  \/ state[e] \notin Effects /\ UNCHANGED certVars

-----------------------------------------------------------------------------
(***************************************************************************)
(* Stopping forgets the process that saves the certificate, wherever it    *)
(* has got to; starting reads the certificate, before anything else.       *)
(***************************************************************************)

\* The file and the certificates still to be written when e is stopped.
CutShort(e) ==
  IF state[e] = "SAVING_CERT"
  THEN {<<d, late[e]>> : d \in Written(disk[e], cert[e])}
         \cup {<<d, late[e] \cup {cert[e]}>> : d \in {disk[e], 0}}
  ELSE {<<disk[e], late[e]>>}

\* The newest certificate is not yet where it belongs.
BeingSaved(e) == SavingStage(state[e]) = 1

CertStop(e) ==
  /\ \E o \in CutShort(e) : /\ disk' = [disk EXCEPT ![e] = o[1]]
                            /\ late' = [late EXCEPT ![e] = o[2]]
  /\ disturbed' = [disturbed EXCEPT ![e] = @ \/ BeingSaved(e)]
  /\ UNCHANGED issued

CertRestart(e) ==
  /\ CertStop(e)
  /\ \E c \in ReadBack(cert[e], disk'[e]) : cert' = [cert EXCEPT ![e] = c]

\* A new entry knows of no certificate, but there can be one.
CertAdd(e) ==
  /\ \E c \in ReadBack(0, disk[e]) : cert' = [cert EXCEPT ![e] = c]
  /\ UNCHANGED <<disk, issued, late, disturbed>>

\* Helpers may or may not outlive the daemon.
CertBoot ==
  /\ cert' \in [Entries -> Certs]
  /\ disk' \in [Entries -> Certs]
  /\ late' \in [Entries -> SUBSET Certs]
  /\ \A e \in Entries :
       /\ \E o \in CutShort(e) : disk'[e] = o[1] /\ late'[e] \in {o[2], {}}
       /\ IF e \in stored THEN cert'[e] \in ReadBack(cert[e], disk'[e])
                          ELSE cert'[e] = cert[e]
  /\ disturbed' = [e \in Entries |-> disturbed[e] \/ BeingSaved(e)]
  /\ UNCHANGED issued

\* A forgotten helper goes on.
LateSave(e) ==
  /\ \E c \in late[e] :
       \/ disk' = [disk EXCEPT ![e] = 0] /\ UNCHANGED late
       \/ /\ \E d \in Written(disk[e], c) : disk' = [disk EXCEPT ![e] = d]
          /\ late' = [late EXCEPT ![e] = @ \ {c}]
  /\ UNCHANGED <<vars, cert, issued, disturbed>>

\* There may already be a certificate where a new request wants it.
CertsInit ==
  /\ Init
  /\ issued \in [Entries -> {0, 1}]
  /\ disk = issued
  /\ cert = [e \in Entries |-> 0]
  /\ late = [e \in Entries |-> {}]
  /\ disturbed = [e \in Entries |-> FALSE]

CertsNext ==
  \/ \E e \in Entries :
       \/ EntryStep(e) /\ CertVisit(e)
       \/ AddRequest(e) /\ CertAdd(e)
       \/ RemoveRequest(e) /\ CertStop(e) /\ UNCHANGED cert
       \/ /\ RequestModify(e) \/ RequestRefresh(e) \/ RequestResubmit(e)
             \/ RequestRekey(e) \/ RestartEntry(e)
          /\ CertRestart(e)
       \/ LateSave(e)
  \/ NetlinkDelayed /\ UNCHANGED certVars
  \/ \E S \in SUBSET managed : RestartEntriesByCA(S) /\ UNCHANGED certVars
  \/ (Crash \/ ShutdownAndRestart) /\ CertBoot

CertsSpec == CertsInit /\ [][CertsNext]_allVars

-----------------------------------------------------------------------------
\* There is a certificate whenever one is being saved, announced or watched:
\* the helper that saves takes cm_cert as it is, and a request without one
\* in MONITORING would never be looked at again.
CertInHand ==
  \A e \in managed :
    \/ SavingStage(state[e]) > 0
    \/ state[e] \in {"MONITORING", "NEED_TO_NOTIFY_VALIDITY", "NOTIFYING_VALIDITY",
                     "NEED_TO_SAVE_ONLY_CA_CERTS", "SAVING_ONLY_CA_CERTS"}
    => cert[e] # 0

\* The certificate being saved is the newest one issued, and it is in place
\* from SAVED_CERT on until it has been announced, whatever else happens:
\* restarts after it was saved, a reading that fails, a file that cannot be
\* written and is tried again.  Only a restart before it was saved, or an
\* earlier one whose helper is still at work, can spoil it.
SavesWhatWasIssued ==
  \A e \in managed :
    SavingStage(state[e]) > 0 /\ ~disturbed[e]
      => /\ cert[e] = issued[e]
         /\ SavingStage(state[e]) > 1 => disk[e] = issued[e]

=============================================================================
