-------------------------- MODULE EntryKeysProofs ---------------------------
(***************************************************************************)
(* Proofs about the private keys of the requests, for any number of        *)
(* requests and of keys: the key that a request was signed with stays on   *)
(* disk, and the one next to an announced certificate is that it is for.   *)
(***************************************************************************)
EXTENDS EntryKeys, EntryIterateProofs

USE MaxKeysAssumption

FileRec == [key : NoFile..MaxKeys, candidates : SUBSET Keys, cert : 0..MaxKeys]

KnownRec ==
  [next_marker : 0..MaxKeys, csr : 0..MaxKeys, ca_cookie : 0..MaxKeys,
   cert : 0..MaxKeys, key_size : BOOLEAN]

LateSaves == (NoFile..MaxKeys) \X (0..MaxKeys) \X (0..MaxKeys)

KeyTypeOK ==
  /\ files \in [Entries -> FileRec]
  /\ known \in [Entries -> KnownRec]
  /\ made \in [Entries -> 0..MaxKeys]
  /\ late \in [Entries -> SUBSET LateSaves]
  /\ forgotten \in [Entries -> BOOLEAN]

\* The states in which the CA is, or is to be, asked to sign the request.
SubmissionStates ==
  {"HAVE_CSR", "NEED_TO_SUBMIT", "SUBMITTING", "CA_WORKING", "CA_UNREACHABLE",
   "CA_UNCONFIGURED", "NEED_CA", "NEED_SCEP_DATA", "GENERATING_SCEP_DATA",
   "HAVE_SCEP_DATA", "NEED_SCEP_GEN_TOKEN", "NEED_SCEP_GEN_PIN",
   "NEED_SCEP_ENCRYPTION_CERT", "NEED_SCEP_RSA_CLIENT_KEY"}

\* The signing request is for the candidate, or without one for the key (if
\* its file has not been truncated).
IsForKeyInUse(f, k) ==
  /\ k.next_marker # None => k.csr = k.next_marker
  /\ k.next_marker = None => f.key \in {k.csr, None}

\* What is shown of files f and knowledge k of a request in state s, until a
\* process that saves is forgotten.
KeyGood(s, f, k) ==
  /\ s \in SubmissionStates => k.csr \in {f.key} \cup f.candidates
  /\ s \in SubmissionStates \/ SavingStage(s) = 1 => IsForKeyInUse(f, k)
  /\ SavingStage(s) > 1 => /\ f.cert = k.cert
                           /\ k.cert = k.csr /\ f.key # None => f.key = k.cert

\* Also for a request that was removed while its file could not be deleted.
KeepsKey(e) == ~forgotten[e] => KeyGood(state[e], files[e], known[e])

KeyInv ==
  /\ KeyTypeOK
  /\ \A e \in Entries : ~forgotten[e] => late[e] = {}
  /\ \A e \in stored : KeepsKey(e)

-----------------------------------------------------------------------------
\* With its keys, a request does nothing that it does not do without them.
LEMMA KeysStepIsStep == [KeysNext]_allVars => [Next]_vars
BY DEF KeysNext, allVars, LateSave, Next, Handler

\* Following the keys adds nothing to what the requests can do: each step of
\* cm_iterate_entry here is one of EntryIterate.
THEOREM KeysImplyEntries == KeysSpec => Spec
<1>1. KeysInit => Init
  BY DEF KeysInit
<1>2. QED
  BY <1>1, KeysStepIsStep, PTL DEF KeysSpec, Spec

\* How a visit comes to a state in which the CA is asked, and to each stage.
LEMMA EntryStepAsks ==
  ASSUME TypeOK, NEW e \in Entries, EntryStep(e)
  PROVE  LET s == state[e]
             t == state'[e]
         IN  /\ t \in SubmissionStates
                  => s \in SubmissionStates \/ (s = "GENERATING_CSR" /\ t = "HAVE_CSR")
             /\ SavingStage(t) = 1 => SavingStage(s) = 1 \/ s = "SUBMITTING"
             /\ SavingStage(t) > 1
                  => SavingStage(s) > 1 \/ (s = "SAVING_CERT" /\ t = "SAVED_CERT")
<1> USE DEF TypeOK, Moves, Visit, Becomes, TryAgain, HangsOut, Notifies,
            SubmissionStates, SavingStage, SavingTheCert, SavingTheCACerts,
            ReadingItBack, AnnouncingIt
<1>1. CASE Parks(e)
  BY <1>1 DEF Parks
<1>2. CASE ~Parks(e)
  BY <1>2 DEF EntryStep,
     NEED_KEY_PAIR, GENERATING_KEY_PAIR, HAVE_KEY_PAIR, NEED_KEYINFO,
     READING_KEYINFO, HAVE_KEYINFO, NEED_CSR, GENERATING_CSR, HAVE_CSR,
     NEED_TO_SUBMIT, NEED_SCEP_DATA, GENERATING_SCEP_DATA, HAVE_SCEP_DATA,
     SUBMITTING, CA_WORKING, CA_UNREACHABLE, NEED_TO_SAVE_CERT, PRE_SAVE_CERT,
     START_SAVING_CERT, SAVING_CERT, SAVED_CERT, NEED_TO_SAVE_CA_CERTS,
     START_SAVING_CA_CERTS, SAVING_CA_CERTS, NEED_TO_READ_CERT, READING_CERT,
     POST_SAVED_CERT, NEED_TO_SAVE_ONLY_CA_CERTS, START_SAVING_ONLY_CA_CERTS,
     SAVING_ONLY_CA_CERTS, MONITORING, NEED_TO_NOTIFY_VALIDITY,
     NOTIFYING_VALIDITY, NEED_TO_NOTIFY_REJECTION, NOTIFYING_REJECTION,
     NEED_TO_NOTIFY_ISSUED_SAVE_FAILED, NOTIFYING_ISSUED_SAVE_FAILED,
     NEED_TO_NOTIFY_ISSUED_SAVED, NOTIFYING_ISSUED_SAVED,
     NEED_TO_NOTIFY_ISSUED_CA_SAVE_FAILED, NOTIFYING_ISSUED_CA_SAVE_FAILED,
     NEED_TO_NOTIFY_ONLY_CA_SAVE_FAILED, NOTIFYING_ONLY_CA_SAVE_FAILED,
     NEWLY_ADDED, NEWLY_ADDED_START_READING_KEYINFO,
     NEWLY_ADDED_READING_KEYINFO, NEWLY_ADDED_START_READING_CERT,
     NEWLY_ADDED_READING_CERT, NEWLY_ADDED_DECIDING
<1>3. QED
  BY <1>1, <1>2

-----------------------------------------------------------------------------
(***************************************************************************)
(* What the helper processes do to the files, and what is learnt of them.  *)
(***************************************************************************)

\* Generating a key.
LEMMA GeneratedTypes ==
  ASSUME NEW f \in FileRec, NEW k \in KnownRec, NEW n \in Keys
  PROVE  /\ Generated(f, k, n).f \in FileRec
         /\ Generated(f, k, n).k \in KnownRec
         /\ NotGenerated(f) \subseteq FileRec
         /\ HalfGenerated(f, k, n) \subseteq FileRec
<1> USE DEF FileRec, KnownRec, Keys, None, NoFile
<1> DEFINE kept == f.candidates \ {k.next_marker}
<1>1. Generated(f, k, n).f \in FileRec /\ Generated(f, k, n).k \in KnownRec
  <2>1. CASE f.key = NoFile
    <3>1. /\ Generated(f, k, n).f
                = [key |-> n, candidates |-> kept, cert |-> f.cert]
          /\ Generated(f, k, n).k = [k EXCEPT !.next_marker = None]
      BY <2>1 DEF Generated
    <3>2. QED
      BY <3>1
  <2>2. CASE f.key # NoFile
    <3>1. /\ Generated(f, k, n).f = [f EXCEPT !.candidates = kept \cup {n}]
          /\ Generated(f, k, n).k = [k EXCEPT !.next_marker = n]
      BY <2>2 DEF Generated
    <3>2. kept \cup {n} \in SUBSET Keys /\ n \in 0..MaxKeys
      OBVIOUS
    <3>3. [f EXCEPT !.candidates = kept \cup {n}] \in FileRec
      BY <3>2
    <3>4. [k EXCEPT !.next_marker = n] \in KnownRec
      BY <3>2
    <3>5. QED
      BY <3>1, <3>3, <3>4
  <2>3. QED
    BY <2>1, <2>2
<1>2. NotGenerated(f) \subseteq FileRec
  BY DEF NotGenerated
<1>3. [Generated(f, k, n).f EXCEPT !.candidates = @ \cup f.candidates] \in FileRec
  BY <1>1
<1>4. QED
  BY <1>1, <1>2, <1>3 DEF HalfGenerated

\* Saving certificate c, with marker m, having read key x: the files stay of
\* their type.
LEMMA SavingTypes ==
  ASSUME NEW f \in FileRec, NEW x \in NoFile..MaxKeys, NEW c \in 0..MaxKeys,
         NEW m \in 0..MaxKeys
  PROVE  /\ Completed(f, x, c, m) \in FileRec
         /\ Unfinished(f, x, c, m) \subseteq FileRec
BY DEF Completed, Unfinished, NewKey, FileRec, Keys, None, NoFile

\* Nothing that a process that saves can do to the files takes away the key
\* that the signing request is for.
LEMMA SavingKeepsKeyInUse ==
  ASSUME NEW f \in FileRec, NEW k \in KnownRec, IsForKeyInUse(f, k),
         NEW g \in {Completed(f, f.key, k.cert, k.next_marker)}
                   \cup Unfinished(f, f.key, k.cert, k.next_marker)
  PROVE  IsForKeyInUse(g, k)
BY DEF Completed, Unfinished, NewKey, FileRec, KnownRec, IsForKeyInUse, None

\* When it is done the certificate is in place, and if the certificate is for
\* the signing request, so is the key.
LEMMA SavedKeyMatches ==
  ASSUME NEW f \in FileRec, NEW k \in KnownRec, IsForKeyInUse(f, k),
         NEW g, g = Completed(f, f.key, k.cert, k.next_marker)
  PROVE  g.cert = k.cert /\ (k.cert = k.csr /\ g.key # None => g.key = k.cert)
BY DEF Completed, NewKey, FileRec, KnownRec, IsForKeyInUse, None

\* Reading teaches the size of the key and the certificate in place.
LEMMA ReadsLemma ==
  ASSUME NEW f \in FileRec, NEW k \in KnownRec, NEW j \in Reads(f, k)
  PROVE  /\ j \in KnownRec
         /\ j.csr = k.csr /\ j.next_marker = k.next_marker
         /\ j.cert \in {k.cert, f.cert}
<1>1. PICK i \in ReadKey(f, k) : j \in ReadBack(f, i)
  BY DEF Reads
<1>2. /\ i \in KnownRec
      /\ i.csr = k.csr /\ i.next_marker = k.next_marker /\ i.cert = k.cert
  BY <1>1 DEF ReadKey, KnownRec
<1>3. j \in {i, [i EXCEPT !.cert = f.cert]}
  BY <1>1 DEF ReadBack
<1>4. QED
  BY <1>2, <1>3 DEF FileRec, KnownRec

\* Reading the key back loses none that the state depends on.
LEMMA ReadingKeepsGood ==
  ASSUME NEW f \in FileRec, NEW k \in KnownRec, NEW j \in Reads(f, k),
         NEW s, KeyGood(s, f, k)
  PROVE  KeyGood(s, f, j)
BY ReadsLemma DEF KeyGood, IsForKeyInUse

-----------------------------------------------------------------------------
(***************************************************************************)
(* The visits.                                                             *)
(***************************************************************************)

\* What is known stays good when nothing is saved, nothing new is asked for
\* and the files and the signing request stay what they are.
LEMMA KeyGoodKept ==
  ASSUME NEW s, NEW t, NEW f, NEW k, NEW j, KeyGood(s, f, k),
         j.csr = k.csr, j.next_marker = k.next_marker,
         t \in SubmissionStates => s \in SubmissionStates,
         SavingStage(t) = 1 => SavingStage(s) = 1 \/ s \in SubmissionStates,
         SavingStage(t) > 1 => SavingStage(s) > 1 /\ j.cert = k.cert
  PROVE  KeyGood(t, f, j)
BY DEF KeyGood, IsForKeyInUse

\* The cases of a visit.
LEMMA KeyVisitCases ==
  ASSUME NEW e \in Entries, KeyVisit(e)
  PROVE  \/ state[e] = "GENERATING_KEY_PAIR" /\ KeyPairGenerated(e)
         \/ state[e] = "READING_KEYINFO" /\ KeyInfoRead(e)
         \/ state[e] = "GENERATING_CSR" /\ CSRGenerated(e)
         \/ state[e] = "SUBMITTING" /\ Submitted(e)
         \/ state[e] = "SAVING_CERT" /\ Saved(e)
         \/ state[e] = "READING_CERT" /\ CertRead(e)
         \/ state[e] = "NEWLY_ADDED" /\ FirstLook(e)
         \/ /\ state[e] \in {"NEWLY_ADDED_READING_KEYINFO",
                             "NEWLY_ADDED_READING_CERT"}
            /\ FirstRead(e)
         \/ state[e] = "NEWLY_ADDED_DECIDING" /\ Decided(e)
         \/ state[e] \notin Effects /\ UNCHANGED keyVars
BY DEF KeyVisit, Effects

\* What a submission changes of the files and of the signing request: nothing.
LEMMA SubmittedLearns ==
  ASSUME KeyTypeOK, NEW e \in Entries, Submitted(e)
  PROVE  \E j \in KnownRec : /\ Learns(e, j)
                             /\ j.csr = known[e].csr
                             /\ j.next_marker = known[e].next_marker
<1> DEFINE k == known[e]
           asked == IF k.ca_cookie # None THEN k.ca_cookie ELSE k.csr
           answered == [k EXCEPT !.ca_cookie = None]
           Learnt == {k, answered, [k EXCEPT !.ca_cookie = asked]}
                     \cup {[answered EXCEPT !.cert = c] : c \in {asked, k.cert, None}}
<1>1. \E j \in Learnt : Learns(e, j)
  BY DEF Submitted
<1>2. \A j \in Learnt : j \in KnownRec /\ j.csr = k.csr /\ j.next_marker = k.next_marker
  <2>1. k \in KnownRec
    BY DEF KeyTypeOK
  <2>2. answered \in KnownRec /\ asked \in 0..MaxKeys
    BY <2>1 DEF KnownRec, None
  <2>3. QED
    BY <2>1, <2>2 DEF KnownRec, None
<1>3. QED
  BY <1>1, <1>2

\* What a visit comes to: the files and the knowledge of one request are
\* replaced by others, and are as good as they were.
LEMMA KeyVisitOutcome ==
  ASSUME LockInv, KeyTypeOK, NEW e \in Entries, EntryStep(e), KeyVisit(e)
  PROVE  \E f \in FileRec, k \in KnownRec :
            /\ Sets(e, f, k)
            /\ made' \in [Entries -> 0..MaxKeys]
            /\ KeyGood(state[e], files[e], known[e]) => KeyGood(state'[e], f, k)
<1> DEFINE s == state[e]
           t == state'[e]
           f0 == files[e]
           k0 == known[e]
<1>0. /\ f0 \in FileRec /\ k0 \in KnownRec /\ made[e] \in 0..MaxKeys
      /\ made \in [Entries -> 0..MaxKeys]
      /\ f0 = files[e] /\ k0 = known[e]
  BY DEF KeyTypeOK
<1>1. /\ t \in SubmissionStates
           => s \in SubmissionStates \/ (s = "GENERATING_CSR" /\ t = "HAVE_CSR")
      /\ SavingStage(t) = 1 => SavingStage(s) = 1 \/ s = "SUBMITTING"
      /\ SavingStage(t) > 1
           => SavingStage(s) > 1 \/ (s = "SAVING_CERT" /\ t = "SAVED_CERT")
      /\ SavingStage(t) \in 0..4 /\ SavingStage(s) \in 0..4
  BY EntryStepAsks, StageLemma DEF LockInv
<1> DEFINE Good(f, k) ==
             /\ Sets(e, f, k)
             /\ made' \in [Entries -> 0..MaxKeys]
             /\ KeyGood(s, f0, k0) => KeyGood(t, f, k)
<1>2. ASSUME NEW j \in KnownRec, Learns(e, j),
             j.csr = k0.csr, j.next_marker = k0.next_marker,
             SavingStage(t) > 1 => SavingStage(s) > 1 /\ j.cert = k0.cert,
             t \in SubmissionStates => s \in SubmissionStates
      PROVE  Good(f0, j)
  <2>1. Sets(e, f0, j) /\ made' \in [Entries -> 0..MaxKeys]
    BY <1>0, <1>2 DEF Learns
  <2>2. SavingStage(t) = 1 => SavingStage(s) = 1 \/ s \in SubmissionStates
    BY <1>1 DEF SubmissionStates
  <2>3. KeyGood(s, f0, k0) => KeyGood(t, f0, j)
    BY <1>2, <2>2, KeyGoodKept
  <2>4. QED
    BY <2>1, <2>3
<1>3. CASE s = "GENERATING_KEY_PAIR" /\ KeyPairGenerated(e)
  <2>1. t \notin SubmissionStates /\ SavingStage(t) = 0
    BY <1>1, <1>3, StageLemma
    DEF SubmissionStates, SavingTheCert, SavingTheCACerts, ReadingItBack, AnnouncingIt
  <2>2. \A f, k : KeyGood(t, f, k)
    BY <2>1 DEF KeyGood
  <2>3. CASE made[e] < MaxKeys /\ made' = [made EXCEPT ![e] = @ + 1]
             /\ Sets(e, Generated(f0, k0, made'[e]).f, Generated(f0, k0, made'[e]).k)
    <3>1. made'[e] \in Keys /\ made' \in [Entries -> 0..MaxKeys]
      BY <1>0, <2>3 DEF Keys
    <3>2. /\ Generated(f0, k0, made'[e]).f \in FileRec
          /\ Generated(f0, k0, made'[e]).k \in KnownRec
      BY <1>0, <3>1, GeneratedTypes
    <3>3. QED
      BY <2>2, <2>3, <3>1, <3>2
  <2>4. CASE (\E f \in NotGenerated(f0) : Sets(e, f, Unmarked(k0))) /\ UNCHANGED made
    <3>1. PICK f \in NotGenerated(f0) : Sets(e, f, Unmarked(k0))
      BY <2>4
    <3>2. f \in FileRec
      BY <1>0, <3>1 DEF NotGenerated, FileRec, None, NoFile
    <3>3. Unmarked(k0) \in KnownRec
      BY <1>0 DEF Unmarked, KnownRec, None
    <3>4. QED
      BY <1>0, <2>2, <2>4, <3>1, <3>2, <3>3
  <2>5. QED
    BY <1>3, <2>3, <2>4 DEF KeyPairGenerated
<1>4. CASE s = "READING_KEYINFO" /\ KeyInfoRead(e)
  <2>1. PICK b \in BOOLEAN : Learns(e, [k0 EXCEPT !.key_size = b])
    BY <1>4 DEF KeyInfoRead
  <2>2. /\ [k0 EXCEPT !.key_size = b] \in KnownRec
        /\ [k0 EXCEPT !.key_size = b].csr = k0.csr
        /\ [k0 EXCEPT !.key_size = b].next_marker = k0.next_marker
        /\ [k0 EXCEPT !.key_size = b].cert = k0.cert
    BY <1>0 DEF KnownRec
  <2>3. QED
    BY <1>0, <1>1, <1>2, <1>4, <2>1, <2>2
<1>5. CASE s = "GENERATING_CSR" /\ CSRGenerated(e)
  <2>1. CASE t = "HAVE_CSR" /\ KeyInUse(f0, k0) # None
    <3> DEFINE j == [k0 EXCEPT !.csr = KeyInUse(f0, k0)]
    <3>1. Learns(e, j)
      BY <1>5, <2>1 DEF CSRGenerated
    <3>2. \/ /\ k0.next_marker \in f0.candidates
             /\ KeyInUse(f0, k0) = k0.next_marker
          \/ /\ k0.next_marker = None /\ f0.key \in Keys
             /\ KeyInUse(f0, k0) = f0.key
      BY <2>1 DEF KeyInUse
    <3>3. KeyInUse(f0, k0) \in Keys
      BY <1>0, <3>2 DEF FileRec
    <3>4. /\ j \in KnownRec
          /\ j.csr = KeyInUse(f0, k0) /\ j.next_marker = k0.next_marker
      BY <1>0, <3>3 DEF KnownRec, Keys
    <3>5. SavingStage(t) = 0
      BY <2>1, StageLemma
      DEF SavingTheCert, SavingTheCACerts, ReadingItBack, AnnouncingIt
    <3>6. KeyGood(t, f0, j)
      BY <1>0, <3>2, <3>3, <3>4, <3>5
      DEF KeyGood, IsForKeyInUse, FileRec, Keys, None
    <3>7. Sets(e, f0, j) /\ made' \in [Entries -> 0..MaxKeys]
      BY <1>0, <3>1 DEF Learns
    <3>8. QED
      BY <1>0, <3>4, <3>6, <3>7
  <2>2. CASE t # "HAVE_CSR" /\ Learns(e, k0)
    BY <1>0, <1>1, <1>2, <1>5, <2>2
  <2>3. QED
    BY <1>5, <2>1, <2>2 DEF CSRGenerated
<1>6. CASE s = "SUBMITTING" /\ Submitted(e)
  <2>1. PICK j \in KnownRec : /\ Learns(e, j)
                              /\ j.csr = k0.csr
                              /\ j.next_marker = k0.next_marker
    BY <1>6, SubmittedLearns
  <2>2. s \in SubmissionStates /\ ~(SavingStage(s) > 1)
    BY <1>6, StageLemma
    DEF SubmissionStates, SavingTheCACerts, ReadingItBack, AnnouncingIt
  <2>3. QED
    BY <1>0, <1>1, <1>2, <1>6, <2>1, <2>2
<1>7. CASE s = "SAVING_CERT" /\ Saved(e)
  <2>1. s \notin SubmissionStates /\ t \notin SubmissionStates /\ SavingStage(s) = 1
    BY <1>1, <1>7, StageLemma DEF SubmissionStates, SavingTheCert
  <2>2. made' \in [Entries -> 0..MaxKeys]
    BY <1>0, <1>7 DEF Saved
  <2>3. KeyGood(s, f0, k0) => IsForKeyInUse(f0, k0)
    BY <2>1 DEF KeyGood
  <2>4. /\ f0.key \in NoFile..MaxKeys
        /\ k0.cert \in 0..MaxKeys /\ k0.next_marker \in 0..MaxKeys
    BY <1>0 DEF FileRec, KnownRec
  <2>5. CASE t = "SAVED_CERT"
             /\ \E f \in SavedFiles(f0, k0.cert, k0.next_marker) :
                  Sets(e, f, Unmarked(k0))
    <3>1. PICK f \in SavedFiles(f0, k0.cert, k0.next_marker) : Sets(e, f, Unmarked(k0))
      BY <2>5
    <3>2. f = Completed(f0, f0.key, k0.cert, k0.next_marker)
      BY <3>1 DEF SavedFiles
    <3>3. f \in FileRec
      BY <1>0, <2>4, <3>2, SavingTypes
    <3>4. /\ Unmarked(k0) \in KnownRec
          /\ Unmarked(k0).cert = k0.cert /\ Unmarked(k0).csr = k0.csr
      BY <1>0 DEF Unmarked, KnownRec, None
    <3>5. SavingStage(t) = 2
      BY <2>5, StageLemma DEF SavingTheCACerts
    <3>6. KeyGood(s, f0, k0) => KeyGood(t, f, Unmarked(k0))
      BY <1>0, <2>1, <2>3, <3>2, <3>4, <3>5, SavedKeyMatches DEF KeyGood
    <3>7. QED
      BY <2>2, <3>1, <3>3, <3>4, <3>6
  <2>6. CASE t # "SAVED_CERT"
             /\ \E f \in UnsavedFiles(f0, k0.cert, k0.next_marker) : Sets(e, f, k0)
    <3>1. PICK f \in UnsavedFiles(f0, k0.cert, k0.next_marker) : Sets(e, f, k0)
      BY <2>6
    <3>2. f = f0 \/ f \in Unfinished(f0, f0.key, k0.cert, k0.next_marker)
      BY <3>1 DEF UnsavedFiles
    <3>3. f \in FileRec
      BY <1>0, <2>4, <3>2, SavingTypes
    <3>4. IsForKeyInUse(f0, k0) => IsForKeyInUse(f, k0)
      BY <1>0, <3>2, SavingKeepsKeyInUse
    <3>5. ~(SavingStage(t) > 1)
      BY <1>1, <2>1, <2>6
    <3>6. KeyGood(s, f0, k0) => KeyGood(t, f, k0)
      BY <2>1, <2>3, <3>4, <3>5 DEF KeyGood
    <3>7. QED
      BY <1>0, <2>2, <3>1, <3>3, <3>6
  <2>7. QED
    BY <1>7, <2>5, <2>6 DEF Saved
<1>8. CASE s = "READING_CERT" /\ CertRead(e)
  <2>1. SavingStage(s) = 3
    BY <1>8, StageLemma DEF ReadingItBack
  <2>2. CASE Learns(e, k0)
    BY <1>0, <1>1, <1>2, <1>8, <2>1, <2>2
  <2>3. CASE Learns(e, [k0 EXCEPT !.cert = f0.cert])
    <3> DEFINE j == [k0 EXCEPT !.cert = f0.cert]
    <3>1. /\ j \in KnownRec /\ j.cert = f0.cert
          /\ j.csr = k0.csr /\ j.next_marker = k0.next_marker
      BY <1>0 DEF FileRec, KnownRec
    <3>2. Sets(e, f0, j) /\ made' \in [Entries -> 0..MaxKeys]
      BY <1>0, <2>3 DEF Learns
    <3>3. KeyGood(s, f0, k0) => KeyGood(t, f0, j)
      BY <1>1, <1>8, <2>1, <3>1 DEF KeyGood, SubmissionStates
    <3>4. QED
      BY <1>0, <3>1, <3>2, <3>3
  <2>4. QED
    BY <1>8, <2>2, <2>3 DEF CertRead
<1>9. CASE s \in {"NEWLY_ADDED", "NEWLY_ADDED_READING_KEYINFO",
                  "NEWLY_ADDED_READING_CERT", "NEWLY_ADDED_DECIDING"}
           /\ (FirstLook(e) \/ FirstRead(e) \/ Decided(e))
  <2>1. t \notin SubmissionStates /\ SavingStage(t) = 0
    BY <1>1, <1>9, StageLemma
    DEF SubmissionStates, SavingTheCert, SavingTheCACerts, ReadingItBack, AnnouncingIt
  <2>2. \A f, k : KeyGood(t, f, k)
    BY <2>1 DEF KeyGood
  <2>3. \E k \in KnownRec : Sets(e, f0, k) /\ UNCHANGED made
    <3>1. ASSUME NEW k \in ReadKey(f0, k0) \cup ReadBack(f0, k0)
          PROVE  k \in KnownRec
      BY <1>0 DEF ReadKey, ReadBack, FileRec, KnownRec
    <3>2. CASE FirstLook(e)
      BY <1>0, <3>2 DEF FirstLook, keyVars, Sets, KeyTypeOK
    <3>3. CASE FirstRead(e)
      BY <3>1, <3>3 DEF FirstRead, Learns
    <3>4. CASE Decided(e)
      BY <1>0, <3>4 DEF Decided, Learns
    <3>5. QED
      BY <1>9, <3>2, <3>3, <3>4
  <2>4. QED
    BY <1>0, <2>2, <2>3
<1>10. CASE s \notin Effects /\ UNCHANGED keyVars
  <2>1. Learns(e, k0)
    BY <1>10 DEF keyVars, Learns, Sets, KeyTypeOK
  <2>2. QED
    BY <1>0, <1>1, <1>2, <1>10, <2>1 DEF Effects
<1>11. QED
  BY <1>3, <1>4, <1>5, <1>6, <1>7, <1>8, <1>9, <1>10, KeyVisitCases

\* What a request keeps depends on nothing of the others.
LEMMA OthersKeepKeys ==
  ASSUME NEW e, KeepsKey(e),
         UNCHANGED <<state[e], files[e], known[e], forgotten[e]>>
  PROVE  KeepsKey(e)'
BY DEF KeepsKey

\* A visit keeps the keys.
LEMMA KeyVisitLemma ==
  ASSUME LockInv, KeyInv, NEW e \in Entries, EntryStep(e), KeyVisit(e)
  PROVE  KeyInv'
<1>0. /\ e \in stored /\ stored' = stored /\ stored \subseteq Entries
      /\ \A f \in Entries \ {e} : state'[f] = state[f]
  <2>1. state' = state \/ \E x : state' = [state EXCEPT ![e] = x]
    BY EntryStepShape DEF Parks, Becomes
  <2>2. QED
    BY <2>1, EntryStepShape DEF Visit, LockInv, TypeOK
<1>1. PICK f \in FileRec, k \in KnownRec :
        /\ Sets(e, f, k)
        /\ made' \in [Entries -> 0..MaxKeys]
        /\ KeyGood(state[e], files[e], known[e]) => KeyGood(state'[e], f, k)
  BY KeyVisitOutcome DEF KeyInv
<1>2. KeyTypeOK'
  BY <1>1 DEF Sets, KeyInv, KeyTypeOK
<1>3. ASSUME NEW x \in stored
      PROVE  KeepsKey(x)'
  <2>1. KeepsKey(x) /\ x \in Entries
    BY <1>0, <1>3 DEF KeyInv
  <2>2. CASE x = e
    BY <1>1, <2>1, <2>2 DEF Sets, KeyInv, KeyTypeOK, KeepsKey
  <2>3. CASE x # e
    BY <1>0, <1>1, <2>1, <2>3, OthersKeepKeys DEF Sets, KeyInv, KeyTypeOK
  <2>4. QED
    BY <2>2, <2>3
<1>4. late' = late /\ forgotten' = forgotten
  BY <1>1 DEF Sets
<1>5. QED
  BY <1>0, <1>2, <1>3, <1>4 DEF KeyInv

-----------------------------------------------------------------------------
(***************************************************************************)
(* Stopping and starting.                                                  *)
(***************************************************************************)

\* Where a request can be after it was stopped, or the daemon was.
Rewound(s) == {Reset(s), Reset(Reset(s)), Reset("NEED_KEY_PAIR"), Reset("NEED_CSR")}

\* There it is as far as it was, or back at the key or the signing request.
LEMMA RewoundLemma ==
  \A s \in States : \A t \in Rewound(s) :
    /\ t \in SubmissionStates => s \in SubmissionStates
    /\ SavingStage(t) \in {0, SavingStage(s)}
    /\ s = "GENERATING_KEY_PAIR" => t \notin SubmissionStates /\ SavingStage(t) = 0
<1>1. \A s \in States \ SubmissionStates : Reset(s) \in States \ SubmissionStates
  BY DEF Reset, InterruptedSubmission, InterruptedReading, InterruptedTelling,
         SubmissionStates, States, HelperStates, StuckStates, PassingStates
<1>2. {"NEED_KEY_PAIR", "NEED_CSR", "GENERATING_KEY_PAIR"}
        \subseteq States \ SubmissionStates
  BY DEF SubmissionStates, States, HelperStates, StuckStates, PassingStates
<1>3. \A x \in {"NEED_KEY_PAIR", "NEED_CSR", "GENERATING_KEY_PAIR"} : SavingStage(x) = 0
  BY DEF SavingStage, SavingTheCert, SavingTheCACerts, ReadingItBack, AnnouncingIt
<1>4. \A s \in States : Reset(s) \in States
  BY ResetLemma
<1>5. QED
  BY <1>1, <1>2, <1>3, <1>4, ResetKeepsStage DEF Rewound

OutcomeRec ==
  [files : FileRec, known : KnownRec, made : 0..MaxKeys, late : SUBSET LateSaves]

\* What was good of a request in state s, with files f and knowledge k, is
\* good after outcome o for state t.
StaysGood(s, t, f, k, o) == KeyGood(s, f, k) => KeyGood(t, o.files, o.known)

\* A process that saves, and is not waited for, leaves the files good.
LEMMA SaveOutcomesLemma ==
  ASSUME KeyTypeOK, NEW e \in Entries, NEW o \in SaveOutcomes(e)
  PROVE  /\ o \in OutcomeRec /\ o.late = late[e]
         /\ o.known = known[e]
         /\ IsForKeyInUse(files[e], known[e]) => IsForKeyInUse(o.files, o.known)
<1> DEFINE c == known[e].cert
           m == known[e].next_marker
<1>1. /\ files[e] \in FileRec /\ known[e] \in KnownRec
      /\ made[e] \in 0..MaxKeys /\ late[e] \in SUBSET LateSaves
  BY DEF KeyTypeOK
<1>2. PICK f \in SavedFiles(files[e], c, m) \cup UnsavedFiles(files[e], c, m) :
        o = [Unchanged(e) EXCEPT !.files = f]
  BY DEF SaveOutcomes
<1>3. o = [files |-> f, known |-> known[e], made |-> made[e], late |-> late[e]]
  BY <1>2 DEF Unchanged, Outcome
<1>4. f = files[e] \/ f \in {Completed(files[e], files[e].key, c, m)}
                            \cup Unfinished(files[e], files[e].key, c, m)
  BY DEF SavedFiles, UnsavedFiles
<1>5. files[e].key \in NoFile..MaxKeys /\ c \in 0..MaxKeys /\ m \in 0..MaxKeys
  BY <1>1 DEF FileRec, KnownRec
<1>6. f \in FileRec
  BY <1>1, <1>4, <1>5, SavingTypes
<1>7. IsForKeyInUse(files[e], known[e]) => IsForKeyInUse(f, known[e])
  BY <1>1, <1>4, SavingKeepsKeyInUse
<1>8. QED
  BY <1>1, <1>3, <1>6, <1>7 DEF OutcomeRec

\* However a request is stopped, its files stay good for where it goes.
LEMMA StoppedStaysGood ==
  ASSUME KeyTypeOK, NEW e \in Entries, state[e] \in States,
         NEW t \in Rewound(state[e]),
         NEW o \in Stopped(e) \cup Killed(e) \cup {Unchanged(e)}
  PROVE  /\ o \in OutcomeRec
         /\ state[e] # "SAVING_CERT" => o.late = late[e]
         /\ StaysGood(state[e], t, files[e], known[e], o)
<1> DEFINE s == state[e]
           f0 == files[e]
           k0 == known[e]
           n == made[e] + 1
<1>0. /\ f0 \in FileRec /\ k0 \in KnownRec
      /\ made[e] \in 0..MaxKeys /\ late[e] \in SUBSET LateSaves
  BY DEF KeyTypeOK
<1>1. /\ t \in SubmissionStates => s \in SubmissionStates
      /\ SavingStage(t) \in {0, SavingStage(s)} /\ SavingStage(s) \in 0..4
  BY RewoundLemma, StageLemma
<1>2. CASE o = Unchanged(e)
  <2>1. /\ o = [files |-> f0, known |-> k0, made |-> made[e], late |-> late[e]]
    BY <1>2 DEF Unchanged, Outcome
  <2>2. o \in OutcomeRec /\ o.late = late[e] /\ o.files = f0 /\ o.known = k0
    BY <1>0, <2>1 DEF OutcomeRec
  <2>3. KeyGood(s, f0, k0) => KeyGood(t, f0, k0)
    BY <1>1, KeyGoodKept
  <2>4. QED
    BY <2>2, <2>3 DEF StaysGood
<1>3. CASE s = "GENERATING_KEY_PAIR"
  <2>1. \A f, k : KeyGood(t, f, k)
    BY <1>3, RewoundLemma DEF KeyGood
  <2>2. ASSUME n \in Keys
        PROVE  /\ Generated(f0, k0, n).f \in FileRec
               /\ Generated(f0, k0, n).k \in KnownRec
               /\ HalfGenerated(f0, k0, n) \subseteq FileRec
    BY <1>0, <2>2, GeneratedTypes
  <2>3. NotGenerated(f0) \subseteq FileRec /\ Unmarked(k0) \in KnownRec
    BY <1>0 DEF NotGenerated, Unmarked, FileRec, KnownRec, None, NoFile
  <2>4. n \in Keys => n \in 0..MaxKeys
    BY DEF Keys
  <2>5. \E f \in FileRec, k \in KnownRec, x \in 0..MaxKeys :
           o = [files |-> f, known |-> k, made |-> x, late |-> late[e]]
    <3>1. CASE o \in Stopped(e)
      BY <1>0, <1>3, <2>2, <2>3, <2>4, <3>1 DEF Stopped, Outcome
    <3>2. CASE o \in Killed(e)
      BY <1>0, <1>3, <2>2, <2>3, <2>4, <3>2 DEF Killed, Unchanged, Outcome
    <3>3. CASE o = Unchanged(e)
      BY <1>0, <3>3 DEF Unchanged, Outcome
    <3>4. QED
      BY <3>1, <3>2, <3>3
  <2>6. QED
    BY <1>0, <2>1, <2>5 DEF OutcomeRec, StaysGood
<1>4. CASE s = "SAVING_CERT" /\ o # Unchanged(e)
  <2>1. s \notin SubmissionStates /\ SavingStage(s) = 1
    BY <1>4, StageLemma DEF SubmissionStates, SavingTheCert
  <2>2. CASE o \in SaveOutcomes(e)
    BY <1>1, <1>4, <2>1, <2>2, SaveOutcomesLemma DEF KeyGood, StaysGood
  <2>3. CASE o \notin SaveOutcomes(e)
    <3>1. o = [Unchanged(e) EXCEPT !.late = @ \cup
                 {<<f0.key, k0.cert, k0.next_marker>>}]
      BY <1>4, <2>3 DEF Stopped, Killed
    <3>2. o = [files |-> f0, known |-> k0, made |-> made[e],
               late |-> late[e] \cup {<<f0.key, k0.cert, k0.next_marker>>}]
      BY <3>1 DEF Unchanged, Outcome
    <3>3. <<f0.key, k0.cert, k0.next_marker>> \in LateSaves
      BY <1>0 DEF LateSaves, FileRec, KnownRec
    <3>4. o \in OutcomeRec /\ o.files = f0 /\ o.known = k0
      BY <1>0, <3>2, <3>3 DEF OutcomeRec
    <3>5. QED
      BY <1>1, <1>4, <3>4, KeyGoodKept DEF StaysGood
  <2>4. QED
    BY <2>2, <2>3
<1>5. CASE s \notin {"GENERATING_KEY_PAIR", "SAVING_CERT"} /\ o # Unchanged(e)
  BY <1>5 DEF Stopped, Killed
<1>6. QED
  BY <1>2, <1>3, <1>4, <1>5

\* Reading what is in place, when the request is started, changes no more.
LEMMA ReadingStaysGood ==
  ASSUME NEW O \in SUBSET OutcomeRec, NEW p \in AfterReading(O)
  PROVE  \E o \in O : /\ p \in OutcomeRec
                      /\ p.late = o.late
                      /\ \A t : KeyGood(t, o.files, o.known)
                                  => KeyGood(t, p.files, p.known)
<1>1. PICK o \in O : \E k \in Reads(o.files, o.known) : p = [o EXCEPT !.known = k]
  BY DEF AfterReading
<1>2. PICK k \in Reads(o.files, o.known) : p = [o EXCEPT !.known = k]
  BY <1>1
<1>3. o \in OutcomeRec /\ o.files \in FileRec /\ o.known \in KnownRec
  BY DEF OutcomeRec
<1>4. k \in KnownRec
  BY <1>2, <1>3, ReadsLemma
<1>5. p \in OutcomeRec /\ p.late = o.late /\ p.files = o.files /\ p.known = k
  BY <1>2, <1>3, <1>4 DEF OutcomeRec
<1>6. \A t : KeyGood(t, o.files, o.known) => KeyGood(t, p.files, p.known)
  BY <1>2, <1>3, <1>5, ReadingKeepsGood
<1>7. QED
  BY <1>5, <1>6

\* So both together give what every stop and start does to the files.
StartedOutcomes(O) == O \cup AfterReading(O)

\* Neither does stopping, being killed or starting again.
LEMMA StartedStaysGood ==
  ASSUME KeyTypeOK, NEW e \in Entries, state[e] \in States,
         NEW t \in Rewound(state[e]),
         NEW O \in SUBSET (Stopped(e) \cup Killed(e) \cup {Unchanged(e)}),
         NEW o \in StartedOutcomes(O)
  PROVE  /\ o \in OutcomeRec
         /\ state[e] # "SAVING_CERT" => o.late = late[e]
         /\ StaysGood(state[e], t, files[e], known[e], o)
<1>1. O \in SUBSET OutcomeRec
  BY StoppedStaysGood
<1>2. CASE o \in O
  BY <1>2, StoppedStaysGood
<1>3. CASE o \in AfterReading(O)
  <2>1. PICK p \in O : /\ o \in OutcomeRec
                       /\ o.late = p.late
                       /\ \A x : KeyGood(x, p.files, p.known)
                                   => KeyGood(x, o.files, o.known)
    BY <1>1, <1>3, ReadingStaysGood
  <2>2. /\ state[e] # "SAVING_CERT" => p.late = late[e]
        /\ StaysGood(state[e], t, files[e], known[e], p)
    BY <2>1, StoppedStaysGood
  <2>3. QED
    BY <2>1, <2>2 DEF StaysGood
<1>4. QED
  BY <1>2, <1>3 DEF StartedOutcomes

\* A request that is stopped, and started again or not, keeps its keys unless
\* its process that saves is forgotten.
LEMMA KeyStopLemma ==
  ASSUME LockInv, KeyInv, NEW e \in managed, NEW s \in Rewound(state[e]),
         Stop(e, s), stored' \in {stored, stored \ {e}},
         ComesTo(e, Stopped(e)) \/ KeyRestart(e)
  PROVE  KeyInv'
<1>0. e \in stored /\ e \in Entries /\ stored \subseteq Entries /\ state[e] \in States
  BY DEF LockInv, TypeOK
<1>1. PICK o \in StartedOutcomes(Stopped(e)) :
        /\ files' = [files EXCEPT ![e] = o.files]
        /\ known' = [known EXCEPT ![e] = o.known]
        /\ made'  = [made EXCEPT ![e] = o.made]
        /\ late'  = [late EXCEPT ![e] = o.late]
  BY DEF ComesTo, KeyRestart, StartedOutcomes
<1>2. forgotten' = [forgotten EXCEPT ![e] = @ \/ state[e] = "SAVING_CERT"]
  BY DEF ComesTo, KeyRestart, Forgets
<1>3. /\ o \in OutcomeRec
      /\ state[e] # "SAVING_CERT" => o.late = late[e]
      /\ StaysGood(state[e], s, files[e], known[e], o)
  BY <1>0, StartedStaysGood DEF KeyInv
<1>4. KeyTypeOK'
  <2>1. /\ o.files \in FileRec /\ o.known \in KnownRec
        /\ o.made \in 0..MaxKeys /\ o.late \in SUBSET LateSaves
    BY <1>3 DEF OutcomeRec
  <2>2. forgotten' \in [Entries -> BOOLEAN]
    BY <1>0, <1>2 DEF KeyInv, KeyTypeOK
  <2>3. QED
    BY <1>0, <1>1, <2>1, <2>2 DEF KeyInv, KeyTypeOK
<1>5. ASSUME NEW x \in stored \ {e}
      PROVE  KeepsKey(x)'
  <2>1. UNCHANGED <<state[x], files[x], known[x], forgotten[x]>>
    BY <1>0, <1>1, <1>2, <1>5 DEF Stop, LockInv, TypeOK, KeyInv, KeyTypeOK
  <2>2. QED
    BY <1>5, <2>1, OthersKeepKeys DEF KeyInv
<1>6. ~forgotten'[e] => late'[e] = {} /\ KeyGood(state'[e], files'[e], known'[e])
  <2> SUFFICES ASSUME ~forgotten'[e]
               PROVE  late'[e] = {} /\ KeyGood(state'[e], files'[e], known'[e])
    OBVIOUS
  <2>1. ~forgotten[e] /\ state[e] # "SAVING_CERT"
    BY <1>0, <1>2 DEF KeyInv, KeyTypeOK
  <2>2. /\ state'[e] = s /\ files'[e] = o.files
        /\ known'[e] = o.known /\ late'[e] = o.late
    BY <1>0, <1>1 DEF Stop, LockInv, TypeOK, KeyInv, KeyTypeOK
  <2>3. late[e] = {} /\ KeyGood(state[e], files[e], known[e])
    BY <1>0, <2>1 DEF KeyInv, KeepsKey
  <2>4. QED
    BY <1>3, <2>1, <2>2, <2>3 DEF StaysGood
<1>7. \A x \in Entries \ {e} : late'[x] = late[x] /\ forgotten'[x] = forgotten[x]
  BY <1>0, <1>1, <1>2 DEF KeyInv, KeyTypeOK
<1>8. QED
  BY <1>0, <1>4, <1>5, <1>6, <1>7 DEF KeyInv, KeepsKey

\* A new request has asked for nothing.
LEMMA KeyAddLemma ==
  ASSUME LockInv, KeyInv, NEW e \in Entries, AddRequest(e), KeyAdd(e)
  PROVE  KeyInv'
<1>0. /\ e \notin stored /\ stored' = stored \cup {e} /\ stored \subseteq Entries
      /\ state' = [state EXCEPT ![e] = "NEWLY_ADDED"]
  BY DEF AddRequest, LockInv, TypeOK
<1>1. PICK k \in Reads(files[e], NoKnowledge) : known' = [known EXCEPT ![e] = k]
  BY DEF KeyAdd
<1>2. UNCHANGED <<files, made, late, forgotten>>
  BY DEF KeyAdd
<1>3. NoKnowledge \in KnownRec /\ files[e] \in FileRec
  BY DEF NoKnowledge, KnownRec, None, KeyInv, KeyTypeOK
<1>4. k \in KnownRec
  BY <1>3, ReadsLemma
<1>5. KeyTypeOK'
  BY <1>1, <1>2, <1>4 DEF KeyInv, KeyTypeOK
<1>6. ASSUME NEW x \in stored
      PROVE  KeepsKey(x)'
  <2>1. UNCHANGED <<state[x], files[x], known[x], forgotten[x]>>
    BY <1>0, <1>1, <1>2, <1>6 DEF LockInv, TypeOK, KeyInv, KeyTypeOK
  <2>2. QED
    BY <1>6, <2>1, OthersKeepKeys DEF KeyInv
<1>7. KeepsKey(e)'
  <2>1. state'[e] = "NEWLY_ADDED"
    BY <1>0 DEF LockInv, TypeOK
  <2>2. state'[e] \notin SubmissionStates /\ SavingStage(state'[e]) = 0
    BY <2>1 DEF SubmissionStates, SavingStage, SavingTheCert, SavingTheCACerts,
                ReadingItBack, AnnouncingIt
  <2>3. QED
    BY <2>2 DEF KeepsKey, KeyGood
<1>8. QED
  BY <1>0, <1>2, <1>5, <1>6, <1>7 DEF KeyInv

\* A forgotten process only disturbs the request that it was forgotten for.
LEMMA LateSaveLemma ==
  ASSUME LockInv, KeyInv, NEW e \in Entries, LateSave(e)
  PROVE  KeyInv'
<1>1. PICK j \in late[e] :
        /\ late' = [late EXCEPT ![e] = @ \ {j}]
        /\ \E f \in {Completed(files[e], j[1], j[2], j[3])}
                    \cup Unfinished(files[e], j[1], j[2], j[3]) :
             files' = [files EXCEPT ![e] = f]
  BY DEF LateSave
<1>2. PICK f \in {Completed(files[e], j[1], j[2], j[3])}
                 \cup Unfinished(files[e], j[1], j[2], j[3]) :
        files' = [files EXCEPT ![e] = f]
  BY <1>1
<1>3. UNCHANGED <<state, stored, known, made, forgotten>> /\ stored \subseteq Entries
  BY DEF LateSave, vars, entryVars, LockInv, TypeOK
<1>4. forgotten[e]
  BY <1>1 DEF KeyInv
<1>5. KeyTypeOK'
  <2>1. /\ j[1] \in NoFile..MaxKeys /\ j[2] \in 0..MaxKeys /\ j[3] \in 0..MaxKeys
        /\ files[e] \in FileRec
    BY <1>1 DEF KeyInv, KeyTypeOK, LateSaves
  <2>2. f \in FileRec
    BY <1>2, <2>1, SavingTypes
  <2>3. late' \in [Entries -> SUBSET LateSaves]
    BY <1>1 DEF KeyInv, KeyTypeOK
  <2>4. QED
    BY <1>2, <1>3, <2>2, <2>3 DEF KeyInv, KeyTypeOK
<1>6. ASSUME NEW x \in Entries, x # e
      PROVE  files'[x] = files[x] /\ late'[x] = late[x]
  BY <1>1, <1>2, <1>6 DEF KeyInv, KeyTypeOK
<1>7. QED
  BY <1>3, <1>4, <1>5, <1>6 DEF KeyInv, KeepsKey

\* A new start of the daemon stops and starts every request that has a file.
\* O is what becomes of the files of each.
LEMMA KeyBootLemma ==
  ASSUME LockInv, KeyInv, NEW O, KeyBoot(O), stored' = stored,
         \A e \in Entries : /\ O[e] \subseteq Stopped(e) \cup Killed(e) \cup {Unchanged(e)}
                            /\ state'[e] \in Rewound(state[e])
  PROVE  KeyInv'
<1> DEFINE B(e) == IF e \in stored THEN AfterReading(O[e]) ELSE O[e]
<1>1. PICK o \in [Entries -> UNION {B(e) : e \in Entries}] :
        /\ \A e \in Entries : o[e] \in B(e)
        /\ files' = [e \in Entries |-> o[e].files]
        /\ known' = [e \in Entries |-> o[e].known]
        /\ made'  = [e \in Entries |-> o[e].made]
  BY DEF KeyBoot
<1>2. late' = [e \in Entries |-> {}] /\ forgotten' = forgotten
  BY DEF KeyBoot
<1>3. ASSUME NEW e \in Entries
      PROVE  /\ o[e] \in OutcomeRec
             /\ StaysGood(state[e], state'[e], files[e], known[e], o[e])
  <2>1. o[e] \in StartedOutcomes(O[e]) /\ state[e] \in States
    BY <1>1, <1>3 DEF StartedOutcomes, LockInv, TypeOK
  <2>2. QED
    BY <1>3, <2>1, StartedStaysGood DEF KeyInv
<1>4. KeyTypeOK'
  <2>1. \A e \in Entries : /\ o[e].files \in FileRec /\ o[e].known \in KnownRec
                           /\ o[e].made \in 0..MaxKeys
    BY <1>3 DEF OutcomeRec
  <2>2. QED
    BY <1>1, <1>2, <2>1 DEF KeyInv, KeyTypeOK
<1>5. ASSUME NEW e \in stored
      PROVE  KeepsKey(e)'
  BY <1>1, <1>2, <1>3, <1>5 DEF StaysGood, KeepsKey, KeyInv, LockInv, TypeOK
<1>6. QED
  BY <1>2, <1>4, <1>5 DEF KeyInv

\* Every step of the daemon, its processes and the CA preserves the invariant.
LEMMA KeysNextLemma == LockInv /\ KeyInv /\ [KeysNext]_allVars => KeyInv'
<1> SUFFICES ASSUME LockInv, KeyInv, [KeysNext]_allVars
             PROVE  KeyInv'
  OBVIOUS
<1>1. ASSUME NEW e \in Entries, RemoveRequest(e), ComesTo(e, Stopped(e))
      PROVE  KeyInv'
  BY <1>1, KeyStopLemma DEF RemoveRequest, Stop, Rewound
<1>2. ASSUME NEW e \in Entries, KeyRestart(e),
             RequestModify(e) \/ RequestRefresh(e) \/ RequestResubmit(e)
               \/ RequestRekey(e) \/ RestartEntry(e)
      PROVE  KeyInv'
  <2>1. PICK s \in Rewound(state[e]) : Stop(e, s) /\ stored' = stored
    BY <1>2 DEF RequestModify, RequestRefresh, RequestResubmit, RequestRekey,
                RestartEntry, StopAndStart, Rewound
  <2>2. e \in managed
    BY <2>1 DEF Stop
  <2>3. QED
    BY <1>2, <2>1, <2>2, KeyStopLemma
<1>3. CASE \/ NetlinkDelayed /\ UNCHANGED keyVars
           \/ \E S \in SUBSET managed : RestartEntriesByCA(S) /\ UNCHANGED keyVars
           \/ UNCHANGED allVars
  <2>1. UNCHANGED <<state, stored, files, known, made, late, forgotten>>
    BY <1>3 DEF NetlinkDelayed, RestartEntriesByCA, allVars, vars, entryVars, keyVars
  <2>2. QED
    BY <2>1 DEF KeyInv, KeyTypeOK, KeepsKey
<1>4. CASE Crash /\ KeyBoot([e \in Entries |-> Killed(e)])
  <2>1. stored' = stored /\ \A e \in Entries : state'[e] \in Rewound(state[e])
    BY <1>4 DEF Crash, Boot, Rewound
  <2>2. QED
    BY <1>4, <2>1, KeyBootLemma
<1>5. CASE ShutdownAndRestart
           /\ KeyBoot([e \in Entries |-> IF e \in managed THEN Stopped(e)
                                                           ELSE {Unchanged(e)}])
  <2>1. stored' = stored /\ \A e \in Entries : state'[e] \in Rewound(state[e])
    BY <1>5 DEF ShutdownAndRestart, Boot, Rewound
  <2>2. QED
    BY <1>5, <2>1, KeyBootLemma
<1>6. QED
  BY <1>1, <1>2, <1>3, <1>4, <1>5, KeyVisitLemma, KeyAddLemma, LateSaveLemma
  DEF KeysNext

\* There is no request at first.
LEMMA KeysInitLemma == KeysInit => KeyInv
<1> SUFFICES ASSUME KeysInit
             PROVE  KeyInv
  OBVIOUS
<1>1. files \in [Entries -> FileRec]
  BY DEF KeysInit, FileRec, Keys, None, NoFile
<1>2. made \in [Entries -> 0..MaxKeys]
  BY DEF KeysInit
<1>3. /\ known = [e \in Entries |-> NoKnowledge]
      /\ late = [e \in Entries |-> {}]
      /\ forgotten = [e \in Entries |-> FALSE]
      /\ stored = {}
  BY DEF KeysInit, Init
<1>4. NoKnowledge \in KnownRec
  BY DEF NoKnowledge, KnownRec, None
<1>5. QED
  BY <1>1, <1>2, <1>3, <1>4 DEF KeyInv, KeyTypeOK

\* The key that the CA is asked to certify is on disk, wherever rotation or
\* key generation was interrupted.
THEOREM RequestedKeyStaysOnDisk == KeysSpec => []RequestedKeyOnDisk
<1>1. KeysSpec => []LockInv
  BY KeysImplyEntries, LockInvariant, PTL
<1>2. LockInv /\ KeyInv => RequestedKeyOnDisk
  BY DEF LockInv, TypeOK, KeyInv, KeepsKey, KeyGood, SubmissionStates,
         RequestedKeyOnDisk
<1>3. QED
  BY <1>1, <1>2, KeysInitLemma, KeysNextLemma, PTL DEF KeysSpec

\* An announced certificate is in place, next to the key that it is for.
THEOREM AnnouncedKeyAlwaysMatches == KeysSpec => []AnnouncedKeyMatches
<1>1. KeysSpec => []LockInv
  BY KeysImplyEntries, LockInvariant, PTL
<1>2. LockInv /\ KeyInv => AnnouncedKeyMatches
  BY DEF LockInv, TypeOK, KeyInv, KeepsKey, KeyGood, AnnouncedKeyMatches
<1>3. QED
  BY <1>1, <1>2, KeysInitLemma, KeysNextLemma, PTL DEF KeysSpec

=============================================================================
