----------------------------- MODULE EntryKeys -----------------------------
(***************************************************************************)
(* The private keys of a request whose key and certificate are PEM files,  *)
(* on top of EntryIterate.  A new key for a request that has one is a      *)
(* candidate, in a file with a marker in its name, until the process that  *)
(* saves the certificate moves it to where the key belongs.                *)
(*                                                                         *)
(* Keys are numbered as they are generated; a marker is the number of the  *)
(* candidate it leads to, a signing request, a certificate and a cookie    *)
(* (the CA's name for a submission under way) that of the key they are for. *)
(***************************************************************************)
EXTENDS EntryIterate

CONSTANT MaxKeys    \* bound: keys generated for a request

ASSUME MaxKeysAssumption == MaxKeys \in Nat \ {0}

VARIABLES
  files,      \* key, candidates and certificate in the file system
  known,      \* what the entry has of them, as saved in the store
  made,       \* the newest key
  late,       \* <<key, certificate, marker>> of forgotten processes that save
  forgotten   \* history: there has been such a process

keyVars == <<files, known, made, late, forgotten>>
allVars == <<vars, keyVars>>

Keys   == 1..MaxKeys
None   == 0        \* nothing, or an empty file
NoFile == 0 - 1    \* there is no key file at all

-----------------------------------------------------------------------------
(***************************************************************************)
(* The helper processes.                                                   *)
(***************************************************************************)

\* The key that a request or a signature is made with, None if not there.
KeyInUse(f, k) ==
  CASE k.next_marker \in f.candidates -> k.next_marker
    [] k.next_marker = None /\ f.key \in Keys -> f.key
    [] OTHER -> None

\* What generating key n comes to.  An existing file, empty or not, is not
\* overwritten.  The previous candidate is removed last.
Generated(f, k, n) ==
  LET first == f.key = NoFile
      kept  == f.candidates \ {k.next_marker}
  IN  [f |-> IF first THEN [key |-> n, candidates |-> kept, cert |-> f.cert]
                      ELSE [f EXCEPT !.candidates = kept \cup {n}],
       k |-> [k EXCEPT !.next_marker = IF first THEN None ELSE n]]

\* The files of a generation that failed; a file that was created stays.
NotGenerated(f) ==
  {f, [f EXCEPT !.key = IF @ = NoFile THEN None ELSE @]}

\* What one that was killed may have done besides.
HalfGenerated(f, k, n) ==
  NotGenerated(f) \cup
  {Generated(f, k, n).f,
   [Generated(f, k, n).f EXCEPT !.candidates = @ \cup f.candidates]}

\* The process that saves starts by reading the key and the candidate.
CanSave(f, m) == f.key # NoFile /\ (m = None \/ m \in f.candidates)

\* Mutant: the candidate is left where it is.
NewKey_Kept(k, c, m) == k

\* What is written to the key file by a process that has read key k there,
\* for certificate c: the candidate, unless ("double-check that we're not
\* trying to rotate in a key that we won't actually be using") c is for k.
\* Then, or without a candidate, it is the file's own contents, if any.
NewKey(k, c, m) == IF m # None /\ k # c THEN m ELSE k

Completed(f, k, c, m) ==
  [key        |-> IF NewKey(k, c, m) = None THEN f.key ELSE NewKey(k, c, m),
   candidates |-> f.candidates \ {m},
   cert       |-> c]

\* How far it may have got if it fails or is killed.  A candidate of no use
\* is removed; the certificate's file is truncated, to be complete when it is
\* closed at the end; the key file is truncated and written; the candidate
\* that has become the key is removed.
Unfinished(f, k, c, m) ==
  LET before == IF k = c THEN f.candidates \ {m} ELSE f.candidates
      keys   == IF NewKey(k, c, m) = None THEN {f.key}
                                          ELSE {f.key, None, NewKey(k, c, m)}
  IN  {f, [f EXCEPT !.candidates = before],
       [Completed(f, k, c, m) EXCEPT !.cert = None]}
        \cup {[key |-> x, candidates |-> before, cert |-> None] : x \in keys}

\* The files of a process that reports success, or that reports a failure.
SavedFiles(f, c, m) ==
  IF CanSave(f, m) THEN {Completed(f, f.key, c, m)} ELSE {}
UnsavedFiles(f, c, m) ==
  IF CanSave(f, m) THEN Unfinished(f, f.key, c, m) ELSE {f}

\* A certificate that can be read from its file replaces the entry's.
ReadBack(f, k) ==
  {k} \cup (IF f.cert = None THEN {} ELSE {[k EXCEPT !.cert = f.cert]})

\* The size of a key is known once its file could be read.
ReadKey(f, k) ==
  {k} \cup (IF f.key \in Keys THEN {[k EXCEPT !.key_size = TRUE]} ELSE {})

-----------------------------------------------------------------------------
(***************************************************************************)
(* What the visits do.                                                     *)
(***************************************************************************)
Sets(e, f, k) ==
  /\ files' = [files EXCEPT ![e] = f]
  /\ known' = [known EXCEPT ![e] = k]
  /\ UNCHANGED <<late, forgotten>>

Learns(e, k) == Sets(e, files[e], k) /\ UNCHANGED made

Unmarked(k) == [k EXCEPT !.next_marker = None]

\* Without output there is no marker: after a failure the entry forgets its
\* candidate.
KeyPairGenerated(e) ==
  \/ /\ state'[e] = "HAVE_KEY_PAIR" /\ made[e] < MaxKeys
     /\ made' = [made EXCEPT ![e] = @ + 1]
     /\ LET g == Generated(files[e], known[e], made'[e]) IN Sets(e, g.f, g.k)
  \/ /\ state'[e] # "HAVE_KEY_PAIR"
     /\ \E f \in NotGenerated(files[e]) : Sets(e, f, Unmarked(known[e]))
     /\ UNCHANGED made

\* An empty key file looks like one that needs another PIN.
KeyInfoRead(e) ==
  /\ state'[e] = "HAVE_KEYINFO" => files[e].key \in Keys
  /\ state'[e] = "NEED_KEYINFO_READ_PIN" => files[e].key # NoFile
  /\ Learns(e, [known[e] EXCEPT !.key_size = @ \/ state'[e] = "HAVE_KEYINFO"])

\* Mutant: an error in opening the candidate is not noticed.
CSRGenerated_AnyKey(e) ==
  Learns(e, IF state'[e] = "HAVE_CSR"
            THEN [known[e] EXCEPT !.csr = IF known[e].next_marker # None
                                          THEN known[e].next_marker
                                          ELSE files[e].key]
            ELSE known[e])

CSRGenerated(e) ==
  \/ /\ state'[e] = "HAVE_CSR"
     /\ KeyInUse(files[e], known[e]) # None
     /\ Learns(e, [known[e] EXCEPT !.csr = KeyInUse(files[e], known[e])])
  \/ state'[e] # "HAVE_CSR" /\ Learns(e, known[e])

\* With a cookie the CA is asked what has become of what it refers to, else
\* it is given the signing request.  The cookie is cleared on every answer,
\* but for that the CA is out of reach; asking to wait gives a new one.
Submitted(e) ==
  LET k == known[e]
      asked == IF k.ca_cookie # None THEN k.ca_cookie ELSE k.csr
      answered == [k EXCEPT !.ca_cookie = None]
  IN  CASE state'[e] = "NEED_TO_SAVE_CERT" ->
             Learns(e, [answered EXCEPT !.cert = asked])
        [] state'[e] = "CA_UNREACHABLE" -> Learns(e, k)
        [] state'[e] = "CA_WORKING" -> Learns(e, [k EXCEPT !.ca_cookie = asked])
        [] state'[e] = "MONITORING" -> k.cert # None /\ Learns(e, answered)
        [] state'[e] \in {"NEED_TO_NOTIFY_REJECTION", "CA_UNCONFIGURED"} ->
             k.cert = None /\ Learns(e, answered)
        [] state'[e] = "NEED_GUIDANCE" ->
             \E c \in {k.cert, None} : Learns(e, [answered EXCEPT !.cert = c])
        [] OTHER -> Learns(e, answered)

\* The parent takes the candidate for the key once the process has succeeded.
Saved(e) ==
  LET c == known[e].cert
      m == known[e].next_marker
  IN  /\ \/ /\ state'[e] = "SAVED_CERT"
            /\ \E f \in SavedFiles(files[e], c, m) : Sets(e, f, Unmarked(known[e]))
         \/ /\ state'[e] # "SAVED_CERT"
            /\ \E f \in UnsavedFiles(files[e], c, m) : Sets(e, f, known[e])
      /\ UNCHANGED made

CertRead(e) ==
  \/ state'[e] = "NEED_GUIDANCE" /\ Learns(e, known[e])
  \/ /\ state'[e] # "NEED_GUIDANCE" /\ files[e].cert # None
     /\ Learns(e, [known[e] EXCEPT !.cert = files[e].cert])

FirstRead(e) ==
  IF state[e] = "NEWLY_ADDED_READING_KEYINFO"
  THEN \E k \in ReadKey(files[e], known[e]) : Learns(e, k)
  ELSE \E k \in ReadBack(files[e], known[e]) : Learns(e, k)

\* The request has a location for its key, and it is looked at.
FirstLook(e) ==
  state'[e] # "NEWLY_ADDED_START_READING_CERT" /\ UNCHANGED keyVars

\* "We go straight to monitoring it", or it is "enrollment using already-
\* present key", or "start with generating the key".
Decided(e) ==
  /\ known[e].cert # None
       <=> state'[e] \in {"MONITORING", "NEED_TO_SAVE_ONLY_CA_CERTS"}
  /\ state'[e] # "NEED_GUIDANCE"
  /\ state'[e] = "NEED_CSR" => known[e].key_size
  /\ state'[e] = "NEED_KEY_PAIR" => ~known[e].key_size
  /\ Learns(e, known[e])

Effects ==
  {"GENERATING_KEY_PAIR", "READING_KEYINFO", "GENERATING_CSR", "SUBMITTING",
   "SAVING_CERT", "READING_CERT", "NEWLY_ADDED", "NEWLY_ADDED_READING_KEYINFO",
   "NEWLY_ADDED_READING_CERT", "NEWLY_ADDED_DECIDING"}

KeyVisit(e) ==
  CASE state[e] = "GENERATING_KEY_PAIR" -> KeyPairGenerated(e)
    [] state[e] = "READING_KEYINFO" -> KeyInfoRead(e)
    [] state[e] = "GENERATING_CSR" -> CSRGenerated(e)
    [] state[e] = "SUBMITTING" -> Submitted(e)
    [] state[e] = "SAVING_CERT" -> Saved(e)
    [] state[e] = "READING_CERT" -> CertRead(e)
    [] state[e] = "NEWLY_ADDED" -> FirstLook(e)
    [] state[e] \in {"NEWLY_ADDED_READING_KEYINFO",
                     "NEWLY_ADDED_READING_CERT"} -> FirstRead(e)
    [] state[e] = "NEWLY_ADDED_DECIDING" -> Decided(e)
    [] state[e] \notin Effects -> UNCHANGED keyVars

-----------------------------------------------------------------------------
(***************************************************************************)
(* Stopping and starting.  Each comes to one of a set of outcomes.         *)
(***************************************************************************)
Outcome(f, k, n, l) == [files |-> f, known |-> k, made |-> n, late |-> l]

Unchanged(e) == Outcome(files[e], known[e], made[e], late[e])

\* A process that saves and is not waited for may get anywhere.
SaveOutcomes(e) ==
  LET c == known[e].cert
      m == known[e].next_marker
  IN  {[Unchanged(e) EXCEPT !.files = f] :
         f \in SavedFiles(files[e], c, m) \cup UnsavedFiles(files[e], c, m)}

\* Bound: only the first process of a request that is forgotten can be late.
CanBeLate(e) == ~forgotten[e]

\* Stopped while a key is generated: the process is waited for, but of its
\* output only what had been read is used.  Stopped while saving: the process
\* is forgotten, and here has either done its work or goes on with the key
\* that it has read.
Stopped(e) ==
  LET n == made[e] + 1
      g == Generated(files[e], known[e], n)
      c == known[e].cert
      m == known[e].next_marker
  IN  CASE state[e] = "GENERATING_KEY_PAIR" ->
             {Outcome(f, Unmarked(known[e]), made[e], late[e]) :
                f \in NotGenerated(files[e])}
             \cup {Outcome(g.f, k, n, late[e]) :
                     k \in IF n \in Keys THEN {Unmarked(known[e]), g.k} ELSE {}}
        [] state[e] = "SAVING_CERT" ->
             SaveOutcomes(e)
             \cup {[Unchanged(e) EXCEPT !.late = @ \cup {j}] :
                     j \in IF CanSave(files[e], m) /\ CanBeLate(e)
                           THEN {<<files[e].key, c, m>>} ELSE {}}
        [] OTHER -> {Unchanged(e)}

\* In a crash what the daemon knows is what it had saved.
Killed(e) ==
  LET n == made[e] + 1
  IN  CASE state[e] = "GENERATING_KEY_PAIR" ->
             {[Unchanged(e) EXCEPT !.files = f] : f \in NotGenerated(files[e])}
             \cup {Outcome(f, known[e], n, late[e]) :
                     f \in IF n \in Keys
                           THEN HalfGenerated(files[e], known[e], n) ELSE {}}
        [] state[e] = "SAVING_CERT" -> SaveOutcomes(e)
        [] OTHER -> {Unchanged(e)}

\* Starting reads the key and the certificate, whatever comes next.
Reads(f, k) == UNION {ReadBack(f, j) : j \in ReadKey(f, k)}

AfterReading(O) ==
  UNION {{[o EXCEPT !.known = k] : k \in Reads(o.files, o.known)} : o \in O}

\* The process that saves e's certificate is forgotten.
Forgets(e) ==
  forgotten' = [forgotten EXCEPT ![e] = @ \/ state[e] = "SAVING_CERT"]

ComesTo(e, O) ==
  /\ \E o \in O : /\ files' = [files EXCEPT ![e] = o.files]
                  /\ known' = [known EXCEPT ![e] = o.known]
                  /\ made'  = [made EXCEPT ![e] = o.made]
                  /\ late'  = [late EXCEPT ![e] = o.late]
  /\ Forgets(e)

KeyRestart(e) == ComesTo(e, AfterReading(Stopped(e)))

NoKnowledge ==
  [next_marker |-> None, csr |-> None, ca_cookie |-> None, cert |-> None,
   key_size |-> FALSE]

KeyAdd(e) ==
  /\ \E k \in Reads(files[e], NoKnowledge) : known' = [known EXCEPT ![e] = k]
  /\ UNCHANGED <<files, made, late, forgotten>>

\* The daemon's processes are killed with it or, at the latest, after it:
\* they are in its control group.  O[e] is what has become of e.
KeyBoot(O) ==
  LET B(e) == IF e \in stored THEN AfterReading(O[e]) ELSE O[e]
  IN  /\ \E o \in [Entries -> UNION {B(e) : e \in Entries}] :
           /\ \A e \in Entries : o[e] \in B(e)
           /\ files' = [e \in Entries |-> o[e].files]
           /\ known' = [e \in Entries |-> o[e].known]
           /\ made'  = [e \in Entries |-> o[e].made]
      /\ late' = [e \in Entries |-> {}]
      /\ UNCHANGED forgotten

\* A forgotten process goes on with key k, certificate c and marker m.
LateSave(e) ==
  /\ \E j \in late[e] :
       LET k == j[1]
           c == j[2]
           m == j[3]
       IN  /\ late' = [late EXCEPT ![e] = @ \ {j}]
           /\ \E f \in {Completed(files[e], k, c, m)}
                       \cup Unfinished(files[e], k, c, m) :
                files' = [files EXCEPT ![e] = f]
  /\ UNCHANGED <<vars, known, made, forgotten>>

\* There may already be a key where a new request wants one, and a
\* certificate for it.
KeysInit ==
  /\ Init
  /\ made \in [Entries -> {0, 1}]
  /\ files \in [Entries -> {[key |-> k, candidates |-> {}, cert |-> c] :
                              k \in {NoFile, 1}, c \in {None, 1}}]
  /\ \A e \in Entries : /\ made[e] = 1 <=> files[e].key = 1
                        /\ files[e].cert = 1 => made[e] = 1
  /\ known = [e \in Entries |-> NoKnowledge]
  /\ late = [e \in Entries |-> {}]
  /\ forgotten = [e \in Entries |-> FALSE]

KeysNext ==
  \/ \E e \in Entries :
       \/ EntryStep(e) /\ KeyVisit(e)
       \/ AddRequest(e) /\ KeyAdd(e)
       \/ RemoveRequest(e) /\ ComesTo(e, Stopped(e))
       \/ /\ RequestModify(e) \/ RequestRefresh(e) \/ RequestRekey(e)
             \/ RestartEntry(e)
          /\ KeyRestart(e)
       \/ /\ RequestResubmit(e) /\ KeyRestart(e)
          /\ state'[e] = "NEED_CSR" => known[e].key_size
       \/ LateSave(e)
  \/ NetlinkDelayed /\ UNCHANGED keyVars
  \/ \E S \in SUBSET managed : RestartEntriesByCA(S) /\ UNCHANGED keyVars
  \/ Crash /\ KeyBoot([e \in Entries |-> Killed(e)])
  \/ ShutdownAndRestart
     /\ KeyBoot([e \in Entries |-> IF e \in managed THEN Stopped(e)
                                                     ELSE {Unchanged(e)}])

KeysSpec == KeysInit /\ [][KeysNext]_allVars

-----------------------------------------------------------------------------
\* The private key that a request was signed with is on disk for as long as
\* the CA can be asked to certify it, wherever rotation or key generation
\* was interrupted: the marker is given up with the candidate or after it.
\* Only a process that saves and was forgotten can overwrite that key.
RequestedKeyOnDisk ==
  \A e \in managed :
    /\ state[e] \in {"HAVE_CSR", "NEED_TO_SUBMIT", "SUBMITTING", "CA_WORKING",
                     "CA_UNREACHABLE"}
    /\ ~forgotten[e]
    => known[e].csr \in {files[e].key} \cup files[e].candidates

\* When a certificate for the newest signing request is announced, the key
\* file has the key that it is for: the candidate was moved there before the
\* entry forgot about it, and nothing has moved since.  (A key file that an
\* interrupted save had truncated, and that has no candidate, stays empty.)
AnnouncedKeyMatches ==
  \A e \in managed :
    /\ SavingStage(state[e]) > 1
    /\ ~forgotten[e]
    /\ known[e].cert = known[e].csr
    /\ files[e].key # None
    => files[e].cert = known[e].cert /\ files[e].key = files[e].cert

(***************************************************************************)
(* What the comments say and the code does not do.                         *)
(***************************************************************************)

\* "Double-check that we're not trying to rotate in a key that we won't
\* actually be using": a candidate becomes the key only with a certificate
\* for it.  But the cookie of an earlier submission survives a new key: the
\* CA then answers with a certificate for the candidate before this one.
RotatedKeyIsUsed ==
  [][\A e \in managed :
       /\ state[e] = "SAVING_CERT" /\ state'[e] = "SAVED_CERT"
       /\ ~forgotten[e]
       /\ files[e].key # known[e].next_marker
       /\ files'[e].key = known[e].next_marker
       => files'[e].cert = files'[e].key]_allVars

=============================================================================
