-------------------------- MODULE FileStoreProofs --------------------------
(***************************************************************************)
(* Proofs about the storage, for any number of requests, CAs, versions and *)
(* files: items do not share files, and the store is as durable as         *)
(* DurableStore promises.                                                  *)
(***************************************************************************)
EXTENDS FileStore, WellFoundedInduction, TLAPS

Written == [nickname : Items, version : Versions]

Held == [file : {None} \cup Files, version : {None} \cup Versions]

TypeOK ==
    /\ clock \in Stamps
    /\ disk \in [Files -> Contents]
    /\ tmp \in Contents
    /\ item \in [Items -> Held]
    /\ saving \in {None} \cup Saves
    /\ sound \in BOOLEAN

\* The file of an item is there, in the directory where it belongs, and has
\* nothing of another item.
HasOwnFile(i) ==
    item[i].file # None =>
        /\ item[i].file[1] = Dir(i)
        /\ disk[item[i].file] # None
        /\ HasNickname(disk[item[i].file]) => disk[item[i].file].nickname = i

OwnFiles ==
    /\ \A i \in Items : HasOwnFile(i)
    /\ \A i, j \in Items :
          i # j /\ item[i].file # None => item[i].file # item[j].file

\* The save under way has a file but for its first step, and what it has
\* written so far is the item's.  Unless a failure went unseen it is all of it
\* when the file is renamed.
SavesWell(i, s) ==
    /\ s = "create" <=> item[i].file = None
    /\ s \in {"write", "close", "rename"}
         => tmp # None /\ (HasNickname(tmp) => tmp.nickname = i)
    /\ sound /\ s = "rename" => tmp = [nickname |-> i, version |-> item[i].version]
    /\ item[i].version # None

SavesOwn ==
    \A i \in Items, s \in Steps :
        saving = [item |-> i, step |-> s] => SavesWell(i, s)

\* Every file that a start would read is the file of an item in memory.
Accounted ==
    sound => \A f \in Files : HasNickname(disk[f]) => item[disk[f].nickname].file = f

StoreInv == TypeOK /\ OwnFiles /\ SavesOwn /\ Accounted

-----------------------------------------------------------------------------
(***************************************************************************)
(* Which file comes first.                                                 *)
(***************************************************************************)
LEMMA LeastNatural ==
    ASSUME NEW T \in SUBSET Nat, T # {}
    PROVE  \E n \in T : \A m \in T : n <= m
<1> DEFINE R == OpToRel(<, Nat)
<1>1. \E n \in T : \A m \in T : <<m, n>> \notin R
  <2> HIDE DEF R
  <2>1. IsWellFoundedOn(R, Nat)
    BY NatLessThanWellFounded DEF R
  <2>2. QED
    BY <2>1, WFMin
<1>2. \A m, n \in Nat : m < n => <<m, n>> \in R
  BY DEF OpToRel
<1> HIDE DEF R
<1>3. PICK n \in T : \A m \in T : <<m, n>> \notin R
  BY <1>1
<1>4. ASSUME NEW m \in T PROVE n <= m
  <2>1. m \in Nat /\ n \in Nat
    OBVIOUS
  <2>2. ~(m < n)
    BY <1>2, <1>3, <2>1
  <2>3. QED
    BY <2>1, <2>2
<1>5. QED
  BY <1>4

\* Of files in one directory, one comes before all others.
LEMMA FirstOfFiles ==
    \A d : \A S \in SUBSET Files :
        S # {} /\ (\A f \in S : f[1] = d)
          => \E f \in S : \A g \in S \ {f} : Before(f, g)
<1> SUFFICES ASSUME NEW d, NEW S \in SUBSET Files, S # {}, \A f \in S : f[1] = d
             PROVE  \E f \in S : \A g \in S \ {f} : Before(f, g)
  OBVIOUS
<1>1. ASSUME NEW f \in Files
      PROVE  f[2] \in Nat /\ f[3] \in Nat /\ f = <<f[1], f[2], f[3]>>
  <2>1. f[2] \in Stamps /\ f[3] \in 0..MaxSuffix /\ f = <<f[1], f[2], f[3]>>
    BY DEF Files
  <2>2. Stamps \subseteq Nat /\ MaxSuffix \in Nat
    BY FileStoreAssumption
  <2>3. QED
    BY <2>1, <2>2
<1> DEFINE Seconds == {f[2] : f \in S}
<1>2. PICK n \in Seconds : \A m \in Seconds : n <= m
  <2>1. Seconds \in SUBSET Nat /\ Seconds # {}
    BY <1>1
  <2> HIDE DEF Seconds
  <2>2. QED
    BY <2>1, LeastNatural
<1> DEFINE T == {f \in S : f[2] = n}
           Suffixes == {f[3] : f \in T}
<1>3. PICK k \in Suffixes : \A m \in Suffixes : k <= m
  <2>1. Suffixes \in SUBSET Nat /\ Suffixes # {}
    BY <1>1, <1>2
  <2> HIDE DEF Suffixes
  <2>2. QED
    BY <2>1, LeastNatural
<1>4. PICK f \in T : f[3] = k
  BY <1>3
<1>5. ASSUME NEW g \in S \ {f}
      PROVE  Before(f, g)
  <2>1. /\ f \in Files /\ g \in Files /\ f[1] = d /\ g[1] = d
        /\ n \in Nat /\ k \in Nat
    BY <1>1, <1>4, <1>5
  <2>2. f[2] = n /\ n <= g[2]
    BY <1>2, <1>4, <1>5
  <2>3. CASE g[2] = n
    <3>1. k <= g[3] /\ g[3] # k
      BY <1>1, <1>3, <1>4, <1>5, <2>1, <2>2, <2>3
    <3>2. QED
      BY <1>1, <1>4, <2>1, <2>2, <2>3, <3>1 DEF Before
  <2>4. CASE g[2] # n
    BY <1>1, <2>1, <2>2, <2>4 DEF Before
  <2>5. QED
    BY <2>3, <2>4
<1>6. QED
  BY <1>4, <1>5

\* The first file of an item is one of its files.
LEMMA FirstFileLemma ==
    ASSUME NEW i \in Items, FilesFor(i) # {}
    PROVE  FirstFile(i) \in FilesFor(i)
<1> DEFINE S == FilesFor(i)
<1>1. S \in SUBSET Files /\ S # {} /\ \A f \in S : f[1] = Dir(i)
  BY DEF FilesFor
<1> HIDE DEF S
<1>2. \E f \in S : \A g \in S \ {f} : Before(f, g)
  BY <1>1, FirstOfFiles
<1>3. QED
  BY <1>2 DEF FirstFile, FirstOf, S

\* The name that is taken for a new file is one that can be taken.
LEMMA FirstCandidateLemma ==
    ASSUME NEW i \in Items, Candidates(i) # {}
    PROVE  FirstOf(Candidates(i)) \in Candidates(i)
<1> DEFINE S == Candidates(i)
<1>1. S \in SUBSET Files /\ S # {} /\ \A f \in S : f[1] = Dir(i)
  BY DEF Candidates
<1> HIDE DEF S
<1>2. \E f \in S : \A g \in S \ {f} : Before(f, g)
  BY <1>1, FirstOfFiles
<1>3. QED
  BY <1>2 DEF FirstOf, S

-----------------------------------------------------------------------------
(***************************************************************************)
(* The invariant.                                                          *)
(***************************************************************************)
LEMMA ContentsLemma ==
    /\ \A c \in Contents : HasNickname(c) => c \in Written
    /\ Written \subseteq Contents /\ \A c \in Written : HasNickname(c) /\ c # None
    /\ None # Empty /\ ~HasNickname(None) /\ ~HasNickname(Empty)
    /\ {None, Empty} \subseteq Contents
BY FileStoreAssumption, NoneAssumption DEF Contents, HasNickname, Written

\* Nothing is asked of a save that is not under way...
LEMMA NoSave == saving' = None => SavesOwn'
BY NoneAssumption DEF SavesOwn, Saves

\* ...and of the one that is, no more than what is known of it.
LEMMA OneSave ==
    ASSUME NEW i, NEW s, saving' = [item |-> i, step |-> s], SavesWell(i, s)'
    PROVE  SavesOwn'
BY DEF SavesOwn

\* A change to the versions in memory, to the save under way or to its file
\* does not touch the files.
LEMMA SameFiles ==
    ASSUME StoreInv, disk' = disk, \A i \in Items : item'[i].file = item[i].file,
           sound' => sound
    PROVE  OwnFiles' /\ Accounted'
BY ContentsLemma DEF StoreInv, TypeOK, OwnFiles, HasOwnFile, Accounted, Written

\* cm_store_entry_save and cm_store_ca_save, as far as choosing the file.
LEMMA SaveLemma ==
    ASSUME StoreInv, NEW i \in Items, NEW v \in Values, SaveEntry(i, v) \/ SaveCA(i, v)
    PROVE  StoreInv'
<1>1. /\ item' = [item EXCEPT ![i].version = v] /\ StartSaving(i)
      /\ UNCHANGED <<clock, disk, tmp, sound>>
  BY DEF SaveEntry, SaveCA
<1>2. /\ item' \in [Items -> Held] /\ item'[i].version = v
      /\ \A j \in Items : item'[j].file = item[j].file
  BY <1>1 DEF StoreInv, TypeOK, Held, Versions
<1>3. PICK s \in {"create", "open"} : /\ saving' = [item |-> i, step |-> s]
                                      /\ s = "create" <=> item[i].file = None
  BY <1>1 DEF StartSaving
<1>4. TypeOK'
  BY <1>1, <1>2, <1>3 DEF StoreInv, TypeOK, Saves, Steps
<1>5. SavesOwn'
  <2>1. SavesWell(i, s)'
    BY <1>2, <1>3, FileStoreAssumption DEF SavesWell
  <2>2. QED
    BY <1>3, <2>1, OneSave
<1>6. QED
  BY <1>1, <1>2, <1>4, <1>5, SameFiles DEF StoreInv

\* The name that is taken for a new file is nobody's.
LEMMA CreateLemma ==
    ASSUME StoreInv, NEW i \in Items, Create(i)
    PROVE  StoreInv'
<1>0. /\ saving = [item |-> i, step |-> "create"]
      /\ item[i].file = None /\ item[i].version # None
  BY DEF Create, StoreInv, SavesOwn, SavesWell, Steps
<1>1. CASE SaveDone /\ UNCHANGED <<clock, disk, tmp, item, sound>>
  <2>1. TypeOK'
    BY <1>1 DEF SaveDone, StoreInv, TypeOK
  <2>2. QED
    BY <1>1, <2>1, NoSave, SameFiles DEF SaveDone, StoreInv
<1>2. ASSUME ~(SaveDone /\ UNCHANGED <<clock, disk, tmp, item, sound>>)
      PROVE  StoreInv'
  <2> DEFINE S == Candidates(i)
             f == FirstOf(Candidates(i))
  <2>1. /\ S # {}
        /\ disk' = [disk EXCEPT ![f] = Empty]
        /\ item' = [item EXCEPT ![i].file = f]
        /\ StepTo("open") /\ UNCHANGED <<clock, tmp, sound>>
    BY <1>2 DEF Create
  <2>3. f \in S
    BY <2>1, FirstCandidateLemma
  <2>4. f \in Files /\ f[1] = Dir(i) /\ disk[f] = None
    BY <2>3 DEF Candidates
  <2> HIDE DEF f, S
  <2>5. /\ item' \in [Items -> Held]
        /\ item'[i].file = f /\ item'[i].version # None
        /\ \A j \in Items \ {i} : item'[j] = item[j]
    BY <1>0, <2>1, <2>4 DEF StoreInv, TypeOK, Held
  <2>6. /\ disk' \in [Files -> Contents] /\ disk'[f] = Empty
        /\ \A g \in Files \ {f} : disk'[g] = disk[g]
    BY <2>1, <2>4, ContentsLemma DEF StoreInv, TypeOK
  <2>7. saving' = [item |-> i, step |-> "open"]
    BY <1>0, <2>1 DEF StepTo
  <2>8. TypeOK'
    BY <2>1, <2>5, <2>6, <2>7 DEF StoreInv, TypeOK, Saves, Steps
  <2>9. \A j \in Items \ {i} : item[j].file # f
    BY <2>4, NoneAssumption DEF StoreInv, OwnFiles, HasOwnFile
  <2>10. OwnFiles'
    <3>1. HasOwnFile(i)'
      BY <2>4, <2>5, <2>6, ContentsLemma DEF HasOwnFile
    <3>2. ASSUME NEW j \in Items \ {i}
          PROVE  HasOwnFile(j)'
      <4>1. item'[j] = item[j] /\ item[j].file # f /\ item[j].file \in {None} \cup Files
        BY <2>5, <2>9, <3>2 DEF StoreInv, TypeOK, Held
      <4>2. QED
        BY <2>6, <3>2, <4>1 DEF StoreInv, OwnFiles, HasOwnFile
    <3>3. \A j, k \in Items : j # k /\ item'[j].file # None
                                => item'[j].file # item'[k].file
      BY <2>5, <2>9 DEF StoreInv, OwnFiles
    <3>4. QED
      BY <3>1, <3>2, <3>3 DEF OwnFiles
  <2>11. Accounted'
    <3> SUFFICES ASSUME sound, NEW g \in Files, HasNickname(disk'[g])
                 PROVE  item'[disk'[g].nickname].file = g
      BY <2>1 DEF Accounted
    <3>1. g # f /\ disk'[g] = disk[g] /\ disk[g] \in Written
      BY <2>6, ContentsLemma DEF StoreInv, TypeOK
    <3>2. disk[g].nickname \in Items /\ item[disk[g].nickname].file = g
      BY <3>1, ContentsLemma DEF StoreInv, Accounted, Written
    <3>3. disk[g].nickname # i
      BY <1>0, <3>2, NoneAssumption
    <3>4. QED
      BY <2>5, <3>1, <3>2, <3>3
  <2>12. SavesOwn'
    <3>1. SavesWell(i, "open")'
      BY <2>4, <2>5, NoneAssumption DEF SavesWell
    <3>2. QED
      BY <2>7, <3>1, OneSave
  <2>13. QED
    BY <2>8, <2>10, <2>11, <2>12 DEF StoreInv
<1>3. QED
  BY <1>1, <1>2

\* The steps of a save before the last only write to the .tmp file, or give
\* the save up.
LEMMA TmpLemma ==
    ASSUME StoreInv, UNCHANGED <<clock, disk, item>>, tmp' \in Contents,
           sound' \in BOOLEAN, sound' => sound,
           \/ saving' = None
           \/ \E i \in Items, s \in Steps :
                saving' = [item |-> i, step |-> s] /\ SavesWell(i, s)'
    PROVE  StoreInv'
<1>1. TypeOK'
  BY DEF StoreInv, TypeOK, Saves
<1>2. SavesOwn'
  BY NoSave, OneSave
<1>3. QED
  BY <1>1, <1>2, SameFiles DEF StoreInv

\* Opening the temporary file, or failing to.
LEMMA OpenLemma ==
    ASSUME StoreInv, NEW i \in Items, Open(i)
    PROVE  StoreInv'
<1>1. SavesWell(i, "open")
  BY DEF Open, StoreInv, SavesOwn, Steps
<1>2. CASE tmp' = Empty /\ StepTo("write")
  <2>1. saving' = [item |-> i, step |-> "write"]
    BY <1>2 DEF Open, StepTo
  <2>2. SavesWell(i, "write")'
    BY <1>1, <1>2, ContentsLemma DEF Open, SavesWell
  <2>3. QED
    BY <1>2, <2>1, <2>2, TmpLemma, ContentsLemma DEF Open, Steps, StoreInv, TypeOK
<1>3. CASE SaveDone /\ UNCHANGED tmp
  BY <1>3, TmpLemma DEF Open, SaveDone, StoreInv, TypeOK
<1>4. QED
  BY <1>2, <1>3 DEF Open

\* Writing it, all or some of it.
LEMMA WriteLemma ==
    ASSUME StoreInv, NEW i \in Items, Write(i)
    PROVE  StoreInv'
<1>1. SavesWell(i, "write")
  BY DEF Write, StoreInv, SavesOwn, Steps
<1>2. CASE tmp' \in {Empty, [nickname |-> i, version |-> Partial]} /\ StepTo("close")
  <2>1. saving' = [item |-> i, step |-> "close"]
    BY <1>2 DEF Write, StepTo
  <2>2. [nickname |-> i, version |-> Partial] \in Written
    BY DEF Written, Versions
  <2>3. tmp' \in Contents /\ tmp' # None /\ (HasNickname(tmp') => tmp'.nickname = i)
    BY <1>2, <2>2, ContentsLemma
  <2>4. SavesWell(i, "close")'
    BY <1>1, <2>3 DEF Write, SavesWell
  <2>5. QED
    BY <2>1, <2>3, <2>4, TmpLemma DEF Write, Steps, StoreInv, TypeOK
<1>3. CASE tmp' = None /\ SaveDone
  BY <1>3, TmpLemma, ContentsLemma DEF Write, SaveDone, StoreInv, TypeOK
<1>4. QED
  BY <1>2, <1>3 DEF Write

\* Closing it, with an error that nobody looks at.
LEMMA CloseLemma ==
    ASSUME StoreInv, NEW i \in Items, Close(i)
    PROVE  StoreInv'
<1>1. SavesWell(i, "close") /\ saving' = [item |-> i, step |-> "rename"]
  BY DEF Close, StepTo, StoreInv, SavesOwn, Steps
<1>2. item[i].version \in Versions
  BY <1>1 DEF SavesWell, StoreInv, TypeOK, Held
<1>3. [nickname |-> i, version |-> item[i].version] \in Written
  BY <1>2 DEF Written
<1>4. /\ tmp' \in Contents /\ tmp' # None
      /\ HasNickname(tmp') => tmp'.nickname = i
      /\ sound' => tmp' = [nickname |-> i, version |-> item[i].version]
      /\ sound' \in BOOLEAN /\ (sound' => sound)
  <2> DEFINE r == [nickname |-> i, version |-> item[i].version]
  <2>1. r \in Contents /\ r # None /\ r.nickname = i
    BY <1>3, ContentsLemma
  <2>2. CASE tmp' = r /\ UNCHANGED sound
    BY <2>1, <2>2 DEF StoreInv, TypeOK
  <2>3. CASE UNCHANGED tmp /\ sound' = FALSE
    BY <1>1, <2>3 DEF SavesWell, StoreInv, TypeOK
  <2>4. QED
    BY <2>2, <2>3 DEF Close
<1>5. SavesWell(i, "rename")'
  BY <1>1, <1>4 DEF Close, SavesWell
<1>6. QED
  BY <1>1, <1>4, <1>5, TmpLemma DEF Close, Steps

\* The file that is replaced is the item's own.
LEMMA RenameLemma ==
    ASSUME StoreInv, NEW i \in Items, Rename(i)
    PROVE  StoreInv'
<1> DEFINE f == item[i].file
<1>0. /\ SavesWell(i, "rename") /\ HasOwnFile(i)
      /\ saving' = None /\ tmp' = None /\ UNCHANGED <<clock, item, sound>>
  BY DEF Rename, SaveDone, StoreInv, SavesOwn, OwnFiles, Steps
<1>1. CASE disk' = disk
  BY <1>0, <1>1, TmpLemma, ContentsLemma DEF StoreInv, TypeOK
<1>2. CASE disk' = [disk EXCEPT ![f] = tmp]
  <2>1. f \in Files /\ f[1] = Dir(i) /\ tmp # None
        /\ (HasNickname(tmp) => tmp.nickname = i)
    BY <1>0 DEF SavesWell, HasOwnFile, StoreInv, TypeOK, Held
  <2>2. /\ disk' \in [Files -> Contents] /\ disk'[f] = tmp
        /\ \A g \in Files \ {f} : disk'[g] = disk[g]
    BY <1>2, <2>1 DEF StoreInv, TypeOK
  <2>3. TypeOK'
    BY <1>0, <2>2, ContentsLemma DEF StoreInv, TypeOK
  <2>4. OwnFiles'
    <3>1. ASSUME NEW j \in Items
          PROVE  HasOwnFile(j)'
      <4>1. item[j].file \in {None} \cup Files
        BY DEF StoreInv, TypeOK, Held
      <4>2. CASE j = i
        BY <1>0, <2>1, <2>2, <4>2 DEF HasOwnFile
      <4>3. CASE j # i
        BY <1>0, <2>1, <2>2, <4>1, <4>3, NoneAssumption DEF StoreInv, OwnFiles, HasOwnFile
      <4>4. QED
        BY <4>2, <4>3
    <3>2. QED
      BY <1>0, <3>1 DEF StoreInv, OwnFiles
  <2>5. Accounted'
    <3> SUFFICES ASSUME sound, NEW g \in Files, HasNickname(disk'[g])
                 PROVE  item[disk'[g].nickname].file = g
      BY <1>0 DEF Accounted
    <3>1. CASE g = f
      BY <2>1, <2>2, <3>1
    <3>2. CASE g # f
      BY <2>2, <3>2 DEF StoreInv, Accounted
    <3>3. QED
      BY <3>1, <3>2
  <2>6. QED
    BY <1>0, <2>3, <2>4, <2>5, NoSave DEF StoreInv
<1>3. QED
  BY <1>1, <1>2 DEF Rename

\* Nothing is known of a file that was removed but by the item it belonged to.
LEMMA DeleteLemma ==
    ASSUME StoreInv, NEW i \in Items, Delete(i)
    PROVE  StoreInv'
<1> DEFINE f == item[i].file
<1>0. /\ saving' = None /\ UNCHANGED <<clock, tmp>>
      /\ item' = [item EXCEPT ![i] = Absent]
  BY DEF Delete
<1>1. f \in {None} \cup Files
  BY DEF StoreInv, TypeOK, Held
<1>2. /\ item' \in [Items -> Held] /\ item'[i].file = None
      /\ \A j \in Items \ {i} : item'[j] = item[j]
  BY <1>0 DEF StoreInv, TypeOK, Held, Absent
<1>3. /\ disk' \in [Files -> Contents]
      /\ \A g \in Files : g # f => disk'[g] = disk[g]
  BY ContentsLemma DEF Delete, StoreInv, TypeOK
<1>4. TypeOK'
  BY <1>0, <1>2, <1>3 DEF Delete, StoreInv, TypeOK
<1>5. OwnFiles'
  <2>1. ASSUME NEW j \in Items \ {i}
        PROVE  HasOwnFile(j)'
    <3>1. item'[j] = item[j] /\ item[j].file \in {None} \cup Files
      BY <1>2 DEF StoreInv, TypeOK, Held
    <3>2. item[j].file # None => item[j].file # f
      BY DEF StoreInv, OwnFiles
    <3>3. QED
      BY <1>3, <3>1, <3>2 DEF StoreInv, OwnFiles, HasOwnFile
  <2>2. HasOwnFile(i)'
    BY <1>2 DEF HasOwnFile
  <2>3. QED
    BY <1>2, <2>1, <2>2 DEF StoreInv, OwnFiles
<1>6. Accounted'
  <2> SUFFICES ASSUME sound', NEW g \in Files, HasNickname(disk'[g])
               PROVE  item'[disk'[g].nickname].file = g
    BY DEF Accounted
  <2>1. sound /\ (f # None => disk' = [disk EXCEPT ![f] = None])
    BY DEF Delete, StoreInv, TypeOK
  <2>2. g # f
    BY <1>1, <2>1, ContentsLemma, NoneAssumption DEF StoreInv, TypeOK
  <2>3. disk'[g] = disk[g] /\ disk[g] \in Written
    BY <1>3, <2>2, ContentsLemma DEF StoreInv, TypeOK
  <2>4. disk[g].nickname \in Items /\ item[disk[g].nickname].file = g
    BY <2>1, <2>3, ContentsLemma DEF StoreInv, Accounted, Written
  <2>5. QED
    BY <1>2, <2>2, <2>3, <2>4
<1>7. QED
  BY <1>0, <1>4, <1>5, <1>6, NoSave DEF StoreInv

\* What a start reads is what there is; only files that it would not read for
\* any item can be removed.
LEMMA RestartLemma ==
    ASSUME StoreInv, Restart
    PROVE  StoreInv'
<1>0. PICK kept \in SUBSET Duplicates :
        disk' = [f \in Files |-> IF f \in Duplicates \ kept THEN None ELSE disk[f]]
  BY DEF Restart
<1>1. /\ saving' = None /\ tmp' = None /\ UNCHANGED <<clock, sound>>
      /\ \A i \in Items : item'[i] = Loaded(i)
      /\ item' = [i \in Items |-> item'[i]]
  BY DEF Restart, LoadEntries, LoadCAs, Items
<1>2. disk' \in [Files -> Contents]
  BY <1>0, ContentsLemma DEF StoreInv, TypeOK
<1>3. ASSUME NEW i \in Items
      PROVE  /\ item'[i] \in Held
             /\ item'[i].file # None => item'[i].file \in FilesFor(i)
             /\ item'[i].file = IF FilesFor(i) = {} THEN None ELSE FirstFile(i)
  <2>1. CASE FilesFor(i) = {}
    <3>1. item'[i] = BuiltIn(i)
      BY <1>1, <2>1 DEF Loaded
    <3>2. QED
      BY <2>1, <3>1 DEF BuiltIn, Absent, Held, Versions
  <2>2. CASE FilesFor(i) # {}
    <3> DEFINE f == FirstFile(i)
    <3>1. f \in FilesFor(i) /\ item'[i] = [file |-> f, version |-> disk[f].version]
      BY <1>1, <2>2, FirstFileLemma DEF Loaded
    <3>2. f \in Files /\ disk[f] \in Written
      BY <3>1, ContentsLemma DEF FilesFor, StoreInv, TypeOK
    <3>3. disk[f].version \in Versions
      BY <3>2 DEF Written
    <3>4. QED
      BY <2>2, <3>1, <3>2, <3>3 DEF Held
  <2>3. QED
    BY <2>1, <2>2
<1>4. ASSUME NEW i \in Items, item'[i].file # None
      PROVE  LET f == item'[i].file
             IN  /\ f \in Files /\ f[1] = Dir(i)
                 /\ disk'[f] = disk[f] /\ HasNickname(disk[f]) /\ disk[f].nickname = i
  <2> DEFINE f == item'[i].file
  <2>1. f = FirstFile(i) /\ f \in FilesFor(i)
    BY <1>3, <1>4
  <2>2. /\ f \in Files /\ f[1] = Dir(i)
        /\ HasNickname(disk[f]) /\ disk[f].nickname = i
    BY <2>1 DEF FilesFor
  <2>3. f \notin Duplicates
    BY <2>1, <2>2 DEF Duplicates
  <2>4. QED
    BY <1>0, <2>2, <2>3
<1>5. TypeOK'
  BY <1>1, <1>2, <1>3, ContentsLemma DEF StoreInv, TypeOK
<1>6. OwnFiles'
  <2>1. \A i \in Items : HasOwnFile(i)'
    BY <1>4, ContentsLemma DEF HasOwnFile
  <2>2. QED
    BY <1>4, <2>1 DEF OwnFiles
<1>7. Accounted'
  <2> SUFFICES ASSUME sound, NEW g \in Files, HasNickname(disk'[g])
               PROVE  item'[disk'[g].nickname].file = g
    BY <1>1 DEF Accounted
  <2>1. g \notin Duplicates \/ g \in kept
    BY <1>0, ContentsLemma
  <2>2. disk'[g] = disk[g] /\ disk[g] \in Written
    BY <1>0, <2>1, ContentsLemma DEF StoreInv, TypeOK
  <2> DEFINE n == disk[g].nickname
  <2>3. n \in Items /\ item[n].file = g
    BY <2>2, ContentsLemma DEF StoreInv, Accounted, Written
  <2>4. g \in FilesFor(n)
    BY <2>2, <2>3, ContentsLemma, NoneAssumption DEF FilesFor, StoreInv, OwnFiles, HasOwnFile
  <2>5. \A h \in FilesFor(n) : h = g
    <3>1. ASSUME NEW h \in FilesFor(n)
          PROVE  h = g
      <4>1. h \in Files /\ HasNickname(disk[h]) /\ disk[h].nickname = n
        BY <3>1 DEF FilesFor
      <4>2. item[n].file = h
        BY <4>1 DEF StoreInv, Accounted
      <4>3. QED
        BY <2>3, <4>2
    <3>2. QED
      BY <3>1
  <2>6. item'[n].file = FirstFile(n) /\ FirstFile(n) \in FilesFor(n)
    BY <1>3, <2>3, <2>4, FirstFileLemma
  <2>7. QED
    BY <2>2, <2>5, <2>6
<1>8. QED
  BY <1>1, <1>5, <1>6, <1>7, NoSave DEF StoreInv

\* The clock, which names new files, may do as it likes.
LEMMA TickLemma ==
    ASSUME StoreInv, Tick \/ UNCHANGED vars
    PROVE  StoreInv'
<1>1. UNCHANGED <<disk, tmp, item, saving, sound>> /\ clock' \in Stamps
  BY DEF Tick, vars, StoreInv, TypeOK
<1>2. QED
  BY <1>1 DEF StoreInv, TypeOK, OwnFiles, HasOwnFile, SavesOwn, SavesWell, Accounted

\* A first start finds no files.
LEMMA StoreInitLemma == Init => StoreInv
<1> SUFFICES ASSUME Init
             PROVE  StoreInv
  OBVIOUS
<1>1. \A i \in Items : BuiltIn(i) \in Held /\ BuiltIn(i).file = None
  BY DEF BuiltIn, Absent, Held, Versions
<1>2. TypeOK
  BY <1>1, ContentsLemma DEF Init, TypeOK
<1>3. OwnFiles
  BY <1>1 DEF Init, OwnFiles, HasOwnFile
<1>4. SavesOwn
  BY NoneAssumption DEF Init, SavesOwn, Saves
<1>5. Accounted
  BY ContentsLemma DEF Init, Accounted
<1>6. QED
  BY <1>2, <1>3, <1>4, <1>5 DEF StoreInv

\* Every step of the store keeps the invariant.
LEMMA StoreNextLemma == StoreInv /\ [Next]_vars => StoreInv'
BY SaveLemma, CreateLemma, OpenLemma, WriteLemma, CloseLemma, RenameLemma,
   DeleteLemma, RestartLemma, TickLemma
DEF Next, SaveStep, DeleteEntry, DeleteCA

\* Whatever fails and whenever the daemon is killed, an item that has a file
\* has one of its own, which holds what was last saved of it, unless something
\* was not noticed.
THEOREM StoreInvariant == Spec => []StoreInv
BY StoreInitLemma, StoreNextLemma, PTL DEF Spec

\* No two items write to the same file, and none reads another's, whatever
\* names are free, whatever fails and whenever the daemon is killed.
THEOREM FilesAreNeverShared == Spec => []FilesAreNotShared
<1>1. StoreInv => FilesAreNotShared
  BY DEF StoreInv, OwnFiles, HasOwnFile, FilesAreNotShared
<1>2. QED
  BY <1>1, StoreInvariant, PTL

-----------------------------------------------------------------------------
(***************************************************************************)
(* The store is durable: each step is one of DurableStore's or none.       *)
(***************************************************************************)
Stored == [i \in Items |-> OnDisk(i)]
Wanted == [i \in Items |-> item[i].version]

\* A start reads the same of an item whose files are the same.
LEMMA SameReads ==
    ASSUME NEW i \in Items, FilesFor(i)' = FilesFor(i),
           \A f \in FilesFor(i) : disk'[f] = disk[f]
    PROVE  OnDisk(i)' = OnDisk(i)
<1>1. FirstFile(i)' = FirstFile(i)
  BY DEF FirstFile
<1>2. QED
  BY <1>1, FirstFileLemma DEF OnDisk

\* What changes of a file that has nothing to be read, and will have nothing,
\* is not noticed.
LEMMA UnreadFile ==
    ASSUME StoreInv, NEW f \in Files, NEW c, ~HasNickname(c), ~HasNickname(disk[f]),
           disk' = [disk EXCEPT ![f] = c]
    PROVE  Stored' = Stored
<1>1. ASSUME NEW i \in Items
      PROVE  OnDisk(i)' = OnDisk(i)
  <2>1. \A g \in Files : g # f => disk'[g] = disk[g]
    BY DEF StoreInv, TypeOK
  <2>2. disk'[f] = c
    BY DEF StoreInv, TypeOK
  <2>3. FilesFor(i)' = FilesFor(i) /\ \A g \in FilesFor(i) : disk'[g] = disk[g]
    BY <2>1, <2>2 DEF FilesFor
  <2>4. QED
    BY <2>3, SameReads
<1>2. QED
  BY <1>1 DEF Stored

\* As long as nothing fails unseen, an item has no file but its own.
LEMMA OneFile ==
    ASSUME StoreInv, sound, NEW i \in Items
    PROVE  /\ FilesFor(i) \subseteq {item[i].file}
           /\ FilesFor(i) # {} => FirstFile(i) = item[i].file
<1>1. FilesFor(i) \subseteq {item[i].file}
  BY DEF FilesFor, StoreInv, Accounted
<1>2. QED
  BY <1>1, FirstFileLemma

\* A file that is replaced as a whole commits what is wanted of its item.
LEMMA RenameCommits ==
    ASSUME StoreInv, sound, NEW i \in Items, Rename(i), disk' # disk
    PROVE  Stored' = [Stored EXCEPT ![i] = Wanted[i]] /\ Wanted' = Wanted
<1> DEFINE f == item[i].file
           r == [nickname |-> i, version |-> item[i].version]
<1>0. /\ SavesWell(i, "rename") /\ HasOwnFile(i) /\ item' = item /\ sound' = sound
      /\ disk' = [disk EXCEPT ![f] = r]
  BY DEF Rename, StoreInv, SavesOwn, SavesWell, OwnFiles, Steps
<1>1. /\ f \in Files /\ f[1] = Dir(i)
      /\ disk'[f] = r /\ HasNickname(r) /\ r.nickname = i
      /\ \A g \in Files \ {f} : disk'[g] = disk[g]
  <2>1. f \in Files /\ f[1] = Dir(i) /\ item[i].version \in Versions
    BY <1>0 DEF SavesWell, HasOwnFile, StoreInv, TypeOK, Held
  <2>2. r \in Written
    BY <2>1 DEF Written
  <2>3. QED
    BY <1>0, <2>1, <2>2, ContentsLemma DEF StoreInv, TypeOK
<1>2. OnDisk(i)' = item[i].version
  <2>1. FilesFor(i)' = {f}
    <3>1. f \in FilesFor(i)'
      BY <1>1 DEF FilesFor
    <3>2. ASSUME NEW g \in FilesFor(i)'
          PROVE  g = f
      <4>1. g \in Files /\ HasNickname(disk'[g]) /\ disk'[g].nickname = i /\ g[1] = Dir(i)
        BY DEF FilesFor
      <4>2. g # f => g \in FilesFor(i)
        BY <1>1, <4>1 DEF FilesFor
      <4>3. QED
        BY <4>2, OneFile
    <3>3. QED
      BY <3>1, <3>2
  <2>2. FirstFile(i)' \in FilesFor(i)'
    BY <2>1 DEF FirstFile, FirstOf
  <2>3. QED
    BY <1>1, <2>1, <2>2 DEF OnDisk
<1>3. ASSUME NEW j \in Items \ {i}
      PROVE  OnDisk(j)' = OnDisk(j)
  <2>1. disk[f] # None /\ (HasNickname(disk[f]) => disk[f].nickname = i)
    BY <1>1, NoneAssumption, <1>0 DEF HasOwnFile
  <2>2. FilesFor(j)' = FilesFor(j) /\ \A g \in FilesFor(j) : disk'[g] = disk[g]
    BY <1>1, <2>1 DEF FilesFor
  <2>3. QED
    BY <2>2, SameReads
<1>4. QED
  BY <1>0, <1>2, <1>3 DEF Stored, Wanted

\* The steps of DurableStore, for what is stored and wanted here.
LEMMA DurableSteps ==
    ASSUME \/ UNCHANGED <<Stored, Wanted, sound>>
           \/ ~sound'
           \/ \E i \in Items, v \in Values :
                Wanted' = [Wanted EXCEPT ![i] = v] /\ UNCHANGED <<Stored, sound>>
           \/ \E i \in Items :
                Stored' = [Stored EXCEPT ![i] = Wanted[i]] /\ UNCHANGED <<Wanted, sound>>
           \/ \E i \in Items : /\ Wanted' = [Wanted EXCEPT ![i] = None]
                               /\ Stored' = [Stored EXCEPT ![i] = None]
                               /\ UNCHANGED sound
           \/ /\ Wanted' = [i \in Items |-> IF Stored[i] = None /\ i \in Builtin
                                            THEN Default ELSE Stored[i]]
              /\ UNCHANGED <<Stored, sound>>
    PROVE  [Durable!StoreNext]_Durable!storeVars
BY DEF Stored, Wanted, Durable!StoreNext, Durable!storeVars, Durable!Want,
       Durable!Commit, Durable!Remove, Durable!Restart, Durable!Found

\* Saving is what makes a version wanted, before anything is written.
LEMMA SaveWants ==
    ASSUME StoreInv, NEW i \in Items, NEW v \in Values, SaveEntry(i, v) \/ SaveCA(i, v)
    PROVE  Wanted' = [Wanted EXCEPT ![i] = v] /\ UNCHANGED <<Stored, sound>>
<1>1. item' = [item EXCEPT ![i].version = v] /\ UNCHANGED <<disk, sound>>
  BY DEF SaveEntry, SaveCA
<1>2. Wanted' = [Wanted EXCEPT ![i] = v]
  BY <1>1 DEF Wanted, StoreInv, TypeOK, Held
<1>3. Stored' = Stored
  <2>1. \A j \in Items : FilesFor(j)' = FilesFor(j)
    BY <1>1 DEF FilesFor
  <2>2. QED
    BY <1>1, <2>1, SameReads DEF Stored
<1>4. QED
  BY <1>1, <1>2, <1>3

\* The new file of an item is empty, and is not read.
LEMMA CreateIsUnseen ==
    ASSUME StoreInv, NEW i \in Items, Create(i)
    PROVE  UNCHANGED <<Stored, Wanted, sound>>
<1>1. CASE UNCHANGED <<disk, item, sound>>
  <2>1. \A j \in Items : FilesFor(j)' = FilesFor(j)
    BY <1>1 DEF FilesFor
  <2>2. QED
    BY <1>1, <2>1, SameReads DEF Stored, Wanted
<1>2. CASE ~UNCHANGED <<disk, item, sound>>
  <2> DEFINE f == FirstOf(Candidates(i))
  <2>1. /\ Candidates(i) # {} /\ disk' = [disk EXCEPT ![f] = Empty]
        /\ item' = [item EXCEPT ![i].file = f] /\ sound' = sound
    BY <1>2 DEF Create
  <2>2. f \in Files /\ disk[f] = None
    BY <2>1, FirstCandidateLemma DEF Candidates
  <2> HIDE DEF f
  <2>3. Stored' = Stored
    BY <2>1, <2>2, UnreadFile, ContentsLemma
  <2>4. Wanted' = Wanted
    BY <2>1, <2>2 DEF Wanted, StoreInv, TypeOK, Held
  <2>5. QED
    BY <2>1, <2>3, <2>4
<1>3. QED
  BY <1>1, <1>2

\* An item and all that a start would read of it are gone together.
LEMMA DeleteRemoves ==
    ASSUME StoreInv, NEW i \in Items, Delete(i), sound'
    PROVE  /\ Wanted' = [Wanted EXCEPT ![i] = None]
           /\ Stored' = [Stored EXCEPT ![i] = None]
           /\ UNCHANGED sound
<1> DEFINE f == item[i].file
<1>0. /\ sound /\ sound' = sound /\ item' = [item EXCEPT ![i] = Absent]
      /\ f \in {None} \cup Files
      /\ f # None => disk' = [disk EXCEPT ![f] = None]
      /\ f = None => disk' = disk
  BY DEF Delete, StoreInv, TypeOK, Held
<1>1. Wanted' = [Wanted EXCEPT ![i] = None]
  BY <1>0 DEF Wanted, Absent, StoreInv, TypeOK
<1>2. /\ \A g \in Files : g # f => disk'[g] = disk[g]
      /\ f \in Files => ~HasNickname(disk'[f])
  BY <1>0, ContentsLemma, NoneAssumption DEF StoreInv, TypeOK
<1>3. OnDisk(i)' = None
  <2>1. \A g \in FilesFor(i)' : g \in Files /\ g # f /\ g \in FilesFor(i)
    BY <1>2 DEF FilesFor
  <2>2. FilesFor(i)' = {}
    BY <1>0, <2>1, OneFile
  <2>3. QED
    BY <2>2 DEF OnDisk
<1>4. ASSUME NEW j \in Items \ {i}
      PROVE  OnDisk(j)' = OnDisk(j)
  <2>1. f \in Files => (HasNickname(disk[f]) => disk[f].nickname = i)
    BY NoneAssumption DEF StoreInv, OwnFiles, HasOwnFile
  <2>2. FilesFor(j)' = FilesFor(j) /\ \A g \in FilesFor(j) : disk'[g] = disk[g]
    BY <1>2, <2>1 DEF FilesFor
  <2>3. QED
    BY <2>2, SameReads
<1>5. Stored' = [Stored EXCEPT ![i] = None]
  BY <1>3, <1>4 DEF Stored
<1>6. QED
  BY <1>0, <1>1, <1>5

\* A start finds what is stored, and changes none of it.
LEMMA RestartFinds ==
    ASSUME StoreInv, Restart, sound
    PROVE  /\ Wanted' = [i \in Items |-> IF Stored[i] = None /\ i \in Builtin
                                         THEN Default ELSE Stored[i]]
           /\ UNCHANGED <<Stored, sound>>
<1>1. sound' = sound /\ item' = [i \in Items |-> Loaded(i)]
  BY DEF Restart, LoadEntries, LoadCAs, Items
<1>2. Duplicates = {}
  <2>1. ASSUME NEW f \in Files, HasNickname(disk[f])
        PROVE  f = FirstFile(disk[f].nickname)
    <3> DEFINE n == disk[f].nickname
    <3>1. n \in Items /\ item[n].file = f
      BY <2>1, ContentsLemma DEF StoreInv, TypeOK, Accounted, Written
    <3>2. f \in FilesFor(n)
      BY <2>1, <3>1, NoneAssumption DEF FilesFor, StoreInv, OwnFiles, HasOwnFile
    <3>3. QED
      BY <3>1, <3>2, OneFile
  <2>2. QED
    BY <2>1 DEF Duplicates
<1>3. disk' = disk
  BY <1>2 DEF Restart, StoreInv, TypeOK
<1>4. Stored' = Stored
  <2>1. \A j \in Items : FilesFor(j)' = FilesFor(j)
    BY <1>3 DEF FilesFor
  <2>2. QED
    BY <1>3, <2>1, SameReads DEF Stored
<1>5. ASSUME NEW i \in Items
      PROVE  Loaded(i).version = IF OnDisk(i) = None /\ i \in Builtin
                                 THEN Default ELSE OnDisk(i)
  <2>1. CASE FilesFor(i) = {}
    BY <2>1 DEF Loaded, BuiltIn, Absent, OnDisk
  <2>2. CASE FilesFor(i) # {}
    <3> DEFINE f == FirstFile(i)
    <3>1. f \in Files /\ disk[f] \in Written
      BY <2>2, FirstFileLemma, ContentsLemma DEF FilesFor, StoreInv, TypeOK
    <3>2. disk[f].version \in Versions
      BY <3>1 DEF Written
    <3>3. OnDisk(i) = disk[f].version /\ OnDisk(i) # None
      BY <2>2, <3>2, FileStoreAssumption DEF OnDisk, Versions
    <3>4. QED
      BY <2>2, <3>3 DEF Loaded
  <2>3. QED
    BY <2>1, <2>2
<1>6. QED
  BY <1>1, <1>4, <1>5 DEF Wanted, Stored

\* Whenever the daemon is killed, a start finds of each item the version that
\* was saved last and completely, as long as nothing fails unseen.
THEOREM StoreImplementsDurable == Spec => StoreIsDurable
<1>1. Init => Durable!StoreInit
  <2> SUFFICES ASSUME Init
               PROVE  Durable!StoreInit
    OBVIOUS
  <2>1. \A i \in Items : FilesFor(i) = {}
    BY ContentsLemma DEF Init, FilesFor
  <2>2. \A i \in Items : OnDisk(i) = None
    BY <2>1 DEF OnDisk
  <2>3. QED
    BY <2>2 DEF Init, BuiltIn, Absent, Durable!StoreInit, Durable!Found
<1>2. StoreInv /\ [Next]_vars => [Durable!StoreNext]_Durable!storeVars
  <2> SUFFICES ASSUME StoreInv, [Next]_vars
               PROVE  [Durable!StoreNext]_Durable!storeVars
    OBVIOUS
  <2>1. CASE ~sound
    <3>1. ~sound'
      BY <2>1 DEF Next, SaveEntry, SaveCA, SaveStep, Create, Open, Write, Close,
         Rename, DeleteEntry, DeleteCA, Delete, Restart, Tick, vars
    <3>2. QED
      BY <3>1, DurableSteps
  <2>2. CASE UNCHANGED <<disk, item, sound>>
    <3>1. \A j \in Items : FilesFor(j)' = FilesFor(j)
      BY <2>2 DEF FilesFor
    <3>2. UNCHANGED <<Stored, Wanted, sound>>
      BY <2>2, <3>1, SameReads DEF Stored, Wanted
    <3>3. QED
      BY <3>2, DurableSteps
  <2>3. ASSUME NEW i \in Items, NEW v \in Values, SaveEntry(i, v) \/ SaveCA(i, v)
        PROVE  [Durable!StoreNext]_Durable!storeVars
    BY <2>3, SaveWants, DurableSteps
  <2>4. ASSUME NEW i \in Items, SaveStep(i), sound
        PROVE  [Durable!StoreNext]_Durable!storeVars
    <3>1. CASE Create(i)
      BY <3>1, CreateIsUnseen, DurableSteps
    <3>2. CASE Open(i) \/ Write(i) \/ Close(i)
      <4>1. UNCHANGED <<disk, item>> /\ (sound' = sound \/ ~sound')
        BY <3>2 DEF Open, Write, Close
      <4>2. QED
        BY <2>2, <4>1, DurableSteps
    <3>3. CASE Rename(i)
      <4>1. CASE disk' = disk
        BY <2>2, <3>3, <4>1 DEF Rename
      <4>2. CASE disk' # disk
        <5>1. sound' = sound
          BY <3>3 DEF Rename
        <5>2. QED
          BY <2>4, <3>3, <4>2, <5>1, RenameCommits, DurableSteps
      <4>3. QED
        BY <4>1, <4>2
    <3>4. QED
      BY <2>4, <3>1, <3>2, <3>3 DEF SaveStep
  <2>5. ASSUME NEW i \in Items, DeleteEntry(i) \/ DeleteCA(i)
        PROVE  [Durable!StoreNext]_Durable!storeVars
    BY <2>5, DeleteRemoves, DurableSteps DEF DeleteEntry, DeleteCA
  <2>6. CASE Restart /\ sound
    BY <2>6, RestartFinds, DurableSteps
  <2>7. CASE Tick \/ UNCHANGED vars
    BY <2>2, <2>7 DEF Tick, vars
  <2>8. QED
    BY <2>1, <2>3, <2>4, <2>5, <2>6, <2>7 DEF Next
<1>3. QED
  BY <1>1, <1>2, StoreInvariant, PTL DEF Spec, StoreIsDurable, Durable!StoreSpec

=============================================================================
