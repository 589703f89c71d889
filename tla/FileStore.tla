------------------------------ MODULE FileStore -----------------------------
(***************************************************************************)
(* Requests and CAs in the file system (store-files.c): one file each,     *)
(* named after the second in which it was created, written to NAME.tmp and *)
(* renamed.  Each call to the operating system is a step, as the daemon    *)
(* can be killed between any two.  A call can fail; where the code looks   *)
(* at the result the save fails, where it does not (fclose, the result of  *)
(* remove) `sound` records it, for the properties only.                    *)
(*                                                                         *)
(* Contents are abstract: an item's nickname, which is the first line, and *)
(* the version of its other fields, or Partial if the file ends early.     *)
(***************************************************************************)
EXTENDS Naturals, FiniteSets

CONSTANTS
    Entries, CAs,       \* nicknames of requests and of CAs
    Builtin,            \* CAs that are made up if there is no file
    Values,             \* versions of an item
    Default,            \* the version of a made up CA
    Partial,            \* what a truncated file is read as
    None, Empty,        \* no file, an empty file
    Stamps,             \* seconds: a set of naturals
    MaxSuffix,          \* bound: files named after the same second (1024 in the code)
    MaxFiles            \* bound: files in all, after which none can be created

Items == Entries \cup CAs
ASSUME FileStoreAssumption ==
    /\ Builtin \subseteq CAs /\ Entries \cap CAs = {}
    /\ Default \notin Values /\ Partial \notin Values \cup {Default}
    /\ None \notin Items \cup Values \cup {Default, Partial, Empty}
    /\ Stamps \subseteq Nat /\ {MaxSuffix, MaxFiles} \subseteq Nat

VARIABLES
    clock,      \* the current second
    disk,       \* contents of each file
    tmp,        \* contents of the .tmp file of the save under way (others, left over,
                \* are truncated when they are opened again and not read at a start)
    item,       \* in memory: cm_store_private (the file's name) and version
    saving,     \* the save that is under way: its item and next step, or None
    sound       \* history: nothing has failed unseen

vars == <<clock, disk, tmp, item, saving, sound>>

Dir(i) == IF i \in Entries THEN "requests" ELSE "cas"
Files == {"requests", "cas"} \X Stamps \X (0..MaxSuffix)
Versions == Values \cup {Default, Partial}
Contents == {None, Empty} \cup [nickname : Items, version : Versions]
HasNickname(c) == c \notin {None, Empty}

Steps == {"create", "open", "write", "close", "rename"}
Saves == [item : Items, step : Steps]

\* None and Empty are told apart from everything that they stand in for.
ASSUME NoneAssumption ==
    /\ None \notin Files \cup Saves \cup [nickname : Items, version : Versions]
    /\ Empty \notin [nickname : Items, version : Versions]

\* glob() sorts by name: by the second, then the name without suffix first.
Before(f, g) == f[2] < g[2] \/ (f[2] = g[2] /\ f[3] < g[3])
FirstOf(S) == CHOOSE f \in S : \A g \in S \ {f} : Before(f, g)
FilesFor(i) == {f \in Files : f[1] = Dir(i) /\ HasNickname(disk[f]) /\ disk[f].nickname = i}
FirstFile(i) == FirstOf(FilesFor(i))

\* What a start would read for an item.
OnDisk(i) == IF FilesFor(i) = {} THEN None ELSE disk[FirstFile(i)].version

Absent == [file |-> None, version |-> None]
BuiltIn(i) == IF i \in Builtin THEN [file |-> None, version |-> Default] ELSE Absent

Init ==
    /\ clock \in Stamps
    /\ disk = [f \in Files |-> None] /\ tmp = None
    /\ item = [i \in Items |-> BuiltIn(i)]
    /\ saving = None /\ sound = TRUE

(***************************************************************************)
(* Saving                                                                  *)
(***************************************************************************)
StepTo(step) == saving' = [saving EXCEPT !.step = step]
SaveDone == saving' = None

StartSaving(i) ==
    saving' = [item |-> i, step |-> IF item[i].file = None THEN "create" ELSE "open"]

\* An item is new or was changed by its state machine or by a client.
SaveEntry(e, v) ==
    /\ saving = None /\ e \in Entries
    /\ item' = [item EXCEPT ![e].version = v]
    /\ StartSaving(e) /\ UNCHANGED <<clock, disk, tmp, sound>>

SaveCA(c, v) ==
    /\ saving = None /\ c \in CAs
    /\ item' = [item EXCEPT ![c].version = v]
    /\ StartSaving(c) /\ UNCHANGED <<clock, disk, tmp, sound>>

\* The name must be new: NAME, else NAME-1, NAME-2...
Candidates(i) == {f \in Files : f[1] = Dir(i) /\ f[2] = clock /\ disk[f] = None}
Full == Cardinality({f \in Files : disk[f] # None}) >= MaxFiles

Create_Reuses(i) ==
    LET f == <<Dir(i), clock, 0>> IN
    /\ saving = [item |-> i, step |-> "create"]
    /\ disk' = [disk EXCEPT ![f] = Empty]
    /\ item' = [item EXCEPT ![i].file = f]
    /\ StepTo("open") /\ UNCHANGED <<clock, tmp, sound>>

Create(i) ==
    /\ saving = [item |-> i, step |-> "create"]
    /\ \/ LET f == FirstOf(Candidates(i)) IN
          /\ Candidates(i) # {} /\ ~Full
          /\ disk' = [disk EXCEPT ![f] = Empty]
          /\ item' = [item EXCEPT ![i].file = f]
          /\ StepTo("open") /\ UNCHANGED <<clock, tmp, sound>>
       \/ SaveDone /\ UNCHANGED <<clock, disk, tmp, item, sound>>

Open_InPlace(i) ==
    /\ saving = [item |-> i, step |-> "open"]
    /\ disk' = [disk EXCEPT ![item[i].file] = Empty]
    /\ tmp' = Empty /\ StepTo("write")
    /\ UNCHANGED <<clock, item, sound>>

Open(i) ==
    /\ saving = [item |-> i, step |-> "open"]
    /\ \/ tmp' = Empty /\ StepTo("write")
       \/ SaveDone /\ UNCHANGED tmp
    /\ UNCHANGED <<clock, disk, item, sound>>

\* Full buffers go to the file; the last one, often the only one, does not yet.
Write(i) ==
    /\ saving = [item |-> i, step |-> "write"]
    /\ \/ /\ \E written \in {Empty, [nickname |-> i, version |-> Partial]} :
                tmp' = written
          /\ StepTo("close")
       \/ tmp' = None /\ SaveDone
    /\ UNCHANGED <<clock, disk, item, sound>>

\* fclose() writes the last buffer; its result is not looked at.
Close(i) ==
    /\ saving = [item |-> i, step |-> "close"]
    /\ \/ tmp' = [nickname |-> i, version |-> item[i].version]
          /\ UNCHANGED sound
       \/ UNCHANGED tmp /\ sound' = FALSE
    /\ StepTo("rename") /\ UNCHANGED <<clock, disk, item>>

Rename(i) ==
    LET f == item[i].file IN
    /\ saving = [item |-> i, step |-> "rename"]
    /\ disk' \in {disk, [disk EXCEPT ![f] = tmp]} /\ tmp' = None
    /\ SaveDone /\ UNCHANGED <<clock, item, sound>>

(***************************************************************************)
(* Removing                                                                *)
(***************************************************************************)
\* cm_store_entry_delete and cm_store_ca_delete succeed whatever remove() does.
Delete(i) ==
    /\ saving = None /\ item[i].version # None
    /\ item' = [item EXCEPT ![i] = Absent]
    /\ \/ item[i].file # None
          /\ disk' = [disk EXCEPT ![item[i].file] = None] /\ UNCHANGED sound
       \/ item[i].file # None /\ disk[item[i].file] # None
          /\ UNCHANGED disk /\ sound' = FALSE
       \/ item[i].file = None /\ UNCHANGED <<disk, sound>>
    /\ UNCHANGED <<clock, tmp, saving>>

DeleteEntry(e) == e \in Entries /\ Delete(e)
DeleteCA(c) == c \in CAs /\ Delete(c)

(***************************************************************************)
(* Starting                                                                *)
(***************************************************************************)
\* The first file with a nickname is the item; another one is removed.
Loaded(i) == IF FilesFor(i) = {} THEN BuiltIn(i)
             ELSE [file |-> FirstFile(i), version |-> disk[FirstFile(i)].version]

LoadEntries == [e \in Entries |-> Loaded(e)]
LoadCAs == [c \in CAs |-> Loaded(c)]

Duplicates == {f \in Files : HasNickname(disk[f]) /\ f # FirstFile(disk[f].nickname)}

\* The daemon stops, at any moment, and starts again.
Restart ==
    /\ item' = [i \in Items |-> IF i \in Entries THEN LoadEntries[i] ELSE LoadCAs[i]]
    /\ \E kept \in SUBSET Duplicates :
          disk' = [f \in Files |-> IF f \in Duplicates \ kept THEN None ELSE disk[f]]
    /\ saving' = None /\ tmp' = None /\ UNCHANGED <<clock, sound>>

\* Time passes, or is set back.
Tick == clock' \in Stamps \ {clock} /\ UNCHANGED <<disk, tmp, item, saving, sound>>

SaveStep(i) == Create(i) \/ Open(i) \/ Write(i) \/ Close(i) \/ Rename(i)

Next ==
    \/ \E i \in Items, v \in Values : SaveEntry(i, v) \/ SaveCA(i, v)
    \/ \E i \in Items : SaveStep(i)
    \/ \E i \in Items : DeleteEntry(i) \/ DeleteCA(i)
    \/ Restart
    \/ Tick

Spec == Init /\ [][Next]_vars
-----------------------------------------------------------------------------
(* Properties *)

Durable == INSTANCE DurableStore WITH
    stored <- [i \in Items |-> OnDisk(i)],
    wanted <- [i \in Items |-> item[i].version]

\* As long as nothing fails unseen, a start finds of each item the version that
\* was saved last and completely, whenever the daemon was killed: a save and a
\* removal take effect at once or not at all, and disturb no other item.
StoreIsDurable == Durable!StoreSpec

\* No two items write to the same file, and an item's file has nothing of
\* another's, though names are reused, the clock is set back, files are left
\* over by crashes, and removals fail unseen.
FilesAreNotShared ==
    \A i \in Items : item[i].file # None =>
        /\ \A j \in Items \ {i} : item[j].file # item[i].file
        /\ HasNickname(disk[item[i].file]) => disk[item[i].file].nickname = i
=============================================================================
