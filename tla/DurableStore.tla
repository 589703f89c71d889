---------------------------- MODULE DurableStore ----------------------------
(***************************************************************************)
(* What the daemon expects of its storage (store.h): a saved item is found *)
(* at the next start as it was saved last, whenever the daemon stops.      *)
(* `wanted` is what the daemon has in memory, `stored` what a start would  *)
(* find.  `sound` turns FALSE when the operating system has refused        *)
(* something that the code does not look at; nothing is promised then.     *)
(***************************************************************************)
CONSTANTS Items, Builtin, Values, None, Default

VARIABLES wanted, stored, sound

storeVars == <<wanted, stored, sound>>

Found(i) == IF stored[i] = None /\ i \in Builtin THEN Default ELSE stored[i]

StoreInit ==
    /\ stored = [i \in Items |-> None]
    /\ wanted = [i \in Items |-> Found(i)]
    /\ sound = TRUE

\* The daemon adds, changes or removes an item.
Want(i, v) == wanted' = [wanted EXCEPT ![i] = v] /\ UNCHANGED <<stored, sound>>

\* All of what is wanted of an item becomes durable at once.
Commit(i) == stored' = [stored EXCEPT ![i] = wanted[i]] /\ UNCHANGED <<wanted, sound>>

\* Removal is asked for and done in one step.
Remove(i) ==
    /\ wanted' = [wanted EXCEPT ![i] = None]
    /\ stored' = [stored EXCEPT ![i] = None]
    /\ UNCHANGED sound

Restart == wanted' = [i \in Items |-> Found(i)] /\ UNCHANGED <<stored, sound>>

StoreNext ==
    \/ \E i \in Items, v \in Values \cup {None} : Want(i, v)
    \/ \E i \in Items : Commit(i) \/ Remove(i)
    \/ Restart
    \/ ~sound'

StoreSpec == StoreInit /\ [][StoreNext]_storeVars
=============================================================================
