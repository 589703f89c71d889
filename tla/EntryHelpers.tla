---------------------------- MODULE EntryHelpers ----------------------------
(***************************************************************************)
(* The helper processes of the requests (subproc.c and its users), on top  *)
(* of EntryIterate: struct cm_entry_state has a pointer for each kind of   *)
(* task; a task that is set has a process, until the case that waits for   *)
(* it has seen the end of its output and called the ..._done() function.   *)
(* Stopping a request calls cm_iterate_entry_done, which waits for the     *)
(* processes of the tasks it knows, kills none, and frees the structure.   *)
(***************************************************************************)
EXTENDS EntryIterate, FiniteSets

CONSTANT MaxOrphans    \* bound: the most processes forgotten at a time

ASSUME MaxOrphansAssumption == MaxOrphans \in Nat

VARIABLES
  tasks,      \* the tasks of each entry: the pointers that are not NULL
  running,    \* <<e, k>>: the process of task k of entry e is running
  orphans     \* <<e, k>>: the same, when nothing in the daemon refers to it

helperVars == <<tasks, running, orphans>>
helperAllVars == <<vars, helperVars>>

TaskKinds == {"keygen", "keyiread", "csrgen", "scepgen", "submit", "hook",
              "certsave", "certread", "casave", "notify"}

\* The task that a state waits for: the pointer that its case goes through.
TaskOf(s) ==
  CASE s = "GENERATING_KEY_PAIR" -> {"keygen"}
    [] s \in {"READING_KEYINFO", "NEWLY_ADDED_READING_KEYINFO"} -> {"keyiread"}
    [] s = "GENERATING_CSR" -> {"csrgen"}
    [] s = "GENERATING_SCEP_DATA" -> {"scepgen"}
    [] s = "SUBMITTING" -> {"submit"}
    [] s \in {"PRE_SAVE_CERT", "POST_SAVED_CERT"} -> {"hook"}
    [] s = "SAVING_CERT" -> {"certsave"}
    [] s \in {"READING_CERT", "NEWLY_ADDED_READING_CERT"} -> {"certread"}
    [] s \in {"SAVING_CA_CERTS", "SAVING_ONLY_CA_CERTS"} -> {"casave"}
    [] s \in {"NOTIFYING_VALIDITY", "NOTIFYING_REJECTION",
              "NOTIFYING_ISSUED_SAVE_FAILED", "NOTIFYING_ISSUED_CA_SAVE_FAILED",
              "NOTIFYING_ISSUED_SAVED", "NOTIFYING_ONLY_CA_SAVE_FAILED"}
                                     -> {"notify"}
    [] OTHER -> {}

\* Mutant: the processes that save CA certificates are forgotten as well.
AwaitedTasks_NoCasave ==
  {"submit", "csrgen", "scepgen", "keyiread", "keygen", "notify"}

\* The tasks that cm_iterate_entry_done cleans up.
AwaitedTasks ==
  {"submit", "csrgen", "scepgen", "keyiread", "keygen", "notify", "casave"}

Processes(e, K) == {<<e, k>> : k \in K}

-----------------------------------------------------------------------------
(***************************************************************************)
(* What the steps of EntryIterate do to the tasks.                         *)
(***************************************************************************)

\* A visit: the case of a state with a task does something only when the
\* task is done, and then frees it; a state is left with its task started.
HelperVisit(e) ==
  LET old == TaskOf(state[e])
      new == TaskOf(state'[e])
  IN  /\ old \subseteq tasks[e]
      /\ Processes(e, old) \cap running = {}
      /\ tasks' = [tasks EXCEPT ![e] = (@ \ old) \cup new]
      /\ running' = running \cup Processes(e, new)
      /\ UNCHANGED orphans

\* cm_iterate_entry_done, and perhaps cm_iterate_entry_init: the latter runs
\* its own two helpers to their end before it returns.
HelperStop(e) ==
  LET left == Processes(e, tasks[e] \ AwaitedTasks) \cap running
  IN  /\ tasks' = [tasks EXCEPT ![e] = {}]
      /\ running' = running \ Processes(e, TaskKinds)
      /\ orphans' = orphans \cup left
      /\ Cardinality(orphans') <= MaxOrphans

\* The end of the daemon is the end of its control group.
HelpersBoot ==
  /\ tasks' = [e \in Entries |-> {}]
  /\ running' = {}
  /\ orphans' = {}

HelperExits(e) ==
  /\ \E p \in running : p[1] = e /\ running' = running \ {p}
  /\ UNCHANGED <<vars, tasks, orphans>>

OrphanExits(e) ==
  /\ \E p \in orphans : p[1] = e /\ orphans' = orphans \ {p}
  /\ UNCHANGED <<vars, tasks, running>>

HelpersInit ==
  /\ Init
  /\ tasks = [e \in Entries |-> {}]
  /\ running = {} /\ orphans = {}

HelpersNext ==
  \/ \E e \in Entries :
       \/ EntryStep(e) /\ HelperVisit(e)
       \/ AddRequest(e) /\ UNCHANGED helperVars
       \/ /\ RemoveRequest(e) \/ RequestModify(e) \/ RequestRefresh(e)
             \/ RequestResubmit(e) \/ RequestRekey(e) \/ RestartEntry(e)
          /\ HelperStop(e)
       \/ HelperExits(e)
       \/ OrphanExits(e)
  \/ NetlinkDelayed /\ UNCHANGED helperVars
  \/ \E S \in SUBSET managed : RestartEntriesByCA(S) /\ UNCHANGED helperVars
  \/ (Crash \/ ShutdownAndRestart) /\ HelpersBoot

HelpersSpec == HelpersInit /\ [][HelpersNext]_helperAllVars

-----------------------------------------------------------------------------
\* The cases go through their task's pointer without a look at it, so the
\* task must be there in every state that waits for one, however the entry
\* came to that state: by an ordinary step, by being rewound, from the store.
\* And no other task is: its process would never be looked at again.
TasksMatchState ==
  \A e \in managed : tasks[e] = TaskOf(state[e])

\* Key pairs and CA certificates are written by one process at a time, even
\* if what started it is stopped, restarted or removed meanwhile.
WriterTasks == {"keygen", "casave"}
KeysAndCACertsHaveOneWriter ==
  \A p, q \in running \cup orphans :
    p[2] \in WriterTasks /\ q[2] \in WriterTasks => p = q

=============================================================================
