------------------------------- MODULE Daemon -------------------------------
(***************************************************************************)
(* The whole of the daemon's loop: the requests of EntryIterate and the    *)
(* CAs of CAIterate, in one thread and with one writing lock.  A CA whose  *)
(* data has changed restarts its requests; a change of routes and a start  *)
(* of the daemon concern the requests first and then the CAs.              *)
(***************************************************************************)
EXTENDS EntryIterate, CAIterate

ASSUME ApartAssumption == Entries \cap Tasks = {}

daemonVars == <<vars, caVars>>

\* Nothing is running but the event loop.
LoopIdle == Idle /\ CAIdle

\* A handler services the requests that it has started, and then the CAs.
RequestsTurn == ~crashed /\ (ca_serving = {} \/ ~Idle)

Request(e) ==
  /\ \/ RequestsTurn /\ (EntryStep(e) \/ RestartEntry(e))
     \/ LoopIdle /\ Handler(e)
  /\ UNCHANGED caVars

\* Data that is not saved but used as it is has been modified.  Which
\* requests use the CA, S, is not modelled.
Refreshed(t) ==
  /\ REFRESHING(t) /\ t[2] \notin SavedPhases
  /\ ca_state'[t] = "NEED_TO_ANALYZE"
  /\ \E S \in SUBSET managed : RestartEntriesByCA(S)

CA(t) ==
  /\ Idle
  /\ \/ Refreshed(t)
     \/ CAStep(t) /\ UNCHANGED entryVars

CAMethod(c) == LoopIdle /\ CAHandler(c) /\ UNCHANGED entryVars

RouteChange == LoopIdle /\ NetlinkDelayed /\ CANetlinkDelayed

Reboot ==
  /\ Crash \/ (LoopIdle /\ ShutdownAndRestart)
  /\ CABoot

DaemonInit == Init /\ CAInit

DaemonNext ==
  \/ \E e \in Entries : Request(e)
  \/ \E t \in Tasks : CA(t)
  \/ \E c \in CAs : CAMethod(c)
  \/ RouteChange
  \/ Reboot

DaemonSpec == DaemonInit /\ [][DaemonNext]_daemonVars

-----------------------------------------------------------------------------
\* Whatever the requests do, to a CA they are other holders of the lock that
\* play by its rules: what CAIterate says of the CAs holds in the daemon.
CAsAreRefined == CASpec

\* While a CA's certificates are being saved, from the pre-save hook to the
\* post-save hook, no request generates keys, runs a hook, saves CA
\* certificates or looks at its files for the first time; and conversely.
CASavingExcludesRequests ==
  \A t \in TasksOf(ca_managed), e \in managed :
    ~(ca_state[t] \in CASavingStates /\ state[e] \in LockedStates)

=============================================================================
