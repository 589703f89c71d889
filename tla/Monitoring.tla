----------------------------- MODULE Monitoring -----------------------------
(***************************************************************************)
(* When a request looks at its certificate, and what it makes of the time  *)
(* that the certificate has left: a warning, an attempt to renew it, or    *)
(* nothing until the next look.  A clock that goes on, one that is set     *)
(* while the daemon is away, and restarts in the middle of all of it.      *)
(***************************************************************************)
EXTENDS Integers, Sequences, FiniteSetsExt

CONSTANTS
    CM_DELAY_SOON, CM_DELAY_MONITOR_POLL, CM_DELAY_MONITOR_POLL_MINIMUM, CM_DELAY_MONITOR_POLL_MAXIMUM,
    Ttls,       \* the lists of thresholds that can be configured, in order
    Lifetime,   \* of a certificate
    MaxTime     \* of the clock

Kinds == {"notify", "enroll"}

ASSUME DelayAssumption ==
    /\ CM_DELAY_SOON \in Nat /\ CM_DELAY_MONITOR_POLL \in Nat
    /\ CM_DELAY_MONITOR_POLL_MINIMUM \in Nat /\ CM_DELAY_MONITOR_POLL_MAXIMUM \in Nat
ASSUME TtlAssumption == Ttls \subseteq [Kinds -> Seq(Nat)]
ASSUME TimeAssumption == Lifetime \in Nat /\ MaxTime \in Nat

VARIABLES
    now,        \* the clock
    due,        \* when the next event of the request is
    entry,      \* the request: its state, its certificate's dates, its last checks
    stored,     \* the same in its file
    config,     \* the configured lists and what the daemon has read of them
    told,       \* history: the thresholds that the last warning was for
    tried,      \* history: the thresholds that the last attempt was for
    lost        \* history: a restart has swallowed a warning

monitoringVars == <<now, due, entry, stored, config, told, tried, lost>>

MaxOf(a, b) == IF a < b THEN b ELSE a
MinOf(a, b) == IF a < b THEN a ELSE b

(***************************************************************************)
(* The lists.  There is one count for both, and it is of the list that was *)
(* read last: what there is beyond the end of a shorter one is anything.   *)
(***************************************************************************)
ReadList(kind, c) ==
    IF kind \in c.have THEN c
    ELSE [c EXCEPT !.have = @ \cup {kind}, !.n_config = Len(c.list[kind])]
Thresholds(kind, c) ==
    {c.list[kind][i] : i \in 1..MinOf(c.n_config, Len(c.list[kind]))}
    \cup IF c.n_config > Len(c.list[kind]) THEN {c.beyond} ELSE {}

(***************************************************************************)
(* What is noteworthy: a threshold was crossed since the last check, in    *)
(* either direction, or the time is over.  It is a check only if the       *)
(* certificate is old enough.                                              *)
(***************************************************************************)
TimeLeft(e, t) == MaxOf(e.not_after - t, 0)
Below(thresholds, left) == {h \in thresholds : left < h}
OldEnough(e) == e.not_before <= now - CM_DELAY_MONITOR_POLL_MINIMUM

Noteworthy(e, kind, thresholds) ==
    /\ OldEnough(e) /\ thresholds # {}
    /\ \/ Below(thresholds, TimeLeft(e, now)) # Below(thresholds, TimeLeft(e, e.last_check[kind]))
       \/ TimeLeft(e, now) = 0

\* Mutant: the time of the check is noted before anything else.
Checked_TooEarly(e, kind) == [e EXCEPT !.last_check[kind] = now]

Checked(e, kind) == IF OldEnough(e) THEN [e EXCEPT !.last_check[kind] = now] ELSE e

\* One call of cm_check_expiration_is_noteworthy, if the request wants it.
Check(e, kind, c) ==
    IF e.wants[kind] /\ OldEnough(e)
    THEN LET read == ReadList(kind, c)
         IN  [entry |-> Checked(e, kind), config |-> read, noteworthy |-> Noteworthy(e, kind, Thresholds(kind, read))]
    ELSE [entry |-> IF e.wants[kind] THEN Checked(e, kind) ELSE e, config |-> c, noteworthy |-> FALSE]

(***************************************************************************)
(* When to look again: just after the next threshold, but at least every   *)
(* so often and never all the time.                                        *)
(***************************************************************************)
\* Mutant: a threshold later than the usual time to look is taken for the next.
cm_decide_monitor_delay_Last(remaining, thresholds) ==
    LET next_ttl == Min({h \in thresholds : remaining > h} \cup {remaining})
    IN  MaxOf(remaining - next_ttl + CM_DELAY_SOON, CM_DELAY_MONITOR_POLL_MINIMUM)

cm_decide_monitor_delay(remaining, thresholds) ==
    LET next_ttl == Max({h \in thresholds : remaining > h} \cup {0})
        there == remaining - next_ttl + CM_DELAY_SOON
        delay == IF remaining <= 0 THEN CM_DELAY_MONITOR_POLL
                 ELSE IF next_ttl # 0 /\ there < CM_DELAY_MONITOR_POLL THEN there
                 ELSE MinOf(CM_DELAY_MONITOR_POLL, remaining \div 2)
    IN  MinOf(MaxOf(delay, CM_DELAY_MONITOR_POLL_MINIMUM), CM_DELAY_MONITOR_POLL_MAXIMUM)

LookAgain(e, c) ==
    LET remaining == e.not_after - now
        notify == ReadList("notify", c)
        enroll == ReadList("enroll", notify)
    IN  /\ due' = now + cm_decide_monitor_delay(remaining, Thresholds("notify", notify) \cup Thresholds("enroll", enroll))
        /\ config' = IF remaining > 0 THEN enroll ELSE c

-----------------------------------------------------------------------------
\* A change of state is saved, with the checks that led to it.
Save(e) ==
    /\ entry' = e
    /\ stored' = IF e.state # entry.state THEN e ELSE stored

\* The check for a renewal comes after the one for a warning, or after the warning.
EnrollOrWait(e, c) ==
    LET enroll == Check(e, "enroll", c)
    IN  \/ /\ enroll.noteworthy
           /\ Save([enroll.entry EXCEPT !.state = "NEED_CSR"])
           /\ due' = now /\ config' = enroll.config
        \/ /\ ~enroll.noteworthy
           /\ Save([enroll.entry EXCEPT !.state = "MONITORING"])
           /\ LookAgain(e, enroll.config)

Visit(state) == entry.state = state /\ due <= now /\ UNCHANGED now

MONITORING ==
    /\ Visit("MONITORING")
    /\ LET notify == Check(entry, "notify", config)
       IN  \/ /\ notify.noteworthy
              /\ Save([notify.entry EXCEPT !.state = "NEED_TO_NOTIFY_VALIDITY"])
              /\ due' = now /\ config' = notify.config
           \/ ~notify.noteworthy /\ EnrollOrWait(notify.entry, notify.config)
    /\ UNCHANGED <<told, tried, lost>>

\* If the process cannot be started it is tried again.
NEED_TO_NOTIFY_VALIDITY ==
    /\ Visit("NEED_TO_NOTIFY_VALIDITY")
    /\ Save([entry EXCEPT !.state = "NOTIFYING_VALIDITY"])
    /\ UNCHANGED <<due, config, told, tried, lost>>

At(kind, e) == Below(Range(config.list[kind]), TimeLeft(e, e.last_check[kind]))

NOTIFYING_VALIDITY ==
    /\ Visit("NOTIFYING_VALIDITY")
    /\ EnrollOrWait(entry, config)
    /\ told' = At("notify", entry) /\ lost' = FALSE
    /\ UNCHANGED tried

(***************************************************************************)
(* The attempt, seen from here: a new certificate or none.  Thresholds     *)
(* that the new one was never above of are not waited for.                 *)
(***************************************************************************)
Renewed ==
    /\ Visit("NEED_CSR")
    /\ LET e == [entry EXCEPT !.state = "MONITORING", !.not_before = now, !.not_after = now + Lifetime]
       IN  Save(e) /\ told' = At("notify", e) /\ tried' = At("enroll", e)
    /\ due' = now /\ lost' = FALSE
    /\ UNCHANGED config

Rejected ==
    /\ Visit("NEED_CSR")
    /\ Save([entry EXCEPT !.state = "MONITORING"])
    /\ tried' = At("enroll", entry)
    /\ due' = now + CM_DELAY_SOON
    /\ UNCHANGED <<config, told, lost>>

(***************************************************************************)
(* The end and the start of the daemon, and of a request that is stopped   *)
(***************************************************************************)
Reset(e) == [e EXCEPT !.state =
    CASE @ = "NOTIFYING_VALIDITY" -> "NEED_TO_NOTIFY_VALIDITY"
      [] @ = "NEED_TO_NOTIFY_VALIDITY" -> "MONITORING"
      [] OTHER -> @]

Resume(e) ==
    /\ entry' = e /\ stored' = e /\ due' = now'
    /\ lost' = (lost \/ (e.state = "MONITORING" /\ entry.state # "MONITORING"))
    /\ UNCHANGED <<told, tried>>
RestartEntry == UNCHANGED <<now, config>> /\ Resume(Reset(Reset(entry)))
StartAgain ==
    /\ now' \in 0..MaxTime
    /\ config' = [config EXCEPT !.have = {}, !.n_config = 0]
Shutdown == StartAgain /\ Resume(Reset(Reset(entry)))
Crash == StartAgain /\ Resume(Reset(stored))

\* The loop can be late by one, and the rest takes as long as it takes.
Tick ==
    /\ now < MaxTime /\ (now <= due \/ entry.state # "MONITORING")
    /\ now' = now + 1
    /\ UNCHANGED <<due, entry, stored, config, told, tried, lost>>

-----------------------------------------------------------------------------
New(wants) == [state |-> "MONITORING", wants |-> wants, not_before |-> 0, not_after |-> Lifetime,
               last_check |-> [kind \in Kinds |-> 0]]
MonitoringInit ==
    /\ now = 0 /\ due = 0
    /\ entry \in {New(wants) : wants \in [Kinds -> BOOLEAN]} /\ stored = entry
    /\ config \in [list : Ttls, have : {{}}, n_config : {0}, beyond : {1}]
    /\ told = At("notify", entry) /\ tried = At("enroll", entry) /\ lost = FALSE
MonitoringNext ==
    \/ MONITORING \/ NEED_TO_NOTIFY_VALIDITY \/ NOTIFYING_VALIDITY \/ Renewed \/ Rejected
    \/ RestartEntry \/ Shutdown \/ Crash \/ Tick

MonitoringSpec == MonitoringInit /\ [][MonitoringNext]_monitoringVars

-----------------------------------------------------------------------------
SameLength == Len(config.list["notify"]) = Len(config.list["enroll"])
Crossed(kind) == Below(Range(config.list[kind]), TimeLeft(entry, now))

\* After a look that found nothing to do, the user was warned, and a renewal
\* was tried, on account of exactly those thresholds that the certificate is
\* below of, whatever the clock and the daemon did. Excepted are a warning that
\* was interrupted (it is taken for given), and lists of different lengths
\* (cm_check_expiration_is_noteworthy, cm_prefs_ttls, cm_entry_reset_state).
ThresholdsNoticed ==
    entry.state = "MONITORING" /\ SameLength =>
        /\ entry.wants["notify"] /\ entry.last_check["notify"] = now /\ ~lost => told = Crossed("notify")
        /\ entry.wants["enroll"] /\ entry.last_check["enroll"] = now => tried = Crossed("enroll")

\* Whenever a certificate waits to be looked at, the look comes before the
\* next threshold of either list is long over, however it came to wait and
\* for lists of the same length (cm_decide_monitor_delay).
LooksInTime ==
    entry.state = "MONITORING" /\ due > now /\ SameLength =>
        \A kind \in Kinds : \A h \in Range(config.list[kind]) :
            TimeLeft(entry, now) > h =>
                due - (entry.not_after - h) <= MaxOf(CM_DELAY_SOON, CM_DELAY_MONITOR_POLL_MINIMUM)
=============================================================================
