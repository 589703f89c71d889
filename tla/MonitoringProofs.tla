-------------------------- MODULE MonitoringProofs --------------------------
(***************************************************************************)
(* Proof that thresholds are noticed and looked for in time, for any       *)
(* delays, lists of thresholds and lifetimes, and any clock.  What holds   *)
(* after a look follows from what holds all the time: the last warning and *)
(* the last attempt were for the thresholds that the certificate was below *)
(* of when it was last checked, in memory and in the file.                 *)
(***************************************************************************)
EXTENDS Monitoring, TLAPS, WellFoundedInduction

States == {"MONITORING", "NEED_TO_NOTIFY_VALIDITY", "NOTIFYING_VALIDITY", "NEED_CSR"}
Entry == [state : States, wants : [Kinds -> BOOLEAN], not_before : Int, not_after : Int,
          last_check : [Kinds -> Int]]
Config == [list : Ttls, have : SUBSET Kinds, n_config : Nat, beyond : Nat]

\* With lists of the same length there is no confusion about their length.
Counted(c) == Len(c.list["notify"]) = Len(c.list["enroll"]) /\ c.have # {} =>
                c.n_config = Len(c.list["notify"])

TypeOK == /\ now \in Int /\ due \in Int
          /\ entry \in Entry /\ stored \in Entry
          /\ config \in Config /\ Counted(config)

\* The file has what the request was like when its state was last changed.
StoredOK == /\ stored.state = entry.state
            /\ entry.state # "MONITORING" => stored = entry
            /\ stored.not_after = entry.not_after

\* A warning given or an attempt made was for the thresholds of the last check...
ToldAt(e) == e.state \in {"MONITORING", "NEED_CSR"} /\ ~lost => told = At("notify", e)
TriedAt(e) == e.state # "NEED_CSR" => tried = At("enroll", e)

MonitoringInv ==
    /\ TypeOK /\ StoredOK
    /\ SameLength => /\ ToldAt(entry) /\ ToldAt(stored)
                     /\ TriedAt(entry) /\ TriedAt(stored)
    /\ LooksInTime

-----------------------------------------------------------------------------
(***************************************************************************)
(* The delay.                                                              *)
(***************************************************************************)
\* A set of natural numbers with a bound has a greatest one.
LEMMA MaxLemma ==
    ASSUME NEW S \in SUBSET Nat, S # {}, NEW b \in Nat, \A x \in S : x <= b
    PROVE  Max(S) \in S /\ \A x \in S : Max(S) >= x
<1> DEFINE R == OpToRel(<, Nat)
           Below_b == {b - x : x \in S}
<1>1. PICK d \in Below_b : \A c \in Below_b : <<c, d>> \notin R
  <2>1. Below_b \subseteq Nat /\ Below_b # {}
    OBVIOUS
  <2>2. IsWellFoundedOn(R, Nat)
    BY NatLessThanWellFounded
  <2> HIDE DEF R, Below_b
  <2>3. QED
    BY <2>1, <2>2, WFMin
<1>2. \A m, n \in Nat : m < n => <<m, n>> \in R
  BY DEF OpToRel
<1> HIDE DEF R
<1>3. PICK m \in S : d = b - m
  BY <1>1
<1>4. ASSUME NEW x \in S PROVE m >= x
  <2>1. /\ b - x \in Below_b /\ b - x \in Nat /\ d \in Nat
        /\ x \in Nat /\ m \in Nat
    BY <1>3
  <2>2. ~(b - x < d)
    BY <1>1, <1>2, <2>1
  <2>3. QED
    BY <1>3, <2>1, <2>2
<1>5. \E y \in S : \A x \in S : y >= x
  BY <1>4
<1>6. QED
  BY <1>5 DEF Max

\* With time left, the next threshold is one that is still to come, or none.
LEMMA NextThreshold ==
    ASSUME NEW remaining \in Int, remaining > 0, NEW T \in SUBSET Nat
    PROVE  LET S == {h \in T : remaining > h} \cup {0}
           IN  Max(S) \in S /\ Max(S) < remaining /\ \A h \in S : Max(S) >= h
<1> DEFINE S == {h \in T : remaining > h} \cup {0}
<1>1. S \in SUBSET Nat /\ S # {} /\ remaining \in Nat
  <2>1. S \subseteq Nat
    <3>1. \A h \in S : h \in Nat
      OBVIOUS
    <3> HIDE DEF S
    <3>2. QED
      BY <3>1
  <2>2. 0 \in S
    OBVIOUS
  <2> HIDE DEF S
  <2>3. QED
    BY <2>1, <2>2
<1>2. \A h \in S : h < remaining /\ h <= remaining
  OBVIOUS
<1> HIDE DEF S
<1>3. Max(S) \in S /\ \A h \in S : Max(S) >= h
  BY <1>1, <1>2, MaxLemma
<1>4. QED
  BY <1>2, <1>3 DEF S

\* The delay leads to no more than a moment after any threshold to come.
LEMMA DelayLemma ==
    ASSUME NEW remaining \in Int, NEW T \in SUBSET Nat
    PROVE  LET delay == cm_decide_monitor_delay(remaining, T)
           IN  /\ delay \in Int
               /\ \A h \in T : remaining > h =>
                    \/ delay <= remaining - h + CM_DELAY_SOON
                    \/ delay <= CM_DELAY_MONITOR_POLL_MINIMUM
<1> DEFINE S == {h \in T : remaining > h} \cup {0}
           next == Max(S)
           there == remaining - next + CM_DELAY_SOON
           wanted == IF remaining <= 0 THEN CM_DELAY_MONITOR_POLL
                     ELSE IF next # 0 /\ there < CM_DELAY_MONITOR_POLL THEN there
                     ELSE MinOf(CM_DELAY_MONITOR_POLL, remaining \div 2)
           delay == MinOf(MaxOf(wanted, CM_DELAY_MONITOR_POLL_MINIMUM), CM_DELAY_MONITOR_POLL_MAXIMUM)
<1>0. cm_decide_monitor_delay(remaining, T) = delay
  BY DEF cm_decide_monitor_delay
<1>1. wanted \in Int => delay \in Int /\ (delay <= wanted \/ delay <= CM_DELAY_MONITOR_POLL_MINIMUM)
  <2> HIDE DEF wanted
  <2>1. QED
    BY DelayAssumption DEF MaxOf, MinOf
<1>2. CASE remaining <= 0
  <2>1. wanted = CM_DELAY_MONITOR_POLL
    BY <1>2
  <2>2. \A h \in T : ~(remaining > h)
    BY <1>2
  <2>3. delay \in Int
    BY <1>1, <2>1, DelayAssumption
  <2> HIDE DEF delay
  <2>4. QED
    BY <1>0, <2>2, <2>3
<1>3. CASE remaining > 0
  <2>1. next \in Nat /\ next < remaining /\ \A h \in S : next >= h
    <3>1. next \in S /\ next < remaining /\ \A h \in S : next >= h
      BY <1>3, NextThreshold
    <3>2. \A h \in S : h \in Nat
      OBVIOUS
    <3> HIDE DEF S, next
    <3>3. QED
      BY <3>1, <3>2
  <2>2. /\ wanted \in Int
        /\ wanted <= there \/ wanted <= remaining
        /\ next # 0 => wanted <= there
    <3> HIDE DEF S, next
    <3>1. remaining \div 2 \in Int /\ remaining \div 2 <= remaining
      BY <1>3
    <3>2. QED
      BY <1>3, <2>1, <3>1, DelayAssumption DEF MinOf
  <2>3. ASSUME NEW h \in T, remaining > h
        PROVE  wanted <= remaining - h + CM_DELAY_SOON
    <3>1. h \in S /\ h \in Nat
      BY <2>3
    <3>2. next >= h
      BY <2>1, <3>1
    <3> HIDE DEF S, next, wanted
    <3>3. CASE next = 0
      BY <2>1, <2>2, <3>1, <3>2, <3>3, DelayAssumption
    <3>4. CASE next # 0
      BY <2>1, <2>2, <3>1, <3>2, <3>4, DelayAssumption
    <3>5. QED
      BY <3>3, <3>4
  <2>4. T \subseteq Nat
    OBVIOUS
  <2> HIDE DEF wanted, delay
  <2>5. delay \in Int /\ (delay <= wanted \/ delay <= CM_DELAY_MONITOR_POLL_MINIMUM)
    BY <1>1, <2>2
  <2>6. ASSUME NEW h \in T, remaining > h
        PROVE  \/ delay <= remaining - h + CM_DELAY_SOON
               \/ delay <= CM_DELAY_MONITOR_POLL_MINIMUM
    BY <2>2, <2>3, <2>4, <2>5, <2>6, DelayAssumption
  <2>7. QED
    BY <1>0, <2>5, <2>6
<1>4. QED
  BY <1>2, <1>3

-----------------------------------------------------------------------------
(***************************************************************************)
(* The lists.                                                              *)
(***************************************************************************)
\* Configured thresholds are natural numbers.
LEMMA ListLemma ==
    ASSUME NEW c \in Config, NEW kind \in Kinds
    PROVE  /\ c.list[kind] \in Seq(Nat) /\ Len(c.list[kind]) \in Nat
           /\ \A h \in Range(c.list[kind]) : h \in Nat
<1>1. c.list \in [Kinds -> Seq(Nat)]
  BY TtlAssumption DEF Config
<1>2. c.list[kind] \in Seq(Nat)
  BY <1>1
<1> DEFINE l == c.list[kind]
<1> HIDE DEF l
<1>3. l \in Seq(Nat) => Len(l) \in Nat /\ \A h \in Range(l) : h \in Nat
  BY DEF Range
<1>4. QED
  BY <1>2, <1>3 DEF l

\* To read a list changes what is known of the lists, not the lists.
LEMMA ReadLemma ==
    ASSUME NEW c \in Config, Counted(c), NEW kind \in Kinds
    PROVE  LET r == ReadList(kind, c)
           IN  r \in Config /\ Counted(r) /\ r.list = c.list /\ r.have # {}
<1>1. Len(c.list["notify"]) \in Nat /\ Len(c.list["enroll"]) \in Nat
  BY ListLemma DEF Kinds
<1>2. CASE kind \in c.have
  BY <1>2 DEF ReadList
<1>3. CASE kind \notin c.have
  <2> DEFINE r == [c EXCEPT !.have = @ \cup {kind}, !.n_config = Len(c.list[kind])]
  <2>1. ReadList(kind, c) = r
    BY <1>3 DEF ReadList
  <2>2. /\ r.list = c.list /\ r.have = c.have \cup {kind}
        /\ r.n_config = Len(c.list[kind]) /\ r \in Config
    BY <1>1 DEF Config, Kinds
  <2>3. Counted(r)
    BY <1>1, <2>2 DEF Counted, Kinds
  <2> HIDE DEF r
  <2>4. QED
    BY <2>1, <2>2, <2>3
<1>4. QED
  BY <1>2, <1>3

\* Lists of the same length, once read, are what is configured.
LEMMA ThresholdsLemma ==
    ASSUME NEW c \in Config, Counted(c), c.have # {}, NEW kind \in Kinds
    PROVE  /\ \A h \in Thresholds(kind, c) : h \in Nat
           /\ Len(c.list["notify"]) = Len(c.list["enroll"]) =>
                Thresholds(kind, c) = Range(c.list[kind])
<1> DEFINE l == c.list[kind]
           n == c.n_config
<1>1. l \in Seq(Nat) /\ n \in Nat /\ c.beyond \in Nat
  BY ListLemma DEF Config
<1>2. Thresholds(kind, c) = {l[i] : i \in 1..MinOf(n, Len(l))} \cup (IF n > Len(l) THEN {c.beyond} ELSE {})
  BY DEF Thresholds
<1>3. Len(c.list["notify"]) = Len(c.list["enroll"]) => n = Len(l)
  BY DEF Counted, Kinds
<1> HIDE DEF l, n
<1>4. 1..MinOf(n, Len(l)) \subseteq 1..Len(l)
  BY <1>1 DEF MinOf
<1>5. \A h \in {l[i] : i \in 1..MinOf(n, Len(l))} : h \in Nat
  BY <1>1, <1>4
<1>6. \A h \in Thresholds(kind, c) : h \in Nat
  BY <1>1, <1>2, <1>5
<1>7. n = Len(l) => Thresholds(kind, c) = Range(l)
  <2>1. n = Len(l) => MinOf(n, Len(l)) = Len(l) /\ ~(n > Len(l))
    BY <1>1 DEF MinOf
  <2>2. DOMAIN l = 1..Len(l)
    BY <1>1
  <2>3. QED
    BY <1>2, <2>1, <2>2 DEF Range
<1>8. QED
  BY <1>3, <1>6, <1>7 DEF l

-----------------------------------------------------------------------------
(***************************************************************************)
(* A look at the certificate.                                              *)
(***************************************************************************)
\* A check notes its time, and nothing else about the request.
LEMMA CheckedLemma ==
    ASSUME NEW e \in Entry, NEW kind \in Kinds, now \in Int
    PROVE  LET x == Checked(e, kind)
           IN  /\ x \in Entry /\ x.state = e.state /\ x.wants = e.wants
               /\ x.not_before = e.not_before /\ x.not_after = e.not_after
               /\ \A k \in Kinds \ {kind} : x.last_check[k] = e.last_check[k]
               /\ x.last_check[kind] = IF OldEnough(e) THEN now ELSE e.last_check[kind]
BY DEF Checked, Entry

\* A check that finds nothing noteworthy moves no threshold.
LEMMA CheckLemma ==
    ASSUME NEW e \in Entry, NEW kind \in Kinds, NEW c \in Config, Counted(c), now \in Int
    PROVE  LET r == Check(e, kind, c)
               x == r.entry
           IN  /\ r.config \in Config /\ Counted(r.config) /\ r.config.list = c.list
               /\ x \in Entry /\ x.state = e.state /\ x.wants = e.wants
               /\ x.not_before = e.not_before /\ x.not_after = e.not_after
               /\ \A k \in Kinds \ {kind} : x.last_check[k] = e.last_check[k]
               /\ ~r.noteworthy /\ Len(c.list["notify"]) = Len(c.list["enroll"]) =>
                    Below(Range(c.list[kind]), TimeLeft(x, x.last_check[kind]))
                      = Below(Range(c.list[kind]), TimeLeft(e, e.last_check[kind]))
<1> DEFINE r == Check(e, kind, c)
           x == Checked(e, kind)
<1>1. CASE ~e.wants[kind]
  <2>1. r = [entry |-> e, config |-> c, noteworthy |-> FALSE]
    BY <1>1 DEF Check
  <2>2. QED
    BY <2>1
<1>2. CASE e.wants[kind] /\ ~OldEnough(e)
  <2>1. r = [entry |-> e, config |-> c, noteworthy |-> FALSE]
    BY <1>2 DEF Check, Checked
  <2>2. QED
    BY <2>1
<1>3. CASE e.wants[kind] /\ OldEnough(e)
  <2> DEFINE read == ReadList(kind, c)
             found == Noteworthy(e, kind, Thresholds(kind, read))
  <2>1. r = [entry |-> x, config |-> read, noteworthy |-> found]
    BY <1>3 DEF Check
  <2>2. r.entry = x /\ r.config = read /\ r.noteworthy = found
    BY <2>1
  <2>3. read \in Config /\ Counted(read) /\ read.list = c.list /\ read.have # {}
    BY ReadLemma
  <2>4. /\ x \in Entry /\ x.state = e.state /\ x.wants = e.wants
        /\ x.not_before = e.not_before /\ x.not_after = e.not_after
        /\ \A k \in Kinds \ {kind} : x.last_check[k] = e.last_check[k]
        /\ x.last_check[kind] = now
    BY <1>3, CheckedLemma
  <2>5. Len(c.list["notify"]) = Len(c.list["enroll"]) => Thresholds(kind, read) = Range(c.list[kind])
    BY <2>3, ThresholdsLemma
  <2>6. TimeLeft(x, now) = TimeLeft(e, now)
    BY <2>4 DEF TimeLeft
  <2>7. ~found /\ Thresholds(kind, read) = Range(c.list[kind]) =>
          Below(Range(c.list[kind]), TimeLeft(e, now)) = Below(Range(c.list[kind]), TimeLeft(e, e.last_check[kind]))
    BY <1>3 DEF Noteworthy, Below
  <2> HIDE DEF r, x, read, found
  <2>8. QED
    BY <2>2, <2>3, <2>4, <2>5, <2>6, <2>7 DEF r
<1>4. QED
  BY <1>1, <1>2, <1>3

\* When to look again, after a look.
LEMMA LookAgainLemma ==
    ASSUME NEW e \in Entry, NEW c \in Config, Counted(c), now \in Int, LookAgain(e, c)
    PROVE  /\ due' \in Int
           /\ config' \in Config /\ Counted(config') /\ config'.list = c.list
           /\ Len(c.list["notify"]) = Len(c.list["enroll"]) =>
                \A kind \in Kinds : \A h \in Range(c.list[kind]) :
                    TimeLeft(e, now) > h =>
                        due' - (e.not_after - h) <= MaxOf(CM_DELAY_SOON, CM_DELAY_MONITOR_POLL_MINIMUM)
<1> DEFINE remaining == e.not_after - now
           notify == ReadList("notify", c)
           enroll == ReadList("enroll", notify)
           T == Thresholds("notify", notify) \cup Thresholds("enroll", enroll)
           delay == cm_decide_monitor_delay(remaining, T)
<1>1. due' = now + delay /\ config' = IF remaining > 0 THEN enroll ELSE c
  BY DEF LookAgain
<1>2. notify \in Config /\ Counted(notify) /\ notify.list = c.list /\ notify.have # {}
  BY ReadLemma DEF Kinds
<1>3. enroll \in Config /\ Counted(enroll) /\ enroll.list = c.list /\ enroll.have # {}
  <2> HIDE DEF notify
  <2>1. QED
    BY <1>2, ReadLemma DEF Kinds
<1>4. \A h \in T : h \in Nat
  <2> HIDE DEF notify, enroll
  <2>1. \A h \in Thresholds("notify", notify) : h \in Nat
    BY <1>2, ThresholdsLemma DEF Kinds
  <2>2. \A h \in Thresholds("enroll", enroll) : h \in Nat
    BY <1>3, ThresholdsLemma DEF Kinds
  <2>3. QED
    BY <2>1, <2>2
<1>5. Len(c.list["notify"]) = Len(c.list["enroll"]) =>
        \A kind \in Kinds : Range(c.list[kind]) \subseteq T
  <2> HIDE DEF notify, enroll
  <2>1. Len(c.list["notify"]) = Len(c.list["enroll"]) => Thresholds("notify", notify) = Range(c.list["notify"])
    BY <1>2, ThresholdsLemma DEF Kinds
  <2>2. Len(c.list["notify"]) = Len(c.list["enroll"]) => Thresholds("enroll", enroll) = Range(c.list["enroll"])
    BY <1>3, ThresholdsLemma DEF Kinds
  <2>3. QED
    BY <2>1, <2>2 DEF Kinds
<1>6. remaining \in Int /\ e.not_after \in Int
  BY DEF Entry
<1>7. /\ delay \in Int
      /\ \A h \in T : remaining > h =>
           delay <= remaining - h + CM_DELAY_SOON \/ delay <= CM_DELAY_MONITOR_POLL_MINIMUM
  <2> HIDE DEF remaining, T
  <2>1. T \in SUBSET Nat
    BY <1>4
  <2>2. QED
    BY <1>6, <2>1, DelayLemma
<1>8. ASSUME NEW h \in T, TimeLeft(e, now) > h
      PROVE  due' - (e.not_after - h) <= MaxOf(CM_DELAY_SOON, CM_DELAY_MONITOR_POLL_MINIMUM)
  <2>1. h \in Nat
    BY <1>4
  <2>2. e.not_after - now > h
    BY <1>6, <1>8, <2>1 DEF TimeLeft, MaxOf
  <2>3. delay <= (e.not_after - now) - h + CM_DELAY_SOON \/ delay <= CM_DELAY_MONITOR_POLL_MINIMUM
    BY <1>7, <2>2
  <2> HIDE DEF T, delay
  <2>4. QED
    BY <1>1, <1>6, <1>7, <2>1, <2>2, <2>3, DelayAssumption DEF MaxOf
<1> HIDE DEF remaining, notify, enroll, T, delay
<1>9. due' \in Int
  BY <1>1, <1>7
<1>10. config' \in Config /\ Counted(config') /\ config'.list = c.list
  BY <1>1, <1>3
<1>11. QED
  BY <1>5, <1>8, <1>9, <1>10

-----------------------------------------------------------------------------
(***************************************************************************)
(* The steps.                                                              *)
(***************************************************************************)
\* The thresholds of the last check, of a request and of lists that stay as they are.
Under(list, kind, e) == Below(Range(list[kind]), TimeLeft(e, e.last_check[kind]))

LEMMA AtLemma ==
    \A kind, e : At(kind, e) = Under(config.list, kind, e)
BY DEF At, Under

\* Where the dates and the time of a check are the same, so are the thresholds.
LEMMA SameCheck ==
    ASSUME NEW list, NEW kind, NEW e, NEW x,
           x.not_after = e.not_after, x.last_check[kind] = e.last_check[kind]
    PROVE  Under(list, kind, x) = Under(list, kind, e)
BY DEF Under, TimeLeft

\* The invariant in terms of the lists, which never change.
LEMMA ToldLemma ==
    /\ \A e : ToldAt(e) <=> (e.state \in {"MONITORING", "NEED_CSR"} /\ ~lost => told = Under(config.list, "notify", e))
    /\ \A e : TriedAt(e) <=> (e.state # "NEED_CSR" => tried = Under(config.list, "enroll", e))
BY AtLemma DEF ToldAt, TriedAt

\* What is left of a look at a certificate after the check for a warning, or
\* after the warning: e is the request with that check noted.
LEMMA EnrollOrWaitLemma ==
    ASSUME MonitoringInv, NEW e \in Entry, NEW c \in Config, Counted(c), c.list = config.list,
           e.state = entry.state, e.state \in {"MONITORING", "NOTIFYING_VALIDITY"},
           e.not_after = entry.not_after, e.last_check["enroll"] = entry.last_check["enroll"],
           now' = now, tried' = tried, EnrollOrWait(e, c)
    PROVE  /\ TypeOK' /\ StoredOK' /\ LooksInTime' /\ config'.list = config.list
           /\ entry'.not_after = entry.not_after
           /\ entry'.last_check["notify"] = e.last_check["notify"]
           /\ (stored' = stored /\ entry.state = "MONITORING") \/ stored' = entry'
           /\ SameLength => TriedAt(entry)' /\ TriedAt(stored)'
<1> DEFINE r == Check(e, "enroll", c)
           L == config.list
<1>0. now \in Int /\ entry \in Entry /\ stored \in Entry /\ due \in Int
  BY DEF MonitoringInv, TypeOK
<1>1. /\ r.config \in Config /\ Counted(r.config) /\ r.config.list = L
      /\ r.entry \in Entry /\ r.entry.state = e.state /\ r.entry.not_after = entry.not_after
      /\ r.entry.last_check["notify"] = e.last_check["notify"]
      /\ ~r.noteworthy /\ SameLength => Under(L, "enroll", r.entry) = Under(L, "enroll", entry)
  <2>1. "enroll" \in Kinds /\ "notify" \in Kinds \ {"enroll"}
    BY DEF Kinds
  <2>2. /\ r.config \in Config /\ Counted(r.config) /\ r.config.list = c.list
        /\ r.entry \in Entry /\ r.entry.state = e.state /\ r.entry.not_after = e.not_after
        /\ \A k \in Kinds \ {"enroll"} : r.entry.last_check[k] = e.last_check[k]
        /\ ~r.noteworthy /\ Len(c.list["notify"]) = Len(c.list["enroll"]) =>
                    Below(Range(c.list["enroll"]), TimeLeft(r.entry, r.entry.last_check["enroll"]))
                      = Below(Range(c.list["enroll"]), TimeLeft(e, e.last_check["enroll"]))
    BY <1>0, <2>1, CheckLemma
  <2>3. Under(L, "enroll", e) = Under(L, "enroll", entry)
    BY SameCheck
  <2> HIDE DEF r
  <2>4. QED
    BY <2>1, <2>2, <2>3 DEF Under, SameLength
<1>2. PICK x \in Entry : x = r.entry
  BY <1>1
<1>3. PICK rc \in Config : rc = r.config
  BY <1>1
<1> HIDE DEF r
<1>4. CASE /\ r.noteworthy
           /\ Save([x EXCEPT !.state = "NEED_CSR"])
           /\ due' = now /\ config' = rc
  <2>1. /\ entry' \in Entry /\ entry'.state = "NEED_CSR" /\ entry'.not_after = entry.not_after
        /\ entry'.last_check = x.last_check
    BY <1>1, <1>2, <1>4 DEF Entry, States, Save
  <2>2. stored' = entry'
    BY <1>4, <2>1 DEF Save
  <2>3. TypeOK'
    BY <1>0, <1>1, <1>3, <1>4, <2>1, <2>2 DEF TypeOK
  <2>4. StoredOK' /\ LooksInTime' /\ TriedAt(entry)' /\ TriedAt(stored)'
    BY <2>1, <2>2 DEF StoredOK, LooksInTime, TriedAt
  <2>5. QED
    BY <1>1, <1>2, <1>3, <1>4, <2>1, <2>2, <2>3, <2>4
<1>5. CASE /\ ~r.noteworthy
           /\ Save([x EXCEPT !.state = "MONITORING"])
           /\ LookAgain(e, rc)
  <2>1. /\ entry' \in Entry /\ entry'.state = "MONITORING" /\ entry'.not_after = entry.not_after
        /\ entry'.last_check = x.last_check
    BY <1>1, <1>2, <1>5 DEF Entry, States, Save
  <2>2. stored' = IF entry.state # "MONITORING" THEN entry' ELSE stored
    BY <1>5, <2>1 DEF Save
  <2>3. stored' \in Entry /\ StoredOK'
    BY <1>0, <2>1, <2>2 DEF MonitoringInv, StoredOK
  <2>4. /\ due' \in Int
        /\ config' \in Config /\ Counted(config') /\ config'.list = L
        /\ SameLength =>
             \A kind \in Kinds : \A h \in Range(L[kind]) :
                 TimeLeft(e, now) > h =>
                     due' - (e.not_after - h) <= MaxOf(CM_DELAY_SOON, CM_DELAY_MONITOR_POLL_MINIMUM)
    BY <1>0, <1>1, <1>3, <1>5, LookAgainLemma DEF SameLength
  <2>5. TypeOK'
    BY <1>0, <2>1, <2>3, <2>4 DEF TypeOK
  <2>6. SameLength' <=> SameLength
    BY <2>4 DEF SameLength
  <2>7. LooksInTime'
    BY <1>1, <1>2, <2>1, <2>4, <2>6 DEF LooksInTime, TimeLeft
  <2>8. ASSUME SameLength PROVE TriedAt(entry)' /\ TriedAt(stored)'
    <3>1. tried = Under(L, "enroll", entry) /\ (entry.state = "MONITORING" => tried = Under(L, "enroll", stored))
      BY <2>8, ToldLemma DEF MonitoringInv, StoredOK
    <3>2. Under(L, "enroll", entry') = Under(L, "enroll", entry)
      BY <1>1, <1>2, <1>5, <2>1, <2>8, SameCheck
    <3>3. TriedAt(entry)' <=> tried = Under(L, "enroll", entry')
      BY <2>1, <2>4 DEF TriedAt, At, Under
    <3>4. TriedAt(stored)' <=> tried = Under(L, "enroll", stored')
      BY <2>1, <2>3, <2>4 DEF TriedAt, At, Under, StoredOK
    <3>5. QED
      BY <2>2, <3>1, <3>2, <3>3, <3>4
  <2>9. QED
    BY <1>1, <1>2, <2>1, <2>2, <2>3, <2>4, <2>5, <2>7, <2>8
<1>6. \/ /\ r.noteworthy
         /\ Save([r.entry EXCEPT !.state = "NEED_CSR"])
         /\ due' = now /\ config' = r.config
      \/ /\ ~r.noteworthy
         /\ Save([r.entry EXCEPT !.state = "MONITORING"])
         /\ LookAgain(e, r.config)
  BY DEF EnrollOrWait, r
<1>7. Save([x EXCEPT !.state = "NEED_CSR"]) \/ ~Save([r.entry EXCEPT !.state = "NEED_CSR"])
  BY <1>2 DEF Save
<1>8. Save([x EXCEPT !.state = "MONITORING"]) \/ ~Save([r.entry EXCEPT !.state = "MONITORING"])
  BY <1>2 DEF Save
<1>9. LookAgain(e, rc) \/ ~LookAgain(e, r.config)
  BY <1>3 DEF LookAgain
<1>10. QED
  BY <1>3, <1>4, <1>5, <1>6, <1>7, <1>8, <1>9

\* The part of the invariant about the thresholds, after a step.
Thresholds_OK == SameLength => /\ ToldAt(entry) /\ ToldAt(stored)
                               /\ TriedAt(entry) /\ TriedAt(stored)

LEMMA ThresholdsAfter ==
    ASSUME config'.list = config.list,
           Len(config.list["notify"]) = Len(config.list["enroll"]) =>
             \A e \in {entry', stored'} :
               /\ e.state \in {"MONITORING", "NEED_CSR"} /\ ~lost' => told' = Under(config.list, "notify", e)
               /\ e.state # "NEED_CSR" => tried' = Under(config.list, "enroll", e)
    PROVE  Thresholds_OK'
BY DEF Thresholds_OK, SameLength, ToldAt, TriedAt, At, Under

LEMMA ThresholdsBefore ==
    ASSUME MonitoringInv, Len(config.list["notify"]) = Len(config.list["enroll"])
    PROVE  \A e \in {entry, stored} :
               /\ e.state \in {"MONITORING", "NEED_CSR"} /\ ~lost => told = Under(config.list, "notify", e)
               /\ e.state # "NEED_CSR" => tried = Under(config.list, "enroll", e)
BY ToldLemma DEF MonitoringInv, SameLength

\* A look at the certificate.
LEMMA MonitoringStep == MonitoringInv /\ MONITORING => MonitoringInv'
<1> SUFFICES ASSUME MonitoringInv, MONITORING PROVE MonitoringInv'
  OBVIOUS
<1> DEFINE r == Check(entry, "notify", config)
           L == config.list
<1>0. /\ TypeOK /\ now \in Int /\ entry \in Entry /\ stored \in Entry /\ config \in Config /\ Counted(config)
      /\ entry.state = "MONITORING" /\ stored.state = "MONITORING" /\ stored.not_after = entry.not_after
      /\ now' = now /\ told' = told /\ tried' = tried /\ lost' = lost
  BY DEF MonitoringInv, TypeOK, StoredOK, MONITORING, Visit
<1>1. /\ r.config \in Config /\ Counted(r.config) /\ r.config.list = L
      /\ r.entry \in Entry /\ r.entry.state = entry.state /\ r.entry.not_after = entry.not_after
      /\ r.entry.last_check["enroll"] = entry.last_check["enroll"]
      /\ ~r.noteworthy /\ Len(L["notify"]) = Len(L["enroll"]) =>
            Under(L, "notify", r.entry) = Under(L, "notify", entry)
  <2>1. "notify" \in Kinds /\ "enroll" \in Kinds \ {"notify"}
    BY DEF Kinds
  <2>2. /\ r.config \in Config /\ Counted(r.config) /\ r.config.list = L
        /\ r.entry \in Entry /\ r.entry.state = entry.state /\ r.entry.not_after = entry.not_after
        /\ \A k \in Kinds \ {"notify"} : r.entry.last_check[k] = entry.last_check[k]
        /\ ~r.noteworthy /\ Len(L["notify"]) = Len(L["enroll"]) =>
              Below(Range(L["notify"]), TimeLeft(r.entry, r.entry.last_check["notify"]))
                = Below(Range(L["notify"]), TimeLeft(entry, entry.last_check["notify"]))
    BY <1>0, <2>1, CheckLemma
  <2> HIDE DEF r
  <2>3. QED
    BY <2>1, <2>2 DEF Under
<1>2. PICK x \in Entry : x = r.entry
  BY <1>1
<1>3. PICK rc \in Config : rc = r.config
  BY <1>1
<1>4. \/ /\ r.noteworthy
         /\ Save([r.entry EXCEPT !.state = "NEED_TO_NOTIFY_VALIDITY"])
         /\ due' = now /\ config' = r.config
      \/ ~r.noteworthy /\ EnrollOrWait(r.entry, r.config)
  BY DEF MONITORING
<1> HIDE DEF r
<1>5. CASE /\ r.noteworthy
           /\ Save([r.entry EXCEPT !.state = "NEED_TO_NOTIFY_VALIDITY"])
           /\ due' = now /\ config' = r.config
  <2>1. /\ entry' \in Entry /\ entry'.state = "NEED_TO_NOTIFY_VALIDITY" /\ entry'.not_after = entry.not_after
        /\ entry'.last_check["enroll"] = entry.last_check["enroll"]
    BY <1>1, <1>2, <1>5 DEF Entry, States, Save
  <2>2. stored' = entry'
    BY <1>0, <1>5, <2>1 DEF Save
  <2>3. TypeOK' /\ StoredOK' /\ LooksInTime'
    BY <1>0, <1>1, <1>5, <2>1, <2>2 DEF TypeOK, StoredOK, LooksInTime
  <2>4. Under(L, "enroll", entry') = Under(L, "enroll", entry)
    BY <2>1, SameCheck
  <2>5. Thresholds_OK'
    BY <1>0, <1>1, <1>5, <2>1, <2>2, <2>4, ThresholdsBefore, ThresholdsAfter
  <2>6. QED
    BY <2>3, <2>5 DEF MonitoringInv, Thresholds_OK
<1>6. CASE ~r.noteworthy /\ EnrollOrWait(r.entry, r.config)
  <2>1. EnrollOrWait(x, rc)
    BY <1>2, <1>3, <1>6 DEF EnrollOrWait, Save, LookAgain
  <2>2. /\ TypeOK' /\ StoredOK' /\ LooksInTime' /\ config'.list = config.list
        /\ entry'.not_after = entry.not_after
        /\ entry'.last_check["notify"] = x.last_check["notify"]
        /\ stored' = stored \/ stored' = entry'
        /\ SameLength => TriedAt(entry)' /\ TriedAt(stored)'
    BY <1>0, <1>1, <1>2, <1>3, <2>1, EnrollOrWaitLemma
  <2>3. Under(L, "notify", entry') = Under(L, "notify", x)
    BY <1>1, <1>2, <2>2, SameCheck
  <2>4. SameLength' <=> SameLength
    BY <2>2 DEF SameLength
  <2>5. ASSUME SameLength PROVE ToldAt(entry)' /\ ToldAt(stored)'
    <3>1. ~lost => told = Under(L, "notify", entry) /\ told = Under(L, "notify", stored)
      BY <1>0, <2>5, ThresholdsBefore DEF SameLength
    <3>2. Under(L, "notify", entry') = Under(L, "notify", entry)
      BY <1>1, <1>2, <1>6, <2>3, <2>5 DEF SameLength
    <3>3. ToldAt(entry)' /\ ToldAt(stored)' <=>
            \A e \in {entry', stored'} :
               e.state \in {"MONITORING", "NEED_CSR"} /\ ~lost' => told' = Under(L, "notify", e)
      BY <2>2 DEF ToldAt, At, Under
    <3>4. QED
      BY <1>0, <2>2, <3>1, <3>2, <3>3
  <2>6. QED
    BY <2>2, <2>4, <2>5 DEF MonitoringInv
<1>7. QED
  BY <1>4, <1>5, <1>6

\* A warning is started, given...
LEMMA NeedToNotifyStep == MonitoringInv /\ NEED_TO_NOTIFY_VALIDITY => MonitoringInv'
<1> SUFFICES ASSUME MonitoringInv, NEED_TO_NOTIFY_VALIDITY PROVE MonitoringInv'
  OBVIOUS
<1>1. /\ entry \in Entry /\ stored = entry /\ entry.state = "NEED_TO_NOTIFY_VALIDITY"
      /\ entry' = [entry EXCEPT !.state = "NOTIFYING_VALIDITY"]
      /\ UNCHANGED <<now, due, config, told, tried, lost>>
  BY DEF MonitoringInv, TypeOK, StoredOK, NEED_TO_NOTIFY_VALIDITY, Visit, Save
<1>2. /\ entry' \in Entry /\ entry'.state = "NOTIFYING_VALIDITY"
      /\ entry'.not_after = entry.not_after /\ entry'.last_check = entry.last_check
  BY <1>1 DEF Entry, States
<1>3. stored' = entry'
  BY <1>1, <1>2 DEF NEED_TO_NOTIFY_VALIDITY, Save
<1>4. TypeOK' /\ StoredOK' /\ LooksInTime'
  BY <1>1, <1>2, <1>3 DEF MonitoringInv, TypeOK, StoredOK, LooksInTime
<1>5. Under(config.list, "enroll", entry') = Under(config.list, "enroll", entry)
  BY <1>2, SameCheck
<1>6. Thresholds_OK'
  BY <1>1, <1>2, <1>3, <1>5, ThresholdsBefore, ThresholdsAfter
<1>7. QED
  BY <1>4, <1>6 DEF MonitoringInv, Thresholds_OK

\* ...and perhaps followed by an attempt.
LEMMA NotifyingStep == MonitoringInv /\ NOTIFYING_VALIDITY => MonitoringInv'
<1> SUFFICES ASSUME MonitoringInv, NOTIFYING_VALIDITY PROVE MonitoringInv'
  OBVIOUS
<1>1. /\ entry \in Entry /\ config \in Config /\ Counted(config) /\ entry.state = "NOTIFYING_VALIDITY"
      /\ EnrollOrWait(entry, config) /\ told' = At("notify", entry)
      /\ now' = now /\ tried' = tried
  BY DEF MonitoringInv, TypeOK, NOTIFYING_VALIDITY, Visit
<1>2. /\ TypeOK' /\ StoredOK' /\ LooksInTime' /\ config'.list = config.list
      /\ entry'.not_after = entry.not_after
      /\ entry'.last_check["notify"] = entry.last_check["notify"]
      /\ stored' = entry'
      /\ SameLength => TriedAt(entry)' /\ TriedAt(stored)'
  BY <1>1, EnrollOrWaitLemma
<1>3. told' = Under(config.list, "notify", entry')
  BY <1>1, <1>2, AtLemma, SameCheck
<1>4. (ToldAt(entry) /\ ToldAt(stored))'
  BY <1>2, <1>3 DEF ToldAt, At, Under
<1>5. SameLength' <=> SameLength
  BY <1>2 DEF SameLength
<1>6. QED
  BY <1>2, <1>4, <1>5 DEF MonitoringInv

\* A new certificate.
LEMMA RenewedStep == MonitoringInv /\ Renewed => MonitoringInv'
<1> SUFFICES ASSUME MonitoringInv, Renewed PROVE MonitoringInv'
  OBVIOUS
<1> DEFINE e == [entry EXCEPT !.state = "MONITORING", !.not_before = now, !.not_after = now + Lifetime]
<1>1. /\ entry \in Entry /\ now \in Int /\ entry.state = "NEED_CSR"
      /\ Save(e) /\ told' = At("notify", e) /\ tried' = At("enroll", e)
      /\ due' = now /\ now' = now /\ config' = config
  BY DEF MonitoringInv, TypeOK, Renewed, Visit
<1>2. PICK x \in Entry : x = e
  <2>1. now + Lifetime \in Int
    BY <1>1, TimeAssumption
  <2>2. e \in Entry
    BY <1>1, <2>1 DEF Entry, States
  <2>3. QED
    BY <2>2
<1>3. x.state = "MONITORING"
  BY <1>1, <1>2 DEF Entry
<1>4. entry' = x /\ stored' = x
  BY <1>1, <1>2, <1>3 DEF Save
<1>5. told' = Under(config.list, "notify", x) /\ tried' = Under(config.list, "enroll", x)
  BY <1>1, <1>2, AtLemma
<1>6. TypeOK' /\ StoredOK' /\ LooksInTime'
  BY <1>1, <1>4 DEF MonitoringInv, TypeOK, StoredOK, LooksInTime
<1>7. Thresholds_OK'
  BY <1>1, <1>4, <1>5, ThresholdsAfter
<1>8. QED
  BY <1>6, <1>7 DEF MonitoringInv, Thresholds_OK

\* An attempt in vain: the next look is soon.
LEMMA RejectedStep == MonitoringInv /\ Rejected => MonitoringInv'
<1> SUFFICES ASSUME MonitoringInv, Rejected PROVE MonitoringInv'
  OBVIOUS
<1>1. /\ entry \in Entry /\ now \in Int /\ config \in Config /\ entry.state = "NEED_CSR" /\ stored = entry
      /\ entry' = [entry EXCEPT !.state = "MONITORING"] /\ tried' = At("enroll", entry)
      /\ due' = now + CM_DELAY_SOON /\ UNCHANGED <<now, config, told, lost>>
  BY DEF MonitoringInv, TypeOK, StoredOK, Rejected, Visit, Save
<1>2. /\ entry' \in Entry /\ entry'.state = "MONITORING"
      /\ entry'.not_after = entry.not_after /\ entry'.last_check = entry.last_check
  BY <1>1 DEF Entry, States
<1>3. stored' = entry'
  BY <1>1, <1>2 DEF Rejected, Save
<1>4. TypeOK' /\ StoredOK'
  BY <1>1, <1>2, <1>3, DelayAssumption DEF MonitoringInv, TypeOK, StoredOK
<1>5. LooksInTime'
  <2>1. ASSUME NEW kind \in Kinds, NEW h \in Range(config.list[kind]), TimeLeft(entry', now) > h
        PROVE  due' - (entry'.not_after - h) <= MaxOf(CM_DELAY_SOON, CM_DELAY_MONITOR_POLL_MINIMUM)
    <3>1. h \in Nat /\ entry'.not_after \in Int
      BY <1>1, <1>2, ListLemma DEF Entry
    <3>2. entry'.not_after - now > h
      BY <1>1, <2>1, <3>1 DEF TimeLeft, MaxOf
    <3>3. QED
      BY <1>1, <3>1, <3>2, DelayAssumption DEF MaxOf
  <2>2. QED
    BY <1>1, <2>1 DEF LooksInTime
<1>6. /\ Under(config.list, "notify", entry') = Under(config.list, "notify", entry)
      /\ Under(config.list, "enroll", entry') = Under(config.list, "enroll", entry)
  BY <1>2, SameCheck
<1>7. tried' = Under(config.list, "enroll", entry)
  BY <1>1, AtLemma
<1>8. Thresholds_OK'
  BY <1>1, <1>2, <1>3, <1>6, <1>7, ThresholdsBefore, ThresholdsAfter
<1>9. QED
  BY <1>4, <1>5, <1>8 DEF MonitoringInv, Thresholds_OK

\* To start again is to go back to an earlier state, but never to NEED_CSR.
LEMMA ResetLemma ==
    ASSUME NEW e \in Entry
    PROVE  LET x == Reset(e)
           IN  /\ x \in Entry /\ x.not_after = e.not_after /\ x.last_check = e.last_check
               /\ x.state = "NEED_CSR" <=> e.state = "NEED_CSR"
               /\ e.state \in {"MONITORING", "NEED_CSR"} => x.state = e.state
BY DEF Reset, Entry, States

\* A request that starts again from e, which is itself or what its file has:
\* a warning that was not given before counts as lost.
LEMMA ResumeLemma ==
    ASSUME MonitoringInv, NEW e \in {entry, stored}, NEW x \in Entry, Resume(x),
           x.not_after = e.not_after, x.last_check = e.last_check,
           x.state = "NEED_CSR" <=> e.state = "NEED_CSR",
           now' \in Int, config' \in Config, Counted(config'), config'.list = config.list
    PROVE  MonitoringInv'
<1>1. /\ entry' = x /\ stored' = x /\ due' = now'
      /\ lost' = (lost \/ (x.state = "MONITORING" /\ entry.state # "MONITORING"))
      /\ told' = told /\ tried' = tried
  BY DEF Resume
<1>2. TypeOK' /\ StoredOK' /\ LooksInTime'
  BY <1>1 DEF TypeOK, StoredOK, LooksInTime
<1>3. /\ Under(config.list, "notify", x) = Under(config.list, "notify", e)
      /\ Under(config.list, "enroll", x) = Under(config.list, "enroll", e)
  BY SameCheck
<1>4. e.state = entry.state
  BY DEF MonitoringInv, StoredOK
<1>5. x.state \in {"MONITORING", "NEED_CSR"} /\ ~lost' => e.state \in {"MONITORING", "NEED_CSR"} /\ ~lost
  BY <1>1, <1>4
<1>6. Thresholds_OK'
  BY <1>1, <1>3, <1>5, ThresholdsBefore, ThresholdsAfter
<1>7. QED
  BY <1>2, <1>6 DEF MonitoringInv, Thresholds_OK

LEMMA StartAgainLemma ==
    ASSUME MonitoringInv, StartAgain
    PROVE  now' \in Int /\ config' \in Config /\ Counted(config') /\ config'.list = config.list
<1>1. config \in Config /\ config' = [config EXCEPT !.have = {}, !.n_config = 0]
  BY DEF MonitoringInv, TypeOK, StartAgain
<1>2. config' \in Config /\ config'.list = config.list /\ config'.have = {}
  BY <1>1 DEF Config
<1>3. now' \in Int
  BY TimeAssumption DEF StartAgain
<1>4. QED
  BY <1>2, <1>3 DEF Counted

\* The end and the start of the daemon or of the request, wherever it is.
LEMMA RestartStep == MonitoringInv /\ (RestartEntry \/ Shutdown \/ Crash) => MonitoringInv'
<1> SUFFICES ASSUME MonitoringInv, RestartEntry \/ Shutdown \/ Crash PROVE MonitoringInv'
  OBVIOUS
<1>0. /\ now \in Int /\ config \in Config /\ Counted(config)
      /\ entry \in Entry /\ stored \in Entry
  BY DEF MonitoringInv, TypeOK
<1>1. PICK x \in Entry :
        /\ x = Reset(Reset(entry))
        /\ x.not_after = entry.not_after /\ x.last_check = entry.last_check
        /\ x.state = "NEED_CSR" <=> entry.state = "NEED_CSR"
  <2>1. PICK y \in Entry :
          /\ y = Reset(entry)
          /\ y.not_after = entry.not_after /\ y.last_check = entry.last_check
          /\ y.state = "NEED_CSR" <=> entry.state = "NEED_CSR"
    BY <1>0, ResetLemma
  <2>2. QED
    BY <2>1, ResetLemma
<1>2. PICK z \in Entry :
        /\ z = Reset(stored)
        /\ z.not_after = stored.not_after /\ z.last_check = stored.last_check
        /\ z.state = "NEED_CSR" <=> stored.state = "NEED_CSR"
  BY <1>0, ResetLemma
<1>3. CASE RestartEntry
  <2>1. Resume(x) /\ now' = now /\ config' = config
    BY <1>1, <1>3 DEF RestartEntry, Resume
  <2>2. QED
    BY <1>0, <1>1, <2>1, ResumeLemma
<1>4. CASE Shutdown
  <2>1. Resume(x) /\ StartAgain
    BY <1>1, <1>4 DEF Shutdown, Resume
  <2>2. QED
    BY <1>1, <2>1, ResumeLemma, StartAgainLemma
<1>5. CASE Crash
  <2>1. Resume(z) /\ StartAgain
    BY <1>2, <1>5 DEF Crash, Resume
  <2>2. QED
    BY <1>2, <2>1, ResumeLemma, StartAgainLemma
<1>6. QED
  BY <1>3, <1>4, <1>5

\* The clock goes on.
LEMMA TickStep == MonitoringInv /\ Tick => MonitoringInv'
<1> SUFFICES ASSUME MonitoringInv, Tick PROVE MonitoringInv'
  OBVIOUS
<1>1. now' = now + 1 /\ UNCHANGED <<due, entry, stored, config, told, tried, lost>>
  BY DEF Tick
<1>2. now \in Int /\ due \in Int /\ entry \in Entry /\ config \in Config
  BY DEF MonitoringInv, TypeOK
<1>3. TypeOK' /\ StoredOK'
  BY <1>1, <1>2 DEF MonitoringInv, TypeOK, StoredOK
<1>4. LooksInTime'
  <2>1. ASSUME NEW kind \in Kinds, NEW h \in Range(config.list[kind]), TimeLeft(entry, now + 1) > h
        PROVE  TimeLeft(entry, now) > h
    <3>1. h \in Nat /\ entry.not_after \in Int
      BY <1>2, ListLemma DEF Entry
    <3>2. QED
      BY <1>2, <2>1, <3>1 DEF TimeLeft, MaxOf
  <2>2. due' > now' => due > now
    BY <1>1, <1>2
  <2>3. QED
    BY <1>1, <2>1, <2>2 DEF MonitoringInv, LooksInTime, SameLength
<1>5. Thresholds_OK'
  BY <1>1, ThresholdsBefore, ThresholdsAfter
<1>6. QED
  BY <1>3, <1>4, <1>5 DEF MonitoringInv, Thresholds_OK

-----------------------------------------------------------------------------
\* A new request has been told of, and tried for, what it starts with.
LEMMA MonitoringStarts == MonitoringInit => MonitoringInv
<1> SUFFICES ASSUME MonitoringInit PROVE MonitoringInv
  OBVIOUS
<1>1. PICK wants \in [Kinds -> BOOLEAN] : entry = New(wants)
  BY DEF MonitoringInit
<1>2. entry \in Entry /\ entry.state = "MONITORING"
  BY <1>1, TimeAssumption DEF New, Entry, States
<1>3. config \in Config /\ config.have = {}
  BY DEF MonitoringInit, Config
<1>4. TypeOK /\ StoredOK /\ LooksInTime
  BY <1>2, <1>3 DEF MonitoringInit, TypeOK, StoredOK, LooksInTime, Counted
<1>5. ToldAt(entry) /\ ToldAt(stored) /\ TriedAt(entry) /\ TriedAt(stored)
  BY DEF MonitoringInit, ToldAt, TriedAt
<1>6. QED
  BY <1>4, <1>5 DEF MonitoringInv

\* The invariant: the last warning and the last attempt were for the thresholds
\* of the last check, in memory and in the file, and the next look is in time.
THEOREM MonitoringInvariant == MonitoringSpec => []MonitoringInv
<1>1. MonitoringInv /\ UNCHANGED monitoringVars => MonitoringInv'
  BY DEF monitoringVars, MonitoringInv, TypeOK, StoredOK, LooksInTime, SameLength, ToldAt, TriedAt, At
<1>2. MonitoringInv /\ [MonitoringNext]_monitoringVars => MonitoringInv'
  BY <1>1, MonitoringStep, NeedToNotifyStep, NotifyingStep, RenewedStep, RejectedStep, RestartStep, TickStep DEF MonitoringNext
<1>3. QED
  BY <1>2, MonitoringStarts, PTL DEF MonitoringSpec

\* After a look that found nothing to do, the user was warned and a renewal was
\* tried for exactly the thresholds that were crossed, whatever the thresholds,
\* the delays and the clock (cm_check_expiration_is_noteworthy).
THEOREM ThresholdsAreNoticed == MonitoringSpec => []ThresholdsNoticed
<1>1. MonitoringInv => ThresholdsNoticed
  BY DEF MonitoringInv, StoredOK, ThresholdsNoticed, ToldAt, TriedAt, At, Crossed
<1>2. QED
  BY <1>1, MonitoringInvariant, PTL

\* A certificate is looked at before the next threshold is long over, for any
\* thresholds and delays (cm_decide_monitor_delay).
THEOREM LooksAreInTime == MonitoringSpec => []LooksInTime
<1>1. MonitoringInv => LooksInTime
  BY DEF MonitoringInv
<1>2. QED
  BY <1>1, MonitoringInvariant, PTL
=============================================================================
