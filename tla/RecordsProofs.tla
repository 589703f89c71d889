--------------------------- MODULE RecordsProofs ---------------------------
(***************************************************************************)
(* Proofs about requests and CAs in memory, in their files and on the bus, *)
(* for any texts, numbers and changes: what a restart, an earlier          *)
(* version's file and a copy leave of them; what a property shows and what *)
(* is announced of it; and what "set" and "modify" change.                 *)
(***************************************************************************)
EXTENDS Records, NaturalsInduction, WellFoundedInduction, TLAPS

\* Fields whose line depends on more than that they have text.
Special == KeyDates \cup CertDates \cup KeyNextNumbers \cup {"key_pin"}

HasLine(e, f) ==
  IF f \in KeyDates \cup CertDates THEN e[f] # 0
  ELSE IF f \in KeyNextNumbers THEN ~IsEmpty(e["key_next_marker"])
  ELSE IF f = "key_pin" THEN ~IsEmpty(e[f]) /\ e["key_pin_file"] = None
  ELSE ~IsEmpty(e[f])

\* No field is special in two ways, and no special one is among the others.
LEMMA SpecialApart ==
  /\ \A f \in Special : f \notin KeyTypes \cup KeyNumbers \cup KeyPlaces \cup KeyStrings
                                 \cup {"key_pin_file"}
  /\ \A f \in Special : f \notin CertNumbers \cup CertStrings \cup CertLists
  /\ \A f \in Special : f \notin TemplateFields
  /\ \A f \in Special : f \notin StateFields
  /\ \A f \in KeyDates \cup CertDates : f \notin KeyNextNumbers \cup {"key_pin"}
  /\ "key_pin" \notin KeyNextNumbers
<1> USE DEF Special, KeyDates, CertDates, KeyNextNumbers
<1>1. \A f \in Special : f \notin KeyTypes \cup KeyNumbers \cup KeyPlaces \cup KeyStrings
                                  \cup {"key_pin_file"}
  BY DEF KeyTypes, KeyNumbers, KeyPlaces, KeyStrings
<1>2. \A f \in Special : f \notin CertNumbers \cup CertStrings \cup CertLists
  BY DEF CertNumbers, CertStrings, CertLists
<1>3. \A f \in Special : f \notin TemplateFields
  BY DEF TemplateFields, TemplateNumbers, TemplateStrings, TemplateLists
<1>4. \A f \in Special : f \notin StateFields
  BY DEF StateFields, StateNumbers, Checks, StateStrings, StateLists
<1>5. QED
  BY <1>1, <1>2, <1>3, <1>4

\* No line of a request has a name that only earlier versions wrote.
LEMMA OldNamesApart ==
  /\ DOMAIN OldNames \cap EntryFields = {}
  /\ "last_expiration_check" \notin EntryFields \cup DOMAIN OldNames
<1>1. DOMAIN OldNames = {"cert_issued", "cert_expiration", "ca_profile", "challenge_password"}
  BY DEF OldNames
<1> DEFINE Old == {"cert_issued", "cert_expiration", "ca_profile", "challenge_password",
                   "last_expiration_check"}
<1>2. \A f \in Old : f \notin KeyFields
  BY DEF KeyFields, KeyTypes, KeyNumbers, KeyDates, KeyNextNumbers, KeyPlaces, KeyStrings, Pins
<1>3. \A f \in Old : f \notin CertFields
  BY DEF CertFields, CertNumbers, CertDates, CertStrings, CertLists
<1>4. \A f \in Old : f \notin TemplateFields
  BY DEF TemplateFields, TemplateNumbers, TemplateStrings, TemplateLists
<1>5. \A f \in Old : f \notin StateFields
  BY DEF StateFields, StateNumbers, Checks, StateStrings, StateLists
<1>6. QED
  BY <1>1, <1>2, <1>3, <1>4, <1>5 DEF EntryFields

\* The lines that a request gets.
LEMMA LinesOfRequest ==
  ASSUME NEW e
  PROVE  /\ DOMAIN cm_store_entry_write(e) = {f \in EntryFields : HasLine(e, f)}
         /\ \A f \in DOMAIN cm_store_entry_write(e) : cm_store_entry_write(e)[f] = e[f]
<1>1. \A f \in Special :
        f \in KeyLines(e) \cup CertLines(e) \cup TemplateLines(e) \cup StateLines(e) <=> HasLine(e, f)
  BY SpecialApart DEF KeyLines, CertLines, TemplateLines, StateLines, WithText, NotZero, HasLine, Special
<1>2. \A f \in EntryFields \ Special :
        f \in KeyLines(e) \cup CertLines(e) \cup TemplateLines(e) \cup StateLines(e) <=> HasLine(e, f)
  BY DEF KeyLines, CertLines, TemplateLines, StateLines, WithText, NotZero, HasLine, Special,
         EntryFields, KeyFields, CertFields, Pins
<1>3. KeyLines(e) \cup CertLines(e) \cup TemplateLines(e) \cup StateLines(e) \subseteq EntryFields
  BY DEF KeyLines, CertLines, TemplateLines, StateLines, WithText, NotZero,
         EntryFields, KeyFields, CertFields, Pins
<1>4. Special \subseteq EntryFields
  BY DEF Special, EntryFields, KeyFields, CertFields, Pins
<1>5. QED
  BY <1>1, <1>2, <1>3, <1>4 DEF cm_store_entry_write

\* A value comes from the one line that there is of a field, or is the default.
LEMMA ValueLemma ==
  ASSUME NEW file, NEW f
  PROVE  /\ NamesOf(f) \cap DOMAIN file = {} => Value(file, f) = EntryDefault(f)
         /\ \A n : NamesOf(f) \cap DOMAIN file = {n} =>
                 Value(file, f) = IF file[n] = Empty THEN None ELSE file[n]
BY DEF Value

\* Only fields that there were under other names have more than their own.
LEMMA NamesLemma ==
  /\ \A f : f \notin {OldNames[n] : n \in DOMAIN OldNames} => NamesOf(f) = {f}
  /\ \A n \in DOMAIN OldNames : NamesOf(OldNames[n]) = {OldNames[n], n}
BY DEF NamesOf, OldNames

\* What is read of a field, whatever file it is in.
LEMMA ReadField ==
  ASSUME NEW file, NEW f \in EntryFields
  PROVE  cm_store_entry_read(file)[f] =
           IF f \in KeyTypes THEN AlgorithmOfText(Value(file, f))
           ELSE IF f = "key_pin" /\ Value(file, "key_pin_file") # None THEN None
           ELSE IF f \in Checks /\ "last_expiration_check" \in DOMAIN file
                THEN file["last_expiration_check"]
           ELSE Value(file, f)
<1>1. KeyTypes \subseteq KeyFields /\ "key_pin" \in KeyFields
  BY DEF KeyFields, Pins
<1>2. \A c \in Checks : c \notin KeyFields
  BY DEF Checks, KeyFields, KeyTypes, KeyNumbers, KeyDates, KeyNextNumbers, KeyPlaces, KeyStrings,
         Pins
<1>3. \A c \in Checks : c \notin CertFields
  BY DEF Checks, CertFields, CertNumbers, CertDates, CertStrings, CertLists
<1>4. \A c \in Checks : c \notin TemplateFields
  BY DEF Checks, TemplateFields, TemplateNumbers, TemplateStrings, TemplateLists
<1>5. f \in KeyFields \cup CertFields \cup TemplateFields \cup StateFields
  BY DEF EntryFields
<1>6. cm_store_entry_read(file)[f] =
        IF f \in KeyFields THEN KeyOfLines(file)[f]
        ELSE IF f \in CertFields THEN CertOfLines(file)[f]
        ELSE IF f \in TemplateFields THEN TemplateOfLines(file)[f]
        ELSE StateOfLines(file)[f]
  BY DEF cm_store_entry_read
<1>7. QED
  BY <1>1, <1>2, <1>3, <1>4, <1>5, <1>6 DEF KeyOfLines, CertOfLines, TemplateOfLines, StateOfLines

\* What a value tells of its field.
LEMMA RequestValuesLemma ==
  ASSUME NEW e, IsRequest(e), NEW f \in EntryFields
  PROVE  /\ f \in KeyTypes => e[f] \in Algorithms
         /\ IsEmpty(e[f]) => /\ f \notin Numbers /\ f \notin KeyTypes
                             /\ f \notin {"key_storage_type", "cert_storage_type"}
                             /\ EntryDefault(f) = None
         /\ f \in {"key_pin_file", "key_next_marker"} => e[f] # Empty
<1>1. f \in KeyTypes => f \notin Numbers
  BY DEF KeyTypes, Numbers, KeyNumbers, KeyDates, KeyNextNumbers, CertNumbers, CertDates,
         TemplateNumbers, StateNumbers, Checks
<1>2. f \in {"key_pin_file", "key_next_marker"} =>
        f \notin Numbers /\ f \notin KeyTypes /\ f \notin {"key_storage_type", "cert_storage_type"}
  BY DEF KeyTypes, Numbers, KeyNumbers, KeyDates, KeyNextNumbers, CertNumbers, CertDates,
         TemplateNumbers, StateNumbers, Checks
<1>3. e[f] \in RequestValues(f)
  BY DEF IsRequest
<1>4. "template_ca_path_length" \in Numbers
  BY DEF Numbers, TemplateNumbers
<1>5. QED
  BY <1>1, <1>2, <1>3, <1>4, NoTextAssumption DEF RequestValues, IsEmpty, EntryDefault

\* Each field is after a restart what it should be.
LEMMA EntryKeptLemma ==
  ASSUME NEW e, IsRequest(e)
  PROVE  EntryKept(e)
<1> DEFINE file == cm_store_entry_write(e)
<1>1. \A f \in EntryFields :
        Value(file, f) = IF HasLine(e, f) THEN IF e[f] = Empty THEN None ELSE e[f]
                         ELSE EntryDefault(f)
  <2>1. SUFFICES ASSUME NEW f \in EntryFields
                 PROVE  Value(file, f) = IF HasLine(e, f) THEN IF e[f] = Empty THEN None ELSE e[f]
                                         ELSE EntryDefault(f)
    OBVIOUS
  <2>2. NamesOf(f) \cap DOMAIN file = IF HasLine(e, f) THEN {f} ELSE {}
    BY LinesOfRequest, OldNamesApart DEF NamesOf
  <2>3. HasLine(e, f) => file[f] = e[f]
    BY LinesOfRequest
  <2>4. QED
    BY <2>2, <2>3, ValueLemma
<1>2. "last_expiration_check" \notin DOMAIN file
  BY LinesOfRequest, OldNamesApart
<1>3. \A f \in EntryFields : cm_store_entry_read(file)[f] = AfterRestart(e)[f]
  <2>1. SUFFICES ASSUME NEW f \in EntryFields
                 PROVE  cm_store_entry_read(file)[f] = AfterRestart(e)[f]
    OBVIOUS
  <2> DEFINE value == IF HasLine(e, f) THEN IF e[f] = Empty THEN None ELSE e[f] ELSE EntryDefault(f)
  <2>2. cm_store_entry_read(file)[f] =
          IF f \in KeyTypes THEN AlgorithmOfText(value)
          ELSE IF f = "key_pin" /\ Value(file, "key_pin_file") # None THEN None ELSE value
    BY <1>1, <1>2, ReadField
  <2>3. AfterRestart(e)[f] =
          IF e[f] = Empty \/ (f = "key_pin" /\ ~IsEmpty(e["key_pin_file"])) THEN None
          ELSE IF f \in KeyNextNumbers /\ IsEmpty(e["key_next_marker"]) THEN 0
          ELSE e[f]
    BY DEF AfterRestart
  <2> HIDE DEF file
  <2>4. CASE f \in KeyTypes
    <3>1. e[f] \in Algorithms /\ ~IsEmpty(e[f])
      BY <2>4, RequestValuesLemma
    <3>2. f \notin Special
      BY <2>4, SpecialApart
    <3>3. AlgorithmOfText(value) = e[f]
      BY <3>1, <3>2 DEF HasLine, Special, IsEmpty, AlgorithmOfText, Algorithms
    <3>4. QED
      BY <2>2, <2>3, <2>4, <3>1, <3>2, <3>3 DEF Special, IsEmpty
  <2>5. CASE f \in KeyDates \cup CertDates \cup KeyNextNumbers
    <3>1. f \notin KeyTypes /\ f # "key_pin" /\ f \in Numbers /\ f # "template_ca_path_length"
      BY <2>5, SpecialApart DEF Special, Numbers, KeyDates, CertDates, KeyNextNumbers
    <3>2. ~IsEmpty(e[f]) /\ EntryDefault(f) = 0
      BY <3>1, RequestValuesLemma DEF EntryDefault
    <3>3. QED
      BY <2>2, <2>3, <2>5, <3>1, <3>2, SpecialApart DEF HasLine, IsEmpty
  <2>6. CASE f = "key_pin"
    <3>1. "key_pin_file" \in EntryFields /\ "key_pin_file" \notin Special \cup KeyTypes
      BY SpecialApart DEF EntryFields, KeyFields, Pins, KeyTypes
    <3>2. Value(file, "key_pin_file") # None <=> ~IsEmpty(e["key_pin_file"])
      BY <1>1, <3>1, RequestValuesLemma DEF HasLine, IsEmpty, Special
    <3>3. f \notin KeyTypes /\ f \notin KeyNextNumbers /\ f \notin KeyDates \cup CertDates
      BY <2>6, SpecialApart DEF Special
    <3>4. IsEmpty(e[f]) => EntryDefault(f) = None
      BY RequestValuesLemma
    <3>5. IsEmpty(e["key_pin_file"]) => e["key_pin_file"] = None
      BY <3>1, RequestValuesLemma DEF IsEmpty
    <3>6. QED
      BY <2>2, <2>3, <2>6, <3>2, <3>3, <3>4, <3>5 DEF HasLine, IsEmpty
  <2>7. CASE f \notin KeyTypes \cup Special
    <3>1. IsEmpty(e[f]) => EntryDefault(f) = None
      BY RequestValuesLemma
    <3>2. QED
      BY <2>2, <2>3, <2>7, <3>1 DEF HasLine, IsEmpty, Special
  <2>8. QED
    BY <2>4, <2>5, <2>6, <2>7 DEF Special
<1>4. QED
  BY <1>3 DEF EntryKept, AfterRestart, cm_store_entry_read

\* A PIN that is in a file of its own gets no line, whatever else there is.
LEMMA PinNotWrittenLemma == ASSUME NEW e PROVE PinNotWritten(e)
BY LinesOfRequest, SpecialApart DEF PinNotWritten, HasLine, IsEmpty, Special

\* Lines of an earlier version are read as the fields that they are, and leave
\* the others alone.
LEMMA OldFileLemma ==
  ASSUME NEW e, IsRequest(e), NEW text \in Texts, NEW time \in Quantities
  PROVE  OldFileRead(e, text, time)
<1> DEFINE new == NewLines(e)
           old == OldLines(text, time)
           file == OldFile(e, text, time)
           Targets == {OldNames[n] : n \in DOMAIN OldNames}
<1>1. /\ DOMAIN file = DOMAIN old \cup new
      /\ \A n \in DOMAIN old \cup new : file[n] = IF n \in new THEN e[n] ELSE old[n]
  BY DEF OldFile
<1>2. new \subseteq EntryFields /\ \A f \in new : HasLine(e, f) /\ f \notin Targets \cup Checks
  BY LinesOfRequest DEF NewLines
<1>3. DOMAIN old = DOMAIN OldNames \cup {"last_expiration_check"}
  BY DEF OldLines
<1>4. \A n \in DOMAIN old : n \notin EntryFields /\ n \notin new /\ file[n] = old[n]
  BY <1>1, <1>2, <1>3, OldNamesApart
<1>5. /\ Targets = {"cert_not_before", "cert_not_after", "template_profile", "template_challenge_password"}
      /\ \A f \in Targets : f \notin KeyTypes \cup Checks \cup {"key_pin"} /\ f \in EntryFields
  <2>1. Targets = {"cert_not_before", "cert_not_after", "template_profile", "template_challenge_password"}
    BY DEF OldNames
  <2>2. QED
    BY <2>1 DEF KeyTypes, Checks, EntryFields, CertFields, CertDates, TemplateFields, TemplateStrings
<1>6. \A n \in DOMAIN OldNames : cm_store_entry_read(file)[OldNames[n]] = old[n]
  <2>1. SUFFICES ASSUME NEW n \in DOMAIN OldNames
                 PROVE  cm_store_entry_read(file)[OldNames[n]] = old[n]
    OBVIOUS
  <2>2. NamesOf(OldNames[n]) \cap DOMAIN file = {n}
    BY <1>1, <1>2, <1>3, <1>4, <1>5, NamesLemma
  <2>3. old[n] # Empty
    BY <1>3, NoTextAssumption DEF OldLines
  <2>4. QED
    BY <1>3, <1>4, <1>5, <2>2, <2>3, ValueLemma, ReadField
<1>7. \A f \in Checks : cm_store_entry_read(file)[f] = time
  <2>1. \A f \in Checks : f \in EntryFields /\ f \notin KeyTypes /\ f # "key_pin"
    BY DEF Checks, EntryFields, StateFields, StateNumbers, KeyTypes
  <2>2. file["last_expiration_check"] = time
    BY <1>3, <1>4 DEF OldLines
  <2>3. QED
    BY <1>1, <1>3, <2>1, <2>2, ReadField
<1>8. \A f \in new : cm_store_entry_read(file)[f] = AfterRestart(e)[f]
  <2>1. SUFFICES ASSUME NEW f \in new
                 PROVE  cm_store_entry_read(file)[f] = AfterRestart(e)[f]
    OBVIOUS
  <2>2. f \in EntryFields /\ HasLine(e, f) /\ f \notin Checks
    BY <1>2
  <2>3. Value(file, f) = IF e[f] = Empty THEN None ELSE e[f]
    BY <1>1, <1>2, NamesLemma, ValueLemma
  <2>4. f = "key_pin" => e["key_pin_file"] = None /\ Value(file, "key_pin_file") = None
    <3>1. SUFFICES ASSUME f = "key_pin"
                   PROVE  e["key_pin_file"] = None /\ Value(file, "key_pin_file") = None
      OBVIOUS
    <3>2. e["key_pin_file"] = None
      BY <2>2, <3>1, SpecialApart DEF HasLine, Special
    <3>3. "key_pin_file" \in EntryFields /\ "key_pin_file" \notin Targets
      BY <1>5 DEF EntryFields, KeyFields, Pins
    <3>4. ~HasLine(e, "key_pin_file") /\ EntryDefault("key_pin_file") = None
      BY <3>2, <3>3, RequestValuesLemma, SpecialApart DEF HasLine, IsEmpty, Special
    <3>5. NamesOf("key_pin_file") \cap DOMAIN file = {}
      BY <1>1, <1>2, <1>4, <3>3, <3>4, NamesLemma
    <3>6. QED
      BY <3>2, <3>4, <3>5, ValueLemma
  <2>5. f \in KeyTypes => AlgorithmOfText(Value(file, f)) = e[f] /\ ~IsEmpty(e[f])
    BY <2>2, <2>3, RequestValuesLemma DEF AlgorithmOfText, Algorithms, IsEmpty
  <2>6. f \in KeyNextNumbers => ~IsEmpty(e["key_next_marker"])
    BY <2>2, SpecialApart DEF HasLine, Special
  <2>7. f \in KeyTypes => f # "key_pin" /\ f \notin KeyNextNumbers
    BY SpecialApart DEF Special
  <2>8. cm_store_entry_read(file)[f] =
          IF f \in KeyTypes THEN e[f] ELSE IF e[f] = Empty THEN None ELSE e[f]
    BY <2>2, <2>3, <2>4, <2>5, ReadField
  <2>9. AfterRestart(e)[f] = IF e[f] = Empty THEN None ELSE e[f]
    BY <2>2, <2>4, <2>6 DEF AfterRestart, IsEmpty
  <2>10. QED
    BY <2>5, <2>8, <2>9 DEF IsEmpty
<1>9. QED
  BY <1>6, <1>7, <1>8 DEF OldFileRead

\* A copy has what it should have.
LEMMA DupLemma == ASSUME NEW e, IsRequest(e) PROVE DupSame(e)
BY DEF DupSame, IsRequest, cm_store_entry_dup, Copied

-----------------------------------------------------------------------------
\* What a value tells of a CA's field.
LEMMA CAValuesLemma ==
  ASSUME NEW c, IsCA(c), NEW f \in CAFields
  PROVE  /\ IsEmpty(c[f]) => /\ f \notin CANumbers \cup {"force_issue_time", "ca_type"}
                             /\ CADefault(f) = None
         /\ f = "ca_type" => c[f] \in {Internal, External}
         /\ f = "force_issue_time" => c[f] \in {0, 1}
BY NoTextAssumption, Internal # External
DEF IsCA, CAValues, IsEmpty, CADefault, CANumbers, Internal, External

\* The fields that not every type of CA has a line for.
TypeFields ==
  {"ca_internal_serial", "ca_external_helper", "ca_internal_issue_time", "force_issue_time"}

\* What an internal CA or one with a helper has a line for.
LEMMA LinesOfCA ==
  ASSUME NEW c, IsCA(c)
  PROVE  /\ \A f \in CAFields \ TypeFields : f \in DOMAIN cm_store_ca_write(c) <=> ~IsEmpty(c[f])
         /\ "ca_internal_serial" \in DOMAIN cm_store_ca_write(c) <=>
               c["ca_type"] = Internal /\ ~IsEmpty(c["ca_internal_serial"])
         /\ "ca_internal_issue_time" \in DOMAIN cm_store_ca_write(c) <=>
               c["ca_type"] = Internal /\ c["force_issue_time"] # 0
         /\ "ca_external_helper" \in DOMAIN cm_store_ca_write(c) <=>
               c["ca_type"] # Internal /\ ~IsEmpty(c["ca_external_helper"])
         /\ \A f \in DOMAIN cm_store_ca_write(c) : cm_store_ca_write(c)[f] = c[f] /\ ~IsEmpty(c[f])
<1> DEFINE Own == IF c["ca_type"] = Internal THEN InternalLines(c) ELSE {"ca_external_helper"}
<1>1. /\ DOMAIN cm_store_ca_write(c) = WithText(c, CALines \cup Own)
      /\ \A f \in DOMAIN cm_store_ca_write(c) : cm_store_ca_write(c)[f] = c[f]
  BY DEF cm_store_ca_write
<1>2. CAFields \ TypeFields \subseteq CALines /\ CALines \cap TypeFields = {}
  BY DEF CALines, TypeFields, CAFields, CANumbers, CAStrings, CALists
<1>3. "ca_internal_issue_time" \in CAFields /\ ~IsEmpty(c["ca_internal_issue_time"])
  BY CAValuesLemma DEF CAFields, CANumbers
<1>4. QED
  BY <1>1, <1>2, <1>3 DEF WithText, InternalLines, TypeFields

\* What is read of a CA's field, but for what depends on its type.
LEMMA ReadCAField ==
  ASSUME NEW c, IsCA(c), NEW f \in CAFields \ TypeFields
  PROVE  cm_store_ca_read(cm_store_ca_write(c))[f] = IF c[f] = Empty THEN None ELSE c[f]
<1>1. cm_store_ca_write(c)[f] = c[f] \/ f \notin DOMAIN cm_store_ca_write(c)
  BY LinesOfCA
<1>2. QED
  BY <1>1, LinesOfCA, CAValuesLemma, NoTextAssumption DEF cm_store_ca_read, TypeFields, IsEmpty

\* The serial number, the time for the next certificate and the helper.
LEMMA ReadTypeFields ==
  ASSUME NEW c, IsCA(c)
  PROVE  LET r == cm_store_ca_read(cm_store_ca_write(c)) IN
         /\ r["ca_internal_serial"] =
               IF c["ca_type"] = Internal /\ ~IsEmpty(c["ca_internal_serial"])
               THEN c["ca_internal_serial"] ELSE FirstSerial
         /\ r["force_issue_time"] =
               IF c["ca_type"] = Internal /\ c["force_issue_time"] # 0 THEN 1 ELSE 0
         /\ r["ca_internal_issue_time"] =
               IF c["ca_type"] = Internal /\ c["force_issue_time"] # 0
               THEN c["ca_internal_issue_time"] ELSE 0
         /\ r["ca_external_helper"] =
               IF c["ca_type"] # Internal /\ ~IsEmpty(c["ca_external_helper"])
               THEN c["ca_external_helper"] ELSE None
<1>1. TypeFields \subseteq CAFields
  BY DEF TypeFields, CAFields, CANumbers, CAStrings
<1>2. /\ CADefault("ca_internal_serial") = None /\ CADefault("ca_external_helper") = None
      /\ CADefault("ca_internal_issue_time") = 0
  BY DEF CADefault, CANumbers
<1>3. QED
  BY <1>1, <1>2, LinesOfCA, NoTextAssumption DEF cm_store_ca_read, TypeFields, IsEmpty

\* A CA keeps what its type has a use for.
LEMMA CAKeptLemma == ASSUME NEW c, IsCA(c) PROVE CAKept(c)
<1> DEFINE r == cm_store_ca_read(cm_store_ca_write(c))
<1>1. \A f \in CAFields \ TypeFields : r[f] = Copied(c)[f]
  BY ReadCAField DEF Copied, IsCA
<1>2. "ca_type" \in CAFields /\ "force_issue_time" \in CAFields /\ "ca_external_helper" \in CAFields
  BY DEF CAFields, CAStrings
<1>3. c["ca_type"] \in {Internal, External} /\ c["force_issue_time"] \in {0, 1}
  BY <1>2, CAValuesLemma
<1>4. \A f \in CAFields \ {"ca_root_cert_dbs", "ca_other_root_cert_dbs"} :
         cm_store_ca_dup(c)[f] = Copied(c)[f]
  BY DEF cm_store_ca_dup, Copied, IsCA
<1>5. QED
  BY <1>1, <1>3, <1>4, ReadTypeFields, Internal # External
  DEF CAKept, TypeFields, IsEmpty, Internal, External

\* A request that was read is one.
LEMMA RequestReadLemma ==
  ASSUME NEW e, IsRequest(e)
  PROVE  IsRequest(cm_store_entry_read(cm_store_entry_write(e)))
<1>1. cm_store_entry_read(cm_store_entry_write(e)) = AfterRestart(e)
  BY EntryKeptLemma DEF EntryKept
<1>2. \A f \in EntryFields : AfterRestart(e)[f] \in RequestValues(f)
  <2>1. SUFFICES ASSUME NEW f \in EntryFields PROVE AfterRestart(e)[f] \in RequestValues(f)
    OBVIOUS
  <2>2. e[f] \in RequestValues(f)
    BY DEF IsRequest
  <2>3. e[f] = Empty => None \in RequestValues(f)
    BY <2>2, NoTextAssumption DEF RequestValues
  <2>4. f = "key_pin" => None \in RequestValues(f)
    <3>1. "key_pin" \notin Numbers /\ "key_pin" \notin KeyTypes
      BY DEF KeyTypes, Numbers, KeyNumbers, KeyDates, KeyNextNumbers, CertNumbers, CertDates,
             TemplateNumbers, StateNumbers, Checks
    <3>2. QED
      BY <3>1 DEF RequestValues
  <2>5. f \in KeyNextNumbers => 0 \in RequestValues(f)
    BY ValuesAssumption DEF RequestValues, Numbers
  <2>6. QED
    BY <2>2, <2>3, <2>4, <2>5 DEF AfterRestart
<1>3. QED
  BY <1>1, <1>2 DEF IsRequest, AfterRestart

\* A CA that was read is one.
LEMMA CAReadLemma == ASSUME NEW c, IsCA(c) PROVE IsCA(cm_store_ca_read(cm_store_ca_write(c)))
<1> DEFINE r == cm_store_ca_read(cm_store_ca_write(c))
<1>1. DOMAIN r = CAFields
  BY DEF cm_store_ca_read
<1>2. \A f \in CAFields : c[f] \in CAValues(f)
  BY DEF IsCA
<1>3. ASSUME NEW f \in CAFields \ TypeFields PROVE r[f] \in CAValues(f)
  BY <1>2, ReadCAField, NoTextAssumption DEF CAValues
<1>4. ASSUME NEW f \in TypeFields PROVE r[f] \in CAValues(f)
  <2>1. TypeFields \subseteq CAFields
    BY DEF TypeFields, CAFields, CANumbers, CAStrings
  <2>2. /\ CAValues("force_issue_time") = {0, 1} /\ CAValues("ca_internal_issue_time") = Quantities
        /\ CAValues("ca_internal_serial") = Texts \cup {None, Empty}
        /\ CAValues("ca_external_helper") = Texts \cup {None, Empty}
    BY DEF CAValues, CANumbers
  <2>3. QED
    BY <1>2, <2>1, <2>2, ReadTypeFields, ValuesAssumption DEF TypeFields
<1>5. QED
  BY <1>1, <1>3, <1>4 DEF IsCA

\* A table without two pairs of one name has what its pairs say.
LEMMA TableLemma ==
  ASSUME NEW pairs, \A x, y \in pairs : x[1] = y[1] => x = y
  PROVE  /\ DOMAIN Table(pairs) = Named(pairs)
         /\ \A x \in pairs : Table(pairs)[x[1]] = x[2]
<1>1. DOMAIN Table(pairs) = Named(pairs)
  BY DEF Table, Named
<1>2. ASSUME NEW x \in pairs PROVE Table(pairs)[x[1]] = x[2]
  <2>1. (CHOOSE y \in pairs : y[1] = x[1]) = x
    OBVIOUS
  <2>2. Table(pairs)[x[1]] = (CHOOSE y \in pairs : y[1] = x[1])[2]
    BY DEF Table
  <2>3. QED
    BY <2>1, <2>2
<1>3. QED
  BY <1>1, <1>2

\* The properties that show one field each, and the fields.
Pairs == StringProperties \cup ListProperties \cup NumberProperties

\* A property has one field and a field one property: the tables of
\* cm_tdbush_property_get are one to one.
LEMMA PairsApart == \A x, y \in Pairs : (x[1] = y[1] <=> x[2] = y[2]) /\ x = <<x[1], x[2]>>
BY DEF Pairs, StringProperties, ListProperties, NumberProperties, CertTexts, TemplateTexts,
       CommandTexts, OwnerTexts, StateTexts, CertListProperties, TemplateListProperties, PlaceLists

\* Each has a field of its own.
LEMMA FieldsLemma ==
  /\ Stored = Named(StringProperties) \cup Named(ListProperties) \cup Named(NumberProperties)
  /\ \A x \in Pairs : x[1] \in Stored /\ Fields[x[1]] = x[2]
  /\ \A p \in Stored : <<p, Fields[p]>> \in Pairs
  /\ \A p, q \in Stored : p # q => Fields[p] # Fields[q]
<1>1. \A x, y \in Pairs : x[1] = y[1] => x = y
  <2>1. SUFFICES ASSUME NEW x \in Pairs, NEW y \in Pairs, x[1] = y[1] PROVE x = y
    OBVIOUS
  <2>2. x = <<x[1], x[2]>> /\ y = <<y[1], y[2]>> /\ x[2] = y[2]
    BY <2>1, PairsApart
  <2>3. QED
    BY <2>1, <2>2
<1>2. Fields = Table(Pairs)
  BY DEF Fields, Pairs
<1>3. Stored = Named(Pairs) /\ \A x \in Pairs : Fields[x[1]] = x[2]
  BY <1>1, <1>2, TableLemma DEF Stored
<1>4. \A p \in Stored : \E x \in Pairs : x[1] = p
  BY <1>3 DEF Named
<1>5. Named(Pairs) = Named(StringProperties) \cup Named(ListProperties) \cup Named(NumberProperties)
  BY DEF Named, Pairs
<1>6. \A p \in Stored : <<p, Fields[p]>> \in Pairs
  BY <1>3, <1>4, PairsApart
<1>7. ASSUME NEW p \in Stored, NEW q \in Stored, p # q PROVE Fields[p] # Fields[q]
  <2>1. <<p, Fields[p]>> \in Pairs /\ <<q, Fields[q]>> \in Pairs
    BY <1>6
  <2>2. QED
    BY <2>1, <1>7, PairsApart
<1>8. QED
  BY <1>3, <1>5, <1>6, <1>7 DEF Named

\* The secrets and their files.
Secrets == {"key-pin", "key-pin-file", "template-challenge-password", "template-challenge-password-file"}

\* The four properties of PINs and passwords: the field of each, and the one that a
\* write of it clears.
LEMMA SecretsLemma ==
  /\ DOMAIN SecretProperties = Secrets /\ DOMAIN OtherSecret = Secrets
  /\ SecretProperties["key-pin"] = "key_pin"
  /\ SecretProperties["key-pin-file"] = "key_pin_file"
  /\ SecretProperties["template-challenge-password"] = "template_challenge_password"
  /\ SecretProperties["template-challenge-password-file"] = "template_challenge_password_file"
  /\ OtherSecret["key-pin"] = "key-pin-file" /\ OtherSecret["key-pin-file"] = "key-pin"
  /\ OtherSecret["template-challenge-password"] = "template-challenge-password-file"
  /\ OtherSecret["template-challenge-password-file"] = "template-challenge-password"
<1> DEFINE P == {<<"key-pin", "key_pin">>, <<"key-pin-file", "key_pin_file">>,
                 <<"template-challenge-password", "template_challenge_password">>,
                 <<"template-challenge-password-file", "template_challenge_password_file">>}
           O == {<<"key-pin", "key-pin-file">>, <<"key-pin-file", "key-pin">>,
                 <<"template-challenge-password", "template-challenge-password-file">>,
                 <<"template-challenge-password-file", "template-challenge-password">>}
<1>1. (\A x, y \in P : x[1] = y[1] => x = y) /\ Named(P) = Secrets
  BY DEF Named, Secrets
<1>2. (\A x, y \in O : x[1] = y[1] => x = y) /\ Named(O) = Secrets
  BY DEF Named, Secrets
<1>3. SecretProperties = Table(P) /\ OtherSecret = Table(O)
  BY DEF SecretProperties, OtherSecret
<1> HIDE DEF P, O
<1>4. /\ DOMAIN SecretProperties = Secrets /\ \A x \in P : SecretProperties[x[1]] = x[2]
      /\ DOMAIN OtherSecret = Secrets /\ \A x \in O : OtherSecret[x[1]] = x[2]
  BY <1>1, <1>2, <1>3, TableLemma
<1>5. QED
  BY <1>4 DEF P, O

\* The fields that are computed from, but not shown as they are.
OtherFields == {"cert_storage_type", "cert_storage_location", "cert_nickname", "cert_token",
    "key_storage_type", "key_storage_location", "key_nickname", "key_token", "key_type", "key_size",
    "state", "ca_name", "cert_chain", "cert_roots", "key_issued_count", "template_is_ca",
    "template_ca_path_length", "autorenew", "monitor", "key_pin", "key_pin_file",
    "template_challenge_password", "template_challenge_password_file"}

\* No property of a table shows a field that a computed property is made of.
LEMMA OthersApart == \A x \in Pairs : x[2] \notin OtherFields
BY DEF OtherFields, Pairs, StringProperties, ListProperties, NumberProperties, CertTexts, TemplateTexts,
       CommandTexts, OwnerTexts, StateTexts, CertListProperties, TemplateListProperties, PlaceLists

\* The properties that are computed.
ComputedNames == Secrets \cup Notifications \cup CertLocations \cup KeyLocations
  \cup {"key-type", "key-size", "status", "stuck", "ca", "cert-chain", "cert-roots", "key-issued-count",
        "template-is-ca", "template-ca-path-length", "autorenew", "monitoring"}

\* A property is either shown by a field of its own or computed, never both.
LEMMA ComputedLemma ==
  /\ Properties = Stored \cup ComputedNames
  /\ \A p \in ComputedNames : p \notin Stored
<1>1. \A p \in ComputedNames : \A x \in Pairs : x[1] # p
  BY DEF ComputedNames, Secrets, Notifications, CertLocations, KeyLocations, Pairs, StringProperties,
     ListProperties, NumberProperties, CertTexts, TemplateTexts, CommandTexts, OwnerTexts, StateTexts,
     CertListProperties, TemplateListProperties, PlaceLists
<1>2. Properties = Stored \cup ComputedNames
  BY SecretsLemma DEF Properties, ComputedTexts, ComputedLists, ComputedNumbers, Truths, ComputedNames,
       Notifications, CertLocations, KeyLocations, Secrets
<1>3. QED
  BY <1>1, <1>2, FieldsLemma

\* The fields of properties.
LEMMA FieldsOfLemma ==
  ASSUME NEW p \in Properties
  PROVE  /\ p \in Stored => FieldsOf(p) = {Fields[p]}
         /\ p \in Secrets => FieldsOf(p) = {SecretProperties[p]}
         /\ p \in CertLocations =>
               FieldsOf(p) = {"cert_storage_type", "cert_storage_location", "cert_nickname", "cert_token"}
         /\ p \in KeyLocations =>
               FieldsOf(p) = {"key_storage_type", "key_storage_location", "key_nickname", "key_token"}
         /\ p \in Notifications => FieldsOf(p) = {}
         /\ p \in {"key-type", "key-size"} => FieldsOf(p) = {"key_type", "key_size"}
         /\ p \in {"status", "stuck"} => FieldsOf(p) = {"state"}
         /\ p = "ca" => FieldsOf(p) = {"ca_name"}
         /\ p = "cert-chain" => FieldsOf(p) = {"cert_chain"}
         /\ p = "cert-roots" => FieldsOf(p) = {"cert_roots"}
         /\ p = "key-issued-count" => FieldsOf(p) = {"key_issued_count"}
         /\ p \in {"template-is-ca", "template-ca-path-length"} =>
               FieldsOf(p) = {"template_is_ca", "template_ca_path_length"}
         /\ p = "autorenew" => FieldsOf(p) = {"autorenew"}
         /\ p = "monitoring" => FieldsOf(p) = {"monitor"}
<1>1. DOMAIN SecretProperties = Secrets /\ p \in Stored \cup ComputedNames /\
        DOMAIN ComputedLists = {"cert-chain", "cert-roots"}
  BY SecretsLemma, ComputedLemma DEF ComputedLists
<1>2. p \in ComputedNames => p \notin Stored
  BY ComputedLemma
<1>3. ComputedLists["cert-chain"] = "cert_chain" /\ ComputedLists["cert-roots"] = "cert_roots"
  BY DEF ComputedLists
<1>4. p \in Stored => FieldsOf(p) = {Fields[p]}
  BY <1>1, <1>2 DEF FieldsOf, ComputedNames
<1>5. p \in Secrets => FieldsOf(p) = {SecretProperties[p]}
  BY <1>1, <1>2 DEF FieldsOf, ComputedNames, Secrets, Notifications, CertLocations, KeyLocations
<1>6. p \in CertLocations =>
               FieldsOf(p) = {"cert_storage_type", "cert_storage_location", "cert_nickname", "cert_token"}
  BY <1>1, <1>2 DEF FieldsOf, ComputedNames, Secrets, Notifications, CertLocations, KeyLocations
<1>7. p \in KeyLocations =>
               FieldsOf(p) = {"key_storage_type", "key_storage_location", "key_nickname", "key_token"}
  BY <1>1, <1>2 DEF FieldsOf, ComputedNames, Secrets, Notifications, CertLocations, KeyLocations
<1>8. p \in Notifications => FieldsOf(p) = {}
  BY <1>1, <1>2 DEF FieldsOf, ComputedNames, Secrets, Notifications, CertLocations, KeyLocations
<1> DEFINE Rest == {"key-type", "key-size", "status", "stuck", "ca", "cert-chain", "cert-roots",
                     "key-issued-count",
        "template-is-ca", "template-ca-path-length", "autorenew", "monitoring"}
<1>9. p \in Rest => p \in ComputedNames /\ p \notin Secrets \cup Notifications \cup CertLocations \cup
        KeyLocations
  BY DEF ComputedNames, Secrets, Notifications, CertLocations, KeyLocations
<1>10. QED
  BY <1>1, <1>2, <1>3, <1>4, <1>5, <1>6, <1>7, <1>8, <1>9 DEF FieldsOf

\* The values of properties.
LEMMA RawLemma ==
  ASSUME NEW e, NEW p \in Properties
  PROVE  /\ p \in Stored => Raw(e, p) = e[Fields[p]]
         /\ p \in Secrets => Raw(e, p) = OrEmpty(e[SecretProperties[p]])
         /\ p \in CertLocations => Raw(e, p) = CertLocation(e, p)
         /\ p \in KeyLocations => Raw(e, p) = KeyLocation(e, p)
         /\ p \in Notifications => Raw(e, p) = Empty
         /\ p = "key-type" => Raw(e, p) = KeyType(e)
         /\ p = "key-size" => Raw(e, p) = KeySize(e)
         /\ p = "status" => Raw(e, p) = e["state"]
         /\ p = "stuck" => Raw(e, p) = (e["state"] \in Stuck)
         /\ p = "ca" => Raw(e, p) = OrEmpty(e["ca_name"])
         /\ p = "cert-chain" => Raw(e, p) = e["cert_chain"]
         /\ p = "cert-roots" => Raw(e, p) = e["cert_roots"]
         /\ p = "key-issued-count" => Raw(e, p) = e["key_issued_count"]
         /\ p = "template-is-ca" => Raw(e, p) = (e["template_is_ca"] # 0)
         /\ p = "template-ca-path-length" =>
               Raw(e, p) = IF e["template_is_ca"] # 0 THEN e["template_ca_path_length"] ELSE -1
         /\ p = "autorenew" => Raw(e, p) = (e["autorenew"] # 0)
         /\ p = "monitoring" => Raw(e, p) = (e["monitor"] # 0)
<1>1. DOMAIN SecretProperties = Secrets /\ DOMAIN ComputedLists = {"cert-chain", "cert-roots"}
  BY SecretsLemma DEF ComputedLists
<1>2. p \in ComputedNames => p \notin Stored
  BY ComputedLemma
<1>3. ComputedLists["cert-chain"] = "cert_chain" /\ ComputedLists["cert-roots"] = "cert_roots"
  BY DEF ComputedLists
<1>4. p \in Stored => Raw(e, p) = e[Fields[p]]
  BY DEF Raw
<1>5. p \in ComputedNames => Raw(e, p) = Computed(e, p)
  BY <1>2 DEF Raw
<1> DEFINE Others == {"key-type", "key-size", "status", "stuck", "ca", "cert-chain", "cert-roots",
                      "key-issued-count", "template-is-ca", "template-ca-path-length", "autorenew",
                        "monitoring"}
<1>6. p \in Others \cup Secrets \cup Notifications \cup CertLocations \cup KeyLocations => p \in ComputedNames
  BY DEF ComputedNames
<1>7. /\ p \in Secrets => p \notin Notifications \cup CertLocations \cup KeyLocations \cup Others
      /\ p \in Notifications => p \notin CertLocations \cup KeyLocations \cup Others
      /\ p \in CertLocations => p \notin KeyLocations \cup Others
      /\ p \in KeyLocations => p \notin Others
  BY DEF Secrets, Notifications, CertLocations, KeyLocations
<1>8. p \in Secrets => Raw(e, p) = OrEmpty(e[SecretProperties[p]])
  BY <1>1, <1>5, <1>6, <1>7 DEF Computed
<1>9. p \in CertLocations => Raw(e, p) = CertLocation(e, p)
  BY <1>1, <1>5, <1>6, <1>7 DEF Computed
<1>10. p \in KeyLocations => Raw(e, p) = KeyLocation(e, p)
  BY <1>1, <1>5, <1>6, <1>7 DEF Computed
<1>11. p \in Notifications => Raw(e, p) = Empty
  BY <1>1, <1>5, <1>6, <1>7 DEF Computed
<1>12. p \in {"stuck", "template-is-ca", "autorenew", "monitoring"} =>
         Raw(e, p) = IF p = "stuck" THEN e["state"] \in Stuck
                     ELSE IF p = "template-is-ca" THEN e["template_is_ca"] # 0
                     ELSE IF p = "autorenew" THEN e["autorenew"] # 0 ELSE e["monitor"] # 0
  BY <1>1, <1>5, <1>6, <1>7 DEF Computed
<1>13. p \in Others \ {"stuck", "template-is-ca", "autorenew", "monitoring"} =>
         Raw(e, p) = IF p = "key-type" THEN KeyType(e) ELSE IF p = "key-size" THEN KeySize(e)
                     ELSE IF p = "status" THEN e["state"] ELSE IF p = "ca" THEN OrEmpty(e["ca_name"])
                     ELSE IF p = "cert-chain" THEN e["cert_chain"] ELSE IF p = "cert-roots" THEN e["cert_roots"]
                     ELSE IF p = "key-issued-count" THEN e["key_issued_count"]
                     ELSE IF e["template_is_ca"] # 0 THEN e["template_ca_path_length"] ELSE -1
  BY <1>1, <1>3, <1>5, <1>6, <1>7 DEF Computed
<1>14. QED
  BY <1>4, <1>8, <1>9, <1>10, <1>11, <1>12, <1>13

\* What is shown depends on nothing else.
LEMMA RawDepends ==
  ASSUME NEW old, NEW new, NEW p \in Properties, \A f \in FieldsOf(p) : new[f] = old[f]
  PROVE  Raw(new, p) = Raw(old, p)
<1>1. CASE p \in Stored \cup Secrets
  BY <1>1, RawLemma, FieldsOfLemma
<1>2. CASE p \in CertLocations
  BY <1>2, RawLemma, FieldsOfLemma DEF CertLocation, CertLocations
<1>3. CASE p \in KeyLocations
  BY <1>3, RawLemma, FieldsOfLemma DEF KeyLocation, KeyLocations
<1>4. CASE p \in ComputedNames \ (Secrets \cup CertLocations \cup KeyLocations)
  <2>1. p \in Notifications \/ p \in {"key-type", "key-size", "status", "stuck", "ca", "cert-chain",
          "cert-roots",
          "key-issued-count", "template-is-ca", "template-ca-path-length", "autorenew", "monitoring"}
    BY <1>4 DEF ComputedNames
  <2>2. QED
    BY <2>1, RawLemma, FieldsOfLemma DEF KeyType, KeySize
<1>5. QED
  BY <1>1, <1>2, <1>3, <1>4, ComputedLemma

\* Names of texts, lists, numbers and truths are different ones.
LEMMA TypeLemma ==
  /\ \A p \in Named(StringProperties) \cup Secrets \cup Notifications \cup CertLocations \cup KeyLocations
              \cup {"key-type", "status", "ca"} : Type(p) = "text"
  /\ \A p \in Named(ListProperties) \cup {"cert-chain", "cert-roots"} : Type(p) = "list"
  /\ \A p \in Named(NumberProperties) \cup {"key-size", "key-issued-count", "template-ca-path-length"} :
        Type(p) = "number"
  /\ \A p \in {"stuck", "template-is-ca", "autorenew", "monitoring"} : Type(p) = "truth"
<1> DEFINE Texts0 == Secrets \cup Notifications \cup CertLocations \cup KeyLocations \cup {"key-type", "status",
                       "ca"}
           Lists0 == {"cert-chain", "cert-roots"}
           Numbers0 == {"key-size", "key-issued-count", "template-ca-path-length"}
<1>1. TextNames = Named(StringProperties) \cup Texts0 /\ ListNames = Named(ListProperties) \cup Lists0
  BY SecretsLemma DEF TextNames, ListNames, ComputedTexts, ComputedLists
<1>2. /\ Texts0 \cap (Lists0 \cup Numbers0 \cup Truths) = {}
      /\ Lists0 \cap (Numbers0 \cup Truths) = {} /\ Numbers0 \cap Truths = {}
  BY DEF Secrets, Notifications, CertLocations, KeyLocations, Truths
<1>3. \A p \in Texts0 \cup Lists0 \cup Numbers0 \cup Truths : p \notin Stored
  <2>1. Texts0 \cup Lists0 \cup Numbers0 \cup Truths \subseteq ComputedNames
    BY DEF ComputedNames, Truths
  <2>2. QED
    BY <2>1, ComputedLemma
<1>4. \A x \in StringProperties : \A y \in ListProperties \cup NumberProperties : x[1] # y[1]
  BY DEF StringProperties, ListProperties, NumberProperties, CertTexts, TemplateTexts,
       CommandTexts, OwnerTexts, StateTexts, CertListProperties, TemplateListProperties, PlaceLists
<1>5. \A x \in ListProperties : \A y \in NumberProperties : x[1] # y[1]
  BY DEF ListProperties, NumberProperties, CertListProperties, TemplateListProperties, PlaceLists
<1>6. /\ Named(StringProperties) \cap (Named(ListProperties) \cup Named(NumberProperties)) = {}
      /\ Named(ListProperties) \cap Named(NumberProperties) = {}
  BY <1>4, <1>5 DEF Named
<1>7. Truths = {"stuck", "template-is-ca", "autorenew", "monitoring"}
  BY DEF Truths
<1> HIDE DEF Texts0, Lists0, Numbers0
<1>8. /\ \A p \in Named(StringProperties) \cup Texts0 : Type(p) = "text"
      /\ \A p \in Named(ListProperties) \cup Lists0 : Type(p) = "list"
      /\ \A p \in Named(NumberProperties) \cup Numbers0 : Type(p) = "number"
      /\ \A p \in Truths : Type(p) = "truth"
  BY <1>1, <1>2, <1>3, <1>6, FieldsLemma DEF Type
<1>9. QED
  BY <1>7, <1>8 DEF Texts0, Lists0, Numbers0

\* The fields of properties are fields, those of numbers are numbers, and those of
\* texts and lists have no other values than texts.
Plain(f) == f \notin Numbers /\ f \notin KeyTypes /\ f \notin {"key_storage_type", "cert_storage_type", "state"}

\* Every table's fields are fields of a request; those of numbers hold numbers, and
\* those of texts and lists hold neither numbers, key types, places nor states.
LEMMA PairFields ==
  /\ \A x \in Pairs : x[2] \in EntryFields
  /\ \A x \in NumberProperties : x[2] \in Numbers
  /\ \A x \in StringProperties \cup ListProperties : Plain(x[2])
<1>1. \A x \in NumberProperties : x[2] \in Numbers /\ x[2] \in EntryFields
  BY DEF NumberProperties, Numbers, KeyNumbers, KeyDates, CertNumbers, CertDates, StateNumbers, Checks,
     EntryFields, KeyFields, CertFields, StateFields
<1>2. \A x \in StringProperties : Plain(x[2])
  BY DEF Plain, Numbers, StringProperties, KeyNumbers, KeyDates, KeyNextNumbers, CertNumbers, CertDates,
     StateNumbers, Checks, TemplateNumbers, KeyTypes,
     CertTexts, TemplateTexts, CommandTexts, OwnerTexts, StateTexts
<1>3. \A x \in ListProperties : Plain(x[2])
  BY DEF Plain, Numbers, ListProperties, KeyNumbers, KeyDates, KeyNextNumbers, CertNumbers, CertDates,
     StateNumbers, Checks, TemplateNumbers, KeyTypes,
     CertListProperties, TemplateListProperties, PlaceLists
<1>4. \A x \in StringProperties : x[2] \in EntryFields
  BY DEF StringProperties, CertTexts, TemplateTexts, CommandTexts, OwnerTexts, StateTexts,
     EntryFields, KeyFields, KeyPlaces, CertFields, CertStrings, TemplateFields, TemplateStrings, StateFields,
       StateStrings
<1>5. \A x \in ListProperties : x[2] \in EntryFields
  BY DEF ListProperties, CertListProperties, TemplateListProperties, PlaceLists,
     EntryFields, CertFields, CertStrings, CertLists, TemplateFields, TemplateStrings, TemplateLists,
       StateFields, StateLists
<1>6. QED
  BY <1>1, <1>2, <1>3, <1>4, <1>5 DEF Pairs

\* What a property depends on are fields of the request.
LEMMA FieldsAreFields == \A p \in Properties : FieldsOf(p) \subseteq EntryFields
<1>1. OtherFields \subseteq EntryFields
  BY DEF OtherFields, EntryFields, KeyFields, KeyTypes, KeyNumbers, KeyPlaces, Pins, CertFields, CertStrings,
     TemplateFields, TemplateNumbers, TemplateStrings, StateFields, StateNumbers, StateStrings, StateLists
<1>2. \A p \in Stored : Fields[p] \in EntryFields
  BY FieldsLemma, PairFields
<1>3. \A p \in Secrets : SecretProperties[p] \in OtherFields
  BY SecretsLemma DEF Secrets, OtherFields
<1>4. \A p \in ComputedNames : FieldsOf(p) \subseteq OtherFields
  BY <1>3, FieldsOfLemma, ComputedLemma DEF OtherFields, ComputedNames
<1>5. QED
  BY <1>1, <1>2, <1>4, FieldsOfLemma, ComputedLemma

\* Which fields are of which kind.
LEMMA KindsLemma ==
  /\ {"key_size", "key_issued_count", "template_is_ca", "template_ca_path_length", "autorenew",
       "monitor"} \subseteq Numbers
  /\ "key_type" \in KeyTypes /\ KeyTypes \cap Numbers = {}
  /\ \A f \in {"key_storage_type", "cert_storage_type", "state"} : f \notin Numbers /\ f \notin KeyTypes
<1>1. {"key_size", "key_issued_count", "template_is_ca", "template_ca_path_length", "autorenew",
        "monitor"} \subseteq Numbers
  BY DEF Numbers, KeyNumbers, TemplateNumbers, StateNumbers
<1>2. "key_type" \in KeyTypes /\ KeyTypes \cap Numbers = {}
  BY DEF KeyTypes, Numbers, KeyNumbers, KeyDates, KeyNextNumbers, CertNumbers, CertDates, TemplateNumbers,
     StateNumbers, Checks
<1>3. \A f \in {"key_storage_type", "cert_storage_type", "state"} : f \notin Numbers /\ f \notin KeyTypes
  BY DEF KeyTypes, Numbers, KeyNumbers, KeyDates, KeyNextNumbers, CertNumbers, CertDates, TemplateNumbers,
     StateNumbers, Checks
<1>4. QED
  BY <1>1, <1>2, <1>3

\* Numbers, types and states are never without text.
LEMMA NotEmptyLemma ==
  ASSUME NEW e, IsRequest(e), NEW f \in EntryFields, ~Plain(f)
  PROVE  e[f] # Empty /\ (f # "state" => e[f] # None)
<1>1. e[f] \in RequestValues(f)
  BY DEF IsRequest
<1>2. QED
  BY <1>1, KindsLemma, NoTextAssumption DEF Plain, RequestValues

\* The copy that changes are found by shows the same, or nothing where there is a
\* text or list without anything in it.
LEMMA DupShows ==
  ASSUME NEW e, IsRequest(e), NEW p \in Properties, FieldsOf(p) \cap ClientFields = {}
  PROVE  \/ Raw(cm_store_entry_dup(e), p) = Raw(e, p)
         \/ Raw(cm_store_entry_dup(e), p) = None /\ Type(p) \in {"text", "list"}
<1> DEFINE d == cm_store_entry_dup(e)
<1>1. \A f \in FieldsOf(p) : d[f] = IF e[f] = Empty THEN None ELSE e[f]
  <2>1. \A f \in FieldsOf(p) : f \in EntryFields /\ f \notin {"key_pin", "root_cert_dbs", "other_root_cert_dbs"}
    <3>1. {"key_pin", "root_cert_dbs", "other_root_cert_dbs"} \subseteq ClientFields
      <4>1. <<"root-cert-nssdbs", "root_cert_dbs">> \in PlaceLists /\
              <<"root-other-cert-nssdbs", "other_root_cert_dbs">> \in PlaceLists
        BY DEF PlaceLists
      <4>2. QED
        BY <4>1 DEF ClientFields, Pins
    <3>2. QED
      BY <3>1, FieldsAreFields
  <2>2. DOMAIN e = EntryFields
    BY DEF IsRequest
  <2>3. QED
    BY <2>1, <2>2 DEF cm_store_entry_dup, Copied
<1>2. \A f \in FieldsOf(p) : ~Plain(f) => d[f] = e[f]
  BY <1>1, FieldsAreFields, NotEmptyLemma
<1> SUFFICES Raw(d, p) = Raw(e, p) \/ (Raw(d, p) = None /\ Type(p) \in {"text", "list"})
  OBVIOUS
<1> HIDE DEF d
<1>3. CASE p \in Stored
  <2>1. <<p, Fields[p]>> \in Pairs /\ p \in Named(StringProperties) \cup Named(ListProperties) \cup
          Named(NumberProperties)
    BY <1>3, FieldsLemma
  <2>2. p \in Named(NumberProperties) => d[Fields[p]] = e[Fields[p]]
    <3>1. SUFFICES ASSUME p \in Named(NumberProperties) PROVE Fields[p] \in Numbers
      BY <1>2, <1>3, FieldsOfLemma DEF Plain
    <3>2. PICK x \in NumberProperties : x[1] = p
      BY <3>1 DEF Named
    <3>3. x \in Pairs
      BY DEF Pairs
    <3>4. QED
      BY <3>2, <3>3, FieldsLemma, PairFields
  <2>3. QED
    BY <1>1, <1>3, <2>1, <2>2, FieldsOfLemma, RawLemma, TypeLemma
<1>4. CASE p \in Secrets
  BY <1>1, <1>4, FieldsOfLemma, RawLemma DEF OrEmpty
<1>5. CASE p \in CertLocations
  <2>1. d["cert_storage_type"] = e["cert_storage_type"]
    BY <1>2, <1>5, FieldsOfLemma DEF Plain
  <2>2. \A f \in {"cert_storage_location", "cert_nickname", "cert_token"} : OrEmpty(d[f]) = OrEmpty(e[f])
    BY <1>1, <1>5, FieldsOfLemma DEF OrEmpty
  <2>3. CertLocation(d, p) = CertLocation(e, p)
    BY <1>5, <2>1, <2>2 DEF CertLocation, CertLocations
  <2>4. QED
    BY <1>5, <2>3, RawLemma
<1>6. CASE p \in KeyLocations
  <2>1. d["key_storage_type"] = e["key_storage_type"]
    BY <1>2, <1>6, FieldsOfLemma DEF Plain
  <2>2. \A f \in {"key_storage_location", "key_nickname", "key_token"} : OrEmpty(d[f]) = OrEmpty(e[f])
    BY <1>1, <1>6, FieldsOfLemma DEF OrEmpty
  <2>3. KeyLocation(d, p) = KeyLocation(e, p)
    BY <1>6, <2>1, <2>2 DEF KeyLocation, KeyLocations
  <2>4. QED
    BY <1>6, <2>3, RawLemma
<1>7. CASE p = "ca"
  BY <1>1, <1>7, FieldsOfLemma, RawLemma DEF OrEmpty
<1>8. CASE p \in {"cert-chain", "cert-roots"}
  BY <1>1, <1>8, FieldsOfLemma, RawLemma, TypeLemma
<1>9. CASE p \in Notifications \cup {"key-type", "key-size", "status", "stuck", "key-issued-count",
                  "template-is-ca", "template-ca-path-length", "autorenew", "monitoring"}
  <2>1. \A f \in FieldsOf(p) : ~Plain(f)
    BY <1>9, FieldsOfLemma, KindsLemma DEF Plain
  <2>2. \A f \in FieldsOf(p) : d[f] = e[f]
    BY <1>2, <2>1
  <2>3. QED
    BY <2>2, RawDepends
<1>10. QED
  BY <1>3, <1>4, <1>5, <1>6, <1>7, <1>8, <1>9, ComputedLemma DEF ComputedNames

-----------------------------------------------------------------------------
\* What a client knows is what is shown.
Current(e, c) ==
  \A p \in Properties \ c.stale : Shown(e, p) => p \in DOMAIN c.known /\ c.known[p] = Raw(e, p)

\* Hearing of all that was changed, or knowing that it was.
LEMMA HeardLemma ==
  ASSUME NEW c, NEW old, NEW new, NEW names, NEW others, Current(old, c),
         \A p \in Properties \ (names \cup others) : Shown(new, p) => Raw(new, p) = Raw(old, p)
  PROVE  Current(new, Heard(c, new, names, others))
<1> DEFINE h == Heard(c, new, names, others)
<1>1. /\ h.known = Over(Announced(new, names), c.known)
      /\ h.stale = (c.stale \cup others) \ DOMAIN Announced(new, names)
  BY DEF Heard
<1>2. DOMAIN Announced(new, names) = {p \in Properties \cap names : Shown(new, p)}
  BY DEF Announced
<1>3. \A p \in DOMAIN Announced(new, names) : Announced(new, names)[p] = Raw(new, p)
  BY DEF Announced
<1>4. SUFFICES ASSUME NEW p \in Properties, p \notin h.stale, Shown(new, p)
               PROVE  p \in DOMAIN h.known /\ h.known[p] = Raw(new, p)
  BY DEF Current
<1>5. CASE p \in names
  BY <1>1, <1>2, <1>3, <1>4, <1>5 DEF Over
<1>6. CASE p \notin names
  <2>1. p \notin others /\ p \notin c.stale /\ p \notin DOMAIN Announced(new, names)
    BY <1>1, <1>2, <1>4, <1>6
  <2>2. Raw(new, p) = Raw(old, p)
    BY <1>4, <1>6, <2>1
  <2>3. Shown(old, p)
    BY <1>4, <2>2 DEF Shown
  <2>4. p \in DOMAIN c.known /\ c.known[p] = Raw(old, p)
    BY <2>1, <2>3 DEF Current
  <2>5. QED
    BY <1>1, <2>1, <2>2, <2>4 DEF Over
<1>7. QED
  BY <1>5, <1>6

\* Visits are heard of.
LEMMA VisitHeard ==
  ASSUME NEW e, IsRequest(e), NEW v, DOMAIN v \cap ClientFields = {}, IsRequest(Visited(e, v)), NEW c,
         Current(e, c)
  PROVE  Current(Visited(e, v), HeardOfVisit(c, e, v))
<1> DEFINE new == Visited(e, v)
           names == Changes(cm_store_entry_dup(e), new)
<1>1. ASSUME NEW p \in Properties, p \notin names, Shown(new, p) PROVE Raw(new, p) = Raw(e, p)
  <2>1. Raw(cm_store_entry_dup(e), p) = Raw(new, p)
    BY <1>1 DEF Changes
  <2>2. CASE FieldsOf(p) \cap ClientFields = {}
    BY <1>1, <2>1, <2>2, DupShows DEF Shown
  <2>3. CASE FieldsOf(p) \cap ClientFields # {}
    <3>1. FieldsOf(p) \subseteq ClientFields
      <4>1. \A f \in ClientFields : f \in {x[2] : x \in PlaceLists} \cup {"key_pin", "key_pin_file"}
        BY DEF ClientFields, Pins
      <4>2. \A x \in PlaceLists : x \in Pairs
        BY DEF Pairs, ListProperties
      <4>3. ClientFields \cap (OtherFields \ {"key_pin", "key_pin_file"}) = {}
        BY <4>1, <4>2, OthersApart
      <4>4. p \in Stored \cup Secrets
        BY <2>3, <4>3, FieldsOfLemma, ComputedLemma DEF OtherFields, ComputedNames
      <4>5. QED
        BY <2>3, <4>4, FieldsOfLemma
    <3>2. \A f \in FieldsOf(p) : new[f] = e[f]
      <4>1. \A f \in FieldsOf(p) : f \notin DOMAIN v /\ f \in DOMAIN e
        BY <3>1, FieldsAreFields DEF IsRequest
      <4>2. QED
        BY <4>1 DEF Visited, Over
    <3>3. QED
      BY <3>2, RawDepends
  <2>4. QED
    BY <2>2, <2>3
<1>2. QED
  BY <1>1, HeardLemma DEF HeardOfVisit

\* One of each two secrets.
LEMMA OneSecretLemma ==
  ASSUME NEW e
  PROVE  SecretsExclusive(e) <=>
           /\ e["key_pin"] = None \/ e["key_pin_file"] = None
           /\ e["template_challenge_password"] = None \/ e["template_challenge_password_file"] = None
BY SecretsLemma DEF SecretsExclusive, Secrets

\* Client's fields are apart from those that the daemon changes.
LEMMA ClientFieldsApart ==
  /\ Pins \subseteq ClientFields /\ ClientFields \subseteq EntryFields
  /\ ReadFields \subseteq EntryFields \ ClientFields
  /\ Checks \cup {"state"} \subseteq EntryFields \ ClientFields
<1>1. \A f \in ClientFields : f \in Pins \/ f \in StateLists
  <2>1. \A x \in PlaceLists : x[2] \in StateLists
    BY DEF PlaceLists, StateLists
  <2>2. QED
    BY <2>1 DEF ClientFields
<1>2. Pins \cup StateLists \subseteq EntryFields
  BY DEF EntryFields, KeyFields, StateFields
<1>3. \A f \in Pins \cup StateLists : f \notin ReadFields /\ f \notin Checks \cup {"state"}
  BY DEF Pins, StateLists, ReadFields, Checks, CertFields, CertNumbers, CertDates, CertStrings, CertLists
<1>4. ReadFields \subseteq EntryFields
  <2>1. \A f \in ReadFields : f \in CertFields \/ f \in {"key_type", "key_size", "key_gen_type", "key_gen_size",
          "key_pubkey", "key_pubkey_info", "key_token",
     "key_next_type", "key_next_size", "key_next_pubkey", "key_next_pubkey_info", "cert"}
    BY DEF ReadFields
  <2>2. QED
    BY <2>1 DEF EntryFields, KeyFields, KeyTypes, KeyNumbers, KeyStrings, KeyPlaces, StateFields, StateStrings
<1>5. Checks \cup {"state"} \subseteq EntryFields
  BY DEF Checks, EntryFields, StateFields, StateNumbers, StateStrings
<1>6. QED
  BY <1>1, <1>2, <1>3, <1>4, <1>5 DEF ClientFields

\* A changed request is one, with one of each two secrets.
LEMMA ChangedLemma ==
  ASSUME NEW e, IsRequest(e), SecretsExclusive(e), NEW v, NEW fields, IsChange(v, fields),
         fields \subseteq EntryFields \ ClientFields
  PROVE  /\ IsRequest(Visited(e, v)) /\ SecretsExclusive(Visited(e, v))
         /\ DOMAIN v \cap ClientFields = {}
<1>1. /\ DOMAIN v \subseteq EntryFields \ ClientFields
      /\ \A f \in DOMAIN v : v[f] \in RequestValues(f) /\ (f \in Challenge => v[f] = None)
  BY DEF IsChange
<1>2. IsRequest(Visited(e, v))
  BY <1>1 DEF IsRequest, Visited, Over
<1>3. \A f \in Pins : f \notin DOMAIN v
  BY <1>1, ClientFieldsApart
<1>4. \A f \in Pins \cup Challenge : f \in EntryFields
  BY DEF Pins, Challenge, EntryFields, KeyFields, TemplateFields, TemplateStrings
<1>5. \A f \in Pins \cup Challenge : Visited(e, v)[f] = e[f] \/ Visited(e, v)[f] = None
  BY <1>1, <1>3, <1>4 DEF Visited, Over, IsRequest
<1>6. QED
  BY <1>1, <1>2, <1>5, OneSecretLemma DEF Pins, Challenge

\* Rewinding a state gives one.
LEMMA ResetLemma == ASSUME NEW s \in States \cup {None} PROVE Reset(s) \in States \cup {None}
BY DEF Reset, States, HelperStates, StuckStates, PassingStates, InterruptedSubmission, InterruptedReading,
   InterruptedTelling

\* Starting a request.
LEMMA StartedLemma ==
  ASSUME NEW e, IsRequest(e), SecretsExclusive(e), NEW s \in Starts
  PROVE  /\ IsRequest(Read(e, s)) /\ IsRequest(Started(e, s)) /\ SecretsExclusive(Started(e, s))
         /\ DOMAIN s.visit \cap ClientFields = {}
         /\ \A f \in EntryFields \ (ReadFields \cup {"state"}) : Read(e, s)[f] = e[f]
         /\ \A f \in EntryFields \ (ReadFields \cup Checks \cup {"state"}) : Started(e, s)[f] = e[f]
<1> DEFINE r == [e EXCEPT !["state"] = Reset(Reset(@))]
<1>1. IsChange(s.read, ReadFields) /\ IsChange(s.visit, Checks \cup {"state"})
  BY ChangesAssumption
<1>2. DOMAIN e = EntryFields /\ "state" \in EntryFields
  BY ClientFieldsApart DEF IsRequest
<1>3. RequestValues("state") = States \cup {None}
  BY KindsLemma DEF RequestValues
<1>4. r["state"] \in RequestValues("state")
  BY <1>2, <1>3, ResetLemma DEF IsRequest
<1>5. IsRequest(r) /\ \A f \in EntryFields \ {"state"} : r[f] = e[f]
  BY <1>2, <1>4 DEF IsRequest
<1>6. SecretsExclusive(r)
  <2>1. \A f \in Pins \cup Challenge : f \in EntryFields /\ f # "state"
    BY DEF Pins, Challenge, EntryFields, KeyFields, TemplateFields, TemplateStrings
  <2>2. QED
    BY <1>5, <2>1, OneSecretLemma DEF Pins, Challenge
<1>7. Read(e, s) = Visited(r, s.read) /\ Started(e, s) = Visited(Read(e, s), s.visit)
  BY DEF Read, Visited, Started
<1> HIDE DEF r
<1>8. IsRequest(Read(e, s)) /\ SecretsExclusive(Read(e, s))
  BY <1>1, <1>5, <1>6, <1>7, ChangedLemma, ClientFieldsApart
<1>9. IsRequest(Started(e, s)) /\ SecretsExclusive(Started(e, s)) /\ DOMAIN s.visit \cap ClientFields = {}
  BY <1>1, <1>7, <1>8, ChangedLemma, ClientFieldsApart
<1>10. \A f \in EntryFields \ (ReadFields \cup {"state"}) : Read(e, s)[f] = e[f]
  BY <1>1, <1>5, <1>7 DEF Visited, Over, IsChange, IsRequest
<1>11. \A f \in EntryFields \ (ReadFields \cup Checks \cup {"state"}) : Started(e, s)[f] = Read(e, s)[f]
  BY <1>1, <1>7, <1>8 DEF Visited, Over, IsChange, IsRequest
<1>12. QED
  BY <1>8, <1>9, <1>10, <1>11

\* A start of a request (what cm_iterate_entry_init reads of its key and certificate,
\* then its first visit) leaves every follower current but for what the start rewound.
LEMMA StartHeard ==
  ASSUME NEW e, IsRequest(e), SecretsExclusive(e), NEW s \in Starts, NEW c, Current(e, c)
  PROVE  Current(Started(e, s), HeardOfStart(c, e, s))
<1> DEFINE r == Read(e, s)
           h == Heard(c, r, {}, Rewound)
<1>1. IsRequest(r) /\ IsRequest(Visited(r, s.visit)) /\ DOMAIN s.visit \cap ClientFields = {}
  BY StartedLemma DEF Started
<1>2. \A p \in Properties \ ({} \cup Rewound) : Raw(r, p) = Raw(e, p)
  <2>1. SUFFICES ASSUME NEW p \in Properties, p \notin Rewound PROVE Raw(r, p) = Raw(e, p)
    OBVIOUS
  <2>2. \A f \in FieldsOf(p) : f \in EntryFields \ (ReadFields \cup {"state"})
    BY <2>1, FieldsAreFields DEF Rewound
  <2>3. \A f \in FieldsOf(p) : r[f] = e[f]
    BY <2>2, StartedLemma
  <2>4. QED
    BY <2>3, RawDepends
<1> HIDE DEF r
<1>3. Current(r, h)
  BY <1>2, HeardLemma
<1>4. Current(Visited(r, s.visit), HeardOfVisit(h, r, s.visit))
  BY <1>1, <1>3, VisitHeard
<1>5. QED
  BY <1>4 DEF HeardOfStart, Started, r

\* What is computed is not made of fields that are shown as they are.
LEMMA ComputedFields ==
  /\ \A p \in ComputedNames : FieldsOf(p) \subseteq OtherFields
  /\ \A p \in Stored : Fields[p] \notin OtherFields /\ Fields[p] \in EntryFields
<1>1. \A p \in Secrets : SecretProperties[p] \in OtherFields
  BY SecretsLemma DEF Secrets, OtherFields
<1>2. \A p \in ComputedNames : FieldsOf(p) \subseteq OtherFields
  BY <1>1, FieldsOfLemma, ComputedLemma DEF OtherFields, ComputedNames
<1>3. \A p \in Stored : Fields[p] \notin OtherFields /\ Fields[p] \in EntryFields
  BY FieldsLemma, OthersApart, PairFields
<1>4. QED
  BY <1>2, <1>3

\* A field that one property shows is not shown by another one.
LEMMA OwnField ==
  ASSUME NEW p \in Stored \cup Secrets, NEW q \in Properties, q # p
  PROVE  IF p \in Stored THEN Fields[p] \notin FieldsOf(q) ELSE SecretProperties[p] \notin FieldsOf(q)
<1>1. CASE p \in Stored
  BY <1>1, FieldsLemma, FieldsOfLemma, ComputedFields, ComputedLemma
<1>2. CASE p \in Secrets
  <2>1. p \notin Stored /\ SecretProperties[p] \in OtherFields
    BY <1>2, SecretsLemma, ComputedLemma DEF Secrets, OtherFields, ComputedNames
  <2>2. q \in Stored => SecretProperties[p] \notin FieldsOf(q)
    BY <2>1, ComputedFields, FieldsOfLemma
  <2>3. q \in Secrets => SecretProperties[p] \notin FieldsOf(q)
    BY <1>2, SecretsLemma, FieldsOfLemma DEF Secrets
  <2>4. q \in ComputedNames \ Secrets => SecretProperties[p] \notin FieldsOf(q)
    BY <1>2, SecretsLemma, FieldsOfLemma DEF Secrets, ComputedNames
  <2>5. QED
    BY <2>1, <2>2, <2>3, <2>4, ComputedLemma
<1>3. QED
  BY <1>1, <1>2

\* The fields of secrets.
LEMMA SecretFields ==
  ASSUME NEW p \in Secrets
  PROVE  /\ OtherSecret[p] \in Secrets /\ OtherSecret[p] # p
         /\ SecretProperties[p] \in EntryFields /\ SecretProperties[p] # SecretProperties[OtherSecret[p]]
         /\ SecretProperties[OtherSecret[p]] \in EntryFields
         /\ Plain(SecretProperties[p]) /\ Plain(SecretProperties[OtherSecret[p]])
<1>1. \A f \in {"key_pin", "key_pin_file", "template_challenge_password", "template_challenge_password_file"} :
         f \in EntryFields /\ Plain(f)
  BY DEF EntryFields, KeyFields, Pins, TemplateFields, TemplateStrings, Plain,
         KeyTypes, Numbers, KeyNumbers, KeyDates, KeyNextNumbers, CertNumbers, CertDates, TemplateNumbers,
           StateNumbers, Checks
<1>2. QED
  BY <1>1, SecretsLemma DEF Secrets

\* What a client sends fits the field.
LEMMA KeptFits ==
  ASSUME NEW p \in Stored \cup Secrets, NEW v, v \in BusValues(p) \/ v = Unset(Type(p))
  PROVE  /\ Kept(v) \in RequestValues(IF p \in Stored THEN Fields[p] ELSE SecretProperties[p])
         /\ Type(p) \in {"text", "list", "number"} /\ (Type(p) = "number" => Kept(v) = v)
         /\ Type(p) # "number" => p \notin Named(NumberProperties)
<1>1. CASE p \in Secrets
  <2>1. Type(p) = "text" /\ p \notin Truths /\ p # "key-type" /\ p \in TextNames
    BY <1>1, TypeLemma, SecretsLemma DEF Truths, Secrets, TextNames, ComputedTexts
  <2>2. Kept(v) \in Texts \cup {None}
    BY <2>1 DEF BusValues, Kept, Unset
  <2>3. p \notin Stored
    BY <1>1, ComputedLemma DEF ComputedNames
  <2>4. QED
    BY <1>1, <2>1, <2>2, <2>3, SecretFields, TypeLemma DEF RequestValues, Plain
<1>2. CASE p \in Stored
  <2>1. p \notin Truths /\ p # "key-type"
    BY <1>2, ComputedLemma DEF Truths, ComputedNames
  <2>2. PICK x \in Pairs : x[1] = p /\ Fields[p] = x[2]
    BY <1>2, FieldsLemma DEF Named, Pairs
  <2>3. CASE x \in NumberProperties
    <3>1. p \in Named(NumberProperties) /\ Type(p) = "number" /\ Fields[p] \in Numbers
      BY <2>2, <2>3, TypeLemma, PairFields DEF Named
    <3>2. p \notin TextNames \cup ListNames
      BY <3>1 DEF Type
    <3>3. v \in Quantities
      BY <2>1, <3>1, <3>2, ValuesAssumption DEF BusValues, Unset
    <3>4. QED
      BY <1>2, <3>1, <3>3, NoTextAssumption DEF Kept, RequestValues
  <2>4. CASE x \in StringProperties \cup ListProperties
    <3>1. p \in Named(StringProperties) \cup Named(ListProperties) /\ Plain(Fields[p])
      BY <2>2, <2>4, PairFields DEF Named
    <3>2. p \in TextNames \cup ListNames /\ Type(p) \in {"text", "list"}
      BY <3>1, TypeLemma DEF TextNames, ListNames
    <3>3. Kept(v) \in Texts \cup {None}
      BY <2>1, <3>2 DEF BusValues, Kept, Unset
    <3>4. QED
      BY <1>2, <3>1, <3>2, <3>3, TypeLemma DEF RequestValues, Plain
  <2>5. QED
    BY <2>2, <2>3, <2>4 DEF Pairs
<1>3. QED
  BY <1>1, <1>2

\* A secret is kept, and its other one forgotten.
LEMMA WithSecretLemma ==
  ASSUME NEW e, IsRequest(e), SecretsExclusive(e), NEW p \in Secrets, NEW v,
         v \in BusValues(p) \/ v = Unset(Type(p))
  PROVE  LET new == WithSecret(e, p, v) IN
         /\ IsRequest(new) /\ SecretsExclusive(new)
         /\ new[SecretProperties[p]] = Kept(v)
         /\ \A f \in EntryFields : new[f] # e[f] =>
               f = SecretProperties[p] \/ (f = SecretProperties[OtherSecret[p]] /\ Kept(v) # None)
<1> DEFINE new == WithSecret(e, p, v)
           f1 == SecretProperties[p]
           f2 == SecretProperties[OtherSecret[p]]
<1>1. f1 \in EntryFields /\ f2 \in EntryFields /\ f1 # f2 /\ Plain(f1) /\ Plain(f2) /\ p \in Secrets
  BY SecretFields
<1>2. p \notin Stored
  BY ComputedLemma DEF ComputedNames
<1>3. Kept(v) \in RequestValues(f1)
  BY <1>2, KeptFits
<1>4. None \in RequestValues(f2)
  BY <1>1 DEF RequestValues, Plain
<1>5. /\ DOMAIN new = EntryFields /\ new[f1] = Kept(v)
      /\ new[f2] = IF Kept(v) # None THEN None ELSE e[f2]
      /\ \A f \in EntryFields \ {f1, f2} : new[f] = e[f]
  BY <1>1 DEF WithSecret, IsRequest
<1>6. IsRequest(new)
  BY <1>1, <1>3, <1>4, <1>5 DEF IsRequest
<1>7. SecretsExclusive(new)
  <2>1. Pins \cup Challenge \subseteq EntryFields
    BY DEF Pins, Challenge, EntryFields, KeyFields, TemplateFields, TemplateStrings
  <2>2. CASE p \in {"key-pin", "key-pin-file"}
    <3>1. {f1, f2} = {"key_pin", "key_pin_file"}
      BY <2>2, SecretsLemma
    <3>2. QED
      BY <1>5, <2>1, <3>1, OneSecretLemma DEF Pins, Challenge
  <2>3. CASE p \in {"template-challenge-password", "template-challenge-password-file"}
    <3>1. {f1, f2} = {"template_challenge_password", "template_challenge_password_file"}
      BY <2>3, SecretsLemma
    <3>2. QED
      BY <1>5, <2>1, <3>1, OneSecretLemma DEF Pins, Challenge
  <2>4. QED
    BY <2>2, <2>3 DEF Secrets
<1>8. QED
  BY <1>5, <1>6, <1>7

\* Fields are set to what they can be, and no secret.
LEMMA FieldsSetLemma ==
  ASSUME NEW e, IsRequest(e), SecretsExclusive(e), NEW new, DOMAIN new = EntryFields,
         NEW fields, \A f \in fields : f \notin Pins \cup Challenge /\ new[f] \in RequestValues(f),
         \A f \in EntryFields \ fields : new[f] = e[f]
  PROVE  IsRequest(new) /\ SecretsExclusive(new)
<1>1. IsRequest(new)
  BY DEF IsRequest
<1>2. \A f \in Pins \cup Challenge : new[f] = e[f]
  BY DEF Pins, Challenge, EntryFields, KeyFields, TemplateFields, TemplateStrings
<1>3. QED
  BY <1>1, <1>2, OneSecretLemma DEF Pins, Challenge

\* What is got depends on what is shown.
LEMMA GetDepends ==
  ASSUME NEW old, NEW new, NEW p, Raw(new, p) = Raw(old, p)
  PROVE  Get(new, p) = Get(old, p)
BY DEF Get, Shown

\* Secrets and what is shown as it is are got as they are, but for what there is not.
LEMMA GetLemma ==
  ASSUME NEW e, NEW p \in (Stored \cup Secrets) \cap Properties
  PROVE  OrEmpty(Get(e, p)) = OrEmpty(e[IF p \in Stored THEN Fields[p] ELSE SecretProperties[p]])
<1>1. p # "ca"
  BY ComputedLemma, SecretsLemma DEF ComputedNames, Secrets
<1>2. Raw(e, p) = IF p \in Stored THEN e[Fields[p]] ELSE OrEmpty(e[SecretProperties[p]])
  BY RawLemma, ComputedLemma DEF ComputedNames
<1>3. QED
  BY <1>1, <1>2 DEF Get, Shown, OrEmpty

\* What can be set is stored or a secret.
LEMMA WritableLemma == Writable \subseteq (Stored \cup Secrets) \cap Properties
<1>1. {<<"cert-owner", "cert_owner">>, <<"cert-perms", "cert_perms">>, <<"key-owner", "key_owner">>,
       <<"key-perms", "key_perms">>, <<"nss-user", "nss_user">>} \subseteq Pairs
  BY DEF Pairs, StringProperties, OwnerTexts, NumberProperties
<1>2. {"cert-owner", "cert-perms", "key-owner", "key-perms", "nss-user"} \subseteq Stored
  BY <1>1, FieldsLemma
<1>3. QED
  BY <1>2, SecretsLemma, FieldsLemma, ComputedLemma DEF Writable, ComputedNames

\* Setting changes what is shown of the property, and of its other secret.
LEMMA SetToLemma ==
  ASSUME NEW e, IsRequest(e), SecretsExclusive(e), NEW p \in Writable,
         NEW v, v \in BusValues(p) \/ v = Unset(Type(p))
  PROVE  /\ IsRequest(SetTo(e, p, v)) /\ SecretsExclusive(SetTo(e, p, v))
         /\ OrEmpty(Get(SetTo(e, p, v), p)) = OrEmpty(v)
         /\ \A q \in Properties \ ({p} \cup AlsoChanged(p, v)) : Raw(SetTo(e, p, v), q) = Raw(e, q)
<1> DEFINE new == SetTo(e, p, v)
<1>1. p \in (Stored \cup Secrets) \cap Properties /\ (p \in Secrets => p \notin Stored)
  BY WritableLemma, ComputedLemma DEF ComputedNames
<1>2. OrEmpty(Kept(v)) = OrEmpty(v)
  BY DEF OrEmpty, Kept
<1>3. CASE p \in Secrets
  <2>1. new = WithSecret(e, p, v)
    BY <1>3, SecretsLemma DEF SetTo
  <2>2. /\ IsRequest(new) /\ SecretsExclusive(new) /\ new[SecretProperties[p]] = Kept(v)
        /\ \A f \in EntryFields : new[f] # e[f] =>
              f = SecretProperties[p] \/ (f = SecretProperties[OtherSecret[p]] /\ Kept(v) # None)
    BY <1>3, <2>1, WithSecretLemma
  <2> HIDE DEF new
  <2>3. OrEmpty(Get(new, p)) = OrEmpty(v)
    BY <1>1, <1>2, <1>3, <2>2, GetLemma
  <2>4. ASSUME NEW q \in Properties \ ({p} \cup AlsoChanged(p, v)) PROVE Raw(new, q) = Raw(e, q)
    <3>1. q # p /\ (Kept(v) # None => q # OtherSecret[p])
      BY <1>3, <2>4, SecretsLemma DEF AlsoChanged
    <3>2. OtherSecret[p] \in Secrets /\ OtherSecret[p] \notin Stored
      BY <1>3, SecretFields, ComputedLemma DEF ComputedNames
    <3>3. SecretProperties[p] \notin FieldsOf(q)
      BY <1>1, <1>3, <3>1, OwnField
    <3>4. Kept(v) # None => SecretProperties[OtherSecret[p]] \notin FieldsOf(q)
      BY <3>1, <3>2, OwnField
    <3>5. \A f \in FieldsOf(q) : new[f] = e[f]
      BY <2>2, <3>3, <3>4, FieldsAreFields
    <3>6. QED
      BY <3>5, RawDepends
  <2>5. QED
    BY <2>2, <2>3, <2>4 DEF new
<1>4. CASE p \in Stored
  <2>1. p \notin Secrets /\ new = [e EXCEPT ![Fields[p]] = Kept(v)]
    BY <1>1, <1>4, SecretsLemma DEF SetTo
  <2>2. Fields[p] \in EntryFields /\ Fields[p] \notin Pins \cup Challenge
    BY <1>4, ComputedFields DEF OtherFields, Pins, Challenge
  <2>3. Kept(v) \in RequestValues(Fields[p])
    BY <1>4, KeptFits
  <2> DEFINE fields == {Fields[p]}
  <2>4. /\ DOMAIN new = EntryFields /\ new[Fields[p]] = Kept(v)
        /\ \A f \in fields : f \notin Pins \cup Challenge /\ new[f] \in RequestValues(f)
        /\ \A f \in EntryFields \ fields : new[f] = e[f]
    BY <2>1, <2>2, <2>3 DEF IsRequest
  <2> HIDE DEF new, fields
  <2>8. IsRequest(new) /\ SecretsExclusive(new)
    BY <2>4, FieldsSetLemma
  <2> USE DEF fields
  <2>5. OrEmpty(Get(new, p)) = OrEmpty(v)
    BY <1>1, <1>2, <1>4, <2>4, GetLemma
  <2>6. ASSUME NEW q \in Properties \ ({p} \cup AlsoChanged(p, v)) PROVE Raw(new, q) = Raw(e, q)
    <3>1. Fields[p] \notin FieldsOf(q)
      BY <1>4, <2>6, OwnField
    <3>2. \A f \in FieldsOf(q) : new[f] = e[f]
      BY <2>4, <3>1, FieldsAreFields
    <3>3. QED
      BY <3>2, RawDepends
  <2>7. QED
    BY <2>5, <2>6, <2>8 DEF new
<1>5. QED
  BY <1>1, <1>3, <1>4

\* Set as a client asks for it.
LEMMA SetLemma ==
  ASSUME NEW e, IsRequest(e), SecretsExclusive(e), NEW s \in Settings, NEW c, Current(e, c)
  PROVE  LET r == Set(e, s.name, s.type, s.value) IN
         /\ IsRequest(r.entry) /\ SecretsExclusive(r.entry)
         /\ Current(r.entry, Heard(c, r.entry, r.announced, {}))
         /\ SetReads(e, r.entry, s.name, s.type, s.value, r.ok)
<1> DEFINE r == Set(e, s.name, s.type, s.value)
           v == Given(s.name, s.type, s.value)
<1>1. s.name \in Properties /\ s.value \in BusValues(s.name)
  BY ClientsAssumption
<1>2. CASE s.name \in Writable /\ s.type \in {Type(s.name), "none"}
  <2>1. r.ok = TRUE /\ r.entry = SetTo(e, s.name, v) /\ r.announced = {s.name} \cup AlsoChanged(s.name, v)
    BY <1>2 DEF Set
  <2>2. v \in BusValues(s.name) \/ v = Unset(Type(s.name))
    BY <1>1 DEF Given
  <2>3. /\ IsRequest(r.entry) /\ SecretsExclusive(r.entry) /\ OrEmpty(Get(r.entry, s.name)) = OrEmpty(v)
        /\ \A q \in Properties \ ({s.name} \cup AlsoChanged(s.name, v)) : Raw(r.entry, q) = Raw(e, q)
    BY <1>2, <2>1, <2>2, SetToLemma
  <2> HIDE DEF r, v
  <2>4. Current(r.entry, Heard(c, r.entry, r.announced, {}))
    BY <2>1, <2>3, HeardLemma
  <2>5. \A q \in Properties \ ({s.name} \cup AlsoChanged(s.name, v)) : Get(r.entry, q) = Get(e, q)
    BY <2>3, GetDepends
  <2>6. SetReads(e, r.entry, s.name, s.type, s.value, r.ok)
    BY <2>1, <2>3, <2>5 DEF SetReads, v
  <2>7. QED
    BY <2>3, <2>4, <2>6 DEF r
<1>3. CASE ~(s.name \in Writable /\ s.type \in {Type(s.name), "none"})
  <2>1. r.ok = FALSE /\ r.entry = e /\ r.announced = {}
    BY <1>3 DEF Set
  <2> HIDE DEF r
  <2>2. Current(r.entry, Heard(c, r.entry, r.announced, {}))
    BY <2>1, HeardLemma
  <2>3. QED
    BY <2>1, <2>2 DEF SetReads, r
<1>4. QED
  BY <1>2, <1>3

\* Where the parameters of modify go.
Elsewhere == {<<"ca-profile", "template_profile">>, <<"other-cert-files", "other_cert_dbs">>,
           <<"monitoring", "monitor">>, <<"autorenew", "autorenew">>, <<"ca", "ca_name">>,
           <<"template-is-ca", "template_is_ca">>, <<"template-ca-path-length", "template_ca_path_length">>}

\* The fields that request_modify writes: those that the property shows, but for the
\* seven in Elsewhere.
LEMMA ModifiedFieldsLemma ==
  /\ \A x \in Elsewhere : ModifiedFields[x[1]] = x[2]
  /\ \A p \in Stored \ {"ca-profile", "other-cert-files"} : ModifiedFields[p] = Fields[p]
<1>1. \A x, y \in Elsewhere : x[1] = y[1] => x = y
  BY DEF Elsewhere
<1>2. ModifiedFields = Over(Table(Elsewhere), Fields)
  BY DEF ModifiedFields, Elsewhere
<1>3. DOMAIN Table(Elsewhere) = Named(Elsewhere) /\ \A x \in Elsewhere : Table(Elsewhere)[x[1]] = x[2]
  BY <1>1, TableLemma
<1>4. \A x \in Elsewhere : ModifiedFields[x[1]] = x[2]
  BY <1>2, <1>3 DEF Over, Named
<1>5. \A p \in Stored \ {"ca-profile", "other-cert-files"} : p \notin Named(Elsewhere)
  BY ComputedLemma DEF Elsewhere, Named, ComputedNames
<1>6. QED
  BY <1>2, <1>3, <1>4, <1>5 DEF Over, Stored

\* Parameters and their kinds.
Commands == {"cert-presave-command", "cert-postsave-command"}

\* The parameters request_modify knows are properties, and what the hook commands, the
\* subject and the profile go with.
LEMMA ParametersLemma ==
  /\ ModifyParameters \subseteq Stored \cup Secrets \cup {"key-type", "key-size", "autorenew", "monitoring",
                                                        "ca", "template-is-ca", "template-ca-path-length"}
  /\ ModifyParameters \subseteq Properties
  /\ Commands \cup CopiedEmpty \cup {"template-subject", "other-cert-files"} \subseteq Stored
  /\ Fields["cert-presave-command"] = "pre_certsave_command" /\ Fields["cert-presave-uid"] = "pre_certsave_uid"
  /\ Fields["cert-postsave-command"] = "post_certsave_command" /\
       Fields["cert-postsave-uid"] = "post_certsave_uid"
  /\ Fields["template-subject"] = "template_subject" /\ Fields["template-profile"] = "template_profile"
  /\ Fields["other-cert-nssdbs"] = "other_cert_dbs"
  /\ {"cert-presave-uid", "cert-postsave-uid", "template-profile", "other-cert-nssdbs"} \subseteq Stored
<1> DEFINE Some == {<<"cert-presave-command", "pre_certsave_command">>,
                     <<"cert-presave-uid", "pre_certsave_uid">>,
    <<"cert-postsave-command", "post_certsave_command">>, <<"cert-postsave-uid", "post_certsave_uid">>,
    <<"template-subject", "template_subject">>, <<"template-profile", "template_profile">>,
    <<"other-cert-nssdbs", "other_cert_dbs">>, <<"nickname", "id">>, <<"ca-profile", "cert_profile">>,
    <<"cert-owner", "cert_owner">>, <<"key-owner", "key_owner">>, <<"nss-user", "nss_user">>,
    <<"root-cert-files", "root_cert_files">>,
    <<"root-other-cert-files", "other_root_cert_files">>, <<"other-cert-files", "other_cert_files">>,
    <<"root-cert-nssdbs", "root_cert_dbs">>, <<"root-other-cert-nssdbs", "other_root_cert_dbs">>}
<1>1. Some \subseteq Pairs
  BY DEF Pairs, StringProperties, ListProperties, PlaceLists, OwnerTexts, StateTexts, CommandTexts,
     TemplateTexts
<1>2. \A x \in Some : x[1] \in Stored /\ Fields[x[1]] = x[2]
  BY <1>1, FieldsLemma
<1>3. /\ Commands \cup CopiedEmpty \cup {"template-subject", "other-cert-files", "root-cert-files",
           "root-other-cert-files", "root-cert-nssdbs", "root-other-cert-nssdbs",
           "other-cert-nssdbs"} \subseteq Stored
      /\ {"cert-presave-uid", "cert-postsave-uid", "template-profile", "other-cert-nssdbs"} \subseteq Stored
  BY <1>2 DEF Commands, CopiedEmpty
<1>4. ModifyParameters \subseteq Stored \cup Secrets \cup {"key-type", "key-size", "autorenew", "monitoring",
        "ca",
                                                        "template-is-ca", "template-ca-path-length"}
  BY <1>3, WritableLemma DEF ModifyParameters, Commands, CopiedEmpty
<1>5. ModifyParameters \subseteq Properties
  BY <1>4, ComputedLemma DEF ComputedNames
<1>6. QED
  BY <1>2, <1>3, <1>4, <1>5

\* A request that differs in one field.
LEMMA RawsLemma ==
  ASSUME NEW e, IsRequest(e), NEW new, NEW fields, \A f \in EntryFields \ fields : new[f] = e[f],
         NEW q \in Properties, FieldsOf(q) \cap fields = {}
  PROVE  Raw(new, q) = Raw(e, q)
<1>1. \A f \in FieldsOf(q) : new[f] = e[f]
  BY FieldsAreFields
<1>2. QED
  BY <1>1, RawDepends

\* Who shows the fields of parameters.
LEMMA ShownBy ==
  ASSUME NEW q \in Properties
  PROVE  /\ FieldsOf(q) \cap {"key_gen_type", "key_next_gen_type", "key_gen_size", "key_next_gen_size",
              "template_subject_der"} = {}
         /\ "autorenew" \in FieldsOf(q) => q = "autorenew"
         /\ "monitor" \in FieldsOf(q) => q = "monitoring"
         /\ "ca_name" \in FieldsOf(q) => q = "ca"
         /\ FieldsOf(q) \cap {"template_is_ca", "template_ca_path_length"} # {} =>
               q \in {"template-is-ca", "template-ca-path-length"}
<1>1. \A x \in Pairs : x[2] \notin {"key_gen_type", "key_next_gen_type", "key_gen_size", "key_next_gen_size",
        "template_subject_der"}
  BY DEF Pairs, StringProperties, ListProperties, NumberProperties, CertTexts, TemplateTexts,
       CommandTexts, OwnerTexts, StateTexts, CertListProperties, TemplateListProperties, PlaceLists
<1>2. OtherFields \cap {"key_gen_type", "key_next_gen_type", "key_gen_size", "key_next_gen_size",
        "template_subject_der"} = {}
  BY DEF OtherFields
<1>3. FieldsOf(q) \cap {"key_gen_type", "key_next_gen_type", "key_gen_size", "key_next_gen_size",
        "template_subject_der"} = {}
  <2>1. CASE q \in Stored
    <3>1. <<q, Fields[q]>> \in Pairs /\ FieldsOf(q) = {Fields[q]}
      BY <2>1, FieldsLemma, FieldsOfLemma
    <3>2. QED
      BY <1>1, <3>1
  <2>2. CASE q \in ComputedNames
    BY <1>2, <2>2, ComputedFields
  <2>3. QED
    BY <2>1, <2>2, ComputedLemma
<1> DEFINE Own == {"autorenew", "monitor", "ca_name", "template_is_ca", "template_ca_path_length"}
<1>4. q \in Stored => FieldsOf(q) \cap Own = {}
  BY ComputedFields, FieldsOfLemma DEF OtherFields
<1>5. q \in Secrets => FieldsOf(q) \cap Own = {}
  BY SecretsLemma, FieldsOfLemma DEF Secrets
<1>6. q \in Notifications \cup CertLocations \cup KeyLocations \cup {"key-type", "key-size", "status", "stuck",
          "cert-chain", "cert-roots", "key-issued-count"} => FieldsOf(q) \cap Own = {}
  BY FieldsOfLemma
<1>7. QED
  BY <1>3, <1>4, <1>5, <1>6, FieldsOfLemma, ComputedLemma DEF ComputedNames

\* What is modified, parameter by parameter.
LEMMA ModifiedLemma ==
  ASSUME NEW e, NEW p \in ModifyParameters, NEW v
  PROVE  LET new == Modified(e, p, v, Uid) IN
         /\ p = "key-type" => new = [e EXCEPT !["key_gen_type"] = v, !["key_next_gen_type"] = v]
         /\ p = "key-size" => new = [e EXCEPT !["key_gen_size"] = v, !["key_next_gen_size"] = v]
         /\ p \in Secrets => new = WithSecret(e, p, v)
         /\ p = "cert-presave-command" => new = WithPresave(e, v, Uid)
         /\ p = "cert-postsave-command" => new = WithPostsave(e, v, Uid)
         /\ p = "template-subject" =>
               new = [e EXCEPT !["template_subject"] = Kept(v), !["template_subject_der"] = None]
         /\ p \in CopiedEmpty => new = [e EXCEPT ![ModifiedFields[p]] = v]
         /\ p \in Truths => new = [e EXCEPT ![ModifiedFields[p]] = Number(v)]
         /\ p \notin {"key-type", "key-size", "template-subject"} \cup Secrets \cup Commands \cup
              CopiedEmpty \cup Truths =>
               new = [e EXCEPT ![ModifiedFields[p]] = Kept(v)]
<1> DEFINE new == Modified(e, p, v, Uid)
<1>1. DOMAIN SecretProperties = Secrets
  BY SecretsLemma
<1>2. p = "key-type" => new = [e EXCEPT !["key_gen_type"] = v, !["key_next_gen_type"] = v]
  BY <1>1 DEF Modified, Secrets, CopiedEmpty, Truths
<1>3. p = "key-size" => new = [e EXCEPT !["key_gen_size"] = v, !["key_next_gen_size"] = v]
  BY <1>1 DEF Modified, Secrets, CopiedEmpty, Truths
<1>4. p \in Secrets => new = WithSecret(e, p, v)
  BY <1>1 DEF Modified, Secrets, CopiedEmpty, Truths
<1>5. p = "cert-presave-command" => new = WithPresave(e, v, Uid)
  BY <1>1 DEF Modified, Secrets, CopiedEmpty, Truths
<1>6. p = "cert-postsave-command" => new = WithPostsave(e, v, Uid)
  BY <1>1 DEF Modified, Secrets, CopiedEmpty, Truths
<1>7. p = "template-subject" =>
               new = [e EXCEPT !["template_subject"] = Kept(v), !["template_subject_der"] = None]
  BY <1>1 DEF Modified, Secrets, CopiedEmpty, Truths
<1>8. p \in CopiedEmpty => new = [e EXCEPT ![ModifiedFields[p]] = v]
  BY <1>1 DEF Modified, Secrets, CopiedEmpty, Truths
<1>9. p \in Truths => new = [e EXCEPT ![ModifiedFields[p]] = Number(v)]
  BY <1>1 DEF Modified, Secrets, CopiedEmpty, Truths
<1>10. p \notin {"key-type", "key-size", "template-subject"} \cup Secrets \cup Commands \cup CopiedEmpty \cup
         Truths =>
               new = [e EXCEPT ![ModifiedFields[p]] = Kept(v)]
  BY <1>1 DEF Modified, Commands
<1>11. QED
  BY <1>2, <1>3, <1>4, <1>5, <1>6, <1>7, <1>8, <1>9, <1>10

\* The requested subject, as text and in DER.
Subjects == {"template_subject", "template_subject_der"}

\* The subject and its encoding are fields of their own, of plain values.
LEMMA SubjectsLemma ==
  Subjects \subseteq EntryFields /\ \A f \in Subjects : f \notin Pins \cup Challenge /\ Plain(f)
BY DEF Subjects, EntryFields, TemplateFields, TemplateStrings, Pins, Challenge, Plain, KeyTypes, Numbers,
   KeyNumbers, KeyDates,
       KeyNextNumbers, CertNumbers, CertDates, TemplateNumbers, StateNumbers, Checks

\* What one parameter of modify does.
ChangedBy(e, new, p, v) ==
  /\ IsRequest(new) /\ SecretsExclusive(new)
  /\ \A q \in Properties \ (AnnouncedFor(p) \cup Silently(p)) : Raw(new, q) = Raw(e, q)
  /\ p \in ReadElsewhere(new) \/ OrEmpty(Get(new, p)) = OrEmpty(v)
  /\ new["template_subject_der"] = None \/ \A f \in Subjects : new[f] = e[f]

\* It is done if fields are set to what they can be, all who show them are named,
\* and the value is shown or stored elsewhere.
LEMMA ChangedByFields ==
  ASSUME NEW e, IsRequest(e), SecretsExclusive(e), NEW new, NEW fields, NEW p, NEW v,
         DOMAIN new = EntryFields, \A f \in EntryFields \ fields : new[f] = e[f],
         \A f \in fields : f \notin Pins \cup Challenge /\ new[f] \in RequestValues(f),
         fields \cap Subjects = {} \/ new["template_subject_der"] = None,
         \A q \in Properties \ (AnnouncedFor(p) \cup Silently(p)) :
            FieldsOf(q) \cap fields = {} \/ Raw(new, q) = Raw(e, q),
         p \in ReadElsewhere(new) \/ OrEmpty(Get(new, p)) = OrEmpty(v)
  PROVE  ChangedBy(e, new, p, v)
<1>1. IsRequest(new) /\ SecretsExclusive(new)
  BY FieldsSetLemma
<1>2. \A q \in Properties \ (AnnouncedFor(p) \cup Silently(p)) : Raw(new, q) = Raw(e, q)
  BY RawsLemma
<1>3. new["template_subject_der"] = None \/ \A f \in Subjects : new[f] = e[f]
  BY SubjectsLemma
<1>4. QED
  BY <1>1, <1>2, <1>3 DEF ChangedBy

\* What is announced of a parameter and what is not.
LEMMA SilentlyLemma ==
  /\ \A p \in Secrets : Silently(p) = {OtherSecret[p]}
  /\ Silently("ca-profile") = {"template-profile"} /\ Silently("other-cert-files") = {"other-cert-nssdbs"}
  /\ Silently("template-is-ca") = {"template-ca-path-length"}
  /\ \A p : p \notin Secrets \cup {"ca-profile", "other-cert-files", "template-is-ca"} => Silently(p) = {}
<1>1. DOMAIN SecretProperties = Secrets
  BY SecretsLemma
<1>2. \A p \in Secrets : Silently(p) = {OtherSecret[p]}
  BY <1>1 DEF Silently, Secrets
<1>3. Silently("ca-profile") = {"template-profile"}
  BY <1>1 DEF Silently, Secrets
<1>4. Silently("other-cert-files") = {"other-cert-nssdbs"}
  BY <1>1 DEF Silently, Secrets
<1>5. Silently("template-is-ca") = {"template-ca-path-length"}
  BY <1>1 DEF Silently, Secrets
<1>6. \A p : p \notin Secrets \cup {"ca-profile", "other-cert-files", "template-is-ca"} => Silently(p) = {}
  BY <1>1 DEF Silently
<1>7. QED
  BY <1>2, <1>3, <1>4, <1>5, <1>6

\* The key type and size: request_modify writes the generated and the next key's.
LEMMA KeyParameter ==
  ASSUME NEW e, IsRequest(e), SecretsExclusive(e), NEW p \in {"key-type", "key-size"} \cap ModifyParameters,
         NEW v, v \in BusValues(p), Accepts(p, v)
  PROVE  ChangedBy(e, Modified(e, p, v, Uid), p, v)
<1> DEFINE new == Modified(e, p, v, Uid)
           fields == IF p = "key-type" THEN {"key_gen_type", "key_next_gen_type"}
                     ELSE {"key_gen_size", "key_next_gen_size"}
<1>1. fields \subseteq EntryFields /\ \A f \in fields : f \notin Pins \cup Challenge \cup Subjects
  BY DEF EntryFields, KeyFields, KeyTypes, KeyNumbers, Pins, Challenge, Subjects
<1>2. \A f \in fields : v \in RequestValues(f)
  <2>1. CASE p = "key-type"
    <3>1. v \in Algorithms
      BY <2>1 DEF Accepts, KeyAlgorithms, Algorithms
    <3>2. fields \subseteq KeyTypes
      BY <2>1 DEF KeyTypes
    <3>3. QED
      BY <3>1, <3>2, KindsLemma DEF RequestValues
  <2>2. CASE p = "key-size"
    <3>1. p \notin Truths /\ p # "key-type" /\ p \notin TextNames \cup ListNames
      BY <2>2, TypeLemma DEF Truths, Type
    <3>2. fields \subseteq Numbers /\ v \in Quantities
      BY <2>2, <3>1 DEF Numbers, KeyNumbers, BusValues
    <3>3. QED
      BY <3>2 DEF RequestValues
  <2>3. QED
    BY <2>1, <2>2
<1>3. /\ DOMAIN new = EntryFields
      /\ \A f \in fields : new[f] = v
      /\ \A f \in EntryFields \ fields : new[f] = e[f]
  BY <1>1, ModifiedLemma DEF IsRequest
<1>4. \A q \in Properties : FieldsOf(q) \cap fields = {}
  BY ShownBy
<1>5. p \in ReadElsewhere(new)
  BY DEF ReadElsewhere
<1> HIDE DEF new, fields
<1>6. \A f \in fields : f \notin Pins \cup Challenge /\ new[f] \in RequestValues(f)
  BY <1>1, <1>2, <1>3
<1>7. fields \cap Subjects = {}
  BY <1>1
<1>8. ChangedBy(e, new, p, v)
  BY <1>3, <1>4, <1>5, <1>6, <1>7, ChangedByFields
<1>9. QED
  BY <1>8 DEF new

\* A PIN or a password: request_modify writes it and clears its other form.
LEMMA SecretParameter ==
  ASSUME NEW e, IsRequest(e), SecretsExclusive(e), NEW p \in ModifyParameters, p \in Secrets, NEW v,
         v \in BusValues(p)
  PROVE  ChangedBy(e, Modified(e, p, v, Uid), p, v)
<1> DEFINE new == SetTo(e, p, v)
<1>1. p \in Writable /\ new = WithSecret(e, p, v)
  BY SecretsLemma DEF SetTo, Writable
<1>2. Modified(e, p, v, Uid) = WithSecret(e, p, v)
  BY ModifiedLemma
<1>3. /\ IsRequest(new) /\ SecretsExclusive(new) /\ OrEmpty(Get(new, p)) = OrEmpty(v)
      /\ \A q \in Properties \ ({p} \cup AlsoChanged(p, v)) : Raw(new, q) = Raw(e, q)
  BY <1>1, SetToLemma
<1>4. {p} \cup AlsoChanged(p, v) \subseteq AnnouncedFor(p) \cup Silently(p)
  <2>1. p \in AnnouncedFor(p) /\ OtherSecret[p] \in Silently(p)
    BY SilentlyLemma DEF AnnouncedFor
  <2>2. AlsoChanged(p, v) \subseteq {OtherSecret[p]}
    BY DEF AlsoChanged
  <2>3. QED
    BY <2>1, <2>2
<1>5. \A f \in Subjects : new[f] = e[f]
  <2>1. \A f \in EntryFields : new[f] # e[f] =>
           f = SecretProperties[p] \/ (f = SecretProperties[OtherSecret[p]] /\ Kept(v) # None)
    BY <1>1, WithSecretLemma
  <2>2. SecretProperties[p] \notin Subjects /\ SecretProperties[OtherSecret[p]] \notin Subjects
    BY SecretsLemma DEF Secrets, Subjects
  <2> HIDE DEF new
  <2>3. QED
    BY <2>1, <2>2, SubjectsLemma
<1> HIDE DEF new
<1>6. ChangedBy(e, new, p, v)
  BY <1>3, <1>4, <1>5 DEF ChangedBy
<1>7. QED
  BY <1>1, <1>2, <1>6

\* A field that can be without text.
LEMMA EmptyFits ==
  ASSUME NEW f, Plain(f), f \notin {"key_pin_file", "key_next_marker"}, NEW v \in Texts \cup {Empty}
  PROVE  v \in RequestValues(f)
BY DEF RequestValues, Plain

\* Texts that are sent.
LEMMA TextSent ==
  ASSUME NEW p \in Named(StringProperties) \cup {"ca"}, NEW v \in BusValues(p)
  PROVE  v \in Texts \cup {Empty} /\ Kept(v) \in Texts \cup {None}
<1>1. p \in TextNames /\ Type(p) = "text"
  BY TypeLemma DEF TextNames, ComputedTexts
<1>2. p \notin Truths
  BY <1>1, TypeLemma DEF Truths
<1>3. p # "key-type"
  BY ComputedLemma, FieldsLemma DEF ComputedNames
<1>4. QED
  BY <1>1, <1>2, <1>3 DEF BusValues, Kept

\* The texts that request_modify copies as they are, an empty one too.
LEMMA CopiedFields ==
  /\ CopiedEmpty \ {"ca-profile"} \subseteq Named(StringProperties) /\ "ca-profile" \in Named(StringProperties)
  /\ \A p \in CopiedEmpty : p \notin Commands \cup Secrets \cup {"template-subject", "other-cert-files"}
  /\ \A p \in CopiedEmpty \ {"ca-profile"} : Plain(Fields[p]) /\ Fields[p] \notin {"key_pin_file",
       "key_next_marker"}
<1> DEFINE Some == {<<"cert-owner", "cert_owner">>, <<"key-owner", "key_owner">>, <<"nss-user", "nss_user">>,
                    <<"nickname", "id">>, <<"ca-profile", "cert_profile">>}
<1>1. Some \subseteq StringProperties
  BY DEF StringProperties, OwnerTexts, StateTexts
<1>2. \A x \in Some : x \in Pairs
  BY <1>1 DEF Pairs
<1>3. \A x \in Some : Fields[x[1]] = x[2] /\ Plain(x[2]) /\ x[1] \in Named(StringProperties)
  BY <1>1, <1>2, FieldsLemma, PairFields DEF Named
<1>4. QED
  BY <1>3 DEF CopiedEmpty, Commands, Secrets

\* A parameter with a field of its own.
Moved == {"ca-profile", "other-cert-files", "template-subject"} \cup Commands

\* A parameter that is written to the field its property shows, and nothing else.
LEMMA StoredParameter ==
  ASSUME NEW e, IsRequest(e), SecretsExclusive(e), NEW p \in ModifyParameters, p \in Stored, p \notin Moved,
         NEW v, v \in BusValues(p)
  PROVE  ChangedBy(e, Modified(e, p, v, Uid), p, v)
<1> DEFINE new == Modified(e, p, v, Uid)
           w == IF p \in CopiedEmpty THEN v ELSE Kept(v)
           f == Fields[p]
           fields == {f}
<1>1. ModifiedFields[p] = f
  BY ModifiedFieldsLemma DEF Moved
<1>2. p \notin Secrets \cup Truths \cup {"key-type", "key-size"}
  BY ComputedLemma DEF ComputedNames, Truths
<1>3. new = [e EXCEPT ![f] = w]
  BY <1>1, <1>2, ModifiedLemma DEF Moved
<1>4. f \in EntryFields /\ f \notin Pins \cup Challenge
  BY ComputedFields DEF OtherFields, Pins, Challenge
<1>5. f \notin Subjects
  <2>1. f # "template_subject"
    BY ParametersLemma, FieldsLemma DEF Moved
  <2>2. FieldsOf(p) = {f} /\ p \in Properties
    BY FieldsOfLemma, ParametersLemma
  <2>3. QED
    BY <2>1, <2>2, ShownBy DEF Subjects
<1>6. w \in RequestValues(f)
  <2>1. CASE p \in CopiedEmpty
    <3>1. p \in CopiedEmpty \ {"ca-profile"}
      BY <2>1 DEF Moved
    <3>2. QED
      BY <3>1, CopiedFields, TextSent, EmptyFits
  <2>2. CASE p \notin CopiedEmpty
    BY <2>2, KeptFits
  <2>3. QED
    BY <2>1, <2>2
<1>7. OrEmpty(w) = OrEmpty(v)
  BY DEF OrEmpty, Kept
<1>8. /\ DOMAIN new = EntryFields /\ new[f] = w
      /\ \A g \in EntryFields \ fields : new[g] = e[g]
      /\ \A g \in fields : g \notin Pins \cup Challenge /\ new[g] \in RequestValues(g)
      /\ fields \cap Subjects = {}
  BY <1>3, <1>4, <1>5, <1>6 DEF IsRequest
<1> HIDE DEF new, w
<1>9. OrEmpty(Get(new, p)) = OrEmpty(v)
  BY <1>7, <1>8, GetLemma, ParametersLemma
<1>10. \A q \in Properties \ (AnnouncedFor(p) \cup Silently(p)) : FieldsOf(q) \cap fields = {}
  BY OwnField DEF AnnouncedFor
<1> HIDE DEF fields, f
<1>11. ChangedBy(e, new, p, v)
  BY <1>8, <1>9, <1>10, ChangedByFields
<1>12. QED
  BY <1>11 DEF new

\* The commands, and whose they are.
LEMMA CommandParameter ==
  ASSUME NEW e, IsRequest(e), SecretsExclusive(e), NEW p \in ModifyParameters, p \in Commands, NEW v,
         v \in BusValues(p)
  PROVE  ChangedBy(e, Modified(e, p, v, Uid), p, v)
<1> DEFINE new == Modified(e, p, v, Uid)
           user == IF p = "cert-presave-command" THEN "cert-presave-uid" ELSE "cert-postsave-uid"
           f == Fields[p]
           g == Fields[user]
           fields == {f, g}
<1>1. p \in Stored /\ user \in Stored /\ p # user /\ f # g /\ AnnouncedFor(p) = {p, user}
  BY ParametersLemma DEF Commands, AnnouncedFor
<1>2. f \in EntryFields /\ g \in EntryFields /\ f \notin Pins \cup Challenge /\ g \notin Pins \cup Challenge
  BY <1>1, ComputedFields DEF OtherFields, Pins, Challenge
<1>3. /\ DOMAIN new = EntryFields /\ new[f] = Kept(v) /\ new[g] = (IF Kept(v) = None THEN None ELSE Uid)
      /\ \A h \in EntryFields \ fields : new[h] = e[h]
  <2>1. CASE p = "cert-presave-command"
    <3>1. f = "pre_certsave_command" /\ g = "pre_certsave_uid"
      BY <2>1, ParametersLemma
    <3>2. new = [e EXCEPT !["pre_certsave_command"] = Kept(v),
                          !["pre_certsave_uid"] = IF Kept(v) = None THEN None ELSE Uid]
      BY <2>1, ModifiedLemma DEF WithPresave, WithCommand
    <3> HIDE DEF new
    <3>3. QED
      BY <1>2, <3>1, <3>2 DEF IsRequest
  <2>2. CASE p = "cert-postsave-command"
    <3>1. f = "post_certsave_command" /\ g = "post_certsave_uid"
      BY <2>2, ParametersLemma
    <3>2. new = [e EXCEPT !["post_certsave_command"] = Kept(v),
                          !["post_certsave_uid"] = IF Kept(v) = None THEN None ELSE Uid]
      BY <2>2, ModifiedLemma DEF WithPostsave, WithCommand
    <3> HIDE DEF new
    <3>3. QED
      BY <1>2, <3>1, <3>2 DEF IsRequest
  <2>3. QED
    BY <2>1, <2>2 DEF Commands
<1>4. Kept(v) \in RequestValues(f) /\ (IF Kept(v) = None THEN None ELSE Uid) \in RequestValues(g)
  <2>1. Kept(v) \in RequestValues(f)
    BY <1>1, KeptFits
  <2>2. Uid \in BusValues(user) /\ None = Unset(Type(user)) /\ Kept(Uid) = Uid /\ Kept(None) = None
    <3>1. <<"cert-presave-uid", "pre_certsave_uid">> \in StringProperties /\
            <<"cert-postsave-uid", "post_certsave_uid">> \in StringProperties
      BY DEF StringProperties, CommandTexts
    <3>2. user \in Named(StringProperties)
      BY <3>1 DEF Named
    <3>3. Type(user) = "text" /\ user \in TextNames /\ user \notin Truths /\ user # "key-type"
      BY <3>2, TypeLemma DEF TextNames, Truths
    <3>4. QED
      BY <3>3, ValuesAssumption, NoTextAssumption DEF BusValues, Unset, Kept
  <2>3. Uid \in RequestValues(g) /\ None \in RequestValues(g)
    BY <1>1, <2>2, KeptFits
  <2>4. QED
    BY <2>1, <2>3
<1>5. f \notin Subjects /\ g \notin Subjects
  BY ParametersLemma DEF Subjects, Commands
<1>6. OrEmpty(Kept(v)) = OrEmpty(v)
  BY DEF OrEmpty, Kept
<1> HIDE DEF new, user
<1>7. OrEmpty(Get(new, p)) = OrEmpty(v)
  BY <1>1, <1>3, <1>6, GetLemma, ParametersLemma
<1>8. \A q \in Properties \ (AnnouncedFor(p) \cup Silently(p)) : FieldsOf(q) \cap fields = {}
  BY <1>1, OwnField
<1>9. /\ \A h \in fields : h \notin Pins \cup Challenge /\ new[h] \in RequestValues(h)
      /\ fields \cap Subjects = {}
  BY <1>2, <1>3, <1>4, <1>5
<1> HIDE DEF fields, f, g
<1>10. ChangedBy(e, new, p, v)
  BY <1>3, <1>7, <1>8, <1>9, ChangedByFields
<1>11. QED
  BY <1>10 DEF new

\* The subject, and its DER form.
LEMMA SubjectParameter ==
  ASSUME NEW e, IsRequest(e), SecretsExclusive(e), NEW p \in ModifyParameters, p = "template-subject", NEW v,
         v \in BusValues(p)
  PROVE  ChangedBy(e, Modified(e, p, v, Uid), p, v)
<1> DEFINE new == Modified(e, p, v, Uid)
<1>1. p \in Stored /\ Fields[p] = "template_subject"
  BY ParametersLemma
<1>2. Kept(v) \in RequestValues("template_subject")
  BY <1>1, KeptFits
<1>3. None \in RequestValues("template_subject_der")
  BY SubjectsLemma DEF Subjects, Plain, RequestValues
<1>4. /\ DOMAIN new = EntryFields
      /\ new["template_subject"] = Kept(v) /\ new["template_subject_der"] = None
      /\ \A f \in EntryFields \ Subjects : new[f] = e[f]
  BY ModifiedLemma, SubjectsLemma DEF IsRequest, Subjects
<1>5. OrEmpty(Kept(v)) = OrEmpty(v)
  BY DEF OrEmpty, Kept
<1> HIDE DEF new
<1>6. OrEmpty(Get(new, p)) = OrEmpty(v)
  BY <1>1, <1>4, <1>5, GetLemma, ParametersLemma
<1>7. \A q \in Properties \ (AnnouncedFor(p) \cup Silently(p)) : FieldsOf(q) \cap Subjects = {}
  BY <1>1, OwnField, ShownBy DEF AnnouncedFor, Subjects
<1>8. \A f \in Subjects : f \notin Pins \cup Challenge /\ new[f] \in RequestValues(f)
  BY <1>2, <1>3, <1>4, SubjectsLemma DEF Subjects
<1>9. ChangedBy(e, new, p, v)
  BY <1>4, <1>6, <1>7, <1>8, ChangedByFields
<1>10. QED
  BY <1>9 DEF new

\* Truths.
LEMMA TruthParameter ==
  ASSUME NEW e, IsRequest(e), SecretsExclusive(e), NEW p \in ModifyParameters, p \in Truths, NEW v,
         v \in BusValues(p)
  PROVE  ChangedBy(e, Modified(e, p, v, Uid), p, v)
<1> DEFINE new == Modified(e, p, v, Uid)
           f == ModifiedFields[p]
           fields == {f}
<1>1. p \in {"autorenew", "monitoring", "template-is-ca"} /\ p \in Properties
  BY ParametersLemma, ComputedLemma DEF Truths, ComputedNames, Secrets
<1>2. f = IF p = "autorenew" THEN "autorenew" ELSE IF p = "monitoring" THEN "monitor" ELSE "template_is_ca"
  BY <1>1, ModifiedFieldsLemma DEF Elsewhere
<1>3. f \in Numbers /\ f \in EntryFields /\ f \notin Pins \cup Challenge \cup Subjects
  BY <1>1, <1>2 DEF Numbers, StateNumbers, TemplateNumbers, EntryFields, StateFields, TemplateFields, Pins,
       Challenge, Subjects
<1>4. v \in BOOLEAN /\ Number(v) \in Quantities /\ (Number(v) # 0) = v
  BY ValuesAssumption DEF BusValues, Number
<1>5. Number(v) \in RequestValues(f)
  BY <1>3, <1>4 DEF RequestValues
<1>6. /\ DOMAIN new = EntryFields /\ new[f] = Number(v)
      /\ \A g \in EntryFields \ fields : new[g] = e[g]
  <2>1. new = [e EXCEPT ![f] = Number(v)]
    BY ModifiedLemma
  <2> HIDE DEF new, f
  <2>2. QED
    BY <1>3, <2>1 DEF IsRequest
<1> HIDE DEF new
<1>7. OrEmpty(Get(new, p)) = OrEmpty(v)
  <2>1. Raw(new, p) = (new[f] # 0)
    BY <1>1, <1>2, RawLemma
  <2>2. Raw(new, p) = v
    BY <1>4, <1>6, <2>1
  <2>3. Type(p) = "truth" /\ p # "ca"
    BY TypeLemma DEF Truths
  <2>4. Get(new, p) = v
    BY <2>2, <2>3 DEF Get, Shown
  <2>5. QED
    BY <2>4
<1>8. \A q \in Properties \ (AnnouncedFor(p) \cup Silently(p)) : FieldsOf(q) \cap fields = {}
  BY <1>1, <1>2, ShownBy, SilentlyLemma DEF AnnouncedFor
<1>9. /\ \A g \in fields : g \notin Pins \cup Challenge /\ new[g] \in RequestValues(g)
      /\ fields \cap Subjects = {}
  BY <1>3, <1>5, <1>6
<1> HIDE DEF fields, f
<1>10. ChangedBy(e, new, p, v)
  BY <1>6, <1>7, <1>8, <1>9, ChangedByFields
<1>11. QED
  BY <1>10 DEF new

\* Parameters that are stored elsewhere.
LEMMA ElsewhereParameter ==
  ASSUME NEW e, IsRequest(e), SecretsExclusive(e), NEW p \in ModifyParameters, NEW v, v \in BusValues(p),
         p \in {"ca", "template-ca-path-length", "ca-profile", "other-cert-files"}
  PROVE  ChangedBy(e, Modified(e, p, v, Uid), p, v)
<1> DEFINE new == Modified(e, p, v, Uid)
           w == IF p = "ca-profile" THEN v ELSE Kept(v)
           f == ModifiedFields[p]
           fields == {f}
<1>1. f = CASE p = "ca" -> "ca_name" [] p = "template-ca-path-length" -> "template_ca_path_length"
            [] p = "ca-profile" -> "template_profile" [] OTHER -> "other_cert_dbs"
  BY ModifiedFieldsLemma DEF Elsewhere
<1>2. f \in EntryFields /\ f \notin Pins \cup Challenge \cup Subjects \cup {"key_next_marker"}
  BY <1>1 DEF EntryFields, StateFields, StateStrings, StateLists, TemplateFields, TemplateNumbers,
       TemplateStrings, Pins, Challenge, Subjects
<1>3. /\ p \notin {"key-type", "key-size", "template-subject"} \cup Secrets \cup Commands \cup Truths
      /\ p \in CopiedEmpty <=> p = "ca-profile"
  BY DEF Secrets, Commands, Truths, CopiedEmpty
<1>4. new = [e EXCEPT ![f] = w]
  BY <1>3, ModifiedLemma
<1>5. w \in RequestValues(f)
  <2>1. CASE p = "template-ca-path-length"
    <3>1. p \notin Truths /\ p # "key-type" /\ p \notin TextNames \cup ListNames
      BY <2>1, TypeLemma DEF Truths, Type
    <3>2. v \in Quantities /\ f \in Numbers
      BY <1>1, <2>1, <3>1 DEF BusValues, Numbers, TemplateNumbers
    <3>3. QED
      BY <2>1, <3>2, NoTextAssumption DEF RequestValues, Kept
  <2>2. CASE p # "template-ca-path-length"
    <3>1. f \in {"ca_name", "template_profile", "other_cert_dbs"} /\ Plain(f)
      BY <1>1, <2>2 DEF Plain, KeyTypes, Numbers, KeyNumbers, KeyDates, KeyNextNumbers, CertNumbers, CertDates,
           TemplateNumbers, StateNumbers, Checks
    <3>2. v \in Texts \cup {Empty}
      <4>1. CASE p \in {"ca", "ca-profile"}
        BY <4>1, TextSent, CopiedFields
      <4>2. CASE p = "other-cert-files"
        <5>1. <<"other-cert-files", "other_cert_files">> \in ListProperties
          BY DEF ListProperties, PlaceLists
        <5>2. p \in ListNames /\ p \notin Truths /\ p # "key-type"
          BY <4>2, <5>1 DEF ListNames, Named, Truths
        <5>3. QED
          BY <5>2 DEF BusValues
      <4>3. QED
        BY <2>2, <4>1, <4>2
    <3>3. QED
      BY <3>1, <3>2 DEF Kept, RequestValues, Plain
  <2>3. QED
    BY <2>1, <2>2
<1>6. /\ DOMAIN new = EntryFields /\ new[f] = w
      /\ \A g \in EntryFields \ fields : new[g] = e[g]
  <2> HIDE DEF new, f, w
  <2>1. QED
    BY <1>2, <1>4 DEF IsRequest
<1>7. p \in ReadElsewhere(new) \/ OrEmpty(Get(new, p)) = OrEmpty(v)
  <2> HIDE DEF new
  <2>1. CASE p \in {"ca-profile", "other-cert-files"}
    BY <2>1 DEF ReadElsewhere
  <2>2. CASE p = "ca"
    <3>1. Raw(new, p) = OrEmpty(Kept(v)) /\ Type(p) = "text"
      BY <1>1, <1>6, <2>2, RawLemma, TypeLemma, ParametersLemma
    <3>2. QED
      BY <3>1, NoTextAssumption DEF Get, Shown, OrEmpty, Kept
  <2>3. CASE p = "template-ca-path-length"
    <3>1. Type(p) = "number" /\ p # "ca"
      BY <2>3, TypeLemma
    <3>2. Raw(new, p) = IF new["template_is_ca"] # 0 THEN Kept(v) ELSE -1
      BY <1>1, <1>6, <2>3, RawLemma, ParametersLemma
    <3>3. OrEmpty(Kept(v)) = OrEmpty(v)
      BY DEF OrEmpty, Kept
    <3>4. CASE new["template_is_ca"] = 0
      BY <2>3, <3>4 DEF ReadElsewhere
    <3>5. CASE new["template_is_ca"] # 0
      BY <3>1, <3>2, <3>3, <3>5 DEF Get, Shown
    <3>6. QED
      BY <3>4, <3>5
  <2>4. QED
    BY <2>1, <2>2, <2>3
<1>8. \A q \in Properties \ (AnnouncedFor(p) \cup Silently(p)) :
        FieldsOf(q) \cap fields = {} \/ Raw(new, q) = Raw(e, q)
  <2>1. SUFFICES ASSUME NEW q \in Properties, q \notin AnnouncedFor(p) \cup Silently(p)
                 PROVE  FieldsOf(q) \cap fields = {} \/ Raw(new, q) = Raw(e, q)
    OBVIOUS
  <2>2. q # p
    BY <2>1 DEF AnnouncedFor
  <2>3. CASE p = "ca"
    BY <1>1, <2>2, <2>3, ShownBy
  <2>4. CASE p = "ca-profile"
    <3>1. q # "template-profile" /\ f = Fields["template-profile"] /\ "template-profile" \in Stored
      BY <1>1, <2>1, <2>4, SilentlyLemma, ParametersLemma
    <3>2. QED
      BY <3>1, OwnField
  <2>5. CASE p = "other-cert-files"
    <3>1. q # "other-cert-nssdbs" /\ f = Fields["other-cert-nssdbs"] /\ "other-cert-nssdbs" \in Stored
      BY <1>1, <2>1, <2>5, SilentlyLemma, ParametersLemma
    <3>2. QED
      BY <3>1, OwnField
  <2>6. CASE p = "template-ca-path-length"
    <3>1. CASE q = "template-is-ca"
      <4>1. "template_is_ca" \in EntryFields \ fields
        BY <1>1, <2>6 DEF EntryFields, TemplateFields, TemplateNumbers
      <4>2. Raw(new, q) = (new["template_is_ca"] # 0) /\ Raw(e, q) = (e["template_is_ca"] # 0)
        BY <3>1, RawLemma
      <4>3. new["template_is_ca"] = e["template_is_ca"]
        BY <1>6, <4>1
      <4>4. QED
        BY <4>2, <4>3
    <3>2. CASE q # "template-is-ca"
      BY <1>1, <2>2, <2>6, <3>2, ShownBy
    <3>3. QED
      BY <3>1, <3>2
  <2>7. QED
    BY <2>3, <2>4, <2>5, <2>6
<1>9. /\ \A g \in fields : g \notin Pins \cup Challenge /\ new[g] \in RequestValues(g)
      /\ fields \cap Subjects = {}
  BY <1>2, <1>5, <1>6
<1> HIDE DEF new, fields, f, w
<1>10. ChangedBy(e, new, p, v)
  BY <1>6, <1>7, <1>8, <1>9, ChangedByFields
<1>11. QED
  BY <1>10 DEF new

\* Any parameter.
LEMMA ParameterLemma ==
  ASSUME NEW e, IsRequest(e), SecretsExclusive(e), NEW p, NEW v, Accepts(p, v),
         p \in Properties => v \in BusValues(p)
  PROVE  ChangedBy(e, Modified(e, p, v, Uid), p, v)
<1>1. p \in ModifyParameters /\ v \in BusValues(p)
  BY ParametersLemma DEF Accepts
<1>2. \/ p \in {"key-type", "key-size"} \cup Secrets \cup Commands \/ p = "template-subject"
      \/ p \in Truths \/ p \in {"ca", "template-ca-path-length", "ca-profile", "other-cert-files"}
      \/ p \in Stored /\ p \notin Moved
  BY <1>1, ParametersLemma DEF Moved, Truths
<1>3. QED
  BY <1>1, <1>2, KeyParameter, SecretParameter, CommandParameter, SubjectParameter, TruthParameter,
     ElsewhereParameter, StoredParameter

\* A set of natural numbers has a least one.
LEMMA LeastNatural ==
  ASSUME NEW T \in SUBSET Nat, T # {}
  PROVE  \E n \in T : \A m \in T : n <= m
<1> DEFINE R == OpToRel(<, Nat)
<1>1. \E n \in T : \A m \in T : <<m, n>> \notin R
  <2> HIDE DEF R
  <2>1. IsWellFoundedOn(R, Nat)
    BY NatLessThanWellFounded DEF R
  <2>2. QED
    BY <2>1, WFMin
<1>2. \A m, n \in Nat : m < n => <<m, n>> \in R
  BY DEF OpToRel
<1> HIDE DEF R
<1>3. PICK n \in T : \A m \in T : <<m, n>> \notin R
  BY <1>1
<1>4. ASSUME NEW m \in T PROVE n <= m
  <2>1. m \in Nat /\ n \in Nat
    OBVIOUS
  <2>2. ~(m < n)
    BY <1>2, <1>3, <2>1
  <2>3. QED
    BY <2>1, <2>2
<1>5. QED
  BY <1>4

\* The requests after each of the parameters.
After(e, params, n, g) ==
  g = [i \in 0..n |-> IF i = 0 THEN e ELSE Modified(g[i - 1], params[i][1], params[i][2], Uid)]

\* There always are such.
LEMMA AfterExists ==
  ASSUME NEW e, NEW params, NEW n \in Nat
  PROVE  \E g : After(e, params, n, g)
<1> DEFINE T == {m \in Nat : ~ \E g : After(e, params, m, g)}
<1>1. SUFFICES ASSUME T # {} PROVE FALSE
  OBVIOUS
<1>2. PICK m \in T : \A k \in T : m <= k
  BY <1>1, LeastNatural
<1>3. CASE m = 0
  <2>1. After(e, params, 0, [i \in 0..0 |-> e])
    BY DEF After
  <2>2. QED
    BY <1>2, <1>3, <2>1
<1>4. CASE m # 0
  <2>1. m - 1 \in Nat /\ m - 1 \notin T
    BY <1>2, <1>4
  <2>2. PICK g : After(e, params, m - 1, g)
    BY <2>1
  <2> DEFINE h == [i \in 0..m |-> IF i = m THEN Modified(g[m - 1], params[m][1], params[m][2], Uid) ELSE g[i]]
  <2>3. \A i \in 0..m - 1 : h[i] = g[i] /\
          g[i] = IF i = 0 THEN e ELSE Modified(g[i - 1], params[i][1], params[i][2], Uid)
    BY <2>1, <2>2 DEF After
  <2>4. h[m] = Modified(g[m - 1], params[m][1], params[m][2], Uid) /\ h[m - 1] = g[m - 1]
    BY <1>4, <2>1
  <2>5. \A i \in 0..m : h[i] = IF i = 0 THEN e ELSE Modified(h[i - 1], params[i][1], params[i][2], Uid)
    <3>1. SUFFICES ASSUME NEW i \in 0..m
                   PROVE  h[i] = IF i = 0 THEN e
                                 ELSE Modified(h[i - 1], params[i][1], params[i][2], Uid)
      OBVIOUS
    <3> HIDE DEF h
    <3>2. CASE i = m
      BY <1>4, <2>4, <3>2
    <3>3. CASE i # m
      <4>1. i \in 0..m - 1 /\ (i # 0 => i - 1 \in 0..m - 1)
        BY <3>3, <2>1
      <4>2. QED
        BY <2>3, <4>1
    <3>4. QED
      BY <3>2, <3>3
  <2>6. DOMAIN h = 0..m /\ h = [i \in 0..m |-> h[i]]
    OBVIOUS
  <2> HIDE DEF h
  <2>7. After(e, params, m, h)
    BY <2>5, <2>6 DEF After
  <2>8. QED
    BY <1>2, <2>7
<1>5. QED
  BY <1>3, <1>4

\* What modify makes of a request is one of them.
Steps(e, params, g) ==
  /\ g[0] = e
  /\ \A i \in 1..Len(params) : g[i] = Modified(g[i - 1], params[i][1], params[i][2], Uid)
  /\ \A n \in 0..Len(params) : ModifiedBy(e, params, n, Uid) = g[n]

\* The parameters of request_modify take effect one after the other: there is a sequence
\* of requests, from the one before the call, that each parameter takes one step further.
LEMMA ModifiedByLemma ==
  ASSUME NEW e, NEW params, Len(params) \in Nat
  PROVE  \E g : Steps(e, params, g)
<1> DEFINE g == CHOOSE h : After(e, params, Len(params), h)
<1>1. After(e, params, Len(params), g)
  BY AfterExists
<1>2. \A n \in 0..Len(params) : ModifiedBy(e, params, n, Uid) = g[n]
  BY DEF ModifiedBy, After
<1> HIDE DEF g
<1>3. g[0] = e /\ \A i \in 1..Len(params) : g[i] = Modified(g[i - 1], params[i][1], params[i][2], Uid)
  BY <1>1 DEF After
<1>4. QED
  BY <1>2, <1>3 DEF Steps

\* What the first parameters of modify do together.
ReadBack(new, params, n) ==
  \A i \in 1..n :
     \/ params[i][1] \in ReadElsewhere(new)
     \/ \E j \in i + 1..n : params[i][1] \in {params[j][1]} \cup Silently(params[j][1])
     \/ OrEmpty(Get(new, params[i][1])) = OrEmpty(params[i][2])
ModifiedWell(e, new, params, n) ==
  /\ IsRequest(new) /\ SecretsExclusive(new)
  /\ \A q \in Properties \ Altered(params, n) : Raw(new, q) = Raw(e, q)
  /\ new["template_subject_der"] = None \/ \A f \in Subjects : new[f] = e[f]
  /\ ReadBack(new, params, n)

\* One more parameter.
LEMMA ReadBackStep ==
  ASSUME NEW e, NEW new, NEW params, NEW n \in Nat, n > 0, ReadBack(e, params, n - 1),
         \A i \in 1..n : Accepts(params[i][1], params[i][2]),
         ChangedBy(e, new, params[n][1], params[n][2])
  PROVE  ReadBack(new, params, n)
<1> DEFINE name(i) == params[i][1]
<1>1. SUFFICES ASSUME NEW i \in 1..n
               PROVE  \/ name(i) \in ReadElsewhere(new)
                      \/ \E j \in i + 1..n : name(i) \in {name(j)} \cup Silently(name(j))
                      \/ OrEmpty(Get(new, name(i))) = OrEmpty(params[i][2])
  BY DEF ReadBack
<1>2. CASE i = n
  BY <1>2 DEF ChangedBy
<1>3. CASE i # n
  <2>1. /\ i \in 1..n - 1 /\ n \in i + 1..n /\ \A j \in i + 1..n - 1 : j \in i + 1..n
    BY <1>3
  <2>2. name(i) \in ModifyParameters /\ name(i) \in Properties
    BY ParametersLemma DEF Accepts
  <2>3. CASE name(i) \in AnnouncedFor(name(n)) \cup Silently(name(n))
    <3>1. name(i) \notin {"cert-presave-uid", "cert-postsave-uid"}
      <4>1. {<<"cert-presave-uid", "pre_certsave_uid">>,
              <<"cert-postsave-uid", "post_certsave_uid">>} \subseteq Pairs
        BY DEF Pairs, StringProperties, CommandTexts
      <4>2. \A p \in {"cert-presave-uid", "cert-postsave-uid"} : p \in Stored /\
              Fields[p] \in {"pre_certsave_uid", "post_certsave_uid"}
        BY <4>1, FieldsLemma
      <4>3. \A p \in {"cert-presave-uid", "cert-postsave-uid"} : p \notin Secrets /\
              Fields[p] \notin TemplateFields
        BY <4>2 DEF Secrets, TemplateFields, TemplateNumbers, TemplateStrings, TemplateLists
      <4>4. \A p \in {"cert-presave-uid", "cert-postsave-uid"} : p \notin Writable
        BY <4>3, SecretsLemma DEF Writable
      <4>5. QED
        BY <2>2, <4>4 DEF ModifyParameters
    <3>2. name(i) \in {name(n)} \cup Silently(name(n))
      BY <2>3, <3>1 DEF AnnouncedFor
    <3>3. QED
      BY <2>1, <3>2
  <2>4. CASE name(i) \notin AnnouncedFor(name(n)) \cup Silently(name(n))
    <3>1. Get(new, name(i)) = Get(e, name(i))
      BY <2>2, <2>4, GetDepends DEF ChangedBy
    <3>2. CASE name(i) \in ReadElsewhere(e)
      <4>1. CASE name(i) = "template-ca-path-length" /\ e["template_is_ca"] = 0
        <5>1. name(n) # "template-is-ca"
          BY <2>4, <4>1, SilentlyLemma
        <5>2. "template-is-ca" \notin AnnouncedFor(name(n))
          BY <5>1 DEF AnnouncedFor
        <5>3. "template-is-ca" \notin Silently(name(n))
          <6>1. \A p \in Secrets : "template-is-ca" # OtherSecret[p]
            BY SecretsLemma DEF Secrets
          <6>2. QED
            BY <6>1, <5>1, SilentlyLemma
        <5>4. "template-is-ca" \in Properties
          BY ComputedLemma DEF ComputedNames
        <5>5. Raw(new, "template-is-ca") = Raw(e, "template-is-ca")
          BY <5>2, <5>3, <5>4 DEF ChangedBy
        <5>6. new["template_is_ca"] = 0
          BY <4>1, <5>4, <5>5, RawLemma
        <5>7. QED
          BY <4>1, <5>6 DEF ReadElsewhere
      <4>2. QED
        BY <3>2, <4>1 DEF ReadElsewhere
    <3>3. CASE name(i) \notin ReadElsewhere(e)
      BY <2>1, <3>1, <3>3 DEF ReadBack
    <3>4. QED
      BY <3>2, <3>3
  <2>5. QED
    BY <2>3, <2>4
<1>4. QED
  BY <1>2, <1>3

\* Any number of them.
LEMMA ModifiedByWell ==
  ASSUME NEW e, IsRequest(e), SecretsExclusive(e), NEW params, Len(params) \in Nat, NEW n \in 0..Len(params),
         \A i \in 1..n : /\ Accepts(params[i][1], params[i][2])
                         /\ params[i][1] \in Properties => params[i][2] \in BusValues(params[i][1])
  PROVE  ModifiedWell(e, ModifiedBy(e, params, n, Uid), params, n)
<1>1. PICK g : Steps(e, params, g)
  BY ModifiedByLemma
<1> DEFINE T == {m \in 0..n : ~ModifiedWell(e, g[m], params, m)}
<1>2. SUFFICES ASSUME T # {} PROVE FALSE
  <2>1. n \in 0..n /\ ModifiedBy(e, params, n, Uid) = g[n]
    BY <1>1 DEF Steps
  <2>2. n \notin T => ModifiedWell(e, g[n], params, n)
    BY <2>1
  <2>3. QED
    BY <2>1, <2>2
<1>3. PICK m \in T : \A k \in T : m <= k
  <2>1. T \subseteq Nat
    OBVIOUS
  <2> HIDE DEF T
  <2>2. QED
    BY <1>2, <2>1, LeastNatural
<1>4. CASE m = 0
  <2>1. ModifiedWell(e, e, params, 0)
    BY DEF ModifiedWell, ReadBack
  <2>2. QED
    BY <1>1, <1>3, <1>4, <2>1 DEF Steps
<1>5. CASE m # 0
  <2>1. m \in 1..n /\ m \in Nat /\ m > 0 /\ m \in 1..Len(params) /\ m - 1 \in 0..n /\ m - 1 \notin T
    BY <1>3, <1>5
  <2>2. ModifiedWell(e, g[m - 1], params, m - 1)
    BY <2>1
  <2>3. g[m] = Modified(g[m - 1], params[m][1], params[m][2], Uid)
    BY <1>1, <2>1 DEF Steps
  <2>4. ChangedBy(g[m - 1], g[m], params[m][1], params[m][2])
    BY <2>1, <2>2, <2>3, ParameterLemma DEF ModifiedWell
  <2>5. ReadBack(g[m], params, m)
    <3>1. \A i \in 1..m : Accepts(params[i][1], params[i][2])
      BY <2>1
    <3>2. QED
      BY <2>1, <2>2, <2>4, <3>1, ReadBackStep DEF ModifiedWell
  <2>6. \A q \in Properties \ Altered(params, m) : Raw(g[m], q) = Raw(e, q)
    <3>1. AnnouncedFor(params[m][1]) \cup Silently(params[m][1]) \subseteq Altered(params, m)
      BY <2>1 DEF Altered
    <3>2. Altered(params, m - 1) \subseteq Altered(params, m)
      BY <2>1 DEF Altered
    <3>3. QED
      BY <2>2, <2>4, <3>1, <3>2 DEF ModifiedWell, ChangedBy
  <2>7. g[m]["template_subject_der"] = None \/ \A f \in Subjects : g[m][f] = e[f]
    BY <2>2, <2>4 DEF ModifiedWell, ChangedBy, Subjects
  <2>8. ModifiedWell(e, g[m], params, m)
    BY <2>4, <2>5, <2>6, <2>7 DEF ModifiedWell, ChangedBy
  <2>9. QED
    BY <1>3, <2>8
<1>6. QED
  BY <1>4, <1>5

\* A set of numbers up to another one has a greatest.
LEMMA GreatestNatural ==
  ASSUME NEW n \in Nat, NEW T \in SUBSET (0..n), T # {}
  PROVE  \E i \in T : \A j \in T : j <= i
<1> DEFINE D == {m \in Nat : m <= n /\ n - m \in T}
<1>1. D # {}
  <2>1. PICK i \in T : TRUE
    OBVIOUS
  <2>2. n - i \in Nat /\ n - i <= n /\ n - (n - i) = i
    BY <2>1
  <2>3. n - i \in D
    BY <2>1, <2>2
  <2>4. QED
    BY <2>3
<1>2. PICK m \in D : \A k \in D : m <= k
  <2>1. D \subseteq Nat
    OBVIOUS
  <2> HIDE DEF D
  <2>2. QED
    BY <1>1, <2>1, LeastNatural
<1>3. ASSUME NEW j \in T PROVE j <= n - m
  <2>1. j \in 0..n /\ n - j \in Nat /\ n - j <= n /\ n - (n - j) = j /\ m \in Nat
    BY <1>2
  <2>2. m <= n - j
    BY <1>2, <2>1
  <2>3. QED
    BY <2>1, <2>2
<1>4. QED
  BY <1>2, <1>3

\* What modify does is what its first parameters do; it is done if all were applied.
LEMMA ModifyLemma ==
  ASSUME NEW e, IsRequest(e), SecretsExclusive(e), NEW params \in Modifications, NEW c, Current(e, c)
  PROVE  LET r == Modify(e, params, Used, CAs, Uid) IN
         /\ r.applied \in 0..Len(params) /\ (r.ok => r.applied = Len(params))
         /\ \A i \in 1..r.applied : Accepts(params[i][1], params[i][2])
         /\ ModifiedWell(e, r.entry, params, r.applied)
         /\ Current(r.entry, Heard(c, r.entry, r.announced, Altered(params, r.applied)))
<1> DEFINE known == \A i \in DOMAIN params :
                       /\ params[i][1] = "nickname" => params[i][2] \notin Used
                       /\ params[i][1] = "ca" => params[i][2] \in CAs
           good == {i \in 0..Len(params) : \A j \in 1..i : Accepts(params[j][1], params[j][2])}
           applied == IF known THEN CHOOSE i \in good : \A j \in good : j <= i ELSE 0
           new == ModifiedBy(e, params, applied, Uid)
           r == Modify(e, params, Used, CAs, Uid)
<1>1. /\ r.applied = applied /\ r.entry = new /\ (r.ok => applied = Len(params))
  BY DEF Modify
<1>2. /\ Len(params) \in Nat /\ DOMAIN params = 1..Len(params)
      /\ \A i \in 1..Len(params) : params[i][1] \in Properties => params[i][2] \in BusValues(params[i][1])
  BY ClientsAssumption
<1>3. 0 \in good /\ good \subseteq 0..Len(params)
  BY <1>2
<1>4. applied \in good
  <2> HIDE DEF good
  <2>1. \E i \in good : \A j \in good : j <= i
    BY <1>2, <1>3, GreatestNatural
  <2>2. QED
    BY <1>3, <2>1
<1> HIDE DEF applied, known, r
<1>5. applied \in 0..Len(params) /\ \A i \in 1..applied : Accepts(params[i][1], params[i][2])
  BY <1>4
<1>6. \A i \in 1..applied : i \in 1..Len(params)
  BY <1>2, <1>5
<1>7. ModifiedWell(e, new, params, applied)
  BY <1>2, <1>5, <1>6, ModifiedByWell
<1> HIDE DEF new
<1>8. Current(new, Heard(c, new, r.announced, Altered(params, applied)))
  BY <1>7, HeardLemma DEF ModifiedWell
<1>9. QED
  BY <1>1, <1>5, <1>7, <1>8 DEF r

\* What clients change is not read from the key or the certificate.
LEMMA NotRead ==
  /\ \A p \in ModifyParameters \ {"key-type", "key-size", "ca-profile", "other-cert-files"} :
        FieldsOf(p) \subseteq EntryFields \ (ReadFields \cup Checks \cup {"state"})
  /\ Subjects \cup {"template_is_ca"} \subseteq EntryFields \ (ReadFields \cup Checks \cup {"state"})
<1> DEFINE Touched == ReadFields \cup Checks \cup {"state"}
           Own == {"cert_owner", "key_owner", "nss_user", "id", "cert_perms", "key_perms", "key_pin",
                    "key_pin_file",
                   "pre_certsave_command", "post_certsave_command", "root_cert_files", "other_root_cert_files",
                   "root_cert_dbs", "other_root_cert_dbs", "other_cert_dbs", "autorenew", "monitor", "ca_name"}
           Some == {<<"cert-owner", "cert_owner">>, <<"key-owner", "key_owner">>, <<"nss-user", "nss_user">>,
                    <<"nickname", "id">>, <<"cert-perms", "cert_perms">>, <<"key-perms", "key_perms">>,
                    <<"cert-presave-command", "pre_certsave_command">>,
                    <<"cert-postsave-command", "post_certsave_command">>,
                      <<"root-cert-files", "root_cert_files">>,
                    <<"root-other-cert-files", "other_root_cert_files">>,
                      <<"root-cert-nssdbs", "root_cert_dbs">>,
                    <<"root-other-cert-nssdbs", "other_root_cert_dbs">>,
                      <<"other-cert-nssdbs", "other_cert_dbs">>}
<1>1. \A f \in Own \cup TemplateFields : f \notin Touched
  BY DEF ReadFields, Checks, CertFields, CertNumbers, CertDates, CertStrings, CertLists,
         TemplateFields, TemplateNumbers, TemplateStrings, TemplateLists
<1>2. Subjects \cup {"template_is_ca", "template_ca_path_length", "template_challenge_password",
                     "template_challenge_password_file"} \subseteq TemplateFields
  BY DEF Subjects, TemplateFields, TemplateNumbers, TemplateStrings
<1>3. Some \subseteq Pairs
  BY DEF Pairs, StringProperties, ListProperties, NumberProperties, PlaceLists, OwnerTexts, StateTexts,
     CommandTexts
<1>4. \A x \in Some : x[1] \in Stored /\ Fields[x[1]] = x[2] /\ x[2] \in Own
  BY <1>3, FieldsLemma
<1>5. ASSUME NEW p \in ModifyParameters \ {"key-type", "key-size", "ca-profile", "other-cert-files"}
      PROVE  FieldsOf(p) \subseteq Own \cup TemplateFields
  <2>1. p \in Properties
    BY ParametersLemma
  <2>2. CASE p \in Secrets
    BY <1>2, <2>1, <2>2, SecretsLemma, FieldsOfLemma DEF Secrets
  <2>3. CASE p \in {"autorenew", "monitoring", "ca", "template-is-ca", "template-ca-path-length"}
    BY <1>2, <2>1, <2>3, FieldsOfLemma
  <2>4. CASE p \in Stored
    <3>1. FieldsOf(p) = {Fields[p]}
      BY <2>1, <2>4, FieldsOfLemma
    <3>2. p \notin Secrets \cup {"autorenew", "monitoring", "ca", "template-is-ca", "template-ca-path-length"}
      BY <2>4, ComputedLemma DEF ComputedNames
    <3>3. \/ \E x \in Some : p = x[1]
          \/ Fields[p] \in TemplateFields
      BY <3>2, SecretsLemma DEF ModifyParameters, Writable
    <3>4. QED
      BY <1>4, <3>1, <3>3
  <2>5. QED
    BY <2>2, <2>3, <2>4, ParametersLemma
<1>6. \A p \in ModifyParameters : FieldsOf(p) \subseteq EntryFields
  BY ParametersLemma, FieldsAreFields
<1>7. TemplateFields \subseteq EntryFields
  BY DEF EntryFields
<1> HIDE DEF Own, Touched
<1>8. QED
  BY <1>1, <1>2, <1>5, <1>6, <1>7 DEF Touched

\* What was modified is still read back after the restart.
LEMMA StartedReads ==
  ASSUME NEW e, IsRequest(e), SecretsExclusive(e), NEW s \in Starts, NEW params, NEW n \in Nat,
         \A i \in 1..n : Accepts(params[i][1], params[i][2]), ReadBack(e, params, n)
  PROVE  ReadBack(Started(e, s), params, n)
<1> DEFINE new == Started(e, s)
           Elsewhere0 == {"key-type", "key-size", "ca-profile", "other-cert-files"}
<1>1. \A f \in EntryFields \ (ReadFields \cup Checks \cup {"state"}) : new[f] = e[f]
  BY StartedLemma
<1> HIDE DEF new
<1>2. new["template_is_ca"] = e["template_is_ca"]
  BY <1>1, NotRead
<1>3. ReadElsewhere(new) = ReadElsewhere(e) /\ Elsewhere0 \subseteq ReadElsewhere(e)
  BY <1>2 DEF ReadElsewhere
<1>4. \A p \in ModifyParameters \ Elsewhere0 : Get(new, p) = Get(e, p)
  <2>1. SUFFICES ASSUME NEW p \in ModifyParameters \ Elsewhere0 PROVE Get(new, p) = Get(e, p)
    OBVIOUS
  <2>2. p \in Properties /\ \A f \in FieldsOf(p) : new[f] = e[f]
    BY <1>1, NotRead, ParametersLemma
  <2>3. QED
    BY <2>2, RawDepends, GetDepends
<1> HIDE DEF Elsewhere0
<1>5. \A i \in 1..n : params[i][1] \in ModifyParameters
  BY DEF Accepts
<1>6. ReadBack(new, params, n)
  BY <1>3, <1>4, <1>5 DEF ReadBack
<1>7. QED
  BY <1>6 DEF new

\* A request that was modified, and started if that was done.
LEMMA ModifyStarted ==
  ASSUME NEW e, IsRequest(e), SecretsExclusive(e), NEW params \in Modifications, NEW c, Current(e, c),
         NEW s \in Starts
  PROVE  LET r == Modify(e, params, Used, CAs, Uid)
             heard == Heard(c, r.entry, r.announced, Altered(params, r.applied))
             new == IF r.ok THEN Started(r.entry, s) ELSE r.entry
         IN  /\ IsRequest(new) /\ SecretsExclusive(new)
             /\ Current(new, IF r.ok THEN HeardOfStart(heard, r.entry, s) ELSE heard)
             /\ r.ok => ModifyReads(new, params)
             /\ SubjectIsGiven(e, new)
<1> DEFINE r == Modify(e, params, Used, CAs, Uid)
           heard == Heard(c, r.entry, r.announced, Altered(params, r.applied))
           new == IF r.ok THEN Started(r.entry, s) ELSE r.entry
<1>1. /\ r.applied \in 0..Len(params) /\ (r.ok => r.applied = Len(params))
      /\ \A i \in 1..r.applied : Accepts(params[i][1], params[i][2])
      /\ ModifiedWell(e, r.entry, params, r.applied)
      /\ Current(r.entry, heard)
  BY ModifyLemma
<1> HIDE DEF r, heard
<1>2. IsRequest(r.entry) /\ SecretsExclusive(r.entry) /\ ReadBack(r.entry, params, r.applied)
  BY <1>1 DEF ModifiedWell
<1>3. IsRequest(new) /\ SecretsExclusive(new)
  BY <1>2, StartedLemma
<1>4. Current(new, IF r.ok THEN HeardOfStart(heard, r.entry, s) ELSE heard)
  BY <1>1, <1>2, StartHeard
<1>5. r.ok => ModifyReads(new, params)
  <2>1. SUFFICES ASSUME r.ok PROVE ModifyReads(new, params)
    OBVIOUS
  <2>2. r.applied \in Nat /\ r.applied = Len(params) /\ DOMAIN params = 1..Len(params)
    BY <1>1, <2>1, ClientsAssumption
  <2>3. ReadBack(new, params, r.applied)
    BY <1>1, <1>2, <2>1, <2>2, StartedReads
  <2> HIDE DEF new
  <2>4. QED
    BY <2>2, <2>3 DEF ModifyReads, ReadBack
<1>6. SubjectIsGiven(e, new)
  <2>1. r.entry["template_subject_der"] = None \/ \A f \in Subjects : r.entry[f] = e[f]
    BY <1>1 DEF ModifiedWell
  <2>2. \A f \in Subjects : Started(r.entry, s)[f] = r.entry[f]
    BY <1>2, StartedLemma, NotRead
  <2>3. \A f \in Subjects : new[f] = r.entry[f]
    BY <2>2
  <2> HIDE DEF new
  <2>4. QED
    BY <2>1, <2>3 DEF SubjectIsGiven, Subjects
<1>7. QED
  BY <1>3, <1>4, <1>5, <1>6 DEF heard, r

\* Resubmitting changes the state, which is announced, and starts the request.
LEMMA ResubmitLemma ==
  ASSUME NEW e, IsRequest(e), SecretsExclusive(e), NEW to \in States, NEW c, Current(e, c), NEW s \in Starts
  PROVE  LET new == [e EXCEPT !["state"] = to] IN
         /\ IsRequest(Started(new, s)) /\ SecretsExclusive(Started(new, s))
         /\ Current(Started(new, s), HeardOfStart(Heard(c, new, {"status"}, {"stuck"}), new, s))
<1> DEFINE new == [e EXCEPT !["state"] = to]
           fields == {"state"}
<1>1. "state" \in EntryFields /\ "state" \notin Pins \cup Challenge /\ to \in RequestValues("state")
  BY ClientFieldsApart, KindsLemma DEF RequestValues, Pins, Challenge
<1>2. DOMAIN new = EntryFields /\ new["state"] = to /\ \A f \in EntryFields \ fields : new[f] = e[f]
  BY <1>1 DEF IsRequest
<1> HIDE DEF new
<1>3. \A f \in fields : f \notin Pins \cup Challenge /\ new[f] \in RequestValues(f)
  BY <1>1, <1>2
<1> HIDE DEF fields
<1>4. IsRequest(new) /\ SecretsExclusive(new)
  BY <1>2, <1>3, FieldsSetLemma
<1>5. \A q \in Properties : "state" \in FieldsOf(q) => q \in {"status", "stuck"}
  <2>1. \A q \in Stored : "state" \notin FieldsOf(q)
    BY ComputedFields, FieldsOfLemma, ComputedLemma DEF OtherFields
  <2>2. \A q \in Secrets : "state" \notin FieldsOf(q)
    BY SecretsLemma, FieldsOfLemma, ComputedLemma DEF Secrets, ComputedNames
  <2>3. \A q \in ComputedNames \ Secrets : "state" \in FieldsOf(q) => q \in {"status", "stuck"}
    <3>1. SUFFICES ASSUME NEW q \in ComputedNames \ Secrets PROVE "state" \in FieldsOf(q) =>
                            q \in {"status", "stuck"}
      OBVIOUS
    <3>2. q \in Properties
      BY ComputedLemma
    <3>3. QED
      BY <3>2, FieldsOfLemma DEF ComputedNames
  <2>4. QED
    BY <2>1, <2>2, <2>3, ComputedLemma
<1>6. \A q \in Properties \ ({"status"} \cup {"stuck"}) : Raw(new, q) = Raw(e, q)
  <2>1. SUFFICES ASSUME NEW q \in Properties, q \notin {"status", "stuck"} PROVE Raw(new, q) = Raw(e, q)
    OBVIOUS
  <2>2. FieldsOf(q) \cap fields = {}
    BY <1>5, <2>1 DEF fields
  <2>3. QED
    BY <1>2, <2>2, RawsLemma
<1>7. Current(new, Heard(c, new, {"status"}, {"stuck"}))
  BY <1>6, HeardLemma
<1>8. QED
  BY <1>4, <1>7, StartedLemma, StartHeard DEF new

\* A request that is read from its file has at most one of each two secrets.
LEMMA ReadSecrets ==
  ASSUME NEW e, IsRequest(e), SecretsExclusive(e)
  PROVE  SecretsExclusive(cm_store_entry_read(cm_store_entry_write(e)))
<1>1. cm_store_entry_read(cm_store_entry_write(e)) = AfterRestart(e)
  BY EntryKeptLemma DEF EntryKept
<1>2. \A f \in Pins \cup Challenge : f \in EntryFields /\ f \notin KeyNextNumbers
  BY DEF Pins, Challenge, EntryFields, KeyFields, TemplateFields, TemplateStrings, KeyNextNumbers
<1>3. \A f \in Pins \cup Challenge : AfterRestart(e)[f] = e[f] \/ AfterRestart(e)[f] = None
  BY <1>2 DEF AfterRestart
<1>4. QED
  BY <1>1, <1>3, OneSecretLemma DEF Pins, Challenge

\* The properties of a CA and the fields they show.
CAPairs == CAShown \cup CAPlaces \cup CACerts \cup CAHelper \cup {<<"is-default", "ca_is_default">>}

\* The CA's tables, too, are one to one and apart from each other.
LEMMA CAPairsApart ==
  /\ \A x, y \in CAPairs : (x[1] = y[1] <=> x[2] = y[2]) /\ x = <<x[1], x[2]>>
  /\ \A x \in CAShown \cup CAPlaces \cup CACerts : \A y \in CAHelper : x[1] # y[1]
  /\ \A x \in CAShown \cup CACerts : \A y \in CAPlaces : x[1] # y[1]
  /\ \A x \in CAShown : \A y \in CACerts : x[1] # y[1]
  /\ \A x \in CAShown \cup CAPlaces \cup CACerts \cup CAHelper : x[1] # "is-default"
<1>1. \A x, y \in CAPairs : (x[1] = y[1] <=> x[2] = y[2]) /\ x = <<x[1], x[2]>>
  BY DEF CAPairs, CAShown, CAPlaces, CACerts, CAHelper
<1>2. /\ \A x \in CAShown \cup CAPlaces \cup CACerts : \A y \in CAHelper : x[1] # y[1]
      /\ \A x \in CAShown \cup CACerts : \A y \in CAPlaces : x[1] # y[1]
  BY DEF CAShown, CAPlaces, CACerts, CAHelper
<1>3. /\ \A x \in CAShown : \A y \in CACerts : x[1] # y[1]
      /\ \A x \in CAShown \cup CAPlaces \cup CACerts \cup CAHelper : x[1] # "is-default"
  BY DEF CAShown, CAPlaces, CACerts, CAHelper
<1>4. QED
  BY <1>1, <1>2, <1>3

\* What they can be.
LEMMA CAPairFields ==
  /\ \A x \in CAPairs : x[2] \in CAFields /\ x[2] \notin {"ca_type", "force_issue_time"}
  /\ \A x \in CAPlaces \cup CAHelper : CAValues(x[2]) = Texts \cup {None, Empty}
  /\ "ca_is_default" \in CAFields /\ CAValues("ca_is_default") = Quantities /\ "ca_type" \in CAFields
<1>1. \A x \in CAPairs : x[2] \in CAFields /\ x[2] \notin {"ca_type", "force_issue_time"}
  BY DEF CAPairs, CAShown, CAPlaces, CACerts, CAHelper, CAFields, CANumbers, CAStrings, CALists
<1>2. \A x \in CAPlaces \cup CAHelper : CAValues(x[2]) = Texts \cup {None, Empty}
  BY DEF CAPlaces, CAHelper, CAValues, CANumbers
<1>3. "ca_is_default" \in CAFields /\ CAValues("ca_is_default") = Quantities /\ "ca_type" \in CAFields
  BY DEF CAFields, CANumbers, CAValues
<1>4. QED
  BY <1>1, <1>2, <1>3

\* Each has a field of its own and is of one kind.
LEMMA CAFieldLemma ==
  /\ DOMAIN CAFieldOf = Named(CAShown) \cup Named(CAPlaces) \cup Named(CACerts) \cup Named(CAHelper) \cup
       {"is-default"}
  /\ \A p \in DOMAIN CAFieldOf : CAFieldOf[p] \in CAFields /\ CAFieldOf[p] \notin {"ca_type",
       "force_issue_time"}
  /\ \A p, q \in DOMAIN CAFieldOf : p # q => CAFieldOf[p] # CAFieldOf[q]
  /\ \A p \in Named(CAPlaces) \cup Named(CAHelper) : CAValues(CAFieldOf[p]) = Texts \cup {None, Empty}
  /\ CAFieldOf["is-default"] = "ca_is_default"
  /\ Named(CAHelper) \cap (Named(CAShown) \cup Named(CAPlaces) \cup Named(CACerts)) = {}
  /\ Named(CAPlaces) \cap (Named(CAShown) \cup Named(CACerts)) = {} /\ Named(CAShown) \cap Named(CACerts) = {}
  /\ "is-default" \notin Named(CAShown) \cup Named(CAPlaces) \cup Named(CACerts) \cup Named(CAHelper)
<1>1. \A x, y \in CAPairs : x[1] = y[1] => x = y
  <2>1. SUFFICES ASSUME NEW x \in CAPairs, NEW y \in CAPairs, x[1] = y[1] PROVE x = y
    OBVIOUS
  <2>2. x = <<x[1], x[2]>> /\ y = <<y[1], y[2]>> /\ x[2] = y[2]
    BY <2>1, CAPairsApart
  <2>3. QED
    BY <2>1, <2>2
<1>2. CAFieldOf = Table(CAPairs)
  BY DEF CAFieldOf, CAPairs
<1>3. DOMAIN CAFieldOf = Named(CAPairs) /\ \A x \in CAPairs : CAFieldOf[x[1]] = x[2]
  BY <1>1, <1>2, TableLemma
<1>4. Named(CAPairs) = Named(CAShown) \cup Named(CAPlaces) \cup Named(CACerts) \cup Named(CAHelper) \cup
        {"is-default"}
  <2> DEFINE last == {<<"is-default", "ca_is_default">>}
  <2>1. Named(last) = {"is-default"} /\ CAPairs = CAShown \cup CAPlaces \cup CACerts \cup CAHelper \cup last
    BY DEF Named, CAPairs
  <2> HIDE DEF last
  <2>2. Named(CAPairs) = Named(CAShown) \cup Named(CAPlaces) \cup Named(CACerts) \cup Named(CAHelper) \cup
          Named(last)
    BY <2>1 DEF Named
  <2>3. QED
    BY <2>1, <2>2
<1>5. \A p \in DOMAIN CAFieldOf : CAFieldOf[p] \in CAFields /\ CAFieldOf[p] \notin {"ca_type",
        "force_issue_time"}
  BY <1>3, CAPairFields DEF Named
<1>6. \A p, q \in DOMAIN CAFieldOf : p # q => CAFieldOf[p] # CAFieldOf[q]
  BY <1>3, CAPairsApart DEF Named
<1>7. \A p \in Named(CAPlaces) \cup Named(CAHelper) : CAValues(CAFieldOf[p]) = Texts \cup {None, Empty}
  <2>1. CAPlaces \cup CAHelper \subseteq CAPairs
    BY DEF CAPairs
  <2>2. QED
    BY <1>3, <2>1, CAPairFields DEF Named
<1>8. CAFieldOf["is-default"] = "ca_is_default"
  <2>1. <<"is-default", "ca_is_default">> \in CAPairs
    BY DEF CAPairs
  <2>2. QED
    BY <1>3, <2>1
<1>9. /\ Named(CAHelper) \cap (Named(CAShown) \cup Named(CAPlaces) \cup Named(CACerts)) = {}
      /\ Named(CAPlaces) \cap (Named(CAShown) \cup Named(CACerts)) = {} /\
           Named(CAShown) \cap Named(CACerts) = {}
      /\ "is-default" \notin Named(CAShown) \cup Named(CAPlaces) \cup Named(CACerts) \cup Named(CAHelper)
  BY CAPairsApart DEF Named
<1>10. QED
  BY <1>3, <1>4, <1>5, <1>6, <1>7, <1>8, <1>9

\* What is got of a CA.
NotZeroShown(n) == n # 0

\* What cm_tdbush_property_get answers for each kind of CA property.
LEMMA GetCALemma ==
  ASSUME NEW c, NEW p \in DOMAIN CAFieldOf
  PROVE  /\ p \in Named(CAShown) \cup Named(CAPlaces) \cup Named(CACerts) => GetCA(c, p, TRUE) = c[CAFieldOf[p]]
         /\ p = "is-default" => GetCA(c, p, TRUE) = NotZeroShown(c["ca_is_default"])
         /\ p \in Named(CAHelper) =>
               GetCA(c, p, TRUE) = IF c["ca_type"] # External THEN Empty ELSE OrEmpty(c[CAFieldOf[p]])
BY CAFieldLemma DEF GetCA, NotZeroShown

\* It depends on the CA's type and on the property's field.
LEMMA GetCADepends ==
  ASSUME NEW c, NEW new, NEW p \in DOMAIN CAFieldOf, new["ca_type"] = c["ca_type"],
         new[CAFieldOf[p]] = c[CAFieldOf[p]]
  PROVE  GetCA(new, p, TRUE) = GetCA(c, p, TRUE)
<1>1. CASE p = "is-default"
  <2>1. new["ca_is_default"] = c["ca_is_default"]
    BY <1>1, CAFieldLemma
  <2>2. GetCA(c, p, TRUE) = NotZeroShown(c["ca_is_default"])
    BY <1>1, GetCALemma
  <2>3. GetCA(new, p, TRUE) = NotZeroShown(new["ca_is_default"])
    BY <1>1, GetCALemma
  <2>4. QED
    BY <2>1, <2>2, <2>3
<1>2. CASE p \in Named(CAHelper)
  BY <1>2, GetCALemma
<1>3. CASE p \in Named(CAShown) \cup Named(CAPlaces) \cup Named(CACerts)
  BY <1>3, GetCALemma
<1>4. QED
  BY <1>1, <1>2, <1>3, CAFieldLemma

\* What can be set on a CA is set, and nothing else changes.
LEMMA SetCALemma ==
  ASSUME NEW c, IsCA(c), NEW s \in CASettings
  PROVE  LET new == SetCA(c, s.name, s.value, s.exact) IN
         IsCA(new) /\ CASetReads(c, new, s.name, s.value, s.exact)
<1> DEFINE p == s.name
           v == s.value
           exact == s.exact
           new == SetCA(c, p, v, exact)
           can == \/ p \in Named(CAPlaces)
                  \/ exact /\ (p = "is-default" \/ (p \in Named(CAHelper) /\ c["ca_type"] = External))
           f == CAFieldOf[p]
           w == IF p \in Named(CAPlaces) THEN Kept(v) ELSE IF p = "is-default" THEN Number(v) ELSE v
<1>1. v \in (IF p = "is-default" THEN BOOLEAN ELSE Texts \cup {None, Empty})
  BY ClientsAssumption
<1>2. DOMAIN c = CAFields /\ \A g \in CAFields : c[g] \in CAValues(g)
  BY DEF IsCA
<1>3. CASE ~can
  <2>1. new = c
    BY <1>3 DEF SetCA
  <2> HIDE DEF new
  <2>2. CASetReads(c, new, p, v, exact)
    BY <1>3, <2>1 DEF CASetReads
  <2>3. QED
    BY <2>1, <2>2 DEF new
<1>4. CASE can
  <2>1. p \in DOMAIN CAFieldOf /\ f \in CAFields /\ f \notin {"ca_type", "force_issue_time"}
    BY <1>4, CAFieldLemma
  <2>2. new = [c EXCEPT ![f] = w]
    <3>1. CASE p \in Named(CAPlaces)
      BY <3>1, CAFieldLemma DEF SetCA
    <3>2. CASE p = "is-default"
      BY <1>4, <3>2, CAFieldLemma DEF SetCA
    <3>3. CASE p \in Named(CAHelper)
      BY <1>4, <3>3, CAFieldLemma DEF SetCA
    <3>4. QED
      BY <1>4, <3>1, <3>2, <3>3
  <2>3. w \in CAValues(f)
    <3>1. CASE p = "is-default"
      <4>1. p \notin Named(CAPlaces) /\ f = "ca_is_default"
        BY <3>1, CAFieldLemma
      <4>2. QED
        BY <1>1, <3>1, <4>1, CAPairFields, ValuesAssumption DEF Number
    <3>2. CASE p # "is-default"
      BY <1>1, <1>4, <3>2, CAFieldLemma DEF Kept
    <3>3. QED
      BY <3>1, <3>2
  <2>4. DOMAIN new = CAFields /\ new[f] = w /\ \A g \in CAFields \ {f} : new[g] = c[g]
    BY <1>2, <2>1, <2>2
  <2>5. new["ca_type"] = c["ca_type"] /\ "ca_type" \in CAFields
    BY <2>1, <2>4, CAPairFields
  <2> HIDE DEF new, w, f
  <2>6. IsCA(new)
    BY <1>2, <2>3, <2>4 DEF IsCA
  <2>7. \A q \in DOMAIN CAFieldOf \ {p} : GetCA(new, q, TRUE) = GetCA(c, q, TRUE)
    <3>1. SUFFICES ASSUME NEW q \in DOMAIN CAFieldOf, q # p PROVE GetCA(new, q, TRUE) = GetCA(c, q, TRUE)
      OBVIOUS
    <3>2. CAFieldOf[q] # f /\ CAFieldOf[q] \in CAFields
      BY <2>1, <3>1, CAFieldLemma DEF f
    <3>3. new[CAFieldOf[q]] = c[CAFieldOf[q]]
      BY <2>4, <3>2
    <3>4. QED
      BY <2>5, <3>3, GetCADepends
  <2>8. OrEmpty(GetCA(new, p, TRUE)) = OrEmpty(v)
    <3>1. CASE p \in Named(CAPlaces)
      <4>1. GetCA(new, p, TRUE) = Kept(v)
        BY <2>1, <2>4, <3>1, GetCALemma DEF f, w
      <4>2. QED
        BY <4>1 DEF OrEmpty, Kept
    <3>2. CASE p \in Named(CAHelper)
      <4>1. c["ca_type"] = External /\ w = v
        BY <1>4, <3>2, CAFieldLemma DEF w
      <4>2. new[CAFieldOf[p]] = v /\ new["ca_type"] = External
        BY <2>4, <2>5, <4>1 DEF f
      <4>3. GetCA(new, p, TRUE) = OrEmpty(v)
        BY <2>1, <3>2, <4>2, GetCALemma
      <4>4. QED
        BY <4>3, NoTextAssumption DEF OrEmpty
    <3>3. CASE p = "is-default"
      <4>1. w = Number(v) /\ f = "ca_is_default" /\ v \in BOOLEAN
        BY <1>1, <3>3, CAFieldLemma DEF w, f
      <4>2. GetCA(new, p, TRUE) = NotZeroShown(Number(v))
        BY <2>1, <2>4, <3>3, <4>1, GetCALemma
      <4>3. NotZeroShown(Number(v)) = v
        BY <4>1 DEF NotZeroShown, Number
      <4>4. QED
        BY <4>2, <4>3
    <3>4. QED
      BY <1>4, <3>1, <3>2, <3>3
  <2>9. (\E q \in Named(CAHelper) : GetCA(new, q, TRUE) # GetCA(c, q, TRUE)) => RestartsCA(c, p, exact)
    <3>1. SUFFICES ASSUME NEW q \in Named(CAHelper), GetCA(new, q, TRUE) # GetCA(c, q, TRUE)
                   PROVE  RestartsCA(c, p, exact)
      OBVIOUS
    <3>2. q = p
      BY <2>7, <3>1, CAFieldLemma
    <3>3. QED
      BY <1>4, <3>1, <3>2, CAFieldLemma DEF RestartsCA
  <2>10. CASetReads(c, new, p, v, exact)
    BY <1>4, <2>7, <2>8, <2>9 DEF CASetReads
  <2>11. QED
    BY <2>6, <2>10 DEF new
<1>5. QED
  BY <1>3, <1>4

\* The inductive invariant: a request and a CA stay ones, only one of each two
\* secrets is kept, and clients know what is shown.
RecordsInv == IsRequest(request) /\ IsCA(ca) /\ OneSecret /\ FollowersAreCurrent

\* What a step must do, of the properties that clients ask for.
SetDone ==
  /\ asked'.of = "set" => SetReads(request, request', asked'.name, asked'.type, asked'.value, asked'.ok)
  /\ asked'.of = "ca" => CASetReads(ca, ca', asked'.name, asked'.value, asked'.exact)
ModifyDone ==
  asked'.of = "modify" =>
    /\ asked'.ok => ModifyReads(request', asked'.params)
    /\ SubjectIsGiven(request, request')

\* A client's knowledge is FollowersAreCurrent.
LEMMA CurrentLemma ==
  /\ FollowersAreCurrent <=> Current(request, client)
  /\ FollowersAreCurrent' <=> Current(request', client')
BY DEF FollowersAreCurrent, Current

\* Who asks for everything knows it.
LEMMA GetAllLemma == ASSUME NEW e PROVE Current(e, [known |-> GetAll(e), stale |-> {}])
<1>1. /\ DOMAIN GetAll(e) = {p \in Properties : Shown(e, p)}
      /\ \A p \in DOMAIN GetAll(e) : GetAll(e)[p] = Raw(e, p)
  BY DEF GetAll
<1>2. QED
  BY <1>1 DEF Current

\* What there is to begin with is one of each.
LEMMA RecordsStart == Init => RecordsInv
<1> SUFFICES ASSUME Init PROVE RecordsInv
  OBVIOUS
<1>1. IsRequest(request) /\ IsCA(ca) /\ OneSecret
  BY ValuesAssumption DEF Init, OneSecret
<1>2. FollowersAreCurrent
  BY GetAllLemma, CurrentLemma DEF Init
<1>3. QED
  BY <1>1, <1>2 DEF RecordsInv

\* A visit to the request.
LEMMA VisitStep == ASSUME RecordsInv, Visit PROVE RecordsInv' /\ SetDone /\ ModifyDone
<1>1. PICK v \in Visits : request' = Visited(request, v) /\ client' = HeardOfVisit(client, request, v)
  BY DEF Visit
<1>2. IsChange(v, EntryFields \ ClientFields)
  BY ChangesAssumption
<1>3. IsRequest(request) /\ SecretsExclusive(request) /\ Current(request, client) /\ IsCA(ca)
  BY CurrentLemma DEF RecordsInv, OneSecret
<1>4. IsRequest(request') /\ SecretsExclusive(request') /\ DOMAIN v \cap ClientFields = {}
  BY <1>1, <1>2, <1>3, ChangedLemma
<1>5. Current(request', client')
  BY <1>1, <1>3, <1>4, VisitHeard
<1>6. asked'.of = "nothing" /\ ca' = ca
  BY DEF Visit, Nothing
<1>7. QED
  BY <1>3, <1>4, <1>5, <1>6, CurrentLemma DEF RecordsInv, OneSecret, SetDone, ModifyDone

\* A request is restarted, or resubmitted, or one is read from its file.
LEMMA StartStep ==
  ASSUME RecordsInv, RestartRequest \/ Resubmit \/ Restart
  PROVE  RecordsInv' /\ SetDone /\ ModifyDone
<1>1. IsRequest(request) /\ SecretsExclusive(request) /\ Current(request, client) /\ IsCA(ca)
  BY CurrentLemma DEF RecordsInv, OneSecret
<1>2. asked'.of = "nothing"
  BY DEF RestartRequest, Resubmit, Restart, Nothing
<1>3. IsCA(ca')
  BY <1>1, CAReadLemma DEF RestartRequest, Resubmit, Restart
<1>4. IsRequest(request') /\ SecretsExclusive(request') /\ Current(request', client')
  <2>1. CASE RestartRequest
    BY <1>1, <2>1, StartedLemma, StartHeard DEF RestartRequest
  <2>2. CASE Resubmit
    <3>1. "NEED_KEY_PAIR" \in States /\ "NEED_CSR" \in States
      BY DEF States, HelperStates, StuckStates, PassingStates
    <3>2. PICK s \in Starts, to \in States :
             LET e == [request EXCEPT !["state"] = to] IN
             /\ request' = Started(e, s)
             /\ client' = HeardOfStart(Heard(client, e, {"status"}, {"stuck"}), e, s)
      BY <2>2, <3>1 DEF Resubmit
    <3>3. QED
      BY <1>1, <3>2, ResubmitLemma
  <2>3. CASE Restart
    <3>1. PICK s \in Starts : request' = Started(cm_store_entry_read(cm_store_entry_write(request)), s)
      BY <2>3 DEF Restart
    <3>2. IsRequest(request') /\ SecretsExclusive(request')
      BY <1>1, <3>1, RequestReadLemma, ReadSecrets, StartedLemma
    <3>3. Current(request', [client EXCEPT !.stale = Properties])
      BY DEF Current
    <3>4. QED
      BY <2>3, <3>2, <3>3 DEF Restart
  <2>4. QED
    BY <2>1, <2>2, <2>3
<1>5. QED
  BY <1>2, <1>3, <1>4, CurrentLemma DEF RecordsInv, OneSecret, SetDone, ModifyDone

\* A client sets a property of the request.
LEMMA SetStep == ASSUME RecordsInv, SetProperty PROVE RecordsInv' /\ SetDone /\ ModifyDone
<1>1. PICK s \in Settings :
         LET r == Set(request, s.name, s.type, s.value) IN
         /\ request' = r.entry /\ client' = Heard(client, r.entry, r.announced, {})
         /\ asked' = [of |-> "set", name |-> s.name, type |-> s.type, value |-> s.value, ok |-> r.ok]
  BY DEF SetProperty
<1>2. IsRequest(request) /\ SecretsExclusive(request) /\ Current(request, client) /\ IsCA(ca) /\ ca' = ca
  BY CurrentLemma DEF RecordsInv, OneSecret, SetProperty
<1>3. /\ IsRequest(request') /\ SecretsExclusive(request') /\ Current(request', client')
      /\ SetReads(request, request', asked'.name, asked'.type, asked'.value, asked'.ok)
  BY <1>1, <1>2, SetLemma
<1>4. asked'.of = "set"
  BY <1>1
<1>5. QED
  BY <1>2, <1>3, <1>4, CurrentLemma DEF RecordsInv, OneSecret, SetDone, ModifyDone

\* A client modifies the request.
LEMMA ModifyStep == ASSUME RecordsInv, ModifyRequest PROVE RecordsInv' /\ SetDone /\ ModifyDone
<1>1. PICK params \in Modifications, s \in Starts :
         LET r == Modify(request, params, Used, CAs, Uid)
             heard == Heard(client, r.entry, r.announced, Altered(params, r.applied))
         IN  /\ request' = IF r.ok THEN Started(r.entry, s) ELSE r.entry
             /\ client' = IF r.ok THEN HeardOfStart(heard, r.entry, s) ELSE heard
             /\ asked' = [of |-> "modify", params |-> params, ok |-> r.ok]
  BY DEF ModifyRequest
<1>2. IsRequest(request) /\ SecretsExclusive(request) /\ Current(request, client) /\ IsCA(ca) /\ ca' = ca
  BY CurrentLemma DEF RecordsInv, OneSecret, ModifyRequest
<1>3. /\ IsRequest(request') /\ SecretsExclusive(request') /\ Current(request', client')
      /\ asked'.ok => ModifyReads(request', asked'.params)
      /\ SubjectIsGiven(request, request')
  BY <1>1, <1>2, ModifyStarted
<1>4. asked'.of = "modify"
  BY <1>1
<1>5. QED
  BY <1>2, <1>3, <1>4, CurrentLemma DEF RecordsInv, OneSecret, SetDone, ModifyDone

\* A client asks for everything, or sets a property of the CA, or that changes.
LEMMA OtherStep ==
  ASSUME RecordsInv, AskAll \/ SetCAProperty \/ ChangeCA
  PROVE  RecordsInv' /\ SetDone /\ ModifyDone
<1>1. IsRequest(request) /\ SecretsExclusive(request) /\ Current(request, client) /\ IsCA(ca)
  BY CurrentLemma DEF RecordsInv, OneSecret
<1>2. request' = request
  BY DEF AskAll, SetCAProperty, ChangeCA
<1>3. CASE AskAll
  <2>1. ca' = ca /\ client' = [known |-> GetAll(request), stale |-> {}] /\ asked'.of = "nothing"
    BY <1>3 DEF AskAll, Nothing
  <2>2. Current(request', client')
    BY <1>2, <2>1, GetAllLemma
  <2>3. QED
    BY <1>1, <1>2, <2>1, <2>2, CurrentLemma DEF RecordsInv, OneSecret, SetDone, ModifyDone
<1>4. CASE SetCAProperty
  <2>1. PICK s \in CASettings :
           /\ ca' = SetCA(ca, s.name, s.value, s.exact)
           /\ asked' = [of |-> "ca", name |-> s.name, value |-> s.value, exact |-> s.exact]
    BY <1>4 DEF SetCAProperty
  <2>2. client' = client
    BY <1>4 DEF SetCAProperty
  <2>3. /\ IsCA(ca') /\ CASetReads(ca, ca', asked'.name, asked'.value, asked'.exact)
        /\ asked'.of = "ca"
    BY <1>1, <2>1, SetCALemma
  <2>4. QED
    BY <1>1, <1>2, <2>2, <2>3, CurrentLemma DEF RecordsInv, OneSecret, SetDone, ModifyDone
<1>5. CASE ChangeCA
  <2>1. PICK v \in CAChanges : ca' = Over(v, ca)
    BY <1>5 DEF ChangeCA
  <2>2. IsCA(ca')
    BY <1>1, <2>1, ChangesAssumption DEF IsCA, Over
  <2>3. client' = client /\ asked'.of = "nothing"
    BY <1>5 DEF ChangeCA, Nothing
  <2>4. QED
    BY <1>1, <1>2, <2>2, <2>3, CurrentLemma DEF RecordsInv, OneSecret, SetDone, ModifyDone
<1>6. QED
  BY <1>3, <1>4, <1>5

\* Every step does what it must and leaves the invariant.
LEMMA RecordsStep == RecordsInv /\ [Next]_vars => RecordsInv' /\ [SetDone]_vars /\ [ModifyDone]_vars
<1>1. ASSUME RecordsInv, Next PROVE RecordsInv' /\ SetDone /\ ModifyDone
  BY <1>1, VisitStep, StartStep, SetStep, ModifyStep, OtherStep DEF Next
<1>2. ASSUME RecordsInv, UNCHANGED vars PROVE RecordsInv'
  <2>1. request' = request /\ ca' = ca /\ client' = client
    BY <1>2 DEF vars
  <2>2. QED
    BY <1>2, <2>1, CurrentLemma DEF RecordsInv, OneSecret
<1>3. QED
  BY <1>1, <1>2

\* The invariant holds.
LEMMA RecordsInvariant == Spec => []RecordsInv
BY RecordsStart, RecordsStep, PTL DEF Spec

\* Whatever texts and numbers requests and CAs have, after any visits, settings,
\* modifications and restarts: a restart keeps them, a file of an earlier version
\* means what it meant, a PIN that has a file is not written, a copy has everything
\* but two lists, and a CA keeps what its type has a use for, above all the serial
\* number.
THEOREM RecordsAlwaysKept == Spec => []RecordsAreKept
<1>1. RecordsInv => RequestKept
  BY EntryKeptLemma, PinNotWrittenLemma, OldFileLemma, DupLemma DEF RecordsInv, RequestKept
<1>2. RecordsInv => CAKept(ca)
  BY CAKeptLemma DEF RecordsInv
<1>3. RecordsInv => RecordsAreKept
  BY <1>1, <1>2 DEF RecordsAreKept
<1>4. QED
  BY <1>3, RecordsInvariant, PTL

\* However secrets are given, by "set" or "modify", never are both a PIN or challenge
\* password and a file with it kept.
THEOREM OneSecretKept == Spec => []OneSecret
<1>1. RecordsInv => OneSecret
  BY DEF RecordsInv
<1>2. QED
  BY <1>1, RecordsInvariant, PTL

\* A client that asked once and follows the announcements knows every property, of
\* whatever value, but for what was changed in silence since.
THEOREM FollowersStayCurrent == Spec => []FollowersAreCurrent
<1>1. RecordsInv => FollowersAreCurrent
  BY DEF RecordsInv
<1>2. QED
  BY <1>1, RecordsInvariant, PTL

\* Every property that can be set reads as it was set, and no other one changes but
\* for the other secret; what cannot be set does not change.
THEOREM SettingsAreRead == Spec => SetIsRead
<1>1. SetIsRead <=> [][SetDone]_vars
  BY DEF SetIsRead, SetDone
<1>2. QED
  BY <1>1, RecordsInvariant, RecordsStep, PTL DEF Spec

\* After any sequence of parameters, those that "modify" applied are read back, if
\* they are not among those that are stored elsewhere or were outdone by a later
\* one, and the subject is the one that was asked for.
THEOREM ModificationsAreRead == Spec => ModifyIsRead
<1>1. ModifyIsRead <=> [][ModifyDone]_vars
  BY DEF ModifyIsRead, ModifyDone
<1>2. QED
  BY <1>1, RecordsInvariant, RecordsStep, PTL DEF Spec

=============================================================================
