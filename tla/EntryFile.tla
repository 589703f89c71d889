------------------------------ MODULE EntryFile -----------------------------
(***************************************************************************)
(* Which fields of a request and of a CA reach their files and come back   *)
(* (store-files.c), and what a copy of them has.  An item is a function of *)
(* its fields, under the names that they have in a file; a file is a       *)
(* function of the fields that it has a line for.  How a value becomes     *)
(* text is in StoreText; here a text is the value.                         *)
(***************************************************************************)
EXTENDS Integers, Sequences

CONSTANTS None, Empty   \* NULL and a string without text
IsEmpty(v) == v \in {None, Empty}

(***************************************************************************)
(* Fields of requests                                                      *)
(***************************************************************************)
KeyTypes == {"key_type", "key_gen_type", "key_next_type", "key_next_gen_type"}
KeyNumbers == {"key_size", "key_gen_size", "key_next_size", "key_next_gen_size", "key_preserve",
    "key_perms", "key_requested_count", "key_issued_count"}
KeyDates == {"key_generated_date"}
KeyNextNumbers == {"key_next_generated_date", "key_next_requested_count"}
KeyPlaces == {"key_storage_type", "key_storage_location", "key_token", "key_nickname", "key_owner"}
KeyStrings == {"key_next_marker", "key_pubkey", "key_pubkey_info", "key_next_pubkey",
    "key_next_pubkey_info"}
Pins == {"key_pin", "key_pin_file"}
KeyFields == KeyTypes \cup KeyNumbers \cup KeyDates \cup KeyNextNumbers \cup KeyPlaces
             \cup KeyStrings \cup Pins

CertNumbers == {"cert_perms", "cert_is_ca", "cert_ca_path_length", "cert_no_ocsp_check"}
CertDates == {"cert_not_before", "cert_not_after"}
CertStrings == {"cert_storage_type", "cert_storage_location", "cert_token", "cert_nickname",
    "cert_owner", "cert_issuer_der", "cert_issuer", "cert_serial", "cert_subject_der",
    "cert_subject", "cert_spki", "cert_ku", "cert_eku", "cert_ns_comment", "cert_profile",
    "cert_ns_certtype"}
CertLists == {"cert_hostname", "cert_email", "cert_principal", "cert_ipaddress", "cert_crldp",
    "cert_freshest_crl", "cert_ocsp"}
CertFields == CertNumbers \cup CertDates \cup CertStrings \cup CertLists

TemplateNumbers == {"template_is_ca", "template_ca_path_length", "template_no_ocsp_check"}
TemplateStrings == {"template_subject_der", "template_subject", "template_ku", "template_eku",
    "template_ns_comment", "template_profile", "template_issuer", "template_certificate_template",
    "template_ns_certtype", "template_challenge_password", "template_challenge_password_file"}
TemplateLists == {"template_hostname", "template_email", "template_principal",
    "template_ipaddress", "template_crldp", "template_freshest_crl", "template_ocsp"}
TemplateFields == TemplateNumbers \cup TemplateStrings \cup TemplateLists

Checks == {"last_need_notify_check", "last_need_enroll_check"}
StateNumbers == Checks \cup {"autorenew", "monitor", "submitted"}
StateStrings == {"id", "nss_user", "csr", "spkac", "scep_tx", "scep_nonce", "scep_last_nonce",
    "scep_gic", "scep_gic_next", "scep_req", "scep_req_next", "minicert", "state", "ca_name",
    "ca_cookie", "ca_error", "cert", "pre_certsave_command", "pre_certsave_uid",
    "post_certsave_command", "post_certsave_uid"}
StateLists == {"cert_chain", "cert_roots", "root_cert_files", "other_root_cert_files",
    "other_cert_files", "root_cert_dbs", "other_root_cert_dbs", "other_cert_dbs"}
StateFields == StateNumbers \cup StateStrings \cup StateLists

EntryFields == KeyFields \cup CertFields \cup TemplateFields \cup StateFields
Numbers == KeyNumbers \cup KeyDates \cup KeyNextNumbers \cup CertNumbers \cup CertDates
           \cup TemplateNumbers \cup StateNumbers
EntryDefault(f) ==
    IF f = "template_ca_path_length" THEN -1
    ELSE IF f \in Numbers THEN 0
    ELSE IF f \in KeyTypes THEN "UNSPECIFIED"
    ELSE IF f = "key_storage_type" THEN "NONE"
    ELSE IF f = "cert_storage_type" THEN "FILE"
    ELSE None

\* cm_store_entry_new, and what cm_store_entry_read sets first.
NewEntry == [f \in EntryFields |-> EntryDefault(f)]

(***************************************************************************)
(* Writing: the fields that get a line.                                    *)
(***************************************************************************)
WithText(x, fields) == {f \in fields : ~IsEmpty(x[f])}
NotZero(x, fields) == {f \in fields : x[f] # 0}

\* The PIN is not written if it is in a file, and what is known of a next key
\* only while there is one.
KeyLines_DropsNext(e) ==
    WithText(e, KeyTypes \cup KeyNumbers \cup KeyPlaces \cup KeyStrings \cup {"key_pin_file"})
    \cup {f \in WithText(e, {"key_pin"}) : e["key_pin_file"] = None}
    \cup NotZero(e, KeyDates)

KeyLines(e) ==
    WithText(e, KeyTypes \cup KeyNumbers \cup KeyPlaces \cup KeyStrings \cup {"key_pin_file"})
    \cup {f \in WithText(e, {"key_pin"}) : e["key_pin_file"] = None}
    \cup NotZero(e, KeyDates)
    \cup {f \in KeyNextNumbers : ~IsEmpty(e["key_next_marker"])}

CertLines(e) == WithText(e, CertNumbers \cup CertStrings \cup CertLists) \cup NotZero(e, CertDates)
TemplateLines(e) == WithText(e, TemplateFields)
StateLines(e) == WithText(e, StateFields)

\* Every request has a nickname when it is saved.
cm_store_entry_write(e) ==
    [f \in KeyLines(e) \cup CertLines(e) \cup TemplateLines(e) \cup StateLines(e) |-> e[f]]

(***************************************************************************)
(* Reading                                                                 *)
(***************************************************************************)
\* Names that earlier versions wrote.
OldNames == [cert_issued |-> "cert_not_before", cert_expiration |-> "cert_not_after",
             ca_profile |-> "template_profile", challenge_password |-> "template_challenge_password"]

\* The names of each field.
NamesOf(f) == {f} \cup {n \in DOMAIN OldNames : OldNames[n] = f}

\* A field of a file, whatever its line calls it.
Value(file, f) ==
    LET given == NamesOf(f) \cap DOMAIN file
        text == file[CHOOSE n \in given : TRUE]
    IN  IF given = {} THEN EntryDefault(f) ELSE IF text = Empty THEN None ELSE text

\* EC keys have had two names; what is not known is not specified.
AlgorithmOfText(text) ==
    IF text \in {"EC", "ECDSA"} THEN "EC" ELSE IF text \in {"RSA", "DSA"} THEN text ELSE "UNSPECIFIED"

\* A PIN file makes the PIN unknown, whichever line comes first.
KeyOfLines(file) ==
    [f \in KeyFields |->
        IF f \in KeyTypes THEN AlgorithmOfText(Value(file, f))
        ELSE IF f = "key_pin" /\ Value(file, "key_pin_file") # None THEN None
        ELSE Value(file, f)]

CertOfLines(file) == [f \in CertFields |-> Value(file, f)]
TemplateOfLines(file) == [f \in TemplateFields |-> Value(file, f)]

\* One time of the last check stood for both that there are now.
StateOfLines_NotSplit(file) == [f \in StateFields |-> Value(file, f)]

StateOfLines(file) ==
    [f \in StateFields |->
        IF f \in Checks /\ "last_expiration_check" \in DOMAIN file THEN file["last_expiration_check"]
        ELSE Value(file, f)]

cm_store_entry_read(file) ==
    [f \in EntryFields |->
        IF f \in KeyFields THEN KeyOfLines(file)[f]
        ELSE IF f \in CertFields THEN CertOfLines(file)[f]
        ELSE IF f \in TemplateFields THEN TemplateOfLines(file)[f]
        ELSE StateOfLines(file)[f]]

(***************************************************************************)
(* Copying                                                                 *)
(***************************************************************************)
Copied(e) == [f \in DOMAIN e |-> IF e[f] = Empty THEN None ELSE e[f]]

cm_store_entry_dup_ForgetsNext(e) ==
    [f \in EntryFields |-> IF f \in KeyNextNumbers THEN EntryDefault(f) ELSE Copied(e)[f]]

\* Two of the lists of databases are copied from the third.
cm_store_entry_dup(e) ==
    [Copied(e) EXCEPT !["key_pin"] = IF ~IsEmpty(e["key_pin_file"]) THEN None ELSE @,
                      !["root_cert_dbs"] = Copied(e)["other_cert_dbs"],
                      !["other_root_cert_dbs"] = Copied(e)["other_cert_dbs"]]

(***************************************************************************)
(* CAs                                                                     *)
(***************************************************************************)
CANumbers == {"ca_is_default", "ca_internal_issue_time"}
CAStrings == {"id", "ca_aka", "ca_internal_serial", "ca_external_helper", "ca_default_profile",
    "ca_pre_save_command", "ca_pre_save_uid", "ca_post_save_command", "ca_post_save_uid",
    "scep_cipher", "scep_digest", "scep_ca_identifier", "ca_encryption_cert",
    "ca_encryption_issuer_cert", "ca_encryption_cert_pool"}
CALists == {"ca_issuer_names", "ca_root_certs", "ca_other_root_certs", "ca_other_certs",
    "ca_required_enroll_attributes", "ca_required_renewal_attributes", "ca_profiles",
    "ca_root_cert_files", "ca_other_root_cert_files", "ca_other_cert_files", "ca_root_cert_dbs",
    "ca_other_root_cert_dbs", "ca_other_cert_dbs", "ca_capabilities"}
Internal == "INTERNAL:SELF"
External == "EXTERNAL"
\* cm_ca_internal_force_issue_time is a field, but has no line of its own.
CAFields == CANumbers \cup CAStrings \cup CALists \cup {"ca_type", "force_issue_time"}
FirstSerial == "01"
CADefault(f) ==
    IF f \in CANumbers \cup {"force_issue_time"} THEN 0 ELSE IF f = "ca_type" THEN Internal ELSE None
NewCA == [f \in CAFields |-> CADefault(f)]

\* Depending on the type either the serial number and the time for the next
\* certificate or the helper is written.
CALines == (CAStrings \cup CALists \cup {"ca_is_default", "ca_type"})
           \ {"ca_internal_serial", "ca_external_helper"}
InternalLines(c) == {"ca_internal_serial"}
                    \cup {f \in {"ca_internal_issue_time"} : c["force_issue_time"] # 0}

cm_store_ca_write_EveryType(c) == [f \in WithText(c, CALines \cup {"ca_external_helper"}) |-> c[f]]

cm_store_ca_write(c) ==
    [f \in WithText(c, CALines \cup IF c["ca_type"] = Internal THEN InternalLines(c)
                                     ELSE {"ca_external_helper"}) |-> c[f]]

cm_store_ca_read(file) ==
    LET value(f) == IF f \in DOMAIN file /\ file[f] # Empty THEN file[f] ELSE CADefault(f) IN
    [f \in CAFields |->
        IF f = "force_issue_time" THEN IF "ca_internal_issue_time" \in DOMAIN file THEN 1 ELSE 0
        ELSE IF f = "ca_internal_serial" /\ value(f) = None THEN FirstSerial
        ELSE value(f)]

cm_store_ca_dup(c) ==
    [Copied(c) EXCEPT !["ca_root_cert_dbs"] = Copied(c)["ca_other_cert_dbs"],
                      !["ca_other_root_cert_dbs"] = Copied(c)["ca_other_cert_dbs"]]
-----------------------------------------------------------------------------
(* Properties of one request or CA *)

\* What a restart may change: strings without text are gone, so are a PIN where
\* there is a file with it and what was known of a next key that there is not.
AfterRestart(e) ==
    [f \in EntryFields |->
        IF e[f] = Empty \/ (f = "key_pin" /\ ~IsEmpty(e["key_pin_file"])) THEN None
        ELSE IF f \in KeyNextNumbers /\ IsEmpty(e["key_next_marker"]) THEN 0
        ELSE e[f]]

EntryKept(e) == cm_store_entry_read(cm_store_entry_write(e)) = AfterRestart(e)

\* A PIN that is kept in a file of its own is not in the request's file.
PinNotWritten(e) == ~IsEmpty(e["key_pin_file"]) => "key_pin" \notin DOMAIN cm_store_entry_write(e)

\* A file of an earlier version means what it meant.
OldLines(text, time) ==
    [n \in DOMAIN OldNames \cup {"last_expiration_check"} |->
        IF n \in {"ca_profile", "challenge_password"} THEN text ELSE time]
NewLines(e) == DOMAIN cm_store_entry_write(e) \ ({OldNames[n] : n \in DOMAIN OldNames} \cup Checks)
OldFile(e, text, time) ==
    LET new == NewLines(e)
        old == OldLines(text, time)
    IN  [n \in DOMAIN old \cup new |-> IF n \in new THEN e[n] ELSE old[n]]
OldFileRead(e, text, time) ==
    LET r == cm_store_entry_read(OldFile(e, text, time)) IN
    /\ \A n \in DOMAIN OldNames : r[OldNames[n]] = OldLines(text, time)[n]
    /\ \A f \in Checks : r[f] = time
    /\ \A f \in NewLines(e) : r[f] = AfterRestart(e)[f]

\* A copy is the same request, but for its lists of databases: what is compared
\* with it to tell clients of changes, and saved, has the rest.
DupSame(e) ==
    \A f \in EntryFields \ {"root_cert_dbs", "other_root_cert_dbs", "key_pin"} :
        cm_store_entry_dup(e)[f] = Copied(e)[f]

\* The serial number of an internal CA, above all, and everything else that its
\* type has a use for.
CAKept(c) ==
    LET r == cm_store_ca_read(cm_store_ca_write(c)) IN
    /\ \A f \in CAFields \ {"ca_internal_serial", "ca_external_helper", "ca_internal_issue_time",
                            "force_issue_time"} : r[f] = Copied(c)[f]
    /\ c["ca_type"] = Internal =>
          /\ r["ca_internal_serial"] = IF IsEmpty(c["ca_internal_serial"]) THEN FirstSerial
                                       ELSE c["ca_internal_serial"]
          /\ r["force_issue_time"] = c["force_issue_time"]
          /\ c["force_issue_time"] # 0 => r["ca_internal_issue_time"] = c["ca_internal_issue_time"]
    /\ c["ca_type"] = External /\ c["ca_external_helper"] # Empty =>
          r["ca_external_helper"] = c["ca_external_helper"]
    /\ \A f \in CAFields \ {"ca_root_cert_dbs", "ca_other_root_cert_dbs"} :
          cm_store_ca_dup(c)[f] = Copied(c)[f]
=============================================================================
