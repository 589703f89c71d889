-------------------------- MODULE RequestInterface --------------------------
(***************************************************************************)
(* What clients see of requests and CAs over D-Bus, and what they change   *)
(* (tdbush.c): the properties, the older get_ methods, "modify", the       *)
(* announcements of changes, and the names that properties go by.  A       *)
(* record is a request or CA of EntryFile; a value of the bus is a text, a *)
(* list, a number or a truth, of which "x" stands for any that is not      *)
(* empty.                                                                  *)
(***************************************************************************)
EXTENDS EntryFile

\* A table of pairs; and a table that is preferred to another one.
Table(pairs) == [n \in {x[1] : x \in pairs} |-> (CHOOSE x \in pairs : x[1] = n)[2]]
Over(new, old) == [n \in DOMAIN new \cup DOMAIN old |-> IF n \in DOMAIN new THEN new[n] ELSE old[n]]

(***************************************************************************)
(* Names                                                                   *)
(***************************************************************************)
Uppercase == [a |-> "A", b |-> "B"]
IsUpperOf(c, d) == c \in DOMAIN Uppercase /\ d = Uppercase[c]
Dash == {"-", "_"}

\* Dashes and underscores are the same, the first letter may be in upper case,
\* and "-x" may be "X": 'key-type', 'key_type', 'keyType' and 'KeyType'.
SameFrom(s, t) ==
    LET Letters(c, d) == IsUpperOf(c, d) \/ IsUpperOf(d, c)
        Dashed(u, i, d) == u[i] \in Dash /\ i < Len(u) /\ IsUpperOf(u[i + 1], d)
        same[i \in 1..Len(s) + 1, j \in 1..Len(t) + 1] ==
            IF i > Len(s) \/ j > Len(t) THEN i > Len(s) /\ j > Len(t)
            ELSE CASE s[i] = t[j] \/ {s[i], t[j]} = Dash -> same[i + 1, j + 1]
                   [] i = 1 /\ j = 1 /\ Letters(s[1], t[1]) -> same[2, 2]
                   [] Dashed(s, i, t[j]) -> same[i + 2, j + 1]
                   [] Dashed(t, j, s[i]) -> same[i + 1, j + 2]
                   [] OTHER -> FALSE
    IN  same[1, 1]

\* A comparison that leaves all dashes out would mix 'ca' and 'c-a' up.
cm_name_cmp_NoDashes(s, t) ==
    SameFrom(SelectSeq(s, LAMBDA c : c \notin Dash), SelectSeq(t, LAMBDA c : c \notin Dash))

cm_name_cmp(s, t) == SameFrom(s, t)

(***************************************************************************)
(* The properties of a request and the fields they show                    *)
(***************************************************************************)
CertTexts == {<<"cert", "cert">>, <<"issuer", "cert_issuer">>, <<"serial", "cert_serial">>,
    <<"subject", "cert_subject">>, <<"ku", "cert_ku">>}
TemplateTexts == {<<"template-subject", "template_subject">>, <<"template-ku", "template_ku">>,
    <<"template-ns-comment", "template_ns_comment">>, <<"template-issuer", "template_issuer">>,
    <<"template-profile", "template_profile">>, <<"template-ns-certtype", "template_ns_certtype">>,
    <<"template-ms-certificate-template", "template_certificate_template">>}
CommandTexts == {<<"cert-presave-command", "pre_certsave_command">>,
    <<"cert-presave-uid", "pre_certsave_uid">>, <<"cert-postsave-command", "post_certsave_command">>,
    <<"cert-postsave-uid", "post_certsave_uid">>}
OwnerTexts == {<<"cert-owner", "cert_owner">>, <<"key-owner", "key_owner">>, <<"nss-user", "nss_user">>}
StateTexts == {<<"nickname", "id">>, <<"csr", "csr">>, <<"ca-profile", "cert_profile">>,
    <<"ca-cookie", "ca_cookie">>, <<"ca-error", "ca_error">>}
StringProperties == CertTexts \cup TemplateTexts \cup CommandTexts \cup OwnerTexts \cup StateTexts

CertListProperties == {<<"email", "cert_email">>, <<"hostname", "cert_hostname">>,
    <<"principal", "cert_principal">>, <<"eku", "cert_eku">>}
TemplateListProperties == {<<"template-email", "template_email">>,
    <<"template-hostname", "template_hostname">>, <<"template-principal", "template_principal">>,
    <<"template-eku", "template_eku">>, <<"template-ip-address", "template_ipaddress">>,
    <<"template-ocsp", "template_ocsp">>, <<"template-crldp", "template_crldp">>,
    <<"template-freshest-crl", "template_freshest_crl">>}
PlaceLists == {<<"root-cert-files", "root_cert_files">>,
    <<"root-other-cert-files", "other_root_cert_files">>, <<"other-cert-files", "other_cert_files">>,
    <<"root-cert-nssdbs", "root_cert_dbs">>, <<"root-other-cert-nssdbs", "other_root_cert_dbs">>,
    <<"other-cert-nssdbs", "other_cert_dbs">>}
ListProperties == CertListProperties \cup TemplateListProperties \cup PlaceLists
NumberProperties == {<<"not-valid-before", "cert_not_before">>, <<"not-valid-after", "cert_not_after">>,
    <<"last-checked", "last_need_notify_check">>, <<"cert-perms", "cert_perms">>,
    <<"key-generated-date", "key_generated_date">>, <<"key-perms", "key_perms">>,
    <<"submitted-date", "submitted">>}
Fields == Table(StringProperties \cup ListProperties \cup NumberProperties)
Stored == DOMAIN Fields
Named(pairs) == {x[1] : x \in pairs}

\* These are computed, as texts but for the last ones.
SecretProperties == Table({<<"key-pin", "key_pin">>, <<"key-pin-file", "key_pin_file">>,
    <<"template-challenge-password", "template_challenge_password">>,
    <<"template-challenge-password-file", "template_challenge_password_file">>})
Notifications == {"notification-type", "notification-syslog-priority", "notification-email",
                  "notification-command"}
CertLocations == {"cert-storage", "cert-file", "cert-database", "cert-nickname", "cert-token"}
KeyLocations == {"key-storage", "key-file", "key-database", "key-nickname", "key-token"}
ComputedTexts == DOMAIN SecretProperties \cup Notifications \cup CertLocations \cup KeyLocations
    \cup {"key-type", "status", "ca"}
ComputedLists == [p \in {"cert-chain", "cert-roots"} |-> IF p = "cert-chain" THEN "cert_chain" ELSE "cert_roots"]
ComputedNumbers == {"key-issued-count", "key-size", "template-ca-path-length"}
Truths == {"autorenew", "monitoring", "stuck", "template-is-ca"}

Properties == Stored \cup ComputedTexts \cup DOMAIN ComputedLists \cup ComputedNumbers \cup Truths
Writable == DOMAIN SecretProperties \cup {"cert-owner", "cert-perms", "key-owner", "key-perms", "nss-user"}
    \cup {p \in Named(StringProperties) \cup Named(ListProperties) : Fields[p] \in TemplateFields}
TextNames == Named(StringProperties) \cup ComputedTexts
ListNames == Named(ListProperties) \cup DOMAIN ComputedLists
Type(p) == IF p \in TextNames THEN "text" ELSE IF p \in ListNames THEN "list"
           ELSE IF p \in Truths THEN "truth" ELSE "number"

(***************************************************************************)
(* Reading                                                                 *)
(***************************************************************************)
OrEmpty(v) == IF v = None THEN Empty ELSE v

\* The place of the key or of the certificate, and only what its type has.
CertLocation(e, p) ==
    CASE p = "cert-storage" -> e["cert_storage_type"]
      [] p = "cert-file" /\ e["cert_storage_type"] = "FILE" -> OrEmpty(e["cert_storage_location"])
      [] p = "cert-database" /\ e["cert_storage_type"] = "NSSDB" -> OrEmpty(e["cert_storage_location"])
      [] p = "cert-nickname" /\ e["cert_storage_type"] = "NSSDB" -> OrEmpty(e["cert_nickname"])
      [] p = "cert-token" /\ e["cert_storage_type"] = "NSSDB" -> OrEmpty(e["cert_token"])
      [] OTHER -> Empty
KeyLocation(e, p) ==
    CASE p = "key-storage" -> e["key_storage_type"]
      [] p = "key-file" /\ e["key_storage_type"] = "FILE" -> OrEmpty(e["key_storage_location"])
      [] p = "key-database" /\ e["key_storage_type"] = "NSSDB" -> OrEmpty(e["key_storage_location"])
      [] p = "key-nickname" /\ e["key_storage_type"] = "NSSDB" -> OrEmpty(e["key_nickname"])
      [] p = "key-token" /\ e["key_storage_type"] = "NSSDB" -> OrEmpty(e["key_token"])
      [] OTHER -> Empty

Stuck == {"NEED_KEYINFO_READ_TOKEN", "NEED_KEYINFO_READ_PIN", "NEED_KEY_GEN_PERMS",
    "NEED_KEY_GEN_TOKEN", "NEED_KEY_GEN_PIN", "NEED_CSR_GEN_TOKEN", "NEED_CSR_GEN_PIN",
    "NEED_SCEP_GEN_TOKEN", "NEED_SCEP_GEN_PIN", "NEED_SCEP_ENCRYPTION_CERT",
    "NEED_SCEP_RSA_CLIENT_KEY", "NEWLY_ADDED_NEED_KEYINFO_READ_TOKEN",
    "NEWLY_ADDED_NEED_KEYINFO_READ_PIN", "NEED_CA_CERT_SAVE_PERMS", "NEED_CERTSAVE_PERMS",
    "NEED_CERTSAVE_TOKEN", "NEED_CERTSAVE_PIN", "NEED_ONLY_CA_CERT_SAVE_PERMS", "NEED_GUIDANCE",
    "NEED_CA", "CA_REJECTED", "CA_UNCONFIGURED"}

KeyType(e) == IF e["key_type"] = "UNSPECIFIED" THEN Empty ELSE e["key_type"]
KeySize(e) == IF e["key_type"] = "UNSPECIFIED" THEN 0 ELSE e["key_size"]

\* The value of a computed property.  No request has a way of being notified of
\* its own, and the path of a CA is that of the one with the request's nickname
\* for it.
Computed(e, p) ==
    CASE p \in DOMAIN SecretProperties -> OrEmpty(e[SecretProperties[p]])
      [] p \in Notifications -> Empty
      [] p \in CertLocations -> CertLocation(e, p)
      [] p \in KeyLocations -> KeyLocation(e, p)
      [] p = "key-type" -> KeyType(e)
      [] p = "key-size" -> KeySize(e)
      [] p = "status" -> e["state"]
      [] p = "stuck" -> e["state"] \in Stuck
      [] p = "ca" -> OrEmpty(e["ca_name"])
      [] p \in DOMAIN ComputedLists -> e[ComputedLists[p]]
      [] p = "key-issued-count" -> e["key_issued_count"]
      [] p = "template-ca-path-length" ->
            IF e["template_is_ca"] # 0 THEN e["template_ca_path_length"] ELSE -1
      [] p = "template-is-ca" -> e["template_is_ca"] # 0
      [] p = "autorenew" -> e["autorenew"] # 0
      [] OTHER -> e["monitor"] # 0   \* monitoring

Raw(e, p) == IF p \in Stored THEN e[Fields[p]] ELSE Computed(e, p)

\* The fields that a property is made of.
FieldsOf(p) ==
    CASE p \in Stored -> {Fields[p]}
      [] p \in DOMAIN SecretProperties -> {SecretProperties[p]}
      [] p \in Notifications -> {}
      [] p \in CertLocations -> {"cert_storage_type", "cert_storage_location", "cert_nickname", "cert_token"}
      [] p \in KeyLocations -> {"key_storage_type", "key_storage_location", "key_nickname", "key_token"}
      [] p \in {"key-type", "key-size"} -> {"key_type", "key_size"}
      [] p \in {"status", "stuck"} -> {"state"}
      [] p = "ca" -> {"ca_name"}
      [] p \in DOMAIN ComputedLists -> {ComputedLists[p]}
      [] p = "key-issued-count" -> {"key_issued_count"}
      [] p \in {"template-is-ca", "template-ca-path-length"} -> {"template_is_ca", "template_ca_path_length"}
      [] p = "autorenew" -> {"autorenew"}
      [] OTHER -> {"monitor"}   \* monitoring

\* A property that is shown: not a text or a list that there is not, nor a list
\* without members or an empty path.
Shown(e, p) ==
    /\ Type(p) \in {"text", "list"} => Raw(e, p) # None
    /\ Type(p) = "list" \/ p = "ca" => Raw(e, p) # Empty
GetAll(e) == [p \in {q \in Properties : Shown(e, q)} |-> Raw(e, p)]

\* Get sends a list in any case.
Get(e, p) == IF Type(p) = "list" THEN OrEmpty(Raw(e, p)) ELSE IF Shown(e, p) THEN Raw(e, p) ELSE None

(***************************************************************************)
(* Announcing                                                              *)
(***************************************************************************)
\* By name, after a client's change; or what differs from an older copy, with
\* nothing for what is gone.
Announced(e, names) == [p \in {q \in Properties \cap names : Shown(e, q)} |-> Raw(e, p)]

Changes_OnlyTexts(old, e) == {p \in Properties : Type(p) = "text" /\ Raw(old, p) # Raw(e, p)}

Changes(old, e) == {p \in Properties : Raw(old, p) # Raw(e, p)}

\* Two lists are the same for an announcement.
compare_strv_Prefix(a, b) == \A i \in DOMAIN a : \E j \in DOMAIN b : a[i] = b[j]

compare_strv(a, b) == Len(a) = Len(b) /\ \A i \in DOMAIN a : \E j \in DOMAIN b : a[i] = b[j]

(***************************************************************************)
(* Setting a property                                                      *)
(***************************************************************************)
Kept(v) == IF v = Empty THEN None ELSE v   \* maybe_strdup, maybe_strdupv

\* The PIN and its file, and the challenge password and its file, stand for each other.
OtherSecret == Table({<<"key-pin", "key-pin-file">>, <<"key-pin-file", "key-pin">>,
    <<"template-challenge-password", "template-challenge-password-file">>,
    <<"template-challenge-password-file", "template-challenge-password">>})
WithSecret_Both(e, p, v) == [e EXCEPT ![SecretProperties[p]] = Kept(v)]

WithSecret(e, p, v) ==
    [e EXCEPT ![SecretProperties[p]] = Kept(v),
              ![SecretProperties[OtherSecret[p]]] = IF Kept(v) # None THEN None ELSE @]

Unset(type) == IF type = "number" THEN 0 ELSE None

SetTo_SkipsEmpty(e, p, v) ==
    IF Kept(v) = None THEN e
    ELSE IF p \in DOMAIN SecretProperties THEN WithSecret(e, p, v) ELSE [e EXCEPT ![Fields[p]] = v]

SetTo(e, p, v) ==
    IF p \in DOMAIN SecretProperties THEN WithSecret(e, p, v) ELSE [e EXCEPT ![Fields[p]] = Kept(v)]

\* What a setter announces of its own.
AlsoChanged_Nothing(p, v) == {}

AlsoChanged(p, v) == IF p \in DOMAIN SecretProperties /\ Kept(v) # None THEN {OtherSecret[p]} ELSE {}

\* A value of no type unsets the property, one of a wrong type is not replied to.
Given(p, type, v) == IF type = "none" THEN Unset(Type(p)) ELSE v
Set(e, p, type, v) ==
    LET given == Given(p, type, v) IN
    IF p \in Writable /\ type \in {Type(p), "none"}
    THEN [ok |-> TRUE, entry |-> SetTo(e, p, given), announced |-> {p} \cup AlsoChanged(p, given)]
    ELSE [ok |-> FALSE, entry |-> e, announced |-> {}]

(***************************************************************************)
(* "modify"                                                                *)
(***************************************************************************)
\* Parameters by their names as properties, and where two of them go.
ModifiedFields_SwapsEKU == Over(
    Table({<<"ca-profile", "template_profile">>, <<"monitoring", "monitor">>,
           <<"autorenew", "autorenew">>, <<"ca", "ca_name">>, <<"template-eku", "template_principal">>,
           <<"template-is-ca", "template_is_ca">>, <<"template-ca-path-length", "template_ca_path_length">>}),
    Fields)

ModifiedFields == Over(
    Table({<<"ca-profile", "template_profile">>, <<"other-cert-files", "other_cert_dbs">>,
           <<"monitoring", "monitor">>, <<"autorenew", "autorenew">>, <<"ca", "ca_name">>,
           <<"template-is-ca", "template_is_ca">>, <<"template-ca-path-length", "template_ca_path_length">>}),
    Fields)
ModifyParameters ==
    {"key-type", "key-size", "autorenew", "monitoring", "ca", "ca-profile", "nickname",
     "cert-presave-command", "cert-postsave-command", "root-cert-files", "root-other-cert-files",
     "other-cert-files", "root-cert-nssdbs", "root-other-cert-nssdbs", "other-cert-nssdbs",
     "template-is-ca", "template-ca-path-length"}
    \cup (Writable \ {"template-freshest-crl", "template-ns-certtype"})

KeyAlgorithms == {"RSA", "DSA", "EC"}
\* "invalid" is a bad specifier of a template or a path that is not absolute; a
\* list without members arrives without a type (Messages).
Accepts(p, v) ==
    /\ p \in ModifyParameters
    /\ Type(p) = "list" => v # Empty
    /\ p = "key-type" => v \in KeyAlgorithms
    /\ p \in {"key-pin-file", "template-challenge-password-file", "template-ms-certificate-template"}
          => v # "invalid"

\* These are copied even if they are empty.
CopiedEmpty == {"cert-owner", "key-owner", "nss-user", "ca-profile", "nickname"}

WithCommand(e, command, user, v, uid) ==
    [e EXCEPT ![command] = Kept(v), ![user] = IF Kept(v) = None THEN None ELSE uid]
WithPresave(e, v, uid) == WithCommand(e, "pre_certsave_command", "pre_certsave_uid", v, uid)
WithPostsave(e, v, uid) == WithCommand(e, "post_certsave_command", "post_certsave_uid", v, uid)

Number(truth) == IF truth THEN 1 ELSE 0

Modified_KeepsDER(e, p, v, uid) ==
    IF p \in DOMAIN SecretProperties THEN WithSecret(e, p, v)
    ELSE [e EXCEPT ![ModifiedFields[p]] = IF p \in Truths THEN Number(v) ELSE Kept(v)]

\* The DER form of the subject is preferred if it is left.
Modified(e, p, v, uid) ==
    CASE p = "key-type" -> [e EXCEPT !["key_gen_type"] = v, !["key_next_gen_type"] = v]
      [] p = "key-size" -> [e EXCEPT !["key_gen_size"] = v, !["key_next_gen_size"] = v]
      [] p \in DOMAIN SecretProperties -> WithSecret(e, p, v)
      [] p = "cert-presave-command" -> WithPresave(e, v, uid)
      [] p = "cert-postsave-command" -> WithPostsave(e, v, uid)
      [] p = "template-subject" -> [e EXCEPT !["template_subject"] = Kept(v), !["template_subject_der"] = None]
      [] p \in CopiedEmpty -> [e EXCEPT ![ModifiedFields[p]] = v]
      [] p \in Truths -> [e EXCEPT ![ModifiedFields[p]] = Number(v)]
      [] OTHER -> [e EXCEPT ![ModifiedFields[p]] = Kept(v)]

AnnouncedFor(p) == {p} \cup (IF p = "cert-presave-command" THEN {"cert-presave-uid"}
                             ELSE IF p = "cert-postsave-command" THEN {"cert-postsave-uid"} ELSE {})

\* The first n parameters, one after the other.
ModifiedBy(e, params, n, uid) ==
    LET after[i \in 0..Len(params)] ==
            IF i = 0 THEN e ELSE Modified(after[i - 1], params[i][1], params[i][2], uid)
    IN  after[n]

\* Parameters are pairs.  A nickname in use and an unknown CA are noticed first;
\* another one that is not accepted only after those before it were applied.  That
\* more than a thousand names, which takes repetitions, are not all announced is
\* left out.
Modify(e, params, used, cas, uid) ==
    LET known == \A i \in DOMAIN params :
                    /\ params[i][1] = "nickname" => params[i][2] \notin used
                    /\ params[i][1] = "ca" => params[i][2] \in cas
        good == {i \in 0..Len(params) : \A j \in 1..i : Accepts(params[j][1], params[j][2])}
        applied == IF known THEN CHOOSE i \in good : \A j \in good : j <= i ELSE 0
        ok == known /\ applied = Len(params)
    IN  [ok |-> ok, applied |-> applied, entry |-> ModifiedBy(e, params, applied, uid),
         announced |-> IF ok THEN UNION {AnnouncedFor(params[i][1]) : i \in DOMAIN params} ELSE {}]

(***************************************************************************)
(* "add_request"                                                           *)
(***************************************************************************)
\* Here files of other certificates have their own field.  The fields that a
\* parameter's text, list or number is copied to:
AddedField_Hostname(p) == IF p = "template-email" THEN "template_hostname" ELSE ModifiedFields[p]

AddedField(p) == IF p = "other-cert-files" THEN "other_cert_files" ELSE ModifiedFields[p]

AddedSpecially == DOMAIN SecretProperties
    \cup {"key-type", "key-size", "ca-profile", "cert-presave-command", "cert-postsave-command"}

\* What is in a file outweighs what is given as it is.
AddedSecrets(params, e) ==
    LET with(x, p) == IF p \in DOMAIN params /\ Kept(params[p]) # None THEN WithSecret(x, p, params[p])
                      ELSE x
    IN  with(with(with(with(e, "key-pin"), "key-pin-file"), "template-challenge-password"),
             "template-challenge-password-file")
AddedCommands(params, uid, e) ==
    LET before == IF "cert-presave-command" \in DOMAIN params
                  THEN WithPresave(e, params["cert-presave-command"], uid) ELSE e
    IN  IF "cert-postsave-command" \in DOMAIN params
        THEN WithPostsave(before, params["cert-postsave-command"], uid) ELSE before

\* The request of a function of parameters.  Keys have a least size, and the
\* preferences give what is not among the parameters.
AddRequest(params, prefs, uid) ==
    LET given(p, v) == IF p \in DOMAIN params THEN params[p] ELSE v
        size == given("key-size", prefs.size)
        copied == {p \in DOMAIN params : p \notin AddedSpecially}
        values == [f \in {AddedField(p) : p \in copied} |->
                      LET p == CHOOSE q \in copied : AddedField(q) = f
                      IN  IF p \in Truths THEN Number(params[p]) ELSE Kept(params[p])]
        least == IF size < prefs.least THEN prefs.least ELSE size
        new == [NewEntry EXCEPT
            !["key_gen_type"] = given("key-type", prefs.type), !["key_gen_size"] = least,
            !["key_next_gen_type"] = given("key-type", prefs.type), !["key_next_gen_size"] = least,
            !["autorenew"] = prefs.autorenew, !["monitor"] = prefs.monitor, !["state"] = "NEWLY_ADDED",
            !["template_profile"] = Kept(given("ca-profile", None)), !["template_ca_path_length"] = 0]
    IN  AddedCommands(params, uid, AddedSecrets(params, Over(values, new)))

(***************************************************************************)
(* The older methods                                                       *)
(***************************************************************************)
\* What get_cert_info, get_csr_info and the methods for single fields return,
\* under the names of the properties that have made them redundant.
MethodFields_NotAfter == Table({<<"nickname", "id">>, <<"cert", "cert">>, <<"issuer", "cert_issuer">>,
    <<"not-valid-after", "cert_not_before">>})

MethodFields == Table(CertTexts \cup CertListProperties \cup {<<"nickname", "id">>, <<"csr", "csr">>,
    <<"ca", "ca_name">>, <<"not-valid-after", "cert_not_after">>, <<"not-valid-before", "cert_not_before">>,
    <<"last-checked", "submitted">>, <<"submitted-date", "submitted">>, <<"key-pin", "key_pin">>,
    <<"key-pin-file", "key_pin_file">>, <<"key-size", "key_size">>, <<"ca-error", "ca_error">>,
    <<"ca-cookie", "ca_cookie">>, <<"status", "state">>})
CSRFields == Table({<<"template-subject", "template_subject">>, <<"template-email", "template_email">>,
    <<"template-hostname", "template_hostname">>, <<"template-principal", "template_principal">>,
    <<"template-ku", "template_ku">>, <<"template-eku", "template_eku">>})

\* The type of storage decides how many values there are.
StorageInfo(e, what) ==
    LET v(f) == e[what \o f] IN
    CASE v("_storage_type") = "NONE" -> <<"NONE">>
      [] v("_storage_type") = "FILE" -> <<"FILE", OrEmpty(v("_storage_location"))>>
      [] v("_storage_type") = "NSSDB" ->
            <<"NSSDB", OrEmpty(v("_storage_location"))>>
            \o (IF v("_token") # None THEN <<OrEmpty(v("_nickname")), v("_token")>>
                ELSE IF v("_nickname") # None THEN <<v("_nickname")>> ELSE <<>>)

MethodTruths(e) == [autorenew |-> e["autorenew"] # 0, monitoring |-> e["monitor"] # 0,
                    stuck |-> e["state"] \in Stuck]
MethodKeyType(e) == IF e["key_type"] = "UNSPECIFIED" THEN "UNKNOWN" ELSE e["key_type"]
MethodNotification(prefs) == prefs.notification

(***************************************************************************)
(* The properties of a CA                                                  *)
(***************************************************************************)
CAShown == {<<"nickname", "id">>, <<"aka", "ca_aka">>, <<"default-profile", "ca_default_profile">>,
    <<"ca-presave-command", "ca_pre_save_command">>, <<"ca-presave-uid", "ca_pre_save_uid">>,
    <<"ca-postsave-command", "ca_post_save_command">>, <<"ca-postsave-uid", "ca_post_save_uid">>,
    <<"scep-ra-cert", "ca_encryption_cert">>, <<"scep-ca-cert", "ca_encryption_issuer_cert">>,
    <<"scep-other-certs", "ca_encryption_cert_pool">>, <<"issuer-names", "ca_issuer_names">>,
    <<"supported-profiles", "ca_profiles">>, <<"scep-ca-capabilities", "ca_capabilities">>,
    <<"required-enroll-attributes", "ca_required_enroll_attributes">>,
    <<"required-renew-attributes", "ca_required_renewal_attributes">>}
CAPlaces == {<<"root-cert-files", "ca_root_cert_files">>,
    <<"root-other-cert-files", "ca_other_root_cert_files">>, <<"other-cert-files", "ca_other_cert_files">>,
    <<"root-cert-nssdbs", "ca_root_cert_dbs">>, <<"root-other-cert-nssdbs", "ca_other_root_cert_dbs">>,
    <<"other-cert-nssdbs", "ca_other_cert_dbs">>}
CACerts == {<<"root-certs", "ca_root_certs">>, <<"root-other-certs", "ca_other_root_certs">>,
    <<"other-certs", "ca_other_certs">>}
CAHelper == {<<"external-helper", "ca_external_helper">>, <<"scep-cipher", "scep_cipher">>,
    <<"scep-digest", "scep_digest">>, <<"scep-ca-identifier", "scep_ca_identifier">>}
CAFieldOf == Table(CAShown \cup CAPlaces \cup CACerts \cup CAHelper \cup {<<"is-default", "ca_is_default">>})
CAWritable == Named(CAPlaces) \cup Named(CAHelper) \cup {"is-default"}

\* The name that was asked for is a property's under its exact spelling or under
\* another one, which the functions that compute a value do not know.
GetCA(c, p, exact) ==
    CASE p \in Named(CAShown) \cup Named(CAPlaces) -> c[CAFieldOf[p]]
      [] p \in Named(CACerts) -> IF exact THEN c[CAFieldOf[p]] ELSE None
      [] p = "is-default" -> exact /\ c["ca_is_default"] # 0
      [] OTHER ->   \* of CAHelper
            IF ~exact THEN None ELSE IF c["ca_type"] # External THEN Empty ELSE OrEmpty(c[CAFieldOf[p]])

SetCA_AnyType(c, p, v, exact) ==
    IF p \in CAWritable /\ exact THEN [c EXCEPT ![CAFieldOf[p]] = IF p = "is-default" THEN Number(v) ELSE v] ELSE c

SetCA(c, p, v, exact) ==
    CASE p \in Named(CAPlaces) -> [c EXCEPT ![CAFieldOf[p]] = Kept(v)]
      [] p = "is-default" /\ exact -> [c EXCEPT !["ca_is_default"] = Number(v)]
      [] p \in Named(CAHelper) /\ exact /\ c["ca_type"] = External -> [c EXCEPT ![CAFieldOf[p]] = v]
      [] OTHER -> c

\* A CA with another helper or other parameters for it is asked for everything again.
RestartsCA(c, p, exact) == exact /\ p \in Named(CAHelper) /\ c["ca_type"] = External
-----------------------------------------------------------------------------
(* Properties *)

\* What is set on a CA is what is read, and nothing else changes; a helper is not
\* given to an internal CA; and if the helper may answer differently, every
\* phase of the CA starts again.
CASetReads(c, new, p, v, exact) ==
    LET helper == p \in Named(CAHelper)
        can == p \in Named(CAPlaces) \/ (exact /\ (p = "is-default" \/ (helper /\ c["ca_type"] = External)))
    IN  /\ ~can => new = c
        /\ can => OrEmpty(GetCA(new, p, TRUE)) = OrEmpty(v)
        /\ \A q \in DOMAIN CAFieldOf \ {p} : GetCA(new, q, TRUE) = GetCA(c, q, TRUE)
        /\ (\E q \in Named(CAHelper) : GetCA(new, q, TRUE) # GetCA(c, q, TRUE)) => RestartsCA(c, p, exact)

\* Spellings of one name never mean another one: all names of properties start
\* with a small letter and have only small letters and single dashes.
SpellingsToldApart(n, m, spelling) ==
    cm_name_cmp(spelling, n) /\ cm_name_cmp(spelling, m) =>
        Len(n) = Len(m) /\ \A i \in DOMAIN n : n[i] = m[i] \/ {n[i], m[i]} = Dash

\* Two lists without repetitions are the same if they have the same members.
Distinct(a) == \A i, j \in DOMAIN a : a[i] = a[j] => i = j
ListsToldApart(a, b) ==
    Distinct(a) /\ Distinct(b) => (compare_strv(a, b) <=> {a[i] : i \in DOMAIN a} = {b[i] : i \in DOMAIN b})

\* A property that was set has the value, and no other one changes, but for the
\* secret that the one that was set stands for.
SetReads(e, new, p, type, v, ok) ==
    IF ok THEN /\ OrEmpty(Get(new, p)) = OrEmpty(Given(p, type, v))
               /\ \A q \in Properties \ ({p} \cup AlsoChanged(p, Given(p, type, v))) : Get(new, q) = Get(e, q)
    ELSE new = e

\* A change by modify of one of these shows in a property that is not announced.
Silently(p) ==
    CASE p = "ca-profile" -> {"template-profile"} [] p = "other-cert-files" -> {"other-cert-nssdbs"}
      [] p \in DOMAIN SecretProperties -> {OtherSecret[p]}
      [] p = "template-is-ca" -> {"template-ca-path-length"} [] OTHER -> {}

\* What modify changed can be read back under the same name, but for these: the
\* type and size of the key that there is are not those of the next one.
ReadElsewhere(e) == {"key-type", "key-size", "ca-profile", "other-cert-files"}
    \cup (IF e["template_is_ca"] = 0 THEN {"template-ca-path-length"} ELSE {})
ModifyReads(new, params) ==
    \A i \in DOMAIN params :
        LET p == params[i][1] IN
        \/ p \in ReadElsewhere(new)
        \/ \E j \in i + 1..Len(params) : p \in {params[j][1]} \cup Silently(params[j][1])
        \/ OrEmpty(Get(new, p)) = OrEmpty(params[i][2])

\* At any time at most one of a secret and the file that it is in is known.
SecretsExclusive(e) ==
    \A p \in DOMAIN SecretProperties :
        e[SecretProperties[p]] = None \/ e[SecretProperties[OtherSecret[p]]] = None

\* Whoever changes the subject gets it: the older DER form is gone.
SubjectIsGiven(e, new) ==
    new["template_subject"] # e["template_subject"] => new["template_subject_der"] = None

\* A request that is added with a parameter is the one that is added without it
\* and then modified, but for files of other certificates, the least size of
\* keys, texts that are empty, and two parameters that stand for each other.
Rivals(P) == {"ca-profile", "template-profile"} = P
             \/ \E p \in P \cap DOMAIN SecretProperties : OtherSecret[p] \in P
AddIsModify(params, p, prefs, uid) ==
    LET without == AddRequest([q \in DOMAIN params \ {p} |-> params[q]], prefs, uid)
        r == Modify(without, <<<<p, params[p]>>>>, {"used"}, {"x"}, uid)
    IN  r.ok /\ p # "other-cert-files" /\ ~Rivals(DOMAIN params) /\ (p = "key-size" => params[p] >= prefs.least) =>
            Copied(r.entry) = AddRequest(params, prefs, uid)

\* The older methods return what the properties show, but for the time of the
\* last check, the type of a key that there is none of, and the preferences for notifying.
MethodsSame(e, prefs) ==
    /\ \A p \in DOMAIN MethodFields \ {"last-checked"} : 
          \/ p = "key-size" /\ e["key_type"] = "UNSPECIFIED"
          \/ OrEmpty(e[MethodFields[p]]) = OrEmpty(Get(e, p))
    /\ \A p \in DOMAIN CSRFields : e["csr"] # None => OrEmpty(e[CSRFields[p]]) = OrEmpty(Get(e, p))
    /\ \A p \in DOMAIN MethodTruths(e) : MethodTruths(e)[p] = Get(e, p)
    /\ MethodKeyType(e) = Get(e, "key-type") \/ MethodKeyType(e) = "UNKNOWN"
    /\ \A what \in {"cert", "key"} :
          LET info == StorageInfo(e, what)
              file == Get(e, what \o "-file")
              db == Get(e, what \o "-database")
              shown == <<Get(e, what \o "-storage")>>
                       \o (CASE info[1] = "NONE" -> <<>>
                             [] info[1] = "FILE" -> <<file>>
                             [] info[1] = "NSSDB" -> <<db, Get(e, what \o "-nickname"), Get(e, what \o "-token")>>)
          IN  \A i \in DOMAIN shown : IF i \in DOMAIN info THEN info[i] = shown[i] ELSE shown[i] = Empty
=============================================================================
