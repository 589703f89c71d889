----------------------------- MODULE MCRecords -----------------------------
(* A full request, changed twice by any two of the steps; requests that    *)
(* differ in one field from a new one, changed once if others depend on    *)
(* the field; and CAs of both types.                                       *)
EXTENDS Records

MCTexts == {FirstSerial, "x"}
MCQuantities == {-1, 0, 1, 3}

FullEntry == [f \in EntryFields |->
    CASE f \in Numbers -> 3 [] f \in KeyTypes -> "EC" [] f \in {"key_pin", "template_challenge_password"} -> None
      [] f \in {"key_storage_type", "cert_storage_type"} -> "NSSDB" [] f = "state" -> "CA_REJECTED" [] OTHER -> "x"]
FullCA(type) == [f \in CAFields |->
    CASE f = "ca_type" -> type [] f \in CANumbers -> 3 [] f = "force_issue_time" -> 1 [] OTHER -> "x"]
Needed == Pins \cup KeyNextNumbers \cup Checks
          \cup {"key_next_marker", "template_ca_path_length", "root_cert_dbs", "other_cert_dbs"}
FewValues(f) == IF f = "state" THEN {"SAVING_CERT", "NEED_CA"} ELSE RequestValues(f)
NewBut(f) == {[NewEntry EXCEPT ![f] = v, !["state"] = IF f = "state" THEN v ELSE "NEWLY_ADDED"] : v \in FewValues(f)}
MCFirstRequests ==
    {<<FullEntry, 2>>} \cup ((UNION {NewBut(f) : f \in Needed}) \X {1}) \cup ((UNION {NewBut(f) : f \in EntryFields}) \X {0})
MCFirstCAs == {FullCA(Internal)}

One(f, v) == [x \in {f} |-> v]
MCVisits == {One(f, None) : f \in {"template_challenge_password_file", "ca_cookie", "cert"}}
    \cup {One(f, v) : f \in {"csr", "ca_name", "cert_chain", "template_subject", "cert_owner"}, v \in {FirstSerial, Empty}}
    \cup {One(f, 0) : f \in {"cert_not_after", "key_size", "key_next_requested_count", "template_is_ca"}}
    \cup {One("state", v) : v \in {"MONITORING", "SAVING_CERT"}} \cup {One("key_type", "UNSPECIFIED")}
MCCAChanges == {One(f, v) : f \in {"ca_internal_serial", "ca_external_helper"}, v \in {None, Empty, FirstSerial}}
    \cup {One("ca_type", t) : t \in {Internal, External}} \cup {One("ca_internal_issue_time", 0), One("force_issue_time", 0)}
MCStarts == {[read |-> [f \in {"key_size", "cert_subject"} |-> IF f = "key_size" THEN 1 ELSE None],
              visit |-> [f \in {"last_need_notify_check", "state"} |-> IF f = "state" THEN "NEED_CSR" ELSE 1]]}

New(p) == CASE Type(p) = "truth" -> FALSE [] Type(p) = "number" -> 1 [] OTHER -> FirstSerial
Emptied == {"key-pin", "template-challenge-password-file", "template-subject", "template-eku", "cert-owner"}
MCSettings ==
    {[name |-> p, type |-> Type(p), value |-> New(p)] : p \in Writable}
    \cup {[name |-> p, type |-> Type(p), value |-> Empty] : p \in Emptied}
    \cup {[name |-> p, type |-> "none", value |-> New(p)] : p \in {"key-perms", "key-pin-file", "template-eku", "nickname"}}
    \cup {[name |-> "key-pin", type |-> "number", value |-> "x"]}
MCCASettings ==
    {[name |-> p, value |-> FirstSerial, exact |-> TRUE] : p \in (CAWritable \ {"is-default"}) \cup {"nickname"}}
    \cup {[name |-> p, value |-> Empty, exact |-> e] : p \in {"external-helper", "root-cert-files"}, e \in BOOLEAN}
    \cup {[name |-> "is-default", value |-> FALSE, exact |-> e] : e \in BOOLEAN}
Followed == {<<"key-pin", "x">>, <<"template-challenge-password-file", "x">>, <<"template-profile", "x">>,
             <<"key-type", "RSA">>, <<"key-type", "x">>, <<"unknown", "x">>}
MCModifications == {<<<<p, New(p)>>>> : p \in ModifyParameters \ {"key-type"}} \cup {<<<<p, Empty>>>> : p \in Emptied}
    \cup {<<<<p, FirstSerial>>, y>> : p \in {"key-pin-file", "template-challenge-password", "ca-profile"}, y \in Followed}
    \cup {<<<<"template-ca-path-length", 1>>, <<"template-is-ca", FALSE>>>>, <<<<"template-is-ca", TRUE>>, <<"ca", "x">>>>,
           <<<<"cert-owner", "x">>, <<"nickname", "x">>>>}
=============================================================================
