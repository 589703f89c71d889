------------------------------- MODULE Records -------------------------------
(***************************************************************************)
(* A request and a CA in the daemon's memory, and what a client of the bus *)
(* knows of the request.  Clients set properties and modify the request    *)
(* (tdbush.c), the daemon goes on with it and announces what changed       *)
(* (iterate.c), requests are restarted, which nobody announces, and now    *)
(* and then the daemon is, and has what the files have (store-files.c).    *)
(* That the files themselves are whole is FileStore's affair, and which    *)
(* state a request is in that of EntryIterate.                             *)
(***************************************************************************)
EXTENDS RequestInterface, EntryStates

CONSTANTS
    Texts, Quantities,      \* values of fields that are texts or lists, and of numbers
    Uid,                    \* the client's
    Used, CAs,              \* nicknames of other requests, and those of CAs
    FirstRequests,          \* requests to begin with, and how many changes to each are
    FirstCAs,               \* modelled (bound): pairs; and CAs
    Visits, CAChanges,      \* changes by a visit to the request and to the CA, functions of fields
    Starts,                 \* what is read at a start, and changed by the visit after it
    Settings,               \* what clients set: a property's name, a type and a value
    CASettings,             \* the same of a CA: a name, a value and whether it is spelt exactly
    Modifications           \* sequences of parameters

Algorithms == {"RSA", "DSA", "EC", "UNSPECIFIED"}
Storages == {"NONE", "FILE", "NSSDB"}

\* What a field can be.  Whatever sets the name of a PIN file or the marker of a
\* next key turns a string without text into none.
RequestValues(f) ==
    IF f \in Numbers THEN Quantities
    ELSE IF f \in KeyTypes THEN Algorithms
    ELSE IF f \in {"key_storage_type", "cert_storage_type"} THEN Storages
    ELSE IF f = "state" THEN States \cup {None}
    ELSE IF f \in {"key_pin_file", "key_next_marker"} THEN Texts \cup {None}
    ELSE Texts \cup {None, Empty}
CAValues(f) ==
    IF f \in CANumbers THEN Quantities
    ELSE IF f = "force_issue_time" THEN {0, 1}
    ELSE IF f = "ca_type" THEN {Internal, External}
    ELSE Texts \cup {None, Empty}
IsRequest(e) == DOMAIN e = EntryFields /\ \A f \in EntryFields : e[f] \in RequestValues(f)
IsCA(c) == DOMAIN c = CAFields /\ \A f \in CAFields : c[f] \in CAValues(f)

\* What reading the key and the certificate tells of them.
ReadFields ==
    {"key_type", "key_size", "key_gen_type", "key_gen_size", "key_pubkey", "key_pubkey_info", "key_token",
     "key_next_type", "key_next_size", "key_next_pubkey", "key_next_pubkey_info", "cert"}
    \cup (CertFields \ {"cert_storage_type", "cert_storage_location", "cert_nickname", "cert_owner", "cert_perms"})

\* Only clients change these; the daemon at most forgets a challenge password.
ClientFields == {place[2] : place \in PlaceLists} \cup Pins
Challenge == {"template_challenge_password", "template_challenge_password_file"}
IsChange(v, fields) ==
    DOMAIN v \subseteq fields /\ \A f \in DOMAIN v : v[f] \in RequestValues(f) /\ (f \in Challenge => v[f] = None)

\* What a client can send for a property or parameter.
BusValues(p) ==
    IF p \in Truths THEN BOOLEAN
    ELSE IF p = "key-type" THEN Texts \cup KeyAlgorithms
    ELSE IF p \in TextNames \cup ListNames THEN Texts \cup {Empty} ELSE Quantities

ASSUME NoTextAssumption ==
    /\ None # Empty
    /\ \A v \in {None, Empty} :
          /\ v \notin Quantities /\ v \notin {0, 1} /\ v \notin BOOLEAN
          /\ v \notin Texts \cup Algorithms \cup Storages \cup States \cup {Internal, External}
ASSUME ValuesAssumption ==
    /\ {-1, 0, 1} \subseteq Quantities /\ FirstSerial \in Texts /\ Uid \in Texts
    /\ \A x \in FirstRequests : IsRequest(x[1]) /\ SecretsExclusive(x[1])
    /\ \A c \in FirstCAs : IsCA(c)
ASSUME ChangesAssumption ==
    /\ \A v \in Visits : IsChange(v, EntryFields \ ClientFields)
    /\ \A v \in CAChanges : DOMAIN v \subseteq CAFields /\ \A f \in DOMAIN v : v[f] \in CAValues(f)
    /\ \A s \in Starts : IsChange(s.read, ReadFields) /\ IsChange(s.visit, Checks \cup {"state"})
ASSUME ClientsAssumption ==
    /\ \A s \in Settings : s.name \in Properties /\ s.value \in BusValues(s.name)
    /\ \A s \in CASettings : s.value \in (IF s.name = "is-default" THEN BOOLEAN ELSE Texts \cup {None, Empty})
    /\ \A params \in Modifications :
          /\ Len(params) \in Nat /\ DOMAIN params = 1..Len(params)
          /\ \A i \in DOMAIN params :
                params[i][1] \in Properties => params[i][2] \in BusValues(params[i][1])

VARIABLES
    request, ca,    \* in memory
    client,         \* what the client has heard of the request, and what has changed since
    asked,          \* what a client asked for in the last step, and if it was done
    left            \* changes that are still modelled
vars == <<request, ca, client, asked, left>>

Nothing == [of |-> "nothing"]

Init ==
    /\ \E x \in FirstRequests : request = x[1] /\ left = x[2]
    /\ ca \in FirstCAs
    /\ client = [known |-> GetAll(request), stale |-> {}]
    /\ asked = Nothing

\* The client hears of the properties that are announced of a request, and not
\* of others that were changed.
Heard(c, e, announced, others) ==
    [known |-> Over(Announced(e, announced), c.known),
     stale |-> (c.stale \cup others) \ DOMAIN Announced(e, announced)]

Count == left > 0 /\ left' = left - 1

\* A visit announces what it changed, by comparison with a copy.
Visited(e, visit) == Over(visit, e)
HeardOfVisit(c, e, visit) ==
    Heard(c, Visited(e, visit), Changes(cm_store_entry_dup(e), Visited(e, visit)), {})

Visit ==
    /\ Count
    /\ \E v \in Visits : request' = Visited(request, v) /\ client' = HeardOfVisit(client, request, v)
    /\ asked' = Nothing /\ UNCHANGED ca

\* A restart rewinds the state and reads the key and the certificate, and tells
\* nobody.  The first visit is part of it.
Rewound == {p \in Properties : FieldsOf(p) \cap (ReadFields \cup {"state"}) # {}}
Read(e, start) == Over(start.read, [e EXCEPT !["state"] = Reset(Reset(@))])
Started(e, start) == Visited(Read(e, start), start.visit)
HeardOfStart(c, e, start) ==
    HeardOfVisit(Heard(c, Read(e, start), {}, Rewound), Read(e, start), start.visit)

\* Also when the data of its CA were refreshed, or a route has changed.
RestartRequest ==
    /\ Count
    /\ \E s \in Starts : request' = Started(request, s) /\ client' = HeardOfStart(client, request, s)
    /\ asked' = Nothing /\ UNCHANGED ca

\* resubmit and rekey: the new state is announced, but then rewound.
Resubmit ==
    LET state == IF request["key_size"] = 0 \/ request["key_type"] # request["key_gen_type"]
                    \/ request["key_size"] # request["key_gen_size"]
                 THEN "NEED_KEY_PAIR" ELSE "NEED_CSR"
    IN  /\ Count
        /\ \E s \in Starts, to \in {state, "NEED_KEY_PAIR"} :
              LET e == [request EXCEPT !["state"] = to] IN
              /\ request' = Started(e, s)
              /\ client' = HeardOfStart(Heard(client, e, {"status"}, {"stuck"}), e, s)
        /\ asked' = Nothing /\ UNCHANGED ca

SetProperty ==
    /\ Count
    /\ \E s \in Settings :
          LET r == Set(request, s.name, s.type, s.value) IN
          /\ request' = r.entry
          /\ client' = Heard(client, r.entry, r.announced, {})
          /\ asked' = [of |-> "set", name |-> s.name, type |-> s.type, value |-> s.value, ok |-> r.ok]
    /\ UNCHANGED ca

\* A request that was modified is restarted; one that could not be keeps what was
\* changed before that was noticed.
Altered(params, n) ==
    UNION {AnnouncedFor(params[i][1]) \cup Silently(params[i][1]) : i \in 1..n}
ModifyRequest ==
    /\ Count
    /\ \E params \in Modifications, s \in Starts :
          LET r == Modify(request, params, Used, CAs, Uid)
              heard == Heard(client, r.entry, r.announced, Altered(params, r.applied))
          IN  /\ request' = IF r.ok THEN Started(r.entry, s) ELSE r.entry
              /\ client' = IF r.ok THEN HeardOfStart(heard, r.entry, s) ELSE heard
              /\ asked' = [of |-> "modify", params |-> params, ok |-> r.ok]
    /\ UNCHANGED ca

\* The client asks for everything.
AskAll ==
    /\ client' = [known |-> GetAll(request), stale |-> {}]
    /\ asked' = Nothing /\ UNCHANGED <<request, ca, left>>

SetCAProperty ==
    /\ Count
    /\ \E s \in CASettings :
          /\ ca' = SetCA(ca, s.name, s.value, s.exact)
          /\ asked' = [of |-> "ca", name |-> s.name, value |-> s.value, exact |-> s.exact]
    /\ UNCHANGED <<request, client>>

\* Whatever else becomes of a CA.
ChangeCA ==
    /\ Count
    /\ \E v \in CAChanges : ca' = Over(v, ca)
    /\ asked' = Nothing /\ UNCHANGED <<request, client>>

\* The daemon has what the files have and starts the request; clients that do not
\* notice know nothing for certain.
Restart ==
    /\ Count
    /\ \E s \in Starts : request' = Started(cm_store_entry_read(cm_store_entry_write(request)), s)
    /\ ca' = cm_store_ca_read(cm_store_ca_write(ca))
    /\ client' = [client EXCEPT !.stale = Properties]
    /\ asked' = Nothing

Next ==
    \/ Visit \/ RestartRequest \/ Resubmit \/ SetProperty \/ ModifyRequest \/ AskAll
    \/ SetCAProperty \/ ChangeCA \/ Restart
Spec == Init /\ [][Next]_vars

-----------------------------------------------------------------------------
\* Whatever a request is, it is the same after a restart, but for what its file
\* does not hold, also when the file is of an earlier version; a PIN from a PIN
\* file is never written; and the copy that changes are announced from differs
\* only by the two lists that cm_store_entry_dup mixes up.
RequestKept ==
    /\ EntryKept(request) /\ PinNotWritten(request) /\ DupSame(request)
    /\ \A text \in Texts, time \in Quantities : OldFileRead(request, text, time)

\* Requests and CAs survive restarts: a request as above (cm_store_entry_write,
\* cm_store_entry_read), and a CA without what only another type of CA has; the
\* serial number of an internal one, above all, does not start again
\* (cm_store_ca_write, cm_store_ca_read, cm_store_ca_dup).
RecordsAreKept == RequestKept /\ CAKept(ca)

\* Never are both a PIN or challenge password and a file with it kept, however
\* they were given (request_modify, request_prop_set_key_pin).
OneSecret == SecretsExclusive(request)

\* A client that asked for all properties once and then followed the announcements
\* knows what it would be told if it asked again, but for what a restart of the
\* request or a "modify" changed in silence since (cm_tdbush_property_emit_changed,
\* cm_tdbush_property_emit_entry_changes).
FollowersAreCurrent ==
    \A p \in Properties \ client.stale :
        Shown(request, p) => p \in DOMAIN client.known /\ client.known[p] = Raw(request, p)

\* What is set is what is read afterwards, of a request and of a CA, and nothing
\* else changes; a property of another type is not set (cm_tdbush_property_set).
SetIsRead ==
    [][/\ asked'.of = "set" => SetReads(request, request', asked'.name, asked'.type, asked'.value, asked'.ok)
       /\ asked'.of = "ca" => CASetReads(ca, ca', asked'.name, asked'.value, asked'.exact)]_vars

\* What a successful "modify" changed is read back under its name, but for the
\* parameters that are stored elsewhere, also after the restart; the subject is
\* the one that was asked for, not an older one in DER (request_modify).
ModifyIsRead ==
    [][asked'.of = "modify" =>
          /\ asked'.ok => ModifyReads(request', asked'.params)
          /\ SubjectIsGiven(request, request')]_vars
=============================================================================
