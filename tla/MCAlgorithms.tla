---------------------------- MODULE MCAlgorithms ----------------------------
(* Every bounded input of the functions without state, one per state; and  *)
(* what follows from one of them, when to look at a certificate, over time *)
(* (Monitoring).  A unit of time is the shortest time between two looks,   *)
(* half an hour or so: a certificate that lives seven of them and lists of *)
(* thresholds from two to five, of the same length and of different ones,  *)
(* are enough for each threshold to be crossed in both directions, alone   *)
(* and with others.                                                        *)
EXTENDS StoreText, RequestInterface, Monitoring

MCTtls == {[notify |-> <<3>>, enroll |-> <<5>>], [notify |-> <<5>>, enroll |-> <<2, 5>>],
           [notify |-> <<2, 5>>, enroll |-> <<3, 4>>]}

VARIABLES of, input

Bus == INSTANCE Messages
Client == INSTANCE Getcert
Bundle == INSTANCE Pkcs7

UpTo(n, S) == UNION {[1..k -> S] : k \in 0..n}
Cwd == <<"/", "d">>
Certs == {<<"a", End>>, <<"a", "b", End>>}

\* Values of the fields of requests.
EntryValues(f) == IF f \in Numbers THEN {3} ELSE IF f \in KeyTypes THEN {"EC"}
                  ELSE IF f = "key_pin_file" THEN {"x"}
                  ELSE IF f \in {"key_storage_type", "cert_storage_type"} THEN {"NSSDB"}
                  ELSE {Empty, "x"}
FullEntry == [f \in EntryFields |-> CHOOSE v \in EntryValues(f) : v # Empty]
Changed(x, f, v) == [x EXCEPT ![f] = v]

\* Requests that clients see and change: new and full ones, of both types of storage.
Prefs == [type |-> "RSA", size |-> 2, least |-> 2, autorenew |-> 1, monitor |-> 1, notification |-> "syslog"]
Seen ==
    LET full(c, k, t) == [FullEntry EXCEPT !["key_pin"] = None, !["template_challenge_password"] = None,
            !["state"] = "CA_REJECTED", !["cert_storage_type"] = c, !["key_storage_type"] = k, !["key_type"] = t,
            !["template_subject_der"] = "y"]
    IN  <<NewEntry, full("FILE", "FILE", "EC"), full("NSSDB", "NSSDB", "RSA"), full("FILE", "NONE", "UNSPECIFIED"),
          [full("NSSDB", "FILE", "EC") EXCEPT !["cert_nickname"] = None, !["cert_token"] = None, !["csr"] = None,
                !["autorenew"] = 0, !["template_is_ca"] = 0]>>
BusValues(p) == CASE p = "key-type" -> {"RSA", "x"} [] Type(p) = "number" -> {0, 1, 5} [] Type(p) = "truth" -> BOOLEAN
                  [] p = "nickname" -> {"x", "used"}
                  [] OTHER -> {Empty, "x", "z", "invalid"}
Usable(p) == IF Type(p) = "text" THEN BusValues(p) \ {"invalid"} ELSE BusValues(p)

\* The signatures that the daemon and getcert use, and values for them.
Signatures == {<<"b">>, <<"n">>, <<"o">>, <<"s">>, <<"b", "o">>, <<"b", "s">>, <<"s", "b">>, <<"s", "s">>,
    <<"ao">>, <<"ss">>, <<"as">>, <<"s", "s", "s">>, <<"s", "s", "b">>, <<"s", "s", "n">>, <<"s", "s", "s", "s">>,
    <<"s", "s", "as">>, <<"s", "s", "ss">>, <<"s", "s", "s", "as">>, <<"s", "as", "as", "as", "n", "as">>,
    <<"s", "s", "s", "n", "as", "as", "as", "n", "as">>, <<"s", "s", "s", "n", "as", "as", "as", "n", "as", "n">>}
ArgValues(type) == CASE type = "s" -> {None, Empty, "x"} [] type = "o" -> {"/x"} [] type = "b" -> BOOLEAN
                     [] type = "n" -> {-1, 1} [] OTHER -> {None, <<>>, <<"x">>}
RECURSIVE ValuesOf(_)
ValuesOf(signature) == IF signature = <<>> THEN {<<>>}
    ELSE {<<v>> \o vs : v \in ArgValues(Head(signature)), vs \in ValuesOf(Tail(signature))}
DictEntries == {"ca", "CA", "track"} \X ({<<"s", "x">>, <<"s", "y">>, <<"o", "/x">>, <<"b", TRUE>>, <<"n", 1>>}
                                         \cup {<<"as", l>> : l \in {<<>>, <<"x">>, <<"x", "x">>}})

\* Options of getcert with two values each, for a place that is tracked or not;
\* requests whose names and places differ by little.
OptionValues(opt) == CASE opt = "G" -> {"RSA", "EC"} [] opt = "g" -> {0, 5} [] opt = "u" -> {0, 1}
                       [] opt \in {"m", "M", "--ca-path-length"} -> {1, 5} [] opt = "c" -> {"x", "n"}
                       [] opt \in Client!Flags -> {Empty} [] OTHER -> {"x", "z"}
OptionPairs(command) == UNION {{opt} \X OptionValues(opt) : opt \in Client!OptionsOf[command]}
Partners == {"p", "P", "L", "r", "R", "D", "I", "c", "--for-ca", "--not-for-ca"}
InFile == <<<<"f", "f">>>>
InDatabase == <<<<"d", "e">>, <<"n", "e">>>>
Situations == {<<"request", 0, InFile>>, <<"request", 0, InDatabase>>, <<"start-tracking", 0, InFile>>,
    <<"start-tracking", 0, InDatabase>>, <<"start-tracking", 2, InFile>>, <<"resubmit", 3, <<>>>>}
Existing(e) == IF e = 0 THEN None ELSE Seen[e]
Places == {<<"FILE", "x", None, None>>} \cup ({"NSSDB"} \X {"x"} \X {"n", "m"} \X {None, "t"})
Requests == [name : {"n", "N"}, place : Places, status : {"MONITORING", "CA_WORKING"}, ca : {"x"}]
Words == {<<"i", "n">>, <<"d", "x">>, <<"n", "n">>, <<"t", "t">>, <<"t", "s">>, <<"f", "x">>, <<"c", "z">>}
Polled == {"MONITORING", "CA_WORKING", "NEED_GUIDANCE", "NEED_TO_SUBMIT", "GENERATING_CSR"}

\* Certificates of any three names, and trees of five in any order.
Trees == {up \in [1..5 -> 1..5] : \A i \in 1..5 : up[i] >= i}
Orders == {p \in [1..5 -> 1..5] : IsInjective(p)}
Cert(subject, issuer) == [subject |-> subject, issuer |-> issuer, encrypts |-> FALSE]
Bundles == UpTo(3, {Cert(s, i) : s, i \in 1..3})
           \cup {[i \in 1..5 |-> Cert(p[i], up[p[i]])] : p \in Orders, up \in Trees}

Inputs == {"string", "strings", "nickcerts", "path", "serial", "binary", "names", "lists", "add", "change", "message", "dictionary", "options", "requests", "polls", "bundle"}
Unwatched ==
    /\ now = 0 /\ due = 0 /\ entry = [state |-> None] /\ stored = None /\ config = None
    /\ told = {} /\ tried = {} /\ lost = FALSE
Init ==
    /\ input = None
    /\ \/ of = "certificate" /\ MonitoringInit
       \/ of \in Inputs /\ Unwatched

Take(x) == input' = x /\ UNCHANGED of

TakeInput ==
    /\ input = None
    /\ \/ of = "string" /\ \E s \in UpTo(6, {"a", " ", NL}) : Take(s)
       \/ of = "strings" /\ \E l \in UpTo(2, UpTo(3, {"a", "\\", ","})) : Take(l)
       \/ of = "nickcerts" /\ \E l \in UpTo(3, [nickname : {"n", "m", Blank}, cert : Certs]) : Take(l)
       \/ of = "path" /\ \E p \in UpTo(7, {"/", ".", "a"}) : Take(p)
       \/ of = "serial" /\ \E s \in UpTo(4, {0, 1, 7, 8, 9, 14, 15}) : Len(s) % 2 = 0 /\ Take(s)
       \/ of = "binary" /\ \E b \in UpTo(4, {0, 1, 63, 255}), n \in 0..5 : Take([bytes |-> b, room |-> n])
       \/ of = "names" /\ \E s \in UpTo(3, {"a", "A", "B", "-", "_"}) :
             \E n, m \in {t \in UpTo(4, {"a", "b", "-"}) : t # <<>> /\ t[1] # "-" /\ cm_name_cmp(s, t)} :
                n # m /\ Take(<<n, m, s>>)
       \/ of = "lists" /\ \E a, b \in UpTo(3, {"a", "b", "c"}) : Take(<<a, b>>)
       \/ of = "add" /\ \E p, q \in ModifyParameters : \E v \in Usable(p), w \in Usable(q) :
             Take(<<(p :> v) @@ (q :> w), p>>)
       \/ of = "change" /\ \E e \in DOMAIN Seen, f \in EntryFields : \E v \in {EntryDefault(f)} \cup EntryValues(f) :
             Take(<<e, f, v>>)
       \/ of = "message" /\ \E s \in Signatures : \E vs \in ValuesOf(s) : Take(<<s, vs>>)
       \/ of = "dictionary" /\ \E d \in UpTo(2, DictEntries) : \E cut \in 0..Len(d) : Take(<<d, cut>>)
       \/ of = "options" /\ \E s \in Situations : \E a \in OptionPairs(s[1]) : \E opt \in {a[1]} \cup (Partners \cap Client!OptionsOf[s[1]]) :
             Take(<<s[1], s[2], s[3] \o <<a, <<opt, CHOOSE v \in OptionValues(opt) : TRUE>>>>>>)
       \/ of = "requests" /\ \E rs \in UpTo(2, Requests), words \in UpTo(3, Words) : Take(<<rs, words>>)
       \/ of = "bundle" /\ \E b \in Bundles : Take(b)
       \/ of = "polls" /\ \E s \in UpTo(5, Polled), n \in {0, 1} : Take(<<s, n>>)

Next ==
    \/ TakeInput /\ UNCHANGED monitoringVars
    \/ of = "certificate" /\ MonitoringNext /\ UNCHANGED <<of, input>>

After == Changed(Seen[input[1]], input[2], input[3])

Taken(what) == of = what /\ input # None

Spec == Init /\ [][Next]_<<of, input, monitoringVars>>

\* What a line and its continuations hold comes back as it was written, but
\* for what the format cannot hold; so does a list of strings with commas and
\* backslashes in them, or of nicknames and certificates; hex and base64 give
\* the bytes back, no more than there is room for; and the serial number that
\* is kept next is one more, and positive in DER, at every carry
\* (cm_store_file_write_str, _read_lines, write_strs, free_if_empty_multi,
\* cm_store_hex_to_bin, cm_store_increment_serial, cm_store_serial_to_der).
ValuesAreKept ==
    /\ Taken("string") => StrKept(input)
    /\ Taken("strings") => StrsKept(input)
    /\ Taken("nickcerts") => NickcertsKept(input)
    /\ Taken("binary") => BinaryKept(input.bytes, input.room)
    /\ Taken("serial") => SerialNext(input)

\* A canonical path leads to where the path led, but for the spellings that
\* cm_store_canonicalize_path gets wrong: two requests are told apart by it.
PathsLeadThere == Taken("path") => PathKept(Cwd, input)

\* A parameter means to "modify" what it means to "add_request", which also keeps
\* one of a secret and a file with it, and the older methods agree with the
\* properties that made them redundant.
AddingIsModifying ==
    /\ Taken("add") =>
         AddIsModify(input[1], input[2], Prefs, "x") /\ SecretsExclusive(AddRequest(input[1], Prefs, "x"))
    /\ Taken("change") => MethodsSame(After, Prefs)

\* Arguments arrive as they were sent, in whatever width numbers are, and with
\* or without those that can be left out; so do the parameters of add_request
\* and modify; one spelling of a name is one property's; and a change of a list
\* is noticed, unless a member is in it twice (cm_tdbusm_set_*, cm_tdbusm_get_*,
\* cm_tdbusm_find_dict_entry, cm_name_cmp, compare_strv).
MessagesAreRead ==
    /\ Taken("message") =>
         /\ Bus!ArgumentsRead(input[1], input[2])
         /\ "n" \in Range(input[1]) => Bus!WidthsRead(input[1], input[2])
         /\ input[1] = <<"s", "s", "s", "s">> =>
               \A least \in {1, 2}, n \in 0..4 : Bus!OptionalRead(input[1], least, n, input[2])
         /\ input[1] = <<"s", "s", "as">> => \A n \in 0..3 : Bus!OptionalRead(input[1], 1, n, input[2])
    /\ Taken("dictionary") => Bus!DictRead(input[1], input[2], {"ca", "track"})
    /\ Taken("names") => SpellingsToldApart(input[1], input[2], input[3])
    /\ Taken("lists") => ListsToldApart(input[1], input[2])

\* What the options of a command ask for is what the request has afterwards, but
\* for the options that "start-tracking" ignores; what is not given stays, but
\* for what makes a CA's certificate (request, set_tracking, rekey_or_resubmit).
OptionsReachTheRequest == Taken("options") =>
    /\ Client!Reaches(input[1], Existing(input[2]), input[3], Prefs, <<"n", "x">>, "x")
    /\ Client!Stays(input[1], Existing(input[2]), input[3], Prefs, <<"n", "x">>, "x")

\* A request is found again where it was put, is tracked once only, and is in
\* one of the lists; and waiting for it ends when it needs help or is done
\* (find_request_by_storage, list, refresh, status, waitfor).
CommandsFindTheRequest ==
    /\ Taken("requests") => LET o == Client!Parsed("start-tracking", input[2]) IN
                            Client!TracksOnce(input[1], o) /\ Client!ListsAgree(input[1], o)
    /\ Taken("polls") => Client!WaitEnds(input[1], input[2])

\* Whatever order the certificates of a CA come in, they are told apart and
\* ordered by who issued whom (cm_pkcs7_parsev).
ChainsAreOrdered == Taken("bundle") => Bundle!ChainOrdered(input)

=============================================================================
