------------------------------ MODULE Getcert -------------------------------
(***************************************************************************)
(* The command line client (getcert.c): how options become parameters of   *)
(* add_request and modify, how it finds the request that is meant, what it *)
(* waits for, and what its lists show.  Options are given as pairs of a    *)
(* letter and a value; a list is the concatenation of its members.         *)
(***************************************************************************)
EXTENDS RequestInterface, FiniteSets, SequencesExt, FiniteSetsExt

Commands == {"request", "start-tracking", "resubmit"}   \* "rekey" has the options of "resubmit"

(***************************************************************************)
(* Options                                                                 *)
(***************************************************************************)
PlaceOptions == [d |-> "dbdir", n |-> "nickname", t |-> "token", k |-> "keyfile", f |-> "certfile", i |-> "id"]
TextOptions == PlaceOptions @@
    [o |-> "key_owner", m |-> "key_perms", O |-> "cert_owner", M |-> "cert_perms", Z |-> "nss_user",
     p |-> "pinfile", P |-> "pin", l |-> "cpassfile", L |-> "cpass", I |-> "new_id", c |-> "ca",
     T |-> "profile", Y |-> "ms_template_spec", X |-> "issuer", B |-> "precommand", C |-> "postcommand",
     N |-> "subject", G |-> "keytype", g |-> "keysize"]
    @@ ("--ca-path-length" :> "path_length")
ListOptions == [K |-> "principal", D |-> "dns", E |-> "email", A |-> "ipaddr", U |-> "eku",
                F |-> "anchor_files", a |-> "anchor_dbs"]
Flags == {"r", "R", "w", "--for-ca", "--not-for-ca"}
EveryOption == DOMAIN TextOptions \cup DOMAIN ListOptions \cup Flags \cup {"u"}

RequestOptions == EveryOption \ {"i"}
TrackOptions == EveryOption \ {"N", "G", "g"}
ResubmitOptions == EveryOption \ {"k", "r", "R"}
OptionsOf == [request |-> RequestOptions, resubmit |-> ResubmitOptions] @@ ("start-tracking" :> TrackOptions)

\* No name of a certificate is given: those of this host are used.
NothingGiven ==
    [v \in {TextOptions[opt] : opt \in DOMAIN TextOptions} \cup {ListOptions[opt] : opt \in DOMAIN ListOptions}
        |-> None]
    @@ [ku |-> {}, is_ca |-> FALSE, waitreq |-> FALSE, auto_renew |-> 1,
        auto_renew_start |-> 0, auto_renew_stop |-> 0]
Defaults == [NothingGiven EXCEPT !["path_length"] = -1, !["keysize"] = 0]

Joined(l, v) == IF l = None THEN v ELSE l \o v
CommonOption(o, opt, v) ==
    CASE opt \in DOMAIN TextOptions -> [o EXCEPT ![TextOptions[opt]] = v]
      [] opt \in DOMAIN ListOptions -> [o EXCEPT ![ListOptions[opt]] = Joined(@, v)]
      [] opt = "u" -> [o EXCEPT !["ku"] = @ \cup {v}]
      [] opt \in {"--for-ca", "--not-for-ca"} -> [o EXCEPT !["is_ca"] = (opt = "--for-ca")]
      [] opt = "w" -> [o EXCEPT !["waitreq"] = TRUE]
      [] OTHER -> o

RequestOption(o, opt, v) ==
    CASE opt = "r" -> [o EXCEPT !["auto_renew"] = @ + 1]
      [] opt = "R" -> [o EXCEPT !["auto_renew"] = 0]
      [] OTHER -> CommonOption(o, opt, v)
TrackOption(o, opt, v) ==
    CASE opt = "r" -> [o EXCEPT !["auto_renew_start"] = @ + 1]
      [] opt = "R" -> [o EXCEPT !["auto_renew_stop"] = @ + 1]
      [] OTHER -> CommonOption(o, opt, v)
ResubmitOption(o, opt, v) == CommonOption(o, opt, v)

Parsed(command, args) ==
    FoldLeft(LAMBDA o, arg : CASE command = "request" -> RequestOption(o, arg[1], arg[2])
                               [] command = "start-tracking" -> TrackOption(o, arg[1], arg[2])
                               [] OTHER -> ResubmitOption(o, arg[1], arg[2]),
             Defaults, args)

\* A database and a nickname belong together and exclude a file, which is not
\* that of the key; one of them, or the name of a request, is needed.
PlaceRefused(o) ==
    \/ (o["dbdir"] = None) # (o["nickname"] = None)
    \/ o["dbdir"] # None /\ o["certfile"] # None
    \/ o["certfile"] # None /\ o["certfile"] = o["keyfile"]
RequestRefused(o) == PlaceRefused(o) \/ (o["dbdir"] = None /\ o["certfile"] = None)
TrackRefused(o) == PlaceRefused(o) \/ (o["id"] = None /\ o["dbdir"] = None /\ o["certfile"] = None)

\* Without any name a server certificate for this host, and its principal if
\* there is a realm.
WithDefaultNames(o, host, realm) ==
    LET named == IF o["subject"] = None THEN [o EXCEPT !["subject"] = host] ELSE o IN
    IF \E v \in {"subject", "eku", "principal", "dns", "email", "ipaddr"} : o[v] # None THEN named
    ELSE [named EXCEPT !["eku"] = "id-kp-serverAuth", !["dns"] = host,
                       !["principal"] = IF realm = None THEN None ELSE "host/" \o host \o "@" \o realm]

(***************************************************************************)
(* Parameters                                                              *)
(***************************************************************************)
Parameter ==
    [key_owner |-> "key-owner", key_perms |-> "key-perms", cert_owner |-> "cert-owner",
     cert_perms |-> "cert-perms", nss_user |-> "nss-user", pin |-> "key-pin", pinfile |-> "key-pin-file",
     cpass |-> "template-challenge-password", cpassfile |-> "template-challenge-password-file",
     new_id |-> "nickname", ca |-> "ca", subject |-> "template-subject", principal |-> "template-principal",
     dns |-> "template-hostname", email |-> "template-email", ipaddr |-> "template-ip-address",
     ku |-> "template-ku", eku |-> "template-eku", profile |-> "template-profile",
     ms_template_spec |-> "template-ms-certificate-template", issuer |-> "template-issuer",
     precommand |-> "cert-presave-command", postcommand |-> "cert-postsave-command",
     anchor_files |-> "root-cert-files", anchor_dbs |-> "root-cert-nssdbs", keytype |-> "key-type",
     keysize |-> "key-size", is_ca |-> "template-is-ca", path_length |-> "template-ca-path-length"]

\* The bits up to the last one that is set.
KUString(bits) == FoldLeft(LAMBDA s, b : s \o (IF b \in bits THEN "1" ELSE "0"), "",
                           [i \in 1..Max(bits) + 1 |-> i - 1])
ParameterGiven(o, v) == IF v = "ku" THEN o[v] # {} ELSE IF v = "keysize" THEN o[v] > 0 ELSE o[v] # None
ValueGiven(o, v) == IF v = "ku" THEN KUString(o[v]) ELSE o[v]

\* The options that were given, in the order of the code, and whether to renew.
ParametersIn(order, o, renew) ==
    LET given == SelectSeq(order, LAMBDA v : v \in {"track", "renew"} \/ ParameterGiven(o, v)) IN
    [i \in DOMAIN given |-> CASE given[i] = "track" -> <<"monitoring", TRUE>>
                              [] given[i] = "renew" -> <<"autorenew", renew>>
                              [] OTHER -> <<Parameter[given[i]], ValueGiven(o, given[i])>>]

Owners == <<"key_owner", "key_perms", "cert_owner", "cert_perms">>
Passwords == <<"cpass", "cpassfile">>
ForCA == <<"is_ca", "path_length">>
Saving == <<"precommand", "postcommand">>
Anchors == <<"anchor_files", "anchor_dbs">>
Names == <<"principal", "dns", "email", "ipaddr", "ku", "eku">>

RequestSettings == <<"pin", "pinfile">> \o Passwords \o ForCA \o <<"track", "renew">> \o Owners
    \o <<"nss_user", "keytype", "keysize", "new_id">>
RequestNames == <<"ca", "subject">> \o Names \o <<"profile", "ms_template_spec", "issuer">> \o Saving \o Anchors
RequestParameters(o) == ParametersIn(RequestSettings \o RequestNames, o, o["auto_renew"] > 0)

BasicSettings == <<"pin", "pinfile">> \o Owners \o Passwords \o ForCA \o <<"track", "renew">>
    \o <<"profile", "ms_template_spec", "principal", "issuer">> \o Saving \o <<"ca">> \o Anchors
BasicParameters(o) ==
    ParametersIn((IF o["dbdir"] # None THEN <<"new_id", "nss_user">> ELSE <<"new_id">>) \o BasicSettings,
                 o, o["auto_renew_stop"] = 0)

TrackNames == <<"track">> \o Names \o <<"new_id">> \o Owners \o <<"nss_user">>
TrackSettings == <<"pin", "pinfile", "ca">> \o Passwords \o ForCA \o <<"profile">> \o Saving \o Anchors
TrackParameters(o) ==
    LET renew == IF o["auto_renew_start"] + o["auto_renew_stop"] > 0 THEN <<"renew">> ELSE <<>>
    IN  ParametersIn(<<"track">> \o renew \o Tail(TrackNames) \o TrackSettings, o, o["auto_renew_start"] > 0)

ResubmitNames_ForgetsPrincipal == Owners \o <<"nss_user", "keytype", "keysize", "new_id", "ca", "subject">> \o Tail(Names)

ResubmitNames == Owners \o <<"nss_user", "keytype", "keysize", "new_id", "ca", "subject">> \o Names
ResubmitSettings == <<"pin", "pinfile">> \o Passwords \o ForCA
    \o <<"profile", "ms_template_spec", "issuer">> \o Saving \o Anchors
ResubmitParameters(o) == ParametersIn(ResubmitNames \o ResubmitSettings, o, FALSE)

\* The key is with the certificate in a database, in a file, or nowhere.
StoragePlace(o) ==
    IF o["dbdir"] # None
    THEN LET db == <<"NSSDB", o["dbdir"], o["nickname"], o["token"]>> IN [cert |-> db, key |-> db]
    ELSE [cert |-> <<"FILE", o["certfile"], None, None>>,
          key |-> IF o["keyfile"] # None THEN <<"FILE", o["keyfile"], None, None>>
                  ELSE <<"NONE", None, None, None>>]

(***************************************************************************)
(* Finding requests and CAs                                                *)
(***************************************************************************)
\* Names are compared without case.
Lower(s) == IF s = "N" THEN "n" ELSE s

\* The index of the last one with the name, or 0.
find_request_by_name(requests, name) ==
    LET named == {i \in DOMAIN requests : Lower(requests[i].name) = Lower(name)}
    IN  IF named = {} THEN 0 ELSE Max(named)

find_ca_by_name(cas, name) ==
    LET named == {i \in DOMAIN cas : Lower(cas[i]) = Lower(name)} IN IF named = {} THEN 0 ELSE Max(named)

\* Without a token any token will do.
StoredAt(place, o) ==
    CASE place[1] = "NSSDB" -> /\ o["dbdir"] # None /\ place[2] = o["dbdir"]
                               /\ o["nickname"] # None /\ place[3] = o["nickname"]
                               /\ o["token"] # None => place[4] = o["token"]
      [] place[1] = "FILE" -> o["certfile"] # None /\ place[2] = o["certfile"]
      [] OTHER -> TRUE

\* The only one there, or 0.
find_request_by_storage(requests, o) ==
    LET there == {i \in DOMAIN requests : StoredAt(requests[i].place, o)}
    IN  IF Cardinality(there) = 1 THEN CHOOSE i \in there : TRUE ELSE 0

FoundRequest(requests, o) ==
    IF o["id"] # None THEN find_request_by_name(requests, o["id"]) ELSE find_request_by_storage(requests, o)

\* What the daemon makes of a new request for a place (base_add_request): a name
\* or a place that is in use is refused, and tokens do not make a difference.
SamePlace_Token(p, q) == p = q

SamePlace(p, q) == p[1] = q[1] /\ p[2] = q[2] /\ (p[1] = "NSSDB" => p[3] = q[3])
AddedAt(requests, name, place) ==
    IF \E i \in DOMAIN requests : \/ name # None /\ Lower(requests[i].name) = Lower(name)
                                  \/ SamePlace(requests[i].place, place)
    THEN requests
    ELSE Append(requests, [name |-> IF name = None THEN "new" ELSE name, place |-> place, status |-> "NEWLY_ADDED",
                           ca |-> None])

(***************************************************************************)
(* The commands                                                            *)
(***************************************************************************)
AsFunction(params) == [p \in {params[i][1] : i \in DOMAIN params} |->
                          params[Max({i \in DOMAIN params : params[i][1] = p})][2]]
UnknownCA(o, cas) == o["ca"] # None /\ find_ca_by_name(cas, o["ca"]) = 0

\* The request that a command leaves behind: existing, or new if that is None.
Result(command, existing, args, prefs, cas, uid) ==
    LET o == Parsed(command, args)
        modify(params) == LET r == Modify(existing, params, {}, Range(cas), uid)
                          IN  [done |-> r.ok, entry |-> r.entry]
        add(params) == [done |-> TRUE, entry |-> AddRequest(AsFunction(params), prefs, uid)]
        nothing == [done |-> FALSE, entry |-> existing]
    IN  IF UnknownCA(o, cas) THEN nothing
        ELSE CASE command = "request" ->
                    IF RequestRefused(o) THEN nothing
                    ELSE add(RequestParameters(WithDefaultNames(o, "h", "R")))
               [] command = "start-tracking" ->
                    IF TrackRefused(o) THEN nothing
                    ELSE IF existing # None THEN modify(TrackParameters(o))
                    ELSE IF o["id"] # None THEN nothing ELSE add(BasicParameters(o))
               [] command = "resubmit" -> IF existing = None THEN nothing ELSE modify(ResubmitParameters(o))

\* The requests after "start-tracking" and "stop-tracking".
StartTracking(requests, o) ==
    LET found == FoundRequest(requests, o) IN
    IF TrackRefused(o) \/ (found = 0 /\ o["id"] # None) THEN requests
    ELSE IF found = 0 THEN AddedAt(requests, o["new_id"], StoragePlace(o).cert)
    ELSE IF o["new_id"] = None THEN requests
    ELSE [requests EXCEPT ![found].name = o["new_id"]]
StopTracking(requests, o) ==
    LET found == FoundRequest(requests, o) IN
    IF TrackRefused(o) \/ found = 0 THEN requests ELSE RemoveAt(requests, found)

(***************************************************************************)
(* Waiting                                                                 *)
(***************************************************************************)
\* What a status is reported as; waiting ends unless it is "wait".
evaluate_status_NotStuck(status) ==
    CASE status = "MONITORING" -> "issued" [] status = "CA_REJECTED" -> "rejected" [] OTHER -> "wait"

evaluate_status(status) ==
    CASE status = "MONITORING" -> "issued"
      [] status = "CA_REJECTED" -> "rejected"
      [] status = "CA_WORKING" -> "working"
      [] status = "CA_UNREACHABLE" -> "unreachable"
      [] status \in Stuck -> "unconfigured"
      [] OTHER -> "wait"

\* The answer after a sequence of statuses that are seen 8 to a second, if the
\* timeout is at least 1.
waitfor(statuses, timeout) ==
    LET seen == SubSeq(statuses, 1, Min({Len(statuses), 8 * timeout}))
        last == {i \in DOMAIN seen : evaluate_status(seen[i]) # "wait"}
    IN  IF last = {} THEN "wait" ELSE evaluate_status(seen[Min(last)])

(***************************************************************************)
(* Lists                                                                   *)
(***************************************************************************)
Tracking == {"MONITORING"} \cup {prefix \o what :
    prefix \in {"NEED_TO_NOTIFY_", "NOTIFYING_"},
    what \in {"VALIDITY", "REJECTION", "ISSUED_SAVE_FAILED", "ISSUED_CA_SAVE_FAILED", "ISSUED_SAVED", "ONLY_CA_SAVE_FAILED"}}

\* Here a place may be given in part, and names are compared exactly.
ListedAt(place, o) ==
    /\ o["dbdir"] # None \/ o["nickname"] # None =>
          /\ place[1] = "NSSDB"
          /\ o["dbdir"] # None => o["dbdir"] = place[2]
          /\ o["nickname"] # None /\ place[3] # None => o["nickname"] = place[3]
    /\ o["certfile"] # None => place[1] = "FILE" /\ place[2] = o["certfile"]
OfCA(request, o) == o["ca"] # None => request.ca = o["ca"]
ListedIn(request, requests_only, tracking_only) ==
    IF request.status \in Tracking THEN ~requests_only ELSE ~tracking_only

\* Nothing is listed if what was asked for is not found at all.
Listed(requests, o, requests_only, tracking_only) ==
    LET asked == o["id"] # None \/ (o["dbdir"] # None /\ o["nickname"] # None) \/ o["certfile"] # None IN
    IF asked /\ FoundRequest(requests, o) = 0 THEN {}
    ELSE {i \in DOMAIN requests :
            /\ OfCA(requests[i], o)
            /\ ListedIn(requests[i], requests_only, tracking_only)
            /\ o["id"] # None => requests[i].name = o["id"]
            /\ ListedAt(requests[i].place, o)}

\* The requests that "refresh" asks the CA about again, all or those meant.
Refreshed(requests, o, all) ==
    IF ~all /\ o["id"] = None /\ (o["dbdir"] = None \/ o["nickname"] = None) /\ o["certfile"] = None THEN {}
    ELSE {i \in DOMAIN requests :
            /\ OfCA(requests[i], o)
            /\ o["id"] # None => requests[i].name = o["id"]
            /\ ListedAt(requests[i].place, o)
            /\ o["dbdir"] # None /\ o["token"] # None /\ requests[i].place[4] # None =>
                  o["token"] = requests[i].place[4]
            /\ requests[i].status \in {"CA_WORKING", "CA_UNREACHABLE"}}
Status(requests, o) ==
    LET found == FoundRequest(requests, o) IN
    IF found = 0 THEN None ELSE evaluate_status(requests[found].status)
-----------------------------------------------------------------------------
(* Properties *)

\* The value that was asked for with the arguments: all members, or the last text.
OptionOf(v) == CHOOSE opt \in DOMAIN (TextOptions @@ ListOptions) : (TextOptions @@ ListOptions)[opt] = v
Asked(args, v) ==
    LET those == SelectSeq(args, LAMBDA arg : arg[1] = OptionOf(v)) IN
    IF those = <<>> THEN None
    ELSE IF OptionOf(v) \in DOMAIN ListOptions THEN FoldLeft(LAMBDA l, arg : Joined(l, arg[2]), None, those)
    ELSE Last(those)[2]

\* Options that a command takes and does nothing about: none of these reaches a
\* request that is tracked from now on, or one that was tracked before.
Ignored(command, existing, o) ==
    IF command # "start-tracking" THEN {}
    ELSE IF existing = None THEN (Range(Names) \ {"principal"}) \cup (IF o["dbdir"] = None THEN {"nss_user"} ELSE {})
    ELSE {"issuer", "ms_template_spec"}
\* What is in a file outweighs what is given with it.
Outweighed(args) == {v \in {"pin", "cpass"} : Asked(args, v \o "file") # None}

\* The settings that are texts or lists, and not sent unless they are given.
Settings == DOMAIN Parameter \ {"ku", "is_ca", "path_length", "keysize"}
ReadBack(e, v) == IF v = "keytype" THEN e["key_gen_type"] ELSE OrEmpty(Get(e, Parameter[v]))
Letters(args) == {args[i][1] : i \in DOMAIN args}

\* The last of "-r" and "-R" counts, but "-r" does for a request that is tracked
\* before, and "-R" for one that is not.
Renewed(command, existing, args) ==
    LET said == SelectSeq(args, LAMBDA arg : arg[1] \in {"r", "R"}) IN
    IF said = <<>> THEN IF existing = None THEN 1 ELSE existing["autorenew"]
    ELSE IF command = "request" THEN (IF Last(said)[1] = "r" THEN 1 ELSE 0)
    ELSE IF existing = None THEN (IF "R" \in Letters(args) THEN 0 ELSE 1)
    ELSE IF "r" \in Letters(args) THEN 1 ELSE 0

\* What is asked for with any options is what the request has afterwards.
Reaches(command, existing, args, prefs, cas, uid) ==
    LET r == Result(command, existing, args, prefs, cas, uid)
        dropped == Ignored(command, existing, Parsed(command, args)) \cup Outweighed(args)
    IN  r.done =>
          /\ \A v \in Settings \ dropped : Asked(args, v) # None => ReadBack(r.entry, v) = Asked(args, v)
          /\ "u" \in Letters(args) /\ "ku" \notin dropped =>
                ReadBack(r.entry, "ku") = KUString({args[i][2] : i \in {k \in DOMAIN args : args[k][1] = "u"}})
          /\ r.entry["autorenew"] = Renewed(command, existing, args)
          /\ Get(r.entry, "template-is-ca") = (Last(<<<<"">>>> \o SelectSeq(args,
                LAMBDA arg : arg[1] \in {"--for-ca", "--not-for-ca"}))[1] = "--for-ca")

\* What is not given stays, but for whether the certificate is a CA's: that is
\* taken away unless it is asked for again, and so is the length of its path.
Stays(command, existing, args, prefs, cas, uid) ==
    LET r == Result(command, existing, args, prefs, cas, uid)
        given == {Parameter[v] : v \in {w \in Settings : Asked(args, w) # None}}
        touched == UNION {AnnouncedFor(p) \cup Silently(p) : p \in given}
            \cup {"template-is-ca", "template-ca-path-length"}
            \cup (IF "u" \in Letters(args) THEN {"template-ku"} ELSE {})
            \cup (IF command = "start-tracking" THEN {"monitoring", "autorenew"} ELSE {})
    IN  existing # None => \A p \in Properties \ touched : Get(r.entry, p) = Get(existing, p)

\* After "start-tracking" the same words mean one request, however often they
\* are given, and "stop-tracking" removes just that; no two have one place.
\* (A token that was not in use is not enough to tell a new place.)
PlacesDiffer(requests) ==
    \A i, j \in DOMAIN requests : i # j => ~SamePlace(requests[i].place, requests[j].place)
NamesDiffer(requests) == \A i, j \in DOMAIN requests : i # j => Lower(requests[i].name) # Lower(requests[j].name)
TracksOnce(requests, o) ==
    LET after == StartTracking(requests, o)
        found == FoundRequest(after, o)
        place == StoragePlace(o).cert
        otherToken == \E i \in DOMAIN requests : SamePlace(requests[i].place, place) /\ requests[i].place # place
    IN  PlacesDiffer(requests) /\ NamesDiffer(requests) /\ ~TrackRefused(o) /\ o["id"] = None /\ o["new_id"] = None =>
          /\ PlacesDiffer(after)
          /\ StartTracking(after, o) = after
          /\ found # 0 => SamePlace(after[found].place, place) /\ StopTracking(after, o) = RemoveAt(after, found)
          /\ found = 0 => otherToken /\ o["token"] # None

\* Whatever is found by its exact name or place is also listed and has a status;
\* requests are listed as such or as tracked certificates, and never as both.
ListsAgree(requests, o) ==
    LET found == FoundRequest(requests, o) IN
    NamesDiffer(requests) /\ PlacesDiffer(requests) /\ ~PlaceRefused(o) =>
        /\ found # 0 /\ (o["id"] # None => requests[found].name = o["id"]) /\ OfCA(requests[found], o)
              /\ (o["id"] # None => ListedAt(requests[found].place, o))
           => Listed(requests, o, FALSE, FALSE) = {found} /\ Status(requests, o) # None
        /\ Listed(requests, o, TRUE, FALSE) \cap Listed(requests, o, FALSE, TRUE) = {}
        /\ Listed(requests, o, TRUE, FALSE) \cup Listed(requests, o, FALSE, TRUE) = Listed(requests, o, FALSE, FALSE)
        /\ Refreshed(requests, o, FALSE) \subseteq Listed(requests, o, TRUE, FALSE) 
              \cup {i \in DOMAIN requests : FoundRequest(requests, o) = 0}

\* Waiting ends with the first status in which nothing more happens without
\* somebody's help, and the answer says so.
WaitEnds(statuses, timeout) ==
    LET answer == waitfor(statuses, timeout)
        ends == {i \in DOMAIN statuses : statuses[i] \in Stuck \cup {"MONITORING"}}
    IN  /\ ends # {} /\ Min(ends) <= 8 * timeout => answer # "wait"
        /\ answer = "issued" => "MONITORING" \in Range(statuses)
=============================================================================
