------------------------------- MODULE Dogtag --------------------------------
(***************************************************************************)
(* The enrollment helper for Dogtag (dogtag.c), and how it reads what the  *)
(* server says (submit-d.c): directly, in forms and XML, or by way of IPA, *)
(* in JSON.  One run of the helper takes one step of several (submit,      *)
(* check, approve, retrieve); the next step and the number of the request  *)
(* are the cookie that certmonger gives back to it.                        *)
(*                                                                         *)
(* A text is a sequence of its words and of the white space between them.  *)
(* A document in XML is a function from the paths that are there to their  *)
(* texts, one in JSON a record.  A cookie is a sequence of names and       *)
(* values.  What is not there (NULL) is None.                              *)
(***************************************************************************)
EXTENDS Naturals, Sequences, FiniteSets, SequencesExt, FiniteSetsExt, TLC

CONSTANT None

(***************************************************************************)
(* Documents in XML                                                        *)
(***************************************************************************)
Newlines == {"\n"}
White == {" ", "\n"}
Stripped(chars) == [text \in Seq(STRING) |->
    LET kept == {i \in DOMAIN text : text[i] \notin chars}
    IN  IF kept = {} THEN <<>> ELSE SubSeq(text, Min(kept), Max(kept))]
NoneIfEmpty == [text \in Seq(STRING) |-> IF text = <<>> THEN None ELSE text]

trim(text) == IF text = None THEN None ELSE NoneIfEmpty[Stripped(White)[text]]
XmlValue(doc, path) == IF path \in DOMAIN doc THEN Stripped(Newlines)[doc[path]] ELSE None
NodeText(node, name) == IF name \in DOMAIN node THEN Stripped(Newlines)[node[name]] ELSE None

\* What a list has at these places, in order.
Kept(list, places) ==
    [n \in 1..Cardinality(places) |->
        list[CHOOSE i \in places : Cardinality({j \in places : j <= i}) = n]]

\* A certificate in PEM has the text in base64, without white space.
Pem(text) == IF text = None THEN None ELSE Kept(text, {i \in DOMAIN text : text[i] \notin White})

\* A choice without a value has the first of the alternatives.
FirstChoice(constraint) ==
    LET commas == {i \in DOMAIN constraint : constraint[i] = ","}
    IN  IF commas = {} THEN constraint ELSE SubSeq(constraint, 1, Min(commas) - 1)
XmlDefault(node) ==
    LET constraint == NodeText(node, "defConstraint")
        syntax == NodeText(node, "defSyntax")
        value == IF NodeText(node, "defVal") # None THEN NodeText(node, "defVal")
                 ELSE IF syntax = <<"choice">> /\ constraint # None THEN FirstChoice(constraint) ELSE None
    IN  IF None \in {NodeText(node, "defId"), value, constraint, syntax} \/ constraint = <<"readonly">> THEN None
        ELSE [name |-> NodeText(node, "defId"), value |-> value]
XmlDefaults(nodes) == SelectSeq([i \in DOMAIN nodes |-> XmlDefault(nodes[i])], LAMBDA d : d # None)

\* The profiles that are enabled and visible.
ValueIf(node) ==
    IF NodeText(node, "profileId") \in {None, <<>>} THEN None
    ELSE IF {NodeText(node, "profileIsEnable"), NodeText(node, "profileIsVisible")} # {<<"true">>} THEN None
    ELSE NodeText(node, "profileId")
XmlProfiles(nodes) == SelectSeq([i \in DOMAIN nodes |-> ValueIf(nodes[i])], LAMBDA p : p # None)

(***************************************************************************)
(* What the server says: the status, the request, the certificate, and     *)
(* whether there is an explanation                                         *)
(***************************************************************************)
Unknown == [status |-> None, requestId |-> None, cert |-> None, explained |-> FALSE]
Explained(doc, paths) == \E p \in paths : XmlValue(doc, p) # None
OutputError == {"/xml/output/set/errorCode", "/xml/output/set/errorReason"}

SubmitResult(doc) ==
    [status |-> XmlValue(doc, "/XMLResponse/Status"),
     requestId |-> trim(XmlValue(doc, "/XMLResponse/RequestId")),
     cert |-> Pem(XmlValue(doc, "/XMLResponse/Requests/Request/b64")),
     explained |-> Explained(doc, OutputError \cup {"/XMLResponse/Error"})]
CheckResult(doc) ==
    [Unknown EXCEPT !.status = XmlValue(doc, "/xml/header/status"),
                    !.requestId = XmlValue(doc, "/xml/header/requestId"),
                    !.explained = Explained(doc, {"/xml/fixed/unexpectedError"})]
RejectResult(doc) ==
    [Unknown EXCEPT !.status = XmlValue(doc, "/XMLResponse/Status"),
                    !.requestId = trim(XmlValue(doc, "/XMLResponse/RequestId")),
                    !.explained = Explained(doc, {"/XMLResponse/Error"})]
ReviewResult(doc) ==
    [Unknown EXCEPT !.status = trim(XmlValue(doc, "/xml/output/set/requestStatus")),
                    !.requestId = trim(XmlValue(doc, "/xml/output/set/requestId")),
                    !.explained = Explained(doc, OutputError)]
ApproveResult(doc) ==
    [Unknown EXCEPT !.status = trim(XmlValue(doc, "/xml/output/set/requestStatus")),
                    !.requestId = trim(XmlValue(doc, "/xml/output/set/requestId")),
                    !.explained = Explained(doc, OutputError)]
FetchResult(doc) ==
    [Unknown EXCEPT !.status = XmlValue(doc, "/xml/fixed/requestStatus"),
                    !.requestId = XmlValue(doc, "/xml/header/requestId"),
                    !.cert = Pem(XmlValue(doc, "/xml/records/record/base64Cert")),
                    !.explained = Explained(doc, {"/xml/fixed/unexpectedError"})]
ProfilesResult(nodes) == XmlProfiles(nodes)

\* A document in JSON, or None if it cannot be parsed: an error (None if it is
\* null), and in "result" another "result".  That there is no error is an
\* explanation too, with code 0.
ParseJson(doc) == IF doc = None \/ doc.error # None \/ doc.result = None THEN None ELSE doc.result.result
Member(result, name) == IF result # None /\ name \in DOMAIN result THEN result[name] ELSE None
HasMembers(result, names) == \A n \in names : Member(result, n) # None
Stated == {"request_id", "cert_request_status"}
NotSaid == [Unknown EXCEPT !.explained = TRUE]

StatusNumber == [complete |-> <<"0">>, error |-> <<"1">>, pending |-> <<"2">>, rejected |-> <<"3">>]
RestSubmitResult(doc) ==
    LET r == ParseJson(doc) IN
    IF ~HasMembers(r, Stated) THEN NotSaid
    ELSE [status |-> IF r.cert_request_status[1] \in DOMAIN StatusNumber
                     THEN StatusNumber[r.cert_request_status[1]] ELSE None,
          requestId |-> r.request_id, cert |-> Pem(Member(r, "certificate")), explained |-> TRUE]

\* What is complete is from now on known by the number of the certificate.
NumberNow_Request(r) == r.request_id

NumberNow(r) == IF r.cert_request_status = <<"complete">> THEN Member(r, "serial_number") ELSE r.request_id
RestCheckResult_Numbers(doc) ==
    LET r == ParseJson(doc) IN
    IF ~HasMembers(r, Stated) THEN NotSaid
    ELSE [NotSaid EXCEPT !.status = StatusNumber[r.cert_request_status[1]], !.requestId = NumberNow(r)]

RestCheckResult(doc) ==
    LET r == ParseJson(doc) IN
    IF ~HasMembers(r, Stated) THEN NotSaid
    ELSE [NotSaid EXCEPT !.status = r.cert_request_status, !.requestId = NumberNow(r)]
RestApproveResult(doc) ==
    LET r == ParseJson(doc) IN
    IF ~HasMembers(r, Stated) THEN NotSaid
    ELSE [NotSaid EXCEPT !.status = r.cert_request_status, !.requestId = NumberNow(r)]
RestFetchResult(doc) ==
    LET r == ParseJson(doc) IN
    IF ~HasMembers(r, {"certificate"}) THEN NotSaid
    ELSE [NotSaid EXCEPT !.status = <<"complete">>, !.cert = Pem(r.certificate)]
RestProfilesResult(doc) ==
    LET r == ParseJson(doc) IN IF r = None THEN None ELSE [i \in DOMAIN r |-> r[i].cn[1]]

(***************************************************************************)
(* What the helper makes of it: the exit status, and what it writes - a    *)
(* delay and a cookie, a certificate, or an explanation                    *)
(***************************************************************************)
Exit(status) == [status |-> status, delay |-> None, cookie |-> None, cert |-> None, explained |-> FALSE]
Cookie(state, id) == <<<<"state", <<state>>>>, <<"requestId", id>>>>
AtOnce(state, id) == [Exit("WAIT_WITH_DELAY") EXCEPT !.delay = 0, !.cookie = Cookie(state, id)]
Later(state, id) == [Exit("WAIT") EXCEPT !.cookie = Cookie(state, id)]
Issued(cert) == [Exit("ISSUED") EXCEPT !.cert = trim(cert)]
Refused(r) == [Exit("REJECTED") EXCEPT !.explained = r.explained]

\* With an agent's credentials the helper approves the request itself.
Deferred(id, can_agent) == IF can_agent THEN AtOnce("approve", id) ELSE Later("check", id)

SubmitEval(doc, can_agent, format) ==
    LET r == IF format = "XML" THEN SubmitResult(doc) ELSE RestSubmitResult(doc) IN
    IF r.status = <<"0">> /\ r.cert # None THEN Issued(r.cert)
    ELSE IF r.status = <<"2">> /\ r.requestId # None THEN Deferred(r.requestId, can_agent)
    ELSE Refused(r)
CheckEval(doc, can_agent, format) ==
    LET r == IF format = "XML" THEN CheckResult(doc) ELSE RestCheckResult(doc) IN
    IF r.status = <<"complete">> /\ r.requestId # None THEN AtOnce("retrieve", r.requestId)
    ELSE IF r.status = <<"pending">> /\ r.requestId # None THEN Deferred(r.requestId, can_agent)
    ELSE Refused(r)
RejectEval(doc) == Refused(RejectResult(doc))
ReviewEval(doc) ==
    LET r == ReviewResult(doc) IN
    IF r.status = <<"pending">> /\ r.requestId # None THEN AtOnce("approve", r.requestId)
    ELSE IF r.status = <<"complete">> /\ r.requestId # None THEN AtOnce("retrieve", r.requestId)
    ELSE Refused(r)
ApproveEval_Again(doc, format) ==
    LET r == IF format = "XML" THEN ApproveResult(doc) ELSE RestApproveResult(doc) IN
    IF r.status = <<"complete">> /\ r.requestId # None
    THEN AtOnce(IF format = "XML" THEN "approve" ELSE "retrieve", r.requestId) ELSE Refused(r)

ApproveEval(doc, format) ==
    LET r == IF format = "XML" THEN ApproveResult(doc) ELSE RestApproveResult(doc) IN
    IF r.status = <<"complete">> /\ r.requestId # None THEN AtOnce("retrieve", r.requestId) ELSE Refused(r)
FetchEval(doc, format) ==
    LET r == IF format = "XML" THEN FetchResult(doc) ELSE RestFetchResult(doc) IN
    IF r.cert # None THEN Issued(r.cert) ELSE Refused(r)
ProfilesEval(profiles) == IF profiles = None THEN Exit("REJECTED") ELSE Exit("ISSUED")

(***************************************************************************)
(* One run of the helper.  "h" is how it was called: the operation and the *)
(* cookie, CSR and certificate certmonger passes in the environment, and   *)
(* the options from the command line or the preferences (a URL or a value  *)
(* is None if there is none; options of the user's are sequences of names  *)
(* and values).  An answer is the code of the transport's error (0: none)  *)
(* and the document (None: nothing).                                       *)
(***************************************************************************)
\* A value in a cookie ends at the end of the line.
statevar(state, what) ==
    LET named == {i \in DOMAIN state : state[i][1] = what}
    IN  IF named = {} THEN None ELSE LET v == state[Min(named)][2] IN
        IF v = None THEN None
        ELSE SubSeq(v, 1, Min({Len(v)} \cup {i - 1 : i \in {j \in DOMAIN v : v[j] = "\n"}}))
Resumed(h) ==
    /\ h.savedstate # None
    /\ statevar(h.savedstate, "state") # None
    /\ statevar(h.savedstate, "requestId") # None
Step == [check |-> "check", review |-> "approve", approve |-> "approve", fetch |-> "retrieve", retrieve |-> "retrieve"]
StepFor(h) ==
    LET state == IF Resumed(h) THEN statevar(h.savedstate, "state")[1] ELSE h.op
    IN  IF state \in DOMAIN Step THEN Step[state] ELSE h.op
RequestId(h) == IF Resumed(h) THEN <<<<"requestId", statevar(h.savedstate, "requestId")>>>> ELSE <<>>

\* A certificate is renewed by its number, unless a new one is asked for.
serial_hex_from_cert(cert) == IF cert = None \/ cert = <<>> THEN None ELSE cert
SerialOf(h) ==
    IF h.serial # None THEN h.serial
    ELSE IF h.cert # None /\ h.prefers_renewal THEN serial_hex_from_cert(h.cert) ELSE None
RenewsBySerial(h) == SerialOf(h) # None /\ SerialOf(h) # <<>> /\ ~h.force_new

\* Credentials that the user also gives as options are the user's.
Credentials(h) ==
    Kept(h.creds, {i \in DOMAIN h.creds : \A j \in DOMAIN h.soptions : h.soptions[j][1] # h.creds[i][1]})
Form(url, resource, params) == [url |-> url, resource |-> resource, params |-> params]
SubmitForm(h) ==
    Form(h.eeurl, IF h.agent_submit THEN "profileSubmitSSLClient" ELSE "profileSubmit",
         <<<<"profileId", h.template>>>>
         \o (IF RenewsBySerial(h) THEN <<<<"serial_num", SerialOf(h)>>, <<"renewal", <<"true">>>>>>
             ELSE <<<<"cert_request", h.csr>>>>)
         \o Credentials(h) \o h.soptions)
ReviewForm(h) == Form(h.agenturl, "profileReview", RequestId(h))
FormFor(h, op) ==
    CASE op = "submit" -> SubmitForm(h)
      [] op = "check" -> Form(h.eeurl, "checkRequest", RequestId(h))
      [] op = "approve" -> ReviewForm(h)
      [] op = "retrieve" -> Form(h.eeurl, "displayCertFromRequest", RequestId(h))
      [] op = "profiles" -> Form(h.eeurl, "profileList", RequestId(h))
CannotAsk(h, op) ==
    \/ op = "submit" /\ ~RenewsBySerial(h) /\ h.csr \in {None, <<>>}
    \/ op = "approve" /\ (h.agenturl = None \/ h.sslcert \in {None, <<>>})

\* The agent approves what the server's profile says, as changed by the user.
ApproveForm(h, defaults) ==
    LET kept == Kept(defaults, {i \in DOMAIN defaults :
                                  \A j \in DOMAIN h.aoptions : h.aoptions[j][1] # defaults[i].name[1]})
    IN  Form(h.agenturl, "profileProcess",
             RequestId(h) \o <<<<"op", <<"approve">>>>>>
             \o [i \in DOMAIN kept |-> <<kept[i].name[1], kept[i].value>>] \o h.aoptions)

\* A reply about a request that waits is read as if it were in JSON, which text
\* in XML is not.
XmlEval(h, op, doc) ==
    LET can_agent == h.sslcert \notin {None, <<>>} IN
    CASE op = "submit" -> SubmitEval(doc, can_agent, "XML")
      [] op = "check" -> CheckEval(None, can_agent, "JSON")
      [] op = "approve" -> ApproveEval(doc, "XML")
      [] op = "retrieve" -> FetchEval(doc, "XML")
      [] op = "profiles" -> ProfilesEval(ProfilesResult(doc))
XmlOutcome(h, op, answer) ==
    IF answer.code # 0 THEN Exit("UNREACHABLE")
    ELSE IF answer.doc = None THEN Exit("REJECTED")
    ELSE XmlEval(h, op, answer.doc)
\* The exit, when the server gives these answers to the form, and to the second
\* form of an approval.
XmlWorkflow(h, answer, second) ==
    LET op == StepFor(h) IN
    IF CannotAsk(h, op) THEN Exit("UNCONFIGURED")
    ELSE XmlOutcome(h, op, IF op = "approve" /\ answer.code = 0 THEN second ELSE answer)
FormsSent(h, answer, defaults) ==
    LET op == StepFor(h) IN
    IF CannotAsk(h, op) THEN <<>>
    ELSE <<FormFor(h, op)>> \o (IF op = "approve" /\ answer.code = 0 THEN <<ApproveForm(h, defaults)>> ELSE <<>>)

\* By way of IPA: the method that is called, and the outcome.
Method == [submit |-> "cert_request", check |-> "cert_status", approve |-> "cert_approve", retrieve |-> "cert_show",
           profiles |-> "certprofile_find"]
CannotCall(h, op) == op = "submit" /\ (h.csr \in {None, <<>>} \/ h.creds # <<>>)
ParseJsonResult(doc) ==
    IF doc = None THEN "unparsed" ELSE IF doc.error = None THEN "success"
    ELSE IF doc.error \in {"2xxx", "3xxx"} THEN "denied" ELSE "failed"
JsonEval(h, op, doc) ==
    LET can_agent == h.sslcert \notin {None, <<>>} IN
    CASE op = "submit" -> SubmitEval(doc, can_agent, "JSON")
      [] op = "check" -> CheckEval(doc, can_agent, "JSON")
      [] op = "approve" -> ApproveEval(doc, "JSON")
      [] op = "retrieve" -> FetchEval(doc, "JSON")
      [] op = "profiles" -> ProfilesEval(RestProfilesResult(doc))
JsonWorkflow(h, answer) ==
    LET op == StepFor(h) IN
    IF CannotCall(h, op) THEN Exit("UNCONFIGURED")
    ELSE IF answer.code # 200 \/ ParseJsonResult(answer.doc) \in {"unparsed", "failed"} THEN Exit("UNREACHABLE")
    ELSE IF ParseJsonResult(answer.doc) = "denied" THEN Exit("REJECTED")
    ELSE IF ParseJson(answer.doc) = None THEN Exit("UNREACHABLE")
    ELSE JsonEval(h, op, answer.doc)

\* What must be known before anything is sent.
MissingArguments(h) ==
    \/ h.jsonrpc # None /\ SerialOf(h) # None /\ ~h.force_new
    \/ h.agent_submit /\ h.sslcert \in {None, <<>>}
    \/ h.force_renew /\ SerialOf(h) = None
    \/ h.eeurl = None /\ h.jsonrpc = None
    \/ h.aoptions # <<>> /\ h.jsonrpc = None /\ (h.agenturl = None \/ h.sslcert \in {None, <<>>})
Workflow(h) == IF h.eeurl # None \/ h.agenturl # None THEN "XML" ELSE "JSON"
RunDogtag(h, answer, second) ==
    IF MissingArguments(h) THEN Exit("UNCONFIGURED")
    ELSE IF Workflow(h) = "XML" THEN XmlWorkflow(h, answer, second)
    ELSE JsonWorkflow(h, answer)
=============================================================================
