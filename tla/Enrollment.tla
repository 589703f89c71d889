----------------------------- MODULE Enrollment ------------------------------
(***************************************************************************)
(* One request and the CA it goes to: the daemon (iterate.c, submit.c,     *)
(* submit-e.c), the helper it starts for every attempt (dogtag.c or        *)
(* scep.c, as modules Dogtag and Scep have them), and the server behind    *)
(* it.  The helper keeps nothing from one run to the next: what is between *)
(* them is the cookie, and, for SCEP, the messages and the nonce in them.  *)
(* Requests and answers get lost, the daemon goes away at any moment while *)
(* its helper goes on, the user asks again, and the CA takes its time.     *)
(*                                                                         *)
(* "kind" is how the CA is reached: "XML" and "JSON" are the two ways of   *)
(* the Dogtag helper.                                                      *)
(***************************************************************************)
EXTENDS Scep, EntryStates

CONSTANTS
  Csrs,          \* the signing requests there can be, in order
  Certs,         \* Certs[i] is the certificate for the CA's i-th request
  Ids, Serials,  \* its number, and that of its certificate, in the CA's books
  Nonces,        \* those that can be told apart: one that nobody has is used again
  MaxLosses, MaxCrashes, MaxAgain

ASSUME EnrollmentAssumption ==
  /\ Len(Ids) = Len(Certs) /\ Len(Serials) = Len(Certs)
  /\ {MaxLosses, MaxCrashes, MaxAgain} \subseteq Nat
  /\ {Csrs, Certs, Ids, Serials} \subseteq Seq(STRING)

\* Four nonces can be in use at a time.
ASSUME NoncesAssumption ==
  /\ Nonces \subseteq Nat /\ IsFiniteSet(Nonces) /\ Cardinality(Nonces) > 4

\* What is not there is no text, no nonce, and nothing that the SCEP helper comes to.
ScepStatuses == {"ISSUED", "WAIT", "REJECTED", "UNREACHABLE", "UNCONFIGURED", "NEED_SCEP_MESSAGES"}
ASSUME NoneAssumption ==
  /\ None \notin Nonces /\ None \notin ScepStatuses \cup {"u", "RA", "success", "failure"}
  /\ None \notin [status : ScepStatuses, cookie : {None, "server"}, cert : {None} \cup STRING]

D == INSTANCE Dogtag

\* Each signing request counts as another; no two of the CA's requests or certificates
\* have one number.  What they are named by are words without white space, and neither
\* a word nor a cookie is nothing.
Names == Range(Ids) \cup Range(Serials)
ASSUME NamesAssumption ==
  /\ IsInjective(Csrs) /\ IsInjective(Ids) /\ IsInjective(Serials)
  /\ (Names \cup Range(Certs)) \cap D!White = {}
  /\ {"\n", " ", "0", "2", "pending", "complete", "rejected"} \subseteq STRING
  /\ \A word \in {"ee", "agent", "ipa", "n"} \cup Names \cup Range(Csrs) \cup Range(Certs) :
       None \notin {word, <<word>>} /\ <<" ", word>> # None
  /\ \A step \in {"check", "approve", "retrieve"}, name \in Names : None \notin {<<step>>, D!Cookie(step, <<name>>)}

VARIABLES
  kind, agent,   \* the helper, and whether it has an agent's credentials
  entry, disk,   \* the request, and what is saved of it
  helper,        \* the helper that the daemon waits for, or None
  orphan,        \* one that a daemon that is gone has started, or None
  requests,      \* the CA's books: what it was asked for and how that stands
  sent,          \* how often the CA got a message with each nonce
  losses, crashes, resubmits, renewals,
  unsaved,       \* crashes after a helper was started and before that was saved
  unheard        \* submissions that got to the CA while the answer got lost

vars == <<kind, agent, entry, disk, helper, orphan, requests, sent, losses, crashes, resubmits, renewals,
          unsaved, unheard>>
setup == <<kind, agent>>
users == <<resubmits, renewals>>
faults == <<losses, crashes, unsaved, unheard>>
server == <<requests, sent>>

NewEntry(key_next) ==
  [state |-> "NEED_CSR", csr |-> None, cert |-> None, cookie |-> None, key |-> "k1", key_next |-> key_next,
   key_type |-> "RSA", scep_tx |-> None, scep_nonce |-> None, scep_last_nonce |-> None,
   scep_req |-> None, scep_gic |-> None, scep_req_next |-> None, scep_gic_next |-> None]

Init ==
  /\ kind \in {"XML", "JSON", "SCEP"} /\ agent \in BOOLEAN /\ (kind = "SCEP" => ~agent)
  /\ \E next \in {None, "k2"} : (kind # "SCEP" => next = None) /\ entry = NewEntry(next)
  /\ disk = entry /\ helper = None /\ orphan = None /\ requests = <<>>
  /\ sent = [n \in Nonces |-> 0]
  /\ losses = 0 /\ crashes = 0 /\ resubmits = 0 /\ renewals = 0 /\ unsaved = 0 /\ unheard = 0

-----------------------------------------------------------------------------
(***************************************************************************)
(* The server.                                                             *)
(***************************************************************************)
IndexOf(list, x) == CHOOSE i \in DOMAIN list : list[i] = x
Book(csr, status) == Append(requests, [csr |-> csr, status |-> status])
Complete(i) == [requests EXCEPT ![i].status = "complete"]

\* Forms are answered in XML.  An agent approves what still waits.
Xml(texts) == [path \in {t[1] : t \in texts} |-> (CHOOSE t \in texts : t[1] = path)[2]]
Param(form, name) == form.params[CHOOSE i \in DOMAIN form.params : form.params[i][1] = name][2][1]
XmlReply(i, status) ==
  [submit |-> IF status = "complete"
              THEN Xml({<<"/XMLResponse/Status", <<"0">>>>, <<"/XMLResponse/Requests/Request/b64", <<Certs[i], "\n">>>>})
              ELSE Xml({<<"/XMLResponse/Status", <<"2">>>>, <<"/XMLResponse/RequestId", <<Ids[i], "\n">>>>}),
   check |-> Xml({<<"/xml/header/status", <<status>>>>, <<"/xml/header/requestId", <<Ids[i]>>>>}),
   approve |-> Xml({<<"/xml/output/set/requestStatus", <<status>>>>,
                    <<"/xml/output/set/requestId", <<" ", Ids[i]>>>>}),
   retrieve |-> IF status = "complete"
                THEN Xml({<<"/xml/records/record/base64Cert", <<Certs[i], "\n">>>>})
                ELSE Xml({<<"/xml/fixed/unexpectedError", <<"e">>>>})]
XmlServe(form, step) ==
  IF form.resource = "profileSubmit"
  THEN {[books |-> Book(Param(form, "cert_request"), s), answer |-> XmlReply(Len(requests) + 1, s)[step]] :
          s \in {"pending", "complete"}}
  ELSE LET i == IndexOf(Ids, Param(form, "requestId"))
           b == IF form.resource = "profileProcess" /\ Param(form, "op") = "approve" /\ requests[i].status = "pending"
                THEN Complete(i) ELSE requests
       IN  {[books |-> b, answer |-> XmlReply(i, b[i].status)[step]]}

\* Methods are answered in JSON; a certificate has a number of its own, and
\* there are those of others.
JsonDoc(result) == [error |-> None, result |-> [result |-> result]]
IsDoc(result) == None # result /\ None # JsonDoc(result) /\ None # JsonDoc(result).result
JsonResult(i, status, op) ==
  CASE op = "submit" /\ status = "complete" ->
         [request_id |-> <<Ids[i]>>, cert_request_status |-> <<"complete">>, certificate |-> <<Certs[i]>>]
    [] op # "submit" /\ status = "complete" ->
         [request_id |-> <<Ids[i]>>, cert_request_status |-> <<"complete">>, serial_number |-> <<Serials[i]>>]
    [] OTHER -> [request_id |-> <<Ids[i]>>, cert_request_status |-> <<status>>]
JsonReply(i, status, op) == JsonDoc(JsonResult(i, status, op))
JsonShow(number) ==
  JsonDoc([certificate |-> IF number \in {Serials[i] : i \in DOMAIN requests}
                           THEN <<Certs[IndexOf(Serials, number)]>> ELSE <<"other">>])
JsonServe(h, op) ==
  IF op = "submit"
  THEN {[books |-> Book(h.csr[1], s), answer |-> JsonReply(Len(requests) + 1, s, op)] : s \in {"pending", "complete"}}
  ELSE LET number == D!RequestId(h)[1][2][1]
           i == IndexOf(Ids, number)
           b == IF op = "approve" /\ requests[i].status = "pending" THEN Complete(i) ELSE requests
       IN  IF op = "retrieve" THEN {[books |-> requests, answer |-> JsonShow(number)]}
           ELSE {[books |-> b, answer |-> JsonReply(i, b[i].status, op)]}

\* No answer is nothing, nor is what the helper makes of one.
ASSUME AnswersAssumption ==
  \A i \in DOMAIN Certs, status \in {"pending", "complete", "rejected"} :
    /\ \A word \in {status, "0", "2"} : <<word>> # None
    /\ \A step \in {"submit", "check", "approve", "retrieve"} : XmlReply(i, status)[step] # None
    /\ \A op \in {"submit", "check", "approve"} : IsDoc(JsonResult(i, status, op))
    /\ IsDoc([certificate |-> <<Certs[i]>>])
    /\ None \notin {D!Issued(<<Certs[i]>>)} \cup {D!Deferred(<<Ids[i]>>, can_agent) : can_agent \in BOOLEAN}

\* A message is answered with a signed one.  A transaction is one request.
PkiStatus == [pending |-> "pending", complete |-> "success", rejected |-> "failure"]
ScepReply(message, i, books) ==
  [form |-> "signed", root |-> "CA", signers |-> 1, content |-> "data",
   payload |-> IF books[i].status = "complete" THEN Certs[i] ELSE None,
   attributes |-> [msgtype |-> "CertRep", tx |-> message.attributes.tx, senderNonce |-> "server",
                   recipientNonce |-> message.attributes.senderNonce, pkistatus |-> PkiStatus[books[i].status]]]
ScepServe(message) ==
  LET known == {i \in DOMAIN requests : requests[i].csr = message.csr}
      books == IF known # {} THEN {requests} ELSE {Book(message.csr, s) : s \in {"pending", "complete"}}
  IN  {[books |-> b, answer |-> ScepReply(message, IndexOf([i \in DOMAIN b |-> b[i].csr], message.csr), b)] : b \in books}

-----------------------------------------------------------------------------
(***************************************************************************)
(* The helper.                                                             *)
(***************************************************************************)
\* How it is called: with the cookie, and with messages not used before.
Unused(e) == e.scep_last_nonce = None \/ e.scep_last_nonce # e.scep_nonce
Environment(e, mode) ==
  IF kind = "SCEP"
  THEN [mode |-> mode, url |-> "u", racert |-> "RA", cacert |-> "CA", certs |-> None, prefer_non_renewal |-> FALSE,
        req |-> IF Unused(e) THEN e.scep_req ELSE None, req_rekey |-> IF Unused(e) THEN e.scep_req_next ELSE None]
  ELSE [mode |-> mode, op |-> "submit", savedstate |-> e.cookie, csr |-> <<e.csr>>, cert |-> None,
        serial |-> None, prefers_renewal |-> FALSE, force_new |-> FALSE, force_renew |-> FALSE, template |-> <<"t">>,
        eeurl |-> IF kind = "XML" THEN "ee" ELSE None, agenturl |-> IF kind = "XML" THEN "agent" ELSE None,
        jsonrpc |-> IF kind = "JSON" THEN "ipa" ELSE None, agent_submit |-> FALSE,
        aoptions |-> <<>>, soptions |-> <<>>, creds |-> <<>>, sslcert |-> IF agent THEN <<"n">> ELSE None]

\* What the server can make of it, and the exit status and output for the
\* answer, or for none.
Serve(h) ==
  CASE kind = "XML" -> UNION {XmlServe(form, D!StepFor(h)) : form \in {Last(D!FormsSent(h, [code |-> 0], <<>>))}}
    [] kind = "JSON" -> JsonServe(h, D!StepFor(h))
    [] kind = "SCEP" /\ CannotRequest(h) = None -> ScepServe(MessageToSend(h, <<"POSTPKIOperation", "Renewal">>))
    [] OTHER -> {[books |-> requests, answer |-> None]}
NonceSent(h) ==
  IF kind = "SCEP" /\ CannotRequest(h) = None
  THEN {MessageToSend(h, <<"POSTPKIOperation", "Renewal">>).attributes.senderNonce} ELSE {}
Run(h, code, doc) ==
  IF kind = "SCEP" THEN RunScep(h, [code |-> code, type |-> "application/x-pki-message", contents |-> doc])
  ELSE D!RunDogtag(h, [code |-> code, doc |-> doc], [code |-> code, doc |-> doc])
Heard(h, doc) == Run(h, IF kind = "JSON" THEN 200 ELSE 0, doc)
Unheard(h) == Run(h, IF kind = "JSON" THEN 0 ELSE 7, None)

-----------------------------------------------------------------------------
(***************************************************************************)
(* The daemon.  The request is saved whenever its state has changed.       *)
(***************************************************************************)
Becomes(e) == entry' = e /\ disk' = e
In(states) == entry.state \in states
To(e, state) == [e EXCEPT !.state = state]

\* A new signing request needs new messages.
GenerateCSR ==
  LET v == IF entry.csr = None THEN 1 ELSE 1 + IndexOf(Csrs, entry.csr) IN
  /\ In({"NEED_CSR", "HAVE_KEYINFO"}) /\ v <= Len(Csrs)
  /\ Becomes([To(entry, "HAVE_CSR") EXCEPT !.csr = Csrs[v], !.scep_tx = "t", !.scep_nonce = None,
              !.scep_last_nonce = None, !.scep_req = None, !.scep_gic = None,
              !.scep_req_next = None, !.scep_gic_next = None])
  /\ UNCHANGED <<setup, helper, orphan, server, users, faults>>

Message_(h) == IF kind = "SCEP" THEN {h.req, h.req_rekey} ELSE {}
NoncesOf(hs) == {m.attributes.senderNonce : m \in (UNION {Message_(x.h) : x \in hs \ {None}}) \ {None}}
Held == {entry.scep_nonce, entry.scep_last_nonce, disk.scep_nonce, disk.scep_last_nonce} \cup NoncesOf({helper, orphan})
FreshNonce == Min(Nonces \ Held)
CA == [encryption_cert |-> "RA", scep_cipher |-> None, scep_digest |-> None, capabilities |-> <<"AES", "SHA-256">>]

GenerateSCEP ==
  /\ In({"NEED_SCEP_DATA"})
  /\ ScepgenExit(CA, entry, "sha256") = "SUCCESS"
  /\ Becomes(To(cm_scepgen_o_save_scep(entry, FreshNonce), "HAVE_SCEP_DATA"))
  /\ sent' = [sent EXCEPT ![FreshNonce] = 0]
  /\ UNCHANGED <<setup, helper, orphan, requests, users, faults>>

\* The first attempt submits; once there is a cookie, the others poll.
cm_submit_e_start_Submits(e) == [h |-> Environment([e EXCEPT !.cookie = None], "SUBMIT"), exit |-> None]

cm_submit_e_start(e) == [h |-> Environment(e, IF e.cookie # None THEN "POLL" ELSE "SUBMIT"), exit |-> None]

Submitted_NonceForgotten(e) == To(e, "SUBMITTING")

Submitted(e) == [To(e, "SUBMITTING") EXCEPT !.scep_last_nonce = IF e.scep_nonce # None THEN e.scep_nonce ELSE @]
NEED_TO_SUBMIT ==
  /\ In({"NEED_TO_SUBMIT"})
  /\ helper' = cm_submit_e_start(entry)
  /\ Becomes(Submitted(entry))
  /\ UNCHANGED <<setup, orphan, server, users, faults>>

\* The cookie is for one attempt to get a certificate.
cm_submit_clear_ca_cookie_Not(e) == e

cm_submit_clear_ca_cookie(e) == [e EXCEPT !.cookie = None]
cm_submit_e_save_ca_cookie(e, exit) ==
  [e EXCEPT !.cookie = IF exit.status \in {"WAIT", "WAIT_WITH_DELAY"} THEN exit.cookie ELSE None]
Rejected(e) == To(e, IF e.cert # None THEN "MONITORING" ELSE "NEED_TO_NOTIFY_REJECTION")
Unreachable_Forgets(e) == To([e EXCEPT !.cookie = None], "CA_UNREACHABLE")

Unreachable(e) == To(e, "CA_UNREACHABLE")
Otherwise(e, exit) ==
  LET saved == cm_submit_e_save_ca_cookie(e, exit) IN
  CASE saved.cookie # None -> To(saved, "CA_WORKING")
    [] exit.status = "UNCONFIGURED" -> To(saved, IF e.cert # None THEN "MONITORING" ELSE "CA_UNCONFIGURED")
    [] exit.status = "NEED_SCEP_MESSAGES" -> To(saved, "NEED_SCEP_DATA")
    [] OTHER -> To(saved, "NEED_GUIDANCE")
Outcome_(e, exit) ==
  CASE exit.status = "ISSUED" ->
         [To(cm_submit_clear_ca_cookie(e), "NEED_TO_SAVE_CERT") EXCEPT !.cert = exit.cert]
    [] exit.status = "REJECTED" -> Rejected(cm_submit_clear_ca_cookie(e))
    [] exit.status = "UNREACHABLE" -> Unreachable(e)
    [] OTHER -> Otherwise(e, exit)
Read(exit) == IF kind = "SCEP" \/ exit.cert = None THEN exit ELSE [exit EXCEPT !.cert = @[1]]
SUBMITTING ==
  /\ In({"SUBMITTING"}) /\ helper # None /\ helper.exit # None
  /\ Becomes(Outcome_(entry, Read(helper.exit)))
  /\ helper' = None
  /\ UNCHANGED <<setup, orphan, server, users, faults>>

\* The cases between: timers, and what other modules have the detail of.
Rotated(e) == [e EXCEPT !.key = e.key_next, !.key_next = None]
Moves(e) ==
  CASE e.state \in {"HAVE_CSR", "HAVE_SCEP_DATA", "CA_WORKING", "CA_UNREACHABLE"} -> To(e, "NEED_TO_SUBMIT")
    [] e.state = "NEED_TO_NOTIFY_REJECTION" -> To(e, "CA_REJECTED")
    [] e.state = "NEED_TO_SAVE_CERT" /\ e.key_next # None -> Rotated(To(e, "MONITORING"))
    [] e.state = "NEED_TO_SAVE_CERT" /\ e.key_next = None -> To(e, "MONITORING")
Proceed ==
  /\ In({"HAVE_CSR", "HAVE_SCEP_DATA", "CA_WORKING", "CA_UNREACHABLE", "NEED_TO_NOTIFY_REJECTION", "NEED_TO_SAVE_CERT"})
  /\ Becomes(Moves(entry))
  /\ UNCHANGED <<setup, helper, orphan, server, users, faults>>
Renew ==
  /\ In({"MONITORING"}) /\ resubmits + renewals < MaxAgain
  /\ Becomes(To(entry, "NEED_CSR")) /\ renewals' = renewals + 1
  /\ UNCHANGED <<setup, helper, orphan, server, resubmits, faults>>

\* The user asks again; a helper that runs is waited for, and not listened to.
Resubmit ==
  /\ resubmits + renewals < MaxAgain /\ (helper # None => helper.exit # None)
  /\ Becomes(To(entry, "NEED_CSR")) /\ helper' = None /\ resubmits' = resubmits + 1
  /\ UNCHANGED <<setup, orphan, server, renewals, faults>>

\* The daemon goes away and comes back; its helper carries on.
Crash ==
  /\ crashes < MaxCrashes /\ orphan = None
  /\ orphan' = IF helper # None /\ helper.exit = None THEN helper ELSE None
  /\ helper' = None /\ Becomes(To(disk, Reset(disk.state))) /\ crashes' = crashes + 1
  /\ UNCHANGED <<setup, server, users, losses, unsaved, unheard>>
CrashAfterStart ==
  /\ crashes < MaxCrashes /\ orphan = None /\ In({"NEED_TO_SUBMIT"})
  /\ orphan' = cm_submit_e_start(entry)
  /\ Becomes(To(disk, Reset(disk.state))) /\ crashes' = crashes + 1 /\ unsaved' = unsaved + 1
  /\ UNCHANGED <<setup, helper, server, users, losses, unheard>>

-----------------------------------------------------------------------------
\* The helper and the server talk; a request or an answer can get lost.
Talking == {x \in {helper} : x # None /\ x.exit = None}
Reaches(h, r) ==
  /\ Len(r.books) <= Len(Certs)
  /\ requests' = r.books
  /\ sent' = [n \in Nonces |-> sent[n] + Cardinality({n} \cap NonceSent(h))]
Exchange ==
  /\ \E x \in Talking : \E r \in Serve(x.h) : Reaches(x.h, r) /\ helper' = [x EXCEPT !.exit = Heard(x.h, r.answer)]
  /\ UNCHANGED <<setup, entry, disk, orphan, users, faults>>
LoseRequest ==
  /\ losses < MaxLosses
  /\ \E x \in Talking : helper' = [x EXCEPT !.exit = Unheard(x.h)]
  /\ losses' = losses + 1
  /\ UNCHANGED <<setup, entry, disk, orphan, server, users, crashes, unsaved, unheard>>
LoseAnswer ==
  /\ losses < MaxLosses
  /\ \E x \in Talking : \E r \in Serve(x.h) :
       /\ Reaches(x.h, r) /\ helper' = [x EXCEPT !.exit = Unheard(x.h)]
       /\ unheard' = unheard + (Len(r.books) - Len(requests))
  /\ losses' = losses + 1
  /\ UNCHANGED <<setup, entry, disk, orphan, users, crashes, unsaved>>
OrphanExchanges ==
  /\ \E x \in {orphan} \ {None} : \E r \in Serve(x.h) : Reaches(x.h, r)
  /\ orphan' = None
  /\ UNCHANGED <<setup, entry, disk, helper, users, faults>>
Decide ==
  /\ \E i \in DOMAIN requests, s \in {"complete", "rejected"} :
       requests[i].status = "pending" /\ requests' = [requests EXCEPT ![i].status = s]
  /\ UNCHANGED <<setup, entry, disk, helper, orphan, sent, users, faults>>

Daemon == GenerateCSR \/ GenerateSCEP \/ NEED_TO_SUBMIT \/ SUBMITTING \/ Proceed
Next ==
  \/ GenerateCSR \/ GenerateSCEP \/ NEED_TO_SUBMIT \/ SUBMITTING \/ Proceed
  \/ Renew \/ Resubmit \/ Crash \/ CrashAfterStart
  \/ Exchange \/ LoseRequest \/ LoseAnswer \/ OrphanExchanges \/ Decide

\* The daemon's timers and descriptors fire, a helper that talks to the server
\* ends, and the CA decides in the end.
Spec == Init /\ [][Next]_vars /\ WF_vars(Daemon) /\ WF_vars(Exchange) /\ WF_vars(Decide)

-----------------------------------------------------------------------------
\* Without a resubmission, the certificate that is taken for the answer (iterate.c:1028)
\* is one the CA issued for the signing request that the daemon has now: no
\* number, cookie or reply leads to another request's or another client's.
TakenIsForTheRequest ==
  entry.state = "NEED_TO_SAVE_CERT" /\ resubmits = 0 =>
    \E i \in DOMAIN requests : Certs[i] = entry.cert /\ requests[i] = [csr |-> entry.csr, status |-> "complete"]

\* A signing request is submitted again (submit-e.c:1064) only if the answer to a
\* submission was lost or the daemon was gone when it came.
SubmittedOnce ==
  \A i \in DOMAIN requests :
    Cardinality({j \in DOMAIN requests : requests[j].csr = requests[i].csr}) <= 1 + unheard + crashes

\* The CA gets two messages with the same nonce (iterate.c:914) only if the daemon
\* went away after it had started the helper and before it had saved that.
NoncesAreFresh == \A n \in Nonces : sent[n] <= 1 + unsaved

\* A request that is reported as rejected was rejected by the CA, except where
\* a form asked for the state of a request (dogtag.c:505).
RejectedByTheCA ==
  entry.state = "NEED_TO_NOTIFY_REJECTION" /\ (kind # "XML" \/ agent) =>
    \E i \in DOMAIN requests : requests[i].status = "rejected"

\* The same without the exception: "Check if the certificate has been issued or
\* rejected" (dogtag.c:290).
RejectedMeansRejected ==
  entry.state = "NEED_TO_NOTIFY_REJECTION" => \E i \in DOMAIN requests : requests[i].status = "rejected"

\* With an end to losses and crashes, and a CA that decides, every attempt comes
\* to an end: the request has its certificate or is rejected (iterate.c:1018-1150).
AttemptsEnd == entry.state = "NEED_TO_SUBMIT" ~> entry.state \in {"MONITORING", "CA_REJECTED"}
=============================================================================
