-------------------------------- MODULE Scep ---------------------------------
(***************************************************************************)
(* Enrollment with SCEP: the messages the daemon signs for a request       *)
(* (scepgen-o.c), and the helper that sends one of them to the server and  *)
(* reads the reply (scep.c).                                               *)
(*                                                                         *)
(* A capability is a string.  A key is a name, and the signer of a message *)
(* is a key and the kind of certificate that goes with it: the one issued  *)
(* before ("old"), or one self-signed with the CSR ("mini").               *)
(***************************************************************************)
EXTENDS Pkcs7, TLC

(***************************************************************************)
(* Making the messages.  The cipher and the digest are those configured,   *)
(* or what the CA says it can do, or a default.                            *)
(***************************************************************************)
FirstAmong(list, map, default) ==
    LET known == {i \in DOMAIN list : list[i] \in DOMAIN map}
    IN  IF known = {} THEN default ELSE map[list[Min(known)]]
CipherOf == ("AES-256" :> "aes256") @@ ("AES256" :> "aes256") @@ ("AES-192" :> "aes192") @@ ("AES192" :> "aes192")
            @@ ("AES-128" :> "aes128") @@ ("AES128" :> "aes128") @@ ("AES" :> "aes256")
            @@ ("DES3" :> "des3") @@ ("DES" :> "des")
ConfiguredCipher == ("AES256" :> "aes256") @@ ("AES192" :> "aes192") @@ ("AES128" :> "aes128")
                    @@ ("DES3" :> "des3") @@ ("DES" :> "des")
Cipher(ca) ==
    IF ca.scep_cipher # None THEN FirstAmong(<<ca.scep_cipher>>, ConfiguredCipher, None)
    ELSE FirstAmong(ca.capabilities, CipherOf, "aes256")

DigestOf(preferred) ==
    CASE preferred = "sha512" -> ("SHA-512" :> "sha512") @@ ("SHA512" :> "sha512")
      [] preferred = "sha384" -> ("SHA-384" :> "sha384") @@ ("SHA384" :> "sha384")
      [] preferred = "sha256" -> ("SHA-256" :> "sha256") @@ ("SHA256" :> "sha256")
      [] preferred = "sha1" -> ("SHA-1" :> "sha1") @@ ("SHA1" :> "sha1") @@ ("MD5" :> "md5")
      [] OTHER -> <<>>
ConfiguredDigest == ("SHA512" :> "sha512") @@ ("SHA384" :> "sha384") @@ ("SHA256" :> "sha256")
                    @@ ("SHA1" :> "sha1") @@ ("MD5" :> "md5")
Digest(ca, preferred) ==
    IF ca.scep_digest # None THEN FirstAmong(<<ca.scep_digest>>, ConfiguredDigest, None)
    ELSE FirstAmong(ca.capabilities, DigestOf(preferred), "sha256")

build_pkimessage(e, signer, type, nonce) ==
    [form |-> "signed", signer |-> signer, signers |-> 1, content |-> "data", csr |-> e.csr,
     attributes |-> [tx |-> e.scep_tx, msgtype |-> type, senderNonce |-> nonce]]

\* The old key signs with the certificate there is, or, when the key stays, with
\* the minicert; a new key signs with the minicert.
MessagesFor(e, nonce, type) ==
    [old |-> IF e.cert # None THEN build_pkimessage(e, <<e.key, "old">>, type, nonce)
             ELSE IF e.key_next = None THEN build_pkimessage(e, <<e.key, "mini">>, type, nonce)
             ELSE None,
     new |-> IF e.key_next # None THEN build_pkimessage(e, <<e.key_next, "mini">>, type, nonce) ELSE None]
ScepgenExit(ca, e, preferred) ==
    IF ca.encryption_cert = None THEN "NEED_SCEP_DATA"
    ELSE IF e.key_type # "RSA" THEN "ERROR_KEY_TYPE"
    ELSE IF Cipher(ca) = None \/ Digest(ca, preferred) = None THEN "INTERNAL_ERROR"
    ELSE "SUCCESS"
cm_scepgen_o_save_scep(e, nonce) ==
    LET requests == MessagesFor(e, nonce, "PKCSReq")
        polls == MessagesFor(e, nonce, "GetCertInitial")
    IN  [e EXCEPT !.scep_nonce = nonce, !.scep_req = requests.old, !.scep_gic = polls.old,
                  !.scep_req_next = requests.new, !.scep_gic_next = polls.new]

(***************************************************************************)
(* The helper.  "h" is its environment and options, an answer the code of  *)
(* the transport's error (0: none), the status, the type and the contents. *)
(***************************************************************************)
\* What a line of the right length is compared with is not the line, but the
\* capability itself.
check_capability(list, capability) == \E i \in DOMAIN list : Len(list[i]) = Len(capability)

OperationOf(mode) ==
    CASE mode = "SUBMIT" -> "pkcsreq" [] mode = "POLL" -> "get_cert_initial"
      [] mode = "FETCH-SCEP-CA-CERTS" -> "get_ca_certs" [] mode = "FETCH-SCEP-CA-CAPS" -> "get_ca_caps"

\* To submit and to poll, the message of the new key if there is one, and that of
\* the old key besides it.
Message(h) == IF h.req_rekey # None THEN h.req_rekey ELSE h.req
OldKeyMessage(h) == IF h.req_rekey # None THEN h.req ELSE None
MessageToSend(h, caps) ==
    IF check_capability(caps, "Renewal") /\ ~h.prefer_non_renewal /\ OldKeyMessage(h) # None
    THEN OldKeyMessage(h) ELSE Message(h)
CannotRequest(h) == IF h.url = None \/ h.racert = None THEN "UNCONFIGURED"
                    ELSE IF Message(h) = None THEN "NEED_SCEP_MESSAGES" ELSE None

\* Which certificates vouch for the reply: the CA's, and the top of the others.
RootsFor(h) ==
    LET others == cm_pkcs7_parsev(<<h.certs>>, FALSE, FALSE)
        top == IF h.cacert = None /\ others.top = None /\ others.leaf # None /\ cm_selfsigned(others.leaf)
               THEN others.leaf ELSE others.top
    IN  IF h.certs = None THEN {h.cacert} \ {None} ELSE {h.cacert, top} \ {None}

\* The reply must be signed, be a reply, and be to what was sent.
Outcome(status, cookie, cert) == [status |-> status, cookie |-> cookie, cert |-> cert]
Unreadable(sent, reply, roots) ==
    \/ ~cm_pkcs7_verify_signed(reply, roots)
    \/ Attribute(reply, "msgtype") # "CertRep"
    \/ Attribute(reply, "tx") # Attribute(sent, "tx")
    \/ Attribute(reply, "recipientNonce") # Attribute(sent, "senderNonce")
    \/ Attribute(reply, "senderNonce") = None
ReadReply(sent, reply, roots) ==
    IF Unreadable(sent, reply, roots) THEN Outcome("UNREACHABLE", None, None)
    ELSE CASE Attribute(reply, "pkistatus") = "pending" -> Outcome("WAIT", Attribute(reply, "senderNonce"), None)
           [] Attribute(reply, "pkistatus") = "failure" -> Outcome("REJECTED", None, None)
           [] Attribute(reply, "pkistatus") = "success" /\ reply.payload # None ->
                Outcome("ISSUED", None, reply.payload)
           [] OTHER -> Outcome("UNREACHABLE", None, None)

\* The exit, when these are the capabilities, and this the answer to the message.
RunScep(h, answer) ==
    IF CannotRequest(h) # None THEN Outcome(CannotRequest(h), None, None)
    ELSE IF answer.code # 0 \/ answer.type # "application/x-pki-message" THEN Outcome("UNREACHABLE", None, None)
    ELSE ReadReply(Message(h), answer.contents, RootsFor(h))

(***************************************************************************)
(* What a server can do, and its certificates.  Dogtag gives one at a      *)
(* time, by number, and the helper counts until it gets no more.           *)
(***************************************************************************)
LongestCapabilities == 1024
LongestChain == 32
CertType == "application/x-x509-ca-cert"
FetchFailure(answer) ==
    IF answer.code # 0 \/ answer.status = 500 THEN "UNREACHABLE"
    ELSE IF answer.status # 200 \/ answer.contents = None THEN "REJECTED" ELSE None
FetchCapabilities(answer) ==
    IF FetchFailure(answer) # None THEN FetchFailure(answer)
    ELSE IF answer.length > LongestCapabilities THEN "REJECTED" ELSE "ISSUED"

NotAnother(answers, known, i) ==
    \/ i > LongestChain
    \/ i > Len(answers)
    \/ answers[i].type \notin {None, CertType}
    \/ answers[i].status # 200
    \/ answers[i].contents \in {None} \cup known \cup {answers[j].contents : j \in 1..(i - 1)}
Walk(answers, known) ==
    LET ends == Min({i \in 1..(Len(answers) + 1) : NotAnother(answers, known, i)})
    IN  [i \in 1..(ends - 1) |-> answers[i].contents]
AsData(cert) == [form |-> "certificate", certs |-> <<cert>>]
Listed(cert) == IF cert = None THEN <<>> ELSE <<cert>>
\* Those that are known go first, and what the server gives in their place last.
CertificateList(h, parsed) ==
    LET racert == IF h.racert = None THEN parsed.leaf ELSE h.racert
        cacert == IF h.cacert = None THEN parsed.top ELSE h.cacert
        first == Listed(racert) \o Listed(cacert) \o parsed.others
        instead == SelectSeq((IF h.racert = None THEN <<>> ELSE Listed(parsed.leaf))
                             \o (IF h.cacert = None THEN <<>> ELSE Listed(parsed.top)),
                             LAMBDA c : c \notin Range(first))
    IN  IF racert = None THEN <<>> ELSE IF cacert = None THEN <<racert>> ELSE first \o instead
FetchCertificates(h, answer, answers) ==
    LET known == [i \in DOMAIN (Listed(h.racert) \o Listed(h.cacert)) |-> AsData((Listed(h.racert) \o Listed(h.cacert))[i])]
                 \o <<answer.contents>>
        walked == IF h.id = "0" /\ answer.type = CertType THEN Walk(answers, Range(known)) ELSE <<>>
    IN  IF FetchFailure(answer) # None THEN [status |-> FetchFailure(answer), certs |-> <<>>]
        ELSE IF answer.type \notin {CertType, "application/x-x509-ca-ra-cert"} THEN
                 [status |-> "UNREACHABLE", certs |-> <<>>]
        ELSE [status |-> "ISSUED", certs |-> CertificateList(h, cm_pkcs7_parsev(known \o walked, TRUE, FALSE))]
=============================================================================
