-------------------------- MODULE EnrollmentProofs --------------------------
(***************************************************************************)
(* Proofs about enrollment, for any numbers of signing requests, losses,   *)
(* crashes and renewals: the CA does not get two messages with one nonce,  *)
(* what is taken for the certificate is the CA's for this signing request, *)
(* a rejection is the CA's, and nothing is submitted twice but for a loss  *)
(* or a crash.  First the nonces (NonceInv), then what the daemon, its     *)
(* helpers and the CA's books have to do with each other (ProtocolInv),    *)
(* then how often the CA is asked (CountInv).                              *)
(***************************************************************************)
EXTENDS Enrollment, FiniteSetTheorems, SequenceTheorems, WellFoundedInduction, TLAPS

\* The fields of a request, of its messages and of the CA's books.
Fields == {"state", "csr", "cert", "cookie", "key", "key_next", "key_type", "scep_tx", "scep_nonce",
           "scep_last_nonce", "scep_req", "scep_gic", "scep_req_next", "scep_gic_next"}
IsEntry(e) == e = [f \in Fields |-> e[f]]
IsHelper(x) == x = [h |-> x.h, exit |-> x.exit]

Statuses == {"pending", "complete", "rejected"}
CsrsHeld == {None} \cup Range(Csrs)
Book_ == [csr : CsrsHeld, status : Statuses]

\* All messages that a request or a helper has are for one nonce.
Uses(m, nonce) == m.attributes.senderNonce = nonce /\ m.csr \in CsrsHeld
MessagesUse(messages, nonce) == \A m \in messages \ {None} : Uses(m, nonce)
IsScepHelper(x) ==
  /\ x.h.url = "u" /\ x.h.racert = "RA" /\ x.h.cacert = "CA" /\ x.h.certs = None
  /\ \E nonce : MessagesUse({x.h.req, x.h.req_rekey}, nonce)

ScepTypeOK ==
  /\ entry.csr \in CsrsHeld
  /\ MessagesUse({entry.scep_req, entry.scep_req_next}, entry.scep_nonce)
  /\ \A x \in {helper, orphan} : x # None => IsScepHelper(x)
  /\ requests \in Seq(Book_) /\ Len(requests) <= Len(Certs)

EnrollTypeOK ==
  /\ kind \in {"XML", "JSON", "SCEP"}
  /\ IsEntry(entry) /\ disk = entry
  /\ \A x \in {helper, orphan} : x # None => IsHelper(x)
  /\ orphan # None => orphan.exit = None
  /\ sent \in [Nonces -> Nat] /\ unsaved \in Nat
  /\ kind = "SCEP" => ScepTypeOK

\* Who can send a message with the nonce n from now on: the next helper, the
\* helper that runs, and the one that the daemon has left behind.  Those and the
\* messages that were sent are no more than one, but for crashes in between.
Caps == <<"POSTPKIOperation", "Renewal">>
Count(p) == IF p THEN 1 ELSE 0
NonceFor(k, h) ==
  IF k = "SCEP" /\ CannotRequest(h) = None
  THEN {MessageToSend(h, Caps).attributes.senderNonce} ELSE {}
MayUse(e, n) == e.scep_nonce = n /\ Unused(e)
WillSend(k, x, n) == x # None /\ x.exit = None /\ n \in NonceFor(k, x.h)
Accounted(n) ==
  sent[n] + Count(MayUse(entry, n)) + Count(WillSend(kind, helper, n)) + Count(WillSend(kind, orphan, n))
    <= 1 + unsaved
NonceInv == EnrollTypeOK /\ \A n \in Nonces : Accounted(n)

-----------------------------------------------------------------------------
(***************************************************************************)
(* What the steps do to the fields of a request.                           *)
(***************************************************************************)
LEMMA SetLemma ==
  ASSUME NEW e, IsEntry(e), NEW k \in Fields, NEW v
  PROVE  /\ IsEntry([e EXCEPT ![k] = v]) /\ [e EXCEPT ![k] = v][k] = v
         /\ \A f \in Fields \ {k} : [e EXCEPT ![k] = v][f] = e[f]
BY DEF IsEntry

ScepFields == {"csr", "scep_nonce", "scep_last_nonce", "scep_req", "scep_req_next"}
SameScep(g, e) == IsEntry(g) /\ \A f \in ScepFields : g[f] = e[f]

\* Setting another field leaves those of the messages alone.
LEMMA SetOtherLemma ==
  ASSUME NEW e, NEW g, SameScep(g, e), NEW k \in Fields \ ScepFields, NEW v
  PROVE  SameScep([g EXCEPT ![k] = v], e)
<1>1. IsEntry(g) /\ k \in Fields /\ ScepFields \subseteq Fields \ {k}
  BY DEF SameScep, Fields, ScepFields
<1>2. QED
  BY <1>1, SetLemma DEF SameScep

\* Those that the steps set are others.
LEMMA FieldsLemma ==
  /\ {"state", "cert", "cookie", "key", "key_next"} \subseteq Fields \ ScepFields
  /\ ScepFields \subseteq Fields
BY DEF Fields, ScepFields

\* A change of state is one of those.
LEMMA ToLemma ==
  ASSUME NEW e, NEW g, SameScep(g, e), NEW s
  PROVE  SameScep(To(g, s), e)
BY SetOtherLemma, FieldsLemma DEF To

\* Submitting only uses up the nonce.
LEMMA SubmittedLemma ==
  ASSUME NEW e, IsEntry(e)
  PROVE  /\ IsEntry(Submitted(e))
         /\ \A f \in ScepFields \ {"scep_last_nonce"} : Submitted(e)[f] = e[f]
         /\ Submitted(e).scep_last_nonce = IF e.scep_nonce # None THEN e.scep_nonce ELSE e.scep_last_nonce
<1>1. SameScep(To(e, "SUBMITTING"), e)
  BY ToLemma DEF SameScep
<1>2. IsEntry(To(e, "SUBMITTING")) /\ "scep_last_nonce" \in Fields /\ "scep_last_nonce" \in ScepFields
  BY <1>1 DEF SameScep, Fields, ScepFields
<1>3. QED
  BY <1>1, <1>2, SetLemma, FieldsLemma DEF Submitted, SameScep

\* What comes of a helper's end leaves messages and nonces alone.
LEMMA OutcomeLemma ==
  ASSUME NEW e, IsEntry(e), NEW exit
  PROVE  SameScep(Outcome_(e, exit), e)
<1>1. SameScep(e, e)
  BY DEF SameScep
<1>2. ASSUME NEW c PROVE SameScep([e EXCEPT !.cookie = c], e)
  BY <1>1, SetOtherLemma, FieldsLemma
<1>5. CASE exit.status = "ISSUED"
  <2>1. Outcome_(e, exit) = [To([e EXCEPT !.cookie = None], "NEED_TO_SAVE_CERT") EXCEPT !.cert = exit.cert]
    BY <1>5 DEF Outcome_, cm_submit_clear_ca_cookie
  <2>2. QED
    BY <2>1, <1>2, ToLemma, SetOtherLemma, FieldsLemma
<1>6. CASE exit.status = "REJECTED"
  BY <1>6, <1>2, ToLemma DEF Outcome_, cm_submit_clear_ca_cookie, Rejected
<1>7. CASE exit.status = "UNREACHABLE"
  BY <1>7, <1>1, ToLemma DEF Outcome_, Unreachable
<1>8. CASE exit.status \notin {"ISSUED", "REJECTED", "UNREACHABLE"}
  <2> DEFINE saved == cm_submit_e_save_ca_cookie(e, exit)
  <2>1. SameScep(saved, e)
    BY <1>2 DEF cm_submit_e_save_ca_cookie
  <2>2. \E s : Outcome_(e, exit) = To(saved, s)
    <3>1. Outcome_(e, exit) = Otherwise(e, exit)
      BY <1>8 DEF Outcome_
    <3>2. \E s : Otherwise(e, exit) = To(saved, s)
      BY DEF Otherwise
    <3>3. QED
      BY <3>1, <3>2
  <2> HIDE DEF saved
  <2>3. QED
    BY <2>1, <2>2, ToLemma
<1>9. QED
  BY <1>5, <1>6, <1>7, <1>8

\* cm_scepgen_o_save_scep stores the messages and the nonce that they use.
LEMMA SaveScepLemma ==
  ASSUME NEW e, IsEntry(e), NEW n
  PROVE  LET g == cm_scepgen_o_save_scep(e, n)
             m == MessagesFor(e, n, "PKCSReq")
         IN  /\ IsEntry(g)
             /\ g.scep_nonce = n /\ g.scep_req = m.old /\ g.scep_req_next = m.new
             /\ g.scep_last_nonce = e.scep_last_nonce /\ g.csr = e.csr
BY DEF IsEntry, Fields, cm_scepgen_o_save_scep

\* Both messages use the nonce that was chosen for them.
LEMMA MessagesForLemma ==
  ASSUME NEW e, NEW n, e.csr \in CsrsHeld
  PROVE  MessagesUse({MessagesFor(e, n, "PKCSReq").old, MessagesFor(e, n, "PKCSReq").new}, n)
BY DEF MessagesUse, Uses, MessagesFor, build_pkimessage

\* Moving on without a helper leaves messages and nonces alone.
LEMMA MovesLemma ==
  ASSUME NEW e, IsEntry(e),
         e.state \in {"HAVE_CSR", "HAVE_SCEP_DATA", "CA_WORKING", "CA_UNREACHABLE",
                      "NEED_TO_NOTIFY_REJECTION", "NEED_TO_SAVE_CERT"}
  PROVE  SameScep(Moves(e), e)
<1>1. SameScep(e, e)
  BY DEF SameScep
<1>2. ASSUME NEW g, SameScep(g, e) PROVE SameScep(Rotated(g), e)
  <2> DEFINE k == [g EXCEPT !.key = g.key_next]
  <2>1. SameScep(k, e)
    BY <1>2, SetOtherLemma, FieldsLemma
  <2>2. Rotated(g) = [k EXCEPT !.key_next = None]
    BY DEF Rotated
  <2> HIDE DEF k
  <2>3. QED
    BY <2>1, <2>2, SetOtherLemma, FieldsLemma
<1>3. CASE e.state = "NEED_TO_SAVE_CERT" /\ e.key_next # None
  <2>1. Moves(e) = Rotated(To(e, "MONITORING"))
    BY <1>3 DEF Moves
  <2>2. QED
    BY <2>1, <1>1, <1>2, ToLemma
<1>4. CASE ~(e.state = "NEED_TO_SAVE_CERT" /\ e.key_next # None)
  <2>1. \E s : Moves(e) = To(e, s)
    BY <1>4 DEF Moves
  <2>2. QED
    BY <1>1, <2>1, ToLemma
<1>5. QED
  BY <1>3, <1>4

-----------------------------------------------------------------------------
(***************************************************************************)
(* The messages of a helper and the server's answers.                      *)
(***************************************************************************)
LEMMA OutcomeIsThere ==
  ASSUME NEW status \in ScepStatuses, NEW cookie \in {None, "server"}, NEW cert \in {None} \cup STRING
  PROVE  Outcome(status, cookie, cert) # None
BY NoneAssumption DEF Outcome

\* What the model writes for a URL, a certificate and an outcome is there.
LEMMA NamesAreThere == "u" # None /\ "RA" # None /\ \A s \in ScepStatuses : s # None
BY NoneAssumption

\* A helper that can send a message has that message.
LEMMA MessageLemma ==
  ASSUME NEW h, CannotRequest(h) = None
  PROVE  MessageToSend(h, Caps) \in {h.req, h.req_rekey} \ {None}
<1>1. Message(h) # None
  BY NamesAreThere DEF CannotRequest, ScepStatuses
<1>2. QED
  BY <1>1 DEF Message, OldKeyMessage, MessageToSend

\* It can only use the nonce that the message was made with.
LEMMA NonceSentLemma ==
  ASSUME NEW k, NEW h, NEW nonce, MessagesUse({h.req, h.req_rekey}, nonce)
  PROVE  NonceFor(k, h) \subseteq {nonce}
<1>1. CASE k = "SCEP" /\ CannotRequest(h) = None
  <2>1. MessageToSend(h, Caps).attributes.senderNonce = nonce
    BY <1>1, MessageLemma DEF MessagesUse, Uses
  <2>2. QED
    BY <1>1, <2>1 DEF NonceFor
<1>2. CASE ~(k = "SCEP" /\ CannotRequest(h) = None)
  BY <1>2 DEF NonceFor
<1>3. QED
  BY <1>1, <1>2

\* A helper that has just started has not ended.
LEMMA StartedLemma ==
  ASSUME NEW e
  PROVE  IsHelper(cm_submit_e_start(e)) /\ cm_submit_e_start(e).exit = None
<1>1. \E h : cm_submit_e_start(e) = [h |-> h, exit |-> None]
  BY DEF cm_submit_e_start
<1>2. QED
  BY <1>1 DEF IsHelper

\* A helper can send the request's nonce, if that was not used before.
LEMMA StartLemma ==
  ASSUME kind = "SCEP", NEW e,
         MessagesUse({e.scep_req, e.scep_req_next}, e.scep_nonce)
  PROVE  /\ IsScepHelper(cm_submit_e_start(e))
         /\ NonceFor("SCEP", cm_submit_e_start(e).h) \subseteq IF Unused(e) THEN {e.scep_nonce} ELSE {}
<1> DEFINE x == cm_submit_e_start(e)
<1>1. \E mode : x = [h |-> Environment(e, mode), exit |-> None]
  BY DEF cm_submit_e_start
<1>2. PICK mode : x = [h |-> Environment(e, mode), exit |-> None]
  BY <1>1
<1>3. x.h = [mode |-> mode, url |-> "u", racert |-> "RA", cacert |-> "CA", certs |-> None, prefer_non_renewal |-> FALSE,
        req |-> IF Unused(e) THEN e.scep_req ELSE None, req_rekey |-> IF Unused(e) THEN e.scep_req_next ELSE None]
  BY <1>2 DEF Environment
<1> HIDE DEF x
<1>4. MessagesUse({x.h.req, x.h.req_rekey}, e.scep_nonce)
  BY <1>3 DEF MessagesUse
<1>5. IsScepHelper(x)
  BY <1>2, <1>3, <1>4 DEF IsScepHelper
<1>6. CASE Unused(e)
  BY <1>4, <1>5, <1>6, NonceSentLemma DEF x
<1>7. CASE ~Unused(e)
  <2>1. x.h.req = None /\ x.h.req_rekey = None
    BY <1>3, <1>7
  <2>2. CannotRequest(x.h) \in ScepStatuses
    BY <2>1 DEF CannotRequest, Message, ScepStatuses
  <2>3. NonceFor("SCEP", x.h) = {}
    BY <2>2, NamesAreThere DEF NonceFor
  <2>4. QED
    BY <2>3, <1>5, <1>7 DEF x
<1>8. QED
  BY <1>6, <1>7

\* IndexOf finds what is in a list.
LEMMA IndexLemma ==
  ASSUME NEW list, NEW i \in DOMAIN list
  PROVE  IndexOf(list, list[i]) \in DOMAIN list /\ list[IndexOf(list, list[i])] = list[i]
BY DEF IndexOf

ScepAnswers(h, r) ==
  /\ r.books \in Seq(Book_)
  /\ \E i \in DOMAIN r.books :
       /\ r.books[i].csr = MessageToSend(h, Caps).csr
       /\ r.answer = ScepReply(MessageToSend(h, Caps), i, r.books)

\* The SCEP server answers about the request that the message is about.
LEMMA ScepServeLemma ==
  ASSUME NEW message, message.csr \in CsrsHeld, requests \in Seq(Book_), NEW r \in ScepServe(message)
  PROVE  /\ r.books \in Seq(Book_)
         /\ \E i \in DOMAIN r.books :
              r.books[i].csr = message.csr /\ r.answer = ScepReply(message, i, r.books)
<1> DEFINE known == {i \in DOMAIN requests : requests[i].csr = message.csr}
           books == IF known # {} THEN {requests} ELSE {Book(message.csr, s) : s \in {"pending", "complete"}}
           Csr(b) == [i \in DOMAIN b |-> b[i].csr]
<1>1. PICK b \in books : r = [books |-> b, answer |-> ScepReply(message, IndexOf(Csr(b), message.csr), b)]
  BY DEF ScepServe
<1>2. b \in Seq(Book_) /\ \E j \in DOMAIN b : b[j].csr = message.csr
  <2>1. CASE known # {}
    BY <1>1, <2>1
  <2>2. CASE known = {}
    <3>1. PICK s \in {"pending", "complete"} : b = Append(requests, [csr |-> message.csr, status |-> s])
      BY <1>1, <2>2 DEF Book
    <3>2. [csr |-> message.csr, status |-> s] \in Book_
      BY DEF Book_, Statuses
    <3>3. b \in Seq(Book_) /\ Len(b) = Len(requests) + 1 /\ b[Len(b)] = [csr |-> message.csr, status |-> s]
      BY <3>1, <3>2
    <3>4. Len(b) \in DOMAIN b
      BY <3>3
    <3>5. QED
      BY <3>3, <3>4
  <2>3. QED
    BY <2>1, <2>2
<1>3. PICK j \in DOMAIN b : b[j].csr = message.csr
  BY <1>2
<1>4. DOMAIN Csr(b) = DOMAIN b /\ \A k \in DOMAIN b : Csr(b)[k] = b[k].csr
  OBVIOUS
<1>5. IndexOf(Csr(b), message.csr) \in DOMAIN b /\ b[IndexOf(Csr(b), message.csr)].csr = message.csr
  <2> DEFINE c == Csr(b)
  <2>1. j \in DOMAIN c /\ c[j] = message.csr
    BY <1>3, <1>4
  <2> HIDE DEF c
  <2>2. IndexOf(c, message.csr) \in DOMAIN c /\ c[IndexOf(c, message.csr)] = message.csr
    BY <2>1, IndexLemma
  <2>3. QED
    BY <2>2, <1>4 DEF c
<1>6. QED
  BY <1>1, <1>2, <1>5

\* The answer tells how the request stands; with the certificate comes the end.
LEMMA ScepHeardLemma ==
  ASSUME kind = "SCEP", NEW h, CannotRequest(h) = None, NEW books \in Seq(Book_), NEW i \in DOMAIN books,
         Len(books) <= Len(Certs), NEW message
  PROVE  LET exit == Heard(h, ScepReply(message, i, books))
         IN  /\ exit # None
             /\ exit.status = "REJECTED" => books[i].status = "rejected"
             /\ exit.status = "ISSUED" => books[i].status = "complete" /\ exit.cert = Certs[i]
<1> DEFINE reply == ScepReply(message, i, books)
<1>1. Heard(h, reply) = ReadReply(Message(h), reply, RootsFor(h))
  BY DEF Heard, Run, RunScep
<1>2. Certs[i] \in STRING /\ books[i].status \in Statuses
  <2>1. Certs \in Seq(STRING)
    BY EnrollmentAssumption
  <2>2. i \in 1..Len(Certs) /\ books[i] \in Book_
    BY <2>1
  <2>3. QED
    BY <2>1, <2>2 DEF Book_
<1>3. /\ reply.payload = IF books[i].status = "complete" THEN Certs[i] ELSE None
      /\ Attribute(reply, "senderNonce") \in {None, "server"}
      /\ Attribute(reply, "pkistatus") \in {None, PkiStatus[books[i].status]}
  BY DEF Attribute, ScepReply
<1>4. PkiStatus[books[i].status] = IF books[i].status = "pending" THEN "pending" ELSE
        IF books[i].status = "complete" THEN "success" ELSE "failure"
  BY <1>2 DEF PkiStatus, Statuses
<1> HIDE DEF reply
<1>5. CASE ReadReply(Message(h), reply, RootsFor(h)) = Outcome("UNREACHABLE", None, None)
  <2>1. Outcome("UNREACHABLE", None, None) # None
    BY OutcomeIsThere DEF ScepStatuses
  <2>2. QED
    BY <2>1, <1>5, <1>1 DEF Outcome, reply
<1>6. CASE ReadReply(Message(h), reply, RootsFor(h)) = Outcome("WAIT", Attribute(reply, "senderNonce"), None)
  <2>1. Outcome("WAIT", Attribute(reply, "senderNonce"), None) # None
    BY OutcomeIsThere, <1>3 DEF ScepStatuses
  <2>2. QED
    BY <2>1, <1>6, <1>1 DEF Outcome, reply
<1>7. CASE /\ ReadReply(Message(h), reply, RootsFor(h)) = Outcome("REJECTED", None, None)
           /\ Attribute(reply, "pkistatus") = "failure"
  <2>1. Outcome("REJECTED", None, None) # None
    BY OutcomeIsThere DEF ScepStatuses
  <2>2. books[i].status = "rejected"
    BY <1>7, <1>3, <1>4, <1>2, NoneAssumption DEF Statuses
  <2>3. QED
    BY <2>1, <2>2, <1>7, <1>1 DEF Outcome, reply
<1>8. CASE /\ ReadReply(Message(h), reply, RootsFor(h)) = Outcome("ISSUED", None, reply.payload)
           /\ Attribute(reply, "pkistatus") = "success"
  <2>1. books[i].status = "complete" /\ reply.payload = Certs[i]
    BY <1>8, <1>3, <1>4, <1>2, NoneAssumption DEF Statuses
  <2>2. Outcome("ISSUED", None, reply.payload) # None
    BY OutcomeIsThere, <2>1, <1>2 DEF ScepStatuses
  <2>3. QED
    BY <2>1, <2>2, <1>8, <1>1 DEF Outcome, reply
<1>9. QED
  BY <1>5, <1>6, <1>7, <1>8 DEF ReadReply

-----------------------------------------------------------------------------
(***************************************************************************)
(* There is a nonce that nobody has.                                       *)
(***************************************************************************)
LEMMA LeastNatural ==
    ASSUME NEW T \in SUBSET Nat, T # {}
    PROVE  \E n \in T : \A m \in T : n <= m
<1> DEFINE R == OpToRel(<, Nat)
<1>1. \E n \in T : \A m \in T : <<m, n>> \notin R
  <2> HIDE DEF R
  <2>1. IsWellFoundedOn(R, Nat)
    BY NatLessThanWellFounded DEF R
  <2>2. QED
    BY <2>1, WFMin
<1>2. \A m, n \in Nat : m < n => <<m, n>> \in R
  BY DEF OpToRel
<1> HIDE DEF R
<1>3. PICK n \in T : \A m \in T : <<m, n>> \notin R
  BY <1>1
<1>4. ASSUME NEW m \in T PROVE n <= m
  <2>1. m \in Nat /\ n \in Nat
    OBVIOUS
  <2>2. ~(m < n)
    BY <1>2, <1>3, <2>1
  <2>3. QED
    BY <2>1, <2>2
<1>5. QED
  BY <1>4

\* Adding an element makes a set larger by one at most.
LEMMA AddedLemma ==
  ASSUME NEW S, IsFiniteSet(S), NEW x
  PROVE  /\ IsFiniteSet(S \cup {x})
         /\ Cardinality(S) \in Nat /\ Cardinality(S \cup {x}) \in Nat
         /\ Cardinality(S \cup {x}) <= Cardinality(S) + 1
<1>1. Cardinality(S) \in Nat
  BY FS_CardinalityType
<1>2. QED
  BY <1>1, FS_AddElement

\* Four are no more than four.
LEMMA FourLemma ==
  ASSUME NEW a, NEW b, NEW c, NEW d
  PROVE  IsFiniteSet({a, b, c, d}) /\ Cardinality({a, b, c, d}) <= 4
<1> DEFINE one == {a}
           two == one \cup {b}
           three == two \cup {c}
           four == three \cup {d}
<1>1. IsFiniteSet(one) /\ Cardinality(one) <= 1
  BY FS_Singleton
<1> HIDE DEF one
<1>2. IsFiniteSet(two) /\ Cardinality(two) <= 2
  BY <1>1, AddedLemma
<1> HIDE DEF two
<1>3. IsFiniteSet(three) /\ Cardinality(three) <= 3
  BY <1>2, AddedLemma
<1> HIDE DEF three
<1>4. IsFiniteSet(four) /\ Cardinality(four) <= 4
  BY <1>3, AddedLemma
<1>5. {a, b, c, d} = four
  BY DEF four, three, two, one
<1>6. QED
  BY <1>4, <1>5

\* There is a nonce that nobody has, and FreshNonce is one.
LEMMA FreshLemma ==
  ASSUME EnrollTypeOK
  PROVE  FreshNonce \in Nonces \ Held
<1>1. PICK a, b : NoncesOf({helper, orphan}) \subseteq {a, b}
  <2>1. \A x \in {helper, orphan} \ {None} : \E nonce : \A m \in Message_(x.h) \ {None} : m.attributes.senderNonce = nonce
    BY DEF EnrollTypeOK, ScepTypeOK, IsScepHelper, Message_, MessagesUse, Uses
  <2>2. PICK a : helper # None => \A m \in Message_(helper.h) \ {None} : m.attributes.senderNonce = a
    BY <2>1
  <2>3. PICK b : orphan # None => \A m \in Message_(orphan.h) \ {None} : m.attributes.senderNonce = b
    BY <2>1
  <2>4. NoncesOf({helper, orphan}) \subseteq {a, b}
    <3> DEFINE messages == (UNION {Message_(x.h) : x \in {helper, orphan} \ {None}}) \ {None}
    <3>1. ASSUME NEW m \in messages PROVE m.attributes.senderNonce \in {a, b}
      <4>1. PICK x \in {helper, orphan} \ {None} : m \in Message_(x.h) /\ m # None
        OBVIOUS
      <4>2. CASE x = helper
        BY <4>1, <4>2, <2>2
      <4>3. CASE x = orphan
        BY <4>1, <4>3, <2>3
      <4>4. QED
        BY <4>1, <4>2, <4>3
    <3>2. NoncesOf({helper, orphan}) = {m.attributes.senderNonce : m \in messages}
      BY DEF NoncesOf
    <3> HIDE DEF messages
    <3>3. QED
      BY <3>1, <3>2
  <2>5. QED
    BY <2>4
<1> DEFINE four == {entry.scep_nonce, entry.scep_last_nonce, a, b}
<1>2. Held \subseteq four
  BY <1>1 DEF Held, EnrollTypeOK
<1>3. IsFiniteSet(four) /\ Cardinality(four) <= 4
  BY FourLemma
<1>4. Nonces \ Held # {}
  <2>1. SUFFICES ASSUME Nonces \subseteq four PROVE FALSE
    BY <1>2
  <2>2. Cardinality(Nonces) <= Cardinality(four) /\ Cardinality(four) \in Nat /\ Cardinality(Nonces) \in Nat
    <3> HIDE DEF four
    <3>1. QED
      BY <1>3, <2>1, FS_Subset, FS_CardinalityType, NoncesAssumption
  <2>3. QED
    BY <2>2, <1>3, NoncesAssumption
<1>5. PICK n \in Nonces \ Held : \A m \in Nonces \ Held : n <= m
  <2> DEFINE T == Nonces \ Held
  <2>1. T \in SUBSET Nat /\ T # {}
    BY <1>4, NoncesAssumption
  <2> HIDE DEF T
  <2>2. \E n \in T : \A m \in T : n <= m
    BY <2>1, LeastNatural
  <2>3. QED
    BY <2>2 DEF T
<1>6. QED
  BY <1>5 DEF FreshNonce, Min

-----------------------------------------------------------------------------
(***************************************************************************)
(* No step sends a nonce that is used.                                     *)
(***************************************************************************)
LEMMA CardinalityLemma ==
  ASSUME NEW n, NEW S
  PROVE  Cardinality({n} \cap S) = Count(n \in S)
<1>1. CASE n \in S
  <2>1. {n} \cap S = {n}
    BY <1>1
  <2>2. QED
    BY <1>1, <2>1, FS_Singleton DEF Count
<1>2. CASE n \notin S
  <2>1. {n} \cap S = {}
    BY <1>2
  <2>2. QED
    BY <1>2, <2>1, FS_EmptySet DEF Count
<1>3. QED
  BY <1>1, <1>2

\* At first nothing was sent, and nobody has a nonce.
LEMMA NonceInitLemma == Init => NonceInv
<1> SUFFICES ASSUME Init PROVE NonceInv
  OBVIOUS
<1>1. PICK next \in {None, "k2"} : entry = NewEntry(next)
  BY DEF Init
<1>2. IsEntry(entry) /\ entry.csr = None /\ entry.scep_nonce = None /\ entry.scep_req = None /\ entry.scep_req_next = None
  BY <1>1 DEF NewEntry, IsEntry, Fields
<1>3. EnrollTypeOK
  BY <1>2 DEF Init, EnrollTypeOK, ScepTypeOK, MessagesUse, CsrsHeld
<1>4. \A n \in Nonces : Accounted(n)
  <2> TAKE n \in Nonces
  <2>1. sent[n] = 0 /\ unsaved = 0 /\ ~MayUse(entry, n) /\ ~WillSend(kind, helper, n) /\ ~WillSend(kind, orphan, n)
    BY <1>2, NoneAssumption DEF Init, MayUse, WillSend
  <2>2. QED
    BY <2>1 DEF Accounted, Count
<1>5. QED
  BY <1>3, <1>4 DEF NonceInv

\* A step that sends nothing, and after which less can be sent.
LEMMA QuietLemma ==
  ASSUME NonceInv, EnrollTypeOK', kind' = kind, sent' = sent, unsaved' = unsaved, NEW n \in Nonces,
         MayUse(entry', n) => MayUse(entry, n),
         WillSend(kind, helper', n) => WillSend(kind, helper, n),
         WillSend(kind, orphan', n) => WillSend(kind, orphan, n)
  PROVE  Accounted(n)'
<1>1. sent[n] \in Nat /\ unsaved \in Nat /\ Accounted(n)
  BY DEF NonceInv, EnrollTypeOK
<1>2. Count(MayUse(entry', n)) \in 0..1 /\ Count(MayUse(entry', n)) <= Count(MayUse(entry, n)) /\ Count(MayUse(entry, n)) \in 0..1
  BY DEF Count
<1>3. Count(WillSend(kind, helper', n)) \in 0..1 /\ Count(WillSend(kind, helper', n)) <= Count(WillSend(kind, helper, n)) /\ Count(WillSend(kind, helper, n)) \in 0..1
  BY DEF Count
<1>4. Count(WillSend(kind, orphan', n)) \in 0..1 /\ Count(WillSend(kind, orphan', n)) <= Count(WillSend(kind, orphan, n)) /\ Count(WillSend(kind, orphan, n)) \in 0..1
  BY DEF Count
<1>5. QED
  BY <1>1, <1>2, <1>3, <1>4 DEF Accounted

\* A request whose messages stay the same may use the same nonces.
LEMMA SameScepLemma ==
  ASSUME NEW e, NEW g, SameScep(g, e)
  PROVE  /\ IsEntry(g)
         /\ \A n : MayUse(g, n) <=> MayUse(e, n)
         /\ e.csr \in CsrsHeld => g.csr \in CsrsHeld
         /\ MessagesUse({e.scep_req, e.scep_req_next}, e.scep_nonce)
              => MessagesUse({g.scep_req, g.scep_req_next}, g.scep_nonce)
<1>1. /\ g.csr = e.csr /\ g.scep_nonce = e.scep_nonce /\ g.scep_last_nonce = e.scep_last_nonce
      /\ g.scep_req = e.scep_req /\ g.scep_req_next = e.scep_req_next
  BY DEF SameScep, ScepFields
<1>2. QED
  BY <1>1 DEF MayUse, Unused, SameScep

\* The request moves, and its helper is as it was, or done with.
LEMMA MoveLemma ==
  ASSUME NonceInv, SameScep(entry', entry), disk' = entry', helper' \in {helper, None},
         UNCHANGED <<setup, orphan, requests, sent, unsaved>>
  PROVE  NonceInv'
<1>1. EnrollTypeOK'
  BY SameScepLemma DEF NonceInv, EnrollTypeOK, ScepTypeOK, setup
<1>2. ASSUME NEW n \in Nonces PROVE Accounted(n)'
  <2>1. WillSend(kind, helper', n) => WillSend(kind, helper, n)
    BY DEF WillSend
  <2>2. QED
    BY <1>1, <2>1, QuietLemma, SameScepLemma DEF setup
<1>3. QED
  BY <1>1, <1>2 DEF NonceInv

\* A new signing request has no messages and no nonce yet.
LEMMA NewCsrLemma ==
  ASSUME NEW e, IsEntry(e), NEW c
  PROVE  LET g == [To(e, "HAVE_CSR") EXCEPT !.csr = c, !.scep_tx = "t", !.scep_nonce = None,
                   !.scep_last_nonce = None, !.scep_req = None, !.scep_gic = None,
                   !.scep_req_next = None, !.scep_gic_next = None]
         IN  IsEntry(g) /\ g.csr = c /\ g.scep_nonce = None /\ g.scep_req = None /\ g.scep_req_next = None
BY DEF IsEntry, Fields, To

\* It is one of those that the request goes through.
LEMMA NextCsrLemma ==
  ASSUME NEW c \in CsrsHeld,
         (IF c = None THEN 1 ELSE 1 + IndexOf(Csrs, c)) <= Len(Csrs)
  PROVE  Csrs[IF c = None THEN 1 ELSE 1 + IndexOf(Csrs, c)] \in Range(Csrs)
<1>1. Csrs \in Seq(STRING)
  BY EnrollmentAssumption
<1>2. \A i \in 1..Len(Csrs) : Csrs[i] \in Range(Csrs)
  BY <1>1 DEF Range
<1>3. CASE c = None
  BY <1>1, <1>2, <1>3
<1>4. CASE c # None
  <2>1. PICK i \in DOMAIN Csrs : c = Csrs[i]
    BY <1>4 DEF CsrsHeld, Range
  <2>2. IndexOf(Csrs, c) \in 1..Len(Csrs)
    BY <1>1, <2>1, IndexLemma
  <2> DEFINE j == IndexOf(Csrs, c)
  <2> HIDE DEF j
  <2>3. j \in 1..Len(Csrs) /\ 1 + j <= Len(Csrs) /\ Len(Csrs) \in Nat
    BY <1>1, <1>4, <2>2 DEF j
  <2>4. 1 + j \in 1..Len(Csrs)
    BY <2>3
  <2>5. QED
    BY <2>4, <1>2, <1>4 DEF j
<1>5. QED
  BY <1>3, <1>4

\* GENERATING_CSR: a new signing request, and the messages for the old one gone.
LEMMA GenerateCSRLemma == NonceInv /\ GenerateCSR => NonceInv'
<1> SUFFICES ASSUME NonceInv, GenerateCSR PROVE NonceInv'
  OBVIOUS
<1> DEFINE v == IF entry.csr = None THEN 1 ELSE 1 + IndexOf(Csrs, entry.csr)
<1>1. /\ v <= Len(Csrs) /\ disk' = entry'
      /\ entry' = [To(entry, "HAVE_CSR") EXCEPT !.csr = Csrs[v], !.scep_tx = "t", !.scep_nonce = None,
                   !.scep_last_nonce = None, !.scep_req = None, !.scep_gic = None,
                   !.scep_req_next = None, !.scep_gic_next = None]
      /\ UNCHANGED <<kind, helper, orphan, requests, sent, unsaved>>
  BY DEF GenerateCSR, Becomes, setup, server, faults
<1>2. kind = "SCEP" => Csrs[v] \in CsrsHeld
  BY <1>1, NextCsrLemma DEF NonceInv, EnrollTypeOK, ScepTypeOK, CsrsHeld
<1> HIDE DEF v
<1>3. /\ IsEntry(entry') /\ entry'.csr = Csrs[v] /\ entry'.scep_nonce = None
      /\ entry'.scep_req = None /\ entry'.scep_req_next = None
  BY <1>1, NewCsrLemma DEF NonceInv, EnrollTypeOK
<1>4. EnrollTypeOK'
  BY <1>1, <1>2, <1>3 DEF NonceInv, EnrollTypeOK, ScepTypeOK, MessagesUse
<1>5. ASSUME NEW n \in Nonces PROVE Accounted(n)'
  <2>1. ~MayUse(entry', n)
    BY <1>3, NoneAssumption DEF MayUse
  <2>2. QED
    BY <1>1, <1>4, <2>1, QuietLemma
<1>6. QED
  BY <1>4, <1>5 DEF NonceInv

\* GENERATING_SCEP_DATA: the new nonce is one that nobody uses.
LEMMA GenerateSCEPLemma == NonceInv /\ GenerateSCEP => NonceInv'
<1> SUFFICES ASSUME NonceInv, GenerateSCEP PROVE NonceInv'
  OBVIOUS
<1>2. PICK f \in Nonces \ Held : f = FreshNonce
  BY FreshLemma DEF NonceInv
<1> DEFINE g == cm_scepgen_o_save_scep(entry, f)
<1>1. /\ entry' = To(g, "HAVE_SCEP_DATA") /\ disk' = entry'
      /\ sent' = [sent EXCEPT ![f] = 0]
      /\ UNCHANGED <<kind, helper, orphan, requests, unsaved>>
  BY <1>2 DEF GenerateSCEP, Becomes, setup, users, faults
<1>3. /\ IsEntry(g) /\ g.scep_nonce = f /\ g.csr = entry.csr /\ g.scep_last_nonce = entry.scep_last_nonce
      /\ g.scep_req = MessagesFor(entry, f, "PKCSReq").old
      /\ g.scep_req_next = MessagesFor(entry, f, "PKCSReq").new
  BY SaveScepLemma DEF NonceInv, EnrollTypeOK
<1>4. SameScep(entry', g)
  BY <1>1, <1>3, ToLemma DEF SameScep
<1>5. kind = "SCEP" => MessagesUse({g.scep_req, g.scep_req_next}, f)
  BY <1>3, MessagesForLemma DEF NonceInv, EnrollTypeOK, ScepTypeOK
<1> HIDE DEF g
<1>6. EnrollTypeOK'
  <2>1. IsEntry(entry')
    BY <1>4, SameScepLemma
  <2>2. sent' \in [Nonces -> Nat]
    BY <1>1 DEF NonceInv, EnrollTypeOK
  <2>3. ASSUME kind = "SCEP" PROVE ScepTypeOK'
    <3>1. g.csr \in CsrsHeld /\ MessagesUse({g.scep_req, g.scep_req_next}, g.scep_nonce)
      BY <2>3, <1>3, <1>5 DEF NonceInv, EnrollTypeOK, ScepTypeOK
    <3>2. entry'.csr \in CsrsHeld /\ MessagesUse({entry'.scep_req, entry'.scep_req_next}, entry'.scep_nonce)
      BY <3>1, <1>4, SameScepLemma
    <3>3. QED
      BY <2>3, <3>2, <1>1 DEF NonceInv, EnrollTypeOK, ScepTypeOK
  <2>4. QED
    BY <1>1, <2>1, <2>2, <2>3 DEF NonceInv, EnrollTypeOK
<1>7. ASSUME NEW n \in Nonces, n # f PROVE Accounted(n)'
  <2>1. sent'[n] = sent[n] /\ ~MayUse(entry', n)
    BY <1>1, <1>2, <1>3, <1>4, <1>7, SameScepLemma DEF MayUse, NonceInv, EnrollTypeOK
  <2>2. sent[n] \in Nat /\ unsaved \in Nat /\ Accounted(n)
    BY DEF NonceInv, EnrollTypeOK
  <2>3. QED
    BY <1>1, <2>1, <2>2 DEF Accounted, Count
<1>8. Accounted(f)'
  <2>1. sent'[f] = 0 /\ unsaved \in Nat /\ unsaved' = unsaved /\ kind' = kind
    BY <1>1, <1>2 DEF NonceInv, EnrollTypeOK
  <2>2. ASSUME NEW x \in {helper, orphan} PROVE ~WillSend(kind, x, f)
    <3>1. SUFFICES ASSUME kind = "SCEP", x # None, CannotRequest(x.h) = None,
                          f = MessageToSend(x.h, Caps).attributes.senderNonce
                   PROVE  FALSE
      BY DEF WillSend, NonceFor
    <3>2. MessageToSend(x.h, Caps) \in Message_(x.h) \ {None}
      BY <3>1, MessageLemma DEF Message_
    <3>3. f \in NoncesOf({helper, orphan})
      BY <3>1, <3>2 DEF NoncesOf
    <3>4. QED
      BY <3>3, <1>2 DEF Held
  <2>3. QED
    BY <1>1, <2>1, <2>2 DEF Accounted, Count
<1>9. QED
  BY <1>6, <1>7, <1>8 DEF NonceInv

\* NEED_TO_SUBMIT: the right to use the nonce goes from the request to a helper.
LEMMA SubmitLemma == NonceInv /\ NEED_TO_SUBMIT => NonceInv'
<1> SUFFICES ASSUME NonceInv, NEED_TO_SUBMIT PROVE NonceInv'
  OBVIOUS
<1>1. /\ helper' = cm_submit_e_start(entry) /\ entry' = Submitted(entry) /\ disk' = entry'
      /\ UNCHANGED <<kind, orphan, requests, sent, unsaved>>
  BY DEF NEED_TO_SUBMIT, Becomes, setup, server, faults
<1> DEFINE e == Submitted(entry)  x == cm_submit_e_start(entry)
<1>2. /\ IsEntry(e) /\ e.csr = entry.csr /\ e.scep_nonce = entry.scep_nonce
      /\ e.scep_req = entry.scep_req /\ e.scep_req_next = entry.scep_req_next
      /\ e.scep_last_nonce = IF entry.scep_nonce # None THEN entry.scep_nonce ELSE entry.scep_last_nonce
  BY SubmittedLemma DEF NonceInv, EnrollTypeOK, ScepFields
<1>3. IsHelper(x) /\ x.exit = None
  BY StartedLemma
<1>4. ASSUME kind = "SCEP"
      PROVE  IsScepHelper(x) /\ NonceFor("SCEP", x.h) \subseteq IF Unused(entry) THEN {entry.scep_nonce} ELSE {}
  BY <1>4, StartLemma DEF NonceInv, EnrollTypeOK, ScepTypeOK
<1> HIDE DEF e, x
<1>5. EnrollTypeOK'
  <2>1. ASSUME kind = "SCEP" PROVE ScepTypeOK'
    BY <1>1, <1>2, <1>3, <1>4, <2>1 DEF NonceInv, EnrollTypeOK, ScepTypeOK, e, x
  <2>2. QED
    BY <1>1, <1>2, <1>3, <2>1 DEF NonceInv, EnrollTypeOK, e, x
<1>6. ASSUME NEW n \in Nonces PROVE Accounted(n)'
  <2>1. ~MayUse(entry', n)
    BY <1>1, <1>2, NoneAssumption DEF MayUse, Unused, e
  <2>2. WillSend(kind, helper', n) => MayUse(entry, n)
    <3>1. CASE kind = "SCEP"
      BY <1>1, <1>4, <3>1 DEF WillSend, MayUse, x
    <3>2. CASE kind # "SCEP"
      BY <3>2 DEF WillSend, NonceFor
    <3>3. QED
      BY <3>1, <3>2
  <2>3. sent[n] \in Nat /\ unsaved \in Nat /\ Accounted(n)
    BY DEF NonceInv, EnrollTypeOK
  <2>4. /\ Count(MayUse(entry', n)) = 0
        /\ Count(WillSend(kind, helper', n)) \in 0..1 /\ Count(WillSend(kind, helper, n)) \in 0..1
        /\ Count(MayUse(entry, n)) \in 0..1 /\ Count(WillSend(kind, orphan, n)) \in 0..1
        /\ Count(WillSend(kind, helper', n)) <= Count(MayUse(entry, n))
    BY <2>1, <2>2 DEF Count
  <2>5. QED
    BY <1>1, <2>3, <2>4 DEF Accounted
<1>7. QED
  BY <1>5, <1>6 DEF NonceInv

\* SUBMITTING: the end of a helper gives no right back.
LEMMA SubmittingLemma == NonceInv /\ SUBMITTING => NonceInv'
<1>1. ASSUME NonceInv, SUBMITTING
      PROVE  /\ SameScep(entry', entry) /\ disk' = entry' /\ helper' \in {helper, None}
             /\ UNCHANGED <<setup, orphan, requests, sent, unsaved>>
  BY <1>1, OutcomeLemma DEF SUBMITTING, Becomes, NonceInv, EnrollTypeOK, setup, server, faults
<1>2. QED
  BY <1>1, MoveLemma

\* The other states move on and leave it all alone.
LEMMA ProceedLemma == NonceInv /\ Proceed => NonceInv'
<1>1. ASSUME NonceInv, Proceed
      PROVE  /\ SameScep(entry', entry) /\ disk' = entry' /\ helper' \in {helper, None}
             /\ UNCHANGED <<setup, orphan, requests, sent, unsaved>>
  BY <1>1, MovesLemma DEF Proceed, In, Becomes, NonceInv, EnrollTypeOK, setup, server, faults
<1>2. QED
  BY <1>1, MoveLemma

\* Renewing and resubmitting keep what is there until the next signing request.
LEMMA AgainLemma == NonceInv /\ (Renew \/ Resubmit) => NonceInv'
<1>1. ASSUME NonceInv, Renew \/ Resubmit
      PROVE  /\ SameScep(entry', entry) /\ disk' = entry' /\ helper' \in {helper, None}
             /\ UNCHANGED <<setup, orphan, requests, sent, unsaved>>
  <2>1. SameScep(To(entry, "NEED_CSR"), entry)
    BY <1>1, ToLemma DEF NonceInv, EnrollTypeOK, SameScep
  <2>2. QED
    BY <1>1, <2>1 DEF Renew, Resubmit, Becomes, setup, server, faults
<1>2. QED
  BY <1>1, MoveLemma

\* A crash only leaves the helper behind, with what it has.
LEMMA CrashLemma == NonceInv /\ Crash => NonceInv'
<1> SUFFICES ASSUME NonceInv, Crash PROVE NonceInv'
  OBVIOUS
<1>1. /\ orphan = None /\ helper' = None /\ entry' = To(disk, Reset(disk.state)) /\ disk' = entry'
      /\ orphan' = IF helper # None /\ helper.exit = None THEN helper ELSE None
      /\ UNCHANGED <<kind, requests, sent, unsaved>>
  BY DEF Crash, Becomes, setup, server
<1>2. SameScep(entry', entry)
  BY <1>1, ToLemma DEF NonceInv, EnrollTypeOK, SameScep
<1>3. EnrollTypeOK'
  BY <1>1, <1>2, SameScepLemma DEF NonceInv, EnrollTypeOK, ScepTypeOK
<1>4. ASSUME NEW n \in Nonces PROVE Accounted(n)'
  <2>1. /\ ~WillSend(kind, helper', n) /\ ~WillSend(kind, orphan, n)
        /\ WillSend(kind, orphan', n) <=> WillSend(kind, helper, n)
    BY <1>1 DEF WillSend
  <2>2. MayUse(entry', n) <=> MayUse(entry, n)
    BY <1>2, SameScepLemma
  <2>3. sent[n] \in Nat /\ unsaved \in Nat /\ Accounted(n)
    BY DEF NonceInv, EnrollTypeOK
  <2>4. /\ Count(WillSend(kind, helper', n)) = 0 /\ Count(WillSend(kind, orphan, n)) = 0
        /\ Count(WillSend(kind, orphan', n)) = Count(WillSend(kind, helper, n))
        /\ Count(WillSend(kind, helper, n)) \in 0..1
        /\ Count(MayUse(entry', n)) = Count(MayUse(entry, n)) /\ Count(MayUse(entry, n)) \in 0..1
    BY <2>1, <2>2 DEF Count
  <2>5. QED
    BY <1>1, <2>3, <2>4 DEF Accounted
<1>5. QED
  BY <1>3, <1>4 DEF NonceInv

\* A crash before the request is saved gives the right a second time, and counts.
LEMMA CrashAfterStartLemma == NonceInv /\ CrashAfterStart => NonceInv'
<1> SUFFICES ASSUME NonceInv, CrashAfterStart PROVE NonceInv'
  OBVIOUS
<1> DEFINE x == cm_submit_e_start(entry)
<1>1. /\ orphan = None /\ orphan' = x /\ entry' = To(disk, Reset(disk.state)) /\ disk' = entry'
      /\ unsaved' = unsaved + 1
      /\ UNCHANGED <<kind, helper, requests, sent>>
  BY DEF CrashAfterStart, Becomes, setup, server
<1>2. SameScep(entry', entry)
  BY <1>1, ToLemma DEF NonceInv, EnrollTypeOK, SameScep
<1>3. IsHelper(x) /\ x.exit = None /\ (kind = "SCEP" => IsScepHelper(x))
  BY StartedLemma, StartLemma DEF NonceInv, EnrollTypeOK, ScepTypeOK
<1> HIDE DEF x
<1>4. EnrollTypeOK'
  <2>1. ASSUME kind = "SCEP" PROVE ScepTypeOK'
    <3>1. entry'.csr \in CsrsHeld /\ MessagesUse({entry'.scep_req, entry'.scep_req_next}, entry'.scep_nonce)
      BY <2>1, <1>2, SameScepLemma DEF NonceInv, EnrollTypeOK, ScepTypeOK
    <3>2. QED
      BY <2>1, <3>1, <1>1, <1>3 DEF NonceInv, EnrollTypeOK, ScepTypeOK
  <2>2. unsaved' \in Nat
    BY <1>1 DEF NonceInv, EnrollTypeOK
  <2>3. IsEntry(entry')
    BY <1>2 DEF SameScep
  <2>4. \A y \in {helper', orphan'} : y # None => IsHelper(y)
    BY <1>1, <1>3 DEF NonceInv, EnrollTypeOK
  <2>5. QED
    BY <1>1, <1>3, <2>1, <2>2, <2>3, <2>4 DEF NonceInv, EnrollTypeOK
<1>5. ASSUME NEW n \in Nonces PROVE Accounted(n)'
  <2>1. MayUse(entry', n) <=> MayUse(entry, n)
    BY <1>2, SameScepLemma
  <2>2. sent[n] \in Nat /\ unsaved \in Nat /\ Accounted(n)
    BY DEF NonceInv, EnrollTypeOK
  <2>3. /\ Count(MayUse(entry', n)) = Count(MayUse(entry, n)) /\ Count(MayUse(entry, n)) \in 0..1
        /\ Count(WillSend(kind, helper, n)) \in 0..1
        /\ Count(WillSend(kind, orphan, n)) \in 0..1 /\ Count(WillSend(kind, orphan', n)) \in 0..1
    BY <2>1 DEF Count
  <2>4. QED
    BY <1>1, <2>2, <2>3 DEF Accounted
<1>6. QED
  BY <1>4, <1>5 DEF NonceInv

\* What the server makes of a message is in its books.
LEMMA ServedLemma ==
  ASSUME NonceInv, NEW x \in {helper, orphan}, x # None, NEW r \in Serve(x.h), Reaches(x.h, r)
  PROVE  /\ kind = "SCEP" => requests' \in Seq(Book_) /\ Len(requests') <= Len(Certs)
         /\ kind = "SCEP" /\ CannotRequest(x.h) = None => ScepAnswers(x.h, r)
         /\ sent' = [n \in Nonces |-> sent[n] + Count(n \in NonceFor(kind, x.h))]
<1>1. ASSUME kind = "SCEP", CannotRequest(x.h) = None PROVE ScepAnswers(x.h, r)
  <2>1. r \in ScepServe(MessageToSend(x.h, Caps))
    BY <1>1 DEF Serve, Caps
  <2>2. MessageToSend(x.h, Caps).csr \in CsrsHeld
    <3>1. PICK nonce : MessagesUse({x.h.req, x.h.req_rekey}, nonce)
      BY <1>1 DEF NonceInv, EnrollTypeOK, ScepTypeOK, IsScepHelper
    <3>2. QED
      BY <3>1, <1>1, MessageLemma DEF MessagesUse, Uses
  <2>3. requests \in Seq(Book_)
    BY <1>1 DEF NonceInv, EnrollTypeOK, ScepTypeOK
  <2>4. QED
    BY <2>1, <2>2, <2>3, ScepServeLemma DEF ScepAnswers
<1>2. ASSUME kind = "SCEP", CannotRequest(x.h) # None PROVE r.books = requests
  BY <1>2 DEF Serve
<1>3. ASSUME kind = "SCEP" PROVE requests' \in Seq(Book_) /\ Len(requests') <= Len(Certs)
  <2>1. r.books \in Seq(Book_)
    BY <1>1, <1>2, <1>3 DEF ScepAnswers, NonceInv, EnrollTypeOK, ScepTypeOK
  <2>2. QED
    BY <2>1 DEF Reaches
<1>4. NonceSent(x.h) = NonceFor(kind, x.h)
  BY DEF NonceSent, NonceFor, Caps
<1>5. sent' = [n \in Nonces |-> sent[n] + Count(n \in NonceFor(kind, x.h))]
  <2>1. sent' = [n \in Nonces |-> sent[n] + Cardinality({n} \cap NonceSent(x.h))]
    BY DEF Reaches
  <2>2. \A n \in Nonces : Cardinality({n} \cap NonceSent(x.h)) = Count(n \in NonceFor(kind, x.h))
    BY <1>4, CardinalityLemma
  <2>3. QED
    BY <2>1, <2>2
<1>6. QED
  BY <1>1, <1>3, <1>5

\* Ending changes nothing else of a helper.
LEMMA ExitLemma ==
  ASSUME NEW x, IsHelper(x), NEW exit
  PROVE  LET y == [x EXCEPT !.exit = exit]
         IN  IsHelper(y) /\ y.h = x.h /\ y.exit = exit
BY DEF IsHelper

\* A helper that was answered, or not, has come to its end.
LEMMA EndsLemma ==
  ASSUME kind = "SCEP", NEW h, CannotRequest(h) = None
  PROVE  /\ Unheard(h) # None
         /\ \A r : ScepAnswers(h, r) /\ Len(r.books) <= Len(Certs) => Heard(h, r.answer) # None
<1>1. Unheard(h) = Outcome("UNREACHABLE", None, None)
  BY DEF Unheard, Run, RunScep
<1>2. Unheard(h) # None
  BY <1>1, OutcomeIsThere DEF ScepStatuses
<1>3. ASSUME NEW r, ScepAnswers(h, r), Len(r.books) <= Len(Certs) PROVE Heard(h, r.answer) # None
  <2>1. PICK i \in DOMAIN r.books : r.answer = ScepReply(MessageToSend(h, Caps), i, r.books)
    BY <1>3 DEF ScepAnswers
  <2>2. QED
    BY <1>3, <2>1, ScepHeardLemma DEF ScepAnswers
<1>4. QED
  BY <1>2, <1>3

\* What is sent was to be sent, and is not sent again.
LEMMA TalkLemma ==
  ASSUME NonceInv, NEW x \in Talking, NEW r \in Serve(x.h), Reaches(x.h, r), NEW exit,
         exit \in {Heard(x.h, r.answer), Unheard(x.h)}, helper' = [x EXCEPT !.exit = exit],
         UNCHANGED <<kind, entry, disk, orphan, unsaved>>
  PROVE  NonceInv'
<1>1. x = helper /\ x # None /\ x.exit = None /\ IsHelper(x)
  BY DEF Talking, NonceInv, EnrollTypeOK
<1>2. /\ kind = "SCEP" => requests' \in Seq(Book_) /\ Len(requests') <= Len(Certs)
      /\ kind = "SCEP" /\ CannotRequest(x.h) = None => ScepAnswers(x.h, r)
      /\ sent' = [n \in Nonces |-> sent[n] + Count(n \in NonceFor(kind, x.h))]
  BY <1>1, ServedLemma
<1>3. IsHelper(helper') /\ helper'.h = x.h /\ helper'.exit = exit
  BY <1>1, ExitLemma
<1>4. ASSUME kind = "SCEP", CannotRequest(x.h) = None PROVE exit # None
  BY <1>2, <1>4, EndsLemma DEF Reaches
<1>5. EnrollTypeOK'
  <2>1. sent' \in [Nonces -> Nat]
    BY <1>2 DEF NonceInv, EnrollTypeOK, Count
  <2>2. ASSUME kind = "SCEP" PROVE ScepTypeOK'
    BY <2>2, <1>1, <1>2, <1>3 DEF NonceInv, EnrollTypeOK, ScepTypeOK, IsScepHelper
  <2>3. QED
    BY <1>3, <2>1, <2>2 DEF NonceInv, EnrollTypeOK
<1>6. ASSUME NEW n \in Nonces PROVE Accounted(n)'
  <2>1. ~WillSend(kind, helper', n)
    BY <1>3, <1>4 DEF WillSend, NonceFor
  <2>2. WillSend(kind, helper, n) <=> n \in NonceFor(kind, x.h)
    BY <1>1 DEF WillSend
  <2>3. sent'[n] = sent[n] + Count(WillSend(kind, helper, n))
    BY <1>2, <2>2 DEF Count
  <2>4. sent[n] \in Nat /\ unsaved \in Nat /\ Accounted(n)
    BY DEF NonceInv, EnrollTypeOK
  <2>5. /\ Count(WillSend(kind, helper', n)) = 0
        /\ Count(MayUse(entry, n)) \in 0..1
        /\ Count(WillSend(kind, helper, n)) \in 0..1 /\ Count(WillSend(kind, orphan, n)) \in 0..1
    BY <2>1 DEF Count
  <2>6. QED
    BY <2>3, <2>4, <2>5 DEF Accounted
<1>7. QED
  BY <1>5, <1>6 DEF NonceInv

\* A message arrives, and the answer may be lost.
LEMMA ExchangeLemma == NonceInv /\ (Exchange \/ LoseAnswer) => NonceInv'
BY TalkLemma DEF Exchange, LoseAnswer, setup, faults

\* A message that is lost was not received.
LEMMA LoseRequestLemma == NonceInv /\ LoseRequest => NonceInv'
<1> SUFFICES ASSUME NonceInv, LoseRequest PROVE NonceInv'
  OBVIOUS
<1>1. PICK x \in Talking : helper' = [x EXCEPT !.exit = Unheard(x.h)]
  BY DEF LoseRequest
<1>2. UNCHANGED <<kind, entry, disk, orphan, requests, sent, unsaved>>
  BY DEF LoseRequest, setup, server
<1>3. x = helper /\ x # None /\ x.exit = None /\ IsHelper(x)
  BY DEF Talking, NonceInv, EnrollTypeOK
<1>4. IsHelper(helper') /\ helper'.h = x.h
  BY <1>1, <1>3, ExitLemma
<1>5. EnrollTypeOK'
  BY <1>2, <1>3, <1>4 DEF NonceInv, EnrollTypeOK, ScepTypeOK, IsScepHelper
<1>6. ASSUME NEW n \in Nonces PROVE Accounted(n)'
  <2>1. WillSend(kind, helper', n) => WillSend(kind, helper, n)
    BY <1>3, <1>4 DEF WillSend
  <2>2. QED
    BY <1>2, <1>5, <2>1, QuietLemma
<1>7. QED
  BY <1>5, <1>6 DEF NonceInv

\* The helper that was left behind sends its message.
LEMMA OrphanLemma == NonceInv /\ OrphanExchanges => NonceInv'
<1> SUFFICES ASSUME NonceInv, OrphanExchanges PROVE NonceInv'
  OBVIOUS
<1>1. orphan # None /\ \E r \in Serve(orphan.h) : Reaches(orphan.h, r)
  BY DEF OrphanExchanges
<1>2. orphan' = None /\ UNCHANGED <<kind, entry, disk, helper, unsaved>>
  BY DEF OrphanExchanges, setup, faults
<1>3. /\ kind = "SCEP" => requests' \in Seq(Book_) /\ Len(requests') <= Len(Certs)
      /\ sent' = [n \in Nonces |-> sent[n] + Count(n \in NonceFor(kind, orphan.h))]
  BY <1>1, ServedLemma
<1>4. EnrollTypeOK'
  <2>1. sent' \in [Nonces -> Nat]
    BY <1>3 DEF NonceInv, EnrollTypeOK, Count
  <2>2. QED
    BY <1>2, <1>3, <2>1 DEF NonceInv, EnrollTypeOK, ScepTypeOK
<1>5. ASSUME NEW n \in Nonces PROVE Accounted(n)'
  <2>1. ~WillSend(kind, orphan', n) /\ (WillSend(kind, orphan, n) <=> n \in NonceFor(kind, orphan.h))
    BY <1>1, <1>2 DEF WillSend, NonceInv, EnrollTypeOK
  <2>2. sent'[n] = sent[n] + Count(WillSend(kind, orphan, n))
    BY <1>3, <2>1 DEF Count
  <2>3. sent[n] \in Nat /\ unsaved \in Nat /\ Accounted(n)
    BY DEF NonceInv, EnrollTypeOK
  <2>4. /\ Count(WillSend(kind, orphan', n)) = 0
        /\ Count(MayUse(entry, n)) \in 0..1
        /\ Count(WillSend(kind, helper, n)) \in 0..1 /\ Count(WillSend(kind, orphan, n)) \in 0..1
    BY <2>1 DEF Count
  <2>5. QED
    BY <1>2, <2>2, <2>3, <2>4 DEF Accounted
<1>6. QED
  BY <1>4, <1>5 DEF NonceInv

\* A decision of the CA is about no message.
LEMMA DecideLemma == NonceInv /\ Decide => NonceInv'
<1> SUFFICES ASSUME NonceInv, Decide PROVE NonceInv'
  OBVIOUS
<1>1. PICK i \in DOMAIN requests, s \in {"complete", "rejected"} : requests' = [requests EXCEPT ![i].status = s]
  BY DEF Decide
<1>2. UNCHANGED <<kind, entry, disk, helper, orphan, sent, unsaved>>
  BY DEF Decide, setup, faults
<1>3. ASSUME requests \in Seq(Book_) PROVE requests' \in Seq(Book_) /\ Len(requests') = Len(requests)
  <2>1. requests[i] \in Book_
    BY <1>3
  <2>2. [requests[i] EXCEPT !.status = s] \in Book_
    BY <2>1 DEF Book_, Statuses
  <2>3. requests' = [requests EXCEPT ![i] = [requests[i] EXCEPT !.status = s]]
    BY <1>1
  <2>4. QED
    BY <1>3, <2>2, <2>3
<1>4. EnrollTypeOK'
  BY <1>2, <1>3 DEF NonceInv, EnrollTypeOK, ScepTypeOK
<1>5. ASSUME NEW n \in Nonces PROVE Accounted(n)'
  BY <1>2, <1>4, QuietLemma
<1>6. QED
  BY <1>4, <1>5 DEF NonceInv

\* Every step keeps the account of the nonces.
LEMMA NonceStep == NonceInv /\ [Next]_vars => NonceInv'
<1>1. CASE Next
  BY <1>1, GenerateCSRLemma, GenerateSCEPLemma, SubmitLemma, SubmittingLemma, ProceedLemma, AgainLemma,
     CrashLemma, CrashAfterStartLemma, ExchangeLemma, LoseRequestLemma, OrphanLemma, DecideLemma DEF Next
<1>2. CASE UNCHANGED vars
  BY <1>2 DEF vars, NonceInv, EnrollTypeOK, ScepTypeOK, Accounted
<1>3. QED
  BY <1>1, <1>2

\* The CA gets two messages with one nonce (iterate.c:914) only if the daemon
\* went away between starting the helper and saving that it did.
THEOREM NoncesAreAlwaysFresh == Spec => []NoncesAreFresh
<1>1. NonceInv => NoncesAreFresh
  <2> SUFFICES ASSUME NonceInv, NEW n \in Nonces PROVE sent[n] <= 1 + unsaved
    BY DEF NoncesAreFresh
  <2>1. sent[n] \in Nat /\ unsaved \in Nat /\ Accounted(n)
    BY DEF NonceInv, EnrollTypeOK
  <2>2. QED
    BY <2>1 DEF Accounted, Count
<1>2. QED
  BY <1>1, NonceInitLemma, NonceStep, PTL DEF Spec

-----------------------------------------------------------------------------
(***************************************************************************)
(* What the daemon, its helpers and the CA's books have to do with each    *)
(* other: every cookie, exit and certificate is about a request in the     *)
(* books (ProtocolInv).                                                    *)
(***************************************************************************)
\* The states that a request comes to here.
Reached ==
  {"NEED_CSR", "HAVE_KEYINFO", "HAVE_CSR", "NEED_SCEP_DATA", "HAVE_SCEP_DATA", "NEED_TO_SUBMIT", "SUBMITTING",
   "CA_WORKING", "CA_UNREACHABLE", "CA_UNCONFIGURED", "NEED_GUIDANCE", "NEED_TO_SAVE_CERT", "MONITORING",
   "NEED_TO_NOTIFY_REJECTION", "CA_REJECTED"}

\* How the Dogtag helper of kind k, of an agent or not, is called with a cookie
\* and a signing request.
Called(k, a, h, cookie, csr) ==
  h = [mode |-> h.mode, op |-> "submit", savedstate |-> cookie, csr |-> <<csr>>, cert |-> None,
       serial |-> None, prefers_renewal |-> FALSE, force_new |-> FALSE, force_renew |-> FALSE,
         template |-> <<"t">>,
       eeurl |-> IF k = "XML" THEN "ee" ELSE None, agenturl |-> IF k = "XML" THEN "agent" ELSE None,
       jsonrpc |-> IF k = "JSON" THEN "ipa" ELSE None, agent_submit |-> FALSE,
       aoptions |-> <<>>, soptions |-> <<>>, creds |-> <<>>, sslcert |-> IF a THEN <<"n">> ELSE None]

\* The cookie is about the i-th request in the books.
Numbered(k, a, cookie, i, books) ==
  \/ cookie = D!Cookie(IF a THEN "approve" ELSE "check", <<Ids[i]>>)
  \/ /\ k = "JSON" \/ a
     /\ books[i].status = "complete"
     /\ cookie = D!Cookie("retrieve", <<IF k = "JSON" THEN Serials[i] ELSE Ids[i]>>)

\* "csrs" are the signing requests that it can be for.
CookieFor(k, a, cookie, books, csrs) ==
  cookie # None => \E i \in DOMAIN books : Numbered(k, a, cookie, i, books) /\ books[i].csr \in csrs

CertOf(k, exit) == IF k = "SCEP" THEN exit.cert ELSE exit.cert[1]
IsExit(exit) == {"status", "cookie", "cert"} \subseteq DOMAIN exit
ExitFor(k, a, exit, books, csrs) ==
  /\ k # "SCEP" => IsExit(exit) /\ exit.status # "NEED_SCEP_MESSAGES"
  /\ exit.status = "ISSUED" => \E i \in DOMAIN books : /\ books[i].status = "complete" /\ books[i].csr \in csrs
                                                       /\ CertOf(k, exit) = Certs[i] /\ exit.cert # None
  /\ exit.status = "REJECTED" /\ (k # "XML" \/ a) => \E i \in DOMAIN books : books[i].status = "rejected"
  /\ k # "SCEP" /\ exit.status \in {"WAIT", "WAIT_WITH_DELAY"} => CookieFor(k, a, exit.cookie, books, csrs)

MessagesAreFor(h, csrs) == \A m \in {h.req, h.req_rekey} \ {None} : m.csr \in csrs

TheCsrs == Range(Csrs)
IsBooks(books) == books \in Seq([csr : TheCsrs, status : Statuses]) /\ Len(books) <= Len(Certs)

\* The signing requests that a cookie or a certificate can be for: the last one,
\* unless the user has asked again.
Own(e, again) == IF again = 0 THEN {e.csr} ELSE TheCsrs

EntryIs(k, a, e, books, again) ==
  /\ e.state \in Reached
  /\ e.csr \in TheCsrs \/ (e.csr = None /\ e.state \in {"NEED_CSR", "HAVE_KEYINFO"})
  /\ k # "SCEP" => e.state \notin {"NEED_SCEP_DATA", "HAVE_SCEP_DATA"}
  /\ k = "SCEP" => \A m \in {e.scep_req, e.scep_req_next} \ {None} : m.csr = e.csr
  /\ k # "SCEP" => CookieFor(k, a, e.cookie, books, Own(e, again))
  /\ e.state \in {"NEED_TO_SAVE_CERT", "MONITORING"} => e.cookie = None
  /\ e.state \in {"NEED_CSR", "HAVE_KEYINFO"} /\ again = 0 => e.cookie = None
  /\ e.state = "NEED_TO_SAVE_CERT" /\ again = 0 =>
       \E i \in DOMAIN books : Certs[i] = e.cert /\ books[i] = [csr |-> e.csr, status |-> "complete"]
  /\ e.state = "NEED_TO_NOTIFY_REJECTION" /\ (k # "XML" \/ a)
       => \E i \in DOMAIN books : books[i].status = "rejected"

HelperIs(k, a, x, e, books, again) ==
  /\ e.state = "SUBMITTING"
  /\ k # "SCEP" => Called(k, a, x.h, e.cookie, e.csr)
  /\ k = "SCEP" => MessagesAreFor(x.h, {e.csr})
  /\ x.exit # None => ExitFor(k, a, x.exit, books, Own(e, again))
OrphanIs(k, a, x, books) ==
  /\ k # "SCEP" => \E csr \in TheCsrs : /\ Called(k, a, x.h, x.h.savedstate, csr)
                                        /\ CookieFor(k, a, x.h.savedstate, books, TheCsrs)
  /\ k = "SCEP" => MessagesAreFor(x.h, TheCsrs)

ProtocolInv ==
  /\ kind \in {"XML", "JSON", "SCEP"} /\ agent \in BOOLEAN /\ resubmits \in Nat
  /\ IsBooks(requests)
  /\ EntryIs(kind, agent, entry, requests, resubmits)
  /\ helper # None => HelperIs(kind, agent, helper, entry, requests, resubmits)
  /\ orphan # None => OrphanIs(kind, agent, orphan, requests)

-----------------------------------------------------------------------------
(***************************************************************************)
(* The texts that the Dogtag helper takes apart, and its steps.            *)
(***************************************************************************)
\* A sequence of one or two.
LEMMA OneText ==
  ASSUME NEW S, NEW x \in S
  PROVE  <<x>> \in Seq(S) /\ Len(<<x>>) = 1 /\ <<x>>[1] = x /\ DOMAIN <<x>> = {1}
<1>1. Len(<<x>>) = 1
  OBVIOUS
<1>2. <<x>>[1] = x
  OBVIOUS
<1>3. <<x>> \in Seq(S)
  OBVIOUS
<1>4. DOMAIN <<x>> = {1}
  OBVIOUS
<1>5. QED
  BY <1>1, <1>2, <1>3, <1>4

\* A sequence of two has what it was made of.
LEMMA TwoTexts ==
  ASSUME NEW S, NEW x \in S, NEW y \in S
  PROVE  <<x, y>> \in Seq(S) /\ Len(<<x, y>>) = 2 /\ <<x, y>>[1] = x /\ <<x, y>>[2] = y
<1>1. Len(<<x, y>>) = 2
  OBVIOUS
<1>2. <<x, y>>[1] = x /\ <<x, y>>[2] = y
  OBVIOUS
<1>3. <<x, y>> \in Seq(S)
  OBVIOUS
<1>4. QED
  BY <1>1, <1>2, <1>3

\* A part of one element.
LEMMA OneOf == ASSUME NEW S, NEW s \in Seq(S), NEW n \in 1..Len(s) PROVE SubSeq(s, n, n) = <<s[n]>>
<1>1. Len(s) \in Nat /\ n \in Int /\ s[n] \in S
  BY LenProperties, ElementOfSeq
<1>2. \A i \in n..n : s[i] \in S
  BY <1>1
<1> DEFINE u == SubSeq(s, n, n)
           v == <<s[n]>>
<1>3. u \in Seq(S) /\ Len(u) = (IF n <= n THEN n - n + 1 ELSE 0) /\ \A i \in 1..n - n + 1 : u[i] = s[n+i-1]
  BY <1>1, <1>2, SubSeqProperties
<1>4. v \in Seq(S) /\ Len(v) = 1 /\ v[1] = s[n]
  BY <1>1, OneText
<1> HIDE DEF u, v
<1>5. Len(u) = 1 /\ u[1] = s[n]
  <2>1. n <= n /\ n - n + 1 = 1 /\ n + 1 - 1 = n /\ 1 \in 1..1
    BY <1>1
  <2>2. u[1] = s[n + 1 - 1]
    BY <1>3, <2>1
  <2>3. QED
    BY <1>3, <2>1, <2>2
<1>6. Len(u) = Len(v) /\ \A i \in 1..Len(u) : u[i] = v[i]
  BY <1>4, <1>5
<1>7. u = v
  BY <1>3, <1>4, <1>6, SeqEqual
<1>8. QED
  BY <1>7 DEF u, v

\* One number is the least and the greatest of its kind.
LEMMA MinOf == ASSUME NEW n \in Nat PROVE D!Min({n}) = n /\ D!Max({n}) = n
BY DEF D!Min, D!Max

\* Of a text with one word that is kept, that word is what is left.
LEMMA StripsTo == ASSUME NEW chars, NEW t \in Seq(STRING), NEW n \in 1..Len(t), t[n] \notin chars,
    \A i \in (1..Len(t)) \ {n} : t[i] \in chars
  PROVE D!Stripped(chars)[t] = <<t[n]>>
<1>0. DOMAIN t = 1..Len(t) /\ Len(t) \in Nat
  BY LenProperties
<1>1. {i \in DOMAIN t : t[i] \notin chars} = {n} /\ n \in Nat
  BY <1>0
<1>2. D!Stripped(chars)[t] = SubSeq(t, n, n)
  BY <1>1, MinOf DEF D!Stripped
<1>3. SubSeq(t, n, n) = <<t[n]>>
  BY OneOf
<1>4. QED
  BY <1>2, <1>3

\* A word alone stays as it is.
LEMMA Stripped1 == ASSUME NEW chars, NEW x \in STRING, x \notin chars PROVE D!Stripped(chars)[<<x>>] = <<x>>
<1> DEFINE t == <<x>>
<1>1. t \in Seq(STRING) /\ Len(t) = 1 /\ t[1] = x
  BY OneText
<1> HIDE DEF t
<1>2. 1..Len(t) = {1}
  BY <1>1
<1>3. D!Stripped(chars)[t] = <<t[1]>>
  BY <1>1, <1>2, StripsTo
<1>4. QED
  BY <1>1, <1>3 DEF t

\* A word loses what is stripped, before it and after it.
LEMMA Stripped2 == ASSUME NEW chars, NEW x \in STRING, x \notin chars, NEW y \in STRING, y \in chars
  PROVE D!Stripped(chars)[<<x, y>>] = <<x>> /\ D!Stripped(chars)[<<y, x>>] = <<x>>
<1> DEFINE t == <<x, y>>
           u == <<y, x>>
<1>1. t \in Seq(STRING) /\ Len(t) = 2 /\ t[1] = x /\ t[2] = y
  BY TwoTexts
<1>2. u \in Seq(STRING) /\ Len(u) = 2 /\ u[1] = y /\ u[2] = x
  BY TwoTexts
<1> HIDE DEF t, u
<1>3. 1..Len(t) = {1, 2}
  BY <1>1
<1>4. 1..Len(u) = {1, 2}
  BY <1>2
<1>5. D!Stripped(chars)[t] = <<t[1]>>
  <2>1. 1 \in 1..Len(t) /\ \A i \in (1..Len(t)) \ {1} : t[i] \in chars
    BY <1>1, <1>3
  <2>2. QED
    BY <1>1, <2>1, StripsTo
<1>6. D!Stripped(chars)[u] = <<u[2]>>
  <2>1. 2 \in 1..Len(u) /\ \A i \in (1..Len(u)) \ {2} : u[i] \in chars
    BY <1>2, <1>4
  <2>2. QED
    BY <1>2, <2>1, StripsTo
<1>7. QED
  BY <1>1, <1>2, <1>5, <1>6 DEF t, u

\* Trimming leaves a word alone.
LEMMA TrimOne == ASSUME NEW x \in STRING, x \notin D!White, None # <<x>> PROVE D!trim(<<x>>) = <<x>>
<1>1. D!Stripped(D!White)[<<x>>] = <<x>>
  BY Stripped1
<1>2. <<x>> \in Seq(STRING)
  BY OneText
<1>3. <<x>> # <<>>
  OBVIOUS
<1>4. D!NoneIfEmpty[<<x>>] = <<x>>
  BY <1>2, <1>3 DEF D!NoneIfEmpty
<1>5. QED
  BY <1>1, <1>4 DEF D!trim

\* Kept, with the cardinality that the library's facts are about.
LEMMA KeptLemma ==
  ASSUME NEW list, NEW places
  PROVE  D!Kept(list, places) =
           [n \in 1..Cardinality(places) |->
              list[CHOOSE i \in places : Cardinality({j \in places : j <= i}) = n]]
<1>1. \A S : D!Cardinality(S) = Cardinality(S)
  BY DEF D!Cardinality, Cardinality
<1>2. D!Kept(list, places) =
        [n \in 1..D!Cardinality(places) |->
           list[CHOOSE i \in places : D!Cardinality({j \in places : j <= i}) = n]]
  BY DEF D!Kept
<1>3. QED
  BY <1>1, <1>2

\* Nothing kept is an empty list.
LEMMA KeptNone == ASSUME NEW list PROVE D!Kept(list, {}) = <<>>
<1>1. Cardinality({}) = 0
  BY FS_EmptySet
<1>2. D!Kept(list, {}) =
           [n \in 1..0 |->
              list[CHOOSE i \in {} : Cardinality({j \in {} : j <= i}) = n]]
  BY <1>1, KeptLemma
<1>3. 1..0 = {}
  OBVIOUS
<1>4. QED
  BY <1>2, <1>3

\* A word is its own PEM text.
LEMMA PemOne == ASSUME NEW x, x \notin D!White, None # <<x>> PROVE D!Pem(<<x>>) = <<x>>
<1> DEFINE t == <<x>>
<1>1. DOMAIN t = {1} /\ t[1] = x
  BY OneText
<1>2. [n \in 1..1 |-> t[1]] = t
  OBVIOUS
<1>3. t # None
  OBVIOUS
<1> HIDE DEF t
<1>4. {i \in DOMAIN t : t[i] \notin D!White} = {1}
  BY <1>1
<1>5. D!Pem(t) = D!Kept(t, {1})
  BY <1>3, <1>4 DEF D!Pem
<1>6. Cardinality({1}) = 1
  BY FS_Singleton
<1>7. \A n \in 1..1 : (CHOOSE i \in {1} : Cardinality({j \in {1} : j <= i}) = n) = 1
  <2>1. {j \in {1} : j <= 1} = {1}
    OBVIOUS
  <2>2. QED
    BY <2>1, <1>6
<1>8. D!Kept(t, {1}) = [n \in 1..1 |-> t[1]]
  <2>1. D!Kept(t, {1}) = [n \in 1..1 |-> t[CHOOSE i \in {1} : Cardinality({j \in {1} : j <= i}) = n]]
    BY <1>6, KeptLemma
  <2>2. QED
    BY <2>1, <1>7
<1>9. QED
  BY <1>2, <1>5, <1>8 DEF t

Doc1(p, v) == Xml({<<p, v>>})
Doc2(p, v, q, w) == Xml({<<p, v>>, <<q, w>>})
IsDoc2(doc, p, v, q, w) == DOMAIN doc = {p, q} /\ doc[p] = v /\ doc[q] = w

\* A document with two texts has each at its path.
LEMMA XmlTwo ==
  ASSUME NEW p, NEW q, p # q, NEW v, NEW w
  PROVE  IsDoc2(Doc2(p, v, q, w), p, v, q, w)
<1> DEFINE texts == {<<p, v>>, <<q, w>>}
<1>1. {t[1] : t \in texts} = {p, q}
  OBVIOUS
<1>2. \A t \in texts : t[1] = p => t[2] = v
  OBVIOUS
<1>3. \A t \in texts : t[1] = q => t[2] = w
  OBVIOUS
<1>4. \E t \in texts : t[1] = p
  OBVIOUS
<1>5. \E t \in texts : t[1] = q
  OBVIOUS
<1> HIDE DEF texts
<1>6. (CHOOSE t \in texts : t[1] = p)[2] = v
  BY <1>2, <1>4
<1>7. (CHOOSE t \in texts : t[1] = q)[2] = w
  BY <1>3, <1>5
<1>8. Xml(texts) = [path \in {p, q} |-> (CHOOSE t \in texts : t[1] = path)[2]]
  BY <1>1 DEF Xml
<1>9. QED
  BY <1>6, <1>7, <1>8 DEF texts, Doc2, IsDoc2

\* A document with one text has it at its path.
LEMMA XmlOne ==
  ASSUME NEW p, NEW v
  PROVE  DOMAIN Doc1(p, v) = {p} /\ Doc1(p, v)[p] = v
<1> DEFINE texts == {<<p, v>>}
<1>1. {t[1] : t \in texts} = {p}
  OBVIOUS
<1>2. (\A t \in texts : t[1] = p => t[2] = v) /\ (\E t \in texts : t[1] = p)
  OBVIOUS
<1> HIDE DEF texts
<1>5. (CHOOSE t \in texts : t[1] = p)[2] = v
  BY <1>2
<1>3. Xml(texts) = [path \in {p} |-> (CHOOSE t \in texts : t[1] = path)[2]]
  BY <1>1 DEF Xml
<1>4. QED
  BY <1>5, <1>3 DEF texts, Doc1

\* A word in a cookie is what it was, if it does not end the line.
LEMMA WordLemma ==
  ASSUME NEW c, NEW what, NEW n \in Nat, NEW word, {i \in DOMAIN c : c[i][1] = what} = {n},
         c[n][2] = <<word>>, word # "\n", None # <<word>>
  PROVE  D!statevar(c, what) = <<word>>
<1> DEFINE v == <<word>>
<1>1. Len(v) = 1 /\ DOMAIN v = {1} /\ v[1] = word /\ v \in Seq({word})
  BY OneText
<1>2. v # None
  OBVIOUS
<1> HIDE DEF v
<1>3. {j \in DOMAIN v : v[j] = "\n"} = {}
  BY <1>1
<1>4. {Len(v)} \cup {i - 1 : i \in {}} = {1}
  BY <1>1
<1>5. D!statevar(c, what) = SubSeq(v, 1, D!Min({Len(v)} \cup {i - 1 : i \in {j \in DOMAIN v : v[j] = "\n"}}))
  <2>1. c[D!Min({n})][2] = v
    BY MinOf DEF v
  <2>2. QED
    BY <2>1, <1>2 DEF D!statevar
<1>6. D!statevar(c, what) = SubSeq(v, 1, 1)
  BY <1>3, <1>4, <1>5, MinOf
<1>7. SubSeq(v, 1, 1) = <<v[1]>>
  <2>1. 1 \in 1..Len(v)
    BY <1>1
  <2>2. QED
    BY <2>1, <1>1, OneOf
<1>8. QED
  BY <1>6, <1>7, <1>1

\* The steps that a cookie can name.
CookieSteps == {"check", "approve", "retrieve"}

\* So the helper knows the step that is next, and the number of the request.
LEMMA CookieLemma ==
  ASSUME NEW step \in CookieSteps, NEW name \in Names
  PROVE  LET c == D!Cookie(step, <<name>>)
         IN  /\ c # None
             /\ D!statevar(c, "state") = <<step>> /\ <<step>> # None
             /\ D!statevar(c, "requestId") = <<name>> /\ <<name>> # None
<1> DEFINE c == D!Cookie(step, <<name>>)
<1>1. c # None /\ <<step>> # None /\ <<name>> # None
  BY NamesAssumption DEF CookieSteps
<1>2. name # "\n" /\ step # "\n"
  BY NamesAssumption DEF CookieSteps, D!White
<1>3. c = <<<<"state", <<step>>>>, <<"requestId", <<name>>>>>>
  BY DEF D!Cookie
<1>4. {i \in DOMAIN c : c[i][1] = "state"} = {1} /\ c[1][2] = <<step>>
  BY <1>3
<1>5. {i \in DOMAIN c : c[i][1] = "requestId"} = {2} /\ c[2][2] = <<name>>
  BY <1>3
<1> HIDE DEF c
<1>6. D!statevar(c, "state") = <<step>>
  BY <1>1, <1>2, <1>4, WordLemma
<1>7. D!statevar(c, "requestId") = <<name>>
  BY <1>1, <1>2, <1>5, WordLemma
<1>8. QED
  BY <1>1, <1>6, <1>7 DEF c

\* With a cookie the helper does the step that the cookie names, for its
\* request.
LEMMA StepLemma ==
  ASSUME NEW h, h.op = "submit", NEW step \in CookieSteps, NEW name \in Names,
         h.savedstate = D!Cookie(step, <<name>>)
  PROVE  D!StepFor(h) = step /\ D!RequestId(h) = <<<<"requestId", <<name>>>>>>
<1>1. D!Resumed(h) /\ D!statevar(h.savedstate, "state") = <<step>>
      /\ D!statevar(h.savedstate, "requestId") = <<name>>
  BY CookieLemma DEF D!Resumed
<1>2. step \in DOMAIN D!Step /\ D!Step[step] = step
  BY DEF D!Step, CookieSteps
<1>3. <<step>>[1] = step
  OBVIOUS
<1>4. QED
  BY <1>1, <1>2, <1>3 DEF D!StepFor, D!RequestId

\* Without a cookie it submits.
LEMMA SubmitStepLemma ==
  ASSUME NEW h, h.op = "submit", h.savedstate = None
  PROVE  D!StepFor(h) = "submit"
<1>1. ~D!Resumed(h)
  BY DEF D!Resumed
<1>2. "submit" \notin DOMAIN D!Step
  BY DEF D!Step
<1>3. QED
  BY <1>1, <1>2 DEF D!StepFor

-----------------------------------------------------------------------------
(***************************************************************************)
(* What the Dogtag helper asks with forms, and makes of the answers.       *)
(***************************************************************************)
\* What the exit says of the i-th request is so.
SaysOf(k, a, exit, i, books) ==
  /\ IsExit(exit)
  /\ \/ exit.status = "ISSUED" /\ exit.cert = <<Certs[i]>> /\ books[i].status = "complete"
     \/ exit.status \in {"WAIT", "WAIT_WITH_DELAY"} /\ Numbered(k, a, exit.cookie, i, books)
     \/ exit.status = "REJECTED" /\ (books[i].status = "rejected" \/ (k = "XML" /\ ~a))

\* The i-th number, serial number and certificate are words, and are found at i.
LEMMA NamesLemma ==
  ASSUME NEW i \in 1..Len(Certs)
  PROVE  /\ Ids[i] \in STRING /\ Serials[i] \in STRING /\ Certs[i] \in STRING
         /\ {Ids[i], Serials[i]} \subseteq Names /\ Certs[i] \in Range(Certs)
         /\ {Ids[i], Serials[i], Certs[i]} \cap D!White = {}
         /\ <<" ", Ids[i]>> # None /\ <<" ", Serials[i]>> # None /\ <<" ", Certs[i]>> # None
         /\ <<Ids[i]>> # None /\ <<Serials[i]>> # None /\ <<Certs[i]>> # None
         /\ i \in DOMAIN Ids /\ i \in DOMAIN Serials
         /\ IndexOf(Ids, Ids[i]) = i /\ IndexOf(Serials, Serials[i]) = i
<1>1. Len(Ids) = Len(Certs) /\ Len(Serials) = Len(Certs) /\ Certs \in Seq(STRING) /\ Ids \in Seq(STRING)
        /\ Serials \in Seq(STRING)
  BY EnrollmentAssumption
<1>2. DOMAIN Ids = 1..Len(Certs) /\ DOMAIN Serials = 1..Len(Certs) /\ DOMAIN Certs = 1..Len(Certs)
  BY <1>1, LenProperties
<1>3. Ids[i] \in STRING /\ Serials[i] \in STRING /\ Certs[i] \in STRING
  BY <1>1, ElementOfSeq
<1>4. {Ids[i], Serials[i]} \subseteq Names /\ Certs[i] \in Range(Certs)
  BY <1>2 DEF Names, Range
<1>5. {Ids[i], Serials[i], Certs[i]} \cap D!White = {}
  BY <1>4, NamesAssumption
<1>6. <<Ids[i]>> # None /\ <<Serials[i]>> # None /\ <<Certs[i]>> # None
  BY <1>4, NamesAssumption
<1>10. <<" ", Ids[i]>> # None /\ <<" ", Serials[i]>> # None /\ <<" ", Certs[i]>> # None
  BY <1>4, NamesAssumption
<1>7. IndexOf(Ids, Ids[i]) = i
  <2>1. \A j \in DOMAIN Ids : Ids[j] = Ids[i] => j = i
    BY <1>2, NamesAssumption DEF IsInjective
  <2>2. QED
    BY <2>1, <1>2 DEF IndexOf
<1>8. IndexOf(Serials, Serials[i]) = i
  <2>1. \A j \in DOMAIN Serials : Serials[j] = Serials[i] => j = i
    BY <1>2, NamesAssumption DEF IsInjective
  <2>2. QED
    BY <2>1, <1>2 DEF IndexOf
<1>9. QED
  BY <1>2, <1>3, <1>4, <1>5, <1>6, <1>7, <1>8, <1>10

\* The least and the greatest of one and two.
LEMMA OneAndTwo == D!Min({1, 2}) = 1 /\ D!Max({1, 2}) = 2
<1>1. \A i \in {1, 2} : (\A j \in {1, 2} : i <= j) <=> i = 1
  OBVIOUS
<1>2. \A i \in {1, 2} : (\A j \in {1, 2} : i >= j) <=> i = 2
  OBVIOUS
<1>3. D!Min({1, 2}) = CHOOSE i \in {1, 2} : \A j \in {1, 2} : i <= j
  BY DEF D!Min
<1>4. D!Max({1, 2}) = CHOOSE i \in {1, 2} : \A j \in {1, 2} : i >= j
  BY DEF D!Max
<1>5. QED
  BY <1>1, <1>2, <1>3, <1>4

\* Two words stay as they are.
LEMMA StrippedNot ==
  ASSUME NEW chars, NEW t \in Seq(STRING), Len(t) = 2, t[1] \notin chars, t[2] \notin chars
  PROVE  D!Stripped(chars)[t] = t
<1>1. DOMAIN t = 1..2
  BY LenProperties
<1>2. DOMAIN t = {1, 2}
  BY <1>1
<1>3. {i \in DOMAIN t : t[i] \notin chars} = {1, 2}
  BY <1>2
<1>4. D!Stripped(chars)[t] = SubSeq(t, 1, 2)
  BY <1>3, OneAndTwo DEF D!Stripped
<1>5. QED
  BY <1>4, SubSeqFull

\* A name is read as it is, also at the end of a line.
LEMMA StripName ==
  ASSUME NEW x \in STRING, x \notin D!White, <<x>> # None
  PROVE  /\ D!Stripped(D!Newlines)[<<x>>] = <<x>> /\ D!Stripped(D!Newlines)[<<x, "\n">>] = <<x>>
         /\ D!trim(<<x>>) = <<x>> /\ D!Pem(<<x>>) = <<x>>
<1>1. x \notin D!Newlines /\ "\n" \in D!Newlines
  BY DEF D!White, D!Newlines
<1>2. "\n" \in STRING
  BY NamesAssumption
<1>3. D!Stripped(D!Newlines)[<<x>>] = <<x>> /\ D!Stripped(D!Newlines)[<<x, "\n">>] = <<x>>
  BY <1>1, <1>2, Stripped1, Stripped2
<1>4. D!trim(<<x>>) = <<x>> /\ D!Pem(<<x>>) = <<x>>
  BY TrimOne, PemOne
<1>5. QED
  BY <1>3, <1>4

\* A name after a space is read without it.
LEMMA StripSpaced ==
  ASSUME NEW x \in STRING, x \notin D!White, <<x>> # None, <<" ", x>> # None
  PROVE  /\ D!Stripped(D!Newlines)[<<" ", x>>] = <<" ", x>> /\ D!trim(<<" ", x>>) = <<x>>
<1>1. x \notin D!Newlines /\ "\n" \in D!Newlines /\ " " \notin D!Newlines /\ " " \in D!White
  BY DEF D!White, D!Newlines
<1>2. "\n" \in STRING /\ " " \in STRING
  BY NamesAssumption
<1> DEFINE t == <<" ", x>>
<1>5. t \in Seq(STRING) /\ Len(t) = 2 /\ t[1] = " " /\ t[2] = x
  BY <1>2, TwoTexts
<1>6. D!Stripped(D!Newlines)[t] = t
  <2> HIDE DEF t
  <2>1. x \notin D!Newlines /\ " " \notin D!Newlines
    BY <1>1
  <2>2. t[1] \notin D!Newlines /\ t[2] \notin D!Newlines
    BY <2>1, <1>5
  <2>3. QED
    BY <2>2, <1>5, StrippedNot
<1>7. D!Stripped(D!White)[t] = <<x>> /\ t # None
  <2>1. D!Stripped(D!White)[t] = <<x>>
    BY <1>1, <1>2, Stripped2
  <2>2. QED
    BY <2>1
<1>8. D!trim(t) = <<x>>
  <2>1. <<x>> \in Seq(STRING) /\ <<x>> # <<>>
    BY OneText
  <2>2. D!NoneIfEmpty[<<x>>] = <<x>>
    BY <2>1 DEF D!NoneIfEmpty
  <2>3. QED
    BY <2>2, <1>7 DEF D!trim
<1>9. QED
  BY <1>6, <1>8

\* The fields that the helper looks at.
CallFields(k, a, h, cookie, csr) ==
  /\ h.op = "submit" /\ h.savedstate = cookie /\ h.csr = <<csr>> /\ h.cert = None /\ h.serial = None
  /\ h.force_new = FALSE /\ h.force_renew = FALSE /\ h.template = <<"t">> /\ h.agent_submit = FALSE
  /\ h.eeurl = (IF k = "XML" THEN "ee" ELSE None) /\ h.agenturl = (IF k = "XML" THEN "agent" ELSE None)
  /\ h.jsonrpc = (IF k = "JSON" THEN "ipa" ELSE None)
  /\ h.aoptions = <<>> /\ h.soptions = <<>> /\ h.creds = <<>>
  /\ h.sslcert = (IF a THEN <<"n">> ELSE None) /\ h.prefers_renewal = FALSE

\* The fields of a call are what it was made with.
LEMMA CalledLemma ==
  ASSUME NEW k, NEW a, NEW h, NEW cookie, NEW csr, Called(k, a, h, cookie, csr)
  PROVE  CallFields(k, a, h, cookie, csr)
BY DEF Called, CallFields

\* Called like this, the helper lacks nothing and does not renew by serial
\* number.
LEMMA AskLemma ==
  ASSUME NEW k \in {"XML", "JSON"}, NEW a \in BOOLEAN, NEW h, NEW cookie, NEW csr \in TheCsrs,
         Called(k, a, h, cookie, csr)
  PROVE  /\ ~D!MissingArguments(h) /\ D!Workflow(h) = k
         /\ D!SerialOf(h) = None /\ ~D!RenewsBySerial(h)
         /\ h.csr \notin {None, <<>>} /\ (h.sslcert \notin {None, <<>>} <=> a)
         /\ ~D!CannotAsk(h, "submit") /\ ~D!CannotAsk(h, "check") /\ ~D!CannotAsk(h, "retrieve")
         /\ k = "XML" /\ a => ~D!CannotAsk(h, "approve")
         /\ \A op : ~D!CannotCall(h, op)
<1>0. CallFields(k, a, h, cookie, csr)
  BY CalledLemma
<1>1. D!SerialOf(h) = None
  BY <1>0 DEF D!SerialOf, CallFields
<1>2. ~D!RenewsBySerial(h)
  BY <1>1 DEF D!RenewsBySerial
<1>3. "ee" # None /\ "agent" # None /\ "ipa" # None /\ <<"n">> # None
  BY NamesAssumption
<1>4. h.csr # None
  BY <1>0, NamesAssumption DEF TheCsrs, CallFields
<1>5. h.csr # <<>>
  BY <1>0 DEF CallFields
<1>6. h.sslcert \notin {None, <<>>} <=> a
  BY <1>3, <1>0 DEF CallFields
<1>7. k = "XML" => h.eeurl = "ee" /\ h.agenturl = "agent" /\ h.jsonrpc = None
  BY <1>0 DEF CallFields
<1>8. k = "JSON" => h.eeurl = None /\ h.agenturl = None /\ h.jsonrpc = "ipa"
  BY <1>0 DEF CallFields
<1>9. ~D!MissingArguments(h)
  BY <1>1, <1>3, <1>7, <1>8, <1>0 DEF D!MissingArguments, CallFields
<1>10. D!Workflow(h) = k
  BY <1>3, <1>7, <1>8 DEF D!Workflow
<1>11. ~D!CannotAsk(h, "submit") /\ ~D!CannotAsk(h, "check") /\ ~D!CannotAsk(h, "retrieve")
  BY <1>4, <1>5 DEF D!CannotAsk
<1>12. k = "XML" /\ a => ~D!CannotAsk(h, "approve")
  BY <1>3, <1>6, <1>7 DEF D!CannotAsk
<1>13. \A op : ~D!CannotCall(h, op)
  BY <1>4, <1>5, <1>0 DEF D!CannotCall, CallFields
<1>14. QED
  BY <1>1, <1>2, <1>4, <1>5, <1>6, <1>9, <1>10, <1>11, <1>12, <1>13

\* Without credentials none are sent.
LEMMA CredentialsLemma ==
  ASSUME NEW h, h.creds = <<>> PROVE D!Credentials(h) = <<>>
<1>1. {i \in DOMAIN h.creds : \A j \in DOMAIN h.soptions : h.soptions[j][1] # h.creds[i][1]} = {}
  OBVIOUS
<1>2. QED
  BY <1>1, KeptNone DEF D!Credentials

\* A form with two parameters has each by its name.
LEMMA ParamLemma ==
  ASSUME NEW form, NEW p, NEW q, NEW v, NEW w, p # q, form.params = <<<<p, <<v>>>>, <<q, <<w>>>>>>
  PROVE  Param(form, p) = v /\ Param(form, q) = w
<1>1. DOMAIN form.params = {1, 2} /\ form.params[1][1] = p /\ form.params[2][1] = q
  OBVIOUS
<1>2. (CHOOSE i \in DOMAIN form.params : form.params[i][1] = p) = 1
  BY <1>1
<1>3. (CHOOSE i \in DOMAIN form.params : form.params[i][1] = q) = 2
  BY <1>1
<1>4. form.params[1][2][1] = v /\ form.params[2][2][1] = w
  OBVIOUS
<1>5. QED
  BY <1>2, <1>3, <1>4 DEF Param

\* A form with one parameter.
LEMMA OneParamLemma ==
  ASSUME NEW form, NEW p, NEW v, form.params = <<<<p, <<v>>>>>>
  PROVE  Param(form, p) = v
<1>1. DOMAIN form.params = {1} /\ form.params[1][1] = p
  OBVIOUS
<1>2. (CHOOSE i \in DOMAIN form.params : form.params[i][1] = p) = 1
  BY <1>1
<1>4. form.params[1][2][1] = v
  OBVIOUS
<1>5. QED
  BY <1>2, <1>4 DEF Param

\* Lists of one and two, one after the other.
LEMMA ConcatLemma ==
  ASSUME NEW S, NEW x \in S, NEW y \in S
  PROVE  /\ <<x>> \o <<y>> = <<x, y>> /\ <<x>> \o <<>> = <<x>>
         /\ <<x>> \o <<y>> \o <<>> = <<x, y>> /\ <<x>> \o <<y>> \o <<>> \o <<>> = <<x, y>>
<1>1. <<x>> \o <<y>> = <<x, y>>
  <2> DEFINE s == <<x>>
             u == <<y>>
             v == <<x, y>>
  <2>1. s \in Seq(S) /\ Len(s) = 1 /\ s[1] = x
    BY OneText
  <2>2. u \in Seq(S) /\ Len(u) = 1 /\ u[1] = y
    BY OneText
  <2>3. v \in Seq(S) /\ Len(v) = 2 /\ v[1] = x /\ v[2] = y
    BY TwoTexts
  <2> HIDE DEF s, u, v
  <2> DEFINE w == s \o u
  <2>4. w \in Seq(S) /\ Len(w) = Len(s) + Len(u)
        /\ \A i \in 1..Len(s) + Len(u) : w[i] = IF i <= Len(s) THEN s[i] ELSE u[i - Len(s)]
    BY <2>1, <2>2, ConcatProperties
  <2> HIDE DEF w
  <2>5. Len(w) = 2 /\ w[1] = x /\ w[2] = y
    BY <2>1, <2>2, <2>4
  <2>6. Len(w) = Len(v) /\ \A i \in 1..Len(w) : w[i] = v[i]
    BY <2>3, <2>5
  <2>7. w = v
    BY <2>3, <2>4, <2>6, SeqEqual
  <2>8. QED
    BY <2>7 DEF w, s, u, v
<1>2. \A s \in Seq(S) : s \o <<>> = s
  BY ConcatEmptySeq
<1>3. <<x>> \in Seq(S) /\ <<x, y>> \in Seq(S)
  BY OneText, TwoTexts
<1>4. QED
  BY <1>1, <1>2, <1>3

\* The form that submits has the signing request.
LEMMA SubmitFormLemma ==
  ASSUME NEW a \in BOOLEAN, NEW h, NEW csr \in TheCsrs, Called("XML", a, h, None, csr)
  PROVE  LET form == Last(D!FormsSent(h, [code |-> 0], <<>>))
         IN  form.resource = "profileSubmit" /\ Param(form, "cert_request") = csr
<1>0. CallFields("XML", a, h, None, csr)
  BY CalledLemma
<1>1. D!StepFor(h) = "submit"
  BY <1>0, SubmitStepLemma DEF CallFields
<1>2. ~D!CannotAsk(h, "submit") /\ ~D!RenewsBySerial(h)
  BY AskLemma
<1>3. D!FormsSent(h, [code |-> 0], <<>>) = <<D!SubmitForm(h)>> \o <<>>
  BY <1>1, <1>2 DEF D!FormsSent, D!FormFor
<1> DEFINE form == D!SubmitForm(h)
<1>4. <<form>> \o <<>> = <<form>>
  OBVIOUS
<1>5. Last(<<form>>) = form
  BY DEF Last
<1>6. D!Credentials(h) = <<>>
  BY <1>0, CredentialsLemma DEF CallFields
<1>7. form.resource = "profileSubmit"
  BY <1>0 DEF D!SubmitForm, D!Form, CallFields
<1>8. form.params = <<<<"profileId", <<"t">>>>>> \o <<<<"cert_request", <<csr>>>>>> \o <<>> \o <<>>
  BY <1>2, <1>6, <1>0 DEF D!SubmitForm, D!Form, CallFields
<1>9. form.params = <<<<"profileId", <<"t">>>>, <<"cert_request", <<csr>>>>>>
  <2> DEFINE x == <<"profileId", <<"t">>>>
             y == <<"cert_request", <<csr>>>>
  <2>1. <<x>> \o <<y>> \o <<>> \o <<>> = <<x, y>>
    <3> HIDE DEF x, y
    <3>1. x \in {x, y} /\ y \in {x, y}
      OBVIOUS
    <3>2. QED
      BY <3>1, ConcatLemma
  <2>2. QED
    BY <2>1, <1>8
<1> HIDE DEF form
<1>10. Param(form, "cert_request") = csr
  BY <1>9, ParamLemma
<1>11. QED
  BY <1>3, <1>4, <1>5, <1>7, <1>10 DEF form

\* A request that waits has its number in the cookie.
LEMMA DeferredLemma ==
  ASSUME NEW k \in {"XML", "JSON"}, NEW a \in BOOLEAN, NEW i, NEW books
  PROVE  SaysOf(k, a, D!Deferred(<<Ids[i]>>, a), i, books)
<1>1. CASE a
  BY <1>1 DEF SaysOf, IsExit, D!Deferred, D!AtOnce, D!Later, D!Exit, Numbered
<1>2. CASE ~a
  BY <1>2 DEF SaysOf, IsExit, D!Deferred, D!AtOnce, D!Later, D!Exit, Numbered
<1>3. QED
  BY <1>1, <1>2

\* A certificate that is issued is the exit's.
LEMMA IssuedLemma ==
  ASSUME NEW i \in 1..Len(Certs)
  PROVE  IsExit(D!Issued(<<Certs[i]>>)) /\ D!Issued(<<Certs[i]>>).status = "ISSUED"
           /\ D!Issued(<<Certs[i]>>).cert = <<Certs[i]>>
<1>1. D!trim(<<Certs[i]>>) = <<Certs[i]>>
  BY NamesLemma, StripName
<1>2. QED
  BY <1>1 DEF D!Issued, D!Exit, IsExit

\* The cookie for fetching a certificate is about the request that is complete.
LEMMA AtOnceLemma ==
  ASSUME NEW k \in {"XML", "JSON"}, NEW a \in BOOLEAN, NEW i, NEW books, k = "JSON" \/ a,
         books[i].status = "complete"
  PROVE  SaysOf(k, a, D!AtOnce("retrieve", <<IF k = "JSON" THEN Serials[i] ELSE Ids[i]>>), i, books)
BY DEF SaysOf, IsExit, D!AtOnce, D!Exit, Numbered

\* A refusal is a rejection.
LEMMA RefusedLemma ==
  ASSUME NEW r PROVE D!Refused(r).status = "REJECTED" /\ IsExit(D!Refused(r))
BY DEF IsExit, D!Refused, D!Exit

IsWord(x) == x \in STRING /\ x \notin D!White /\ <<x>> # None
Says(doc, p, x) == p \in DOMAIN doc /\ doc[p] \in {<<x>>, <<x, "\n">>}

\* A word in a document is read as it is.
LEMMA ValueLemma ==
  ASSUME NEW doc, NEW p, NEW x, IsWord(x), Says(doc, p, x)
  PROVE  D!XmlValue(doc, p) = <<x>>
<1>1. D!XmlValue(doc, p) = D!Stripped(D!Newlines)[doc[p]]
  BY DEF D!XmlValue, Says
<1>2. QED
  BY <1>1, StripName DEF Says, IsWord

\* A status is a word.
LEMMA StatusWords ==
  ASSUME NEW s \in {"0", "2", "pending", "complete", "rejected"}, NEW i \in 1..Len(Certs)
  PROVE  IsWord(s)
<1>1. i \in DOMAIN Certs
  BY EnrollmentAssumption, LenProperties
<1>2. QED
  BY <1>1, NamesAssumption, AnswersAssumption DEF D!White, IsWord

\* So are the names.
LEMMA NameWords ==
  ASSUME NEW i \in 1..Len(Certs)
  PROVE  IsWord(Ids[i]) /\ IsWord(Serials[i]) /\ IsWord(Certs[i])
BY NamesLemma DEF IsWord

\* A submission that is answered is answered with a certificate or a cookie.
SubmitSays(k, a, exit, i, books) == SaysOf(k, a, exit, i, books) /\ exit # None

\* What a submission comes to is something.
LEMMA SubmitSaysLemma ==
  ASSUME NEW i \in 1..Len(Certs)
  PROVE  D!Issued(<<Certs[i]>>) # None /\ \A a \in BOOLEAN : D!Deferred(<<Ids[i]>>, a) # None
<1>1. i \in DOMAIN Certs
  BY EnrollmentAssumption, LenProperties
<1>2. QED
  BY <1>1, AnswersAssumption

\* A form that submits: a certificate for a complete request, a cookie for one that waits.
LEMMA SubmitXmlLemma ==
  ASSUME NEW a \in BOOLEAN, NEW i \in 1..Len(Certs), NEW s \in {"pending", "complete"}, NEW books,
         books[i].status = s
  PROVE  SubmitSays("XML", a, D!SubmitEval(XmlReply(i, s).submit, a, "XML"), i, books)
<1> DEFINE doc == XmlReply(i, s).submit
           r == D!SubmitResult(doc)
<1>1. CASE s = "complete"
  <2> HIDE DEF doc
  <2>1. doc = Doc2("/XMLResponse/Status", <<"0">>, "/XMLResponse/Requests/Request/b64", <<Certs[i], "\n">>)
    BY <1>1 DEF Doc2, XmlReply, doc
  <2>2. IsDoc2(doc, "/XMLResponse/Status", <<"0">>, "/XMLResponse/Requests/Request/b64", <<Certs[i], "\n">>)
    <3>1. "/XMLResponse/Status" # "/XMLResponse/Requests/Request/b64"
      OBVIOUS
    <3>2. QED
      BY <3>1, <2>1, XmlTwo
    <2>3. D!XmlValue(doc, "/XMLResponse/Status") = <<"0">>
      <3>1. IsWord("0")
        BY StatusWords
      <3>2. Says(doc, "/XMLResponse/Status", "0")
        BY <2>2 DEF Says, IsDoc2
      <3>3. QED
        BY <3>1, <3>2, ValueLemma
  <2>4. D!XmlValue(doc, "/XMLResponse/Requests/Request/b64") = <<Certs[i]>>
    <3>1. IsWord(Certs[i])
      BY NameWords
    <3>2. Says(doc, "/XMLResponse/Requests/Request/b64", Certs[i])
      BY <2>2 DEF Says, IsDoc2
    <3>3. QED
      BY <3>1, <3>2, ValueLemma
  <2>5. D!Pem(<<Certs[i]>>) = <<Certs[i]>> /\ <<Certs[i]>> # None
    BY NamesLemma, StripName
  <2>6. r.status = <<"0">> /\ r.cert = <<Certs[i]>>
    BY <2>3, <2>4, <2>5 DEF D!SubmitResult
  <2>7. D!SubmitEval(doc, a, "XML") = D!Issued(<<Certs[i]>>)
    BY <2>5, <2>6 DEF D!SubmitEval
  <2>8. QED
    BY <1>1, <2>7, IssuedLemma, SubmitSaysLemma DEF SubmitSays, SaysOf, doc
<1>2. CASE s = "pending"
  <2> HIDE DEF doc
  <2>1. doc = Doc2("/XMLResponse/Status", <<"2">>, "/XMLResponse/RequestId", <<Ids[i], "\n">>)
    BY <1>2 DEF Doc2, XmlReply, doc
  <2>2. IsDoc2(doc, "/XMLResponse/Status", <<"2">>, "/XMLResponse/RequestId", <<Ids[i], "\n">>)
    <3>1. "/XMLResponse/Status" # "/XMLResponse/RequestId"
      OBVIOUS
    <3>2. QED
      BY <3>1, <2>1, XmlTwo
    <2>3. D!XmlValue(doc, "/XMLResponse/Status") = <<"2">>
      <3>1. IsWord("2")
        BY StatusWords
      <3>2. Says(doc, "/XMLResponse/Status", "2")
        BY <2>2 DEF Says, IsDoc2
      <3>3. QED
        BY <3>1, <3>2, ValueLemma
  <2>4. D!XmlValue(doc, "/XMLResponse/RequestId") = <<Ids[i]>>
    <3>1. IsWord(Ids[i])
      BY NameWords
    <3>2. Says(doc, "/XMLResponse/RequestId", Ids[i])
      BY <2>2 DEF Says, IsDoc2
    <3>3. QED
      BY <3>1, <3>2, ValueLemma
  <2>5. D!trim(<<Ids[i]>>) = <<Ids[i]>> /\ <<Ids[i]>> # None
    BY NamesLemma, StripName
  <2>6. r.status = <<"2">> /\ r.requestId = <<Ids[i]>>
    BY <2>3, <2>4, <2>5 DEF D!SubmitResult
  <2>9. r.status # <<"0">>
    <3>1. <<"2">>[1] # <<"0">>[1]
      OBVIOUS
    <3>2. QED
      BY <2>6, <3>1
  <2>7. D!SubmitEval(doc, a, "XML") = D!Deferred(<<Ids[i]>>, a)
    BY <2>5, <2>6, <2>9 DEF D!SubmitEval
  <2>8. QED
    BY <2>7, DeferredLemma, SubmitSaysLemma DEF SubmitSays, doc
<1>3. QED
  BY <1>1, <1>2

\* A form that asks for the state is read as text in JSON, which it is not, and
\* that as a rejection.
LEMMA CheckXmlLemma ==
  ASSUME NEW i \in 1..Len(Certs), NEW books
  PROVE  SaysOf("XML", FALSE, D!CheckEval(None, FALSE, "JSON"), i, books)
<1>1. D!ParseJson(None) = None
  BY DEF D!ParseJson
<1>2. ~D!HasMembers(None, D!Stated)
  BY DEF D!HasMembers, D!Member, D!Stated
<1>3. D!RestCheckResult(None).status = None
  BY <1>1, <1>2 DEF D!RestCheckResult, D!NotSaid, D!Unknown
<1>4. <<"complete">> # None /\ <<"pending">> # None
  BY StatusWords DEF IsWord
<1>5. D!CheckEval(None, FALSE, "JSON").status = "REJECTED" /\ IsExit(D!CheckEval(None, FALSE, "JSON"))
  BY <1>3, <1>4, RefusedLemma DEF D!CheckEval
<1>6. QED
  BY <1>5 DEF SaysOf

\* An agent's approval says that the request is complete or rejected.
LEMMA ApproveXmlLemma ==
  ASSUME NEW i \in 1..Len(Certs), NEW s \in {"complete", "rejected"}, NEW books, books[i].status = s
  PROVE  SaysOf("XML", TRUE, D!ApproveEval(XmlReply(i, s).approve, "XML"), i, books)
<1> DEFINE doc == XmlReply(i, s).approve
           r == D!ApproveResult(doc)
<1> HIDE DEF doc
<1>1. doc = Doc2("/xml/output/set/requestStatus", <<s>>, "/xml/output/set/requestId", <<" ", Ids[i]>>)
  BY DEF Doc2, XmlReply, doc
<1>2. IsDoc2(doc, "/xml/output/set/requestStatus", <<s>>, "/xml/output/set/requestId", <<" ", Ids[i]>>)
  <2>1. "/xml/output/set/requestStatus" # "/xml/output/set/requestId"
    OBVIOUS
  <2>2. QED
    BY <2>1, <1>1, XmlTwo
<1>3. D!XmlValue(doc, "/xml/output/set/requestStatus") = <<s>>
  <2>1. IsWord(s)
    BY StatusWords
  <2>2. Says(doc, "/xml/output/set/requestStatus", s)
    BY <1>2 DEF Says, IsDoc2
  <2>3. QED
    BY <2>1, <2>2, ValueLemma
<1>4. D!XmlValue(doc, "/xml/output/set/requestId") = <<" ", Ids[i]>>
  BY <1>2, NamesLemma, StripSpaced DEF D!XmlValue, IsDoc2
<1>5. D!trim(<<s>>) = <<s>>
  BY StatusWords, StripName DEF IsWord
<1>6. D!trim(<<" ", Ids[i]>>) = <<Ids[i]>> /\ <<Ids[i]>> # None
  BY NamesLemma, StripSpaced
<1>7. r.status = <<s>> /\ r.requestId = <<Ids[i]>>
  BY <1>3, <1>4, <1>5, <1>6 DEF D!ApproveResult, D!Unknown
<1>8. CASE s = "complete"
  <2>1. D!ApproveEval(doc, "XML") = D!AtOnce("retrieve", <<Ids[i]>>)
    BY <1>6, <1>7, <1>8 DEF D!ApproveEval
  <2>2. SaysOf("XML", TRUE, D!AtOnce("retrieve", <<IF "XML" = "JSON" THEN Serials[i] ELSE Ids[i]>>), i, books)
    BY <1>8, AtOnceLemma
  <2>3. QED
    BY <2>1, <2>2 DEF doc
<1>9. CASE s = "rejected"
  <2>1. <<s>> # <<"complete">>
    <3>1. <<s>>[1] # <<"complete">>[1]
      BY <1>9
    <3>2. QED
      BY <3>1
  <2>2. D!ApproveEval(doc, "XML") = D!Refused(r)
    BY <2>1, <1>7 DEF D!ApproveEval
  <2>3. QED
    BY <1>9, <2>2, RefusedLemma DEF SaysOf, doc
<1>10. QED
  BY <1>8, <1>9

\* What is fetched for a complete request is its certificate.
LEMMA FetchXmlLemma ==
  ASSUME NEW a, NEW i \in 1..Len(Certs), NEW books, books[i].status = "complete"
  PROVE  SaysOf("XML", a, D!FetchEval(XmlReply(i, "complete").retrieve, "XML"), i, books)
<1> DEFINE doc == XmlReply(i, "complete").retrieve
           r == D!FetchResult(doc)
<1> HIDE DEF doc
<1>1. doc = Doc1("/xml/records/record/base64Cert", <<Certs[i], "\n">>)
  BY DEF Doc1, XmlReply, doc
<1>2. DOMAIN doc = {"/xml/records/record/base64Cert"}
        /\ doc["/xml/records/record/base64Cert"] = <<Certs[i], "\n">>
  BY <1>1, XmlOne
<1>3. D!XmlValue(doc, "/xml/records/record/base64Cert") = <<Certs[i]>>
  <2>1. IsWord(Certs[i])
    BY NameWords
  <2>2. Says(doc, "/xml/records/record/base64Cert", Certs[i])
    BY <1>2 DEF Says, IsDoc2
  <2>3. QED
    BY <2>1, <2>2, ValueLemma
<1>4. D!Pem(<<Certs[i]>>) = <<Certs[i]>> /\ <<Certs[i]>> # None
  BY NamesLemma, StripName
<1>5. r.cert = <<Certs[i]>>
  BY <1>3, <1>4 DEF D!FetchResult, D!Unknown
<1>6. D!FetchEval(doc, "XML") = D!Issued(<<Certs[i]>>)
  BY <1>4, <1>5 DEF D!FetchEval
<1>7. QED
  BY <1>6, IssuedLemma DEF SaysOf, doc

\* What a form asks for when there is a cookie.
LEMMA IdFormLemma ==
  ASSUME NEW a \in BOOLEAN, NEW h, NEW csr \in TheCsrs, NEW name \in Names, NEW step \in {"check", "retrieve"},
         Called("XML", a, h, D!Cookie(step, <<name>>), csr)
  PROVE  LET form == Last(D!FormsSent(h, [code |-> 0], <<>>))
         IN  form.resource \notin {"profileSubmit", "profileProcess"} /\ Param(form, "requestId") = name
<1>0. CallFields("XML", a, h, D!Cookie(step, <<name>>), csr)
  BY CalledLemma
<1>1. D!StepFor(h) = step /\ D!RequestId(h) = <<<<"requestId", <<name>>>>>>
  BY <1>0, StepLemma DEF CallFields, CookieSteps
<1>2. ~D!CannotAsk(h, step)
  BY AskLemma
<1> DEFINE form == D!FormFor(h, step)
<1>3. D!FormsSent(h, [code |-> 0], <<>>) = <<form>> \o <<>>
  BY <1>1, <1>2 DEF D!FormsSent
<1>4. <<form>> \o <<>> = <<form>>
  OBVIOUS
<1>5. Last(<<form>>) = form
  BY DEF Last
<1>6. form.resource \notin {"profileSubmit", "profileProcess"} /\ form.params = <<<<"requestId", <<name>>>>>>
  BY <1>1 DEF D!FormFor, D!Form
<1> HIDE DEF form
<1>7. Param(form, "requestId") = name
  BY <1>6, OneParamLemma
<1>8. QED
  BY <1>3, <1>4, <1>5, <1>6, <1>7 DEF form

\* The form that approves has the number of the request in the cookie.
LEMMA ApproveFormLemma ==
  ASSUME NEW h, NEW csr \in TheCsrs, NEW name \in Names,
         Called("XML", TRUE, h, D!Cookie("approve", <<name>>), csr)
  PROVE  LET form == Last(D!FormsSent(h, [code |-> 0], <<>>))
         IN  /\ form.resource = "profileProcess" /\ Param(form, "requestId") = name
             /\ Param(form, "op") = "approve"
<1>0. CallFields("XML", TRUE, h, D!Cookie("approve", <<name>>), csr)
  BY CalledLemma
<1>1. D!StepFor(h) = "approve" /\ D!RequestId(h) = <<<<"requestId", <<name>>>>>>
  BY <1>0, StepLemma DEF CallFields, CookieSteps
<1>2. ~D!CannotAsk(h, "approve")
  BY AskLemma
<1> DEFINE form == D!ApproveForm(h, <<>>)
           first == D!FormFor(h, "approve")
<1>3. D!FormsSent(h, [code |-> 0], <<>>) = <<first>> \o <<form>>
  BY <1>1, <1>2 DEF D!FormsSent
<1>4. form.resource = "profileProcess" /\ form.params = <<<<"requestId", <<name>>>>, <<"op", <<"approve">>>>>>
  <2> DEFINE places == {i \in DOMAIN <<>> : \A j \in DOMAIN h.aoptions : h.aoptions[j][1] # <<>>[i].name[1]}
             kept == D!Kept(<<>>, places)
             settings == [i \in DOMAIN kept |-> <<kept[i].name[1], kept[i].value>>]
  <2>1. form = D!Form(h.agenturl, "profileProcess",
                      D!RequestId(h) \o <<<<"op", <<"approve">>>>>> \o settings \o h.aoptions)
    BY DEF D!ApproveForm
  <2>2. kept = <<>>
    <3>1. places = {}
      OBVIOUS
    <3> HIDE DEF places
    <3>2. QED
      BY <3>1, KeptNone
  <2> HIDE DEF kept, places
  <2>6. settings = <<>>
    BY <2>2
  <2> HIDE DEF settings
  <2>3. form = D!Form(h.agenturl, "profileProcess",
          <<<<"requestId", <<name>>>>>> \o <<<<"op", <<"approve">>>>>> \o <<>> \o <<>>)
    BY <2>1, <2>6, <1>0, <1>1 DEF CallFields
  <2>4. <<<<"requestId", <<name>>>>>> \o <<<<"op", <<"approve">>>>>> \o <<>> \o <<>>
          = <<<<"requestId", <<name>>>>, <<"op", <<"approve">>>>>>
    <3> DEFINE x == <<"requestId", <<name>>>>
               y == <<"op", <<"approve">>>>
    <3> HIDE DEF x, y
    <3>1. x \in {x, y} /\ y \in {x, y}
      OBVIOUS
    <3>2. <<x>> \o <<y>> \o <<>> \o <<>> = <<x, y>>
      BY <3>1, ConcatLemma
    <3>3. QED
      BY <3>2 DEF x, y
  <2>5. QED
    BY <2>3, <2>4 DEF D!Form
<1> HIDE DEF form, first
<1>5. Last(<<first>> \o <<form>>) = form
  <2>1. <<first>> \o <<form>> = <<first, form>>
    <3>1. first \in {first, form} /\ form \in {first, form}
      OBVIOUS
    <3>2. QED
      BY <3>1, ConcatLemma
  <2>2. QED
    BY <2>1 DEF Last
<1>6. Param(form, "requestId") = name /\ Param(form, "op") = "approve"
  BY <1>4, ParamLemma
<1>7. QED
  BY <1>3, <1>4, <1>5, <1>6 DEF form

\* An answer that comes is read.
LEMMA XmlHeardLemma ==
  ASSUME kind = "XML", NEW a \in BOOLEAN, NEW h, NEW cookie, NEW csr \in TheCsrs,
         Called("XML", a, h, cookie, csr),
         NEW doc, doc # None
  PROVE  LET op == D!StepFor(h)
         IN  /\ op = "submit" => Heard(h, doc) = D!SubmitEval(doc, a, "XML")
             /\ op = "check" => Heard(h, doc) = D!CheckEval(None, a, "JSON")
             /\ op = "approve" /\ a => Heard(h, doc) = D!ApproveEval(doc, "XML")
             /\ op = "retrieve" => Heard(h, doc) = D!FetchEval(doc, "XML")
<1> DEFINE op == D!StepFor(h)
           answer == [code |-> 0, doc |-> doc]
<1>1. Heard(h, doc) = D!RunDogtag(h, answer, answer)
  BY DEF Heard, Run
<1>2. ~D!MissingArguments(h) /\ D!Workflow(h) = "XML" /\ (h.sslcert \notin {None, <<>>} <=> a)
  BY AskLemma
<1>3. D!RunDogtag(h, answer, answer) = D!XmlWorkflow(h, answer, answer)
  BY <1>2 DEF D!RunDogtag
<1>4. ASSUME op \in {"submit", "check", "retrieve"} \/ (op = "approve" /\ a)
      PROVE  D!XmlWorkflow(h, answer, answer) = D!XmlEval(h, op, doc)
  <2>1. ~D!CannotAsk(h, op)
    BY <1>4, AskLemma
  <2>2. D!XmlWorkflow(h, answer, answer) = D!XmlOutcome(h, op, answer)
    BY <2>1 DEF D!XmlWorkflow
  <2>3. QED
    BY <2>2 DEF D!XmlOutcome
<1> HIDE DEF op, answer
<1>5. op = "submit" => D!XmlEval(h, op, doc) = D!SubmitEval(doc, a, "XML")
  BY <1>2 DEF D!XmlEval
<1>6. op = "check" => D!XmlEval(h, op, doc) = D!CheckEval(None, a, "JSON")
  BY <1>2 DEF D!XmlEval
<1>7. op = "approve" => D!XmlEval(h, op, doc) = D!ApproveEval(doc, "XML")
  BY DEF D!XmlEval
<1>8. op = "retrieve" => D!XmlEval(h, op, doc) = D!FetchEval(doc, "XML")
  BY DEF D!XmlEval
<1>9. QED
  BY <1>1, <1>3, <1>4, <1>5, <1>6, <1>7, <1>8 DEF op

\* The books after a request.
LEMMA BookLemma ==
  ASSUME IsBooks(requests), NEW csr \in TheCsrs, NEW s \in {"pending", "complete"},
         Len(Book(csr, s)) <= Len(Certs)
  PROVE  LET n == Len(requests) + 1 IN
         /\ n \in 1..Len(Certs) /\ Len(Book(csr, s)) = n /\ n \in DOMAIN Book(csr, s)
         /\ Book(csr, s)[n] = [csr |-> csr, status |-> s]
         /\ \A i \in DOMAIN requests : i \in DOMAIN Book(csr, s) /\ Book(csr, s)[i] = requests[i]
         /\ IsBooks(Book(csr, s))
<1> DEFINE e == [csr |-> csr, status |-> s]
           R == [csr : TheCsrs, status : Statuses]
<1>1. e \in R
  BY DEF Statuses
<1>2. requests \in Seq(R) /\ Len(requests) \in Nat
  BY LenProperties DEF IsBooks
<1> HIDE DEF e, R
<1> DEFINE b == Append(requests, e)
<1>3. b \in Seq(R) /\ Len(b) = Len(requests) + 1 /\ b[Len(requests) + 1] = e
      /\ \A i \in 1..Len(requests) : b[i] = requests[i]
  BY <1>1, <1>2, AppendProperties
<1>4. Book(csr, s) = b
  BY DEF Book, e
<1> HIDE DEF b
<1>5. DOMAIN requests = 1..Len(requests) /\ DOMAIN b = 1..Len(b)
  BY <1>2, <1>3, LenProperties
<1>6. Len(Certs) \in Nat
  BY EnrollmentAssumption, LenProperties
<1>7. Len(b) <= Len(Certs)
  BY <1>4
<1>8. Len(requests) + 1 \in 1..Len(Certs) /\ Len(requests) + 1 \in DOMAIN b
  BY <1>2, <1>3, <1>5, <1>6, <1>7
<1>9. \A i \in DOMAIN requests : i \in DOMAIN b /\ b[i] = requests[i]
  BY <1>2, <1>3, <1>5
<1>10. IsBooks(b)
  BY <1>3, <1>7 DEF IsBooks, R
<1>11. QED
  BY <1>3, <1>4, <1>8, <1>9, <1>10 DEF e

\* Completing one request, or rejecting it, leaves the others alone.
LEMMA CompleteLemma ==
  ASSUME IsBooks(requests), NEW i \in DOMAIN requests, NEW s \in Statuses
  PROVE  LET b == [requests EXCEPT ![i].status = s] IN
         /\ IsBooks(b) /\ Len(b) = Len(requests) /\ DOMAIN b = DOMAIN requests
         /\ b[i].status = s /\ b[i].csr = requests[i].csr
         /\ \A j \in DOMAIN requests \ {i} : b[j] = requests[j]
<1> DEFINE R == [csr : TheCsrs, status : Statuses]
           e == [requests[i] EXCEPT !.status = s]
           b == [requests EXCEPT ![i] = e]
<1>1. requests \in Seq(R) /\ requests[i] \in R
  <2>1. requests \in Seq(R)
    BY DEF IsBooks
  <2> HIDE DEF R
  <2>2. QED
    BY <2>1
<1>2. e \in R /\ e.status = s /\ e.csr = requests[i].csr
  BY <1>1
<1> HIDE DEF e, R
<1>3. b \in Seq(R) /\ Len(b) = Len(requests) /\ DOMAIN b = DOMAIN requests
  BY <1>1, <1>2
<1>4. b[i] = e /\ \A j \in DOMAIN requests \ {i} : b[j] = requests[j]
  OBVIOUS
<1>5. [requests EXCEPT ![i].status = s] = b
  BY DEF e
<1> HIDE DEF b
<1>6. IsBooks(b)
  BY <1>3 DEF IsBooks, R
<1>7. QED
  BY <1>2, <1>3, <1>4, <1>5, <1>6

\* What is in the books has its place in the lists, a status and a signing
\* request.
LEMMA BooksIndex ==
  ASSUME IsBooks(requests), NEW i \in DOMAIN requests
  PROVE  i \in 1..Len(Certs) /\ requests[i].status \in Statuses /\ requests[i].csr \in TheCsrs
<1>1. Len(Certs) \in Nat
  BY EnrollmentAssumption, LenProperties
<1> DEFINE R == [csr : TheCsrs, status : Statuses]
<1>2. requests \in Seq(R) /\ Len(requests) <= Len(Certs)
  BY DEF IsBooks
<1>3. requests[i] \in R => requests[i].status \in Statuses /\ requests[i].csr \in TheCsrs
  OBVIOUS
<1> HIDE DEF R
<1>4. i \in 1..Len(requests) /\ Len(requests) \in Nat
  BY <1>2, LenProperties
<1>5. i \in 1..Len(Certs) /\ requests[i] \in R
  BY <1>1, <1>2, <1>4
<1>6. QED
  BY <1>3, <1>5

\* The server's replies are something.
LEMMA ReplyIsThere ==
  ASSUME NEW i \in 1..Len(Certs), NEW s \in Statuses, NEW step \in {"submit", "check", "approve", "retrieve"}
  PROVE  XmlReply(i, s)[step] # None
<1>1. i \in DOMAIN Certs
  BY EnrollmentAssumption, LenProperties
<1>2. QED
  BY <1>1, AnswersAssumption DEF Statuses

\* A submission with a form is booked, and the exit is about what was booked.
LEMMA XmlSubmittedLemma ==
  ASSUME kind = "XML", agent \in BOOLEAN, IsBooks(requests), NEW h, NEW csr \in TheCsrs,
         Called("XML", agent, h, None, csr), NEW r \in Serve(h), Len(r.books) <= Len(Certs)
  PROVE  \E s \in {"pending", "complete"} :
           r.books = Book(csr, s) /\ SubmitSays("XML", agent, Heard(h, r.answer), Len(requests) + 1, r.books)
<1>0. CallFields("XML", agent, h, None, csr)
  BY CalledLemma
<1>1. D!StepFor(h) = "submit"
  BY <1>0, SubmitStepLemma DEF CallFields
<1> DEFINE form == Last(D!FormsSent(h, [code |-> 0], <<>>))
<1>2. form.resource = "profileSubmit" /\ Param(form, "cert_request") = csr
  BY SubmitFormLemma
<1>3. r \in XmlServe(form, "submit")
  BY <1>1 DEF Serve
<1> HIDE DEF form
<1>4. PICK s \in {"pending", "complete"} :
             r = [books |-> Book(csr, s), answer |-> XmlReply(Len(requests) + 1, s)["submit"]]
  BY <1>2, <1>3 DEF XmlServe
<1>5. Len(requests) + 1 \in 1..Len(Certs) /\ r.books[Len(requests) + 1].status = s
  <2>1. r.books = Book(csr, s) /\ Len(Book(csr, s)) <= Len(Certs)
    BY <1>4
  <2>2. Len(requests) + 1 \in 1..Len(Certs) /\ Book(csr, s)[Len(requests) + 1] = [csr |-> csr, status |-> s]
    BY <2>1, BookLemma
  <2>3. QED
    BY <2>1, <2>2
<1>6. r.answer # None /\ r.answer = XmlReply(Len(requests) + 1, s).submit
  BY <1>4, <1>5, ReplyIsThere DEF Statuses
<1>7. Heard(h, r.answer) = D!SubmitEval(r.answer, agent, "XML")
  BY <1>1, <1>6, XmlHeardLemma
<1>8. SubmitSays("XML", agent, D!SubmitEval(XmlReply(Len(requests) + 1, s).submit, agent, "XML"),
        Len(requests) + 1, r.books)
  BY <1>5, SubmitXmlLemma
<1>9. QED
  BY <1>4, <1>6, <1>7, <1>8

\* The books are as they were, or the i-th request was completed.
Served(i, books) == books = requests \/ (requests[i].status = "pending" /\ books = Complete(i))

\* Asked about the i-th request with forms, the exit says what is so of it.
LEMMA XmlPolledLemma ==
  ASSUME kind = "XML", agent \in BOOLEAN, IsBooks(requests), NEW h, NEW cookie, NEW csr \in TheCsrs,
         Called("XML", agent, h, cookie, csr), NEW i \in DOMAIN requests,
         Numbered("XML", agent, cookie, i, requests),
         NEW r \in Serve(h)
  PROVE  Served(i, r.books) /\ SaysOf("XML", agent, Heard(h, r.answer), i, r.books)
<1>0. CallFields("XML", agent, h, cookie, csr)
  BY CalledLemma
<1>1. i \in 1..Len(Certs) /\ requests[i].status \in Statuses
  BY BooksIndex
<1>2. Ids[i] \in Names /\ IndexOf(Ids, Ids[i]) = i
  BY <1>1, NamesLemma
<1> DEFINE form == Last(D!FormsSent(h, [code |-> 0], <<>>))
<1>3. r \in XmlServe(form, D!StepFor(h))
  BY DEF Serve
<1>4. CASE cookie = D!Cookie("check", <<Ids[i]>>) /\ ~agent
  <2>1. D!StepFor(h) = "check"
    BY <1>0, <1>2, <1>4, StepLemma DEF CallFields, CookieSteps
  <2>2. form.resource \notin {"profileSubmit", "profileProcess"} /\ Param(form, "requestId") = Ids[i]
    BY <1>2, <1>4, IdFormLemma
  <2> HIDE DEF form
  <2>3. r = [books |-> requests, answer |-> XmlReply(i, requests[i].status)["check"]]
    BY <1>2, <1>3, <2>1, <2>2 DEF XmlServe
  <2>4. r.answer # None
    BY <1>1, <2>3, ReplyIsThere
  <2>5. Heard(h, r.answer) = D!CheckEval(None, FALSE, "JSON")
    BY <2>1, <2>4, <1>4, XmlHeardLemma
  <2>6. QED
    BY <1>1, <1>4, <2>3, <2>5, CheckXmlLemma DEF Served
<1>5. CASE cookie = D!Cookie("approve", <<Ids[i]>>) /\ agent
  <2>1. D!StepFor(h) = "approve"
    BY <1>0, <1>2, <1>5, StepLemma DEF CallFields, CookieSteps
  <2>2. form.resource = "profileProcess" /\ Param(form, "requestId") = Ids[i] /\ Param(form, "op") = "approve"
    BY <1>2, <1>5, ApproveFormLemma
  <2> HIDE DEF form
  <2> DEFINE b == IF requests[i].status = "pending" THEN Complete(i) ELSE requests
  <2>3. r = [books |-> b, answer |-> XmlReply(i, b[i].status)["approve"]]
    BY <1>2, <1>3, <2>1, <2>2 DEF XmlServe
  <2>4. b[i].status \in {"complete", "rejected"}
    BY <1>1, CompleteLemma DEF Complete, Statuses
  <2>5. Served(i, b)
    BY DEF Served
  <2> HIDE DEF b
  <2>6. r.answer # None
    BY <1>1, <2>3, <2>4, ReplyIsThere DEF Statuses
  <2>7. Heard(h, r.answer) = D!ApproveEval(r.answer, "XML")
    BY <2>1, <2>6, <1>5, XmlHeardLemma
  <2>8. SaysOf("XML", TRUE, D!ApproveEval(XmlReply(i, b[i].status).approve, "XML"), i, b)
    BY <1>1, <2>4, ApproveXmlLemma
  <2>9. QED
    BY <1>5, <2>3, <2>5, <2>7, <2>8
<1>6. CASE cookie = D!Cookie("retrieve", <<Ids[i]>>) /\ requests[i].status = "complete"
  <2>1. D!StepFor(h) = "retrieve"
    BY <1>0, <1>2, <1>6, StepLemma DEF CallFields, CookieSteps
  <2>2. form.resource \notin {"profileSubmit", "profileProcess"} /\ Param(form, "requestId") = Ids[i]
    BY <1>2, <1>6, IdFormLemma
  <2> HIDE DEF form
  <2>3. r = [books |-> requests, answer |-> XmlReply(i, "complete")["retrieve"]]
    BY <1>2, <1>3, <1>6, <2>1, <2>2 DEF XmlServe
  <2>4. r.answer # None
    BY <1>1, <2>3, ReplyIsThere DEF Statuses
  <2>5. Heard(h, r.answer) = D!FetchEval(r.answer, "XML")
    BY <2>1, <2>4, XmlHeardLemma
  <2>6. QED
    BY <1>1, <1>6, <2>3, <2>5, FetchXmlLemma DEF Served
<1>7. QED
  BY <1>4, <1>5, <1>6 DEF Numbered

-----------------------------------------------------------------------------
(***************************************************************************)
(* The same in JSON.                                                       *)
(***************************************************************************)
\* The helper reads the result out of the server's document.
LEMMA ParseLemma ==
  ASSUME NEW result, IsDoc(result)
  PROVE  D!ParseJson(JsonDoc(result)) = result /\ result # None
           /\ D!ParseJsonResult(JsonDoc(result)) = "success"
         /\ JsonDoc(result) # None
<1>1. JsonDoc(result).error = None /\ JsonDoc(result).result.result = result
  BY DEF JsonDoc
<1>2. QED
  BY <1>1 DEF D!ParseJson, D!ParseJsonResult, IsDoc

\* The results of the server's methods are documents.
LEMMA DocsLemma ==
  ASSUME NEW i \in 1..Len(Certs)
  PROVE  /\ \A s \in Statuses, op \in {"submit", "check", "approve"} : IsDoc(JsonResult(i, s, op))
         /\ IsDoc([certificate |-> <<Certs[i]>>])
<1>1. i \in DOMAIN Certs
  BY EnrollmentAssumption, LenProperties
<1>2. QED
  BY <1>1, AnswersAssumption DEF Statuses

\* What a method's answer says.
LEMMA ResultLemma ==
  ASSUME NEW i \in 1..Len(Certs), NEW s \in Statuses, NEW op \in {"submit", "check", "approve"}
  PROVE  LET r == JsonResult(i, s, op)
         IN  /\ D!HasMembers(r, D!Stated)
             /\ r.request_id = <<Ids[i]>> /\ r.cert_request_status = <<s>>
             /\ D!Member(r, "certificate") = (IF op = "submit" /\ s = "complete" THEN <<Certs[i]>> ELSE None)
             /\ op # "submit" /\ s = "complete" => D!Member(r, "serial_number") = <<Serials[i]>>
<1> DEFINE r == JsonResult(i, s, op)
<1>1. r # None
  BY DocsLemma DEF IsDoc
<1>2. <<Ids[i]>> # None /\ <<s>> # None
  BY NamesLemma, StatusWords DEF Statuses, IsWord
<1>3. CASE op = "submit" /\ s = "complete"
  <2>1. r = [request_id |-> <<Ids[i]>>, cert_request_status |-> <<"complete">>, certificate |-> <<Certs[i]>>]
    BY <1>3 DEF JsonResult
  <2> HIDE DEF r
  <2>2. {"request_id", "cert_request_status", "certificate"} \subseteq DOMAIN r
        /\ r["request_id"] = <<Ids[i]>> /\ r["cert_request_status"] = <<"complete">>
             /\ r["certificate"] = <<Certs[i]>>
    BY <2>1
  <2>3. D!HasMembers(r, D!Stated)
    BY <1>1, <1>2, <1>3, <2>2 DEF D!HasMembers, D!Member, D!Stated
  <2>4. D!Member(r, "certificate") = <<Certs[i]>>
    BY <1>1, <2>2 DEF D!Member
  <2>5. QED
    BY <1>3, <2>2, <2>3, <2>4 DEF r
<1>4. CASE op # "submit" /\ s = "complete"
  <2>1. r = [request_id |-> <<Ids[i]>>, cert_request_status |-> <<"complete">>,
          serial_number |-> <<Serials[i]>>]
    BY <1>4 DEF JsonResult
  <2> HIDE DEF r
  <2>2. {"request_id", "cert_request_status", "serial_number"} = DOMAIN r
        /\ r["request_id"] = <<Ids[i]>> /\ r["cert_request_status"] = <<"complete">>
             /\ r["serial_number"] = <<Serials[i]>>
    BY <2>1
  <2>3. D!HasMembers(r, D!Stated)
    BY <1>1, <1>2, <1>4, <2>2 DEF D!HasMembers, D!Member, D!Stated
  <2>4. D!Member(r, "certificate") = None /\ D!Member(r, "serial_number") = <<Serials[i]>>
    BY <1>1, <2>2 DEF D!Member
  <2>5. QED
    BY <1>4, <2>2, <2>3, <2>4 DEF r
<1>5. CASE s # "complete"
  <2>1. r = [request_id |-> <<Ids[i]>>, cert_request_status |-> <<s>>]
    BY <1>5 DEF JsonResult
  <2> HIDE DEF r
  <2>2. {"request_id", "cert_request_status"} = DOMAIN r
        /\ r["request_id"] = <<Ids[i]>> /\ r["cert_request_status"] = <<s>>
    BY <2>1
  <2>3. D!HasMembers(r, D!Stated)
    BY <1>1, <1>2, <2>2 DEF D!HasMembers, D!Member, D!Stated
  <2>4. D!Member(r, "certificate") = None
    BY <1>1, <2>2 DEF D!Member
  <2>5. QED
    BY <1>5, <2>2, <2>3, <2>4 DEF r
<1>6. QED
  BY <1>3, <1>4, <1>5

\* Words differ as texts.
LEMMA WordsDiffer == \A x, y : x # y => <<x>> # <<y>>
<1> SUFFICES ASSUME NEW x, NEW y, x # y PROVE <<x>> # <<y>>
  OBVIOUS
<1>1. <<x>>[1] # <<y>>[1]
  OBVIOUS
<1>2. QED
  BY <1>1

\* A method that submits: a certificate for a complete request, a cookie for
\* one that waits.
LEMMA SubmitJsonLemma ==
  ASSUME NEW a \in BOOLEAN, NEW i \in 1..Len(Certs), NEW s \in {"pending", "complete"}, NEW books,
         books[i].status = s
  PROVE  SubmitSays("JSON", a, D!SubmitEval(JsonReply(i, s, "submit"), a, "JSON"), i, books)
<1> DEFINE doc == JsonReply(i, s, "submit")
           r == JsonResult(i, s, "submit")
           q == D!RestSubmitResult(doc)
<1>1. D!ParseJson(doc) = r
  BY DocsLemma, ParseLemma DEF JsonReply, Statuses
<1>2. /\ D!HasMembers(r, D!Stated)
      /\ r.request_id = <<Ids[i]>> /\ r.cert_request_status = <<s>>
      /\ D!Member(r, "certificate") = (IF s = "complete" THEN <<Certs[i]>> ELSE None)
  BY ResultLemma DEF Statuses
<1> HIDE DEF r, doc
<1>3. r.cert_request_status[1] = s
  BY <1>2
<1>4. s \in DOMAIN D!StatusNumber /\ D!StatusNumber[s] = (IF s = "complete" THEN <<"0">> ELSE <<"2">>)
  BY DEF D!StatusNumber
<1>5. /\ q.status = (IF s = "complete" THEN <<"0">> ELSE <<"2">>) /\ q.requestId = <<Ids[i]>>
      /\ q.cert = D!Pem(IF s = "complete" THEN <<Certs[i]>> ELSE None)
  BY <1>1, <1>2, <1>3, <1>4 DEF D!RestSubmitResult
<1>6. <<"0">> # <<"2">> /\ <<Ids[i]>> # None /\ <<Certs[i]>> # None /\ D!Pem(<<Certs[i]>>) = <<Certs[i]>>
  BY WordsDiffer, NamesLemma, StripName
<1> HIDE DEF q
<1>7. CASE s = "complete"
  <2>1. D!SubmitEval(doc, a, "JSON") = D!Issued(<<Certs[i]>>)
    BY <1>5, <1>6, <1>7 DEF D!SubmitEval, q
  <2>2. QED
    BY <2>1, <1>7, IssuedLemma, SubmitSaysLemma DEF SubmitSays, SaysOf, doc
<1>8. CASE s = "pending"
  <2>1. D!SubmitEval(doc, a, "JSON") = D!Deferred(<<Ids[i]>>, a)
    BY <1>5, <1>6, <1>8 DEF D!SubmitEval, q
  <2>2. QED
    BY <2>1, DeferredLemma, SubmitSaysLemma DEF SubmitSays, doc
<1>9. QED
  BY <1>7, <1>8

\* The status and the number in the answers about a request.
LEMMA StateJsonLemma ==
  ASSUME NEW i \in 1..Len(Certs), NEW s \in Statuses, NEW op \in {"check", "approve"}
  PROVE  LET doc == JsonReply(i, s, op)
             number == IF s = "complete" THEN <<Serials[i]>> ELSE <<Ids[i]>>
         IN  /\ D!RestCheckResult(doc).status = <<s>> /\ D!RestCheckResult(doc).requestId = number
             /\ D!RestApproveResult(doc).status = <<s>> /\ D!RestApproveResult(doc).requestId = number
             /\ number # None
<1> DEFINE doc == JsonReply(i, s, op)
           r == JsonResult(i, s, op)
           number == IF s = "complete" THEN <<Serials[i]>> ELSE <<Ids[i]>>
<1>1. D!ParseJson(doc) = r
  BY DocsLemma, ParseLemma DEF JsonReply
<1>2. /\ D!HasMembers(r, D!Stated)
      /\ r.request_id = <<Ids[i]>> /\ r.cert_request_status = <<s>>
      /\ s = "complete" => D!Member(r, "serial_number") = <<Serials[i]>>
  BY ResultLemma
<1> HIDE DEF r, doc
<1>3. D!NumberNow(r) = number
  BY <1>2, WordsDiffer DEF D!NumberNow
<1>4. number # None
  BY NamesLemma
<1> HIDE DEF number
<1>5. D!RestCheckResult(doc).status = <<s>> /\ D!RestCheckResult(doc).requestId = number
  BY <1>1, <1>2, <1>3 DEF D!RestCheckResult, D!NotSaid, D!Unknown
<1>6. D!RestApproveResult(doc).status = <<s>> /\ D!RestApproveResult(doc).requestId = number
  BY <1>1, <1>2, <1>3 DEF D!RestApproveResult, D!NotSaid, D!Unknown
<1>7. QED
  BY <1>4, <1>5, <1>6 DEF doc, number

\* Asked for the state of a request, the exit is what the status says.
LEMMA CheckJsonLemma ==
  ASSUME NEW i \in 1..Len(Certs), NEW s \in Statuses, NEW books, books[i].status = s
  PROVE  SaysOf("JSON", FALSE, D!CheckEval(JsonReply(i, s, "check"), FALSE, "JSON"), i, books)
<1> DEFINE doc == JsonReply(i, s, "check")
           r == D!RestCheckResult(doc)
           number == IF s = "complete" THEN <<Serials[i]>> ELSE <<Ids[i]>>
<1>1. r.status = <<s>> /\ r.requestId = number /\ number # None
  BY StateJsonLemma
<1> HIDE DEF r
<1>2. CASE s = "complete"
  <2>1. D!CheckEval(doc, FALSE, "JSON") = D!AtOnce("retrieve", <<Serials[i]>>)
    BY <1>1, <1>2 DEF D!CheckEval, r
  <2>2. SaysOf("JSON", FALSE, D!AtOnce("retrieve", <<IF "JSON" = "JSON" THEN Serials[i] ELSE Ids[i]>>), i,
          books)
    BY <1>2, AtOnceLemma
  <2>3. QED
    BY <2>1, <2>2
<1>3. CASE s = "pending"
  <2>1. D!CheckEval(doc, FALSE, "JSON") = D!Deferred(<<Ids[i]>>, FALSE)
    BY <1>1, <1>3, WordsDiffer DEF D!CheckEval, r
  <2>2. QED
    BY <2>1, DeferredLemma
<1>4. CASE s = "rejected"
  <2>1. D!CheckEval(doc, FALSE, "JSON") = D!Refused(r)
    BY <1>1, <1>4, WordsDiffer DEF D!CheckEval, r
  <2>2. QED
    BY <1>4, <2>1, RefusedLemma DEF SaysOf
<1>5. QED
  BY <1>2, <1>3, <1>4 DEF Statuses

\* The same for an agent that approves.
LEMMA ApproveJsonLemma ==
  ASSUME NEW a, NEW i \in 1..Len(Certs), NEW s \in {"complete", "rejected"}, NEW books, books[i].status = s
  PROVE  SaysOf("JSON", TRUE, D!ApproveEval(JsonReply(i, s, "approve"), "JSON"), i, books)
<1> DEFINE doc == JsonReply(i, s, "approve")
           r == D!RestApproveResult(doc)
           number == IF s = "complete" THEN <<Serials[i]>> ELSE <<Ids[i]>>
<1>1. r.status = <<s>> /\ r.requestId = number /\ number # None
  BY StateJsonLemma DEF Statuses
<1> HIDE DEF r
<1>2. CASE s = "complete"
  <2>1. D!ApproveEval(doc, "JSON") = D!AtOnce("retrieve", <<Serials[i]>>)
    BY <1>1, <1>2 DEF D!ApproveEval, r
  <2>2. SaysOf("JSON", TRUE, D!AtOnce("retrieve", <<IF "JSON" = "JSON" THEN Serials[i] ELSE Ids[i]>>), i, books)
    BY <1>2, AtOnceLemma
  <2>3. QED
    BY <2>1, <2>2
<1>4. CASE s = "rejected"
  <2>1. D!ApproveEval(doc, "JSON") = D!Refused(r)
    BY <1>1, <1>4, WordsDiffer DEF D!ApproveEval, r
  <2>2. QED
    BY <1>4, <2>1, RefusedLemma DEF SaysOf
<1>5. QED
  BY <1>2, <1>4

\* What is fetched for a complete request is its certificate.
LEMMA FetchJsonLemma ==
  ASSUME NEW a, NEW i \in 1..Len(Certs), NEW books, books[i].status = "complete"
  PROVE  SaysOf("JSON", a, D!FetchEval(JsonDoc([certificate |-> <<Certs[i]>>]), "JSON"), i, books)
<1> DEFINE r == [certificate |-> <<Certs[i]>>]
           doc == JsonDoc(r)
<1>1. D!ParseJson(doc) = r /\ r # None
  BY DocsLemma, ParseLemma
<1>2. D!Pem(<<Certs[i]>>) = <<Certs[i]>> /\ <<Certs[i]>> # None
  BY NamesLemma, StripName
<1>3. "certificate" \in DOMAIN r /\ r["certificate"] = <<Certs[i]>> /\ r.certificate = <<Certs[i]>>
  OBVIOUS
<1> HIDE DEF r, doc
<1>4. D!HasMembers(r, {"certificate"})
  BY <1>1, <1>2, <1>3 DEF D!HasMembers, D!Member
<1>5. D!RestFetchResult(doc).cert = <<Certs[i]>>
  BY <1>1, <1>2, <1>3, <1>4 DEF D!RestFetchResult, D!NotSaid, D!Unknown
<1>6. D!FetchEval(doc, "JSON") = D!Issued(<<Certs[i]>>)
  BY <1>2, <1>5 DEF D!FetchEval
<1>7. QED
  BY <1>6, IssuedLemma DEF SaysOf, doc, r

\* An answer that comes is read.
LEMMA JsonHeardLemma ==
  ASSUME kind = "JSON", NEW a \in BOOLEAN, NEW h, NEW cookie, NEW csr \in TheCsrs,
         Called("JSON", a, h, cookie, csr),
         NEW result, IsDoc(result)
  PROVE  LET op == D!StepFor(h)
             doc == JsonDoc(result)
         IN  /\ op = "submit" => Heard(h, doc) = D!SubmitEval(doc, a, "JSON")
             /\ op = "check" => Heard(h, doc) = D!CheckEval(doc, a, "JSON")
             /\ op = "approve" => Heard(h, doc) = D!ApproveEval(doc, "JSON")
             /\ op = "retrieve" => Heard(h, doc) = D!FetchEval(doc, "JSON")
<1> DEFINE op == D!StepFor(h)
           doc == JsonDoc(result)
           answer == [code |-> 200, doc |-> doc]
<1>1. Heard(h, doc) = D!RunDogtag(h, answer, answer)
  BY DEF Heard, Run
<1>2. ~D!MissingArguments(h) /\ D!Workflow(h) = "JSON" /\ (h.sslcert \notin {None, <<>>} <=> a)
        /\ ~D!CannotCall(h, op)
  BY AskLemma
<1>3. D!RunDogtag(h, answer, answer) = D!JsonWorkflow(h, answer)
  BY <1>2 DEF D!RunDogtag
<1>4. D!ParseJsonResult(doc) = "success" /\ D!ParseJson(doc) # None
  BY ParseLemma
<1>5. D!JsonWorkflow(h, answer) = D!JsonEval(h, op, doc)
  <2> HIDE DEF doc
  <2>1. answer.code = 200 /\ answer.doc = doc
    OBVIOUS
  <2> HIDE DEF answer
  <2>2. QED
    BY <1>2, <1>4, <2>1 DEF D!JsonWorkflow
<1> HIDE DEF op, answer, doc
<1>6. op = "submit" => D!JsonEval(h, op, doc) = D!SubmitEval(doc, a, "JSON")
  BY <1>2 DEF D!JsonEval
<1>7. op = "check" => D!JsonEval(h, op, doc) = D!CheckEval(doc, a, "JSON")
  BY <1>2 DEF D!JsonEval
<1>8. op = "approve" => D!JsonEval(h, op, doc) = D!ApproveEval(doc, "JSON")
  BY DEF D!JsonEval
<1>9. op = "retrieve" => D!JsonEval(h, op, doc) = D!FetchEval(doc, "JSON")
  BY DEF D!JsonEval
<1>10. QED
  BY <1>1, <1>3, <1>5, <1>6, <1>7, <1>8, <1>9 DEF op, doc

\* A submission in JSON is booked, and the exit is about what was booked.
LEMMA JsonSubmittedLemma ==
  ASSUME kind = "JSON", agent \in BOOLEAN, IsBooks(requests), NEW h, NEW csr \in TheCsrs,
         Called("JSON", agent, h, None, csr), NEW r \in Serve(h), Len(r.books) <= Len(Certs)
  PROVE  \E s \in {"pending", "complete"} :
           r.books = Book(csr, s) /\ SubmitSays("JSON", agent, Heard(h, r.answer), Len(requests) + 1, r.books)
<1>0. CallFields("JSON", agent, h, None, csr)
  BY CalledLemma
<1>1. D!StepFor(h) = "submit" /\ h.csr[1] = csr
  BY <1>0, SubmitStepLemma DEF CallFields
<1>3. r \in JsonServe(h, "submit")
  BY <1>1 DEF Serve
<1>4. PICK s \in {"pending", "complete"} :
             r = [books |-> Book(csr, s), answer |-> JsonReply(Len(requests) + 1, s, "submit")]
  BY <1>1, <1>3 DEF JsonServe
<1>5. Len(requests) + 1 \in 1..Len(Certs) /\ r.books[Len(requests) + 1].status = s
  <2>1. r.books = Book(csr, s) /\ Len(Book(csr, s)) <= Len(Certs)
    BY <1>4
  <2>2. Len(requests) + 1 \in 1..Len(Certs) /\ Book(csr, s)[Len(requests) + 1] = [csr |-> csr, status |-> s]
    BY <2>1, BookLemma
  <2>3. QED
    BY <2>1, <2>2
<1>6. IsDoc(JsonResult(Len(requests) + 1, s, "submit"))
        /\ r.answer = JsonDoc(JsonResult(Len(requests) + 1, s, "submit"))
  BY <1>4, <1>5, DocsLemma DEF Statuses, JsonReply
<1>7. Heard(h, r.answer) = D!SubmitEval(r.answer, agent, "JSON")
  BY <1>1, <1>6, JsonHeardLemma
<1>8. SubmitSays("JSON", agent, D!SubmitEval(JsonReply(Len(requests) + 1, s, "submit"), agent, "JSON"),
        Len(requests) + 1, r.books)
  BY <1>5, SubmitJsonLemma
<1>9. QED
  BY <1>4, <1>7, <1>8

\* Asked about the i-th request in JSON, the exit says what is so of it.
LEMMA JsonPolledLemma ==
  ASSUME kind = "JSON", agent \in BOOLEAN, IsBooks(requests), NEW h, NEW cookie, NEW csr \in TheCsrs,
         Called("JSON", agent, h, cookie, csr), NEW i \in DOMAIN requests,
         Numbered("JSON", agent, cookie, i, requests),
         NEW r \in Serve(h)
  PROVE  Served(i, r.books) /\ SaysOf("JSON", agent, Heard(h, r.answer), i, r.books)
<1>0. CallFields("JSON", agent, h, cookie, csr)
  BY CalledLemma
<1>1. i \in 1..Len(Certs) /\ requests[i].status \in Statuses
  BY BooksIndex
<1>2. Ids[i] \in Names /\ Serials[i] \in Names /\ IndexOf(Ids, Ids[i]) = i /\ IndexOf(Serials, Serials[i]) = i
  BY <1>1, NamesLemma
<1>3. r \in JsonServe(h, D!StepFor(h))
  BY DEF Serve
<1>10. ASSUME NEW name, D!RequestId(h) = <<<<"requestId", <<name>>>>>> PROVE D!RequestId(h)[1][2][1] = name
  BY <1>10
<1>4. CASE cookie = D!Cookie("check", <<Ids[i]>>) /\ ~agent
  <2>1. D!StepFor(h) = "check" /\ D!RequestId(h) = <<<<"requestId", <<Ids[i]>>>>>>
    BY <1>0, <1>2, <1>4, StepLemma DEF CallFields, CookieSteps
  <2>2. D!RequestId(h)[1][2][1] = Ids[i]
    BY <2>1, <1>10
  <2>3. r = [books |-> requests, answer |-> JsonReply(i, requests[i].status, "check")]
    BY <1>2, <1>3, <2>1, <2>2 DEF JsonServe
  <2>4. IsDoc(JsonResult(i, requests[i].status, "check"))
          /\ r.answer = JsonDoc(JsonResult(i, requests[i].status, "check"))
    BY <1>1, <2>3, DocsLemma DEF JsonReply
  <2>5. Heard(h, r.answer) = D!CheckEval(r.answer, FALSE, "JSON")
    BY <2>1, <2>4, <1>4, JsonHeardLemma
  <2>6. SaysOf("JSON", FALSE, D!CheckEval(JsonReply(i, requests[i].status, "check"), FALSE, "JSON"), i,
          requests)
    BY <1>1, CheckJsonLemma
  <2>7. QED
    BY <1>4, <2>3, <2>5, <2>6 DEF Served
<1>5. CASE cookie = D!Cookie("approve", <<Ids[i]>>) /\ agent
  <2>1. D!StepFor(h) = "approve" /\ D!RequestId(h) = <<<<"requestId", <<Ids[i]>>>>>>
    BY <1>0, <1>2, <1>5, StepLemma DEF CallFields, CookieSteps
  <2>2. D!RequestId(h)[1][2][1] = Ids[i]
    BY <2>1, <1>10
  <2> DEFINE b == IF requests[i].status = "pending" THEN Complete(i) ELSE requests
  <2>3. r = [books |-> b, answer |-> JsonReply(i, b[i].status, "approve")]
    BY <1>2, <1>3, <2>1, <2>2 DEF JsonServe
  <2>4. b[i].status \in {"complete", "rejected"}
    BY <1>1, CompleteLemma DEF Complete, Statuses
  <2>5. Served(i, b)
    BY DEF Served
  <2> HIDE DEF b
  <2>6. IsDoc(JsonResult(i, b[i].status, "approve"))
          /\ r.answer = JsonDoc(JsonResult(i, b[i].status, "approve"))
    BY <1>1, <2>3, <2>4, DocsLemma DEF JsonReply, Statuses
  <2>7. Heard(h, r.answer) = D!ApproveEval(r.answer, "JSON")
    BY <2>1, <2>6, JsonHeardLemma
  <2>8. SaysOf("JSON", TRUE, D!ApproveEval(JsonReply(i, b[i].status, "approve"), "JSON"), i, b)
    BY <1>1, <2>4, ApproveJsonLemma
  <2>9. QED
    BY <1>5, <2>3, <2>5, <2>7, <2>8
<1>6. CASE cookie = D!Cookie("retrieve", <<Serials[i]>>) /\ requests[i].status = "complete"
  <2>1. D!StepFor(h) = "retrieve" /\ D!RequestId(h) = <<<<"requestId", <<Serials[i]>>>>>>
    BY <1>0, <1>2, <1>6, StepLemma DEF CallFields, CookieSteps
  <2>2. D!RequestId(h)[1][2][1] = Serials[i]
    BY <2>1, <1>10
  <2>3. r = [books |-> requests, answer |-> JsonShow(Serials[i])]
    BY <1>3, <2>1, <2>2 DEF JsonServe
  <2>4. JsonShow(Serials[i]) = JsonDoc([certificate |-> <<Certs[i]>>])
    BY <1>2 DEF JsonShow
  <2>5. IsDoc([certificate |-> <<Certs[i]>>])
    BY <1>1, DocsLemma
  <2>6. Heard(h, r.answer) = D!FetchEval(r.answer, "JSON")
    BY <2>1, <2>3, <2>4, <2>5, JsonHeardLemma
  <2>7. SaysOf("JSON", agent, D!FetchEval(JsonDoc([certificate |-> <<Certs[i]>>]), "JSON"), i, requests)
    BY <1>1, <1>6, FetchJsonLemma
  <2>8. QED
    BY <2>3, <2>4, <2>6, <2>7 DEF Served
<1>7. QED
  BY <1>4, <1>5, <1>6 DEF Numbered

-----------------------------------------------------------------------------
(***************************************************************************)
(* What an exit says holds, and goes on holding.                           *)
(***************************************************************************)
\* Books only grow, and what was decided stays.
After(old, new) ==
  \A i \in DOMAIN old : /\ i \in DOMAIN new /\ new[i].csr = old[i].csr
                        /\ old[i].status # "pending" => new[i].status = old[i].status

\* A cookie about a request is so with later books.
LEMMA AfterCookie ==
  ASSUME NEW old, NEW new, After(old, new), NEW k, NEW a, NEW cookie, NEW csrs,
         CookieFor(k, a, cookie, old, csrs)
  PROVE  CookieFor(k, a, cookie, new, csrs)
<1> SUFFICES ASSUME cookie # None
             PROVE  \E i \in DOMAIN new : Numbered(k, a, cookie, i, new) /\ new[i].csr \in csrs
  BY DEF CookieFor
<1>1. PICK i \in DOMAIN old : Numbered(k, a, cookie, i, old) /\ old[i].csr \in csrs
  BY DEF CookieFor
<1>2. i \in DOMAIN new /\ new[i].csr = old[i].csr
        /\ (old[i].status # "pending" => new[i].status = old[i].status)
  BY DEF After
<1>3. Numbered(k, a, cookie, i, new)
  BY <1>1, <1>2 DEF Numbered
<1>4. QED
  BY <1>1, <1>2, <1>3

\* What an exit says is so with later books.
LEMMA AfterExit ==
  ASSUME NEW old, NEW new, After(old, new), NEW k, NEW a, NEW exit, NEW csrs, ExitFor(k, a, exit, old, csrs)
  PROVE  ExitFor(k, a, exit, new, csrs)
<1>1. ASSUME exit.status = "ISSUED"
      PROVE  \E i \in DOMAIN new : /\ new[i].status = "complete" /\ new[i].csr \in csrs
                                   /\ CertOf(k, exit) = Certs[i] /\ exit.cert # None
  <2>1. PICK i \in DOMAIN old : /\ old[i].status = "complete" /\ old[i].csr \in csrs
                                /\ CertOf(k, exit) = Certs[i] /\ exit.cert # None
    BY <1>1 DEF ExitFor
  <2>2. QED
    BY <2>1 DEF After
<1>2. ASSUME exit.status = "REJECTED", k # "XML" \/ a
      PROVE  \E i \in DOMAIN new : new[i].status = "rejected"
  <2>1. PICK i \in DOMAIN old : old[i].status = "rejected"
    BY <1>2 DEF ExitFor
  <2>2. QED
    BY <2>1 DEF After
<1>3. ASSUME k # "SCEP", exit.status \in {"WAIT", "WAIT_WITH_DELAY"}
             PROVE CookieFor(k, a, exit.cookie, new, csrs)
  BY <1>3, AfterCookie DEF ExitFor
<1>4. k # "SCEP" => IsExit(exit) /\ exit.status # "NEED_SCEP_MESSAGES"
  BY DEF ExitFor
<1>5. QED
  BY <1>1, <1>2, <1>3, <1>4 DEF ExitFor

\* What can happen to the books.
LEMMA BooksLemma ==
  ASSUME IsBooks(requests)
  PROVE  /\ After(requests, requests)
         /\ \A csr \in TheCsrs, s \in {"pending", "complete"} :
              Len(Book(csr, s)) <= Len(Certs) => IsBooks(Book(csr, s)) /\ After(requests, Book(csr, s))
         /\ \A i \in DOMAIN requests, s \in {"complete", "rejected"} : requests[i].status = "pending" =>
              IsBooks([requests EXCEPT ![i].status = s]) /\ After(requests, [requests EXCEPT ![i].status = s])
<1>1. After(requests, requests)
  BY DEF After
<1>2. ASSUME NEW csr \in TheCsrs, NEW s \in {"pending", "complete"}, Len(Book(csr, s)) <= Len(Certs)
      PROVE  IsBooks(Book(csr, s)) /\ After(requests, Book(csr, s))
  BY <1>2, BookLemma DEF After
<1>3. ASSUME NEW i \in DOMAIN requests, NEW s \in {"complete", "rejected"}, requests[i].status = "pending"
      PROVE  IsBooks([requests EXCEPT ![i].status = s]) /\ After(requests, [requests EXCEPT ![i].status = s])
  <2> DEFINE b == [requests EXCEPT ![i].status = s]
  <2>1. /\ IsBooks(b) /\ DOMAIN b = DOMAIN requests
        /\ b[i].status = s /\ b[i].csr = requests[i].csr
        /\ \A j \in DOMAIN requests \ {i} : b[j] = requests[j]
    <3>1. s \in Statuses
      BY DEF Statuses
    <3>2. QED
      BY <3>1, CompleteLemma
  <2> HIDE DEF b
  <2>2. After(requests, b)
    BY <1>3, <2>1 DEF After
  <2>3. QED
    BY <2>1, <2>2 DEF b
<1>4. QED
  BY <1>1, <1>2, <1>3

\* What the exit says is for the signing request.
LEMMA SaysExit ==
  ASSUME NEW k \in {"XML", "JSON"}, NEW a, NEW exit, NEW books, NEW i \in DOMAIN books, i \in 1..Len(Certs),
         NEW csrs, books[i].csr \in csrs, SaysOf(k, a, exit, i, books)
  PROVE  ExitFor(k, a, exit, books, csrs)
<1>7. <<Certs[i]>> # None
  BY NamesLemma
<1>8. exit.cert = <<Certs[i]>> => exit.cert[1] = Certs[i]
  OBVIOUS
<1>1. <<Certs[i]>> # None /\ (exit.cert = <<Certs[i]>> => exit.cert[1] = Certs[i])
  BY <1>7, <1>8
<1>2. k # "SCEP"
  OBVIOUS
<1>3. exit.status = "ISSUED" => \E j \in DOMAIN books : /\ books[j].status = "complete" /\ books[j].csr \in csrs
                                                        /\ CertOf(k, exit) = Certs[j] /\ exit.cert # None
  BY <1>1, <1>2 DEF SaysOf, CertOf
<1>4. exit.status = "REJECTED" /\ (k # "XML" \/ a) => \E j \in DOMAIN books : books[j].status = "rejected"
  BY DEF SaysOf
<1>5. exit.status \in {"WAIT", "WAIT_WITH_DELAY"} => CookieFor(k, a, exit.cookie, books, csrs)
  BY DEF SaysOf, CookieFor
<1>6. QED
  BY <1>3, <1>4, <1>5 DEF ExitFor, SaysOf

\* Whatever the Dogtag helper asks, its exit is so with the books that the CA
\* then has.
LEMMA DogtagServedLemma ==
  ASSUME kind \in {"XML", "JSON"}, agent \in BOOLEAN, IsBooks(requests), NEW h, NEW cookie, NEW csr \in TheCsrs,
         Called(kind, agent, h, cookie, csr), NEW csrs, csr \in csrs,
         CookieFor(kind, agent, cookie, requests, csrs),
         NEW r \in Serve(h), Len(r.books) <= Len(Certs)
  PROVE  IsBooks(r.books) /\ After(requests, r.books) /\ ExitFor(kind, agent, Heard(h, r.answer), r.books, csrs)
<1>1. CASE cookie = None
  <2>1. PICK s \in {"pending", "complete"} :
           r.books = Book(csr, s) /\ SubmitSays(kind, agent, Heard(h, r.answer), Len(requests) + 1, r.books)
    <3>1. CASE kind = "XML"
      BY <1>1, <3>1, XmlSubmittedLemma
    <3>2. CASE kind = "JSON"
      BY <1>1, <3>2, JsonSubmittedLemma
    <3>3. QED
      BY <3>1, <3>2
  <2>2. IsBooks(r.books) /\ After(requests, r.books)
    BY <2>1, BooksLemma
  <2>3. Len(requests) + 1 \in 1..Len(Certs) /\ Len(requests) + 1 \in DOMAIN r.books
          /\ r.books[Len(requests) + 1].csr = csr
    <3>1. Len(Book(csr, s)) <= Len(Certs)
      BY <2>1
    <3>2. Len(requests) + 1 \in 1..Len(Certs) /\ Len(requests) + 1 \in DOMAIN Book(csr, s)
            /\ Book(csr, s)[Len(requests) + 1] = [csr |-> csr, status |-> s]
      BY <3>1, BookLemma
    <3>3. QED
      BY <2>1, <3>2
  <2>4. QED
    BY <2>1, <2>2, <2>3, SaysExit DEF SubmitSays
<1>2. CASE cookie # None
  <2>1. PICK i \in DOMAIN requests : Numbered(kind, agent, cookie, i, requests) /\ requests[i].csr \in csrs
    BY <1>2 DEF CookieFor
  <2>2. Served(i, r.books) /\ SaysOf(kind, agent, Heard(h, r.answer), i, r.books)
    <3>1. CASE kind = "XML"
      BY <2>1, <3>1, XmlPolledLemma
    <3>2. CASE kind = "JSON"
      BY <2>1, <3>2, JsonPolledLemma
    <3>3. QED
      BY <3>1, <3>2
  <2>3. IsBooks(r.books) /\ After(requests, r.books)
    BY <2>2, BooksLemma DEF Served, Complete
  <2>4. i \in DOMAIN r.books /\ r.books[i].csr \in csrs /\ i \in 1..Len(Certs)
    BY <2>1, <2>3, BooksIndex DEF After
  <2>5. QED
    BY <2>2, <2>3, <2>4, SaysExit
<1>3. QED
  BY <1>1, <1>2

\* Books for signing requests are the books that the nonces are counted with.
LEMMA HeldBooks == ASSUME NEW b, IsBooks(b) PROVE b \in Seq(Book_)
<1> DEFINE R == [csr : TheCsrs, status : Statuses]
<1>1. b \in Seq(R)
  BY DEF IsBooks
<1>2. R \subseteq Book_
  BY DEF Book_, CsrsHeld, TheCsrs
<1> HIDE DEF R
<1>3. QED
  BY <1>1, <1>2

\* The same for the SCEP helper.
LEMMA ScepServedFor ==
  ASSUME kind = "SCEP", IsBooks(requests), NEW h, NEW csrs \in SUBSET TheCsrs, MessagesAreFor(h, csrs),
         NEW r \in Serve(h), Len(r.books) <= Len(Certs)
  PROVE  IsBooks(r.books) /\ After(requests, r.books) /\ ExitFor(kind, agent, Heard(h, r.answer), r.books, csrs)
<1>1. CASE CannotRequest(h) # None
  <2>1. r.books = requests
    BY <1>1 DEF Serve
  <2>2. Heard(h, r.answer) = Outcome(CannotRequest(h), None, None)
    BY <1>1 DEF Heard, Run, RunScep
  <2>3. CannotRequest(h) \in {"UNCONFIGURED", "NEED_SCEP_MESSAGES"}
    BY <1>1 DEF CannotRequest
  <2>4. Heard(h, r.answer).status \in {"UNCONFIGURED", "NEED_SCEP_MESSAGES"}
    BY <2>2, <2>3 DEF Outcome
  <2>5. QED
    BY <2>1, <2>4, BooksLemma DEF ExitFor
<1>2. CASE CannotRequest(h) = None
  <2> DEFINE m == MessageToSend(h, Caps)
  <2>1. m.csr \in csrs /\ m.csr \in TheCsrs /\ m.csr \in CsrsHeld
    BY <1>2, MessageLemma DEF MessagesAreFor, TheCsrs, CsrsHeld
  <2>2. r \in ScepServe(m)
    BY <1>2 DEF Serve, Caps
  <2> HIDE DEF m
  <2>3. r.books = requests \/ \E s \in {"pending", "complete"} : r.books = Book(m.csr, s)
    <3> DEFINE known == {i \in DOMAIN requests : requests[i].csr = m.csr}
               books == IF known # {} THEN {requests} ELSE {Book(m.csr, s) : s \in {"pending", "complete"}}
    <3>1. PICK b \in books : r = [books |-> b,
                 answer |-> ScepReply(m, IndexOf([i \in DOMAIN b |-> b[i].csr], m.csr), b)]
      BY <2>2 DEF ScepServe
    <3> HIDE DEF known
    <3>2. r.books = b
      BY <3>1
    <3>3. QED
      BY <3>2
  <2>4. IsBooks(r.books) /\ After(requests, r.books)
    BY <2>1, <2>3, BooksLemma
  <2>5. requests \in Seq(Book_) /\ r.books \in Seq(Book_)
    BY <2>4, HeldBooks
  <2>6. PICK i \in DOMAIN r.books : r.books[i].csr = m.csr /\ r.answer = ScepReply(m, i, r.books)
    <3>1. \E i \in DOMAIN r.books : r.books[i].csr = m.csr /\ r.answer = ScepReply(m, i, r.books)
      BY <2>1, <2>2, <2>5, ScepServeLemma
    <3>2. QED
      BY <3>1
  <2> DEFINE exit == Heard(h, r.answer)
  <2>7. /\ exit.status = "REJECTED" => r.books[i].status = "rejected"
        /\ exit.status = "ISSUED" => r.books[i].status = "complete" /\ exit.cert = Certs[i]
    BY <1>2, <2>5, <2>6, ScepHeardLemma
  <2> HIDE DEF exit
  <2>8. Certs[i] # None
    <3>1. i \in DOMAIN Certs
      <4>1. r.books \in Seq(Book_) /\ Certs \in Seq(STRING)
        BY <2>5, EnrollmentAssumption
      <4>2. QED
        BY <4>1, LenProperties
    <3>2. QED
      BY <3>1, NamesAssumption DEF Range
  <2>9. ExitFor("SCEP", agent, exit, r.books, csrs)
    BY <2>1, <2>6, <2>7, <2>8 DEF ExitFor, CertOf
  <2>10. QED
    BY <2>4, <2>9 DEF exit
<1>3. QED
  BY <1>1, <1>2

\* Without an answer there is no exit but to try again.
LEMMA UnheardLemma ==
  ASSUME kind \in {"XML", "JSON", "SCEP"}, agent \in BOOLEAN, NEW h, NEW books, NEW csrs,
         kind # "SCEP" => \E cookie, csr : csr \in TheCsrs /\ Called(kind, agent, h, cookie, csr)
  PROVE  ExitFor(kind, agent, Unheard(h), books, csrs)
<1>1. CASE kind = "SCEP"
  <2>1. Unheard(h) = Outcome(CannotRequest(h), None, None) \/ Unheard(h) = Outcome("UNREACHABLE", None, None)
    BY <1>1 DEF Unheard, Run, RunScep
  <2>2. CannotRequest(h) # None => CannotRequest(h) \in {"UNCONFIGURED", "NEED_SCEP_MESSAGES"}
    BY DEF CannotRequest
  <2>3. Unheard(h) = Outcome("UNREACHABLE", None, None) \/ CannotRequest(h) # None
    BY <1>1 DEF Unheard, Run, RunScep
  <2>4. Unheard(h).status \in {"UNCONFIGURED", "NEED_SCEP_MESSAGES", "UNREACHABLE"}
    BY <2>1, <2>2, <2>3 DEF Outcome
  <2>5. QED
    BY <1>1, <2>4 DEF ExitFor
<1>2. CASE kind # "SCEP"
  <2>1. PICK cookie, csr : csr \in TheCsrs /\ Called(kind, agent, h, cookie, csr)
    BY <1>2
  <2>2. ~D!MissingArguments(h) /\ D!Workflow(h) = kind /\ (\A op : ~D!CannotCall(h, op))
    BY <1>2, <2>1, AskLemma
  <2>3. Unheard(h) \in {D!Exit("UNREACHABLE"), D!Exit("UNCONFIGURED")}
    <3>1. CASE kind = "XML"
      <4>1. Unheard(h) = D!XmlWorkflow(h, [code |-> 7, doc |-> None], [code |-> 7, doc |-> None])
        BY <2>2, <3>1 DEF Unheard, Run, D!RunDogtag
      <4>2. QED
        BY <4>1 DEF D!XmlWorkflow, D!XmlOutcome
    <3>2. CASE kind = "JSON"
      <4>1. Unheard(h) = D!JsonWorkflow(h, [code |-> 0, doc |-> None])
        BY <2>2, <3>2 DEF Unheard, Run, D!RunDogtag
      <4>2. QED
        BY <4>1 DEF D!JsonWorkflow
    <3>3. QED
      BY <1>2, <3>1, <3>2
  <2>4. QED
    BY <2>3 DEF ExitFor, D!Exit, IsExit
<1>3. QED
  BY <1>1, <1>2

-----------------------------------------------------------------------------
(***************************************************************************)
(* Every step keeps the invariant.                                         *)
(***************************************************************************)
\* A request in another state is otherwise the same.
LEMMA ToFields ==
  ASSUME NEW e, IsEntry(e), NEW s
  PROVE  IsEntry(To(e, s)) /\ To(e, s).state = s /\ \A f \in Fields \ {"state"} : To(e, s)[f] = e[f]
<1>1. "state" \in Fields
  BY DEF Fields
<1>2. QED
  BY <1>1, SetLemma DEF To

\* Another cookie changes nothing else of a request.
LEMMA CookieFields ==
  ASSUME NEW e, IsEntry(e), NEW c
  PROVE  LET g == [e EXCEPT !.cookie = c] IN IsEntry(g) /\ g.cookie = c
           /\ \A f \in Fields \ {"cookie"} : g[f] = e[f]
<1>1. "cookie" \in Fields
  BY DEF Fields
<1>2. QED
  BY <1>1, SetLemma

\* The fields that are used below are those of a request.
LEMMA FieldsAre ==
  {"state", "csr", "cert", "cookie", "scep_req", "scep_req_next", "scep_nonce"} \subseteq Fields
BY DEF Fields

WithCookie(e, c, s) == To([e EXCEPT !.cookie = c], s)

\* A request with another cookie and state.
LEMMA WithCookieLemma ==
  ASSUME NEW e, IsEntry(e), NEW c, NEW s
  PROVE  LET g == WithCookie(e, c, s)
         IN  g.state = s /\ g.cookie = c /\ g.csr = e.csr /\ g.cert = e.cert
<1> DEFINE d == [e EXCEPT !.cookie = c]
<1>1. IsEntry(d) /\ d.cookie = c /\ d.csr = e.csr /\ d.cert = e.cert
  BY CookieFields, FieldsAre
<1> HIDE DEF d
<1>2. LET g == To(d, s) IN g.state = s /\ g.cookie = d.cookie /\ g.csr = d.csr /\ g.cert = d.cert
  BY <1>1, ToFields, FieldsAre
<1>3. QED
  BY <1>1, <1>2 DEF WithCookie, d

\* What becomes of a request when its helper has ended.
OutcomeIs(g, e, exit) ==
  /\ g.csr = e.csr
  /\ \/ exit.status = "ISSUED" /\ g.state = "NEED_TO_SAVE_CERT" /\ g.cert = exit.cert /\ g.cookie = None
     \/ exit.status = "REJECTED" /\ g.state \in {"MONITORING", "NEED_TO_NOTIFY_REJECTION"} /\ g.cookie = None
     \/ exit.status = "UNREACHABLE" /\ g.state = "CA_UNREACHABLE" /\ g.cookie = e.cookie
     \/ exit.status \in {"WAIT", "WAIT_WITH_DELAY"} /\ exit.cookie # None /\ g.state = "CA_WORKING"
          /\ g.cookie = exit.cookie
     \/ g.state \in {"MONITORING", "CA_UNCONFIGURED", "NEED_GUIDANCE"} /\ g.cookie = None
     \/ exit.status = "NEED_SCEP_MESSAGES" /\ g.state = "NEED_SCEP_DATA" /\ g.cookie = None

\* It becomes nothing else, whatever the exit.
LEMMA OutcomeIsLemma ==
  ASSUME NEW e, IsEntry(e), NEW exit
  PROVE  OutcomeIs(Outcome_(e, exit), e, exit)
<1>1. CASE exit.status = "ISSUED"
  <2> DEFINE d == WithCookie(e, None, "NEED_TO_SAVE_CERT")
  <2>1. Outcome_(e, exit) = [d EXCEPT !.cert = exit.cert]
    BY <1>1 DEF Outcome_, cm_submit_clear_ca_cookie, WithCookie
  <2>2. d.state = "NEED_TO_SAVE_CERT" /\ d.cookie = None /\ d.csr = e.csr
    BY WithCookieLemma
  <2>3. IsEntry(d)
    BY CookieFields, ToFields DEF WithCookie
  <2> HIDE DEF d
  <2>4. LET g == [d EXCEPT !.cert = exit.cert] IN g.cert = exit.cert /\ g.state = d.state /\ g.cookie = d.cookie
              /\ g.csr = d.csr
    BY <2>3, SetLemma, FieldsAre
  <2>5. QED
    BY <1>1, <2>1, <2>2, <2>4 DEF OutcomeIs
<1>2. CASE exit.status = "REJECTED"
  <2>1. \E s \in {"MONITORING", "NEED_TO_NOTIFY_REJECTION"} : Outcome_(e, exit) = WithCookie(e, None, s)
    BY <1>2 DEF Outcome_, cm_submit_clear_ca_cookie, Rejected, WithCookie
  <2>2. QED
    BY <1>2, <2>1, WithCookieLemma DEF OutcomeIs
<1>3. CASE exit.status = "UNREACHABLE"
  <2>1. Outcome_(e, exit) = To(e, "CA_UNREACHABLE")
    BY <1>3 DEF Outcome_, Unreachable
  <2>2. LET g == To(e, "CA_UNREACHABLE") IN g.state = "CA_UNREACHABLE" /\ g.cookie = e.cookie /\ g.csr = e.csr
    BY ToFields, FieldsAre
  <2>3. QED
    BY <1>3, <2>1, <2>2 DEF OutcomeIs
<1>4. CASE exit.status \notin {"ISSUED", "REJECTED", "UNREACHABLE"}
  <2>1. Outcome_(e, exit) = Otherwise(e, exit)
    BY <1>4 DEF Outcome_
  <2> DEFINE c == IF exit.status \in {"WAIT", "WAIT_WITH_DELAY"} THEN exit.cookie ELSE None
             saved == cm_submit_e_save_ca_cookie(e, exit)
  <2>2. saved = [e EXCEPT !.cookie = c]
    BY DEF cm_submit_e_save_ca_cookie
  <2>3. saved.cookie = c
    BY <2>2, CookieFields
  <2>4. CASE c # None
    <3>1. Otherwise(e, exit) = WithCookie(e, exit.cookie, "CA_WORKING")
            /\ exit.status \in {"WAIT", "WAIT_WITH_DELAY"} /\ exit.cookie # None
      <4>1. exit.status \in {"WAIT", "WAIT_WITH_DELAY"} /\ c = exit.cookie
        BY <2>4
      <4>2. Otherwise(e, exit) = To(saved, "CA_WORKING")
        <5> HIDE DEF c
        <5>1. saved.cookie # None /\ exit.status # "UNCONFIGURED" /\ exit.status # "NEED_SCEP_MESSAGES"
          BY <4>1, <2>3, <2>4
        <5> HIDE DEF saved
        <5>2. QED
          BY <5>1 DEF Otherwise, saved
      <4>3. QED
        BY <4>1, <4>2, <2>2, <2>4 DEF WithCookie
    <3>2. QED
      BY <2>1, <3>1, WithCookieLemma DEF OutcomeIs
  <2>5. CASE c = None
    <3> DEFINE Stays(s) == 
                 \/ s \in {"MONITORING", "CA_UNCONFIGURED", "NEED_GUIDANCE"}
                 \/ (exit.status = "NEED_SCEP_MESSAGES" /\ s = "NEED_SCEP_DATA")
    <3>1. \E s : Stays(s) /\ Otherwise(e, exit) = WithCookie(e, None, s)
      <4> HIDE DEF c
      <4>1. saved.cookie = None
        BY <2>3, <2>5
      <4> HIDE DEF saved
      <4>2. \E s : Stays(s) /\ Otherwise(e, exit) = To(saved, s)
        BY <4>1 DEF Otherwise, saved
      <4>3. QED
        BY <4>2, <2>2, <2>5 DEF WithCookie
    <3>2. QED
      BY <2>1, <3>1, WithCookieLemma DEF OutcomeIs
  <2>6. QED
    BY <2>4, <2>5
<1>5. QED
  BY <1>1, <1>2, <1>3, <1>4

\* What the other moves leave of a request.
LEMMA MovesFields ==
  ASSUME NEW e, IsEntry(e),
         e.state \in {"HAVE_CSR", "HAVE_SCEP_DATA", "CA_WORKING", "CA_UNREACHABLE",
                      "NEED_TO_NOTIFY_REJECTION", "NEED_TO_SAVE_CERT"}
  PROVE  /\ Moves(e).csr = e.csr /\ Moves(e).cookie = e.cookie /\ Moves(e).cert = e.cert
         /\ Moves(e).state \in {"NEED_TO_SUBMIT", "CA_REJECTED", "MONITORING"}
         /\ Moves(e).state = "MONITORING" => e.state = "NEED_TO_SAVE_CERT"
         /\ Moves(e).state = "NEED_TO_SUBMIT"
              => e.state \notin {"NEED_TO_NOTIFY_REJECTION", "NEED_TO_SAVE_CERT"}
<1>1. ASSUME NEW s PROVE /\ IsEntry(To(e, s)) /\ To(e, s).state = s /\ To(e, s).csr = e.csr
                         /\ To(e, s).cookie = e.cookie /\ To(e, s).cert = e.cert
  BY ToFields, FieldsAre
<1>2. CASE e.state = "NEED_TO_SAVE_CERT" /\ e.key_next # None
  <2> DEFINE d == To(e, "MONITORING")
             k == [d EXCEPT !.key = d.key_next]
  <2>1. IsEntry(d) /\ d.state = "MONITORING" /\ d.csr = e.csr /\ d.cookie = e.cookie /\ d.cert = e.cert
    BY <1>1
  <2> HIDE DEF d
  <2>2. IsEntry(k) /\ k.state = d.state /\ k.csr = d.csr /\ k.cookie = d.cookie /\ k.cert = d.cert
    BY <2>1, SetLemma, FieldsAre, FieldsLemma
  <2>3. Moves(e) = [k EXCEPT !.key_next = None]
    BY <1>2 DEF Moves, Rotated, d
  <2> HIDE DEF k
  <2>4. LET g == [k EXCEPT !.key_next = None] IN g.state = k.state /\ g.csr = k.csr /\ g.cookie = k.cookie
              /\ g.cert = k.cert
    BY <2>2, SetLemma, FieldsAre, FieldsLemma
  <2>5. QED
    BY <1>2, <2>1, <2>2, <2>3, <2>4
<1>3. CASE ~(e.state = "NEED_TO_SAVE_CERT" /\ e.key_next # None)
  <2>1. \/ Moves(e) = To(e, "NEED_TO_SUBMIT")
          /\ e.state \notin {"NEED_TO_NOTIFY_REJECTION", "NEED_TO_SAVE_CERT"}
        \/ Moves(e) = To(e, "CA_REJECTED")
        \/ Moves(e) = To(e, "MONITORING") /\ e.state = "NEED_TO_SAVE_CERT"
    BY <1>3 DEF Moves
  <2>2. QED
    BY <1>1, <2>1
<1>4. QED
  BY <1>2, <1>3

\* An entry of the books is about one of the signing requests.
LEMMA BookIn ==
  ASSUME NEW books, IsBooks(books), NEW i \in DOMAIN books
  PROVE  books[i] \in [csr : TheCsrs, status : Statuses] /\ books[i].csr \in TheCsrs
           /\ books[i].status \in Statuses
<1> DEFINE R == [csr : TheCsrs, status : Statuses]
<1>1. books \in Seq(R)
  BY DEF IsBooks
<1>2. \A b \in R : b.csr \in TheCsrs /\ b.status \in Statuses
  OBVIOUS
<1> HIDE DEF R
<1>3. books[i] \in R
  BY <1>1
<1>4. QED
  BY <1>2, <1>3 DEF R

\* What holds with some books holds with those that come after.
LEMMA AfterEntry ==
  ASSUME NEW old, NEW new, After(old, new), IsBooks(new), NEW k, NEW a, NEW e, NEW again,
         EntryIs(k, a, e, old, again)
  PROVE  EntryIs(k, a, e, new, again)
<1>1. k # "SCEP" => CookieFor(k, a, e.cookie, new, Own(e, again))
  BY AfterCookie DEF EntryIs
<1>2. ASSUME e.state = "NEED_TO_SAVE_CERT", again = 0
      PROVE  \E i \in DOMAIN new : Certs[i] = e.cert /\ new[i] = [csr |-> e.csr, status |-> "complete"]
  <2>1. PICK i \in DOMAIN old : Certs[i] = e.cert /\ old[i] = [csr |-> e.csr, status |-> "complete"]
    BY <1>2 DEF EntryIs
  <2>2. i \in DOMAIN new /\ new[i].csr = e.csr /\ new[i].status = "complete"
    BY <2>1 DEF After
  <2>3. new[i] \in [csr : TheCsrs, status : Statuses]
    BY <2>2, BookIn
  <2>4. QED
    BY <2>1, <2>2, <2>3
<1>3. ASSUME e.state = "NEED_TO_NOTIFY_REJECTION", k # "XML" \/ a
             PROVE \E i \in DOMAIN new : new[i].status = "rejected"
  <2>1. PICK i \in DOMAIN old : old[i].status = "rejected"
    BY <1>3 DEF EntryIs
  <2>2. QED
    BY <2>1 DEF After
<1>4. QED
  BY <1>1, <1>2, <1>3 DEF EntryIs

\* What holds of the helper with some books.
LEMMA AfterHelper ==
  ASSUME NEW old, NEW new, After(old, new), NEW k, NEW a, NEW x, NEW e, NEW again,
         HelperIs(k, a, x, e, old, again)
  PROVE  HelperIs(k, a, x, e, new, again)
BY AfterExit DEF HelperIs

\* What holds of the helper that was left behind.
LEMMA AfterOrphan ==
  ASSUME NEW old, NEW new, After(old, new), NEW k, NEW a, NEW x, OrphanIs(k, a, x, old)
  PROVE  OrphanIs(k, a, x, new)
<1>1. ASSUME k # "SCEP"
      PROVE  \E csr \in TheCsrs : Called(k, a, x.h, x.h.savedstate, csr)
               /\ CookieFor(k, a, x.h.savedstate, new, TheCsrs)
  <2>1. PICK csr \in TheCsrs :
               Called(k, a, x.h, x.h.savedstate, csr) /\ CookieFor(k, a, x.h.savedstate, old, TheCsrs)
    BY <1>1 DEF OrphanIs
  <2>2. QED
    BY <2>1, AfterCookie
<1>2. QED
  BY <1>1 DEF OrphanIs

\* With fewer signing requests less is said.
LEMMA MoreCsrs ==
  ASSUME NEW k, NEW a, NEW cookie, NEW books, IsBooks(books), NEW csrs, CookieFor(k, a, cookie, books, csrs)
  PROVE  CookieFor(k, a, cookie, books, TheCsrs)
<1>1. \A i \in DOMAIN books : books[i].csr \in TheCsrs
  BY BookIn
<1>2. QED
  BY <1>1 DEF CookieFor

\* A helper is called with what the request has.
LEMMA StartedFor ==
  ASSUME kind \in {"XML", "JSON", "SCEP"}, NEW e, NEW books, NEW again, EntryIs(kind, agent, e, books, again)
  PROVE  LET x == cm_submit_e_start(e)
         IN  /\ x.exit = None
             /\ kind # "SCEP" => Called(kind, agent, x.h, e.cookie, e.csr)
             /\ kind = "SCEP" => MessagesAreFor(x.h, {e.csr})
<1> DEFINE x == cm_submit_e_start(e)
<1>1. PICK mode : x = [h |-> Environment(e, mode), exit |-> None]
  <2>1. \E mode : x = [h |-> Environment(e, mode), exit |-> None]
    BY DEF cm_submit_e_start
  <2>2. QED
    BY <2>1
<1>2. x.h = Environment(e, mode) /\ x.exit = None
  BY <1>1
<1> HIDE DEF x
<1>3. ASSUME kind # "SCEP" PROVE Called(kind, agent, x.h, e.cookie, e.csr)
  BY <1>2, <1>3 DEF Environment, Called
<1>4. ASSUME kind = "SCEP" PROVE MessagesAreFor(x.h, {e.csr})
  <2>1. x.h.req \in {None, e.scep_req} /\ x.h.req_rekey \in {None, e.scep_req_next}
    BY <1>2, <1>4 DEF Environment
  <2>2. QED
    BY <2>1, <1>4 DEF MessagesAreFor, EntryIs
<1>5. QED
  BY <1>2, <1>3, <1>4 DEF x

\* What a step leaves of the invariant, when what it says of the request and its
\* helper still holds.
LEMMA BySteps ==
  ASSUME ProtocolInv, kind' = kind, agent' = agent, resubmits' \in Nat, IsBooks(requests'),
         EntryIs(kind, agent, entry', requests', resubmits'),
         helper' # None => HelperIs(kind, agent, helper', entry', requests', resubmits'),
         orphan' # None => OrphanIs(kind, agent, orphan', requests')
  PROVE  ProtocolInv'
BY DEF ProtocolInv

\* The request has the fields of one, and there is nobody but it between the states.
LEMMA OnlyWaiting ==
  ASSUME ProtocolInv, entry.state # "SUBMITTING"
  PROVE  helper = None
BY DEF ProtocolInv, HelperIs

\* At first there is nothing.
LEMMA ProtocolInitLemma == Init => ProtocolInv
<1> SUFFICES ASSUME Init PROVE ProtocolInv
  OBVIOUS
<1>1. /\ kind \in {"XML", "JSON", "SCEP"} /\ agent \in BOOLEAN /\ resubmits = 0 /\ requests = <<>>
      /\ helper = None /\ orphan = None /\ \E next \in {None, "k2"} : entry = NewEntry(next)
  BY DEF Init
<1>2. entry.state = "NEED_CSR" /\ entry.csr = None /\ entry.cookie = None /\ entry.scep_req = None
        /\ entry.scep_req_next = None
  BY <1>1 DEF NewEntry
<1>3. IsBooks(requests)
  <2>1. Certs \in Seq(STRING)
    BY EnrollmentAssumption
  <2>2. QED
    BY <2>1, <1>1 DEF IsBooks
<1>4. EntryIs(kind, agent, entry, requests, resubmits)
  BY <1>2 DEF EntryIs, Reached, CookieFor
<1>5. QED
  BY <1>1, <1>3, <1>4 DEF ProtocolInv

\* GENERATING_CSR: the cookie of an earlier signing request is gone, unless the
\* user has asked again.
LEMMA GenerateCSRFor == NonceInv /\ ProtocolInv /\ GenerateCSR => ProtocolInv'
<1> SUFFICES ASSUME NonceInv, ProtocolInv, GenerateCSR PROVE ProtocolInv'
  OBVIOUS
<1> DEFINE v == IF entry.csr = None THEN 1 ELSE 1 + IndexOf(Csrs, entry.csr)
<1>1. /\ entry.state \in {"NEED_CSR", "HAVE_KEYINFO"} /\ v <= Len(Csrs)
      /\ entry' = [To(entry, "HAVE_CSR") EXCEPT !.csr = Csrs[v], !.scep_tx = "t", !.scep_nonce = None,
                   !.scep_last_nonce = None, !.scep_req = None, !.scep_gic = None,
                   !.scep_req_next = None, !.scep_gic_next = None]
      /\ UNCHANGED <<kind, agent, helper, orphan, requests, resubmits>>
  BY DEF GenerateCSR, In, Becomes, setup, server, users
<1>2. IsEntry(entry) /\ EntryIs(kind, agent, entry, requests, resubmits) /\ helper = None
  BY <1>1, OnlyWaiting DEF NonceInv, EnrollTypeOK, ProtocolInv
<1>3. Csrs[v] \in TheCsrs
  <2>1. entry.csr \in CsrsHeld
    BY <1>2 DEF EntryIs, CsrsHeld, TheCsrs
  <2>2. QED
    BY <1>1, <2>1, NextCsrLemma DEF TheCsrs
<1> HIDE DEF v
<1>4. /\ entry'.state = "HAVE_CSR" /\ entry'.csr = Csrs[v] /\ entry'.cookie = entry.cookie
      /\ entry'.scep_req = None /\ entry'.scep_req_next = None
  BY <1>1, <1>2 DEF IsEntry, Fields, To
<1>5. kind # "SCEP" => CookieFor(kind, agent, entry'.cookie, requests, Own(entry', resubmits))
  <2>1. CASE resubmits = 0
    BY <1>1, <1>2, <1>4, <2>1 DEF EntryIs, CookieFor
  <2>2. CASE resubmits # 0
    BY <1>2, <1>4, <2>2 DEF EntryIs, Own
  <2>3. QED
    BY <2>1, <2>2
<1>6. EntryIs(kind, agent, entry', requests, resubmits)
  BY <1>3, <1>4, <1>5 DEF EntryIs, Reached
<1>7. QED
  BY <1>1, <1>2, <1>6, BySteps DEF ProtocolInv

\* GENERATING_SCEP_DATA: the messages are for the signing request.
LEMMA GenerateSCEPFor == NonceInv /\ ProtocolInv /\ GenerateSCEP => ProtocolInv'
<1> SUFFICES ASSUME NonceInv, ProtocolInv, GenerateSCEP PROVE ProtocolInv'
  OBVIOUS
<1> DEFINE g == cm_scepgen_o_save_scep(entry, FreshNonce)
           m == MessagesFor(entry, FreshNonce, "PKCSReq")
<1>1. /\ entry.state = "NEED_SCEP_DATA" /\ entry' = To(g, "HAVE_SCEP_DATA")
      /\ UNCHANGED <<kind, agent, helper, orphan, requests, resubmits>>
  BY DEF GenerateSCEP, In, Becomes, setup, users
<1>2. IsEntry(entry) /\ EntryIs(kind, agent, entry, requests, resubmits) /\ helper = None
  BY <1>1, OnlyWaiting DEF NonceInv, EnrollTypeOK, ProtocolInv
<1>3. /\ IsEntry(g) /\ g.csr = entry.csr /\ g.cookie = entry.cookie
      /\ g.scep_req = m.old /\ g.scep_req_next = m.new
  <2>1. g.cookie = entry.cookie
    BY <1>2 DEF IsEntry, Fields, cm_scepgen_o_save_scep
  <2>2. QED
    BY <1>2, <2>1, SaveScepLemma
<1>4. \A x \in {m.old, m.new} \ {None} : x.csr = entry.csr
  BY DEF MessagesFor, build_pkimessage
<1> HIDE DEF g, m
<1>5. /\ entry'.state = "HAVE_SCEP_DATA" /\ entry'.csr = entry.csr /\ entry'.cookie = entry.cookie
      /\ entry'.scep_req = m.old /\ entry'.scep_req_next = m.new
  <2>1. {"csr", "cookie", "scep_req", "scep_req_next"} \subseteq Fields \ {"state"}
    BY DEF Fields
  <2>2. QED
    BY <1>1, <1>3, <2>1, ToFields
<1>6. EntryIs(kind, agent, entry', requests, resubmits)
  BY <1>1, <1>2, <1>4, <1>5 DEF EntryIs, Reached, Own
<1>7. QED
  BY <1>1, <1>2, <1>6, BySteps DEF ProtocolInv

\* A request whose signing request and cookie stay, in a state that claims nothing.
Plain == Reached \ {"NEED_SCEP_DATA", "NEED_CSR", "HAVE_KEYINFO", "NEED_TO_SAVE_CERT", "MONITORING",
  "NEED_TO_NOTIFY_REJECTION"}

\* What holds of a request holds after such a move.
LEMMA PlainMove ==
  ASSUME NEW k, NEW a, NEW e, NEW g, NEW books, NEW again, EntryIs(k, a, e, books, again),
         e.csr \in TheCsrs, k # "SCEP" => g.state # "HAVE_SCEP_DATA", g.csr = e.csr, g.scep_req = e.scep_req,
         g.scep_req_next = e.scep_req_next,
         g.cookie = e.cookie \/ (k # "SCEP" => CookieFor(k, a, g.cookie, books, Own(e, again))),
           g.state \in Plain
  PROVE  EntryIs(k, a, g, books, again)
<1>1. Own(g, again) = Own(e, again)
  BY DEF Own
<1>2. k # "SCEP" => CookieFor(k, a, g.cookie, books, Own(g, again))
  BY <1>1 DEF EntryIs
<1>3. g.state \in Reached \ {"NEED_SCEP_DATA", "NEED_CSR", "HAVE_KEYINFO", "NEED_TO_SAVE_CERT", "MONITORING",
        "NEED_TO_NOTIFY_REJECTION"}
  BY DEF Plain
<1>4. k = "SCEP" => \A m \in {g.scep_req, g.scep_req_next} \ {None} : m.csr = g.csr
  BY DEF EntryIs
<1>5. QED
  BY <1>2, <1>3, <1>4 DEF EntryIs

\* What submitting leaves of a request.
SubmittedFields(g, e) ==
  /\ g.state = "SUBMITTING" /\ g.csr = e.csr /\ g.cookie = e.cookie
  /\ g.scep_req = e.scep_req /\ g.scep_req_next = e.scep_req_next

\* Submitting leaves that much.
LEMMA SubmittedFieldsLemma == ASSUME NEW e, IsEntry(e) PROVE SubmittedFields(Submitted(e), e)
<1> DEFINE d == To(e, "SUBMITTING")  g == Submitted(e)
<1>1. "scep_last_nonce" \in Fields
        /\ {"csr", "cookie", "scep_req", "scep_req_next", "state"} \subseteq Fields \ {"scep_last_nonce"}
      /\ {"csr", "cookie", "scep_req", "scep_req_next"} \subseteq Fields \ {"state"}
  BY DEF Fields
<1>2. IsEntry(d) /\ d.state = "SUBMITTING" /\ \A f \in Fields \ {"state"} : d[f] = e[f]
  BY ToFields
<1> HIDE DEF d
<1>3. \A f \in Fields \ {"scep_last_nonce"} : g[f] = d[f]
  BY <1>1, <1>2, SetLemma DEF Submitted, d
<1>4. QED
  BY <1>1, <1>2, <1>3 DEF SubmittedFields

\* NEED_TO_SUBMIT: the helper is called with what the request has.
LEMMA SubmitFor == NonceInv /\ ProtocolInv /\ NEED_TO_SUBMIT => ProtocolInv'
<1> SUFFICES ASSUME NonceInv, ProtocolInv, NEED_TO_SUBMIT PROVE ProtocolInv'
  OBVIOUS
<1> DEFINE g == Submitted(entry)  x == cm_submit_e_start(entry)
<1>1. /\ entry.state = "NEED_TO_SUBMIT" /\ entry' = g /\ helper' = x
      /\ UNCHANGED <<kind, agent, orphan, requests, resubmits>>
  BY DEF NEED_TO_SUBMIT, In, Becomes, setup, server, users
<1>2. /\ IsEntry(entry) /\ EntryIs(kind, agent, entry, requests, resubmits) /\ entry.csr \in TheCsrs
      /\ kind \in {"XML", "JSON", "SCEP"}
  BY <1>1 DEF NonceInv, EnrollTypeOK, ProtocolInv, EntryIs
<1>3. SubmittedFields(g, entry)
  BY <1>2, SubmittedFieldsLemma
<1>4. /\ x.exit = None
      /\ kind # "SCEP" => Called(kind, agent, x.h, entry.cookie, entry.csr)
      /\ kind = "SCEP" => MessagesAreFor(x.h, {entry.csr})
  BY <1>2, StartedFor
<1> HIDE DEF g, x
<1>5. EntryIs(kind, agent, entry', requests, resubmits)
  <2>1. g.state \in Plain
    BY <1>3 DEF Plain, Reached, SubmittedFields
  <2>2. QED
    BY <1>1, <1>2, <1>3, <2>1, PlainMove DEF SubmittedFields
<1>6. HelperIs(kind, agent, helper', entry', requests, resubmits)
  BY <1>1, <1>3, <1>4 DEF HelperIs, SubmittedFields
<1>7. QED
  BY <1>1, <1>5, <1>6, BySteps DEF ProtocolInv

\* The exit as the daemon reads it.
LEMMA ReadLemma ==
  ASSUME NEW exit, ExitFor(kind, agent, exit, requests, Own(entry, resubmits))
  PROVE  /\ Read(exit).status = exit.status /\ Read(exit).cookie = exit.cookie
         /\ exit.status = "ISSUED" => Read(exit).cert = CertOf(kind, exit)
<1>1. CASE kind = "SCEP" \/ exit.cert = None
  <2>1. exit.status = "ISSUED" => exit.cert # None
    BY DEF ExitFor
  <2>2. QED
    BY <1>1, <2>1 DEF Read, CertOf
<1>2. CASE ~(kind = "SCEP" \/ exit.cert = None)
  <2>1. Read(exit) = [exit EXCEPT !.cert = @[1]] /\ {"status", "cookie", "cert"} \subseteq DOMAIN exit
    BY <1>2 DEF Read, ExitFor, IsExit
  <2>2. QED
    BY <1>2, <2>1 DEF CertOf
<1>3. QED
  BY <1>1, <1>2

\* SUBMITTING: the request becomes what the exit says.
LEMMA SubmittingFor == NonceInv /\ ProtocolInv /\ SUBMITTING => ProtocolInv'
<1> SUFFICES ASSUME NonceInv, ProtocolInv, SUBMITTING PROVE ProtocolInv'
  OBVIOUS
<1> DEFINE exit == helper.exit  read == Read(exit)  g == Outcome_(entry, read)  own == Own(entry, resubmits)
<1>1. /\ entry.state = "SUBMITTING" /\ helper # None /\ exit # None /\ entry' = g /\ helper' = None
      /\ UNCHANGED <<kind, agent, orphan, requests, resubmits>>
  BY DEF SUBMITTING, In, Becomes, setup, server, users
<1>2. /\ IsEntry(entry) /\ EntryIs(kind, agent, entry, requests, resubmits) /\ entry.csr \in TheCsrs
      /\ kind \in {"XML", "JSON", "SCEP"} /\ agent \in BOOLEAN /\ IsBooks(requests)
  BY <1>1 DEF NonceInv, EnrollTypeOK, ProtocolInv, EntryIs
<1>3. ExitFor(kind, agent, exit, requests, own)
  BY <1>1 DEF ProtocolInv, HelperIs
<1>4. /\ read.status = exit.status /\ read.cookie = exit.cookie
      /\ exit.status = "ISSUED" => read.cert = CertOf(kind, exit)
  BY <1>3, ReadLemma
<1>5. OutcomeIs(g, entry, read) /\ g.scep_req = entry.scep_req /\ g.scep_req_next = entry.scep_req_next
  <2> HIDE DEF read
  <2>1. OutcomeIs(g, entry, read)
    BY <1>2, OutcomeIsLemma
  <2>2. SameScep(g, entry)
    BY <1>2, OutcomeLemma
  <2>3. QED
    BY <2>1, <2>2 DEF SameScep, ScepFields
<1> HIDE DEF g, read, exit
<1>6. g.csr = entry.csr /\ Own(g, resubmits) = own
  BY <1>5 DEF OutcomeIs, Own
<1>7. EntryIs(kind, agent, g, requests, resubmits)
  <2>0. kind = "SCEP" => \A m \in {g.scep_req, g.scep_req_next} \ {None} : m.csr = g.csr
    BY <1>2, <1>5, <1>6 DEF EntryIs
  <2>1. CASE read.status = "ISSUED" /\ g.state = "NEED_TO_SAVE_CERT" /\ g.cert = read.cert /\ g.cookie = None
    <3>1. PICK i \in DOMAIN requests : /\ requests[i].status = "complete" /\ requests[i].csr \in own
                                       /\ g.cert = Certs[i]
      BY <2>1, <1>3, <1>4 DEF ExitFor
    <3>2. ASSUME resubmits = 0 PROVE requests[i] = [csr |-> g.csr, status |-> "complete"]
      <4>1. requests[i] \in [csr : TheCsrs, status : Statuses] /\ requests[i].csr = g.csr
        BY <1>2, <1>6, <3>1, <3>2, BookIn DEF Own
      <4>2. QED
        BY <3>1, <4>1
    <3>3. QED
      BY <2>0, <2>1, <1>2, <1>6, <3>1, <3>2 DEF EntryIs, Reached, CookieFor
  <2>2. CASE read.status = "REJECTED" /\ g.state \in {"MONITORING", "NEED_TO_NOTIFY_REJECTION"}
               /\ g.cookie = None
    <3>1. kind # "XML" \/ agent => \E i \in DOMAIN requests : requests[i].status = "rejected"
      BY <2>2, <1>3, <1>4 DEF ExitFor
    <3>2. QED
      BY <2>0, <2>2, <1>2, <1>6, <3>1 DEF EntryIs, Reached, CookieFor
  <2>3. CASE g.state = "CA_UNREACHABLE" /\ g.cookie = entry.cookie
    <3>1. g.state \in Plain /\ g.state # "HAVE_SCEP_DATA"
      BY <2>3 DEF Plain, Reached
    <3>2. QED
      BY <2>3, <3>1, <1>2, <1>5, <1>6, PlainMove
  <2>4. CASE read.status \in {"WAIT", "WAIT_WITH_DELAY"} /\ read.cookie # None /\ g.state = "CA_WORKING"
               /\ g.cookie = read.cookie
    <3>1. g.state \in Plain /\ g.state # "HAVE_SCEP_DATA"
      BY <2>4 DEF Plain, Reached
    <3>2. kind # "SCEP" => CookieFor(kind, agent, g.cookie, requests, own)
      BY <2>4, <1>3, <1>4 DEF ExitFor
    <3>3. QED
      BY <3>1, <3>2, <1>2, <1>5, <1>6, PlainMove
  <2>5. CASE g.state \in {"MONITORING", "CA_UNCONFIGURED", "NEED_GUIDANCE"} /\ g.cookie = None
    BY <2>0, <2>5, <1>2, <1>6 DEF EntryIs, Reached, CookieFor
  <2>6. CASE read.status = "NEED_SCEP_MESSAGES" /\ g.state = "NEED_SCEP_DATA" /\ g.cookie = None
    <3>1. kind = "SCEP"
      BY <2>6, <1>3, <1>4 DEF ExitFor
    <3>2. QED
      BY <2>0, <2>6, <3>1, <1>2, <1>6 DEF EntryIs, Reached
  <2>7. QED
    BY <2>1, <2>2, <2>3, <2>4, <2>5, <2>6, <1>5 DEF OutcomeIs
<1>8. QED
  BY <1>1, <1>7, BySteps DEF ProtocolInv

\* The fields that the invariant is about, but the state, stay as they are.
SameRequest(g, e) ==
  /\ g.csr = e.csr /\ g.cert = e.cert /\ g.cookie = e.cookie
  /\ g.scep_req = e.scep_req /\ g.scep_req_next = e.scep_req_next

\* Going to another state leaves them.
LEMMA SameRequestLemma ==
  ASSUME NEW e, IsEntry(e), NEW s
  PROVE  SameRequest(To(e, s), e) /\ To(e, s).state = s
<1>1. {"csr", "cert", "cookie", "scep_req", "scep_req_next"} \subseteq Fields \ {"state"}
  BY DEF Fields
<1>2. QED
  BY <1>1, ToFields DEF SameRequest

\* The other states move on and leave the rest alone.
LEMMA ProceedFor == NonceInv /\ ProtocolInv /\ Proceed => ProtocolInv'
<1> SUFFICES ASSUME NonceInv, ProtocolInv, Proceed PROVE ProtocolInv'
  OBVIOUS
<1> DEFINE g == Moves(entry)
<1>1. /\ entry.state \in {"HAVE_CSR", "HAVE_SCEP_DATA", "CA_WORKING", "CA_UNREACHABLE",
                          "NEED_TO_NOTIFY_REJECTION", "NEED_TO_SAVE_CERT"}
      /\ entry' = g /\ UNCHANGED <<kind, agent, helper, orphan, requests, resubmits>>
  BY DEF Proceed, In, Becomes, setup, server, users
<1>2. /\ IsEntry(entry) /\ EntryIs(kind, agent, entry, requests, resubmits) /\ helper = None
        /\ entry.csr \in TheCsrs
  BY <1>1, OnlyWaiting DEF NonceInv, EnrollTypeOK, ProtocolInv, EntryIs
<1>3. /\ g.csr = entry.csr /\ g.cookie = entry.cookie
      /\ g.state \in {"NEED_TO_SUBMIT", "CA_REJECTED", "MONITORING"}
      /\ g.state = "MONITORING" => entry.state = "NEED_TO_SAVE_CERT"
      /\ g.scep_req = entry.scep_req /\ g.scep_req_next = entry.scep_req_next
  <2>1. SameScep(g, entry)
    BY <1>1, <1>2, MovesLemma
  <2>2. QED
    BY <1>1, <1>2, <2>1, MovesFields DEF SameScep, ScepFields
<1> HIDE DEF g
<1>4. EntryIs(kind, agent, entry', requests, resubmits)
  <2>1. CASE g.state = "MONITORING"
    BY <1>1, <1>2, <1>3, <2>1 DEF EntryIs, Reached, CookieFor
  <2>2. CASE g.state # "MONITORING"
    <3>1. g.state \in Plain
      BY <1>3, <2>2 DEF Plain, Reached
    <3>2. QED
      BY <1>1, <1>2, <1>3, <3>1, PlainMove
  <2>3. QED
    BY <2>1, <2>2
<1>5. QED
  BY <1>1, <1>2, <1>4, BySteps DEF ProtocolInv

\* A renewal starts without a cookie.
LEMMA RenewFor == NonceInv /\ ProtocolInv /\ Renew => ProtocolInv'
<1> SUFFICES ASSUME NonceInv, ProtocolInv, Renew PROVE ProtocolInv'
  OBVIOUS
<1>1. /\ entry.state = "MONITORING" /\ entry' = To(entry, "NEED_CSR")
      /\ UNCHANGED <<kind, agent, helper, orphan, requests, resubmits>>
  BY DEF Renew, In, Becomes, setup, server
<1>2. IsEntry(entry) /\ EntryIs(kind, agent, entry, requests, resubmits) /\ helper = None
  BY <1>1, OnlyWaiting DEF NonceInv, EnrollTypeOK, ProtocolInv
<1>3. SameRequest(entry', entry) /\ entry'.state = "NEED_CSR"
  BY <1>1, <1>2, SameRequestLemma
<1>4. EntryIs(kind, agent, entry', requests, resubmits)
  BY <1>1, <1>2, <1>3 DEF EntryIs, SameRequest, Reached, CookieFor
<1>5. QED
  BY <1>1, <1>2, <1>4, BySteps DEF ProtocolInv

\* When the user asks again, the cookie can be for any signing request.
LEMMA ResubmitFor == NonceInv /\ ProtocolInv /\ Resubmit => ProtocolInv'
<1> SUFFICES ASSUME NonceInv, ProtocolInv, Resubmit PROVE ProtocolInv'
  OBVIOUS
<1>1. /\ entry' = To(entry, "NEED_CSR") /\ helper' = None /\ resubmits' = resubmits + 1
      /\ UNCHANGED <<kind, agent, orphan, requests>>
  BY DEF Resubmit, Becomes, setup, server
<1>2. /\ IsEntry(entry) /\ EntryIs(kind, agent, entry, requests, resubmits) /\ IsBooks(requests)
      /\ resubmits \in Nat
  BY DEF NonceInv, EnrollTypeOK, ProtocolInv
<1>3. SameRequest(entry', entry) /\ entry'.state = "NEED_CSR"
  BY <1>1, <1>2, SameRequestLemma
<1>4. resubmits' \in Nat /\ resubmits' # 0
  BY <1>1, <1>2
<1>5. kind # "SCEP" => CookieFor(kind, agent, entry'.cookie, requests, Own(entry', resubmits'))
  BY <1>2, <1>3, <1>4, MoreCsrs DEF EntryIs, SameRequest, Own
<1>6. EntryIs(kind, agent, entry', requests, resubmits')
  BY <1>2, <1>3, <1>4, <1>5 DEF EntryIs, SameRequest, Reached
<1>7. QED
  BY <1>1, <1>4, <1>6, BySteps DEF ProtocolInv

\* After a restart the request is where it was, or a step or two before.
LEMMA ResetLemma ==
  ASSUME NEW s \in Reached
  PROVE  \/ Reset(s) = s
         \/ s = "NEED_CSR" /\ Reset(s) = "HAVE_KEYINFO"
         \/ s \notin {"NEED_CSR", "HAVE_KEYINFO"} /\ Reset(s) = "HAVE_CSR"
BY DEF Reached, Reset, InterruptedSubmission, InterruptedReading, InterruptedTelling

\* What holds of a request holds after a restart.
LEMMA RestartLemma ==
  ASSUME NEW k, NEW a, NEW e, IsEntry(e), NEW books, NEW again, EntryIs(k, a, e, books, again)
  PROVE  EntryIs(k, a, To(e, Reset(e.state)), books, again)
<1> DEFINE s == e.state  r == Reset(s)  g == To(e, r)
<1>1. SameRequest(g, e) /\ g.state = r
  BY SameRequestLemma
<1>2. s \in Reached
  BY DEF EntryIs
<1>3. r = s \/ (s = "NEED_CSR" /\ r = "HAVE_KEYINFO") \/ (s \notin {"NEED_CSR", "HAVE_KEYINFO"}
        /\ r = "HAVE_CSR")
  BY <1>2, ResetLemma
<1> SUFFICES EntryIs(k, a, g, books, again)
  OBVIOUS
<1> HIDE DEF g, r
<1>4. /\ k = "SCEP" => \A m \in {g.scep_req, g.scep_req_next} \ {None} : m.csr = g.csr
      /\ k # "SCEP" => CookieFor(k, a, g.cookie, books, Own(g, again))
  BY <1>1 DEF EntryIs, SameRequest, Own
<1>5. CASE r = s
  BY <1>1, <1>4, <1>5 DEF EntryIs, SameRequest
<1>6. CASE s = "NEED_CSR" /\ r = "HAVE_KEYINFO"
  BY <1>1, <1>4, <1>6 DEF EntryIs, SameRequest, Reached
<1>7. CASE s \notin {"NEED_CSR", "HAVE_KEYINFO"} /\ r = "HAVE_CSR"
  BY <1>1, <1>4, <1>7 DEF EntryIs, SameRequest, Reached
<1>8. QED
  BY <1>3, <1>5, <1>6, <1>7

\* A helper that is left behind has what the request had.
LEMMA LeftBehind ==
  ASSUME ProtocolInv, NEW x,
         entry.csr \in TheCsrs,
         kind # "SCEP" => Called(kind, agent, x.h, entry.cookie, entry.csr),
         kind = "SCEP" => MessagesAreFor(x.h, {entry.csr})
  PROVE  OrphanIs(kind, agent, x, requests)
<1>1. ASSUME kind # "SCEP"
      PROVE  Called(kind, agent, x.h, x.h.savedstate, entry.csr)
               /\ CookieFor(kind, agent, x.h.savedstate, requests, TheCsrs)
  <2>1. x.h.savedstate = entry.cookie
    <3>1. Called(kind, agent, x.h, entry.cookie, entry.csr)
      BY <1>1
    <3>2. QED
      BY <3>1 DEF Called
  <2>2. CookieFor(kind, agent, entry.cookie, requests, TheCsrs)
    BY <1>1, MoreCsrs DEF ProtocolInv, EntryIs
  <2>3. QED
    BY <1>1, <2>1, <2>2
<1>2. kind = "SCEP" => MessagesAreFor(x.h, TheCsrs)
  BY DEF MessagesAreFor
<1>3. QED
  BY <1>1, <1>2 DEF OrphanIs

\* The daemon goes away and comes back.
LEMMA CrashFor == NonceInv /\ ProtocolInv /\ Crash => ProtocolInv'
<1> SUFFICES ASSUME NonceInv, ProtocolInv, Crash PROVE ProtocolInv'
  OBVIOUS
<1>1. /\ helper' = None /\ entry' = To(entry, Reset(entry.state))
      /\ orphan' # None => helper # None /\ orphan' = helper
      /\ UNCHANGED <<kind, agent, requests, resubmits>>
  BY DEF Crash, Becomes, setup, server, users, NonceInv, EnrollTypeOK
<1>2. EntryIs(kind, agent, entry', requests, resubmits)
  BY <1>1, RestartLemma DEF NonceInv, EnrollTypeOK, ProtocolInv
<1>3. ASSUME orphan' # None PROVE OrphanIs(kind, agent, orphan', requests)
  <2>1. entry.csr \in TheCsrs /\ HelperIs(kind, agent, helper, entry, requests, resubmits)
    BY <1>1, <1>3 DEF ProtocolInv, HelperIs, EntryIs
  <2>2. QED
    BY <1>1, <1>3, <2>1, LeftBehind DEF HelperIs
<1>4. QED
  BY <1>1, <1>2, <1>3, BySteps DEF ProtocolInv

\* The daemon goes away after it has started a helper.
LEMMA CrashAfterStartFor == NonceInv /\ ProtocolInv /\ CrashAfterStart => ProtocolInv'
<1> SUFFICES ASSUME NonceInv, ProtocolInv, CrashAfterStart PROVE ProtocolInv'
  OBVIOUS
<1>1. /\ entry.state = "NEED_TO_SUBMIT" /\ entry' = To(entry, Reset(entry.state))
        /\ orphan' = cm_submit_e_start(entry)
      /\ UNCHANGED <<kind, agent, helper, requests, resubmits>>
  BY DEF CrashAfterStart, In, Becomes, setup, server, users, NonceInv, EnrollTypeOK
<1>2. EntryIs(kind, agent, entry', requests, resubmits) /\ helper = None
  BY <1>1, RestartLemma, OnlyWaiting DEF NonceInv, EnrollTypeOK, ProtocolInv
<1>3. OrphanIs(kind, agent, orphan', requests)
  <2>1. entry.csr \in TheCsrs /\ EntryIs(kind, agent, entry, requests, resubmits)
          /\ kind \in {"XML", "JSON", "SCEP"}
    BY <1>1 DEF ProtocolInv, EntryIs
  <2>2. /\ kind # "SCEP" => Called(kind, agent, orphan'.h, entry.cookie, entry.csr)
        /\ kind = "SCEP" => MessagesAreFor(orphan'.h, {entry.csr})
    BY <1>1, <2>1, StartedFor
  <2>3. QED
    BY <2>1, <2>2, LeftBehind
<1>4. QED
  BY <1>1, <1>2, <1>3, BySteps DEF ProtocolInv

\* Books that grow, and a helper for which all stays.
LEMMA BooksGrow ==
  ASSUME ProtocolInv, UNCHANGED <<kind, agent, entry, resubmits>>, IsBooks(requests'),
         After(requests, requests'),
         helper' # None => HelperIs(kind, agent, helper', entry, requests', resubmits),
           orphan' \in {orphan, None}
  PROVE  ProtocolInv'
<1>1. EntryIs(kind, agent, entry', requests', resubmits)
  BY AfterEntry DEF ProtocolInv
<1>2. orphan' # None => OrphanIs(kind, agent, orphan', requests')
  BY AfterOrphan DEF ProtocolInv
<1>3. QED
  BY <1>1, <1>2, BySteps DEF ProtocolInv

\* What a helper that talks is called with, and what it can hear.
LEMMA HelperServedFor ==
  ASSUME ProtocolInv, helper # None, NEW r \in Serve(helper.h), Reaches(helper.h, r)
  PROVE  /\ IsBooks(requests') /\ After(requests, requests')
         /\ ExitFor(kind, agent, Heard(helper.h, r.answer), requests', Own(entry, resubmits))
<1> DEFINE own == Own(entry, resubmits)
<1>1. /\ kind \in {"XML", "JSON", "SCEP"} /\ agent \in BOOLEAN /\ IsBooks(requests)
      /\ HelperIs(kind, agent, helper, entry, requests, resubmits)
           /\ EntryIs(kind, agent, entry, requests, resubmits)
  BY DEF ProtocolInv
<1>2. entry.csr \in TheCsrs /\ entry.csr \in own /\ own \in SUBSET TheCsrs
  BY <1>1 DEF HelperIs, EntryIs, Own
<1>3. r.books = requests' /\ Len(r.books) <= Len(Certs)
  BY DEF Reaches
<1> HIDE DEF own
<1>4. CASE kind = "SCEP"
  <2>1. MessagesAreFor(helper.h, own)
    BY <1>1, <1>2, <1>4 DEF HelperIs, MessagesAreFor
  <2>2. QED
    BY <1>1, <1>2, <1>3, <1>4, <2>1, ScepServedFor DEF own
<1>5. CASE kind # "SCEP"
  <2>1. Called(kind, agent, helper.h, entry.cookie, entry.csr)
          /\ CookieFor(kind, agent, entry.cookie, requests, own)
    BY <1>1, <1>5 DEF HelperIs, EntryIs, own
  <2>2. kind \in {"XML", "JSON"}
    BY <1>1, <1>5
  <2>3. QED
    BY <1>1, <1>2, <1>3, <2>1, <2>2, DogtagServedLemma DEF own
<1>6. QED
  BY <1>4, <1>5

\* A helper that is not answered says nothing of its request.
LEMMA HelperUnheard ==
  ASSUME ProtocolInv, helper # None, NEW books
  PROVE  ExitFor(kind, agent, Unheard(helper.h), books, Own(entry, resubmits))
<1>1. /\ kind \in {"XML", "JSON", "SCEP"} /\ agent \in BOOLEAN
      /\ kind # "SCEP" => \E cookie, csr : csr \in TheCsrs /\ Called(kind, agent, helper.h, cookie, csr)
  BY DEF ProtocolInv, HelperIs, EntryIs
<1>2. QED
  BY <1>1, UnheardLemma

\* A helper that has come to its end.
LEMMA HelperEnds ==
  ASSUME NonceInv, ProtocolInv, helper # None, NEW exit, NEW books,
         ExitFor(kind, agent, exit, books, Own(entry, resubmits))
  PROVE  HelperIs(kind, agent, [helper EXCEPT !.exit = exit], entry, books, resubmits)
<1> DEFINE y == [helper EXCEPT !.exit = exit]
<1>1. IsHelper(helper) /\ HelperIs(kind, agent, helper, entry, requests, resubmits)
  BY DEF NonceInv, EnrollTypeOK, ProtocolInv
<1>2. y.h = helper.h /\ y.exit = exit
  BY <1>1, ExitLemma
<1> HIDE DEF y
<1>3. HelperIs(kind, agent, y, entry, books, resubmits)
  BY <1>1, <1>2 DEF HelperIs
<1>4. QED
  BY <1>3 DEF y

\* The helper is answered, or its request or the answer is lost.
LEMMA ExchangeFor == NonceInv /\ ProtocolInv /\ (Exchange \/ LoseAnswer) => ProtocolInv'
<1> SUFFICES ASSUME NonceInv, ProtocolInv, Exchange \/ LoseAnswer PROVE ProtocolInv'
  OBVIOUS
<1>1. /\ helper # None /\ UNCHANGED <<kind, agent, entry, resubmits, orphan>>
      /\ \E r \in Serve(helper.h) :
           /\ Reaches(helper.h, r)
           /\ \E exit \in {Heard(helper.h, r.answer), Unheard(helper.h)} :
                helper' = [helper EXCEPT !.exit = exit]
  BY DEF Exchange, LoseAnswer, Talking, setup, users
<1>2. PICK r \in Serve(helper.h) :
           /\ Reaches(helper.h, r)
           /\ \E exit \in {Heard(helper.h, r.answer), Unheard(helper.h)} :
                helper' = [helper EXCEPT !.exit = exit]
  BY <1>1
<1>3. PICK exit \in {Heard(helper.h, r.answer), Unheard(helper.h)} : helper' = [helper EXCEPT !.exit = exit]
  BY <1>2
<1>4. IsBooks(requests') /\ After(requests, requests')
        /\ ExitFor(kind, agent, exit, requests', Own(entry, resubmits))
  <2>1. /\ IsBooks(requests') /\ After(requests, requests')
        /\ ExitFor(kind, agent, Heard(helper.h, r.answer), requests', Own(entry, resubmits))
    BY <1>1, <1>2, HelperServedFor
  <2>2. ExitFor(kind, agent, Unheard(helper.h), requests', Own(entry, resubmits))
    BY <1>1, HelperUnheard
  <2>3. QED
    BY <1>3, <2>1, <2>2
<1>5. HelperIs(kind, agent, helper', entry, requests', resubmits)
  BY <1>1, <1>3, <1>4, HelperEnds
<1>6. QED
  BY <1>1, <1>4, <1>5, BooksGrow

\* The helper's request is lost.
LEMMA LoseRequestFor == NonceInv /\ ProtocolInv /\ LoseRequest => ProtocolInv'
<1> SUFFICES ASSUME NonceInv, ProtocolInv, LoseRequest PROVE ProtocolInv'
  OBVIOUS
<1>1. /\ helper # None /\ helper' = [helper EXCEPT !.exit = Unheard(helper.h)]
      /\ UNCHANGED <<kind, agent, entry, resubmits, orphan, requests>>
  BY DEF LoseRequest, Talking, setup, users, server
<1>2. IsBooks(requests') /\ After(requests, requests')
  BY <1>1, BooksLemma DEF ProtocolInv
<1>3. HelperIs(kind, agent, helper', entry, requests', resubmits)
  BY <1>1, HelperUnheard, HelperEnds
<1>4. QED
  BY <1>1, <1>2, <1>3, BooksGrow

\* The helper that was left behind is served as well.
LEMMA OrphanFor == NonceInv /\ ProtocolInv /\ OrphanExchanges => ProtocolInv'
<1> SUFFICES ASSUME NonceInv, ProtocolInv, OrphanExchanges PROVE ProtocolInv'
  OBVIOUS
<1>1. /\ orphan # None /\ orphan' = None /\ UNCHANGED <<kind, agent, entry, resubmits, helper>>
      /\ \E r \in Serve(orphan.h) : Reaches(orphan.h, r)
  BY DEF OrphanExchanges, setup, users
<1>2. PICK r \in Serve(orphan.h) : Reaches(orphan.h, r)
  BY <1>1
<1>3. /\ kind \in {"XML", "JSON", "SCEP"} /\ agent \in BOOLEAN /\ IsBooks(requests)
      /\ OrphanIs(kind, agent, orphan, requests) /\ requests' = r.books /\ Len(r.books) <= Len(Certs)
  BY <1>1, <1>2 DEF ProtocolInv, Reaches
<1>4. IsBooks(requests') /\ After(requests, requests')
  <2>1. CASE kind = "SCEP"
    <3>1. MessagesAreFor(orphan.h, TheCsrs)
      BY <2>1, <1>3 DEF OrphanIs
    <3>2. QED
      BY <2>1, <1>3, <3>1, ScepServedFor
  <2>2. CASE kind # "SCEP"
    <3>1. PICK csr \in TheCsrs : /\ Called(kind, agent, orphan.h, orphan.h.savedstate, csr)
                                 /\ CookieFor(kind, agent, orphan.h.savedstate, requests, TheCsrs)
      BY <2>2, <1>3 DEF OrphanIs
    <3>2. kind \in {"XML", "JSON"}
      BY <2>2, <1>3
    <3>3. QED
      BY <1>3, <3>1, <3>2, DogtagServedLemma
  <2>3. QED
    BY <2>1, <2>2
<1>5. helper' # None => HelperIs(kind, agent, helper', entry, requests', resubmits)
  BY <1>1, <1>4, AfterHelper DEF ProtocolInv
<1>6. QED
  BY <1>1, <1>4, <1>5, BooksGrow

\* The CA decides, on what was pending.
LEMMA DecideFor == ProtocolInv /\ Decide => ProtocolInv'
<1> SUFFICES ASSUME ProtocolInv, Decide PROVE ProtocolInv'
  OBVIOUS
<1>1. UNCHANGED <<kind, agent, entry, resubmits, helper, orphan>>
  BY DEF Decide, setup, users
<1>2. IsBooks(requests') /\ After(requests, requests')
  BY BooksLemma DEF Decide, ProtocolInv
<1>3. helper' # None => HelperIs(kind, agent, helper', entry, requests', resubmits)
  BY <1>1, <1>2, AfterHelper DEF ProtocolInv
<1>4. QED
  BY <1>1, <1>2, <1>3, BooksGrow

\* Every step keeps the invariant.
LEMMA ProtocolStep == NonceInv /\ ProtocolInv /\ [Next]_vars => ProtocolInv'
<1>1. CASE Next
  BY <1>1, GenerateCSRFor, GenerateSCEPFor, SubmitFor, SubmittingFor, ProceedFor, RenewFor, ResubmitFor,
     CrashFor, CrashAfterStartFor, ExchangeFor, LoseRequestFor, OrphanFor, DecideFor DEF Next
<1>2. CASE UNCHANGED vars
  BY <1>2 DEF vars, ProtocolInv
<1>3. QED
  BY <1>1, <1>2

-----------------------------------------------------------------------------
(***************************************************************************)
(* How often the CA is asked, by counting.                                 *)
(***************************************************************************)
\* How often the CA was asked for a signing request, and who can still ask for it:
\* the request, which comes to the later ones as well, and a helper left behind.
Times(books, csr) == Cardinality({j \in DOMAIN books : books[j].csr = csr})
Before == {"HAVE_CSR", "HAVE_SCEP_DATA", "NEED_TO_SUBMIT", "CA_WORKING", "CA_UNREACHABLE"}
Later(e, csr) == e.csr = None \/ IndexOf(Csrs, e.csr) < IndexOf(Csrs, csr)
May(e, x) ==
  /\ e.cookie = None
  /\ \/ e.state \in Before
     \/ e.state = "SUBMITTING" /\ x # None /\ (x.exit = None \/ x.exit.status = "UNREACHABLE")
MayAsk(e, x, csr) == Later(e, csr) \/ (e.csr = csr /\ May(e, x))
Asks(x, csr) == x # None /\ x.h.savedstate = None /\ x.h.csr = <<csr>>

AskedFor(csr) ==
  Times(requests, csr) + Count(MayAsk(entry, helper, csr)) + Count(Asks(orphan, csr)) <= 1 + unheard + crashes
CountInv ==
  /\ unheard \in Nat /\ crashes \in Nat
  /\ kind # "SCEP" => \A csr \in TheCsrs : AskedFor(csr)
  /\ kind = "SCEP" => \A i, j \in DOMAIN requests : requests[i].csr = requests[j].csr => i = j

\* Books in which nothing was added.
SameBooks(old, new) == DOMAIN new = DOMAIN old /\ \A i \in DOMAIN old : new[i].csr = old[i].csr

\* What is counted is finite.
LEMMA TimesLemma ==
  ASSUME NEW books, IsBooks(books), NEW csr
  PROVE  Times(books, csr) \in Nat /\ IsFiniteSet({j \in DOMAIN books : books[j].csr = csr})
<1> DEFINE S == {j \in DOMAIN books : books[j].csr = csr}
           R == [csr : TheCsrs, status : Statuses]
<1>1. books \in Seq(R)
  BY DEF IsBooks
<1> HIDE DEF R
<1>2. DOMAIN books = 1..Len(books) /\ Len(books) \in Nat
  BY <1>1, LenProperties
<1>3. IsFiniteSet(1..Len(books))
  BY <1>2, FS_Interval
<1>4. S \subseteq 1..Len(books)
  BY <1>2
<1> HIDE DEF S
<1>5. IsFiniteSet(S)
  BY <1>3, <1>4, FS_Subset
<1>6. Cardinality(S) \in Nat
  BY <1>5, FS_CardinalityType
<1>7. QED
  BY <1>5, <1>6 DEF S, Times

\* Nothing is counted anew.
LEMMA SameTimes ==
  ASSUME NEW old, NEW new, SameBooks(old, new), NEW csr
  PROVE  Times(new, csr) = Times(old, csr)
<1>1. {j \in DOMAIN new : new[j].csr = csr} = {j \in DOMAIN old : old[j].csr = csr}
  BY DEF SameBooks
<1>2. QED
  BY <1>1 DEF Times

\* A new entry in the books is counted once, for its signing request.
LEMMA BookTimes ==
  ASSUME IsBooks(requests), NEW csr \in TheCsrs, NEW s \in {"pending", "complete"},
         Len(Book(csr, s)) <= Len(Certs), NEW c
  PROVE  Times(Book(csr, s), c) = Times(requests, c) + Count(c = csr)
<1> DEFINE b == Book(csr, s)  n == Len(requests) + 1
           S == {j \in DOMAIN requests : requests[j].csr = c}
           T == {j \in DOMAIN b : b[j].csr = c}
           R == [csr : TheCsrs, status : Statuses]
<1>1. /\ Len(b) = n /\ b[n] = [csr |-> csr, status |-> s]
      /\ \A i \in DOMAIN requests : i \in DOMAIN b /\ b[i] = requests[i]
      /\ IsBooks(b)
  BY BookLemma
<1>2. requests \in Seq(R) /\ b \in Seq(R)
  BY <1>1 DEF IsBooks
<1> HIDE DEF R, b
<1>3. DOMAIN requests = 1..Len(requests) /\ DOMAIN b = 1..n /\ Len(requests) \in Nat
  BY <1>1, <1>2, LenProperties
<1>4. DOMAIN b = DOMAIN requests \cup {n} /\ n \notin DOMAIN requests
  BY <1>3
<1>5. b[n].csr = csr
  BY <1>1
<1>6. IsFiniteSet(S) /\ Cardinality(S) \in Nat
  BY TimesLemma DEF Times
<1>7. CASE c = csr
  <2>1. T = S \cup {n} /\ n \notin S
    BY <1>1, <1>4, <1>5, <1>7
  <2> HIDE DEF S, T
  <2>2. Cardinality(T) = Cardinality(S) + 1
    BY <2>1, <1>6, FS_AddElement
  <2>3. QED
    BY <2>2, <1>7 DEF S, T, Times, Count, b
<1>8. CASE c # csr
  <2>1. T = S
    BY <1>1, <1>4, <1>5, <1>8
  <2>2. Times(b, c) = Cardinality(T) /\ Times(requests, c) = Cardinality(S)
    BY DEF Times
  <2> HIDE DEF S, T
  <2>3. Count(c = csr) = 0
    BY <1>8 DEF Count
  <2>4. QED
    BY <2>1, <2>2, <2>3, <1>6 DEF b
<1>9. QED
  BY <1>7, <1>8

\* What the daemon's helper does to the books.
LEMMA DogtagCounts ==
  ASSUME kind \in {"XML", "JSON"}, agent \in BOOLEAN, IsBooks(requests), NEW h, NEW cookie, NEW csr \in TheCsrs,
         Called(kind, agent, h, cookie, csr), NEW csrs, CookieFor(kind, agent, cookie, requests, csrs),
         NEW r \in Serve(h), Len(r.books) <= Len(Certs)
  PROVE  /\ cookie = None => /\ \E s \in {"pending", "complete"} : r.books = Book(csr, s)
                             /\ Heard(h, r.answer) # None /\ Heard(h, r.answer).status # "UNREACHABLE"
         /\ cookie # None => SameBooks(requests, r.books) /\ Len(r.books) = Len(requests)
<1>1. ASSUME cookie = None
      PROVE  /\ \E s \in {"pending", "complete"} : r.books = Book(csr, s)
             /\ Heard(h, r.answer) # None /\ Heard(h, r.answer).status # "UNREACHABLE"
  <2>1. PICK s \in {"pending", "complete"} :
           r.books = Book(csr, s) /\ SubmitSays(kind, agent, Heard(h, r.answer), Len(requests) + 1, r.books)
    <3>1. CASE kind = "XML"
      BY <1>1, <3>1, XmlSubmittedLemma
    <3>2. CASE kind = "JSON"
      BY <1>1, <3>2, JsonSubmittedLemma
    <3>3. QED
      BY <3>1, <3>2
  <2>2. QED
    BY <2>1 DEF SubmitSays, SaysOf
<1>2. ASSUME cookie # None PROVE SameBooks(requests, r.books) /\ Len(r.books) = Len(requests)
  <2>1. PICK i \in DOMAIN requests : Numbered(kind, agent, cookie, i, requests)
    BY <1>2 DEF CookieFor
  <2>2. Served(i, r.books)
    <3>1. CASE kind = "XML"
      BY <2>1, <1>2, <3>1, XmlPolledLemma
    <3>2. CASE kind = "JSON"
      BY <2>1, <1>2, <3>2, JsonPolledLemma
    <3>3. QED
      BY <3>1, <3>2
  <2>3. CASE r.books = requests
    BY <2>3 DEF SameBooks
  <2>4. CASE r.books = Complete(i)
    <3> DEFINE b == [requests EXCEPT ![i].status = "complete"]
    <3>1. Len(b) = Len(requests) /\ DOMAIN b = DOMAIN requests /\ b[i].csr = requests[i].csr
          /\ \A j \in DOMAIN requests \ {i} : b[j] = requests[j]
      BY CompleteLemma DEF Statuses
    <3>2. r.books = b
      BY <2>4 DEF Complete
    <3> HIDE DEF b
    <3>3. QED
      BY <3>1, <3>2 DEF SameBooks
  <2>5. QED
    BY <2>2, <2>3, <2>4 DEF Served
<1>3. QED
  BY <1>1, <1>2

\* The SCEP server has one entry for each signing request.
LEMMA ScepCounts ==
  ASSUME kind = "SCEP", IsBooks(requests), NEW h, MessagesAreFor(h, TheCsrs),
         NEW r \in Serve(h), Len(r.books) <= Len(Certs),
         \A i, j \in DOMAIN requests : requests[i].csr = requests[j].csr => i = j
  PROVE  \A i, j \in DOMAIN r.books : r.books[i].csr = r.books[j].csr => i = j
<1>1. CASE CannotRequest(h) # None
  BY <1>1 DEF Serve
<1>2. CASE CannotRequest(h) = None
  <2> DEFINE m == MessageToSend(h, Caps)
             known == {i \in DOMAIN requests : requests[i].csr = m.csr}
             books == IF known # {} THEN {requests} ELSE {Book(m.csr, s) : s \in {"pending", "complete"}}
  <2>1. m.csr \in TheCsrs
    BY <1>2, MessageLemma DEF MessagesAreFor
  <2>2. r \in ScepServe(m)
    BY <1>2 DEF Serve, Caps
  <2> HIDE DEF m
  <2>3. PICK b \in books : r = [books |-> b,
               answer |-> ScepReply(m, IndexOf([i \in DOMAIN b |-> b[i].csr], m.csr), b)]
    BY <2>2 DEF ScepServe
  <2>4. r.books = b
    BY <2>3
  <2>5. CASE known # {}
    BY <2>4, <2>5
  <2>6. CASE known = {}
    <3>1. PICK s \in {"pending", "complete"} : r.books = Book(m.csr, s)
      BY <2>4, <2>6
    <3> DEFINE n == Len(requests) + 1  c == r.books
    <3>2. /\ Len(c) = n /\ c[n] = [csr |-> m.csr, status |-> s] /\ IsBooks(c)
          /\ \A i \in DOMAIN requests : c[i] = requests[i]
      <4>1. Len(Book(m.csr, s)) <= Len(Certs)
        BY <3>1
      <4>2. LET w == Book(m.csr, s) IN
            /\ Len(w) = n /\ w[n] = [csr |-> m.csr, status |-> s] /\ IsBooks(w)
            /\ \A i \in DOMAIN requests : w[i] = requests[i]
        BY <2>1, <4>1, BookLemma
      <4>3. QED
        BY <3>1, <4>2
    <3>3. DOMAIN c = DOMAIN requests \cup {n}
      <4> DEFINE R == [csr : TheCsrs, status : Statuses]
      <4>1. requests \in Seq(R) /\ c \in Seq(R)
        BY <3>2 DEF IsBooks
      <4> HIDE DEF R, c
      <4>2. DOMAIN requests = 1..Len(requests) /\ DOMAIN c = 1..n /\ Len(requests) \in Nat
        BY <3>2, <4>1, LenProperties
      <4>3. QED
        BY <4>2
    <3>4. \A i \in DOMAIN requests : requests[i].csr # m.csr
      BY <2>6
    <3> HIDE DEF c, n
    <3>5. c[n].csr = m.csr
      BY <3>2
    <3>6. \A i, j \in DOMAIN c : c[i].csr = c[j].csr => i = j
      BY <3>2, <3>3, <3>4, <3>5
    <3>7. QED
      BY <3>6 DEF c
  <2>7. QED
    BY <2>5, <2>6
<1>3. QED
  BY <1>1, <1>2

\* At first the CA was asked for nothing.
LEMMA CountInitLemma == Init => CountInv
<1> SUFFICES ASSUME Init PROVE CountInv
  OBVIOUS
<1>1. requests = <<>> /\ orphan = None /\ unheard = 0 /\ crashes = 0
  BY DEF Init
<1>2. ASSUME NEW csr PROVE Times(requests, csr) = 0
  <2>1. {j \in DOMAIN requests : requests[j].csr = csr} = {}
    BY <1>1
  <2>2. QED
    BY <2>1, FS_EmptySet DEF Times
<1>3. ASSUME NEW csr PROVE AskedFor(csr)
  BY <1>1, <1>2 DEF AskedFor, Asks, Count
<1>4. QED
  BY <1>1, <1>3 DEF CountInv

\* A step that asks for nothing, and after which no more can be asked for.
LEMMA AsksNothing ==
  ASSUME CountInv, IsBooks(requests), SameBooks(requests, requests'), UNCHANGED <<kind, unheard, crashes>>,
         kind # "SCEP" => \A csr \in TheCsrs : /\ MayAsk(entry', helper', csr) => MayAsk(entry, helper, csr)
                                               /\ Asks(orphan', csr) => Asks(orphan, csr)
  PROVE  CountInv'
<1>1. unheard \in Nat /\ crashes \in Nat
  BY DEF CountInv
<1>2. ASSUME kind # "SCEP", NEW csr \in TheCsrs PROVE AskedFor(csr)'
  <2>1. AskedFor(csr) /\ Times(requests', csr) = Times(requests, csr) /\ Times(requests, csr) \in Nat
    BY <1>2, SameTimes, TimesLemma DEF CountInv
  <2>2. /\ Count(MayAsk(entry', helper', csr)) <= Count(MayAsk(entry, helper, csr))
        /\ Count(MayAsk(entry', helper', csr)) \in 0..1 /\ Count(MayAsk(entry, helper, csr)) \in 0..1
    BY <1>2 DEF Count
  <2>3. /\ Count(Asks(orphan', csr)) <= Count(Asks(orphan, csr))
        /\ Count(Asks(orphan', csr)) \in 0..1 /\ Count(Asks(orphan, csr)) \in 0..1
    BY <1>2 DEF Count
  <2>4. QED
    BY <1>1, <2>1, <2>2, <2>3 DEF AskedFor
<1>3. kind = "SCEP" => \A i, j \in DOMAIN requests' : requests'[i].csr = requests'[j].csr => i = j
  BY DEF CountInv, SameBooks
<1>4. QED
  BY <1>1, <1>2, <1>3 DEF CountInv

\* The same with the same signing request, books and helper left behind.
LEMMA AsksNoMore ==
  ASSUME ProtocolInv, CountInv, UNCHANGED <<kind, requests, unheard, crashes, orphan>>,
         entry'.csr = entry.csr, kind # "SCEP" /\ May(entry', helper') => May(entry, helper)
  PROVE  CountInv'
<1>1. IsBooks(requests) /\ SameBooks(requests, requests')
  BY DEF ProtocolInv, SameBooks
<1>2. ASSUME kind # "SCEP", NEW csr \in TheCsrs, MayAsk(entry', helper', csr) PROVE MayAsk(entry, helper, csr)
  BY <1>2 DEF MayAsk, Later
<1>3. QED
  BY <1>1, <1>2, AsksNothing

\* No signing request is nothing, and each has its place.
LEMMA CsrLemma ==
  ASSUME NEW csr \in TheCsrs
  PROVE  csr # None /\ IndexOf(Csrs, csr) \in 1..Len(Csrs) /\ Csrs[IndexOf(Csrs, csr)] = csr
<1>1. csr # None
  BY NamesAssumption DEF TheCsrs
<1>2. PICK i \in DOMAIN Csrs : csr = Csrs[i]
  BY DEF TheCsrs, Range
<1>3. IndexOf(Csrs, csr) \in DOMAIN Csrs /\ Csrs[IndexOf(Csrs, csr)] = csr
  BY <1>2, IndexLemma
<1>4. DOMAIN Csrs = 1..Len(Csrs)
  BY EnrollmentAssumption, LenProperties
<1>5. QED
  BY <1>1, <1>3, <1>4

\* GENERATING_CSR: the next signing request is one of the later ones.
LEMMA GenerateCSRCounts == NonceInv /\ ProtocolInv /\ CountInv /\ GenerateCSR => CountInv'
<1> SUFFICES ASSUME NonceInv, ProtocolInv, CountInv, GenerateCSR PROVE CountInv'
  OBVIOUS
<1> DEFINE v == IF entry.csr = None THEN 1 ELSE 1 + IndexOf(Csrs, entry.csr)
<1>1. /\ entry.state \in {"NEED_CSR", "HAVE_KEYINFO"} /\ v <= Len(Csrs)
      /\ entry' = [To(entry, "HAVE_CSR") EXCEPT !.csr = Csrs[v], !.scep_tx = "t", !.scep_nonce = None,
                   !.scep_last_nonce = None, !.scep_req = None, !.scep_gic = None,
                   !.scep_req_next = None, !.scep_gic_next = None]
      /\ UNCHANGED <<kind, helper, orphan, requests, unheard, crashes>>
  BY DEF GenerateCSR, In, Becomes, setup, server, faults
<1>2. IsEntry(entry) /\ EntryIs(kind, agent, entry, requests, resubmits)
  BY <1>1 DEF NonceInv, EnrollTypeOK, ProtocolInv
<1>3. entry.csr \in TheCsrs \cup {None}
  BY <1>2 DEF EntryIs
<1>4. Csrs \in Seq(STRING) /\ Len(Csrs) \in Nat /\ DOMAIN Csrs = 1..Len(Csrs) /\ IsInjective(Csrs)
  BY EnrollmentAssumption, NamesAssumption, LenProperties
<1>5. v \in 1..Len(Csrs) /\ (entry.csr # None => v = 1 + IndexOf(Csrs, entry.csr)
        /\ IndexOf(Csrs, entry.csr) \in Nat)
  <2>1. CASE entry.csr = None
    BY <2>1, <1>1, <1>4
  <2>2. CASE entry.csr # None
    <3>1. IndexOf(Csrs, entry.csr) \in 1..Len(Csrs)
      BY <2>2, <1>3, CsrLemma
    <3>2. QED
      BY <2>2, <3>1, <1>1, <1>4
  <2>3. QED
    BY <2>1, <2>2
<1> HIDE DEF v
<1>6. entry'.csr = Csrs[v]
  BY <1>1, <1>2, NewCsrLemma
<1>7. Csrs[v] \in TheCsrs
  BY <1>4, <1>5 DEF TheCsrs, Range
<1>8. Csrs[v] # None /\ IndexOf(Csrs, Csrs[v]) = v
  BY <1>4, <1>5, <1>7, CsrLemma DEF IsInjective
<1>9. ASSUME NEW csr \in TheCsrs, MayAsk(entry', helper', csr) PROVE MayAsk(entry, helper, csr)
  <2>1. IndexOf(Csrs, csr) \in Nat
    BY CsrLemma
  <2>2. v <= IndexOf(Csrs, csr)
    <3>1. Later(entry', csr) => v < IndexOf(Csrs, csr)
      BY <1>6, <1>8 DEF Later
    <3>2. entry'.csr = csr => IndexOf(Csrs, csr) = v
      BY <1>6, <1>8
    <3>3. QED
      BY <1>5, <1>9, <2>1, <3>1, <3>2 DEF MayAsk
  <2>3. Later(entry, csr)
    BY <1>5, <2>1, <2>2 DEF Later
  <2>4. QED
    BY <2>3 DEF MayAsk
<1>10. IsBooks(requests) /\ SameBooks(requests, requests')
  BY <1>1 DEF ProtocolInv, SameBooks
<1>11. QED
  BY <1>1, <1>9, <1>10, AsksNothing

\* The steps of the daemon, and those of the user, ask for no more.
LEMMA DaemonCounts ==
  NonceInv /\ ProtocolInv /\ CountInv
    /\ (GenerateSCEP \/ NEED_TO_SUBMIT \/ SUBMITTING \/ Proceed \/ Renew \/ Resubmit) => CountInv'
<1> SUFFICES ASSUME NonceInv, ProtocolInv, CountInv,
                    GenerateSCEP \/ NEED_TO_SUBMIT \/ SUBMITTING \/ Proceed \/ Renew \/ Resubmit
             PROVE  CountInv'
  OBVIOUS
<1>1. UNCHANGED <<kind, requests, unheard, crashes, orphan>>
  BY DEF GenerateSCEP, NEED_TO_SUBMIT, SUBMITTING, Proceed, Renew, Resubmit, setup, server, faults
<1>2. IsEntry(entry) /\ EntryIs(kind, agent, entry, requests, resubmits)
  BY DEF NonceInv, EnrollTypeOK, ProtocolInv
<1>3. CASE GenerateSCEP
  <2>1. kind = "SCEP"
    BY <1>2, <1>3 DEF GenerateSCEP, In, EntryIs
  <2>2. IsBooks(requests) /\ SameBooks(requests, requests')
    BY <1>1 DEF ProtocolInv, SameBooks
  <2>3. QED
    BY <1>1, <2>1, <2>2, AsksNothing
<1>4. CASE NEED_TO_SUBMIT
  <2>1. entry.state = "NEED_TO_SUBMIT" /\ entry' = Submitted(entry)
    BY <1>4 DEF NEED_TO_SUBMIT, In, Becomes
  <2>2. entry'.csr = entry.csr /\ entry'.cookie = entry.cookie
    <3>1. SubmittedFields(Submitted(entry), entry)
      BY <1>2, SubmittedFieldsLemma
    <3>2. QED
      BY <2>1, <3>1 DEF SubmittedFields
  <2>3. May(entry', helper') => May(entry, helper)
    BY <2>1, <2>2 DEF May, Before
  <2>4. QED
    BY <1>1, <2>2, <2>3, AsksNoMore
<1>5. CASE SUBMITTING
  <2> DEFINE exit == helper.exit  read == Read(exit)
  <2>1. /\ entry.state = "SUBMITTING" /\ helper # None /\ exit # None /\ helper' = None
        /\ entry' = Outcome_(entry, read)
    BY <1>5 DEF SUBMITTING, In, Becomes
  <2>2. ExitFor(kind, agent, exit, requests, Own(entry, resubmits))
    BY <2>1 DEF ProtocolInv, HelperIs
  <2>3. read.status = exit.status /\ read.cookie = exit.cookie
    BY <2>2, ReadLemma
  <2> HIDE DEF read, exit
  <2>4. OutcomeIs(entry', entry, read)
    BY <1>2, <2>1, OutcomeIsLemma
  <2>5. kind # "SCEP" /\ May(entry', helper') => May(entry, helper)
    <3>1. SUFFICES ASSUME kind # "SCEP", May(entry', helper') PROVE May(entry, helper)
      OBVIOUS
    <3>2. read.status = "UNREACHABLE" /\ entry'.cookie = entry.cookie
      BY <2>1, <2>4, <3>1 DEF OutcomeIs, May, Before
    <3>3. helper.exit.status = "UNREACHABLE"
      BY <2>3, <3>2 DEF exit
    <3>4. QED
      BY <2>1, <3>1, <3>2, <3>3 DEF May
  <2>6. QED
    BY <1>1, <2>4, <2>5, AsksNoMore DEF OutcomeIs
<1>6. CASE Proceed
  <2>1. /\ entry.state \in {"HAVE_CSR", "HAVE_SCEP_DATA", "CA_WORKING", "CA_UNREACHABLE",
                            "NEED_TO_NOTIFY_REJECTION", "NEED_TO_SAVE_CERT"}
        /\ entry' = Moves(entry)
    BY <1>6 DEF Proceed, In, Becomes
  <2>2. /\ entry'.csr = entry.csr /\ entry'.cookie = entry.cookie
        /\ entry'.state \in {"NEED_TO_SUBMIT", "CA_REJECTED", "MONITORING"}
        /\ entry'.state = "NEED_TO_SUBMIT"
             => entry.state \notin {"NEED_TO_NOTIFY_REJECTION", "NEED_TO_SAVE_CERT"}
    BY <1>2, <2>1, MovesFields
  <2>3. May(entry', helper') => May(entry, helper)
    BY <2>1, <2>2 DEF May, Before
  <2>4. QED
    BY <1>1, <2>2, <2>3, AsksNoMore
<1>7. CASE Renew \/ Resubmit
  <2>1. entry' = To(entry, "NEED_CSR")
    BY <1>7 DEF Renew, Resubmit, Becomes
  <2>2. entry'.csr = entry.csr /\ entry'.state = "NEED_CSR"
    BY <1>2, <2>1, SameRequestLemma DEF SameRequest
  <2>3. ~May(entry', helper')
    BY <2>2 DEF May, Before
  <2>4. QED
    BY <1>1, <2>2, <2>3, AsksNoMore
<1>8. QED
  BY <1>3, <1>4, <1>5, <1>6, <1>7

\* A request that is lost is not asked, and the CA's decisions ask for nothing.
LEMMA QuietCounts == NonceInv /\ ProtocolInv /\ CountInv /\ (LoseRequest \/ Decide) => CountInv'
<1> SUFFICES ASSUME NonceInv, ProtocolInv, CountInv, LoseRequest \/ Decide PROVE CountInv'
  OBVIOUS
<1>1. CASE LoseRequest
  <2>1. /\ helper # None /\ helper.exit = None /\ helper' = [helper EXCEPT !.exit = Unheard(helper.h)]
        /\ UNCHANGED <<kind, entry, orphan, requests, unheard, crashes>>
    BY <1>1 DEF LoseRequest, Talking, setup, server
  <2>2. May(entry', helper') => May(entry, helper)
    BY <2>1 DEF May
  <2>3. QED
    BY <2>1, <2>2, AsksNoMore
<1>2. CASE Decide
  <2>1. /\ UNCHANGED <<kind, entry, helper, orphan, unheard, crashes>>
        /\ \E i \in DOMAIN requests, s \in {"complete", "rejected"} :
             requests' = [requests EXCEPT ![i].status = s]
    BY <1>2 DEF Decide, setup, faults
  <2>2. PICK i \in DOMAIN requests, s \in {"complete", "rejected"} :
               requests' = [requests EXCEPT ![i].status = s]
    BY <2>1
  <2>3. IsBooks(requests) /\ s \in Statuses
    BY DEF ProtocolInv, Statuses
  <2> DEFINE b == [requests EXCEPT ![i].status = s]
  <2>4. DOMAIN b = DOMAIN requests /\ b[i].csr = requests[i].csr
          /\ \A j \in DOMAIN requests \ {i} : b[j] = requests[j]
    BY <2>3, CompleteLemma
  <2>5. requests' = b
    BY <2>2
  <2> HIDE DEF b
  <2>6. SameBooks(requests, requests')
    BY <2>4, <2>5 DEF SameBooks
  <2>7. QED
    BY <2>1, <2>3, <2>6, AsksNothing
<1>3. QED
  BY <1>1, <1>2

\* With a crash, a helper that is left behind asks for what the request asks again.
LEMMA CrashAsks ==
  ASSUME CountInv, orphan = None, UNCHANGED <<kind, requests, unheard>>, crashes' = crashes + 1,
         IsBooks(requests),
         entry'.csr = entry.csr,
         kind # "SCEP" => \A csr \in TheCsrs : Asks(orphan', csr) => MayAsk(entry, helper, csr)
  PROVE  CountInv'
<1>1. unheard \in Nat /\ crashes \in Nat
  BY DEF CountInv
<1>2. ASSUME kind # "SCEP", NEW csr \in TheCsrs PROVE AskedFor(csr)'
  <2>1. AskedFor(csr) /\ Times(requests, csr) \in Nat
    BY <1>2, TimesLemma DEF CountInv
  <2>2. /\ Count(MayAsk(entry', helper', csr)) \in 0..1 /\ Count(MayAsk(entry, helper, csr)) \in 0..1
        /\ Count(Asks(orphan', csr)) <= Count(MayAsk(entry, helper, csr)) /\ Count(Asks(orphan', csr)) \in 0..1
        /\ Count(Asks(orphan, csr)) = 0
    BY <1>2 DEF Count, Asks
  <2>3. QED
    BY <1>1, <2>1, <2>2 DEF AskedFor
<1>3. unheard' \in Nat /\ crashes' \in Nat
        /\ (kind = "SCEP" => \A i, j \in DOMAIN requests : requests[i].csr = requests[j].csr => i = j)
  BY <1>1 DEF CountInv
<1>4. QED
  BY <1>2, <1>3 DEF CountInv

\* A helper that has a signing request has no other one.
LEMMA OneAsked ==
  ASSUME NEW k, NEW a, NEW h, NEW cookie, NEW csr, Called(k, a, h, cookie, csr)
  PROVE  h.savedstate = cookie /\ \A c : h.csr = <<c>> <=> c = csr
<1>1. h.savedstate = cookie /\ h.csr = <<csr>>
  BY DEF Called
<1>2. QED
  BY <1>1, WordsDiffer

\* With a crash no more can be asked for than that crash accounts for.
LEMMA CrashCounts == NonceInv /\ ProtocolInv /\ CountInv /\ (Crash \/ CrashAfterStart) => CountInv'
<1> SUFFICES ASSUME NonceInv, ProtocolInv, CountInv, Crash \/ CrashAfterStart PROVE CountInv'
  OBVIOUS
<1>1. /\ orphan = None /\ UNCHANGED <<kind, requests, unheard>> /\ crashes' = crashes + 1
      /\ entry' = To(entry, Reset(entry.state))
  BY DEF Crash, CrashAfterStart, Becomes, setup, server, NonceInv, EnrollTypeOK
<1>2. IsEntry(entry) /\ EntryIs(kind, agent, entry, requests, resubmits) /\ IsBooks(requests)
        /\ kind \in {"XML", "JSON", "SCEP"}
  BY DEF NonceInv, EnrollTypeOK, ProtocolInv
<1>3. entry'.csr = entry.csr
  BY <1>1, <1>2, SameRequestLemma DEF SameRequest
<1>4. ASSUME kind # "SCEP", NEW csr \in TheCsrs, Asks(orphan', csr) PROVE MayAsk(entry, helper, csr)
  <2>1. CASE Crash
    <3>1. helper # None /\ helper.exit = None /\ orphan' = helper
      BY <1>4, <2>1 DEF Crash, Asks
    <3>2. entry.state = "SUBMITTING" /\ Called(kind, agent, helper.h, entry.cookie, entry.csr)
      BY <1>4, <3>1 DEF ProtocolInv, HelperIs
    <3>3. entry.cookie = None /\ csr = entry.csr
      BY <1>4, <3>1, <3>2, OneAsked DEF Asks
    <3>4. QED
      BY <3>1, <3>2, <3>3 DEF MayAsk, May
  <2>2. CASE CrashAfterStart
    <3>1. entry.state = "NEED_TO_SUBMIT" /\ orphan' = cm_submit_e_start(entry)
      BY <2>2 DEF CrashAfterStart, In
    <3>2. Called(kind, agent, orphan'.h, entry.cookie, entry.csr)
      BY <1>2, <1>4, <3>1, StartedFor
    <3>3. entry.cookie = None /\ csr = entry.csr
      BY <1>4, <3>2, OneAsked DEF Asks
    <3>4. QED
      BY <3>1, <3>3 DEF MayAsk, May, Before
  <2>3. QED
    BY <2>1, <2>2
<1>5. QED
  BY <1>1, <1>2, <1>3, <1>4, CrashAsks

\* Books that grow get longer.
LEMMA Longer ==
  ASSUME NEW old, IsBooks(old), NEW new, IsBooks(new), After(old, new)
  PROVE  Len(new) - Len(old) \in Nat
<1> DEFINE R == [csr : TheCsrs, status : Statuses]
<1>1. old \in Seq(R) /\ new \in Seq(R)
  BY DEF IsBooks
<1> HIDE DEF R
<1>2. DOMAIN old = 1..Len(old) /\ DOMAIN new = 1..Len(new) /\ Len(old) \in Nat /\ Len(new) \in Nat
  BY <1>1, LenProperties
<1>3. Len(old) # 0 => Len(old) \in DOMAIN new
  BY <1>2 DEF After
<1>4. QED
  BY <1>2, <1>3

\* What the CA does for a helper of the daemon, in the books.
LEMMA HelperCounts ==
  ASSUME ProtocolInv, kind # "SCEP", helper # None, NEW r \in Serve(helper.h), Reaches(helper.h, r)
  PROVE  /\ entry.state = "SUBMITTING" /\ entry.csr \in TheCsrs
         /\ entry.cookie = None =>
              /\ \E s \in {"pending", "complete"} :
                   requests' = Book(entry.csr, s) /\ Len(Book(entry.csr, s)) <= Len(Certs)
              /\ Heard(helper.h, r.answer) # None /\ Heard(helper.h, r.answer).status # "UNREACHABLE"
         /\ entry.cookie # None => SameBooks(requests, requests') /\ Len(requests') = Len(requests)
<1>1. /\ kind \in {"XML", "JSON"} /\ agent \in BOOLEAN /\ IsBooks(requests)
      /\ HelperIs(kind, agent, helper, entry, requests, resubmits)
           /\ EntryIs(kind, agent, entry, requests, resubmits)
  BY DEF ProtocolInv
<1>2. entry.state = "SUBMITTING" /\ entry.csr \in TheCsrs
  BY <1>1 DEF HelperIs, EntryIs
<1>3. r.books = requests' /\ Len(r.books) <= Len(Certs)
  BY DEF Reaches
<1>4. Called(kind, agent, helper.h, entry.cookie, entry.csr)
      /\ CookieFor(kind, agent, entry.cookie, requests, Own(entry, resubmits))
  BY <1>1 DEF HelperIs, EntryIs
<1>5. /\ entry.cookie = None => /\ \E s \in {"pending", "complete"} : r.books = Book(entry.csr, s)
                                /\ Heard(helper.h, r.answer) # None
                                     /\ Heard(helper.h, r.answer).status # "UNREACHABLE"
      /\ entry.cookie # None => SameBooks(requests, r.books) /\ Len(r.books) = Len(requests)
  BY <1>1, <1>2, <1>3, <1>4, DogtagCounts
<1>6. QED
  BY <1>2, <1>3, <1>5

\* A helper is served: its answer comes, or it is lost, and that is counted.
LEMMA ExchangeCounts == NonceInv /\ ProtocolInv /\ CountInv /\ (Exchange \/ LoseAnswer) => CountInv'
<1> SUFFICES ASSUME NonceInv, ProtocolInv, CountInv, Exchange \/ LoseAnswer PROVE CountInv'
  OBVIOUS
<1>1. /\ helper # None /\ helper.exit = None /\ UNCHANGED <<kind, agent, entry, resubmits, orphan, crashes>>
      /\ \E r \in Serve(helper.h) :
           /\ Reaches(helper.h, r)
           /\ \/ helper' = [helper EXCEPT !.exit = Heard(helper.h, r.answer)] /\ unheard' = unheard
              \/ /\ helper' = [helper EXCEPT !.exit = Unheard(helper.h)]
                 /\ unheard' = unheard + (Len(r.books) - Len(requests))
  BY DEF Exchange, LoseAnswer, Talking, setup, users, faults
<1>2. PICK r \in Serve(helper.h) :
           /\ Reaches(helper.h, r)
           /\ \/ helper' = [helper EXCEPT !.exit = Heard(helper.h, r.answer)] /\ unheard' = unheard
              \/ /\ helper' = [helper EXCEPT !.exit = Unheard(helper.h)]
                 /\ unheard' = unheard + (Len(r.books) - Len(requests))
  BY <1>1
<1>3. requests' = r.books /\ Len(r.books) <= Len(Certs)
  BY <1>2 DEF Reaches
<1>4. IsBooks(requests) /\ IsBooks(requests') /\ After(requests, requests')
  BY <1>1, <1>2, HelperServedFor DEF ProtocolInv
<1>5. unheard \in Nat /\ crashes \in Nat /\ unheard' \in Nat /\ crashes' \in Nat
  <2>1. unheard \in Nat /\ crashes \in Nat
    BY DEF CountInv
  <2>2. Len(r.books) - Len(requests) \in Nat
    BY <1>3, <1>4, Longer
  <2>3. QED
    BY <1>1, <1>2, <2>1, <2>2
<1>6. CASE kind = "SCEP"
  <2>1. MessagesAreFor(helper.h, TheCsrs)
    <3>1. entry.csr \in TheCsrs /\ MessagesAreFor(helper.h, {entry.csr})
      BY <1>1, <1>6 DEF ProtocolInv, HelperIs, EntryIs
    <3>2. QED
      BY <3>1 DEF MessagesAreFor
  <2>2. \A i, j \in DOMAIN requests : requests[i].csr = requests[j].csr => i = j
    BY <1>6 DEF CountInv
  <2>3. \A i, j \in DOMAIN r.books : r.books[i].csr = r.books[j].csr => i = j
    BY <1>2, <1>3, <1>4, <1>6, <2>1, <2>2, ScepCounts
  <2>4. QED
    BY <1>1, <1>3, <1>5, <1>6, <2>3 DEF CountInv
<1>7. CASE kind # "SCEP" /\ entry.cookie # None
  <2>1. SameBooks(requests, requests') /\ Len(requests') = Len(requests)
    BY <1>1, <1>2, <1>7, HelperCounts
  <2>2. unheard' = unheard
    <3>1. Len(requests) \in Nat
      BY <1>4, LenProperties DEF IsBooks
    <3>2. QED
      BY <1>2, <1>3, <1>5, <2>1, <3>1
  <2>3. \A csr : MayAsk(entry', helper', csr) => MayAsk(entry, helper, csr)
    BY <1>1, <1>7 DEF MayAsk, May
  <2>4. QED
    BY <1>1, <1>4, <2>1, <2>2, <2>3, AsksNothing
<1>8. CASE kind # "SCEP" /\ entry.cookie = None
  <2>1. /\ entry.state = "SUBMITTING" /\ entry.csr \in TheCsrs
        /\ \E s \in {"pending", "complete"} :
             requests' = Book(entry.csr, s) /\ Len(Book(entry.csr, s)) <= Len(Certs)
        /\ Heard(helper.h, r.answer) # None /\ Heard(helper.h, r.answer).status # "UNREACHABLE"
    BY <1>1, <1>2, <1>8, HelperCounts
  <2>2. PICK s \in {"pending", "complete"} :
               requests' = Book(entry.csr, s) /\ Len(Book(entry.csr, s)) <= Len(Certs)
    BY <2>1
  <2>3. May(entry, helper)
    BY <1>1, <1>8, <2>1 DEF May
  <2>4. ~Later(entry, entry.csr)
    <3>1. entry.csr # None /\ IndexOf(Csrs, entry.csr) \in Nat
      BY <2>1, CsrLemma
    <3>2. QED
      BY <3>1 DEF Later
  <2>5. \/ ~May(entry', helper') /\ unheard' = unheard
        \/ unheard' = unheard + 1
    <3>1. CASE helper' = [helper EXCEPT !.exit = Heard(helper.h, r.answer)] /\ unheard' = unheard
      <4>1. helper'.exit = Heard(helper.h, r.answer)
        BY <1>1, <3>1, ExitLemma DEF NonceInv, EnrollTypeOK
      <4>2. ExitFor(kind, agent, Heard(helper.h, r.answer), requests', Own(entry, resubmits))
              /\ Heard(helper.h, r.answer) # None /\ Heard(helper.h, r.answer).status # "UNREACHABLE"
        BY <1>1, <1>2, <2>1, HelperServedFor
      <4>4. ~May(entry', helper')
        BY <1>1, <2>1, <4>1, <4>2 DEF May, Before
      <4>5. QED
        BY <3>1, <4>4
    <3>2. CASE unheard' = unheard + (Len(r.books) - Len(requests))
      <4>1. Len(Book(entry.csr, s)) = Len(requests) + 1
        BY <2>1, <2>2, <1>4, BookLemma
      <4>2. Len(requests) \in Nat
        BY <1>4, LenProperties DEF IsBooks
      <4>3. Len(r.books) - Len(requests) = 1
        BY <1>3, <2>2, <4>1, <4>2
      <4>4. QED
        BY <3>2, <4>3
    <3>3. QED
      BY <1>2, <3>1, <3>2
  <2>6. ASSUME NEW csr \in TheCsrs PROVE AskedFor(csr)'
    <3>1. AskedFor(csr) /\ Times(requests, csr) \in Nat
            /\ Times(requests', csr) = Times(requests, csr) + Count(csr = entry.csr)
      <4>1. AskedFor(csr) /\ Times(requests, csr) \in Nat
        BY <1>4, <1>8, TimesLemma DEF CountInv
      <4>2. Times(Book(entry.csr, s), csr) = Times(requests, csr) + Count(csr = entry.csr)
        BY <1>4, <2>1, <2>2, BookTimes
      <4>3. QED
        BY <2>2, <4>1, <4>2
    <3>2. /\ Count(MayAsk(entry, helper, csr)) \in 0..1 /\ Count(MayAsk(entry', helper', csr)) \in 0..1
          /\ Count(Asks(orphan', csr)) = Count(Asks(orphan, csr)) /\ Count(Asks(orphan, csr)) \in 0..1
          /\ Count(csr = entry.csr) = IF csr = entry.csr THEN 1 ELSE 0
      BY <1>1 DEF Count
    <3>3. CASE csr = entry.csr
      <4>1. Count(MayAsk(entry, helper, csr)) = 1
              /\ (~May(entry', helper') => Count(MayAsk(entry', helper', csr)) = 0)
        BY <1>1, <2>3, <2>4, <3>3 DEF MayAsk, Count
      <4>2. QED
        BY <1>1, <1>5, <2>5, <3>1, <3>2, <3>3, <4>1 DEF AskedFor
    <3>4. CASE csr # entry.csr
      <4>1. Count(MayAsk(entry', helper', csr)) = Count(MayAsk(entry, helper, csr))
        BY <1>1, <3>4 DEF MayAsk, Count
      <4>2. QED
        BY <1>1, <1>5, <2>5, <3>1, <3>2, <3>4, <4>1 DEF AskedFor
    <3>5. QED
      BY <3>3, <3>4
  <2>7. QED
    BY <1>1, <1>5, <1>8, <2>6 DEF CountInv
<1>9. QED
  BY <1>6, <1>7, <1>8

\* The helper that was left behind asks for what it has, and is gone.
LEMMA OrphanCounts == NonceInv /\ ProtocolInv /\ CountInv /\ OrphanExchanges => CountInv'
<1> SUFFICES ASSUME NonceInv, ProtocolInv, CountInv, OrphanExchanges PROVE CountInv'
  OBVIOUS
<1>1. /\ orphan # None /\ orphan' = None /\ UNCHANGED <<kind, agent, entry, helper, unheard, crashes>>
      /\ \E r \in Serve(orphan.h) : Reaches(orphan.h, r)
  BY DEF OrphanExchanges, setup, faults
<1>2. PICK r \in Serve(orphan.h) : Reaches(orphan.h, r)
  BY <1>1
<1>3. /\ kind \in {"XML", "JSON", "SCEP"} /\ agent \in BOOLEAN /\ IsBooks(requests)
      /\ OrphanIs(kind, agent, orphan, requests) /\ requests' = r.books /\ Len(r.books) <= Len(Certs)
      /\ unheard \in Nat /\ crashes \in Nat
  BY <1>1, <1>2 DEF ProtocolInv, Reaches, CountInv
<1>4. CASE kind = "SCEP"
  <2>1. MessagesAreFor(orphan.h, TheCsrs)
    BY <1>3, <1>4 DEF OrphanIs
  <2>2. \A i, j \in DOMAIN requests : requests[i].csr = requests[j].csr => i = j
    BY <1>4 DEF CountInv
  <2>3. \A i, j \in DOMAIN r.books : r.books[i].csr = r.books[j].csr => i = j
    BY <1>2, <1>3, <1>4, <2>1, <2>2, ScepCounts
  <2>4. QED
    BY <1>1, <1>3, <1>4, <2>3 DEF CountInv
<1>5. CASE kind # "SCEP"
  <2> DEFINE h == orphan.h
  <2>1. PICK csr \in TheCsrs :
               Called(kind, agent, h, h.savedstate, csr)
                 /\ CookieFor(kind, agent, h.savedstate, requests, TheCsrs)
    BY <1>3, <1>5 DEF OrphanIs
  <2>2. kind \in {"XML", "JSON"}
    BY <1>3, <1>5
  <2>3. /\ h.savedstate = None => \E s \in {"pending", "complete"} : requests' = Book(csr, s)
        /\ h.savedstate # None => SameBooks(requests, requests')
    BY <1>2, <1>3, <2>1, <2>2, DogtagCounts
  <2>4. CASE h.savedstate # None
    <3>1. \A c : Asks(orphan', c) => Asks(orphan, c)
      BY <1>1 DEF Asks
    <3>2. QED
      BY <1>1, <1>3, <2>3, <2>4, <3>1, AsksNothing
  <2>5. CASE h.savedstate = None
    <3>1. PICK s \in {"pending", "complete"} : requests' = Book(csr, s)
      BY <2>3, <2>5
    <3>2. \A c : Asks(orphan, c) <=> c = csr
      BY <1>1, <2>1, <2>5, OneAsked DEF Asks
    <3>3. ASSUME NEW c \in TheCsrs PROVE AskedFor(c)'
      <4>1. AskedFor(c) /\ Times(requests, c) \in Nat
        BY <1>3, <1>5, TimesLemma DEF CountInv
      <4>2. Times(Book(csr, s), c) = Times(requests, c) + Count(c = csr)
        BY <1>3, <3>1, BookTimes
      <4>3. Times(requests', c) = Times(requests, c) + Count(Asks(orphan, c))
        BY <3>1, <3>2, <4>2 DEF Count
      <4>4. /\ Count(Asks(orphan', c)) = 0 /\ Count(Asks(orphan, c)) \in 0..1
            /\ Count(MayAsk(entry', helper', c)) = Count(MayAsk(entry, helper, c))
                 /\ Count(MayAsk(entry, helper, c)) \in 0..1
        BY <1>1 DEF Count, Asks
      <4>5. QED
        BY <1>1, <1>3, <4>1, <4>3, <4>4 DEF AskedFor
    <3>4. QED
      BY <1>1, <1>3, <1>5, <3>3 DEF CountInv
  <2>6. QED
    BY <2>4, <2>5
<1>6. QED
  BY <1>4, <1>5

\* Every step keeps the account.
LEMMA CountStep == NonceInv /\ ProtocolInv /\ CountInv /\ [Next]_vars => CountInv'
<1>1. CASE Next
  BY <1>1, GenerateCSRCounts, DaemonCounts, CrashCounts, ExchangeCounts, QuietCounts, OrphanCounts DEF Next
<1>2. CASE UNCHANGED vars
  BY <1>2 DEF vars, CountInv, AskedFor
<1>3. QED
  BY <1>1, <1>2

\* What the invariant says of the submissions.
LEMMA CountOnce == ProtocolInv /\ CountInv => SubmittedOnce
<1> SUFFICES ASSUME ProtocolInv, CountInv, NEW i \in DOMAIN requests
             PROVE  Times(requests, requests[i].csr) <= 1 + unheard + crashes
  BY DEF SubmittedOnce, Times
<1> DEFINE csr == requests[i].csr
<1>1. IsBooks(requests) /\ unheard \in Nat /\ crashes \in Nat
  BY DEF ProtocolInv, CountInv
<1>2. CASE kind # "SCEP"
  <2>1. csr \in TheCsrs
    BY <1>1, BookIn
  <2> HIDE DEF csr
  <2>2. AskedFor(csr) /\ Times(requests, csr) \in Nat
    BY <1>1, <1>2, <2>1, TimesLemma DEF CountInv
  <2>3. QED
    BY <1>1, <2>2 DEF AskedFor, Count, csr
<1>3. CASE kind = "SCEP"
  <2>1. {j \in DOMAIN requests : requests[j].csr = csr} = {i}
    BY <1>3 DEF CountInv
  <2>2. Times(requests, csr) = 1
    BY <2>1, FS_Singleton DEF Times
  <2>3. QED
    BY <1>1, <2>2
<1>4. QED
  BY <1>2, <1>3

-----------------------------------------------------------------------------
(***************************************************************************)
(* The theorems.                                                           *)
(***************************************************************************)
\* The cookie, the exit and the books belong together in every reachable state:
\* what holds of the daemon, its helper, the one left behind and the CA.
THEOREM BooksAndCookiesAgree == Spec => []ProtocolInv
BY NonceInitLemma, ProtocolInitLemma, NonceStep, ProtocolStep, PTL DEF Spec

\* What is taken for the certificate (iterate.c:1028) is one that the CA has issued
\* for the request's signing request, unless the user has asked again: never another
\* one's, whatever the answers that get lost and whenever the daemon goes away.
THEOREM TakenIsAlwaysForTheRequest == Spec => []TakenIsForTheRequest
<1>1. ProtocolInv => TakenIsForTheRequest
  BY DEF ProtocolInv, EntryIs, TakenIsForTheRequest
<1>2. QED
  BY <1>1, BooksAndCookiesAgree, PTL

\* A request that is reported as rejected (iterate.c:1039) was rejected by the CA,
\* except where a form asked for the state of a request (dogtag.c:505).
THEOREM RejectionIsTheCAs == Spec => []RejectedByTheCA
<1>1. ProtocolInv => RejectedByTheCA
  BY DEF ProtocolInv, EntryIs, RejectedByTheCA
<1>2. QED
  BY <1>1, BooksAndCookiesAgree, PTL

\* A signing request is submitted again (submit-e.c:1064) no more often than the
\* answers to a submission were lost and the daemon was gone, however often the
\* helper polls, the daemon restarts, or the user asks again.
THEOREM SubmittedAtMostOnce == Spec => []SubmittedOnce
<1>1. Init => NonceInv /\ ProtocolInv /\ CountInv
  BY NonceInitLemma, ProtocolInitLemma, CountInitLemma
<1>2. NonceInv /\ ProtocolInv /\ CountInv /\ [Next]_vars => (NonceInv /\ ProtocolInv /\ CountInv)'
  BY NonceStep, ProtocolStep, CountStep
<1>3. QED
  BY <1>1, <1>2, CountOnce, PTL DEF Spec
=============================================================================
