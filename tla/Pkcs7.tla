-------------------------------- MODULE Pkcs7 --------------------------------
(***************************************************************************)
(* What certmonger does with certificates that come in a bundle and with   *)
(* signed messages (pkcs7.c).                                              *)
(*                                                                         *)
(* A certificate is a record: the names of its subject and its issuer, and *)
(* whether its key is for encryption.  Data to parse is a record with the  *)
(* form it is in: one certificate, signed data with certificates in it,    *)
(* an envelope, text with the items between lines BEGIN and END, or none   *)
(* of these.  What is not there (NULL) is None.                            *)
(***************************************************************************)
EXTENDS Naturals, Sequences, FiniteSets, SequencesExt, FiniteSetsExt, Functions

CONSTANT None

issuerissued(issuer, issued) == issuer.subject = issued.issuer
cm_selfsigned(cert) == issuerissued(cert, cert)

(***************************************************************************)
(* The certificates in some data, in order and each once.  A form inside   *)
(* another is parsed in turn; an envelope is opened if the caller can.     *)
(***************************************************************************)
AddOnce(certs, cert) == IF cert \in Range(certs) THEN certs ELSE Append(certs, cert)
ParseFlat(certs, data) ==
    CASE data.form = "certificate" -> AddOnce(certs, data.certs[1])
      [] data.form = "signed" -> FoldLeft(AddOnce, certs, data.certs)
      [] OTHER -> certs
cm_pkcs7_parse_buffer(certs, data, can_decrypt) ==
    CASE data.form = "enveloped" -> IF can_decrypt THEN ParseFlat(certs, data.inside) ELSE certs
      [] data.form = "text" -> FoldLeft(ParseFlat, certs, data.items)
      [] OTHER -> ParseFlat(certs, data)

(***************************************************************************)
(* The leaf, the top and the others of some certificates                   *)
(***************************************************************************)
First(indices) == IF indices = {} THEN 0 ELSE Min(indices)
At(certs, i) == IF i = 0 THEN None ELSE certs[i]
IssuesNone(certs, indices, i) == \A j \in indices \ {i} : ~issuerissued(certs[i], certs[j])
IssuedByNone(certs, i) == \A j \in DOMAIN certs \ {i} : ~issuerissued(certs[j], certs[i])

\* With the flag, a leaf that can encrypt is better than one that cannot.
betterleaf(certs, leaves, prefer_encrypt) ==
    LET better == {i \in leaves : certs[i].encrypts}
    IN  IF prefer_encrypt /\ better # {} THEN First(better) ELSE First(leaves)
Leaf(certs, prefer_encrypt) ==
    betterleaf(certs, {i \in DOMAIN certs : IssuesNone(certs, DOMAIN certs, i)}, prefer_encrypt)
Top(certs, leaf) == First({i \in DOMAIN certs \ {leaf} : IssuedByNone(certs, i)})
Rest(certs, leaf, top) ==
    LET rest == SetToSortSeq(DOMAIN certs \ {leaf, top}, <) IN [k \in DOMAIN rest |-> certs[rest[k]]]

\* One pass of the sort brings one that issued none of those behind it to the
\* front; the sort ends when there is none.
LeafToFront_Anything(s) ==
    LET behind == {i \in DOMAIN s.certs : i > s.sorted}
        leaf == First({i \in behind : IssuesNone(s.certs, DOMAIN s.certs, i)})
    IN  IF leaf = 0 THEN s
        ELSE [certs |-> [s.certs EXCEPT ![leaf] = s.certs[s.sorted + 1], ![s.sorted + 1] = s.certs[leaf]],
              sorted |-> s.sorted + 1]

LeafToFront(s) ==
    LET behind == {i \in DOMAIN s.certs : i > s.sorted}
        leaf == First({i \in behind : IssuesNone(s.certs, behind, i)})
    IN  IF leaf = 0 THEN s
        ELSE [certs |-> [s.certs EXCEPT ![leaf] = s.certs[s.sorted + 1], ![s.sorted + 1] = s.certs[leaf]],
              sorted |-> s.sorted + 1]
Ordered(certs) == FoldLeft(LAMBDA s, pass : LeafToFront(s), [certs |-> certs, sorted |-> 0], certs).certs
cm_pkcs7_parsev(buffers, prefer_encrypt, can_decrypt) ==
    LET certs == FoldLeft(LAMBDA s, b : cm_pkcs7_parse_buffer(s, b, can_decrypt), <<>>, buffers)
        leaf == Leaf(certs, prefer_encrypt)
        top == Top(certs, leaf)
    IN  [leaf |-> At(certs, leaf), top |-> At(certs, top), others |-> Ordered(Rest(certs, leaf, top))]

(***************************************************************************)
(* Signed messages.  A message is a record: its form, how many signed it,  *)
(* the type of its content, the attributes that are signed with it, and    *)
(* the root that its signer's certificate leads to.  Without roots the     *)
(* signature is not verified.                                              *)
(***************************************************************************)
PKCS7_verify(message, roots) == message.root \in roots
cm_pkcs7_verify_signed(message, roots) ==
    /\ message # None
    /\ message.form = "signed"
    /\ roots = None \/ PKCS7_verify(message, roots)
    /\ message.signers = 1
    /\ message.content = "data"
    /\ message.attributes # <<>>
Attribute(message, name) ==
    IF message # None /\ name \in DOMAIN message.attributes THEN message.attributes[name] ELSE None
-----------------------------------------------------------------------------
\* Whatever order a bundle comes in, the leaf issued none of the others, the top
\* was issued by none of them, each is there once, and among the others a
\* certificate comes before its issuer, unless they issue each other in circles.
ChainOrdered(bundle) ==
    LET r == cm_pkcs7_parsev([i \in DOMAIN bundle |-> [form |-> "certificate", certs |-> <<bundle[i]>>]], FALSE, FALSE)
        certs == Range(bundle)
        Ancestors[n \in 0..Cardinality(certs), c \in certs] ==
            IF n = 0 THEN {} ELSE LET issuers == {d \in certs \ {c} : issuerissued(d, c)}
                                  IN  issuers \cup UNION {Ancestors[n - 1, d] : d \in issuers}
    IN  /\ {r.leaf, r.top} \cup Range(r.others) \cup {None} = certs \cup {None}
        /\ Len(r.others) = Cardinality(certs) - Cardinality({r.leaf, r.top} \ {None})
        /\ r.leaf # None => \A c \in certs \ {r.leaf} : ~issuerissued(r.leaf, c)
        /\ r.top # None => \A c \in certs \ {r.top} : ~issuerissued(c, r.top)
        /\ (\A c \in certs : c \notin Ancestors[Cardinality(certs), c]) =>
              \A i, j \in DOMAIN r.others : i < j => ~issuerissued(r.others[i], r.others[j])
=============================================================================
