---------------------------- MODULE Certificates ----------------------------
(***************************************************************************)
(* Keys, certificate requests and certificates (package auth), what TLS    *)
(* makes of them, and what NewTlsClient, NewTlsServer and VerifyConnection *)
(* demand of them (package peer).                                          *)
(*                                                                         *)
(* A key is a number.  The buckets a certificate grants are the words of   *)
(* its SubjectKeyId; <<>> stands for a certificate without that extension. *)
(* A subject has one of the fields that are lists, organization, and the   *)
(* one that is treated differently.  Every certificate has the usage       *)
(* DigitalSignature (baseCertificate), which Validate asks for.            *)
(***************************************************************************)
EXTENDS Integers, Sequences, SequencesExt

CONSTANT None    \* nil, a field that is not set, a file that is not there

Past   == 1      \* times at which a certificate may end; 0 is the zero time
Future == 2

Corrupt == [corrupt |-> TRUE]     \* bytes that x509.ParseCertificate refuses
Failed  == [failed |-> TRUE]      \* an error instead of a certificate

NoName == [commonName |-> "", organization |-> <<>>, streetAddress |-> <<>>]

mergePkixNames(n1, n2) ==
    [commonName    |-> IF n2.commonName # "" THEN n2.commonName ELSE n1.commonName,
     organization  |-> n1.organization \o n2.organization,
     streetAddress |-> n1.streetAddress \o n1.streetAddress]

(* A certificate before it is signed.                                      *)
baseCertificate ==
    [subject |-> NoName, publicKey |-> None, subjectKeyId |-> <<>>, notAfter |-> 0, hosts |-> {},
     isCA |-> FALSE, certSign |-> FALSE, extKeyUsage |-> <<>>, issuer |-> NoName, signer |-> None]

FaultyUsages(cert, type) ==
    [cert EXCEPT !.isCA = type = "Root", !.certSign = type = "Root",
        !.extKeyUsage = @ \o (IF type = "Root" THEN <<>> ELSE <<type>>)]

(* A type replaces all that an earlier one set.                            *)
Usages(cert, type) ==
    [cert EXCEPT !.isCA = type = "Root", !.certSign = type = "Root",
        !.extKeyUsage = IF type = "Root" THEN <<>> ELSE <<type>>]

(* CertificateOptions and Csr, the two kinds of CertificateDetails.        *)
parseOptions(c, cert) ==
    LET d == [cert EXCEPT
                 !.subject      = mergePkixNames(@, c.subject),
                 !.subjectKeyId = IF c.bucketIds # None THEN c.bucketIds ELSE @,
                 !.publicKey    = IF c.publicKey # None THEN c.publicKey ELSE @,
                 !.notAfter     = IF c.expiry # 0 THEN c.expiry ELSE @,
                 !.hosts        = @ \cup c.hosts]
    IN IF c.type # "Unset" THEN Usages(d, c.type) ELSE d

parseCsr(c, cert) ==
    [cert EXCEPT !.subject = mergePkixNames(@, c.subject), !.hosts = @ \cup c.hosts,
                 !.publicKey = IF c.publicKey # None THEN c.publicKey ELSE @]

Options(bucketIds, publicKey, hosts, type) ==
    [kind |-> "options", subject |-> NoName, bucketIds |-> bucketIds, publicKey |-> publicKey,
     expiry |-> 0, hosts |-> hosts, type |-> type]

CreateCsr(key) ==
    [kind |-> "csr", subject |-> [NoName EXCEPT !.commonName = "hostname"],
     publicKey |-> key, hosts |-> {"127.0.0.1"}]
BadCsr == [kind |-> "bad csr"]    \* does not parse, or has another algorithm

parseCertificateDetails(cert, d) == IF d.kind = "options" THEN parseOptions(d, cert) ELSE parseCsr(d, cert)

(* x509.CreateCertificate: the key must be the parent's, the issuer is the *)
(* parent's subject, and a CA without a SubjectKeyId gets one: words of a  *)
(* hash of its key, that name no bucket anybody meant.                     *)
Sign(cert, parent, key) ==
    IF cert.publicKey = None \/ parent.publicKey # key THEN Failed
    ELSE [cert EXCEPT !.issuer = parent.subject, !.signer = key,
             !.subjectKeyId = IF @ = <<>> /\ cert.isCA THEN <<-cert.publicKey>> ELSE @]

FaultyCreateCertificate(key, rootCa, details) ==
    LET cert == FoldLeft(parseCertificateDetails, baseCertificate, details)
        full == [cert EXCEPT !.publicKey = key, !.notAfter = Future]
    IN IF rootCa = Corrupt \/ \E i \in DOMAIN details : details[i] = BadCsr THEN Failed
       ELSE Sign(full, IF rootCa = None THEN full ELSE rootCa, key)

CreateCertificate(key, rootCa, details) ==
    IF rootCa = Corrupt \/ \E i \in DOMAIN details : details[i] = BadCsr THEN Failed
    ELSE LET base == [baseCertificate EXCEPT !.publicKey = IF rootCa = None THEN key ELSE None]
             cert == FoldLeft(parseCertificateDetails, base, details)
             full == [cert EXCEPT !.notAfter = IF @ = 0 THEN Future ELSE @]
         IN Sign(full, IF rootCa = None THEN full ELSE rootCa, key)

----------------------------------------------------------------------------
FaultyValidate(cert, key) == cert \notin {None, Corrupt}

Validate(cert, key) == cert \notin {None, Corrupt} /\ cert.publicKey = key

Type(cert) ==
    IF cert = Corrupt THEN "Unset"
    ELSE IF cert.certSign THEN "Root"
    ELSE IF cert.extKeyUsage # <<>> THEN cert.extKeyUsage[1] ELSE "Unset"

(* x509.Certificate.Verify with one root (X509Pool): a certificate without *)
(* extended usages is good for all of them.                                *)
ChainsTo(cert, root, usage) ==
    /\ root # Corrupt /\ root.isCA /\ root.certSign /\ root.notAfter = Future
    /\ cert.issuer = root.subject /\ cert.signer = root.publicKey
    /\ cert.notAfter = Future
    /\ cert.extKeyUsage = <<>> \/ usage \in Range(cert.extKeyUsage)

(* The certificate's serial number has 16 bytes, its SubjectKeyId whole    *)
(* words; what is left to refuse is one without any.                       *)
VerifyConnection(cert) == cert.subjectKeyId # <<>>

(* NewTlsClient, NewTlsServer: what they start with.                       *)
Accepts(type, id) == Validate(id.cert, id.key) /\ Type(id.cert) = type

(* The handshake of a client that dials host with a server.                *)
Handshake(client, server, host) ==
    /\ ChainsTo(server.cert, client.root, "Server") /\ host \in server.cert.hosts
    /\ ChainsTo(client.cert, server.root, "Client")
    /\ VerifyConnection(client.cert)
============================================================================
