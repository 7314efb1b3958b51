----------------------------- MODULE CertProofs ----------------------------
(***************************************************************************)
(* Proofs about the directory of keys and certificates: types, what a      *)
(* program that comes up presents, that two programs that are up can talk  *)
(* to each other, why a start fails, and which further clients the server  *)
(* lets in.  They hold for every number of keys and of starts and for      *)
(* whatever is signed for further clients.                                 *)
(*                                                                         *)
(* The certificates LoadOrCreate makes are made from one set of options    *)
(* each, so what CreateCertificate folds over them is computed; what it    *)
(* makes of any number of requests and options for a further client is     *)
(* proved by induction over them (FoldProofs).                             *)
(***************************************************************************)
EXTENDS CertProperties, TLAPS

(* A record is a certificate if it has a certificate's fields.             *)
Fields ==
    {"subject", "publicKey", "subjectKeyId", "notAfter", "hosts", "isCA", "certSign",
     "extKeyUsage", "issuer", "signer"}
IsCertificate(c) == DOMAIN c = Fields /\ c = [f \in DOMAIN c |-> c[f]]

(* Certificates with the same values in all fields are the same one.       *)
LEMMA SameCertificate ==
    ASSUME NEW c, NEW d, IsCertificate(c), IsCertificate(d),
           c.subject = d.subject, c.publicKey = d.publicKey, c.subjectKeyId = d.subjectKeyId,
           c.notAfter = d.notAfter, c.hosts = d.hosts, c.isCA = d.isCA, c.certSign = d.certSign,
           c.extKeyUsage = d.extKeyUsage, c.issuer = d.issuer, c.signer = d.signer
    PROVE  c = d
<1>1. \A f \in Fields : c[f] = d[f]
  BY DEF Fields
<1> QED
  BY <1>1 DEF IsCertificate

(* What a type sets (CertificateOptions): whether the certificate may      *)
(* sign, and its extended usage; the other fields stay.                    *)
LEMMA UsagesSet ==
    ASSUME NEW c, IsCertificate(c), NEW type
    PROVE  LET u == Usages(c, type)
           IN /\ IsCertificate(u)
              /\ u.isCA = (type = "Root") /\ u.certSign = (type = "Root")
              /\ u.extKeyUsage = IF type = "Root" THEN <<>> ELSE <<type>>
              /\ u.subject = c.subject /\ u.publicKey = c.publicKey
              /\ u.subjectKeyId = c.subjectKeyId /\ u.notAfter = c.notAfter
              /\ u.hosts = c.hosts /\ u.issuer = c.issuer /\ u.signer = c.signer
<1> DEFINE u == Usages(c, type)
<1>1. IsCertificate(u)
  BY DEF IsCertificate, Usages
<1>2. u.isCA = (type = "Root") /\ u.certSign = (type = "Root")
  BY DEF Usages, IsCertificate, Fields
<1>3. u.extKeyUsage = IF type = "Root" THEN <<>> ELSE <<type>>
  BY DEF Usages, IsCertificate, Fields
<1>4. /\ u.subject = c.subject /\ u.publicKey = c.publicKey
      /\ u.subjectKeyId = c.subjectKeyId /\ u.notAfter = c.notAfter
      /\ u.hosts = c.hosts /\ u.issuer = c.issuer /\ u.signer = c.signer
  BY DEF Usages, IsCertificate, Fields
<1> QED
  BY <1>1, <1>2, <1>3, <1>4

(* What options with a type make of a certificate                          *)
(* (CertificateOptions.parseCertificate).                                  *)
LEMMA OptionsSet ==
    ASSUME NEW c, IsCertificate(c), NEW o, o.type # "Unset"
    PROVE  LET u == parseOptions(o, c)
           IN /\ IsCertificate(u)
              /\ u.isCA = (o.type = "Root") /\ u.certSign = (o.type = "Root")
              /\ u.extKeyUsage = IF o.type = "Root" THEN <<>> ELSE <<o.type>>
              /\ u.subject = mergePkixNames(c.subject, o.subject)
              /\ u.publicKey = IF o.publicKey # None THEN o.publicKey ELSE c.publicKey
              /\ u.subjectKeyId = IF o.bucketIds # None THEN o.bucketIds ELSE c.subjectKeyId
              /\ u.notAfter = IF o.expiry # 0 THEN o.expiry ELSE c.notAfter
              /\ u.hosts = c.hosts \cup o.hosts
              /\ u.issuer = c.issuer /\ u.signer = c.signer
<1> DEFINE d == [c EXCEPT
                   !.subject      = mergePkixNames(@, o.subject),
                   !.subjectKeyId = IF o.bucketIds # None THEN o.bucketIds ELSE @,
                   !.publicKey    = IF o.publicKey # None THEN o.publicKey ELSE @,
                   !.notAfter     = IF o.expiry # 0 THEN o.expiry ELSE @,
                   !.hosts        = @ \cup o.hosts]
<1>1. IsCertificate(d)
  BY DEF IsCertificate
<1>2. /\ d.subject = mergePkixNames(c.subject, o.subject)
      /\ d.publicKey = IF o.publicKey # None THEN o.publicKey ELSE c.publicKey
      /\ d.subjectKeyId = IF o.bucketIds # None THEN o.bucketIds ELSE c.subjectKeyId
  BY DEF IsCertificate, Fields
<1>3. /\ d.notAfter = IF o.expiry # 0 THEN o.expiry ELSE c.notAfter
      /\ d.hosts = c.hosts \cup o.hosts
      /\ d.issuer = c.issuer /\ d.signer = c.signer
  BY DEF IsCertificate, Fields
<1>4. parseOptions(o, c) = Usages(d, o.type)
  BY DEF parseOptions
<1> HIDE DEF d
<1> QED
  BY <1>1, <1>2, <1>3, <1>4, UsagesSet

(* CreateCertificate with one set of details applies it once. The          *)
(* recursive function of the fold is shown to exist by giving it.          *)
LEMMA OneDetail ==
    ASSUME NEW base, NEW d
    PROVE  FoldLeft(parseCertificateDetails, base, <<d>>) = parseCertificateDetails(base, d)
<1> DEFINE s == <<d>>
           Body(f) == [t \in SUBSET (DOMAIN s) |->
                          IF t = {} THEN base
                          ELSE LET x == Max(t) IN parseCertificateDetails(f[t \ {x}], s[x])]
           iter == CHOOSE f : f = Body(f)
           w == [t \in SUBSET (DOMAIN s) |->
                     IF t = {} THEN base ELSE parseCertificateDetails(base, d)]
<1>1. DOMAIN s = {1}
  OBVIOUS
<1>2. SUBSET {1} = {{}, {1}}
  OBVIOUS
<1>3. Max({1}) = 1
  BY DEF Max
<1>4. ASSUME NEW f PROVE
        /\ Body(f) = [t \in SUBSET {1} |-> Body(f)[t]]
        /\ Body(f)[{}] = base
        /\ Body(f)[{1}] = parseCertificateDetails(f[{}], d)
  <2>1. {} \in SUBSET (DOMAIN s) /\ {1} \in SUBSET (DOMAIN s) /\ {1} # {} /\ {1} \ {1} = {}
    BY <1>1
  <2>2. Body(f)[{1}] = parseCertificateDetails(f[{1} \ {1}], s[1])
    BY <2>1, <1>3
  <2>3. s[1] = d
    OBVIOUS
  <2> QED
    BY <1>1, <2>1, <2>2, <2>3
<1>5. iter = Body(iter)
  <2>1. w = [t \in SUBSET {1} |-> w[t]]
    BY <1>1
  <2>2. w[{}] = base /\ w[{1}] = parseCertificateDetails(base, d)
    BY <1>1, <1>2
  <2> HIDE DEF Body, w
  <2>3. ASSUME NEW t \in SUBSET {1} PROVE w[t] = Body(w)[t]
    <3>1. t = {} \/ t = {1}
      BY <1>2
    <3>2. Body(w)[{}] = base /\ Body(w)[{1}] = parseCertificateDetails(w[{}], d)
      BY <1>4
    <3> QED
      BY <2>2, <3>1, <3>2
  <2>4. w = Body(w)
    BY <1>4, <2>1, <2>3
  <2> QED
    BY <2>4
<1>6. iter[{1}] = parseCertificateDetails(base, d)
  <2> HIDE DEF Body, iter
  <2> QED
    BY <1>4, <1>5
<1>7. FoldLeft(parseCertificateDetails, base, s) = iter[DOMAIN s]
  BY DEF FoldLeft, MapThenFoldSet
<1> QED
  BY <1>1, <1>6, <1>7

(* What x509.CreateCertificate adds.                                       *)
LEMMA SignSets ==
    ASSUME NEW c, IsCertificate(c), NEW parent, NEW key,
           c.publicKey # None, parent.publicKey = key
    PROVE  LET s == Sign(c, parent, key)
           IN /\ IsCertificate(s)
              /\ s.issuer = parent.subject /\ s.signer = key
              /\ s.subjectKeyId = IF c.subjectKeyId = <<>> /\ c.isCA THEN <<-c.publicKey>>
                                  ELSE c.subjectKeyId
              /\ s.subject = c.subject /\ s.publicKey = c.publicKey /\ s.notAfter = c.notAfter
              /\ s.hosts = c.hosts /\ s.isCA = c.isCA /\ s.certSign = c.certSign
              /\ s.extKeyUsage = c.extKeyUsage
<1> DEFINE s == [c EXCEPT !.issuer = parent.subject, !.signer = key,
                    !.subjectKeyId = IF @ = <<>> /\ c.isCA THEN <<-c.publicKey>> ELSE @]
<1>1. Sign(c, parent, key) = s
  BY DEF Sign
<1>2. IsCertificate(s)
  BY DEF IsCertificate
<1>3. s.issuer = parent.subject /\ s.signer = key
  BY DEF IsCertificate, Fields
<1>4. s.subjectKeyId = IF c.subjectKeyId = <<>> /\ c.isCA THEN <<-c.publicKey>>
                       ELSE c.subjectKeyId
  BY DEF IsCertificate, Fields
<1>5. /\ s.subject = c.subject /\ s.publicKey = c.publicKey /\ s.notAfter = c.notAfter
      /\ s.hosts = c.hosts /\ s.isCA = c.isCA /\ s.certSign = c.certSign
      /\ s.extKeyUsage = c.extKeyUsage
  BY DEF IsCertificate, Fields
<1> HIDE DEF s
<1> QED
  BY <1>1, <1>2, <1>3, <1>4, <1>5

(* A certificate made from one set of options, before it is signed.        *)
Drafted(key, root, o) ==
    LET base == [baseCertificate EXCEPT !.publicKey = IF root = None THEN key ELSE None]
    IN [parseOptions(o, base) EXCEPT !.notAfter = IF @ = 0 THEN Future ELSE @]

DraftOf(full, o) ==
    /\ IsCertificate(full)
    /\ full.subject = mergePkixNames(NoName, o.subject) /\ full.publicKey = o.publicKey
    /\ full.subjectKeyId = IF o.bucketIds # None THEN o.bucketIds ELSE <<>>
    /\ full.notAfter = Future /\ full.hosts = {} \cup o.hosts
    /\ full.isCA = (o.type = "Root") /\ full.certSign = (o.type = "Root")
    /\ full.extKeyUsage = IF o.type = "Root" THEN <<>> ELSE <<o.type>>

(* CreateCertificate signs that draft, with itself as the parent if        *)
(* there is no root.                                                       *)
LEMMA FromOptions ==
    ASSUME NEW key, NEW root, root # Corrupt,
           NEW o, o.kind = "options", o.type # "Unset", o.publicKey # None, o.expiry = 0
    PROVE  /\ DraftOf(Drafted(key, root, o), o)
           /\ root = None => CreateCertificate(key, root, <<o>>)
                                = Sign(Drafted(key, root, o), Drafted(key, root, o), key)
           /\ root # None => CreateCertificate(key, root, <<o>>)
                                = Sign(Drafted(key, root, o), root, key)
<1> DEFINE base == [baseCertificate EXCEPT !.publicKey = IF root = None THEN key ELSE None]
           cert == parseOptions(o, base)
           full == [cert EXCEPT !.notAfter = IF @ = 0 THEN Future ELSE @]
<1>1. IsCertificate(base)
  BY DEF baseCertificate, IsCertificate, Fields
<1>2. base.subject = NoName /\ base.subjectKeyId = <<>> /\ base.notAfter = 0 /\ base.hosts = {}
  BY DEF baseCertificate
<1>3. /\ IsCertificate(cert)
      /\ cert.isCA = (o.type = "Root") /\ cert.certSign = (o.type = "Root")
      /\ cert.extKeyUsage = IF o.type = "Root" THEN <<>> ELSE <<o.type>>
      /\ cert.subject = mergePkixNames(base.subject, o.subject)
      /\ cert.publicKey = IF o.publicKey # None THEN o.publicKey ELSE base.publicKey
      /\ cert.subjectKeyId = IF o.bucketIds # None THEN o.bucketIds ELSE base.subjectKeyId
      /\ cert.notAfter = IF o.expiry # 0 THEN o.expiry ELSE base.notAfter
      /\ cert.hosts = base.hosts \cup o.hosts
  <2> HIDE DEF base
  <2> QED
    BY <1>1, OptionsSet
<1>4. /\ cert.subject = mergePkixNames(NoName, o.subject) /\ cert.publicKey = o.publicKey
      /\ cert.subjectKeyId = IF o.bucketIds # None THEN o.bucketIds ELSE <<>>
      /\ cert.notAfter = 0 /\ cert.hosts = {} \cup o.hosts
  <2> HIDE DEF base, cert
  <2> QED
    BY <1>2, <1>3
<1>5. /\ IsCertificate(full) /\ full.notAfter = Future
      /\ full.subject = cert.subject /\ full.publicKey = cert.publicKey
      /\ full.subjectKeyId = cert.subjectKeyId /\ full.hosts = cert.hosts
      /\ full.isCA = cert.isCA /\ full.certSign = cert.certSign
      /\ full.extKeyUsage = cert.extKeyUsage
  <2> HIDE DEF cert
  <2>1. IsCertificate(full)
    BY <1>3 DEF IsCertificate
  <2>2. /\ full.notAfter = Future
        /\ full.subject = cert.subject /\ full.publicKey = cert.publicKey
        /\ full.subjectKeyId = cert.subjectKeyId /\ full.hosts = cert.hosts
    BY <1>3, <1>4 DEF IsCertificate, Fields
  <2>3. /\ full.isCA = cert.isCA /\ full.certSign = cert.certSign
        /\ full.extKeyUsage = cert.extKeyUsage
    BY <1>3 DEF IsCertificate, Fields
  <2> QED
    BY <2>1, <2>2, <2>3
<1>6. FoldLeft(parseCertificateDetails, base, <<o>>) = cert
  <2>1. parseCertificateDetails(base, o) = cert
    BY DEF parseCertificateDetails
  <2> HIDE DEF base, cert
  <2> QED
    BY <2>1, OneDetail
<1>7. CreateCertificate(key, root, <<o>>) = Sign(full, IF root = None THEN full ELSE root, key)
  <2>1. ~\E i \in DOMAIN <<o>> : <<o>>[i] = BadCsr
    <3>1. o # BadCsr
      <4>1. BadCsr.kind = "bad csr"
        BY DEF BadCsr
      <4> QED
        BY <4>1
    <3>2. DOMAIN <<o>> = {1} /\ <<o>>[1] = o
      OBVIOUS
    <3> QED
      BY <3>1, <3>2
  <2> HIDE DEF cert
  <2> QED
    BY <1>6, <2>1 DEF CreateCertificate
<1>8. Drafted(key, root, o) = full
  BY DEF Drafted
<1> HIDE DEF full, cert
<1> QED
  BY <1>3, <1>4, <1>5, <1>7, <1>8 DEF DraftOf

(* The certificates LoadOrCreate makes, of the root k signs with and of    *)
(* the programs' own keys.                                                 *)
RootName == [commonName |-> "webmafia.com", organization |-> <<"Log">>, streetAddress |-> <<>>]

RootCert(k) ==
    [subject |-> RootName, publicKey |-> k, subjectKeyId |-> <<-k>>, notAfter |-> Future,
     hosts |-> {}, isCA |-> TRUE, certSign |-> TRUE, extKeyUsage |-> <<>>,
     issuer |-> RootName, signer |-> k]
ServerCert(k, s) ==
    [subject |-> NoName, publicKey |-> s, subjectKeyId |-> <<>>, notAfter |-> Future,
     hosts |-> {Domain, Host}, isCA |-> FALSE, certSign |-> FALSE, extKeyUsage |-> <<"Server">>,
     issuer |-> RootName, signer |-> k]
ClientCert(k, c) ==
    [subject |-> NoName, publicKey |-> c, subjectKeyId |-> <<123>>, notAfter |-> Future,
     hosts |-> {}, isCA |-> FALSE, certSign |-> FALSE, extKeyUsage |-> <<"Client">>,
     issuer |-> RootName, signer |-> k]

(* Short lists, and the names and usages made of them.                     *)
LEMMA ShortLists ==
    /\ <<>> \in Seq(Text) /\ <<"Log">> \in Seq(Text) /\ <<>> \in Seq(Programs)
    /\ <<"Server">> \in Seq(Programs) /\ <<"Client">> \in Seq(Programs)
    /\ RootName \in Names /\ NoName \in Names
<1>1. \A t \in Text : <<t>> \in Seq(Text)
  OBVIOUS
<1>2. \A p \in Programs : <<p>> \in Seq(Programs)
  OBVIOUS
<1>3. <<>> \in Seq(Text) /\ <<"Log">> \in Seq(Text) /\ <<>> \in Seq(Programs)
      /\ <<"Server">> \in Seq(Programs) /\ <<"Client">> \in Seq(Programs)
  <2>1. "Log" \in Text
    BY TextAssumption
  <2>2. "Server" \in Programs /\ "Client" \in Programs
    BY DEF Programs
  <2> QED
    BY <1>1, <1>2, <2>1, <2>2
<1>4. RootName \in Names /\ NoName \in Names
  <2>1. "" \in Text /\ "webmafia.com" \in Text
    BY TextAssumption
  <2> QED
    BY <1>3, <2>1 DEF RootName, NoName, Names
<1> QED
  BY <1>3, <1>4

(* They are certificates, and neither nil nor bytes that do not parse.     *)
LEMMA SignedCerts ==
    ASSUME NEW k \in Nat, NEW s \in Nat
    PROVE  /\ RootCert(k) \in Signed /\ ServerCert(k, s) \in Signed /\ ClientCert(k, s) \in Signed
           /\ {None, Corrupt, Failed} \cap {RootCert(k), ServerCert(k, s), ClientCert(k, s)} = {}
<1>1. RootName \in Names /\ NoName \in Names
  BY ShortLists
<1>2. <<-k>> \in Seq(Int) /\ <<123>> \in Seq(Int) /\ <<>> \in Seq(Int)
  OBVIOUS
<1>3. <<"Server">> \in Seq(Programs) /\ <<"Client">> \in Seq(Programs) /\ <<>> \in Seq(Programs)
  BY ShortLists
<1>4. {} \in SUBSET STRING /\ {Domain, Host} \in SUBSET Text
  BY TextAssumption
<1>5. Future \in Nat
  BY DEF Future
<1>6. RootCert(k) \in Signed /\ ServerCert(k, s) \in Signed /\ ClientCert(k, s) \in Signed
  BY <1>1, <1>2, <1>3, <1>4, <1>5 DEF RootCert, ServerCert, ClientCert, Signed
<1>7. ASSUME NEW c \in {RootCert(k), ServerCert(k, s), ClientCert(k, s)}
      PROVE  c # Corrupt /\ c # Failed
  <2>1. "publicKey" \in DOMAIN c
    BY <1>7 DEF RootCert, ServerCert, ClientCert
  <2>2. "publicKey" \notin DOMAIN Corrupt /\ "publicKey" \notin DOMAIN Failed
    BY DEF Corrupt, Failed
  <2> QED
    BY <2>1, <2>2
<1> QED
  BY <1>6, <1>7, NoneAssumption

(* Options without a subject leave the name empty.                         *)
LEMMA NoNameMerges == mergePkixNames(NoName, NoName) = NoName
<1>1. <<>> \o <<>> = <<>>
  OBVIOUS
<1> QED
  BY <1>1 DEF mergePkixNames, NoName

(* The explicit certificates are certificates.                             *)
LEMMA OwnCerts ==
    ASSUME NEW k, NEW s
    PROVE  IsCertificate(RootCert(k)) /\ IsCertificate(ServerCert(k, s))
           /\ IsCertificate(ClientCert(k, s))
<1>1. IsCertificate(RootCert(k))
  BY DEF IsCertificate, Fields, RootCert
<1>2. IsCertificate(ServerCert(k, s))
  BY DEF IsCertificate, Fields, ServerCert
<1>3. IsCertificate(ClientCert(k, s))
  BY DEF IsCertificate, Fields, ClientCert
<1> QED
  BY <1>1, <1>2, <1>3

(* Bucket ids that are not given, empty and given are three things.        *)
LEMMA BucketLists == None # <<>> /\ None # <<123>> /\ <<123>> # <<>>
<1>1. <<>> \in Seq(Int) /\ <<123>> \in Seq(Int) /\ <<123>> # <<>>
  OBVIOUS
<1> QED
  BY <1>1, NoneAssumption

(* The certificate one set of options makes, signed by key in that name.   *)
SignedOf(s, o, name, key) ==
    /\ IsCertificate(s)
    /\ s.subject = mergePkixNames(NoName, o.subject) /\ s.publicKey = o.publicKey
    /\ s.subjectKeyId = IF o.bucketIds # None THEN o.bucketIds
                        ELSE IF o.type = "Root" THEN <<-o.publicKey>> ELSE <<>>
    /\ s.notAfter = Future /\ s.hosts = {} \cup o.hosts
    /\ s.isCA = (o.type = "Root") /\ s.certSign = (o.type = "Root")
    /\ s.extKeyUsage = IF o.type = "Root" THEN <<>> ELSE <<o.type>>
    /\ s.issuer = name /\ s.signer = key

(* A draft that the parent's key signs becomes the certificate expected.   *)
LEMMA SignsDraft ==
    ASSUME NEW key \in Nat, NEW parent, parent.publicKey = key, NEW o, o.bucketIds # <<>>,
           o.publicKey \in Nat, NEW full, DraftOf(full, o)
    PROVE  SignedOf(Sign(full, parent, key), o, parent.subject, key)
<1> DEFINE s == Sign(full, parent, key)
<1>1. IsCertificate(full) /\ full.publicKey # None
  BY NoneAssumption DEF DraftOf
<1>2. /\ IsCertificate(s)
      /\ s.issuer = parent.subject /\ s.signer = key
      /\ s.subjectKeyId = IF full.subjectKeyId = <<>> /\ full.isCA THEN <<-full.publicKey>>
                          ELSE full.subjectKeyId
      /\ s.subject = full.subject /\ s.publicKey = full.publicKey /\ s.notAfter = full.notAfter
      /\ s.hosts = full.hosts /\ s.isCA = full.isCA /\ s.certSign = full.certSign
      /\ s.extKeyUsage = full.extKeyUsage
  BY <1>1, SignSets
<1> HIDE DEF s
<1>3. s.subjectKeyId = IF o.bucketIds # None THEN o.bucketIds
                       ELSE IF o.type = "Root" THEN <<-o.publicKey>> ELSE <<>>
  BY <1>2 DEF DraftOf
<1> QED
  BY <1>2, <1>3 DEF DraftOf, SignedOf, s

(* What LoadOrCreate makes of a new root key, ...                          *)
LEMMA CreatedRoot ==
    ASSUME NEW c, c[1] \in Nat
    PROVE  Created(c, 2) = RootCert(c[1])
<1> DEFINE o == [Options(None, c[1], {}, "Root") EXCEPT
                    !.subject = [NoName EXCEPT !.commonName = "webmafia.com",
                                               !.organization = <<"Log">>]]
           full == Drafted(c[1], None, o)
<1>1. /\ o.kind = "options" /\ o.type = "Root" /\ o.publicKey = c[1] /\ o.expiry = 0
      /\ o.bucketIds = None /\ o.hosts = {}
  BY DEF Options
<1>2. mergePkixNames(NoName, o.subject) = RootName
  <2>1. o.subject = [NoName EXCEPT !.commonName = "webmafia.com", !.organization = <<"Log">>]
    BY DEF Options
  <2>2. o.subject.commonName = "webmafia.com" /\ o.subject.organization = <<"Log">>
    BY <2>1 DEF NoName
  <2>3. <<>> \o <<"Log">> = <<"Log">> /\ <<>> \o <<>> = <<>>
    OBVIOUS
  <2>4. NoName.commonName = "" /\ NoName.organization = <<>> /\ NoName.streetAddress = <<>>
    BY DEF NoName
  <2> HIDE DEF o
  <2> QED
    BY <2>2, <2>3, <2>4 DEF mergePkixNames, RootName
<1>3. Created(c, 2) = CreateCertificate(c[1], None, <<o>>)
  BY DEF Created
<1> HIDE DEF o
<1>4. c[1] # None /\ None # Corrupt /\ None # <<>>
  BY NoneAssumption, BucketLists
<1>5. DraftOf(full, o) /\ CreateCertificate(c[1], None, <<o>>) = Sign(full, full, c[1])
  BY <1>1, <1>4, FromOptions
<1> HIDE DEF full
<1>6. full.publicKey = c[1] /\ full.subject = RootName
  BY <1>1, <1>2, <1>5 DEF DraftOf
<1>7. SignedOf(Sign(full, full, c[1]), o, RootName, c[1])
  BY <1>1, <1>4, <1>5, <1>6, SignsDraft
<1>8. PICK s : s = Sign(full, full, c[1]) /\ SignedOf(s, o, RootName, c[1])
  BY <1>7
<1>9. s = RootCert(c[1])
  <2>1. s.isCA = TRUE /\ s.certSign = TRUE
    BY <1>1, <1>8 DEF SignedOf
  <2> QED
    <3> DEFINE r == RootCert(c[1])
    <3>1. /\ s.subject = RootName /\ s.publicKey = c[1] /\ s.subjectKeyId = <<-c[1]>>
          /\ s.notAfter = Future /\ s.hosts = {} /\ s.extKeyUsage = <<>>
          /\ s.issuer = RootName /\ s.signer = c[1] /\ IsCertificate(s)
      BY <1>1, <1>2, <1>8 DEF SignedOf
    <3>2. /\ r.subject = RootName /\ r.publicKey = c[1] /\ r.subjectKeyId = <<-c[1]>>
          /\ r.notAfter = Future /\ r.hosts = {} /\ r.extKeyUsage = <<>>
          /\ r.issuer = RootName /\ r.signer = c[1] /\ r.isCA = TRUE /\ r.certSign = TRUE
      BY DEF RootCert
    <3>3. IsCertificate(r)
      BY OwnCerts
    <3> HIDE DEF r
    <3>4. s = r
      BY <2>1, <3>1, <3>2, <3>3, SameCertificate
    <3> QED
      BY <3>4 DEF r
<1> QED
  BY <1>3, <1>5, <1>8, <1>9

(* ... and of the server's key, which the root must be able to sign.       *)
LEMMA CreatedServer ==
    ASSUME NEW c, NEW k \in Nat, c[1] \in Nat, c[3] \in Nat, c[2] = RootCert(k)
    PROVE  Created(c, 4) = IF k = c[1] THEN ServerCert(k, c[3]) ELSE Failed
<1> DEFINE o    == Options(None, c[3], {Domain, Host}, "Server")
           full == Drafted(c[1], c[2], o)
<1>1. /\ o.kind = "options" /\ o.type = "Server" /\ o.publicKey = c[3] /\ o.expiry = 0
      /\ o.bucketIds = None /\ o.hosts = {Domain, Host} /\ o.subject = NoName
  BY DEF Options
<1>2. Created(c, 4) = CreateCertificate(c[1], c[2], <<o>>)
  BY DEF Created
<1> HIDE DEF o
<1>3. c[3] # None /\ c[2] # None /\ c[2] # Corrupt /\ None # <<>>
  BY NoneAssumption, BucketLists, SignedCerts
<1>4. DraftOf(full, o) /\ CreateCertificate(c[1], c[2], <<o>>) = Sign(full, c[2], c[1])
  BY <1>1, <1>3, FromOptions
<1> HIDE DEF full
<1>5. c[2].publicKey = k /\ c[2].subject = RootName
  BY DEF RootCert
<1>6. ASSUME k # c[1] PROVE Created(c, 4) = Failed
  BY <1>2, <1>4, <1>5, <1>6 DEF Sign
<1>7. ASSUME k = c[1] PROVE Created(c, 4) = ServerCert(k, c[3])
  <2>1. SignedOf(Sign(full, c[2], c[1]), o, RootName, c[1])
    BY <1>1, <1>3, <1>4, <1>5, <1>7, SignsDraft
  <2>2. PICK s : s = Sign(full, c[2], c[1]) /\ SignedOf(s, o, RootName, c[1])
    BY <2>1
  <2>3. s.isCA = FALSE /\ s.certSign = FALSE
    BY <1>1, <2>2 DEF SignedOf
  <2>4. s = ServerCert(k, c[3])
    <3> DEFINE r == ServerCert(k, c[3])
    <3>1. /\ s.subject = NoName /\ s.publicKey = c[3] /\ s.subjectKeyId = <<>>
          /\ s.notAfter = Future /\ s.hosts = {Domain, Host} /\ s.extKeyUsage = <<"Server">>
          /\ s.issuer = RootName /\ s.signer = k /\ IsCertificate(s)
      BY <1>1, <1>7, <2>2, NoNameMerges, BucketLists DEF SignedOf
    <3>2. /\ r.subject = NoName /\ r.publicKey = c[3] /\ r.subjectKeyId = <<>>
          /\ r.notAfter = Future /\ r.hosts = {Domain, Host} /\ r.extKeyUsage = <<"Server">>
          /\ r.issuer = RootName /\ r.signer = k /\ r.isCA = FALSE /\ r.certSign = FALSE
      BY DEF ServerCert
    <3>3. IsCertificate(r)
      BY OwnCerts
    <3> HIDE DEF r
    <3>4. s = r
      BY <2>3, <3>1, <3>2, <3>3, SameCertificate
    <3> QED
      BY <3>4 DEF r
  <2> QED
    BY <1>2, <1>4, <2>2, <2>4
<1> QED
  BY <1>6, <1>7

(* ... and of the client's key, which the root must be able to sign.       *)
LEMMA CreatedClient ==
    ASSUME NEW c, NEW k \in Nat, c[1] \in Nat, c[5] \in Nat, c[2] = RootCert(k)
    PROVE  Created(c, 6) = IF k = c[1] THEN ClientCert(k, c[5]) ELSE Failed
<1> DEFINE o    == Options(<<123>>, c[5], {}, "Client")
           full == Drafted(c[1], c[2], o)
<1>1. /\ o.kind = "options" /\ o.type = "Client" /\ o.publicKey = c[5] /\ o.expiry = 0
      /\ o.bucketIds = <<123>> /\ o.hosts = {} /\ o.subject = NoName
  BY DEF Options
<1>2. Created(c, 6) = CreateCertificate(c[1], c[2], <<o>>)
  BY DEF Created
<1> HIDE DEF o
<1>3. c[5] # None /\ c[2] # None /\ c[2] # Corrupt /\ <<123>> # <<>>
  BY NoneAssumption, BucketLists, SignedCerts
<1>4. DraftOf(full, o) /\ CreateCertificate(c[1], c[2], <<o>>) = Sign(full, c[2], c[1])
  BY <1>1, <1>3, FromOptions
<1> HIDE DEF full
<1>5. c[2].publicKey = k /\ c[2].subject = RootName
  BY DEF RootCert
<1>6. ASSUME k # c[1] PROVE Created(c, 6) = Failed
  BY <1>2, <1>4, <1>5, <1>6 DEF Sign
<1>7. ASSUME k = c[1] PROVE Created(c, 6) = ClientCert(k, c[5])
  <2>1. SignedOf(Sign(full, c[2], c[1]), o, RootName, c[1])
    BY <1>1, <1>3, <1>4, <1>5, <1>7, SignsDraft
  <2>2. PICK s : s = Sign(full, c[2], c[1]) /\ SignedOf(s, o, RootName, c[1])
    BY <2>1
  <2>3. s.isCA = FALSE /\ s.certSign = FALSE
    BY <1>1, <2>2 DEF SignedOf
  <2>4. s = ClientCert(k, c[5])
    <3> DEFINE r == ClientCert(k, c[5])
    <3>1. /\ s.subject = NoName /\ s.publicKey = c[5] /\ s.subjectKeyId = <<123>>
          /\ s.notAfter = Future /\ s.hosts = {} /\ s.extKeyUsage = <<"Client">>
          /\ s.issuer = RootName /\ s.signer = k /\ IsCertificate(s)
      BY <1>1, <1>7, <2>2, NoNameMerges, BucketLists DEF SignedOf
    <3>2. /\ r.subject = NoName /\ r.publicKey = c[5] /\ r.subjectKeyId = <<123>>
          /\ r.notAfter = Future /\ r.hosts = {} /\ r.extKeyUsage = <<"Client">>
          /\ r.issuer = RootName /\ r.signer = k /\ r.isCA = FALSE /\ r.certSign = FALSE
      BY DEF ClientCert
    <3>3. IsCertificate(r)
      BY OwnCerts
    <3> HIDE DEF r
    <3>4. s = r
      BY <2>3, <3>1, <3>2, <3>3, SameCertificate
    <3> QED
      BY <3>4 DEF r
  <2> QED
    BY <1>2, <1>4, <2>2, <2>4
<1> QED
  BY <1>6, <1>7

----------------------------------------------------------------------------
(* What a whole file may hold, and what a program may have got from one.   *)
Contents(i) ==
    IF IsKey(i) THEN 1..keys
    ELSE IF i = 2 THEN {RootCert(k) : k \in 1..keys}
    ELSE IF i = 4 THEN {ServerCert(k, s) : k \in 1..keys, s \in 1..keys}
    ELSE {ClientCert(k, c) : k \in 1..keys, c \in 1..keys}
Loaded(i) == IF IsKey(i) THEN Contents(i) ELSE Contents(i) \cup {Corrupt}

(* The files a program is done with.                                       *)
Has(p) ==
    IF Loading(p) THEN 1..(at[p] - 1) ELSE IF phase[p] \in {"setup", "up"} THEN 1..6 ELSE {}

Values == {None, Corrupt} \cup Nat \cup Signed

StoreTypes ==
    /\ file \in [1..6 -> {Absent, Torn, Garbled} \cup {Whole(v) : v \in Values}]
    /\ certs \in [Programs -> [1..6 -> Values]]
    /\ phase \in [Programs -> Phases] /\ at \in [Programs -> 1..6]
    /\ keys \in 0..MaxKeys /\ starts \in 0..MaxStarts /\ overlapped \in BOOLEAN

(* Files hold what LoadOrCreate makes, and programs what files hold, even  *)
(* when two programs made them at once.                                    *)
WholeHolds == \A i \in 1..6 : file[i].state = "whole" => file[i].value \in Contents(i)
GotLoaded  == \A p \in Programs : \A i \in Has(p) : certs[p][i] \in Loaded(i)
WritesOwn  == \A p \in Programs : phase[p] = "write" => certs[p][at[p]] \in Contents(at[p])
UpAccepted == \A p \in Programs : phase[p] = "up" => Accepts(p, Identity(p))

StoreInv == StoreTypes /\ WholeHolds /\ GotLoaded /\ WritesOwn /\ UpAccepted

(* As long as no two programs were at an incomplete directory at once, ... *)
(* files are made one by one, ...                                          *)
OneByOne ==
    /\ \A i \in 1..6 : file[i] # Garbled
    /\ \A i \in 1..6 : file[i] # Absent => \A j \in 1..(i - 1) : file[j].state = "whole"
(* ... a program has what the files hold, ...                              *)
GotFiles == \A p \in Programs : \A i \in Has(p) : file[i] = Whole(certs[p][i])
(* ... it makes the first one that is missing, and alone, ...              *)
MakesMissing ==
    /\ \A p \in Programs : /\ phase[p] = "read" => file[at[p]] # Absent
                           /\ phase[p] = "create" => file[at[p]] = Absent
                           /\ phase[p] = "write" => file[at[p]] = Torn
    /\ \A p, q \in Programs : p # q /\ Loading(p) /\ Loading(q) =>
          \A i \in 1..6 : file[i].state = "whole"
(* ... the certificates are of the keys beside them, ...                   *)
Matches(c, i) ==
    /\ i = 2 => c[2] = RootCert(c[1])
    /\ i = 4 => c[4] = ServerCert(c[1], c[3])
    /\ i = 6 => c[6] = ClientCert(c[1], c[5])
WritesMatch == \A p \in Programs : phase[p] = "write" => Matches(certs[p], at[p])
Consistent ==
    /\ file[2].state = "whole" => file[2].value = RootCert(file[1].value)
    /\ file[4].state = "whole" => file[4].value = ServerCert(file[1].value, file[3].value)
    /\ file[6].state = "whole" => file[6].value = ClientCert(file[1].value, file[5].value)
(* ... and a start fails because of a file that nobody is writing.         *)
FailsTorn ==
    \A p \in Programs : phase[p] = "failed" =>
        /\ \E i \in 1..6 : file[i] = Torn
        /\ \A q \in Programs : phase[q] # "write"

InOneHand == OneByOne /\ GotFiles /\ MakesMissing /\ WritesMatch /\ Consistent /\ FailsTorn
Orderly   == ~overlapped => InOneHand

(* There are six files.                                                    *)
LEMMA SixFiles ==
    DOMAIN Files = 1..6 /\ Len(Files) = 6 /\ \A i \in 1..6 : IsKey(i) <=> i \in {1, 3, 5}
  BY DEF Files, IsKey

(* The states of files differ.                                             *)
LEMMA SlotStates ==
    /\ Absent.state = "absent" /\ Torn.state = "torn" /\ Garbled.state = "garbled"
    /\ \A v : Whole(v).state = "whole" /\ Whole(v).value = v
    /\ Absent # Torn /\ Absent # Garbled /\ Torn # Garbled
<1>1. /\ Absent.state = "absent" /\ Torn.state = "torn" /\ Garbled.state = "garbled"
      /\ \A v : Whole(v).state = "whole" /\ Whole(v).value = v
  BY DEF Absent, Torn, Garbled, Whole
<1> QED
  BY <1>1

(* What files hold are numbers of keys and certificates.                   *)
LEMMA ContentsTyped ==
    ASSUME keys \in Nat, NEW i \in 1..6, NEW v \in Contents(i)
    PROVE  /\ v \in Values /\ v \in Loaded(i)
           /\ IsKey(i) => v \in 1..keys /\ v \in Nat
           /\ i = 2 => \E k \in 1..keys : v = RootCert(k)
           /\ i = 4 => \E k \in 1..keys, s \in 1..keys : v = ServerCert(k, s)
           /\ i = 6 => \E k \in 1..keys, c \in 1..keys : v = ClientCert(k, c)
<1>1. IsKey(i) <=> i \in {1, 3, 5}
  BY SixFiles
<1>2. v \in Loaded(i)
  BY DEF Loaded
<1>3. CASE IsKey(i)
  BY <1>1, <1>2, <1>3 DEF Contents, Values
<1>4. CASE i = 2
  <2>1. PICK k \in 1..keys : v = RootCert(k)
    BY <1>1, <1>4 DEF Contents
  <2>2. k \in Nat
    OBVIOUS
  <2> QED
    BY <1>1, <1>2, <1>4, <2>1, <2>2, SignedCerts DEF Values
<1>5. CASE i = 4
  <2>1. PICK k \in 1..keys, s \in 1..keys : v = ServerCert(k, s)
    BY <1>1, <1>5 DEF Contents
  <2>2. k \in Nat /\ s \in Nat
    OBVIOUS
  <2> QED
    BY <1>1, <1>2, <1>5, <2>1, <2>2, SignedCerts DEF Values
<1>6. CASE i = 6
  <2>1. PICK k \in 1..keys, c \in 1..keys : v = ClientCert(k, c)
    BY <1>1, <1>6 DEF Contents
  <2>2. k \in Nat /\ c \in Nat
    OBVIOUS
  <2> QED
    BY <1>1, <1>2, <1>6, <2>1, <2>2, SignedCerts DEF Values
<1> QED
  BY <1>1, <1>3, <1>4, <1>5, <1>6

(* New keys take nothing away.                                             *)
LEMMA ContentsGrow ==
    ASSUME keys \in Nat, keys' \in Nat, keys <= keys', NEW i \in 1..6
    PROVE  Contents(i) \subseteq Contents(i)' /\ Loaded(i) \subseteq Loaded(i)'
<1>1. 1..keys \subseteq 1..keys'
  OBVIOUS
<1>2. PICK K, L : K = 1..keys /\ L = 1..keys' /\ K \subseteq L
  BY <1>1
<1>3. Contents(i) \subseteq Contents(i)'
  BY <1>2 DEF Contents
<1> QED
  BY <1>3 DEF Loaded

(* The other program is not touched.                                       *)
LeavesOther(p) ==
    \A q \in Programs \ {p} : /\ certs'[q] = certs[q] /\ phase'[q] = phase[q] /\ at'[q] = at[q]
                              /\ Has(q)' = Has(q)

(* The invariant, for a step of p that leaves the other program alone:     *)
(* what the files and p itself have left to show.                          *)
LEMMA StoreInvKept ==
    ASSUME StoreInv, StoreTypes', keys <= keys', NEW p \in Programs, LeavesOther(p),
           \A i \in 1..6 : file'[i].state = "whole" =>
               file'[i] = file[i] \/ file'[i].value \in Contents(i)',
           \A i \in Has(p)' : certs'[p][i] \in Loaded(i)',
           phase'[p] = "write" => (certs[p][at[p]] \in Contents(at[p]))',
           phase'[p] = "up" => Accepts(p, Identity(p)')
    PROVE  StoreInv'
<1>1. keys \in Nat /\ keys' \in Nat
  BY CertStoreAssumption DEF StoreInv, StoreTypes
<1>2. \A i \in 1..6 : Contents(i) \subseteq Contents(i)' /\ Loaded(i) \subseteq Loaded(i)'
  BY <1>1, ContentsGrow
<1>3. WholeHolds'
  BY <1>2 DEF StoreInv, WholeHolds
<1>4. \A q \in Programs : Has(q) \subseteq 1..6 /\ at[q] \in 1..6
  BY DEF StoreInv, StoreTypes, Has
<1>5. GotLoaded'
  BY <1>2, <1>4 DEF StoreInv, GotLoaded, LeavesOther
<1>6. WritesOwn'
  <2> SUFFICES ASSUME NEW q \in Programs, q # p, phase'[q] = "write"
               PROVE  (certs[q][at[q]] \in Contents(at[q]))'
    BY DEF WritesOwn
  <2>1. PICK i \in 1..6 : i = at[q] /\ i = at'[q] /\ certs'[q] = certs[q] /\ phase[q] = "write"
    BY <1>4 DEF LeavesOther
  <2>2. certs[q][i] \in Contents(i)
    BY <2>1 DEF StoreInv, WritesOwn
  <2> QED
    BY <1>2, <2>1, <2>2
<1>7. UpAccepted'
  BY DEF StoreInv, UpAccepted, LeavesOther, Identity
<1> QED
  BY <1>3, <1>5, <1>6, <1>7 DEF StoreInv

(* Going on to the next file: the program is done with one more.           *)
LEMMA ProceedsEffect ==
    ASSUME StoreTypes, NEW p \in Programs, Loading(p), NEW v \in Values, Proceeds(p, v)
    PROVE  /\ certs' \in [Programs -> [1..6 -> Values]] /\ phase' \in [Programs -> Phases]
           /\ at' \in [Programs -> 1..6] /\ LeavesOther(p)
           /\ Has(p)' = Has(p) \cup {at[p]} /\ Has(p) = 1..(at[p] - 1)
           /\ \A i \in 1..6 : certs'[p][i] = IF i = at[p] THEN v ELSE certs[p][i]
           /\ phase'[p] \in {"stat", "setup"}
<1>1. /\ certs \in [Programs -> [1..6 -> Values]] /\ phase \in [Programs -> Phases]
      /\ at \in [Programs -> 1..6] /\ at[p] \in 1..6
  BY DEF StoreTypes
<1>2. /\ certs' = [certs EXCEPT ![p][at[p]] = v] /\ certs' \in [Programs -> [1..6 -> Values]]
  BY <1>1 DEF Proceeds
<1>3. \A i \in 1..6 : certs'[p][i] = IF i = at[p] THEN v ELSE certs[p][i]
  BY <1>1, <1>2
<1>4. Has(p) = 1..(at[p] - 1)
  BY DEF Has
<1>5. \/ at[p] = 6 /\ phase' = [phase EXCEPT ![p] = "setup"] /\ at' = at
      \/ /\ at[p] \in 1..5 /\ phase' = [phase EXCEPT ![p] = "stat"]
         /\ at' = [at EXCEPT ![p] = at[p] + 1]
  BY <1>1, SixFiles DEF Proceeds
<1>6. phase' \in [Programs -> Phases] /\ at' \in [Programs -> 1..6]
  BY <1>1, <1>5 DEF Phases
<1>7. phase'[p] \in {"stat", "setup"} /\ Has(p)' = Has(p) \cup {at[p]}
  <2>1. CASE at[p] = 6 /\ phase' = [phase EXCEPT ![p] = "setup"] /\ at' = at
    <3>1. Has(p)' = 1..6
      BY <1>1, <2>1 DEF Has, Loading
    <3> QED
      BY <1>1, <1>4, <2>1, <3>1
  <2>2. CASE /\ at[p] \in 1..5 /\ phase' = [phase EXCEPT ![p] = "stat"]
             /\ at' = [at EXCEPT ![p] = at[p] + 1]
    <3>1. Has(p)' = 1..(at[p] + 1 - 1)
      BY <1>1, <2>2 DEF Has, Loading
    <3> QED
      BY <1>1, <1>4, <2>2, <3>1
  <2> QED
    BY <1>5, <2>1, <2>2
<1>8. LeavesOther(p)
  BY <1>1, <1>2, <1>5 DEF LeavesOther, Has, Loading
<1> QED
  BY <1>2, <1>3, <1>4, <1>6, <1>7, <1>8

(* Giving up or dying: the program forgets everything.                     *)
LEMMA StopsEffect ==
    ASSUME StoreTypes, NEW p \in Programs, NEW to \in {"off", "failed"},
           phase' = [phase EXCEPT ![p] = to], certs' = [certs EXCEPT ![p] = Nothing],
           at' = [at EXCEPT ![p] = 1]
    PROVE  /\ certs' \in [Programs -> [1..6 -> Values]] /\ phase' \in [Programs -> Phases]
           /\ at' \in [Programs -> 1..6] /\ LeavesOther(p)
           /\ Has(p)' = {} /\ phase'[p] = to
<1>1. /\ certs \in [Programs -> [1..6 -> Values]] /\ phase \in [Programs -> Phases]
      /\ at \in [Programs -> 1..6]
  BY DEF StoreTypes
<1>2. Nothing \in [1..6 -> Values]
  BY SixFiles DEF Nothing, Values
<1>3. phase' \in [Programs -> Phases] /\ phase'[p] = to
  BY <1>1 DEF Phases
<1>4. Has(p)' = {}
  BY <1>3 DEF Has, Loading
<1>5. LeavesOther(p)
  BY <1>1 DEF LeavesOther, Has, Loading
<1> QED
  BY <1>1, <1>2, <1>3, <1>4, <1>5

(* Opening a file to write it.                                             *)
LEMMA OpensEffect ==
    ASSUME StoreTypes, NEW p \in Programs, phase[p] = "create", NEW v \in Values, Opens(p, v)
    PROVE  /\ file' \in [1..6 -> {Absent, Torn, Garbled} \cup {Whole(w) : w \in Values}]
           /\ certs' \in [Programs -> [1..6 -> Values]] /\ phase' \in [Programs -> Phases]
           /\ at' \in [Programs -> 1..6] /\ LeavesOther(p)
           /\ Has(p)' = Has(p) /\ Has(p) = 1..(at[p] - 1) /\ phase'[p] = "write" /\ at' = at
           /\ \A i \in 1..6 : certs'[p][i] = IF i = at[p] THEN v ELSE certs[p][i]
           /\ \A i \in 1..6 : file'[i] = IF i = at[p] THEN Torn ELSE file[i]
<1>1. /\ certs \in [Programs -> [1..6 -> Values]] /\ phase \in [Programs -> Phases]
      /\ at \in [Programs -> 1..6] /\ at[p] \in 1..6
      /\ file \in [1..6 -> {Absent, Torn, Garbled} \cup {Whole(w) : w \in Values}]
  BY DEF StoreTypes
<1>2. /\ certs' = [certs EXCEPT ![p][at[p]] = v] /\ certs' \in [Programs -> [1..6 -> Values]]
  BY <1>1 DEF Opens
<1>3. \A i \in 1..6 : certs'[p][i] = IF i = at[p] THEN v ELSE certs[p][i]
  BY <1>1, <1>2
<1>4. phase' = [phase EXCEPT ![p] = "write"] /\ at' = at
  BY DEF Opens
<1>5. phase' \in [Programs -> Phases] /\ phase'[p] = "write"
  BY <1>1, <1>4 DEF Phases
<1>6. Has(p)' = Has(p) /\ Has(p) = 1..(at[p] - 1)
  BY <1>4, <1>5 DEF Has, Loading
<1>7. LeavesOther(p)
  BY <1>1, <1>2, <1>4 DEF LeavesOther, Has, Loading
<1>8. /\ file' \in [1..6 -> {Absent, Torn, Garbled} \cup {Whole(w) : w \in Values}]
      /\ \A i \in 1..6 : file'[i] = IF i = at[p] THEN Torn ELSE file[i]
  BY <1>1 DEF Opens
<1> QED
  BY <1>1, <1>2, <1>3, <1>4, <1>5, <1>6, <1>7, <1>8

(* A certificate that is made is one of those a file may hold.             *)
LEMMA CreatedHolds ==
    ASSUME StoreInv, NEW p \in Programs, phase[p] = "create", ~IsKey(at[p])
    PROVE  Created(certs[p], at[p]) = Failed \/ Created(certs[p], at[p]) \in Contents(at[p])
<1>1. at[p] \in {2, 4, 6} /\ keys \in Nat
  BY SixFiles, CertStoreAssumption DEF StoreInv, StoreTypes
<1>2. \A i \in 1..(at[p] - 1) : certs[p][i] \in Loaded(i)
  BY DEF StoreInv, GotLoaded, Has, Loading
<1>3. PICK c : c = certs[p]
  OBVIOUS
<1>4. c[1] \in 1..keys
  <2>1. c[1] \in Loaded(1)
    BY <1>1, <1>2, <1>3
  <2> QED
    BY <2>1 DEF Loaded, Contents, IsKey
<1>5. CASE at[p] = 2
  <2>1. Created(c, 2) = RootCert(c[1])
    BY <1>1, <1>4, CreatedRoot
  <2> QED
    BY <1>3, <1>4, <1>5, <2>1 DEF Contents, IsKey
<1>6. ASSUME at[p] \in {4, 6} PROVE c[2] = Corrupt \/ \E k \in 1..keys : c[2] = RootCert(k)
  <2>1. c[2] \in Loaded(2)
    BY <1>2, <1>3, <1>6
  <2> QED
    BY <2>1 DEF Loaded, Contents, IsKey
<1>7. CASE at[p] = 4
  <2>1. c[3] \in 1..keys
    BY <1>1, <1>2, <1>3, <1>7 DEF Loaded, Contents, IsKey
  <2>2. CASE c[2] = Corrupt
    BY <1>3, <1>7, <2>2 DEF Created, CreateCertificate
  <2>3. ASSUME NEW k \in 1..keys, c[2] = RootCert(k)
        PROVE  Created(c, 4) = Failed \/ Created(c, 4) \in Contents(4)
    <3>1. Created(c, 4) = IF k = c[1] THEN ServerCert(k, c[3]) ELSE Failed
      BY <1>1, <1>4, <2>1, <2>3, CreatedServer
    <3> QED
      BY <2>1, <3>1 DEF Contents, IsKey
  <2> QED
    BY <1>3, <1>6, <1>7, <2>2, <2>3
<1>8. CASE at[p] = 6
  <2>1. c[5] \in 1..keys
    BY <1>1, <1>2, <1>3, <1>8 DEF Loaded, Contents, IsKey
  <2>2. CASE c[2] = Corrupt
    BY <1>3, <1>8, <2>2 DEF Created, CreateCertificate
  <2>3. ASSUME NEW k \in 1..keys, c[2] = RootCert(k)
        PROVE  Created(c, 6) = Failed \/ Created(c, 6) \in Contents(6)
    <3>1. Created(c, 6) = IF k = c[1] THEN ClientCert(k, c[5]) ELSE Failed
      BY <1>1, <1>4, <2>1, <2>3, CreatedClient
    <3> QED
      BY <2>1, <3>1 DEF Contents, IsKey
  <2> QED
    BY <1>3, <1>6, <1>8, <2>2, <2>3
<1> QED
  BY <1>1, <1>5, <1>7, <1>8

(* Every step of a program keeps the invariant.                            *)
LEMMA StoreInvStep ==
    ASSUME StoreInv, NEW p \in Programs, Starts(p) \/ ProgramStep(p) \/ Dies(p)
    PROVE  StoreInv'
<1>1. /\ file \in [1..6 -> {Absent, Torn, Garbled} \cup {Whole(w) : w \in Values}]
      /\ certs \in [Programs -> [1..6 -> Values]] /\ phase \in [Programs -> Phases]
      /\ at \in [Programs -> 1..6] /\ keys \in 0..MaxKeys /\ starts \in 0..MaxStarts
      /\ overlapped \in BOOLEAN /\ MaxKeys \in Nat /\ MaxStarts \in Nat /\ keys \in Nat
  BY CertStoreAssumption DEF StoreInv, StoreTypes
<1>2. at[p] \in 1..6
  BY <1>1
<1>3. \A i \in Has(p) : certs[p][i] \in Loaded(i)
  BY DEF StoreInv, GotLoaded
<1>4. ASSUME keys' = keys PROVE \A i \in 1..6 : Contents(i)' = Contents(i) /\ Loaded(i)' = Loaded(i)
  BY <1>4 DEF Contents, Loaded
<1>5. Has(p) \subseteq 1..6 /\ StoreTypes
  BY <1>2 DEF Has, StoreInv
<1>6. CASE Starts(p)
  <2>1. /\ phase' = [phase EXCEPT ![p] = "stat"] /\ at' = [at EXCEPT ![p] = 1]
        /\ UNCHANGED <<file, certs, keys>> /\ starts' \in 0..MaxStarts /\ overlapped' \in BOOLEAN
    BY <1>1, <1>6 DEF Starts
  <2>2. phase'[p] = "stat" /\ at'[p] = 1
    BY <1>1, <2>1
  <2>3. Has(p)' = {}
    BY <2>2 DEF Has, Loading
  <2>4. StoreTypes'
    BY <1>1, <2>1 DEF StoreTypes, Phases
  <2>5. LeavesOther(p)
    BY <1>1, <2>1 DEF LeavesOther, Has, Loading
  <2> QED
    BY <1>1, <2>1, <2>2, <2>3, <2>4, <2>5, StoreInvKept
<1>7. CASE Stats(p)
  <2>1. PICK to \in {"create", "read"} : phase' = [phase EXCEPT ![p] = to]
    BY <1>7 DEF Stats
  <2>2. phase[p] = "stat" /\ UNCHANGED <<file, at, certs, keys, starts, overlapped>>
    BY <1>7 DEF Stats
  <2>3. phase'[p] = to
    BY <1>1, <2>1
  <2>4. StoreTypes'
    BY <1>1, <2>1, <2>2 DEF StoreTypes, Phases
  <2>5. LeavesOther(p) /\ Has(p)' = Has(p)
    BY <1>1, <2>1, <2>2, <2>3 DEF LeavesOther, Has, Loading
  <2>6. \A i \in Has(p)' : certs'[p][i] \in Loaded(i)'
    BY <1>3, <1>4, <1>5, <2>2, <2>5
  <2> QED
    BY <1>1, <2>2, <2>3, <2>4, <2>5, <2>6, StoreInvKept
<1>8. ASSUME NEW v \in Values, v \in Loaded(at[p]), phase[p] \in {"read", "write"}, Proceeds(p, v),
             UNCHANGED <<keys, starts, overlapped>>,
             file' \in [1..6 -> {Absent, Torn, Garbled} \cup {Whole(w) : w \in Values}],
             \A i \in 1..6 : file'[i].state = "whole" =>
                 file'[i] = file[i] \/ file'[i].value \in Contents(i)
      PROVE  StoreInv'
  <2>1. Loading(p) /\ Proceeds(p, v)
    BY <1>8 DEF Loading
  <2>2. /\ certs' \in [Programs -> [1..6 -> Values]] /\ phase' \in [Programs -> Phases]
        /\ at' \in [Programs -> 1..6] /\ LeavesOther(p)
        /\ Has(p)' = Has(p) \cup {at[p]}
        /\ \A i \in 1..6 : certs'[p][i] = IF i = at[p] THEN v ELSE certs[p][i]
        /\ phase'[p] \in {"stat", "setup"}
    BY <1>5, <2>1, ProceedsEffect
  <2>3. StoreTypes'
    BY <1>1, <1>8, <2>2 DEF StoreTypes
  <2>4. \A i \in Has(p)' : certs'[p][i] \in Loaded(i)'
    BY <1>2, <1>3, <1>4, <1>5, <1>8, <2>2
  <2> QED
    BY <1>1, <1>4, <1>8, <2>2, <2>3, <2>4, StoreInvKept
<1>9. ASSUME NEW to \in {"off", "failed"}, phase' = [phase EXCEPT ![p] = to],
             certs' = [certs EXCEPT ![p] = Nothing], at' = [at EXCEPT ![p] = 1],
             UNCHANGED <<file, keys, starts, overlapped>>
      PROVE  StoreInv'
  <2>1. /\ certs' \in [Programs -> [1..6 -> Values]] /\ phase' \in [Programs -> Phases]
        /\ at' \in [Programs -> 1..6] /\ LeavesOther(p)
        /\ Has(p)' = {} /\ phase'[p] = to
    BY <1>5, <1>9, StopsEffect
  <2>2. StoreTypes'
    BY <1>1, <1>9, <2>1 DEF StoreTypes
  <2> QED
    BY <1>1, <1>9, <2>1, <2>2, StoreInvKept
<1>10. CASE Reads(p)
  <2>1. phase[p] = "read" /\ UNCHANGED <<file, keys, starts, overlapped>>
    BY <1>10 DEF Reads
  <2>2. CASE file[at[p]].state = "whole" /\ Proceeds(p, file[at[p]].value)
    <3>1. file[at[p]].value \in Contents(at[p])
      BY <1>2, <2>2 DEF StoreInv, WholeHolds
    <3>2. PICK v : v = file[at[p]].value /\ v \in Values /\ v \in Loaded(at[p])
      BY <1>1, <1>2, <3>1, ContentsTyped
    <3> QED
      BY <1>1, <1>8, <2>1, <2>2, <3>2
  <2>3. CASE Fails(p)
    BY <1>9, <2>1, <2>3 DEF Fails
  <2>4. CASE ~IsKey(at[p]) /\ Proceeds(p, Corrupt)
    <3>1. Corrupt \in Values /\ Corrupt \in Loaded(at[p])
      BY <2>4 DEF Values, Loaded
    <3> QED
      BY <1>1, <1>8, <2>1, <2>4, <3>1
  <2> QED
    BY <1>10, <2>2, <2>3, <2>4 DEF Reads
<1>11. ASSUME NEW v \in Values, (v \in Contents(at[p]))', phase[p] = "create", Opens(p, v),
              keys' \in 0..MaxKeys, keys <= keys', UNCHANGED <<starts, overlapped>>
       PROVE  StoreInv'
  <2>1. /\ file' \in [1..6 -> {Absent, Torn, Garbled} \cup {Whole(w) : w \in Values}]
        /\ certs' \in [Programs -> [1..6 -> Values]] /\ phase' \in [Programs -> Phases]
        /\ at' \in [Programs -> 1..6] /\ LeavesOther(p)
        /\ Has(p)' = Has(p) /\ Has(p) = 1..(at[p] - 1) /\ phase'[p] = "write" /\ at' = at
        /\ \A i \in 1..6 : certs'[p][i] = IF i = at[p] THEN v ELSE certs[p][i]
        /\ \A i \in 1..6 : file'[i] = IF i = at[p] THEN Torn ELSE file[i]
    BY <1>5, <1>11, OpensEffect
  <2>2. StoreTypes'
    BY <1>1, <1>11, <2>1 DEF StoreTypes
  <2>3. \A i \in 1..6 : Loaded(i) \subseteq Loaded(i)'
    BY <1>1, <1>11, ContentsGrow
  <2>4. \A i \in Has(p)' : certs'[p][i] \in Loaded(i)'
    BY <1>2, <1>3, <1>5, <2>1, <2>3
  <2>5. \A i \in 1..6 : file'[i].state = "whole" => file'[i] = file[i]
    BY <2>1, SlotStates
  <2>6. (certs[p][at[p]] \in Contents(at[p]))'
    BY <1>2, <1>11, <2>1
  <2> QED
    BY <1>11, <2>1, <2>2, <2>4, <2>5, <2>6, StoreInvKept
<1>12. CASE CreatesKey(p)
  <2>1. /\ phase[p] = "create" /\ IsKey(at[p]) /\ keys' = keys + 1 /\ keys' \in 0..MaxKeys
        /\ Opens(p, keys') /\ at' = at /\ UNCHANGED <<starts, overlapped>>
    BY <1>1, <1>12 DEF CreatesKey, Opens
  <2>2. PICK v : v = keys' /\ v \in Values /\ v \in 1..keys' /\ keys <= keys'
    BY <1>1, <2>1 DEF Values
  <2>3. (v \in Contents(at[p]))'
    BY <2>1, <2>2 DEF Contents
  <2> QED
    BY <1>11, <2>1, <2>2, <2>3
<1>13. CASE CreatesCert(p)
  <2>1. phase[p] = "create" /\ ~IsKey(at[p]) /\ UNCHANGED <<keys, starts, overlapped>>
    BY <1>13 DEF CreatesCert
  <2>2. PICK v : v = Created(certs[p], at[p])
    OBVIOUS
  <2>3. v = Failed \/ v \in Contents(at[p])
    BY <2>1, <2>2, CreatedHolds
  <2>4. CASE v = Failed
    BY <1>9, <1>13, <2>1, <2>2, <2>4 DEF CreatesCert, Fails
  <2>5. CASE v # Failed
    <3>1. Opens(p, v) /\ at' = at
      BY <1>13, <2>2, <2>5 DEF CreatesCert, Opens
    <3>2. v \in Values
      BY <1>1, <1>2, <2>3, <2>5, ContentsTyped
    <3>3. (v \in Contents(at[p]))'
      BY <1>2, <1>4, <2>1, <2>3, <2>5, <3>1
    <3> QED
      BY <1>1, <1>11, <2>1, <3>1, <3>2, <3>3
  <2> QED
    BY <2>4, <2>5
<1>14. CASE Writes(p)
  <2>1. phase[p] = "write" /\ UNCHANGED <<keys, starts, overlapped>> /\ Proceeds(p, certs[p][at[p]])
    BY <1>14 DEF Writes
  <2>2. PICK v : v = certs[p][at[p]] /\ v \in Contents(at[p]) /\ v \in Values /\ v \in Loaded(at[p])
    BY <1>1, <1>2, <2>1, ContentsTyped DEF StoreInv, WritesOwn
  <2>3. \/ file' = [file EXCEPT ![at[p]] = Whole(v)]
        \/ file' = [file EXCEPT ![at[p]] = Garbled]
        \/ file' = file
    BY <1>14, <2>2 DEF Writes
  <2>4. file' \in [1..6 -> {Absent, Torn, Garbled} \cup {Whole(w) : w \in Values}]
    BY <1>1, <2>2, <2>3
  <2>5. \A i \in 1..6 : file'[i].state = "whole" =>
            file'[i] = file[i] \/ file'[i].value \in Contents(i)
    BY <1>1, <1>2, <2>2, <2>3, SlotStates
  <2> QED
    BY <1>8, <2>1, <2>2, <2>4, <2>5
<1>15. CASE SetsUp(p)
  <2>1. phase[p] = "setup" /\ UNCHANGED <<file, keys, starts, overlapped>>
    BY <1>15 DEF SetsUp
  <2>2. CASE Accepts(p, Identity(p))
    <3>1. phase' = [phase EXCEPT ![p] = "up"] /\ UNCHANGED <<at, certs>>
      BY <1>15, <2>2 DEF SetsUp
    <3>2. phase'[p] = "up"
      BY <1>1, <3>1
    <3>3. StoreTypes'
      BY <1>1, <2>1, <3>1 DEF StoreTypes, Phases
    <3>4. LeavesOther(p) /\ Has(p)' = Has(p)
      BY <1>1, <2>1, <3>1, <3>2 DEF LeavesOther, Has, Loading
    <3>5. \A i \in Has(p)' : certs'[p][i] \in Loaded(i)'
      BY <1>3, <1>4, <1>5, <2>1, <3>1, <3>4
    <3>6. Identity(p)' = Identity(p)
      BY <3>1 DEF Identity
    <3> QED
      BY <1>1, <2>1, <2>2, <3>2, <3>3, <3>4, <3>5, <3>6, StoreInvKept
  <2>3. CASE ~Accepts(p, Identity(p))
    BY <1>9, <1>15, <2>1, <2>3 DEF SetsUp, Fails
  <2> QED
    BY <2>2, <2>3
<1>16. CASE Dies(p)
  BY <1>9, <1>16 DEF Dies
<1> QED
  BY <1>6, <1>7, <1>10, <1>12, <1>13, <1>14, <1>15, <1>16 DEF ProgramStep

(* It holds of an empty directory, ...                                     *)
LEMMA StoreInvInit == StoreInit => StoreInv
<1> SUFFICES ASSUME StoreInit PROVE StoreInv
  OBVIOUS
<1>1. StoreTypes
  <2>1. Nothing \in [1..6 -> Values]
    BY SixFiles DEF Nothing, Values
  <2>2. certs \in [Programs -> [1..6 -> Values]]
    BY <2>1 DEF StoreInit
  <2>3. phase \in [Programs -> Phases] /\ at \in [Programs -> 1..6]
    BY DEF StoreInit, Phases
  <2>4. file \in [1..6 -> {Absent, Torn, Garbled} \cup {Whole(w) : w \in Values}]
    BY SixFiles DEF StoreInit
  <2>5. keys \in 0..MaxKeys /\ starts \in 0..MaxStarts /\ overlapped \in BOOLEAN
    <3>1. keys = 0 /\ starts = 0
      BY DEF StoreInit
    <3>2. overlapped \in BOOLEAN
      BY Zenon DEF StoreInit
    <3> QED
      BY <3>1, <3>2, CertStoreAssumption
  <2> QED
    BY <2>2, <2>3, <2>4, <2>5 DEF StoreTypes
<1>2. WholeHolds
  BY SixFiles, SlotStates DEF StoreInit, WholeHolds
<1>3. GotLoaded /\ WritesOwn /\ UpAccepted
  BY DEF StoreInit, GotLoaded, WritesOwn, UpAccepted, Has, Loading
<1> QED
  BY <1>1, <1>2, <1>3 DEF StoreInv

(* ... and every step keeps it.                                            *)
LEMMA StoreInvNext == StoreInv /\ [StoreNext]_storeVars => StoreInv'
<1> SUFFICES ASSUME StoreInv, [StoreNext]_storeVars PROVE StoreInv'
  OBVIOUS
<1>1. CASE \E p \in Programs : Starts(p) \/ ProgramStep(p) \/ Dies(p)
  BY <1>1, StoreInvStep
<1>2. CASE UNCHANGED <<file, phase, at, certs, keys, starts, overlapped>>
  <2>1. \A i \in 1..6 : Contents(i)' = Contents(i) /\ Loaded(i)' = Loaded(i)
    BY <1>2 DEF Contents, Loaded
  <2>2. \A p \in Programs : Has(p)' = Has(p) /\ Identity(p)' = Identity(p)
    BY <1>2 DEF Has, Loading, Identity
  <2>3. \A p \in Programs : Has(p) \subseteq 1..6 /\ at[p] \in 1..6
    <3>1. \A p \in Programs : at[p] \in 1..6
      BY DEF StoreInv, StoreTypes
    <3> QED
      BY <3>1 DEF Has
  <2>4. StoreTypes' /\ WholeHolds'
    BY <1>2, <2>1 DEF StoreInv, StoreTypes, WholeHolds
  <2>5. GotLoaded'
    BY <1>2, <2>1, <2>2, <2>3 DEF StoreInv, GotLoaded
  <2>6. WritesOwn'
    BY <1>2, <2>1, <2>3 DEF StoreInv, WritesOwn
  <2>7. UpAccepted'
    BY <1>2, <2>2 DEF StoreInv, UpAccepted
  <2> QED
    BY <2>4, <2>5, <2>6, <2>7 DEF StoreInv
<1> QED
  BY <1>1, <1>2 DEF StoreNext, Issues, storeVars

(* The directory and the programs' state are of the types declared, and    *)
(* keys are keys: what is read back as a key was generated as one          *)
(* (LoadOrCreate, Key.FromFile).                                           *)
THEOREM StoreTypeCorrect == StoreSpec => []StoreTypeOK
<1>1. StoreInv => StoreTypeOK
  <2> SUFFICES ASSUME StoreInv PROVE StoreTypeOK
    OBVIOUS
  <2>1. StoreTypes /\ keys \in Nat
    BY CertStoreAssumption DEF StoreInv, StoreTypes
  <2>2. \A i \in 1..6 : /\ file[i].state \in {"absent", "torn", "garbled", "whole"}
                        /\ IsKey(i) /\ file[i].state = "whole" => file[i].value \in 1..keys
    <3>1. \A i \in 1..6 : file[i].state \in {"absent", "torn", "garbled", "whole"}
      BY <2>1, SlotStates DEF StoreTypes
    <3>2. ASSUME NEW i \in 1..6, IsKey(i), file[i].state = "whole" PROVE file[i].value \in 1..keys
      BY <2>1, <3>2, ContentsTyped DEF StoreInv, WholeHolds
    <3> QED
      BY <3>1, <3>2
  <2>3. ASSUME NEW p \in Programs, phase[p] = "up", NEW i \in 1..6, IsKey(i)
        PROVE  certs[p][i] \in 1..keys
    <3>1. certs[p][i] \in Loaded(i)
      BY <2>3 DEF StoreInv, GotLoaded, Has, Loading
    <3>2. certs[p][i] \in Contents(i)
      BY <2>3, <3>1 DEF Loaded
    <3> QED
      BY <2>1, <2>3, <3>2, ContentsTyped
  <2> QED
    BY <2>1, <2>2, <2>3, SixFiles DEF StoreTypeOK, StoreTypes
<1> QED
  BY <1>1, StoreInvInit, StoreInvNext, PTL DEF StoreSpec

(* Whatever two programs did to the directory at once, one that comes up   *)
(* presents a certificate of its own key and type, signed by a key that    *)
(* was generated (Certificate.Validate, Certificate.Type).                 *)
THEOREM UpIsSoundHolds == StoreSpec => []UpIsSound
<1>1. StoreInv => UpIsSound
  <2> SUFFICES ASSUME StoreInv, NEW p \in Programs, phase[p] = "up"
               PROVE  /\ Identity(p).cert.publicKey = Identity(p).key
                      /\ Identity(p).cert.extKeyUsage = <<p>>
                      /\ ~Identity(p).cert.certSign /\ Identity(p).cert.signer \in 1..keys
    BY DEF UpIsSound
  <2>1. keys \in Nat /\ Accepts(p, Identity(p))
    BY CertStoreAssumption DEF StoreInv, StoreTypes, UpAccepted
  <2>2. PICK i \in {4, 6} : i = (IF p = "Server" THEN 4 ELSE 6) /\ Identity(p).cert = certs[p][i]
    BY DEF Identity
  <2>3. PICK c : c = certs[p][i] /\ c \in Loaded(i)
    BY DEF StoreInv, GotLoaded, Has, Loading
  <2>4. c # Corrupt /\ c.publicKey = Identity(p).key
    BY <2>1, <2>2, <2>3 DEF Accepts, Validate
  <2>5. c \in Contents(i)
    BY <2>3, <2>4 DEF Loaded
  <2>6. CASE p = "Server"
    <3>1. PICK k \in 1..keys, s \in 1..keys : c = ServerCert(k, s)
      BY <2>1, <2>2, <2>5, <2>6, ContentsTyped
    <3>2. c.extKeyUsage = <<"Server">> /\ c.certSign = FALSE /\ c.signer = k
      BY <3>1 DEF ServerCert
    <3> QED
      BY <2>2, <2>3, <2>4, <2>6, <3>2
  <2>7. CASE p = "Client"
    <3>1. PICK k \in 1..keys, s \in 1..keys : c = ClientCert(k, s)
      BY <2>1, <2>2, <2>5, <2>7, ContentsTyped
    <3>2. c.extKeyUsage = <<"Client">> /\ c.certSign = FALSE /\ c.signer = k
      BY <3>1 DEF ClientCert
    <3> QED
      BY <2>2, <2>3, <2>4, <2>7, <3>2
  <2> QED
    BY <2>6, <2>7 DEF Programs
<1> QED
  BY <1>1, StoreInvInit, StoreInvNext, PTL DEF StoreSpec

----------------------------------------------------------------------------
(* A step that leaves the files alone.                                     *)
LEMMA FilesKept ==
    ASSUME InOneHand, NEW p \in Programs, LeavesOther(p), file' = file,
           \A i \in Has(p)' : file[i] = Whole(certs'[p][i]),
           phase'[p] # "write",
           phase'[p] = "read" => file[at'[p]] # Absent,
           phase'[p] = "create" => file[at'[p]] = Absent,
           Loading(p)' => \A q \in Programs \ {p} : Loading(q) =>
               \A i \in 1..6 : file[i].state = "whole",
           phase'[p] = "failed" => /\ \E i \in 1..6 : file[i] = Torn
                                   /\ \A q \in Programs \ {p} : phase[q] # "write"
    PROVE  InOneHand'
<1> USE DEF InOneHand
<1>1. OneByOne' /\ Consistent'
  BY DEF OneByOne, Consistent
<1>2. GotFiles'
  BY DEF GotFiles, LeavesOther
<1>3. \A q \in Programs \ {p} : Loading(q)' = Loading(q)
  BY DEF Loading, LeavesOther
<1>4. MakesMissing'
  <2>1. \A q \in Programs : /\ phase'[q] = "read" => file'[at'[q]] # Absent
                            /\ phase'[q] = "create" => file'[at'[q]] = Absent
                            /\ phase'[q] = "write" => file'[at'[q]] = Torn
    BY DEF MakesMissing, LeavesOther
  <2>2. ASSUME NEW q \in Programs, NEW r \in Programs, q # r, Loading(q)', Loading(r)'
        PROVE  \A i \in 1..6 : file'[i].state = "whole"
    BY <1>3, <2>2 DEF MakesMissing
  <2> QED
    BY <2>1, <2>2 DEF MakesMissing
<1>5. WritesMatch'
  BY DEF WritesMatch, LeavesOther, Matches
<1>6. FailsTorn'
  BY DEF FailsTorn, LeavesOther
<1> QED
  BY <1>1, <1>2, <1>4, <1>5, <1>6

(* The program that makes a file is the only one there, the ones before it *)
(* are whole and the ones behind it missing.                               *)
LEMMA MakesAlone ==
    ASSUME StoreTypes, InOneHand, NEW p \in Programs, phase[p] \in {"create", "write"}
    PROVE  /\ \A i \in 1..(at[p] - 1) : file[i] = Whole(certs[p][i])
           /\ \A i \in (at[p] + 1)..6 : file[i] = Absent
           /\ file[at[p]].state # "whole"
           /\ \A q \in Programs \ {p} : ~Loading(q) /\ Has(q) = {}
           /\ \A q \in Programs : phase[q] # "failed"
<1>1. at[p] \in 1..6 /\ Loading(p)
  BY DEF StoreTypes, Loading
<1>2. file[at[p]].state # "whole" /\ (phase[p] = "create" => file[at[p]] = Absent)
  BY SlotStates DEF InOneHand, MakesMissing
<1>3. \A i \in 1..(at[p] - 1) : file[i] = Whole(certs[p][i])
  BY <1>1 DEF InOneHand, GotFiles, Has
<1>4. \A i \in (at[p] + 1)..6 : file[i] = Absent
  BY <1>1, <1>2 DEF InOneHand, OneByOne
<1>5. ASSUME NEW q \in Programs, q # p PROVE ~Loading(q) /\ Has(q) = {}
  <2>1. ~Loading(q)
    BY <1>1, <1>2, <1>5 DEF InOneHand, MakesMissing
  <2>2. phase[q] \notin {"setup", "up"}
    <3> SUFFICES ASSUME phase[q] \in {"setup", "up"} PROVE FALSE
      OBVIOUS
    <3>1. Has(q) = 1..6
      BY <2>1 DEF Has
    <3> QED
      BY <1>1, <1>2, <3>1, SlotStates DEF InOneHand, GotFiles
  <2> QED
    BY <2>1, <2>2 DEF Has
<1>6. ASSUME NEW q \in Programs, phase[q] = "failed" PROVE FALSE
  <2>1. PICK i \in 1..6 : file[i] = Torn
    BY <1>6 DEF InOneHand, FailsTorn
  <2>2. phase[p] = "create"
    BY <1>6 DEF InOneHand, FailsTorn
  <2>3. file[i].state = "torn" /\ file[i] # Absent
    BY <2>1, SlotStates
  <2>4. i \in 1..(at[p] - 1) \/ i = at[p] \/ i \in (at[p] + 1)..6
    BY <1>1
  <2> QED
    BY <1>2, <1>3, <1>4, <2>2, <2>3, <2>4, SlotStates
<1> QED
  BY <1>2, <1>3, <1>4, <1>5, <1>6

(* A program that opens a file leaves it torn until it has written it.     *)
LEMMA OpensInOneHand ==
    ASSUME StoreTypes, InOneHand, NEW p \in Programs, phase[p] = "create",
           NEW v \in Values, Opens(p, v), Matches(certs[p], at[p])'
    PROVE  InOneHand'
<1>1. /\ LeavesOther(p) /\ Has(p)' = Has(p) /\ Has(p) = 1..(at[p] - 1)
      /\ phase'[p] = "write" /\ at' = at
      /\ \A i \in 1..6 : certs'[p][i] = IF i = at[p] THEN v ELSE certs[p][i]
      /\ \A i \in 1..6 : file'[i] = IF i = at[p] THEN Torn ELSE file[i]
  BY OpensEffect
<1>2. /\ \A i \in 1..(at[p] - 1) : file[i] = Whole(certs[p][i])
      /\ \A i \in (at[p] + 1)..6 : file[i] = Absent
      /\ \A q \in Programs \ {p} : ~Loading(q) /\ Has(q) = {}
      /\ \A q \in Programs : phase[q] # "failed"
  BY MakesAlone
<1>3. PICK n \in 1..6 : n = at[p]
  BY DEF StoreTypes
<1>4. /\ \A i \in 1..(n - 1) : file'[i] = Whole(certs[p][i]) /\ certs'[p][i] = certs[p][i]
      /\ file'[n] = Torn
      /\ \A i \in (n + 1)..6 : file'[i] = Absent
  BY <1>1, <1>2, <1>3, SMTT(30)
<1>5. \A i \in 1..6 : i \in 1..(n - 1) \/ i = n \/ i \in (n + 1)..6
  OBVIOUS
<1>6. OneByOne'
  <2>1. \A i \in 1..6 : file'[i] # Garbled
    BY <1>4, <1>5, SlotStates
  <2>2. \A i \in 1..6 : file'[i] # Absent => i \in 1..n
    BY <1>4, <1>5
  <2>3. \A i \in 1..n : \A j \in 1..(i - 1) : j \in 1..(n - 1)
    OBVIOUS
  <2>4. \A j \in 1..(n - 1) : file'[j].state = "whole"
    BY <1>4, SlotStates
  <2> QED
    BY <2>1, <2>2, <2>3, <2>4 DEF OneByOne
<1>7. GotFiles'
  BY <1>1, <1>2, <1>3, <1>4 DEF GotFiles, LeavesOther
<1>8. \A q \in Programs \ {p} : ~Loading(q)' /\ phase'[q] = phase[q]
  BY <1>1, <1>2 DEF LeavesOther, Loading
<1>9. MakesMissing'
  <2>1. \A q \in Programs \ {p} : phase'[q] \notin {"read", "create", "write"}
    BY <1>8 DEF Loading
  <2> QED
    BY <1>1, <1>3, <1>4, <1>8, <2>1 DEF MakesMissing
<1>10. WritesMatch'
  BY <1>8 DEF WritesMatch, Loading
<1>11. Consistent'
  <2>1. \A i \in 1..6 : file'[i].state = "whole" => i \in 1..(n - 1) /\ file[i].state = "whole"
    BY <1>1, <1>3, <1>4, <1>5, SlotStates
  <2>2. \A i \in 1..(n - 1) : file'[i] = file[i]
    BY <1>1, <1>3
  <2> QED
    BY <2>1, <2>2 DEF Consistent, InOneHand
<1>12. FailsTorn'
  BY <1>1, <1>2, <1>8 DEF FailsTorn
<1> QED
  BY <1>6, <1>7, <1>9, <1>10, <1>11, <1>12 DEF InOneHand

(* What it then writes nobody else is writing.                             *)
LEMMA WritesInOneHand ==
    ASSUME StoreTypes, InOneHand, NEW p \in Programs, Writes(p)
    PROVE  InOneHand'
<1>1. phase[p] = "write" /\ Loading(p) /\ Proceeds(p, certs[p][at[p]]) /\ file[at[p]] = Torn
  BY DEF Writes, Loading, InOneHand, MakesMissing
<1>2. PICK n \in 1..6 : n = at[p]
  BY DEF StoreTypes
<1>3. PICK v \in Values : v = certs[p][n]
  BY <1>2 DEF StoreTypes
<1>4. /\ LeavesOther(p) /\ Has(p)' = Has(p) \cup {n} /\ Has(p) = 1..(n - 1)
      /\ \A i \in 1..6 : certs'[p][i] = IF i = n THEN v ELSE certs[p][i]
      /\ phase'[p] \in {"stat", "setup"}
  BY <1>1, <1>2, <1>3, ProceedsEffect
<1>5. /\ \A i \in 1..(n - 1) : file[i] = Whole(certs[p][i])
      /\ \A i \in (n + 1)..6 : file[i] = Absent
      /\ \A q \in Programs \ {p} : ~Loading(q) /\ Has(q) = {}
      /\ \A q \in Programs : phase[q] # "failed"
  BY <1>1, <1>2, MakesAlone
<1>6. file' = [file EXCEPT ![n] = Whole(v)]
  BY <1>1, <1>2, <1>3, <1>5 DEF Writes, Loading
<1>7. /\ \A i \in 1..n : file'[i] = Whole(certs[p][i]) /\ certs'[p][i] = certs[p][i]
      /\ \A i \in (n + 1)..6 : file'[i] = Absent
      /\ \A i \in 1..6 : i # n => file'[i] = file[i]
  BY <1>3, <1>4, <1>5, <1>6 DEF StoreTypes
<1>8. \A i \in 1..6 : i \in 1..n \/ i \in (n + 1)..6
  OBVIOUS
<1>9. OneByOne'
  <2>1. \A i \in 1..6 : file'[i] # Garbled
    BY <1>7, <1>8, SlotStates
  <2>2. \A i \in 1..6 : file'[i] # Absent => i \in 1..n
    BY <1>7, <1>8
  <2>3. \A i \in 1..n : \A j \in 1..(i - 1) : j \in 1..n
    OBVIOUS
  <2>4. \A j \in 1..n : file'[j].state = "whole"
    BY <1>7, SlotStates
  <2> QED
    BY <2>1, <2>2, <2>3, <2>4 DEF OneByOne
<1>10. GotFiles'
  <2>1. Has(p)' = 1..n
    BY <1>4
  <2> QED
    BY <1>4, <1>5, <1>7, <2>1 DEF GotFiles, LeavesOther
<1>11. \A q \in Programs \ {p} : ~Loading(q)' /\ phase'[q] = phase[q]
  BY <1>4, <1>5 DEF LeavesOther, Loading
<1>12. MakesMissing'
  <2>1. \A q \in Programs : phase'[q] \notin {"read", "create", "write"}
    BY <1>4, <1>11 DEF Loading
  <2> QED
    BY <1>11, <2>1 DEF MakesMissing
<1>13. WritesMatch'
  BY <1>4, <1>11 DEF WritesMatch, Loading
<1>14. Consistent'
  <2>1. Matches(certs[p], n)
    BY <1>1, <1>2 DEF InOneHand, WritesMatch
  <2>2. \A i \in 1..n : file'[i].value = certs[p][i]
    BY <1>7, SlotStates
  <2>3. \A i \in 1..6 : file'[i].state = "whole" => i \in 1..n
    BY <1>7, <1>8, SlotStates
  <2>4. file[2].state = "whole" => file[2].value = RootCert(file[1].value)
    BY DEF InOneHand, Consistent
  <2>5. file[4].state = "whole" => file[4].value = ServerCert(file[1].value, file[3].value)
    BY DEF InOneHand, Consistent
  <2>6. file'[2].state = "whole" => file'[2].value = RootCert(file'[1].value)
    BY <1>7, <2>1, <2>2, <2>3, <2>4 DEF Matches
  <2>7. file'[4].state = "whole" => file'[4].value = ServerCert(file'[1].value, file'[3].value)
    BY <1>7, <2>1, <2>2, <2>3, <2>5 DEF Matches
  <2>8. file'[6].state = "whole" => file'[6].value = ClientCert(file'[1].value, file'[5].value)
    BY <1>7, <2>1, <2>2, <2>3 DEF Matches
  <2> QED
    BY <2>6, <2>7, <2>8 DEF Consistent
<1>15. FailsTorn'
  BY <1>4, <1>5, <1>11 DEF FailsTorn
<1> QED
  BY <1>9, <1>10, <1>12, <1>13, <1>14, <1>15 DEF InOneHand

(* A certificate that is made in one hand is made, and of the right keys.  *)
LEMMA CreatedMatches ==
    ASSUME StoreInv, InOneHand, NEW p \in Programs, phase[p] = "create", ~IsKey(at[p])
    PROVE  /\ at[p] \in {2, 4, 6}
           /\ at[p] = 2 => Created(certs[p], 2) = RootCert(certs[p][1])
           /\ at[p] = 4 => Created(certs[p], 4) = ServerCert(certs[p][1], certs[p][3])
           /\ at[p] = 6 => Created(certs[p], 6) = ClientCert(certs[p][1], certs[p][5])
<1>1. at[p] \in {2, 4, 6} /\ keys \in Nat /\ StoreTypes
  BY SixFiles, CertStoreAssumption DEF StoreInv, StoreTypes
<1>2. PICK c : c = certs[p]
  OBVIOUS
<1>3. /\ \A i \in 1..(at[p] - 1) : file[i] = Whole(c[i]) /\ c[i] \in Loaded(i)
  BY <1>1, <1>2, MakesAlone DEF StoreInv, GotLoaded, Has, Loading
<1>4. \A i \in 1..(at[p] - 1) : IsKey(i) => c[i] \in Nat
  <2> SUFFICES ASSUME NEW i \in 1..(at[p] - 1), IsKey(i) PROVE c[i] \in Nat
    OBVIOUS
  <2>1. c[i] \in Contents(i)
    BY <1>3 DEF Loaded
  <2>2. i \in 1..6
    BY <1>1
  <2> QED
    BY <1>1, <2>1, <2>2, ContentsTyped
<1>5. IsKey(1) /\ IsKey(3) /\ IsKey(5)
  BY DEF IsKey
<1>6. c[1] \in Nat
  BY <1>1, <1>4, <1>5
<1>7. at[p] \in {4, 6} => c[2] = RootCert(c[1])
  BY <1>3, SlotStates DEF InOneHand, Consistent
<1>8. at[p] = 2 => Created(c, 2) = RootCert(c[1])
  BY <1>6, CreatedRoot
<1>9. at[p] = 4 => Created(c, 4) = ServerCert(c[1], c[3])
  BY <1>4, <1>5, <1>6, <1>7, CreatedServer
<1>10. at[p] = 6 => Created(c, 6) = ClientCert(c[1], c[5])
  BY <1>4, <1>5, <1>6, <1>7, CreatedClient
<1> QED
  BY <1>1, <1>2, <1>8, <1>9, <1>10

(* A program that got whole files in one hand is accepted.                 *)
LEMMA OwnAccepted ==
    ASSUME StoreInv, InOneHand, NEW p \in Programs, phase[p] \in {"setup", "up"}
    PROVE  /\ Accepts(p, Identity(p))
           /\ \E k \in Nat, s \in Nat, c \in Nat :
                 /\ certs[p][2] = RootCert(k)
                 /\ certs[p][4] = ServerCert(k, s) /\ certs[p][6] = ClientCert(k, c)
                 /\ file[2] = Whole(RootCert(k))
<1>1. Has(p) = 1..6 /\ keys \in Nat
  BY CertStoreAssumption DEF Has, Loading, StoreInv, StoreTypes
<1>2. PICK g : g = certs[p]
  OBVIOUS
<1>3. \A i \in 1..6 : file[i] = Whole(g[i]) /\ g[i] \in Loaded(i)
  BY <1>1, <1>2 DEF InOneHand, GotFiles, StoreInv, GotLoaded
<1>4. IsKey(1) /\ IsKey(3) /\ IsKey(5)
  BY DEF IsKey
<1>5. g[1] \in Nat /\ g[3] \in Nat /\ g[5] \in Nat
  <2>1. \A i \in 1..6 : IsKey(i) => g[i] \in Nat
    BY <1>1, <1>3 DEF Loaded, Contents
  <2> QED
    BY <1>4, <2>1
<1>6. g[2] = RootCert(g[1]) /\ g[4] = ServerCert(g[1], g[3]) /\ g[6] = ClientCert(g[1], g[5])
  BY <1>3, SlotStates DEF InOneHand, Consistent
<1>7. CASE p = "Server"
  <2>1. Identity(p).key = g[3] /\ Identity(p).cert = g[4]
    BY <1>2, <1>7 DEF Identity
  <2>2. g[4] \notin {None, Corrupt}
    BY <1>5, <1>6, SignedCerts
  <2>3. /\ g[4].publicKey = g[3] /\ g[4].certSign = FALSE /\ g[4].extKeyUsage = <<"Server">>
    BY <1>6 DEF ServerCert
  <2>4. Type(g[4]) = "Server"
    BY <2>2, <2>3 DEF Type
  <2> QED
    BY <1>2, <1>3, <1>5, <1>6, <1>7, <2>1, <2>2, <2>3, <2>4 DEF Accepts, Validate
<1>8. CASE p = "Client"
  <2>1. Identity(p).key = g[5] /\ Identity(p).cert = g[6]
    BY <1>2, <1>8 DEF Identity
  <2>2. g[6] \notin {None, Corrupt}
    BY <1>5, <1>6, SignedCerts
  <2>3. /\ g[6].publicKey = g[5] /\ g[6].certSign = FALSE /\ g[6].extKeyUsage = <<"Client">>
    BY <1>6 DEF ClientCert
  <2>4. Type(g[6]) = "Client"
    BY <2>2, <2>3 DEF Type
  <2> QED
    BY <1>2, <1>3, <1>5, <1>6, <1>8, <2>1, <2>2, <2>3, <2>4 DEF Accepts, Validate
<1> QED
  BY <1>7, <1>8 DEF Programs

(* Every step of a program keeps the directory in one hand, unless it is   *)
(* the start that makes two of them overlap.                               *)
LEMMA InOneHandStep ==
    ASSUME StoreInv, InOneHand, NEW p \in Programs, Starts(p) \/ ProgramStep(p) \/ Dies(p),
           ~overlapped'
    PROVE  InOneHand'
<1>1. /\ StoreTypes /\ certs \in [Programs -> [1..6 -> Values]] /\ phase \in [Programs -> Phases]
      /\ at \in [Programs -> 1..6] /\ at[p] \in 1..6 /\ keys \in Nat
  BY CertStoreAssumption DEF StoreInv, StoreTypes
<1>2. \A i \in Has(p) : file[i] = Whole(certs[p][i])
  BY DEF InOneHand, GotFiles
<1>3. Loading(p) => \A q \in Programs \ {p} : Loading(q) => \A i \in 1..6 : file[i].state = "whole"
  BY DEF InOneHand, MakesMissing
<1>4. CASE Starts(p)
  <2>1. /\ phase' = [phase EXCEPT ![p] = "stat"] /\ at' = [at EXCEPT ![p] = 1]
        /\ UNCHANGED <<file, certs, keys>>
        /\ \A q \in Programs \ {p} : Loading(q) => \A i \in 1..6 : file[i].state = "whole"
    BY <1>4, SixFiles DEF Starts
  <2>2. phase'[p] = "stat" /\ at'[p] = 1
    BY <1>1, <2>1
  <2>3. Has(p)' = {}
    BY <2>2 DEF Has, Loading
  <2>4. LeavesOther(p)
    BY <1>1, <2>1 DEF LeavesOther, Has, Loading
  <2> QED
    BY <2>1, <2>2, <2>3, <2>4, FilesKept
<1>5. CASE Stats(p)
  <2>1. /\ phase' = [phase EXCEPT ![p] = IF file[at[p]] = Absent THEN "create" ELSE "read"]
        /\ phase[p] = "stat" /\ UNCHANGED <<file, at, certs>>
    BY <1>5 DEF Stats
  <2>2. phase'[p] = IF file[at[p]] = Absent THEN "create" ELSE "read"
    BY <1>1, <2>1
  <2>3. LeavesOther(p) /\ Has(p)' = Has(p) /\ Loading(p)
    BY <1>1, <2>1, <2>2 DEF LeavesOther, Has, Loading
  <2> QED
    BY <1>2, <1>3, <2>1, <2>2, <2>3, FilesKept
<1>6. ASSUME NEW to \in {"off", "failed"}, phase' = [phase EXCEPT ![p] = to],
             certs' = [certs EXCEPT ![p] = Nothing], at' = [at EXCEPT ![p] = 1], file' = file,
             to = "failed" => /\ \E i \in 1..6 : file[i] = Torn
                              /\ \A q \in Programs \ {p} : phase[q] # "write"
      PROVE  InOneHand'
  <2>1. LeavesOther(p) /\ Has(p)' = {} /\ phase'[p] = to
    BY <1>1, <1>6, StopsEffect
  <2>2. ~Loading(p)'
    BY <2>1 DEF Loading
  <2> QED
    BY <1>6, <2>1, <2>2, FilesKept
<1>7. CASE Reads(p)
  <2>1. phase[p] = "read" /\ Loading(p) /\ file' = file /\ file[at[p]].state # "garbled"
    BY <1>1, <1>7, SlotStates DEF Reads, Loading, InOneHand, OneByOne, StoreTypes
  <2>2. CASE file[at[p]].state = "whole" /\ Proceeds(p, file[at[p]].value)
    <3>1. file[at[p]].value \in Contents(at[p])
      BY <1>1, <2>2 DEF StoreInv, WholeHolds
    <3>2. PICK v \in Values : v = file[at[p]].value
      BY <1>1, <3>1, ContentsTyped
    <3>3. file[at[p]] = Whole(v)
      BY <1>1, <2>2, <3>2, SlotStates DEF StoreTypes
    <3>4. /\ LeavesOther(p) /\ Has(p)' = Has(p) \cup {at[p]} /\ Has(p) = 1..(at[p] - 1)
          /\ \A i \in 1..6 : certs'[p][i] = IF i = at[p] THEN v ELSE certs[p][i]
          /\ phase'[p] \in {"stat", "setup"}
      BY <1>1, <2>1, <2>2, <3>2, ProceedsEffect
    <3>5. \A i \in Has(p)' : file[i] = Whole(certs'[p][i])
      BY <1>1, <1>2, <3>3, <3>4
    <3> QED
      BY <1>3, <2>1, <3>4, <3>5, FilesKept
  <2>3. CASE file[at[p]].state = "torn" /\ Fails(p)
    <3>1. file[at[p]] = Torn
      BY <1>1, <2>3, SlotStates DEF StoreTypes
    <3>2. \A q \in Programs \ {p} : phase[q] # "write"
      BY <1>1, <1>3, <2>1, <2>3 DEF Loading
    <3> QED
      BY <1>1, <1>6, <2>1, <2>3, <3>1, <3>2 DEF Fails
  <2> QED
    BY <1>7, <2>1, <2>2, <2>3 DEF Reads
<1>8. CASE CreatesKey(p)
  <2>1. phase[p] = "create" /\ IsKey(at[p]) /\ keys' = keys + 1 /\ Opens(p, keys') /\ at' = at
    BY <1>8 DEF CreatesKey, Opens
  <2>2. PICK v \in Values : v = keys'
    BY <1>1, <2>1 DEF Values
  <2>3. Matches(certs[p], at[p])'
    BY <2>1 DEF Matches, IsKey
  <2> QED
    BY <1>1, <2>1, <2>2, <2>3, OpensInOneHand
<1>9. CASE CreatesCert(p)
  <2>1. phase[p] = "create" /\ ~IsKey(at[p])
    BY <1>9 DEF CreatesCert
  <2>2. /\ at[p] \in {2, 4, 6}
        /\ at[p] = 2 => Created(certs[p], 2) = RootCert(certs[p][1])
        /\ at[p] = 4 => Created(certs[p], 4) = ServerCert(certs[p][1], certs[p][3])
        /\ at[p] = 6 => Created(certs[p], 6) = ClientCert(certs[p][1], certs[p][5])
    BY <2>1, CreatedMatches
  <2>3. PICK v : v = Created(certs[p], at[p])
    OBVIOUS
  <2>4. \A i \in {1, 3, 5} : i < at[p] => certs[p][i] \in Nat
    <3>1. \A i \in 1..(at[p] - 1) : certs[p][i] \in Loaded(i)
      BY <2>1 DEF StoreInv, GotLoaded, Has, Loading
    <3>2. \A i \in {1, 3, 5} : i < at[p] => i \in 1..(at[p] - 1) /\ IsKey(i)
      BY <1>1 DEF IsKey
    <3>3. ASSUME NEW i \in {1, 3, 5}, i < at[p] PROVE certs[p][i] \in Nat
      <4>1. i \in 1..(at[p] - 1) /\ IsKey(i) /\ i \in 1..6
        BY <3>2, <3>3
      <4>2. certs[p][i] \in Contents(i)
        BY <3>1, <4>1 DEF Loaded
      <4> QED
        BY <1>1, <4>1, <4>2, ContentsTyped
    <3> QED
      BY <3>3
  <2>5. v # Failed /\ v \in Values
    <3>1. CASE at[p] = 2
      <4>1. PICK k \in Nat : k = certs[p][1]
        BY <2>4, <3>1
      <4> QED
        BY <2>2, <2>3, <3>1, <4>1, SignedCerts DEF Values
    <3>2. CASE at[p] = 4
      <4>1. PICK k \in Nat, s \in Nat : k = certs[p][1] /\ s = certs[p][3]
        BY <2>4, <3>2
      <4>2. v = ServerCert(k, s)
        BY <2>2, <2>3, <3>2, <4>1
      <4>3. v \in Signed /\ v # Failed
        BY <4>1, <4>2, SignedCerts
      <4> QED
        BY <4>3 DEF Values
    <3>3. CASE at[p] = 6
      <4>1. PICK k \in Nat, c \in Nat : k = certs[p][1] /\ c = certs[p][5]
        BY <2>4, <3>3
      <4>2. v = ClientCert(k, c)
        BY <2>2, <2>3, <3>3, <4>1
      <4>3. v \in Signed /\ v # Failed
        BY <4>1, <4>2, SignedCerts
      <4> QED
        BY <4>3 DEF Values
    <3> QED
      BY <2>2, <3>1, <3>2, <3>3
  <2>6. Opens(p, v) /\ at' = at
    BY <1>9, <2>3, <2>5 DEF CreatesCert, Opens
  <2>7. \A i \in 1..6 : certs'[p][i] = IF i = at[p] THEN v ELSE certs[p][i]
    BY <1>1, <2>1, <2>5, <2>6, OpensEffect
  <2>8. Matches(certs[p], at[p])'
    BY <2>2, <2>3, <2>6, <2>7 DEF Matches
  <2> QED
    BY <1>1, <2>1, <2>5, <2>6, <2>8, OpensInOneHand
<1>10. CASE Writes(p)
  BY <1>1, <1>10, WritesInOneHand
<1>11. CASE SetsUp(p)
  <2>1. phase[p] = "setup" /\ file' = file
    BY <1>11 DEF SetsUp
  <2>2. phase' = [phase EXCEPT ![p] = "up"] /\ UNCHANGED <<at, certs>>
    BY <1>11, <2>1, OwnAccepted DEF SetsUp
  <2>3. phase'[p] = "up"
    BY <1>1, <2>2
  <2>4. LeavesOther(p) /\ Has(p)' = Has(p) /\ ~Loading(p)'
    BY <1>1, <2>1, <2>2, <2>3 DEF LeavesOther, Has, Loading
  <2> QED
    BY <1>2, <2>1, <2>2, <2>3, <2>4, FilesKept
<1>12. CASE Dies(p)
  BY <1>6, <1>12 DEF Dies
<1> QED
  BY <1>4, <1>5, <1>7, <1>8, <1>9, <1>10, <1>11, <1>12 DEF ProgramStep

(* The inductive invariant of the directory, whatever overlapped before.   *)
DirectoryInv == StoreInv /\ Orderly

(* It holds of an empty directory, ...                                     *)
LEMMA DirectoryInvInit == StoreInit => DirectoryInv
<1> SUFFICES ASSUME StoreInit PROVE DirectoryInv
  OBVIOUS
<1>1. file = [i \in 1..6 |-> Absent] /\ phase = [p \in Programs |-> "off"]
  BY SixFiles DEF StoreInit
<1>2. \A p \in Programs : phase[p] = "off" /\ Has(p) = {} /\ ~Loading(p)
  BY <1>1 DEF Has, Loading
<1>3. OneByOne /\ Consistent
  BY <1>1, SlotStates DEF OneByOne, Consistent
<1>4. GotFiles /\ MakesMissing /\ WritesMatch /\ FailsTorn
  BY <1>2 DEF GotFiles, MakesMissing, WritesMatch, FailsTorn
<1> QED
  BY <1>3, <1>4, StoreInvInit DEF DirectoryInv, Orderly, InOneHand

(* ... and every step keeps it: of the steps that keep overlapped false    *)
(* none takes the directory out of one hand.                               *)
LEMMA DirectoryInvNext == DirectoryInv /\ [StoreNext]_storeVars => DirectoryInv'
<1> SUFFICES ASSUME DirectoryInv, [StoreNext]_storeVars PROVE DirectoryInv'
  OBVIOUS
<1>1. StoreInv /\ StoreInv' /\ overlapped \in BOOLEAN
  BY StoreInvNext DEF DirectoryInv, StoreInv, StoreTypes
<1>2. ASSUME NEW p \in Programs, Starts(p) \/ ProgramStep(p) \/ Dies(p), ~overlapped'
      PROVE  InOneHand'
  <2>1. ~overlapped
    BY <1>2 DEF Starts, ProgramStep, Dies, Stats, Reads, CreatesKey, CreatesCert, Writes, SetsUp
  <2>2. InOneHand
    BY <2>1 DEF DirectoryInv, Orderly
  <2> QED
    BY <1>1, <1>2, <2>2, InOneHandStep
<1>3. ASSUME UNCHANGED <<file, phase, at, certs, keys, starts, overlapped>> PROVE Orderly'
  <2>1. \A p \in Programs : Has(p)' = Has(p) /\ Loading(p)' = Loading(p)
    BY <1>3 DEF Has, Loading
  <2>2. InOneHand => InOneHand'
    BY <1>3, <2>1
    DEF InOneHand, OneByOne, GotFiles, MakesMissing, WritesMatch, Consistent, FailsTorn
  <2> QED
    BY <1>3, <2>2 DEF DirectoryInv, Orderly
<1> QED
  BY <1>1, <1>2, <1>3 DEF DirectoryInv, Orderly, StoreNext, Issues, storeVars

(* However often and wherever in LoadOrCreate programs died before, two    *)
(* that come up can talk to each other, unless they ever went through an   *)
(* incomplete directory at the same time.                                  *)
THEOREM InteroperateHolds == StoreSpec => []Interoperate
<1>1. DirectoryInv => Interoperate
  <2> SUFFICES ASSUME DirectoryInv, \A p \in Programs : phase[p] = "up", ~overlapped
               PROVE  Handshake(Identity("Client"), Identity("Server"), Host)
    BY DEF Interoperate
  <2>1. StoreInv /\ InOneHand /\ "Client" \in Programs /\ "Server" \in Programs
    BY DEF DirectoryInv, Orderly, Programs
  <2>2. PICK k \in Nat, s \in Nat, c \in Nat :
            /\ certs["Server"][2] = RootCert(k) /\ certs["Server"][4] = ServerCert(k, s)
            /\ file[2] = Whole(RootCert(k))
    BY <2>1, OwnAccepted
  <2>3. PICK l \in Nat, t \in Nat, d \in Nat :
            /\ certs["Client"][2] = RootCert(l) /\ certs["Client"][6] = ClientCert(l, d)
            /\ file[2] = Whole(RootCert(l))
    BY <2>1, OwnAccepted
  <2>4. k = l
    <3>1. RootCert(k) = RootCert(l)
      <4>1. Whole(RootCert(k)).value = RootCert(k) /\ Whole(RootCert(l)).value = RootCert(l)
        BY SlotStates
      <4> QED
        BY <2>2, <2>3, <4>1
    <3> QED
      BY <3>1 DEF RootCert
  <2>5. /\ Identity("Client").root = RootCert(k) /\ Identity("Client").cert = ClientCert(k, d)
        /\ Identity("Server").root = RootCert(k) /\ Identity("Server").cert = ServerCert(k, s)
    BY <2>2, <2>3, <2>4 DEF Identity
  <2>6. /\ RootCert(k) # Corrupt /\ RootCert(k).isCA = TRUE /\ RootCert(k).certSign = TRUE
        /\ RootCert(k).notAfter = Future /\ RootCert(k).subject = RootName
        /\ RootCert(k).publicKey = k
    BY SignedCerts DEF RootCert
  <2>7. ChainsTo(ServerCert(k, s), RootCert(k), "Server") /\ Host \in ServerCert(k, s).hosts
    <3>1. /\ ServerCert(k, s).issuer = RootName /\ ServerCert(k, s).signer = k
          /\ ServerCert(k, s).notAfter = Future /\ ServerCert(k, s).extKeyUsage = <<"Server">>
          /\ ServerCert(k, s).hosts = {Domain, Host}
      BY DEF ServerCert
    <3>2. "Server" \in Range(<<"Server">>)
      BY DEF Range
    <3> QED
      BY <2>6, <3>1, <3>2 DEF ChainsTo
  <2>8. ChainsTo(ClientCert(k, d), RootCert(k), "Client") /\ VerifyConnection(ClientCert(k, d))
    <3>1. /\ ClientCert(k, d).issuer = RootName /\ ClientCert(k, d).signer = k
          /\ ClientCert(k, d).notAfter = Future /\ ClientCert(k, d).extKeyUsage = <<"Client">>
          /\ ClientCert(k, d).subjectKeyId = <<123>>
      BY DEF ClientCert
    <3>2. "Client" \in Range(<<"Client">>)
      BY DEF Range
    <3> QED
      BY <2>6, <3>1, <3>2, BucketLists DEF ChainsTo, VerifyConnection
  <2> QED
    BY <2>5, <2>7, <2>8 DEF Handshake
<1> QED
  BY <1>1, DirectoryInvInit, DirectoryInvNext, PTL DEF StoreSpec

(* A start fails only in a directory that two programs made at once, or    *)
(* that has a file which a program opened and did not live to write.       *)
THEOREM FailsOnlyIfDamagedHolds == StoreSpec => []FailsOnlyIfDamaged
<1>1. DirectoryInv => FailsOnlyIfDamaged
  BY SixFiles DEF DirectoryInv, Orderly, InOneHand, FailsTorn, FailsOnlyIfDamaged
<1> QED
  BY <1>1, DirectoryInvInit, DirectoryInvNext, PTL DEF StoreSpec

----------------------------------------------------------------------------
(***************************************************************************)
(* Certificates for further clients (IssueClient): what the loop over the  *)
(* details leaves in the draft, and what the server makes of it.           *)
(***************************************************************************)

(* Certificates before they are signed.                                    *)
Drafts ==
    [subject : Names, publicKey : {None} \cup Nat, subjectKeyId : Seq(Int),
     notAfter : {0, Past, Future}, hosts : SUBSET Text, isCA : BOOLEAN, certSign : BOOLEAN,
     extKeyUsage : {<<>>} \cup {<<t>> : t \in {"Server", "Client"}}, issuer : {NoName}, signer : {None}]

(* A record with a certificate's fields, and values in them that a draft   *)
(* may have, is a draft.                                                   *)
LEMMA IsDraft ==
    ASSUME NEW c, IsCertificate(c), c.subject \in Names, c.publicKey \in {None} \cup Nat,
           c.subjectKeyId \in Seq(Int), c.notAfter \in {0, Past, Future}, c.hosts \in SUBSET Text,
           c.isCA \in BOOLEAN, c.certSign \in BOOLEAN,
           c.extKeyUsage \in {<<>>} \cup {<<t>> : t \in {"Server", "Client"}},
           c.issuer = NoName, c.signer = None
    PROVE  c \in Drafts
<1> DEFINE d == [subject |-> c.subject, publicKey |-> c.publicKey, subjectKeyId |-> c.subjectKeyId,
                 notAfter |-> c.notAfter, hosts |-> c.hosts, isCA |-> c.isCA,
                 certSign |-> c.certSign, extKeyUsage |-> c.extKeyUsage, issuer |-> c.issuer,
                 signer |-> c.signer]
<1>1. IsCertificate(d)
  BY DEF IsCertificate, Fields
<1>2. /\ d.subject = c.subject /\ d.publicKey = c.publicKey /\ d.subjectKeyId = c.subjectKeyId
      /\ d.notAfter = c.notAfter /\ d.hosts = c.hosts /\ d.isCA = c.isCA
      /\ d.certSign = c.certSign /\ d.extKeyUsage = c.extKeyUsage /\ d.issuer = c.issuer
      /\ d.signer = c.signer
  OBVIOUS
<1>3. d \in Drafts
  BY DEF Drafts
<1> HIDE DEF d
<1>4. c = d
  BY <1>1, <1>2, SameCertificate
<1> QED
  BY <1>3, <1>4

(* And the other way round.                                                *)
LEMMA DraftFields ==
    ASSUME NEW c \in Drafts
    PROVE  /\ IsCertificate(c)
           /\ c.subject \in Names /\ c.publicKey \in {None} \cup Nat
           /\ c.subjectKeyId \in Seq(Int) /\ c.notAfter \in {0, Past, Future}
           /\ c.hosts \in SUBSET Text /\ c.isCA \in BOOLEAN /\ c.certSign \in BOOLEAN
           /\ c.extKeyUsage \in {<<>>} \cup {<<t>> : t \in {"Server", "Client"}}
           /\ c.issuer = NoName /\ c.signer = None
<1>1. IsCertificate(c)
  BY DEF Drafts, IsCertificate, Fields
<1> QED
  BY <1>1 DEF Drafts

(* The fields of a certificate that AdmittedIffGranted depends on, after a *)
(* detail was applied to c.                                                *)
Applied(u, c, d) ==
    /\ u.publicKey = IF d.publicKey # None THEN d.publicKey ELSE c.publicKey
    /\ d.kind = "options" =>
          /\ u.subjectKeyId = IF d.bucketIds # None THEN d.bucketIds ELSE c.subjectKeyId
          /\ u.notAfter = IF d.expiry # 0 THEN d.expiry ELSE c.notAfter
    /\ d.kind = "options" /\ d.type # "Unset" =>
          /\ u.isCA = (d.type = "Root") /\ u.certSign = (d.type = "Root")
          /\ u.extKeyUsage = IF d.type = "Root" THEN <<>> ELSE <<d.type>>
    /\ d.kind = "options" /\ d.type = "Unset" =>
          u.isCA = c.isCA /\ u.certSign = c.certSign /\ u.extKeyUsage = c.extKeyUsage
    /\ d.kind = "csr" =>
          /\ u.isCA = c.isCA /\ u.certSign = c.certSign /\ u.extKeyUsage = c.extKeyUsage
          /\ u.subjectKeyId = c.subjectKeyId /\ u.notAfter = c.notAfter

(* Merging two names gives a name.                                         *)
LEMMA MergedNames ==
    ASSUME NEW m \in Names, NEW n \in Names
    PROVE  mergePkixNames(m, n) \in Names
<1>1. /\ m.commonName \in Text /\ m.organization \in Seq(Text) /\ m.streetAddress \in Seq(Text)
      /\ n.commonName \in Text /\ n.organization \in Seq(Text)
  BY DEF Names
<1>2. /\ m.organization \o n.organization \in Seq(Text)
      /\ m.streetAddress \o m.streetAddress \in Seq(Text)
  BY <1>1
<1>3. (IF n.commonName # "" THEN n.commonName ELSE m.commonName) \in Text
  BY <1>1
<1> QED
  BY <1>2, <1>3 DEF mergePkixNames, Names

(* Options that set no type leave the usages alone.                        *)
LEMMA UntypedSet ==
    ASSUME NEW c, IsCertificate(c), NEW o, o.type = "Unset"
    PROVE  LET u == parseOptions(o, c)
           IN /\ IsCertificate(u)
              /\ u.isCA = c.isCA /\ u.certSign = c.certSign /\ u.extKeyUsage = c.extKeyUsage
              /\ u.subject = mergePkixNames(c.subject, o.subject)
              /\ u.publicKey = IF o.publicKey # None THEN o.publicKey ELSE c.publicKey
              /\ u.subjectKeyId = IF o.bucketIds # None THEN o.bucketIds ELSE c.subjectKeyId
              /\ u.notAfter = IF o.expiry # 0 THEN o.expiry ELSE c.notAfter
              /\ u.hosts = c.hosts \cup o.hosts
              /\ u.issuer = c.issuer /\ u.signer = c.signer
<1> DEFINE d == [c EXCEPT
                   !.subject      = mergePkixNames(@, o.subject),
                   !.subjectKeyId = IF o.bucketIds # None THEN o.bucketIds ELSE @,
                   !.publicKey    = IF o.publicKey # None THEN o.publicKey ELSE @,
                   !.notAfter     = IF o.expiry # 0 THEN o.expiry ELSE @,
                   !.hosts        = @ \cup o.hosts]
<1>1. IsCertificate(d)
  BY DEF IsCertificate
<1>2. /\ d.subject = mergePkixNames(c.subject, o.subject)
      /\ d.publicKey = IF o.publicKey # None THEN o.publicKey ELSE c.publicKey
      /\ d.subjectKeyId = IF o.bucketIds # None THEN o.bucketIds ELSE c.subjectKeyId
  BY DEF IsCertificate, Fields
<1>3. /\ d.notAfter = IF o.expiry # 0 THEN o.expiry ELSE c.notAfter
      /\ d.hosts = c.hosts \cup o.hosts
      /\ d.issuer = c.issuer /\ d.signer = c.signer
  BY DEF IsCertificate, Fields
<1>4. d.isCA = c.isCA /\ d.certSign = c.certSign /\ d.extKeyUsage = c.extKeyUsage
  BY DEF IsCertificate, Fields
<1>5. parseOptions(o, c) = d
  BY DEF parseOptions
<1> HIDE DEF d
<1> QED
  BY <1>1, <1>2, <1>3, <1>4, <1>5

(* A certificate request sets no more than a name, hosts and a key.        *)
LEMMA CsrSet ==
    ASSUME NEW c, IsCertificate(c), NEW o
    PROVE  LET u == parseCsr(o, c)
           IN /\ IsCertificate(u)
              /\ u.isCA = c.isCA /\ u.certSign = c.certSign /\ u.extKeyUsage = c.extKeyUsage
              /\ u.subject = mergePkixNames(c.subject, o.subject)
              /\ u.publicKey = IF o.publicKey # None THEN o.publicKey ELSE c.publicKey
              /\ u.subjectKeyId = c.subjectKeyId /\ u.notAfter = c.notAfter
              /\ u.hosts = c.hosts \cup o.hosts
              /\ u.issuer = c.issuer /\ u.signer = c.signer
<1> DEFINE d == [c EXCEPT !.subject = mergePkixNames(@, o.subject), !.hosts = @ \cup o.hosts,
                          !.publicKey = IF o.publicKey # None THEN o.publicKey ELSE @]
<1>1. IsCertificate(d)
  BY DEF IsCertificate
<1>2. /\ d.subject = mergePkixNames(c.subject, o.subject)
      /\ d.publicKey = IF o.publicKey # None THEN o.publicKey ELSE c.publicKey
      /\ d.hosts = c.hosts \cup o.hosts
  BY DEF IsCertificate, Fields
<1>3. /\ d.notAfter = c.notAfter /\ d.subjectKeyId = c.subjectKeyId
      /\ d.issuer = c.issuer /\ d.signer = c.signer
  BY DEF IsCertificate, Fields
<1>4. d.isCA = c.isCA /\ d.certSign = c.certSign /\ d.extKeyUsage = c.extKeyUsage
  BY DEF IsCertificate, Fields
<1>5. parseCsr(o, c) = d
  BY DEF parseCsr
<1> HIDE DEF d
<1> QED
  BY <1>1, <1>2, <1>3, <1>4, <1>5

(* One detail makes a draft of a draft.                                    *)
LEMMA DetailApplied ==
    ASSUME NEW c \in Drafts, NEW d \in Details, d # BadCsr
    PROVE  /\ parseCertificateDetails(c, d) \in Drafts
           /\ Applied(parseCertificateDetails(c, d), c, d)
<1> DEFINE u == parseCertificateDetails(c, d)
<1>1. /\ IsCertificate(c)
      /\ c.subject \in Names /\ c.publicKey \in {None} \cup Nat
      /\ c.subjectKeyId \in Seq(Int) /\ c.notAfter \in {0, Past, Future}
      /\ c.hosts \in SUBSET Text /\ c.isCA \in BOOLEAN /\ c.certSign \in BOOLEAN
      /\ c.extKeyUsage \in {<<>>} \cup {<<t>> : t \in {"Server", "Client"}}
      /\ c.issuer = NoName /\ c.signer = None
  BY DraftFields
<1>2. /\ d.kind = "options" \/ d.kind = "csr"
      /\ d.subject \in Names /\ d.publicKey \in {None} \cup Nat /\ d.hosts \in SUBSET Text
      /\ d.kind = "options" =>
            /\ d.bucketIds \in {None} \cup Seq(Int) /\ d.expiry \in {0, Past, Future}
            /\ d.type \in {"Unset", "Root", "Server", "Client"}
  BY DEF Details
<1>3. mergePkixNames(c.subject, d.subject) \in Names /\ c.hosts \cup d.hosts \in SUBSET Text
  BY <1>1, <1>2, MergedNames
<1>4. (IF d.publicKey # None THEN d.publicKey ELSE c.publicKey) \in {None} \cup Nat
  BY <1>1, <1>2
<1>5. CASE d.kind = "options"
  <2>1. u = parseOptions(d, c)
    BY <1>5 DEF parseCertificateDetails
  <2>2. (IF d.bucketIds # None THEN d.bucketIds ELSE c.subjectKeyId) \in Seq(Int)
    BY <1>1, <1>2, <1>5
  <2>3. (IF d.expiry # 0 THEN d.expiry ELSE c.notAfter) \in {0, Past, Future}
    BY <1>1, <1>2, <1>5
  <2>4. CASE d.type = "Unset"
    <3>1. /\ IsCertificate(u)
          /\ u.isCA = c.isCA /\ u.certSign = c.certSign /\ u.extKeyUsage = c.extKeyUsage
          /\ u.subject = mergePkixNames(c.subject, d.subject)
          /\ u.publicKey = IF d.publicKey # None THEN d.publicKey ELSE c.publicKey
          /\ u.subjectKeyId = IF d.bucketIds # None THEN d.bucketIds ELSE c.subjectKeyId
          /\ u.notAfter = IF d.expiry # 0 THEN d.expiry ELSE c.notAfter
          /\ u.hosts = c.hosts \cup d.hosts
          /\ u.issuer = c.issuer /\ u.signer = c.signer
      BY <1>1, <2>1, <2>4, UntypedSet
    <3> HIDE DEF u
    <3>2. u \in Drafts
      BY <1>1, <1>3, <1>4, <2>2, <2>3, <3>1, IsDraft
    <3>3. Applied(u, c, d)
      BY <1>5, <2>4, <3>1 DEF Applied
    <3> QED
      BY <3>2, <3>3 DEF u
  <2>5. CASE d.type # "Unset"
    <3>1. /\ IsCertificate(u)
          /\ u.isCA = (d.type = "Root") /\ u.certSign = (d.type = "Root")
          /\ u.extKeyUsage = IF d.type = "Root" THEN <<>> ELSE <<d.type>>
          /\ u.subject = mergePkixNames(c.subject, d.subject)
          /\ u.publicKey = IF d.publicKey # None THEN d.publicKey ELSE c.publicKey
          /\ u.subjectKeyId = IF d.bucketIds # None THEN d.bucketIds ELSE c.subjectKeyId
          /\ u.notAfter = IF d.expiry # 0 THEN d.expiry ELSE c.notAfter
          /\ u.hosts = c.hosts \cup d.hosts
          /\ u.issuer = c.issuer /\ u.signer = c.signer
      BY <1>1, <2>1, <2>5, OptionsSet
    <3> HIDE DEF u
    <3>2. u.extKeyUsage \in {<<>>} \cup {<<t>> : t \in {"Server", "Client"}}
      BY <1>2, <1>5, <2>5, <3>1
    <3>3. u.isCA \in BOOLEAN /\ u.certSign \in BOOLEAN
      BY <3>1
    <3>4. u \in Drafts
      BY <1>1, <1>3, <1>4, <2>2, <2>3, <3>1, <3>2, <3>3, IsDraft
    <3>5. Applied(u, c, d)
      BY <1>5, <2>5, <3>1 DEF Applied
    <3> QED
      BY <3>4, <3>5 DEF u
  <2> QED
    BY <2>4, <2>5
<1>6. CASE d.kind = "csr"
  <2>1. u = parseCsr(d, c)
    BY <1>6 DEF parseCertificateDetails
  <2>2. /\ IsCertificate(u)
        /\ u.isCA = c.isCA /\ u.certSign = c.certSign /\ u.extKeyUsage = c.extKeyUsage
        /\ u.subject = mergePkixNames(c.subject, d.subject)
        /\ u.publicKey = IF d.publicKey # None THEN d.publicKey ELSE c.publicKey
        /\ u.subjectKeyId = c.subjectKeyId /\ u.notAfter = c.notAfter
        /\ u.hosts = c.hosts \cup d.hosts
        /\ u.issuer = c.issuer /\ u.signer = c.signer
    BY <1>1, <2>1, CsrSet
  <2> HIDE DEF u
  <2>3. u \in Drafts
    BY <1>1, <1>3, <1>4, <2>2, IsDraft
  <2>4. Applied(u, c, d)
    BY <1>6, <2>2 DEF Applied
  <2> QED
    BY <2>3, <2>4 DEF u
<1> QED
  BY <1>2, <1>5, <1>6

(* h lists the drafts CreateCertificate goes through.                      *)
DraftsThrough(h, base, ds) ==
    /\ h \in [0..Len(ds) -> Drafts]
    /\ h[0] = base
    /\ \A k \in 1..Len(ds) : h[k] = parseCertificateDetails(h[k - 1], ds[k])
    /\ FoldLeft(parseCertificateDetails, base, ds) = h[Len(ds)]

(* The loop of CreateCertificate.                                          *)
ParseDetail(p, cert, d) == parseCertificateDetails(cert, d)
Parsing == INSTANCE FoldProofs WITH Op <- ParseDetail

(* There are such drafts: one detail is applied at a time.                 *)
LEMMA DetailsFold ==
    ASSUME NEW base \in Drafts, NEW ds \in Seq(Details), \A i \in DOMAIN ds : ds[i] # BadCsr
    PROVE  \E h : DraftsThrough(h, base, ds)
<1> DEFINE n == Len(ds)
<1>1. n \in Nat /\ DOMAIN ds = 1..n /\ \A k \in 1..n : ds[k] \in Details /\ ds[k] # BadCsr
  OBVIOUS
<1>2. FoldLeft(parseCertificateDetails, base, ds) = Parsing!Folded(0, base, ds)
  BY DEF Parsing!Folded, ParseDetail, FoldLeft, MapThenFoldSet, Max, Parsing!Largest
<1>3. PICK g : Parsing!Through(g, 0, base, ds)
  BY Parsing!FoldGoesThrough
<1> DEFINE h == [k \in 0..n |-> g[k]]
           S == {k \in 0..n : g[k] \in Drafts}
<1>4. g[0] = base /\ g[n] = Parsing!Folded(0, base, ds)
  BY <1>3 DEF Parsing!Through
<1>5. ASSUME NEW k \in 1..n PROVE g[k] = parseCertificateDetails(g[k - 1], ds[k])
  BY <1>3 DEF Parsing!Through, ParseDetail
<1> HIDE DEF n
<1>6. 0 \in S
  BY <1>1, <1>4
<1>7. ASSUME NEW k \in 1..n, k - 1 \in S PROVE k \in S
  BY <1>1, <1>5, <1>7, DetailApplied
<1>8. \A k \in 0..n : k \in S
  <2> HIDE DEF S
  <2> QED
    BY <1>1, <1>6, <1>7, Parsing!BoundedInduction
<1>9. h \in [0..n -> Drafts] /\ h[0] = base /\ h[n] = Parsing!Folded(0, base, ds)
  BY <1>1, <1>4, <1>8
<1>10. ASSUME NEW k \in 1..n PROVE h[k] = parseCertificateDetails(h[k - 1], ds[k])
  <2>1. h[k] = g[k] /\ h[k - 1] = g[k - 1]
    BY <1>1
  <2> QED
    BY <1>5, <2>1
<1> HIDE DEF h
<1> QED
  BY <1>2, <1>9, <1>10 DEF DraftsThrough, n

(* What the first k details say last.                                      *)
TypeUpTo(ds, k) ==
    LET said == {i \in 1..k : ds[i].kind = "options" /\ ds[i].type # "Unset"}
    IN IF said = {} THEN "Unset" ELSE ds[Max(said)].type
BucketsUpTo(ds, k) ==
    LET said == {i \in 1..k : ds[i].kind = "options" /\ ds[i].bucketIds # None}
    IN IF said = {} THEN <<>> ELSE ds[Max(said)].bucketIds
KeyUpTo(ds, k) ==
    LET said == {i \in 1..k : ds[i].kind \in {"options", "csr"} /\ ds[i].publicKey # None}
    IN IF said = {} THEN None ELSE ds[Max(said)].publicKey
ExpiryUpTo(ds, k) ==
    LET said == {i \in 1..k : ds[i].kind = "options" /\ ds[i].expiry # 0}
    IN IF said = {} THEN 0 ELSE ds[Max(said)].expiry

(* The k-th detail has the last word among the first k, if it says         *)
(* anything.                                                               *)
LEMMA LastWord ==
    ASSUME NEW k \in Nat \ {0}, NEW said \in SUBSET (1..k), NEW before, before = said \ {k}
    PROVE  /\ k \in said => said # {} /\ Max(said) = k
           /\ k \notin said => said = before
<1>1. k - 1 \in Nat /\ (k - 1) + 1 = k /\ said \in SUBSET (1..((k - 1) + 1))
  OBVIOUS
<1> QED
  BY <1>1, Parsing!MaxUpTo DEF Max, Parsing!Largest

(* With one detail more, the type is that detail's, if it has one;         *)
LEMMA TypeNext ==
    ASSUME NEW ds, NEW k \in Nat \ {0}
    PROVE  TypeUpTo(ds, k) = IF ds[k].kind = "options" /\ ds[k].type # "Unset" THEN ds[k].type
                             ELSE TypeUpTo(ds, k - 1)
<1> DEFINE Said(j) == {i \in 1..j : ds[i].kind = "options" /\ ds[i].type # "Unset"}
<1>1. Said(k) \in SUBSET (1..k) /\ Said(k - 1) = Said(k) \ {k}
      /\ (k \in Said(k) <=> ds[k].kind = "options" /\ ds[k].type # "Unset")
  OBVIOUS
<1>2. ASSUME NEW j PROVE TypeUpTo(ds, j) = IF Said(j) = {} THEN "Unset" ELSE ds[Max(Said(j))].type
  BY DEF TypeUpTo
<1> HIDE DEF Said
<1>3. /\ k \in Said(k) => Said(k) # {} /\ Max(Said(k)) = k
      /\ k \notin Said(k) => Said(k) = Said(k - 1)
  BY <1>1, LastWord
<1>4. CASE k \in Said(k)
  BY <1>1, <1>2, <1>3, <1>4
<1>5. CASE k \notin Said(k)
  BY <1>1, <1>2, <1>3, <1>5
<1> QED
  BY <1>4, <1>5

(* the same for the buckets,                                               *)
LEMMA BucketsNext ==
    ASSUME NEW ds, NEW k \in Nat \ {0}
    PROVE  BucketsUpTo(ds, k) = IF ds[k].kind = "options" /\ ds[k].bucketIds # None
                                THEN ds[k].bucketIds ELSE BucketsUpTo(ds, k - 1)
<1> DEFINE Said(j) == {i \in 1..j : ds[i].kind = "options" /\ ds[i].bucketIds # None}
<1>1. Said(k) \in SUBSET (1..k) /\ Said(k - 1) = Said(k) \ {k}
      /\ (k \in Said(k) <=> ds[k].kind = "options" /\ ds[k].bucketIds # None)
  OBVIOUS
<1>2. ASSUME NEW j PROVE BucketsUpTo(ds, j) = IF Said(j) = {} THEN <<>> ELSE ds[Max(Said(j))].bucketIds
  BY DEF BucketsUpTo
<1> HIDE DEF Said
<1>3. /\ k \in Said(k) => Said(k) # {} /\ Max(Said(k)) = k
      /\ k \notin Said(k) => Said(k) = Said(k - 1)
  BY <1>1, LastWord
<1>4. CASE k \in Said(k)
  BY <1>1, <1>2, <1>3, <1>4
<1>5. CASE k \notin Said(k)
  BY <1>1, <1>2, <1>3, <1>5
<1> QED
  BY <1>4, <1>5

(* the public key                                                          *)
LEMMA KeyNext ==
    ASSUME NEW ds, NEW k \in Nat \ {0}
    PROVE  KeyUpTo(ds, k) = IF ds[k].kind \in {"options", "csr"} /\ ds[k].publicKey # None
                            THEN ds[k].publicKey ELSE KeyUpTo(ds, k - 1)
<1> DEFINE Said(j) == {i \in 1..j : ds[i].kind \in {"options", "csr"} /\ ds[i].publicKey # None}
<1>1. Said(k) \in SUBSET (1..k) /\ Said(k - 1) = Said(k) \ {k}
      /\ (k \in Said(k) <=> ds[k].kind \in {"options", "csr"} /\ ds[k].publicKey # None)
  OBVIOUS
<1>2. ASSUME NEW j PROVE KeyUpTo(ds, j) = IF Said(j) = {} THEN None ELSE ds[Max(Said(j))].publicKey
  BY DEF KeyUpTo
<1> HIDE DEF Said
<1>3. /\ k \in Said(k) => Said(k) # {} /\ Max(Said(k)) = k
      /\ k \notin Said(k) => Said(k) = Said(k - 1)
  BY <1>1, LastWord
<1>4. CASE k \in Said(k)
  BY <1>1, <1>2, <1>3, <1>4
<1>5. CASE k \notin Said(k)
  BY <1>1, <1>2, <1>3, <1>5
<1> QED
  BY <1>4, <1>5

(* and the expiry.                                                         *)
LEMMA ExpiryNext ==
    ASSUME NEW ds, NEW k \in Nat \ {0}
    PROVE  ExpiryUpTo(ds, k) = IF ds[k].kind = "options" /\ ds[k].expiry # 0 THEN ds[k].expiry
                               ELSE ExpiryUpTo(ds, k - 1)
<1> DEFINE Said(j) == {i \in 1..j : ds[i].kind = "options" /\ ds[i].expiry # 0}
<1>1. Said(k) \in SUBSET (1..k) /\ Said(k - 1) = Said(k) \ {k}
      /\ (k \in Said(k) <=> ds[k].kind = "options" /\ ds[k].expiry # 0)
  OBVIOUS
<1>2. ASSUME NEW j PROVE ExpiryUpTo(ds, j) = IF Said(j) = {} THEN 0 ELSE ds[Max(Said(j))].expiry
  BY DEF ExpiryUpTo
<1> HIDE DEF Said
<1>3. /\ k \in Said(k) => Said(k) # {} /\ Max(Said(k)) = k
      /\ k \notin Said(k) => Said(k) = Said(k - 1)
  BY <1>1, LastWord
<1>4. CASE k \in Said(k)
  BY <1>1, <1>2, <1>3, <1>4
<1>5. CASE k \notin Said(k)
  BY <1>1, <1>2, <1>3, <1>5
<1> QED
  BY <1>4, <1>5

(* c is what the first k details make of a certificate.                    *)
SumsUp(c, ds, k) ==
    /\ c.isCA = (TypeUpTo(ds, k) = "Root") /\ c.certSign = (TypeUpTo(ds, k) = "Root")
    /\ c.extKeyUsage = IF TypeUpTo(ds, k) \in {"Unset", "Root"} THEN <<>> ELSE <<TypeUpTo(ds, k)>>
    /\ c.subjectKeyId = BucketsUpTo(ds, k) /\ c.publicKey = KeyUpTo(ds, k)
    /\ c.notAfter = ExpiryUpTo(ds, k)

(* Parsing one detail more gives the sum of one detail more.               *)
LEMMA SumsUpNext ==
    ASSUME NEW ds, NEW k \in Nat \ {0}, NEW c, NEW u, ds[k].kind = "options" \/ ds[k].kind = "csr",
           SumsUp(c, ds, k - 1), Applied(u, c, ds[k])
    PROVE  SumsUp(u, ds, k)
<1> DEFINE d == ds[k]
<1>1. TypeUpTo(ds, k) = IF d.kind = "options" /\ d.type # "Unset" THEN d.type
                        ELSE TypeUpTo(ds, k - 1)
  BY TypeNext
<1>2. /\ u.isCA = (TypeUpTo(ds, k) = "Root") /\ u.certSign = (TypeUpTo(ds, k) = "Root")
      /\ u.extKeyUsage = IF TypeUpTo(ds, k) \in {"Unset", "Root"} THEN <<>> ELSE <<TypeUpTo(ds, k)>>
  BY <1>1 DEF SumsUp, Applied
<1>3. u.subjectKeyId = BucketsUpTo(ds, k)
  BY BucketsNext DEF SumsUp, Applied
<1>4. u.publicKey = KeyUpTo(ds, k)
  BY KeyNext DEF SumsUp, Applied
<1>5. u.notAfter = ExpiryUpTo(ds, k)
  BY ExpiryNext DEF SumsUp, Applied
<1> QED
  BY <1>2, <1>3, <1>4, <1>5 DEF SumsUp

(* All details together make a draft that sums them up.                    *)
LEMMA DetailsSumUp ==
    ASSUME NEW base \in Drafts, SumsUp(base, <<>>, 0),
           NEW ds \in Seq(Details), \A i \in DOMAIN ds : ds[i] # BadCsr
    PROVE  LET c == FoldLeft(parseCertificateDetails, base, ds)
           IN c \in Drafts /\ SumsUp(c, ds, Len(ds))
<1>1. PICK h : DraftsThrough(h, base, ds)
  BY DetailsFold
<1> DEFINE S == {k \in 0..Len(ds) : SumsUp(h[k], ds, k)}
<1>2. 0 \in S
  <2>1. /\ TypeUpTo(ds, 0) = "Unset" /\ BucketsUpTo(ds, 0) = <<>> /\ KeyUpTo(ds, 0) = None
        /\ ExpiryUpTo(ds, 0) = 0
    BY DEF TypeUpTo, BucketsUpTo, KeyUpTo, ExpiryUpTo
  <2>2. /\ TypeUpTo(<<>>, 0) = "Unset" /\ BucketsUpTo(<<>>, 0) = <<>> /\ KeyUpTo(<<>>, 0) = None
        /\ ExpiryUpTo(<<>>, 0) = 0
    BY DEF TypeUpTo, BucketsUpTo, KeyUpTo, ExpiryUpTo
  <2>3. SumsUp(base, ds, 0)
    BY <2>1, <2>2 DEF SumsUp
  <2> QED
    BY <1>1, <2>3 DEF DraftsThrough
<1>3. ASSUME NEW k \in 1..Len(ds), k - 1 \in S PROVE k \in S
  <2>1. /\ k - 1 \in 0..Len(ds) /\ k \in 0..Len(ds) /\ k \in Nat \ {0}
        /\ ds[k] \in Details /\ ds[k] # BadCsr
    OBVIOUS
  <2>2. /\ h[k - 1] \in Drafts /\ h[k] = parseCertificateDetails(h[k - 1], ds[k])
    BY <1>1, <2>1 DEF DraftsThrough
  <2>3. Applied(h[k], h[k - 1], ds[k])
    BY <2>1, <2>2, DetailApplied
  <2>4. ds[k].kind = "options" \/ ds[k].kind = "csr"
    BY <2>1 DEF Details
  <2>5. SumsUp(h[k - 1], ds, k - 1)
    BY <1>3
  <2>6. SumsUp(h[k], ds, k)
    BY <2>1, <2>3, <2>4, <2>5, SumsUpNext
  <2> QED
    BY <2>1, <2>6
<1> HIDE DEF S
<1>4. \A k \in 0..Len(ds) : k \in S
  <2>1. Len(ds) \in Nat
    OBVIOUS
  <2> QED
    BY <1>2, <1>3, <2>1, Parsing!BoundedInduction
<1>5. Len(ds) \in 0..Len(ds)
  OBVIOUS
<1>6. SumsUp(h[Len(ds)], ds, Len(ds)) /\ h[Len(ds)] \in Drafts
  BY <1>1, <1>4, <1>5 DEF S, DraftsThrough
<1> QED
  BY <1>1, <1>6 DEF DraftsThrough

(* What the last word of all details is.                                   *)
LEMMA LastOfAll ==
    ASSUME NEW ds \in Seq(Details)
    PROVE  /\ LastType(ds) = TypeUpTo(ds, Len(ds)) /\ LastBuckets(ds) = BucketsUpTo(ds, Len(ds))
           /\ LastKey(ds) = KeyUpTo(ds, Len(ds))
           /\ ExpiryUpTo(ds, Len(ds)) \in {0, Past, Future}
           /\ LastExpiry(ds) = IF ExpiryUpTo(ds, Len(ds)) = 0 THEN Future
                               ELSE ExpiryUpTo(ds, Len(ds))
<1>1. DOMAIN ds = 1..Len(ds) /\ Len(ds) \in Nat
  OBVIOUS
<1>2. LastType(ds) = TypeUpTo(ds, Len(ds))
  BY <1>1 DEF LastType, TypeUpTo
<1>3. LastBuckets(ds) = BucketsUpTo(ds, Len(ds))
  BY <1>1 DEF LastBuckets, BucketsUpTo
<1>4. LastKey(ds) = KeyUpTo(ds, Len(ds))
  BY <1>1 DEF LastKey, KeyUpTo
<1> DEFINE said == {i \in 1..Len(ds) : ds[i].kind = "options" /\ ds[i].expiry # 0}
<1>5. said # {} => Max(said) \in said
  <2>1. said \in SUBSET (1..Len(ds))
    OBVIOUS
  <2> HIDE DEF said
  <2> QED
    BY <1>1, <2>1, Parsing!MaxIn DEF Max, Parsing!Largest
<1>6. \A i \in said : ds[i].expiry \in {Past, Future}
  <2> SUFFICES ASSUME NEW i \in said PROVE ds[i].expiry \in {Past, Future}
    OBVIOUS
  <2>1. ds[i] \in Details /\ ds[i].kind = "options" /\ ds[i].expiry # 0
    OBVIOUS
  <2>2. BadCsr.kind # "options"
    BY DEF BadCsr
  <2>3. ds[i].expiry \in {0, Past, Future}
    BY <2>1, <2>2 DEF Details
  <2> QED
    BY <2>1, <2>3
<1>7. /\ ExpiryUpTo(ds, Len(ds)) = IF said = {} THEN 0 ELSE ds[Max(said)].expiry
      /\ LastExpiry(ds) = IF said = {} THEN Future ELSE ds[Max(said)].expiry
  BY <1>1 DEF ExpiryUpTo, LastExpiry
<1> HIDE DEF said
<1>8. ds[Max(said)].expiry # 0 \/ said = {}
  BY <1>5, <1>6 DEF Past, Future
<1> QED
  BY <1>2, <1>3, <1>4, <1>5, <1>6, <1>7, <1>8

(* What the holder of the root's key makes of the details.                 *)
IssuedFrom(c, ds, k) ==
    /\ c \notin {None, Corrupt, Failed}
    /\ c.publicKey = LastKey(ds) /\ c.issuer = RootName /\ c.signer = k
    /\ c.notAfter = LastExpiry(ds) /\ c.certSign = (LastType(ds) = "Root")
    /\ c.extKeyUsage = IF LastType(ds) \in {"Unset", "Root"} THEN <<>> ELSE <<LastType(ds)>>
    /\ LastType(ds) # "Root" => c.subjectKeyId = LastBuckets(ds)

(* CreateCertificate makes a certificate of the last word on each, or      *)
(* fails.                                                                  *)
LEMMA Certified ==
    ASSUME NEW k \in Nat, NEW ds \in Seq(Details)
    PROVE  LET c == CreateCertificate(k, RootCert(k), ds)
           IN IF LastKey(ds) = None \/ \E i \in DOMAIN ds : ds[i] = BadCsr THEN c = Failed
              ELSE IssuedFrom(c, ds, k)
<1> DEFINE root == RootCert(k)
           base == [baseCertificate EXCEPT !.publicKey = IF root = None THEN k ELSE None]
           cert == FoldLeft(parseCertificateDetails, base, ds)
           full == [cert EXCEPT !.notAfter = IF @ = 0 THEN Future ELSE @]
           c == CreateCertificate(k, root, ds)
<1>1. root # Corrupt /\ root # None /\ root.publicKey = k /\ root.subject = RootName
  BY SignedCerts DEF RootCert
<1>2. CASE \E i \in DOMAIN ds : ds[i] = BadCsr
  BY <1>2 DEF CreateCertificate
<1>3. CASE \A i \in DOMAIN ds : ds[i] # BadCsr
  <2>1. base = [baseCertificate EXCEPT !.publicKey = None]
    BY <1>1
  <2>2. IsCertificate(base)
    BY <2>1 DEF baseCertificate, IsCertificate, Fields
  <2>3. /\ base.subject = NoName /\ base.publicKey = None /\ base.subjectKeyId = <<>>
        /\ base.notAfter = 0 /\ base.hosts = {} /\ base.isCA = FALSE /\ base.certSign = FALSE
        /\ base.extKeyUsage = <<>> /\ base.issuer = NoName /\ base.signer = None
    BY <2>1 DEF baseCertificate
  <2>4. c = Sign(full, root, k)
    BY <1>1, <1>3 DEF CreateCertificate
  <2> HIDE DEF base
  <2>5. base \in Drafts
    <3>1. NoName \in Names /\ <<>> \in Seq(Int) /\ {} \in SUBSET Text
      BY ShortLists
    <3> QED
      BY <2>2, <2>3, <3>1, IsDraft
  <2>6. SumsUp(base, <<>>, 0)
    <3>1. /\ TypeUpTo(<<>>, 0) = "Unset" /\ BucketsUpTo(<<>>, 0) = <<>> /\ KeyUpTo(<<>>, 0) = None
          /\ ExpiryUpTo(<<>>, 0) = 0
      BY DEF TypeUpTo, BucketsUpTo, KeyUpTo, ExpiryUpTo
    <3> QED
      BY <2>3, <3>1 DEF SumsUp
  <2>7. cert \in Drafts /\ SumsUp(cert, ds, Len(ds))
    BY <1>3, <2>5, <2>6, DetailsSumUp
  <2> HIDE DEF cert
  <2>8. /\ IsCertificate(cert) /\ cert.subject \in Names /\ cert.publicKey \in {None} \cup Nat
        /\ cert.subjectKeyId \in Seq(Int) /\ cert.hosts \in SUBSET Text
        /\ cert.isCA \in BOOLEAN /\ cert.certSign \in BOOLEAN
        /\ cert.extKeyUsage \in {<<>>} \cup {<<t>> : t \in {"Server", "Client"}}
    BY <2>7, DraftFields
  <2>9. IsCertificate(full)
    BY <2>8 DEF IsCertificate
  <2>10. /\ full.notAfter = IF cert.notAfter = 0 THEN Future ELSE cert.notAfter
         /\ full.subject = cert.subject /\ full.publicKey = cert.publicKey
         /\ full.subjectKeyId = cert.subjectKeyId /\ full.hosts = cert.hosts
    BY <2>8 DEF IsCertificate, Fields
  <2>11. /\ full.isCA = cert.isCA /\ full.certSign = cert.certSign
         /\ full.extKeyUsage = cert.extKeyUsage
    BY <2>8 DEF IsCertificate, Fields
  <2>12. /\ full.publicKey = LastKey(ds) /\ full.notAfter = LastExpiry(ds)
         /\ full.notAfter \in {Past, Future}
    BY <2>7, <2>10, LastOfAll DEF SumsUp
  <2>13. /\ full.isCA = (LastType(ds) = "Root") /\ full.certSign = (LastType(ds) = "Root")
         /\ full.extKeyUsage = IF LastType(ds) \in {"Unset", "Root"} THEN <<>>
                               ELSE <<LastType(ds)>>
         /\ full.subjectKeyId = LastBuckets(ds)
    BY <2>7, <2>10, <2>11, LastOfAll DEF SumsUp
  <2> HIDE DEF full, root
  <2>14. CASE LastKey(ds) = None
    BY <2>4, <2>12, <2>14 DEF Sign, c, root
  <2>15. CASE LastKey(ds) # None
    <3> HIDE DEF c
    <3>1. /\ IsCertificate(c)
          /\ c.issuer = root.subject /\ c.signer = k
          /\ c.subjectKeyId = IF full.subjectKeyId = <<>> /\ full.isCA THEN <<-full.publicKey>>
                              ELSE full.subjectKeyId
          /\ c.subject = full.subject /\ c.publicKey = full.publicKey /\ c.notAfter = full.notAfter
          /\ c.hosts = full.hosts /\ c.isCA = full.isCA /\ c.certSign = full.certSign
          /\ c.extKeyUsage = full.extKeyUsage
      BY <1>1, <2>4, <2>9, <2>12, <2>15, SignSets
    <3>2. c # Corrupt /\ c # Failed
      <4>1. "publicKey" \in DOMAIN c
        BY <3>1 DEF IsCertificate, Fields
      <4>2. "publicKey" \notin DOMAIN Corrupt /\ "publicKey" \notin DOMAIN Failed
        BY DEF Corrupt, Failed
      <4> QED
        BY <4>1, <4>2
    <3>3. c # None
      <4> DEFINE d == [subject |-> c.subject, publicKey |-> c.publicKey,
                       subjectKeyId |-> c.subjectKeyId, notAfter |-> c.notAfter,
                       hosts |-> c.hosts, isCA |-> c.isCA, certSign |-> c.certSign,
                       extKeyUsage |-> c.extKeyUsage, issuer |-> c.issuer, signer |-> c.signer]
      <4>1. IsCertificate(d)
        BY DEF IsCertificate, Fields
      <4>2. /\ d.subject = c.subject /\ d.publicKey = c.publicKey
            /\ d.subjectKeyId = c.subjectKeyId /\ d.notAfter = c.notAfter /\ d.hosts = c.hosts
            /\ d.isCA = c.isCA /\ d.certSign = c.certSign /\ d.extKeyUsage = c.extKeyUsage
            /\ d.issuer = c.issuer /\ d.signer = c.signer
        OBVIOUS
      <4>3. c.publicKey \in Nat /\ c.notAfter \in Nat /\ c.signer \in Nat
        BY <2>8, <2>10, <2>12, <2>15, <3>1 DEF Past, Future
      <4>4. c.subjectKeyId \in Seq(Int)
        <5>1. <<-c.publicKey>> \in Seq(Int)
          BY <4>3
        <5> QED
          BY <2>8, <2>10, <3>1, <5>1
      <4>5. c.extKeyUsage \in Seq(Programs)
        <5>1. c.extKeyUsage \in {<<>>, <<"Server">>, <<"Client">>}
          BY <2>8, <2>11, <3>1
        <5> QED
          BY <5>1, ShortLists
      <4>6. c.issuer \in Names
        BY <1>1, <3>1, ShortLists
      <4>7. d \in Signed
        <5>1. /\ c.subject \in Names /\ c.hosts \in SUBSET Text /\ c.isCA \in BOOLEAN
              /\ c.certSign \in BOOLEAN
          BY <2>8, <2>10, <2>11, <3>1
        <5> QED
          BY <4>3, <4>4, <4>5, <4>6, <5>1 DEF Signed
      <4> HIDE DEF d
      <4>8. c = d
        BY <3>1, <4>1, <4>2, SameCertificate
      <4> QED
        BY <4>7, <4>8, NoneAssumption
    <3>4. LastType(ds) # "Root" => c.subjectKeyId = LastBuckets(ds)
      BY <2>13, <3>1
    <3>5. IssuedFrom(c, ds, k)
      BY <1>1, <2>12, <2>13, <3>1, <3>2, <3>3, <3>4 DEF IssuedFrom
    <3> QED
      BY <1>3, <2>15, <3>5 DEF c, root
  <2> QED
    BY <2>14, <2>15
<1> QED
  BY <1>2, <1>3

(* A certificate was issued by the last step, from the files as they still *)
(* are.                                                                    *)
JustIssued ==
    issued # None =>
        /\ issued.details \in Requests
        /\ issued.cert = CreateCertificate(file[1].value, file[2].value, issued.details)
        /\ phase["Server"] = "up" /\ ~overlapped
        /\ file[1].state = "whole" /\ file[2].state = "whole"

(* No step but issuing leaves an issued certificate behind.                *)
LEMMA JustIssuedNext == JustIssued /\ [StoreNext]_storeVars => JustIssued'
<1> SUFFICES ASSUME JustIssued, [StoreNext]_storeVars PROVE JustIssued'
  OBVIOUS
<1>1. CASE UNCHANGED storeVars
  BY <1>1 DEF storeVars, JustIssued
<1>2. ASSUME NEW p \in Programs, Starts(p) \/ ProgramStep(p) \/ Dies(p) PROVE issued' = None
  BY <1>2 DEF Starts, ProgramStep, Dies, Stats, Reads, CreatesKey, CreatesCert, Writes, SetsUp
<1>3. ASSUME NEW details \in Requests, Issues(details) PROVE JustIssued'
  BY <1>3 DEF Issues, JustIssued
<1> QED
  BY <1>1, <1>2, <1>3 DEF StoreNext, JustIssued

(* Whatever the order of requests and options CreateCertificate is given,  *)
(* the client whose certificate they make is let in by the server exactly  *)
(* if the last type, bucket ids and expiry in the options say so, for      *)
(* sequences of details of every length.                                   *)
THEOREM AdmittedIffGrantedHolds == StoreSpec => []AdmittedIffGranted
<1>1. DirectoryInv /\ JustIssued => AdmittedIffGranted
  <2> SUFFICES ASSUME DirectoryInv, JustIssued, issued # None PROVE AdmittedIffGranted
    BY DEF AdmittedIffGranted
  <2> DEFINE ds == issued.details
             cert == issued.cert
             client == [key |-> LastKey(ds), cert |-> cert, root |-> certs["Server"][2]]
             valid == LastKey(ds) # None /\ BadCsr \notin Range(ds)
             granted == /\ LastType(ds) = "Client" /\ LastBuckets(ds) # <<>>
                        /\ LastExpiry(ds) = Future
  <2>1. StoreInv /\ InOneHand /\ "Server" \in Programs /\ phase["Server"] \in {"setup", "up"}
    BY DEF DirectoryInv, Orderly, Programs, JustIssued
  <2>2. PICK k \in Nat, s \in Nat :
            /\ certs["Server"][2] = RootCert(k) /\ certs["Server"][4] = ServerCert(k, s)
            /\ file[2] = Whole(RootCert(k))
    BY <2>1, OwnAccepted
  <2>3. file[2].value = RootCert(k) /\ file[1].value = k
    <3>1. file[2].value = RootCert(k)
      BY <2>2, SlotStates
    <3>2. file[2].value = RootCert(file[1].value)
      BY <2>1 DEF JustIssued, InOneHand, Consistent
    <3> QED
      BY <3>1, <3>2 DEF RootCert
  <2>4. ds \in Seq(Details) /\ cert = CreateCertificate(k, RootCert(k), ds)
    BY <2>3, RequestsAssumption DEF JustIssued
  <2>5. valid <=> ~(LastKey(ds) = None \/ \E i \in DOMAIN ds : ds[i] = BadCsr)
    BY DEF Range
  <2> HIDE DEF ds, cert
  <2>6. IF LastKey(ds) = None \/ \E i \in DOMAIN ds : ds[i] = BadCsr THEN cert = Failed
        ELSE IssuedFrom(cert, ds, k)
    BY <2>4, Certified
  <2>7. CASE ~valid
    BY <2>5, <2>6, <2>7 DEF AdmittedIffGranted, ds, cert
  <2>8. CASE valid
    <3>1. IssuedFrom(cert, ds, k)
      BY <2>5, <2>6, <2>8
    <3>2. cert # Failed /\ cert \notin {None, Corrupt}
      BY <3>1 DEF IssuedFrom
    <3>3. Validate(cert, LastKey(ds))
      BY <3>1, <3>2 DEF Validate, IssuedFrom
    <3>4. Type(cert) = "Client" <=> LastType(ds) = "Client"
      <4>1. cert # Corrupt /\ cert.certSign = (LastType(ds) = "Root")
        BY <3>1 DEF IssuedFrom
      <4>2. cert.extKeyUsage = IF LastType(ds) \in {"Unset", "Root"} THEN <<>>
                               ELSE <<LastType(ds)>>
        BY <3>1 DEF IssuedFrom
      <4>3. CASE LastType(ds) = "Root"
        BY <4>1, <4>3 DEF Type
      <4>4. CASE LastType(ds) = "Unset"
        <5>1. cert.extKeyUsage = <<>> /\ cert.certSign = FALSE
          BY <4>1, <4>2, <4>4
        <5> QED
          BY <4>1, <4>4, <5>1 DEF Type
      <4>5. CASE LastType(ds) \notin {"Root", "Unset"}
        <5>1. cert.extKeyUsage = <<LastType(ds)>> /\ cert.certSign = FALSE
          BY <4>1, <4>2, <4>5
        <5>2. <<LastType(ds)>> # <<>> /\ <<LastType(ds)>>[1] = LastType(ds)
          OBVIOUS
        <5> QED
          BY <4>1, <5>1, <5>2 DEF Type
      <4> QED
        BY <4>3, <4>4, <4>5
    <3>5. Accepts("Client", client) <=> LastType(ds) = "Client"
      BY <3>3, <3>4 DEF Accepts
    <3>6. /\ RootCert(k) # Corrupt /\ RootCert(k).isCA = TRUE /\ RootCert(k).certSign = TRUE
          /\ RootCert(k).notAfter = Future /\ RootCert(k).subject = RootName
          /\ RootCert(k).publicKey = k
      BY SignedCerts DEF RootCert
    <3>7. ChainsTo(ServerCert(k, s), RootCert(k), "Server") /\ Host \in ServerCert(k, s).hosts
      <4>1. /\ ServerCert(k, s).issuer = RootName /\ ServerCert(k, s).signer = k
            /\ ServerCert(k, s).notAfter = Future /\ ServerCert(k, s).extKeyUsage = <<"Server">>
            /\ ServerCert(k, s).hosts = {Domain, Host}
        BY DEF ServerCert
      <4>2. "Server" \in Range(<<"Server">>)
        BY DEF Range
      <4> QED
        BY <3>6, <4>1, <4>2 DEF ChainsTo
    <3>8. ASSUME LastType(ds) = "Client"
          PROVE  /\ ChainsTo(cert, RootCert(k), "Client") <=> LastExpiry(ds) = Future
                 /\ VerifyConnection(cert) <=> LastBuckets(ds) # <<>>
                 /\ cert.subjectKeyId = LastBuckets(ds)
      <4>1. /\ cert.issuer = RootName /\ cert.signer = k /\ cert.notAfter = LastExpiry(ds)
            /\ cert.extKeyUsage = <<"Client">> /\ cert.subjectKeyId = LastBuckets(ds)
        BY <3>1, <3>8 DEF IssuedFrom
      <4>2. "Client" \in Range(<<"Client">>)
        BY DEF Range
      <4>3. ChainsTo(cert, RootCert(k), "Client") <=> LastExpiry(ds) = Future
        BY <3>6, <4>1, <4>2 DEF ChainsTo
      <4> QED
        BY <4>1, <4>3 DEF VerifyConnection
    <3>9. /\ Identity("Server").root = RootCert(k) /\ Identity("Server").cert = ServerCert(k, s)
          /\ client.root = RootCert(k) /\ client.cert = cert
      BY <2>2 DEF Identity
    <3> HIDE DEF client
    <3>10. Accepts("Client", client) /\ Handshake(client, Identity("Server"), Host) <=> granted
      BY <3>5, <3>7, <3>8, <3>9 DEF Handshake
    <3>11. IF cert = Failed THEN ~valid
           ELSE /\ valid
                /\ (Accepts("Client", client) /\ Handshake(client, Identity("Server"), Host))
                       <=> granted
                /\ LastType(ds) = "Client" => cert.subjectKeyId = LastBuckets(ds)
      BY <2>8, <3>2, <3>8, <3>10
    <3> QED
      BY <3>11 DEF AdmittedIffGranted, ds, cert, client
  <2> QED
    BY <2>7, <2>8
<1>2. StoreInit => JustIssued
  BY DEF StoreInit, JustIssued
<1> QED
  BY <1>1, <1>2, DirectoryInvInit, DirectoryInvNext, JustIssuedNext, PTL DEF StoreSpec
============================================================================
