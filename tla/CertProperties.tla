--------------------------- MODULE CertProperties ---------------------------
(***************************************************************************)
(* What operators rely on when they start, restart and certify programs.   *)
(***************************************************************************)
EXTENDS CertStore

CONSTANT Text         \* the strings that names and hosts are made of

ASSUME TextAssumption == {"", "webmafia.com", "Log", Domain, Host} \subseteq Text

(* None is neither a key, nor a list of buckets, nor bytes of any kind.    *)
Names  == [commonName : Text, organization : Seq(Text), streetAddress : Seq(Text)]
Signed == [subject : Names, publicKey : Nat, subjectKeyId : Seq(Int), notAfter : Nat,
           hosts : SUBSET Text, isCA : BOOLEAN, certSign : BOOLEAN,
           extKeyUsage : Seq(Programs), issuer : Names, signer : Nat]

ASSUME NoneAssumption ==
    None \notin Nat /\ None \notin Seq(Int) /\ None \notin Signed /\ None # Corrupt

(* Programs that are both up can talk to each other, however often and     *)
(* wherever in LoadOrCreate they died before, unless they ever went        *)
(* through an incomplete directory at the same time: the certificate of    *)
(* each one chains to the root the other one loaded, names the host the    *)
(* client dials and grants buckets (LoadOrCreate, VerifyConnection).       *)
Interoperate ==
    (\A p \in Programs : phase[p] = "up") /\ ~overlapped =>
        Handshake(Identity("Client"), Identity("Server"), Host)

(* A start fails of itself only in a damaged directory: one whose files    *)
(* two programs made at once, or one with a file that a program opened and *)
(* did not live to write (ToFile).  All other deaths, between any two      *)
(* files, are made good by the next start of either program.               *)
FailsOnlyIfDamaged ==
    (\E p \in Programs : phase[p] = "failed") =>
        overlapped \/ \E i \in DOMAIN Files : file[i] = Torn

(* Even when two programs made the files at once, a program that comes up  *)
(* presents a certificate of its own key and of its own type, which is     *)
(* signed by some key (Certificate.Validate, Certificate.Type).            *)
UpIsSound ==
    \A p \in Programs : phase[p] = "up" =>
        LET id == Identity(p)
        IN /\ id.cert.publicKey = id.key /\ id.cert.extKeyUsage = <<p>>
           /\ ~id.cert.certSign /\ id.cert.signer \in 1..keys

----------------------------------------------------------------------------
(* Details as a caller can make them: any options, any request, and bytes  *)
(* that are no request.                                                    *)
Details ==
    [kind : {"options"}, subject : Names, bucketIds : {None} \cup Seq(Int),
     publicKey : {None} \cup Nat, expiry : {0, Past, Future}, hosts : SUBSET Text,
     type : {"Unset", "Root", "Server", "Client"}]
    \cup [kind : {"csr"}, subject : Names, publicKey : {None} \cup Nat, hosts : SUBSET Text]
    \cup {BadCsr}

ASSUME RequestsAssumption == Requests \subseteq Seq(Details)

(* What the last of several details says that says something about it.     *)
LastType(ds) ==
    LET said == {i \in DOMAIN ds : ds[i].kind = "options" /\ ds[i].type # "Unset"}
    IN IF said = {} THEN "Unset" ELSE ds[Max(said)].type
LastBuckets(ds) ==
    LET said == {i \in DOMAIN ds : ds[i].kind = "options" /\ ds[i].bucketIds # None}
    IN IF said = {} THEN <<>> ELSE ds[Max(said)].bucketIds
LastKey(ds) ==
    LET said == {i \in DOMAIN ds : ds[i].kind \in {"options", "csr"} /\ ds[i].publicKey # None}
    IN IF said = {} THEN None ELSE ds[Max(said)].publicKey
LastExpiry(ds) ==
    LET said == {i \in DOMAIN ds : ds[i].kind = "options" /\ ds[i].expiry # 0}
    IN IF said = {} THEN Future ELSE ds[Max(said)].expiry

(* Whatever the order of requests and options CreateCertificate is given:  *)
(* a client (NewTlsClient) whose certificate they make is let in by the    *)
(* server exactly if the last type in the options is Client, the last      *)
(* bucket ids in the options are not empty and the last expiry in them has *)
(* not passed, and it may then use exactly those buckets; what the request *)
(* says has no say in any of it.                                           *)
AdmittedIffGranted ==
    issued # None =>
        LET ds     == issued.details
            client == [key |-> LastKey(ds), cert |-> issued.cert, root |-> certs["Server"][2]]
            valid  == LastKey(ds) # None /\ BadCsr \notin Range(ds)
        IN IF issued.cert = Failed THEN ~valid
           ELSE /\ valid
                /\ (Accepts("Client", client) /\ Handshake(client, Identity("Server"), Host))
                       <=> /\ LastType(ds) = "Client" /\ LastBuckets(ds) # <<>>
                           /\ LastExpiry(ds) = Future
                /\ LastType(ds) = "Client" => issued.cert.subjectKeyId = LastBuckets(ds)
============================================================================
