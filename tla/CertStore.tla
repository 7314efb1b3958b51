----------------------------- MODULE CertStore -----------------------------
(***************************************************************************)
(* A client and a server program that share a directory of keys and        *)
(* certificates (example3/certs.go, used by example4's programs): each, as *)
(* it starts, goes through six files in order, loads the ones that are     *)
(* there, makes the others, and then sets up its end (NewTlsServer,        *)
(* NewTlsClient).  Nothing keeps the two from doing so at the same time,   *)
(* and either may die at any moment and be started again.  Besides, the    *)
(* holder of the root key signs certificates for further clients.          *)
(***************************************************************************)
EXTENDS Certificates

CONSTANTS MaxKeys,    \* bound: keys generated
          MaxStarts,  \* bound: starts of programs
          Requests    \* what is signed for further clients: sequences of details

ASSUME CertStoreAssumption == MaxKeys \in Nat /\ MaxStarts \in Nat

Programs == {"Server", "Client"}
Files    == <<"root.key", "root.pem", "server.key", "server.pem", "client.key", "client.pem">>
IsKey(i) == i \in {1, 3, 5}
Host     == "127.0.0.1"               \* where the client dials
Domain   == "localhost"

VARIABLES file,        \* by number: what the directory holds
          phase,       \* of each program
          at,          \* of each program: the file it is at
          certs,       \* of each program: what it loaded or made so far (Certs)
          keys,        \* number of keys generated
          starts,      \* number of starts
          overlapped,  \* two programs were at the files at once and some was missing
          issued       \* the last certificate signed for a further client

storeVars == <<file, phase, at, certs, keys, starts, overlapped, issued>>

Phases  == {"off", "stat", "read", "create", "write", "setup", "up", "failed"}
Absent  == [state |-> "absent", value |-> None]
Torn    == [state |-> "torn", value |-> None]       \* truncated, or written in part
Garbled == [state |-> "garbled", value |-> None]    \* parts of two writes
Whole(value) == [state |-> "whole", value |-> value]
Nothing == [i \in DOMAIN Files |-> None]

StoreInit ==
    /\ file = [i \in DOMAIN Files |-> Absent]
    /\ phase = [p \in Programs |-> "off"]
    /\ at = [p \in Programs |-> 1]
    /\ certs = [p \in Programs |-> Nothing]
    /\ keys = 0
    /\ starts = 0
    /\ overlapped = FALSE
    /\ issued = None

StoreTypeOK ==
    /\ \A i \in DOMAIN Files :
          /\ file[i].state \in {"absent", "torn", "garbled", "whole"}
          /\ IsKey(i) /\ file[i].state = "whole" => file[i].value \in 1..keys
    /\ phase \in [Programs -> Phases] /\ at \in [Programs -> DOMAIN Files]
    /\ keys \in 0..MaxKeys /\ starts \in 0..MaxStarts /\ overlapped \in BOOLEAN
    /\ \A p \in Programs : phase[p] = "up" =>
          \A i \in DOMAIN Files : IsKey(i) => certs[p][i] \in 1..keys

----------------------------------------------------------------------------
Loading(p) == phase[p] \in {"stat", "read", "create", "write"}

(* LoadOrCreate from the beginning, with an empty Certs.                   *)
Starts(p) ==
    /\ phase[p] \in {"off", "failed"} /\ starts < MaxStarts
    /\ starts' = starts + 1
    /\ phase' = [phase EXCEPT ![p] = "stat"]
    /\ at' = [at EXCEPT ![p] = 1]
    /\ overlapped' = (overlapped \/ /\ \E q \in Programs \ {p} : Loading(q)
                                    /\ \E i \in DOMAIN Files : file[i].state # "whole")
    /\ issued' = None
    /\ UNCHANGED <<file, certs, keys>>

(* SetPrivFilePerm looks whether the file is there.                        *)
Stats(p) ==
    /\ phase[p] = "stat"
    /\ phase' = [phase EXCEPT ![p] = IF file[at[p]] = Absent THEN "create" ELSE "read"]
    /\ issued' = None
    /\ UNCHANGED <<file, at, certs, keys, starts, overlapped>>

(* The program has this file's content and goes to the next one.           *)
Proceeds(p, value) ==
    /\ certs' = [certs EXCEPT ![p][at[p]] = value]
    /\ IF at[p] = Len(Files)
       THEN phase' = [phase EXCEPT ![p] = "setup"] /\ at' = at
       ELSE phase' = [phase EXCEPT ![p] = "stat"] /\ at' = [at EXCEPT ![p] = @ + 1]

(* LoadOrCreate or New... returned an error, and main returns.             *)
Fails(p) ==
    /\ phase' = [phase EXCEPT ![p] = "failed"]
    /\ certs' = [certs EXCEPT ![p] = Nothing]
    /\ at' = [at EXCEPT ![p] = 1]

FaultyReads(p) ==
    /\ phase[p] = "read"
    /\ LET f == file[at[p]]
       IN \/ f.state = "whole" /\ Proceeds(p, f.value)
          \/ f.state \in {"torn", "garbled"} /\ Proceeds(p, IF IsKey(at[p]) THEN None ELSE Corrupt)
    /\ issued' = None
    /\ UNCHANGED <<file, keys, starts, overlapped>>

(* FromFile: what is torn is no PEM block; what is garbled may be one, and *)
(* a certificate's bytes are not looked at here.                           *)
Reads(p) ==
    /\ phase[p] = "read"
    /\ LET f == file[at[p]]
       IN \/ f.state = "whole" /\ Proceeds(p, f.value)
          \/ f.state \in {"torn", "garbled"} /\ Fails(p)
          \/ f.state = "garbled" /\ ~IsKey(at[p]) /\ Proceeds(p, Corrupt)
    /\ issued' = None
    /\ UNCHANGED <<file, keys, starts, overlapped>>

FaultyCreated(c, i) ==
    CASE i = 2 -> CreateCertificate(c[1], None, <<Options(None, c[1], {}, "Root")>>)
      [] i = 4 -> CreateCertificate(c[1], c[2], <<Options(None, c[3], {Domain, Host}, "Server")>>)
      [] i = 6 -> CreateCertificate(c[1], c[2], <<Options(None, c[5], {}, "Client")>>)

(* The certificate LoadOrCreate makes from what it has.                    *)
Created(c, i) ==
    CASE i = 2 -> CreateCertificate(c[1], None,
                     <<[Options(None, c[1], {}, "Root") EXCEPT
                           !.subject = [NoName EXCEPT !.commonName = "webmafia.com", !.organization = <<"Log">>]]>>)
      [] i = 4 -> CreateCertificate(c[1], c[2], <<Options(None, c[3], {Domain, Host}, "Server")>>)
      [] i = 6 -> CreateCertificate(c[1], c[2], <<Options(<<123>>, c[5], {}, "Client")>>)

(* ToFile up to its OpenFile, which truncates.                             *)
Opens(p, value) ==
    /\ file' = [file EXCEPT ![at[p]] = Torn]
    /\ certs' = [certs EXCEPT ![p][at[p]] = value]
    /\ phase' = [phase EXCEPT ![p] = "write"]
    /\ at' = at

CreatesKey(p) ==
    /\ phase[p] = "create" /\ IsKey(at[p])
    /\ keys < MaxKeys
    /\ keys' = keys + 1
    /\ Opens(p, keys')
    /\ issued' = None
    /\ UNCHANGED <<starts, overlapped>>

CreatesCert(p) ==
    /\ phase[p] = "create" /\ ~IsKey(at[p])
    /\ LET cert == Created(certs[p], at[p])
       IN IF cert = Failed THEN Fails(p) /\ file' = file ELSE Opens(p, cert)
    /\ issued' = None
    /\ UNCHANGED <<keys, starts, overlapped>>

(* EncodePEM, line by line: when both programs have the file open, or the  *)
(* other wrote after this one opened it, the lines may mix, or those of    *)
(* the other may be the last ones throughout.                              *)
Writes(p) ==
    /\ phase[p] = "write"
    /\ LET i         == at[p]
           contested == \/ file[i] # Torn
                        \/ \E q \in Programs \ {p} : phase[q] = "write" /\ at[q] = i
       IN \/ file' = [file EXCEPT ![i] = Whole(certs[p][i])]
          \/ contested /\ file' = [file EXCEPT ![i] = Garbled]
          \/ contested /\ file[i] # Torn /\ file' = file
    /\ Proceeds(p, certs[p][at[p]])
    /\ issued' = None
    /\ UNCHANGED <<keys, starts, overlapped>>

Identity(p) ==
    [key |-> certs[p][IF p = "Server" THEN 3 ELSE 5], cert |-> certs[p][IF p = "Server" THEN 4 ELSE 6],
     root |-> certs[p][2]]

(* NewTlsServer, NewTlsClient.                                             *)
SetsUp(p) ==
    /\ phase[p] = "setup"
    /\ IF Accepts(p, Identity(p))
       THEN phase' = [phase EXCEPT ![p] = "up"] /\ UNCHANGED <<at, certs>>
       ELSE Fails(p)
    /\ issued' = None
    /\ UNCHANGED <<file, keys, starts, overlapped>>

(* A signal, a loss of power, or a system call that fails.                 *)
Dies(p) ==
    /\ phase[p] \notin {"off", "failed"}
    /\ phase' = [phase EXCEPT ![p] = "off"]
    /\ certs' = [certs EXCEPT ![p] = Nothing]
    /\ at' = [at EXCEPT ![p] = 1]
    /\ issued' = None
    /\ UNCHANGED <<file, keys, starts, overlapped>>

(* The root's holder signs for a further client, while no program is at    *)
(* the files and two never were.                                           *)
Issues(details) ==
    /\ issued = None /\ phase["Server"] = "up"
    /\ ~overlapped /\ \A p \in Programs : ~Loading(p)
    /\ file[1].state = "whole" /\ file[2].state = "whole"
    /\ issued' = [details |-> details,
                  cert |-> CreateCertificate(file[1].value, file[2].value, details)]
    /\ UNCHANGED <<file, phase, at, certs, keys, starts, overlapped>>

ProgramStep(p) == Stats(p) \/ Reads(p) \/ CreatesKey(p) \/ CreatesCert(p) \/ Writes(p) \/ SetsUp(p)

StoreNext ==
    \/ \E p \in Programs : Starts(p) \/ ProgramStep(p) \/ Dies(p)
    \/ \E details \in Requests : Issues(details)

StoreSpec == StoreInit /\ [][StoreNext]_storeVars
============================================================================
