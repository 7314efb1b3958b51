----------------------------- MODULE TlsServer -----------------------------
(***************************************************************************)
(* peer/tls_server.go around the handlers of ServerConn: the listener, the *)
(* pool of tlsServerConn objects that acquireConn and releaseConn recycle  *)
(* from one connection to the next, and any number of clients that send    *)
(* entries and pings, read answers and hang up as they like.  To a handler *)
(* a cut connection is a client that hung up, and a lost message is one    *)
(* that was never sent.                                                    *)
(*                                                                         *)
(* A message is the bucket its entry goes to, or Ping; client k's          *)
(* certificate names the buckets CertBuckets[k].                           *)
(***************************************************************************)
EXTENDS ServerConn, FiniteSets

CONSTANTS Buckets,      \* bucket ids, positive numbers
          CertBuckets,  \* per connection, SubjectKeyId of the client's certificate
          MaxMessages   \* bound: messages sent, over all connections

ASSUME TlsServerAssumption ==
    /\ Buckets \subseteq Nat \ {Ping}
    /\ CertBuckets \in [Conns -> SUBSET Buckets]
    /\ MaxMessages \in Nat
    /\ "reject" \in Faults   \* entries for other buckets are always rejected

Objects  == 1..MaxConns   \* no more handlers than connections
NoObject == 0
Nil      == NoConn        \* validBucketIds of an object no connection uses

VARIABLES listening,         \* the listener is open
          connPool,          \* the objects in s.connPool
          obj,               \* each handler: the object it uses
          validBucketIds,    \* each object: the connection whose certificate it holds
          entriesReceived,   \* each object's counters
          entriesSucceeded,
          pingsReceived,
          pongsSent,
          asked,             \* per connection, the messages its client sent
          got,               \* per connection, the answers its client read
          accepted           \* per connection, the entries the processor took from it

objectVars == <<connPool, obj, validBucketIds, entriesReceived, entriesSucceeded,
                pingsReceived, pongsSent>>
peerVars   == <<asked, got>>
tlsVars    == <<wireVars, serverVars, listening, objectVars, peerVars, accepted>>

NewTlsServer ==
    /\ WireInit
    /\ ServerInit
    /\ listening = TRUE
    /\ connPool = {}
    /\ obj = [k \in Conns |-> NoObject]
    /\ validBucketIds = [o \in Objects |-> Nil]
    /\ entriesReceived = [o \in Objects |-> 0]
    /\ entriesSucceeded = [o \in Objects |-> 0]
    /\ pingsReceived = [o \in Objects |-> 0]
    /\ pongsSent = [o \in Objects |-> 0]
    /\ asked = [k \in Conns |-> <<>>]
    /\ got = [k \in Conns |-> <<>>]
    /\ accepted = [k \in Conns |-> <<>>]

TlsServerTypeOK ==
    /\ WireTypeOK
    /\ ServerTypeOK
    /\ listening \in BOOLEAN
    /\ connPool \subseteq Objects
    /\ obj \in [Conns -> Objects \cup {NoObject}]
    /\ validBucketIds \in [Objects -> Conns \cup {Nil}]
    /\ entriesReceived \in [Objects -> Nat]
    /\ entriesSucceeded \in [Objects -> Nat]
    /\ pingsReceived \in [Objects -> Nat]
    /\ pongsSent \in [Objects -> Nat]
    /\ asked \in [Conns -> Seq(Buckets \cup {Ping})]
    /\ got \in [Conns -> Seq(Responses)]
    /\ accepted \in [Conns -> Seq(Buckets)]

----------------------------------------------------------------------------
FaultyGetForgetsToRemove(k, v11) ==
    /\ listening
    /\ Handshake(k, v11)
    /\ \E o \in Objects :
          /\ o \in connPool \/ o \notin {obj[j] : j \in Conns}
          /\ obj' = [obj EXCEPT ![k] = o]
          /\ validBucketIds' = [validBucketIds EXCEPT ![o] = k]
          /\ connPool' = connPool \cup {o}
    /\ UNCHANGED <<listening, entriesReceived, entriesSucceeded, pingsReceived, pongsSent,
                   peerVars, accepted>>

Bump(f, k) == [f EXCEPT ![obj[k]] = @ + 1]

(* acquireConn: an object from the pool, or a new one with zero counters.  *)
(* A sync.Pool may forget what it holds, so a new one is always possible.  *)
acquireConn(k, v11) ==
    /\ listening
    /\ Handshake(k, v11)
    /\ \E o \in Objects :
          /\ o \in connPool \/ o \notin {obj[j] : j \in Conns}
          /\ obj' = [obj EXCEPT ![k] = o]
          /\ validBucketIds' = [validBucketIds EXCEPT ![o] = k]
          /\ connPool' = connPool \ {o}
    /\ UNCHANGED <<listening, entriesReceived, entriesSucceeded, pingsReceived, pongsSent,
                   peerVars, accepted>>

(* handleConnection returns before it has an object: HandshakeContext also *)
(* fails once the server's context is done.                                *)
RefusesConn(k) ==
    /\ HandshakeMayFail(k) \/ ~listening
    /\ HandshakeFails(k)
    /\ UNCHANGED <<listening, objectVars, peerVars, accepted>>

FaultyValidBucketIdForgets(o, b) == b \in Buckets

(* validBucketId: without ids everything is allowed.                       *)
validBucketId(o, b) == validBucketIds[o] = Nil \/ b \in CertBuckets[validBucketIds[o]]

(* handleEntry, with its counters.  An entry whose bucket is not allowed   *)
(* is never processed; one that is may still fail.                         *)
HandlesEntry(k) ==
    LET b == Head(c2s[k])
    IN /\ handleEntry(k)
       /\ hpc'[k] = "OK" => validBucketId(obj[k], b)
       /\ entriesReceived' = Bump(entriesReceived, k)
       /\ \/ /\ hpc'[k] = "OK"
             /\ entriesSucceeded' = Bump(entriesSucceeded, k)
             /\ accepted' = [accepted EXCEPT ![k] = Append(@, b)]
          \/ /\ hpc'[k] = "NOK"
             /\ UNCHANGED <<entriesSucceeded, accepted>>
       /\ UNCHANGED <<listening, connPool, obj, validBucketIds, pingsReceived, pongsSent,
                      peerVars>>

HandlesPing(k) ==
    /\ ReadsPing(k)
    /\ pingsReceived' = Bump(pingsReceived, k)
    /\ UNCHANGED <<listening, connPool, obj, validBucketIds, entriesReceived,
                   entriesSucceeded, pongsSent, peerVars, accepted>>

(* The pong is written; when Write fails the ping counts as an entry.      *)
Pongs(k) ==
    /\ SendsPong(k)
    /\ \/ /\ pongsSent' = Bump(pongsSent, k)
          /\ UNCHANGED entriesReceived
       \/ /\ k \notin clientOpen \/ k \in cut
          /\ entriesReceived' = Bump(entriesReceived, k)
          /\ UNCHANGED pongsSent
    /\ UNCHANGED <<listening, connPool, obj, validBucketIds, entriesSucceeded,
                   pingsReceived, peerVars, accepted>>

(* The rest of listen's loop leaves the object alone.                      *)
Listens(k) ==
    /\ ReadsEnd(k) \/ IdleTimeout(k) \/ AcksOK(k) \/ AcksNOK(k)
    /\ UNCHANGED <<listening, objectVars, peerVars, accepted>>

FaultyReleasePutsNothing(k) ==
    /\ releaseConn(k)
    /\ obj' = [obj EXCEPT ![k] = NoObject]
    /\ connPool' = connPool \cup {obj'[k]}
    /\ UNCHANGED <<listening, validBucketIds, entriesReceived, entriesSucceeded,
                   pingsReceived, pongsSent, peerVars, accepted>>

FaultyReleaseKeepsCounters(k) ==
    /\ releaseConn(k)
    /\ obj' = [obj EXCEPT ![k] = NoObject]
    /\ validBucketIds' = [validBucketIds EXCEPT ![obj[k]] = Nil]
    /\ connPool' = connPool \cup {obj[k]}
    /\ UNCHANGED <<listening, entriesReceived, entriesSucceeded, pingsReceived, pongsSent,
                   peerVars, accepted>>

(* releaseConn clears the object and puts it back.                         *)
ReleasesConn(k) ==
    LET o == obj[k]
    IN /\ releaseConn(k)
       /\ obj' = [obj EXCEPT ![k] = NoObject]
       /\ validBucketIds' = [validBucketIds EXCEPT ![o] = Nil]
       /\ pingsReceived' = [pingsReceived EXCEPT ![o] = 0]
       /\ pongsSent' = [pongsSent EXCEPT ![o] = 0]
       /\ entriesReceived' = [entriesReceived EXCEPT ![o] = 0]
       /\ entriesSucceeded' = [entriesSucceeded EXCEPT ![o] = 0]
       /\ connPool' = connPool \cup {o}
       /\ UNCHANGED <<listening, peerVars, accepted>>

(* The context is done: the listener closes, the handlers carry on.        *)
ListenerCloses ==
    /\ listening
    /\ listening' = FALSE
    /\ UNCHANGED <<wireVars, serverVars, objectVars, peerVars, accepted>>

----------------------------------------------------------------------------
(* Clients.                                                                *)

PeerDials ==
    /\ listening
    /\ Open
    /\ UNCHANGED <<serverVars, listening, objectVars, peerVars, accepted>>

PeerSends(k, m) ==
    /\ SumFunction([j \in Conns |-> Len(asked[j])]) < MaxMessages
    /\ ClientWrites(k, m)
    /\ asked' = [asked EXCEPT ![k] = Append(@, m)]
    /\ UNCHANGED <<serverVars, listening, objectVars, got, accepted>>

PeerReads(k) ==
    /\ ClientReads(k)
    /\ got' = [got EXCEPT ![k] = Append(@, Head(s2c[k]))]
    /\ UNCHANGED <<serverVars, listening, objectVars, asked, accepted>>

PeerHangsUp(k) ==
    /\ k \in clientOpen
    /\ ClientHangsUp(k)
    /\ UNCHANGED <<serverVars, listening, objectVars, peerVars, accepted>>

----------------------------------------------------------------------------
HandleConnection(k) ==
    \/ \E v11 \in BOOLEAN : acquireConn(k, v11)
    \/ RefusesConn(k)
    \/ HandlesEntry(k) \/ HandlesPing(k) \/ Pongs(k) \/ Listens(k)
    \/ ReleasesConn(k)

PeerStep(k) ==
    \/ \E m \in Buckets \cup {Ping} : PeerSends(k, m)
    \/ PeerReads(k) \/ PeerHangsUp(k)

TlsServerNext ==
    \/ \E k \in Conns : HandleConnection(k) \/ PeerStep(k)
    \/ PeerDials
    \/ ListenerCloses

TlsServerSpec == NewTlsServer /\ [][TlsServerNext]_tlsVars

(* Every handler is a goroutine of its own that keeps running.             *)
FairTlsServer ==
    TlsServerSpec /\ \A k \in Conns : WF_tlsVars(HandleConnection(k))
============================================================================
