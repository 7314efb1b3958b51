---------------------------- MODULE ServerProofs ----------------------------
(***************************************************************************)
(* Proofs that the invariants of ServerProperties hold for every number of *)
(* connections, every choice of buckets and certificates, every set of     *)
(* faults and any number of messages.                                      *)
(***************************************************************************)
EXTENDS ServerProperties, WireProofs, FiniteSetTheorems

(* What recycling rests on: who has an object, whose certificate is in it, *)
(* and that an object nobody has is as good as new.                        *)
HasObject ==
    \A k \in Conns :
        /\ Serving(k) => obj[k] \in Objects /\ validBucketIds[obj[k]] = k
        /\ ~Serving(k) => obj[k] = NoObject

FreeIsClean ==
    \A o \in Objects : (\A k \in Conns : obj[k] # o) => entriesSucceeded[o] = 0

NothingAcceptedYet == \A k \in Conns : hpc[k] = "accept" => accepted[k] = <<>>

ObjectInv ==
    /\ TlsServerTypeOK
    /\ HasObject /\ FreeIsClean /\ NothingAcceptedYet
    /\ OwnObject /\ OnlyOwnBuckets /\ CountersAreOwn

(* It holds of a new server (NewTlsServer), ...                            *)
LEMMA ObjectInvInit == NewTlsServer => ObjectInv
<1> SUFFICES ASSUME NewTlsServer PROVE ObjectInv
  OBVIOUS
<1> USE WireAssumption, TlsServerAssumption DEF NewTlsServer, WireInit, ServerInit
<1>1. WireTypeOK /\ ServerTypeOK
  BY EmptySeq DEF WireTypeOK, ServerTypeOK, Conns
<1>2. /\ asked \in [Conns -> Seq(Buckets \cup {Ping})]
      /\ got \in [Conns -> Seq(Responses)]
      /\ accepted \in [Conns -> Seq(Buckets)]
  BY EmptySeq
<1>3. TlsServerTypeOK
  BY <1>1, <1>2 DEF TlsServerTypeOK, Objects, NoObject, Nil
<1>4. \A k \in Conns : ~Serving(k) /\ obj[k] = NoObject /\ accepted[k] = <<>>
  BY DEF Serving
<1>5. \A o \in Objects : entriesSucceeded[o] = 0
  OBVIOUS
<1>6. OnlyOwnBuckets
  BY <1>4 DEF OnlyOwnBuckets
<1> QED
  BY <1>3, <1>4, <1>5, <1>6 DEF ObjectInv, HasObject, FreeIsClean, NothingAcceptedYet,
     OwnObject, CountersAreOwn

(* A step that leaves the objects, and who serves, alone.                  *)
LEMMA SameObjects ==
    ASSUME ObjectInv, TlsServerTypeOK',
           UNCHANGED <<connPool, obj, validBucketIds, entriesSucceeded, accepted>>,
           \A j \in Conns : /\ Serving(j)' <=> Serving(j)
                            /\ hpc'[j] = "accept" => hpc[j] = "accept"
    PROVE  ObjectInv'
<1>1. HasObject' /\ FreeIsClean' /\ NothingAcceptedYet'
  BY DEF ObjectInv, HasObject, FreeIsClean, NothingAcceptedYet
<1>2. OwnObject' /\ OnlyOwnBuckets' /\ CountersAreOwn'
  BY DEF ObjectInv, OwnObject, OnlyOwnBuckets, CountersAreOwn
<1> QED
  BY <1>1, <1>2 DEF ObjectInv

(* acquireConn: an object from the pool or a new one is nobody's.          *)
LEMMA AcquireKeepsObjects ==
    ASSUME ObjectInv, NEW k \in Conns, NEW v11 \in BOOLEAN, acquireConn(k, v11)
    PROVE  ObjectInv'
<1>1. PICK o \in Objects :
          /\ o \in connPool \/ o \notin {obj[j] : j \in Conns}
          /\ obj' = [obj EXCEPT ![k] = o]
          /\ validBucketIds' = [validBucketIds EXCEPT ![o] = k]
          /\ connPool' = connPool \ {o}
  BY DEF acquireConn
<1>2. /\ hpc[k] = "accept" /\ hpc' = [hpc EXCEPT ![k] = "listen"]
      /\ UNCHANGED <<listening, entriesReceived, entriesSucceeded, pingsReceived, pongsSent,
                     asked, got, accepted>>
  BY DEF acquireConn, Handshake, Goes, peerVars
<1>3. TlsServerTypeOK'
  <2>1. WireTypeOK' /\ ServerTypeOK'
    BY HandlerType DEF acquireConn, ObjectInv, TlsServerTypeOK
  <2> QED
    BY <1>1, <1>2, <2>1 DEF ObjectInv, TlsServerTypeOK
<1>4. o # NoObject /\ NoObject \notin Objects
  BY WireAssumption DEF Objects, NoObject
<1>5. \A j \in Conns : obj[j] # o
  <2> SUFFICES ASSUME NEW j \in Conns, obj[j] = o PROVE FALSE
    OBVIOUS
  <2>1. Serving(j)
    BY <1>4 DEF ObjectInv, HasObject
  <2>2. o \notin connPool
    BY <2>1 DEF ObjectInv, OwnObject
  <2> QED
    BY <1>1, <2>2
<1>6. /\ hpc \in [Conns -> {"accept", "listen", "pong", "OK", "NOK", "release", "done"}]
      /\ obj \in [Conns -> Objects \cup {NoObject}]
      /\ validBucketIds \in [Objects -> Conns \cup {Nil}]
  BY DEF ObjectInv, TlsServerTypeOK, ServerTypeOK
<1>7. /\ Serving(k)' /\ ~Serving(k)
      /\ \A j \in Conns \ {k} : Serving(j)' <=> Serving(j)
  BY <1>2, <1>6 DEF Serving
<1>8. HasObject'
  <2> SUFFICES ASSUME NEW j \in Conns
               PROVE  /\ Serving(j)' => obj'[j] \in Objects /\ validBucketIds'[obj'[j]] = j
                      /\ ~Serving(j)' => obj'[j] = NoObject
    BY DEF HasObject
  <2>1. CASE j = k
    BY <1>1, <1>6, <1>7, <2>1
  <2>2. CASE j # k
    BY <1>1, <1>5, <1>6, <1>7, <2>2 DEF ObjectInv, HasObject
  <2> QED
    BY <2>1, <2>2
<1>9. FreeIsClean'
  <2> SUFFICES ASSUME NEW p \in Objects, \A j \in Conns : obj'[j] # p
               PROVE  entriesSucceeded'[p] = 0
    BY DEF FreeIsClean
  <2>1. \A j \in Conns : obj[j] # p
    <3>1. obj[k] # p
      BY <1>4, <1>7 DEF ObjectInv, HasObject
    <3> QED
      BY <1>1, <1>6, <3>1
  <2> QED
    BY <1>2, <2>1 DEF ObjectInv, FreeIsClean
<1>10. NothingAcceptedYet'
  BY <1>2, <1>6 DEF ObjectInv, NothingAcceptedYet
<1>11. OwnObject'
  <2> SUFFICES ASSUME NEW j \in Conns, Serving(j)'
               PROVE  /\ obj'[j] \notin connPool'
                      /\ \A i \in Conns \ {j} : obj'[i] # obj'[j]
    BY DEF OwnObject
  <2>1. CASE j = k
    BY <1>1, <1>5, <1>6, <2>1
  <2>2. CASE j # k
    <3>1. obj'[j] = obj[j] /\ Serving(j)
      BY <1>1, <1>6, <1>7, <2>2
    <3> QED
      BY <1>1, <1>5, <1>6, <2>2, <3>1 DEF ObjectInv, OwnObject
  <2> QED
    BY <2>1, <2>2
<1>12. OnlyOwnBuckets'
  BY <1>2 DEF ObjectInv, OnlyOwnBuckets
<1>13. CountersAreOwn'
  <2> SUFFICES ASSUME NEW j \in Conns, Serving(j)'
               PROVE  entriesSucceeded'[obj'[j]] = Len(accepted'[j])
    BY DEF CountersAreOwn
  <2>1. CASE j = k
    <3>1. entriesSucceeded[o] = 0
      BY <1>5 DEF ObjectInv, FreeIsClean
    <3>2. accepted[k] = <<>>
      BY <1>2 DEF ObjectInv, NothingAcceptedYet
    <3> QED
      BY <1>1, <1>2, <1>6, <2>1, <3>1, <3>2
  <2>2. CASE j # k
    BY <1>1, <1>2, <1>6, <1>7, <2>2 DEF ObjectInv, CountersAreOwn
  <2> QED
    BY <2>1, <2>2
<1> QED
  BY <1>3, <1>8, <1>9, <1>10, <1>11, <1>12, <1>13 DEF ObjectInv

(* releaseConn: the object was this handler's alone, and is cleared.       *)
LEMMA ReleaseKeepsObjects ==
    ASSUME ObjectInv, NEW k \in Conns, ReleasesConn(k)
    PROVE  ObjectInv'
<1> DEFINE o == obj[k]
<1>1. /\ hpc[k] = "release" /\ hpc' = [hpc EXCEPT ![k] = "done"]
      /\ obj' = [obj EXCEPT ![k] = NoObject]
      /\ validBucketIds' = [validBucketIds EXCEPT ![o] = Nil]
      /\ entriesSucceeded' = [entriesSucceeded EXCEPT ![o] = 0]
      /\ connPool' = connPool \cup {o}
      /\ UNCHANGED <<listening, asked, got, accepted>>
  BY DEF ReleasesConn, releaseConn, Goes, peerVars
<1>2. /\ hpc \in [Conns -> {"accept", "listen", "pong", "OK", "NOK", "release", "done"}]
      /\ obj \in [Conns -> Objects \cup {NoObject}]
      /\ validBucketIds \in [Objects -> Conns \cup {Nil}]
      /\ entriesSucceeded \in [Objects -> Nat]
  BY DEF ObjectInv, TlsServerTypeOK, ServerTypeOK
<1>3. /\ Serving(k) /\ ~Serving(k)'
      /\ \A j \in Conns \ {k} : Serving(j)' <=> Serving(j)
  BY <1>1, <1>2 DEF Serving
<1>4. o \in Objects /\ o # NoObject /\ \A j \in Conns \ {k} : obj[j] # o
  <2>1. o \in Objects
    BY <1>3 DEF ObjectInv, HasObject
  <2>2. NoObject \notin Objects
    BY WireAssumption DEF Objects, NoObject
  <2> QED
    BY <1>3, <2>1, <2>2 DEF ObjectInv, OwnObject
<1>5. TlsServerTypeOK'
  <2>1. WireTypeOK' /\ ServerTypeOK'
    <3>1. HandlerStep(k)
      BY DEF ReleasesConn, HandlerStep
    <3> QED
      BY <3>1, HandlerType DEF ObjectInv, TlsServerTypeOK
  <2> QED
    BY <1>1, <1>4, <2>1 DEF ReleasesConn, ObjectInv, TlsServerTypeOK
<1>6. HasObject'
  <2> SUFFICES ASSUME NEW j \in Conns
               PROVE  /\ Serving(j)' => obj'[j] \in Objects /\ validBucketIds'[obj'[j]] = j
                      /\ ~Serving(j)' => obj'[j] = NoObject
    BY DEF HasObject
  <2>1. CASE j = k
    BY <1>1, <1>2, <1>3, <2>1
  <2>2. CASE j # k
    BY <1>1, <1>2, <1>3, <1>4, <2>2 DEF ObjectInv, HasObject
  <2> QED
    BY <2>1, <2>2
<1>7. FreeIsClean'
  <2> SUFFICES ASSUME NEW p \in Objects, \A j \in Conns : obj'[j] # p
               PROVE  entriesSucceeded'[p] = 0
    BY DEF FreeIsClean
  <2>1. CASE p = o
    BY <1>1, <1>2, <1>4, <2>1
  <2>2. CASE p # o
    <3>1. \A j \in Conns : obj[j] # p
      BY <1>1, <1>2, <2>2
    <3> QED
      BY <1>1, <1>2, <2>2, <3>1 DEF ObjectInv, FreeIsClean
  <2> QED
    BY <2>1, <2>2
<1>8. NothingAcceptedYet'
  BY <1>1, <1>2 DEF ObjectInv, NothingAcceptedYet
<1>9. OwnObject'
  <2> SUFFICES ASSUME NEW j \in Conns, Serving(j)'
               PROVE  /\ obj'[j] \notin connPool'
                      /\ \A i \in Conns \ {j} : obj'[i] # obj'[j]
    BY DEF OwnObject
  <2>1. j # k /\ Serving(j) /\ obj'[j] = obj[j] /\ obj[j] # o
    BY <1>1, <1>2, <1>3, <1>4
  <2>2. obj[j] # NoObject
    BY <2>1, WireAssumption DEF ObjectInv, HasObject, Objects, NoObject
  <2> QED
    BY <1>1, <1>2, <2>1, <2>2 DEF ObjectInv, OwnObject
<1>10. OnlyOwnBuckets'
  BY <1>1 DEF ObjectInv, OnlyOwnBuckets
<1>11. CountersAreOwn'
  BY <1>1, <1>2, <1>3, <1>4 DEF ObjectInv, CountersAreOwn, HasObject
<1> QED
  BY <1>5, <1>6, <1>7, <1>8, <1>9, <1>10, <1>11 DEF ObjectInv

(* handleEntry: what is processed is for a bucket of the certificate in    *)
(* the object, which is that of this connection, and counted there.        *)
LEMMA EntryKeepsObjects ==
    ASSUME ObjectInv, NEW k \in Conns, HandlesEntry(k)
    PROVE  ObjectInv'
<1> DEFINE b == Head(c2s[k])
           o == obj[k]
<1>1. /\ hpc[k] = "listen"
      /\ hpc' = [hpc EXCEPT ![k] = "OK"] \/ hpc' = [hpc EXCEPT ![k] = "NOK"]
      /\ UNCHANGED <<listening, connPool, obj, validBucketIds, pingsReceived, pongsSent,
                     asked, got>>
  BY DEF HandlesEntry, handleEntry, Goes, peerVars
<1>2. /\ hpc \in [Conns -> {"accept", "listen", "pong", "OK", "NOK", "release", "done"}]
      /\ obj \in [Conns -> Objects \cup {NoObject}]
      /\ validBucketIds \in [Objects -> Conns \cup {Nil}]
      /\ entriesSucceeded \in [Objects -> Nat]
      /\ accepted \in [Conns -> Seq(Buckets)]
  BY DEF ObjectInv, TlsServerTypeOK, ServerTypeOK
<1>3. \A j \in Conns : /\ Serving(j)' <=> Serving(j)
                       /\ hpc'[j] = "accept" => hpc[j] = "accept"
  BY <1>1, <1>2 DEF Serving
<1>4. Serving(k) /\ o \in Objects /\ validBucketIds[o] = k
  BY <1>1 DEF Serving, ObjectInv, HasObject
<1>5. WireTypeOK' /\ ServerTypeOK'
  <2>1. HandlerStep(k)
    BY DEF HandlesEntry, HandlerStep
  <2> QED
    BY <2>1, HandlerType DEF ObjectInv, TlsServerTypeOK
<1>6. entriesReceived' \in [Objects -> Nat]
  BY <1>4 DEF HandlesEntry, Bump, ObjectInv, TlsServerTypeOK
<1>7. CASE UNCHANGED <<entriesSucceeded, accepted>>
  <2>1. TlsServerTypeOK'
    BY <1>1, <1>5, <1>6, <1>7 DEF ObjectInv, TlsServerTypeOK
  <2> QED
    BY <1>1, <1>3, <1>7, <2>1, SameObjects
<1>8. CASE /\ hpc'[k] = "OK"
           /\ entriesSucceeded' = Bump(entriesSucceeded, k)
           /\ accepted' = [accepted EXCEPT ![k] = Append(@, b)]
  <2>1. b \in CertBuckets[k]
    <3>1. validBucketId(o, b)
      BY <1>8 DEF HandlesEntry
    <3>2. k # Nil
      BY WireAssumption DEF Conns, Nil, NoConn
    <3> QED
      BY <1>4, <3>1, <3>2 DEF validBucketId
  <2>2. b \in Buckets
    BY <2>1, TlsServerAssumption
  <2>3. /\ entriesSucceeded' \in [Objects -> Nat]
        /\ entriesSucceeded'[o] = entriesSucceeded[o] + 1
        /\ \A p \in Objects \ {o} : entriesSucceeded'[p] = entriesSucceeded[p]
    BY <1>2, <1>4, <1>8 DEF Bump
  <2>4. /\ Append(accepted[k], b) \in Seq(Buckets)
        /\ Len(Append(accepted[k], b)) = Len(accepted[k]) + 1
        /\ DOMAIN Append(accepted[k], b) = 1..Len(accepted[k]) + 1
        /\ DOMAIN accepted[k] = 1..Len(accepted[k])
        /\ \A i \in 1..Len(accepted[k]) : Append(accepted[k], b)[i] = accepted[k][i]
        /\ Append(accepted[k], b)[Len(accepted[k]) + 1] = b
        /\ Len(accepted[k]) \in Nat
    <3>1. accepted[k] \in Seq(Buckets)
      BY <1>2
    <3> QED
      BY <2>2, <3>1, AppendProperties, LenProperties
  <2>5. /\ accepted' \in [Conns -> Seq(Buckets)]
        /\ accepted'[k] = Append(accepted[k], b)
        /\ \A j \in Conns \ {k} : accepted'[j] = accepted[j]
    BY <1>2, <1>8, <2>4
  <2>6. TlsServerTypeOK'
    BY <1>1, <1>5, <1>6, <2>3, <2>5 DEF ObjectInv, TlsServerTypeOK
  <2>7. HasObject' /\ OwnObject'
    BY <1>1, <1>3 DEF ObjectInv, HasObject, OwnObject
  <2>8. FreeIsClean'
    BY <1>1, <2>3 DEF ObjectInv, FreeIsClean
  <2>9. NothingAcceptedYet'
    BY <1>1, <1>2, <1>3, <2>5 DEF ObjectInv, NothingAcceptedYet
  <2>10. OnlyOwnBuckets'
    <3> SUFFICES ASSUME NEW j \in Conns, NEW i \in DOMAIN accepted'[j]
                 PROVE  accepted'[j][i] \in CertBuckets[j]
      BY DEF OnlyOwnBuckets
    <3>1. CASE j # k
      BY <2>5, <3>1 DEF ObjectInv, OnlyOwnBuckets
    <3>2. CASE j = k /\ i \in DOMAIN accepted[k]
      BY <2>4, <2>5, <3>2 DEF ObjectInv, OnlyOwnBuckets
    <3>3. CASE j = k /\ i = Len(accepted[k]) + 1
      BY <2>1, <2>4, <2>5, <3>3
    <3> QED
      BY <2>4, <2>5, <3>1, <3>2, <3>3
  <2>11. CountersAreOwn'
    <3> SUFFICES ASSUME NEW j \in Conns, Serving(j)'
                 PROVE  entriesSucceeded'[obj'[j]] = Len(accepted'[j])
      BY DEF CountersAreOwn
    <3>1. CASE j = k
      BY <1>1, <1>4, <2>3, <2>4, <2>5, <3>1 DEF ObjectInv, CountersAreOwn
    <3>2. CASE j # k
      <4>1. Serving(j) /\ obj[j] \in Objects \ {o}
        BY <1>3, <1>4, <3>2 DEF ObjectInv, HasObject, OwnObject
      <4> QED
        BY <1>1, <2>3, <2>5, <3>2, <4>1 DEF ObjectInv, CountersAreOwn
    <3> QED
      BY <3>1, <3>2
  <2> QED
    BY <2>6, <2>7, <2>8, <2>9, <2>10, <2>11 DEF ObjectInv
<1> QED
  BY <1>7, <1>8 DEF HandlesEntry

(* Everything else leaves the objects alone: it moves one handler without  *)
(* ending it, or only the streams.                                         *)
LEMMA OthersKeepObjects ==
    ASSUME ObjectInv, NEW k \in Conns,
           \/ RefusesConn(k) \/ HandlesPing(k) \/ Pongs(k) \/ Listens(k)
           \/ PeerStep(k) \/ PeerDials
    PROVE  ObjectInv'
<1>1. /\ hpc \in [Conns -> {"accept", "listen", "pong", "OK", "NOK", "release", "done"}]
      /\ WireTypeOK /\ ServerTypeOK
  BY DEF ObjectInv, TlsServerTypeOK, ServerTypeOK
<1>2. CASE RefusesConn(k) \/ HandlesPing(k) \/ Pongs(k) \/ Listens(k)
  <2>1. HandlerStep(k) \/ HandshakeFails(k)
    BY <1>2 DEF RefusesConn, HandlesPing, Pongs, Listens, HandlerStep
  <2>2. WireTypeOK' /\ ServerTypeOK'
    BY <1>1, <2>1, HandlerType
  <2>3. UNCHANGED <<listening, connPool, obj, validBucketIds, entriesSucceeded, asked, got,
                    accepted>>
    BY <1>2 DEF RefusesConn, HandlesPing, Pongs, Listens, objectVars, peerVars
  <2>4. \A j \in Conns : /\ Serving(j)' <=> Serving(j)
                         /\ hpc'[j] = "accept" => hpc[j] = "accept"
    BY <1>1, <1>2 DEF RefusesConn, HandlesPing, Pongs, Listens, HandshakeFails, ReadsPing,
       SendsPong, ReadsEnd, IdleTimeout, AcksOK, AcksNOK, Goes, Serving
  <2>5. /\ entriesReceived' \in [Objects -> Nat]
        /\ pingsReceived' \in [Objects -> Nat]
        /\ pongsSent' \in [Objects -> Nat]
    <3>1. \/ UNCHANGED <<entriesReceived, pingsReceived, pongsSent>>
          \/ Serving(k) /\ (HandlesPing(k) \/ Pongs(k))
      BY <1>2 DEF RefusesConn, HandlesPing, Pongs, Listens, objectVars, ReadsPing, SendsPong,
         Goes, Serving
    <3>2. Serving(k) => obj[k] \in Objects
      BY DEF ObjectInv, HasObject
    <3>3. /\ entriesReceived \in [Objects -> Nat]
          /\ pingsReceived \in [Objects -> Nat]
          /\ pongsSent \in [Objects -> Nat]
      BY DEF ObjectInv, TlsServerTypeOK
    <3>4. CASE Serving(k) /\ HandlesPing(k)
      BY <3>2, <3>3, <3>4 DEF HandlesPing, Bump
    <3>5. CASE Serving(k) /\ Pongs(k)
      BY <3>2, <3>3, <3>5 DEF Pongs, Bump
    <3> QED
      BY <3>1, <3>3, <3>4, <3>5
  <2>6. TlsServerTypeOK'
    BY <2>2, <2>3, <2>5 DEF ObjectInv, TlsServerTypeOK
  <2> QED
    BY <2>3, <2>4, <2>6, SameObjects
<1>3. CASE PeerStep(k) \/ PeerDials
  <2>1. UNCHANGED <<serverVars, objectVars, accepted>>
    BY <1>3 DEF PeerStep, PeerSends, PeerReads, PeerHangsUp, PeerDials
  <2>2. ServerTypeOK' /\ listening' \in BOOLEAN
    BY <1>1, <1>3, <2>1 DEF ServerTypeOK, serverVars, PeerStep, PeerSends, PeerReads,
       PeerHangsUp, PeerDials, ObjectInv, TlsServerTypeOK
  <2>3. WireStep(k)
    <3>1. Buckets \cup {Ping} \subseteq Nat
      BY TlsServerAssumption DEF Ping
    <3> QED
      BY <1>3, <3>1 DEF PeerStep, PeerSends, PeerReads, PeerHangsUp, PeerDials, WireStep
  <2>4. WireTypeOK'
    BY <1>1, <2>3, WireType
  <2>5. asked' \in [Conns -> Seq(Buckets \cup {Ping})]
    <3>1. CASE UNCHANGED asked
      BY <3>1 DEF ObjectInv, TlsServerTypeOK
    <3>2. ASSUME NEW m \in Buckets \cup {Ping}, PeerSends(k, m)
          PROVE  asked' \in [Conns -> Seq(Buckets \cup {Ping})]
      <4>1. Append(asked[k], m) \in Seq(Buckets \cup {Ping})
        BY AppendProperties DEF ObjectInv, TlsServerTypeOK
      <4> QED
        BY <3>2, <4>1 DEF PeerSends, ObjectInv, TlsServerTypeOK
    <3> QED
      BY <1>3, <3>1, <3>2 DEF PeerStep, PeerReads, PeerHangsUp, PeerDials, peerVars
  <2>6. got' \in [Conns -> Seq(Responses)]
    <3>1. CASE UNCHANGED got
      BY <3>1 DEF ObjectInv, TlsServerTypeOK
    <3>2. CASE PeerReads(k)
      <4>1. Head(s2c[k]) \in Responses
        BY <1>1, <3>2, HeadTailProperties DEF PeerReads, ClientReads, WireTypeOK
      <4>2. Append(got[k], Head(s2c[k])) \in Seq(Responses)
        BY <4>1, AppendProperties DEF ObjectInv, TlsServerTypeOK
      <4> QED
        BY <3>2, <4>2 DEF PeerReads, ObjectInv, TlsServerTypeOK
    <3> QED
      BY <1>3, <3>1, <3>2 DEF PeerStep, PeerSends, PeerHangsUp, PeerDials, peerVars
  <2>7. TlsServerTypeOK'
    BY <2>1, <2>2, <2>4, <2>5, <2>6 DEF ObjectInv, TlsServerTypeOK, objectVars
  <2>8. \A j \in Conns : /\ Serving(j)' <=> Serving(j)
                         /\ hpc'[j] = "accept" => hpc[j] = "accept"
    BY <2>1 DEF serverVars, Serving
  <2> QED
    BY <2>1, <2>7, <2>8, SameObjects DEF objectVars
<1> QED
  BY <1>2, <1>3

(* ... and every step of the server, of its clients and of the user        *)
(* keeps it.                                                               *)
LEMMA ObjectInvStep == ObjectInv /\ [TlsServerNext]_tlsVars => ObjectInv'
<1> SUFFICES ASSUME ObjectInv, [TlsServerNext]_tlsVars PROVE ObjectInv'
  OBVIOUS
<1>1. ASSUME NEW k \in Conns, HandleConnection(k) PROVE ObjectInv'
  BY <1>1, AcquireKeepsObjects, EntryKeepsObjects, ReleaseKeepsObjects, OthersKeepObjects
  DEF HandleConnection
<1>2. ASSUME NEW k \in Conns, PeerStep(k) PROVE ObjectInv'
  BY <1>2, OthersKeepObjects
<1>3. CASE PeerDials
  <2>1. NewConn \in Conns
    BY <1>3, WireAssumption DEF PeerDials, Open, NewConn, Conns, ObjectInv, TlsServerTypeOK,
       WireTypeOK
  <2> QED
    BY <1>3, <2>1, OthersKeepObjects
<1>4. CASE ListenerCloses \/ UNCHANGED tlsVars
  <2>1. UNCHANGED <<wireVars, serverVars, objectVars, peerVars, accepted>>
        /\ listening' \in BOOLEAN
    BY <1>4 DEF ListenerCloses, tlsVars, ObjectInv, TlsServerTypeOK
  <2>2. TlsServerTypeOK'
    BY <2>1 DEF ObjectInv, TlsServerTypeOK, WireTypeOK, ServerTypeOK, wireVars, serverVars,
       objectVars, peerVars
  <2> QED
    BY <2>1, <2>2, SameObjects DEF objectVars, serverVars, Serving
<1> QED
  BY <1>1, <1>2, <1>3, <1>4 DEF TlsServerNext

(* Every variable of the server has its type: in particular no handler     *)
(* counts in an object that does not exist (newConn, acquireConn).         *)
THEOREM TlsServerTypeCorrect == TlsServerSpec => []TlsServerTypeOK
<1>1. ObjectInv => TlsServerTypeOK
  BY DEF ObjectInv
<1> QED
  BY <1>1, ObjectInvInit, ObjectInvStep, PTL DEF TlsServerSpec

(* No two handlers ever share an object, however sync.Pool hands them out  *)
(* (acquireConn, releaseConn).                                             *)
THEOREM OwnObjectHolds == TlsServerSpec => []OwnObject
<1>1. ObjectInv => OwnObject
  BY DEF ObjectInv
<1> QED
  BY <1>1, ObjectInvInit, ObjectInvStep, PTL DEF TlsServerSpec

(* The nil that means "every bucket" in validBucketId is never what a      *)
(* handler finds in its recycled object: only entries for the buckets of   *)
(* the connection's own certificate are processed.                         *)
THEOREM OnlyOwnBucketsHolds == TlsServerSpec => []OnlyOwnBuckets
<1>1. ObjectInv => OnlyOwnBuckets
  BY DEF ObjectInv
<1> QED
  BY <1>1, ObjectInvInit, ObjectInvStep, PTL DEF TlsServerSpec

(* The entries counted in an object are those of the connection it serves, *)
(* because releaseConn resets the counters before Put.                     *)
THEOREM CountersAreOwnHolds == TlsServerSpec => []CountersAreOwn
<1>1. ObjectInv => CountersAreOwn
  BY DEF ObjectInv
<1> QED
  BY <1>1, ObjectInvInit, ObjectInvStep, PTL DEF TlsServerSpec

----------------------------------------------------------------------------
(* The answers.  A NOK ends the connection: the handler that has sent one  *)
(* is on its way out.                                                      *)
NokEnds(k) ==
    \A i \in DOMAIN Answers(k) :
        Answers(k)[i] = "NOK" => i = Len(Answers(k)) /\ hpc[k] \in {"release", "done"}

(* An OK is paid for in advance: by an entry that was processed or a ping  *)
(* that was read, for which the handler still owes it, or by a ping on its *)
(* way.                                                                    *)
OkCount(k)     == Count(Answers(k), "OK")
Owed(k)        == IF hpc[k] \in {"OK", "pong"} THEN 1 ELSE 0
PingsComing(k) == Count(c2s[k], Ping)
PingsAsked(k)  == Count(asked[k], Ping)

OkBudget(k) ==
    OkCount(k) + Owed(k) + PingsComing(k) <= Len(accepted[k]) + PingsAsked(k)

AnswerInv == ObjectInv /\ \A k \in Conns : NokEnds(k) /\ OkBudget(k)

(* The answers of a connection are a sequence of responses, those the      *)
(* client has read before those under way.                                 *)
LEMMA AnswersType ==
    ASSUME ObjectInv, NEW k \in Conns
    PROVE  /\ got[k] \in Seq(Responses) /\ s2c[k] \in Seq(Responses)
           /\ Answers(k) \in Seq(Responses)
           /\ DOMAIN Answers(k) = 1..Len(Answers(k)) /\ Len(Answers(k)) \in Nat
           /\ c2s[k] \in Seq(Nat) /\ asked[k] \in Seq(Nat)
           /\ OkCount(k) \in Nat /\ Owed(k) \in Nat /\ PingsComing(k) \in Nat
           /\ PingsAsked(k) \in Nat /\ Len(accepted[k]) \in Nat
<1>1. got[k] \in Seq(Responses) /\ s2c[k] \in Seq(Responses) /\ c2s[k] \in Seq(Nat)
  BY DEF ObjectInv, TlsServerTypeOK, WireTypeOK
<1>2. Answers(k) \in Seq(Responses)
  BY <1>1, ConcatProperties DEF Answers
<1>3. asked[k] \in Seq(Nat)
  <2>1. asked[k] \in Seq(Buckets \cup {Ping})
    BY DEF ObjectInv, TlsServerTypeOK
  <2>2. PICK B : B = Buckets \cup {Ping} /\ B \subseteq Nat
    <3>1. Buckets \cup {Ping} \subseteq Nat
      BY TlsServerAssumption DEF Ping
    <3> QED
      BY <3>1, Zenon
  <2>3. PICK q \in Seq(B) : q = asked[k]
    BY <2>1, <2>2
  <2>4. q \in Seq(Nat)
    BY <2>2
  <2> QED
    BY <2>3, <2>4
<1>4. OkCount(k) \in Nat /\ PingsComing(k) \in Nat /\ PingsAsked(k) \in Nat
  <2>1. Occurrences(Answers(k), "OK") \in Nat
    BY <1>2, OccurrencesType
  <2>2. Occurrences(c2s[k], Ping) \in Nat
    BY <1>1, OccurrencesType
  <2>3. Occurrences(asked[k], Ping) \in Nat
    BY <1>3, OccurrencesType
  <2> QED
    BY <2>1, <2>2, <2>3 DEF OkCount, PingsComing, PingsAsked, Count, Occurrences
<1>5. Len(accepted[k]) \in Nat
  BY LenProperties DEF ObjectInv, TlsServerTypeOK
<1> QED
  BY <1>1, <1>2, <1>3, <1>4, <1>5, LenProperties DEF Owed

(* A byte the server writes joins the answers at their end, or is lost.    *)
LEMMA AnswerWritten ==
    ASSUME ObjectInv, NEW k \in Conns, NEW r \in Responses, ServerWrites(k, r), UNCHANGED got
    PROVE  Answers(k)' = Answers(k) \/ Answers(k)' = Append(Answers(k), r)
<1>1. CASE s2c' = s2c
  BY <1>1 DEF Answers
<1>2. CASE s2c' = [s2c EXCEPT ![k] = Append(@, r)]
  <2>1. s2c'[k] = Append(s2c[k], r)
    BY <1>2 DEF ObjectInv, TlsServerTypeOK, WireTypeOK
  <2>2. got[k] \in Seq(Responses) /\ s2c[k] \in Seq(Responses)
    BY AnswersType
  <2>3. PICK g \in Seq(Responses), t \in Seq(Responses) : g = got[k] /\ t = s2c[k]
    BY <2>2
  <2>4. g \o Append(t, r) = Append(g \o t, r)
    BY ConcatAppend
  <2> QED
    BY <2>1, <2>3, <2>4 DEF Answers
<1> QED
  BY <1>1, <1>2 DEF ServerWrites

(* Reading moves a byte from one part of the answers to the other.         *)
LEMMA AnswerRead ==
    ASSUME ObjectInv, NEW k \in Conns, PeerReads(k)
    PROVE  Answers(k)' = Answers(k)
<1>1. /\ s2c[k] # <<>>
      /\ s2c'[k] = Tail(s2c[k])
      /\ got'[k] = Append(got[k], Head(s2c[k]))
  BY DEF PeerReads, ClientReads, ObjectInv, TlsServerTypeOK, WireTypeOK
<1>2. got[k] \in Seq(Responses) /\ s2c[k] \in Seq(Responses)
  BY AnswersType
<1>3. Append(got[k], Head(s2c[k])) \o Tail(s2c[k]) = got[k] \o s2c[k]
  BY <1>1, <1>2, ConcatRead
<1> QED
  BY <1>1, <1>3 DEF Answers

(* When the client hangs up, what it has read stays, the rest is gone.     *)
LEMMA AnswersLost ==
    ASSUME ObjectInv, NEW k \in Conns, ClientHangsUp(k), UNCHANGED got
    PROVE  /\ Answers(k)' = got[k]
           /\ Len(got[k]) \in 0..Len(Answers(k))
           /\ \A i \in 1..Len(got[k]) : got[k][i] = Answers(k)[i]
           /\ Count(got[k], "OK") \in Nat /\ Count(got[k], "OK") <= OkCount(k)
<1>1. s2c'[k] = <<>>
  BY DEF ClientHangsUp, ObjectInv, TlsServerTypeOK, WireTypeOK
<1>2. Answers(k)' = got[k]
  BY <1>1, AnswersType, ConcatEmptySeq DEF Answers
<1>3. /\ Len(got[k]) \in 0..Len(Answers(k))
      /\ \A i \in 1..Len(got[k]) : got[k][i] = Answers(k)[i]
      /\ DOMAIN got[k] = 1..Len(got[k])
  <2>1. got[k] \in Seq(Responses) /\ s2c[k] \in Seq(Responses)
    BY AnswersType
  <2> QED
    BY <2>1, ConcatPrefix DEF Answers
<1>4. {i \in DOMAIN got[k] : got[k][i] = "OK"} \in SUBSET {i \in DOMAIN Answers(k) : Answers(k)[i] = "OK"}
  BY <1>3, AnswersType
<1>5. IsFiniteSet({i \in DOMAIN Answers(k) : Answers(k)[i] = "OK"})
  BY AnswersType, OccurrencesType
<1>6. Count(got[k], "OK") <= OkCount(k)
  BY <1>4, <1>5, FS_Subset DEF Count, OkCount
<1>7. Count(got[k], "OK") \in Nat
  BY AnswersType, OccurrencesType DEF Count, Occurrences
<1> QED
  BY <1>2, <1>3, <1>6, <1>7

(* Nothing a handler or a client does touches another connection.          *)
LEMMA Elsewhere ==
    ASSUME ObjectInv, NEW k \in Conns, NEW j \in Conns \ {k}, HandleConnection(k) \/ PeerStep(k)
    PROVE  /\ hpc'[j] = hpc[j] /\ c2s'[j] = c2s[j] /\ s2c'[j] = s2c[j]
           /\ got'[j] = got[j] /\ asked'[j] = asked[j] /\ accepted'[j] = accepted[j]
<1>1. /\ hpc = [i \in Conns |-> hpc[i]] /\ c2s = [i \in Conns |-> c2s[i]]
      /\ s2c = [i \in Conns |-> s2c[i]] /\ got = [i \in Conns |-> got[i]]
      /\ asked = [i \in Conns |-> asked[i]] /\ accepted = [i \in Conns |-> accepted[i]]
  BY DEF ObjectInv, TlsServerTypeOK, WireTypeOK, ServerTypeOK
<1>2. CASE HandleConnection(k)
  <2>1. UNCHANGED hpc \/ \E to : hpc' = [hpc EXCEPT ![k] = to]
    BY <1>2 DEF HandleConnection, acquireConn, RefusesConn, HandlesEntry, HandlesPing, Pongs,
       Listens, ReleasesConn, Handshake, HandshakeFails, handleEntry, ReadsPing, SendsPong,
       ReadsEnd, IdleTimeout, AcksOK, AcksNOK, releaseConn, Goes
  <2>2. \/ UNCHANGED <<c2s, s2c>> \/ ServerHangsUp(k) \/ ServerReads(k)
        \/ \E r \in Responses : ServerWrites(k, r)
    BY <1>2 DEF HandleConnection, acquireConn, RefusesConn, HandlesEntry, HandlesPing, Pongs,
       Listens, ReleasesConn, Handshake, HandshakeFails, handleEntry, ReadsPing, SendsPong,
       ReadsEnd, IdleTimeout, AcksOK, AcksNOK, releaseConn, sendAck, wireVars, Responses
  <2>3. c2s'[j] = c2s[j] /\ s2c'[j] = s2c[j]
    BY <1>1, <2>2 DEF ServerHangsUp, ServerReads, ServerWrites
  <2>4. UNCHANGED <<got, asked>> /\ accepted'[j] = accepted[j]
    BY <1>1, <1>2 DEF HandleConnection, acquireConn, RefusesConn, HandlesEntry, HandlesPing,
       Pongs, Listens, ReleasesConn, peerVars
  <2> QED
    BY <1>1, <2>1, <2>3, <2>4
<1>3. CASE PeerStep(k)
  <2>1. UNCHANGED <<hpc, accepted>> /\ got'[j] = got[j] /\ asked'[j] = asked[j]
    BY <1>1, <1>3 DEF PeerStep, PeerSends, PeerReads, PeerHangsUp, serverVars, peerVars
  <2>2. c2s'[j] = c2s[j] /\ s2c'[j] = s2c[j]
    BY <1>1, <1>3 DEF PeerStep, PeerSends, PeerReads, PeerHangsUp, ClientWrites, ClientReads,
       ClientHangsUp
  <2> QED
    BY <2>1, <2>2
<1> QED
  BY <1>2, <1>3

(* What keeps the two invariants at connection k: the answers stay as they *)
(* are and a handler on its way out stays so, ...                          *)
LEMMA NokSame ==
    ASSUME NEW k \in Conns, NokEnds(k), Answers(k)' = Answers(k),
           hpc[k] \in {"release", "done"} => hpc'[k] \in {"release", "done"}
    PROVE  NokEnds(k)'
  BY DEF NokEnds

(* ... or a handler that was not yet on its way out sends an answer.       *)
LEMMA NokAppend ==
    ASSUME ObjectInv, NEW k \in Conns, NokEnds(k), NEW r \in Responses,
           Answers(k)' = Append(Answers(k), r),
           hpc[k] \notin {"release", "done"}, r = "NOK" => hpc'[k] \in {"release", "done"}
    PROVE  NokEnds(k)'
<1>1. PICK a \in Seq(Responses) : a = Answers(k)
  BY AnswersType
<1>2. \A i \in 1..Len(a) : a[i] # "NOK"
  BY <1>1, LenProperties DEF NokEnds
<1>3. /\ Len(Append(a, r)) = Len(a) + 1 /\ Len(a) \in Nat
      /\ DOMAIN Append(a, r) = 1..(Len(a) + 1)
      /\ \A i \in 1..Len(a) : Append(a, r)[i] = a[i]
      /\ Append(a, r)[Len(a) + 1] = r
  BY AppendProperties, LenProperties
<1>4. \A i \in DOMAIN Append(a, r) : Append(a, r)[i] = "NOK" => i = Len(Append(a, r)) /\ r = "NOK"
  BY <1>2, <1>3
<1> QED
  BY <1>1, <1>4 DEF NokEnds

(* Writing a response adds one OK to the count if it is one.               *)
LEMMA OkAppend ==
    ASSUME ObjectInv, NEW k \in Conns, NEW r \in Responses, Answers(k)' = Append(Answers(k), r)
    PROVE  OkCount(k)' = OkCount(k) + (IF r = "OK" THEN 1 ELSE 0)
<1>1. PICK a \in Seq(Responses) : a = Answers(k)
  BY AnswersType
<1>2. Occurrences(Append(a, r), "OK") = Occurrences(a, "OK") + (IF r = "OK" THEN 1 ELSE 0)
  BY OccurrencesAppend
<1>3. \A s : Count(s, "OK") = Occurrences(s, "OK")
  BY DEF Count, Occurrences
<1> QED
  BY <1>1, <1>2, <1>3 DEF OkCount

(* Taking a message off the stream takes at most the ping it was.          *)
LEMMA PingTail ==
    ASSUME ObjectInv, NEW k \in Conns, ServerReads(k)
    PROVE  PingsComing(k) = PingsComing(k)' + (IF Head(c2s[k]) = Ping THEN 1 ELSE 0)
           /\ PingsComing(k)' \in Nat
<1>1. c2s[k] # <<>> /\ c2s'[k] = Tail(c2s[k])
  BY DEF ServerReads, ObjectInv, TlsServerTypeOK, WireTypeOK
<1>2. PICK a \in Seq(Nat) : a = c2s[k]
  BY AnswersType
<1>3. Occurrences(a, Ping) = Occurrences(Tail(a), Ping) + (IF Head(a) = Ping THEN 1 ELSE 0)
  BY <1>1, <1>2, OccurrencesTail
<1>4. Occurrences(Tail(a), Ping) \in Nat
  BY <1>1, <1>2, HeadTailProperties, OccurrencesType
<1>5. \A s : Count(s, Ping) = Occurrences(s, Ping)
  BY DEF Count, Occurrences
<1> QED
  BY <1>1, <1>2, <1>3, <1>4, <1>5 DEF PingsComing

(* A handler pays for its answers, and sends nothing after a NOK.          *)
LEMMA HandlerAnswers ==
    ASSUME ObjectInv, NEW k \in Conns, NokEnds(k), OkBudget(k), HandleConnection(k)
    PROVE  NokEnds(k)' /\ OkBudget(k)'
<1> USE DEF OkBudget
<1>1. /\ OkCount(k) \in Nat /\ PingsComing(k) \in Nat /\ PingsAsked(k) \in Nat
      /\ Len(accepted[k]) \in Nat
  BY AnswersType
<1>2. /\ hpc = [i \in Conns |-> hpc[i]] /\ c2s = [i \in Conns |-> c2s[i]]
      /\ accepted \in [Conns -> Seq(Buckets)]
  BY DEF ObjectInv, TlsServerTypeOK, WireTypeOK, ServerTypeOK
<1>3. UNCHANGED <<asked, got>> /\ PingsAsked(k)' = PingsAsked(k)
  BY DEF HandleConnection, acquireConn, RefusesConn, HandlesEntry, HandlesPing, Pongs, Listens,
     ReleasesConn, peerVars, PingsAsked
<1>4. UNCHANGED <<got, s2c>> => Answers(k)' = Answers(k) /\ OkCount(k)' = OkCount(k)
  BY DEF Answers, OkCount
<1>5. UNCHANGED c2s => PingsComing(k)' = PingsComing(k)
  BY DEF PingsComing
<1>6. CASE \/ \E v \in BOOLEAN : acquireConn(k, v)
           \/ Listens(k) /\ (ReadsEnd(k) \/ IdleTimeout(k))
  <2>1. UNCHANGED <<c2s, s2c>> /\ hpc[k] \in {"accept", "listen"}
        /\ hpc'[k] \in {"listen", "NOK", "release"}
    BY <1>2, <1>6 DEF acquireConn, Handshake, ReadsEnd, IdleTimeout, Goes, wireVars
  <2>2. accepted' = accepted
    BY <1>6 DEF acquireConn, Listens
  <2> QED
    BY <1>1, <1>3, <1>4, <1>5, <2>1, <2>2, NokSame DEF Owed
<1>7. CASE RefusesConn(k) \/ ReleasesConn(k)
  <2>1. ServerHangsUp(k) /\ accepted' = accepted /\ hpc'[k] = "done"
    BY <1>2, <1>7 DEF RefusesConn, ReleasesConn, HandshakeFails, releaseConn, Goes
  <2>2. c2s'[k] = <<>> /\ s2c' = s2c
    BY <1>2, <2>1 DEF ServerHangsUp
  <2>3. PingsComing(k)' = 0
    BY <2>2, OccurrencesEmpty DEF PingsComing, Count, Occurrences
  <2> QED
    BY <1>1, <1>3, <1>4, <2>1, <2>2, <2>3, NokSame DEF Owed
<1>8. CASE HandlesEntry(k)
  <2>1. /\ ServerReads(k) /\ Head(c2s[k]) # Ping /\ s2c' = s2c
        /\ hpc[k] = "listen" /\ hpc'[k] \in {"OK", "NOK"}
    BY <1>2, <1>8 DEF HandlesEntry, handleEntry, ServerReads, Goes
  <2>2. PingsComing(k)' = PingsComing(k)
    BY <1>1, <2>1, PingTail
  <2>3. NokEnds(k)'
    BY <1>3, <1>4, <2>1, NokSame
  <2>4. CASE hpc'[k] = "NOK" /\ accepted' = accepted
    BY <1>1, <1>3, <1>4, <2>1, <2>2, <2>3, <2>4 DEF Owed
  <2>5. CASE hpc'[k] = "OK" /\ accepted' = [accepted EXCEPT ![k] = Append(@, Head(c2s[k]))]
    <3>1. Len(accepted'[k]) = Len(accepted[k]) + 1
      BY <1>2, <2>5
    <3> QED
      BY <1>1, <1>3, <1>4, <2>1, <2>2, <2>3, <2>5, <3>1 DEF Owed
  <2> QED
    BY <1>8, <2>4, <2>5 DEF HandlesEntry
<1>9. CASE HandlesPing(k)
  <2>1. /\ ServerReads(k) /\ Head(c2s[k]) = Ping /\ s2c' = s2c /\ accepted' = accepted
        /\ hpc[k] = "listen" /\ hpc'[k] = "pong"
    BY <1>2, <1>9 DEF HandlesPing, ReadsPing, ServerReads, Goes
  <2>2. PingsComing(k) = PingsComing(k)' + 1 /\ PingsComing(k)' \in Nat
    BY <2>1, PingTail
  <2> QED
    BY <1>1, <1>3, <1>4, <2>1, <2>2, NokSame DEF Owed
<1>10. CASE Pongs(k) \/ (Listens(k) /\ AcksOK(k))
  <2>1. /\ ServerWrites(k, "OK") \/ UNCHANGED <<c2s, s2c>>
        /\ hpc[k] \in {"pong", "OK"} /\ hpc'[k] \in {"NOK", "listen"}
    BY <1>2, <1>10 DEF Pongs, SendsPong, AcksOK, sendAck, Goes, wireVars
  <2>2. accepted' = accepted
    BY <1>10 DEF Pongs, Listens
  <2>3. PingsComing(k)' = PingsComing(k)
    BY <1>5, <2>1 DEF ServerWrites
  <2>4. Answers(k)' = Answers(k) \/ Answers(k)' = Append(Answers(k), "OK")
    BY <1>3, <1>4, <2>1, AnswerWritten DEF Responses
  <2>5. OkCount(k)' = OkCount(k) \/ OkCount(k)' = OkCount(k) + 1
    BY <2>4, OkAppend DEF OkCount, Responses
  <2>6. NokEnds(k)'
    BY <2>1, <2>4, NokSame, NokAppend DEF Responses
  <2> QED
    BY <1>1, <1>3, <2>1, <2>2, <2>3, <2>5, <2>6 DEF Owed
<1>11. CASE Listens(k) /\ AcksNOK(k)
  <2>1. /\ ServerWrites(k, "NOK") \/ UNCHANGED <<c2s, s2c>>
        /\ hpc[k] = "NOK" /\ hpc'[k] = "release"
    BY <1>2, <1>11 DEF AcksNOK, sendAck, Goes, wireVars
  <2>2. accepted' = accepted
    BY <1>11 DEF Listens
  <2>3. PingsComing(k)' = PingsComing(k)
    BY <1>5, <2>1 DEF ServerWrites
  <2>4. Answers(k)' = Answers(k) \/ Answers(k)' = Append(Answers(k), "NOK")
    BY <1>3, <1>4, <2>1, AnswerWritten DEF Responses
  <2>5. OkCount(k)' = OkCount(k)
    BY <1>1, <2>4, OkAppend DEF OkCount, Responses
  <2>6. NokEnds(k)'
    BY <2>1, <2>4, NokSame, NokAppend DEF Responses
  <2> QED
    BY <1>1, <1>3, <2>1, <2>2, <2>3, <2>5, <2>6 DEF Owed
<1> QED
  BY <1>6, <1>7, <1>8, <1>9, <1>10, <1>11 DEF HandleConnection, Listens

(* A client adds a ping to both sides of the account, or takes answers out *)
(* of it.                                                                  *)
LEMMA PeerAnswers ==
    ASSUME ObjectInv, NEW k \in Conns, NokEnds(k), OkBudget(k), PeerStep(k)
    PROVE  NokEnds(k)' /\ OkBudget(k)'
<1> USE DEF OkBudget
<1>1. /\ OkCount(k) \in Nat /\ PingsComing(k) \in Nat /\ PingsAsked(k) \in Nat
      /\ Len(accepted[k]) \in Nat /\ Owed(k) \in Nat
  BY AnswersType
<1>2. UNCHANGED <<hpc, accepted>> /\ Owed(k)' = Owed(k)
  BY DEF PeerStep, PeerSends, PeerReads, PeerHangsUp, serverVars, Owed
<1>3. ASSUME NEW m \in Buckets \cup {Ping}, PeerSends(k, m)
      PROVE  NokEnds(k)' /\ OkBudget(k)'
  <2>1. m \in Nat
    BY TlsServerAssumption DEF Ping
  <2>2. Answers(k)' = Answers(k) /\ OkCount(k)' = OkCount(k)
    BY <1>3 DEF PeerSends, ClientWrites, Answers, OkCount
  <2>3. /\ asked'[k] = Append(asked[k], m)
        /\ c2s'[k] = c2s[k] \/ c2s'[k] = Append(c2s[k], m)
    BY <1>3 DEF PeerSends, ClientWrites, ObjectInv, TlsServerTypeOK, WireTypeOK
  <2>4. PICK a \in Seq(Nat), c \in Seq(Nat) : a = asked[k] /\ c = c2s[k]
    BY AnswersType
  <2>5. Occurrences(Append(a, m), Ping) = Occurrences(a, Ping) + (IF m = Ping THEN 1 ELSE 0)
    BY <2>1, OccurrencesAppend
  <2>6. Occurrences(Append(c, m), Ping) = Occurrences(c, Ping) + (IF m = Ping THEN 1 ELSE 0)
    BY <2>1, OccurrencesAppend
  <2>7. \A s : Count(s, Ping) = Occurrences(s, Ping)
    BY DEF Count, Occurrences
  <2>8. PingsAsked(k)' = PingsAsked(k) + (IF m = Ping THEN 1 ELSE 0)
    BY <2>3, <2>4, <2>5, <2>7 DEF PingsAsked
  <2>9. \/ PingsComing(k)' = PingsComing(k)
        \/ PingsComing(k)' = PingsComing(k) + (IF m = Ping THEN 1 ELSE 0)
    BY <2>3, <2>4, <2>6, <2>7 DEF PingsComing
  <2> QED
    BY <1>1, <1>2, <2>2, <2>8, <2>9, NokSame, SMTT(30)
<1>4. CASE PeerReads(k)
  <2>1. Answers(k)' = Answers(k)
    BY <1>4, AnswerRead
  <2>2. OkCount(k)' = OkCount(k) /\ PingsComing(k)' = PingsComing(k)
        /\ PingsAsked(k)' = PingsAsked(k)
    BY <1>4, <2>1 DEF PeerReads, ClientReads, OkCount, PingsComing, PingsAsked
  <2> QED
    BY <1>1, <1>2, <2>1, <2>2, NokSame
<1>5. CASE PeerHangsUp(k)
  <2>1. ClientHangsUp(k) /\ UNCHANGED <<got, asked, c2s>>
    BY <1>5 DEF PeerHangsUp, ClientHangsUp, peerVars
  <2>2. /\ Answers(k)' = got[k]
        /\ Len(got[k]) \in 0..Len(Answers(k))
        /\ \A i \in 1..Len(got[k]) : got[k][i] = Answers(k)[i]
        /\ Count(got[k], "OK") \in Nat /\ Count(got[k], "OK") <= OkCount(k)
    BY <2>1, AnswersLost
  <2>3. OkCount(k)' \in Nat /\ OkCount(k)' <= OkCount(k)
    BY <2>2 DEF OkCount
  <2>4. PingsComing(k)' = PingsComing(k) /\ PingsAsked(k)' = PingsAsked(k)
    BY <2>1 DEF PingsComing, PingsAsked
  <2>5. NokEnds(k)'
    <3>1. /\ DOMAIN got[k] = 1..Len(got[k]) /\ Len(got[k]) \in Nat
          /\ DOMAIN Answers(k) = 1..Len(Answers(k)) /\ Len(Answers(k)) \in Nat
      BY AnswersType, LenProperties
    <3> QED
      BY <1>2, <2>2, <3>1 DEF NokEnds
  <2> QED
    BY <1>1, <1>2, <2>3, <2>4, <2>5
<1> QED
  BY <1>3, <1>4, <1>5 DEF PeerStep

(* It holds before the first connection, ...                               *)
LEMMA AnswerInvInit == NewTlsServer => AnswerInv
<1> SUFFICES ASSUME NewTlsServer PROVE AnswerInv
  OBVIOUS
<1>1. ObjectInv
  BY ObjectInvInit
<1> SUFFICES ASSUME NEW k \in Conns PROVE NokEnds(k) /\ OkBudget(k)
  BY <1>1 DEF AnswerInv
<1>2. /\ got[k] = <<>> /\ s2c[k] = <<>> /\ c2s[k] = <<>> /\ asked[k] = <<>>
      /\ accepted[k] = <<>> /\ hpc[k] = "accept"
  BY DEF NewTlsServer, WireInit, ServerInit
<1>3. Answers(k) = <<>>
  BY <1>2 DEF Answers
<1>4. OkCount(k) = 0 /\ PingsComing(k) = 0 /\ PingsAsked(k) = 0
  BY <1>2, <1>3, OccurrencesEmpty DEF OkCount, PingsComing, PingsAsked, Count, Occurrences
<1> QED
  BY <1>2, <1>3, <1>4 DEF NokEnds, OkBudget, Owed

(* ... and every step keeps it.                                            *)
LEMMA AnswerInvStep == AnswerInv /\ [TlsServerNext]_tlsVars => AnswerInv'
<1> SUFFICES ASSUME AnswerInv, [TlsServerNext]_tlsVars PROVE AnswerInv'
  OBVIOUS
<1>1. ObjectInv /\ ObjectInv'
  BY ObjectInvStep DEF AnswerInv
<1> SUFFICES ASSUME NEW j \in Conns PROVE NokEnds(j)' /\ OkBudget(j)'
  BY <1>1 DEF AnswerInv
<1>2. NokEnds(j) /\ OkBudget(j)
  BY DEF AnswerInv
<1>3. CASE HandleConnection(j) \/ PeerStep(j)
  BY <1>1, <1>2, <1>3, HandlerAnswers, PeerAnswers
<1>4. CASE /\ hpc'[j] = hpc[j] /\ c2s'[j] = c2s[j] /\ s2c'[j] = s2c[j]
           /\ got'[j] = got[j] /\ asked'[j] = asked[j] /\ accepted'[j] = accepted[j]
  <2>1. Answers(j)' = Answers(j)
    BY <1>4 DEF Answers
  <2> QED
    BY <1>2, <1>4, <2>1 DEF NokEnds, OkBudget, OkCount, Owed, PingsComing, PingsAsked
<1>5. CASE PeerDials \/ ListenerCloses \/ UNCHANGED tlsVars
  BY <1>4, <1>5 DEF PeerDials, Open, ListenerCloses, tlsVars, wireVars, serverVars, peerVars
<1> QED
  BY <1>1, <1>3, <1>4, <1>5, Elsewhere DEF TlsServerNext

(* A client never reads more OK bytes than the server processed entries    *)
(* and the client sent pings: sendAck and the pong answer something.       *)
THEOREM OkIsEarnedHolds == TlsServerSpec => []OkIsEarned
<1>1. AnswerInv => OkIsEarned
  <2> SUFFICES ASSUME AnswerInv, NEW k \in Conns
               PROVE  OkCount(k) <= Len(accepted[k]) + PingsAsked(k)
    BY DEF OkIsEarned, OkCount, PingsAsked
  <2>1. ObjectInv /\ OkBudget(k)
    BY DEF AnswerInv
  <2> QED
    BY <2>1, AnswersType DEF OkBudget
<1> QED
  BY <1>1, AnswerInvInit, AnswerInvStep, PTL DEF TlsServerSpec

(* After a NOK the handler leaves its loop and says nothing more.          *)
THEOREM NokIsLastHolds == TlsServerSpec => []NokIsLast
<1>1. AnswerInv => NokIsLast
  BY DEF AnswerInv, NokEnds, NokIsLast
<1> QED
  BY <1>1, AnswerInvInit, AnswerInvStep, PTL DEF TlsServerSpec
============================================================================
