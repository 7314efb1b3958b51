-------------------------- MODULE ServerProperties --------------------------
(***************************************************************************)
(* What the server keeps true for its clients while its handlers recycle   *)
(* tlsServerConn objects.                                                  *)
(***************************************************************************)
EXTENDS TlsServer

Serving(k) == hpc[k] \in {"listen", "pong", "OK", "NOK", "release"}
Count(s, x) == Cardinality({i \in DOMAIN s : s[i] = x})
Answers(k) == got[k] \o s2c[k]

(* No two handlers share an object, and none works on one that is in the   *)
(* pool: acquireConn and releaseConn hand it from one owner to the next.   *)
OwnObject ==
    \A k \in Conns : Serving(k) =>
        /\ obj[k] \notin connPool
        /\ \A j \in Conns \ {k} : obj[j] # obj[k]

(* An entry is processed only if the certificate of the connection it came *)
(* over names its bucket, whichever connection the object served before    *)
(* (validBucketId allows everything while validBucketIds is nil).          *)
OnlyOwnBuckets ==
    \A k \in Conns : \A i \in DOMAIN accepted[k] : accepted[k][i] \in CertBuckets[k]

(* The counters logged at the end of a connection are that connection's.   *)
CountersAreOwn ==
    \A k \in Conns : Serving(k) => entriesSucceeded[obj[k]] = Len(accepted[k])

(* A client reads no more OK bytes than it has processed entries and       *)
(* pongs: an answer is never sent ahead of what it answers.                *)
OkIsEarned ==
    \A k \in Conns : Count(Answers(k), "OK") <= Len(accepted[k]) + Count(asked[k], Ping)

(* After a NOK nothing follows: the handler closes, so no later OK can be  *)
(* taken for the entry that failed.                                        *)
NokIsLast ==
    \A k \in Conns : \A i \in DOMAIN Answers(k) :
        Answers(k)[i] = "NOK" => i = Len(Answers(k))

(* A handler whose client is gone ends, and gives its object back.         *)
HandlersEnd ==
    \A k \in Conns :
        (k \in 1..opened /\ k \notin clientOpen) ~> (hpc[k] = "done" /\ obj[k] = NoObject)

============================================================================
