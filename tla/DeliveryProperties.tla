------------------------ MODULE DeliveryProperties ------------------------
(***************************************************************************)
(* What becomes of an entry on its way from the logger to the server.      *)
(***************************************************************************)
EXTENDS Delivery, ChannelProperties

InRing(e)  == \E i \in 0..(length - 1) : data[index(i)] = e
Received   == Range(handled)
Copies(e)  == Cardinality({i \in DOMAIN handled : handled[i] = e})

(* Without WriteOrReplace an entry that was accepted stays in the ring at  *)
(* least until some Write of it succeeded: failed writes, rewinds,         *)
(* reconnects and answers that belong to other entries cannot make the     *)
(* client drop an entry it never sent.                                     *)
KeptUntilSent ==
    "WriteOrReplace" \notin Methods =>
        \A e \in 1..itemsWritten : e \in sent \/ InRing(e)

(* What processResponses acknowledges was sent, also when WriteOrReplace   *)
(* moves the window under it.                                              *)
RemovedWasSent == removed \subseteq sent

(* The server gets an entry once more than it should only after a Rewind.  *)
DuplicatesNeedRewind ==
    \A e \in 1..itemsWritten : Copies(e) <= 1 + rewinds

(* processResponses gives up each connection at most once, so a client     *)
(* whose connections hold does not send again for ever.                    *)
RewindsNeedConns == rewinds <= opened

(* The client never has two connections: whoever disconnects closes what   *)
(* is stored, and a new one is stored only when there is none.  (connect   *)
(* leaves a connection with another protocol open: tls_client.go:301.)     *)
OneConnection ==
    "protocol" \notin Faults =>
        clientOpen \subseteq {conn, dconn} /\ (conn = NoConn \/ dconn = NoConn)

(* On a network that works the server gets the entries in the order they   *)
(* were accepted, each once, ...                                           *)
InOrder == \A i \in DOMAIN handled : handled[i] = i

(* ... and an entry leaves the client only when the server has it.         *)
RemovedWasReceived == removed \subseteq Received

(* On a network that works CloseWithContext comes back, with every entry   *)
(* that was accepted at the server.                                        *)
GracefulCloseDelivers ==
    gpc = "closeWriting" ~> (gpc = "returned" /\ 1..itemsWritten \subseteq Received)

(* Close ends processResponses, whatever it was waiting for.               *)
CloseEndsResponses ==
    (\E c \in Closers : cpc[c] = "done") ~> (apc = "ErrClosedPipe" \/ crashed)

(* Close ends processEntries as well, from wherever it was between Wait    *)
(* and disconnect, with one exception: the loop of retryConnect, which it  *)
(* never leaves once the context is cancelled (tls_client.go:266).         *)
CloseEndsEntriesOrDials ==
    (\E c \in Closers : cpc[c] = "done") ~>
        (rpc \in {"EOF", "ErrClosedPipe"} \/ crashed \/ epc = "retry")

----------------------------------------------------------------------------
(* Statements of the repository's comments that the code does not keep.    *)

(* tls_client.go:123, in CloseWithContext: "Wait until all written entries *)
(* have been sent".  When it returns nil, every entry that was taken for   *)
(* acknowledged has reached the server or is still on its way; entries     *)
(* that WriteOrReplace pushed out are not counted.                         *)
SentMeansReceived ==
    gpc = "returned" /\ fpc = "nil" =>
        \A e \in removed : e \in Received \/ \E k \in Conns : e \in Range(c2s[k])

(* tls_client.go:110: "Close the client gracefully".  No goroutine panics  *)
(* once a graceful close has begun.                                        *)
GracefulCloseNeverPanics == gpc # "idle" => ~crashed
============================================================================
