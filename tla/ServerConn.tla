----------------------------- MODULE ServerConn -----------------------------
(***************************************************************************)
(* The server's side of a connection: handleConnection (tls_server.go) and *)
(* the loop of listen with handleEntry and sendAck (tls_server_conn.go),   *)
(* one handler per connection, each a goroutine of its own.                *)
(*                                                                         *)
(* What an entry says is not modelled: forbidden bucket, Decode error and  *)
(* ProcessEntry error are one outcome, "reject".                           *)
(***************************************************************************)
EXTENDS Wire

VARIABLES hpc,      \* each connection's handler: where it is
          ack,      \* each handler: protoV11Ack was negotiated
          handled   \* the entries ProcessEntry succeeded for, in order

serverVars == <<hpc, ack, handled>>

ServerInit ==
    /\ hpc = [k \in Conns |-> "accept"]
    /\ ack = [k \in Conns |-> FALSE]
    /\ handled = <<>>

ServerTypeOK ==
    /\ hpc \in [Conns -> {"accept", "listen", "pong", "OK", "NOK", "release", "done"}]
    /\ ack \in [Conns -> BOOLEAN]
    /\ handled \in Seq(Nat)

Goes(k, from, to) ==
    /\ hpc[k] = from
    /\ hpc' = [hpc EXCEPT ![k] = to]

----------------------------------------------------------------------------
(* handleConnection: the handshake, with VerifyConnection, and acquireConn *)
(* which notes whether the client speaks the protocol with answers.        *)
Handshake(k, v11) ==
    /\ k \in 1..opened
    /\ Goes(k, "accept", "listen")
    /\ ack' = [ack EXCEPT ![k] = v11]
    /\ UNCHANGED <<wireVars, handled>>

(* A failed handshake: the deferred tlsConn.Close and nothing else.        *)
HandshakeMayFail(k) == "refuse" \in Faults \/ ServerReadFails(k)

HandshakeFails(k) ==
    /\ k \in 1..opened
    /\ Goes(k, "accept", "done")
    /\ ServerHangsUp(k)
    /\ UNCHANGED <<ack, handled>>

----------------------------------------------------------------------------
FaultyHandleEntryDropsEntry(k) ==
    /\ c2s[k] # <<>> /\ Head(c2s[k]) # Ping
    /\ ServerReads(k)
    /\ Goes(k, "listen", "OK")
    /\ UNCHANGED <<handled, ack>>

(* handleEntry reads an entry and processes it, or fails to.               *)
handleEntry(k) ==
    /\ c2s[k] # <<>> /\ Head(c2s[k]) # Ping
    /\ ServerReads(k)
    /\ \/ /\ Goes(k, "listen", "OK")
          /\ handled' = Append(handled, Head(c2s[k]))
       \/ /\ "reject" \in Faults
          /\ Goes(k, "listen", "NOK")
          /\ UNCHANGED handled
    /\ UNCHANGED ack

(* handleEntry reads a ping, and answers it.  Either way the call ends     *)
(* with an error: errPonged, or ErrTooShort if the pong failed.            *)
ReadsPing(k) ==
    /\ c2s[k] # <<>> /\ Head(c2s[k]) = Ping
    /\ ServerReads(k)
    /\ Goes(k, "listen", "pong")
    /\ UNCHANGED <<ack, handled>>

SendsPong(k) ==
    /\ Goes(k, "pong", "NOK")
    /\ ServerWrites(k, "OK")
    /\ UNCHANGED <<ack, handled>>

(* handleEntry fails to read: the client is gone.                          *)
ReadsEnd(k) ==
    /\ ServerReadFails(k)
    /\ Goes(k, "listen", "NOK")
    /\ UNCHANGED <<wireVars, ack, handled>>

(* handleEntry's read deadline passes, perhaps just as an entry arrives:   *)
(* listen returns without an answer.                                       *)
IdleTimeout(k) ==
    /\ "idle" \in Faults
    /\ Goes(k, "listen", "release")
    /\ UNCHANGED <<wireVars, ack, handled>>

----------------------------------------------------------------------------
(* sendAck, whose error is only logged.                                    *)
sendAck(k, r) == IF ack[k] THEN ServerWrites(k, r) ELSE UNCHANGED wireVars

(* The rest of listen's loop: go round after respAckOK ...                 *)
AcksOK(k) ==
    /\ Goes(k, "OK", "listen")
    /\ sendAck(k, "OK")
    /\ UNCHANGED <<ack, handled>>

FaultyAcksNOKAsOK(k) ==
    /\ Goes(k, "NOK", "release")
    /\ sendAck(k, "OK")
    /\ UNCHANGED <<ack, handled>>

FaultyAcksNOKGoesOn(k) ==
    /\ Goes(k, "NOK", "listen")
    /\ sendAck(k, "NOK")
    /\ UNCHANGED <<ack, handled>>

(* ... and return after respAckNOK.                                        *)
AcksNOK(k) ==
    /\ Goes(k, "NOK", "release")
    /\ sendAck(k, "NOK")
    /\ UNCHANGED <<ack, handled>>

(* releaseConn, and the deferred Close of handleConnection.                *)
releaseConn(k) ==
    /\ Goes(k, "release", "done")
    /\ ServerHangsUp(k)
    /\ UNCHANGED <<ack, handled>>

HandlerStep(k) ==
    \/ HandshakeMayFail(k) /\ HandshakeFails(k)
    \/ handleEntry(k) \/ ReadsPing(k) \/ SendsPong(k) \/ ReadsEnd(k) \/ IdleTimeout(k)
    \/ AcksOK(k) \/ AcksNOK(k) \/ releaseConn(k)
============================================================================
