------------------------------ MODULE Delivery ------------------------------
(***************************************************************************)
(* One client and one server over the connections between them: what       *)
(* becomes of an entry from ProcessEntry at the client to ProcessEntry at  *)
(* the server.                                                             *)
(***************************************************************************)
EXTENDS TlsClient, ServerConn

systemVars == <<clientVars, wireVars, serverVars>>

SystemTypeOK == TypeOK /\ ClientTypeOK /\ WireTypeOK /\ ServerTypeOK

SystemInit == NewTlsClient /\ WireInit /\ ServerInit

ServerStep(k) == HandlerStep(k) \/ Handshake(k, TRUE)

ClientMoves  == ClientNext /\ UNCHANGED serverVars
ServerMoves  == \E k \in Conns : ServerStep(k) /\ UNCHANGED clientVars
NetworkMoves == \E k \in Conns : Cut(k) /\ UNCHANGED <<clientVars, serverVars>>

SystemNext == ClientMoves \/ ServerMoves \/ NetworkMoves

SystemSpec == SystemInit /\ [][SystemNext]_systemVars

(* Every goroutine keeps running, and one that asks for ch.mu again and    *)
(* again gets it (sync.Mutex's starvation mode).  Nothing is assumed of    *)
(* the users who log and close, or of what goes wrong.                     *)
SystemFairness ==
    LET Client(A) == ~crashed /\ A /\ UNCHANGED serverVars
    IN /\ WF_systemVars(Client(EntriesWait \/ ensureConnection \/ StoresConn \/ EntryBegins))
       /\ WF_systemVars(Client(processEntry \/ EntryFails))
       /\ WF_systemVars(Client(Dials \/ DialFails)) /\ WF_systemVars(Client(EntriesDisconnect))
       /\ SF_systemVars(Client(ResponsesWait)) /\ WF_systemVars(Client(LoadsConn))
       /\ WF_systemVars(Client(ReadsResponse \/ ResponseFails))
       /\ SF_systemVars(Client(ResponseAcks))
       /\ WF_systemVars(Client(ResponsesDisconnect)) /\ SF_systemVars(Client(ResponsesRewind))
       /\ SF_systemVars(Client(FlushWaits)) /\ SF_systemVars(Client(ClosesForWriting))
       /\ WF_systemVars(Client(gpc = "flush" /\ WaitUntilSent))
       /\ WF_systemVars(Client(CloseReturns))
       /\ \A c \in Closers :
             /\ WF_systemVars(Client(c = "context" /\ CancelsContext(c)))
             /\ SF_systemVars(Client(ClosesChannel(c)))
             /\ WF_systemVars(Client(CloserDisconnects(c)))
       /\ \A w \in Writers : SF_systemVars(Client(WriterWakes(w) /\ UNCHANGED <<connVars, wireVars>>))
       /\ \A k \in Conns : WF_systemVars(ServerStep(k) /\ UNCHANGED clientVars)

FairSystem == SystemSpec /\ SystemFairness

(* In addition, dialling for ever succeeds in the end.                     *)
HealthySystem ==
    FairSystem /\ SF_systemVars(~crashed /\ Dials /\ UNCHANGED serverVars)
============================================================================
