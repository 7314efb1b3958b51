----------------------------- MODULE TlsClient -----------------------------
(***************************************************************************)
(* peer/tls_client.go: the two goroutines of a client, processEntries (the *)
(* reader of ChannelThreads) and processResponses (the acker), its         *)
(* connection, and CloseWithContext, WaitUntilSent and Close.              *)
(*                                                                         *)
(* The channel's steps are those of ChannelThreads, each taken where the   *)
(* client calls the method; what the client does between two calls leaves  *)
(* the channel alone.  So every behaviour of the client is one of          *)
(* ChannelThreads, and what holds there of the channel holds here.         *)
(***************************************************************************)
EXTENDS ChannelThreads, Wire

CONSTANT Closers   \* who calls Close: "user", "context" (CloseWithContext)

ASSUME ClosersAssumption == Closers \subseteq {"user", "context"}

VARIABLES conn,     \* c.conn
          epc,      \* processEntries, between its calls of the channel
          dconn,    \* connect: the connection dialled and not yet stored
          sconn,    \* processEntry: the connection it writes to
          lpc,      \* processResponses, between its calls of the channel
          lconn,    \* processResponses: the connection it reads from
          gpc,      \* CloseWithContext
          cpc,      \* each call of Close
          ctxDone,  \* c.ctxCancel was called
          crashed,  \* a goroutine has panicked, which ends the process
          sent,     \* the entries some Write returned nil for
          removed   \* the entries some Ack removed

connVars   == <<conn, epc, dconn, sconn, lpc, lconn, gpc, cpc, ctxDone, crashed, sent, removed>>
clientVars == <<vars, connVars>>

ClientTypeOK ==
    /\ conn \in 0..MaxConns
    /\ epc \in {"loop", "ensure", "connect", "retry", "store", "read", "write", "disconnect"}
    /\ dconn \in 0..MaxConns
    /\ sconn \in 0..MaxConns
    /\ lpc \in {"loop", "load", "read", "ack", "disconnect", "rewind"}
    /\ lconn \in 0..MaxConns
    /\ gpc \in {"idle", "closeWriting", "flush", "returned"}
    /\ cpc \in [Closers -> {"idle", "chClose", "disconnect", "done"}]
    /\ ctxDone \in BOOLEAN
    /\ crashed \in BOOLEAN
    /\ sent \subseteq Nat
    /\ removed \subseteq Nat

NewTlsClient ==
    /\ Init
    /\ conn = NoConn
    /\ epc = "loop" /\ dconn = NoConn /\ sconn = NoConn
    /\ lpc = "loop" /\ lconn = NoConn
    /\ gpc = "idle"
    /\ cpc = [c \in Closers |-> "idle"]
    /\ ctxDone = FALSE
    /\ crashed = FALSE
    /\ sent = {}
    /\ removed = {}

----------------------------------------------------------------------------
(* ProcessEntry: the write method the options name.                        *)
ProcessEntry(w) ==
    /\ WriterStep(w)
    /\ UNCHANGED <<connVars, wireVars>>

FaultyDisconnectLeaves ==
    /\ conn' = NoConn
    /\ UNCHANGED wireVars

(* disconnect: c.conn.Swap(nil), then Close of what was there.             *)
disconnect ==
    /\ conn' = NoConn
    /\ IF conn = NoConn THEN UNCHANGED wireVars ELSE ClientHangsUp(conn)

----------------------------------------------------------------------------
(* processEntries: Wait.                                                   *)
EntriesWait ==
    /\ epc = "loop"
    /\ ReaderWaits
    /\ epc' = IF rpc' = "ready" THEN "ensure" ELSE "loop"
    /\ UNCHANGED <<wireVars, conn, dconn, sconn, lpc, lconn, gpc, cpc, ctxDone, crashed,
                   sent, removed>>

(* ensureConnection looks once.  The disconnect() with which reconnect     *)
(* starts finds nothing: only this goroutine stores a connection.          *)
ensureConnection ==
    /\ epc = "ensure"
    /\ epc' = IF conn = NoConn THEN "connect" ELSE "read"
    /\ UNCHANGED <<vars, wireVars, conn, dconn, sconn, lpc, lconn, gpc, cpc, ctxDone,
                   crashed, sent, removed>>

(* connect dials: DialContext fails once the context is cancelled.         *)
Dials ==
    /\ epc \in {"connect", "retry"}
    /\ ~ctxDone
    /\ Open
    /\ dconn' = NewConn
    /\ epc' = "store"
    /\ UNCHANGED <<vars, conn, sconn, lpc, lconn, gpc, cpc, ctxDone, crashed, sent, removed>>

(* A failed dial: retryConnect tries again for ever.                       *)
DialFails ==
    /\ epc \in {"connect", "retry"}
    /\ "dial" \in Faults \/ ctxDone
    /\ epc' = "retry"
    /\ UNCHANGED <<vars, wireVars, conn, dconn, sconn, lpc, lconn, gpc, cpc, ctxDone,
                   crashed, sent, removed>>

(* The server negotiated another protocol: connect returns an error and    *)
(* leaves the connection as it is.                                         *)
WrongProtocol ==
    /\ epc = "store"
    /\ "protocol" \in Faults
    /\ dconn' = NoConn
    /\ epc' = "retry"
    /\ UNCHANGED <<vars, wireVars, conn, sconn, lpc, lconn, gpc, cpc, ctxDone, crashed,
                   sent, removed>>

(* c.conn.Store(tlsConn), whatever was closed in the meantime.             *)
StoresConn ==
    /\ epc = "store"
    /\ conn' = dconn
    /\ dconn' = NoConn
    /\ epc' = "read"
    /\ UNCHANGED <<vars, wireVars, sconn, lpc, lconn, gpc, cpc, ctxDone, crashed, sent,
                   removed>>

(* ReadToCallback up to c.conn.Load() in processEntry: a nil connection    *)
(* panics.  An empty ring is io.EOF, which the loop ignores.               *)
EntryBegins ==
    /\ epc = "read"
    /\ BeginRead
    /\ \/ rpc' = "wait" /\ epc' = "loop" /\ UNCHANGED <<sconn, crashed>>
       \/ rpc' = "callback" /\ epc' = "write" /\ sconn' = conn /\ crashed' = (conn = NoConn)
    /\ UNCHANGED <<wireVars, conn, dconn, lpc, lconn, gpc, cpc, ctxDone, sent, removed>>

(* The entry processEntry was given.                                       *)
Entry == data[index(awaitingAck - 1)]

FaultyProcessEntryResends ==
    /\ epc = "write"
    /\ ReadDone
    /\ sconn \in clientOpen
    /\ c2s' = [c2s EXCEPT ![sconn] = @ \o <<Entry, Entry>>]
    /\ sent' = sent \cup {Entry}
    /\ epc' = "loop"
    /\ UNCHANGED <<opened, clientOpen, serverOpen, cut, s2c, conn, dconn, sconn, lpc, lconn,
                   gpc, cpc, ctxDone, crashed, removed>>

(* processEntry wrote all of it: Write returned nil.                       *)
processEntry ==
    /\ epc = "write"
    /\ ReadDone
    /\ ClientWrites(sconn, Entry)
    /\ sent' = sent \cup {Entry}
    /\ epc' = "loop"
    /\ UNCHANGED <<conn, dconn, sconn, lpc, lconn, gpc, cpc, ctxDone, crashed, removed>>

(* Write returned an error: the read is undone and ch.mu released ...      *)
EntryFails ==
    /\ epc = "write"
    /\ ClientWriteMayFail(sconn)
    /\ ReadUndone
    /\ epc' = "disconnect"
    /\ UNCHANGED <<wireVars, conn, dconn, sconn, lpc, lconn, gpc, cpc, ctxDone, crashed,
                   sent, removed>>

(* ... before the connection is given up; nothing is rewound.              *)
EntriesDisconnect ==
    /\ epc = "disconnect"
    /\ disconnect
    /\ epc' = "loop"
    /\ UNCHANGED <<vars, dconn, sconn, lpc, lconn, gpc, cpc, ctxDone, crashed, sent, removed>>

----------------------------------------------------------------------------
(* processResponses: WaitUntilRead.                                        *)
ResponsesWait ==
    /\ lpc = "loop"
    /\ AckerWaits
    /\ lpc' = IF apc' = "got" THEN "load" ELSE "loop"
    /\ UNCHANGED <<wireVars, conn, epc, dconn, sconn, lconn, gpc, cpc, ctxDone, crashed,
                   sent, removed>>

(* c.conn.Load(): without a connection the loop goes round.                *)
LoadsConn ==
    /\ lpc = "load"
    /\ \/ /\ conn = NoConn
          /\ AckerSkips
          /\ lpc' = "loop"
          /\ UNCHANGED lconn
       \/ /\ conn # NoConn
          /\ lconn' = conn
          /\ lpc' = "read"
          /\ UNCHANGED vars
    /\ UNCHANGED <<wireVars, conn, epc, dconn, sconn, gpc, cpc, ctxDone, crashed, sent,
                   removed>>

(* conn.Read returned a byte, which nobody looks at.                       *)
ReadsResponse ==
    /\ lpc = "read"
    /\ ClientReads(lconn)
    /\ lpc' = "ack"
    /\ UNCHANGED <<vars, conn, epc, dconn, sconn, lconn, gpc, cpc, ctxDone, crashed, sent,
                   removed>>

ResponseAcks ==
    /\ lpc = "ack"
    /\ AckerAcks
    /\ removed' = IF toAck THEN removed \cup {data[index(0)]} ELSE removed
    /\ lpc' = "loop"
    /\ UNCHANGED <<wireVars, conn, epc, dconn, sconn, lconn, gpc, cpc, ctxDone, crashed,
                   sent>>

(* conn.Read returned an error, or its deadline passed, perhaps just as a  *)
(* response arrived.                                                       *)
ResponseFails ==
    /\ lpc = "read"
    /\ ClientReadFails(lconn) \/ "timeout" \in Faults
    /\ lpc' = "disconnect"
    /\ UNCHANGED <<vars, wireVars, conn, epc, dconn, sconn, lconn, gpc, cpc, ctxDone,
                   crashed, sent, removed>>

FaultyRewindsWithoutDisconnect ==
    /\ lpc = "disconnect"
    /\ lpc' = "rewind"
    /\ UNCHANGED <<vars, wireVars, conn, epc, dconn, sconn, lconn, gpc, cpc, ctxDone, crashed,
                   sent, removed>>

(* disconnect, of whatever is the connection now, and only then Rewind.    *)
ResponsesDisconnect ==
    /\ lpc = "disconnect"
    /\ disconnect
    /\ lpc' = "rewind"
    /\ UNCHANGED <<vars, epc, dconn, sconn, lconn, gpc, cpc, ctxDone, crashed, sent, removed>>

ResponsesRewind ==
    /\ lpc = "rewind"
    /\ AckerRewinds
    /\ lpc' = "loop"
    /\ UNCHANGED <<wireVars, conn, epc, dconn, sconn, lconn, gpc, cpc, ctxDone, crashed,
                   sent, removed>>

----------------------------------------------------------------------------
(* WaitUntilSent, called by the user, and its wait inside CloseWithContext *)
WaitUntilSent ==
    /\ gpc \in {"idle", "flush"}
    /\ FlusherCalls
    /\ UNCHANGED <<connVars, wireVars>>

FlushWaits ==
    /\ FlusherWaits
    /\ UNCHANGED <<connVars, wireVars>>

(* CloseWithContext starts the goroutine that will call Close, ...         *)
CloseWithContext ==
    /\ "context" \in Closers
    /\ gpc = "idle" /\ fpc = "idle"
    /\ gpc' = "closeWriting"
    /\ UNCHANGED <<vars, wireVars, conn, epc, dconn, sconn, lpc, lconn, cpc, ctxDone, crashed,
                   sent, removed>>

(* ... closes the channel for writing ...                                  *)
ClosesForWriting ==
    /\ gpc = "closeWriting"
    /\ \/ ClosesWriting
       \/ Unlocked /\ closedWriting /\ UNCHANGED vars
    /\ gpc' = "flush"
    /\ UNCHANGED <<wireVars, conn, epc, dconn, sconn, lpc, lconn, cpc, ctxDone, crashed, sent,
                   removed>>

(* ... and returns what WaitUntilSent returned, cancelling its context.    *)
CloseReturns ==
    /\ gpc = "flush" /\ fpc \in {"nil", "ErrClosedPipe"}
    /\ gpc' = "returned"
    /\ UNCHANGED <<vars, wireVars, conn, epc, dconn, sconn, lpc, lconn, cpc, ctxDone, crashed,
                   sent, removed>>

(* Close is called: by the user at any time, by CloseWithContext's         *)
(* goroutine when its context is done.  First c.ctxCancel(), ...           *)
CancelsContext(c) ==
    /\ cpc[c] = "idle"
    /\ c = "context" => gpc = "returned" \/ (gpc # "idle" /\ "timeout" \in Faults)
    /\ ctxDone' = TRUE
    /\ cpc' = [cpc EXCEPT ![c] = "chClose"]
    /\ UNCHANGED <<vars, wireVars, conn, epc, dconn, sconn, lpc, lconn, gpc, crashed, sent,
                   removed>>

(* ... then c.ch.Close(), which needs ch.mu, ...                           *)
ClosesChannel(c) ==
    /\ cpc[c] = "chClose"
    /\ \/ Closes
       \/ Unlocked /\ closed /\ UNCHANGED vars
    /\ cpc' = [cpc EXCEPT ![c] = "disconnect"]
    /\ UNCHANGED <<wireVars, conn, epc, dconn, sconn, lpc, lconn, gpc, ctxDone, crashed, sent,
                   removed>>

(* ... then c.disconnect().                                                *)
CloserDisconnects(c) ==
    /\ cpc[c] = "disconnect"
    /\ disconnect
    /\ cpc' = [cpc EXCEPT ![c] = "done"]
    /\ UNCHANGED <<vars, epc, dconn, sconn, lpc, lconn, gpc, ctxDone, crashed, sent, removed>>

----------------------------------------------------------------------------
EntriesStep ==
    \/ EntriesWait \/ ensureConnection \/ Dials \/ DialFails \/ WrongProtocol \/ StoresConn
    \/ EntryBegins \/ processEntry \/ EntryFails \/ EntriesDisconnect

ResponsesStep ==
    \/ ResponsesWait \/ LoadsConn \/ ReadsResponse \/ ResponseAcks
    \/ ResponseFails \/ ResponsesDisconnect \/ ResponsesRewind

CloseStep ==
    \/ WaitUntilSent \/ FlushWaits \/ CloseWithContext \/ ClosesForWriting \/ CloseReturns
    \/ \E c \in Closers : CancelsContext(c) \/ ClosesChannel(c) \/ CloserDisconnects(c)

(* A panic in any goroutine ends the process.                              *)
ClientNext ==
    /\ ~crashed
    /\ \/ \E w \in Writers : ProcessEntry(w)
       \/ EntriesStep
       \/ ResponsesStep
       \/ CloseStep
============================================================================
