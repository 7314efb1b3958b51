--------------------------- MODULE DeliveryProofs --------------------------
(***************************************************************************)
(* Proofs about the composed system, for every capacity, every number of   *)
(* writers and connections and every set of faults.  The channel's         *)
(* invariants come from ChannelProofs (StepRefines), what connections and  *)
(* handlers keep true by themselves from WireProofs.                       *)
(***************************************************************************)
EXTENDS DeliveryProperties, ChannelProofs, WireProofs

(* Whatever the system does is a step of ChannelThreads or leaves the      *)
(* channel and its goroutines alone.                                       *)
LEMMA StepRefines == SystemNext => [Next]_vars
<1> SUFFICES ASSUME SystemNext PROVE [Next]_vars
  OBVIOUS
<1>1. CASE ServerMoves \/ NetworkMoves
  BY <1>1 DEF ServerMoves, NetworkMoves, clientVars
<1>2. CASE \E w \in Writers : ProcessEntry(w)
  BY <1>2 DEF ProcessEntry, Next
<1>3. CASE EntriesStep
  BY <1>3 DEF EntriesStep, EntriesWait, ensureConnection, Dials, DialFails, WrongProtocol,
     StoresConn, EntryBegins, processEntry, EntryFails, EntriesDisconnect, Next, ReaderStep
<1>4. CASE ResponsesStep
  BY <1>4 DEF ResponsesStep, ResponsesWait, LoadsConn, ReadsResponse, ResponseAcks,
     ResponseFails, ResponsesDisconnect, ResponsesRewind, Next, AckerStep
<1>5. CASE CloseStep
  BY <1>5 DEF CloseStep, WaitUntilSent, FlushWaits, CloseWithContext, ClosesForWriting,
     CloseReturns, CancelsContext, ClosesChannel, CloserDisconnects, Next, FlusherStep,
     AnyoneStep
<1> QED
  BY <1>1, <1>2, <1>3, <1>4, <1>5 DEF SystemNext, ClientMoves, ClientNext

(* The client uses the channel as ChannelThreads allows, so everything     *)
(* proved of ChannelThreads holds of the client's channel.                 *)
THEOREM ClientRefinesThreads == SystemSpec => Spec
<1>1. SystemInit => Init
  BY DEF SystemInit, NewTlsClient
<1>2. [SystemNext]_systemVars => [Next]_vars
  BY StepRefines DEF systemVars, clientVars
<1> QED
  BY <1>1, <1>2, PTL DEF SystemSpec, Spec

----------------------------------------------------------------------------
(* The entries that have left the ring are numbered 1..Gone, those in the  *)
(* window follow.                                                          *)
Gone == itemsWritten - length

(* The entries that were handed out and not undone were sent, ...          *)
WindowWasSent ==
    \A n \in Nat : Gone < n /\ n <= Gone + awaitingAck - Tentative => n \in sent

(* ... and so was everything that left the ring, if only Ack removes.      *)
GoneWasSent == "WriteOrReplace" \notin Methods => \A n \in 1..Gone : n \in sent

SentInv == WindowWasSent /\ GoneWasSent /\ RemovedWasSent

(* What a step other than a write, an acknowledgement or a successful send *)
(* may do to the window: shrink it, without moving the ring.               *)
LEMMA WindowShrinks ==
    ASSUME CInv, CInv', SentInv, UNCHANGED <<itemsWritten, length, removed>>, sent \subseteq sent',
           awaitingAck' - Tentative' <= awaitingAck - Tentative
    PROVE  SentInv'
<1>1. Gone' = Gone /\ Gone \in Int
  BY DEF Gone, CInv, TypeOK, ChannelTypeOK
<1>2. Tentative \in 0..1 /\ Tentative' \in 0..1 /\ awaitingAck \in Int /\ awaitingAck' \in Int
  BY DEF Tentative, CInv, TypeOK, ChannelTypeOK
<1>3. WindowWasSent'
  <2> SUFFICES ASSUME NEW n \in Nat, Gone' < n, n <= Gone' + awaitingAck' - Tentative'
               PROVE  n \in sent'
    BY DEF WindowWasSent
  <2>1. PICK g \in Int : g = Gone
    BY <1>1
  <2>2. awaitingAck - Tentative \in Int /\ awaitingAck' - Tentative' \in Int
    BY <1>2
  <2>3. PICK a \in Int, b \in Int : a = awaitingAck - Tentative /\ b = awaitingAck' - Tentative'
    BY <2>2, Zenon
  <2>4. b <= a
    BY <2>3
  <2>5. g < n /\ n <= g + b
    <3>1. Gone' + awaitingAck' - Tentative' = g + b
      BY <1>1, <1>2, <2>1, <2>3
    <3> QED
      BY <1>1, <2>1, <3>1
  <2>6. n <= g + a
    BY <2>4, <2>5
  <2>7. Gone + awaitingAck - Tentative = g + a
    BY <1>1, <1>2, <2>1, <2>3
  <2> QED
    BY <2>1, <2>5, <2>6, <2>7 DEF SentInv, WindowWasSent
<1>4. GoneWasSent'
  BY <1>1 DEF SentInv, GoneWasSent
<1>5. RemovedWasSent'
  BY DEF SentInv, RemovedWasSent
<1> QED
  BY <1>3, <1>4, <1>5 DEF SentInv

(* A write leaves what left the ring and what is in the window sent.       *)
LEMMA WritesKeepSent ==
    ASSUME CInv, CInv', SentInv, NEW w \in Writers, WriterStep(w), UNCHANGED <<sent, removed>>
    PROVE  SentInv'
<1> USE CapacityAssumption
<1>1. Unlocked /\ rpc' = rpc
  BY DEF WriterStep, WriteOrReplace, WriteOrFail, WriteOrBlock, WriterWakes
<1>2. Tentative = 0 /\ Tentative' = 0
  BY <1>1 DEF Unlocked, Tentative
<1>3. CASE UNCHANGED <<awaitingAck, itemsWritten, length>>
  <2>1. awaitingAck' - Tentative' <= awaitingAck - Tentative
    BY <1>2, <1>3 DEF CInv, TypeOK, ChannelTypeOK
  <2> QED
    BY <2>1, <1>3, WindowShrinks
<1>4. CASE spaceLeft /\ write(itemsWritten + 1)
  <2>1. Gone' = Gone /\ awaitingAck' = awaitingAck /\ Gone \in Int
    BY <1>4 DEF write, Gone, CInv, TypeOK, ChannelTypeOK
  <2> QED
    BY <1>2, <2>1 DEF SentInv, WindowWasSent, GoneWasSent, RemovedWasSent
<1>5. CASE ~spaceLeft /\ write(itemsWritten + 1) /\ "WriteOrReplace" \in Methods
  <2>1. Gone' = Gone + 1 /\ Gone \in Int /\ awaitingAck \in Nat
        /\ awaitingAck' = IF awaitingAck > 0 THEN awaitingAck - 1 ELSE awaitingAck
    <3>1. itemsWritten' = itemsWritten + 1 /\ length' = length
          /\ awaitingAck' = IF awaitingAck > 0 THEN awaitingAck - 1 ELSE awaitingAck
      BY <1>5 DEF write, spaceLeft, toAck
    <3>2. itemsWritten \in Nat /\ length \in Int /\ awaitingAck \in Nat
      BY DEF CInv, TypeOK, ChannelTypeOK, Window
    <3> QED
      BY <3>1, <3>2 DEF Gone
  <2>2. WindowWasSent'
    BY <1>2, <2>1 DEF SentInv, WindowWasSent
  <2> QED
    BY <1>5, <2>2 DEF SentInv, GoneWasSent, RemovedWasSent
<1>6. \/ UNCHANGED <<awaitingAck, itemsWritten, length>>
      \/ spaceLeft /\ write(itemsWritten + 1)
      \/ ~spaceLeft /\ write(itemsWritten + 1) /\ "WriteOrReplace" \in Methods
  BY DEF WriterStep, WriteOrReplace, WriteOrFail, WriteOrBlock, WriterWakes, DoWrite,
     ParkWriter, chVars, WriteOrBlockVerdict
<1> QED
  BY <1>3, <1>4, <1>5, <1>6

(* The bookkeeping of what was sent is inductive relative to the channel.  *)
LEMMA SentStep ==
    ASSUME CInv, CInv', RingHoldsLatest, SentInv, SystemNext
    PROVE  SentInv'
<1> USE CapacityAssumption
<1> DEFINE Shrinks == /\ UNCHANGED <<itemsWritten, length, removed>>
                      /\ sent \subseteq sent'
                      /\ awaitingAck' - Tentative' <= awaitingAck - Tentative
<1>1. awaitingAck \in Int /\ length \in Int /\ itemsWritten \in Nat
  BY DEF CInv, TypeOK, ChannelTypeOK
<1>2. CASE UNCHANGED <<awaitingAck, rpc, itemsWritten, length, sent, removed>>
  <2>1. Shrinks
    BY <1>1, <1>2 DEF Tentative
  <2> QED
    BY <2>1, WindowShrinks
<1>3. CASE ServerMoves \/ NetworkMoves
  BY <1>2, <1>3 DEF ServerMoves, NetworkMoves, clientVars, vars, chVars, connVars
<1>4. CASE \E w \in Writers : ProcessEntry(w)
  BY <1>4, WritesKeepSent DEF ProcessEntry, connVars
<1>5. CASE EntriesStep
  <2>1. CASE EntriesWait \/ ensureConnection \/ Dials \/ DialFails \/ WrongProtocol
             \/ StoresConn \/ EntriesDisconnect
    <3>1. UNCHANGED <<awaitingAck, itemsWritten, length, sent, removed>>
      BY <2>1 DEF EntriesWait, ReaderWaits, ParkReader, ensureConnection, Dials, DialFails,
         WrongProtocol, StoresConn, EntriesDisconnect, vars, chVars
    <3>2. (rpc # "callback" /\ rpc' # "callback") \/ rpc' = rpc
      BY <2>1 DEF EntriesWait, ReaderWaits, ensureConnection, Dials, DialFails, WrongProtocol,
         StoresConn, EntriesDisconnect, vars
    <3>3. Shrinks
      BY <1>1, <3>1, <3>2 DEF Tentative
    <3> QED
      BY <3>3, WindowShrinks
  <2>2. CASE EntryBegins
    <3>1. Shrinks
      BY <1>1, <2>2 DEF EntryBegins, BeginRead, read, chVars, Tentative
    <3> QED
      BY <3>1, WindowShrinks
  <2>3. CASE processEntry
    <3>1. UNCHANGED <<awaitingAck, itemsWritten, length, removed>> /\ sent' = sent \cup {Entry}
      BY <2>3 DEF processEntry, ReadDone, ReadSucceeded
    <3>2. Tentative = 1 /\ Tentative' = 0 /\ awaitingAck - 1 \in 0..(length - 1)
      BY <1>1, <2>3 DEF processEntry, ReadDone, Tentative, CInv, ReaderKnows, toAck, Window
    <3>3. Entry = Gone + awaitingAck
      BY <1>1, <3>2 DEF Entry, RingHoldsLatest, Gone
    <3>4. Gone' = Gone /\ Gone \in Int
      BY <1>1, <3>1 DEF Gone
    <3>5. WindowWasSent'
      BY <1>1, <3>1, <3>2, <3>3, <3>4 DEF SentInv, WindowWasSent
    <3> QED
      BY <3>1, <3>4, <3>5 DEF SentInv, GoneWasSent, RemovedWasSent
  <2>4. CASE EntryFails
    <3>1. Shrinks
      BY <1>1, <2>4 DEF EntryFails, ReadUndone, ReadFailed, undoRead, Tentative
    <3> QED
      BY <3>1, WindowShrinks
  <2> QED
    BY <1>5, <2>1, <2>2, <2>3, <2>4 DEF EntriesStep
<1>6. CASE ResponsesStep
  <2>1. CASE ResponsesWait \/ LoadsConn \/ ReadsResponse \/ ResponseFails \/ ResponsesDisconnect
    BY <1>2, <2>1 DEF ResponsesWait, AckerWaits, ParkWriter, LoadsConn, AckerSkips, ReadsResponse,
       ResponseFails, ResponsesDisconnect, vars, chVars
  <2>2. CASE ResponseAcks
    <3>1. rpc' = rpc /\ Unlocked /\ Ack /\ sent' = sent
          /\ removed' = IF toAck THEN removed \cup {data[index(0)]} ELSE removed
      BY <2>2 DEF ResponseAcks, AckerAcks
    <3>2. Tentative = 0 /\ Tentative' = 0
      BY <3>1 DEF Unlocked, Tentative
    <3>3. CASE ~toAck
      BY <1>2, <3>1, <3>3 DEF Ack, chVars
    <3>4. CASE toAck
      <4>1. Gone' = Gone + 1 /\ awaitingAck' = awaitingAck - 1 /\ Gone \in Int /\ awaitingAck > 0
            /\ length > 0
        BY <1>1, <3>1, <3>4 DEF Ack, Gone, toAck, CInv, Window
      <4>2. Gone + 1 \in Nat
        BY <1>1, <4>1 DEF Gone, CInv, Window
      <4>3. data[index(0)] = Gone + 1
        BY <1>1, <4>1 DEF RingHoldsLatest, Gone
      <4>4. Gone + 1 \in sent
        BY <1>1, <3>2, <4>1, <4>2 DEF SentInv, WindowWasSent
      <4>5. WindowWasSent'
        BY <1>1, <3>1, <3>2, <4>1 DEF SentInv, WindowWasSent
      <4>6. GoneWasSent'
        BY <3>1, <4>1, <4>4 DEF SentInv, GoneWasSent
      <4>7. RemovedWasSent'
        BY <3>1, <3>4, <4>3, <4>4 DEF SentInv, RemovedWasSent
      <4> QED
        BY <4>5, <4>6, <4>7 DEF SentInv
    <3> QED
      BY <3>3, <3>4
  <2>3. CASE ResponsesRewind
    <3>1. Shrinks
      BY <1>1, <2>3 DEF ResponsesRewind, AckerRewinds, Rewind, Unlocked, Tentative, CInv, Window
    <3> QED
      BY <3>1, WindowShrinks
  <2> QED
    BY <1>6, <2>1, <2>2, <2>3 DEF ResponsesStep
<1>7. CASE CloseStep
  BY <1>2, <1>7 DEF CloseStep, WaitUntilSent, FlusherCalls, FlushWaits, FlusherWaits, ParkWriter,
     CloseWithContext, ClosesForWriting, ClosesWriting, CloseWriting, CloseReturns,
     CancelsContext, ClosesChannel, Closes, Close, CloserDisconnects, vars, chVars, connVars
<1> QED
  BY <1>3, <1>4, <1>5, <1>6, <1>7 DEF SystemNext, ClientMoves, ClientNext

(* The inductive invariant of the system: the channel's, and what is sent. *)
SystemInv == CInv /\ RingHoldsLatest /\ SentInv

(* SystemInv holds of a new client, ...                                    *)
LEMMA SystemInvInit == SystemInit => SystemInv
<1> SUFFICES ASSUME SystemInit PROVE SystemInv
  OBVIOUS
<1>1. Init /\ sent = {} /\ removed = {}
  BY DEF SystemInit, NewTlsClient
<1>2. CInv
  BY <1>1, CInvInit
<1>3. RingHoldsLatest /\ SentInv
  BY <1>1 DEF Init, NewByteChannel, RingHoldsLatest, SentInv, WindowWasSent, GoneWasSent,
     RemovedWasSent, Gone, Tentative
<1> QED
  BY <1>2, <1>3 DEF SystemInv

(* ... and every step of the system keeps it.                              *)
LEMMA SystemInvStep == SystemInv /\ [SystemNext]_systemVars => SystemInv'
<1> SUFFICES ASSUME SystemInv, [SystemNext]_systemVars PROVE SystemInv'
  OBVIOUS
<1>1. [Next]_vars
  BY StepRefines DEF systemVars, clientVars
<1>2. CInv' /\ RingHoldsLatest'
  BY <1>1, CInvStep, RingStep DEF SystemInv
<1>3. CASE SystemNext
  BY <1>2, <1>3, SentStep DEF SystemInv
<1>4. CASE UNCHANGED systemVars
  BY <1>2, <1>4 DEF SystemInv, SentInv, WindowWasSent, GoneWasSent, RemovedWasSent, Gone,
     Tentative, systemVars, clientVars, vars, chVars, connVars
<1> QED
  BY <1>3, <1>4

(* An acknowledgement never removes an entry that was not sent, whatever   *)
(* the network, the server and WriteOrReplace do.                          *)
THEOREM RemovedWasSentHolds == SystemSpec => []RemovedWasSent
<1>1. SystemInv => RemovedWasSent
  BY DEF SystemInv, SentInv
<1> QED
  BY <1>1, SystemInvInit, SystemInvStep, PTL DEF SystemSpec

(* Without WriteOrReplace the client never drops an entry it did not send. *)
THEOREM KeptUntilSentHolds == SystemSpec => []KeptUntilSent
<1>1. SystemInv => KeptUntilSent
  <2> SUFFICES ASSUME SystemInv, "WriteOrReplace" \notin Methods, NEW e \in 1..itemsWritten
               PROVE  e \in sent \/ InRing(e)
    BY DEF KeptUntilSent
  <2>1. length \in Int /\ itemsWritten \in Nat
    BY DEF SystemInv, CInv, TypeOK, ChannelTypeOK
  <2>2. CASE e <= Gone
    BY <2>1, <2>2 DEF SystemInv, SentInv, GoneWasSent, Gone
  <2>3. CASE e > Gone
    <3>1. e - Gone - 1 \in 0..(length - 1)
      BY <2>1, <2>3 DEF Gone
    <3>2. data[index(e - Gone - 1)] = itemsWritten - length + 1 + (e - Gone - 1)
      BY <3>1 DEF SystemInv, RingHoldsLatest
    <3>3. data[index(e - Gone - 1)] = e
      BY <2>1, <3>2 DEF Gone
    <3> QED
      BY <3>1, <3>3 DEF InRing
  <2> QED
    BY <2>1, <2>2, <2>3 DEF Gone
<1> QED
  BY <1>1, SystemInvInit, SystemInvStep, PTL DEF SystemSpec

----------------------------------------------------------------------------
(***************************************************************************)
(* What needs the connections: types, the one connection a client has,     *)
(* what a rewind costs, how often the server gets an entry, and delivery   *)
(* on a network that works.                                                *)
(***************************************************************************)

(* The entry processEntry sends and the one Ack removes are numbers.       *)
LEMMA EntryType ==
    ASSUME CInv
    PROVE  /\ rpc = "callback" => Entry \in Nat
           /\ toAck => data[index(0)] \in Nat
<1> USE CapacityAssumption
<1>1. /\ data \in [0..(Capacity - 1) -> Nat] /\ startIdx \in 0..(Capacity - 1)
      /\ awaitingAck \in Int /\ length \in Int /\ awaitingAck <= length /\ length <= Capacity
  BY DEF CInv, TypeOK, ChannelTypeOK, Window
<1>2. ASSUME NEW i \in 0..Capacity PROVE data[index(i)] \in Nat
  BY <1>1, IndexValue
<1>3. rpc = "callback" => awaitingAck - 1 \in 0..Capacity
  BY <1>1 DEF CInv, ReaderKnows, toAck
<1>4. 0 \in 0..Capacity
  OBVIOUS
<1> QED
  BY <1>2, <1>3, <1>4 DEF Entry

(* Whatever the client does to the wire is one of the wire's operations.   *)
LEMMA ClientWire ==
    ASSUME CInv, SystemTypeOK, ClientNext
    PROVE  UNCHANGED wireVars \/ \E k \in Conns : WireStep(k)
<1> USE WireAssumption DEF Conns
<1>1. /\ conn \in 0..MaxConns /\ opened \in 0..MaxConns /\ clientOpen \subseteq 1..opened
  BY DEF SystemTypeOK, ClientTypeOK, WireTypeOK
<1>2. CASE disconnect
  <2>1. CASE conn # NoConn
    <3>1. conn \in Conns
      BY <1>1, <2>1 DEF NoConn
    <3> QED
      BY <1>2, <2>1, <3>1 DEF disconnect, WireStep
  <2> QED
    BY <1>2, <2>1 DEF disconnect
<1>3. CASE Dials
  <2>1. Open /\ 1 \in Conns
    BY <1>1, <1>3 DEF Dials, Open
  <2> QED
    BY <2>1 DEF WireStep
<1>4. CASE processEntry
  <2>1. ClientWrites(sconn, Entry) /\ sconn \in clientOpen /\ rpc = "callback"
    BY <1>4 DEF processEntry, ClientWrites, ReadDone
  <2>2. sconn \in Conns /\ Entry \in Nat
    BY <1>1, <2>1, EntryType
  <2> QED
    BY <2>1, <2>2 DEF WireStep
<1>5. CASE ReadsResponse
  <2>1. ClientReads(lconn) /\ lconn \in Conns
    BY <1>1, <1>5 DEF ReadsResponse, ClientReads
  <2> QED
    BY <2>1 DEF WireStep
<1>6. CASE UNCHANGED wireVars
  BY <1>6
<1>7. CASE \E w \in Writers : ProcessEntry(w)
  BY <1>6, <1>7 DEF ProcessEntry
<1>8. CASE EntriesStep
  BY <1>2, <1>3, <1>4, <1>6, <1>8 DEF EntriesStep, EntriesWait, ensureConnection, DialFails,
     WrongProtocol, StoresConn, EntryBegins, EntryFails, EntriesDisconnect
<1>9. CASE ResponsesStep
  BY <1>2, <1>5, <1>6, <1>9 DEF ResponsesStep, ResponsesWait, LoadsConn, ResponseAcks,
     ResponseFails, ResponsesDisconnect, ResponsesRewind
<1>10. CASE CloseStep
  BY <1>2, <1>6, <1>10 DEF CloseStep, WaitUntilSent, FlushWaits, CloseWithContext,
     ClosesForWriting, CloseReturns, CancelsContext, ClosesChannel, CloserDisconnects
<1> QED
  BY <1>7, <1>8, <1>9, <1>10 DEF ClientNext

(* The client's own variables keep their types.                            *)
LEMMA ClientType ==
    ASSUME CInv, ClientTypeOK, WireTypeOK, ClientNext
    PROVE  ClientTypeOK'
<1> USE WireAssumption DEF ClientTypeOK, WireTypeOK
<1>1. CASE UNCHANGED connVars
  BY <1>1 DEF connVars
<1>2. CASE EntriesStep
  <2>1. CASE EntriesWait \/ ensureConnection
    BY <2>1 DEF EntriesWait, ensureConnection
  <2>2. CASE DialFails \/ EntryFails
    BY <2>2 DEF DialFails, EntryFails
  <2>3. CASE EntriesDisconnect
    BY <2>3 DEF EntriesDisconnect, disconnect, NoConn
  <2>4. CASE Dials
    BY <2>4 DEF Dials, Open, NewConn
  <2>5. CASE EntryBegins
    BY <2>5 DEF EntryBegins
  <2>6. CASE processEntry
    <3>1. Entry \in Nat
      BY <2>6, EntryType DEF processEntry, ReadDone
    <3> QED
      BY <2>6, <3>1 DEF processEntry
  <2>7. CASE WrongProtocol
    BY <2>7 DEF WrongProtocol, NoConn
  <2>8. CASE StoresConn
    BY <2>8 DEF StoresConn, NoConn
  <2> QED
    BY <1>2, <2>1, <2>2, <2>3, <2>4, <2>5, <2>6, <2>7, <2>8 DEF EntriesStep
<1>3. CASE ResponsesStep
  <2>1. CASE ResponsesWait \/ LoadsConn
    BY <2>1 DEF ResponsesWait, LoadsConn
  <2>2. CASE ReadsResponse \/ ResponseFails \/ ResponsesRewind
    BY <2>2 DEF ReadsResponse, ResponseFails, ResponsesRewind
  <2>3. CASE ResponsesDisconnect
    BY <2>3 DEF ResponsesDisconnect, disconnect, NoConn
  <2>4. CASE ResponseAcks
    <3>1. removed' \subseteq Nat
      BY <2>4, EntryType DEF ResponseAcks
    <3> QED
      BY <2>4, <3>1 DEF ResponseAcks
  <2> QED
    BY <1>3, <2>1, <2>2, <2>3, <2>4 DEF ResponsesStep
<1>4. CASE CloseStep
  <2>1. CASE WaitUntilSent \/ FlushWaits
    BY <1>1, <2>1 DEF WaitUntilSent, FlushWaits
  <2>2. CASE CloseWithContext \/ ClosesForWriting \/ CloseReturns
    <3>1. /\ gpc' \in {"closeWriting", "flush", "returned"}
          /\ UNCHANGED <<conn, epc, dconn, sconn, lpc, lconn, cpc, ctxDone, crashed, sent, removed>>
      BY <2>2 DEF CloseWithContext, ClosesForWriting, CloseReturns
    <3> QED
      BY <3>1
  <2>3. ASSUME NEW c \in Closers, CancelsContext(c) \/ ClosesChannel(c) PROVE ClientTypeOK'
    <3>1. /\ cpc' = [cpc EXCEPT ![c] = "chClose"] \/ cpc' = [cpc EXCEPT ![c] = "disconnect"]
          /\ ctxDone' \in {TRUE, ctxDone}
          /\ UNCHANGED <<conn, epc, dconn, sconn, lpc, lconn, gpc, crashed, sent, removed>>
      BY <2>3 DEF CancelsContext, ClosesChannel
    <3>2. cpc' \in [Closers -> {"idle", "chClose", "disconnect", "done"}]
      BY <3>1
    <3>3. ctxDone' \in BOOLEAN
      BY <3>1, Zenon
    <3> QED
      BY <3>1, <3>2, <3>3
  <2>4. ASSUME NEW c \in Closers, CloserDisconnects(c) PROVE ClientTypeOK'
    BY <2>4 DEF CloserDisconnects, disconnect, NoConn
  <2> QED
    BY <1>4, <2>1, <2>2, <2>3, <2>4 DEF CloseStep
<1> QED
  BY <1>1, <1>2, <1>3, <1>4 DEF ClientNext, ProcessEntry

(* Client, network and server keep all types.                              *)
LEMMA SystemType ==
    ASSUME CInv, CInv', SystemTypeOK, [SystemNext]_systemVars
    PROVE  SystemTypeOK'
<1>1. TypeOK'
  BY DEF CInv
<1>2. CASE ClientMoves
  <2>1. ClientTypeOK'
    BY <1>2, ClientType DEF ClientMoves, SystemTypeOK
  <2>2. WireTypeOK'
    <3>1. CASE UNCHANGED wireVars
      BY <3>1 DEF SystemTypeOK, WireTypeOK, wireVars
    <3> QED
      BY <1>2, <3>1, ClientWire, WireType DEF ClientMoves, SystemTypeOK
  <2>3. ServerTypeOK'
    BY <1>2 DEF ClientMoves, SystemTypeOK, ServerTypeOK, serverVars
  <2> QED
    BY <1>1, <2>1, <2>2, <2>3 DEF SystemTypeOK
<1>3. ASSUME NEW k \in Conns, ServerStep(k) /\ UNCHANGED clientVars PROVE SystemTypeOK'
  <2>1. WireTypeOK' /\ ServerTypeOK'
    <3>1. TRUE \in BOOLEAN
      OBVIOUS
    <3> QED
      BY <1>3, <3>1, HandlerType DEF ServerStep, SystemTypeOK
  <2>2. ClientTypeOK'
    BY <1>3 DEF SystemTypeOK, ClientTypeOK, clientVars, connVars
  <2> QED
    BY <1>1, <2>1, <2>2 DEF SystemTypeOK
<1>4. ASSUME NEW k \in Conns, Cut(k) /\ UNCHANGED <<clientVars, serverVars>> PROVE SystemTypeOK'
  <2>1. WireTypeOK'
    BY <1>4, WireType DEF WireStep, SystemTypeOK
  <2>2. ClientTypeOK' /\ ServerTypeOK'
    BY <1>4 DEF SystemTypeOK, ClientTypeOK, ServerTypeOK, clientVars, connVars, serverVars
  <2> QED
    BY <1>1, <2>1, <2>2 DEF SystemTypeOK
<1>5. CASE UNCHANGED systemVars
  BY <1>1, <1>5 DEF SystemTypeOK, ClientTypeOK, WireTypeOK, ServerTypeOK, systemVars, clientVars,
     connVars, wireVars, serverVars
<1> QED
  BY <1>2, <1>3, <1>4, <1>5 DEF SystemNext, ServerMoves, NetworkMoves

----------------------------------------------------------------------------
(* What the client knows of connections was opened, ...                    *)
KnownConns == {conn, dconn, sconn, lconn} \subseteq 0..opened

(* ... only processEntries stores one, and only when there is none ...     *)
Dialling ==
    /\ epc \in {"connect", "retry", "store"} => conn = NoConn
    /\ dconn # NoConn => epc = "store"

(* ... and processResponses, once it has given a connection up, sees only  *)
(* newer ones: every Rewind is paid for by a connection.                   *)
Newer ==
    /\ dconn # NoConn => lconn < dconn /\ rewinds < dconn
    /\ conn # NoConn => lconn <= conn /\ rewinds < conn
    /\ lpc \in {"read", "ack", "disconnect", "rewind"} => rewinds < lconn
    /\ lpc = "rewind" /\ conn # NoConn => lconn < conn
    /\ rewinds <= opened

Link == KnownConns /\ Dialling /\ Newer /\ OneConnection

linkVars == <<conn, dconn, sconn, lconn, epc, lpc, opened, clientOpen, rewinds>>

(* disconnect closes what is stored, whoever calls it.                     *)
LEMMA DisconnectLink ==
    ASSUME SystemTypeOK, Link, disconnect, UNCHANGED <<dconn, sconn, lconn, rewinds>>,
           epc' = epc \/ (epc = "disconnect" /\ epc' = "loop"),
           lpc' = lpc \/ (lpc = "disconnect" /\ lpc' = "rewind")
    PROVE  Link'
<1> USE DEF Link, NoConn
<1>1. /\ conn' = NoConn /\ opened' = opened /\ opened \in Nat
      /\ clientOpen' = clientOpen \ {conn} /\ clientOpen \subseteq 1..opened
  BY WireAssumption DEF disconnect, ClientHangsUp, wireVars, SystemTypeOK, WireTypeOK
<1>2. KnownConns'
  BY <1>1 DEF KnownConns
<1>3. Dialling'
  BY <1>1 DEF Dialling
<1>4. Newer'
  BY <1>1 DEF Newer, Dialling
<1>5. OneConnection'
  BY <1>1 DEF OneConnection
<1> QED
  BY <1>2, <1>3, <1>4, <1>5

(* processEntries: dialling, storing, sending and giving up.               *)
LEMMA EntriesLink ==
    ASSUME SystemTypeOK, Link, EntriesStep
    PROVE  Link'
<1> USE DEF Link, NoConn
<1>1. /\ opened \in Nat /\ clientOpen \subseteq 1..opened /\ rewinds \in Nat
      /\ conn \in Nat /\ dconn \in Nat /\ sconn \in Nat /\ lconn \in Nat
  BY WireAssumption DEF SystemTypeOK, WireTypeOK, ClientTypeOK, TypeOK
<1>2. CASE EntriesDisconnect
  BY <1>2, DisconnectLink DEF EntriesDisconnect, vars
<1>3. CASE EntriesWait \/ ensureConnection \/ DialFails \/ processEntry \/ EntryFails
  <2>1. /\ UNCHANGED <<conn, dconn, sconn, lconn, lpc, opened, clientOpen, rewinds>>
        /\ epc' \in {"connect", "retry", "store"} => conn = NoConn
        /\ dconn = NoConn
    BY <1>3 DEF EntriesWait, ReaderWaits, ensureConnection, DialFails, processEntry, ReadDone,
       ClientWrites, EntryFails, ReadUndone, vars, wireVars, Dialling
  <2>2. KnownConns' /\ Dialling'
    BY <2>1 DEF KnownConns, Dialling
  <2>3. Newer'
    BY <2>1 DEF Newer
  <2>4. OneConnection'
    BY <2>1 DEF OneConnection
  <2> QED
    BY <2>2, <2>3, <2>4
<1>4. CASE EntryBegins
  <2>1. /\ UNCHANGED <<conn, dconn, lconn, lpc, opened, clientOpen, rewinds>>
        /\ epc' \in {"loop", "write"} /\ sconn' \in {sconn, conn} /\ dconn = NoConn
    BY <1>4 DEF EntryBegins, BeginRead, wireVars, Dialling
  <2>2. KnownConns' /\ Dialling'
    BY <2>1 DEF KnownConns, Dialling
  <2>3. Newer' /\ OneConnection'
    BY <2>1 DEF Newer, OneConnection
  <2> QED
    BY <2>2, <2>3
<1>5. CASE Dials
  <2>1. /\ UNCHANGED <<conn, sconn, lconn, lpc, rewinds>> /\ conn = NoConn /\ dconn = NoConn
        /\ opened' = opened + 1 /\ dconn' = opened + 1 /\ epc' = "store"
        /\ clientOpen' = clientOpen \cup {opened + 1}
    BY <1>5 DEF Dials, Open, NewConn, vars, Dialling
  <2>2. KnownConns'
    BY <1>1, <2>1 DEF KnownConns
  <2>3. Dialling'
    BY <2>1 DEF Dialling
  <2>4. Newer'
    BY <1>1, <2>1 DEF Newer, KnownConns
  <2>5. OneConnection'
    BY <1>1, <2>1 DEF OneConnection
  <2> QED
    BY <2>2, <2>3, <2>4, <2>5
<1>6. CASE WrongProtocol
  <2>1. /\ UNCHANGED <<conn, sconn, lconn, lpc, opened, clientOpen, rewinds>>
        /\ dconn' = NoConn /\ epc' = "retry" /\ conn = NoConn /\ "protocol" \in Faults
    BY <1>6 DEF WrongProtocol, vars, wireVars, Dialling
  <2>2. KnownConns' /\ Dialling' /\ OneConnection'
    BY <1>1, <2>1 DEF KnownConns, Dialling, OneConnection
  <2>3. Newer'
    BY <2>1 DEF Newer
  <2> QED
    BY <2>2, <2>3
<1>7. CASE StoresConn
  <2>1. /\ UNCHANGED <<sconn, lconn, lpc, opened, clientOpen, rewinds>>
        /\ dconn' = NoConn /\ conn' = dconn /\ epc' = "read" /\ conn = NoConn
    BY <1>7 DEF StoresConn, vars, wireVars, Dialling
  <2>2. KnownConns' /\ Dialling' /\ OneConnection'
    BY <1>1, <2>1 DEF KnownConns, Dialling, OneConnection
  <2>3. Newer'
    BY <1>1, <2>1 DEF Newer
  <2> QED
    BY <2>2, <2>3
<1> QED
  BY <1>2, <1>3, <1>4, <1>5, <1>6, <1>7 DEF EntriesStep

(* processResponses: the connection it reads from may be gone long since.  *)
LEMMA ResponsesLink ==
    ASSUME SystemTypeOK, Link, ResponsesStep
    PROVE  Link'
<1> USE DEF Link, NoConn
<1>1. /\ opened \in Nat /\ clientOpen \subseteq 1..opened /\ rewinds \in Nat
      /\ conn \in Nat /\ dconn \in Nat /\ sconn \in Nat /\ lconn \in Nat
  BY WireAssumption DEF SystemTypeOK, WireTypeOK, ClientTypeOK, TypeOK
<1>2. CASE ResponsesDisconnect
  BY <1>2, DisconnectLink DEF ResponsesDisconnect, vars
<1>3. CASE ResponsesWait \/ ReadsResponse \/ ResponseAcks \/ ResponseFails
  <2>1. /\ UNCHANGED <<conn, dconn, sconn, lconn, epc, opened, clientOpen, rewinds>>
        /\ lpc' \in {"loop", "load"} \/ (lpc = "read" /\ lpc' \in {"ack", "disconnect"})
    BY <1>3 DEF ResponsesWait, AckerWaits, ReadsResponse, ClientReads, ResponseAcks, AckerAcks,
       ResponseFails, vars, wireVars
  <2>2. KnownConns' /\ Dialling' /\ OneConnection'
    BY <2>1 DEF KnownConns, Dialling, OneConnection
  <2>3. Newer'
    BY <2>1 DEF Newer
  <2> QED
    BY <2>2, <2>3
<1>4. CASE LoadsConn
  <2>1. /\ UNCHANGED <<conn, dconn, sconn, epc, opened, clientOpen, rewinds>>
        /\ \/ lpc' = "loop" /\ lconn' = lconn
           \/ lpc' = "read" /\ lconn' = conn /\ conn # NoConn
    BY <1>4 DEF LoadsConn, AckerSkips, vars, wireVars
  <2>2. KnownConns' /\ Dialling' /\ OneConnection'
    BY <2>1 DEF KnownConns, Dialling, OneConnection
  <2>3. conn # NoConn => dconn = NoConn
    BY DEF Dialling
  <2>4. Newer'
    BY <1>1, <2>1, <2>3 DEF Newer
  <2> QED
    BY <2>2, <2>4
<1>5. CASE ResponsesRewind
  <2>1. /\ UNCHANGED <<conn, dconn, sconn, lconn, epc, opened, clientOpen>>
        /\ rewinds' = rewinds + 1 /\ lpc = "rewind" /\ lpc' = "loop"
    BY <1>5 DEF ResponsesRewind, AckerRewinds, wireVars
  <2>2. KnownConns' /\ Dialling' /\ OneConnection'
    BY <2>1 DEF KnownConns, Dialling, OneConnection
  <2>3. lconn <= opened
    BY DEF KnownConns
  <2>4. Newer'
    BY <1>1, <2>1, <2>3 DEF Newer
  <2> QED
    BY <2>2, <2>4
<1> QED
  BY <1>2, <1>3, <1>4, <1>5 DEF ResponsesStep

(* Every step keeps the connections in order.                              *)
LEMMA LinkStep ==
    ASSUME SystemTypeOK, Link, [SystemNext]_systemVars
    PROVE  Link'
<1>1. CASE UNCHANGED linkVars
  <2>1. KnownConns' /\ Dialling' /\ OneConnection'
    BY <1>1 DEF linkVars, Link, KnownConns, Dialling, OneConnection
  <2>2. Newer'
    BY <1>1 DEF linkVars, Link, Newer
  <2> QED
    BY <2>1, <2>2 DEF Link
<1>2. CASE ClientMoves
  <2>1. CASE \E w \in Writers : ProcessEntry(w)
    BY <1>1, <2>1 DEF ProcessEntry, WriterStep, WriteOrReplace, WriteOrFail, WriteOrBlock,
       WriterWakes, connVars, wireVars, linkVars
  <2>2. CASE CloseStep
    <3>1. ASSUME NEW c \in Closers, CloserDisconnects(c) PROVE Link'
      BY <3>1, DisconnectLink DEF CloserDisconnects, vars
    <3> QED
      BY <1>1, <2>2, <3>1 DEF CloseStep, WaitUntilSent, FlusherCalls, FlushWaits, FlusherWaits,
         CloseWithContext, ClosesForWriting, ClosesWriting, CloseReturns, CancelsContext,
         ClosesChannel, Closes, vars, connVars, wireVars, linkVars
  <2> QED
    BY <1>2, <2>1, <2>2, EntriesLink, ResponsesLink DEF ClientMoves, ClientNext
<1>3. CASE ServerMoves
  <2>1. UNCHANGED <<opened, clientOpen>>
    BY <1>3 DEF ServerMoves, ServerStep, HandlerStep, Handshake, HandshakeFails, handleEntry,
       ReadsPing, SendsPong, ReadsEnd, IdleTimeout, AcksOK, AcksNOK, sendAck, releaseConn,
       ServerReads, ServerWrites, ServerHangsUp, wireVars
  <2> QED
    BY <1>1, <1>3, <2>1 DEF ServerMoves, clientVars, vars, connVars, linkVars
<1>4. CASE NetworkMoves
  BY <1>1, <1>4 DEF NetworkMoves, Cut, clientVars, vars, connVars, linkVars
<1>5. CASE UNCHANGED systemVars
  BY <1>1, <1>5 DEF systemVars, clientVars, vars, connVars, wireVars, linkVars
<1> QED
  BY <1>2, <1>3, <1>4, <1>5 DEF SystemNext

(* The invariant of the connections: types, what is in the ring and what   *)
(* was sent, and the order of the connections.                             *)
LinkInv == SystemInv /\ SystemTypeOK /\ Link

(* It holds of a new client and a new server, ...                          *)
LEMMA LinkInvInit == SystemInit => LinkInv
<1> SUFFICES ASSUME SystemInit PROVE LinkInv
  OBVIOUS
<1> USE WireAssumption DEF SystemInit, NewTlsClient, WireInit, ServerInit
<1>1. SystemInv
  BY SystemInvInit
<1>2. TypeOK /\ rewinds = 0
  BY <1>1 DEF SystemInv, CInv, Init
<1>3. ClientTypeOK
  <2>1. cpc \in [Closers -> {"idle", "chClose", "disconnect", "done"}]
    OBVIOUS
  <2>2. conn = 0 /\ dconn = 0 /\ sconn = 0 /\ lconn = 0 /\ 0 \in 0..MaxConns
    BY DEF NoConn
  <2>3. ctxDone \in BOOLEAN /\ crashed \in BOOLEAN
    BY Zenon
  <2> QED
    BY <2>1, <2>2, <2>3 DEF ClientTypeOK
<1>4. WireTypeOK
  <2>1. <<>> \in Seq(Nat) /\ <<>> \in Seq(Responses)
    OBVIOUS
  <2> QED
    BY <2>1 DEF WireTypeOK
<1>5. ServerTypeOK
  <2>1. <<>> \in Seq(Nat)
    OBVIOUS
  <2> QED
    BY <2>1 DEF ServerTypeOK
<1>6. KnownConns /\ Dialling /\ OneConnection
  BY DEF KnownConns, Dialling, OneConnection, NoConn
<1>7. Newer
  BY <1>2 DEF Newer, NoConn
<1> QED
  BY <1>1, <1>2, <1>3, <1>4, <1>5, <1>6, <1>7 DEF LinkInv, SystemTypeOK, Link

(* ... and every step of the system keeps it.                              *)
LEMMA LinkInvStep == LinkInv /\ [SystemNext]_systemVars => LinkInv'
<1> SUFFICES ASSUME LinkInv, [SystemNext]_systemVars PROVE LinkInv'
  OBVIOUS
<1>1. SystemInv'
  BY SystemInvStep DEF LinkInv
<1>2. SystemTypeOK'
  BY <1>1, SystemType DEF LinkInv, SystemInv
<1>3. Link'
  BY LinkStep DEF LinkInv
<1> QED
  BY <1>1, <1>2, <1>3 DEF LinkInv

(* Every variable of client, network and server keeps its type.            *)
THEOREM SystemTypeCorrect == SystemSpec => []SystemTypeOK
<1>1. LinkInv => SystemTypeOK
  BY DEF LinkInv
<1> QED
  BY <1>1, LinkInvInit, LinkInvStep, PTL DEF SystemSpec

(* The client never has two connections, whichever of its goroutines and   *)
(* callers of Close disconnect while another dials (tls_client.go:310).    *)
THEOREM OneConnectionHolds == SystemSpec => []OneConnection
<1>1. LinkInv => OneConnection
  BY DEF LinkInv, Link
<1> QED
  BY <1>1, LinkInvInit, LinkInvStep, PTL DEF SystemSpec

(* processResponses gives up each connection at most once, although it     *)
(* reads c.conn long before it rewinds.                                    *)
THEOREM RewindsNeedConnsHolds == SystemSpec => []RewindsNeedConns
<1>1. LinkInv => RewindsNeedConns
  BY DEF LinkInv, Link, Newer, RewindsNeedConns
<1> QED
  BY <1>1, LinkInvInit, LinkInvStep, PTL DEF SystemSpec

----------------------------------------------------------------------------
(* The copies of entry e in a list h and in the streams f, ...             *)
CopiesOf(h, f, e) == Occurrences(h, e) + Cardinality(Places(f, e))

(* ... and so those the server has handled or will read.                   *)
Total(e) == CopiesOf(handled, c2s, e)

(* Entries up to this one were handed out and not taken back.              *)
Handed == Gone + awaitingAck - Tentative

(* Every copy but one needs a Rewind, and an entry that is yet to be       *)
(* handed out has not even that one.                                       *)
FewCopies ==
    \A e \in Nat \ {0} :
        /\ IsFiniteSet(Places(c2s, e))
        /\ Total(e) <= rewinds + (IF e <= Handed THEN 1 ELSE 0)

(* How many copies there are when the list becomes g and stream k becomes  *)
(* t: at most d more than before, if these two have at most d more.        *)
LEMMA CopiesUpdate ==
    ASSUME NEW K, NEW f \in [K -> Seq(Nat)], NEW k \in K, NEW t \in Seq(Nat),
           NEW h \in Seq(Nat), NEW g \in Seq(Nat), NEW e \in Nat, NEW d \in Nat,
           IsFiniteSet(Places(f, e)), NEW s, s = f[k],
           Occurrences(g, e) + Occurrences(t, e) <= Occurrences(h, e) + Occurrences(s, e) + d
    PROVE  /\ IsFiniteSet(Places([f EXCEPT ![k] = t], e))
           /\ CopiesOf(h, f, e) \in Nat /\ CopiesOf(g, [f EXCEPT ![k] = t], e) \in Nat
           /\ CopiesOf(g, [f EXCEPT ![k] = t], e) <= CopiesOf(h, f, e) + d
<1>1. PICK u : u = [f EXCEPT ![k] = t]
  OBVIOUS
<1>2. /\ IsFiniteSet(Places(u, e))
      /\ Cardinality(Places(f, e)) \in Nat /\ Cardinality(Places(u, e)) \in Nat
      /\ Cardinality(Places(u, e)) + Occurrences(s, e) =
             Cardinality(Places(f, e)) + Occurrences(t, e)
  <2>1. /\ IsFiniteSet(Places(u, e))
        /\ Balance(Cardinality(Places(u, e)), Occurrences(s, e),
                   Cardinality(Places(f, e)), Occurrences(t, e))
    BY <1>1, PlacesUpdate
  <2> QED
    BY <2>1 DEF Balance
<1>3. s \in Seq(Nat)
  OBVIOUS
<1>4. /\ Occurrences(h, e) \in Nat /\ Occurrences(g, e) \in Nat
      /\ Occurrences(s, e) \in Nat /\ Occurrences(t, e) \in Nat
  BY <1>3, OccurrencesType
<1>5. CopiesOf(g, u, e) \in Nat /\ CopiesOf(h, f, e) \in Nat
      /\ CopiesOf(g, u, e) <= CopiesOf(h, f, e) + d
  <2>1. PICK a \in Nat, b \in Nat, x \in Nat, y \in Nat :
            /\ a = Occurrences(h, e) /\ b = Occurrences(g, e)
            /\ x = Occurrences(s, e) /\ y = Occurrences(t, e)
    BY <1>4, Zenon
  <2>2. PICK n \in Nat, m \in Nat : n = Cardinality(Places(f, e)) /\ m = Cardinality(Places(u, e))
    BY <1>2, Zenon
  <2>3. b + y <= a + x + d /\ m + x = n + y
    BY <1>2, <2>1, <2>2
  <2>4. CopiesOf(g, u, e) = b + m /\ CopiesOf(h, f, e) = a + n
    BY <2>1, <2>2 DEF CopiesOf
  <2> QED
    BY <2>3, <2>4
<1> QED
  BY <1>1, <1>2, <1>5

(* Reading moves the head of a stream to the end of the list, ...          *)
LEMMA CopiesMove ==
    ASSUME NEW K, NEW f \in [K -> Seq(Nat)], NEW k \in K, NEW h \in Seq(Nat), NEW e \in Nat,
           IsFiniteSet(Places(f, e)), f[k] # <<>>, NEW g \in {h, Append(h, Head(f[k]))}
    PROVE  /\ IsFiniteSet(Places([f EXCEPT ![k] = Tail(f[k])], e))
           /\ CopiesOf(h, f, e) \in Nat /\ CopiesOf(g, [f EXCEPT ![k] = Tail(f[k])], e) \in Nat
           /\ CopiesOf(g, [f EXCEPT ![k] = Tail(f[k])], e) <= CopiesOf(h, f, e)
<1>1. PICK s \in Seq(Nat) : s = f[k] /\ s # <<>>
  OBVIOUS
<1>2. PICK t \in Seq(Nat) : t = Tail(s)
  BY <1>1, HeadTailProperties
<1>3. PICK m \in Nat : m = Head(s)
  BY <1>1, HeadTailProperties
<1>4. PICK d \in Nat : d = IF m = e THEN 1 ELSE 0
  OBVIOUS
<1>5. Occurrences(s, e) = Occurrences(t, e) + d
  <2>1. Occurrences(s, e) = Occurrences(Tail(s), e) + (IF Head(s) = e THEN 1 ELSE 0)
    BY <1>1, OccurrencesTail
  <2> QED
    BY <1>2, <1>3, <1>4, <2>1
<1>6. Append(h, m) \in Seq(Nat) /\ Occurrences(Append(h, m), e) = Occurrences(h, e) + d
  <2>1. Occurrences(Append(h, m), e) = Occurrences(h, e) + (IF m = e THEN 1 ELSE 0)
    BY NumbersAppend
  <2> QED
    BY <1>4, <2>1, AppendProperties
<1>7. Occurrences(h, e) \in Nat /\ Occurrences(t, e) \in Nat /\ Occurrences(s, e) \in Nat
  BY OccurrencesType
<1>8. g \in Seq(Nat)
      /\ Occurrences(g, e) + Occurrences(t, e) <= Occurrences(h, e) + Occurrences(s, e) + 0
  <2>1. g = h \/ g = Append(h, m)
    BY <1>1, <1>3
  <2>2. CASE g = h
    BY <1>5, <1>7, <2>2
  <2>3. CASE g = Append(h, m)
    <3>1. g \in Seq(Nat) /\ Occurrences(g, e) = Occurrences(h, e) + d
      BY <1>6, <2>3, Zenon
    <3>2. PICK a \in Nat, b \in Nat : a = Occurrences(h, e) /\ b = Occurrences(t, e)
      BY <1>7
    <3>3. a + d + b <= a + (b + d) + 0
      OBVIOUS
    <3>4. Occurrences(g, e) = a + d /\ Occurrences(s, e) = b + d
      BY <1>5, <3>1, <3>2, Zenon
    <3> QED
      BY <3>1, <3>2, <3>3, <3>4
  <2> QED
    BY <2>1, <2>2, <2>3
<1>9. /\ IsFiniteSet(Places([f EXCEPT ![k] = t], e))
      /\ CopiesOf(h, f, e) \in Nat /\ CopiesOf(g, [f EXCEPT ![k] = t], e) \in Nat
      /\ CopiesOf(g, [f EXCEPT ![k] = t], e) <= CopiesOf(h, f, e) + 0
  BY <1>1, <1>8, CopiesUpdate
<1> QED
  BY <1>1, <1>2, <1>9

(* ... losing the end of a stream moves nothing, ...                       *)
LEMMA CopiesLost ==
    ASSUME NEW K, NEW f \in [K -> Seq(Nat)], NEW k \in K, NEW h \in Seq(Nat), NEW e \in Nat,
           IsFiniteSet(Places(f, e)), NEW p \in Prefixes(f[k]) \cup {<<>>}
    PROVE  /\ IsFiniteSet(Places([f EXCEPT ![k] = p], e))
           /\ CopiesOf(h, f, e) \in Nat /\ CopiesOf(h, [f EXCEPT ![k] = p], e) \in Nat
           /\ CopiesOf(h, [f EXCEPT ![k] = p], e) <= CopiesOf(h, f, e)
<1>1. PICK s \in Seq(Nat) : s = f[k]
  OBVIOUS
<1>2. Occurrences(h, e) \in Nat /\ Occurrences(s, e) \in Nat
  BY OccurrencesType
<1>3. p \in Seq(Nat) /\ Occurrences(p, e) <= Occurrences(s, e)
  <2>1. CASE p = <<>>
    BY <1>2, <2>1, OccurrencesEmpty
  <2>2. CASE p \in Prefixes(s)
    BY <2>2, PrefixType, OccurrencesPrefix
  <2> QED
    BY <1>1, <2>1, <2>2
<1>4. Occurrences(p, e) \in Nat
  BY <1>3, OccurrencesType
<1>5. Occurrences(h, e) + Occurrences(p, e) <= Occurrences(h, e) + Occurrences(s, e) + 0
  BY <1>2, <1>3, <1>4
<1>6. /\ IsFiniteSet(Places([f EXCEPT ![k] = p], e))
      /\ CopiesOf(h, f, e) \in Nat /\ CopiesOf(h, [f EXCEPT ![k] = p], e) \in Nat
      /\ CopiesOf(h, [f EXCEPT ![k] = p], e) <= CopiesOf(h, f, e) + 0
  BY <1>1, <1>3, <1>5, CopiesUpdate
<1> QED
  BY <1>6

(* ... and writing m makes one copy of m and none of any other entry.      *)
LEMMA CopiesWritten ==
    ASSUME NEW K, NEW f \in [K -> Seq(Nat)], NEW k \in K, NEW h \in Seq(Nat), NEW e \in Nat,
           IsFiniteSet(Places(f, e)), NEW m \in Nat
    PROVE  /\ IsFiniteSet(Places([f EXCEPT ![k] = Append(f[k], m)], e))
           /\ CopiesOf(h, f, e) \in Nat
           /\ CopiesOf(h, [f EXCEPT ![k] = Append(f[k], m)], e) \in Nat
           /\ CopiesOf(h, [f EXCEPT ![k] = Append(f[k], m)], e) <=
                  CopiesOf(h, f, e) + (IF m = e THEN 1 ELSE 0)
<1>1. PICK s \in Seq(Nat) : s = f[k]
  OBVIOUS
<1>2. PICK d \in Nat : d = IF m = e THEN 1 ELSE 0
  OBVIOUS
<1>3. PICK t \in Seq(Nat) : t = Append(s, m)
  BY AppendProperties
<1>4. Occurrences(t, e) = Occurrences(s, e) + d
  <2>1. Occurrences(Append(s, m), e) = Occurrences(s, e) + (IF m = e THEN 1 ELSE 0)
    BY NumbersAppend
  <2> QED
    BY <1>2, <1>3, <2>1
<1>5. Occurrences(h, e) \in Nat /\ Occurrences(s, e) \in Nat /\ Occurrences(t, e) \in Nat
  BY OccurrencesType
<1>6. Occurrences(h, e) + Occurrences(t, e) <= Occurrences(h, e) + Occurrences(s, e) + d
  BY <1>4, <1>5
<1>7. /\ IsFiniteSet(Places([f EXCEPT ![k] = t], e))
      /\ CopiesOf(h, f, e) \in Nat /\ CopiesOf(h, [f EXCEPT ![k] = t], e) \in Nat
      /\ CopiesOf(h, [f EXCEPT ![k] = t], e) <= CopiesOf(h, f, e) + d
  BY <1>1, <1>6, CopiesUpdate
<1> QED
  BY <1>1, <1>2, <1>3, <1>7

(* The server and the network make no copies: what is read is handled      *)
(* once, or not, and what is cut or hung up on is lost.                    *)
LEMMA ServerCopies ==
    ASSUME WireTypeOK, ServerTypeOK, NEW k \in Conns, NEW e \in Nat, IsFiniteSet(Places(c2s, e)),
           ServerStep(k) \/ (Cut(k) /\ handled' = handled)
    PROVE  IsFiniteSet(Places(c2s', e)) /\ Total(e)' \in Nat /\ Total(e)' <= Total(e)
<1>1. PICK f \in [Conns -> Seq(Nat)], h \in Seq(Nat) : f = c2s /\ h = handled
  BY DEF WireTypeOK, ServerTypeOK
<1>2. PICK u, g : u = c2s' /\ g = handled'
  OBVIOUS
<1>3. IsFiniteSet(Places(f, e))
  BY <1>1
<1> SUFFICES /\ IsFiniteSet(Places(u, e))
             /\ CopiesOf(g, u, e) \in Nat /\ CopiesOf(g, u, e) <= CopiesOf(h, f, e)
  BY <1>1, <1>2 DEF Total
<1>4. CASE UNCHANGED <<c2s, handled>>
  <2>1. Occurrences(h, e) \in Nat /\ Cardinality(Places(f, e)) \in Nat
    BY <1>3, OccurrencesType, FS_CardinalityType
  <2>2. CopiesOf(h, f, e) \in Nat
    BY <2>1 DEF CopiesOf
  <2> QED
    BY <1>1, <1>2, <1>3, <1>4, <2>2
<1>5. CASE ServerReads(k) /\ handled' \in {handled, Append(handled, Head(c2s[k]))}
  <2>1. f[k] # <<>> /\ u = [f EXCEPT ![k] = Tail(f[k])] /\ g \in {h, Append(h, Head(f[k]))}
    BY <1>1, <1>2, <1>5 DEF ServerReads
  <2> QED
    BY <1>3, <2>1, CopiesMove
<1>6. CASE ServerHangsUp(k) /\ handled' = handled
  <2>1. u = [f EXCEPT ![k] = <<>>] /\ g = h /\ <<>> \in Prefixes(f[k]) \cup {<<>>}
    BY <1>1, <1>2, <1>6 DEF ServerHangsUp
  <2> QED
    BY <1>3, <2>1, CopiesLost
<1>7. CASE Cut(k) /\ handled' = handled
  <2>1. PICK p \in Prefixes(f[k]) : u = [f EXCEPT ![k] = p]
    BY <1>1, <1>2, <1>7 DEF Cut
  <2>2. g = h /\ p \in Prefixes(f[k]) \cup {<<>>}
    BY <1>1, <1>2, <1>7
  <2> QED
    BY <1>3, <2>1, <2>2, CopiesLost
<1>8. CASE ServerStep(k)
  <2>1. \/ UNCHANGED <<c2s, handled>>
        \/ ServerReads(k) /\ handled' \in {handled, Append(handled, Head(c2s[k]))}
        \/ ServerHangsUp(k) /\ handled' = handled
    BY <1>8 DEF ServerStep, HandlerStep, Handshake, HandshakeFails, handleEntry, ReadsPing,
       SendsPong, ReadsEnd, IdleTimeout, AcksOK, AcksNOK, sendAck, releaseConn, ServerWrites,
       wireVars
  <2> QED
    BY <1>4, <1>5, <1>6, <2>1
<1> QED
  BY <1>7, <1>8

(* Sending an entry makes one copy of it, or none, and none of others.     *)
LEMMA ClientCopies ==
    ASSUME WireTypeOK, ServerTypeOK, NEW m \in Nat, NEW k \in Conns, ClientWrites(k, m),
           handled' = handled, NEW e \in Nat, IsFiniteSet(Places(c2s, e))
    PROVE  /\ IsFiniteSet(Places(c2s', e)) /\ Total(e)' \in Nat
           /\ Total(e)' <= Total(e) + (IF m = e THEN 1 ELSE 0)
<1>1. PICK f \in [Conns -> Seq(Nat)], h \in Seq(Nat) : f = c2s /\ h = handled
  BY DEF WireTypeOK, ServerTypeOK
<1>2. PICK u : u = c2s'
  OBVIOUS
<1>3. IsFiniteSet(Places(f, e))
  BY <1>1
<1> SUFFICES /\ IsFiniteSet(Places(u, e)) /\ CopiesOf(h, u, e) \in Nat
             /\ CopiesOf(h, u, e) <= CopiesOf(h, f, e) + (IF m = e THEN 1 ELSE 0)
  BY <1>1, <1>2 DEF Total
<1>4. /\ IsFiniteSet(Places([f EXCEPT ![k] = Append(f[k], m)], e))
      /\ CopiesOf(h, f, e) \in Nat
      /\ CopiesOf(h, [f EXCEPT ![k] = Append(f[k], m)], e) \in Nat
      /\ CopiesOf(h, [f EXCEPT ![k] = Append(f[k], m)], e) <=
             CopiesOf(h, f, e) + (IF m = e THEN 1 ELSE 0)
  BY <1>3, CopiesWritten
<1>5. u = f \/ u = [f EXCEPT ![k] = Append(f[k], m)]
  BY <1>1, <1>2 DEF ClientWrites
<1>6. CASE u = f
  BY <1>3, <1>4, <1>6
<1>7. CASE u = [f EXCEPT ![k] = Append(f[k], m)]
  BY <1>4, <1>7
<1> QED
  BY <1>5, <1>6, <1>7

(* Only Rewind takes entries back that were handed out; processEntry hands *)
(* out the next one; pushing out and acknowledging move the window, not    *)
(* its end.                                                                *)
LEMMA HandedStep ==
    ASSUME CInv, CInv', RingHoldsLatest, ClientNext
    PROVE  /\ Handed \in Int /\ Handed' \in Int
           /\ \/ processEntry /\ Entry = Handed + 1 /\ Handed' = Handed + 1 /\ rewinds' = rewinds
              \/ ResponsesRewind /\ rewinds' = rewinds + 1
              \/ /\ c2s' = c2s /\ Handed <= Handed' /\ rewinds' = rewinds
                 /\ "WriteOrReplace" \notin Methods => Handed' = Handed
<1> USE CapacityAssumption
<1>1. /\ awaitingAck \in Int /\ length \in Int /\ itemsWritten \in Nat
      /\ awaitingAck' \in Int /\ length' \in Int /\ itemsWritten' \in Nat
      /\ 0 <= awaitingAck /\ awaitingAck <= length /\ length <= itemsWritten
      /\ Tentative \in 0..1 /\ Tentative' \in 0..1
  BY DEF CInv, TypeOK, ChannelTypeOK, Window, Tentative
<1>2. Handed \in Int /\ Handed' \in Int
  BY <1>1 DEF Handed, Gone
<1>3. /\ awaitingAck \in Int /\ length \in Int /\ itemsWritten \in Int /\ Tentative \in Int
      /\ awaitingAck' \in Int /\ length' \in Int /\ itemsWritten' \in Int /\ Tentative' \in Int
  BY <1>1
<1>4. PICK i \in Int, l \in Int, a \in Int, t \in Int :
          i = itemsWritten /\ l = length /\ a = awaitingAck /\ t = Tentative
  BY <1>3, Zenon
<1>5. PICK ii \in Int, ll \in Int, aa \in Int, tt \in Int :
          ii = itemsWritten' /\ ll = length' /\ aa = awaitingAck' /\ tt = Tentative'
  BY <1>3, Zenon
<1>6. Handed = i - l + a - t /\ Handed' = ii - ll + aa - tt
  BY <1>4, <1>5 DEF Handed, Gone
<1>7. CASE UNCHANGED <<awaitingAck, rpc, itemsWritten, length, rewinds, c2s>>
  <2>1. Handed' = Handed
    BY <1>7 DEF Handed, Gone, Tentative
  <2> QED
    BY <1>2, <1>7, <2>1
<1>8. ASSUME NEW w \in Writers, ProcessEntry(w)
      PROVE  /\ c2s' = c2s /\ Handed <= Handed' /\ rewinds' = rewinds
             /\ "WriteOrReplace" \notin Methods => Handed' = Handed
  <2>1. c2s' = c2s /\ rewinds' = rewinds /\ rpc' = rpc
    BY <1>8 DEF ProcessEntry, WriterStep, WriteOrReplace, WriteOrFail, WriteOrBlock, WriterWakes,
       wireVars
  <2>2. \/ UNCHANGED <<awaitingAck, itemsWritten, length>>
        \/ write(itemsWritten + 1) /\ (spaceLeft \/ "WriteOrReplace" \in Methods)
    BY <1>8 DEF ProcessEntry, WriterStep, WriteOrReplace, WriteOrFail, WriteOrBlock, WriterWakes,
       DoWrite, ParkWriter, chVars, WriteOrBlockVerdict
  <2>3. Tentative' = Tentative
    BY <2>1 DEF Tentative
  <2>4. \/ UNCHANGED <<awaitingAck, itemsWritten, length>>
        \/ /\ itemsWritten' = itemsWritten + 1
           /\ \/ length' = length + 1 /\ awaitingAck' = awaitingAck
              \/ /\ "WriteOrReplace" \in Methods
                 /\ length' = length /\ awaitingAck' \in {awaitingAck, awaitingAck - 1}
    BY <2>2 DEF write
  <2>5. tt = t /\ (\/ aa = a /\ ii = i /\ ll = l
                   \/ ii = i + 1 /\ ll = l + 1 /\ aa = a
                   \/ /\ ii = i + 1 /\ ll = l /\ aa \in {a, a - 1}
                      /\ "WriteOrReplace" \in Methods)
    BY <1>4, <1>5, <2>3, <2>4
  <2>6. /\ i - l + a - t <= ii - ll + aa - tt
        /\ "WriteOrReplace" \notin Methods => ii - ll + aa - tt = i - l + a - t
    BY <2>5
  <2> QED
    BY <1>6, <2>1, <2>6
<1>9. CASE EntriesStep
  <2>1. CASE EntriesWait \/ ensureConnection \/ Dials \/ DialFails \/ WrongProtocol
             \/ StoresConn \/ EntriesDisconnect
    <3>1. UNCHANGED <<awaitingAck, itemsWritten, length, rewinds, c2s>>
      BY <2>1 DEF EntriesWait, ReaderWaits, ParkReader, ensureConnection, Dials, Open, DialFails,
         WrongProtocol, StoresConn, EntriesDisconnect, disconnect, ClientHangsUp, vars, chVars,
         wireVars
    <3>2. (rpc # "callback" /\ rpc' # "callback") \/ rpc' = rpc
      BY <2>1 DEF EntriesWait, ReaderWaits, ensureConnection, Dials, DialFails, WrongProtocol,
         StoresConn, EntriesDisconnect, vars
    <3>3. Handed' = Handed
      BY <3>1, <3>2 DEF Handed, Gone, Tentative
    <3> QED
      BY <1>2, <3>1, <3>3
  <2>2. CASE EntryBegins
    <3>1. c2s' = c2s /\ rewinds' = rewinds
      BY <2>2 DEF EntryBegins, BeginRead, wireVars
    <3>2. /\ UNCHANGED <<itemsWritten, length>>
          /\ \/ awaitingAck' = awaitingAck /\ Tentative' = Tentative
             \/ awaitingAck' = awaitingAck + 1 /\ Tentative = 0 /\ Tentative' = 1
      BY <2>2 DEF EntryBegins, BeginRead, read, chVars, Tentative
    <3>3. /\ ii = i /\ ll = l
          /\ (aa = a /\ tt = t) \/ (aa = a + 1 /\ t = 0 /\ tt = 1)
      BY <1>4, <1>5, <3>2
    <3>4. Handed' = Handed
      BY <1>6, <3>3
    <3> QED
      BY <1>2, <3>1, <3>4
  <2>3. CASE processEntry
    <3>1. UNCHANGED <<awaitingAck, itemsWritten, length, rewinds>>
      BY <2>3 DEF processEntry, ReadDone, ReadSucceeded
    <3>2. Tentative = 1 /\ Tentative' = 0 /\ awaitingAck - 1 \in 0..(length - 1)
      BY <1>1, <2>3 DEF processEntry, ReadDone, Tentative, CInv, ReaderKnows, toAck, Window
    <3>3. Entry = Gone + awaitingAck
      BY <1>1, <3>2 DEF Entry, RingHoldsLatest, Gone
    <3>4. Entry = Handed + 1 /\ Handed' = Handed + 1
      BY <1>1, <3>1, <3>2, <3>3 DEF Handed, Gone
    <3> QED
      BY <1>2, <2>3, <3>1, <3>4
  <2>4. CASE EntryFails
    <3>1. c2s' = c2s /\ rewinds' = rewinds
      BY <2>4 DEF EntryFails, ReadUndone, wireVars
    <3>2. Handed' = Handed
      BY <1>1, <2>4 DEF EntryFails, ReadUndone, ReadFailed, undoRead, Handed, Gone, Tentative
    <3> QED
      BY <1>2, <3>1, <3>2
  <2> QED
    BY <1>9, <2>1, <2>2, <2>3, <2>4 DEF EntriesStep
<1>10. CASE ResponsesStep
  <2>1. CASE ResponsesWait \/ LoadsConn \/ ReadsResponse \/ ResponseFails \/ ResponsesDisconnect
    <3>1. UNCHANGED <<awaitingAck, rpc, itemsWritten, length, rewinds>>
      BY <2>1 DEF ResponsesWait, AckerWaits, ParkWriter, LoadsConn, AckerSkips,
         ReadsResponse, ResponseFails, ResponsesDisconnect, vars, chVars
    <3>2. c2s' = c2s
      BY <2>1 DEF ResponsesWait, LoadsConn, ReadsResponse, ClientReads, ResponseFails,
         ResponsesDisconnect, disconnect, ClientHangsUp, wireVars
    <3> QED
      BY <1>7, <3>1, <3>2
  <2>2. CASE ResponseAcks
    <3>1. c2s' = c2s /\ rewinds' = rewinds /\ rpc' = rpc /\ Ack
      BY <2>2 DEF ResponseAcks, AckerAcks, wireVars
    <3>2. Tentative' = Tentative
      BY <3>1 DEF Tentative
    <3>3. /\ itemsWritten' = itemsWritten
          /\ \/ UNCHANGED <<awaitingAck, length>>
             \/ awaitingAck' = awaitingAck - 1 /\ length' = length - 1
      BY <3>1 DEF Ack, chVars
    <3>4. ii = i /\ tt = t /\ ((aa = a /\ ll = l) \/ (aa = a - 1 /\ ll = l - 1))
      BY <1>4, <1>5, <3>2, <3>3
    <3>5. Handed' = Handed
      BY <1>6, <3>4
    <3> QED
      BY <1>2, <3>1, <3>5
  <2>3. CASE ResponsesRewind
    BY <1>2, <2>3 DEF ResponsesRewind, AckerRewinds
  <2> QED
    BY <1>10, <2>1, <2>2, <2>3 DEF ResponsesStep
<1>11. CASE CloseStep
  <2>1. UNCHANGED <<awaitingAck, rpc, itemsWritten, length, rewinds>>
    BY <1>11 DEF CloseStep, WaitUntilSent, FlusherCalls, FlushWaits, FlusherWaits, ParkWriter,
       CloseWithContext, ClosesForWriting, ClosesWriting, CloseWriting, CloseReturns,
       CancelsContext, ClosesChannel, Closes, Close, CloserDisconnects, vars, chVars
  <2>2. c2s' = c2s
    BY <1>11 DEF CloseStep, WaitUntilSent, FlushWaits, CloseWithContext, ClosesForWriting,
       CloseReturns, CancelsContext, ClosesChannel, CloserDisconnects, disconnect, ClientHangsUp,
       wireVars
  <2> QED
    BY <1>7, <2>1, <2>2
<1> QED
  BY <1>2, <1>8, <1>9, <1>10, <1>11 DEF ClientNext

(* No step makes a copy that is not paid for.                              *)
LEMMA FewCopiesStep ==
    ASSUME LinkInv, CInv', FewCopies, [SystemNext]_systemVars
    PROVE  FewCopies'
<1> SUFFICES ASSUME NEW e \in Nat \ {0}
             PROVE  /\ IsFiniteSet(Places(c2s', e))
                    /\ Total(e)' <= rewinds' + (IF e <= Handed' THEN 1 ELSE 0)
  BY DEF FewCopies
<1>1. /\ CInv /\ RingHoldsLatest /\ WireTypeOK /\ ServerTypeOK /\ rewinds \in Nat
  BY DEF LinkInv, SystemInv, SystemTypeOK, TypeOK
<1>2. IsFiniteSet(Places(c2s, e)) /\ Total(e) <= rewinds + (IF e <= Handed THEN 1 ELSE 0)
  BY DEF FewCopies
<1>3. Total(e) \in Nat
  <2>1. PICK h \in Seq(Nat) : h = handled
    BY <1>1 DEF ServerTypeOK
  <2>2. PICK f : f = c2s
    OBVIOUS
  <2>3. Occurrences(h, e) \in Nat /\ Cardinality(Places(f, e)) \in Nat
    BY <1>2, <2>2, OccurrencesType, FS_CardinalityType
  <2> QED
    BY <2>1, <2>2, <2>3 DEF Total, CopiesOf
<1>4. CASE UNCHANGED <<c2s, handled, rewinds, Handed>>
  BY <1>2, <1>4 DEF Total
<1>5. CASE ClientMoves
  <2>1. handled' = handled /\ ClientNext
    BY <1>5 DEF ClientMoves, serverVars
  <2>2. Handed \in Int /\ Handed' \in Int
    BY <1>1, <2>1, HandedStep
  <2>3. CASE processEntry /\ Entry = Handed + 1 /\ Handed' = Handed + 1 /\ rewinds' = rewinds
    <3>1. PICK m \in Nat : m = Entry
      BY <1>1, <2>3, EntryType DEF processEntry, ReadDone
    <3>2. PICK k \in Conns : k = sconn
      BY <1>1, <2>3, WireAssumption DEF processEntry, ClientWrites, WireTypeOK, Conns
    <3>3. ClientWrites(k, m)
      BY <2>3, <3>1, <3>2 DEF processEntry
    <3>4. /\ IsFiniteSet(Places(c2s', e)) /\ Total(e)' \in Nat
          /\ Total(e)' <= Total(e) + (IF m = e THEN 1 ELSE 0)
      BY <1>1, <1>2, <2>1, <3>3, ClientCopies
    <3>5. PICK n \in Int : n = Handed
      BY <2>2
    <3>6. m = n + 1 /\ Handed' = n + 1
      BY <2>3, <3>1, <3>5
    <3>7. CASE e = m
      BY <1>1, <1>2, <1>3, <2>3, <3>4, <3>5, <3>6, <3>7
    <3>8. CASE e # m
      BY <1>1, <1>2, <1>3, <2>3, <3>4, <3>5, <3>6, <3>8
    <3> QED
      BY <3>7, <3>8
  <2>4. CASE ResponsesRewind /\ rewinds' = rewinds + 1
    <3>1. Total(e)' = Total(e) /\ IsFiniteSet(Places(c2s', e))
      BY <1>2, <2>1, <2>4 DEF ResponsesRewind, wireVars, Total
    <3> QED
      BY <1>1, <1>2, <1>3, <2>4, <3>1
  <2>5. CASE c2s' = c2s /\ Handed <= Handed' /\ rewinds' = rewinds
    <3>1. Total(e)' = Total(e) /\ IsFiniteSet(Places(c2s', e))
      BY <1>2, <2>1, <2>5 DEF Total
    <3> QED
      BY <1>1, <1>2, <1>3, <2>2, <2>5, <3>1
  <2> QED
    BY <1>1, <2>1, <2>3, <2>4, <2>5, HandedStep
<1>6. ASSUME NEW k \in Conns, UNCHANGED clientVars,
             ServerStep(k) \/ (Cut(k) /\ handled' = handled)
      PROVE  /\ IsFiniteSet(Places(c2s', e))
             /\ Total(e)' <= rewinds' + (IF e <= Handed' THEN 1 ELSE 0)
  <2>1. rewinds' = rewinds /\ Handed' = Handed
    BY <1>6 DEF clientVars, vars, chVars, Handed, Gone, Tentative
  <2>2. IsFiniteSet(Places(c2s', e)) /\ Total(e)' \in Nat /\ Total(e)' <= Total(e)
    BY <1>1, <1>2, <1>6, ServerCopies
  <2> QED
    BY <1>1, <1>2, <1>3, <2>1, <2>2
<1>7. CASE UNCHANGED systemVars
  BY <1>4, <1>7 DEF systemVars, clientVars, wireVars, serverVars, vars, chVars, Handed, Gone,
     Tentative
<1> QED
  BY <1>5, <1>6, <1>7 DEF SystemNext, ServerMoves, NetworkMoves, serverVars

(* The server gets an entry once more than it should only after a Rewind,  *)
(* however often connections are cut, dialled and given up.                *)
THEOREM DuplicatesNeedRewindHolds == SystemSpec => []DuplicatesNeedRewind
<1>1. SystemInit => FewCopies
  <2> SUFFICES ASSUME SystemInit, NEW e \in Nat \ {0}
               PROVE  /\ IsFiniteSet(Places(c2s, e))
                      /\ Total(e) <= rewinds + (IF e <= Handed THEN 1 ELSE 0)
    BY DEF FewCopies
  <2>1. Places(c2s, e) = {} /\ handled = <<>> /\ rewinds = 0
    BY DEF SystemInit, NewTlsClient, Init, WireInit, ServerInit, Places
  <2>2. IsFiniteSet(Places(c2s, e)) /\ Cardinality(Places(c2s, e)) = 0
    BY <2>1, FS_EmptySet
  <2>3. Total(e) = 0
    BY <2>1, <2>2, OccurrencesEmpty DEF Total, CopiesOf
  <2> QED
    BY <2>1, <2>2, <2>3
<1>2. LinkInv /\ LinkInv' /\ FewCopies /\ [SystemNext]_systemVars => FewCopies'
  <2>1. LinkInv' => CInv'
    BY DEF LinkInv, SystemInv
  <2> QED
    BY <2>1, FewCopiesStep
<1>3. LinkInv /\ FewCopies => DuplicatesNeedRewind
  <2> SUFFICES ASSUME LinkInv, FewCopies, NEW e \in 1..itemsWritten
               PROVE  Copies(e) <= 1 + rewinds
    BY DEF DuplicatesNeedRewind
  <2>1. e \in Nat \ {0} /\ rewinds \in Nat /\ handled \in Seq(Nat)
    BY DEF LinkInv, SystemTypeOK, TypeOK, ChannelTypeOK, ServerTypeOK
  <2>2. IsFiniteSet(Places(c2s, e)) /\ Total(e) <= rewinds + (IF e <= Handed THEN 1 ELSE 0)
    BY <2>1 DEF FewCopies
  <2>3. PICK h \in Seq(Nat) : h = handled
    BY <2>1
  <2>4. PICK f : f = c2s
    OBVIOUS
  <2>5. Occurrences(h, e) \in Nat /\ Cardinality(Places(f, e)) \in Nat
    BY <2>2, <2>4, OccurrencesType, FS_CardinalityType
  <2>6. Copies(e) = Occurrences(h, e) /\ Total(e) = Occurrences(h, e) + Cardinality(Places(f, e))
    BY <2>3, <2>4 DEF Copies, Occurrences, Total, CopiesOf
  <2> QED
    BY <2>1, <2>2, <2>5, <2>6
<1> QED
  BY <1>1, <1>2, <1>3, LinkInvInit, LinkInvStep, PTL DEF SystemSpec

----------------------------------------------------------------------------
(* A network that works: dials may fail, nothing else does, and no write   *)
(* pushes an entry out.                                                    *)
CalmNetwork == Faults \subseteq {"dial"} /\ "WriteOrReplace" \notin Methods

(* One connection is all there ever is; only Close gives it up, ...        *)
CalmLink ==
    /\ opened <= 1 /\ cut = {}
    /\ opened = 1 => ctxDone \/ conn = 1 \/ dconn = 1
    /\ ~ctxDone => /\ clientOpen = 1..opened
                   /\ epc # "disconnect" /\ lpc \notin {"disconnect", "rewind"}
                   /\ \A c \in Closers : cpc[c] = "idle"
    /\ epc = "write" /\ ~crashed => sconn \in 1..opened
    /\ lpc \in {"disconnect", "rewind"} => clientOpen = {}

(* ... the server does not give it up before the client does, ...          *)
CalmHandlers ==
    /\ \A k \in Conns : hpc[k] # "accept" => k <= opened
    /\ \A k \in clientOpen : k \in serverOpen /\ hpc[k] \in {"accept", "listen", "OK"}

(* ... what the server handled and will read is what was handed out, in    *)
(* that order, ...                                                         *)
CalmStream ==
    /\ InOrder
    /\ 1 \in Conns =>
          /\ \A i \in DOMAIN c2s[1] : c2s[1][i] = Len(handled) + i
          /\ opened = 0 \/ 1 \in clientOpen => Len(handled) + Len(c2s[1]) = Handed

(* ... and every acknowledgement, made or under way, is of an entry the    *)
(* server has handled.                                                     *)
Reading  == IF lpc = "ack" THEN 1 ELSE 0
Answered == IF 1 \in Conns THEN Len(s2c[1]) ELSE 0
Owing    == IF 1 \in Conns /\ hpc[1] = "OK" THEN 1 ELSE 0

CalmAcks ==
    /\ removed \subseteq 1..Gone
    /\ Gone + Reading + Answered + Owing <= Len(handled)

(* On a network that works a handler only shakes hands, handles entries    *)
(* and answers them, as long as its client is there.                       *)
LEMMA CalmHandler ==
    ASSUME CalmNetwork, SystemTypeOK, CalmLink, CalmHandlers, CalmStream,
           NEW k \in Conns, ServerStep(k)
    PROVE  /\ k = 1 /\ opened = 1 /\ UNCHANGED <<opened, clientOpen, cut>>
           /\ \/ /\ Goes(k, "accept", "listen")
                 /\ UNCHANGED <<serverOpen, c2s, s2c, handled>>
              \/ /\ Goes(k, "listen", "OK") /\ c2s[k] # <<>>
                 /\ c2s' = [c2s EXCEPT ![k] = Tail(@)]
                 /\ handled' = Append(handled, Head(c2s[k]))
                 /\ UNCHANGED <<serverOpen, s2c>>
              \/ /\ Goes(k, "OK", "listen")
                 /\ s2c' = s2c \/ s2c' = [s2c EXCEPT ![k] = Append(@, "OK")]
                 /\ UNCHANGED <<serverOpen, c2s, handled>>
              \/ /\ k \notin clientOpen
                 /\ \E to \in {"NOK", "release", "done"} : hpc' = [hpc EXCEPT ![k] = to]
                 /\ c2s' = c2s \/ c2s' = [c2s EXCEPT ![k] = <<>>]
                 /\ UNCHANGED <<s2c, handled>>
<1> USE WireAssumption
<1>1. /\ opened \in Nat /\ opened <= 1 /\ cut = {}
      /\ hpc \in [Conns -> {"accept", "listen", "pong", "OK", "NOK", "release", "done"}]
      /\ c2s \in [Conns -> Seq(Nat)] /\ handled \in Seq(Nat)
  BY DEF SystemTypeOK, WireTypeOK, ServerTypeOK, CalmLink
<1>2. UNCHANGED <<opened, clientOpen, cut>>
  BY DEF ServerStep, HandlerStep, Handshake, HandshakeFails, handleEntry,
       ReadsPing, SendsPong, ReadsEnd, IdleTimeout, AcksOK, AcksNOK, sendAck, releaseConn,
       ServerReads, ServerWrites, ServerHangsUp, wireVars
<1>3. k <= opened
  <2>1. k \in 1..opened \/ hpc[k] # "accept"
    BY <1>1 DEF ServerStep, HandlerStep, Handshake, HandshakeFails, handleEntry,
       ReadsPing, SendsPong, ReadsEnd, IdleTimeout, AcksOK, AcksNOK, releaseConn, Goes
  <2> QED
    BY <1>1, <2>1 DEF CalmHandlers
<1>4. k = 1 /\ opened = 1
  BY <1>1, <1>3 DEF Conns
<1>5. \A f \in {"cut", "refuse", "reject", "idle", "timeout", "protocol"} : f \notin Faults
  BY DEF CalmNetwork
<1>6. c2s[k] # <<>> => Head(c2s[k]) # Ping
  <2>1. PICK s \in Seq(Nat) : s = c2s[k]
    BY <1>1
  <2>2. s # <<>> => 1 \in DOMAIN s /\ Head(s) = s[1]
    BY EmptySeq, LenProperties
  <2>3. Len(handled) \in Nat
    BY <1>1, LenProperties
  <2>4. 1 \in DOMAIN s => s[1] = Len(handled) + 1
    BY <1>4, <2>1 DEF CalmStream
  <2> QED
    BY <2>1, <2>2, <2>3, <2>4 DEF Ping
<1>7. k \in clientOpen => hpc[k] \in {"accept", "listen", "OK"}
  BY DEF CalmHandlers
<1>8. CASE Handshake(k, TRUE)
  BY <1>2, <1>4, <1>8 DEF Handshake, wireVars
<1>9. CASE HandshakeMayFail(k) /\ HandshakeFails(k)
  <2>1. k \notin clientOpen
    BY <1>1, <1>5, <1>9 DEF HandshakeMayFail, ServerReadFails
  <2> QED
    BY <1>2, <1>4, <1>9, <2>1 DEF HandshakeFails, ServerHangsUp, Goes
<1>10. CASE handleEntry(k)
  BY <1>2, <1>4, <1>5, <1>10 DEF handleEntry, ServerReads
<1>11. CASE ReadsPing(k) \/ IdleTimeout(k)
  BY <1>5, <1>6, <1>11 DEF ReadsPing, IdleTimeout
<1>12. CASE SendsPong(k)
  <2>1. k \notin clientOpen
    BY <1>7, <1>12 DEF SendsPong, Goes
  <2> QED
    BY <1>2, <1>4, <1>12, <2>1 DEF SendsPong, Goes, ServerWrites
<1>13. CASE ReadsEnd(k)
  <2>1. k \notin clientOpen
    BY <1>1, <1>13 DEF ReadsEnd, ServerReadFails
  <2> QED
    BY <1>2, <1>4, <1>13, <2>1 DEF ReadsEnd, Goes, wireVars
<1>14. CASE AcksOK(k)
  BY <1>2, <1>4, <1>14 DEF AcksOK, sendAck, ServerWrites, wireVars
<1>15. CASE AcksNOK(k)
  <2>1. k \notin clientOpen
    BY <1>7, <1>15 DEF AcksNOK, Goes
  <2> QED
    BY <1>2, <1>4, <1>15, <2>1 DEF AcksNOK, Goes, sendAck, ServerWrites, wireVars
<1>16. CASE releaseConn(k)
  <2>1. k \notin clientOpen
    BY <1>7, <1>16 DEF releaseConn, Goes
  <2> QED
    BY <1>2, <1>4, <1>16, <2>1 DEF releaseConn, Goes, ServerHangsUp
<1> QED
  BY <1>8, <1>9, <1>10, <1>11, <1>12, <1>13, <1>14, <1>15, <1>16 DEF ServerStep, HandlerStep

(* disconnect leaves no connection, and is called only once the context is *)
(* cancelled.                                                              *)
LEMMA CalmDisconnect ==
    ASSUME SystemTypeOK, Link, CalmLink, disconnect, ctxDone, ctxDone' = ctxDone,
           UNCHANGED <<sconn, crashed>>,
           epc' = epc \/ (epc = "disconnect" /\ epc' = "loop"),
           lpc' = lpc \/ (lpc = "disconnect" /\ lpc' = "rewind")
    PROVE  CalmLink'
<1>1. /\ UNCHANGED <<opened, cut>> /\ clientOpen' \subseteq clientOpen
  BY DEF disconnect, ClientHangsUp, wireVars
<1> QED
  BY <1>1 DEF CalmLink

(* processEntries dials once, and nothing it sends fails before Close.     *)
LEMMA CalmEntriesLink ==
    ASSUME CalmNetwork, SystemTypeOK, Link, CalmLink, CalmHandlers, ~crashed, EntriesStep
    PROVE  CalmLink'
<1> USE WireAssumption DEF NoConn
<1>1. /\ opened \in Nat /\ opened <= 1 /\ cut = {} /\ clientOpen \subseteq 1..opened
      /\ conn \in 0..opened /\ dconn \in 0..opened /\ sconn \in 0..opened
  BY DEF SystemTypeOK, WireTypeOK, CalmLink, Link, KnownConns
<1>2. CASE EntriesWait \/ ensureConnection \/ DialFails
  <2>1. /\ UNCHANGED <<opened, cut, clientOpen, conn, dconn, sconn, lpc, cpc, ctxDone, crashed>>
        /\ epc' \notin {"write", "disconnect"}
    BY <1>2 DEF EntriesWait, ensureConnection, DialFails, wireVars
  <2> QED
    BY <2>1 DEF CalmLink
<1>3. CASE processEntry
  <2>1. /\ UNCHANGED <<opened, cut, clientOpen, conn, dconn, sconn, lpc, cpc, ctxDone, crashed>>
        /\ epc' = "loop"
    BY <1>3 DEF processEntry, ClientWrites
  <2> QED
    BY <2>1 DEF CalmLink
<1>4. CASE Dials
  <2>1. /\ UNCHANGED <<cut, conn, sconn, lpc, cpc, ctxDone, crashed>> /\ ~ctxDone
        /\ opened' = opened + 1 /\ dconn' = opened + 1 /\ clientOpen' = clientOpen \cup {opened + 1}
        /\ epc' = "store" /\ conn = 0 /\ dconn = 0
    BY <1>4 DEF Dials, Open, NewConn, Link, Dialling
  <2>2. opened = 0
    BY <1>1, <2>1 DEF CalmLink
  <2>3. opened' = 1 /\ dconn' = 1 /\ clientOpen' = {1}
    <3>1. clientOpen = {}
      BY <1>1, <2>2
    <3> QED
      BY <2>1, <2>2, <3>1
  <2>4. clientOpen' = 1..opened'
    BY <2>3
  <2> QED
    BY <2>1, <2>3, <2>4 DEF CalmLink
<1>5. CASE WrongProtocol
  BY <1>5 DEF WrongProtocol, CalmNetwork
<1>6. CASE StoresConn
  <2>1. /\ UNCHANGED <<opened, cut, clientOpen, sconn, lpc, cpc, ctxDone, crashed>>
        /\ conn' = dconn /\ epc' = "read" /\ conn = 0
    BY <1>6 DEF StoresConn, wireVars, Link, Dialling
  <2> QED
    BY <2>1 DEF CalmLink
<1>7. CASE EntryBegins
  <2>1. /\ UNCHANGED <<opened, cut, clientOpen, conn, dconn, lpc, cpc, ctxDone>>
        /\ \/ epc' = "loop" /\ UNCHANGED <<sconn, crashed>>
           \/ epc' = "write" /\ sconn' = conn /\ crashed' = (conn = NoConn)
    BY <1>7 DEF EntryBegins, wireVars
  <2>2. epc' = "write" /\ ~crashed' => conn # NoConn /\ sconn' = conn
    BY <2>1, Zenon
  <2>3. epc' = "write" /\ ~crashed' => sconn' \in 1..opened
    BY <1>1, <2>2
  <2> QED
    BY <2>1, <2>3 DEF CalmLink
<1>8. CASE EntryFails
  <2>1. /\ UNCHANGED <<opened, cut, clientOpen, conn, dconn, sconn, lpc, cpc, ctxDone, crashed>>
        /\ epc = "write" /\ epc' = "disconnect" /\ ClientWriteMayFail(sconn)
    BY <1>8 DEF EntryFails, wireVars
  <2>2. ctxDone
    <3>1. SUFFICES ASSUME ~ctxDone PROVE FALSE
      OBVIOUS
    <3>2. sconn \in clientOpen
      BY <2>1, <3>1 DEF CalmLink
    <3> QED
      BY <1>1, <2>1, <3>2 DEF ClientWriteMayFail, CalmHandlers
  <2> QED
    BY <2>1, <2>2 DEF CalmLink
<1>9. CASE EntriesDisconnect
  BY <1>9, CalmDisconnect DEF EntriesDisconnect, CalmLink
<1> QED
  BY <1>2, <1>3, <1>4, <1>5, <1>6, <1>7, <1>8, <1>9 DEF EntriesStep

(* processResponses sees an error only when Close has disconnected.        *)
LEMMA CalmResponsesLink ==
    ASSUME CalmNetwork, SystemTypeOK, Link, CalmLink, CalmHandlers, ResponsesStep
    PROVE  CalmLink'
<1> USE WireAssumption DEF NoConn
<1>1. /\ opened \in Nat /\ opened <= 1 /\ cut = {} /\ clientOpen \subseteq 1..opened
      /\ lconn \in 0..opened /\ rewinds \in Nat
  BY DEF SystemTypeOK, WireTypeOK, TypeOK, CalmLink, Link, KnownConns
<1>2. CASE ResponsesWait \/ LoadsConn \/ ReadsResponse \/ ResponseAcks
  <2>1. /\ UNCHANGED <<opened, cut, clientOpen, conn, dconn, sconn, epc, cpc, ctxDone, crashed>>
        /\ lpc' \notin {"disconnect", "rewind"}
    BY <1>2 DEF ResponsesWait, LoadsConn, ReadsResponse, ClientReads, ResponseAcks, wireVars
  <2> QED
    BY <2>1 DEF CalmLink
<1>3. CASE ResponseFails
  <2>1. /\ UNCHANGED <<opened, cut, clientOpen, conn, dconn, sconn, epc, cpc, ctxDone, crashed>>
        /\ lpc = "read" /\ lpc' = "disconnect" /\ ClientReadFails(lconn)
    BY <1>3 DEF ResponseFails, wireVars, CalmNetwork
  <2>2. lconn = 1 /\ opened = 1
    BY <1>1, <2>1 DEF Link, Newer
  <2>3. lconn \notin clientOpen
    BY <1>1, <2>1 DEF ClientReadFails, CalmHandlers
  <2>4. clientOpen = {}
    BY <1>1, <2>2, <2>3
  <2>5. ctxDone
    BY <2>2, <2>4 DEF CalmLink
  <2> QED
    BY <2>1, <2>4, <2>5 DEF CalmLink
<1>4. CASE ResponsesDisconnect
  BY <1>4, CalmDisconnect DEF ResponsesDisconnect, CalmLink
<1>5. CASE ResponsesRewind
  <2>1. /\ UNCHANGED <<opened, cut, clientOpen, conn, dconn, sconn, epc, cpc, ctxDone, crashed>>
        /\ lpc' = "loop"
    BY <1>5 DEF ResponsesRewind, wireVars
  <2> QED
    BY <2>1 DEF CalmLink
<1> QED
  BY <1>2, <1>3, <1>4, <1>5 DEF ResponsesStep

(* Close may come at any time, from the user or from CloseWithContext.     *)
LEMMA CalmLinkStep ==
    ASSUME CalmNetwork, SystemTypeOK, Link, CalmLink, CalmHandlers, CalmStream,
           [SystemNext]_systemVars
    PROVE  CalmLink'
<1>1. CASE UNCHANGED <<opened, cut, clientOpen, conn, dconn, sconn, epc, lpc, cpc, ctxDone,
                       crashed>>
  BY <1>1 DEF CalmLink
<1>2. CASE ClientMoves
  <2>1. CASE \E w \in Writers : ProcessEntry(w)
    BY <1>1, <2>1 DEF ProcessEntry, connVars, wireVars
  <2>2. CASE CloseStep
    <3>1. CASE WaitUntilSent \/ FlushWaits \/ CloseWithContext \/ ClosesForWriting \/ CloseReturns
      BY <1>1, <3>1 DEF WaitUntilSent, FlushWaits, CloseWithContext, ClosesForWriting, CloseReturns,
         connVars, wireVars
    <3>2. ASSUME NEW c \in Closers, CancelsContext(c) PROVE CalmLink'
      BY <3>2 DEF CancelsContext, wireVars, CalmLink
    <3>3. ASSUME NEW c \in Closers, ClosesChannel(c) PROVE CalmLink'
      <4>1. ctxDone
        BY <3>3 DEF ClosesChannel, CalmLink
      <4> QED
        BY <3>3, <4>1 DEF ClosesChannel, wireVars, CalmLink
    <3>4. ASSUME NEW c \in Closers, CloserDisconnects(c) PROVE CalmLink'
      <4>1. ctxDone
        BY <3>4 DEF CloserDisconnects, CalmLink
      <4> QED
        BY <3>4, <4>1, CalmDisconnect DEF CloserDisconnects
    <3> QED
      BY <2>2, <3>1, <3>2, <3>3, <3>4 DEF CloseStep
  <2> QED
    BY <1>2, <2>1, <2>2, CalmEntriesLink, CalmResponsesLink DEF ClientMoves, ClientNext
<1>3. CASE ServerMoves
  <2>1. UNCHANGED <<opened, clientOpen, cut>>
    BY <1>3, CalmHandler DEF ServerMoves
  <2> QED
    BY <1>1, <1>3, <2>1 DEF ServerMoves, clientVars, connVars
<1>4. CASE NetworkMoves
  BY <1>4 DEF NetworkMoves, Cut, CalmNetwork
<1>5. CASE UNCHANGED systemVars
  BY <1>1, <1>5 DEF systemVars, clientVars, connVars, wireVars
<1> QED
  BY <1>2, <1>3, <1>4, <1>5 DEF SystemNext

(* The client opens connections by dialling, and otherwise only closes.    *)
LEMMA ClientConns ==
    ASSUME ClientNext, ~Dials
    PROVE  UNCHANGED <<opened, serverOpen>> /\ clientOpen' \subseteq clientOpen
<1>1. CASE \E w \in Writers : ProcessEntry(w)
  BY <1>1 DEF ProcessEntry, wireVars
<1>2. CASE EntriesStep
  BY <1>2 DEF EntriesStep, EntriesWait, ensureConnection, DialFails, WrongProtocol, StoresConn,
     EntryBegins, processEntry, ClientWrites, EntryFails, EntriesDisconnect, disconnect,
     ClientHangsUp, wireVars
<1>3. CASE ResponsesStep
  BY <1>3 DEF ResponsesStep, ResponsesWait, LoadsConn, ReadsResponse, ClientReads, ResponseAcks,
     ResponseFails, ResponsesDisconnect, ResponsesRewind, disconnect, ClientHangsUp, wireVars
<1>4. CASE CloseStep
  BY <1>4 DEF CloseStep, WaitUntilSent, FlushWaits, CloseWithContext, ClosesForWriting,
     CloseReturns, CancelsContext, ClosesChannel, CloserDisconnects, disconnect, ClientHangsUp,
     wireVars
<1> QED
  BY <1>1, <1>2, <1>3, <1>4 DEF ClientNext

(* The server keeps the connection as long as the client does.             *)
LEMMA CalmHandlersStep ==
    ASSUME CalmNetwork, SystemTypeOK, Link, CalmLink, CalmHandlers, CalmStream,
           [SystemNext]_systemVars
    PROVE  CalmHandlers'
<1> USE WireAssumption
<1>1. /\ opened \in Nat /\ opened <= MaxConns /\ clientOpen \subseteq 1..opened
      /\ hpc \in [Conns -> {"accept", "listen", "pong", "OK", "NOK", "release", "done"}]
  BY DEF SystemTypeOK, WireTypeOK, ServerTypeOK
<1>2. CASE UNCHANGED <<hpc, opened, serverOpen>> /\ clientOpen' \subseteq clientOpen
  BY <1>2 DEF CalmHandlers
<1>3. CASE ClientMoves
  <2>1. hpc' = hpc
    BY <1>3 DEF ClientMoves, serverVars
  <2>2. CASE Dials
    <3>1. opened' = opened + 1 /\ clientOpen' = clientOpen \cup {opened + 1}
          /\ serverOpen' = serverOpen \cup {opened + 1} /\ opened < MaxConns
      BY <2>2 DEF Dials, Open, NewConn
    <3>2. opened + 1 \in Conns /\ hpc[opened + 1] = "accept"
      BY <1>1, <3>1 DEF CalmHandlers, Conns
    <3> QED
      BY <1>1, <2>1, <3>1, <3>2 DEF CalmHandlers, Conns
  <2>3. ~Dials => UNCHANGED <<opened, serverOpen>> /\ clientOpen' \subseteq clientOpen
    BY <1>3, ClientConns DEF ClientMoves
  <2> QED
    BY <1>2, <2>1, <2>2, <2>3
<1>4. ASSUME NEW k \in Conns, ServerStep(k) PROVE CalmHandlers'
  <2>1. k = 1 /\ opened = 1 /\ UNCHANGED <<opened, clientOpen>>
    BY <1>4, CalmHandler
  <2>2. \A j \in clientOpen : j = k
    BY <1>1, <2>1
  <2>3. \/ /\ \E to \in {"listen", "OK"} : hpc' = [hpc EXCEPT ![k] = to]
           /\ UNCHANGED serverOpen
        \/ /\ k \notin clientOpen
           /\ \E to \in {"NOK", "release", "done"} : hpc' = [hpc EXCEPT ![k] = to]
    BY <1>4, CalmHandler DEF Goes
  <2>4. \A j \in Conns : hpc'[j] # "accept" => j <= opened'
    BY <1>1, <2>1, <2>3 DEF CalmHandlers, Conns
  <2>5. \A j \in clientOpen' : j \in serverOpen' /\ hpc'[j] \in {"accept", "listen", "OK"}
    BY <1>1, <2>1, <2>2, <2>3 DEF CalmHandlers
  <2> QED
    BY <2>4, <2>5 DEF CalmHandlers
<1>5. CASE NetworkMoves
  BY <1>5 DEF NetworkMoves, Cut, CalmNetwork
<1>6. CASE UNCHANGED systemVars
  BY <1>2, <1>6 DEF systemVars, wireVars, serverVars
<1> QED
  BY <1>3, <1>4, <1>5, <1>6 DEF SystemNext, ServerMoves

(* What is handed out goes to the end of the stream, and the server takes  *)
(* entries off its front.                                                  *)
LEMMA CalmStreamStep ==
    ASSUME CalmNetwork, LinkInv, CInv', CalmLink, CalmLink', CalmHandlers, CalmStream,
           [SystemNext]_systemVars
    PROVE  CalmStream'
<1> USE WireAssumption
<1>1. /\ CInv /\ RingHoldsLatest /\ SystemTypeOK /\ Link
      /\ opened \in Nat /\ opened <= MaxConns /\ opened <= 1 /\ clientOpen \subseteq 1..opened
      /\ c2s \in [Conns -> Seq(Nat)] /\ handled \in Seq(Nat)
  BY DEF LinkInv, SystemInv, SystemTypeOK, WireTypeOK, ServerTypeOK, CalmLink
<1>2. PICK h \in Seq(Nat) : h = handled
  BY <1>1
<1>3. Len(h) \in Nat /\ DOMAIN h = 1..Len(h) /\ \A i \in 1..Len(h) : h[i] = i
  BY <1>2, LenProperties DEF CalmStream, InOrder
<1>4. ASSUME handled' = handled, c2s' = c2s,
             opened' = 0 \/ 1 \in clientOpen' =>
                 (opened = 0 \/ 1 \in clientOpen) /\ Handed' = Handed
      PROVE  CalmStream'
  BY <1>4 DEF CalmStream, InOrder
<1>5. CASE ClientMoves
  <2>1. handled' = handled /\ ClientNext
    BY <1>5 DEF ClientMoves, serverVars
  <2>2. CASE processEntry /\ Entry = Handed + 1 /\ Handed' = Handed + 1 /\ rewinds' = rewinds
    <3>1. /\ UNCHANGED <<opened, clientOpen>> /\ sconn \in clientOpen
          /\ c2s' = IF sconn \in serverOpen \ cut THEN [c2s EXCEPT ![sconn] = Append(@, Entry)]
                                                  ELSE c2s
      BY <2>2 DEF processEntry, ClientWrites
    <3>2. sconn = 1 /\ 1 \in Conns /\ 1 \in clientOpen /\ 1 \in serverOpen \ cut
      BY <1>1, <3>1 DEF Conns, CalmHandlers, CalmLink
    <3>3. PICK s \in Seq(Nat), m \in Nat : s = c2s[1] /\ m = Entry
      BY <1>1, <2>2, <3>2, EntryType DEF processEntry, ReadDone
    <3>4. c2s'[1] = Append(s, m)
      BY <1>1, <3>1, <3>2, <3>3
    <3>5. /\ Len(s) \in Nat /\ DOMAIN s = 1..Len(s)
          /\ \A i \in 1..Len(s) : s[i] = Len(h) + i
          /\ Len(h) + Len(s) = Handed
      BY <1>2, <3>2, <3>3, LenProperties DEF CalmStream
    <3>6. m = Len(h) + Len(s) + 1 /\ Handed' = Len(h) + Len(s) + 1
      BY <2>2, <3>3, <3>5
    <3>7. /\ DOMAIN Append(s, m) = 1..(Len(s) + 1) /\ Len(Append(s, m)) = Len(s) + 1
          /\ \A i \in 1..Len(s) : Append(s, m)[i] = s[i]
          /\ Append(s, m)[Len(s) + 1] = m
      BY AppendProperties, LenProperties
    <3>8. \A i \in 1..(Len(s) + 1) : Append(s, m)[i] = Len(h) + i
      <4> SUFFICES ASSUME NEW i \in 1..(Len(s) + 1) PROVE Append(s, m)[i] = Len(h) + i
        OBVIOUS
      <4>1. CASE i = Len(s) + 1
        <5>1. Append(s, m)[i] = m
          BY <3>7, <4>1
        <5>2. m = Len(h) + i
          BY <1>3, <3>5, <3>6, <4>1
        <5> QED
          BY <5>1, <5>2
      <4>2. CASE i \in 1..Len(s)
        BY <3>5, <3>7, <4>2
      <4>3. i = Len(s) + 1 \/ i \in 1..Len(s)
        BY <3>5
      <4> QED
        BY <4>1, <4>2, <4>3
    <3>9. Len(h) + Len(Append(s, m)) = Handed'
      BY <1>3, <3>5, <3>6, <3>7
    <3>10. InOrder'
      BY <2>1 DEF CalmStream, InOrder
    <3> QED
      BY <1>2, <2>1, <3>4, <3>7, <3>8, <3>9, <3>10 DEF CalmStream
  <2>3. CASE ResponsesRewind /\ rewinds' = rewinds + 1
    <3>1. lpc = "rewind" /\ UNCHANGED <<opened, clientOpen, c2s>>
      BY <2>3 DEF ResponsesRewind, wireVars
    <3>2. clientOpen = {}
      BY <3>1 DEF CalmLink
    <3>3. opened # 0
      <4>1. rewinds < lconn /\ lconn <= opened /\ rewinds \in Nat /\ lconn \in Int
        BY <1>1, <3>1 DEF Link, Newer, KnownConns, SystemTypeOK, TypeOK
      <4> QED
        BY <1>1, <4>1
    <3> QED
      BY <1>4, <2>1, <3>1, <3>2, <3>3
  <2>4. CASE c2s' = c2s /\ Handed' = Handed
    <3>1. Dials => opened = 0
      BY <1>1 DEF Dials, Open, NewConn, CalmLink
    <3>2. opened' = 0 \/ 1 \in clientOpen' => opened = 0 \/ 1 \in clientOpen
      BY <2>1, <3>1, ClientConns
    <3> QED
      BY <1>4, <2>1, <2>4, <3>2
  <2> QED
    BY <1>1, <2>1, <2>2, <2>3, <2>4, HandedStep DEF CalmNetwork
<1>6. ASSUME NEW k \in Conns, ServerStep(k), UNCHANGED clientVars PROVE CalmStream'
  <2>1. Handed' = Handed
    BY <1>6 DEF clientVars, vars, chVars, Handed, Gone, Tentative
  <2>2. k = 1 /\ opened = 1 /\ UNCHANGED <<opened, clientOpen>>
    BY <1>1, <1>6, CalmHandler
  <2>3. CASE c2s' = c2s /\ handled' = handled
    BY <1>4, <2>1, <2>2, <2>3
  <2>4. CASE /\ c2s[k] # <<>> /\ c2s' = [c2s EXCEPT ![k] = Tail(@)]
             /\ handled' = Append(handled, Head(c2s[k]))
    <3>1. PICK s \in Seq(Nat) : s = c2s[1] /\ s # <<>>
      BY <1>1, <2>2, <2>4
    <3>2. /\ Len(s) \in Nat /\ DOMAIN s = 1..Len(s) /\ Len(s) # 0
          /\ \A i \in 1..Len(s) : s[i] = Len(h) + i
          /\ 1 \in clientOpen => Len(h) + Len(s) = Handed
      BY <1>2, <2>2, <3>1, LenProperties, EmptySeq DEF CalmStream
    <3>3. /\ Tail(s) \in Seq(Nat) /\ Len(Tail(s)) = Len(s) - 1
          /\ DOMAIN Tail(s) = 1..(Len(s) - 1)
          /\ \A i \in 1..(Len(s) - 1) : Tail(s)[i] = s[i + 1]
      BY <3>1, <3>2, HeadTailProperties, LenProperties
    <3>4. PICK m \in Nat : m = Head(s) /\ m = Len(h) + 1
      BY <1>3, <3>1, <3>2
    <3>5. PICK t \in Seq(Nat) : t = Append(h, m)
      BY AppendProperties
    <3>6. /\ Len(t) = Len(h) + 1 /\ DOMAIN t = 1..(Len(h) + 1)
          /\ \A i \in 1..Len(h) : t[i] = h[i]
          /\ t[Len(h) + 1] = m
      BY <3>5, AppendProperties, LenProperties
    <3>7. handled' = t /\ c2s'[1] = Tail(s)
      <4>1. handled' = t
        BY <1>2, <2>2, <2>4, <3>1, <3>4, <3>5
      <4>2. c2s'[1] = Tail(s)
        BY <1>1, <2>2, <2>4, <3>1
      <4> QED
        BY <4>1, <4>2
    <3>8. \A i \in 1..(Len(h) + 1) : t[i] = i
      <4>1. PICK n \in Nat : n = Len(h)
        BY <1>3
      <4>2. \A i \in 1..(n + 1) : i \in 1..n \/ i = n + 1
        OBVIOUS
      <4>3. \A i \in 1..n : t[i] = i
        BY <1>3, <3>6, <4>1
      <4>4. t[n + 1] = n + 1
        BY <3>4, <3>6, <4>1
      <4> QED
        BY <4>1, <4>2, <4>3, <4>4, Zenon
    <3>9. \A i \in 1..(Len(s) - 1) : Tail(s)[i] = Len(t) + i
      <4> SUFFICES ASSUME NEW i \in 1..(Len(s) - 1) PROVE Tail(s)[i] = Len(t) + i
        OBVIOUS
      <4>1. i \in Int /\ i + 1 \in 1..Len(s)
        BY <3>2
      <4>2. Tail(s)[i] = Len(h) + (i + 1)
        BY <3>2, <3>3, <4>1
      <4> QED
        BY <1>3, <3>6, <4>1, <4>2
    <3>10. 1 \in clientOpen => Len(t) + Len(Tail(s)) = Handed
      BY <1>3, <3>2, <3>3, <3>6
    <3>11. InOrder'
      BY <3>6, <3>7, <3>8 DEF InOrder
    <3> QED
      BY <2>1, <2>2, <3>3, <3>7, <3>9, <3>10, <3>11 DEF CalmStream
  <2>5. CASE k \notin clientOpen /\ c2s' = [c2s EXCEPT ![k] = <<>>] /\ handled' = handled
    <3>1. c2s'[1] = <<>> /\ DOMAIN <<>> = {}
      BY <1>1, <2>2, <2>5
    <3>2. InOrder'
      BY <2>5 DEF CalmStream, InOrder
    <3> QED
      BY <2>2, <2>5, <3>1, <3>2 DEF CalmStream
  <2> QED
    BY <1>1, <1>6, <2>3, <2>4, <2>5, CalmHandler
<1>7. CASE NetworkMoves
  BY <1>7 DEF NetworkMoves, Cut, CalmNetwork
<1>8. CASE UNCHANGED systemVars
  BY <1>4, <1>8 DEF systemVars, clientVars, wireVars, serverVars, vars, chVars, Handed, Gone,
     Tentative
<1> QED
  BY <1>5, <1>6, <1>7, <1>8 DEF SystemNext, ServerMoves

(* An answer is for an entry that was handled before it, and only answers  *)
(* make the client forget entries.                                         *)
LEMMA CalmAcksStep ==
    ASSUME CalmNetwork, LinkInv, CInv', CalmLink, CalmHandlers, CalmStream, CalmAcks,
           [SystemNext]_systemVars
    PROVE  CalmAcks'
<1> USE WireAssumption, CapacityAssumption
<1>1. /\ CInv /\ RingHoldsLatest /\ SystemTypeOK /\ Link
      /\ opened \in Nat /\ opened <= MaxConns /\ opened <= 1 /\ clientOpen \subseteq 1..opened
      /\ s2c \in [Conns -> Seq(Responses)] /\ handled \in Seq(Nat)
      /\ hpc \in [Conns -> {"accept", "listen", "pong", "OK", "NOK", "release", "done"}]
  BY DEF LinkInv, SystemInv, SystemTypeOK, WireTypeOK, ServerTypeOK, CalmLink
<1>2. /\ awaitingAck \in Int /\ length \in Int /\ itemsWritten \in Nat
      /\ length <= itemsWritten /\ Gone \in Nat /\ Reading \in 0..1
  BY <1>1 DEF CInv, TypeOK, ChannelTypeOK, Window, Gone, Reading
<1>3. Len(handled) \in Nat
  BY <1>1, LenProperties
<1>4. Answered \in Nat /\ Owing \in 0..1 /\ Owing' \in 0..1
  <2>1. 1 \in Conns => Len(s2c[1]) \in Nat
    BY <1>1, LenProperties
  <2> QED
    BY <2>1 DEF Answered, Owing
<1>5. ASSUME UNCHANGED <<removed, Gone, handled>>, Reading' \in Nat, Answered' \in Nat,
             Reading' + Answered' + Owing' <= Reading + Answered + Owing
      PROVE  CalmAcks'
  <2>1. Owing \in Nat /\ Owing' \in Nat /\ Reading \in Nat
    BY <1>2, <1>4
  <2>2. PICK g \in Nat, n \in Nat, r \in Nat, a \in Nat, o \in Nat :
            g = Gone /\ n = Len(handled) /\ r = Reading /\ a = Answered /\ o = Owing
    BY <1>2, <1>3, <1>4, <2>1, Zenon
  <2>3. PICK rr \in Nat, aa \in Nat, oo \in Nat :
            rr = Reading' /\ aa = Answered' /\ oo = Owing'
    BY <1>5, <2>1, Zenon
  <2>4. g + r + a + o <= n /\ rr + aa + oo <= r + a + o
    BY <1>5, <2>2, <2>3 DEF CalmAcks
  <2>5. g + rr + aa + oo <= n
    BY <2>4
  <2>6. Gone' = g /\ Len(handled') = n /\ removed' = removed
    BY <1>5, <2>2
  <2> QED
    BY <2>2, <2>3, <2>5, <2>6 DEF CalmAcks
<1>6. ASSUME UNCHANGED <<removed, Gone, handled, s2c, hpc>>, Reading' \in 0..Reading
      PROVE  CalmAcks'
  <2>1. Answered' = Answered /\ Owing' = Owing
    BY <1>6 DEF Answered, Owing
  <2>2. Reading' \in Nat /\ Reading' <= Reading
    BY <1>2, <1>6
  <2>3. Reading \in Nat /\ Owing \in Nat
    BY <1>2, <1>4
  <2>4. PICK x \in Nat, y \in Nat, a \in Nat, o \in Nat :
            x = Reading' /\ y = Reading /\ a = Answered /\ o = Owing
    BY <1>4, <2>2, <2>3, Zenon
  <2>5. x <= y
    BY <2>2, <2>4
  <2>6. x + a + o <= y + a + o
    BY <2>5
  <2>7. Reading' + Answered' + Owing' <= Reading + Answered + Owing
    BY <2>1, <2>4, <2>6
  <2> QED
    BY <1>4, <1>5, <1>6, <2>1, <2>2, <2>7
<1>7. ASSUME NEW k \in Conns, s2c' = [s2c EXCEPT ![k] = <<>>],
             UNCHANGED <<removed, Gone, handled, hpc>>, Reading' = Reading
      PROVE  CalmAcks'
  <2>1. CASE k = 1
    <3>1. Answered' = 0 /\ Owing' = Owing
      BY <1>1, <1>7, <2>1 DEF Answered, Owing
    <3> QED
      BY <1>2, <1>4, <1>5, <1>7, <3>1
  <2>2. CASE k # 1
    <3>1. Answered' = Answered /\ Owing' = Owing
      BY <1>1, <1>7, <2>2 DEF Answered, Owing
    <3> QED
      BY <1>2, <1>4, <1>5, <1>7, <3>1
  <2> QED
    BY <2>1, <2>2
<1>8. CASE ClientMoves
  <2>1. UNCHANGED <<handled, hpc>> /\ ClientNext
    BY <1>8 DEF ClientMoves, serverVars
  <2>2. ASSUME UNCHANGED <<removed, Gone>>, Reading' = Reading, disconnect PROVE CalmAcks'
    <3>1. s2c' = s2c \/ \E k \in Conns : s2c' = [s2c EXCEPT ![k] = <<>>]
      <4>1. conn # NoConn => conn \in Conns
        BY <1>1 DEF SystemTypeOK, ClientTypeOK, Conns, NoConn
      <4> QED
        BY <2>2, <4>1 DEF disconnect, ClientHangsUp, wireVars
    <3>2. CASE s2c' = s2c
      BY <1>2, <1>6, <2>1, <2>2, <3>2
    <3> QED
      BY <1>7, <2>1, <2>2, <3>1, <3>2
  <2>3. CASE \E w \in Writers : ProcessEntry(w)
    <3>1. UNCHANGED <<removed, s2c, lpc>>
      BY <2>3 DEF ProcessEntry, connVars, wireVars
    <3>2. UNCHANGED <<itemsWritten, length>> \/ (spaceLeft /\ write(itemsWritten + 1))
      BY <2>3 DEF ProcessEntry, WriterStep, WriteOrReplace, WriteOrFail, WriteOrBlock, WriterWakes,
         DoWrite, ParkWriter, chVars, WriteOrBlockVerdict, CalmNetwork
    <3>3. Gone' = Gone
      BY <1>2, <3>2 DEF Gone, write
    <3> QED
      BY <1>2, <1>6, <2>1, <3>1, <3>3 DEF Reading
  <2>4. CASE EntriesStep
    <3>1. UNCHANGED <<removed, Gone, lpc>>
      BY <2>4 DEF EntriesStep, EntriesWait, ReaderWaits, ParkReader, ensureConnection, Dials,
         DialFails, WrongProtocol, StoresConn, EntryBegins, BeginRead, read, processEntry, ReadDone,
         ReadSucceeded, EntryFails, ReadUndone, ReadFailed, EntriesDisconnect, vars, chVars, Gone
    <3>2. s2c' = s2c \/ disconnect
      BY <2>4 DEF EntriesStep, EntriesWait, ensureConnection, Dials, Open, DialFails, WrongProtocol,
         StoresConn, EntryBegins, processEntry, ClientWrites, EntryFails, EntriesDisconnect,
         wireVars
    <3>3. Reading' = Reading
      BY <3>1 DEF Reading
    <3> QED
      BY <1>2, <1>6, <2>1, <2>2, <3>1, <3>2, <3>3
  <2>5. CASE ResponsesWait \/ LoadsConn \/ ResponseFails \/ ResponsesRewind
    <3>1. UNCHANGED <<removed, Gone, s2c>>
      BY <2>5 DEF ResponsesWait, AckerWaits, ParkWriter, LoadsConn, AckerSkips, ResponseFails,
         ResponsesRewind, AckerRewinds, Rewind, vars, chVars, wireVars, Gone
    <3>2. Reading = 0 /\ Reading' = 0
      BY <2>5 DEF ResponsesWait, LoadsConn, ResponseFails, ResponsesRewind, Reading
    <3> QED
      BY <1>6, <2>1, <3>1, <3>2
  <2>6. CASE ResponsesDisconnect
    BY <2>2, <2>6 DEF ResponsesDisconnect, vars, chVars, Gone, Reading
  <2>7. CASE ReadsResponse
    <3>1. /\ UNCHANGED <<removed, Gone>> /\ Reading = 0 /\ Reading' = 1
          /\ lconn \in clientOpen /\ s2c[lconn] # <<>> /\ s2c' = [s2c EXCEPT ![lconn] = Tail(@)]
      BY <2>7 DEF ReadsResponse, ClientReads, vars, chVars, Gone, Reading
    <3>2. lconn = 1 /\ 1 \in Conns
      BY <1>1, <3>1 DEF Conns
    <3>3. PICK r \in Seq(Responses) : r = s2c[1] /\ r # <<>>
      BY <1>1, <3>1, <3>2
    <3>4. s2c'[1] = Tail(r)
      BY <1>1, <3>1, <3>2, <3>3
    <3>5. Len(r) \in Nat /\ Len(r) # 0 /\ Len(Tail(r)) = Len(r) - 1
      BY <3>3, LenProperties, EmptySeq, HeadTailProperties
    <3>6. Answered' = Answered - 1 /\ Answered >= 1 /\ Owing' = Owing
      BY <2>1, <3>2, <3>3, <3>4, <3>5 DEF Answered, Owing
    <3> QED
      BY <1>2, <1>4, <1>5, <2>1, <3>1, <3>6
  <2>8. CASE ResponseAcks
    <3>1. /\ UNCHANGED s2c /\ Ack /\ Reading = 1 /\ Reading' = 0
          /\ removed' = IF toAck THEN removed \cup {data[index(0)]} ELSE removed
      BY <2>8 DEF ResponseAcks, AckerAcks, wireVars, Reading
    <3>2. CASE ~toAck
      BY <1>6, <2>1, <3>1, <3>2 DEF Ack, chVars, Gone
    <3>3. CASE toAck
      <4>1. Gone' = Gone + 1 /\ length > 0
        BY <1>1, <1>2, <3>1, <3>3 DEF Ack, Gone, toAck, CInv, Window
      <4>2. data[index(0)] = Gone + 1
        BY <1>1, <1>2, <4>1 DEF RingHoldsLatest, Gone
      <4>3. Answered' = Answered /\ Owing' = Owing
        BY <2>1, <3>1 DEF Answered, Owing
      <4>4. removed' \subseteq 1..Gone'
        BY <1>2, <3>1, <3>3, <4>1, <4>2 DEF CalmAcks
      <4>5. Gone' + Reading' + Answered' + Owing' <= Len(handled')
        BY <1>2, <1>3, <1>4, <2>1, <3>1, <4>1, <4>3 DEF CalmAcks
      <4> QED
        BY <4>4, <4>5 DEF CalmAcks
    <3> QED
      BY <3>2, <3>3
  <2>9. CASE CloseStep
    <3>1. UNCHANGED <<removed, Gone, lpc>>
      BY <2>9 DEF CloseStep, WaitUntilSent, FlusherCalls, FlushWaits, FlusherWaits, ParkWriter,
         CloseWithContext, ClosesForWriting, ClosesWriting, CloseWriting, CloseReturns,
         CancelsContext, ClosesChannel, Closes, Close, CloserDisconnects, vars, chVars, connVars,
         Gone
    <3>2. s2c' = s2c \/ disconnect
      BY <2>9 DEF CloseStep, WaitUntilSent, FlushWaits, CloseWithContext, ClosesForWriting,
         CloseReturns, CancelsContext, ClosesChannel, CloserDisconnects, wireVars
    <3>3. Reading' = Reading
      BY <3>1 DEF Reading
    <3> QED
      BY <1>2, <1>6, <2>1, <2>2, <3>1, <3>2, <3>3
  <2> QED
    BY <2>1, <2>3, <2>4, <2>5, <2>6, <2>7, <2>8, <2>9 DEF ClientNext, ResponsesStep
<1>9. ASSUME NEW k \in Conns, ServerStep(k), UNCHANGED clientVars PROVE CalmAcks'
  <2>1. UNCHANGED <<removed, Gone>> /\ Reading' = Reading
    BY <1>9 DEF clientVars, connVars, vars, chVars, Gone, Reading
  <2>2. k = 1 /\ 1 \in Conns
    BY <1>1, <1>9, CalmHandler
  <2>3. PICK r \in Seq(Responses) : r = s2c[1]
    BY <1>1, <2>2
  <2>4. Len(r) \in Nat
    BY LenProperties
  <2>5. ASSUME NEW to, hpc' = [hpc EXCEPT ![k] = to] PROVE hpc'[1] = to
    BY <1>1, <2>2, <2>5
  <2>6. CASE Goes(k, "accept", "listen") /\ UNCHANGED <<s2c, handled>>
    <3>1. Answered' = Answered /\ Owing' = Owing
      BY <2>2, <2>5, <2>6 DEF Goes, Answered, Owing
    <3> QED
      BY <1>2, <1>4, <1>5, <2>1, <2>6, <3>1
  <2>7. CASE Goes(k, "listen", "OK") /\ handled' = Append(handled, Head(c2s[k])) /\ s2c' = s2c
             /\ c2s[k] # <<>>
    <3>1. Answered' = Answered /\ Owing = 0 /\ Owing' = 1
      BY <2>2, <2>5, <2>7 DEF Goes, Answered, Owing
    <3>2. Len(handled') = Len(handled) + 1
      <4>1. PICK c \in Seq(Nat) : c = c2s[k]
        BY <1>1 DEF SystemTypeOK, WireTypeOK
      <4>2. Head(c) \in Nat
        BY <2>7, <4>1, HeadTailProperties
      <4> QED
        BY <1>1, <2>7, <4>1, <4>2, AppendProperties
    <3>3. Gone' + Reading' + Answered' + Owing' <= Len(handled')
      BY <1>2, <1>3, <1>4, <2>1, <3>1, <3>2 DEF CalmAcks
    <3> QED
      BY <2>1, <3>3 DEF CalmAcks
  <2>8. CASE /\ Goes(k, "OK", "listen") /\ handled' = handled
             /\ s2c' = s2c \/ s2c' = [s2c EXCEPT ![k] = Append(@, "OK")]
    <3>1. s2c'[1] = r \/ s2c'[1] = Append(r, "OK")
      BY <1>1, <2>2, <2>3, <2>8
    <3>2. Len(Append(r, "OK")) = Len(r) + 1
      BY AppendProperties DEF Responses
    <3>3. hpc[1] = "OK" /\ hpc'[1] = "listen"
      BY <2>2, <2>5, <2>8 DEF Goes
    <3>4. Owing = 1 /\ Owing' = 0 /\ Answered = Len(r) /\ Answered' \in {Len(r), Len(r) + 1}
      BY <2>2, <2>3, <3>1, <3>2, <3>3 DEF Answered, Owing
    <3> QED
      BY <1>2, <1>5, <2>1, <2>4, <2>8, <3>4
  <2>9. CASE /\ \E to \in {"NOK", "release", "done"} : hpc' = [hpc EXCEPT ![k] = to]
             /\ UNCHANGED <<s2c, handled>>
    <3>1. hpc'[1] # "OK"
      BY <2>5, <2>9
    <3>2. Answered' = Answered /\ Owing' = 0
      BY <2>2, <2>9, <3>1 DEF Answered, Owing
    <3> QED
      BY <1>2, <1>4, <1>5, <2>1, <2>9, <3>2
  <2> QED
    BY <1>1, <1>9, <2>6, <2>7, <2>8, <2>9, CalmHandler
<1>10. CASE NetworkMoves
  BY <1>10 DEF NetworkMoves, Cut, CalmNetwork
<1>11. CASE UNCHANGED systemVars
  BY <1>2, <1>6, <1>11 DEF systemVars, clientVars, connVars, wireVars, serverVars, vars, chVars,
     Gone, Reading
<1> QED
  BY <1>8, <1>9, <1>10, <1>11 DEF SystemNext, ServerMoves

(* The inductive invariant of a network that works.                        *)
CalmInv == CalmNetwork /\ LinkInv /\ CalmLink /\ CalmHandlers /\ CalmStream /\ CalmAcks

(* It holds before the first dial, ...                                     *)
LEMMA CalmInvInit == CalmNetwork /\ SystemInit => CalmInv
<1> SUFFICES ASSUME CalmNetwork, SystemInit PROVE CalmInv
  OBVIOUS
<1> USE DEF SystemInit, NewTlsClient, WireInit, ServerInit
<1>1. LinkInv
  BY LinkInvInit
<1>2. CalmLink
  BY DEF CalmLink
<1>3. CalmHandlers
  BY DEF CalmHandlers
<1>4. Gone = 0 /\ Handed = 0
  BY DEF Init, NewByteChannel, Gone, Handed, Tentative
<1>5. Len(<<>>) = 0 /\ DOMAIN <<>> = {}
  OBVIOUS
<1>6. CalmStream
  BY <1>4, <1>5 DEF CalmStream, InOrder
<1>7. Reading = 0 /\ Answered = 0 /\ Owing = 0
  BY <1>5 DEF Reading, Answered, Owing
<1>8. CalmAcks
  BY <1>4, <1>5, <1>7 DEF CalmAcks
<1> QED
  BY <1>1, <1>2, <1>3, <1>6, <1>8 DEF CalmInv

(* ... and every step keeps it.                                            *)
LEMMA CalmInvStep == CalmInv /\ [SystemNext]_systemVars => CalmInv'
<1> SUFFICES ASSUME CalmInv, [SystemNext]_systemVars PROVE CalmInv'
  OBVIOUS
<1>1. CalmNetwork /\ LinkInv /\ SystemTypeOK /\ Link
      /\ CalmLink /\ CalmHandlers /\ CalmStream /\ CalmAcks
  BY DEF CalmInv, LinkInv
<1>2. LinkInv'
  BY <1>1, LinkInvStep
<1>3. CInv'
  BY <1>2 DEF LinkInv, SystemInv
<1>4. CalmLink'
  BY <1>1, CalmLinkStep
<1>5. CalmHandlers'
  BY <1>1, CalmHandlersStep
<1>6. CalmStream'
  BY <1>1, <1>3, <1>4, CalmStreamStep
<1>7. CalmAcks'
  BY <1>1, <1>3, CalmAcksStep
<1>8. CalmNetwork'
  BY <1>1 DEF CalmNetwork
<1> QED
  BY <1>2, <1>4, <1>5, <1>6, <1>7, <1>8 DEF CalmInv

(* On a network that works the server processes the entries in the order   *)
(* ProcessEntry accepted them, each once, whenever Close comes.            *)
THEOREM InOrderHolds == CalmNetwork /\ SystemSpec => []InOrder
<1>1. CalmInv => InOrder
  BY DEF CalmInv, CalmStream
<1> QED
  BY <1>1, CalmInvInit, CalmInvStep, PTL DEF SystemSpec

(* On a network that works an acknowledgement removes only entries that    *)
(* the server has processed, although processResponses looks neither at    *)
(* the byte it reads nor at which entry it is for.                         *)
THEOREM RemovedWasReceivedHolds == CalmNetwork /\ SystemSpec => []RemovedWasReceived
<1>1. CalmInv => RemovedWasReceived
  <2> SUFFICES ASSUME CalmInv, NEW e \in removed PROVE e \in Received
    BY DEF RemovedWasReceived
  <2>1. /\ handled \in Seq(Nat) /\ Gone \in Int /\ e \in 1..Gone
        /\ Gone + Reading + Answered + Owing <= Len(handled)
    BY DEF CalmInv, CalmAcks, LinkInv, SystemTypeOK, ServerTypeOK, TypeOK, ChannelTypeOK, Gone
  <2>2. Reading \in 0..1 /\ Owing \in 0..1
    BY DEF Reading, Owing
  <2>3. Answered \in Nat
    <3>1. 1 \in Conns => Len(s2c[1]) \in Nat
      BY LenProperties DEF CalmInv, LinkInv, SystemTypeOK, WireTypeOK
    <3> QED
      BY <3>1 DEF Answered
  <2>4. Len(handled) \in Nat /\ DOMAIN handled = 1..Len(handled)
    BY <2>1, LenProperties
  <2>5. e \in DOMAIN handled
    BY <2>1, <2>2, <2>3, <2>4
  <2>6. handled[e] = e
    BY <2>5 DEF CalmInv, CalmStream, InOrder
  <2> QED
    BY <2>5, <2>6 DEF Received, Range
<1> QED
  BY <1>1, CalmInvInit, CalmInvStep, PTL DEF SystemSpec
============================================================================
