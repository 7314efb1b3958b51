--------------------------- MODULE ChannelThreads ---------------------------
(***************************************************************************)
(* The goroutines that share one ByteChannel, as peer/tls_client.go        *)
(* arranges them: any number of writers (ProcessEntry), one reader         *)
(* (processEntries: Wait, then ReadToCallback), one acker                  *)
(* (processResponses: WaitUntilRead, then Ack, Rewind or neither), one     *)
(* flusher (WaitUntilSent) and whoever closes the channel.                 *)
(*                                                                         *)
(* ch.mu is held for the whole of a method except inside Cond.Wait, and    *)
(* ReadToCallback keeps it while the callback runs, so that method takes   *)
(* two steps with rpc = "callback" between them.  A goroutine inside a     *)
(* blocking method is asleep while it is in a condition variable's set and *)
(* competes for ch.mu once a Broadcast has removed it.                     *)
(***************************************************************************)
EXTENDS ByteChannel

CONSTANTS Writers,     \* goroutines that log
          Methods,     \* the write methods in use
          MaxWrites,   \* bound: accepted writes
          MaxRewinds   \* bound: calls of Rewind

WriteMethods == {"WriteOrReplace", "WriteOrBlock", "WriteOrFail"}

ASSUME ChannelAssumption ==
    /\ Methods \subseteq WriteMethods
    /\ MaxWrites \in Nat
    /\ MaxRewinds \in Nat
    /\ Writers \cap {"reader", "acker", "flusher"} = {}

VARIABLES rpc,     \* the reader: "wait", "ready", "callback", "EOF", "ErrClosedPipe"
          apc,     \* the acker: "wait", "got", "ErrClosedPipe"
          wpc,     \* each writer: "idle", or "blocked" in the loop of WriteOrBlock
          fpc,     \* the flusher: "idle", "wait", or what WaitUntilEmpty returned
          rewinds  \* calls of Rewind so far

vars == <<chVars, rpc, apc, wpc, fpc, rewinds>>

Threads == Writers \cup {"reader", "acker", "flusher"}

TypeOK ==
    /\ ChannelTypeOK(Threads)
    /\ rpc \in {"wait", "ready", "callback", "EOF", "ErrClosedPipe"}
    /\ apc \in {"wait", "got", "ErrClosedPipe"}
    /\ wpc \in [Writers -> {"idle", "blocked"}]
    /\ fpc \in {"idle", "wait", "nil", "ErrClosedPipe"}
    /\ rewinds \in Nat

Init ==
    /\ NewByteChannel
    /\ rpc = "wait"
    /\ apc = "wait"
    /\ wpc = [w \in Writers |-> "idle"]
    /\ fpc = "idle"
    /\ rewinds = 0

(* ch.mu is free: only a running callback keeps it between two steps.      *)
Unlocked == rpc # "callback"

----------------------------------------------------------------------------
(* Writers.  A refused write changes nothing.                              *)

DoWrite ==
    /\ itemsWritten < MaxWrites
    /\ write(itemsWritten + 1)

WriteOrReplace(w) ==
    /\ "WriteOrReplace" \in Methods
    /\ Unlocked /\ wpc[w] = "idle"
    /\ ~closedWriting
    /\ DoWrite
    /\ UNCHANGED <<rpc, apc, wpc, fpc, rewinds>>

WriteOrFail(w) ==
    /\ "WriteOrFail" \in Methods
    /\ Unlocked /\ wpc[w] = "idle"
    /\ ~closedWriting /\ spaceLeft
    /\ DoWrite
    /\ UNCHANGED <<rpc, apc, wpc, fpc, rewinds>>

(* WriteOrBlock is called: the early return, then the loop's first pass.   *)
WriteOrBlock(w) ==
    /\ "WriteOrBlock" \in Methods
    /\ Unlocked /\ wpc[w] = "idle"
    /\ ~closedWriting
    /\ \/ /\ WriteOrBlockVerdict = "write"
          /\ DoWrite
          /\ UNCHANGED wpc
       \/ /\ WriteOrBlockVerdict = "park"
          /\ itemsWritten < MaxWrites
          /\ ParkWriter(w)
          /\ wpc' = [wpc EXCEPT ![w] = "blocked"]
    /\ UNCHANGED <<rpc, apc, fpc, rewinds>>

(* A writer woken inside WriteOrBlock goes round the loop again.  The      *)
(* bound on writes does not hold it back: it bounds calls, and a writer    *)
(* that parked has called already.                                         *)
WriterWakes(w) ==
    /\ Unlocked /\ wpc[w] = "blocked" /\ w \notin writeCond
    /\ \/ /\ WriteOrBlockVerdict = "write"
          /\ write(itemsWritten + 1)
          /\ wpc' = [wpc EXCEPT ![w] = "idle"]
       \/ /\ WriteOrBlockVerdict = "refuse"
          /\ wpc' = [wpc EXCEPT ![w] = "idle"]
          /\ UNCHANGED chVars
       \/ /\ WriteOrBlockVerdict = "park"
          /\ ParkWriter(w)
          /\ UNCHANGED wpc
    /\ UNCHANGED <<rpc, apc, fpc, rewinds>>

----------------------------------------------------------------------------
(* The reader.                                                             *)

ReaderWaits ==
    /\ rpc = "wait" /\ "reader" \notin readCond
    /\ \/ /\ WaitVerdict = "park"
          /\ ParkReader("reader")
          /\ UNCHANGED rpc
       \/ /\ WaitVerdict = "nil"
          /\ rpc' = "ready"
          /\ UNCHANGED chVars
       \/ /\ WaitVerdict \in {"EOF", "ErrClosedPipe"}
          /\ rpc' = WaitVerdict
          /\ UNCHANGED chVars
    /\ UNCHANGED <<apc, wpc, fpc, rewinds>>

(* ReadToCallback up to the call of the callback; an empty ring is io.EOF, *)
(* on which the reader's loop simply goes round.                           *)
BeginRead ==
    /\ rpc = "ready"
    /\ \/ /\ empty
          /\ rpc' = "wait"
          /\ UNCHANGED chVars
       \/ /\ ~empty
          /\ read
          /\ rpc' = "callback"
    /\ UNCHANGED <<apc, wpc, fpc, rewinds>>

(* The callback returned nil (or undoOnError is false).                    *)
ReadDone ==
    /\ rpc = "callback"
    /\ ReadSucceeded
    /\ rpc' = "wait"
    /\ UNCHANGED <<apc, wpc, fpc, rewinds>>

(* The callback returned an error and undoOnError is true.                 *)
ReadUndone ==
    /\ rpc = "callback"
    /\ ReadFailed
    /\ rpc' = "wait"
    /\ UNCHANGED <<apc, wpc, fpc, rewinds>>

----------------------------------------------------------------------------
(* The acker.                                                              *)

AckerWaits ==
    /\ Unlocked /\ apc = "wait" /\ "acker" \notin writeCond
    /\ \/ /\ WaitUntilReadVerdict = "park"
          /\ ParkWriter("acker")
          /\ UNCHANGED apc
       \/ /\ WaitUntilReadVerdict = "nil"
          /\ apc' = "got"
          /\ UNCHANGED chVars
       \/ /\ WaitUntilReadVerdict = "ErrClosedPipe"
          /\ apc' = "ErrClosedPipe"
          /\ UNCHANGED chVars
    /\ UNCHANGED <<rpc, wpc, fpc, rewinds>>

AckerAcks ==
    /\ Unlocked /\ apc = "got"
    /\ Ack
    /\ apc' = "wait"
    /\ UNCHANGED <<rpc, wpc, fpc, rewinds>>

AckerRewinds ==
    /\ Unlocked /\ apc = "got"
    /\ rewinds < MaxRewinds
    /\ Rewind
    /\ apc' = "wait"
    /\ rewinds' = rewinds + 1
    /\ UNCHANGED <<rpc, wpc, fpc>>

(* No connection, or no byte: the loop goes round without the channel.     *)
AckerSkips ==
    /\ apc = "got"
    /\ apc' = "wait"
    /\ UNCHANGED <<chVars, rpc, wpc, fpc, rewinds>>

----------------------------------------------------------------------------
(* The flusher and the methods anyone may call at any time.                *)

FlusherCalls ==
    /\ fpc = "idle"
    /\ fpc' = "wait"
    /\ UNCHANGED <<chVars, rpc, apc, wpc, rewinds>>

FlusherWaits ==
    /\ Unlocked /\ fpc = "wait" /\ "flusher" \notin writeCond
    /\ \/ /\ WaitUntilEmptyVerdict = "park"
          /\ ParkWriter("flusher")
          /\ UNCHANGED fpc
       \/ /\ WaitUntilEmptyVerdict \in {"nil", "ErrClosedPipe"}
          /\ fpc' = WaitUntilEmptyVerdict
          /\ UNCHANGED chVars
    /\ UNCHANGED <<rpc, apc, wpc, rewinds>>

ClosesWriting ==
    /\ Unlocked /\ ~closedWriting
    /\ CloseWriting
    /\ UNCHANGED <<rpc, apc, wpc, fpc, rewinds>>

Closes ==
    /\ Unlocked /\ ~closed
    /\ Close
    /\ UNCHANGED <<rpc, apc, wpc, fpc, rewinds>>

Resets ==
    /\ Unlocked
    /\ Reset
    /\ UNCHANGED <<rpc, apc, wpc, fpc, rewinds>>

----------------------------------------------------------------------------
WriterStep(w) ==
    WriteOrReplace(w) \/ WriteOrFail(w) \/ WriteOrBlock(w) \/ WriterWakes(w)

ReaderStep  == ReaderWaits \/ BeginRead \/ ReadDone \/ ReadUndone
AckerStep   == AckerWaits \/ AckerAcks \/ AckerRewinds \/ AckerSkips
FlusherStep == FlusherCalls \/ FlusherWaits
AnyoneStep  == ClosesWriting \/ Closes \/ Resets

Next ==
    \/ \E w \in Writers : WriterStep(w)
    \/ ReaderStep
    \/ AckerStep
    \/ FlusherStep
    \/ AnyoneStep

Spec == Init /\ [][Next]_vars

(* Go's sync.Mutex hands itself over to a goroutine that has waited for a  *)
(* millisecond, so a goroutine that keeps asking for ch.mu gets it: strong *)
(* fairness for every step that needs the lock while others keep taking    *)
(* it, weak fairness for the steps of the goroutine that holds it.         *)
Fairness ==
    /\ WF_vars(ReaderWaits) /\ WF_vars(BeginRead)
    /\ WF_vars(ReadDone \/ ReadUndone)
    /\ SF_vars(AckerWaits) /\ SF_vars(AckerAcks \/ AckerRewinds \/ AckerSkips)
    /\ SF_vars(FlusherWaits)
    /\ \A w \in Writers : SF_vars(WriterWakes(w))

FairSpec == Spec /\ Fairness

(* A connection that works: a send that is retried for ever succeeds, and  *)
(* an awaited acknowledgement comes.                                       *)
WorkingConnection == SF_vars(ReadDone) /\ SF_vars(AckerAcks)
============================================================================
