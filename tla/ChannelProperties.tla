------------------------- MODULE ChannelProperties -------------------------
(***************************************************************************)
(* What the ByteChannel keeps true for the goroutines of ChannelThreads,   *)
(* and its refinement of the LeakyQueue it is meant to be.                 *)
(***************************************************************************)
EXTENDS ChannelThreads

(* 1 while a callback runs: ch.read has counted the item, but undoRead may *)
(* still take it back.                                                     *)
Tentative == IF rpc = "callback" THEN 1 ELSE 0

(* The indices never leave the ring: at most capacity items are held, the  *)
(* items awaiting an acknowledgement are a prefix of them, and the         *)
(* unsigned counter undoRead decrements is never below what it takes back. *)
(* ReadToCallback guards itself with empty() alone, so this rests on the   *)
(* order in which reader and acker call (byte_channel.go:185, 202, 209).   *)
Window ==
    /\ 0 <= awaitingAck
    /\ awaitingAck <= length
    /\ length <= Capacity
    /\ awaitingAck <= itemsRead
    /\ length <= itemsWritten

(* The ring holds the latest ch.length writes, in order, from startIdx on, *)
(* whatever mix of overwriting, acknowledging and resetting moved startIdx *)
(* (ch.write, ch.Ack, ch.Reset).                                           *)
RingHoldsLatest ==
    \A i \in 0..(length - 1) :
        data[index(i)] = itemsWritten - length + 1 + i

(* The slot ReadToCallback hands to processEntry was written: the case     *)
(* tls_client.go:177 reports as "size zero - this should not happen".      *)
SizeNeverZero ==
    rpc = "callback" => data[index(awaitingAck - 1)] # NeverWritten

(* No goroutine sleeps on a condition variable although the loop it sleeps *)
(* in would end now: every change that could end a loop broadcasts on the  *)
(* condition variable its waiters use.  The reader's io.EOF is left out:   *)
(* CloseWriting does not wake it (byte_channel.go:237).                    *)
WriterAsleep(w) ==
    w \in writeCond => wpc[w] = "blocked" /\ ~spaceLeft /\ ~closedWriting
ReaderAsleep ==
    "reader" \in readCond => rpc = "wait" /\ ~toRead /\ ~closed
AckerAsleep ==
    "acker" \in writeCond => apc = "wait" /\ awaitingAck <= Tentative /\ ~closed
FlusherAsleep ==
    "flusher" \in writeCond => fpc = "wait" /\ ~empty /\ ~closed

NoLostWakeup ==
    /\ \A w \in Writers : WriterAsleep(w)
    /\ ReaderAsleep
    /\ AckerAsleep
    /\ FlusherAsleep

(* What the reader learnt from Wait stays true until it calls              *)
(* ReadToCallback, although ch.mu was released in between: there is        *)
(* something to read, or a Reset has emptied the ring and empty() will     *)
(* tell.  While the callback runs the item it got is counted.              *)
ReaderKnows ==
    /\ rpc = "ready" => toRead \/ empty
    /\ rpc = "callback" => toAck

(* The ring, its indices and its lock implement the bounded queue with a   *)
(* window: items are handed out, acknowledged and pushed out from the      *)
(* front only, and a read that is undone was never visible.                *)
Queue == INSTANCE LeakyQueue WITH
             queue    <- Contents,
             window   <- awaitingAck - Tentative,
             accepted <- itemsWritten

ImplementsLeakyQueue == Queue!Spec

(* Close releases every goroutine: the reader and the acker leave their    *)
(* loops, nobody stays in WriteOrBlock or WaitUntilEmpty.                  *)
CloseReleasesEveryone ==
    closed ~> /\ rpc \in {"EOF", "ErrClosedPipe"}
              /\ apc = "ErrClosedPipe"
              /\ fpc # "wait"
              /\ \A w \in Writers : wpc[w] = "idle"

(* While writing is open and the connection works, a full ring does not    *)
(* stay full: the reader, the acker and the writers waiting in             *)
(* WriteOrBlock do not end up waiting for one another.                     *)
FullRingDrains ==
    WorkingConnection => (~spaceLeft ~> (spaceLeft \/ closedWriting))

----------------------------------------------------------------------------
(* A statement of the repository's comments that the code does not keep.   *)

(* tls_client.go:120, at the call of CloseWriting: "Ensure that no more    *)
(* entries are written".                                                   *)
NoWriteAfterCloseWriting ==
    [][closedWriting => itemsWritten' = itemsWritten]_vars
============================================================================
