---------------------------- MODULE ByteChannel ----------------------------
(***************************************************************************)
(* The ring buffer of internal/channel/byte_channel.go: its fields as      *)
(* variables and the body of each of its methods as an action on them.     *)
(* Every method runs under ch.mu, so a caller takes a body in one step;    *)
(* the two sync.Cond values are the sets of goroutines parked on them, and *)
(* a Broadcast empties the set.                                            *)
(*                                                                         *)
(* A slot of itemSize bytes is abstracted to a number: the ordinal of the  *)
(* write that filled it, or 0 for memory that was never written.           *)
(***************************************************************************)
EXTENDS Integers

CONSTANT Capacity   \* items the ring holds

ASSUME CapacityAssumption == Capacity \in Nat \ {0}

VARIABLES data,           \* the slots
          startIdx,       \* slot of the oldest item
          awaitingAck,    \* items read and not acknowledged, from startIdx on
          length,         \* items held, from startIdx on
          itemsWritten,
          itemsRead,
          closed,
          closedWriting,
          readCond,       \* goroutines parked on readCond
          writeCond       \* goroutines parked on writeCond

chVars == <<data, startIdx, awaitingAck, length, itemsWritten, itemsRead,
            closed, closedWriting, readCond, writeCond>>

NeverWritten == 0

NewByteChannel ==
    /\ data = [i \in 0..(Capacity - 1) |-> NeverWritten]
    /\ startIdx = 0
    /\ awaitingAck = 0
    /\ length = 0
    /\ itemsWritten = 0
    /\ itemsRead = 0
    /\ closed = FALSE
    /\ closedWriting = FALSE
    /\ readCond = {}
    /\ writeCond = {}

(* The channel's types, for goroutines from T.                             *)
ChannelTypeOK(T) ==
    /\ data \in [0..(Capacity - 1) -> Nat]
    /\ startIdx \in 0..(Capacity - 1)
    /\ awaitingAck \in Int
    /\ length \in Int
    /\ itemsWritten \in Nat
    /\ itemsRead \in Int
    /\ closed \in BOOLEAN
    /\ closedWriting \in BOOLEAN
    /\ readCond \subseteq T
    /\ writeCond \subseteq T

----------------------------------------------------------------------------
(* Faulty variants of definitions below, one plausible slip each.  No      *)
(* specification uses them: they show that the properties can fail.        *)

FaultyWrapForgetsToWrap(i) == IF i < Capacity THEN i ELSE Capacity - 1

FaultyToReadIgnoresWindow == length > 0

FaultyReadSucceededSilent ==
    UNCHANGED chVars

FaultyCloseSilent ==
    /\ closed' = TRUE
    /\ closedWriting' = TRUE
    /\ UNCHANGED <<data, startIdx, awaitingAck, length, itemsWritten, itemsRead,
                   readCond, writeCond>>

FaultyRewindSilent ==
    /\ awaitingAck' = 0
    /\ UNCHANGED <<data, startIdx, length, itemsWritten, itemsRead, closed,
                   closedWriting, readCond, writeCond>>

----------------------------------------------------------------------------
(* Index arithmetic and the unexported predicates.                         *)

wrap(i)  == (i + Capacity) % Capacity
index(i) == wrap(startIdx + i)

unread    == length - awaitingAck
toRead    == unread > 0
toAck     == awaitingAck > 0
spaceLeft == length < Capacity
empty     == length <= 0

(* The items the channel holds, oldest first.                              *)
Contents == [i \in 1..length |-> data[index(i - 1)]]

----------------------------------------------------------------------------
FaultyWriteKeepsWindow(e) ==
    /\ data' = [data EXCEPT ![index(length)] = e]
    /\ \/ spaceLeft /\ length' = length + 1 /\ UNCHANGED startIdx
       \/ ~spaceLeft /\ startIdx' = index(1) /\ UNCHANGED length
    /\ itemsWritten' = itemsWritten + 1
    /\ readCond' = {}
    /\ UNCHANGED <<awaitingAck, itemsRead, closed, closedWriting, writeCond>>

FaultyAckForgetsToWrap ==
    /\ toAck
    /\ awaitingAck' = awaitingAck - 1
    /\ length' = length - 1
    /\ startIdx' = IF length > 1 THEN startIdx + 1 ELSE startIdx
    /\ writeCond' = {}
    /\ UNCHANGED <<data, itemsWritten, itemsRead, closed, closedWriting, readCond>>

(* Method bodies.                                                          *)

(* ch.write: fill the slot after the last item; when the ring is full that *)
(* is the slot of the oldest item, which leaves the ring and, if it was    *)
(* read already, the window of items awaiting an acknowledgement.          *)
write(e) ==
    /\ data' = [data EXCEPT ![index(length)] = e]
    /\ \/ /\ spaceLeft
          /\ length' = length + 1
          /\ UNCHANGED <<startIdx, awaitingAck>>
       \/ /\ ~spaceLeft
          /\ startIdx' = index(1)
          /\ awaitingAck' = IF toAck THEN awaitingAck - 1 ELSE awaitingAck
          /\ UNCHANGED length
    /\ itemsWritten' = itemsWritten + 1
    /\ readCond' = {}
    /\ UNCHANGED <<itemsRead, closed, closedWriting, writeCond>>

(* ch.read, and the slot it hands to the callback.                         *)
read ==
    /\ awaitingAck' = awaitingAck + 1
    /\ itemsRead' = itemsRead + 1
    /\ UNCHANGED <<data, startIdx, length, itemsWritten, closed, closedWriting,
                   readCond, writeCond>>

NextItem == data[index(awaitingAck)]

undoRead ==
    /\ awaitingAck' = awaitingAck - 1
    /\ itemsRead' = itemsRead - 1

(* The end of ReadToCallback, once the callback returned.                  *)
ReadSucceeded ==
    /\ writeCond' = {}
    /\ UNCHANGED <<data, startIdx, awaitingAck, length, itemsWritten, itemsRead,
                   closed, closedWriting, readCond>>

ReadFailed ==
    /\ undoRead
    /\ readCond' = {}
    /\ UNCHANGED <<data, startIdx, length, itemsWritten, closed, closedWriting,
                   writeCond>>

(* ch.Ack: the oldest item leaves; when it was the last one startIdx stays *)
(* where it is.                                                            *)
Ack ==
    \/ /\ ~toAck
       /\ UNCHANGED chVars
    \/ /\ toAck
       /\ awaitingAck' = awaitingAck - 1
       /\ length' = length - 1
       /\ startIdx' = IF length > 1 THEN index(1) ELSE startIdx
       /\ writeCond' = {}
       /\ UNCHANGED <<data, itemsWritten, itemsRead, closed, closedWriting, readCond>>

Rewind ==
    /\ awaitingAck' = 0
    /\ readCond' = IF toAck THEN {} ELSE readCond
    /\ UNCHANGED <<data, startIdx, length, itemsWritten, itemsRead, closed,
                   closedWriting, writeCond>>

CloseWriting ==
    \/ /\ closedWriting
       /\ UNCHANGED chVars
    \/ /\ ~closedWriting
       /\ closedWriting' = TRUE
       /\ writeCond' = {}
       /\ UNCHANGED <<data, startIdx, awaitingAck, length, itemsWritten, itemsRead,
                      closed, readCond>>

Close ==
    \/ /\ closed
       /\ UNCHANGED chVars
    \/ /\ ~closed
       /\ closed' = TRUE
       /\ closedWriting' = TRUE
       /\ readCond' = {}
       /\ writeCond' = {}
       /\ UNCHANGED <<data, startIdx, awaitingAck, length, itemsWritten, itemsRead>>

Reset ==
    /\ startIdx' = 0
    /\ awaitingAck' = 0
    /\ length' = 0
    /\ writeCond' = {}
    /\ UNCHANGED <<data, itemsWritten, itemsRead, closed, closedWriting, readCond>>

(* Cond.Wait: a goroutine parks on a condition variable, releasing ch.mu.  *)
ParkReader(t) ==
    /\ readCond' = readCond \cup {t}
    /\ UNCHANGED <<data, startIdx, awaitingAck, length, itemsWritten, itemsRead,
                   closed, closedWriting, writeCond>>

ParkWriter(t) ==
    /\ writeCond' = writeCond \cup {t}
    /\ UNCHANGED <<data, startIdx, awaitingAck, length, itemsWritten, itemsRead,
                   closed, closedWriting, readCond>>

----------------------------------------------------------------------------
(* What one pass through the loop of a blocking method decides: "park" is  *)
(* a call of Cond.Wait, anything else is what the method does or returns.  *)

FaultyWaitForgetsWindow ==
    IF closed THEN "ErrClosedPipe"
    ELSE IF ~empty THEN "nil"
    ELSE IF closedWriting THEN "EOF"
    ELSE "park"

FaultyWaitEofFirst ==
    IF closed THEN "ErrClosedPipe"
    ELSE IF closedWriting THEN "EOF"
    ELSE IF toRead THEN "nil"
    ELSE "park"

(* Wait, the reader's: io.EOF once writing is closed and nothing is left.  *)
WaitVerdict ==
    IF closed THEN "ErrClosedPipe"
    ELSE IF toRead THEN "nil"
    ELSE IF closedWriting THEN "EOF"
    ELSE "park"

WaitUntilReadVerdict ==
    IF closed THEN "ErrClosedPipe" ELSE IF toAck THEN "nil" ELSE "park"

WaitUntilEmptyVerdict ==
    IF closed THEN "ErrClosedPipe" ELSE IF empty THEN "nil" ELSE "park"

FaultyWriteOrBlockReplaces ==
    IF closedWriting THEN "refuse" ELSE "write"

(* The loop of WriteOrBlock: closedWriting is looked at only while full.   *)
WriteOrBlockVerdict ==
    IF spaceLeft THEN "write" ELSE IF closedWriting THEN "refuse" ELSE "park"
============================================================================
