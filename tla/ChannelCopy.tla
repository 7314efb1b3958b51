---------------------------- MODULE ChannelCopy ----------------------------
(***************************************************************************)
(* CopyTo (byte_channel.go:36): what becomes of a second channel into      *)
(* which this one is copied, both locks held.  The second channel is a     *)
(* record of the fields CopyTo changes; its slots are as large.            *)
(***************************************************************************)
EXTENDS ChannelProperties, SequencesExt

EmptyChannel(capacity, start) ==
    [capacity |-> capacity, startIdx |-> start, length |-> 0, awaitingAck |-> 0,
     data |-> [i \in 0..(capacity - 1) |-> NeverWritten]]

(* dst.write.                                                              *)
WrittenTo(dst, item) ==
    LET full == dst.length >= dst.capacity
        slot == (dst.startIdx + dst.length) % dst.capacity
    IN [capacity    |-> dst.capacity,
        startIdx    |-> IF full THEN (dst.startIdx + 1) % dst.capacity ELSE dst.startIdx,
        length      |-> IF full THEN dst.length ELSE dst.length + 1,
        awaitingAck |-> IF full /\ dst.awaitingAck > 0 THEN dst.awaitingAck - 1
                        ELSE dst.awaitingAck,
        data        |-> [dst.data EXCEPT ![slot] = item]]

FaultyCopyItem(dst, i) == WrittenTo(dst, data[i - 1])

(* The loop's body: slice(index(i)) of this channel goes to the other.     *)
CopyItem(dst, i) == WrittenTo(dst, data[index(i - 1)])

(* Every slot is written, also the ones not in use; then the length is set.*)
CopyTo(dst) ==
    LET copied == FoldLeft(CopyItem, dst, [i \in 1..Capacity |-> i])
    IN [capacity    |-> dst.capacity,
        startIdx    |-> copied.startIdx,
        length      |-> IF length < dst.capacity THEN length ELSE dst.capacity,
        awaitingAck |-> 0,
        data        |-> copied.data]

(* Copied at any moment into an empty channel at least as large, wherever  *)
(* that one's startIdx is, this channel's items arrive all, in order and   *)
(* unread, although CopyTo writes unused slots too (ByteChannel.CopyTo).   *)
CopyKeepsContents ==
    \A n \in Capacity..(Capacity + 1) : \A s \in 0..(n - 1) :
        LET d == CopyTo(EmptyChannel(n, s))
        IN /\ d.awaitingAck = 0
           /\ [i \in 1..d.length |-> d.data[(d.startIdx + i - 1) % n]] = Contents
============================================================================
