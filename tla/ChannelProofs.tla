--------------------------- MODULE ChannelProofs ---------------------------
(***************************************************************************)
(* Proofs that the invariants of ChannelProperties hold for every          *)
(* capacity, every set of writers and every mix of write methods, that the *)
(* ring buffer implements the LeakyQueue, and that CopyTo keeps the        *)
(* contents.                                                               *)
(***************************************************************************)
EXTENDS ChannelCopy, SequenceTheorems, TLAPS

(* wrap is the identity inside the ring and subtracts the capacity once on *)
(* the first lap after it.                                                 *)
LEMMA WrapValue ==
    \A x \in Nat : x < 2 * Capacity =>
        wrap(x) = IF x < Capacity THEN x ELSE x - Capacity
<1>1. ASSUME NEW n \in Nat \ {0}, NEW y \in Nat, y < n
      PROVE  (y + n) % n = y
  BY <1>1
<1>2. ASSUME NEW n \in Nat \ {0}, NEW y \in Nat, y >= n, y < 2 * n
      PROVE  (y + n) % n = y - n
  BY <1>2
<1> QED
  BY <1>1, <1>2, CapacityAssumption, SMTT(30) DEF wrap

(* index(i) for an offset of at most one capacity.                         *)
LEMMA IndexValue ==
    ASSUME startIdx \in 0..(Capacity - 1), NEW i \in 0..Capacity
    PROVE  /\ index(i) = IF startIdx + i < Capacity THEN startIdx + i
                                                    ELSE startIdx + i - Capacity
           /\ index(i) \in 0..(Capacity - 1)
BY WrapValue, CapacityAssumption DEF index

(* The part of the inductive invariant that speaks of counters only.       *)
CInv == TypeOK /\ Window /\ ReaderKnows

(* A method that holds ch.mu for one step.                                 *)
Body ==
    \/ write(itemsWritten + 1)
    \/ Ack \/ Rewind \/ CloseWriting \/ Close \/ Reset
    \/ \E t \in Threads : ParkReader(t) \/ ParkWriter(t)

(* The steps of everyone but the reader.                                   *)
OthersStep == (\E w \in Writers : WriterStep(w)) \/ AckerStep \/ FlusherStep \/ AnyoneStep

(* The bodies of the channel's methods keep the channel's types.           *)
LEMMA BodiesType ==
    ASSUME ChannelTypeOK(Threads), Window,
           Body \/ read \/ ReadSucceeded \/ ReadFailed
    PROVE  ChannelTypeOK(Threads)'
<1> USE CapacityAssumption
<1>1. length \in 0..Capacity /\ 1 \in 0..Capacity
  BY DEF ChannelTypeOK, Window
<1>2. index(1) \in 0..(Capacity - 1) /\ index(length) \in 0..(Capacity - 1)
  BY <1>1, IndexValue DEF ChannelTypeOK
<1>3. CASE write(itemsWritten + 1)
  <2>1. write(itemsWritten + 1) /\ itemsWritten + 1 \in Nat
    BY <1>3 DEF ChannelTypeOK
  <2>2. data' \in [0..(Capacity - 1) -> Nat]
    BY <2>1, <1>2 DEF write, spaceLeft, toAck, ChannelTypeOK
  <2>3. startIdx' \in 0..(Capacity - 1) /\ awaitingAck' \in Int /\ length' \in Int
    BY <2>1, <1>2, SMTT(30) DEF write, spaceLeft, toAck, ChannelTypeOK
  <2>4. itemsWritten' \in Nat /\ itemsRead' \in Int
    BY <2>1 DEF write, ChannelTypeOK
  <2>5. closed' \in BOOLEAN /\ closedWriting' \in BOOLEAN /\ readCond' \subseteq Threads
        /\ writeCond' \subseteq Threads
    BY <2>1 DEF write, ChannelTypeOK
  <2> QED
    BY <2>2, <2>3, <2>4, <2>5 DEF ChannelTypeOK
<1>4. CASE read \/ ReadSucceeded \/ ReadFailed
  BY <1>4 DEF read, ReadSucceeded, ReadFailed, undoRead, ChannelTypeOK
<1>5. CASE Ack
  <2>1. CASE ~toAck
    BY <2>1, <1>5 DEF Ack, chVars, ChannelTypeOK
  <2>2. CASE toAck
    BY <2>2, <1>2, <1>5, SMTT(30) DEF Ack, chVars, ChannelTypeOK
  <2> QED
    BY <2>1, <2>2
<1>6. CASE Rewind \/ CloseWriting \/ Close \/ Reset
  <2>1. CASE Rewind
    BY <2>1 DEF Rewind, toAck, ChannelTypeOK
  <2>2. CASE CloseWriting
    BY <2>2 DEF CloseWriting, chVars, ChannelTypeOK
  <2>3. CASE Close
    BY <2>3 DEF Close, chVars, ChannelTypeOK
  <2>4. CASE Reset
    BY <2>4 DEF Reset, ChannelTypeOK
  <2> QED
    BY <1>6, <2>1, <2>2, <2>3, <2>4
<1>7. CASE \E t \in Threads : ParkReader(t) \/ ParkWriter(t)
  BY <1>7 DEF ParkReader, ParkWriter, ChannelTypeOK
<1> QED
  BY <1>3, <1>4, <1>5, <1>6, <1>7 DEF Body

(* A method that holds ch.mu for one step keeps the indices inside the     *)
(* ring, and keeps what the reader knows.                                  *)
LEMMA BodiesWindow ==
    ASSUME ChannelTypeOK(Threads), Window, Body
    PROVE  Window' /\ (toRead \/ empty => (toRead \/ empty)')
<1> USE CapacityAssumption DEF ChannelTypeOK, Window, toRead, unread, empty
<1>1. CASE write(itemsWritten + 1)
  BY <1>1 DEF write, spaceLeft, toAck
<1>2. CASE Ack
  BY <1>2 DEF Ack, chVars, toAck
<1>3. CASE Rewind
  BY <1>3 DEF Rewind
<1>4. CASE CloseWriting
  BY <1>4 DEF CloseWriting, chVars
<1>5. CASE Close
  BY <1>5 DEF Close, chVars
<1>6. CASE Reset
  BY <1>6 DEF Reset
<1>7. CASE \E t \in Threads : ParkReader(t) \/ ParkWriter(t)
  BY <1>7 DEF ParkReader, ParkWriter
<1> QED
  BY <1>1, <1>2, <1>3, <1>4, <1>5, <1>6, <1>7 DEF Body

(* Everyone but the reader changes the channel by one body, and only while *)
(* no callback runs.                                                       *)
LEMMA OthersTakeBodies ==
    ASSUME TypeOK, OthersStep
    PROVE  /\ rpc' = rpc
           /\ UNCHANGED chVars \/ (Unlocked /\ Body)
<1>1. Writers \subseteq Threads /\ "acker" \in Threads /\ "flusher" \in Threads
  BY DEF Threads
<1>2. ASSUME NEW w \in Writers, WriterStep(w)
      PROVE  rpc' = rpc /\ (UNCHANGED chVars \/ (Unlocked /\ Body))
  <2>1. CASE WriteOrReplace(w) \/ WriteOrFail(w)
    BY <2>1, <1>1 DEF WriteOrReplace, WriteOrFail, DoWrite, Body
  <2>2. CASE WriteOrBlock(w)
    BY <2>2, <1>1 DEF WriteOrBlock, DoWrite, Body
  <2>3. CASE WriterWakes(w)
    BY <2>3, <1>1 DEF WriterWakes, Body
  <2> QED
    BY <1>2, <2>1, <2>2, <2>3 DEF WriterStep
<1>3. CASE AckerStep
  BY <1>1, <1>3 DEF AckerStep, AckerWaits, AckerAcks, AckerRewinds, AckerSkips, Body
<1>4. CASE FlusherStep
  BY <1>1, <1>4 DEF FlusherStep, FlusherCalls, FlusherWaits, Body
<1>5. CASE AnyoneStep
  BY <1>5 DEF AnyoneStep, ClosesWriting, Closes, Resets, Body
<1> QED
  BY <1>2, <1>3, <1>4, <1>5 DEF OthersStep

(* The goroutines' own state keeps its type.                               *)
LEMMA ThreadsType ==
    ASSUME TypeOK, Next
    PROVE  /\ rpc' \in {"wait", "ready", "callback", "EOF", "ErrClosedPipe"}
           /\ apc' \in {"wait", "got", "ErrClosedPipe"}
           /\ wpc' \in [Writers -> {"idle", "blocked"}]
           /\ fpc' \in {"idle", "wait", "nil", "ErrClosedPipe"}
           /\ rewinds' \in Nat
<1> USE DEF TypeOK
<1>1. ASSUME NEW w \in Writers, WriterStep(w) PROVE wpc' \in [Writers -> {"idle", "blocked"}]
  BY <1>1 DEF WriterStep, WriteOrReplace, WriteOrFail, WriteOrBlock, WriterWakes
<1>2. ASSUME NEW w \in Writers, WriterStep(w) PROVE UNCHANGED <<rpc, apc, fpc, rewinds>>
  BY <1>2 DEF WriterStep, WriteOrReplace, WriteOrFail, WriteOrBlock, WriterWakes
<1>3. CASE \E w \in Writers : WriterStep(w)
  BY <1>1, <1>2, <1>3
<1>4. CASE ReaderStep
  BY <1>4 DEF ReaderStep, ReaderWaits, BeginRead, ReadDone, ReadUndone
<1>5. CASE AckerStep
  BY <1>5 DEF AckerStep, AckerWaits, AckerAcks, AckerRewinds, AckerSkips
<1>6. CASE FlusherStep
  BY <1>6 DEF FlusherStep, FlusherCalls, FlusherWaits
<1>7. CASE AnyoneStep
  BY <1>7 DEF AnyoneStep, ClosesWriting, Closes, Resets
<1> QED
  BY <1>3, <1>4, <1>5, <1>6, <1>7 DEF Next

(* The counters' part of the inductive invariant is inductive.             *)
LEMMA CInvStep == CInv /\ [Next]_vars => CInv'
<1> SUFFICES ASSUME CInv, Next PROVE CInv'
  <2>1. CInv /\ UNCHANGED vars => CInv'
    BY DEF CInv, TypeOK, ChannelTypeOK, Window, ReaderKnows, toRead, unread, empty, toAck,
           vars, chVars
  <2> QED
    BY <2>1
<1> USE CapacityAssumption DEF CInv
<1>1. CASE OthersStep
  <2>1. rpc' = rpc /\ (UNCHANGED chVars \/ (Unlocked /\ Body))
    BY <1>1, OthersTakeBodies
  <2>2. CASE UNCHANGED chVars
    <3>1. ChannelTypeOK(Threads)' /\ Window' /\ ReaderKnows'
      BY <2>1, <2>2 DEF TypeOK, ChannelTypeOK, Window, ReaderKnows, toRead, unread, empty,
         toAck, chVars
    <3> QED
      BY <3>1, ThreadsType DEF TypeOK
  <2>3. CASE Unlocked /\ Body
    <3>1. ChannelTypeOK(Threads)' /\ Window' /\ (toRead \/ empty => (toRead \/ empty)')
      BY <2>3, BodiesType, BodiesWindow DEF TypeOK
    <3>2. ReaderKnows'
      BY <2>1, <2>3, <3>1 DEF ReaderKnows, Unlocked
    <3> QED
      BY <3>1, <3>2, ThreadsType DEF TypeOK
  <2> QED
    BY <2>1, <2>2, <2>3
<1>2. CASE ReaderWaits
  <2>1. CASE ParkReader("reader") /\ UNCHANGED rpc
    <3>1. "reader" \in Threads
      BY DEF Threads
    <3>2. ChannelTypeOK(Threads)' /\ Window'
      BY <2>1, <3>1, BodiesType, BodiesWindow DEF TypeOK, Body
    <3>3. ReaderKnows'
      BY <1>2, <2>1 DEF ReaderWaits, ReaderKnows
    <3> QED
      BY <3>2, <3>3, ThreadsType DEF TypeOK
  <2>2. CASE UNCHANGED chVars /\ (rpc' = "ready" => toRead) /\ rpc' # "callback"
    <3>1. ChannelTypeOK(Threads)' /\ Window' /\ ReaderKnows'
      BY <2>2 DEF TypeOK, ChannelTypeOK, Window, ReaderKnows, toRead, unread, empty,
         toAck, chVars
    <3> QED
      BY <3>1, ThreadsType DEF TypeOK
  <2> QED
    BY <1>2, <2>1, <2>2 DEF ReaderWaits, WaitVerdict
<1>3. CASE BeginRead
  <2>1. CASE empty
    <3>1. ChannelTypeOK(Threads)' /\ Window' /\ ReaderKnows'
      BY <1>3, <2>1 DEF BeginRead, TypeOK, ChannelTypeOK, Window, ReaderKnows, toRead, unread,
         empty, toAck, chVars
    <3> QED
      BY <3>1, <1>3, ThreadsType DEF TypeOK, Next, ReaderStep
  <2>2. CASE ~empty
    <3>1. read /\ rpc = "ready" /\ rpc' = "callback"
      BY <1>3, <2>2 DEF BeginRead
    <3>2. ChannelTypeOK(Threads)'
      BY <3>1, BodiesType DEF TypeOK
    <3>3. Window' /\ ReaderKnows'
      BY <2>2, <3>1 DEF TypeOK, ChannelTypeOK, Window, ReaderKnows, read, toRead, unread, empty,
         toAck
    <3> QED
      BY <3>2, <3>3, ThreadsType DEF TypeOK
  <2> QED
    BY <2>1, <2>2
<1>4. CASE ReadDone
  <2>1. ChannelTypeOK(Threads)'
    BY <1>4, BodiesType DEF ReadDone, TypeOK
  <2>2. Window' /\ ReaderKnows'
    BY <1>4 DEF ReadDone, ReadSucceeded, TypeOK, ChannelTypeOK, Window, ReaderKnows
  <2> QED
    BY <2>1, <2>2, ThreadsType DEF TypeOK
<1>5. CASE ReadUndone
  <2>1. ChannelTypeOK(Threads)'
    BY <1>5, BodiesType DEF ReadUndone, TypeOK
  <2>2. Window' /\ ReaderKnows'
    BY <1>5 DEF ReadUndone, ReadFailed, undoRead, TypeOK, ChannelTypeOK, Window, ReaderKnows,
       toAck
  <2> QED
    BY <2>1, <2>2, ThreadsType DEF TypeOK
<1> QED
  BY <1>1, <1>2, <1>3, <1>4, <1>5 DEF Next, OthersStep, ReaderStep

(* At the start nothing is held.                                           *)
LEMMA CInvInit == Init => CInv
<1> SUFFICES ASSUME Init PROVE CInv
  OBVIOUS
<1> USE CapacityAssumption DEF Init, NewByteChannel
<1>1. ChannelTypeOK(Threads)
  <2>1. data \in [0..(Capacity - 1) -> Nat] /\ startIdx \in 0..(Capacity - 1)
        /\ awaitingAck \in Int /\ length \in Int /\ itemsWritten \in Nat /\ itemsRead \in Int
    BY DEF NeverWritten
  <2>2. closed \in BOOLEAN /\ closedWriting \in BOOLEAN
        /\ readCond \subseteq Threads /\ writeCond \subseteq Threads
    BY Zenon
  <2> QED
    BY <2>1, <2>2 DEF ChannelTypeOK
<1>2. TypeOK
  BY <1>1 DEF TypeOK
<1>3. Window /\ ReaderKnows
  BY DEF Window, ReaderKnows
<1> QED
  BY <1>2, <1>3 DEF CInv

(* Every variable keeps its type, for every capacity and set of writers.   *)
THEOREM TypeCorrect == Spec => []TypeOK
<1>1. CInv => TypeOK
  BY DEF CInv
<1> QED
  BY <1>1, CInvInit, CInvStep, PTL DEF Spec

(* The indices of byte_channel.go never leave the ring: length stays       *)
(* within the capacity, awaitingAck within length, and undoRead never      *)
(* takes an unsigned counter below zero.                                   *)
THEOREM WindowHolds == Spec => []Window
<1>1. CInv => Window
  BY DEF CInv
<1> QED
  BY <1>1, CInvInit, CInvStep, PTL DEF Spec

(* What Wait told the reader is still true when it calls ReadToCallback,   *)
(* whatever the other goroutines did to the ring in between.               *)
THEOREM ReaderKnowsHolds == Spec => []ReaderKnows
<1>1. CInv => ReaderKnows
  BY DEF CInv
<1> QED
  BY <1>1, CInvInit, CInvStep, PTL DEF Spec

----------------------------------------------------------------------------
(* When startIdx moves on by one, every offset names the slot the next     *)
(* offset named before, and the last offset the slot just left behind.     *)
LEMMA IndexShift ==
    ASSUME startIdx \in 0..(Capacity - 1), startIdx' = index(1), NEW i \in 0..(Capacity - 1)
    PROVE  index(i)' = index(i + 1)
<1> USE CapacityAssumption
<1>1. index(1) = IF startIdx + 1 < Capacity THEN startIdx + 1 ELSE startIdx + 1 - Capacity
  BY IndexValue
<1>2. i + 1 \in 0..Capacity
  OBVIOUS
<1>3. index(i + 1) = IF startIdx + (i + 1) < Capacity THEN startIdx + (i + 1)
                                                ELSE startIdx + (i + 1) - Capacity
  BY <1>2, IndexValue
<1>4. startIdx' + i \in Nat /\ startIdx' + i < 2 * Capacity
  BY <1>1
<1>5. PICK x \in Nat : x = startIdx' + i
  BY <1>4
<1>6. wrap(x) = IF x < Capacity THEN x ELSE x - Capacity
  BY <1>4, <1>5, WrapValue
<1>7. index(i)' = wrap(x)
  BY <1>5 DEF index, wrap
<1> QED
  BY <1>1, <1>3, <1>5, <1>6, <1>7

(* Different offsets below the capacity name different slots.              *)
LEMMA IndexInjective ==
    ASSUME startIdx \in 0..(Capacity - 1),
           NEW i \in 0..(Capacity - 1), NEW j \in 0..(Capacity - 1), i # j
    PROVE  index(i) # index(j)
<1> USE CapacityAssumption
<1>1. i \in 0..Capacity /\ j \in 0..Capacity
  OBVIOUS
<1>2. index(i) = IF startIdx + i < Capacity THEN startIdx + i ELSE startIdx + i - Capacity
  BY <1>1, IndexValue
<1>3. index(j) = IF startIdx + j < Capacity THEN startIdx + j ELSE startIdx + j - Capacity
  BY <1>1, IndexValue
<1> QED
  BY <1>2, <1>3

(* A write keeps the ring's contents the latest writes, with room to spare *)
(* and when it pushes the oldest item out.                                 *)
LEMMA WriteKeepsRing ==
    ASSUME ChannelTypeOK(Threads), Window, RingHoldsLatest, write(itemsWritten + 1)
    PROVE  RingHoldsLatest'
<1> USE CapacityAssumption
<1> USE DEF ChannelTypeOK, Window
<1>1. length \in 0..Capacity /\ index(length) \in 0..(Capacity - 1)
  BY IndexValue, SMTT(30)
<1>2. data' = [data EXCEPT ![index(length)] = itemsWritten + 1]
      /\ itemsWritten' = itemsWritten + 1
  BY DEF write
<1>3. CASE spaceLeft
  <2>1. length' = length + 1 /\ startIdx' = startIdx
    BY <1>3 DEF write
  <2>2. SUFFICES ASSUME NEW i \in 0..length
                 PROVE  data'[index(i)'] = itemsWritten' - length' + 1 + i
    BY <2>1 DEF RingHoldsLatest
  <2>3. index(i)' = index(i) /\ index(i) \in 0..(Capacity - 1) /\ i \in 0..(Capacity - 1)
    BY <1>3, <2>1, IndexValue DEF index, wrap, spaceLeft
  <2>4. CASE i = length
    BY <1>1, <1>2, <2>1, <2>3, <2>4
  <2>5. CASE i # length
    <3>1. index(i) # index(length)
      BY <1>3, <2>3, <2>5, IndexInjective DEF spaceLeft
    <3>2. data[index(i)] = itemsWritten - length + 1 + i
      BY <2>5 DEF RingHoldsLatest
    <3> QED
      BY <1>1, <1>2, <2>1, <2>3, <3>1, <3>2
  <2> QED
    BY <2>4, <2>5
<1>4. CASE ~spaceLeft
  <2>1. length' = length /\ length = Capacity /\ startIdx' = index(1)
    BY <1>4 DEF write, spaceLeft
  <2>2. index(Capacity) = startIdx /\ index(0) = startIdx
    BY IndexValue
  <2>3. SUFFICES ASSUME NEW i \in 0..(Capacity - 1)
                 PROVE  data'[index(i)'] = itemsWritten' - length' + 1 + i
    BY <2>1 DEF RingHoldsLatest
  <2>4. index(i)' = index(i + 1)
    BY <2>1, IndexShift
  <2>5. CASE i = Capacity - 1
    BY <1>2, <2>1, <2>2, <2>4, <2>5
  <2>6. CASE i # Capacity - 1
    <3>1. i + 1 \in 0..(Capacity - 1) /\ 0 \in 0..(Capacity - 1) /\ i + 1 # 0
      BY <2>6
    <3>2. index(i + 1) # startIdx /\ index(i + 1) \in 0..(Capacity - 1)
      <4>1. PICK j \in 0..(Capacity - 1) : j = i + 1 /\ j # 0
        BY <3>1
      <4>2. startIdx \in 0..(Capacity - 1) /\ j \in 0..Capacity
        OBVIOUS
      <4>3. index(j) # index(0)
        BY <3>1, <4>1, <4>2, IndexInjective
      <4>4. index(j) \in 0..(Capacity - 1)
        BY <4>2, IndexValue
      <4> QED
        BY <2>2, <4>1, <4>3, <4>4
    <3>3. data[index(i + 1)] = itemsWritten - length + 1 + (i + 1)
      BY <2>1, <3>1 DEF RingHoldsLatest
    <3> QED
      BY <1>2, <2>1, <2>2, <2>4, <3>2, <3>3
  <2> QED
    BY <2>5, <2>6
<1> QED
  BY <1>3, <1>4

(* Removing the front by Ack leaves the rest of the ring as it was.        *)
LEMMA AckKeepsRing ==
    ASSUME ChannelTypeOK(Threads), Window, RingHoldsLatest, Ack
    PROVE  RingHoldsLatest'
<1> USE CapacityAssumption
<1> USE DEF ChannelTypeOK, Window
<1>1. CASE ~toAck
  BY <1>1 DEF Ack, chVars, RingHoldsLatest, index, wrap
<1>2. CASE toAck /\ length <= 1
  BY <1>2 DEF Ack, toAck, RingHoldsLatest
<1>3. CASE toAck /\ length > 1
  <2>1. length' = length - 1 /\ startIdx' = index(1) /\ UNCHANGED <<data, itemsWritten>>
    BY <1>3 DEF Ack
  <2>2. SUFFICES ASSUME NEW i \in 0..(length - 2)
                 PROVE  data'[index(i)'] = itemsWritten' - length' + 1 + i
    BY <2>1 DEF RingHoldsLatest
  <2>3. index(i)' = index(i + 1)
    BY <2>1, IndexShift
  <2>4. data[index(i + 1)] = itemsWritten - length + 1 + (i + 1)
    BY DEF RingHoldsLatest
  <2> QED
    BY <2>1, <2>3, <2>4
<1> QED
  BY <1>1, <1>2, <1>3

(* Every body keeps the ring's contents the latest writes.                 *)
LEMMA BodiesRing ==
    ASSUME ChannelTypeOK(Threads), Window, RingHoldsLatest, Body
    PROVE  RingHoldsLatest'
<1>1. CASE UNCHANGED <<data, startIdx, length, itemsWritten>>
  BY <1>1 DEF RingHoldsLatest, index, wrap
<1>2. CASE Reset
  BY <1>2 DEF Reset, RingHoldsLatest
<1>3. CASE ~Reset /\ ~Ack /\ ~write(itemsWritten + 1)
  <2>1. UNCHANGED <<data, startIdx, length, itemsWritten>>
    BY <1>3 DEF Body, Rewind, CloseWriting, Close, chVars, ParkReader, ParkWriter
  <2> QED
    BY <2>1, <1>1
<1> QED
  BY <1>2, <1>3, WriteKeepsRing, AckKeepsRing

(* RingHoldsLatest is inductive relative to the counters.                  *)
LEMMA RingStep == CInv /\ RingHoldsLatest /\ [Next]_vars => RingHoldsLatest'
<1> SUFFICES ASSUME CInv, RingHoldsLatest, [Next]_vars PROVE RingHoldsLatest'
  OBVIOUS
<1>1. CASE UNCHANGED <<data, startIdx, length, itemsWritten>>
  BY <1>1 DEF RingHoldsLatest, index, wrap
<1>2. CASE Body
  BY <1>2, BodiesRing DEF CInv, TypeOK
<1>3. CASE OthersStep
  BY <1>1, <1>2, <1>3, OthersTakeBodies DEF CInv, chVars
<1>4. CASE ReaderStep \/ UNCHANGED vars
  BY <1>1, <1>4 DEF ReaderStep, ReaderWaits, BeginRead, ReadDone, ReadUndone, ParkReader, read,
     ReadSucceeded, ReadFailed, vars, chVars
<1> QED
  BY <1>3, <1>4 DEF Next, OthersStep

(* The ring holds the latest ch.length writes in order, whatever mix of    *)
(* overwriting, acknowledging, rewinding and resetting led there.          *)
THEOREM RingHoldsLatestHolds == Spec => []RingHoldsLatest
<1>1. Init => RingHoldsLatest
  BY DEF Init, NewByteChannel, RingHoldsLatest
<1> QED
  BY <1>1, CInvInit, CInvStep, RingStep, PTL DEF Spec

(* The slot ReadToCallback hands out was written, so "size zero - this     *)
(* should not happen" (tls_client.go:177) does not happen for want of a    *)
(* write.                                                                  *)
THEOREM SizeNeverZeroHolds == Spec => []SizeNeverZero
<1>1. CInv /\ RingHoldsLatest => SizeNeverZero
  <2> SUFFICES ASSUME CInv, RingHoldsLatest, rpc = "callback"
               PROVE  data[index(awaitingAck - 1)] # NeverWritten
    BY DEF SizeNeverZero
  <2>1. awaitingAck - 1 \in 0..(length - 1)
    BY DEF CInv, ReaderKnows, toAck, Window, TypeOK, ChannelTypeOK
  <2>2. data[index(awaitingAck - 1)] = itemsWritten - length + 1 + (awaitingAck - 1)
    BY <2>1 DEF RingHoldsLatest
  <2> QED
    BY <2>1, <2>2 DEF CInv, Window, TypeOK, ChannelTypeOK, NeverWritten
<1>2. Init => RingHoldsLatest
  BY DEF Init, NewByteChannel, RingHoldsLatest
<1> QED
  BY <1>1, <1>2, CInvInit, CInvStep, RingStep, PTL DEF Spec

----------------------------------------------------------------------------
(* What a body does to the sleepers: it wakes all that wait on a condition *)
(* variable, or it ends none of their loops.                               *)
LEMMA BodiesWake ==
    ASSUME ChannelTypeOK(Threads), Window, Body
    PROVE  /\ writeCond' = {} \/ (~spaceLeft /\ ~closedWriting => ~spaceLeft' /\ ~closedWriting')
           /\ writeCond' = {} \/ (~empty /\ ~closed => ~empty' /\ ~closed')
           /\ writeCond' = {} \/ ((awaitingAck <= 0) /\ ~closed => (awaitingAck <= 0)' /\ ~closed')
           /\ readCond' = {} \/ (~toRead /\ ~closed => ~toRead' /\ ~closed')
<1> USE CapacityAssumption DEF ChannelTypeOK, Window, toRead, unread, empty, spaceLeft, toAck
<1>1. CASE write(itemsWritten + 1)
  BY <1>1 DEF write
<1>2. CASE Ack
  BY <1>2 DEF Ack, chVars
<1>3. CASE Rewind
  BY <1>3 DEF Rewind
<1>4. CASE CloseWriting
  BY <1>4 DEF CloseWriting, chVars
<1>5. CASE Close
  BY <1>5 DEF Close, chVars
<1>6. CASE Reset
  BY <1>6 DEF Reset
<1>7. CASE \E t \in Threads : ParkReader(t) \/ ParkWriter(t)
  BY <1>7 DEF ParkReader, ParkWriter
<1> QED
  BY <1>1, <1>2, <1>3, <1>4, <1>5, <1>6, <1>7 DEF Body

(* A goroutine is put to sleep by its own step only.                       *)
LEMMA OwnParking ==
    ASSUME OthersStep
    PROVE  /\ "reader" \in readCond' => "reader" \in readCond
           /\ "acker" \in writeCond' /\ "acker" \notin writeCond => AckerWaits
           /\ "flusher" \in writeCond' /\ "flusher" \notin writeCond => FlusherWaits
           /\ \A w \in Writers :
                 w \in writeCond' /\ w \notin writeCond => WriteOrBlock(w) \/ WriterWakes(w)
<1> USE ChannelAssumption
<1>1. ASSUME NEW w \in Writers, WriterStep(w)
      PROVE  /\ readCond' \subseteq readCond
             /\ writeCond' \subseteq writeCond
                \/ (writeCond' = writeCond \cup {w} /\ (WriteOrBlock(w) \/ WriterWakes(w)))
  BY <1>1 DEF WriterStep, WriteOrReplace, WriteOrFail, WriteOrBlock, WriterWakes, DoWrite,
     write, ParkWriter, chVars
<1>2. AckerStep =>
        /\ readCond' \subseteq readCond
        /\ writeCond' \subseteq writeCond
           \/ (writeCond' = writeCond \cup {"acker"} /\ AckerWaits)
  BY DEF AckerStep, AckerWaits, AckerAcks, AckerRewinds, AckerSkips, ParkWriter, Ack,
     Rewind, chVars
<1>3. FlusherStep =>
        /\ readCond' \subseteq readCond
        /\ writeCond' \subseteq writeCond
           \/ (writeCond' = writeCond \cup {"flusher"} /\ FlusherWaits)
  BY DEF FlusherStep, FlusherCalls, FlusherWaits, ParkWriter, chVars
<1>4. AnyoneStep => readCond' \subseteq readCond /\ writeCond' \subseteq writeCond
  BY DEF AnyoneStep, ClosesWriting, Closes, Resets, CloseWriting, Close, Reset, chVars
<1>5. CASE \E w \in Writers : WriterStep(w)
  BY <1>1, <1>5
<1>6. CASE AckerStep \/ FlusherStep \/ AnyoneStep
  BY <1>2, <1>3, <1>4, <1>6
<1> QED
  BY <1>5, <1>6 DEF OthersStep

(* The steps of everyone but the reader lose no wakeup.                    *)
LEMMA OthersWakeup ==
    ASSUME CInv, NoLostWakeup, OthersStep
    PROVE  NoLostWakeup'
<1>1. rpc' = rpc /\ (UNCHANGED chVars \/ (Unlocked /\ Body))
  BY OthersTakeBodies DEF CInv
<1>2. /\ writeCond' = {} \/ (~spaceLeft /\ ~closedWriting => ~spaceLeft' /\ ~closedWriting')
      /\ writeCond' = {} \/ (~empty /\ ~closed => ~empty' /\ ~closed')
      /\ readCond' = {} \/ (~toRead /\ ~closed => ~toRead' /\ ~closed')
  BY <1>1, BodiesWake DEF CInv, TypeOK, chVars, spaceLeft, empty, toRead, unread
<1>3. ReaderAsleep'
  BY <1>1, <1>2, OwnParking DEF NoLostWakeup, ReaderAsleep
<1>4. ASSUME NEW w \in Writers PROVE WriterAsleep(w)'
  <2> SUFFICES ASSUME w \in writeCond'
               PROVE  wpc'[w] = "blocked" /\ ~spaceLeft' /\ ~closedWriting'
    BY DEF WriterAsleep
  <2>1. CASE w \in writeCond
    <3>1. wpc[w] = "blocked" /\ ~spaceLeft /\ ~closedWriting
      BY <2>1 DEF NoLostWakeup, WriterAsleep
    <3>2. wpc'[w] = wpc[w]
      <4>1. ASSUME NEW v \in Writers, WriterStep(v) PROVE wpc'[w] = wpc[w]
        BY <2>1, <3>1, <4>1 DEF WriterStep, WriteOrReplace, WriteOrFail, WriteOrBlock,
           WriterWakes, CInv, TypeOK
      <4>2. CASE AckerStep \/ FlusherStep \/ AnyoneStep
        BY <4>2 DEF AckerStep, AckerWaits, AckerAcks, AckerRewinds, AckerSkips,
           FlusherStep, FlusherCalls, FlusherWaits, AnyoneStep, ClosesWriting, Closes, Resets
      <4> QED
        BY <4>1, <4>2 DEF OthersStep
    <3> QED
      BY <1>2, <3>1, <3>2
  <2>2. CASE w \notin writeCond
    <3>1. WriteOrBlock(w) \/ WriterWakes(w)
      BY <2>2, OwnParking
    <3>2. WriteOrBlockVerdict = "park" /\ ParkWriter(w)
      BY <2>2, <3>1 DEF WriteOrBlock, WriterWakes, DoWrite, write, chVars, WriteOrBlockVerdict
    <3>3. ~spaceLeft /\ ~closedWriting
      BY <3>2 DEF WriteOrBlockVerdict
    <3>4. wpc'[w] = "blocked"
      BY <3>1, <3>2 DEF WriteOrBlock, WriterWakes, WriteOrBlockVerdict, CInv, TypeOK
    <3> QED
      BY <3>2, <3>3, <3>4 DEF ParkWriter, spaceLeft
  <2> QED
    BY <2>1, <2>2
<1>5. AckerAsleep'
  <2> SUFFICES ASSUME "acker" \in writeCond'
               PROVE  apc' = "wait" /\ awaitingAck' <= Tentative' /\ ~closed'
    BY DEF AckerAsleep
  <2>1. CASE "acker" \in writeCond
    <3>1. apc = "wait" /\ awaitingAck <= Tentative /\ ~closed
      BY <2>1 DEF NoLostWakeup, AckerAsleep
    <3>2. apc' = apc
      BY <2>1, <3>1 DEF OthersStep, WriterStep, WriteOrReplace, WriteOrFail, WriteOrBlock,
         WriterWakes, AckerStep, AckerWaits, AckerAcks, AckerRewinds, AckerSkips,
         FlusherStep, FlusherCalls, FlusherWaits, AnyoneStep, ClosesWriting, Closes, Resets
    <3>3. CASE UNCHANGED chVars
      BY <1>1, <3>1, <3>2, <3>3 DEF chVars, Tentative
    <3>4. CASE Unlocked /\ Body
      <4>1. Tentative = 0 /\ Tentative' = 0
        BY <1>1, <3>4 DEF Unlocked, Tentative
      <4>2. awaitingAck' <= 0 /\ ~closed'
        BY <3>1, <3>4, <4>1, BodiesWake DEF CInv, TypeOK
      <4> QED
        BY <3>1, <3>2, <4>1, <4>2
    <3> QED
      BY <1>1, <3>3, <3>4
  <2>2. CASE "acker" \notin writeCond
    <3>1. AckerWaits
      BY <2>2, OwnParking
    <3>2. WaitUntilReadVerdict = "park" /\ ParkWriter("acker") /\ apc' = "wait" /\ Unlocked
      BY <2>2, <3>1 DEF AckerWaits, chVars
    <3>3. ~closed /\ ~toAck
      BY <3>2 DEF WaitUntilReadVerdict
    <3>4. awaitingAck <= 0
      BY <3>3 DEF toAck, CInv, TypeOK, ChannelTypeOK
    <3>5. Tentative' = 0
      BY <1>1, <3>2 DEF Tentative, Unlocked
    <3> QED
      BY <3>2, <3>3, <3>4, <3>5 DEF ParkWriter
  <2> QED
    BY <2>1, <2>2
<1>6. FlusherAsleep'
  <2> SUFFICES ASSUME "flusher" \in writeCond'
               PROVE  fpc' = "wait" /\ ~empty' /\ ~closed'
    BY DEF FlusherAsleep
  <2>1. CASE "flusher" \in writeCond
    <3>1. fpc = "wait" /\ ~empty /\ ~closed
      BY <2>1 DEF NoLostWakeup, FlusherAsleep
    <3>2. fpc' = fpc
      BY <2>1, <3>1 DEF OthersStep, WriterStep, WriteOrReplace, WriteOrFail, WriteOrBlock,
         WriterWakes, AckerStep, AckerWaits, AckerAcks, AckerRewinds, AckerSkips,
         FlusherStep, FlusherCalls, FlusherWaits, AnyoneStep, ClosesWriting, Closes, Resets
    <3> QED
      BY <1>2, <3>1, <3>2
  <2>2. CASE "flusher" \notin writeCond
    <3>1. FlusherWaits
      BY <2>2, OwnParking
    <3>2. WaitUntilEmptyVerdict = "park" /\ ParkWriter("flusher") /\ fpc' = "wait"
      BY <2>2, <3>1 DEF FlusherWaits, chVars
    <3>3. ~closed /\ ~empty
      BY <3>2 DEF WaitUntilEmptyVerdict
    <3> QED
      BY <3>2, <3>3 DEF ParkWriter, empty
  <2> QED
    BY <2>1, <2>2
<1> QED
  BY <1>3, <1>4, <1>5, <1>6 DEF NoLostWakeup

(* NoLostWakeup is inductive relative to the counters.                     *)
LEMMA WakeupStep == CInv /\ NoLostWakeup /\ [Next]_vars => NoLostWakeup'
<1> SUFFICES ASSUME CInv, NoLostWakeup, [Next]_vars PROVE NoLostWakeup'
  OBVIOUS
<1> USE ChannelAssumption
<1>1. CASE OthersStep
  BY <1>1, OthersWakeup
<1>2. CASE UNCHANGED vars
  BY <1>2 DEF NoLostWakeup, WriterAsleep, ReaderAsleep, AckerAsleep, FlusherAsleep, vars, chVars,
     spaceLeft, toRead, unread, empty, Tentative
<1>3. CASE ReaderStep
  <2>1. UNCHANGED <<wpc, apc, fpc, closed, closedWriting, length>>
        /\ writeCond' \subseteq writeCond
    BY <1>3 DEF ReaderStep, ReaderWaits, BeginRead, ReadDone, ReadUndone, ParkReader, read,
       ReadSucceeded, ReadFailed, chVars
  <2>2. (\A w \in Writers : WriterAsleep(w))' /\ FlusherAsleep'
    BY <2>1 DEF NoLostWakeup, WriterAsleep, FlusherAsleep, spaceLeft, empty
  <2>3. CASE ReaderWaits
    <3>1. AckerAsleep'
      BY <2>1, <2>3 DEF ReaderWaits, NoLostWakeup, AckerAsleep, Tentative, ParkReader, chVars,
         WaitVerdict
    <3>2. ReaderAsleep'
      BY <2>3 DEF ReaderWaits, NoLostWakeup, ReaderAsleep, ParkReader, chVars, WaitVerdict,
         toRead, unread
    <3> QED
      BY <2>2, <3>1, <3>2 DEF NoLostWakeup
  <2>4. CASE BeginRead
    <3>1. ReaderAsleep'
      BY <2>4 DEF BeginRead, NoLostWakeup, ReaderAsleep, read, chVars
    <3>2. AckerAsleep'
      BY <2>1, <2>4 DEF BeginRead, NoLostWakeup, AckerAsleep, Tentative, read, chVars, CInv,
         TypeOK, ChannelTypeOK
    <3> QED
      BY <2>2, <3>1, <3>2 DEF NoLostWakeup
  <2>5. CASE ReadDone
    BY <2>2, <2>5 DEF ReadDone, ReadSucceeded, NoLostWakeup, ReaderAsleep, AckerAsleep
  <2>6. CASE ReadUndone
    <3>1. ReaderAsleep'
      BY <2>6 DEF ReadUndone, ReadFailed, ReaderAsleep
    <3>2. AckerAsleep'
      BY <2>1, <2>6 DEF ReadUndone, ReadFailed, undoRead, NoLostWakeup, AckerAsleep, Tentative,
         CInv, TypeOK, ChannelTypeOK
    <3> QED
      BY <2>2, <3>1, <3>2 DEF NoLostWakeup
  <2> QED
    BY <1>3, <2>3, <2>4, <2>5, <2>6 DEF ReaderStep
<1> QED
  BY <1>1, <1>2, <1>3 DEF Next, OthersStep

(* No goroutine sleeps through the event it waits for, for any number of   *)
(* writers: every method broadcasts where it has to.                       *)
THEOREM NoLostWakeupHolds == Spec => []NoLostWakeup
<1>1. Init => NoLostWakeup
  BY DEF Init, NewByteChannel, NoLostWakeup, WriterAsleep, ReaderAsleep, AckerAsleep, FlusherAsleep
<1> QED
  BY <1>1, CInvInit, CInvStep, WakeupStep, PTL DEF Spec

----------------------------------------------------------------------------
(***************************************************************************)
(* The ring buffer implements the LeakyQueue.  What RingHoldsLatest says   *)
(* slot by slot makes the contents of the ring a sequence that two numbers *)
(* determine: how many items it holds and how many were written.           *)
(***************************************************************************)

(* The latest n of w writes, oldest first.                                 *)
Latest(n, w) == [i \in 1..n |-> w - n + i]

(* It is a sequence of n numbers.                                          *)
LEMMA LatestType ==
    ASSUME NEW n \in Nat, NEW w \in Nat, n <= w
    PROVE  Latest(n, w) \in Seq(Nat) /\ Len(Latest(n, w)) = n
  BY DEF Latest

(* Another write joins at the back.                                        *)
LEMMA LatestAppend ==
    ASSUME NEW n \in Nat, NEW w \in Nat, n <= w
    PROVE  Append(Latest(n, w), w + 1) = Latest(n + 1, w + 1)
<1>1. PICK s \in Seq(Nat) : s = Latest(n, w) /\ Len(s) = n
  BY LatestType
<1>2. PICK t \in Seq(Nat) : t = Latest(n + 1, w + 1) /\ Len(t) = n + 1
  <2>1. n + 1 \in Nat /\ w + 1 \in Nat /\ n + 1 <= w + 1
    OBVIOUS
  <2> QED
    BY <2>1, LatestType
<1>3. /\ Append(s, w + 1) \in Seq(Nat) /\ Len(Append(s, w + 1)) = n + 1
      /\ \A i \in 1..n : Append(s, w + 1)[i] = s[i]
      /\ Append(s, w + 1)[n + 1] = w + 1
  BY <1>1, AppendProperties
<1>4. \A i \in 1..(n + 1) : Append(s, w + 1)[i] = t[i]
  <2> SUFFICES ASSUME NEW i \in 1..(n + 1) PROVE Append(s, w + 1)[i] = t[i]
    OBVIOUS
  <2>1. t[i] = (w + 1) - (n + 1) + i
    BY <1>2 DEF Latest
  <2>2. CASE i \in 1..n
    <3>1. s[i] = w - n + i
      BY <1>1, <2>2 DEF Latest
    <3> QED
      BY <1>3, <2>1, <2>2, <3>1
  <2>3. CASE i = n + 1
    BY <1>3, <2>1, <2>3
  <2>4. i \in 1..n \/ i = n + 1
    OBVIOUS
  <2> QED
    BY <2>2, <2>3, <2>4, Zenon
<1>5. Append(s, w + 1) = t
  BY <1>2, <1>3, <1>4, SeqEqual
<1> QED
  BY <1>1, <1>2, <1>5

(* The oldest one leaves.                                                  *)
LEMMA LatestTail ==
    ASSUME NEW n \in Nat, NEW w \in Nat, 0 < n, n <= w
    PROVE  Tail(Latest(n, w)) = Latest(n - 1, w)
<1>1. PICK s \in Seq(Nat) : s = Latest(n, w) /\ Len(s) = n
  BY LatestType
<1>2. PICK t \in Seq(Nat) : t = Latest(n - 1, w) /\ Len(t) = n - 1
  <2>1. n - 1 \in Nat /\ n - 1 <= w
    OBVIOUS
  <2> QED
    BY <2>1, LatestType
<1>3. /\ Tail(s) \in Seq(Nat) /\ Len(Tail(s)) = n - 1
      /\ \A i \in 1..(n - 1) : Tail(s)[i] = s[i + 1]
  <2>1. s # <<>>
    BY <1>1
  <2> QED
    BY <1>1, <2>1, HeadTailProperties
<1>4. \A i \in 1..(n - 1) : Tail(s)[i] = t[i]
  <2> SUFFICES ASSUME NEW i \in 1..(n - 1) PROVE Tail(s)[i] = t[i]
    OBVIOUS
  <2>1. s[i + 1] = w - n + (i + 1)
    BY <1>1 DEF Latest
  <2>2. t[i] = w - (n - 1) + i
    BY <1>2 DEF Latest
  <2> QED
    BY <1>3, <2>1, <2>2
<1>5. Tail(s) = t
  BY <1>2, <1>3, <1>4, SeqEqual
<1> QED
  BY <1>1, <1>2, <1>5

----------------------------------------------------------------------------
(* What the ring holds is the latest length writes.                        *)
HoldsLatest ==
    /\ Contents = Latest(length, itemsWritten)
    /\ Len(Contents) = length

(* RingHoldsLatest, as a statement about a sequence.                       *)
LEMMA ContentsAreLatest == CInv /\ RingHoldsLatest => HoldsLatest
<1> SUFFICES ASSUME CInv, RingHoldsLatest PROVE HoldsLatest
  OBVIOUS
<1>1. length \in Nat /\ itemsWritten \in Nat /\ length <= itemsWritten
  BY DEF CInv, TypeOK, ChannelTypeOK, Window
<1>2. ASSUME NEW i \in 1..length
      PROVE  data[index(i - 1)] = itemsWritten - length + i
  <2>1. i - 1 \in 0..(length - 1)
    BY <1>1
  <2>2. data[index(i - 1)] = itemsWritten - length + 1 + (i - 1)
    BY <2>1 DEF RingHoldsLatest
  <2> QED
    BY <1>1, <2>2
<1>3. Contents = Latest(length, itemsWritten)
  BY <1>2 DEF Contents, Latest
<1> QED
  BY <1>1, <1>3, LatestType DEF HoldsLatest

(* ch.write appends, pushing the front out of a full ring, and with it     *)
(* one item out of the window.                                             *)
LEMMA WriteIsPut ==
    ASSUME CInv, HoldsLatest, HoldsLatest',
           write(itemsWritten + 1), Unlocked, rpc' = rpc
    PROVE  Queue!Put
<1> DEFINE n == length
           w == itemsWritten
<1>1. /\ n \in Nat /\ w \in Nat /\ n <= w /\ n <= Capacity
      /\ awaitingAck \in Int /\ 0 <= awaitingAck
  BY DEF CInv, TypeOK, ChannelTypeOK, Window
<1>2. /\ Contents = Latest(n, w) /\ Len(Contents) = n
      /\ Contents' = Latest(length', itemsWritten') /\ itemsWritten' = w + 1
  BY DEF HoldsLatest, write
<1>3. Tentative = 0 /\ Tentative' = 0
  BY DEF Unlocked, Tentative
<1>4. CASE spaceLeft
  <2>1. length' = n + 1 /\ awaitingAck' = awaitingAck /\ n < Capacity
    BY <1>4 DEF write, spaceLeft
  <2>2. Contents' = Append(Contents, w + 1)
    BY <1>1, <1>2, <2>1, LatestAppend
  <2> QED
    BY <1>2, <1>3, <2>1, <2>2 DEF Queue!Put
<1>5. CASE ~spaceLeft
  <2>1. /\ length' = n /\ n = Capacity
        /\ awaitingAck' = IF awaitingAck > 0 THEN awaitingAck - 1 ELSE awaitingAck
    BY <1>1, <1>5, CapacityAssumption DEF write, spaceLeft, toAck
  <2>2. 0 < n /\ n - 1 \in Nat /\ n - 1 <= w
    BY <1>1, <2>1, CapacityAssumption
  <2>3. Tail(Contents) = Latest(n - 1, w)
    BY <1>1, <1>2, <2>2, LatestTail
  <2>4. Append(Latest(n - 1, w), w + 1) = Latest((n - 1) + 1, w + 1)
    BY <1>1, <2>2, LatestAppend
  <2>5. (n - 1) + 1 = n
    BY <1>1
  <2>6. Contents' = Append(Tail(Contents), w + 1)
    BY <1>2, <2>1, <2>3, <2>4, <2>5
  <2>7. awaitingAck' - Tentative' = IF awaitingAck - Tentative > 0
                                    THEN awaitingAck - Tentative - 1 ELSE 0
    BY <1>1, <1>3, <2>1
  <2> QED
    BY <1>2, <2>1, <2>6, <2>7 DEF Queue!Put
<1> QED
  BY <1>4, <1>5

(* ch.Ack removes the front of the window.                                 *)
LEMMA AckIsAcknowledge ==
    ASSUME CInv, HoldsLatest, HoldsLatest', Ack, toAck, Unlocked, rpc' = rpc
    PROVE  Queue!Acknowledge
<1>1. /\ length' = length - 1 /\ awaitingAck' = awaitingAck - 1 /\ itemsWritten' = itemsWritten
  BY DEF Ack
<1>2. /\ length \in Nat /\ itemsWritten \in Nat /\ length <= itemsWritten
      /\ awaitingAck \in Int /\ 0 < awaitingAck /\ awaitingAck <= length
  BY DEF CInv, TypeOK, ChannelTypeOK, Window, toAck
<1>3. Contents = Latest(length, itemsWritten) /\ Contents' = Latest(length', itemsWritten')
  BY DEF HoldsLatest
<1>4. Contents' = Tail(Contents)
  BY <1>1, <1>2, <1>3, LatestTail
<1>5. Tentative = 0 /\ Tentative' = 0
  BY DEF Unlocked, Tentative
<1> QED
  BY <1>1, <1>2, <1>4, <1>5 DEF Queue!Acknowledge

(* ch.Rewind takes back what was handed out, ch.Reset drops everything.    *)
LEMMA ClearsAndTakesBack ==
    ASSUME CInv, Unlocked, rpc' = rpc
    PROVE  /\ Rewind => Queue!TakeBack
           /\ Reset => Queue!Clear
<1>1. Tentative = 0 /\ Tentative' = 0
  BY DEF Unlocked, Tentative
<1>2. Rewind => Contents' = Contents
  BY DEF Rewind, Contents, index, wrap
<1>3. Reset => Contents' = <<>>
  BY DEF Reset, Contents
<1> QED
  BY <1>1, <1>2, <1>3 DEF Rewind, Reset, Queue!TakeBack, Queue!Clear

(* Every other body leaves the queue alone.                                *)
LEMMA OthersRefine ==
    ASSUME CInv, HoldsLatest, HoldsLatest', OthersStep
    PROVE  Queue!Next \/ UNCHANGED <<Contents, awaitingAck - Tentative, itemsWritten>>
<1>1. rpc' = rpc /\ (UNCHANGED chVars \/ (Unlocked /\ Body))
  BY OthersTakeBodies DEF CInv
<1>2. CASE UNCHANGED <<data, startIdx, length, awaitingAck, itemsWritten>>
  <2>1. Contents' = Contents /\ Tentative' = Tentative
    BY <1>1, <1>2 DEF Contents, index, wrap, Tentative
  <2> QED
    BY <1>2, <2>1
<1>3. CASE UNCHANGED chVars
  BY <1>2, <1>3 DEF chVars
<1>4. CASE Unlocked /\ Body
  <2>1. CASE write(itemsWritten + 1)
    BY <1>1, <1>4, <2>1, WriteIsPut DEF Queue!Next
  <2>2. CASE Ack
    <3>1. CASE toAck
      BY <1>1, <1>4, <2>2, <3>1, AckIsAcknowledge DEF Queue!Next
    <3>2. CASE ~toAck
      BY <1>3, <2>2, <3>2 DEF Ack
    <3> QED
      BY <3>1, <3>2
  <2>3. CASE Rewind \/ Reset
    BY <1>1, <1>4, <2>3, ClearsAndTakesBack DEF Queue!Next
  <2>4. CASE CloseWriting \/ Close \/ \E t \in Threads : ParkReader(t) \/ ParkWriter(t)
    BY <1>2, <2>4 DEF CloseWriting, Close, ParkReader, ParkWriter, chVars
  <2> QED
    BY <1>4, <2>1, <2>2, <2>3, <2>4 DEF Body
<1> QED
  BY <1>1, <1>3, <1>4

(* ReadToCallback hands an item out when its callback returns nil; an      *)
(* undone read never shows.                                                *)
LEMMA ReaderRefines ==
    ASSUME CInv, HoldsLatest, ReaderStep
    PROVE  Queue!Next \/ UNCHANGED <<Contents, awaitingAck - Tentative, itemsWritten>>
<1>1. /\ UNCHANGED <<data, startIdx, length, itemsWritten>>
  BY DEF ReaderStep, ReaderWaits, BeginRead, ReadDone, ReadUndone, ParkReader, read,
     ReadSucceeded, ReadFailed, chVars
<1>2. Contents' = Contents /\ Len(Contents) = length
  BY <1>1 DEF HoldsLatest, Contents, index, wrap
<1>3. awaitingAck \in Int /\ length \in Int /\ awaitingAck <= length
  BY DEF CInv, TypeOK, ChannelTypeOK, Window
<1>4. CASE ReaderWaits
  <2>1. awaitingAck' = awaitingAck /\ Tentative = 0 /\ Tentative' = 0
    BY <1>4 DEF ReaderWaits, ParkReader, chVars, Tentative, WaitVerdict
  <2> QED
    BY <1>1, <1>2, <2>1
<1>5. CASE BeginRead
  <2>1. awaitingAck' - Tentative' = awaitingAck - Tentative
    BY <1>3, <1>5 DEF BeginRead, read, chVars, Tentative
  <2> QED
    BY <1>1, <1>2, <2>1
<1>6. CASE ReadDone
  <2>1. awaitingAck' = awaitingAck /\ Tentative = 1 /\ Tentative' = 0
    BY <1>6 DEF ReadDone, ReadSucceeded, Tentative
  <2>2. Queue!Take
    BY <1>1, <1>2, <1>3, <2>1 DEF Queue!Take
  <2> QED
    BY <2>2 DEF Queue!Next
<1>7. CASE ReadUndone
  <2>1. awaitingAck' - Tentative' = awaitingAck - Tentative
    BY <1>3, <1>7 DEF ReadUndone, ReadFailed, undoRead, Tentative
  <2> QED
    BY <1>1, <1>2, <2>1
<1> QED
  BY <1>4, <1>5, <1>6, <1>7 DEF ReaderStep

(* Every step of the goroutines is a step of the queue, or none.           *)
LEMMA QueueStep ==
    CInv /\ HoldsLatest /\ HoldsLatest' /\ [Next]_vars
        => [Queue!Next]_<<Contents, awaitingAck - Tentative, itemsWritten>>
<1> SUFFICES ASSUME CInv, HoldsLatest, HoldsLatest', [Next]_vars
             PROVE  Queue!Next \/ UNCHANGED <<Contents, awaitingAck - Tentative, itemsWritten>>
  OBVIOUS
<1>1. CASE UNCHANGED vars
  <2>1. UNCHANGED <<data, startIdx, length, awaitingAck, itemsWritten, rpc>>
    BY <1>1 DEF vars, chVars
  <2>2. Contents' = Contents /\ Tentative' = Tentative
    BY <2>1 DEF Contents, index, wrap, Tentative
  <2> QED
    BY <2>1, <2>2
<1> QED
  BY <1>1, OthersRefine, ReaderRefines DEF Next, OthersStep

(* A new channel is an empty queue.                                        *)
LEMMA QueueInit == Init => Queue!Init
<1> SUFFICES ASSUME Init PROVE Queue!Init
  OBVIOUS
<1>1. length = 0 /\ awaitingAck = 0 /\ itemsWritten = 0 /\ Tentative = 0
  BY DEF Init, NewByteChannel, Tentative
<1>2. Contents = <<>>
  BY <1>1 DEF Contents
<1> QED
  BY <1>1, <1>2 DEF Queue!Init

(* The ring buffer, its indices and its lock implement the bounded queue   *)
(* with a window: items are handed out, acknowledged and pushed out from   *)
(* the front only, in the order of the writes, and a read that is undone   *)
(* was never visible (byte_channel.go).                                    *)
THEOREM ChannelRefines == Spec => ImplementsLeakyQueue
<1>1. Init => RingHoldsLatest
  BY DEF Init, NewByteChannel, RingHoldsLatest
<1> QED
  BY <1>1, CInvInit, CInvStep, RingStep, ContentsAreLatest, QueueInit, QueueStep, PTL
     DEF Spec, ImplementsLeakyQueue, Queue!Spec

----------------------------------------------------------------------------
(***************************************************************************)
(* CopyTo.  Its loop writes Capacity items into the other channel; the     *)
(* induction over the loop is FoldGoesThrough of FoldProofs, with the body *)
(* of the loop for Op.                                                     *)
(***************************************************************************)

(* Where an item goes in a ring of n slots.                                *)
LEMMA SlotValue ==
    ASSUME NEW n \in Nat \ {0}, NEW s \in 0..(n - 1), NEW i \in 0..(n - 1)
    PROVE  /\ (s + i) % n = IF s + i < n THEN s + i ELSE s + i - n
           /\ (s + i) % n \in 0..(n - 1)
<1>1. ASSUME NEW y \in Nat, y < n PROVE y % n = y
  BY <1>1
<1>2. ASSUME NEW y \in Nat, y >= n, y < 2 * n PROVE y % n = y - n
  BY <1>2
<1> QED
  BY <1>1, <1>2

(* Positions in the ring stay inside it.                                   *)
LEMMA ModRange ==
    ASSUME NEW n \in Nat \ {0}, NEW y \in Nat
    PROVE  y % n \in 0..(n - 1)
  OBVIOUS

(* Channels with n slots.                                                  *)
ChannelOf(n) ==
    [capacity : {n}, startIdx : 0..(n - 1), length : Nat, awaitingAck : Int,
     data : [0..(n - 1) -> Nat]]

(* dst.write makes such a channel of one.                                  *)
LEMMA WrittenToType ==
    ASSUME NEW n \in Nat \ {0}, NEW d \in ChannelOf(n), NEW item \in Nat
    PROVE  WrittenTo(d, item) \in ChannelOf(n)
<1> DEFINE full == d.length >= d.capacity
           slot == (d.startIdx + d.length) % d.capacity
           e == WrittenTo(d, item)
<1>1. /\ d.capacity = n /\ d.data \in [0..(n - 1) -> Nat] /\ d.startIdx \in 0..(n - 1)
      /\ d.length \in Nat /\ d.awaitingAck \in Int
  BY DEF ChannelOf
<1>3. /\ d.startIdx + d.length \in Nat /\ d.startIdx + 1 \in Nat
  BY <1>1
<1>4. slot \in 0..(n - 1) /\ (d.startIdx + 1) % n \in 0..(n - 1)
  BY <1>1, <1>3, ModRange
<1>5. e = [capacity |-> d.capacity,
           startIdx |-> IF full THEN (d.startIdx + 1) % d.capacity ELSE d.startIdx,
           length |-> IF full THEN d.length ELSE d.length + 1,
           awaitingAck |-> IF full /\ d.awaitingAck > 0 THEN d.awaitingAck - 1
                           ELSE d.awaitingAck,
           data |-> [d.data EXCEPT ![slot] = item]]
  BY DEF WrittenTo
<1>6. [d.data EXCEPT ![slot] = item] \in [0..(n - 1) -> Nat]
  BY <1>1, <1>4
<1> HIDE DEF slot
<1>7. /\ (IF full THEN (d.startIdx + 1) % d.capacity ELSE d.startIdx) \in 0..(n - 1)
      /\ (IF full THEN d.length ELSE d.length + 1) \in Nat
      /\ (IF full /\ d.awaitingAck > 0 THEN d.awaitingAck - 1 ELSE d.awaitingAck) \in Int
  <2>1. (d.startIdx + 1) % d.capacity \in 0..(n - 1)
    BY <1>1, <1>4
  <2>2. (IF full THEN (d.startIdx + 1) % d.capacity ELSE d.startIdx) \in 0..(n - 1)
    BY <1>1, <2>1, Zenon
  <2>3. d.length + 1 \in Nat /\ d.awaitingAck - 1 \in Int
    BY <1>1
  <2> QED
    BY <1>1, <2>2, <2>3, Zenon
<1> QED
  BY <1>1, <1>5, <1>6, <1>7 DEF ChannelOf

(* e is d with one item more behind the others.                            *)
Appended(e, d, item, n) ==
    /\ e.startIdx = d.startIdx /\ e.length = d.length + 1
    /\ e.data = [d.data EXCEPT ![(d.startIdx + d.length) % n] = item]

(* With room left dst.write only appends.                                  *)
LEMMA WrittenToAppends ==
    ASSUME NEW n \in Nat \ {0}, NEW d \in ChannelOf(n), NEW item \in Nat, d.length < n
    PROVE  Appended(WrittenTo(d, item), d, item, n)
<1>1. d.capacity = n /\ ~(d.length >= n) /\ d.length \in Nat
  BY DEF ChannelOf
<1>2. WrittenTo(d, item) =
         [capacity |-> d.capacity, startIdx |-> d.startIdx, length |-> d.length + 1,
          awaitingAck |-> d.awaitingAck,
          data |-> [d.data EXCEPT ![(d.startIdx + d.length) % d.capacity] = item]]
  BY <1>1 DEF WrittenTo
<1> QED
  BY <1>1, <1>2 DEF Appended

(* h lists the channels CopyTo(dst) goes through.                          *)
CopiesThrough(h, n, dst) ==
    /\ h \in [0..Capacity -> ChannelOf(n)]
    /\ h[0] = dst
    /\ \A k \in 1..Capacity : h[k] = WrittenTo(h[k - 1], data[index(k - 1)])
    /\ CopyTo(dst).startIdx = h[Capacity].startIdx
    /\ CopyTo(dst).length = IF length < dst.capacity THEN length ELSE dst.capacity
    /\ CopyTo(dst).awaitingAck = 0
    /\ CopyTo(dst).data = h[Capacity].data

(* The loop of CopyTo.                                                     *)
CopyInto(p, dst, i) == CopyItem(dst, i)
Copying == INSTANCE FoldProofs WITH Op <- CopyInto

(* There are such channels: one slot is written at a time.                 *)
LEMMA CopyFold ==
    ASSUME ChannelTypeOK(Threads), NEW n \in Nat \ {0}, NEW dst \in ChannelOf(n)
    PROVE  \E h : CopiesThrough(h, n, dst)
<1> DEFINE seq == [i \in 1..Capacity |-> i]
<1>1. Capacity \in Nat /\ seq \in Seq(Nat) /\ Len(seq) = Capacity
      /\ \A k \in 1..Capacity : seq[k] = k
  BY CapacityAssumption
<1>2. FoldLeft(CopyItem, dst, seq) = Copying!Folded(0, dst, seq)
  BY DEF Copying!Folded, CopyInto, FoldLeft, MapThenFoldSet, Max, Copying!Largest
<1>3. /\ CopyTo(dst).startIdx = Copying!Folded(0, dst, seq).startIdx
      /\ CopyTo(dst).length = IF length < dst.capacity THEN length ELSE dst.capacity
      /\ CopyTo(dst).awaitingAck = 0
      /\ CopyTo(dst).data = Copying!Folded(0, dst, seq).data
  BY <1>2 DEF CopyTo
<1> HIDE DEF seq
<1>4. PICK g : Copying!Through(g, 0, dst, seq)
  BY <1>1, Copying!FoldGoesThrough
<1> DEFINE h == [k \in 0..Capacity |-> g[k]]
<1>5. g[0] = dst /\ g[Capacity] = Copying!Folded(0, dst, seq)
  BY <1>1, <1>4 DEF Copying!Through
<1>6. ASSUME NEW k \in 1..Capacity PROVE g[k] = WrittenTo(g[k - 1], data[index(k - 1)])
  BY <1>1, <1>4 DEF Copying!Through, CopyInto, CopyItem
<1>7. ASSUME NEW k \in 1..Capacity PROVE data[index(k - 1)] \in Nat
  <2>1. k - 1 \in 0..Capacity /\ startIdx \in 0..(Capacity - 1)
    BY CapacityAssumption DEF ChannelTypeOK
  <2>2. index(k - 1) \in 0..(Capacity - 1)
    BY <2>1, IndexValue
  <2> QED
    BY <2>2 DEF ChannelTypeOK
<1> DEFINE S == {k \in 0..Capacity : g[k] \in ChannelOf(n)}
<1>8. 0 \in S
  BY <1>1, <1>5
<1>9. ASSUME NEW k \in 1..Capacity, k - 1 \in S PROVE k \in S
  <2>1. g[k - 1] \in ChannelOf(n)
    BY <1>9, Zenon
  <2>2. g[k] \in ChannelOf(n)
    BY <1>6, <1>7, <2>1, WrittenToType, Zenon
  <2>3. k \in 0..Capacity
    BY CapacityAssumption
  <2> QED
    BY <2>2, <2>3, Zenon
<1>10. \A k \in 0..Capacity : k \in S
  <2> HIDE DEF S
  <2> QED
    BY <1>1, <1>8, <1>9, Copying!BoundedInduction
<1>11. h \in [0..Capacity -> ChannelOf(n)]
  BY <1>10
<1>12. h[0] = dst /\ h[Capacity] = Copying!Folded(0, dst, seq)
  BY <1>1, <1>5
<1>13. ASSUME NEW k \in 1..Capacity PROVE h[k] = WrittenTo(h[k - 1], data[index(k - 1)])
  <2>1. h[k] = g[k] /\ h[k - 1] = g[k - 1]
    BY <1>1
  <2> QED
    BY <1>6, <2>1
<1> HIDE DEF h
<1> QED
  BY <1>3, <1>11, <1>12, <1>13 DEF CopiesThrough

(* Two offsets below n are two slots.                                      *)
LEMMA SlotsDiffer ==
    ASSUME NEW n \in Nat \ {0}, NEW s \in 0..(n - 1),
           NEW i \in 0..(n - 1), NEW j \in 0..(n - 1), i # j
    PROVE  (s + i) % n # (s + j) % n
<1>1. /\ (s + i) % n = IF s + i < n THEN s + i ELSE s + i - n
      /\ (s + j) % n = IF s + j < n THEN s + j ELSE s + j - n
  BY SlotValue
<1> QED
  BY <1>1

(* Into an empty channel at least as large CopyTo copies every slot, in    *)
(* order, without the start moving.                                        *)
LEMMA CopyKeepsSlots ==
    ASSUME ChannelTypeOK(Threads), Window,
           NEW n \in Nat, Capacity <= n, NEW s \in 0..(n - 1)
    PROVE  LET d == CopyTo(EmptyChannel(n, s))
           IN /\ d.startIdx = s /\ d.length = length /\ d.awaitingAck = 0
              /\ \A i \in 0..(Capacity - 1) : d.data[(s + i) % n] = data[index(i)]
<1> DEFINE dst == EmptyChannel(n, s)
<1>1. Capacity \in Nat \ {0} /\ n \in Nat \ {0} /\ length \in Nat /\ length <= Capacity
  BY CapacityAssumption DEF ChannelTypeOK, Window
<1>2. dst \in ChannelOf(n) /\ dst.startIdx = s /\ dst.length = 0 /\ dst.capacity = n
  <2>1. [i \in 0..(n - 1) |-> NeverWritten] \in [0..(n - 1) -> Nat]
    BY DEF NeverWritten
  <2>2. n \in {n} /\ 0 \in Nat /\ 0 \in Int
    OBVIOUS
  <2> QED
    BY <2>1, <2>2 DEF EmptyChannel, ChannelOf
<1> HIDE DEF dst
<1>3. PICK h : CopiesThrough(h, n, dst)
  BY <1>1, <1>2, CopyFold
<1> DEFINE Copied(k) ==
             /\ h[k].startIdx = s /\ h[k].length = k
             /\ \A i \in 0..(k - 1) : h[k].data[(s + i) % n] = data[index(i)]
           S == {k \in 0..Capacity : Copied(k)}
<1>4. Copied(0)
  BY <1>2, <1>3 DEF CopiesThrough
<1>5. ASSUME NEW k \in 1..Capacity, Copied(k - 1) PROVE Copied(k)
  <2>1. k - 1 \in 0..Capacity /\ k - 1 \in 0..(n - 1) /\ k \in 0..Capacity
    BY <1>1
  <2>2. h[k - 1] \in ChannelOf(n) /\ h[k - 1].length = k - 1 /\ h[k - 1].length < n
    BY <1>1, <1>3, <1>5, <2>1 DEF CopiesThrough
  <2>3. data[index(k - 1)] \in Nat
    <3>1. startIdx \in 0..(Capacity - 1)
      BY DEF ChannelTypeOK
    <3>2. index(k - 1) \in 0..(Capacity - 1)
      BY <2>1, <3>1, IndexValue
    <3> QED
      BY <3>2 DEF ChannelTypeOK
  <2>4. /\ h[k].startIdx = s /\ h[k].length = (k - 1) + 1
        /\ h[k].data = [h[k - 1].data EXCEPT ![(s + (k - 1)) % n] = data[index(k - 1)]]
    <3> DEFINE d == h[k - 1]
               item == data[index(k - 1)]
    <3>1. d \in ChannelOf(n) /\ d.length < n /\ item \in Nat
      BY <2>2, <2>3
    <3>2. d.startIdx = s /\ d.length = k - 1
      BY <1>5
    <3>3. h[k] = WrittenTo(d, item)
      BY <1>3 DEF CopiesThrough
    <3> HIDE DEF d, item
    <3>4. Appended(WrittenTo(d, item), d, item, n)
      BY <1>1, <3>1, WrittenToAppends
    <3> QED
      BY <3>2, <3>3, <3>4 DEF d, item, Appended
  <2>5. (s + (k - 1)) % n \in 0..(n - 1) /\ h[k - 1].data \in [0..(n - 1) -> Nat]
    BY <1>1, <2>1, <2>2, SlotValue DEF ChannelOf
  <2>6. ASSUME NEW i \in 0..(k - 1) PROVE h[k].data[(s + i) % n] = data[index(i)]
    <3>1. CASE i = k - 1
      BY <2>4, <2>5, <3>1
    <3>2. CASE i # k - 1
      <4>1. i \in 0..((k - 1) - 1) /\ i \in 0..(n - 1)
        BY <1>1, <3>2
      <4>2. (s + i) % n # (s + (k - 1)) % n /\ (s + i) % n \in 0..(n - 1)
        BY <1>1, <2>1, <3>2, <4>1, SlotsDiffer, SlotValue
      <4>3. h[k - 1].data[(s + i) % n] = data[index(i)]
        BY <1>5, <4>1
      <4> QED
        BY <2>4, <2>5, <4>2, <4>3
    <3> QED
      BY <3>1, <3>2
  <2> QED
    BY <2>4, <2>6
<1> HIDE DEF Copied
<1>6. 0 \in S
  BY <1>1, <1>4
<1>7. ASSUME NEW k \in 1..Capacity, k - 1 \in S PROVE k \in S
  BY <1>1, <1>5, <1>7
<1>8. Copied(Capacity)
  <2> HIDE DEF S
  <2>1. \A k \in 0..Capacity : k \in S
    BY <1>1, <1>6, <1>7, Copying!BoundedInduction
  <2> QED
    BY <1>1, <2>1 DEF S
<1>9. /\ CopyTo(dst).length = length /\ CopyTo(dst).startIdx = h[Capacity].startIdx
      /\ CopyTo(dst).awaitingAck = 0 /\ CopyTo(dst).data = h[Capacity].data
  BY <1>1, <1>2, <1>3 DEF CopiesThrough
<1> QED
  BY <1>8, <1>9 DEF Copied, dst

(* Copied at any moment into an empty channel at least as large, wherever  *)
(* that one starts, the items arrive all, in order and unread              *)
(* (ByteChannel.CopyTo), for every capacity and every number of threads.   *)
THEOREM CopyKeepsContentsHolds == Spec => []CopyKeepsContents
<1>1. CInv => CopyKeepsContents
  <2> SUFFICES ASSUME CInv, NEW n \in Capacity..(Capacity + 1), NEW s \in 0..(n - 1)
               PROVE  LET d == CopyTo(EmptyChannel(n, s))
                      IN /\ d.awaitingAck = 0
                         /\ [i \in 1..d.length |-> d.data[(d.startIdx + i - 1) % n]] = Contents
    BY DEF CopyKeepsContents
  <2> DEFINE d == CopyTo(EmptyChannel(n, s))
  <2>1. ChannelTypeOK(Threads) /\ Window /\ n \in Nat /\ Capacity <= n
    BY CapacityAssumption DEF CInv, TypeOK
  <2>2. /\ d.startIdx = s /\ d.length = length /\ d.awaitingAck = 0
        /\ \A i \in 0..(Capacity - 1) : d.data[(s + i) % n] = data[index(i)]
    BY <2>1, CopyKeepsSlots
  <2> HIDE DEF d
  <2>3. ASSUME NEW i \in 1..length PROVE d.data[(s + i - 1) % n] = data[index(i - 1)]
    <3>1. i - 1 \in 0..(Capacity - 1) /\ s + i - 1 = s + (i - 1)
      BY <2>1, CapacityAssumption DEF ChannelTypeOK, Window
    <3> QED
      BY <2>2, <3>1
  <2>4. [i \in 1..d.length |-> d.data[(d.startIdx + i - 1) % n]] = Contents
    BY <2>2, <2>3 DEF Contents
  <2> QED
    BY <2>2, <2>4 DEF d
<1> QED
  BY <1>1, CInvInit, CInvStep, PTL DEF Spec
============================================================================
