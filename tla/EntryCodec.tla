---------------------------- MODULE EntryCodec ----------------------------
(***************************************************************************)
(* Entry.Encode and Entry.Decode (entry.go): a log entry as a record of    *)
(* its fields, and its representation as a sequence of bytes.              *)
(*                                                                         *)
(* A string is the sequence of its bytes.  An array is a function from 0   *)
(* up, with a count of the items in use beside it; keys and values that    *)
(* the code keeps in two arrays are pairs in one.  Numbers wider than a    *)
(* byte are below 2^16 and positions in the bytes never reach 2^16.  The   *)
(* length of a string goes into MaxStr + 1 values, 256 in the code, which  *)
(* is why most methods truncate.                                           *)
(***************************************************************************)
EXTENDS Integers, Sequences, SequencesExt

CONSTANTS MaxEntrySize,        \* the size of a slot of the ring: 2^16 - 1 in the code
          MaxStr,              \* the longest string a length byte can tell: 255 in the code
          MaxTagsCount, MaxMetricCount, MaxMetaCount, MaxStackTraceCount

ASSUME CodecAssumption ==
    {MaxEntrySize, MaxStr, MaxTagsCount, MaxMetricCount, MaxMetaCount, MaxStackTraceCount}
        \subseteq Nat \ {0}

Array(size, item) == [i \in 0..(size - 1) |-> item]

(* The sections of an entry, in their order; level is the last one used.   *)
BucketId   == 0
EntryId    == 1
SeverityOf == 2
Message    == 3
CategoryId == 4
Tags       == 5
Metric     == 6
Meta       == 7
StackTrace == 8
TTLEntry   == 9
TTLMeta    == 10

(* An entry fresh from the pool.                                           *)
Fresh ==
    [level |-> Message, bucketId |-> 0, id |-> 0, severity |-> 0, message |-> <<>>,
     categoryId |-> 0, ttlEntry |-> 0, ttlMeta |-> 0,
     tags    |-> Array(MaxTagsCount, <<>>),            tagsCount       |-> 0,
     metrics |-> Array(MaxMetricCount, <<<<>>, 0>>),   metricCount     |-> 0,
     meta    |-> Array(MaxMetaCount, <<<<>>, <<>>>>),  metaCount       |-> 0,
     trace   |-> Array(MaxStackTraceCount, <<<<>>, 0>>), stackTraceCount |-> 0]

FaultyReset(x) ==
    [x EXCEPT !.id = 0, !.level = Message, !.tagsCount = 0, !.metricCount = 0,
              !.stackTraceCount = 0, !.ttlEntry = 0, !.ttlMeta = 0]

(* Category, bucket, severity and message stay as they are.                *)
Reset(x) ==
    [x EXCEPT !.id = 0, !.level = Message, !.tagsCount = 0, !.metricCount = 0,
              !.metaCount = 0, !.stackTraceCount = 0, !.ttlEntry = 0, !.ttlMeta = 0]

(* What the reader of an entry sees of its arrays.                         *)
InUse(array, count) == [i \in 1..count |-> array[i - 1]]
TagsOf(x)    == InUse(x.tags, x.tagsCount)
MetricsOf(x) == InUse(x.metrics, x.metricCount)
MetaOf(x)    == InUse(x.meta, x.metaCount)
TraceOf(x)   == InUse(x.trace, x.stackTraceCount)

----------------------------------------------------------------------------
(* Encode.                                                                 *)

U16(n)  == <<n \div 256, n % 256>>
U32(n)  == <<0, 0>> \o U16(n)
Str8(s) == <<Len(s) % (MaxStr + 1)>> \o s

(* The length written before a metric's key is that of the stack trace's   *)
(* path with the same number.                                              *)
KeyLen(x, i) == Len(x.trace[i][1])

MetricBytes(x, i) ==
    <<KeyLen(x, i) % (MaxStr + 1)>> \o x.metrics[i][1] \o U32(x.metrics[i][2])
MetaBytes(m)      == Str8(m[1]) \o U16(Len(m[2])) \o m[2]
FrameBytes(f)     == Str8(f[1]) \o U16(f[2])

(* The items of the counted sections, each with the room it is said to     *)
(* need.                                                                   *)
MetricItems(x) ==
    [i \in 1..x.metricCount |->
        [bytes |-> MetricBytes(x, i - 1), size |-> KeyLen(x, i - 1) + 5]]
MetaItems(x) ==
    [i \in 1..x.metaCount |->
        [bytes |-> MetaBytes(x.meta[i - 1]),
         size  |-> Len(x.meta[i - 1][1]) + Len(x.meta[i - 1][2]) + 3]]
FrameItems(x) ==
    [i \in 1..x.stackTraceCount |->
        [bytes |-> FrameBytes(x.trace[i - 1]), size |-> Len(x.trace[i - 1][1]) + 3]]

(* Items are written behind b and the count until one does not fit, and    *)
(* the count is corrected.                                                 *)
PutItem(b, a, item) ==
    IF a.full \/ Len(b) + 1 + Len(a.text) + item.size > MaxEntrySize
    THEN [a EXCEPT !.full = TRUE]
    ELSE [text |-> a.text \o item.bytes, n |-> a.n + 1, full |-> FALSE]

PutItems(b, items) ==
    FoldLeft(LAMBDA a, item : PutItem(b, a, item), [text |-> <<>>, n |-> 0, full |-> FALSE], items)

Counted(b, items) ==
    LET end == PutItems(b, items) IN b \o <<end.n>> \o end.text

PutTag(x, b, t) == b \o Str8(t)

EncodeTags(x, b) == FoldLeft(LAMBDA c, t : PutTag(x, c, t), Append(b, x.tagsCount), TagsOf(x))

EncodeSection(x, b, l) ==
    CASE l = BucketId   -> b \o U32(x.bucketId)
      [] l = EntryId    -> b \o [i \in 1..12 |-> x.id]
      [] l = SeverityOf -> Append(b, x.severity)
      [] l = Message    -> b \o Str8(x.message)
      [] l = CategoryId -> Append(b, x.categoryId)
      [] l = Tags       -> EncodeTags(x, b)
      [] l = Metric     -> Counted(b, MetricItems(x))
      [] l = Meta       -> Counted(b, MetaItems(x))
      [] l = StackTrace -> Counted(b, FrameItems(x))
      [] l = TTLEntry   -> b \o U16(x.ttlEntry)
      [] l = TTLMeta    -> b \o U16(x.ttlMeta)

(* Two bytes for the size, then the sections up to the entry's level.      *)
EncodeSections(x) ==
    FoldLeft(LAMBDA b, l : EncodeSection(x, b, l), <<0, 0>>, [i \in 1..(x.level + 1) |-> i - 1])

Encode(x) ==
    LET body == EncodeSections(x) IN U16(Len(body)) \o SubSeq(body, 3, Len(body))

(* Encode indexes past the stack trace, or past the end of the slot: only  *)
(* the items of counted sections are kept from doing so.                   *)
EncodePanics(x) ==
    \/ x.level >= Metric /\ x.metricCount > MaxStackTraceCount
    \/ Len(Encode(x)) > MaxEntrySize

----------------------------------------------------------------------------
(* Decode.                                                                 *)

At(b, s)    == b[s + 1]
U16At(b, s) == 256 * At(b, s) + At(b, s + 1)
U32At(b, s) == 65536 * U16At(b, s) + U16At(b, s + 2)
Slice(b, from, to) == SubSeq(b, from + 1, to)

(* The loop over the items of a counted section: the array, the position   *)
(* in the bytes and whether the loop, and the one around it, goes on.      *)
Loop(array, s, go) == [array |-> array, s |-> s, go |-> go]

(* The bytes that have to follow the key of an item.                       *)
More(l) == CASE l = Tags -> 0 [] l = Metric -> 4 [] l = Meta -> 3 [] l = StackTrace -> 2

(* The value of a metadata item has a length of its own.                   *)
DecodeMetaValue(b, array, i, key, q) ==
    LET end == q + 2 + U16At(b, q)
    IN IF end > Len(b)
       THEN Loop([array EXCEPT ![i] = <<key, array[i][2]>>], q + 2, FALSE)
       ELSE Loop([array EXCEPT ![i] = <<key, Slice(b, q + 2, end)>>], end, TRUE)

DecodeItem(b, l, a, i) ==
    LET q   == a.s + 1 + At(b, a.s)
        key == Slice(b, a.s + 1, q)
    IN IF ~a.go THEN a
       ELSE IF a.s >= Len(b) THEN Loop(a.array, a.s, FALSE)
       ELSE IF q + More(l) > Len(b) THEN Loop(a.array, a.s + 1, FALSE)
       ELSE CASE l = Tags       -> Loop([a.array EXCEPT ![i] = key], q, TRUE)
              [] l = Metric     -> Loop([a.array EXCEPT ![i] = <<key, U32At(b, q)>>], q + 4, TRUE)
              [] l = Meta       -> DecodeMetaValue(b, a.array, i, key, q)
              [] l = StackTrace -> Loop([a.array EXCEPT ![i] = <<key, U16At(b, q)>>], q + 2, TRUE)

DecodeItems(b, l, array, s, n) ==
    FoldLeft(LAMBDA a, i : DecodeItem(b, l, a, i), Loop(array, s, TRUE), [i \in 1..n |-> i - 1])

DecodeCounted(b, l, array, s, limit) ==
    IF At(b, s) > limit THEN Loop(array, s + 1, FALSE)
    ELSE DecodeItems(b, l, array, s + 1, At(b, s))

(* The loop over the sections: the entry so far, the position in the       *)
(* bytes, whether it goes on, and whether it indexed past the bytes.       *)
Decoding(x, s, go, panic) == [x |-> x, s |-> s, go |-> go, panic |-> panic]

DecodeSection(b, x, s, l) ==
    CASE l = BucketId   -> Decoding([x EXCEPT !.bucketId = U32At(b, s)], s + 4, TRUE, FALSE)
      [] l = EntryId    -> Decoding([x EXCEPT !.id = At(b, s)], s + 12, TRUE, FALSE)
      [] l = SeverityOf -> Decoding([x EXCEPT !.severity = At(b, s)], s + 1, TRUE, FALSE)
      [] l = Message    ->
           LET q == s + 1 + At(b, s)
           IN IF q > Len(b) THEN Decoding(x, s + 1, FALSE, FALSE)
              ELSE Decoding([x EXCEPT !.message = Slice(b, s + 1, q)], q, TRUE, FALSE)
      [] l = CategoryId -> Decoding([x EXCEPT !.categoryId = At(b, s)], s + 1, TRUE, FALSE)
      [] l = Tags       ->
           LET c == DecodeCounted(b, l, x.tags, s, MaxTagsCount)
           IN Decoding([x EXCEPT !.tagsCount = At(b, s), !.tags = c.array], c.s, c.go, FALSE)
      [] l = Metric     ->
           LET c == DecodeCounted(b, l, x.metrics, s, MaxMetricCount)
           IN Decoding([x EXCEPT !.metricCount = At(b, s), !.metrics = c.array], c.s, c.go, FALSE)
      [] l = Meta       ->
           LET c == DecodeCounted(b, l, x.meta, s, MaxMetaCount)
           IN Decoding([x EXCEPT !.metaCount = At(b, s), !.meta = c.array], c.s, c.go, FALSE)
      [] l = StackTrace ->
           LET c == DecodeCounted(b, l, x.trace, s, MaxStackTraceCount)
           IN Decoding([x EXCEPT !.stackTraceCount = At(b, s), !.trace = c.array], c.s, c.go, FALSE)
      [] l = TTLEntry   ->
           IF s + 2 > Len(b) THEN Decoding(x, s, FALSE, FALSE)
           ELSE Decoding([x EXCEPT !.ttlEntry = U16At(b, s)], s + 2, TRUE, FALSE)
      [] l = TTLMeta    ->
           IF s + 2 > Len(b) THEN Decoding(x, s, FALSE, TRUE)
           ELSE Decoding([x EXCEPT !.ttlMeta = U16At(b, s)], s + 2, TRUE, FALSE)

DecodeStep(b, a, l) ==
    IF ~a.go THEN a
    ELSE LET c == DecodeSection(b, [a.x EXCEPT !.level = l], a.s, l)
         IN Decoding(c.x, c.s, c.go /\ c.s < Len(b), c.panic)

DecodeSections(x, b) ==
    FoldLeft(LAMBDA a, l : DecodeStep(b, a, l), Decoding(x, 2, TRUE, FALSE), [i \in 1..11 |-> i - 1])

(* The entry x, reset, after decoding b into it, and what Decode returned. *)
Decode(x, b) ==
    LET end == DecodeSections(Reset(x), b)
    IN IF Len(b) < 18 THEN [x |-> Reset(x), err |-> "ErrTooShort"]
       ELSE IF U16At(b, 0) # Len(b) THEN [x |-> Reset(x), err |-> "ErrCorruptEntry"]
       ELSE [x   |-> IF end.go THEN [end.x EXCEPT !.level = TTLMeta + 1] ELSE end.x,
             err |-> IF end.panic THEN "panic"
                     ELSE IF end.s # Len(b) THEN "ErrCorruptEntry" ELSE "nil"]
============================================================================
