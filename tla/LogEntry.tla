------------------------------ MODULE LogEntry ------------------------------
(***************************************************************************)
(* An entry from the logger that makes it to the server that reads it: the *)
(* settings of a logger (logger.go), the methods of an entry (entry.go),   *)
(* Send and Drop, the pool of entries (pool.go, entry_pool.go), and the    *)
(* one Entry into which a connection's handler decodes what arrives        *)
(* (tls_server_conn.go:95), again and again.                               *)
(***************************************************************************)
EXTENDS EntryCodec

CONSTANTS Strings,   \* keys, tags, messages and paths, as bytes
          Values,    \* values of metadata
          TagLists,  \* arguments of the methods that take several tags
          Byte,      \* a category id
          Word,      \* a number of two bytes: a TTL, a metric, a line
          MaxCalls   \* bound: calls of methods

ASSUME LogEntryAssumption ==
    /\ Strings \cup Values \subseteq Seq(0..255)
    /\ TagLists \subseteq Seq(Strings)

ASSUME NumbersAssumption ==
    Byte \in 0..255 /\ Word \in Nat /\ Word < 65536 /\ MaxCalls \in Nat

(* All but metadata and stack trace always fit into a slot.                *)
ASSUME RoomAssumption ==
    \A s \in Strings :
        25 + Len(s) + MaxTagsCount * (MaxStr + 1) + MaxMetricCount * (MaxStr + 5) <= MaxEntrySize

VARIABLES log,     \* the logger's settings
          e,       \* the entry: being built, or back in the pool
          held,    \* the caller has e
          d,       \* the Entry of the server's handler
          last,    \* the entry that was sent last, as it was encoded
          result,  \* what became of it: "none", "panic" or Decode's error
          calls

entryVars == <<log, e, held, d, last, result, calls>>

Truncated(s, n) == SubSeq(s, 1, IF Len(s) < n THEN Len(s) ELSE n)

(* truncate to MaxTagSize, MaxMetaKeySize and MaxMessageSize, all the same.*)
Cut(s)     == Truncated(s, MaxStr)
CutAll(ts) == [i \in DOMAIN ts |-> Cut(ts[i])]

EntryInit ==
    /\ log = [tags |-> <<>>, meta |-> <<>>, metrics |-> <<>>,
              categoryId |-> 0, ttlEntry |-> Word, ttlMeta |-> Word]
    /\ e = Fresh
    /\ held = FALSE
    /\ d = Fresh
    /\ last = Fresh
    /\ result = "none"
    /\ calls = 0

Results == {"none", "nil", "panic", "ErrTooShort", "ErrCorruptEntry"}

WithinLimits(x) ==
    /\ x.level \in Message..TTLMeta
    /\ x.tagsCount \in 0..MaxTagsCount
    /\ x.metricCount \in 0..MaxMetricCount
    /\ x.metaCount \in 0..MaxMetaCount
    /\ x.stackTraceCount \in 0..MaxStackTraceCount

EntryTypeOK ==
    /\ WithinLimits(e) /\ WithinLimits(last)
    /\ DOMAIN d = DOMAIN Fresh
    /\ log.tags \in Seq({Cut(s) : s \in Strings}) /\ Len(log.tags) <= MaxTagsCount
    /\ held \in BOOLEAN /\ result \in Results /\ calls \in 0..MaxCalls

----------------------------------------------------------------------------
Call == calls < MaxCalls /\ result # "panic" /\ calls' = calls + 1

(* Settings of the logger, which may change while an entry is out.         *)
LoggerSets(settings) ==
    /\ Call
    /\ log' = settings
    /\ UNCHANGED <<e, held, d, last, result>>

(* The texts whose length is one of those given.                           *)
Filter(lengths, kept, t) == IF Len(t) \in lengths THEN Append(kept, t) ELSE kept
OfLength(lengths, ts) == FoldLeft(LAMBDA kept, t : Filter(lengths, kept, t), <<>>, ts)

(* A tag that is the string "" is skipped; one of another type whose text  *)
(* is empty (stringify) is not.                                            *)
Kept(ts) == {ts, OfLength(Nat \ {0}, ts)}

LoggerTag(ts) ==
    \E kept \in Kept(ts) :
        LoggerSets([log EXCEPT !.tags = Truncated(@ \o CutAll(kept), MaxTagsCount)])
LoggerMeta(key, value)   == LoggerSets([log EXCEPT !.meta = Append(@, <<Cut(key), value>>)])
LoggerMetric(key, value) == LoggerSets([log EXCEPT !.metrics = Append(@, <<Cut(key), value>>)])
LoggerCat(c)             == LoggerSets([log EXCEPT !.categoryId = c])
LoggerTTL(n)             == LoggerSets([log EXCEPT !.ttlEntry = n])
LoggerMetaTTL(n)         == LoggerSets([log EXCEPT !.ttlMeta = n])

----------------------------------------------------------------------------
(* The methods of an entry, as functions of the entry.                     *)

incLevel(x, l) == [x EXCEPT !.level = IF @ > l THEN @ ELSE l]

FaultyPut(x, array, count, limit, item) ==
    IF x[count] > limit THEN x
    ELSE [x EXCEPT ![array] = [i \in DOMAIN @ \cup {x[count]} |-> IF i = x[count] THEN item ELSE @[i]],
                   ![count] = @ + 1]

Put(x, array, count, limit, item) ==
    IF x[count] >= limit THEN x
    ELSE [x EXCEPT ![array][x[count]] = item, ![count] = @ + 1]

PutAll(x, array, count, limit, items) ==
    FoldLeft(LAMBDA y, item : Put(y, array, count, limit, item), x, items)

AddTags(x, ts) == PutAll(incLevel(x, Tags), "tags", "tagsCount", MaxTagsCount, CutAll(ts))

FaultyPrepended(x, ts, kept) ==
    LET shifted == [i \in 0..(MaxTagsCount - 1) |->
                       IF i < Len(ts) THEN Cut(ts[i + 1]) ELSE x.tags[i]]
    IN IF x.tagsCount = 0 \/ Len(ts) >= MaxTagsCount
       THEN AddTags([x EXCEPT !.tagsCount = 0], kept)
       ELSE [incLevel(x, Tags) EXCEPT !.tags = shifted,
                !.tagsCount = IF @ + Len(ts) < MaxTagsCount THEN @ + Len(ts) ELSE MaxTagsCount]

(* PrependTag moves the tags in use up, over the end of the array; only    *)
(* when it goes through Tag are empty tags left out.                       *)
Prepended(x, ts, kept) ==
    LET moved(i)  == i >= Len(ts) /\ i < Len(ts) + x.tagsCount
        shifted == [i \in 0..(MaxTagsCount - 1) |->
                       IF i < Len(ts) THEN Cut(ts[i + 1])
                       ELSE IF moved(i) THEN x.tags[i - Len(ts)] ELSE x.tags[i]]
    IN IF x.tagsCount = 0 \/ Len(ts) >= MaxTagsCount
       THEN AddTags([x EXCEPT !.tagsCount = 0], kept)
       ELSE [incLevel(x, Tags) EXCEPT !.tags = shifted,
                !.tagsCount = IF @ + Len(ts) < MaxTagsCount THEN @ + Len(ts) ELSE MaxTagsCount]

(* addStackTrace, unless the caller skips every frame, replaces what is    *)
(* there; it sets the level, whatever it was.                              *)
Traced(x, frames) ==
    LET n == Len(frames)
    IN IF n = 0 THEN incLevel(x, StackTrace)
       ELSE [x EXCEPT !.level = StackTrace, !.stackTraceCount = n,
                      !.trace = [i \in DOMAIN @ |-> IF i < n THEN frames[i + 1] ELSE @[i]]]

Changes(x) ==
    /\ held
    /\ Call
    /\ e' = x
    /\ UNCHANGED <<log, held, d, last, result>>

(* Bucket, Id, Time, Msg and Sev assign a field; Msg does not truncate.    *)
Assigns(field, value) == Changes([e EXCEPT ![field] = value])
Cat(c)                == Changes([incLevel(e, CategoryId) EXCEPT !.categoryId = c])
Tag(ts)               == \E kept \in Kept(ts) : Changes(AddTags(e, kept))
PrependTag(ts)        == \E kept \in Kept(ts) : Changes(Prepended(e, ts, kept))
AddMeta(key, value)   ==
    \/ (key = <<>> \/ value = <<>>) /\ Changes(incLevel(e, Meta))
    \/ /\ key # <<>>       \* with a value that is not the string ""
       /\ Changes(Put(incLevel(e, Meta), "meta", "metaCount", MaxMetaCount, <<Cut(key), value>>))
AddMetric(key, value) ==
    Changes(IF key = <<>> THEN incLevel(e, Metric)
            ELSE Put(incLevel(e, Metric), "metrics", "metricCount", MaxMetricCount, <<Cut(key), value>>))
Trace(frames)         == Changes(Traced(e, frames))
ManualTrace(path, n)  ==
    Changes(Put(incLevel(e, StackTrace), "trace", "stackTraceCount", MaxStackTraceCount, <<path, n>>))
TTL(n)                == Changes([incLevel(e, TTLEntry) EXCEPT !.ttlEntry = n])
MetaTTL(n)            == Changes([incLevel(e, TTLMeta) EXCEPT !.ttlMeta = n])

----------------------------------------------------------------------------
(* EntryPool.Acquire: an entry of the pool, or a new one.                  *)
Acquired == {Fresh} \cup (IF held THEN {} ELSE {e})

(* Logger.log, behind the methods named after severities.  Every id is new.*)
Log(severity, message, ts) ==
    /\ Call
    /\ held' = TRUE
    /\ \E x \in Acquired :
          LET y == incLevel([x EXCEPT !.bucketId = Byte, !.id = calls + 1, !.severity = severity,
                                !.message = Cut(message), !.ttlEntry = log.ttlEntry,
                                !.ttlMeta = log.ttlMeta, !.categoryId = log.categoryId],
                            CategoryId)
          IN IF ts = <<>> THEN e' = y ELSE \E kept \in Kept(ts) : e' = AddTags(y, kept)
    /\ UNCHANGED <<log, d, last, result>>

(* Send appends the logger's tags, metadata and metrics.                   *)
Appended(x) ==
    LET t == PutAll(x, "tags", "tagsCount", MaxTagsCount, log.tags)
        m == PutAll(t, "meta", "metaCount", MaxMetaCount, log.meta)
    IN PutAll(m, "metrics", "metricCount", MaxMetricCount, log.metrics)

(* ProcessEntry at the client, the way to the server, and Decode there.    *)
Arrives(x) ==
    /\ last' = x
    /\ IF EncodePanics(x)
       THEN result' = "panic" /\ d' = d
       ELSE LET r == Decode(d, Encode(x)) IN d' = r.x /\ result' = r.err

Send ==
    /\ held
    /\ Call
    /\ e' = Appended(e)
    /\ Arrives(e')
    /\ UNCHANGED <<log, held>>

(* parseErrorString: a text with placeholders, and what they stand for; a  *)
(* part that is long (32 bytes in the code) stays in the text.             *)
ParsedError(x, message, ts) ==
    PutAll([x EXCEPT !.message = Cut(message), !.tagsCount = 0],
           "tags", "tagsCount", MaxTagsCount, OfLength(0..MaxStr, ts))

(* Pool.Send of an error that is no entry; the entry is not dropped.       *)
SendError(message, ts) ==
    /\ Call
    /\ \E x \in Acquired :
          /\ Arrives(ParsedError([x EXCEPT !.severity = 3], message, ts))
          /\ e' = IF held \/ x # e THEN e ELSE Fresh
    /\ UNCHANGED <<log, held>>

(* Drop puts the entry back (EntryPool.Release).                           *)
Drop ==
    /\ held /\ result # "panic"
    /\ held' = FALSE
    /\ e' = Reset(e)
    /\ UNCHANGED <<log, d, last, result, calls>>

----------------------------------------------------------------------------
LoggerStep ==
    \/ \E ts \in TagLists : LoggerTag(ts)
    \/ \E k \in Strings, v \in Values : LoggerMeta(k, v)
    \/ \E k \in Strings : LoggerMetric(k, Word)
    \/ LoggerCat(Byte) \/ LoggerTTL(Word) \/ LoggerMetaTTL(Word)

EntryStep ==
    \/ \E m \in Strings : Assigns("message", m)
    \/ \E f \in {"bucketId", "id", "severity"} : Assigns(f, Byte)
    \/ Cat(Byte) \/ TTL(Word) \/ MetaTTL(Word) \/ Trace(<<>>)
    \/ \E ts \in TagLists : Tag(ts) \/ PrependTag(ts)
    \/ \E k \in Strings, v \in Values : AddMeta(k, v)
    \/ \E k \in Strings : AddMetric(k, Word)
    \/ \E p \in Strings : ManualTrace(p, Word) \/ Trace(<<<<p, Word>>>>)

EntryNext ==
    \/ LoggerStep \/ EntryStep
    \/ \E m \in Strings, ts \in TagLists \cup {<<>>} : Log(6, m, ts)
    \/ \E m \in Strings, ts \in TagLists : SendError(m, ts)
    \/ Send \/ Drop

EntrySpec == EntryInit /\ [][EntryNext]_entryVars
============================================================================
