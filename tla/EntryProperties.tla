-------------------------- MODULE EntryProperties --------------------------
(***************************************************************************)
(* What a caller of the logger and a reader on the server rely on.         *)
(***************************************************************************)
EXTENDS LogEntry

(* Entries outside ReadsBack: those with a metric whose key is not as long *)
(* as the stack trace's path of the same number, those that end with an    *)
(* empty value of metadata (entry.go:443), those Encode panics for, and    *)
(* those with a message from Msg or a path that is too long for its length *)
(* byte, as neither is truncated (entry.go:587, 535, 726).                 *)
Regular(x) ==
    /\ ~EncodePanics(x)
    /\ Len(x.message) <= MaxStr
    /\ x.level >= StackTrace => \A i \in 0..(x.stackTraceCount - 1) : Len(x.trace[i][1]) <= MaxStr
    /\ x.level >= Metric =>
          \A i \in 0..(x.metricCount - 1) : Len(x.metrics[i][1]) = Len(x.trace[i][1])
    /\ x.level = Meta => \A i \in 0..(x.metaCount - 1) : x.meta[i][2] # <<>>

Sent(l, items) == IF last.level >= l THEN items ELSE <<>>

(* The items read are the ones sent, up to the first that did not fit      *)
(* behind those before it.                                                 *)
CutOnlyWhenFull(read, l, items, Bytes(_)) ==
    /\ IsPrefix(read, Sent(l, items))
    /\ Len(read) < Len(Sent(l, items)) =>
          Len(Encode([last EXCEPT !.level = l])) + Len(Bytes(items[Len(read) + 1])) > MaxEntrySize

(* The Entry of a connection's handler, into which one message after       *)
(* another is decoded, holds exactly what the last one sent: no section of *)
(* an earlier entry shows through (Entry.Reset, at the start of            *)
(* Entry.Decode), each byte written by Entry.Encode is read by the section *)
(* that wrote it, strings at and beyond the limit included, and metadata   *)
(* and stack trace lose items only at their end and only when the slot is  *)
(* full.                                                                   *)
ReadsBack ==
    result # "none" /\ Regular(last) =>
        /\ result = "nil" /\ d.level = last.level
        /\ \A f \in {"bucketId", "id", "severity", "message"} : d[f] = last[f]
        /\ last.level >= CategoryId => d.categoryId = last.categoryId
        /\ TagsOf(d) = Sent(Tags, TagsOf(last))
        /\ MetricsOf(d) = Sent(Metric, MetricsOf(last))
        /\ CutOnlyWhenFull(MetaOf(d), Meta, MetaOf(last), MetaBytes)
        /\ CutOnlyWhenFull(TraceOf(d), StackTrace, TraceOf(last), FrameBytes)
        /\ d.ttlEntry = (IF last.level >= TTLEntry THEN last.ttlEntry ELSE 0)
        /\ d.ttlMeta = (IF last.level >= TTLMeta THEN last.ttlMeta ELSE 0)

(* Entry.PrependTag, by shifting an array over its own end, "prepends tags *)
(* to the entry and removes any tags that overflow" (entry.go:624): the    *)
(* result is the front of the concatenation, whatever is left in the array *)
(* of earlier uses of the entry.                                           *)
PrependsInOrder ==
    held => \A ts \in TagLists :
        <<>> \notin Range(ts) =>
            TagsOf(Prepended(e, ts, ts)) = Truncated(CutAll(ts) \o TagsOf(e), MaxTagsCount)
============================================================================
