---------------------------- MODULE EntryProofs ----------------------------
(***************************************************************************)
(* Proofs about an entry's way: every method of Entry and Logger keeps it  *)
(* well formed, PrependTag puts tags before the others, and what the       *)
(* handler decodes is what was sent.  They hold for every limit, every set *)
(* of strings, values and lists of tags, and every number of calls.        *)
(*                                                                         *)
(* EntryInv (the types, and that all but metadata and stack trace fit into *)
(* a slot) is inductive.  ReadsBack needs, besides, that Decode undoes     *)
(* Encode: the bytes are followed section by section as they grow          *)
(* (EncodesThrough), so that each section stands where the one before it   *)
(* ended (Has, Filled, CountedSection), and Decode, which starts a section *)
(* where it left the one before it, finds it there (SectionDone,           *)
(* DecodedTo).  Every loop, over items, tags or sections, is a fold; the   *)
(* induction over it is FoldGoesThrough of FoldProofs, with the body of    *)
(* the loop for Op.                                                        *)
(***************************************************************************)
EXTENDS EntryProperties, TLAPS

(* The fields of an Entry.                                                 *)
Fields == {"level", "bucketId", "id", "severity", "message", "categoryId", "ttlEntry", "ttlMeta",
           "tags", "tagsCount", "metrics", "metricCount", "meta", "metaCount", "trace",
           "stackTraceCount"}

(* An array of the given size, counted from 0.                             *)
IsArray(a, size) == a = [i \in 0..(size - 1) |-> a[i]]

(* A record with the fields of an entry, whatever it holds.                *)
IsEntry(x) ==
    /\ x = [f \in Fields |-> x[f]]
    /\ IsArray(x.tags, MaxTagsCount) /\ IsArray(x.metrics, MaxMetricCount)
    /\ IsArray(x.meta, MaxMetaCount) /\ IsArray(x.trace, MaxStackTraceCount)

(* An entry fresh from the pool has every field, and arrays of full size.  *)
LEMMA FreshIsEntry == IsEntry(Fresh) /\ DOMAIN Fresh = Fields
<1>1. DOMAIN Fresh = Fields
  BY DEF Fresh, Fields
<1>2. Fresh = [f \in Fields |-> Fresh[f]]
  BY DEF Fresh, Fields
<1> QED
  BY <1>1, <1>2 DEF Fresh, IsEntry, IsArray, Array

(* Entry.Reset takes back counts, level, id and TTLs, and keeps the rest.  *)
LEMMA ResetSets ==
    ASSUME NEW x, IsEntry(x)
    PROVE  /\ IsEntry(Reset(x))
           /\ Reset(x).level = Message /\ Reset(x).id = 0 /\ Reset(x).tagsCount = 0
           /\ Reset(x).metricCount = 0 /\ Reset(x).metaCount = 0 /\ Reset(x).stackTraceCount = 0
           /\ Reset(x).ttlEntry = 0 /\ Reset(x).ttlMeta = 0
           /\ \A f \in {"bucketId", "severity", "message", "categoryId", "tags", "metrics", "meta",
                      "trace"} : Reset(x)[f] = x[f]
<1>1. Reset(x) = [f \in Fields |-> Reset(x)[f]]
  BY DEF Reset, IsEntry
<1>2. \A f \in {"bucketId", "severity", "message", "categoryId", "tags", "metrics", "meta", "trace"} :
                Reset(x)[f] = x[f]
  BY DEF Reset, IsEntry, Fields
<1>3.      /\ Reset(x).level = Message /\ Reset(x).id = 0 /\ Reset(x).tagsCount = 0
           /\ Reset(x).metricCount = 0 /\ Reset(x).metaCount = 0 /\ Reset(x).stackTraceCount = 0
           /\ Reset(x).ttlEntry = 0 /\ Reset(x).ttlMeta = 0
  BY DEF Reset, IsEntry, Fields
<1> QED
  BY <1>1, <1>2, <1>3 DEF IsEntry

(* y is x with one item more at the end of an array.                       *)
Placed(y, x, array, count, item) ==
    /\ y = [f \in Fields |-> y[f]]
    /\ y[array] = [x[array] EXCEPT ![x[count]] = item]
    /\ y[count] = x[count] + 1
    /\ \A f \in Fields : f # array /\ f # count => y[f] = x[f]

(* Below its limit, Put adds one item and touches nothing else.            *)
LEMMA PutPlaces ==
    ASSUME NEW x, x = [f \in Fields |-> x[f]], NEW array \in Fields, NEW count \in Fields, array # count,
           NEW limit, NEW item, ~(x[count] >= limit)
    PROVE  Placed(Put(x, array, count, limit, item), x, array, count, item)
<1> DEFINE y == Put(x, array, count, limit, item)
<1>0. y = [x EXCEPT ![array][x[count]] = item, ![count] = @ + 1]
  BY DEF Put
<1>1. y = [f \in Fields |-> y[f]]
  BY <1>0
<1>2. y[array] = [x[array] EXCEPT ![x[count]] = item]
  BY <1>0
<1>3. y[count] = x[count] + 1
  BY <1>0
<1>4. \A f \in Fields : f # array /\ f # count => y[f] = x[f]
  BY <1>0
<1> QED
  BY <1>1, <1>2, <1>3, <1>4 DEF Placed

----------------------------------------------------------------------------
(* Strings.                                                                *)

Text  == Seq(Nat)
Short == {s \in Text : Len(s) <= MaxStr}

(* Truncation keeps the front of a list.                                   *)
LEMMA TruncatedIs ==
    ASSUME NEW T, NEW s \in Seq(T), NEW n \in Nat
    PROVE  /\ Truncated(s, n) \in Seq(T)
           /\ Len(Truncated(s, n)) = IF Len(s) < n THEN Len(s) ELSE n
           /\ \A i \in 1..Len(Truncated(s, n)) : Truncated(s, n)[i] = s[i]
<1> DEFINE m == IF Len(s) < n THEN Len(s) ELSE n
<1>1. m \in Nat /\ m <= Len(s) /\ m \in 0..Len(s)
  OBVIOUS
<1>2. Truncated(s, n) = SubSeq(s, 1, m)
  BY DEF Truncated
<1> HIDE DEF m
<1>3. SubSeq(s, 1, m) \in Seq(T) /\ Len(SubSeq(s, 1, m)) = m /\ \A i \in 1..m : SubSeq(s, 1, m)[i] = s[i]
  BY <1>1
<1> QED
  BY <1>2, <1>3 DEF m

(* A truncated string fits a length byte; a short one stays whole.         *)
LEMMA CutIs ==
    ASSUME NEW s \in Text
    PROVE  Cut(s) \in Short /\ Len(Cut(s)) <= Len(s) /\ (Len(s) <= MaxStr => Cut(s) = s)
<1>1. MaxStr \in Nat /\ Len(s) \in Nat
  BY CodecAssumption DEF Text
<1>2. Cut(s) \in Text /\ Len(Cut(s)) = IF Len(s) < MaxStr THEN Len(s) ELSE MaxStr
  BY <1>1, TruncatedIs DEF Cut, Text
<1>3. \A i \in 1..Len(Cut(s)) : Cut(s)[i] = s[i]
  BY <1>1, TruncatedIs DEF Cut, Text
<1>4. ASSUME Len(s) <= MaxStr PROVE Cut(s) = s
  <2>1. Len(Cut(s)) = Len(s)
    BY <1>1, <1>2, <1>4
  <2> QED
    BY <1>2, <1>3, <2>1 DEF Text
<1> QED
  BY <1>1, <1>2, <1>4 DEF Short

(* A sequence over a set is one over any larger set.                       *)
LEMMA WiderSeq ==
    ASSUME NEW T, NEW U, \A t \in T : t \in U, NEW s \in Seq(T)
    PROVE  s \in Seq(U)
<1>1. s = [i \in 1..Len(s) |-> s[i]] /\ Len(s) \in Nat
  OBVIOUS
<1>2. \A i \in 1..Len(s) : s[i] \in T
  OBVIOUS
<1> QED
  BY <1>1, <1>2

(* The arguments of the methods are sequences of bytes.                    *)
LEMMA StringsAreText == Strings \subseteq Text /\ Values \subseteq Text /\ <<>> \in Short
<1>1. \A n \in 0..255 : n \in Nat
  OBVIOUS
<1>2. ASSUME NEW s \in Seq(0..255) PROVE s \in Text
  BY <1>1, WiderSeq DEF Text
<1>3. Strings \cup Values \subseteq Seq(0..255)
  BY LogEntryAssumption
<1>4. <<>> \in Short
  BY CodecAssumption DEF Text, Short
<1> QED
  BY <1>2, <1>3, <1>4

(* Truncating each tag of a list keeps their number.                       *)
LEMMA CutAllIs ==
    ASSUME NEW ts \in Seq(Strings)
    PROVE  CutAll(ts) \in Seq({Cut(s) : s \in Strings}) /\ Len(CutAll(ts)) = Len(ts)
           /\ CutAll(ts) \in Seq(Short)
<1>1. CutAll(ts) = [i \in 1..Len(ts) |-> Cut(ts[i])] /\ Len(ts) \in Nat
  BY DEF CutAll
<1>2. \A i \in 1..Len(ts) : Cut(ts[i]) \in {Cut(s) : s \in Strings} /\ Cut(ts[i]) \in Short
  BY StringsAreText, CutIs
<1> QED
  BY <1>1, <1>2

----------------------------------------------------------------------------
(* Loops over the items given to an entry.                                 *)

PutOf(p, x, item) == Put(x, p[1], p[2], p[3], item)
Putting == INSTANCE FoldProofs WITH Op <- PutOf
Filtering == INSTANCE FoldProofs WITH Op <- Filter

(* y is x with the first k items put behind those in the array, as far as  *)
(* there is room.                                                          *)
Extended(y, x, array, count, limit, items, k) ==
    /\ y = [f \in Fields |-> y[f]]
    /\ y[count] = IF x[count] + k < limit THEN x[count] + k ELSE limit
    /\ IsArray(y[array], limit)
    /\ \A i \in 0..(limit - 1) :
          y[array][i] = IF i < x[count] \/ i >= y[count] THEN x[array][i]
                        ELSE items[i - x[count] + 1]
    /\ \A f \in Fields : f # array /\ f # count => y[f] = x[f]

(* PutAll adds the items one behind the other until the array is full: by  *)
(* induction over the items.                                               *)
LEMMA PutAllExtends ==
    ASSUME NEW x, x = [f \in Fields |-> x[f]], NEW array \in Fields, NEW count \in Fields, array # count,
           NEW limit \in Nat, IsArray(x[array], limit), x[count] \in 0..limit,
           NEW T, NEW items \in Seq(T)
    PROVE  Extended(PutAll(x, array, count, limit, items), x, array, count, limit, items, Len(items))
<1>1. ASSUME NEW p PROVE PutAll(x, p[1], p[2], p[3], items) = Putting!Folded(p, x, items)
  BY DEF PutAll, Putting!Folded, PutOf, FoldLeft, MapThenFoldSet, Max, Putting!Largest
<1> DEFINE p == <<array, count, limit>>
<1>2. PutAll(x, array, count, limit, items) = Putting!Folded(p, x, items)
  <2>1. p[1] = array /\ p[2] = count /\ p[3] = limit
    OBVIOUS
  <2>2. PutAll(x, p[1], p[2], p[3], items) = Putting!Folded(p, x, items)
    BY <1>1
  <2> HIDE DEF p
  <2> QED
    BY <2>1, <2>2
<1>3. PICK h : Putting!Through(h, p, x, items)
  BY Putting!FoldGoesThrough
<1>4. /\ h[0] = x /\ h[Len(items)] = PutAll(x, array, count, limit, items)
      /\ \A k \in 1..Len(items) : h[k] = Put(h[k - 1], array, count, limit, items[k])
  BY <1>2, <1>3 DEF Putting!Through, PutOf
<1> HIDE DEF p
<1> DEFINE Good(k) == Extended(h[k], x, array, count, limit, items, k)
           S == {k \in Nat : Good(k)}
<1>5. Good(0)
  BY <1>4 DEF Extended
<1>6. ASSUME NEW k \in 1..Len(items), Good(k - 1) PROVE Good(k)
  <2> DEFINE y == h[k - 1]
             z == Put(y, array, count, limit, items[k])
  <2>1. /\ y = [f \in Fields |-> y[f]]
        /\ y[count] = IF x[count] + (k - 1) < limit THEN x[count] + (k - 1) ELSE limit
        /\ IsArray(y[array], limit)
        /\ \A f \in Fields : f # array /\ f # count => y[f] = x[f]
    BY <1>6 DEF Extended
  <2>2. \A i \in 0..(limit - 1) :
          y[array][i] = IF i < x[count] \/ i >= y[count] THEN x[array][i]
                        ELSE items[i - x[count] + 1]
    BY <1>6 DEF Extended
  <2>3. h[k] = z
    BY <1>4
  <2>4. CASE y[count] >= limit
    <3>1. z = y
      BY <2>4 DEF Put
    <3> HIDE DEF z, y
    <3> QED
      BY <2>1, <2>2, <2>3, <2>4, <3>1 DEF Extended
  <2>5. CASE ~(y[count] >= limit)
    <3> HIDE DEF y
    <3>1. /\ z = [f \in Fields |-> z[f]]
          /\ z[array] = [y[array] EXCEPT ![y[count]] = items[k]]
          /\ z[count] = y[count] + 1
          /\ \A f \in Fields : f # array /\ f # count => z[f] = y[f]
      <4>1. Placed(Put(y, array, count, limit, items[k]), y, array, count, items[k])
        BY <2>1, <2>5, PutPlaces
      <4> QED
        BY <4>1 DEF Placed
    <3> HIDE DEF z
    <3>2. y[count] = x[count] + (k - 1) /\ z[count] = x[count] + k /\ x[count] + k <= limit
      BY <2>1, <2>5, <3>1
    <3>3. IsArray(z[array], limit)
      BY <2>1, <3>1 DEF IsArray
    <3>4. ASSUME NEW i \in 0..(limit - 1)
          PROVE  z[array][i] = IF i < x[count] \/ i >= z[count] THEN x[array][i]
                                ELSE items[i - x[count] + 1]
      <4>1. z[array][i] = IF i = y[count] THEN items[k] ELSE y[array][i]
        BY <2>1, <3>1 DEF IsArray
      <4>2. y[array][i] = IF i < x[count] \/ i >= y[count] THEN x[array][i]
                          ELSE items[i - x[count] + 1]
        BY <2>2
      <4>3. x[count] \in Nat /\ k \in Nat /\ k >= 1
        OBVIOUS
      <4>4. i = y[count] => i - x[count] + 1 = k /\ ~(i < x[count]) /\ ~(i >= z[count])
        BY <3>2, <4>3
      <4>5. i # y[count] => (i >= y[count] <=> i >= z[count])
        BY <3>2, <4>3
      <4> QED
        BY <4>1, <4>2, <4>4, <4>5
    <3>5. z[count] = IF x[count] + k < limit THEN x[count] + k ELSE limit
      BY <3>2
    <3>6. \A f \in Fields : f # array /\ f # count => z[f] = x[f]
      BY <2>1, <3>1
    <3> QED
      BY <2>3, <3>1, <3>3, <3>4, <3>5, <3>6 DEF Extended
  <2> QED
    BY <2>4, <2>5
<1> HIDE DEF Good
<1>7. 0 \in S /\ Len(items) \in Nat
  BY <1>5
<1>8. ASSUME NEW k \in 1..Len(items), k - 1 \in S PROVE k \in S
  BY <1>6, <1>8
<1>9. Len(items) \in S
  <2> HIDE DEF S
  <2>1. \A k \in 0..Len(items) : k \in S
    BY <1>7, <1>8, Putting!BoundedInduction
  <2> QED
    BY <1>7, <2>1
<1> QED
  BY <1>4, <1>9 DEF Good

(* A filtered list holds only items that pass the filter.                  *)
LEMMA OfLengthIs ==
    ASSUME NEW lengths, NEW T, NEW ts \in Seq(T)
    PROVE  OfLength(lengths, ts) \in Seq({t \in T : Len(t) \in lengths})
<1>0. PICK U : U = {t \in T : Len(t) \in lengths}
  OBVIOUS
<1>1. OfLength(lengths, ts) = Filtering!Folded(lengths, <<>>, ts)
  BY DEF OfLength, Filtering!Folded, FoldLeft, MapThenFoldSet, Max, Filtering!Largest
<1>2. PICK h : Filtering!Through(h, lengths, <<>>, ts)
  BY Filtering!FoldGoesThrough
<1>3. /\ h[0] = <<>> /\ h[Len(ts)] = OfLength(lengths, ts)
      /\ \A k \in 1..Len(ts) : h[k] = Filter(lengths, h[k - 1], ts[k])
  BY <1>1, <1>2 DEF Filtering!Through
<1> DEFINE S == {k \in Nat : h[k] \in Seq(U)}
<1>4. 0 \in S /\ Len(ts) \in Nat
  <2>1. <<>> \in Seq(U)
    OBVIOUS
  <2>2. h[0] \in Seq(U)
    BY <1>3, <2>1
  <2> QED
    BY <2>2
<1>5. ASSUME NEW k \in 1..Len(ts), k - 1 \in S PROVE k \in S
  <2>1. h[k - 1] \in Seq(U) /\ ts[k] \in T /\ k \in Nat
    BY <1>5
  <2>2. CASE Len(ts[k]) \in lengths
    <3>1. ts[k] \in U
      BY <1>0, <2>1, <2>2
    <3>2. h[k] = Append(h[k - 1], ts[k])
      BY <1>3, <2>2 DEF Filter
    <3>3. Append(h[k - 1], ts[k]) \in Seq(U)
      BY <2>1, <3>1
    <3>4. h[k] \in Seq(U)
      BY <3>2, <3>3
    <3> QED
      BY <2>1, <3>4
  <2>3. CASE Len(ts[k]) \notin lengths
    BY <1>3, <2>1, <2>3 DEF Filter
  <2> QED
    BY <2>2, <2>3
<1>6. Len(ts) \in S
  <2> HIDE DEF S
  <2>1. \A k \in 0..Len(ts) : k \in S
    BY <1>4, <1>5, Filtering!BoundedInduction
  <2> QED
    BY <1>4, <2>1
<1> QED
  BY <1>0, <1>3, <1>6

(* The tags that are kept, with or without the empty ones, are strings.    *)
LEMMA KeptIs ==
    ASSUME NEW ts \in Seq(Strings), NEW kept \in Kept(ts)
    PROVE  kept \in Seq(Strings)
<1> DEFINE some == {t \in Strings : Len(t) \in Nat \ {0}}
<1>1. OfLength(Nat \ {0}, ts) \in Seq(some)
  BY OfLengthIs
<1>2. \A t \in some : t \in Strings
  OBVIOUS
<1> HIDE DEF some
<1>3. OfLength(Nat \ {0}, ts) \in Seq(Strings)
  BY <1>1, <1>2, WiderSeq
<1> QED
  BY <1>3 DEF Kept

----------------------------------------------------------------------------
(* What entries that are built and sent hold.                              *)

(* The fields that are no arrays;                                          *)
Scalars(x) ==
    /\ x.level \in Message..TTLMeta /\ x.message \in Text
    /\ x.bucketId \in Nat /\ x.id \in Nat /\ x.severity \in Nat /\ x.categoryId \in Nat
    /\ x.ttlEntry \in Nat /\ x.ttlMeta \in Nat

(* an array of values of type T, and how much of it is in use;             *)
Holds(x, array, count, limit, T) ==
    x[array] \in [0..(limit - 1) -> T] /\ x[count] \in 0..limit

HasTags(x)    == Holds(x, "tags", "tagsCount", MaxTagsCount, Short)
HasMetrics(x) == Holds(x, "metrics", "metricCount", MaxMetricCount, Short \X Nat)
HasMeta(x)    == Holds(x, "meta", "metaCount", MaxMetaCount, Short \X Text)
HasTrace(x)   == Holds(x, "trace", "stackTraceCount", MaxStackTraceCount, Text \X Nat)

(* and the whole entry.                                                    *)
Typed(x) ==
    /\ x = [f \in Fields |-> x[f]]
    /\ Scalars(x) /\ HasTags(x) /\ HasMetrics(x) /\ HasMeta(x) /\ HasTrace(x)

(* The limits of an entry are positive numbers.                            *)
LEMMA LimitsAreNat ==
    /\ MaxEntrySize \in Nat \ {0} /\ MaxStr \in Nat \ {0} /\ MaxTagsCount \in Nat \ {0}
    /\ MaxMetricCount \in Nat \ {0} /\ MaxMetaCount \in Nat \ {0}
    /\ MaxStackTraceCount \in Nat \ {0}
  BY CodecAssumption

(* An entry that is built has all fields and keeps to its limits.          *)
LEMMA TypedIsEntry ==
    ASSUME NEW x, Typed(x)
    PROVE  IsEntry(x) /\ WithinLimits(x)
<1>1. IsEntry(x)
  BY DEF Typed, IsEntry, IsArray, HasTags, HasMetrics, HasMeta, HasTrace, Holds
<1>2. WithinLimits(x)
  BY DEF Typed, WithinLimits, Scalars, HasTags, HasMetrics, HasMeta, HasTrace, Holds
<1> QED
  BY <1>1, <1>2

(* A new entry is one.                                                     *)
LEMMA FreshIsTyped == Typed(Fresh)
<1>1. Fresh = [f \in Fields |-> Fresh[f]]
  BY FreshIsEntry DEF IsEntry
<1>2. Scalars(Fresh)
  BY DEF Scalars, Fresh, Message, TTLMeta, Text
<1>3. <<>> \in Short /\ <<<<>>, 0>> \in Short \X Nat /\ <<<<>>, <<>>>> \in Short \X Text
      /\ <<<<>>, 0>> \in Text \X Nat
  BY StringsAreText DEF Text, Short
<1>4. HasTags(Fresh) /\ HasMetrics(Fresh) /\ HasMeta(Fresh) /\ HasTrace(Fresh)
  BY <1>3, LimitsAreNat DEF HasTags, HasMetrics, HasMeta, HasTrace, Holds, Fresh, Array
<1> QED
  BY <1>1, <1>2, <1>4 DEF Typed

(* Put keeps an array and its count well formed,                           *)
LEMMA PutTyped ==
    ASSUME NEW x, x = [f \in Fields |-> x[f]], NEW array \in Fields, NEW count \in Fields, array # count,
           NEW limit \in Nat, NEW T, Holds(x, array, count, limit, T), NEW item \in T
    PROVE  LET y == Put(x, array, count, limit, item)
           IN /\ y = [f \in Fields |-> y[f]] /\ Holds(y, array, count, limit, T)
              /\ \A f \in Fields : f # array /\ f # count => y[f] = x[f]
<1> DEFINE y == Put(x, array, count, limit, item)
<1>1. CASE x[count] >= limit
  BY <1>1 DEF Put
<1>2. CASE ~(x[count] >= limit)
  <2>1. Placed(y, x, array, count, item)
    BY <1>2, PutPlaces
  <2> HIDE DEF y
  <2>2. /\ y = [f \in Fields |-> y[f]] /\ \A f \in Fields : f # array /\ f # count => y[f] = x[f]
        /\ y[array] = [x[array] EXCEPT ![x[count]] = item] /\ y[count] = x[count] + 1
    BY <2>1 DEF Placed
  <2>3. y[array] \in [0..(limit - 1) -> T] /\ y[count] \in 0..limit
    BY <1>2, <2>2 DEF Holds
  <2> QED
    BY <2>2, <2>3 DEF Holds, y
<1> QED
  BY <1>1, <1>2

(* and so does PutAll.                                                     *)
LEMMA PutAllTyped ==
    ASSUME NEW x, x = [f \in Fields |-> x[f]], NEW array \in Fields, NEW count \in Fields, array # count,
           NEW limit \in Nat, NEW T, Holds(x, array, count, limit, T), NEW items \in Seq(T)
    PROVE  LET y == PutAll(x, array, count, limit, items)
           IN /\ y = [f \in Fields |-> y[f]] /\ Holds(y, array, count, limit, T)
              /\ \A f \in Fields : f # array /\ f # count => y[f] = x[f]
<1> DEFINE y == PutAll(x, array, count, limit, items)
<1>1. IsArray(x[array], limit) /\ x[count] \in 0..limit /\ x[array] \in [0..(limit - 1) -> T]
  BY DEF Holds, IsArray
<1>2. Extended(y, x, array, count, limit, items, Len(items))
  BY <1>1, PutAllExtends
<1> HIDE DEF y
<1>3. Len(items) \in Nat /\ \A i \in 1..Len(items) : items[i] \in T
  OBVIOUS
<1>4. /\ y = [f \in Fields |-> y[f]] /\ \A f \in Fields : f # array /\ f # count => y[f] = x[f]
      /\ IsArray(y[array], limit)
      /\ y[count] = IF x[count] + Len(items) < limit THEN x[count] + Len(items) ELSE limit
  BY <1>2 DEF Extended
<1>5. y[count] \in 0..limit /\ y[count] <= x[count] + Len(items)
  BY <1>1, <1>3, <1>4
<1>6. ASSUME NEW i \in 0..(limit - 1) PROVE y[array][i] \in T
  <2>1. y[array][i] = IF i < x[count] \/ i >= y[count] THEN x[array][i]
                      ELSE items[i - x[count] + 1]
    BY <1>2 DEF Extended
  <2>2. CASE i < x[count] \/ i >= y[count]
    BY <1>1, <2>1, <2>2
  <2>3. CASE ~(i < x[count] \/ i >= y[count])
    <3>1. i - x[count] + 1 \in 1..Len(items)
      BY <1>1, <1>3, <1>5, <2>3
    <3> QED
      BY <1>3, <2>1, <2>3, <3>1
  <2> QED
    BY <2>2, <2>3
<1>7. Holds(y, array, count, limit, T)
  BY <1>4, <1>5, <1>6 DEF Holds, IsArray
<1> QED
  BY <1>4, <1>7 DEF y

(* The arrays and their counts.                                            *)
ArrayFields == {"tags", "tagsCount", "metrics", "metricCount", "meta", "metaCount", "trace",
                "stackTraceCount"}

(* Assigning to fields that are no arrays leaves the arrays alone.         *)
LEMMA ScalarsTyped ==
    ASSUME NEW x, Typed(x), NEW y, y = [f \in Fields |-> y[f]], Scalars(y),
           \A f \in ArrayFields : y[f] = x[f]
    PROVE  Typed(y)
  BY DEF Typed, HasTags, HasMetrics, HasMeta, HasTrace, Holds, ArrayFields

(* y is x but for two of its fields.                                       *)
Only(y, x, array, count) ==
    y = [f \in Fields |-> y[f]] /\ \A f \in Fields : f # array /\ f # count => y[f] = x[f]

(* An entry whose tags are replaced by well formed ones stays well formed; *)
LEMMA TagsTyped ==
    ASSUME NEW x, Typed(x), NEW y, Only(y, x, "tags", "tagsCount"), HasTags(y)
    PROVE  Typed(y) /\ y.message = x.message
  BY DEF Typed, HasMetrics, HasMeta, HasTrace, Holds, Only, Scalars, Fields

(* the same for its metrics,                                               *)
LEMMA MetricsTyped ==
    ASSUME NEW x, Typed(x), NEW y, Only(y, x, "metrics", "metricCount"), HasMetrics(y)
    PROVE  Typed(y) /\ y.message = x.message
  BY DEF Typed, HasTags, HasMeta, HasTrace, Holds, Only, Scalars, Fields

(* its metadata,                                                           *)
LEMMA MetaTyped ==
    ASSUME NEW x, Typed(x), NEW y, Only(y, x, "meta", "metaCount"), HasMeta(y)
    PROVE  Typed(y) /\ y.message = x.message
  BY DEF Typed, HasTags, HasMetrics, HasTrace, Holds, Only, Scalars, Fields

(* and its stack trace.                                                    *)
LEMMA TraceTyped ==
    ASSUME NEW x, Typed(x), NEW y, Only(y, x, "trace", "stackTraceCount"), HasTrace(y)
    PROVE  Typed(y) /\ y.message = x.message
  BY DEF Typed, HasTags, HasMetrics, HasMeta, Holds, Only, Scalars, Fields

(* An array with its count set back is well formed whatever is left in it. *)
LEMMA EmptyHolds ==
    ASSUME NEW x, NEW y, NEW array, NEW count, NEW limit \in Nat, NEW T,
           Holds(x, array, count, limit, T), y[array] = x[array], y[count] = 0
    PROVE  Holds(y, array, count, limit, T)
  BY DEF Holds

(* Entry.Reset keeps an entry well formed.                                 *)
LEMMA ResetTyped ==
    ASSUME NEW x, Typed(x)
    PROVE  Typed(Reset(x)) /\ Reset(x).message = x.message
<1> DEFINE y == Reset(x)
<1>1. /\ y.level = Message /\ y.id = 0 /\ y.tagsCount = 0
      /\ y.metricCount = 0 /\ y.metaCount = 0 /\ y.stackTraceCount = 0
      /\ y.ttlEntry = 0 /\ y.ttlMeta = 0
      /\ \A f \in {"bucketId", "severity", "message", "categoryId", "tags", "metrics", "meta", "trace"} :
                y[f] = x[f]
      /\ y = [f \in Fields |-> y[f]]
  BY TypedIsEntry, ResetSets DEF IsEntry
<1> HIDE DEF y
<1>2. Scalars(y)
  BY <1>1 DEF Typed, Scalars, Message, TTLMeta
<1>3. y.tags = x.tags /\ y.metrics = x.metrics /\ y.meta = x.meta /\ y.trace = x.trace
  BY <1>1
<1>4. HasTags(y) /\ HasMetrics(y)
  BY <1>1, <1>3, LimitsAreNat, EmptyHolds DEF Typed, HasTags, HasMetrics
<1>5. HasMeta(y) /\ HasTrace(y)
  BY <1>1, <1>3, LimitsAreNat, EmptyHolds DEF Typed, HasMeta, HasTrace
<1> QED
  BY <1>1, <1>2, <1>4, <1>5 DEF Typed, y

(* incLevel changes the level and nothing else.                            *)
LEMMA LevelTyped ==
    ASSUME NEW x, Typed(x), NEW l \in Message..TTLMeta
    PROVE  /\ Typed(incLevel(x, l))
           /\ \A f \in Fields : f # "level" => incLevel(x, l)[f] = x[f]
<1> DEFINE y == incLevel(x, l)
<1>1. y = [f \in Fields |-> y[f]] /\ \A f \in Fields : f # "level" => y[f] = x[f]
  BY DEF incLevel, Typed
<1>2. y.level = IF x.level > l THEN x.level ELSE l
  BY DEF incLevel, Typed, Fields
<1> HIDE DEF y
<1>3. Scalars(y)
  BY <1>1, <1>2 DEF Typed, Scalars, Fields
<1>4. \A f \in ArrayFields : y[f] = x[f]
  BY <1>1 DEF ArrayFields, Fields
<1>5. Typed(y)
  BY <1>1, <1>3, <1>4, ScalarsTyped
<1> QED
  BY <1>1, <1>5 DEF y

(* Assigning to a number or to the message keeps an entry well formed.     *)
LEMMA AssignTyped ==
    ASSUME NEW x, Typed(x), NEW field, NEW value,
           \/ field = "message" /\ value \in Text
           \/ field \in {"bucketId", "id", "severity", "categoryId", "ttlEntry", "ttlMeta"} /\ value \in Nat
    PROVE  /\ Typed([x EXCEPT ![field] = value])
           /\ [x EXCEPT ![field] = value].message = IF field = "message" THEN value ELSE x.message
<1> DEFINE y == [x EXCEPT ![field] = value]
<1>1. y = [f \in Fields |-> y[f]] /\ \A f \in Fields : f # field => y[f] = x[f]
  BY DEF Typed
<1>2. y[field] = value
  BY DEF Typed, Fields
<1> HIDE DEF y
<1>3. Scalars(y)
  BY <1>1, <1>2 DEF Typed, Scalars, Fields
<1>4. \A f \in ArrayFields : y[f] = x[f]
  BY <1>1 DEF ArrayFields, Fields
<1>5. Typed(y)
  BY <1>1, <1>3, <1>4, ScalarsTyped
<1>6. y.message = IF field = "message" THEN value ELSE x.message
  BY <1>1, <1>2 DEF Fields
<1> QED
  BY <1>5, <1>6 DEF y

(* Adding short tags does,                                                 *)
LEMMA PutTagsTyped ==
    ASSUME NEW x, Typed(x), NEW items \in Seq(Short)
    PROVE  LET y == PutAll(x, "tags", "tagsCount", MaxTagsCount, items)
           IN Typed(y) /\ y.message = x.message
<1> DEFINE y == PutAll(x, "tags", "tagsCount", MaxTagsCount, items)
<1>1. x = [f \in Fields |-> x[f]] /\ Holds(x, "tags", "tagsCount", MaxTagsCount, Short)
      /\ "tags" \in Fields /\ "tagsCount" \in Fields /\ MaxTagsCount \in Nat
  BY LimitsAreNat DEF Typed, HasTags, Fields
<1>2. Only(y, x, "tags", "tagsCount") /\ HasTags(y)
  BY <1>1, PutAllTyped DEF Only, HasTags
<1> HIDE DEF y
<1>3. Typed(y) /\ y.message = x.message
  BY <1>2, TagsTyped
<1> QED
  BY <1>3 DEF y

(* adding metadata,                                                        *)
LEMMA PutMetasTyped ==
    ASSUME NEW x, Typed(x), NEW items \in Seq(Short \X Text)
    PROVE  LET y == PutAll(x, "meta", "metaCount", MaxMetaCount, items)
           IN Typed(y) /\ y.message = x.message
<1> DEFINE y == PutAll(x, "meta", "metaCount", MaxMetaCount, items)
<1>1. x = [f \in Fields |-> x[f]] /\ Holds(x, "meta", "metaCount", MaxMetaCount, Short \X Text)
      /\ "meta" \in Fields /\ "metaCount" \in Fields /\ MaxMetaCount \in Nat
  BY LimitsAreNat DEF Typed, HasMeta, Fields
<1>2. Only(y, x, "meta", "metaCount") /\ HasMeta(y)
  BY <1>1, PutAllTyped DEF Only, HasMeta
<1> HIDE DEF y
<1>3. Typed(y) /\ y.message = x.message
  BY <1>2, MetaTyped
<1> QED
  BY <1>3 DEF y

(* adding metrics,                                                         *)
LEMMA PutMetricsTyped ==
    ASSUME NEW x, Typed(x), NEW items \in Seq(Short \X Nat)
    PROVE  LET y == PutAll(x, "metrics", "metricCount", MaxMetricCount, items)
           IN Typed(y) /\ y.message = x.message
<1> DEFINE y == PutAll(x, "metrics", "metricCount", MaxMetricCount, items)
<1>1. x = [f \in Fields |-> x[f]] /\ Holds(x, "metrics", "metricCount", MaxMetricCount, Short \X Nat)
      /\ "metrics" \in Fields /\ "metricCount" \in Fields /\ MaxMetricCount \in Nat
  BY LimitsAreNat DEF Typed, HasMetrics, Fields
<1>2. Only(y, x, "metrics", "metricCount") /\ HasMetrics(y)
  BY <1>1, PutAllTyped DEF Only, HasMetrics
<1> HIDE DEF y
<1>3. Typed(y) /\ y.message = x.message
  BY <1>2, MetricsTyped
<1> QED
  BY <1>3 DEF y

(* and adding one item of metadata, a metric or a frame.                   *)
LEMMA PutOneTyped ==
    ASSUME NEW x, Typed(x), NEW key \in Text
    PROVE  /\ \A v \in Text : LET y == Put(x, "meta", "metaCount", MaxMetaCount, <<Cut(key), v>>)
                              IN Typed(y) /\ y.message = x.message
           /\ \A v \in Nat : LET y == Put(x, "metrics", "metricCount", MaxMetricCount, <<Cut(key), v>>)
                             IN Typed(y) /\ y.message = x.message
           /\ \A v \in Nat : LET y == Put(x, "trace", "stackTraceCount", MaxStackTraceCount, <<key, v>>)
                             IN Typed(y) /\ y.message = x.message
<1>1. x = [f \in Fields |-> x[f]] /\ HasMeta(x) /\ HasMetrics(x) /\ HasTrace(x) /\ Cut(key) \in Short
  BY CutIs DEF Typed
<1>2. ASSUME NEW v \in Text
      PROVE  LET y == Put(x, "meta", "metaCount", MaxMetaCount, <<Cut(key), v>>)
             IN Typed(y) /\ y.message = x.message
  <2> DEFINE y == Put(x, "meta", "metaCount", MaxMetaCount, <<Cut(key), v>>)
  <2>1. "meta" \in Fields /\ "metaCount" \in Fields /\ MaxMetaCount \in Nat
        /\ Holds(x, "meta", "metaCount", MaxMetaCount, Short \X Text)
        /\ <<Cut(key), v>> \in Short \X Text
    BY <1>1, LimitsAreNat DEF HasMeta, Fields
  <2>2. Only(y, x, "meta", "metaCount") /\ HasMeta(y)
    BY <1>1, <2>1, PutTyped DEF Only, HasMeta
  <2> HIDE DEF y
  <2>3. Typed(y) /\ y.message = x.message
    BY <2>2, MetaTyped
  <2> QED
    BY <2>3 DEF y
<1>3. ASSUME NEW v \in Nat
      PROVE  LET y == Put(x, "metrics", "metricCount", MaxMetricCount, <<Cut(key), v>>)
             IN Typed(y) /\ y.message = x.message
  <2> DEFINE y == Put(x, "metrics", "metricCount", MaxMetricCount, <<Cut(key), v>>)
  <2>1. "metrics" \in Fields /\ "metricCount" \in Fields /\ MaxMetricCount \in Nat
        /\ Holds(x, "metrics", "metricCount", MaxMetricCount, Short \X Nat)
        /\ <<Cut(key), v>> \in Short \X Nat
    BY <1>1, LimitsAreNat DEF HasMetrics, Fields
  <2>2. Only(y, x, "metrics", "metricCount") /\ HasMetrics(y)
    BY <1>1, <2>1, PutTyped DEF Only, HasMetrics
  <2> HIDE DEF y
  <2>3. Typed(y) /\ y.message = x.message
    BY <2>2, MetricsTyped
  <2> QED
    BY <2>3 DEF y
<1>4. ASSUME NEW v \in Nat
      PROVE  LET y == Put(x, "trace", "stackTraceCount", MaxStackTraceCount, <<key, v>>)
             IN Typed(y) /\ y.message = x.message
  <2> DEFINE y == Put(x, "trace", "stackTraceCount", MaxStackTraceCount, <<key, v>>)
  <2>1. "trace" \in Fields /\ "stackTraceCount" \in Fields /\ MaxStackTraceCount \in Nat
        /\ Holds(x, "trace", "stackTraceCount", MaxStackTraceCount, Text \X Nat)
        /\ <<key, v>> \in Text \X Nat
    BY <1>1, LimitsAreNat DEF HasTrace, Fields
  <2>2. Only(y, x, "trace", "stackTraceCount") /\ HasTrace(y)
    BY <1>1, <2>1, PutTyped DEF Only, HasTrace
  <2> HIDE DEF y
  <2>3. Typed(y) /\ y.message = x.message
    BY <2>2, TraceTyped
  <2> QED
    BY <2>3 DEF y
<1> QED
  BY <1>2, <1>3, <1>4

(* Entry.Tag and Tags.                                                     *)
LEMMA AddTagsTyped ==
    ASSUME NEW x, Typed(x), NEW ts \in Seq(Strings)
    PROVE  Typed(AddTags(x, ts)) /\ AddTags(x, ts).message = x.message
<1>1. CutAll(ts) \in Seq(Short)
  BY CutAllIs
<1> DEFINE z == incLevel(x, Tags)
<1>2. Typed(z) /\ z.message = x.message
  BY LevelTyped DEF Tags, Message, TTLMeta, Fields
<1>3. AddTags(x, ts) = PutAll(z, "tags", "tagsCount", MaxTagsCount, CutAll(ts))
  BY DEF AddTags
<1> HIDE DEF z
<1> QED
  BY <1>1, <1>2, <1>3, PutTagsTyped

(* Entry.PrependTag, in both of its ways.                                  *)
LEMMA PrependedTyped ==
    ASSUME NEW x, Typed(x), NEW ts \in Seq(Strings), NEW kept \in Seq(Strings)
    PROVE  Typed(Prepended(x, ts, kept)) /\ Prepended(x, ts, kept).message = x.message
<1>1. CASE x.tagsCount = 0 \/ Len(ts) >= MaxTagsCount
  <2> DEFINE z == [x EXCEPT !.tagsCount = 0]
  <2>1. Only(z, x, "tags", "tagsCount") /\ z.tags = x.tags /\ z.tagsCount = 0
    BY DEF Only, Typed, Fields
  <2> HIDE DEF z
  <2>2. HasTags(z)
    BY <2>1, LimitsAreNat DEF Typed, HasTags, Holds
  <2>3. Typed(z) /\ z.message = x.message
    BY <2>1, <2>2, TagsTyped
  <2>4. Prepended(x, ts, kept) = AddTags(z, kept)
    BY <1>1 DEF Prepended, z
  <2> QED
    BY <2>3, <2>4, AddTagsTyped
<1>2. CASE ~(x.tagsCount = 0 \/ Len(ts) >= MaxTagsCount)
  <2> DEFINE w == incLevel(x, Tags)
             moved(i) == i >= Len(ts) /\ i < Len(ts) + x.tagsCount
             shifted == [i \in 0..(MaxTagsCount - 1) |->
                            IF i < Len(ts) THEN Cut(ts[i + 1])
                            ELSE IF moved(i) THEN x.tags[i - Len(ts)] ELSE x.tags[i]]
             y == [w EXCEPT !.tags = shifted,
                      !.tagsCount = IF @ + Len(ts) < MaxTagsCount THEN @ + Len(ts) ELSE MaxTagsCount]
  <2>1. Prepended(x, ts, kept) = y
    BY <1>2 DEF Prepended
  <2>2. Typed(w) /\ w.message = x.message
    BY LevelTyped DEF Tags, Message, TTLMeta, Fields
  <2>3. Len(ts) \in Nat /\ MaxTagsCount \in Nat /\ x.tagsCount \in 0..MaxTagsCount
        /\ x.tags \in [0..(MaxTagsCount - 1) -> Short] /\ w.tagsCount \in 0..MaxTagsCount
    BY <2>2, LimitsAreNat DEF Typed, HasTags, Holds
  <2>4. ASSUME NEW i \in 0..(MaxTagsCount - 1)
        PROVE  (IF i < Len(ts) THEN Cut(ts[i + 1])
                ELSE IF moved(i) THEN x.tags[i - Len(ts)] ELSE x.tags[i]) \in Short
    <3>1. i < Len(ts) => i + 1 \in 1..Len(ts)
      BY <2>3
    <3>2. i < Len(ts) => Cut(ts[i + 1]) \in Short
      BY <3>1, StringsAreText, CutIs
    <3>3. ~(i < Len(ts)) => i - Len(ts) \in 0..(MaxTagsCount - 1)
      BY <2>3
    <3> QED
      BY <2>3, <3>2, <3>3
  <2>5. shifted \in [0..(MaxTagsCount - 1) -> Short]
    BY <2>4
  <2> HIDE DEF shifted, w
  <2>6. /\ Only(y, w, "tags", "tagsCount") /\ y.tags = shifted
        /\ y.tagsCount = IF w.tagsCount + Len(ts) < MaxTagsCount THEN w.tagsCount + Len(ts)
                          ELSE MaxTagsCount
    BY <2>2 DEF Only, Typed, Fields
  <2> HIDE DEF y
  <2>7. HasTags(y)
    BY <2>3, <2>5, <2>6 DEF HasTags, Holds
  <2> QED
    BY <2>1, <2>2, <2>6, <2>7, TagsTyped
<1> QED
  BY <1>1, <1>2

(* Entry.Trace.                                                            *)
LEMMA TracedTyped ==
    ASSUME NEW x, Typed(x), NEW frames, frames = <<>> \/ \E p \in Text : frames = <<<<p, Word>>>>
    PROVE  Typed(Traced(x, frames)) /\ Traced(x, frames).message = x.message
<1>1. CASE frames = <<>>
  <2>1. Traced(x, frames) = incLevel(x, StackTrace)
    BY <1>1 DEF Traced
  <2> QED
    BY <2>1, LevelTyped DEF StackTrace, Message, TTLMeta, Fields
<1>2. CASE \E p \in Text : frames = <<<<p, Word>>>>
  <2>1. PICK p \in Text : frames = <<<<p, Word>>>>
    BY <1>2
  <2>2. Len(frames) = 1 /\ Len(frames) # 0 /\ frames[1] = <<p, Word>> /\ Word \in Nat
    <3>1. Len(frames) = 1 /\ frames[1] = <<p, Word>>
      BY <2>1
    <3>2. Word \in Nat
      BY NumbersAssumption
    <3> QED
      BY <3>1, <3>2
  <2> DEFINE z == [x EXCEPT !.level = StackTrace]
             y == [x EXCEPT !.level = StackTrace, !.stackTraceCount = Len(frames),
                      !.trace = [i \in DOMAIN @ |-> IF i < Len(frames) THEN frames[i + 1] ELSE @[i]]]
  <2>3. Traced(x, frames) = y
    BY <2>2 DEF Traced
  <2>4. /\ y = [f \in Fields |-> y[f]] /\ y.level = StackTrace /\ y.stackTraceCount = Len(frames)
        /\ \A f \in Fields : f # "level" /\ f # "trace" /\ f # "stackTraceCount" => y[f] = x[f]
    BY DEF Typed, Fields
  <2>5. y.trace = [i \in DOMAIN x.trace |-> IF i < Len(frames) THEN frames[i + 1] ELSE x.trace[i]]
    BY DEF Typed, Fields
  <2> HIDE DEF y
  <2>6. x.trace \in [0..(MaxStackTraceCount - 1) -> Text \X Nat] /\ MaxStackTraceCount \in Nat \ {0}
    BY LimitsAreNat DEF Typed, HasTrace, Holds
  <2>7. <<p, Word>> \in Text \X Nat
    BY <2>1, <2>2
  <2>8. ASSUME NEW i \in 0..(MaxStackTraceCount - 1)
        PROVE  (IF i < Len(frames) THEN frames[i + 1] ELSE x.trace[i]) \in Text \X Nat
    <3>1. CASE i = 0
      BY <2>2, <2>7, <3>1
    <3>2. CASE i # 0
      BY <2>2, <2>6, <3>2
    <3> QED
      BY <3>1, <3>2
  <2>9. HasTrace(y)
    <3>1. y.trace \in [0..(MaxStackTraceCount - 1) -> Text \X Nat]
      BY <2>5, <2>6, <2>8
    <3>2. y.stackTraceCount \in 0..MaxStackTraceCount
      BY <2>2, <2>4, <2>6
    <3> QED
      BY <3>1, <3>2 DEF HasTrace, Holds
  <2>10. Scalars(y)
    BY <2>4 DEF Typed, Scalars, Fields, StackTrace, Message, TTLMeta
  <2>11. HasTags(y) /\ HasMetrics(y) /\ HasMeta(y)
    BY <2>4 DEF Typed, HasTags, HasMetrics, HasMeta, Holds, Fields
  <2> QED
    BY <2>3, <2>4, <2>9, <2>10, <2>11 DEF Typed, Fields
<1> QED
  BY <1>1, <1>2

(* What a logger holds.                                                    *)
LogTyped ==
    /\ DOMAIN log = {"tags", "meta", "metrics", "categoryId", "ttlEntry", "ttlMeta"}
    /\ log = [f \in DOMAIN log |-> log[f]]
    /\ log.tags \in Seq({Cut(s) : s \in Strings}) /\ Len(log.tags) <= MaxTagsCount
    /\ log.meta \in Seq(Short \X Text) /\ log.metrics \in Seq(Short \X Nat)
    /\ log.categoryId \in Nat /\ log.ttlEntry \in Nat /\ log.ttlMeta \in Nat

(* What Send appends of the logger's settings.                             *)
LEMMA AppendedTyped ==
    ASSUME NEW x, Typed(x), LogTyped
    PROVE  Typed(Appended(x)) /\ Appended(x).message = x.message
<1>1. \A t \in {Cut(s) : s \in Strings} : t \in Short
  BY StringsAreText, CutIs
<1>2. log.tags \in Seq(Short)
  BY <1>1, WiderSeq DEF LogTyped
<1> DEFINE t == PutAll(x, "tags", "tagsCount", MaxTagsCount, log.tags)
           m == PutAll(t, "meta", "metaCount", MaxMetaCount, log.meta)
           y == PutAll(m, "metrics", "metricCount", MaxMetricCount, log.metrics)
<1>3. Appended(x) = y
  BY DEF Appended
<1>4. Typed(t) /\ t.message = x.message
  BY <1>2, PutTagsTyped
<1> HIDE DEF t
<1>5. Typed(m) /\ m.message = x.message
  BY <1>4, PutMetasTyped DEF LogTyped
<1> HIDE DEF m
<1>6. Typed(y) /\ y.message = x.message
  BY <1>5, PutMetricsTyped DEF LogTyped
<1> HIDE DEF y
<1> QED
  BY <1>3, <1>6

(* An entry made of an error, whose message is truncated.                  *)
LEMMA ParsedErrorTyped ==
    ASSUME NEW x, Typed(x), NEW message \in Strings, NEW ts \in Seq(Strings)
    PROVE  /\ Typed(ParsedError(x, message, ts))
           /\ ParsedError(x, message, ts).message = Cut(message)
<1> DEFINE items == OfLength(0..MaxStr, ts)
           some  == {t \in Strings : Len(t) \in 0..MaxStr}
           z == [x EXCEPT !.message = Cut(message), !.tagsCount = 0]
<1>1. items \in Seq(some)
  BY OfLengthIs
<1>2. \A t \in some : t \in Short
  BY StringsAreText DEF Short
<1> HIDE DEF some
<1>3. items \in Seq(Short)
  BY <1>1, <1>2, WiderSeq
<1> HIDE DEF items
<1>4. /\ z = [f \in Fields |-> z[f]] /\ z.message = Cut(message) /\ z.tagsCount = 0
      /\ \A f \in Fields : f # "message" /\ f # "tagsCount" => z[f] = x[f]
  BY DEF Typed, Fields
<1> HIDE DEF z
<1>5. Cut(message) \in Text
  BY StringsAreText, CutIs DEF Short
<1>6. Typed(z)
  <2>1. Scalars(z)
    BY <1>4, <1>5 DEF Typed, Scalars, Fields
  <2>2. z.tags = x.tags
    BY <1>4 DEF Fields
  <2>3. HasTags(z)
    <3>1. HasTags(x) /\ z.tagsCount = 0 /\ MaxTagsCount \in Nat
      BY <1>4, LimitsAreNat DEF Typed
    <3> QED
      BY <2>2, <3>1, EmptyHolds DEF HasTags
  <2>4. HasMetrics(z) /\ HasMeta(z) /\ HasTrace(z)
    BY <1>4 DEF Typed, HasTrace, HasMetrics, HasMeta, Holds, Fields
  <2> QED
    BY <1>4, <2>1, <2>3, <2>4 DEF Typed
<1>7. ParsedError(x, message, ts) = PutAll(z, "tags", "tagsCount", MaxTagsCount, items)
  BY DEF ParsedError, z, items
<1> QED
  BY <1>3, <1>4, <1>6, <1>7, PutTagsTyped

----------------------------------------------------------------------------
(* Bytes.                                                                  *)

(* Bytes are numbers.                                                      *)
LEMMA TextIs ==
    ASSUME NEW a \in Text
    PROVE  Len(a) \in Nat /\ \A i \in 1..Len(a) : a[i] \in Nat
  BY DEF Text

(* What stands where in two texts written one behind the other.            *)
LEMMA Concatenated ==
    ASSUME NEW a \in Text, NEW b \in Text
    PROVE  /\ a \o b \in Text /\ Len(a \o b) = Len(a) + Len(b)
           /\ \A i \in 1..Len(a) : (a \o b)[i] = a[i]
           /\ \A i \in 1..Len(b) : (a \o b)[Len(a) + i] = b[i]
  BY DEF Text

(* The bytes of piece stand in b, behind position s.                       *)
Has(b, s, piece) ==
    s + Len(piece) <= Len(b) /\ \A m \in 1..Len(piece) : b[s + m] = piece[m]

(* The second of them stands behind the first,                             *)
LEMMA HasBehind ==
    ASSUME NEW a \in Text, NEW b \in Text
    PROVE  Has(a \o b, Len(a), b)
  BY Concatenated, TextIs DEF Has

(* and what stood in the first stays.                                      *)
LEMMA HasBefore ==
    ASSUME NEW a \in Text, NEW b \in Text, NEW s \in Nat, NEW piece \in Text, Has(a, s, piece)
    PROVE  Has(a \o b, s, piece)
<1>1. Len(a) \in Nat /\ Len(b) \in Nat /\ Len(piece) \in Nat /\ Len(a \o b) = Len(a) + Len(b)
  BY Concatenated, TextIs
<1>2. ASSUME NEW m \in 1..Len(piece) PROVE (a \o b)[s + m] = piece[m]
  <2>1. s + m \in 1..Len(a)
    BY <1>1 DEF Has
  <2> QED
    BY <2>1, Concatenated DEF Has
<1> QED
  BY <1>1, <1>2 DEF Has

(* The pieces stand in b one behind the other, at the positions P.         *)
LaidOut(P, b, start, pieces, n) ==
    /\ P \in [0..n -> Nat] /\ P[0] = start
    /\ \A j \in 1..n : P[j] = P[j - 1] + Len(pieces[j]) /\ Has(b, P[j - 1], pieces[j])

(* One more piece at the end of a text that its pieces fill.               *)
LEMMA LaidOutNext ==
    ASSUME NEW b \in Text, NEW n \in Nat, NEW pieces, \A j \in 1..(n + 1) : pieces[j] \in Text,
           NEW start, NEW P, LaidOut(P, b, start, pieces, n), P[n] = Len(b)
    PROVE  LET c == b \o pieces[n + 1]
               Q == [j \in 0..(n + 1) |-> IF j = n + 1 THEN Len(c) ELSE P[j]]
           IN c \in Text /\ Q[n + 1] = Len(c) /\ LaidOut(Q, c, start, pieces, n + 1)
<1> DEFINE c == b \o pieces[n + 1]
           Q == [j \in 0..(n + 1) |-> IF j = n + 1 THEN Len(c) ELSE P[j]]
<1>1. n + 1 \in 1..(n + 1) /\ pieces[n + 1] \in Text /\ c \in Text
      /\ Len(c) = Len(b) + Len(pieces[n + 1])
  BY Concatenated
<1>2. Len(c) \in Nat /\ Len(b) \in Nat
  BY <1>1, TextIs
<1>3. Q[n + 1] = Len(c) /\ \A j \in 0..n : Q[j] = P[j]
  OBVIOUS
<1>4. Q \in [0..(n + 1) -> Nat] /\ Q[0] = start
  <2>1. ASSUME NEW j \in 0..(n + 1) PROVE Q[j] \in Nat
    <3>1. CASE j = n + 1
      BY <1>2, <1>3, <3>1
    <3>2. CASE j # n + 1
      <4>1. j \in 0..n
        BY <3>2
      <4> QED
        BY <1>3, <4>1 DEF LaidOut
    <3> QED
      BY <3>1, <3>2
  <2>2. 0 \in 0..n
    OBVIOUS
  <2> QED
    BY <1>3, <2>1, <2>2 DEF LaidOut
<1>5. ASSUME NEW j \in 1..(n + 1)
      PROVE  Q[j] = Q[j - 1] + Len(pieces[j]) /\ Has(c, Q[j - 1], pieces[j])
  <2>1. CASE j = n + 1
    <3>1. j - 1 = n /\ Q[j - 1] = Len(b) /\ Q[j] = Len(c)
      BY <1>3, <2>1
    <3>2. Has(c, Len(b), pieces[n + 1])
      BY <1>1, HasBehind
    <3> QED
      BY <1>1, <2>1, <3>1, <3>2
  <2>2. CASE j # n + 1
    <3>1. j \in 1..n /\ j \in 0..n /\ j - 1 \in 0..n
      BY <2>2
    <3>2. P[j] = P[j - 1] + Len(pieces[j]) /\ Has(b, P[j - 1], pieces[j]) /\ P[j - 1] \in Nat
      BY <3>1 DEF LaidOut
    <3>3. Has(c, P[j - 1], pieces[j])
      BY <1>1, <3>2, HasBefore
    <3>4. Q[j] = P[j] /\ Q[j - 1] = P[j - 1]
      BY <1>3, <3>1
    <3> QED
      BY <3>2, <3>3, <3>4
  <2> QED
    BY <2>1, <2>2
<1> HIDE DEF Q, c
<1>6. LaidOut(Q, c, start, pieces, n + 1)
  BY <1>4, <1>5 DEF LaidOut
<1> QED
  BY <1>1, <1>3, <1>6 DEF Q, c

(* They are the rest of b.                                                 *)
Filled(b, start, pieces, n) == \E P : LaidOut(P, b, start, pieces, n) /\ P[n] = Len(b)

(* Such a text with one more piece is filled by its pieces again.          *)
LEMMA FilledNext ==
    ASSUME NEW b \in Text, NEW n \in Nat, NEW pieces, \A j \in 1..(n + 1) : pieces[j] \in Text,
           NEW start, Filled(b, start, pieces, n)
    PROVE  /\ b \o pieces[n + 1] \in Text
           /\ Filled(b \o pieces[n + 1], start, pieces, n + 1)
<1>1. PICK P : LaidOut(P, b, start, pieces, n) /\ P[n] = Len(b)
  BY DEF Filled
<1> DEFINE c == b \o pieces[n + 1]
           Q == [j \in 0..(n + 1) |-> IF j = n + 1 THEN Len(c) ELSE P[j]]
<1>2. c \in Text /\ Q[n + 1] = Len(c) /\ LaidOut(Q, c, start, pieces, n + 1)
  BY <1>1, LaidOutNext
<1> HIDE DEF Q
<1> QED
  BY <1>2 DEF Filled

(* b goes on where a ends; the first two bytes are the size.               *)
Continues(b, a) == Len(a) <= Len(b) /\ \A i \in 3..Len(a) : b[i] = a[i]

(* What stands behind the size stays where it is when a text goes on.      *)
LEMMA HasContinued ==
    ASSUME NEW a \in Text, NEW b \in Text, Continues(b, a), NEW s \in Nat, s >= 2,
           NEW piece \in Text, Has(a, s, piece)
    PROVE  Has(b, s, piece)
<1>1. Len(a) \in Nat /\ Len(b) \in Nat /\ Len(piece) \in Nat
  BY TextIs
<1>2. ASSUME NEW m \in 1..Len(piece) PROVE b[s + m] = piece[m]
  <2>1. s + m \in 3..Len(a) /\ a[s + m] = piece[m]
    BY <1>1 DEF Has
  <2> QED
    BY <2>1 DEF Continues
<1> QED
  BY <1>1, <1>2 DEF Has, Continues

----------------------------------------------------------------------------
(* What Encode writes.                                                     *)

Writing == INSTANCE FoldProofs WITH Op <- PutItem
Tagging == INSTANCE FoldProofs WITH Op <- PutTag
Encoding == INSTANCE FoldProofs WITH Op <- EncodeSection

(* What a section writes: the bytes of an item, and the room asked for.    *)
Items == [bytes : Text, size : Nat]
BytesOf(items) == [i \in 1..Len(items) |-> items[i].bytes]

(* No piece starts before the first.                                       *)
LEMMA LaidOutFrom ==
    ASSUME NEW b, NEW n \in Nat, NEW pieces, \A j \in 1..n : pieces[j] \in Text,
           NEW start \in Nat, NEW P, LaidOut(P, b, start, pieces, n)
    PROVE  \A j \in 0..n : P[j] >= start
<1> DEFINE S == {j \in 0..n : P[j] >= start}
<1>1. 0 \in S
  BY DEF LaidOut
<1>2. ASSUME NEW k \in 1..n, k - 1 \in S PROVE k \in S
  <2>1. P[k] = P[k - 1] + Len(pieces[k]) /\ P[k - 1] \in Nat /\ Len(pieces[k]) \in Nat
    BY TextIs DEF LaidOut
  <2> QED
    BY <1>2, <2>1
<1>3. \A k \in 0..n : k \in S
  <2> HIDE DEF S
  <2> QED
    BY <1>1, <1>2, Writing!BoundedInduction
<1> QED
  BY <1>3

(* The state of the loop over items after k of them: those up to the first *)
(* that does not fit are in the text, one behind the other.                *)
Wrote(a, b, items, k) ==
    /\ a.text \in Text /\ a.n \in 0..k /\ a.full \in BOOLEAN
    /\ ~a.full => a.n = k
    /\ a.full => a.n < k /\ Len(b) + 1 + Len(a.text) + items[a.n + 1].size > MaxEntrySize
    /\ Filled(a.text, 0, BytesOf(items), a.n)

(* One round of the loop over items keeps what Wrote says of it,           *)
LEMMA PutItemWrites ==
    ASSUME NEW b \in Text, NEW items \in Seq(Items), NEW k \in 1..Len(items),
           NEW a, a = [text |-> a.text, n |-> a.n, full |-> a.full], Wrote(a, b, items, k - 1)
    PROVE  LET c == PutItem(b, a, items[k])
           IN Wrote(c, b, items, k) /\ c = [text |-> c.text, n |-> c.n, full |-> c.full]
<1> DEFINE c == PutItem(b, a, items[k])
           bs == BytesOf(items)
<1>1. /\ a.text \in Text /\ a.n \in 0..(k - 1) /\ a.full \in BOOLEAN
      /\ k \in Nat /\ Len(items) \in Nat
  BY DEF Wrote
<1>2. Filled(a.text, 0, bs, a.n)
  BY DEF Wrote
<1>3. ASSUME NEW j \in 1..Len(items) PROVE bs[j] = items[j].bytes /\ bs[j] \in Text
  <2>1. items[j] \in Items
    OBVIOUS
  <2>2. items[j].bytes \in Text
    BY <2>1 DEF Items
  <2> QED
    BY <2>2 DEF BytesOf
<1>4. CASE a.full
  <2>1. c = [a EXCEPT !.full = TRUE]
    BY <1>4 DEF PutItem
  <2>2. c.text = a.text /\ c.n = a.n /\ c.full = TRUE /\ c = [text |-> c.text, n |-> c.n, full |-> c.full]
    BY <2>1
  <2> HIDE DEF c
  <2>3. a.n < k - 1 /\ Len(b) + 1 + Len(a.text) + items[a.n + 1].size > MaxEntrySize
    BY <1>4 DEF Wrote
  <2>4. a.n \in 0..k /\ a.n < k
    BY <1>1, <2>3
  <2>5. Wrote(c, b, items, k)
    BY <1>1, <1>2, <2>2, <2>3, <2>4 DEF Wrote
  <2> QED
    BY <2>2, <2>5 DEF c
<1>5. CASE ~a.full /\ Len(b) + 1 + Len(a.text) + items[k].size > MaxEntrySize
  <2>1. c = [a EXCEPT !.full = TRUE]
    BY <1>5 DEF PutItem
  <2>2. c.text = a.text /\ c.n = a.n /\ c.full = TRUE /\ c = [text |-> c.text, n |-> c.n, full |-> c.full]
    BY <2>1
  <2> HIDE DEF c
  <2>3. a.n = k - 1 /\ a.n + 1 = k /\ a.n \in 0..k /\ a.n < k
    BY <1>1, <1>5 DEF Wrote
  <2>4. Wrote(c, b, items, k)
    BY <1>1, <1>2, <1>5, <2>2, <2>3 DEF Wrote
  <2> QED
    BY <2>2, <2>4 DEF c
<1>6. CASE ~a.full /\ ~(Len(b) + 1 + Len(a.text) + items[k].size > MaxEntrySize)
  <2>1. a.n = k - 1 /\ a.n + 1 = k /\ a.n \in Nat
    BY <1>1, <1>6 DEF Wrote
  <2>2. c = [text |-> a.text \o items[k].bytes, n |-> a.n + 1, full |-> FALSE]
    BY <1>6 DEF PutItem
  <2>3. bs[k] = items[k].bytes
    BY <1>3
  <2> HIDE DEF bs
  <2> HIDE DEF c
  <2>4. c.text = a.text \o items[k].bytes /\ c.n = a.n + 1 /\ c.full = FALSE
        /\ c = [text |-> c.text, n |-> c.n, full |-> c.full]
    BY <2>2
  <2>5. \A j \in 1..(a.n + 1) : bs[j] \in Text
    BY <1>1, <1>3, <2>1
  <2>6. c.text = a.text \o bs[a.n + 1]
    BY <2>1, <2>3, <2>4
  <2>7. c.text \in Text /\ Filled(c.text, 0, bs, k)
    BY <1>1, <1>2, <2>1, <2>5, <2>6, FilledNext
  <2>8. c.n \in 0..k /\ c.full \in BOOLEAN /\ c.n = k /\ ~c.full
    <3>1. c.n \in 0..k /\ c.n = k
      BY <1>1, <2>1, <2>4
    <3>2. c.full \in BOOLEAN /\ ~c.full
      BY <2>4
    <3> QED
      BY <3>1, <3>2
  <2>9. (~c.full => c.n = k)
        /\ (c.full => c.n < k /\ Len(b) + 1 + Len(c.text) + items[c.n + 1].size > MaxEntrySize)
    BY <2>8
  <2>10. Filled(c.text, 0, bs, c.n)
    BY <2>7, <2>8
  <2>11. Wrote(c, b, items, k)
    BY <2>7, <2>8, <2>9, <2>10 DEF Wrote, bs
  <2> QED
    BY <2>4, <2>11 DEF c
<1> QED
  BY <1>4, <1>5, <1>6

(* so the loop does: by induction over the items.                          *)
LEMMA PutItemsWrites ==
    ASSUME NEW b \in Text, NEW items \in Seq(Items)
    PROVE  Wrote(PutItems(b, items), b, items, Len(items))
<1> DEFINE base == [text |-> <<>>, n |-> 0, full |-> FALSE]
<1>1. PutItems(b, items) = Writing!Folded(b, base, items)
  BY DEF PutItems, Writing!Folded, FoldLeft, MapThenFoldSet, Max, Writing!Largest
<1>2. PICK h : Writing!Through(h, b, base, items)
  BY Writing!FoldGoesThrough
<1>3. /\ h[0] = base /\ h[Len(items)] = PutItems(b, items)
      /\ \A k \in 1..Len(items) : h[k] = PutItem(b, h[k - 1], items[k])
  BY <1>1, <1>2 DEF Writing!Through
<1> DEFINE Good(k) == /\ h[k] = [text |-> h[k].text, n |-> h[k].n, full |-> h[k].full]
                      /\ Wrote(h[k], b, items, k)
           S == {k \in Nat : Good(k)}
<1>4. Good(0)
  <2>1. h[0].text = <<>> /\ h[0].n = 0 /\ h[0].full = FALSE
    BY <1>3
  <2> DEFINE P == [j \in 0..0 |-> 0]
  <2>2. LaidOut(P, <<>>, 0, BytesOf(items), 0) /\ P[0] = Len(<<>>)
    BY DEF LaidOut
  <2>3. <<>> \in Text
    BY DEF Text
  <2> HIDE DEF P
  <2>4. Filled(<<>>, 0, BytesOf(items), 0)
    BY <2>2 DEF Filled
  <2> DEFINE a == h[0]
  <2>5. a.n \in 0..0 /\ a.full \in BOOLEAN /\ ~a.full /\ a.n = 0 /\ a.text \in Text
        /\ Filled(a.text, 0, BytesOf(items), a.n)
    <3>1. a.n \in 0..0 /\ a.n = 0 /\ a.text \in Text /\ Filled(a.text, 0, BytesOf(items), a.n)
      BY <2>1, <2>3, <2>4
    <3>2. a.full \in BOOLEAN /\ ~a.full
      BY <2>1
    <3> QED
      BY <3>1, <3>2
  <2>6. (~a.full => a.n = 0)
        /\ (a.full => a.n < 0 /\ Len(b) + 1 + Len(a.text) + items[a.n + 1].size > MaxEntrySize)
    BY <2>5
  <2> HIDE DEF a
  <2>7. Wrote(a, b, items, 0)
    BY <2>5, <2>6 DEF Wrote
  <2> QED
    BY <1>3, <2>1, <2>7 DEF a
<1>5. ASSUME NEW k \in 1..Len(items), Good(k - 1) PROVE Good(k)
  BY <1>3, <1>5, PutItemWrites
<1> HIDE DEF Good
<1>6. 0 \in S /\ Len(items) \in Nat
  BY <1>4
<1>7. ASSUME NEW k \in 1..Len(items), k - 1 \in S PROVE k \in S
  BY <1>5, <1>7
<1>8. Len(items) \in S
  <2> HIDE DEF S
  <2>1. \A k \in 0..Len(items) : k \in S
    BY <1>6, <1>7, Writing!BoundedInduction
  <2> QED
    BY <1>6, <2>1
<1> QED
  BY <1>3, <1>8 DEF Good

(* Pieces that fill a text fill the rest of a longer one.                  *)
LEMMA FilledShift ==
    ASSUME NEW front \in Text, NEW text \in Text, NEW n \in Nat, NEW pieces,
           \A j \in 1..n : pieces[j] \in Text, Filled(text, 0, pieces, n)
    PROVE  Filled(front \o text, Len(front), pieces, n)
<1>1. PICK P : LaidOut(P, text, 0, pieces, n) /\ P[n] = Len(text)
  BY DEF Filled
<1> DEFINE m == Len(front)
           c == front \o text
           Q == [j \in 0..n |-> m + P[j]]
<1>2. m \in Nat /\ Len(text) \in Nat /\ Len(c) = m + Len(text)
  BY Concatenated, TextIs
<1>3. P \in [0..n -> Nat] /\ P[0] = 0
  BY <1>1 DEF LaidOut
<1>4. Q \in [0..n -> Nat] /\ Q[0] = m /\ Q[n] = Len(c)
  BY <1>1, <1>2, <1>3
<1>5. ASSUME NEW j \in 1..n
      PROVE  Q[j] = Q[j - 1] + Len(pieces[j]) /\ Has(c, Q[j - 1], pieces[j])
  <2>1. /\ j \in 0..n /\ j - 1 \in 0..n /\ P[j] = P[j - 1] + Len(pieces[j])
        /\ Has(text, P[j - 1], pieces[j]) /\ P[j - 1] \in Nat /\ Len(pieces[j]) \in Nat
    BY <1>1, <1>3, TextIs DEF LaidOut
  <2>2. Q[j] = m + P[j] /\ Q[j - 1] = m + P[j - 1]
    BY <2>1
  <2>3. ASSUME NEW i \in 1..Len(pieces[j]) PROVE c[Q[j - 1] + i] = pieces[j][i]
    <3>1. P[j - 1] + i \in 1..Len(text) /\ text[P[j - 1] + i] = pieces[j][i]
      <4> HIDE DEF c, m, Q
      <4>1. PICK p \in Nat : p = P[j - 1]
        BY <2>1
      <4>2. PICK a \in Nat : a = Len(pieces[j])
        BY <2>1
      <4>3. p + a <= Len(text) /\ \A k \in 1..a : text[p + k] = pieces[j][k]
        BY <2>1, <4>1, <4>2 DEF Has
      <4>4. i \in 1..a /\ p + i \in 1..Len(text)
        BY <1>2, <4>2, <4>3
      <4> QED
        BY <4>1, <4>3, <4>4
    <3>2. c[m + (P[j - 1] + i)] = text[P[j - 1] + i]
      <4>1. Has(c, m, text)
        BY HasBehind
      <4>2. PICK k \in 1..Len(text) : k = P[j - 1] + i
        BY <3>1
      <4> HIDE DEF c, m, Q
      <4>3. c[m + k] = text[k]
        BY <4>1, <4>2 DEF Has
      <4> QED
        BY <4>2, <4>3, Zenon
    <3>3. Q[j - 1] + i = m + (P[j - 1] + i)
      BY <1>2, <2>1, <2>2
    <3> QED
      BY <3>1, <3>2, <3>3
  <2>4. Q[j - 1] + Len(pieces[j]) <= Len(c)
    BY <1>2, <2>1, <2>2 DEF Has
  <2>5. Q[j] = Q[j - 1] + Len(pieces[j])
    BY <1>2, <2>1, <2>2
  <2> HIDE DEF Q, c
  <2> QED
    BY <2>3, <2>4, <2>5 DEF Has
<1> HIDE DEF Q, c, m
<1>6. LaidOut(Q, c, m, pieces, n)
  BY <1>4, <1>5 DEF LaidOut
<1> QED
  BY <1>4, <1>6 DEF Filled, c, m

(* c is b with a section more.                                             *)
Grown(c, b) == c \in Text /\ Len(b) < Len(c) /\ Continues(c, b)

(* A text with a piece more has grown by that piece.                       *)
LEMMA GrownBy ==
    ASSUME NEW b \in Text, NEW piece \in Text, Len(piece) > 0
    PROVE  Grown(b \o piece, b) /\ Len(b \o piece) = Len(b) + Len(piece)
           /\ Has(b \o piece, Len(b), piece)
<1>1. /\ b \o piece \in Text /\ Len(b \o piece) = Len(b) + Len(piece)
      /\ \A i \in 1..Len(b) : (b \o piece)[i] = b[i]
      /\ Len(b) \in Nat /\ Len(piece) \in Nat
  BY Concatenated, TextIs
<1>2. \A i \in 3..Len(b) : (b \o piece)[i] = b[i]
  BY <1>1
<1> QED
  BY <1>1, <1>2, HasBehind DEF Grown, Continues

(* A section with a count and the pieces it counts.                        *)
CountedSection(c, b, pieces, n) ==
    Grown(c, b) /\ c[Len(b) + 1] = n /\ Filled(c, Len(b) + 1, pieces, n)

(* A counted section: the count, and the items up to the first that does   *)
(* not fit.                                                                *)
LEMMA CountedWrites ==
    ASSUME NEW b \in Text, NEW items \in Seq(Items)
    PROVE  LET n == PutItems(b, items).n
               c == Counted(b, items)
           IN /\ n \in 0..Len(items) /\ CountedSection(c, b, BytesOf(items), n)
              /\ n < Len(items) => Len(c) + items[n + 1].size > MaxEntrySize
<1> DEFINE a == PutItems(b, items)
           front == b \o <<a.n>>
           c == front \o a.text
           bs == BytesOf(items)
<1>1. Wrote(a, b, items, Len(items))
  BY PutItemsWrites
<1>2. Counted(b, items) = c
  BY DEF Counted
<1> HIDE DEF a
<1>3. /\ a.text \in Text /\ a.n \in 0..Len(items) /\ a.n \in Nat /\ Filled(a.text, 0, bs, a.n)
      /\ Len(items) \in Nat
  BY <1>1 DEF Wrote
<1>4. a.n < Len(items) => Len(b) + 1 + Len(a.text) + items[a.n + 1].size > MaxEntrySize
  <2>1. CASE a.full
    BY <1>1, <2>1 DEF Wrote
  <2>2. CASE ~a.full
    <3>1. a.n = Len(items)
      BY <1>1, <2>2 DEF Wrote
    <3> QED
      BY <1>3, <3>1
  <2> QED
    BY <2>1, <2>2
<1>5. <<a.n>> \in Text /\ Len(<<a.n>>) = 1 /\ <<a.n>>[1] = a.n
  BY <1>3 DEF Text
<1>6. front \in Text /\ Len(front) = Len(b) + 1 /\ front[Len(b) + 1] = a.n
      /\ \A i \in 1..Len(b) : front[i] = b[i]
  BY <1>5, Concatenated
<1> HIDE DEF front
<1>7. /\ c \in Text /\ Len(c) = Len(b) + 1 + Len(a.text) /\ Len(b) \in Nat /\ Len(a.text) \in Nat
      /\ \A i \in 1..(Len(b) + 1) : c[i] = front[i]
  <2>1. /\ c \in Text /\ Len(c) = Len(front) + Len(a.text)
        /\ \A i \in 1..Len(front) : c[i] = front[i]
    BY <1>3, <1>6, Concatenated
  <2>2. Len(b) \in Nat /\ Len(a.text) \in Nat
    BY <1>3, TextIs
  <2> HIDE DEF c
  <2> QED
    BY <1>6, <2>1, <2>2
<1>8. \A j \in 1..a.n : bs[j] \in Text
  <2>1. ASSUME NEW j \in 1..Len(items) PROVE bs[j] \in Text
    <3>1. items[j] \in Items
      OBVIOUS
    <3> QED
      BY <3>1 DEF Items, BytesOf
  <2> QED
    BY <1>3, <2>1
<1> HIDE DEF bs
<1>9. Filled(c, Len(b) + 1, bs, a.n)
  BY <1>3, <1>6, <1>8, FilledShift
<1> HIDE DEF c
<1>10. Len(b) + 1 \in 1..(Len(b) + 1) /\ \A i \in 3..Len(b) : i \in 1..Len(b) /\ i \in 1..(Len(b) + 1)
  BY <1>7
<1>11. c[Len(b) + 1] = a.n /\ \A i \in 3..Len(b) : c[i] = b[i]
  BY <1>6, <1>7, <1>10
<1>12. Len(b) < Len(c) /\ Len(b) <= Len(c)
  <2>1. Len(b) \in Nat /\ Len(a.text) \in Nat /\ Len(c) = Len(b) + 1 + Len(a.text)
    BY <1>7
  <2>2. \A p, q \in Nat : p < p + 1 + q /\ p <= p + 1 + q
    OBVIOUS
  <2> QED
    BY <2>1, <2>2
<1>13. Grown(c, b)
  BY <1>7, <1>11, <1>12 DEF Grown, Continues
<1>14. CountedSection(c, b, bs, a.n)
  BY <1>9, <1>11, <1>13 DEF CountedSection
<1>15. a.n < Len(items) => Len(c) + items[a.n + 1].size > MaxEntrySize
  BY <1>4, <1>7
<1> QED
  BY <1>2, <1>3, <1>14, <1>15 DEF a, bs

(* A string behind a byte with its length,                                 *)
LEMMA Str8Is ==
    ASSUME NEW s \in Text
    PROVE  /\ Str8(s) \in Text /\ Len(Str8(s)) = Len(s) + 1
           /\ \A i \in 1..Len(s) : Str8(s)[i + 1] = s[i]
           /\ Len(s) <= MaxStr => Str8(s)[1] = Len(s)
<1> DEFINE n == Len(s) % (MaxStr + 1)
<1>1. Len(s) \in Nat /\ MaxStr \in Nat /\ MaxStr + 1 \in Nat \ {0}
  BY TextIs, LimitsAreNat
<1>2. n \in Nat
  BY <1>1
<1>3. Len(s) <= MaxStr => n = Len(s)
  BY <1>1
<1> HIDE DEF n
<1>4. <<n>> \in Text /\ Len(<<n>>) = 1 /\ <<n>>[1] = n
  BY <1>2 DEF Text
<1>5. Str8(s) = <<n>> \o s
  BY DEF Str8, n
<1>6. /\ Str8(s) \in Text /\ Len(Str8(s)) = 1 + Len(s) /\ Str8(s)[1] = n
      /\ \A i \in 1..Len(s) : Str8(s)[1 + i] = s[i]
  BY <1>4, <1>5, Concatenated
<1>7. ASSUME NEW i \in 1..Len(s) PROVE Str8(s)[i + 1] = s[i]
  <2>1. i + 1 = 1 + i
    BY <1>1
  <2> QED
    BY <1>6, <2>1
<1> QED
  BY <1>1, <1>3, <1>6, <1>7

(* a number in two bytes,                                                  *)
LEMMA U16Is ==
    ASSUME NEW n \in Nat
    PROVE  /\ U16(n) \in Text /\ Len(U16(n)) = 2 /\ U16(n)[1] \in Nat /\ U16(n)[2] \in Nat
           /\ 256 * U16(n)[1] + U16(n)[2] = n
<1>1. n \div 256 \in Nat /\ n % 256 \in Nat /\ n = 256 * (n \div 256) + (n % 256)
  <2>1. n % 256 \in Nat
    OBVIOUS
  <2>3. n = 256 * (n \div 256) + (n % 256)
    OBVIOUS
  <2>4. n \div 256 \in Nat
    OBVIOUS
  <2> QED
    BY <2>1, <2>3, <2>4
<1>2. U16(n) = <<n \div 256, n % 256>>
  BY DEF U16
<1>3. PICK p \in Nat, q \in Nat : p = n \div 256 /\ q = n % 256
  BY <1>1
<1>4. <<p, q>> \in Text /\ Len(<<p, q>>) = 2 /\ <<p, q>>[1] = p /\ <<p, q>>[2] = q
  BY DEF Text
<1> QED
  BY <1>1, <1>2, <1>3, <1>4

(* and in four.                                                            *)
LEMMA U32Is ==
    ASSUME NEW n \in Nat
    PROVE  /\ U32(n) \in Text /\ Len(U32(n)) = 4 /\ U32(n)[1] = 0 /\ U32(n)[2] = 0
           /\ U32(n)[3] = U16(n)[1] /\ U32(n)[4] = U16(n)[2]
<1>1. <<0, 0>> \in Text /\ Len(<<0, 0>>) = 2 /\ <<0, 0>>[1] = 0 /\ <<0, 0>>[2] = 0
  BY DEF Text
<1>2. U16(n) \in Text /\ Len(U16(n)) = 2
  BY U16Is
<1>3. U32(n) = <<0, 0>> \o U16(n)
  BY DEF U32
<1>4. PICK z \in Text : z = <<0, 0>>
  BY <1>1
<1>5. /\ z \o U16(n) \in Text /\ Len(z \o U16(n)) = 4
      /\ (z \o U16(n))[1] = z[1] /\ (z \o U16(n))[2] = z[2]
      /\ (z \o U16(n))[3] = U16(n)[1] /\ (z \o U16(n))[4] = U16(n)[2]
  <2>1. PICK u \in Text : u = U16(n)
    BY <1>2
  <2>2. Len(z) = 2 /\ Len(u) = 2
    BY <1>1, <1>2, <1>4, <2>1
  <2>3. /\ z \o u \in Text /\ Len(z \o u) = 2 + 2
        /\ \A i \in 1..2 : (z \o u)[i] = z[i]
        /\ \A i \in 1..2 : (z \o u)[2 + i] = u[i]
    <3>1. /\ z \o u \in Text /\ Len(z \o u) = Len(z) + Len(u)
          /\ \A i \in 1..Len(z) : (z \o u)[i] = z[i]
          /\ \A i \in 1..Len(u) : (z \o u)[Len(z) + i] = u[i]
      BY Concatenated
    <3> QED
      BY <2>2, <3>1
  <2>4. 1 \in 1..2 /\ 2 \in 1..2 /\ 2 + 1 = 3 /\ 2 + 2 = 4
    OBVIOUS
  <2> QED
    BY <2>1, <2>3, <2>4
<1> QED
  BY <1>1, <1>3, <1>4, <1>5

(* Where key and value stand in the bytes of an item of metadata,          *)
LEMMA MetaBytesIs ==
    ASSUME NEW m \in Short \X Text
    PROVE  LET key == m[1]
               value == m[2]
           IN /\ MetaBytes(m) \in Text /\ Len(MetaBytes(m)) = Len(key) + Len(value) + 3
              /\ Has(MetaBytes(m), 0, Str8(key)) /\ Has(MetaBytes(m), Len(key) + 1, U16(Len(value)))
              /\ Has(MetaBytes(m), Len(key) + 3, value)
<1> DEFINE a == Str8(m[1])
           u == U16(Len(m[2]))
           v == m[2]
<1>1. m[1] \in Text /\ v \in Text /\ Len(m[1]) \in Nat /\ Len(v) \in Nat
  BY TextIs DEF Short
<1>2. a \in Text /\ Len(a) = Len(m[1]) + 1 /\ u \in Text /\ Len(u) = 2
  BY <1>1, Str8Is, U16Is
<1>3. MetaBytes(m) = (a \o u) \o v
  BY DEF MetaBytes
<1> HIDE DEF a, u
<1>4. a \o u \in Text /\ Len(a \o u) = Len(m[1]) + 3 /\ Has(a \o u, Len(m[1]) + 1, u)
  <2>1. a \o u \in Text /\ Len(a \o u) = Len(a) + Len(u) /\ Has(a \o u, Len(a), u)
    BY <1>2, Concatenated, HasBehind
  <2>2. Len(a) + Len(u) = Len(m[1]) + 3
    BY <1>1, <1>2
  <2> QED
    BY <1>2, <2>1, <2>2
<1>5. Has(a, 0, a)
  BY <1>2, TextIs DEF Has
<1>6. Has(a \o u, 0, a)
  BY <1>2, <1>5, HasBefore
<1> DEFINE w == a \o u
<1>7. w \o v \in Text /\ Len(w \o v) = Len(m[1]) + 3 + Len(v) /\ Has(w \o v, Len(m[1]) + 3, v)
      /\ Has(w \o v, 0, a) /\ Has(w \o v, Len(m[1]) + 1, u)
  <2>1. w \in Text /\ Len(w) = Len(m[1]) + 3 /\ Has(w, 0, a) /\ Has(w, Len(m[1]) + 1, u)
    BY <1>4, <1>6
  <2>2. Len(m[1]) + 1 \in Nat /\ 0 \in Nat
    BY <1>1
  <2> HIDE DEF w
  <2>3. Has(w \o v, 0, a) /\ Has(w \o v, Len(m[1]) + 1, u)
    BY <1>1, <1>2, <2>1, <2>2, HasBefore
  <2>4. w \o v \in Text /\ Len(w \o v) = Len(w) + Len(v) /\ Has(w \o v, Len(w), v)
    BY <1>1, <2>1, Concatenated, HasBehind
  <2> QED
    BY <2>1, <2>3, <2>4
<1>8. Len(m[1]) + 3 + Len(v) = Len(m[1]) + Len(v) + 3
  BY <1>1
<1> QED
  BY <1>3, <1>7, <1>8 DEF a, u

(* path and line in those of a frame,                                      *)
LEMMA FrameBytesIs ==
    ASSUME NEW f \in Text \X Nat
    PROVE  LET path == f[1]
           IN /\ FrameBytes(f) \in Text /\ Len(FrameBytes(f)) = Len(path) + 3
              /\ Has(FrameBytes(f), 0, Str8(path)) /\ Has(FrameBytes(f), Len(path) + 1, U16(f[2]))
<1> DEFINE a == Str8(f[1])
           u == U16(f[2])
<1>1. f[1] \in Text /\ f[2] \in Nat /\ Len(f[1]) \in Nat
  BY TextIs
<1>2. a \in Text /\ Len(a) = Len(f[1]) + 1 /\ u \in Text /\ Len(u) = 2
  BY <1>1, Str8Is, U16Is
<1>3. FrameBytes(f) = a \o u
  BY DEF FrameBytes
<1> HIDE DEF a, u
<1>4. a \o u \in Text /\ Len(a \o u) = Len(f[1]) + 3 /\ Has(a \o u, Len(f[1]) + 1, u)
  <2>1. a \o u \in Text /\ Len(a \o u) = Len(a) + Len(u) /\ Has(a \o u, Len(a), u)
    BY <1>2, Concatenated, HasBehind
  <2>2. Len(a) + Len(u) = Len(f[1]) + 3
    BY <1>1, <1>2
  <2> QED
    BY <1>2, <2>1, <2>2
<1>5. Has(a, 0, a)
  BY <1>2, TextIs DEF Has
<1>6. Has(a \o u, 0, a)
  BY <1>2, <1>5, HasBefore
<1> QED
  BY <1>3, <1>4, <1>6 DEF a, u

(* key and value in those of a metric, if the length before the key is the *)
(* key's.                                                                  *)
LEMMA MetricBytesIs ==
    ASSUME NEW x, Typed(x), NEW i \in 0..(MaxMetricCount - 1), i < MaxStackTraceCount
    PROVE  LET key == x.metrics[i][1]
               text == MetricBytes(x, i)
           IN /\ text \in Text /\ Len(text) = Len(key) + 5 /\ KeyLen(x, i) \in Nat
              /\ Len(key) = KeyLen(x, i) =>
                    Has(text, 0, Str8(key)) /\ Has(text, Len(key) + 1, U32(x.metrics[i][2]))
<1> DEFINE key == x.metrics[i][1]
           v == x.metrics[i][2]
           n == KeyLen(x, i) % (MaxStr + 1)
           u == U32(v)
           a == <<n>> \o key
<1>1. key \in Text /\ key \in Short /\ v \in Nat /\ Len(key) \in Nat
  <2>1. x.metrics[i] \in Short \X Nat
    BY DEF Typed, HasMetrics, Holds
  <2>2. key \in Short /\ v \in Nat
    BY <2>1
  <2>3. key \in Text
    BY <2>2 DEF Short
  <2> QED
    BY <2>2, <2>3, TextIs
<1>2. KeyLen(x, i) \in Nat
  <2>1. i \in 0..(MaxStackTraceCount - 1)
    BY LimitsAreNat
  <2>2. x.trace[i] \in Text \X Nat
    BY <2>1 DEF Typed, HasTrace, Holds
  <2>3. x.trace[i][1] \in Text
    BY <2>2
  <2> QED
    BY <2>3, TextIs DEF KeyLen
<1>3. n \in Nat
  <2>1. MaxStr + 1 \in Nat \ {0}
    BY LimitsAreNat
  <2> QED
    BY <1>2, <2>1
<1>4. MetricBytes(x, i) = a \o u
  BY DEF MetricBytes
<1>5. <<n>> \in Text /\ Len(<<n>>) = 1
  <2> HIDE DEF n
  <2> QED
    BY <1>3 DEF Text
<1>6. a \in Text /\ Len(a) = Len(key) + 1
  <2> HIDE DEF n, key
  <2>1. a \in Text /\ Len(a) = 1 + Len(key)
    BY <1>1, <1>5, Concatenated
  <2> QED
    BY <1>1, <2>1
<1>7. u \in Text /\ Len(u) = 4
  BY <1>1, U32Is
<1> HIDE DEF u
<1>8. Len(key) = KeyLen(x, i) => a = Str8(key)
  BY DEF Str8
<1> HIDE DEF a, key
<1>9. a \o u \in Text /\ Len(a \o u) = Len(key) + 5 /\ Has(a \o u, Len(key) + 1, u)
  <2>1. a \o u \in Text /\ Len(a \o u) = Len(a) + Len(u) /\ Has(a \o u, Len(a), u)
    BY <1>6, <1>7, Concatenated, HasBehind
  <2>2. Len(a) + Len(u) = Len(key) + 5
    BY <1>1, <1>6, <1>7
  <2> QED
    BY <1>6, <2>1, <2>2
<1>10. Has(a, 0, a)
  BY <1>6, TextIs DEF Has
<1>11. Has(a \o u, 0, a)
  BY <1>6, <1>7, <1>10, HasBefore
<1> QED
  BY <1>2, <1>4, <1>8, <1>9, <1>11 DEF u, key

(* Metrics are written as long as there is a path with each one's number.  *)
Indexed(x) == x.level >= Metric => x.metricCount <= MaxStackTraceCount

(* A function over 1 to n is a sequence.                                   *)
LEMMA ListOf ==
    ASSUME NEW n \in Nat, NEW T, NEW s, s = [i \in 1..n |-> s[i]], \A i \in 1..n : s[i] \in T
    PROVE  s \in Seq(T) /\ Len(s) = n
  OBVIOUS

(* The items of the metrics,                                               *)
LEMMA MetricItemsAre ==
    ASSUME NEW x, Typed(x), x.metricCount <= MaxStackTraceCount
    PROVE  /\ MetricItems(x) \in Seq(Items) /\ Len(MetricItems(x)) = x.metricCount
           /\ \A i \in 1..x.metricCount :
                 /\ MetricItems(x)[i].bytes = MetricBytes(x, i - 1)
                 /\ MetricItems(x)[i].size = KeyLen(x, i - 1) + 5
<1>1. x.metricCount \in 0..MaxMetricCount /\ MaxMetricCount \in Nat /\ MaxStackTraceCount \in Nat
  BY LimitsAreNat DEF Typed, HasMetrics, Holds
<1> DEFINE item(i) == [bytes |-> MetricBytes(x, i - 1), size |-> KeyLen(x, i - 1) + 5]
<1>2. ASSUME NEW i \in 1..x.metricCount PROVE item(i) \in Items
  <2>1. i - 1 \in 0..(MaxMetricCount - 1) /\ i - 1 < MaxStackTraceCount
    BY <1>1
  <2>2. MetricBytes(x, i - 1) \in Text /\ KeyLen(x, i - 1) \in Nat
    BY <2>1, MetricBytesIs
  <2> QED
    BY <2>2 DEF Items
<1>3. MetricItems(x) = [i \in 1..x.metricCount |-> item(i)]
  BY DEF MetricItems
<1>4. /\ MetricItems(x) = [i \in 1..x.metricCount |-> MetricItems(x)[i]]
      /\ \A i \in 1..x.metricCount : MetricItems(x)[i] = item(i)
  <2> HIDE DEF item
  <2> QED
    BY <1>3
<1>5. \A i \in 1..x.metricCount : MetricItems(x)[i] \in Items
  <2> HIDE DEF item
  <2> QED
    BY <1>2, <1>4
<1>6. MetricItems(x) \in Seq(Items) /\ Len(MetricItems(x)) = x.metricCount
  <2>1. x.metricCount \in Nat
    BY <1>1
  <2> QED
    BY <1>4, <1>5, <2>1, ListOf
<1>7. ASSUME NEW i \in 1..x.metricCount
      PROVE
          /\ MetricItems(x)[i].bytes = MetricBytes(x, i - 1)
          /\ MetricItems(x)[i].size = KeyLen(x, i - 1) + 5
  <2>1. MetricItems(x)[i] = item(i)
    BY <1>4
  <2>2. MetricItems(x)[i].bytes = item(i).bytes /\ MetricItems(x)[i].size = item(i).size
    BY <2>1
  <2> QED
    BY <1>2, <2>2
<1> QED
  BY <1>6, <1>7

(* of the metadata, which need the room that is asked for,                 *)
LEMMA MetaItemsAre ==
    ASSUME NEW x, Typed(x)
    PROVE  /\ MetaItems(x) \in Seq(Items) /\ Len(MetaItems(x)) = x.metaCount
           /\ \A i \in 1..x.metaCount :
                 /\ x.meta[i - 1] \in Short \X Text
                 /\ MetaItems(x)[i].bytes = MetaBytes(x.meta[i - 1])
                 /\ MetaItems(x)[i].size = Len(MetaBytes(x.meta[i - 1]))
<1>1. x.metaCount \in 0..MaxMetaCount /\ MaxMetaCount \in Nat
  BY LimitsAreNat DEF Typed, HasMeta, Holds
<1> DEFINE m(i) == x.meta[i - 1]
           item(i) == [bytes |-> MetaBytes(m(i)), size |-> Len(m(i)[1]) + Len(m(i)[2]) + 3]
<1>2. ASSUME NEW i \in 1..x.metaCount
      PROVE  /\ item(i) \in Items /\ m(i) \in Short \X Text
             /\ Len(m(i)[1]) + Len(m(i)[2]) + 3 = Len(MetaBytes(m(i)))
  <2>1. i - 1 \in 0..(MaxMetaCount - 1)
    BY <1>1
  <2>2. m(i) \in Short \X Text
    BY <2>1 DEF Typed, HasMeta, Holds
  <2> HIDE DEF m
  <2>3. MetaBytes(m(i)) \in Text /\ Len(MetaBytes(m(i))) = Len(m(i)[1]) + Len(m(i)[2]) + 3
    BY <2>2, MetaBytesIs
  <2>4. Len(MetaBytes(m(i))) \in Nat
    BY <2>3, TextIs
  <2>5. item(i) \in Items
    BY <2>3, <2>4 DEF Items
  <2> QED
    BY <2>2, <2>3, <2>5
<1>3. MetaItems(x) = [i \in 1..x.metaCount |-> item(i)]
  BY DEF MetaItems
<1>4. /\ MetaItems(x) = [i \in 1..x.metaCount |-> MetaItems(x)[i]]
      /\ \A i \in 1..x.metaCount : MetaItems(x)[i] = item(i)
  <2> HIDE DEF item
  <2> QED
    BY <1>3
<1>5. \A i \in 1..x.metaCount : MetaItems(x)[i] \in Items
  <2> HIDE DEF item
  <2> QED
    BY <1>2, <1>4
<1>6. MetaItems(x) \in Seq(Items) /\ Len(MetaItems(x)) = x.metaCount
  <2>1. x.metaCount \in Nat
    BY <1>1
  <2> QED
    BY <1>4, <1>5, <2>1, ListOf
<1>7. ASSUME NEW i \in 1..x.metaCount
      PROVE
          /\ x.meta[i - 1] \in Short \X Text
          /\ MetaItems(x)[i].bytes = MetaBytes(x.meta[i - 1])
          /\ MetaItems(x)[i].size = Len(MetaBytes(x.meta[i - 1]))
  <2>1. MetaItems(x)[i] = item(i)
    BY <1>4
  <2>2. MetaItems(x)[i].bytes = item(i).bytes /\ MetaItems(x)[i].size = item(i).size
    BY <2>1
  <2> QED
    BY <1>2, <2>2
<1> QED
  BY <1>6, <1>7

(* and of the stack trace, which do too.                                   *)
LEMMA FrameItemsAre ==
    ASSUME NEW x, Typed(x)
    PROVE  /\ FrameItems(x) \in Seq(Items) /\ Len(FrameItems(x)) = x.stackTraceCount
           /\ \A i \in 1..x.stackTraceCount :
                 /\ x.trace[i - 1] \in Text \X Nat
                 /\ FrameItems(x)[i].bytes = FrameBytes(x.trace[i - 1])
                 /\ FrameItems(x)[i].size = Len(FrameBytes(x.trace[i - 1]))
<1>1. x.stackTraceCount \in 0..MaxStackTraceCount /\ MaxStackTraceCount \in Nat
  BY LimitsAreNat DEF Typed, HasTrace, Holds
<1> DEFINE f(i) == x.trace[i - 1]
           item(i) == [bytes |-> FrameBytes(f(i)), size |-> Len(f(i)[1]) + 3]
<1>2. ASSUME NEW i \in 1..x.stackTraceCount
      PROVE  /\ item(i) \in Items /\ f(i) \in Text \X Nat
             /\ Len(f(i)[1]) + 3 = Len(FrameBytes(f(i)))
  <2>1. i - 1 \in 0..(MaxStackTraceCount - 1)
    BY <1>1
  <2>2. f(i) \in Text \X Nat
    BY <2>1 DEF Typed, HasTrace, Holds
  <2> HIDE DEF f
  <2>3. FrameBytes(f(i)) \in Text /\ Len(FrameBytes(f(i))) = Len(f(i)[1]) + 3
    BY <2>2, FrameBytesIs
  <2>4. Len(FrameBytes(f(i))) \in Nat
    BY <2>3, TextIs
  <2>5. item(i) \in Items
    BY <2>3, <2>4 DEF Items
  <2> QED
    BY <2>2, <2>3, <2>5
<1>3. FrameItems(x) = [i \in 1..x.stackTraceCount |-> item(i)]
  BY DEF FrameItems
<1>4. /\ FrameItems(x) = [i \in 1..x.stackTraceCount |-> FrameItems(x)[i]]
      /\ \A i \in 1..x.stackTraceCount : FrameItems(x)[i] = item(i)
  <2> HIDE DEF item
  <2> QED
    BY <1>3
<1>5. \A i \in 1..x.stackTraceCount : FrameItems(x)[i] \in Items
  <2> HIDE DEF item
  <2> QED
    BY <1>2, <1>4
<1>6. FrameItems(x) \in Seq(Items) /\ Len(FrameItems(x)) = x.stackTraceCount
  <2>1. x.stackTraceCount \in Nat
    BY <1>1
  <2> QED
    BY <1>4, <1>5, <2>1, ListOf
<1>7. ASSUME NEW i \in 1..x.stackTraceCount
      PROVE
          /\ x.trace[i - 1] \in Text \X Nat
          /\ FrameItems(x)[i].bytes = FrameBytes(x.trace[i - 1])
          /\ FrameItems(x)[i].size = Len(FrameBytes(x.trace[i - 1]))
  <2>1. FrameItems(x)[i] = item(i)
    BY <1>4
  <2>2. FrameItems(x)[i].bytes = item(i).bytes /\ FrameItems(x)[i].size = item(i).size
    BY <2>1
  <2> QED
    BY <1>2, <2>2
<1> QED
  BY <1>6, <1>7

(* The pieces a section of tags is made of.                                *)
TagPieces(x) == [i \in 1..x.tagsCount |-> Str8(x.tags[i - 1])]

(* The pieces of the tags.                                                 *)
LEMMA TagPiecesAre ==
    ASSUME NEW x, Typed(x)
    PROVE  /\ x.tagsCount \in Nat /\ x.tagsCount <= MaxTagsCount
           /\ TagsOf(x) \in Seq(Short) /\ Len(TagsOf(x)) = x.tagsCount
           /\ \A i \in 1..x.tagsCount :
                 /\ TagsOf(x)[i] = x.tags[i - 1] /\ x.tags[i - 1] \in Short
                 /\ TagPieces(x)[i] = Str8(x.tags[i - 1]) /\ TagPieces(x)[i] \in Text
                 /\ Len(TagPieces(x)[i]) = Len(x.tags[i - 1]) + 1
<1>1. x.tagsCount \in 0..MaxTagsCount /\ MaxTagsCount \in Nat /\ x.tagsCount \in Nat
  BY LimitsAreNat DEF Typed, HasTags, Holds
<1>2. ASSUME NEW i \in 1..x.tagsCount
      PROVE  /\ TagsOf(x)[i] = x.tags[i - 1] /\ x.tags[i - 1] \in Short
             /\ TagPieces(x)[i] = Str8(x.tags[i - 1]) /\ TagPieces(x)[i] \in Text
             /\ Len(TagPieces(x)[i]) = Len(x.tags[i - 1]) + 1
  <2>1. i - 1 \in 0..(MaxTagsCount - 1)
    BY <1>1
  <2>2. x.tags[i - 1] \in Short
    BY <2>1 DEF Typed, HasTags, Holds
  <2>3. TagPieces(x)[i] = Str8(x.tags[i - 1]) /\ TagsOf(x)[i] = x.tags[i - 1]
    BY DEF TagPieces, TagsOf, InUse
  <2>4. Str8(x.tags[i - 1]) \in Text /\ Len(Str8(x.tags[i - 1])) = Len(x.tags[i - 1]) + 1
    BY <2>2, Str8Is DEF Short
  <2> QED
    BY <2>2, <2>3, <2>4
<1>3. TagsOf(x) = [i \in 1..x.tagsCount |-> TagsOf(x)[i]]
  BY DEF TagsOf, InUse
<1>4. TagsOf(x) \in Seq(Short) /\ Len(TagsOf(x)) = x.tagsCount
  <2>1. \A i \in 1..x.tagsCount : TagsOf(x)[i] \in Short
    BY <1>2
  <2> QED
    BY <1>1, <1>3, <2>1, ListOf
<1> QED
  BY <1>1, <1>2, <1>4

(* The state of the loop over tags after k of them.                        *)
Tagged(c, b, x, k) ==
    /\ c \in Text /\ Filled(c, Len(b) + 1, TagPieces(x), k)
    /\ Len(b) + 1 <= Len(c) /\ Len(c) <= Len(b) + 1 + k * (MaxStr + 1)
    /\ c[Len(b) + 1] = x.tagsCount /\ \A i \in 1..Len(b) : c[i] = b[i]

(* The loop over tags starts behind their number,                          *)
LEMMA TaggedFirst ==
    ASSUME NEW x, Typed(x), NEW b \in Text
    PROVE  Tagged(Append(b, x.tagsCount), b, x, 0)
<1> DEFINE c == Append(b, x.tagsCount)
<1>1. x.tagsCount \in Nat /\ Len(b) \in Nat /\ MaxStr \in Nat
  BY TagPiecesAre, TextIs, LimitsAreNat
<1>2. /\ c \in Text /\ Len(c) = Len(b) + 1 /\ c[Len(b) + 1] = x.tagsCount
      /\ \A i \in 1..Len(b) : c[i] = b[i]
  BY <1>1 DEF Text
<1> HIDE DEF c
<1> DEFINE P == [j \in 0..0 |-> Len(b) + 1]
<1>3. LaidOut(P, c, Len(b) + 1, TagPieces(x), 0) /\ P[0] = Len(c)
  BY <1>1, <1>2 DEF LaidOut
<1> HIDE DEF P
<1>4. Filled(c, Len(b) + 1, TagPieces(x), 0)
  BY <1>3 DEF Filled
<1>5. Len(b) + 1 <= Len(c) /\ Len(c) <= Len(b) + 1 + 0 * (MaxStr + 1)
  BY <1>1, <1>2
<1>6. Tagged(c, b, x, 0)
  BY <1>2, <1>4, <1>5 DEF Tagged
<1> QED
  BY <1>6 DEF c

(* and each round writes one more.                                         *)
LEMMA TaggedNext ==
    ASSUME NEW x, Typed(x), NEW b \in Text, NEW k \in 1..x.tagsCount, NEW c, Tagged(c, b, x, k - 1)
    PROVE  Tagged(c \o TagPieces(x)[k], b, x, k)
<1> DEFINE t == TagPieces(x)[k]
           e2 == c \o t
<1>1. /\ t \in Text /\ Len(t) <= MaxStr + 1 /\ x.tagsCount \in Nat /\ MaxStr \in Nat /\ Len(b) \in Nat
      /\ Len(t) \in Nat
  <2>1. t \in Text /\ Len(t) = Len(x.tags[k - 1]) + 1 /\ x.tags[k - 1] \in Short /\ x.tagsCount \in Nat
    BY TagPiecesAre
  <2>2. Len(x.tags[k - 1]) \in Nat /\ Len(x.tags[k - 1]) <= MaxStr
    BY <2>1, TextIs DEF Short
  <2> QED
    BY <2>1, <2>2, LimitsAreNat, TextIs
<1>2. /\ c \in Text /\ Filled(c, Len(b) + 1, TagPieces(x), k - 1) /\ Len(c) \in Nat
      /\ Len(b) + 1 <= Len(c) /\ Len(c) <= Len(b) + 1 + (k - 1) * (MaxStr + 1)
  BY TextIs DEF Tagged
<1>3. e2 \in Text /\ Len(e2) = Len(c) + Len(t) /\ \A i \in 1..Len(c) : e2[i] = c[i]
  BY <1>1, <1>2, Concatenated
<1>4. Filled(e2, Len(b) + 1, TagPieces(x), k)
  <2>1. k - 1 \in Nat /\ (k - 1) + 1 = k /\ \A j \in 1..((k - 1) + 1) : j \in 1..x.tagsCount
    BY <1>1
  <2>2. \A j \in 1..((k - 1) + 1) : TagPieces(x)[j] \in Text
    BY <2>1, TagPiecesAre
  <2>3. Filled(c \o TagPieces(x)[(k - 1) + 1], Len(b) + 1, TagPieces(x), (k - 1) + 1)
    BY <1>2, <2>1, <2>2, FilledNext
  <2> QED
    BY <2>1, <2>3
<1> HIDE DEF e2
<1>5. Len(b) + 1 <= Len(e2)
  BY <1>1, <1>2, <1>3
<1>6. Len(e2) <= Len(b) + 1 + k * (MaxStr + 1)
  <2>1. (k - 1) * (MaxStr + 1) + (MaxStr + 1) = k * (MaxStr + 1)
    BY <1>1
  <2>2. (k - 1) * (MaxStr + 1) \in Int /\ k * (MaxStr + 1) \in Int
    BY <1>1
  <2> QED
    BY <1>1, <1>2, <1>3, <2>1, <2>2
<1>7. Len(b) + 1 \in 1..Len(c) /\ \A i \in 1..Len(b) : i \in 1..Len(c)
  BY <1>1, <1>2
<1>8. e2[Len(b) + 1] = x.tagsCount /\ \A i \in 1..Len(b) : e2[i] = b[i]
  BY <1>3, <1>7 DEF Tagged
<1>9. Tagged(e2, b, x, k)
  BY <1>3, <1>4, <1>5, <1>6, <1>8 DEF Tagged
<1> QED
  BY <1>9 DEF e2

(* The tags' section: their number, and all of them, as no one asks for    *)
(* room.                                                                   *)
LEMMA TagsWritten ==
    ASSUME NEW x, Typed(x), NEW b \in Text
    PROVE  /\ CountedSection(EncodeTags(x, b), b, TagPieces(x), x.tagsCount)
           /\ Len(EncodeTags(x, b)) <= Len(b) + 1 + x.tagsCount * (MaxStr + 1)
<1> DEFINE base == Append(b, x.tagsCount)
           ts == TagsOf(x)
           n == x.tagsCount
<1>1. EncodeTags(x, b) = Tagging!Folded(x, base, ts)
  BY DEF EncodeTags, Tagging!Folded, FoldLeft, MapThenFoldSet, Max, Tagging!Largest
<1>2. ts \in Seq(Short) /\ Len(ts) = n /\ n \in Nat
      /\ \A k \in 1..n : Str8(ts[k]) = TagPieces(x)[k]
  BY TagPiecesAre
<1> HIDE DEF base, ts
<1>3. PICK h : Tagging!Through(h, x, base, ts)
  BY <1>2, Tagging!FoldGoesThrough
<1>4. /\ h[0] = base /\ h[n] = EncodeTags(x, b)
      /\ \A k \in 1..n : h[k] = h[k - 1] \o TagPieces(x)[k]
  BY <1>1, <1>2, <1>3 DEF Tagging!Through, PutTag
<1> DEFINE S == {k \in Nat : Tagged(h[k], b, x, k)}
<1>5. 0 \in S
  BY <1>4, TaggedFirst DEF base
<1>6. ASSUME NEW k \in 1..n, k - 1 \in S PROVE k \in S
  <2>1. Tagged(h[k - 1], b, x, k - 1) /\ k \in Nat
    BY <1>6
  <2>2. Tagged(h[k - 1] \o TagPieces(x)[k], b, x, k)
    BY <2>1, TaggedNext
  <2> QED
    BY <1>4, <2>1, <2>2
<1>7. Tagged(h[n], b, x, n)
  <2> HIDE DEF S
  <2>1. \A k \in 0..n : k \in S
    BY <1>2, <1>5, <1>6, Tagging!BoundedInduction
  <2>2. n \in S
    BY <1>2, <2>1
  <2> QED
    BY <2>2 DEF S
<1> DEFINE c == EncodeTags(x, b)
<1>8. Tagged(c, b, x, n)
  BY <1>4, <1>7
<1> HIDE DEF c
<1>9. Len(c) \in Nat /\ Len(b) \in Nat
  BY <1>8, TextIs DEF Tagged
<1>10. Len(b) < Len(c) /\ Len(b) <= Len(c)
  <2>1. Len(b) + 1 <= Len(c)
    BY <1>8 DEF Tagged
  <2> QED
    BY <1>9, <2>1
<1>11. \A i \in 3..Len(b) : c[i] = b[i]
  <2>1. \A i \in 3..Len(b) : i \in 1..Len(b)
    BY <1>9
  <2> QED
    BY <1>8, <2>1 DEF Tagged
<1>12. Grown(c, b)
  BY <1>8, <1>10, <1>11 DEF Tagged, Grown, Continues
<1>13. CountedSection(c, b, TagPieces(x), n)
  BY <1>8, <1>12 DEF Tagged, CountedSection
<1> QED
  BY <1>8, <1>13 DEF Tagged, c

(* The sections that are one piece.                                        *)
PlainLevels == {BucketId, EntryId, SeverityOf, Message, CategoryId, TTLEntry, TTLMeta}

(* The bytes of such a section.                                            *)
Piece(x, l) ==
    CASE l = BucketId   -> U32(x.bucketId)
      [] l = EntryId    -> [i \in 1..12 |-> x.id]
      [] l = SeverityOf -> <<x.severity>>
      [] l = Message    -> Str8(x.message)
      [] l = CategoryId -> <<x.categoryId>>
      [] l = TTLEntry   -> U16(x.ttlEntry)
      [] l = TTLMeta    -> U16(x.ttlMeta)

(* A byte more is a piece of one byte.                                     *)
LEMMA Appending ==
    ASSUME NEW b \in Text, NEW n \in Nat
    PROVE  Append(b, n) = b \o <<n>> /\ <<n>> \in Text /\ Len(<<n>>) = 1 /\ <<n>>[1] = n
  BY DEF Text

(* The piece of each such section.                                         *)
LEMMA PiecesAre ==
    ASSUME NEW x, Typed(x)
    PROVE  /\ Piece(x, BucketId) = U32(x.bucketId) /\ Piece(x, EntryId) = [i \in 1..12 |-> x.id]
           /\ Piece(x, SeverityOf) = <<x.severity>> /\ Piece(x, Message) = Str8(x.message)
           /\ Piece(x, CategoryId) = <<x.categoryId>> /\ Piece(x, TTLEntry) = U16(x.ttlEntry)
           /\ Piece(x, TTLMeta) = U16(x.ttlMeta)
  BY DEF Piece, BucketId, EntryId, SeverityOf, Message, CategoryId, TTLEntry, TTLMeta

(* EncodeSection writes it.                                                *)
LEMMA PlainSection ==
    ASSUME NEW x, Typed(x), NEW b \in Text, NEW l \in PlainLevels
    PROVE  /\ Piece(x, l) \in Text /\ Len(Piece(x, l)) > 0
           /\ EncodeSection(x, b, l) = b \o Piece(x, l)
<1> USE DEF BucketId, EntryId, SeverityOf, Message, CategoryId, TTLEntry, TTLMeta,
            Tags, Metric, Meta, StackTrace
<1>1. /\ x.bucketId \in Nat /\ x.id \in Nat /\ x.severity \in Nat /\ x.message \in Text
      /\ x.categoryId \in Nat /\ x.ttlEntry \in Nat /\ x.ttlMeta \in Nat
  BY DEF Typed, Scalars
<1>2. CASE l = BucketId
  <2>1. Piece(x, l) = U32(x.bucketId) /\ EncodeSection(x, b, l) = b \o U32(x.bucketId)
    BY <1>2 DEF Piece, EncodeSection
  <2>2. U32(x.bucketId) \in Text /\ Len(U32(x.bucketId)) = 4
    BY <1>1, U32Is
  <2> QED
    BY <2>1, <2>2
<1>3. CASE l = EntryId
  <2>1. [i \in 1..12 |-> x.id] \in Text /\ Len([i \in 1..12 |-> x.id]) = 12
    BY <1>1 DEF Text
  <2> QED
    BY <1>3, <2>1 DEF Piece, EncodeSection
<1>4. CASE l = SeverityOf
  BY <1>1, <1>4, Appending DEF Piece, EncodeSection
<1>5. CASE l = Message
  <2>1. Str8(x.message) \in Text /\ Len(Str8(x.message)) = Len(x.message) + 1 /\ Len(x.message) \in Nat
    BY <1>1, Str8Is, TextIs
  <2> QED
    BY <1>5, <2>1 DEF Piece, EncodeSection
<1>6. CASE l = CategoryId
  BY <1>1, <1>6, Appending DEF Piece, EncodeSection
<1>7. CASE l = TTLEntry
  BY <1>1, <1>7, U16Is DEF Piece, EncodeSection
<1>8. CASE l = TTLMeta
  BY <1>1, <1>8, U16Is DEF Piece, EncodeSection
<1> QED
  BY <1>2, <1>3, <1>4, <1>5, <1>6, <1>7, <1>8 DEF PlainLevels

(* The sections with a count.                                              *)
LEMMA CountedSections ==
    ASSUME NEW x, NEW b
    PROVE  /\ EncodeSection(x, b, Tags) = EncodeTags(x, b)
           /\ EncodeSection(x, b, Metric) = Counted(b, MetricItems(x))
           /\ EncodeSection(x, b, Meta) = Counted(b, MetaItems(x))
           /\ EncodeSection(x, b, StackTrace) = Counted(b, FrameItems(x))
  BY DEF EncodeSection, BucketId, EntryId, SeverityOf, Message, CategoryId, TTLEntry, TTLMeta,
         Tags, Metric, Meta, StackTrace

(* All sections, in the order in which they are written.                   *)
Levels == 0..10

(* There are no others.                                                    *)
LEMMA LevelsAre ==
    /\ Levels = PlainLevels \cup {Tags, Metric, Meta, StackTrace}
    /\ Message \in Nat /\ TTLMeta \in Nat /\ TTLMeta = 10
  BY DEF Levels, PlainLevels, BucketId, EntryId, SeverityOf, Message, CategoryId, TTLEntry, TTLMeta,
         Tags, Metric, Meta, StackTrace

(* Every section adds at least a byte.                                     *)
LEMMA SectionGrows ==
    ASSUME NEW x, Typed(x), NEW b \in Text, NEW l \in Levels,
           l = Metric => x.metricCount <= MaxStackTraceCount
    PROVE  Grown(EncodeSection(x, b, l), b)
<1>1. CASE l \in PlainLevels
  <2>1. /\ Piece(x, l) \in Text /\ Len(Piece(x, l)) > 0
        /\ EncodeSection(x, b, l) = b \o Piece(x, l)
    BY <1>1, PlainSection
  <2> QED
    BY <2>1, GrownBy
<1>2. CASE l = Tags
  BY <1>2, CountedSections, TagsWritten DEF CountedSection
<1>3. CASE l = Metric
  <2>1. MetricItems(x) \in Seq(Items)
    BY <1>3, MetricItemsAre
  <2>2. Grown(Counted(b, MetricItems(x)), b)
    BY <2>1, CountedWrites DEF CountedSection
  <2> QED
    BY <1>3, <2>2, CountedSections
<1>4. CASE l = Meta
  <2>1. MetaItems(x) \in Seq(Items)
    BY MetaItemsAre
  <2>2. Grown(Counted(b, MetaItems(x)), b)
    BY <2>1, CountedWrites DEF CountedSection
  <2> QED
    BY <1>4, <2>2, CountedSections
<1>5. CASE l = StackTrace
  <2>1. FrameItems(x) \in Seq(Items)
    BY FrameItemsAre
  <2>2. Grown(Counted(b, FrameItems(x)), b)
    BY <2>1, CountedWrites DEF CountedSection
  <2> QED
    BY <1>5, <2>2, CountedSections
<1> QED
  BY <1>1, <1>2, <1>3, <1>4, <1>5, LevelsAre

(* H lists what is written after each section.                             *)
EncodesThrough(H, x) ==
    /\ H[0] = <<0, 0>> /\ H[x.level + 1] = EncodeSections(x)
    /\ \A k \in 1..(x.level + 1) : H[k] = EncodeSection(x, H[k - 1], k - 1)

(* Encode goes through the sections.                                       *)
LEMMA EncodeFold ==
    ASSUME NEW x, Typed(x)
    PROVE  \E H : EncodesThrough(H, x)
<1> DEFINE n == x.level + 1
           s == [i \in 1..n |-> i - 1]
<1>1. n \in Nat /\ x.level \in Nat
  BY LevelsAre DEF Typed, Scalars
<1>2. s \in Seq(Int) /\ Len(s) = n /\ \A k \in 1..n : s[k] = k - 1
  <2> HIDE DEF n
  <2> QED
    BY <1>1
<1>3. EncodeSections(x) = Encoding!Folded(x, <<0, 0>>, s)
  BY DEF EncodeSections, Encoding!Folded, FoldLeft, MapThenFoldSet, Max, Encoding!Largest
<1> HIDE DEF s
<1>4. PICK H : Encoding!Through(H, x, <<0, 0>>, s)
  BY <1>2, Encoding!FoldGoesThrough
<1>5. EncodesThrough(H, x)
  BY <1>2, <1>3, <1>4 DEF Encoding!Through, EncodesThrough
<1> QED
  BY <1>5

(* What is written stays; each section adds to it.                         *)
LEMMA ContinuesOn ==
    ASSUME NEW a \in Text, NEW b \in Text, NEW c \in Text, Continues(b, a), Continues(c, b)
    PROVE  Continues(c, a)
<1>1. Len(a) \in Nat /\ Len(b) \in Nat /\ Len(c) \in Nat
  BY TextIs
<1>2. \A i \in 3..Len(a) : i \in 3..Len(b)
  BY <1>1 DEF Continues
<1> QED
  BY <1>1, <1>2 DEF Continues

(* The k-th text is longer than those before it and begins like them.      *)
Growing(H, k) ==
    /\ H[k] \in Text /\ Len(H[k]) >= 2
    /\ \A j \in 0..k : Continues(H[k], H[j]) /\ (j < k => Len(H[j]) < Len(H[k]))

(* Whatever follows, what a section wrote stays: by induction over the     *)
(* sections.                                                               *)
LEMMA EncodeGrows ==
    ASSUME NEW x, Typed(x), Indexed(x), NEW H, EncodesThrough(H, x)
    PROVE  \A k \in 0..(x.level + 1) : Growing(H, k)
<1> DEFINE n == x.level + 1
           S == {k \in 0..n : \A m \in 0..k : Growing(H, m)}
<1>1. n \in Nat /\ x.level \in Nat /\ x.level <= 10
  BY LevelsAre DEF Typed, Scalars
<1>2. 0 \in S
  <2>1. H[0] \in Text /\ Len(H[0]) = 2
    BY DEF EncodesThrough, Text
  <2>2. Continues(H[0], H[0])
    BY <2>1 DEF Continues
  <2>3. \A j \in 0..0 : j = 0 /\ ~(j < 0)
    OBVIOUS
  <2>4. Growing(H, 0)
    BY <2>1, <2>2, <2>3 DEF Growing
  <2> QED
    BY <1>1, <2>3, <2>4
<1>3. ASSUME NEW k \in 1..n, k - 1 \in S PROVE k \in S
  <2>1. /\ k - 1 \in 0..n /\ k - 1 \in Levels /\ k - 1 \in 0..(k - 1) /\ k \in 0..n
        /\ \A m \in 0..k : m = k \/ m \in 0..(k - 1)
    BY <1>1 DEF Levels
  <2>2. \A m \in 0..(k - 1) : Growing(H, m)
    BY <1>3
  <2>3. H[k - 1] \in Text /\ Len(H[k - 1]) >= 2
        /\ \A j \in 0..(k - 1) : Continues(H[k - 1], H[j]) /\ (j < k - 1 => Len(H[j]) < Len(H[k - 1]))
    BY <2>1, <2>2 DEF Growing
  <2>4. k - 1 = Metric => x.metricCount <= MaxStackTraceCount
    <3>1. k - 1 = Metric => x.level >= Metric
      BY <1>1 DEF Metric
    <3> QED
      BY <3>1 DEF Indexed
  <2>5. H[k] = EncodeSection(x, H[k - 1], k - 1)
    BY DEF EncodesThrough
  <2>6. Grown(H[k], H[k - 1])
    BY <2>1, <2>3, <2>4, <2>5, SectionGrows
  <2>7. H[k] \in Text /\ Len(H[k - 1]) < Len(H[k]) /\ Continues(H[k], H[k - 1])
        /\ Len(H[k]) \in Nat /\ Len(H[k - 1]) \in Nat
    BY <2>3, <2>6, TextIs DEF Grown
  <2>8. ASSUME NEW j \in 0..k PROVE Continues(H[k], H[j]) /\ (j < k => Len(H[j]) < Len(H[k]))
    <3>1. CASE j = k
      BY <2>7, <3>1 DEF Continues
    <3>2. CASE j = k - 1
      BY <2>7, <3>2
    <3>3. CASE j # k /\ j # k - 1
      <4>1. j \in 0..(k - 1) /\ j < k - 1
        BY <3>3
      <4>2. H[j] \in Text /\ Continues(H[k - 1], H[j]) /\ Len(H[j]) < Len(H[k - 1])
        BY <2>2, <2>3, <4>1 DEF Growing
      <4>3. Len(H[j]) \in Nat
        BY <4>2, TextIs
      <4>4. Continues(H[k], H[j])
        BY <2>3, <2>7, <4>2, ContinuesOn
      <4> QED
        BY <2>7, <4>2, <4>3, <4>4
    <3> QED
      BY <3>1, <3>2, <3>3
  <2>9. Len(H[k]) >= 2
    BY <2>3, <2>7
  <2>10. Growing(H, k)
    BY <2>7, <2>8, <2>9 DEF Growing
  <2> QED
    BY <2>1, <2>2, <2>10
<1>4. \A k \in 0..n : k \in S
  <2> HIDE DEF S
  <2> QED
    BY <1>1, <1>2, <1>3, Encoding!BoundedInduction
<1>5. ASSUME NEW k \in 0..n PROVE Growing(H, k)
  <2>1. k \in 0..k
    BY <1>1
  <2> QED
    BY <1>4, <2>1
<1> QED
  BY <1>5

----------------------------------------------------------------------------
(* What Decode makes of any bytes: an entry, with arrays of the right      *)
(* size.                                                                   *)

ItemOf(p, a, i) == DecodeItem(p[1], p[2], a, i)
Reading == INSTANCE FoldProofs WITH Op <- ItemOf
Decodes == INSTANCE FoldProofs WITH Op <- DecodeStep

(* Reading inside the bytes gives numbers.                                 *)
LEMMA AtIs ==
    ASSUME NEW b \in Text, NEW s \in Nat
    PROVE  /\ s < Len(b) => At(b, s) \in Nat
           /\ s + 1 < Len(b) => U16At(b, s) \in Nat
<1>1. Len(b) \in Nat /\ \A i \in 1..Len(b) : b[i] \in Nat
  BY TextIs
<1>2. s < Len(b) => s + 1 \in 1..Len(b)
  BY <1>1
<1>3. s < Len(b) => At(b, s) \in Nat
  BY <1>1, <1>2 DEF At
<1>4. s + 1 < Len(b) => (s + 1) + 1 \in 1..Len(b) /\ s < Len(b)
  BY <1>1
<1>5. s + 1 < Len(b) => At(b, s + 1) \in Nat
  BY <1>1, <1>4 DEF At
<1> QED
  BY <1>3, <1>4, <1>5 DEF U16At

(* The sections that are a count and items,                                *)
CountedLevels == {Tags, Metric, Meta, StackTrace}

(* and the state of the loop that reads them.                              *)
LoopIs(a, size) ==
    IsArray(a.array, size) /\ a.s \in Nat /\ a.go \in BOOLEAN

(* The parts of the state of a loop.                                       *)
LEMMA LoopFields ==
    ASSUME NEW array, NEW s, NEW go
    PROVE  Loop(array, s, go).array = array /\ Loop(array, s, go).s = s /\ Loop(array, s, go).go = go
  BY DEF Loop

(* A state of a loop with an array of the right size is one,               *)
LEMMA LoopMade ==
    ASSUME NEW array, NEW size, IsArray(array, size), NEW s \in Nat, NEW go \in BOOLEAN
    PROVE  LoopIs(Loop(array, s, go), size)
  BY LoopFields DEF LoopIs

(* and storing into the array keeps its size.                              *)
LEMMA StoredIsArray ==
    ASSUME NEW array, NEW size, IsArray(array, size), NEW i, NEW v
    PROVE  IsArray([array EXCEPT ![i] = v], size)
  BY DEF IsArray

(* Decoding an item, whether it is there or not, keeps the array's size,   *)
LEMMA ItemKeepsLoop ==
    ASSUME NEW b \in Text, NEW l \in CountedLevels, NEW size, NEW a, LoopIs(a, size), NEW i
    PROVE  LoopIs(DecodeItem(b, l, a, i), size)
<1> DEFINE q   == a.s + 1 + At(b, a.s)
           key == Slice(b, a.s + 1, q)
           end == q + 2 + U16At(b, q)
<1>1. IsArray(a.array, size) /\ a.s \in Nat /\ Len(b) \in Nat
  BY TextIs DEF LoopIs
<1>2. CASE ~a.go
  BY <1>2 DEF DecodeItem
<1>3. CASE a.go /\ a.s >= Len(b)
  <2>1. DecodeItem(b, l, a, i) = Loop(a.array, a.s, FALSE)
    BY <1>3 DEF DecodeItem
  <2> QED
    BY <1>1, <2>1, LoopMade
<1>4. CASE a.go /\ ~(a.s >= Len(b)) /\ q + More(l) > Len(b)
  <2>1. DecodeItem(b, l, a, i) = Loop(a.array, a.s + 1, FALSE)
    BY <1>4 DEF DecodeItem
  <2>2. a.s + 1 \in Nat
    BY <1>1
  <2> QED
    BY <1>1, <2>1, <2>2, LoopMade
<1>5. CASE a.go /\ ~(a.s >= Len(b)) /\ ~(q + More(l) > Len(b))
  <2>1. At(b, a.s) \in Nat /\ q \in Nat /\ a.s < Len(b)
    <3>1. a.s < Len(b)
      BY <1>1, <1>5
    <3>2. At(b, a.s) \in Nat
      BY <1>1, <3>1, AtIs
    <3> QED
      BY <1>1, <3>1, <3>2
  <2> DEFINE rest ==
               CASE l = Tags       -> Loop([a.array EXCEPT ![i] = key], q, TRUE)
                 [] l = Metric     -> Loop([a.array EXCEPT ![i] = <<key, U32At(b, q)>>], q + 4, TRUE)
                 [] l = Meta       -> DecodeMetaValue(b, a.array, i, key, q)
                 [] l = StackTrace -> Loop([a.array EXCEPT ![i] = <<key, U16At(b, q)>>], q + 2, TRUE)
  <2>2. DecodeItem(b, l, a, i) = rest
    BY <1>5 DEF DecodeItem
  <2> USE DEF Tags, Metric, Meta, StackTrace
  <2>3. CASE l = Tags
    <3>1. rest = Loop([a.array EXCEPT ![i] = key], q, TRUE)
      BY <2>3
    <3> HIDE DEF q, key
    <3> QED
      BY <1>1, <2>1, <2>2, <3>1, StoredIsArray, LoopMade
  <2>4. CASE l = Metric
    <3>1. rest = Loop([a.array EXCEPT ![i] = <<key, U32At(b, q)>>], q + 4, TRUE)
      BY <2>4
    <3>2. q + 4 \in Nat
      BY <2>1
    <3> HIDE DEF q, key
    <3> QED
      BY <1>1, <2>2, <3>1, <3>2, StoredIsArray, LoopMade
  <2>5. CASE l = StackTrace
    <3>1. rest = Loop([a.array EXCEPT ![i] = <<key, U16At(b, q)>>], q + 2, TRUE)
      BY <2>5
    <3>2. q + 2 \in Nat
      BY <2>1
    <3> HIDE DEF q, key
    <3> QED
      BY <1>1, <2>2, <3>1, <3>2, StoredIsArray, LoopMade
  <2>6. CASE l = Meta
    <3>1. rest = DecodeMetaValue(b, a.array, i, key, q)
      BY <2>6
    <3>2. More(l) = 3
      BY <2>6 DEF More
    <3> HIDE DEF q, key, rest
    <3>3. U16At(b, q) \in Nat /\ q + 2 \in Nat
      <4>1. q + 1 < Len(b)
        BY <1>1, <1>5, <2>1, <3>2
      <4> QED
        BY <2>1, <4>1, AtIs
    <3>4. end \in Nat
      BY <2>1, <3>3
    <3>5. CASE end > Len(b)
      <4>1. rest = Loop([a.array EXCEPT ![i] = <<key, a.array[i][2]>>], q + 2, FALSE)
        BY <3>1, <3>5 DEF DecodeMetaValue
      <4> QED
        BY <1>1, <2>2, <3>3, <4>1, StoredIsArray, LoopMade
    <3>6. CASE ~(end > Len(b))
      <4>1. rest = Loop([a.array EXCEPT ![i] = <<key, Slice(b, q + 2, end)>>], end, TRUE)
        BY <3>1, <3>6 DEF DecodeMetaValue
      <4> HIDE DEF end
      <4> QED
        BY <1>1, <2>2, <3>4, <4>1, StoredIsArray, LoopMade
    <3> QED
      BY <3>5, <3>6
  <2> QED
    BY <2>3, <2>4, <2>5, <2>6 DEF CountedLevels
<1>6. a.go \in BOOLEAN
  BY DEF LoopIs
<1> QED
  BY <1>2, <1>3, <1>4, <1>5, <1>6

(* The states of the loop over n items.                                    *)
ReadsThrough(G, b, l, array, s, n) ==
    /\ G[0] = Loop(array, s, TRUE) /\ G[n] = DecodeItems(b, l, array, s, n)
    /\ \A k \in 1..n : G[k] = DecodeItem(b, l, G[k - 1], k - 1)

(* and Decode goes through the items,                                      *)
LEMMA ItemsFold ==
    ASSUME NEW b, NEW l, NEW array, NEW s, NEW n \in Nat
    PROVE  \E G : ReadsThrough(G, b, l, array, s, n)
<1> DEFINE is == [i \in 1..n |-> i - 1]
           base == Loop(array, s, TRUE)
<1>1. is \in Seq(Int) /\ Len(is) = n /\ \A k \in 1..n : is[k] = k - 1
  OBVIOUS
<1>2. ASSUME NEW p PROVE DecodeItems(p[1], p[2], array, s, n) = Reading!Folded(p, base, is)
  BY DEF DecodeItems, ItemOf, Reading!Folded, FoldLeft, MapThenFoldSet, Max, Reading!Largest
<1> HIDE DEF is, base
<1>3. PICK p : p[1] = b /\ p[2] = l
  <2>1. <<b, l>>[1] = b /\ <<b, l>>[2] = l
    OBVIOUS
  <2> QED
    BY <2>1
<1>4. PICK G : Reading!Through(G, p, base, is)
  BY <1>1, Reading!FoldGoesThrough
<1>5. /\ G[0] = base /\ G[n] = DecodeItems(b, l, array, s, n)
      /\ \A k \in 1..n : G[k] = DecodeItem(b, l, G[k - 1], k - 1)
  BY <1>1, <1>2, <1>3, <1>4 DEF Reading!Through, ItemOf
<1> QED
  BY <1>5 DEF ReadsThrough, base

(* so decoding all of them does,                                           *)
LEMMA ItemsKeepLoop ==
    ASSUME NEW b \in Text, NEW l \in CountedLevels, NEW size, NEW array, IsArray(array, size),
           NEW s \in Nat, NEW n \in Nat
    PROVE  LoopIs(DecodeItems(b, l, array, s, n), size)
<1>1. PICK G : ReadsThrough(G, b, l, array, s, n)
  BY ItemsFold
<1> DEFINE S == {k \in Nat : LoopIs(G[k], size)}
<1>2. 0 \in S
  <2>1. LoopIs(Loop(array, s, TRUE), size)
    BY LoopMade
  <2> QED
    BY <1>1, <2>1 DEF ReadsThrough
<1>3. ASSUME NEW k \in 1..n, k - 1 \in S PROVE k \in S
  <2>1. LoopIs(G[k - 1], size) /\ k \in Nat
    BY <1>3
  <2>2. LoopIs(DecodeItem(b, l, G[k - 1], k - 1), size)
    BY <2>1, ItemKeepsLoop
  <2> QED
    BY <1>1, <2>1, <2>2 DEF ReadsThrough
<1>4. n \in S
  <2> HIDE DEF S
  <2>1. \A k \in 0..n : k \in S
    BY <1>2, <1>3, Reading!BoundedInduction
  <2> QED
    BY <2>1
<1> QED
  BY <1>1, <1>4 DEF ReadsThrough

(* whatever the count is.                                                  *)
LEMMA CountedKeepsLoop ==
    ASSUME NEW b \in Text, NEW l \in CountedLevels, NEW size, NEW array, IsArray(array, size),
           NEW s \in Nat, s < Len(b), NEW limit
    PROVE  LoopIs(DecodeCounted(b, l, array, s, limit), size)
<1>1. At(b, s) \in Nat /\ s + 1 \in Nat
  BY AtIs
<1>2. CASE At(b, s) > limit
  BY <1>1, <1>2, LoopMade DEF DecodeCounted
<1>3. CASE ~(At(b, s) > limit)
  BY <1>1, <1>3, ItemsKeepLoop DEF DecodeCounted
<1> QED
  BY <1>2, <1>3

(* Assignments to fields of an entry.                                      *)
Arrays == {"tags", "metrics", "meta", "trace"}

(* Assigning to a field leaves the others alone.                           *)
LEMMA FieldAssigned ==
    ASSUME NEW x, IsEntry(x), NEW f \in Fields \ Arrays, NEW v
    PROVE  LET y == [x EXCEPT ![f] = v]
           IN IsEntry(y) /\ y[f] = v /\ \A g \in Fields : g # f => y[g] = x[g]
<1> DEFINE y == [x EXCEPT ![f] = v]
<1>1. y = [g \in Fields |-> y[g]] /\ y[f] = v /\ \A g \in Fields : g # f => y[g] = x[g]
  BY DEF IsEntry
<1> HIDE DEF y
<1>2. y.tags = x.tags /\ y.metrics = x.metrics /\ y.meta = x.meta /\ y.trace = x.trace
  BY <1>1 DEF Fields, Arrays
<1>3. IsEntry(y)
  BY <1>1, <1>2 DEF IsEntry
<1> QED
  BY <1>1, <1>3 DEF y

(* The size of each array.                                                 *)
SizeOf(array) ==
    CASE array = "tags" -> MaxTagsCount [] array = "metrics" -> MaxMetricCount
      [] array = "meta" -> MaxMetaCount [] array = "trace"   -> MaxStackTraceCount

(* The sizes of the arrays.                                                *)
LEMMA SizesAre ==
    /\ SizeOf("tags") = MaxTagsCount /\ SizeOf("metrics") = MaxMetricCount
    /\ SizeOf("meta") = MaxMetaCount /\ SizeOf("trace") = MaxStackTraceCount
  BY DEF SizeOf

(* Assigning to an array and its count does too.                           *)
LEMMA ArrayAssigned ==
    ASSUME NEW x, IsEntry(x), NEW count \in Fields \ Arrays, NEW n,
           NEW array \in Arrays, NEW a, IsArray(a, SizeOf(array))
    PROVE  LET y == [x EXCEPT ![count] = n, ![array] = a]
           IN /\ IsEntry(y) /\ y[count] = n /\ y[array] = a
              /\ \A g \in Fields : g # count /\ g # array => y[g] = x[g]
<1> DEFINE y == [x EXCEPT ![count] = n, ![array] = a]
<1>0. array \in Fields /\ array # count /\ count \in Fields
  BY DEF Arrays, Fields
<1>1. /\ y = [g \in Fields |-> y[g]] /\ y[count] = n /\ y[array] = a
      /\ \A g \in Fields : g # count /\ g # array => y[g] = x[g]
  BY <1>0 DEF IsEntry
<1> HIDE DEF y
<1>2. ASSUME NEW g \in Arrays PROVE IsArray(y[g], SizeOf(g))
  <2>1. CASE g = array
    BY <1>1, <2>1
  <2>2. CASE g # array
    <3>1. g \in Fields /\ g # count
      BY DEF Arrays, Fields
    <3>2. y[g] = x[g]
      BY <1>1, <2>2, <3>1
    <3>3. IsArray(x[g], SizeOf(g))
      BY SizesAre DEF IsEntry, Arrays
    <3> QED
      BY <3>2, <3>3
  <2> QED
    BY <2>1, <2>2
<1>3. IsEntry(y)
  BY <1>1, <1>2, SizesAre DEF IsEntry, Arrays
<1> QED
  BY <1>1, <1>3 DEF y

(* A counted section read into an array and its count.                     *)
Collected(x, count, n, array, c) == Decoding([x EXCEPT ![count] = n, ![array] = c.array], c.s, c.go, FALSE)

(* Decode reads the four counted sections in this way.                     *)
LEMMA CountedCases ==
    ASSUME NEW b, NEW x, NEW s
    PROVE  /\ DecodeSection(b, x, s, Tags) =
                 Collected(x, "tagsCount", At(b, s), "tags",
                           DecodeCounted(b, Tags, x.tags, s, MaxTagsCount))
           /\ DecodeSection(b, x, s, Metric) =
                 Collected(x, "metricCount", At(b, s), "metrics",
                           DecodeCounted(b, Metric, x.metrics, s, MaxMetricCount))
           /\ DecodeSection(b, x, s, Meta) =
                 Collected(x, "metaCount", At(b, s), "meta",
                           DecodeCounted(b, Meta, x.meta, s, MaxMetaCount))
           /\ DecodeSection(b, x, s, StackTrace) =
                 Collected(x, "stackTraceCount", At(b, s), "trace",
                           DecodeCounted(b, StackTrace, x.trace, s, MaxStackTraceCount))
<1> USE DEF BucketId, EntryId, SeverityOf, Message, CategoryId, TTLEntry, TTLMeta,
            Tags, Metric, Meta, StackTrace
<1>1. DecodeSection(b, x, s, Tags) =
         Collected(x, "tagsCount", At(b, s), "tags",
                   DecodeCounted(b, Tags, x.tags, s, MaxTagsCount))
  <2>1. PICK c : c = DecodeCounted(b, Tags, x.tags, s, MaxTagsCount)
    OBVIOUS
  <2>2. DecodeSection(b, x, s, Tags) =
           Decoding([x EXCEPT !.tagsCount = At(b, s), !.tags = c.array], c.s, c.go, FALSE)
    BY <2>1 DEF DecodeSection
  <2> QED
    BY <2>1, <2>2 DEF Collected
<1>2. DecodeSection(b, x, s, Metric) =
         Collected(x, "metricCount", At(b, s), "metrics",
                   DecodeCounted(b, Metric, x.metrics, s, MaxMetricCount))
  <2>1. PICK c : c = DecodeCounted(b, Metric, x.metrics, s, MaxMetricCount)
    OBVIOUS
  <2>2. DecodeSection(b, x, s, Metric) =
           Decoding([x EXCEPT !.metricCount = At(b, s), !.metrics = c.array], c.s, c.go, FALSE)
    BY <2>1 DEF DecodeSection
  <2> QED
    BY <2>1, <2>2 DEF Collected
<1>3. DecodeSection(b, x, s, Meta) =
         Collected(x, "metaCount", At(b, s), "meta",
                   DecodeCounted(b, Meta, x.meta, s, MaxMetaCount))
  <2>1. PICK c : c = DecodeCounted(b, Meta, x.meta, s, MaxMetaCount)
    OBVIOUS
  <2>2. DecodeSection(b, x, s, Meta) =
           Decoding([x EXCEPT !.metaCount = At(b, s), !.meta = c.array], c.s, c.go, FALSE)
    BY <2>1 DEF DecodeSection
  <2> QED
    BY <2>1, <2>2 DEF Collected
<1>4. DecodeSection(b, x, s, StackTrace) =
         Collected(x, "stackTraceCount", At(b, s), "trace",
                   DecodeCounted(b, StackTrace, x.trace, s, MaxStackTraceCount))
  <2>1. PICK c : c = DecodeCounted(b, StackTrace, x.trace, s, MaxStackTraceCount)
    OBVIOUS
  <2>2. DecodeSection(b, x, s, StackTrace) =
           Decoding([x EXCEPT !.stackTraceCount = At(b, s), !.trace = c.array], c.s, c.go, FALSE)
    BY <2>1 DEF DecodeSection
  <2> QED
    BY <2>1, <2>2 DEF Collected
<1> QED
  BY <1>1, <1>2, <1>3, <1>4

(* The parts of the state of the loop over sections.                       *)
LEMMA DecodingFields ==
    ASSUME NEW x, NEW s, NEW go, NEW panic
    PROVE  LET c == Decoding(x, s, go, panic) IN c.x = x /\ c.s = s /\ c.go = go /\ c.panic = panic
  BY DEF Decoding

(* The state of Decode between two sections.                               *)
DecodingIs(c) == IsEntry(c.x) /\ c.s \in Nat /\ c.go \in BOOLEAN /\ c.panic \in BOOLEAN

(* An entry and a position make up such a state.                           *)
LEMMA DecodingMade ==
    ASSUME NEW x, IsEntry(x), NEW s \in Nat, NEW go \in BOOLEAN, NEW panic \in BOOLEAN
    PROVE  DecodingIs(Decoding(x, s, go, panic))
  BY DecodingFields DEF DecodingIs

(* A counted section leaves one behind,                                    *)
LEMMA CollectedIs ==
    ASSUME NEW x, IsEntry(x), NEW count \in Fields \ Arrays, NEW n, NEW array \in Arrays, NEW c,
           LoopIs(c, SizeOf(array))
    PROVE  DecodingIs(Collected(x, count, n, array, c))
<1>1. IsArray(c.array, SizeOf(array)) /\ c.s \in Nat /\ c.go \in BOOLEAN
  BY DEF LoopIs
<1>2. IsEntry([x EXCEPT ![count] = n, ![array] = c.array])
  BY <1>1, ArrayAssigned
<1> QED
  BY <1>1, <1>2, DecodingMade DEF Collected

(* and so does every section.                                              *)
LEMMA SectionIsDecoded ==
    ASSUME NEW b \in Text, NEW x, IsEntry(x), NEW s \in Nat, s < Len(b), NEW l \in Levels
    PROVE  DecodingIs(DecodeSection(b, x, s, l))
<1>1. /\ At(b, s) \in Nat /\ s + 1 \in Nat /\ s + 2 \in Nat /\ s + 4 \in Nat /\ s + 12 \in Nat
      /\ s + 1 + At(b, s) \in Nat
  <2>1. At(b, s) \in Nat
    BY AtIs
  <2> QED
    BY <2>1
<1>2. ASSUME NEW f \in Fields \ Arrays, NEW v PROVE IsEntry([x EXCEPT ![f] = v])
  BY FieldAssigned
<1>3. {"bucketId", "id", "severity", "message", "categoryId", "ttlEntry", "ttlMeta",
       "tagsCount", "metricCount", "metaCount", "stackTraceCount"} \subseteq Fields \ Arrays
  BY DEF Fields, Arrays
<1>4. CASE l = BucketId
  <2>1. PICK y : y = [x EXCEPT !.bucketId = U32At(b, s)]
    OBVIOUS
  <2>2. IsEntry(y)
    BY <1>2, <1>3, <2>1
  <2>3. DecodeSection(b, x, s, l) = Decoding(y, s + 4, TRUE, FALSE)
    BY <1>4, <2>1 DEF DecodeSection, BucketId, EntryId, SeverityOf, Message, CategoryId, TTLEntry,
         TTLMeta, Tags, Metric, Meta, StackTrace
  <2> QED
    BY <1>1, <2>2, <2>3, DecodingMade
<1>5. CASE l = EntryId
  <2>1. PICK y : y = [x EXCEPT !.id = At(b, s)]
    OBVIOUS
  <2>2. IsEntry(y)
    BY <1>2, <1>3, <2>1
  <2>3. DecodeSection(b, x, s, l) = Decoding(y, s + 12, TRUE, FALSE)
    BY <1>5, <2>1 DEF DecodeSection, BucketId, EntryId, SeverityOf, Message, CategoryId, TTLEntry,
         TTLMeta, Tags, Metric, Meta, StackTrace
  <2> QED
    BY <1>1, <2>2, <2>3, DecodingMade
<1>6. CASE l = SeverityOf
  <2>1. PICK y : y = [x EXCEPT !.severity = At(b, s)]
    OBVIOUS
  <2>2. IsEntry(y)
    BY <1>2, <1>3, <2>1
  <2>3. DecodeSection(b, x, s, l) = Decoding(y, s + 1, TRUE, FALSE)
    BY <1>6, <2>1 DEF DecodeSection, BucketId, EntryId, SeverityOf, Message, CategoryId, TTLEntry,
         TTLMeta, Tags, Metric, Meta, StackTrace
  <2> QED
    BY <1>1, <2>2, <2>3, DecodingMade
<1>7. CASE l = Message
  <2>1. PICK y : y = [x EXCEPT !.message = Slice(b, s + 1, s + 1 + At(b, s))]
    OBVIOUS
  <2>2. IsEntry(y)
    BY <1>2, <1>3, <2>1
  <2>3. DecodeSection(b, x, s, l) =
           IF s + 1 + At(b, s) > Len(b) THEN Decoding(x, s + 1, FALSE, FALSE)
           ELSE Decoding(y, s + 1 + At(b, s), TRUE, FALSE)
    BY <1>7, <2>1 DEF DecodeSection, BucketId, EntryId, SeverityOf, Message, CategoryId, TTLEntry,
         TTLMeta, Tags, Metric, Meta, StackTrace
  <2> QED
    BY <1>1, <2>2, <2>3, DecodingMade
<1>8. CASE l = CategoryId
  <2>1. PICK y : y = [x EXCEPT !.categoryId = At(b, s)]
    OBVIOUS
  <2>2. IsEntry(y)
    BY <1>2, <1>3, <2>1
  <2>3. DecodeSection(b, x, s, l) = Decoding(y, s + 1, TRUE, FALSE)
    BY <1>8, <2>1 DEF DecodeSection, BucketId, EntryId, SeverityOf, Message, CategoryId, TTLEntry,
         TTLMeta, Tags, Metric, Meta, StackTrace
  <2> QED
    BY <1>1, <2>2, <2>3, DecodingMade
<1>9. CASE l = TTLEntry
  <2>1. PICK y : y = [x EXCEPT !.ttlEntry = U16At(b, s)]
    OBVIOUS
  <2>2. IsEntry(y)
    BY <1>2, <1>3, <2>1
  <2>3. DecodeSection(b, x, s, l) =
           IF s + 2 > Len(b) THEN Decoding(x, s, FALSE, FALSE) ELSE Decoding(y, s + 2, TRUE, FALSE)
    BY <1>9, <2>1 DEF DecodeSection, BucketId, EntryId, SeverityOf, Message, CategoryId, TTLEntry,
         TTLMeta, Tags, Metric, Meta, StackTrace
  <2> QED
    BY <1>1, <2>2, <2>3, DecodingMade
<1>10. CASE l = TTLMeta
  <2>1. PICK y : y = [x EXCEPT !.ttlMeta = U16At(b, s)]
    OBVIOUS
  <2>2. IsEntry(y)
    BY <1>2, <1>3, <2>1
  <2>3. DecodeSection(b, x, s, l) =
           IF s + 2 > Len(b) THEN Decoding(x, s, FALSE, TRUE) ELSE Decoding(y, s + 2, TRUE, FALSE)
    BY <1>10, <2>1 DEF DecodeSection, BucketId, EntryId, SeverityOf, Message, CategoryId, TTLEntry,
         TTLMeta, Tags, Metric, Meta, StackTrace
  <2> QED
    BY <1>1, <2>2, <2>3, DecodingMade
<1>11. /\ IsArray(x.tags, SizeOf("tags")) /\ IsArray(x.metrics, SizeOf("metrics"))
       /\ IsArray(x.meta, SizeOf("meta")) /\ IsArray(x.trace, SizeOf("trace"))
       /\ Arrays = {"tags", "metrics", "meta", "trace"}
       /\ CountedLevels = {Tags, Metric, Meta, StackTrace}
  BY SizesAre DEF IsEntry, Arrays, CountedLevels
<1>12. CASE l = Tags
  <2>1. PICK c : c = DecodeCounted(b, Tags, x.tags, s, MaxTagsCount)
    OBVIOUS
  <2>2. LoopIs(c, SizeOf("tags"))
    BY <1>11, <2>1, CountedKeepsLoop
  <2>3. DecodingIs(Collected(x, "tagsCount", At(b, s), "tags", c))
    BY <1>3, <1>11, <2>2, CollectedIs
  <2> QED
    BY <1>12, <2>1, <2>3, CountedCases
<1>13. CASE l = Metric
  <2>1. PICK c : c = DecodeCounted(b, Metric, x.metrics, s, MaxMetricCount)
    OBVIOUS
  <2>2. LoopIs(c, SizeOf("metrics"))
    BY <1>11, <2>1, CountedKeepsLoop
  <2>3. DecodingIs(Collected(x, "metricCount", At(b, s), "metrics", c))
    BY <1>3, <1>11, <2>2, CollectedIs
  <2> QED
    BY <1>13, <2>1, <2>3, CountedCases
<1>14. CASE l = Meta
  <2>1. PICK c : c = DecodeCounted(b, Meta, x.meta, s, MaxMetaCount)
    OBVIOUS
  <2>2. LoopIs(c, SizeOf("meta"))
    BY <1>11, <2>1, CountedKeepsLoop
  <2>3. DecodingIs(Collected(x, "metaCount", At(b, s), "meta", c))
    BY <1>3, <1>11, <2>2, CollectedIs
  <2> QED
    BY <1>14, <2>1, <2>3, CountedCases
<1>15. CASE l = StackTrace
  <2>1. PICK c : c = DecodeCounted(b, StackTrace, x.trace, s, MaxStackTraceCount)
    OBVIOUS
  <2>2. LoopIs(c, SizeOf("trace"))
    BY <1>11, <2>1, CountedKeepsLoop
  <2>3. DecodingIs(Collected(x, "stackTraceCount", At(b, s), "trace", c))
    BY <1>3, <1>11, <2>2, CollectedIs
  <2> QED
    BY <1>15, <2>1, <2>3, CountedCases
<1> QED
  BY <1>4, <1>5, <1>6, <1>7, <1>8, <1>9, <1>10, <1>12, <1>13, <1>14, <1>15, LevelsAre DEF PlainLevels

(* The states of the loop over the sections.                               *)
DecodesThrough(G, x, b) ==
    /\ G[0] = Decoding(x, 2, TRUE, FALSE) /\ G[11] = DecodeSections(x, b)
    /\ \A k \in 1..11 : G[k] = DecodeStep(b, G[k - 1], k - 1)

(* Decode goes through the sections,                                       *)
LEMMA DecodeFold ==
    ASSUME NEW x, NEW b
    PROVE  \E G : DecodesThrough(G, x, b)
<1> DEFINE is == [i \in 1..11 |-> i - 1]
           base == Decoding(x, 2, TRUE, FALSE)
<1>1. is \in Seq(Int) /\ Len(is) = 11 /\ \A k \in 1..11 : is[k] = k - 1
  OBVIOUS
<1>2. DecodeSections(x, b) = Decodes!Folded(b, base, is)
  BY DEF DecodeSections, Decodes!Folded, FoldLeft, MapThenFoldSet, Max, Decodes!Largest
<1> HIDE DEF is, base
<1>3. PICK G : Decodes!Through(G, b, base, is)
  BY <1>1, Decodes!FoldGoesThrough
<1>4. DecodesThrough(G, x, b)
  BY <1>1, <1>2, <1>3 DEF Decodes!Through, DecodesThrough, base
<1> QED
  BY <1>4

(* each of which starts inside the bytes,                                  *)
LEMMA StepIsDecoded ==
    ASSUME NEW b \in Text, NEW a, DecodingIs(a), a.go => a.s < Len(b), NEW l \in Levels
    PROVE  LET c == DecodeStep(b, a, l) IN DecodingIs(c) /\ (c.go => c.s < Len(b))
<1>1. CASE ~a.go
  BY <1>1 DEF DecodeStep
<1>2. CASE a.go
  <2> DEFINE y == [a.x EXCEPT !.level = l]
             c == DecodeSection(b, y, a.s, l)
             go == c.go /\ c.s < Len(b)
  <2>1. DecodeStep(b, a, l) = Decoding(c.x, c.s, go, c.panic)
    BY <1>2 DEF DecodeStep
  <2>2. IsEntry(y) /\ a.s \in Nat /\ a.s < Len(b)
    <3>1. "level" \in Fields \ Arrays
      BY DEF Fields, Arrays
    <3>2. IsEntry(a.x)
      BY DEF DecodingIs
    <3>3. IsEntry(y)
      BY <3>1, <3>2, FieldAssigned
    <3> QED
      BY <1>2, <3>3 DEF DecodingIs
  <2> HIDE DEF y
  <2>3. DecodingIs(c)
    BY <2>2, SectionIsDecoded
  <2> HIDE DEF c
  <2>4. IsEntry(c.x) /\ c.s \in Nat /\ c.panic \in BOOLEAN /\ go \in BOOLEAN
    BY <2>3 DEF DecodingIs
  <2>5. go => c.s < Len(b)
    OBVIOUS
  <2> HIDE DEF go
  <2> QED
    BY <2>1, <2>4, <2>5, DecodingMade, DecodingFields
<1>3. a.go \in BOOLEAN
  BY DEF DecodingIs
<1> QED
  BY <1>1, <1>2, <1>3

(* so that an entry comes out: by induction over the sections,             *)
LEMMA SectionsAreDecoded ==
    ASSUME NEW b \in Text, Len(b) >= 18, NEW x, IsEntry(x)
    PROVE  DecodingIs(DecodeSections(x, b))
<1>1. PICK G : DecodesThrough(G, x, b)
  BY DecodeFold
<1> DEFINE S == {k \in Nat : DecodingIs(G[k]) /\ (G[k].go => G[k].s < Len(b))}
<1>2. 0 \in S
  <2>1. 2 < Len(b)
    BY TextIs
  <2>2. DecodingIs(G[0])
    BY <1>1, DecodingMade DEF DecodesThrough
  <2>3. G[0].s = 2
    BY <1>1 DEF DecodesThrough, Decoding
  <2> QED
    BY <2>1, <2>2, <2>3
<1>3. ASSUME NEW k \in 1..11, k - 1 \in S PROVE k \in S
  <2>1. k \in Nat /\ k - 1 \in Levels
    BY DEF Levels
  <2>2. DecodingIs(G[k - 1]) /\ (G[k - 1].go => G[k - 1].s < Len(b))
    BY <1>3
  <2>3. G[k] = DecodeStep(b, G[k - 1], k - 1)
    BY <1>1 DEF DecodesThrough
  <2> QED
    BY <2>1, <2>2, <2>3, StepIsDecoded
<1>4. 11 \in S
  <2> HIDE DEF S
  <2>1. 11 \in Nat /\ 11 \in 0..11
    OBVIOUS
  <2>2. \A k \in 0..11 : k \in S
    BY <1>2, <1>3, <2>1, Decodes!BoundedInduction
  <2> QED
    BY <2>1, <2>2
<1> QED
  BY <1>1, <1>4 DEF DecodesThrough

(* of any bytes and whatever was left in the Entry from earlier ones.      *)
LEMMA DecodeIsEntry ==
    ASSUME NEW b \in Text, NEW x, IsEntry(x)
    PROVE  LET r == Decode(x, b)
           IN IsEntry(r.x) /\ r.err \in {"nil", "panic", "ErrTooShort", "ErrCorruptEntry"}
<1> DEFINE r == Decode(x, b)
           end == DecodeSections(Reset(x), b)
<1>1. IsEntry(Reset(x))
  BY ResetSets
<1>2. CASE Len(b) < 18
  BY <1>1, <1>2 DEF Decode
<1>3. CASE ~(Len(b) < 18) /\ U16At(b, 0) # Len(b)
  BY <1>1, <1>3 DEF Decode
<1>4. CASE ~(Len(b) < 18) /\ U16At(b, 0) = Len(b)
  <2>1. Len(b) >= 18
    BY <1>4, TextIs
  <2>2. DecodingIs(end)
    BY <1>1, <2>1, SectionsAreDecoded
  <2>3. /\ r.x = IF end.go THEN [end.x EXCEPT !.level = TTLMeta + 1] ELSE end.x
        /\ r.err = IF end.panic THEN "panic"
                   ELSE IF end.s # Len(b) THEN "ErrCorruptEntry" ELSE "nil"
    BY <1>4 DEF Decode
  <2> HIDE DEF r, end
  <2>4. "level" \in Fields \ Arrays
    BY DEF Fields, Arrays
  <2>5. IsEntry(end.x) /\ IsEntry([end.x EXCEPT !.level = TTLMeta + 1])
    BY <2>2, <2>4, FieldAssigned DEF DecodingIs
  <2> QED
    BY <2>3, <2>5 DEF r
<1> QED
  BY <1>2, <1>3, <1>4

(* A part of the bytes.                                                    *)
LEMMA SliceIs ==
    ASSUME NEW b \in Text, NEW from \in Nat, NEW to \in Nat, from <= to, to <= Len(b)
    PROVE  LET t == Slice(b, from, to)
           IN /\ t \in Text /\ Len(t) = to - from
              /\ \A i \in 1..Len(t) : t[i] = b[from + i]
<1> DEFINE m == to - from
           t == [i \in 1..m |-> b[from + i]]
<1>1. m \in Nat /\ Len(b) \in Nat
  BY TextIs
<1>2. \A i \in 1..m : from + i \in 1..Len(b) /\ b[from + i] \in Nat
  BY <1>1, TextIs
<1>3. SubSeq(b, from + 1, to) = t
  BY <1>1 DEF Text
<1>4. Slice(b, from, to) = t
  BY <1>3 DEF Slice
<1>5. t \in Text /\ Len(t) = m
  <2>1. t = [i \in 1..m |-> t[i]] /\ \A i \in 1..m : t[i] \in Nat
    BY <1>2
  <2> HIDE DEF m, t
  <2> QED
    BY <1>1, <2>1, ListOf DEF Text
<1> QED
  BY <1>4, <1>5

(* Encode writes the sections behind their size.                           *)
LEMMA EncodeIs ==
    ASSUME NEW x, Typed(x), Indexed(x), NEW H, EncodesThrough(H, x)
    PROVE  LET b == Encode(x)
               n == x.level + 1
           IN /\ b \in Text /\ Len(b) = Len(H[n]) /\ U16At(b, 0) = Len(b)
              /\ \A k \in 0..n : Continues(b, H[k])
<1> DEFINE b == Encode(x)
           n == x.level + 1
           body == H[n]
           rest == SubSeq(body, 3, Len(body))
           u == U16(Len(body))
<1>1. n \in Nat /\ n \in 0..n /\ \A k \in 0..n : Growing(H, k)
  <2>1. n \in Nat
    BY LevelsAre DEF Typed, Scalars
  <2> HIDE DEF n
  <2> QED
    BY <2>1, EncodeGrows DEF n
<1>2. body = EncodeSections(x) /\ b = u \o rest
  BY DEF Encode, EncodesThrough
<1>3. body \in Text /\ Len(body) >= 2 /\ Len(body) \in Nat
  BY <1>1, TextIs DEF Growing
<1> HIDE DEF n, body, b
<1>4. rest \in Text /\ Len(rest) = Len(body) - 2 /\ \A i \in 1..Len(rest) : rest[i] = body[2 + i]
  <2>1. rest = Slice(body, 2, Len(body))
    BY DEF Slice
  <2>2. 2 \in Nat /\ 2 <= Len(body) /\ Len(body) <= Len(body)
    BY <1>3
  <2> HIDE DEF rest
  <2> QED
    BY <1>3, <2>1, <2>2, SliceIs
<1>5. u \in Text /\ Len(u) = 2 /\ 256 * u[1] + u[2] = Len(body)
  BY <1>3, U16Is
<1> HIDE DEF rest, u
<1>6. /\ b \in Text /\ Len(b) = Len(u) + Len(rest)
      /\ \A i \in 1..Len(u) : b[i] = u[i]
      /\ \A i \in 1..Len(rest) : b[Len(u) + i] = rest[i]
  BY <1>2, <1>4, <1>5, Concatenated
<1>7. Len(b) = Len(body) /\ b[1] = u[1] /\ b[2] = u[2]
  BY <1>3, <1>4, <1>5, <1>6
<1>8. U16At(b, 0) = Len(b)
  <2>1. b[0 + 1] = u[1] /\ b[(0 + 1) + 1] = u[2]
    BY <1>7
  <2> QED
    BY <1>5, <1>7, <2>1 DEF U16At, At
<1>9. Continues(b, body)
  <2>1. ASSUME NEW i \in 3..Len(body) PROVE b[i] = body[i]
    <3>1. i - 2 \in 1..Len(rest) /\ 2 + (i - 2) = i
      BY <1>3, <1>4
    <3>2. b[2 + (i - 2)] = rest[i - 2] /\ rest[i - 2] = body[2 + (i - 2)]
      BY <1>4, <1>5, <1>6, <3>1
    <3> QED
      BY <3>1, <3>2
  <2> QED
    BY <1>3, <1>7, <2>1 DEF Continues
<1>10. ASSUME NEW k \in 0..n PROVE Continues(b, H[k])
  <2>1. H[k] \in Text /\ Continues(body, H[k])
    BY <1>1 DEF Growing, body
  <2> QED
    BY <1>3, <1>6, <1>9, <2>1, ContinuesOn
<1> QED
  BY <1>6, <1>7, <1>8, <1>10 DEF b, n, body

----------------------------------------------------------------------------
(* The inductive invariant.                                                *)

(* A message that leaves room for all tags and metrics (RoomAssumption).   *)
Fits(m) == 25 + Len(m) + MaxTagsCount * (MaxStr + 1) + MaxMetricCount * (MaxStr + 5) <= MaxEntrySize

(* The entry being built, the one last sent and the one it was read into   *)
(* are well formed, and all but metadata and stack trace fit into a slot.  *)
EntryInv ==
    /\ Typed(e) /\ Typed(last) /\ IsEntry(d) /\ LogTyped
    /\ held \in BOOLEAN /\ result \in Results /\ calls \in 0..MaxCalls
    /\ held => Fits(e.message)
    /\ result # "none" => Fits(last.message)

(* What the arguments of the methods are.                                  *)
LEMMA InputsAre ==
    /\ \A s \in Strings : s \in Text /\ Fits(s) /\ Cut(s) \in Text /\ Fits(Cut(s))
    /\ \A v \in Values : v \in Text
    /\ \A ts \in TagLists \cup {<<>>} : ts \in Seq(Strings)
    /\ Byte \in Nat /\ Word \in Nat /\ MaxCalls \in Nat
<1>1. ASSUME NEW s \in Strings PROVE s \in Text /\ Fits(s) /\ Cut(s) \in Text /\ Fits(Cut(s))
  <2>1. s \in Text /\ Fits(s)
    BY StringsAreText, RoomAssumption DEF Fits
  <2>2. Cut(s) \in Text /\ Len(Cut(s)) <= Len(s) /\ Len(Cut(s)) \in Nat /\ Len(s) \in Nat
    BY <2>1, CutIs, TextIs DEF Short
  <2> DEFINE N == MaxTagsCount * (MaxStr + 1)
             M == MaxMetricCount * (MaxStr + 5)
  <2>3. N \in Int /\ M \in Int
    BY LimitsAreNat
  <2>4. 25 + Len(s) + N + M <= MaxEntrySize
    BY <2>1 DEF Fits
  <2> HIDE DEF N, M
  <2>5. 25 + Len(Cut(s)) + N + M <= MaxEntrySize
    BY <2>2, <2>3, <2>4, LimitsAreNat
  <2> QED
    BY <2>1, <2>2, <2>5 DEF Fits, N, M
<1>2. \A ts \in TagLists \cup {<<>>} : ts \in Seq(Strings)
  <2>1. <<>> \in Seq(Strings)
    OBVIOUS
  <2>2. TagLists \subseteq Seq(Strings)
    BY LogEntryAssumption
  <2> QED
    BY <2>1, <2>2
<1>3. Byte \in Nat /\ Word \in Nat /\ MaxCalls \in Nat
  BY NumbersAssumption
<1> QED
  BY <1>1, <1>2, <1>3, StringsAreText

(* It holds at first.                                                      *)
LEMMA EntryInvInit == EntryInit => EntryInv
<1> SUFFICES ASSUME EntryInit PROVE EntryInv
  OBVIOUS
<1>1. Typed(e) /\ Typed(last) /\ IsEntry(d)
  BY FreshIsTyped, FreshIsEntry DEF EntryInit
<1>2. LogTyped
  <2>1. DOMAIN log = {"tags", "meta", "metrics", "categoryId", "ttlEntry", "ttlMeta"}
        /\ log = [f \in DOMAIN log |-> log[f]]
    BY DEF EntryInit
  <2>2. log.tags = <<>> /\ log.meta = <<>> /\ log.metrics = <<>> /\ log.categoryId = 0
        /\ log.ttlEntry = Word /\ log.ttlMeta = Word
    BY DEF EntryInit
  <2>3. log.tags \in Seq({Cut(s) : s \in Strings}) /\ Len(log.tags) <= MaxTagsCount
    BY <2>2, LimitsAreNat
  <2>4. log.meta \in Seq(Short \X Text) /\ log.metrics \in Seq(Short \X Nat)
    BY <2>2
  <2> QED
    BY <2>1, <2>2, <2>3, <2>4, InputsAre DEF LogTyped
<1>3. calls \in 0..MaxCalls
  BY InputsAre DEF EntryInit
<1>4. held = FALSE /\ result = "none"
  BY DEF EntryInit
<1>5. held \in BOOLEAN /\ result \in Results
  BY <1>4 DEF Results
<1> QED
  BY <1>1, <1>2, <1>3, <1>4, <1>5 DEF EntryInv

(* A call is counted.                                                      *)
LEMMA CallCounts ==
    ASSUME EntryInv, Call
    PROVE  calls' \in 0..MaxCalls /\ calls + 1 \in Nat
  BY InputsAre DEF EntryInv, Call

(* A change of the logger's settings.                                      *)
LEMMA SettingsInv ==
    ASSUME EntryInv, Call, UNCHANGED <<e, held, d, last, result>>, LogTyped'
    PROVE  EntryInv'
  BY CallCounts DEF EntryInv, Typed, Scalars, HasTags, HasMetrics, HasMeta, HasTrace,
     Holds, IsEntry, IsArray, Fits

(* The methods of a logger only change its settings.                       *)
LEMMA LoggerStepInv ==
    ASSUME EntryInv, LoggerStep
    PROVE  EntryInv'
<1>0. LogTyped
  BY DEF EntryInv
<1> DEFINE names == {"tags", "meta", "metrics", "categoryId", "ttlEntry", "ttlMeta"}
<1>1. ASSUME NEW f \in names, NEW v, LoggerSets([log EXCEPT ![f] = v]),
             f = "tags" => v \in Seq({Cut(s) : s \in Strings}) /\ Len(v) <= MaxTagsCount,
             f = "meta" => v \in Seq(Short \X Text),
             f = "metrics" => v \in Seq(Short \X Nat),
             f \in {"categoryId", "ttlEntry", "ttlMeta"} => v \in Nat
      PROVE  EntryInv'
  <2>1. log' = [log EXCEPT ![f] = v] /\ Call /\ UNCHANGED <<e, held, d, last, result>>
    BY <1>1 DEF LoggerSets
  <2>2. DOMAIN log = names /\ log = [g \in DOMAIN log |-> log[g]]
    BY <1>0 DEF LogTyped
  <2>3. /\ DOMAIN log' = names /\ log' = [g \in DOMAIN log' |-> log'[g]]
        /\ \A g \in names : log'[g] = IF g = f THEN v ELSE log[g]
    BY <2>1, <2>2
  <2>4. log'.tags \in Seq({Cut(s) : s \in Strings}) /\ Len(log'.tags) <= MaxTagsCount
    <3>1. CASE f = "tags"
      BY <1>1, <2>3, <3>1
    <3>2. CASE f # "tags"
      BY <1>0, <2>3, <3>2 DEF LogTyped
    <3> QED
      BY <3>1, <3>2
  <2>5. log'.meta \in Seq(Short \X Text)
    BY <1>0, <1>1, <2>3 DEF LogTyped
  <2>6. log'.metrics \in Seq(Short \X Nat)
    BY <1>0, <1>1, <2>3 DEF LogTyped
  <2>7. log'.categoryId \in Nat /\ log'.ttlEntry \in Nat /\ log'.ttlMeta \in Nat
    BY <1>0, <1>1, <2>3 DEF LogTyped
  <2>8. LogTyped'
    BY <2>3, <2>4, <2>5, <2>6, <2>7 DEF LogTyped
  <2> QED
    BY <2>1, <2>8, SettingsInv
<1>2. ASSUME NEW ts \in TagLists, LoggerTag(ts) PROVE EntryInv'
  <2>1. PICK kept \in Kept(ts) :
           LoggerSets([log EXCEPT !.tags = Truncated(log.tags \o CutAll(kept), MaxTagsCount)])
    BY <1>2 DEF LoggerTag
  <2> DEFINE U == {Cut(s) : s \in Strings}
             all == log.tags \o CutAll(kept)
             v == Truncated(all, MaxTagsCount)
  <2>2. ts \in Seq(Strings)
    BY InputsAre
  <2>3. kept \in Seq(Strings)
    BY <2>2, KeptIs
  <2>4. CutAll(kept) \in Seq(U) /\ log.tags \in Seq(U)
    BY <1>0, <2>3, CutAllIs DEF LogTyped
  <2> HIDE DEF U
  <2>5. all \in Seq(U)
    BY <2>4
  <2> HIDE DEF all
  <2>6. v \in Seq(U) /\ Len(v) = IF Len(all) < MaxTagsCount THEN Len(all) ELSE MaxTagsCount
    BY <2>5, TruncatedIs, LimitsAreNat
  <2>7. Len(all) \in Nat
    BY <2>5
  <2>8. Len(v) <= MaxTagsCount
    BY <2>6, <2>7, LimitsAreNat
  <2>9. LoggerSets([log EXCEPT !["tags"] = v])
    BY <2>1 DEF v, all
  <2> HIDE DEF v
  <2> QED
    BY <1>1, <2>6, <2>8, <2>9 DEF U
<1>3. ASSUME NEW key \in Strings, NEW value \in Values, LoggerMeta(key, value) PROVE EntryInv'
  <2> DEFINE item == <<Cut(key), value>>
             v == Append(log.meta, item)
  <2>1. item \in Short \X Text
    BY InputsAre, CutIs
  <2> HIDE DEF item
  <2>2. v \in Seq(Short \X Text)
    BY <1>0, <2>1 DEF LogTyped
  <2>3. LoggerSets([log EXCEPT !["meta"] = v])
    BY <1>3 DEF LoggerMeta, item
  <2> HIDE DEF v
  <2> QED
    BY <1>1, <2>2, <2>3
<1>4. ASSUME NEW key \in Strings, LoggerMetric(key, Word) PROVE EntryInv'
  <2> DEFINE item == <<Cut(key), Word>>
             v == Append(log.metrics, item)
  <2>1. item \in Short \X Nat
    BY InputsAre, CutIs
  <2> HIDE DEF item
  <2>2. v \in Seq(Short \X Nat)
    BY <1>0, <2>1 DEF LogTyped
  <2>3. LoggerSets([log EXCEPT !["metrics"] = v])
    BY <1>4 DEF LoggerMetric, item
  <2> HIDE DEF v
  <2> QED
    BY <1>1, <2>2, <2>3
<1>5. LoggerCat(Byte) => EntryInv'
  BY <1>1, InputsAre DEF LoggerCat
<1>6. LoggerTTL(Word) => EntryInv'
  BY <1>1, InputsAre DEF LoggerTTL
<1>7. LoggerMetaTTL(Word) => EntryInv'
  BY <1>1, InputsAre DEF LoggerMetaTTL
<1> QED
  BY <1>2, <1>3, <1>4, <1>5, <1>6, <1>7 DEF LoggerStep

(* A method of the entry that the caller has.                              *)
LEMMA ChangesInv ==
    ASSUME EntryInv, NEW x, Changes(x), Typed(x), Fits(x.message)
    PROVE  EntryInv'
<1>1. /\ e' = x /\ Call /\ log' = log /\ held' = held /\ d' = d /\ last' = last /\ result' = result
  BY DEF Changes
<1>2. calls' \in 0..MaxCalls
  BY <1>1, CallCounts
<1>3. /\ Typed(e') /\ Typed(last') /\ IsEntry(d') /\ Fits(e'.message)
      /\ result' # "none" => Fits(last'.message)
  BY <1>1 DEF EntryInv
<1>4. LogTyped'
  BY <1>1 DEF EntryInv, LogTyped
<1>5. held' \in BOOLEAN /\ result' \in Results
  BY <1>1 DEF EntryInv
<1> QED
  BY <1>2, <1>3, <1>4, <1>5 DEF EntryInv

(* Levels that methods raise to are levels.                                *)
LEMMA LevelsOf ==
    \A l \in {CategoryId, Tags, Metric, Meta, StackTrace, TTLEntry, TTLMeta} : l \in Message..TTLMeta
  BY DEF CategoryId, Tags, Metric, Meta, StackTrace, TTLEntry, TTLMeta, Message

(* Raising the level and setting a number,                                 *)
LEMMA RaisedTyped ==
    ASSUME NEW x, Typed(x), NEW l \in {CategoryId, Tags, Metric, Meta, StackTrace, TTLEntry, TTLMeta}
    PROVE  Typed(incLevel(x, l)) /\ incLevel(x, l).message = x.message
<1>1. l \in Message..TTLMeta
  BY LevelsOf
<1>2. "message" \in Fields /\ "message" # "level"
  BY DEF Fields
<1> QED
  BY <1>1, <1>2, LevelTyped

(* as Cat, TTL and MetaTTL do, keeps the entry well formed.                *)
LEMMA NumberTyped ==
    ASSUME NEW x, Typed(x), NEW v \in Nat,
           NEW f \in {"bucketId", "id", "severity", "categoryId", "ttlEntry", "ttlMeta"}
    PROVE  Typed([x EXCEPT ![f] = v]) /\ [x EXCEPT ![f] = v].message = x.message
<1>1. f # "message"
  OBVIOUS
<1>2. PICK y : y = [x EXCEPT ![f] = v]
  OBVIOUS
<1>3. Typed(y) /\ y.message = IF f = "message" THEN v ELSE x.message
  BY <1>2, AssignTyped
<1>4. y.message = x.message
  BY <1>1, <1>3
<1> QED
  BY <1>2, <1>3, <1>4

(* The methods of an entry keep the invariant.                             *)
LEMMA EntryStepInv ==
    ASSUME EntryInv, EntryStep
    PROVE  EntryInv'
<1>1. Typed(e)
  BY DEF EntryInv
<1>2. held /\ Fits(e.message)
  BY DEF EntryInv, EntryStep, Assigns, Cat, TTL, MetaTTL, Trace, Tag, PrependTag, AddMeta, AddMetric,
         ManualTrace, Changes
<1>3. ASSUME NEW m \in Strings, Assigns("message", m) PROVE EntryInv'
  <2>1. PICK x : x = [e EXCEPT !["message"] = m]
    OBVIOUS
  <2>2. Typed(x) /\ x.message = m /\ Fits(m)
    BY <1>1, <2>1, AssignTyped, InputsAre
  <2> QED
    BY <1>3, <2>1, <2>2, ChangesInv DEF Assigns
<1>4. ASSUME NEW f \in {"bucketId", "id", "severity"}, Assigns(f, Byte) PROVE EntryInv'
  <2>1. PICK x : x = [e EXCEPT ![f] = Byte]
    OBVIOUS
  <2>2. Typed(x) /\ x.message = e.message
    <3>1. Byte \in Nat
      BY InputsAre
    <3>2. f \in {"bucketId", "id", "severity", "categoryId", "ttlEntry", "ttlMeta"}
      OBVIOUS
    <3> QED
      BY <1>1, <2>1, <3>1, <3>2, NumberTyped
  <2> QED
    BY <1>2, <1>4, <2>1, <2>2, ChangesInv DEF Assigns
<1>5. ASSUME NEW l \in {CategoryId, TTLEntry, TTLMeta}, NEW f \in {"categoryId", "ttlEntry", "ttlMeta"},
             NEW v \in Nat, Changes([incLevel(e, l) EXCEPT ![f] = v])
      PROVE  EntryInv'
  <2>1. PICK y : y = incLevel(e, l)
    OBVIOUS
  <2>2. Typed(y) /\ y.message = e.message
    BY <1>1, <2>1, RaisedTyped
  <2>3. PICK x : x = [y EXCEPT ![f] = v]
    OBVIOUS
  <2>4. Typed(x) /\ x.message = y.message
    <3>1. f \in {"bucketId", "id", "severity", "categoryId", "ttlEntry", "ttlMeta"}
      OBVIOUS
    <3> QED
      BY <2>2, <2>3, <3>1, NumberTyped, Zenon
  <2> QED
    BY <1>2, <1>5, <2>1, <2>2, <2>3, <2>4, ChangesInv
<1>6. Cat(Byte) \/ TTL(Word) \/ MetaTTL(Word) => EntryInv'
  <2>1. Cat(Byte) => EntryInv'
    BY <1>5, InputsAre DEF Cat
  <2>2. TTL(Word) => EntryInv'
    BY <1>5, InputsAre DEF TTL
  <2>3. MetaTTL(Word) => EntryInv'
    BY <1>5, InputsAre DEF MetaTTL
  <2> QED
    BY <2>1, <2>2, <2>3
<1>7. ASSUME NEW frames, Trace(frames), frames = <<>> \/ \E p \in Strings : frames = <<<<p, Word>>>>
      PROVE  EntryInv'
  <2>1. frames = <<>> \/ \E p \in Text : frames = <<<<p, Word>>>>
    BY <1>7, StringsAreText
  <2>2. Typed(Traced(e, frames)) /\ Traced(e, frames).message = e.message
    BY <1>1, <2>1, TracedTyped
  <2> QED
    BY <1>2, <1>7, <2>2, ChangesInv DEF Trace
<1>8. ASSUME NEW ts \in TagLists, Tag(ts) \/ PrependTag(ts) PROVE EntryInv'
  <2>1. ts \in Seq(Strings)
    BY InputsAre
  <2>2. PICK kept \in Kept(ts) : Changes(AddTags(e, kept)) \/ Changes(Prepended(e, ts, kept))
    BY <1>8 DEF Tag, PrependTag
  <2>3. kept \in Seq(Strings)
    BY <2>1, KeptIs
  <2>4. /\ Typed(AddTags(e, kept)) /\ AddTags(e, kept).message = e.message
        /\ Typed(Prepended(e, ts, kept)) /\ Prepended(e, ts, kept).message = e.message
    BY <1>1, <2>1, <2>3, AddTagsTyped, PrependedTyped
  <2> QED
    BY <1>2, <2>2, <2>4, ChangesInv
<1>9. ASSUME NEW key \in Strings, NEW value \in Values, AddMeta(key, value) PROVE EntryInv'
  <2>1. PICK y : y = incLevel(e, Meta)
    OBVIOUS
  <2>2. Typed(y) /\ y.message = e.message
    BY <1>1, <2>1, RaisedTyped
  <2>3. PICK x : x = Put(y, "meta", "metaCount", MaxMetaCount, <<Cut(key), value>>)
    OBVIOUS
  <2>4. Typed(x) /\ x.message = y.message
    BY <2>2, <2>3, PutOneTyped, InputsAre
  <2>5. Changes(y) \/ Changes(x)
    BY <1>9, <2>1, <2>3 DEF AddMeta
  <2> QED
    BY <1>2, <2>2, <2>4, <2>5, ChangesInv
<1>10. ASSUME NEW key \in Strings, AddMetric(key, Word) PROVE EntryInv'
  <2>1. PICK y : y = incLevel(e, Metric)
    OBVIOUS
  <2>2. Typed(y) /\ y.message = e.message
    BY <1>1, <2>1, RaisedTyped
  <2>3. PICK x : x = Put(y, "metrics", "metricCount", MaxMetricCount, <<Cut(key), Word>>)
    OBVIOUS
  <2>4. Typed(x) /\ x.message = y.message
    BY <2>2, <2>3, PutOneTyped, InputsAre
  <2>5. Changes(y) \/ Changes(x)
    BY <1>10, <2>1, <2>3 DEF AddMetric
  <2> QED
    BY <1>2, <2>2, <2>4, <2>5, ChangesInv
<1>11. ASSUME NEW p \in Strings, ManualTrace(p, Word) PROVE EntryInv'
  <2>1. PICK y : y = incLevel(e, StackTrace)
    OBVIOUS
  <2>2. Typed(y) /\ y.message = e.message
    BY <1>1, <2>1, RaisedTyped
  <2>3. PICK x : x = Put(y, "trace", "stackTraceCount", MaxStackTraceCount, <<p, Word>>)
    OBVIOUS
  <2>4. Typed(x) /\ x.message = y.message
    BY <2>2, <2>3, PutOneTyped, InputsAre
  <2>5. Changes(x)
    BY <1>11, <2>1, <2>3 DEF ManualTrace
  <2> QED
    BY <1>2, <2>2, <2>4, <2>5, ChangesInv
<1> QED
  BY <1>3, <1>4, <1>6, <1>7, <1>8, <1>9, <1>10, <1>11 DEF EntryStep

(* An entry from the pool is well formed.                                  *)
LEMMA AcquiredTyped ==
    ASSUME EntryInv, NEW x \in Acquired
    PROVE  Typed(x)
  BY FreshIsTyped DEF EntryInv, Acquired

(* So does taking an entry from the pool for a message,                    *)
LEMMA LogInv ==
    ASSUME EntryInv, NEW severity \in Nat, NEW message \in Strings, NEW ts \in Seq(Strings),
           Log(severity, message, ts)
    PROVE  EntryInv'
<1>1. Call /\ held' = TRUE /\ log' = log /\ d' = d /\ last' = last /\ result' = result
  BY DEF Log
<1>2. PICK x \in Acquired :
          LET y == incLevel([x EXCEPT !.bucketId = Byte, !.id = calls + 1, !.severity = severity,
                                !.message = Cut(message), !.ttlEntry = log.ttlEntry,
                                !.ttlMeta = log.ttlMeta, !.categoryId = log.categoryId],
                            CategoryId)
          IN IF ts = <<>> THEN e' = y ELSE \E kept \in Kept(ts) : e' = AddTags(y, kept)
  BY DEF Log
<1>3. PICK x1 : x1 = [x EXCEPT !.bucketId = Byte]
  OBVIOUS
<1>4. PICK x2 : x2 = [x1 EXCEPT !.id = calls + 1]
  OBVIOUS
<1>5. PICK x3 : x3 = [x2 EXCEPT !.severity = severity]
  OBVIOUS
<1>6. PICK x4 : x4 = [x3 EXCEPT !.message = Cut(message)]
  OBVIOUS
<1>7. PICK x5 : x5 = [x4 EXCEPT !.ttlEntry = log.ttlEntry]
  OBVIOUS
<1>8. PICK x6 : x6 = [x5 EXCEPT !.ttlMeta = log.ttlMeta]
  OBVIOUS
<1>9. PICK x7 : x7 = [x6 EXCEPT !.categoryId = log.categoryId]
  OBVIOUS
<1>10. x7 = [x EXCEPT !.bucketId = Byte, !.id = calls + 1, !.severity = severity,
                      !.message = Cut(message), !.ttlEntry = log.ttlEntry,
                      !.ttlMeta = log.ttlMeta, !.categoryId = log.categoryId]
  BY <1>3, <1>4, <1>5, <1>6, <1>7, <1>8, <1>9
<1>11. calls + 1 \in Nat /\ log.ttlEntry \in Nat /\ log.ttlMeta \in Nat /\ log.categoryId \in Nat
  BY <1>1, CallCounts DEF EntryInv, LogTyped
<1>12. Typed(x7) /\ x7.message = Cut(message)
  <2>1. Typed(x)
    BY AcquiredTyped
  <2>2. Typed(x1)
    BY <1>3, <2>1, NumberTyped, InputsAre
  <2>3. Typed(x2)
    BY <1>4, <1>11, <2>2, NumberTyped
  <2>4. Typed(x3)
    BY <1>5, <2>3, NumberTyped
  <2>5. Typed(x4) /\ x4.message = Cut(message)
    BY <1>6, <2>4, AssignTyped, InputsAre
  <2>6. Typed(x5) /\ x5.message = x4.message
    BY <1>7, <1>11, <2>5, NumberTyped
  <2>7. Typed(x6) /\ x6.message = x5.message
    BY <1>8, <1>11, <2>6, NumberTyped
  <2>8. Typed(x7) /\ x7.message = x6.message
    BY <1>9, <1>11, <2>7, NumberTyped
  <2> QED
    BY <2>5, <2>6, <2>7, <2>8
<1>13. PICK y : y = incLevel(x7, CategoryId)
  OBVIOUS
<1>14. Typed(y) /\ y.message = Cut(message)
  BY <1>12, <1>13, RaisedTyped
<1>15. e' = y \/ \E kept \in Kept(ts) : e' = AddTags(y, kept)
  BY <1>2, <1>10, <1>13
<1>16. Typed(e') /\ e'.message = Cut(message)
  <2>1. ASSUME NEW kept \in Kept(ts)
        PROVE  Typed(AddTags(y, kept)) /\ AddTags(y, kept).message = Cut(message)
    <3>1. kept \in Seq(Strings)
      BY KeptIs
    <3> QED
      BY <1>14, <3>1, AddTagsTyped
  <2> QED
    BY <1>14, <1>15, <2>1
<1>17. Fits(e'.message)
  BY <1>16, InputsAre
<1>18. calls' \in 0..MaxCalls
  BY <1>1, CallCounts
<1>19. Typed(last') /\ IsEntry(d') /\ (result' # "none" => Fits(last'.message)) /\ result' \in Results
  BY <1>1 DEF EntryInv
<1>20. LogTyped'
  BY <1>1 DEF EntryInv, LogTyped
<1> QED
  BY <1>1, <1>16, <1>17, <1>18, <1>19, <1>20 DEF EntryInv

(* What arrives at the server.                                             *)
LEMMA ArrivesInv ==
    ASSUME EntryInv, NEW x, Typed(x), Fits(x.message), Arrives(x)
    PROVE  Typed(last') /\ Fits(last'.message) /\ IsEntry(d') /\ result' \in Results
<1>1. last' = x
  BY DEF Arrives
<1>2. IsEntry(d)
  BY DEF EntryInv
<1>3. CASE EncodePanics(x)
  BY <1>1, <1>2, <1>3 DEF Arrives, Results
<1>4. CASE ~EncodePanics(x)
  <2>1. PICK b : b = Encode(x)
    OBVIOUS
  <2>2. Indexed(x)
    <3>1. x.metricCount \in Nat /\ MaxStackTraceCount \in Nat
      BY LimitsAreNat DEF Typed, HasMetrics, Holds
    <3>2. ~(x.level >= Metric /\ x.metricCount > MaxStackTraceCount)
      BY <1>4 DEF EncodePanics
    <3> QED
      BY <3>1, <3>2 DEF Indexed
  <2>3. PICK H : EncodesThrough(H, x)
    BY EncodeFold
  <2>4. b \in Text
    BY <2>1, <2>2, <2>3, EncodeIs
  <2>5. PICK r : r = Decode(d, b)
    OBVIOUS
  <2>6. d' = r.x /\ result' = r.err
    BY <1>4, <2>1, <2>5 DEF Arrives
  <2>7. IsEntry(r.x) /\ r.err \in {"nil", "panic", "ErrTooShort", "ErrCorruptEntry"}
    BY <1>2, <2>4, <2>5, DecodeIsEntry
  <2> QED
    BY <1>1, <2>6, <2>7 DEF Results
<1> QED
  BY <1>3, <1>4

(* sending it, with what the logger adds,                                  *)
LEMMA SendInv ==
    ASSUME EntryInv, Send
    PROVE  EntryInv'
<1>1. PICK x : x = Appended(e)
  OBVIOUS
<1>2. held /\ Call /\ e' = x /\ Arrives(x) /\ log' = log /\ held' = held
  BY <1>1 DEF Send
<1>3. Typed(x) /\ x.message = e.message /\ Fits(x.message)
  BY <1>1, <1>2, AppendedTyped DEF EntryInv
<1>4. Typed(last') /\ Fits(last'.message) /\ IsEntry(d') /\ result' \in Results
  BY <1>2, <1>3, ArrivesInv
<1>5. LogTyped'
  BY <1>2 DEF EntryInv, LogTyped
<1>6. calls' \in 0..MaxCalls
  BY <1>2, CallCounts
<1>7. held' \in BOOLEAN
  BY <1>2 DEF EntryInv
<1> QED
  BY <1>2, <1>3, <1>4, <1>5, <1>6, <1>7 DEF EntryInv

(* sending an error that is no entry,                                      *)
LEMMA SendErrorInv ==
    ASSUME EntryInv, NEW message \in Strings, NEW ts \in TagLists, SendError(message, ts)
    PROVE  EntryInv'
<1>1. PICK x \in Acquired :
          /\ Arrives(ParsedError([x EXCEPT !.severity = 3], message, ts))
          /\ e' = IF held \/ x # e THEN e ELSE Fresh
  BY DEF SendError
<1>2. Call /\ log' = log /\ held' = held
  BY DEF SendError
<1>3. PICK y : y = [x EXCEPT !.severity = 3]
  OBVIOUS
<1>4. Typed(y)
  <2>1. Typed(x) /\ 3 \in Nat
    BY AcquiredTyped
  <2> QED
    BY <1>3, <2>1, AssignTyped
<1>5. PICK z : z = ParsedError(y, message, ts)
  OBVIOUS
<1>6. Typed(z) /\ z.message = Cut(message) /\ Fits(z.message)
  BY <1>4, <1>5, ParsedErrorTyped, InputsAre
<1>7. Typed(last') /\ Fits(last'.message) /\ IsEntry(d') /\ result' \in Results
  BY <1>1, <1>3, <1>5, <1>6, ArrivesInv
<1>8. Typed(e') /\ (held' => Fits(e'.message))
  BY <1>1, <1>2, FreshIsTyped DEF EntryInv
<1>9. LogTyped'
  BY <1>2 DEF EntryInv, LogTyped
<1>10. calls' \in 0..MaxCalls
  BY <1>2, CallCounts
<1>11. held' \in BOOLEAN
  BY <1>2 DEF EntryInv
<1> QED
  BY <1>7, <1>8, <1>9, <1>10, <1>11 DEF EntryInv

(* and putting the entry back.                                             *)
LEMMA DropInv ==
    ASSUME EntryInv, Drop
    PROVE  EntryInv'
<1>1. held' = FALSE /\ e' = Reset(e) /\ UNCHANGED <<log, d, last, result, calls>>
  BY DEF Drop
<1>2. Typed(e')
  BY <1>1, ResetTyped DEF EntryInv
<1>3. Typed(last') /\ IsEntry(d') /\ (result' # "none" => Fits(last'.message))
      /\ result' \in Results /\ calls' \in 0..MaxCalls
  BY <1>1 DEF EntryInv
<1>4. LogTyped'
  BY <1>1 DEF EntryInv, LogTyped
<1> QED
  BY <1>1, <1>2, <1>3, <1>4 DEF EntryInv

(* So every step keeps the invariant,                                      *)
LEMMA EntryInvNext == EntryInv /\ [EntryNext]_entryVars => EntryInv'
<1> SUFFICES ASSUME EntryInv, [EntryNext]_entryVars PROVE EntryInv'
  OBVIOUS
<1>1. ASSUME NEW m \in Strings, NEW ts \in TagLists \cup {<<>>}, Log(6, m, ts) PROVE EntryInv'
  <2>1. ts \in Seq(Strings) /\ 6 \in Nat
    BY InputsAre
  <2> QED
    BY <1>1, <2>1, LogInv
<1>2. ASSUME UNCHANGED entryVars PROVE EntryInv'
  <2>1. /\ e' = e /\ last' = last /\ d' = d /\ log' = log /\ held' = held /\ result' = result
        /\ calls' = calls
    BY <1>2 DEF entryVars
  <2> QED
    BY <2>1 DEF EntryInv, LogTyped
<1> QED
  BY <1>1, <1>2, LoggerStepInv, EntryStepInv, SendErrorInv, SendInv, DropInv DEF EntryNext

(* and it always holds.                                                    *)
LEMMA EntryInvHolds == EntrySpec => []EntryInv
<1> QED
  BY EntryInvInit, EntryInvNext, PTL DEF EntrySpec

(* The fields of the entry, of the one sent last and of the one the        *)
(* handler decodes into always have their types, and the arrays of all     *)
(* three their counts within the limits, for every size of the arrays, of  *)
(* the slot and of the strings.                                            *)
THEOREM EntryTypeOKHolds == EntrySpec => []EntryTypeOK
<1>1. EntryInv => EntryTypeOK
  BY TypedIsEntry, FreshIsEntry DEF EntryInv, EntryTypeOK, LogTyped, IsEntry
<1> QED
  BY <1>1, EntryInvHolds, PTL

(* t lists the first n of the items of a, then those of b.                 *)
Joined(t, a, b, n) ==
    LET m == IF Len(a) + Len(b) < n THEN Len(a) + Len(b) ELSE n
    IN  /\ t = [i \in 1..m |-> t[i]]
        /\ \A i \in 1..m : t[i] = IF i <= Len(a) THEN a[i] ELSE b[i - Len(a)]

(* Cutting two lists written one behind the other leaves just that.        *)
LEMMA JoinedIs ==
    ASSUME NEW T, NEW a \in Seq(T), NEW b \in Seq(T), NEW n \in Nat
    PROVE  Joined(Truncated(a \o b, n), a, b, n)
<1> DEFINE ab == a \o b
           t == Truncated(ab, n)
           m == IF Len(a) + Len(b) < n THEN Len(a) + Len(b) ELSE n
<1>1. Len(a) \in Nat /\ Len(b) \in Nat /\ m \in Nat
  OBVIOUS
<1>2. ab \in Seq(T) /\ Len(ab) = Len(a) + Len(b)
      /\ \A i \in 1..Len(ab) : ab[i] = IF i <= Len(a) THEN a[i] ELSE b[i - Len(a)]
  OBVIOUS
<1> HIDE DEF ab
<1>3. /\ t \in Seq(T) /\ Len(t) = IF Len(ab) < n THEN Len(ab) ELSE n
      /\ \A i \in 1..Len(t) : t[i] = ab[i]
  BY <1>2, TruncatedIs
<1>4. Len(t) = m
  BY <1>2, <1>3
<1> HIDE DEF t
<1>5. t = [i \in 1..m |-> t[i]]
  BY <1>3, <1>4
<1>6. \A i \in 1..m : t[i] = IF i <= Len(a) THEN a[i] ELSE b[i - Len(a)]
  <2>1. \A i \in 1..m : i \in 1..Len(ab)
    BY <1>1, <1>2
  <2> QED
    BY <1>2, <1>3, <1>4, <2>1
<1>7. Joined(t, a, b, n)
  BY <1>5, <1>6 DEF Joined
<1> QED
  BY <1>7 DEF t, ab

(* Lists with the same items are the same.                                 *)
LEMMA SameList ==
    ASSUME NEW n \in Nat, NEW s, NEW t, s = [i \in 1..n |-> s[i]], t = [i \in 1..n |-> t[i]],
           \A i \in 1..n : s[i] = t[i]
    PROVE  s = t
  OBVIOUS

(* Through Tag, from an empty list.                                        *)
LEMMA PrependsAll ==
    ASSUME NEW x, Typed(x), NEW ts \in Seq(Strings), x.tagsCount = 0 \/ Len(ts) >= MaxTagsCount
    PROVE  TagsOf(Prepended(x, ts, ts)) = Truncated(CutAll(ts) \o TagsOf(x), MaxTagsCount)
<1> DEFINE c == CutAll(ts)
           M == MaxTagsCount
           y == [x EXCEPT !.tagsCount = 0]
           z == incLevel(y, Tags)
           w == PutAll(z, "tags", "tagsCount", M, c)
           n == IF Len(c) < M THEN Len(c) ELSE M
           t == Truncated(c \o TagsOf(x), M)
<1>1. Prepended(x, ts, ts) = w
  BY DEF Prepended, AddTags
<1>2. c \in Seq(Short) /\ Len(c) = Len(ts) /\ Len(c) \in Nat /\ M \in Nat
  <2>1. c \in Seq(Short) /\ Len(c) = Len(ts)
    BY CutAllIs
  <2> QED
    BY <2>1, LimitsAreNat
<1>3. x = [f \in Fields |-> x[f]] /\ IsArray(x.tags, M) /\ "tags" \in Fields /\ "tagsCount" \in Fields
      /\ "tags" # "tagsCount"
  BY TypedIsEntry DEF IsEntry, Typed, Fields
<1>4. y = [f \in Fields |-> y[f]] /\ y.tags = x.tags /\ y.tagsCount = 0
  BY <1>3 DEF Fields
<1> HIDE DEF y
<1>5. z = [f \in Fields |-> z[f]] /\ z.tags = x.tags /\ z.tagsCount = 0
  BY <1>4 DEF incLevel, Fields
<1> HIDE DEF z, c
<1>6. Extended(w, z, "tags", "tagsCount", M, c, Len(c))
  <2>1. z["tagsCount"] \in 0..M /\ IsArray(z["tags"], M)
    BY <1>2, <1>3, <1>5
  <2> QED
    BY <1>2, <1>3, <1>5, <2>1, PutAllExtends
<1> HIDE DEF w
<1>7. w.tagsCount = n /\ n \in Nat
  BY <1>2, <1>5, <1>6 DEF Extended
<1>8. ASSUME NEW i \in 1..n PROVE TagsOf(w)[i] = c[i]
  <2>1. i - 1 \in 0..(M - 1) /\ ~(i - 1 < 0) /\ ~(i - 1 >= n) /\ (i - 1) - 0 + 1 = i
    BY <1>2
  <2>2. w.tags[i - 1] = IF i - 1 < 0 \/ i - 1 >= n THEN z.tags[i - 1] ELSE c[(i - 1) - 0 + 1]
    BY <1>5, <1>6, <1>7, <2>1 DEF Extended
  <2>3. TagsOf(w)[i] = w.tags[i - 1]
    BY <1>7 DEF TagsOf, InUse
  <2> QED
    BY <2>1, <2>2, <2>3
<1>9. TagsOf(w) = [i \in 1..n |-> TagsOf(w)[i]]
  BY <1>7 DEF TagsOf, InUse
<1>10. TagsOf(x) \in Seq(Short) /\ Len(TagsOf(x)) = x.tagsCount /\ x.tagsCount \in Nat
  BY TagPiecesAre
<1> DEFINE m == IF Len(c) + Len(TagsOf(x)) < M THEN Len(c) + Len(TagsOf(x)) ELSE M
<1>11. m = n
  BY <1>2, <1>10
<1>12. /\ t = [i \in 1..m |-> t[i]]
       /\ \A i \in 1..m : t[i] = IF i <= Len(c) THEN c[i] ELSE TagsOf(x)[i - Len(c)]
  <2>1. Joined(t, c, TagsOf(x), M)
    BY <1>2, <1>10, JoinedIs, Zenon
  <2> HIDE DEF t
  <2> QED
    BY <2>1 DEF Joined
<1> HIDE DEF t, m
<1>13. \A i \in 1..n : t[i] = c[i]
  <2>1. \A i \in 1..n : i <= Len(c)
    BY <1>2
  <2> QED
    BY <1>11, <1>12, <2>1
<1>14. t = [i \in 1..n |-> t[i]]
  BY <1>11, <1>12
<1> HIDE DEF n
<1>15. TagsOf(w) = t
  <2>1. \A i \in 1..n : TagsOf(w)[i] = t[i]
    BY <1>8, <1>13
  <2> QED
    BY <1>7, <1>9, <1>14, <2>1, SameList
<1> QED
  BY <1>1, <1>15 DEF t, c

(* By moving what is there.                                                *)
LEMMA PrependsMoved ==
    ASSUME NEW x, Typed(x), NEW ts \in Seq(Strings), ~(x.tagsCount = 0 \/ Len(ts) >= MaxTagsCount)
    PROVE  TagsOf(Prepended(x, ts, ts)) = Truncated(CutAll(ts) \o TagsOf(x), MaxTagsCount)
<1> DEFINE c == CutAll(ts)
           M == MaxTagsCount
           k == x.tagsCount
           y == incLevel(x, Tags)
           s == [i \in 0..(M - 1) |->
                   IF i < Len(ts) THEN Cut(ts[i + 1])
                   ELSE IF i >= Len(ts) /\ i < Len(ts) + k THEN x.tags[i - Len(ts)] ELSE x.tags[i]]
           n == IF k + Len(ts) < M THEN k + Len(ts) ELSE M
           w == [y EXCEPT !.tags = s, !.tagsCount = IF @ + Len(ts) < M THEN @ + Len(ts) ELSE M]
           t == Truncated(c \o TagsOf(x), M)
<1>1. Prepended(x, ts, ts) = w
  BY DEF Prepended
<1>2. c \in Seq(Short) /\ Len(c) = Len(ts) /\ Len(c) \in Nat /\ M \in Nat /\ Len(ts) < M
      /\ \A i \in 1..Len(c) : c[i] = Cut(ts[i])
  <2>1. c \in Seq(Short) /\ Len(c) = Len(ts)
    BY CutAllIs
  <2>2. \A i \in 1..Len(ts) : c[i] = Cut(ts[i])
    BY DEF CutAll
  <2> HIDE DEF c
  <2>3. Len(ts) \in Nat /\ M \in Nat
    BY LimitsAreNat
  <2>4. Len(ts) < M
    BY <2>3
  <2> QED
    BY <2>1, <2>2, <2>3, <2>4
<1>3. y = [f \in Fields |-> y[f]] /\ y.tagsCount = k
  BY DEF incLevel, Typed, Fields
<1>4. TagsOf(x) \in Seq(Short) /\ Len(TagsOf(x)) = k /\ k \in Nat
      /\ \A i \in 1..k : TagsOf(x)[i] = x.tags[i - 1]
  BY TagPiecesAre
<1> HIDE DEF y
<1>5. w.tags = s /\ w.tagsCount = n
  BY <1>3 DEF Fields
<1>6. n \in Nat /\ n <= M
  BY <1>2, <1>4
<1> HIDE DEF w, c
<1>7. TagsOf(w) = [i \in 1..n |-> TagsOf(w)[i]] /\ \A i \in 1..n : TagsOf(w)[i] = s[i - 1]
  BY <1>5 DEF TagsOf, InUse
<1> DEFINE m == IF Len(c) + Len(TagsOf(x)) < M THEN Len(c) + Len(TagsOf(x)) ELSE M
<1>8. m = n
  BY <1>2, <1>4
<1>9. /\ t = [i \in 1..m |-> t[i]]
      /\ \A i \in 1..m : t[i] = IF i <= Len(c) THEN c[i] ELSE TagsOf(x)[i - Len(c)]
  <2>1. c \in Seq(Short) /\ TagsOf(x) \in Seq(Short) /\ M \in Nat
    BY <1>2, <1>4
  <2> HIDE DEF s
  <2>2. Joined(t, c, TagsOf(x), M)
    BY <2>1, JoinedIs, Zenon
  <2> HIDE DEF t
  <2> QED
    BY <2>2 DEF Joined
<1> HIDE DEF t, m
<1>10. ASSUME NEW i \in 1..n PROVE s[i - 1] = t[i]
  <2>1. i - 1 \in 0..(M - 1) /\ i \in Nat
    BY <1>2, <1>6
  <2>2. t[i] = IF i <= Len(c) THEN c[i] ELSE TagsOf(x)[i - Len(c)]
    BY <1>8, <1>9
  <2>3. s[i - 1] = IF i - 1 < Len(ts) THEN Cut(ts[(i - 1) + 1])
                   ELSE IF i - 1 >= Len(ts) /\ i - 1 < Len(ts) + k THEN x.tags[(i - 1) - Len(ts)]
                   ELSE x.tags[i - 1]
    BY <2>1
  <2> HIDE DEF s
  <2>4. CASE i <= Len(c)
    <3>1. i - 1 < Len(ts) /\ (i - 1) + 1 = i /\ i \in 1..Len(c)
      BY <1>2, <2>1, <2>4
    <3> QED
      BY <1>2, <2>2, <2>3, <2>4, <3>1
  <2>5. CASE ~(i <= Len(c))
    <3>1. /\ ~(i - 1 < Len(ts)) /\ i - 1 >= Len(ts) /\ i - 1 < Len(ts) + k
          /\ i - Len(c) \in 1..k /\ (i - 1) - Len(ts) = (i - Len(c)) - 1
      BY <1>2, <1>4, <1>6, <2>1, <2>5
    <3>2. TagsOf(x)[i - Len(c)] = x.tags[(i - Len(c)) - 1]
      BY <1>4, <3>1
    <3> QED
      BY <2>2, <2>3, <2>5, <3>1, <3>2
  <2> QED
    BY <2>4, <2>5
<1>11. t = [i \in 1..n |-> t[i]]
  BY <1>8, <1>9
<1> HIDE DEF n, s
<1>12. TagsOf(w) = t
  <2>1. \A i \in 1..n : TagsOf(w)[i] = t[i]
    BY <1>7, <1>10
  <2> QED
    BY <1>6, <1>7, <1>11, <2>1, SameList
<1> QED
  BY <1>1, <1>12 DEF t, c

(* PrependTag gives the front of the new tags and the old ones, for every  *)
(* number of tags that an entry can hold and whatever is left in its       *)
(* array: shifting over the array's own end never reads what it wrote.     *)
THEOREM PrependsInOrderHolds == EntrySpec => []PrependsInOrder
<1>1. EntryInv => PrependsInOrder
  <2> SUFFICES ASSUME EntryInv, NEW ts \in TagLists
               PROVE  TagsOf(Prepended(e, ts, ts)) = Truncated(CutAll(ts) \o TagsOf(e), MaxTagsCount)
    BY DEF PrependsInOrder
  <2>1. Typed(e) /\ ts \in Seq(Strings)
    BY InputsAre DEF EntryInv
  <2> QED
    BY <2>1, PrependsAll, PrependsMoved
<1> QED
  BY <1>1, EntryInvHolds, PTL

----------------------------------------------------------------------------
(* What Decode reads where Encode wrote.                                   *)

(* A part of what stands in the bytes stands there too.                    *)
LEMMA HasWithin ==
    ASSUME NEW b \in Text, NEW s \in Nat, NEW piece \in Text, Has(b, s, piece),
           NEW o \in Nat, NEW sub \in Text, Has(piece, o, sub)
    PROVE  Has(b, s + o, sub)
<1>1. Len(b) \in Nat /\ Len(piece) \in Nat /\ Len(sub) \in Nat
  BY TextIs
<1>2. (s + o) + Len(sub) <= Len(b)
  BY <1>1 DEF Has
<1>3. ASSUME NEW m \in 1..Len(sub) PROVE b[(s + o) + m] = sub[m]
  <2>1. o + m \in 1..Len(piece) /\ s + (o + m) = (s + o) + m
    BY <1>1 DEF Has
  <2>2. b[s + (o + m)] = piece[o + m] /\ piece[o + m] = sub[m]
    BY <2>1 DEF Has
  <2> QED
    BY <2>1, <2>2
<1> QED
  BY <1>2, <1>3 DEF Has

(* Texts with the same bytes are the same.                                 *)
LEMMA SameText ==
    ASSUME NEW a \in Text, NEW b \in Text, Len(a) = Len(b), \A i \in 1..Len(b) : a[i] = b[i]
    PROVE  a = b
<1>1. Len(b) \in Nat /\ a = [i \in 1..Len(b) |-> a[i]]
  BY DEF Text
<1>2. b = [i \in 1..Len(b) |-> b[i]]
  BY DEF Text
<1> QED
  BY <1>1, <1>2, SameList

(* Cutting a piece out of where it stands gives the piece.                 *)
LEMMA SliceRead ==
    ASSUME NEW b \in Text, NEW s \in Nat, NEW piece \in Text, Has(b, s, piece)
    PROVE  Slice(b, s, s + Len(piece)) = piece
<1>1. PICK t : t = Slice(b, s, s + Len(piece))
  OBVIOUS
<1>2. Len(b) \in Nat /\ Len(piece) \in Nat /\ s + Len(piece) \in Nat /\ s <= s + Len(piece)
      /\ s + Len(piece) <= Len(b) /\ (s + Len(piece)) - s = Len(piece)
  BY TextIs DEF Has
<1>3. t \in Text /\ Len(t) = Len(piece) /\ \A i \in 1..Len(t) : t[i] = b[s + i]
  BY <1>1, <1>2, SliceIs
<1>4. \A i \in 1..Len(piece) : t[i] = piece[i]
  BY <1>3 DEF Has
<1>5. t = piece
  BY <1>2, <1>3, <1>4, SameText
<1> QED
  BY <1>1, <1>5

(* A length byte and a string are read as the string,                      *)
LEMMA KeyRead ==
    ASSUME NEW b \in Text, NEW s \in Nat, NEW key \in Short, Has(b, s, Str8(key))
    PROVE  /\ s < Len(b) /\ At(b, s) = Len(key) /\ Len(key) \in Nat /\ Len(b) \in Nat
           /\ s + 1 + Len(key) \in Nat /\ s + 1 + Len(key) <= Len(b)
           /\ Slice(b, s + 1, s + 1 + Len(key)) = key
<1>1. key \in Text /\ Len(key) <= MaxStr /\ Len(key) \in Nat /\ Len(b) \in Nat
  BY TextIs DEF Short
<1>2. PICK p : p = Str8(key)
  OBVIOUS
<1>3. p \in Text /\ Len(p) = Len(key) + 1 /\ p[1] = Len(key) /\ \A i \in 1..Len(key) : p[i + 1] = key[i]
  BY <1>1, <1>2, Str8Is
<1>4. s + Len(p) <= Len(b) /\ \A m \in 1..Len(p) : b[s + m] = p[m]
  BY <1>2 DEF Has
<1>5. s < Len(b) /\ s + 1 + Len(key) \in Nat /\ s + 1 + Len(key) <= Len(b)
  BY <1>1, <1>3, <1>4
<1>6. At(b, s) = Len(key)
  <2>1. 1 \in 1..Len(p)
    BY <1>1, <1>3
  <2> QED
    BY <1>3, <1>4, <2>1 DEF At
<1>7. Has(b, s + 1, key)
  <2>1. ASSUME NEW m \in 1..Len(key) PROVE b[(s + 1) + m] = key[m]
    <3>1. m + 1 \in 1..Len(p) /\ s + (m + 1) = (s + 1) + m
      BY <1>1, <1>3
    <3> QED
      BY <1>3, <1>4, <3>1
  <2>2. (s + 1) + Len(key) <= Len(b)
    BY <1>1, <1>5
  <2> QED
    BY <2>1, <2>2 DEF Has
<1>8. s + 1 \in Nat
  OBVIOUS
<1>9. Slice(b, s + 1, (s + 1) + Len(key)) = key
  BY <1>1, <1>7, <1>8, SliceRead
<1> QED
  BY <1>1, <1>5, <1>6, <1>9

(* two bytes as the number they were made of,                              *)
LEMMA U16Read ==
    ASSUME NEW b \in Text, NEW s \in Nat, NEW n \in Nat, Has(b, s, U16(n))
    PROVE  U16At(b, s) = n /\ s + 2 <= Len(b)
<1>1. PICK u : u = U16(n)
  OBVIOUS
<1>2. Len(u) = 2 /\ 256 * u[1] + u[2] = n
  BY <1>1, U16Is
<1>3. b[s + 1] = u[1] /\ b[s + 2] = u[2] /\ s + 2 <= Len(b)
  BY <1>1, <1>2 DEF Has
<1>4. (s + 1) + 1 = s + 2
  OBVIOUS
<1> QED
  BY <1>2, <1>3, <1>4 DEF U16At, At

(* and four.                                                               *)
LEMMA U32Read ==
    ASSUME NEW b \in Text, NEW s \in Nat, NEW n \in Nat, Has(b, s, U32(n))
    PROVE  U32At(b, s) = n /\ s + 4 <= Len(b)
<1>1. PICK u : u = U32(n)
  OBVIOUS
<1>2. PICK w : w = U16(n)
  OBVIOUS
<1>3. Len(u) = 4 /\ u[1] = 0 /\ u[2] = 0 /\ u[3] = w[1] /\ u[4] = w[2]
  BY <1>1, <1>2, U32Is
<1>4. 256 * w[1] + w[2] = n /\ w[1] \in Nat /\ w[2] \in Nat
  BY <1>2, U16Is
<1>5. b[s + 1] = 0 /\ b[s + 2] = 0 /\ b[s + 3] = w[1] /\ b[s + 4] = w[2] /\ s + 4 <= Len(b)
  BY <1>1, <1>3 DEF Has
<1>6. (s + 1) + 1 = s + 2 /\ (s + 2) + 1 = s + 3 /\ ((s + 2) + 1) + 1 = s + 4
  OBVIOUS
<1>7. U16At(b, s) = 0
  BY <1>5, <1>6 DEF U16At, At
<1>8. U16At(b, s + 2) = n
  BY <1>4, <1>5, <1>6 DEF U16At, At
<1>9. U32At(b, s) = n
  BY <1>7, <1>8 DEF U32At
<1> QED
  BY <1>5, <1>9

(* The item at s is val and ends at t.                                     *)
Stored(array, i, v) == [array EXCEPT ![i] = v]

Going(array, s) == Loop(array, s, TRUE)

(* Wherever in the array it goes, the item at s is val and ends at t.      *)
ItemRead(b, l, s, t, val) ==
    \A array, i : DecodeItem(b, l, Going(array, s), i) = Going(Stored(array, i, val), t)

(* What is left to do when the key is there.                               *)
BehindKey(b, l, array, i, key, q) ==
    CASE l = Tags       -> Going(Stored(array, i, key), q)
      [] l = Metric     -> Going(Stored(array, i, <<key, U32At(b, q)>>), q + 4)
      [] l = Meta       -> DecodeMetaValue(b, array, i, key, q)
      [] l = StackTrace -> Going(Stored(array, i, <<key, U16At(b, q)>>), q + 2)

(* Decode finds the key of an item, and what is behind it.                 *)
LEMMA ItemBehindKey ==
    ASSUME NEW b \in Text, NEW s \in Nat, NEW key \in Short, Has(b, s, Str8(key)), NEW l, NEW array, NEW i,
           NEW q, q = s + 1 + Len(key), ~(q + More(l) > Len(b))
    PROVE  DecodeItem(b, l, Going(array, s), i) = BehindKey(b, l, array, i, key, q)
<1>1. PICK a : a = Going(array, s)
  OBVIOUS
<1>2. a.array = array /\ a.s = s
  BY <1>1 DEF Going, Loop
<1>3. a.go
  BY <1>1 DEF Going, Loop
<1>4. s < Len(b) /\ At(b, s) = Len(key) /\ Len(b) \in Nat
  BY KeyRead
<1>5. Slice(b, s + 1, q) = key
  BY KeyRead
<1>6. ~(a.s >= Len(b))
  BY <1>2, <1>4
<1>7. a.s + 1 + At(b, a.s) = q /\ Slice(b, a.s + 1, a.s + 1 + At(b, a.s)) = key
  BY <1>2, <1>4, <1>5
<1>8. DecodeItem(b, l, a, i) =
        IF ~a.go THEN a
        ELSE IF a.s >= Len(b) THEN Loop(a.array, a.s, FALSE)
        ELSE IF (a.s + 1 + At(b, a.s)) + More(l) > Len(b) THEN Loop(a.array, a.s + 1, FALSE)
        ELSE BehindKey(b, l, a.array, i, Slice(b, a.s + 1, a.s + 1 + At(b, a.s)), a.s + 1 + At(b, a.s))
  BY DEF DecodeItem, BehindKey, Stored, Going
<1>9. DecodeItem(b, l, a, i) = BehindKey(b, l, a.array, i, key, q)
  BY <1>3, <1>6, <1>7, <1>8
<1> QED
  BY <1>1, <1>2, <1>9

(* A tag is read where it stands,                                          *)
LEMMA TagRead ==
    ASSUME NEW b \in Text, NEW s \in Nat, NEW key \in Short, Has(b, s, Str8(key))
    PROVE  ItemRead(b, Tags, s, s + (Len(key) + 1), key)
<1> SUFFICES ASSUME NEW array, NEW i
             PROVE  DecodeItem(b, Tags, Going(array, s), i) =
                       Going(Stored(array, i, key), s + (Len(key) + 1))
  BY DEF ItemRead
<1>1. More(Tags) = 0
  BY DEF More, Tags, Metric, Meta, StackTrace
<1>2. s + 1 + Len(key) \in Nat /\ s + 1 + Len(key) <= Len(b) /\ Len(key) \in Nat /\ Len(b) \in Nat
  BY KeyRead
<1>3. PICK q : q = s + 1 + Len(key)
  OBVIOUS
<1>4. ~(q + More(Tags) > Len(b)) /\ q = s + (Len(key) + 1)
  BY <1>1, <1>2, <1>3
<1>5. DecodeItem(b, Tags, Going(array, s), i) = BehindKey(b, Tags, array, i, key, q)
  BY <1>3, <1>4, ItemBehindKey
<1> QED
  BY <1>4, <1>5 DEF BehindKey, Tags, Metric, Meta, StackTrace

(* a metric,                                                               *)
LEMMA MetricRead ==
    ASSUME NEW b \in Text, NEW s \in Nat, NEW key \in Short, NEW v \in Nat,
           Has(b, s, Str8(key)), Has(b, s + (Len(key) + 1), U32(v))
    PROVE  ItemRead(b, Metric, s, s + (Len(key) + 5), <<key, v>>)
<1> SUFFICES ASSUME NEW array, NEW i
             PROVE  DecodeItem(b, Metric, Going(array, s), i) =
                       Going(Stored(array, i, <<key, v>>), s + (Len(key) + 5))
  BY DEF ItemRead
<1>1. More(Metric) = 4
  BY DEF More, Tags, Metric, Meta, StackTrace
<1>2. s + 1 + Len(key) \in Nat /\ Len(key) \in Nat /\ Len(b) \in Nat
  BY KeyRead
<1>3. PICK q : q = s + 1 + Len(key)
  OBVIOUS
<1>4. q \in Nat /\ q = s + (Len(key) + 1) /\ q + 4 = s + (Len(key) + 5)
  BY <1>2, <1>3
<1>5. U32At(b, q) = v /\ q + 4 <= Len(b)
  BY <1>4, U32Read
<1>6. ~(q + More(Metric) > Len(b))
  BY <1>1, <1>2, <1>4, <1>5
<1>7. DecodeItem(b, Metric, Going(array, s), i) = BehindKey(b, Metric, array, i, key, q)
  BY <1>3, <1>6, ItemBehindKey
<1>8. DecodeItem(b, Metric, Going(array, s), i) =
         Going(Stored(array, i, <<key, U32At(b, q)>>), q + 4)
  BY <1>7 DEF BehindKey, Tags, Metric, Meta, StackTrace
<1> QED
  BY <1>4, <1>5, <1>8

(* a frame,                                                                *)
LEMMA FrameRead ==
    ASSUME NEW b \in Text, NEW s \in Nat, NEW key \in Short, NEW v \in Nat,
           Has(b, s, Str8(key)), Has(b, s + (Len(key) + 1), U16(v))
    PROVE  ItemRead(b, StackTrace, s, s + (Len(key) + 3), <<key, v>>)
<1> SUFFICES ASSUME NEW array, NEW i
             PROVE  DecodeItem(b, StackTrace, Going(array, s), i) =
                       Going(Stored(array, i, <<key, v>>), s + (Len(key) + 3))
  BY DEF ItemRead
<1>1. More(StackTrace) = 2
  BY DEF More, Tags, Metric, Meta, StackTrace
<1>2. s + 1 + Len(key) \in Nat /\ Len(key) \in Nat /\ Len(b) \in Nat
  BY KeyRead
<1>3. PICK q : q = s + 1 + Len(key)
  OBVIOUS
<1>4. q \in Nat /\ q = s + (Len(key) + 1) /\ q + 2 = s + (Len(key) + 3)
  BY <1>2, <1>3
<1>5. U16At(b, q) = v /\ q + 2 <= Len(b)
  BY <1>4, U16Read
<1>6. ~(q + More(StackTrace) > Len(b))
  BY <1>1, <1>2, <1>4, <1>5
<1>7. DecodeItem(b, StackTrace, Going(array, s), i) = BehindKey(b, StackTrace, array, i, key, q)
  BY <1>3, <1>6, ItemBehindKey
<1>8. DecodeItem(b, StackTrace, Going(array, s), i) =
         Going(Stored(array, i, <<key, U16At(b, q)>>), q + 2)
  BY <1>7 DEF BehindKey, Tags, Metric, Meta, StackTrace
<1> QED
  BY <1>4, <1>5, <1>8

(* and an item of metadata, if a byte follows the length of its value      *)
(* (entry.go:443).                                                         *)
LEMMA MetaRead ==
    ASSUME NEW b \in Text, NEW s \in Nat, NEW key \in Short, NEW v \in Text,
           Has(b, s, Str8(key)), Has(b, s + (Len(key) + 1), U16(Len(v))), Has(b, s + (Len(key) + 3), v),
           s + (Len(key) + 3) < Len(b)
    PROVE  ItemRead(b, Meta, s, s + (Len(key) + Len(v) + 3), <<key, v>>)
<1> SUFFICES ASSUME NEW array, NEW i
             PROVE  DecodeItem(b, Meta, Going(array, s), i) =
                       Going(Stored(array, i, <<key, v>>), s + (Len(key) + Len(v) + 3))
  BY DEF ItemRead
<1>1. More(Meta) = 3
  BY DEF More, Tags, Metric, Meta, StackTrace
<1>2. s + 1 + Len(key) \in Nat /\ Len(key) \in Nat /\ Len(b) \in Nat /\ Len(v) \in Nat
  BY KeyRead, TextIs
<1>3. PICK q : q = s + 1 + Len(key)
  OBVIOUS
<1>4. q \in Nat /\ q = s + (Len(key) + 1) /\ q + 2 = s + (Len(key) + 3) /\ q + 2 \in Nat
      /\ q + 2 + Len(v) = s + (Len(key) + Len(v) + 3)
  BY <1>2, <1>3
<1>5. U16At(b, q) = Len(v)
  BY <1>2, <1>4, U16Read
<1>6. ~(q + More(Meta) > Len(b))
  BY <1>1, <1>2, <1>4
<1>7. DecodeItem(b, Meta, Going(array, s), i) = BehindKey(b, Meta, array, i, key, q)
  BY <1>3, <1>6, ItemBehindKey
<1>8. DecodeItem(b, Meta, Going(array, s), i) = DecodeMetaValue(b, array, i, key, q)
  BY <1>7 DEF BehindKey, Tags, Metric, Meta, StackTrace
<1>9. Has(b, q + 2, v) /\ Slice(b, q + 2, q + 2 + Len(v)) = v
  BY <1>4, SliceRead
<1>10. PICK end : end = q + 2 + Len(v)
  OBVIOUS
<1>11. ~(end > Len(b))
  BY <1>2, <1>4, <1>9, <1>10 DEF Has
<1>12. DecodeMetaValue(b, array, i, key, q) =
          Going(Stored(array, i, <<key, Slice(b, q + 2, end)>>), end)
  BY <1>5, <1>10, <1>11 DEF DecodeMetaValue, Stored, Going
<1> QED
  BY <1>4, <1>8, <1>9, <1>10, <1>12

(* A loop that has read n items, up to t, and goes on.                     *)
ListRead(g, size, n, t, vals) ==
    \E A : g = Going(A, t) /\ IsArray(A, size) /\ \A i \in 0..(n - 1) : A[i] = vals[i]

(* Items that stand one behind the other are all read: by induction over   *)
(* them.                                                                   *)
LEMMA ItemsRead ==
    ASSUME NEW b, NEW l, NEW size \in Nat, NEW array, IsArray(array, size), NEW n \in 0..size,
           NEW P, NEW vals, \A j \in 1..n : ItemRead(b, l, P[j - 1], P[j], vals[j - 1])
    PROVE  ListRead(DecodeItems(b, l, array, P[0], n), size, n, P[n], vals)
<1>1. PICK G : ReadsThrough(G, b, l, array, P[0], n)
  BY ItemsFold
<1>2. /\ G[0] = Going(array, P[0]) /\ G[n] = DecodeItems(b, l, array, P[0], n)
      /\ \A k \in 1..n : G[k] = DecodeItem(b, l, G[k - 1], k - 1)
  BY <1>1 DEF ReadsThrough, Going
<1> DEFINE S == {k \in Nat : ListRead(G[k], size, k, P[k], vals)}
<1>3. 0 \in S
  <2>1. \A i \in 0..(0 - 1) : array[i] = vals[i]
    OBVIOUS
  <2>2. ListRead(G[0], size, 0, P[0], vals)
    BY <1>2, <2>1 DEF ListRead
  <2> QED
    BY <2>2
<1>4. ASSUME NEW k \in 1..n, k - 1 \in S PROVE k \in S
  <2>1. ListRead(G[k - 1], size, k - 1, P[k - 1], vals)
    BY <1>4
  <2>2. PICK A : G[k - 1] = Going(A, P[k - 1]) /\ IsArray(A, size)
                 /\ \A i \in 0..((k - 1) - 1) : A[i] = vals[i]
    BY <2>1 DEF ListRead
  <2>3. PICK B : B = Stored(A, k - 1, vals[k - 1])
    OBVIOUS
  <2>4. G[k] = Going(B, P[k])
    BY <1>2, <2>2, <2>3 DEF ItemRead
  <2>5. k - 1 \in 0..(size - 1) /\ k \in Nat
    OBVIOUS
  <2>6. IsArray(B, size) /\ B[k - 1] = vals[k - 1] /\ \A i \in 0..(size - 1) : i # k - 1 => B[i] = A[i]
    BY <2>2, <2>3, <2>5 DEF Stored, IsArray
  <2>7. ASSUME NEW i \in 0..(k - 1) PROVE B[i] = vals[i]
    <3>1. CASE i = k - 1
      BY <2>6, <3>1
    <3>2. CASE i # k - 1
      <4>1. i \in 0..((k - 1) - 1) /\ i \in 0..(size - 1)
        BY <2>5, <3>2
      <4> QED
        BY <2>2, <2>6, <3>2, <4>1
    <3> QED
      BY <3>1, <3>2
  <2>8. ListRead(G[k], size, k, P[k], vals)
    BY <2>4, <2>6, <2>7 DEF ListRead
  <2> QED
    BY <2>5, <2>8
<1>5. n \in S
  <2> HIDE DEF S
  <2>1. n \in Nat
    OBVIOUS
  <2>2. \A k \in 0..n : k \in S
    BY <1>3, <1>4, <2>1, Reading!BoundedInduction
  <2> QED
    BY <2>1, <2>2
<1> QED
  BY <1>2, <1>5

(* A counted section is read up to its end.                                *)
LEMMA CountedRead ==
    ASSUME NEW a \in Text, Len(a) >= 2, NEW c \in Text, NEW b \in Text, Continues(b, c), Len(a) < Len(c),
           NEW pieces, NEW limit \in Nat, NEW n \in 0..limit, CountedSection(c, a, pieces, n),
           \A j \in 1..n : pieces[j] \in Text,
           NEW l, NEW vals,
           \A j \in 1..n, s \in Nat :
              Has(b, s, pieces[j]) /\ s + Len(pieces[j]) <= Len(c) =>
                 ItemRead(b, l, s, s + Len(pieces[j]), vals[j - 1]),
           NEW array, IsArray(array, limit)
    PROVE  /\ At(b, Len(a)) = n
           /\ ListRead(DecodeCounted(b, l, array, Len(a), limit), limit, n, Len(c), vals)
<1>1. Len(a) \in Nat /\ Len(c) \in Nat /\ Len(b) \in Nat /\ n \in Nat
  BY TextIs
<1>2. c[Len(a) + 1] = n /\ Filled(c, Len(a) + 1, pieces, n)
  BY DEF CountedSection
<1>3. At(b, Len(a)) = n
  <2>1. Len(a) + 1 \in 3..Len(c)
    BY <1>1
  <2> QED
    BY <1>2, <2>1 DEF Continues, At
<1>4. PICK P : LaidOut(P, c, Len(a) + 1, pieces, n) /\ P[n] = Len(c)
  BY <1>2 DEF Filled
<1>5. \A j \in 0..n : P[j] >= Len(a) + 1
  <2>1. Len(a) + 1 \in Nat
    BY <1>1
  <2> QED
    BY <1>1, <1>4, <2>1, LaidOutFrom
<1>6. ASSUME NEW j \in 1..n PROVE ItemRead(b, l, P[j - 1], P[j], vals[j - 1])
  <2>1. j - 1 \in 0..n
    BY <1>1
  <2>2. P[j - 1] \in Nat /\ P[j] = P[j - 1] + Len(pieces[j]) /\ Has(c, P[j - 1], pieces[j])
    BY <1>4, <2>1 DEF LaidOut
  <2>3. P[j - 1] >= 2
    BY <1>1, <1>5, <2>1, <2>2
  <2>4. Has(b, P[j - 1], pieces[j])
    BY <2>2, <2>3, HasContinued
  <2>5. P[j - 1] + Len(pieces[j]) <= Len(c)
    BY <2>2 DEF Has
  <2> QED
    BY <2>2, <2>4, <2>5
<1>7. ListRead(DecodeItems(b, l, array, P[0], n), limit, n, P[n], vals)
  BY <1>6, ItemsRead
<1>8. P[0] = Len(a) + 1
  BY <1>4 DEF LaidOut
<1>9. ~(n > limit)
  OBVIOUS
<1>10. DecodeCounted(b, l, array, Len(a), limit) = DecodeItems(b, l, array, Len(a) + 1, n)
  BY <1>3, <1>9 DEF DecodeCounted
<1> QED
  BY <1>3, <1>4, <1>7, <1>8, <1>10

(* Two entries with the same n items in an array.                          *)
Same(y, x, array, count, n) == y[count] = n /\ \A i \in 0..(n - 1) : y[array][i] = x[array][i]

(* The items of metadata and stack trace that fit behind a.                *)
MetaFit(x, a)   == PutItems(a, MetaItems(x)).n
FramesFit(x, a) == PutItems(a, FrameItems(x)).n

(* The section that was written behind a is the same in y as in x.         *)
SectionRead(y, x, a, l) ==
    /\ l = BucketId   => y.bucketId = x.bucketId
    /\ l = EntryId    => y.id = x.id
    /\ l = SeverityOf => y.severity = x.severity
    /\ l = Message    => y.message = x.message
    /\ l = CategoryId => y.categoryId = x.categoryId
    /\ l = Tags       => Same(y, x, "tags", "tagsCount", x.tagsCount)
    /\ l = Metric     => Same(y, x, "metrics", "metricCount", x.metricCount)
    /\ l = Meta       => Same(y, x, "meta", "metaCount", MetaFit(x, a))
    /\ l = StackTrace => Same(y, x, "trace", "stackTraceCount", FramesFit(x, a))
    /\ l = TTLEntry   => y.ttlEntry = x.ttlEntry
    /\ l = TTLMeta    => y.ttlMeta = x.ttlMeta

(* What Reset leaves in the fields of a section that is not there.         *)
SectionEmpty(y, l) ==
    /\ l = Tags       => y.tagsCount = 0
    /\ l = Metric     => y.metricCount = 0
    /\ l = Meta       => y.metaCount = 0
    /\ l = StackTrace => y.stackTraceCount = 0
    /\ l = TTLEntry   => y.ttlEntry = 0
    /\ l = TTLMeta    => y.ttlMeta = 0

(* The fields a section sets.                                              *)
Own(l) ==
    CASE l = BucketId   -> {"bucketId"}
      [] l = EntryId    -> {"id"}
      [] l = SeverityOf -> {"severity"}
      [] l = Message    -> {"message"}
      [] l = CategoryId -> {"categoryId"}
      [] l = Tags       -> {"tags", "tagsCount"}
      [] l = Metric     -> {"metrics", "metricCount"}
      [] l = Meta       -> {"meta", "metaCount"}
      [] l = StackTrace -> {"trace", "stackTraceCount"}
      [] l = TTLEntry   -> {"ttlEntry"}
      [] l = TTLMeta    -> {"ttlMeta"}

(* The fields of each section.                                             *)
LEMMA OwnFields ==
    /\ Own(BucketId) = {"bucketId"} /\ Own(EntryId) = {"id"} /\ Own(SeverityOf) = {"severity"}
    /\ Own(Message) = {"message"} /\ Own(CategoryId) = {"categoryId"}
    /\ Own(Tags) = {"tags", "tagsCount"} /\ Own(Metric) = {"metrics", "metricCount"}
    /\ Own(Meta) = {"meta", "metaCount"} /\ Own(StackTrace) = {"trace", "stackTraceCount"}
    /\ Own(TTLEntry) = {"ttlEntry"} /\ Own(TTLMeta) = {"ttlMeta"}
<1> USE DEF BucketId, EntryId, SeverityOf, Message, CategoryId, TTLEntry, TTLMeta,
            Tags, Metric, Meta, StackTrace
<1>1. Own(BucketId) = {"bucketId"} /\ Own(EntryId) = {"id"} /\ Own(SeverityOf) = {"severity"}
      /\ Own(Message) = {"message"} /\ Own(CategoryId) = {"categoryId"}
  BY DEF Own
<1>2. Own(Tags) = {"tags", "tagsCount"} /\ Own(Metric) = {"metrics", "metricCount"}
  BY DEF Own
<1>3. Own(Meta) = {"meta", "metaCount"} /\ Own(StackTrace) = {"trace", "stackTraceCount"}
  BY DEF Own
<1>4. Own(TTLEntry) = {"ttlEntry"} /\ Own(TTLMeta) = {"ttlMeta"}
  BY DEF Own
<1> QED
  BY <1>1, <1>2, <1>3, <1>4

(* What is known of a section depends on its own fields only,              *)
LEMMA SectionsStay ==
    ASSUME NEW y, NEW z, NEW l \in Levels, \A f \in Own(l) : z[f] = y[f]
    PROVE  /\ \A x, a : SectionRead(y, x, a, l) => SectionRead(z, x, a, l)
           /\ SectionEmpty(y, l) => SectionEmpty(z, l)
<1> USE DEF SectionRead, SectionEmpty, Same, BucketId, EntryId, SeverityOf, Message, CategoryId,
            TTLEntry, TTLMeta, Tags, Metric, Meta, StackTrace
<1>1. CASE l = BucketId
  BY <1>1, OwnFields
<1>2. CASE l = EntryId
  BY <1>2, OwnFields
<1>3. CASE l = SeverityOf
  BY <1>3, OwnFields
<1>4. CASE l = Message
  BY <1>4, OwnFields
<1>5. CASE l = CategoryId
  BY <1>5, OwnFields
<1>6. CASE l = Tags
  BY <1>6, OwnFields
<1>7. CASE l = Metric
  BY <1>7, OwnFields
<1>8. CASE l = Meta
  BY <1>8, OwnFields
<1>9. CASE l = StackTrace
  BY <1>9, OwnFields
<1>10. CASE l = TTLEntry
  BY <1>10, OwnFields
<1>11. CASE l = TTLMeta
  BY <1>11, OwnFields
<1> QED
  BY <1>1, <1>2, <1>3, <1>4, <1>5, <1>6, <1>7, <1>8, <1>9, <1>10, <1>11, LevelsAre DEF PlainLevels

(* which no other section has.                                             *)
LEMMA OwnApart ==
    ASSUME NEW l \in Levels, NEW m \in Levels, l # m
    PROVE  /\ Own(l) \cap Own(m) = {} /\ "level" \notin Own(l) /\ Own(l) \subseteq Fields
  BY OwnFields DEF Levels, Fields, BucketId, EntryId, SeverityOf, Message, CategoryId, TTLEntry, TTLMeta,
            Tags, Metric, Meta, StackTrace

(* r is what DecodeSection makes of y where the section l stands in the    *)
(* bytes, from the end of a to the end of c.                               *)
SectionDone(r, y, x, a, c, l) ==
    /\ IsEntry(r.x) /\ r.s = Len(c) /\ r.go \in BOOLEAN /\ r.go /\ r.panic \in BOOLEAN /\ ~r.panic
    /\ SectionRead(r.x, x, a, l)
    /\ \A f \in Fields : f \notin Own(l) => r.x[f] = y[f]

Advanced(z, t) == Decoding(z, t, TRUE, FALSE)

(* A section whose fields are set and that ends where it was written is    *)
(* done.                                                                   *)
LEMMA AdvancedDone ==
    ASSUME NEW z, IsEntry(z), NEW x, NEW y, NEW a, NEW c, NEW l, SectionRead(z, x, a, l),
           \A f \in Fields : f \notin Own(l) => z[f] = y[f]
    PROVE  SectionDone(Advanced(z, Len(c)), y, x, a, c, l)
<1>1. PICK r : r = Advanced(z, Len(c))
  OBVIOUS
<1>2. r.x = z /\ r.s = Len(c)
  BY <1>1 DEF Advanced, Decoding
<1>3. r.go \in BOOLEAN /\ r.go
  BY <1>1 DEF Advanced, Decoding
<1>4. r.panic \in BOOLEAN /\ ~r.panic
  BY <1>1 DEF Advanced, Decoding
<1>5. SectionDone(r, y, x, a, c, l)
  BY <1>2, <1>3, <1>4 DEF SectionDone
<1> QED
  BY <1>1, <1>5

(* A section that is one piece stands behind what was written before it.   *)
LEMMA PieceThere ==
    ASSUME NEW x, Typed(x), NEW a \in Text, Len(a) >= 2, NEW c \in Text, NEW b \in Text,
           Continues(b, c), NEW l \in PlainLevels, c = EncodeSection(x, a, l)
    PROVE  Has(b, Len(a), Piece(x, l)) /\ Len(c) = Len(a) + Len(Piece(x, l)) /\ Len(a) \in Nat
<1>1. PICK p : p = Piece(x, l)
  OBVIOUS
<1>2. p \in Text /\ Len(p) > 0 /\ c = a \o p
  BY <1>1, PlainSection
<1>3. Has(c, Len(a), p) /\ Len(c) = Len(a) + Len(p)
  BY <1>2, GrownBy
<1>4. Len(a) \in Nat
  BY TextIs
<1>5. Has(b, Len(a), p)
  BY <1>2, <1>3, <1>4, HasContinued
<1> QED
  BY <1>1, <1>3, <1>4, <1>5

(* The sections that are one piece are.                                    *)
LEMMA PlainDone ==
    ASSUME NEW x, Typed(x), Len(x.message) <= MaxStr, NEW a \in Text, Len(a) >= 2, NEW c \in Text,
           NEW b \in Text, Continues(b, c), NEW l \in PlainLevels, c = EncodeSection(x, a, l),
           NEW y, IsEntry(y)
    PROVE  SectionDone(DecodeSection(b, y, Len(a), l), y, x, a, c, l)
<1>1. PICK s \in Nat : s = Len(a)
  BY TextIs
<1>2. Has(b, s, Piece(x, l)) /\ Len(c) = s + Len(Piece(x, l))
  BY <1>1, PieceThere
<1>3. /\ x.bucketId \in Nat /\ x.id \in Nat /\ x.severity \in Nat /\ x.message \in Text
      /\ x.categoryId \in Nat /\ x.ttlEntry \in Nat /\ x.ttlMeta \in Nat
  BY DEF Typed, Scalars
<1>4. ASSUME NEW f \in Fields \ Arrays, NEW v
      PROVE  IsEntry([y EXCEPT ![f] = v])
  BY FieldAssigned
<1>5. \A f \in {"bucketId", "id", "severity", "message", "categoryId", "ttlEntry", "ttlMeta"} :
         f \in Fields \ Arrays
  BY DEF Fields, Arrays
<1>6. CASE l = BucketId
  <2>1. U32At(b, s) = x.bucketId /\ Len(c) = s + 4
    <3>1. Has(b, s, U32(x.bucketId)) /\ Len(c) = s + Len(U32(x.bucketId))
      BY <1>2, <1>6, PiecesAre
    <3> QED
      BY <1>3, <3>1, U32Read, U32Is
  <2>2. PICK z : z = [y EXCEPT !.bucketId = x.bucketId]
    OBVIOUS
  <2>3. DecodeSection(b, y, s, l) = Decoding([y EXCEPT !.bucketId = U32At(b, s)], s + 4, TRUE, FALSE)
    BY <1>6 DEF DecodeSection, BucketId, EntryId, SeverityOf, Message, CategoryId, TTLEntry, TTLMeta,
         Tags, Metric, Meta, StackTrace
  <2>4. DecodeSection(b, y, s, l) = Advanced(z, Len(c))
    BY <2>1, <2>2, <2>3 DEF Advanced
  <2>5. IsEntry(z) /\ z.bucketId = x.bucketId /\ \A g \in Fields : g # "bucketId" => z[g] = y[g]
    <3>1. IsEntry(z)
      BY <1>4, <1>5, <2>2
    <3>2. z.bucketId = x.bucketId
      BY <2>2 DEF IsEntry, Fields
    <3>3. \A g \in Fields : g # "bucketId" => z[g] = y[g]
      BY <2>2 DEF IsEntry
    <3> QED
      BY <3>1, <3>2, <3>3
  <2>6. SectionRead(z, x, a, l)
    BY <1>6, <2>5 DEF SectionRead, BucketId, EntryId, SeverityOf, Message, CategoryId, TTLEntry, TTLMeta,
         Tags, Metric, Meta, StackTrace
  <2>7. \A g \in Fields : g \notin Own(l) => z[g] = y[g]
    BY <1>6, <2>5, OwnFields
  <2> QED
    BY <1>1, <2>4, <2>5, <2>6, <2>7, AdvancedDone
<1>7. CASE l = EntryId
  <2>1. At(b, s) = x.id /\ Len(c) = s + 12
    <3>1. PICK p : p = [i \in 1..12 |-> x.id]
      OBVIOUS
    <3>2. Has(b, s, p) /\ Len(c) = s + Len(p)
      BY <1>2, <1>7, <3>1, PiecesAre
    <3>3. Len(p) = 12 /\ p[1] = x.id /\ 1 \in 1..12
      BY <3>1
    <3> QED
      BY <3>2, <3>3 DEF Has, At
  <2>2. PICK z : z = [y EXCEPT !.id = x.id]
    OBVIOUS
  <2>3. DecodeSection(b, y, s, l) = Decoding([y EXCEPT !.id = At(b, s)], s + 12, TRUE, FALSE)
    BY <1>7 DEF DecodeSection, BucketId, EntryId, SeverityOf, Message, CategoryId, TTLEntry, TTLMeta,
         Tags, Metric, Meta, StackTrace
  <2>4. DecodeSection(b, y, s, l) = Advanced(z, Len(c))
    BY <2>1, <2>2, <2>3 DEF Advanced
  <2>5. IsEntry(z) /\ z.id = x.id /\ \A g \in Fields : g # "id" => z[g] = y[g]
    <3>1. IsEntry(z)
      BY <1>4, <1>5, <2>2
    <3>2. z.id = x.id
      BY <2>2 DEF IsEntry, Fields
    <3>3. \A g \in Fields : g # "id" => z[g] = y[g]
      BY <2>2 DEF IsEntry
    <3> QED
      BY <3>1, <3>2, <3>3
  <2>6. SectionRead(z, x, a, l)
    BY <1>7, <2>5 DEF SectionRead, BucketId, EntryId, SeverityOf, Message, CategoryId, TTLEntry, TTLMeta,
         Tags, Metric, Meta, StackTrace
  <2>7. \A g \in Fields : g \notin Own(l) => z[g] = y[g]
    BY <1>7, <2>5, OwnFields
  <2> QED
    BY <1>1, <2>4, <2>5, <2>6, <2>7, AdvancedDone
<1>8. CASE l = SeverityOf
  <2>1. At(b, s) = x.severity /\ Len(c) = s + 1
    <3>1. PICK p : p = <<x.severity>>
      OBVIOUS
    <3>2. Has(b, s, p) /\ Len(c) = s + Len(p)
      BY <1>2, <1>8, <3>1, PiecesAre
    <3>3. Len(p) = 1 /\ p[1] = x.severity /\ 1 \in 1..1
      BY <3>1
    <3> QED
      BY <3>2, <3>3 DEF Has, At
  <2>2. PICK z : z = [y EXCEPT !.severity = x.severity]
    OBVIOUS
  <2>3. DecodeSection(b, y, s, l) = Decoding([y EXCEPT !.severity = At(b, s)], s + 1, TRUE, FALSE)
    BY <1>8 DEF DecodeSection, BucketId, EntryId, SeverityOf, Message, CategoryId, TTLEntry, TTLMeta,
         Tags, Metric, Meta, StackTrace
  <2>4. DecodeSection(b, y, s, l) = Advanced(z, Len(c))
    BY <2>1, <2>2, <2>3 DEF Advanced
  <2>5. IsEntry(z) /\ z.severity = x.severity /\ \A g \in Fields : g # "severity" => z[g] = y[g]
    <3>1. IsEntry(z)
      BY <1>4, <1>5, <2>2
    <3>2. z.severity = x.severity
      BY <2>2 DEF IsEntry, Fields
    <3>3. \A g \in Fields : g # "severity" => z[g] = y[g]
      BY <2>2 DEF IsEntry
    <3> QED
      BY <3>1, <3>2, <3>3
  <2>6. SectionRead(z, x, a, l)
    BY <1>8, <2>5 DEF SectionRead, BucketId, EntryId, SeverityOf, Message, CategoryId, TTLEntry, TTLMeta,
         Tags, Metric, Meta, StackTrace
  <2>7. \A g \in Fields : g \notin Own(l) => z[g] = y[g]
    BY <1>8, <2>5, OwnFields
  <2> QED
    BY <1>1, <2>4, <2>5, <2>6, <2>7, AdvancedDone
<1>9. CASE l = CategoryId
  <2>1. At(b, s) = x.categoryId /\ Len(c) = s + 1
    <3>1. PICK p : p = <<x.categoryId>>
      OBVIOUS
    <3>2. Has(b, s, p) /\ Len(c) = s + Len(p)
      BY <1>2, <1>9, <3>1, PiecesAre
    <3>3. Len(p) = 1 /\ p[1] = x.categoryId /\ 1 \in 1..1
      BY <3>1
    <3> QED
      BY <3>2, <3>3 DEF Has, At
  <2>2. PICK z : z = [y EXCEPT !.categoryId = x.categoryId]
    OBVIOUS
  <2>3. DecodeSection(b, y, s, l) = Decoding([y EXCEPT !.categoryId = At(b, s)], s + 1, TRUE, FALSE)
    BY <1>9 DEF DecodeSection, BucketId, EntryId, SeverityOf, Message, CategoryId, TTLEntry, TTLMeta,
         Tags, Metric, Meta, StackTrace
  <2>4. DecodeSection(b, y, s, l) = Advanced(z, Len(c))
    BY <2>1, <2>2, <2>3 DEF Advanced
  <2>5. IsEntry(z) /\ z.categoryId = x.categoryId /\ \A g \in Fields : g # "categoryId" => z[g] = y[g]
    <3>1. IsEntry(z)
      BY <1>4, <1>5, <2>2
    <3>2. z.categoryId = x.categoryId
      BY <2>2 DEF IsEntry, Fields
    <3>3. \A g \in Fields : g # "categoryId" => z[g] = y[g]
      BY <2>2 DEF IsEntry
    <3> QED
      BY <3>1, <3>2, <3>3
  <2>6. SectionRead(z, x, a, l)
    BY <1>9, <2>5 DEF SectionRead, BucketId, EntryId, SeverityOf, Message, CategoryId, TTLEntry, TTLMeta,
         Tags, Metric, Meta, StackTrace
  <2>7. \A g \in Fields : g \notin Own(l) => z[g] = y[g]
    BY <1>9, <2>5, OwnFields
  <2> QED
    BY <1>1, <2>4, <2>5, <2>6, <2>7, AdvancedDone
<1>10. CASE l = Message
  <2>1. PICK q : q = s + 1 + At(b, s)
    OBVIOUS
  <2>2. Slice(b, s + 1, q) = x.message /\ Len(c) = q /\ ~(q > Len(b))
    <3>1. Has(b, s, Str8(x.message)) /\ Len(c) = s + Len(Str8(x.message))
      BY <1>2, <1>10, PiecesAre
    <3>2. x.message \in Short
      BY <1>3 DEF Short
    <3>3. Len(Str8(x.message)) = Len(x.message) + 1
      BY <1>3, Str8Is
    <3>4. /\ At(b, s) = Len(x.message) /\ Len(x.message) \in Nat /\ Len(b) \in Nat
          /\ s + 1 + Len(x.message) <= Len(b)
          /\ Slice(b, s + 1, s + 1 + Len(x.message)) = x.message
      BY <3>1, <3>2, KeyRead
    <3>5. q = s + 1 + Len(x.message)
      BY <2>1, <3>4
    <3>6. Len(c) = q
      <4>1. PICK n \in Nat : n = Len(x.message)
        BY <3>4
      <4>2. Len(c) = s + (n + 1)
        BY <3>1, <3>3, <4>1
      <4>3. q = s + 1 + n
        BY <3>5, <4>1
      <4>4. s + (n + 1) = s + 1 + n
        OBVIOUS
      <4> QED
        BY <4>2, <4>3, <4>4
    <3>7. ~(q > Len(b))
      <4>1. PICK n \in Nat : n = Len(x.message)
        BY <3>4
      <4>2. PICK k \in Nat : k = Len(b)
        BY <3>4
      <4>3. s + 1 + n <= k /\ q = s + 1 + n
        BY <3>4, <3>5, <4>1, <4>2
      <4> QED
        BY <4>2, <4>3
    <3> QED
      BY <3>4, <3>5, <3>6, <3>7
  <2>3. PICK z : z = [y EXCEPT !.message = x.message]
    OBVIOUS
  <2>4. DecodeSection(b, y, s, l) =
           IF q > Len(b) THEN Decoding(y, s + 1, FALSE, FALSE)
           ELSE Decoding([y EXCEPT !.message = Slice(b, s + 1, q)], q, TRUE, FALSE)
    BY <1>10, <2>1 DEF DecodeSection, BucketId, EntryId, SeverityOf, Message, CategoryId, TTLEntry, TTLMeta,
         Tags, Metric, Meta, StackTrace
  <2>5. DecodeSection(b, y, s, l) = Advanced(z, Len(c))
    BY <2>2, <2>3, <2>4 DEF Advanced
  <2>6. IsEntry(z) /\ z.message = x.message /\ \A g \in Fields : g # "message" => z[g] = y[g]
    <3>1. IsEntry(z)
      BY <1>4, <1>5, <2>3
    <3>2. z.message = x.message
      BY <2>3 DEF IsEntry, Fields
    <3>3. \A g \in Fields : g # "message" => z[g] = y[g]
      BY <2>3 DEF IsEntry
    <3> QED
      BY <3>1, <3>2, <3>3
  <2>7. SectionRead(z, x, a, l)
    BY <1>10, <2>6 DEF SectionRead, BucketId, EntryId, SeverityOf, Message, CategoryId, TTLEntry, TTLMeta,
         Tags, Metric, Meta, StackTrace
  <2>8. \A g \in Fields : g \notin Own(l) => z[g] = y[g]
    BY <1>10, <2>6, OwnFields
  <2> QED
    BY <1>1, <2>5, <2>6, <2>7, <2>8, AdvancedDone
<1>11. CASE l = TTLEntry
  <2>1. U16At(b, s) = x.ttlEntry /\ Len(c) = s + 2 /\ ~(s + 2 > Len(b))
    <3>1. Has(b, s, U16(x.ttlEntry)) /\ Len(c) = s + Len(U16(x.ttlEntry))
      BY <1>2, <1>11, PiecesAre
    <3>2. U16At(b, s) = x.ttlEntry /\ s + 2 <= Len(b) /\ Len(c) = s + 2 /\ Len(b) \in Nat
      <4>1. PICK n \in Nat : n = x.ttlEntry
        BY <1>3
      <4>2. Has(b, s, U16(n)) /\ Len(c) = s + Len(U16(n))
        BY <3>1, <4>1
      <4>3. U16At(b, s) = n /\ s + 2 <= Len(b)
        BY <4>2, U16Read
      <4>4. Len(U16(n)) = 2 /\ Len(b) \in Nat
        BY U16Is, TextIs
      <4> QED
        BY <4>1, <4>2, <4>3, <4>4
    <3> QED
      BY <3>2
  <2>2. PICK z : z = [y EXCEPT !.ttlEntry = x.ttlEntry]
    OBVIOUS
  <2>3. DecodeSection(b, y, s, l) =
           IF s + 2 > Len(b) THEN Decoding(y, s, FALSE, FALSE)
           ELSE Decoding([y EXCEPT !.ttlEntry = U16At(b, s)], s + 2, TRUE, FALSE)
    BY <1>11 DEF DecodeSection, BucketId, EntryId, SeverityOf, Message, CategoryId, TTLEntry, TTLMeta,
         Tags, Metric, Meta, StackTrace
  <2>4. DecodeSection(b, y, s, l) = Advanced(z, Len(c))
    BY <2>1, <2>2, <2>3 DEF Advanced
  <2>5. IsEntry(z) /\ z.ttlEntry = x.ttlEntry /\ \A g \in Fields : g # "ttlEntry" => z[g] = y[g]
    <3>1. IsEntry(z)
      BY <1>4, <1>5, <2>2
    <3>2. z.ttlEntry = x.ttlEntry
      BY <2>2 DEF IsEntry, Fields
    <3>3. \A g \in Fields : g # "ttlEntry" => z[g] = y[g]
      BY <2>2 DEF IsEntry
    <3> QED
      BY <3>1, <3>2, <3>3
  <2>6. SectionRead(z, x, a, l)
    BY <1>11, <2>5 DEF SectionRead, BucketId, EntryId, SeverityOf, Message, CategoryId, TTLEntry, TTLMeta,
         Tags, Metric, Meta, StackTrace
  <2>7. \A g \in Fields : g \notin Own(l) => z[g] = y[g]
    BY <1>11, <2>5, OwnFields
  <2> QED
    BY <1>1, <2>4, <2>5, <2>6, <2>7, AdvancedDone
<1>12. CASE l = TTLMeta
  <2>1. U16At(b, s) = x.ttlMeta /\ Len(c) = s + 2 /\ ~(s + 2 > Len(b))
    <3>1. Has(b, s, U16(x.ttlMeta)) /\ Len(c) = s + Len(U16(x.ttlMeta))
      BY <1>2, <1>12, PiecesAre
    <3>2. U16At(b, s) = x.ttlMeta /\ s + 2 <= Len(b) /\ Len(c) = s + 2 /\ Len(b) \in Nat
      <4>1. PICK n \in Nat : n = x.ttlMeta
        BY <1>3
      <4>2. Has(b, s, U16(n)) /\ Len(c) = s + Len(U16(n))
        BY <3>1, <4>1
      <4>3. U16At(b, s) = n /\ s + 2 <= Len(b)
        BY <4>2, U16Read
      <4>4. Len(U16(n)) = 2 /\ Len(b) \in Nat
        BY U16Is, TextIs
      <4> QED
        BY <4>1, <4>2, <4>3, <4>4
    <3> QED
      BY <3>2
  <2>2. PICK z : z = [y EXCEPT !.ttlMeta = x.ttlMeta]
    OBVIOUS
  <2>3. DecodeSection(b, y, s, l) =
           IF s + 2 > Len(b) THEN Decoding(y, s, FALSE, TRUE)
           ELSE Decoding([y EXCEPT !.ttlMeta = U16At(b, s)], s + 2, TRUE, FALSE)
    BY <1>12 DEF DecodeSection, BucketId, EntryId, SeverityOf, Message, CategoryId, TTLEntry, TTLMeta,
         Tags, Metric, Meta, StackTrace
  <2>4. DecodeSection(b, y, s, l) = Advanced(z, Len(c))
    BY <2>1, <2>2, <2>3 DEF Advanced
  <2>5. IsEntry(z) /\ z.ttlMeta = x.ttlMeta /\ \A g \in Fields : g # "ttlMeta" => z[g] = y[g]
    <3>1. IsEntry(z)
      BY <1>4, <1>5, <2>2
    <3>2. z.ttlMeta = x.ttlMeta
      BY <2>2 DEF IsEntry, Fields
    <3>3. \A g \in Fields : g # "ttlMeta" => z[g] = y[g]
      BY <2>2 DEF IsEntry
    <3> QED
      BY <3>1, <3>2, <3>3
  <2>6. SectionRead(z, x, a, l)
    BY <1>12, <2>5 DEF SectionRead, BucketId, EntryId, SeverityOf, Message, CategoryId, TTLEntry, TTLMeta,
         Tags, Metric, Meta, StackTrace
  <2>7. \A g \in Fields : g \notin Own(l) => z[g] = y[g]
    BY <1>12, <2>5, OwnFields
  <2> QED
    BY <1>1, <2>4, <2>5, <2>6, <2>7, AdvancedDone
<1> QED
  BY <1>1, <1>6, <1>7, <1>8, <1>9, <1>10, <1>11, <1>12 DEF PlainLevels

(* r is y with n items of x in an array, and what was read ends at t.      *)
CollectedAs(r, y, x, array, count, n, t) ==
    \E z : /\ r = Advanced(z, t) /\ IsEntry(z) /\ Same(z, x, array, count, n)
           /\ \A f \in Fields : f # array /\ f # count => z[f] = y[f]

(* Items that were read go into their array, and their number beside it.   *)
LEMMA ListCollected ==
    ASSUME NEW y, IsEntry(y), NEW count \in Fields \ Arrays, NEW array \in Arrays, NEW n, NEW t, NEW x,
           NEW c, ListRead(c, SizeOf(array), n, t, x[array])
    PROVE  CollectedAs(Collected(y, count, n, array, c), y, x, array, count, n, t)
<1>1. PICK A : c = Going(A, t) /\ IsArray(A, SizeOf(array)) /\ \A i \in 0..(n - 1) : A[i] = x[array][i]
  BY DEF ListRead
<1>2. c.array = A /\ c.s = t /\ c.go = TRUE
  BY <1>1 DEF Going, Loop
<1>3. PICK z : z = [y EXCEPT ![count] = n, ![array] = A]
  OBVIOUS
<1>4. Collected(y, count, n, array, c) = Advanced(z, t)
  BY <1>2, <1>3 DEF Collected, Advanced
<1>5. IsEntry(z)
  BY <1>1, <1>3, ArrayAssigned
<1>6. array \in Fields /\ array # count /\ count \in Fields
  BY DEF Arrays, Fields
<1>7. z[count] = n /\ z[array] = A
  BY <1>3, <1>6 DEF IsEntry
<1>8. \A f \in Fields : f # array /\ f # count => z[f] = y[f]
  BY <1>3, <1>6 DEF IsEntry
<1>9. Same(z, x, array, count, n)
  BY <1>1, <1>7 DEF Same
<1> QED
  BY <1>4, <1>5, <1>8, <1>9 DEF CollectedAs

(* A counted section is collected when its items are read.                 *)
LEMMA CountedDone ==
    ASSUME NEW a \in Text, Len(a) >= 2, NEW c \in Text, NEW b \in Text, Continues(b, c),
           NEW count \in Fields \ Arrays, NEW array \in Arrays,
           NEW pieces, NEW n \in 0..SizeOf(array), CountedSection(c, a, pieces, n),
           \A j \in 1..n : pieces[j] \in Text,
           NEW l, NEW x,
           \A j \in 1..n, s \in Nat :
              Has(b, s, pieces[j]) /\ s + Len(pieces[j]) <= Len(c) =>
                 ItemRead(b, l, s, s + Len(pieces[j]), x[array][j - 1]),
           NEW y, IsEntry(y)
    PROVE  CollectedAs(Collected(y, count, At(b, Len(a)), array,
                                 DecodeCounted(b, l, y[array], Len(a), SizeOf(array))),
                       y, x, array, count, n, Len(c))
<1>1. PICK size \in Nat : size = SizeOf(array)
  BY SizesAre, LimitsAreNat DEF Arrays
<1>2. IsArray(y[array], size)
  BY <1>1, SizesAre DEF IsEntry, Arrays
<1>3. PICK vals : vals = x[array]
  OBVIOUS
<1>4. Len(a) < Len(c)
  BY DEF CountedSection, Grown
<1>5. n \in 0..size
  BY <1>1
<1>6. ASSUME NEW j \in 1..n, NEW s \in Nat, Has(b, s, pieces[j]), s + Len(pieces[j]) <= Len(c)
      PROVE  ItemRead(b, l, s, s + Len(pieces[j]), vals[j - 1])
  BY <1>3, <1>6
<1>7. At(b, Len(a)) = n /\ ListRead(DecodeCounted(b, l, y[array], Len(a), size), size, n, Len(c), vals)
  BY <1>2, <1>4, <1>5, <1>6, CountedRead
<1>8. PICK loop : loop = DecodeCounted(b, l, y[array], Len(a), SizeOf(array))
  OBVIOUS
<1>9. ListRead(loop, SizeOf(array), n, Len(c), x[array])
  BY <1>1, <1>3, <1>7, <1>8
<1>10. CollectedAs(Collected(y, count, n, array, loop), y, x, array, count, n, Len(c))
  BY <1>9, ListCollected
<1> QED
  BY <1>7, <1>8, <1>10

(* The fields that counted sections set.                                   *)
LEMMA CountsAre ==
    /\ \A f \in {"tagsCount", "metricCount", "metaCount", "stackTraceCount"} : f \in Fields \ Arrays
    /\ \A f \in {"tags", "metrics", "meta", "trace"} : f \in Arrays
  BY DEF Fields, Arrays

(* The tags' section is done.                                              *)
LEMMA TagsDone ==
    ASSUME NEW x, Typed(x), NEW a \in Text, Len(a) >= 2, NEW c \in Text, NEW b \in Text, Continues(b, c),
           c = EncodeSection(x, a, Tags), NEW y, IsEntry(y)
    PROVE  SectionDone(DecodeSection(b, y, Len(a), Tags), y, x, a, c, Tags)
<1>1. PICK n : n = x.tagsCount
  OBVIOUS
<1>2. PICK pieces : pieces = TagPieces(x)
  OBVIOUS
<1>3. CountedSection(c, a, pieces, n)
  BY <1>1, <1>2, TagsWritten, CountedSections
<1>0. n \in 0..SizeOf("tags")
  <2>1. n \in Nat /\ n <= MaxTagsCount
    BY <1>1, TagPiecesAre
  <2>2. SizeOf("tags") = MaxTagsCount /\ MaxTagsCount \in Nat
    BY SizesAre, LimitsAreNat
  <2> QED
    BY <2>1, <2>2
<1>4. \A j \in 1..n : /\ x.tags[j - 1] \in Short /\ pieces[j] = Str8(x.tags[j - 1])
                      /\ pieces[j] \in Text /\ Len(pieces[j]) = Len(x.tags[j - 1]) + 1
  BY <1>1, <1>2, TagPiecesAre
<1>5. ASSUME NEW j \in 1..n, NEW s \in Nat, Has(b, s, pieces[j]), s + Len(pieces[j]) <= Len(c)
      PROVE  ItemRead(b, Tags, s, s + Len(pieces[j]), x["tags"][j - 1])
  <2>1. PICK key \in Short : key = x.tags[j - 1]
    BY <1>4
  <2>2. Has(b, s, Str8(key)) /\ Len(pieces[j]) = Len(key) + 1
    BY <1>4, <1>5, <2>1
  <2> QED
    BY <2>1, <2>2, TagRead
<1>6. PICK r : r = DecodeSection(b, y, Len(a), Tags)
  OBVIOUS
<1>7. r = Collected(y, "tagsCount", At(b, Len(a)), "tags",
                    DecodeCounted(b, Tags, y["tags"], Len(a), SizeOf("tags")))
  BY <1>6, CountedCases, SizesAre
<1>8. CollectedAs(r, y, x, "tags", "tagsCount", n, Len(c))
  BY <1>0, <1>3, <1>4, <1>5, <1>7, CountsAre, CountedDone
<1>9. PICK z : /\ r = Advanced(z, Len(c)) /\ IsEntry(z) /\ Same(z, x, "tags", "tagsCount", n)
               /\ \A f \in Fields : f # "tags" /\ f # "tagsCount" => z[f] = y[f]
  BY <1>8 DEF CollectedAs
<1>10. SectionRead(z, x, a, Tags)
  BY <1>1, <1>9 DEF SectionRead, BucketId, EntryId, SeverityOf, Message, CategoryId, TTLEntry, TTLMeta,
         Tags, Metric, Meta, StackTrace
<1>11. \A f \in Fields : f \notin Own(Tags) => z[f] = y[f]
  BY <1>9, OwnFields
<1> QED
  BY <1>6, <1>9, <1>10, <1>11, AdvancedDone

(* A frame's bytes are read as the frame,                                  *)
LEMMA FrameThere ==
    ASSUME NEW b \in Text, NEW s \in Nat, NEW f \in Text \X Nat, Len(f[1]) <= MaxStr,
           Has(b, s, FrameBytes(f))
    PROVE  ItemRead(b, StackTrace, s, s + Len(FrameBytes(f)), f)
<1>1. PICK key \in Short : key = f[1]
  BY DEF Short
<1>2. PICK v \in Nat : v = f[2]
  OBVIOUS
<1>3. f = <<key, v>>
  BY <1>1, <1>2
<1>4. PICK p \in Text : p = FrameBytes(f)
  BY FrameBytesIs
<1>5. /\ Len(p) = Len(key) + 3 /\ Has(p, 0, Str8(key)) /\ Has(p, Len(key) + 1, U16(v))
  BY <1>1, <1>2, <1>4, FrameBytesIs
<1>6. key \in Text /\ Len(key) \in Nat /\ Len(key) + 1 \in Nat /\ 0 \in Nat /\ s + 0 = s
  BY TextIs DEF Short
<1>7. Str8(key) \in Text /\ U16(v) \in Text
  BY <1>6, Str8Is, U16Is
<1>8. Has(b, s + 0, Str8(key))
  BY <1>4, <1>5, <1>6, <1>7, HasWithin
<1>9. Has(b, s + (Len(key) + 1), U16(v))
  BY <1>4, <1>5, <1>6, <1>7, HasWithin
<1>10. ItemRead(b, StackTrace, s, s + (Len(key) + 3), <<key, v>>)
  BY <1>6, <1>8, <1>9, FrameRead
<1> QED
  BY <1>3, <1>4, <1>5, <1>10

(* those of an item of metadata as the item, unless they are the last and  *)
(* its value is empty,                                                     *)
LEMMA MetaThere ==
    ASSUME NEW b \in Text, NEW s \in Nat, NEW m \in Short \X Text, Has(b, s, MetaBytes(m)),
           m[2] # <<>> \/ s + Len(MetaBytes(m)) < Len(b)
    PROVE  ItemRead(b, Meta, s, s + Len(MetaBytes(m)), m)
<1>1. PICK key \in Short : key = m[1]
  OBVIOUS
<1>2. PICK v \in Text : v = m[2]
  OBVIOUS
<1>3. m = <<key, v>>
  BY <1>1, <1>2
<1>4. PICK p \in Text : p = MetaBytes(m)
  BY MetaBytesIs
<1>5. /\ Len(p) = Len(key) + Len(v) + 3 /\ Has(p, 0, Str8(key)) /\ Has(p, Len(key) + 1, U16(Len(v)))
      /\ Has(p, Len(key) + 3, v)
  BY <1>1, <1>2, <1>4, MetaBytesIs
<1>6. /\ key \in Text /\ Len(key) \in Nat /\ Len(key) + 1 \in Nat /\ Len(key) + 3 \in Nat
      /\ 0 \in Nat /\ s + 0 = s /\ Len(v) \in Nat /\ Len(b) \in Nat
  BY TextIs DEF Short
<1>7. Str8(key) \in Text /\ U16(Len(v)) \in Text
  BY <1>6, Str8Is, U16Is
<1>8. Has(b, s + 0, Str8(key))
  BY <1>4, <1>5, <1>6, <1>7, HasWithin
<1>9. Has(b, s + (Len(key) + 1), U16(Len(v)))
  BY <1>4, <1>5, <1>6, <1>7, HasWithin
<1>10. Has(b, s + (Len(key) + 3), v)
  BY <1>4, <1>5, <1>6, <1>7, HasWithin
<1>11. s + (Len(key) + 3) < Len(b)
  <2>1. PICK k \in Nat : k = Len(key)
    BY <1>6
  <2>2. PICK w \in Nat : w = Len(v)
    BY <1>6
  <2>3. PICK e1 \in Nat : e1 = Len(b)
    BY <1>6
  <2>4. s + (k + w + 3) <= e1
    BY <1>4, <1>5, <2>1, <2>2, <2>3 DEF Has
  <2>5. CASE v # <<>>
    <3>1. w # 0
      BY <2>2, <2>5 DEF Text
    <3>2. s + (k + 3) < e1
      BY <2>4, <3>1
    <3> QED
      BY <2>1, <2>3, <3>2
  <2>6. CASE v = <<>>
    <3>1. s + (k + w + 3) < e1
      BY <1>2, <1>4, <1>5, <2>1, <2>2, <2>3, <2>6
    <3>2. s + (k + 3) < e1
      BY <3>1
    <3> QED
      BY <2>1, <2>3, <3>2
  <2> QED
    BY <2>5, <2>6
<1>12. ItemRead(b, Meta, s, s + (Len(key) + Len(v) + 3), <<key, v>>)
  BY <1>6, <1>8, <1>9, <1>10, <1>11, MetaRead
<1> QED
  BY <1>3, <1>4, <1>5, <1>12

(* and those of a metric as the metric.                                    *)
LEMMA MetricThere ==
    ASSUME NEW x, Typed(x), NEW i \in 0..(MaxMetricCount - 1), i < MaxStackTraceCount,
           Len(x.metrics[i][1]) = KeyLen(x, i), NEW b \in Text, NEW s \in Nat, Has(b, s, MetricBytes(x, i))
    PROVE  ItemRead(b, Metric, s, s + Len(MetricBytes(x, i)), x.metrics[i])
<1>0. x.metrics[i] \in Short \X Nat
  BY DEF Typed, HasMetrics, Holds
<1>1. PICK key \in Short : key = x.metrics[i][1]
  BY <1>0
<1>2. PICK v \in Nat : v = x.metrics[i][2]
  BY <1>0
<1>3. x.metrics[i] = <<key, v>>
  BY <1>0, <1>1, <1>2
<1>4. PICK p \in Text : p = MetricBytes(x, i)
  BY MetricBytesIs
<1>5. /\ Len(p) = Len(key) + 5 /\ Has(p, 0, Str8(key)) /\ Has(p, Len(key) + 1, U32(v))
  BY <1>1, <1>2, <1>4, MetricBytesIs
<1>6. key \in Text /\ Len(key) \in Nat /\ Len(key) + 1 \in Nat /\ 0 \in Nat /\ s + 0 = s
  BY TextIs DEF Short
<1>7. Str8(key) \in Text /\ U32(v) \in Text
  BY <1>6, Str8Is, U32Is
<1>8. Has(b, s + 0, Str8(key))
  BY <1>4, <1>5, <1>6, <1>7, HasWithin
<1>9. Has(b, s + (Len(key) + 1), U32(v))
  BY <1>4, <1>5, <1>6, <1>7, HasWithin
<1>10. ItemRead(b, Metric, s, s + (Len(key) + 5), <<key, v>>)
  BY <1>6, <1>8, <1>9, MetricRead
<1> QED
  BY <1>3, <1>4, <1>5, <1>10

(* A section that Encode wrote as far as there was room is collected as    *)
(* far.                                                                    *)
LEMMA WrittenThere ==
    ASSUME NEW a \in Text, Len(a) >= 2, NEW c \in Text, NEW b \in Text, Continues(b, c),
           NEW items \in Seq(Items), c = Counted(a, items), NEW n, n = PutItems(a, items).n,
           NEW count \in Fields \ Arrays, NEW array \in Arrays, Len(items) <= SizeOf(array),
           NEW l, NEW x,
           \A j \in 1..n, s \in Nat :
              Has(b, s, items[j].bytes) /\ s + Len(items[j].bytes) <= Len(c) =>
                 ItemRead(b, l, s, s + Len(items[j].bytes), x[array][j - 1]),
           NEW y, IsEntry(y)
    PROVE  CollectedAs(Collected(y, count, At(b, Len(a)), array,
                                 DecodeCounted(b, l, y[array], Len(a), SizeOf(array))),
                       y, x, array, count, n, Len(c))
<1>1. n \in 0..Len(items) /\ CountedSection(c, a, BytesOf(items), n)
  BY CountedWrites
<1>2. PICK pieces : pieces = BytesOf(items)
  OBVIOUS
<1>3. ASSUME NEW j \in 1..n PROVE pieces[j] = items[j].bytes /\ pieces[j] \in Text
  <2>1. j \in 1..Len(items) /\ items[j] \in Items
    BY <1>1
  <2> QED
    BY <1>2, <2>1 DEF BytesOf, Items
<1>4. n \in 0..SizeOf(array)
  <2>1. SizeOf(array) \in Nat /\ Len(items) \in Nat
    BY SizesAre, LimitsAreNat DEF Arrays
  <2> QED
    BY <1>1, <2>1
<1>5. ASSUME NEW j \in 1..n, NEW s \in Nat, Has(b, s, pieces[j]), s + Len(pieces[j]) <= Len(c)
      PROVE  ItemRead(b, l, s, s + Len(pieces[j]), x[array][j - 1])
  BY <1>3, <1>5
<1>6. CountedSection(c, a, pieces, n)
  BY <1>1, <1>2
<1> QED
  BY <1>3, <1>4, <1>5, <1>6, CountedDone

(* Then that section is done:                                              *)
LEMMA CollectedSection ==
    ASSUME NEW r, NEW y, NEW x, NEW array, NEW count, NEW n, NEW a, NEW c, NEW l,
           CollectedAs(r, y, x, array, count, n, Len(c)), Own(l) = {array, count},
           \A z : Same(z, x, array, count, n) => SectionRead(z, x, a, l)
    PROVE  SectionDone(r, y, x, a, c, l)
<1>1. PICK z : /\ r = Advanced(z, Len(c)) /\ IsEntry(z) /\ Same(z, x, array, count, n)
               /\ \A f \in Fields : f # array /\ f # count => z[f] = y[f]
  BY DEF CollectedAs
<1>2. SectionRead(z, x, a, l)
  BY <1>1
<1>3. \A f \in Fields : f \notin Own(l) => z[f] = y[f]
  BY <1>1
<1> QED
  BY <1>1, <1>2, <1>3, AdvancedDone

(* the stack trace                                                         *)
LEMMA FramesDone ==
    ASSUME NEW x, Typed(x), \A i \in 0..(x.stackTraceCount - 1) : Len(x.trace[i][1]) <= MaxStr,
           NEW a \in Text, Len(a) >= 2, NEW c \in Text, NEW b \in Text, Continues(b, c),
           c = EncodeSection(x, a, StackTrace), NEW y, IsEntry(y)
    PROVE  SectionDone(DecodeSection(b, y, Len(a), StackTrace), y, x, a, c, StackTrace)
<1>1. PICK items \in Seq(Items) : items = FrameItems(x)
  BY FrameItemsAre
<1>2. PICK n : n = PutItems(a, items).n
  OBVIOUS
<1>3. c = Counted(a, items) /\ Len(items) = x.stackTraceCount /\ n \in 0..Len(items)
  BY <1>1, <1>2, CountedSections, CountedWrites, FrameItemsAre
<1>4. x.stackTraceCount \in 0..MaxStackTraceCount /\ MaxStackTraceCount \in Nat
      /\ SizeOf("trace") = MaxStackTraceCount
  BY LimitsAreNat, SizesAre DEF Typed, HasTrace, Holds
<1>5. Len(items) <= SizeOf("trace")
  BY <1>3, <1>4
<1>6. ASSUME NEW j \in 1..n, NEW s \in Nat, Has(b, s, items[j].bytes), s + Len(items[j].bytes) <= Len(c)
      PROVE  ItemRead(b, StackTrace, s, s + Len(items[j].bytes), x["trace"][j - 1])
  <2>1. j \in 1..x.stackTraceCount /\ j - 1 \in 0..(x.stackTraceCount - 1)
    BY <1>3, <1>4
  <2>2. PICK f \in Text \X Nat : f = x.trace[j - 1]
    BY <2>1, FrameItemsAre
  <2>3. Len(f[1]) <= MaxStr /\ items[j].bytes = FrameBytes(f)
    BY <1>1, <2>1, <2>2, FrameItemsAre
  <2> QED
    BY <1>6, <2>2, <2>3, FrameThere
<1>7. PICK r : r = DecodeSection(b, y, Len(a), StackTrace)
  OBVIOUS
<1>8. r = Collected(y, "stackTraceCount", At(b, Len(a)), "trace",
                    DecodeCounted(b, StackTrace, y["trace"], Len(a), SizeOf("trace")))
  BY <1>7, CountedCases, SizesAre
<1>9. CollectedAs(r, y, x, "trace", "stackTraceCount", n, Len(c))
  BY <1>2, <1>3, <1>5, <1>6, <1>8, CountsAre, WrittenThere
<1>10. ASSUME NEW z, Same(z, x, "trace", "stackTraceCount", n) PROVE SectionRead(z, x, a, StackTrace)
  BY <1>1, <1>2, <1>10 DEF SectionRead, FramesFit, BucketId, EntryId, SeverityOf, Message, CategoryId,
         TTLEntry, TTLMeta, Tags, Metric, Meta, StackTrace
<1> QED
  BY <1>7, <1>9, <1>10, OwnFields, CollectedSection

(* and the metadata.                                                       *)
LEMMA MetaDone ==
    ASSUME NEW x, Typed(x),
           NEW a \in Text, Len(a) >= 2, NEW c \in Text, NEW b \in Text, Continues(b, c),
           Len(c) < Len(b) \/ \A i \in 0..(x.metaCount - 1) : x.meta[i][2] # <<>>,
           c = EncodeSection(x, a, Meta), NEW y, IsEntry(y)
    PROVE  SectionDone(DecodeSection(b, y, Len(a), Meta), y, x, a, c, Meta)
<1>1. PICK items \in Seq(Items) : items = MetaItems(x)
  BY MetaItemsAre
<1>2. PICK n : n = PutItems(a, items).n
  OBVIOUS
<1>3. c = Counted(a, items) /\ Len(items) = x.metaCount /\ n \in 0..Len(items)
  BY <1>1, <1>2, CountedSections, CountedWrites, MetaItemsAre
<1>4. x.metaCount \in 0..MaxMetaCount /\ MaxMetaCount \in Nat /\ SizeOf("meta") = MaxMetaCount
  BY LimitsAreNat, SizesAre DEF Typed, HasMeta, Holds
<1>5. Len(items) <= SizeOf("meta")
  BY <1>3, <1>4
<1>6. ASSUME NEW j \in 1..n, NEW s \in Nat, Has(b, s, items[j].bytes), s + Len(items[j].bytes) <= Len(c)
      PROVE  ItemRead(b, Meta, s, s + Len(items[j].bytes), x["meta"][j - 1])
  <2>1. j \in 1..x.metaCount /\ j - 1 \in 0..(x.metaCount - 1)
    BY <1>3, <1>4
  <2>2. PICK m \in Short \X Text : m = x.meta[j - 1]
    BY <2>1, MetaItemsAre
  <2>3. items[j].bytes = MetaBytes(m)
    BY <1>1, <2>1, <2>2, MetaItemsAre
  <2>4. m[2] # <<>> \/ s + Len(MetaBytes(m)) < Len(b)
    <3>1. Len(MetaBytes(m)) \in Nat /\ Len(c) \in Nat /\ Len(b) \in Nat
      BY MetaBytesIs, TextIs
    <3>2. s + Len(MetaBytes(m)) <= Len(c)
      BY <1>6, <2>3
    <3>3. CASE Len(c) < Len(b)
      BY <3>1, <3>2, <3>3
    <3>4. CASE \A i \in 0..(x.metaCount - 1) : x.meta[i][2] # <<>>
      BY <2>1, <2>2, <3>4
    <3> QED
      BY <3>3, <3>4
  <2> QED
    BY <1>6, <2>2, <2>3, <2>4, MetaThere
<1>7. PICK r : r = DecodeSection(b, y, Len(a), Meta)
  OBVIOUS
<1>8. r = Collected(y, "metaCount", At(b, Len(a)), "meta",
                    DecodeCounted(b, Meta, y["meta"], Len(a), SizeOf("meta")))
  BY <1>7, CountedCases, SizesAre
<1>9. CollectedAs(r, y, x, "meta", "metaCount", n, Len(c))
  BY <1>2, <1>3, <1>5, <1>6, <1>8, CountsAre, WrittenThere
<1>10. ASSUME NEW z, Same(z, x, "meta", "metaCount", n) PROVE SectionRead(z, x, a, Meta)
  BY <1>1, <1>2, <1>10 DEF SectionRead, MetaFit, BucketId, EntryId, SeverityOf, Message, CategoryId,
         TTLEntry, TTLMeta, Tags, Metric, Meta, StackTrace
<1> QED
  BY <1>7, <1>9, <1>10, OwnFields, CollectedSection

(* Pieces of at most m bytes end where so many do.                         *)
LEMMA LaidOutUpTo ==
    ASSUME NEW b, NEW n \in Nat, NEW pieces, NEW m \in Nat,
           \A j \in 1..n : pieces[j] \in Text /\ Len(pieces[j]) <= m,
           NEW start \in Nat, NEW P, LaidOut(P, b, start, pieces, n)
    PROVE  \A j \in 0..n : P[j] <= start + j * m
<1> DEFINE S == {j \in 0..n : P[j] <= start + j * m}
<1>1. 0 \in S
  BY DEF LaidOut
<1>2. ASSUME NEW k \in 1..n, k - 1 \in S PROVE k \in S
  <2>1. /\ P[k] = P[k - 1] + Len(pieces[k]) /\ P[k - 1] \in Nat /\ Len(pieces[k]) \in Nat
        /\ Len(pieces[k]) <= m
    BY TextIs DEF LaidOut
  <2>2. P[k - 1] <= start + (k - 1) * m
    BY <1>2
  <2>3. (k - 1) * m + m = k * m /\ (k - 1) * m \in Int /\ k * m \in Int
    OBVIOUS
  <2>4. P[k] <= start + k * m
    BY <2>1, <2>2, <2>3
  <2> QED
    BY <2>4
<1>3. \A k \in 0..n : k \in S
  <2> HIDE DEF S
  <2> QED
    BY <1>1, <1>2, Writing!BoundedInduction
<1> QED
  BY <1>3

(* All metrics are written: there is room for them.                        *)
LEMMA MetricsFit ==
    ASSUME NEW x, Typed(x), x.metricCount <= MaxStackTraceCount,
           \A i \in 0..(x.metricCount - 1) : Len(x.metrics[i][1]) = KeyLen(x, i),
           NEW a \in Text, Len(a) + 1 + MaxMetricCount * (MaxStr + 5) <= MaxEntrySize
    PROVE  PutItems(a, MetricItems(x)).n = x.metricCount
<1>1. PICK items \in Seq(Items) : items = MetricItems(x)
  BY MetricItemsAre
<1>2. PICK n : n = PutItems(a, items).n
  OBVIOUS
<1>3. PICK c : c = Counted(a, items)
  OBVIOUS
<1>4. PICK pieces : pieces = BytesOf(items)
  OBVIOUS
<1>5. /\ n \in 0..Len(items) /\ CountedSection(c, a, pieces, n)
      /\ n < Len(items) => Len(c) + items[n + 1].size > MaxEntrySize
  BY <1>2, <1>3, <1>4, CountedWrites
<1>6. Len(items) = x.metricCount /\ x.metricCount \in 0..MaxMetricCount
  BY <1>1, MetricItemsAre DEF Typed, HasMetrics, Holds
<1>7. PICK M \in Nat : M = MaxStr + 5
  BY LimitsAreNat
<1>8. /\ Len(a) \in Nat /\ MaxMetricCount \in Nat /\ MaxStackTraceCount \in Nat /\ MaxEntrySize \in Nat
      /\ x.metricCount \in Nat /\ n \in Nat
  BY <1>5, <1>6, LimitsAreNat, TextIs
<1>9. ASSUME NEW j \in 1..x.metricCount
      PROVE  /\ pieces[j] \in Text /\ Len(pieces[j]) <= M /\ items[j].size <= M /\ items[j].size \in Nat
  <2>1. j - 1 \in 0..(x.metricCount - 1) /\ j - 1 \in 0..(MaxMetricCount - 1) /\ j - 1 < MaxStackTraceCount
    BY <1>6, <1>8
  <2>2. PICK key \in Short : key = x.metrics[j - 1][1]
    BY <2>1 DEF Typed, HasMetrics, Holds
  <2>3. Len(key) \in Nat /\ Len(key) <= MaxStr
    BY TextIs DEF Short
  <2>4. KeyLen(x, j - 1) = Len(key)
    BY <2>1, <2>2
  <2>5. MetricBytes(x, j - 1) \in Text /\ Len(MetricBytes(x, j - 1)) = Len(key) + 5
    BY <2>1, <2>2, MetricBytesIs
  <2>6. items[j].bytes = MetricBytes(x, j - 1) /\ items[j].size = Len(key) + 5
    BY <1>1, <2>4, MetricItemsAre
  <2>7. pieces[j] = items[j].bytes
    BY <1>4, <1>6 DEF BytesOf
  <2>8. Len(key) + 5 <= M /\ Len(key) + 5 \in Nat
    BY <1>7, <2>3, LimitsAreNat
  <2> QED
    BY <2>5, <2>6, <2>7, <2>8
<1>10. Len(c) <= Len(a) + 1 + n * M /\ Len(c) \in Nat
  <2>1. PICK P : LaidOut(P, c, Len(a) + 1, pieces, n) /\ P[n] = Len(c)
    BY <1>5 DEF CountedSection, Filled
  <2>2. Len(a) + 1 \in Nat /\ n \in 0..n /\ \A j \in 1..n : j \in 1..x.metricCount
    BY <1>5, <1>6, <1>8
  <2>3. \A j \in 1..n : pieces[j] \in Text /\ Len(pieces[j]) <= M
    BY <1>9, <2>2
  <2>4. P[n] <= Len(a) + 1 + n * M
    BY <1>8, <2>1, <2>2, <2>3, LaidOutUpTo
  <2> QED
    BY <1>5, <2>1, <2>4, TextIs DEF CountedSection, Grown
<1>11. CASE n < x.metricCount
  <2>1. PICK size \in Nat : size = items[n + 1].size /\ size <= M
    <3>1. n + 1 \in 1..x.metricCount
      BY <1>8, <1>11
    <3> QED
      BY <1>9, <3>1
  <2>2. Len(c) + size > MaxEntrySize
    BY <1>5, <1>6, <1>11, <2>1
  <2>3. n * M + M <= MaxMetricCount * M
    <3>1. n + 1 <= MaxMetricCount
      BY <1>6, <1>8, <1>11
    <3>2. \A i, k, m \in Nat : i + 1 <= k => i * m + m <= k * m
      <4>1. SUFFICES ASSUME NEW i \in Nat, NEW k \in Nat, NEW m \in Nat, i + 1 <= k
                     PROVE  i * m + m <= k * m
        OBVIOUS
      <4>2. PICK o \in Nat : k = i + 1 + o
        <5>1. k - (i + 1) \in Nat /\ k = i + 1 + (k - (i + 1))
          BY <4>1
        <5> QED
          BY <5>1
      <4>3. k * m = i * m + m + o * m /\ i * m \in Nat /\ o * m \in Nat
        BY <4>2
      <4> QED
        BY <4>3
    <3> QED
      BY <1>8, <3>1, <3>2
  <2>4. n * M \in Nat /\ MaxMetricCount * M \in Nat
    BY <1>8
  <2>5. Len(a) + 1 + MaxMetricCount * M <= MaxEntrySize
    BY <1>7
  <2>6. PICK p \in Nat : p = n * M
    BY <2>4
  <2>7. PICK q \in Nat : q = MaxMetricCount * M
    BY <2>4
  <2>8. Len(c) <= Len(a) + 1 + p /\ p + M <= q /\ Len(a) + 1 + q <= MaxEntrySize
    BY <1>10, <2>3, <2>5, <2>6, <2>7
  <2>9. Len(c) + size <= MaxEntrySize
    <3>1. PICK k \in Nat : k = Len(c)
      BY <1>10
    <3>2. PICK o \in Nat : o = Len(a)
      BY <1>8
    <3>3. PICK top \in Nat : top = MaxEntrySize
      BY <1>8
    <3>4. k <= o + 1 + p /\ p + M <= q /\ o + 1 + q <= top /\ size <= M
      BY <2>1, <2>8, <3>1, <3>2, <3>3
    <3>5. k + size <= top
      BY <3>4
    <3> QED
      BY <3>1, <3>3, <3>5
  <2> QED
    BY <1>8, <1>10, <2>2, <2>9
<1> QED
  BY <1>1, <1>2, <1>5, <1>6, <1>8, <1>11

(* The metrics are done.                                                   *)
LEMMA MetricsDone ==
    ASSUME NEW x, Typed(x), x.metricCount <= MaxStackTraceCount,
           \A i \in 0..(x.metricCount - 1) : Len(x.metrics[i][1]) = KeyLen(x, i),
           NEW a \in Text, Len(a) >= 2, Len(a) + 1 + MaxMetricCount * (MaxStr + 5) <= MaxEntrySize,
           NEW c \in Text, NEW b \in Text, Continues(b, c),
           c = EncodeSection(x, a, Metric), NEW y, IsEntry(y)
    PROVE  SectionDone(DecodeSection(b, y, Len(a), Metric), y, x, a, c, Metric)
<1>1. PICK items \in Seq(Items) : items = MetricItems(x)
  BY MetricItemsAre
<1>2. PICK n : n = PutItems(a, items).n
  OBVIOUS
<1>3. c = Counted(a, items) /\ Len(items) = x.metricCount /\ n = x.metricCount
  <2>1. n = x.metricCount
    BY <1>1, <1>2, MetricsFit
  <2> QED
    BY <1>1, <2>1, CountedSections, MetricItemsAre
<1>4. /\ x.metricCount \in 0..MaxMetricCount /\ MaxMetricCount \in Nat /\ SizeOf("metrics") = MaxMetricCount
      /\ MaxStackTraceCount \in Nat
  BY LimitsAreNat, SizesAre DEF Typed, HasMetrics, Holds
<1>5. Len(items) <= SizeOf("metrics")
  BY <1>3, <1>4
<1>6. ASSUME NEW j \in 1..n, NEW s \in Nat, Has(b, s, items[j].bytes), s + Len(items[j].bytes) <= Len(c)
      PROVE  ItemRead(b, Metric, s, s + Len(items[j].bytes), x["metrics"][j - 1])
  <2>1. j - 1 \in 0..(x.metricCount - 1) /\ j - 1 \in 0..(MaxMetricCount - 1) /\ j - 1 < MaxStackTraceCount
    BY <1>3, <1>4
  <2>2. items[j].bytes = MetricBytes(x, j - 1)
    BY <1>1, <1>3, MetricItemsAre
  <2>3. Len(x.metrics[j - 1][1]) = KeyLen(x, j - 1)
    BY <2>1
  <2> QED
    BY <1>6, <2>1, <2>2, <2>3, MetricThere
<1>7. PICK r : r = DecodeSection(b, y, Len(a), Metric)
  OBVIOUS
<1>8. r = Collected(y, "metricCount", At(b, Len(a)), "metrics",
                    DecodeCounted(b, Metric, y["metrics"], Len(a), SizeOf("metrics")))
  BY <1>7, CountedCases, SizesAre
<1>9. CollectedAs(r, y, x, "metrics", "metricCount", n, Len(c))
  BY <1>2, <1>3, <1>5, <1>6, <1>8, CountsAre, WrittenThere
<1>10. ASSUME NEW z, Same(z, x, "metrics", "metricCount", n) PROVE SectionRead(z, x, a, Metric)
  BY <1>3, <1>10 DEF SectionRead, BucketId, EntryId, SeverityOf, Message, CategoryId,
         TTLEntry, TTLMeta, Tags, Metric, Meta, StackTrace
<1> QED
  BY <1>7, <1>9, <1>10, OwnFields, CollectedSection

(* What ReadsBack asks of an entry, and the room there is.                 *)
Readable(x) ==
    /\ Typed(x) /\ Indexed(x) /\ Fits(x.message) /\ Len(x.message) <= MaxStr
    /\ x.level >= StackTrace => \A i \in 0..(x.stackTraceCount - 1) : Len(x.trace[i][1]) <= MaxStr
    /\ x.level >= Metric => \A i \in 0..(x.metricCount - 1) : Len(x.metrics[i][1]) = KeyLen(x, i)
    /\ x.level = Meta => \A i \in 0..(x.metaCount - 1) : x.meta[i][2] # <<>>

(* The entries ReadsBack is about are readable.                            *)
LEMMA RegularReads ==
    ASSUME NEW x, Typed(x), Fits(x.message), Regular(x)
    PROVE  Readable(x)
<1>1. Indexed(x)
  <2>1. x.metricCount \in Nat /\ MaxStackTraceCount \in Nat
    BY LimitsAreNat DEF Typed, HasMetrics, Holds
  <2>2. ~(x.level >= Metric /\ x.metricCount > MaxStackTraceCount)
    BY DEF Regular, EncodePanics
  <2> QED
    BY <2>1, <2>2 DEF Indexed
<1> QED
  BY <1>1 DEF Readable, Regular, KeyLen

(* The level of an entry that is built.                                    *)
LEMMA LevelIs ==
    ASSUME NEW x, Typed(x)
    PROVE  x.level \in Levels /\ x.level >= 3 /\ x.level + 1 \in Nat
  BY DEF Typed, Scalars, Levels, Message, TTLMeta

(* Multiplication is monotonic.                                            *)
LEMMA TimesGrows ==
    ASSUME NEW i \in Nat, NEW k \in Nat, NEW m \in Nat, i <= k
    PROVE  i * m <= k * m /\ i * m \in Nat /\ k * m \in Nat
<1>1. PICK o \in Nat : k = i + o
  <2>1. k - i \in Nat /\ k = i + (k - i)
    OBVIOUS
  <2> QED
    BY <2>1
<1>2. k * m = i * m + o * m /\ i * m \in Nat /\ o * m \in Nat
  BY <1>1
<1> QED
  BY <1>2

(* The length of what is written before the category.                      *)
LEMMA HeadLength ==
    ASSUME NEW x, Typed(x), NEW H, EncodesThrough(H, x), Indexed(x)
    PROVE  Len(H[4]) = 20 + Len(x.message)
<1>1. /\ 1 \in 1..(x.level + 1) /\ 2 \in 1..(x.level + 1)
      /\ 3 \in 1..(x.level + 1) /\ 4 \in 1..(x.level + 1)
      /\ 0 \in 0..(x.level + 1) /\ 1 \in 0..(x.level + 1)
      /\ 2 \in 0..(x.level + 1) /\ 3 \in 0..(x.level + 1)
  <2>1. PICK n \in Nat : n = x.level + 1
    BY LevelIs
  <2>2. n >= 4
    <3>1. x.level \in Int /\ x.level >= 3
      BY LevelIs DEF Levels
    <3> QED
      BY <2>1, <3>1
  <2> QED
    BY <2>1, <2>2
<1>2. /\ H[1] = EncodeSection(x, H[0], BucketId) /\ H[2] = EncodeSection(x, H[1], EntryId)
      /\ H[3] = EncodeSection(x, H[2], SeverityOf) /\ H[4] = EncodeSection(x, H[3], Message)
  BY <1>1 DEF EncodesThrough, BucketId, EntryId, SeverityOf, Message
<1>3. H[0] \in Text /\ H[1] \in Text /\ H[2] \in Text /\ H[3] \in Text
  BY <1>1, EncodeGrows DEF Growing
<1>4. Len(H[0]) = 2
  BY DEF EncodesThrough
<1>5. ASSUME NEW b \in Text, NEW l \in PlainLevels
      PROVE  Len(EncodeSection(x, b, l)) = Len(b) + Len(Piece(x, l))
  <2>1. PICK p : p = Piece(x, l)
    OBVIOUS
  <2>2. p \in Text /\ EncodeSection(x, b, l) = b \o p
    BY <2>1, PlainSection
  <2> QED
    BY <2>1, <2>2, Concatenated
<1>6. /\ Len(Piece(x, BucketId)) = 4 /\ Len(Piece(x, EntryId)) = 12 /\ Len(Piece(x, SeverityOf)) = 1
      /\ Len(Piece(x, Message)) = Len(x.message) + 1 /\ Len(x.message) \in Nat
  <2>1. x.bucketId \in Nat /\ x.message \in Text /\ x.severity \in Nat /\ x.id \in Nat
    BY DEF Typed, Scalars
  <2>2. Len(U32(x.bucketId)) = 4 /\ Len(Str8(x.message)) = Len(x.message) + 1 /\ Len(x.message) \in Nat
    BY <2>1, U32Is, Str8Is, TextIs
  <2>3. Len([i \in 1..12 |-> x.id]) = 12 /\ Len(<<x.severity>>) = 1
    OBVIOUS
  <2> QED
    BY <2>2, <2>3, PiecesAre
<1>7. /\ BucketId \in PlainLevels /\ EntryId \in PlainLevels
      /\ SeverityOf \in PlainLevels /\ Message \in PlainLevels
  BY DEF PlainLevels
<1>8. /\ Len(H[1]) = Len(H[0]) + Len(Piece(x, BucketId)) /\ Len(H[2]) = Len(H[1]) + Len(Piece(x, EntryId))
      /\ Len(H[3]) = Len(H[2]) + Len(Piece(x, SeverityOf)) /\ Len(H[4]) = Len(H[3]) + Len(Piece(x, Message))
  BY <1>2, <1>3, <1>5, <1>7
<1>9. Len(H[1]) = 6
  BY <1>4, <1>6, <1>8
<1>10. Len(H[3]) = 19
  <2>1. Len(H[2]) = 6 + 12
    BY <1>6, <1>8, <1>9, Zenon
  <2>2. 6 + 12 = 18 /\ 18 + 1 = 19
    OBVIOUS
  <2>3. Len(H[3]) = 18 + 1
    BY <1>6, <1>8, <2>1, <2>2, Zenon
  <2> QED
    BY <2>2, <2>3, Zenon
<1>11. Len(H[4]) = 19 + (Len(x.message) + 1)
  BY <1>6, <1>8, <1>10
<1> QED
  BY <1>6, <1>11

(* The room RoomAssumption leaves is there for the metrics.                *)
LEMMA RoomForMetrics ==
    ASSUME NEW x, Readable(x), NEW H, EncodesThrough(H, x), x.level >= Metric
    PROVE  Len(H[6]) + 1 + MaxMetricCount * (MaxStr + 5) <= MaxEntrySize
<1>1. Typed(x) /\ Indexed(x) /\ Fits(x.message)
  BY DEF Readable
<1>2. Len(H[4]) = 20 + Len(x.message)
  BY <1>1, HeadLength
<1>3. 4 \in 0..(x.level + 1) /\ 5 \in 0..(x.level + 1) /\ 5 \in 1..(x.level + 1) /\ 6 \in 1..(x.level + 1)
  <2>1. PICK n \in Nat : n = x.level + 1
    BY <1>1, LevelIs
  <2>2. n >= 7
    <3>1. x.level \in Int /\ x.level >= 6
      BY <1>1, LevelIs DEF Levels, Metric
    <3> QED
      BY <2>1, <3>1
  <2> QED
    BY <2>1, <2>2
<1>4. H[5] = EncodeSection(x, H[4], CategoryId) /\ H[6] = EncodeSection(x, H[5], Tags)
  BY <1>3 DEF EncodesThrough, CategoryId, Tags
<1>5. H[4] \in Text /\ H[5] \in Text
  BY <1>1, <1>3, EncodeGrows DEF Growing
<1>6. Len(H[5]) = Len(H[4]) + 1
  <2>1. x.categoryId \in Nat /\ CategoryId \in PlainLevels
    BY <1>1 DEF Typed, Scalars, PlainLevels
  <2>2. PICK p : p = Piece(x, CategoryId)
    OBVIOUS
  <2>3. p \in Text /\ H[5] = H[4] \o p
    BY <1>1, <1>4, <1>5, <2>1, <2>2, PlainSection
  <2>4. p = <<x.categoryId>>
    BY <1>1, <2>2, PiecesAre
  <2> QED
    BY <1>5, <2>3, <2>4, Concatenated
<1>7. Len(H[6]) <= Len(H[5]) + 1 + x.tagsCount * (MaxStr + 1)
  BY <1>1, <1>4, <1>5, TagsWritten, CountedSections
<1>8. PICK t \in Nat : t = x.tagsCount * (MaxStr + 1) /\ t <= MaxTagsCount * (MaxStr + 1)
  <2>1. x.tagsCount \in Nat /\ x.tagsCount <= MaxTagsCount /\ MaxTagsCount \in Nat /\ MaxStr + 1 \in Nat
    BY <1>1, TagPiecesAre, LimitsAreNat
  <2> QED
    BY <2>1, TimesGrows
<1>9. PICK u \in Nat : u = MaxTagsCount * (MaxStr + 1)
  <2>1. MaxTagsCount \in Nat /\ MaxStr + 1 \in Nat
    BY LimitsAreNat
  <2> QED
    BY <2>1
<1>10. PICK v \in Nat : v = MaxMetricCount * (MaxStr + 5)
  <2>1. MaxMetricCount \in Nat /\ MaxStr + 5 \in Nat
    BY LimitsAreNat
  <2> QED
    BY <2>1
<1>11. PICK k \in Nat : k = Len(x.message)
  <2>1. x.message \in Text
    BY <1>1 DEF Typed, Scalars
  <2> QED
    BY <2>1, TextIs
<1>12. PICK w \in Nat : w = Len(H[6])
  <2>1. 6 \in 0..(x.level + 1)
    BY <1>1, LevelIs, <1>3
  <2>2. H[6] \in Text
    BY <1>1, <2>1, EncodeGrows DEF Growing
  <2> QED
    BY <2>2, TextIs
<1>13. PICK top \in Nat : top = MaxEntrySize
  BY LimitsAreNat
<1>14. 25 + k + u + v <= top
  BY <1>1, <1>9, <1>10, <1>11, <1>13 DEF Fits
<1>15. w <= 20 + k + 1 + 1 + t
  BY <1>2, <1>6, <1>7, <1>8, <1>11, <1>12
<1>16. t <= u
  BY <1>8, <1>9
<1>17. w + 1 + v <= top
  BY <1>14, <1>15, <1>16
<1> QED
  BY <1>10, <1>12, <1>13, <1>17

(* Each section is read where it was written.                              *)
LEMMA SectionsRead ==
    ASSUME NEW x, Readable(x), NEW H, EncodesThrough(H, x), NEW b, b = Encode(x),
           NEW k \in 0..x.level, NEW y, IsEntry(y)
    PROVE  SectionDone(DecodeSection(b, y, Len(H[k]), k), y, x, H[k], H[k + 1], k)
<1>1. Typed(x) /\ Indexed(x) /\ Len(x.message) <= MaxStr
  BY DEF Readable
<1>2. /\ k \in 0..(x.level + 1) /\ k + 1 \in 0..(x.level + 1) /\ k + 1 \in 1..(x.level + 1)
      /\ x.level + 1 \in 0..(x.level + 1) /\ (k + 1) - 1 = k /\ k \in Levels /\ k <= x.level
      /\ x.level \in Int /\ k \in Int
  <2>1. PICK n \in Levels : n = x.level
    BY <1>1, LevelIs
  <2>2. n \in Int /\ n <= 10 /\ n >= 0 /\ k \in 0..n
    BY <2>1 DEF Levels
  <2>3. /\ k \in 0..(n + 1) /\ k + 1 \in 0..(n + 1) /\ k + 1 \in 1..(n + 1)
        /\ n + 1 \in 0..(n + 1) /\ (k + 1) - 1 = k /\ k \in 0..10 /\ k <= n
    BY <2>2
  <2> QED
    BY <2>1, <2>2, <2>3 DEF Levels
<1>3. PICK a \in Text : a = H[k] /\ Len(a) >= 2
  BY <1>1, <1>2, EncodeGrows DEF Growing
<1>4. PICK c \in Text : c = H[k + 1]
  BY <1>1, <1>2, EncodeGrows DEF Growing
<1>5. c = EncodeSection(x, a, k)
  BY <1>2, <1>3, <1>4 DEF EncodesThrough
<1>6. b \in Text /\ Continues(b, c) /\ Len(b) = Len(H[x.level + 1])
  BY <1>1, <1>2, <1>4, EncodeIs
<1>7. k \in PlainLevels \/ k = Tags \/ k = Metric \/ k = Meta \/ k = StackTrace
  BY <1>2, LevelsAre
<1>8. CASE k \in PlainLevels
  BY <1>1, <1>3, <1>4, <1>5, <1>6, <1>8, PlainDone
<1>9. CASE k = Tags
  BY <1>1, <1>3, <1>4, <1>5, <1>6, <1>9, TagsDone
<1>10. CASE k = Metric
  <2>1. x.level >= Metric
    BY <1>2, <1>10
  <2>2. x.metricCount <= MaxStackTraceCount
    BY <1>1, <2>1 DEF Indexed
  <2>3. \A i \in 0..(x.metricCount - 1) : Len(x.metrics[i][1]) = KeyLen(x, i)
    BY <2>1 DEF Readable
  <2>4. Len(a) + 1 + MaxMetricCount * (MaxStr + 5) <= MaxEntrySize
    <3>1. a = H[6]
      BY <1>3, <1>10 DEF Metric
    <3> QED
      BY <2>1, <3>1, RoomForMetrics
  <2>5. SectionDone(DecodeSection(b, y, Len(a), Metric), y, x, a, c, Metric)
    BY <1>1, <1>3, <1>4, <1>5, <1>6, <1>10, <2>2, <2>3, <2>4, MetricsDone
  <2> QED
    BY <1>3, <1>4, <1>10, <2>5
<1>11. CASE k = Meta
  <2>1. Len(c) < Len(b) \/ \A i \in 0..(x.metaCount - 1) : x.meta[i][2] # <<>>
    <3>1. CASE x.level = Meta
      BY <3>1 DEF Readable
    <3>2. CASE x.level # Meta
      <4>1. k + 1 < x.level + 1
        BY <1>2, <1>11, <3>2
      <4>2. Len(H[k + 1]) < Len(H[x.level + 1])
        BY <1>1, <1>2, <4>1, EncodeGrows DEF Growing
      <4> QED
        BY <1>4, <1>6, <4>2
    <3> QED
      BY <3>1, <3>2
  <2>2. SectionDone(DecodeSection(b, y, Len(a), Meta), y, x, a, c, Meta)
    BY <1>1, <1>3, <1>4, <1>5, <1>6, <1>11, <2>1, MetaDone
  <2> QED
    BY <1>3, <1>4, <1>11, <2>2
<1>12. CASE k = StackTrace
  <2>1. x.level >= StackTrace
    BY <1>2, <1>12
  <2>2. \A i \in 0..(x.stackTraceCount - 1) : Len(x.trace[i][1]) <= MaxStr
    BY <2>1 DEF Readable
  <2>3. SectionDone(DecodeSection(b, y, Len(a), StackTrace), y, x, a, c, StackTrace)
    BY <1>1, <1>3, <1>4, <1>5, <1>6, <1>12, <2>2, FramesDone
  <2> QED
    BY <1>3, <1>4, <1>12, <2>3
<1> QED
  BY <1>7, <1>8, <1>9, <1>10, <1>11, <1>12

(* The loop over the sections has read those below k, and goes on if there *)
(* are more.                                                               *)
DecodedTo(g, x, H, k) ==
    /\ IsEntry(g.x) /\ g.s = Len(H[k])
    /\ g.go \in BOOLEAN /\ g.panic \in BOOLEAN /\ ~g.panic
    /\ k <= x.level => g.go
    /\ k > x.level => ~g.go
    /\ \A l \in Levels : l < k => SectionRead(g.x, x, H[l], l)
    /\ \A l \in Levels : l >= k => SectionEmpty(g.x, l)
    /\ k > 0 => g.x.level = k - 1

(* At first nothing is read: Entry.Reset has emptied the sections.         *)
LEMMA DecodedFirst ==
    ASSUME NEW x, Typed(x), NEW H, EncodesThrough(H, x), NEW y, IsEntry(y)
    PROVE  DecodedTo(Decoding(Reset(y), 2, TRUE, FALSE), x, H, 0)
<1>1. PICK g : g = Decoding(Reset(y), 2, TRUE, FALSE)
  OBVIOUS
<1>2. PICK z : z = Reset(y)
  OBVIOUS
<1>3. g.x = z /\ g.s = 2
  BY <1>1, <1>2 DEF Decoding
<1>4. g.go \in BOOLEAN /\ g.go
  BY <1>1 DEF Decoding
<1>5. g.panic \in BOOLEAN /\ ~g.panic
  BY <1>1 DEF Decoding
<1>6. IsEntry(z) /\ \A l \in Levels : SectionEmpty(z, l)
  BY <1>2, ResetSets DEF SectionEmpty
<1>7. Len(H[0]) = 2
  BY DEF EncodesThrough
<1>8. ~(0 > x.level) /\ \A l \in Levels : ~(l < 0)
  BY LevelIs DEF Levels
<1>9. DecodedTo(g, x, H, 0)
  BY <1>3, <1>4, <1>5, <1>6, <1>7, <1>8 DEF DecodedTo
<1> QED
  BY <1>1, <1>9

(* Reading one section leaves the earlier ones as they were read, the      *)
(* later ones empty, and goes on exactly if there are more.                *)
LEMMA DecodedNext ==
    ASSUME NEW x, Readable(x), NEW H, EncodesThrough(H, x), NEW b, b = Encode(x),
           NEW k \in 0..x.level, NEW g, DecodedTo(g, x, H, k)
    PROVE  DecodedTo(DecodeStep(b, g, k), x, H, k + 1)
<1>1. Typed(x) /\ Indexed(x)
  BY DEF Readable
<1>2. PICK n \in Levels : n = x.level
  BY <1>1, LevelIs
<1>3. /\ n \in Int /\ n <= 10 /\ n >= 0 /\ k \in 0..n /\ k \in Int /\ k <= n
      /\ k + 1 \in 0..(n + 1) /\ n + 1 \in 0..(n + 1) /\ k \in Levels /\ k + 1 > 0 /\ (k + 1) - 1 = k
  BY <1>2 DEF Levels
<1>4. PICK y : y = [g.x EXCEPT !.level = k]
  OBVIOUS
<1>5. IsEntry(g.x) /\ g.s = Len(H[k]) /\ g.go
  BY <1>2, <1>3 DEF DecodedTo
<1>6. IsEntry(y)
  <2>1. "level" \in Fields \ Arrays
    BY DEF Fields, Arrays
  <2>2. ASSUME NEW f \in Fields \ Arrays, NEW v PROVE IsEntry([g.x EXCEPT ![f] = v])
    BY <1>5, FieldAssigned
  <2> QED
    BY <1>4, <2>1, <2>2
<1>7. y.level = k
  BY <1>4, <1>5 DEF IsEntry, Fields
<1>8. \A f \in Fields : f # "level" => y[f] = g.x[f]
  BY <1>4, <1>5 DEF IsEntry
<1>9. PICK c : c = DecodeSection(b, y, Len(H[k]), k)
  OBVIOUS
<1>10. SectionDone(c, y, x, H[k], H[k + 1], k)
  BY <1>2, <1>3, <1>6, <1>9, SectionsRead
<1>11. DecodeStep(b, g, k) = Decoding(c.x, c.s, c.go /\ c.s < Len(b), c.panic)
  BY <1>4, <1>5, <1>9 DEF DecodeStep
<1>12. PICK r : r = Decoding(c.x, c.s, c.go /\ c.s < Len(b), c.panic)
  OBVIOUS
<1>13. r.x = c.x /\ r.s = c.s
  BY <1>12 DEF Decoding
<1>14. r.panic = c.panic
  BY <1>12 DEF Decoding
<1>15. r.go = (c.go /\ c.s < Len(b))
  BY <1>12 DEF Decoding
<1>16. /\ IsEntry(c.x) /\ c.s = Len(H[k + 1]) /\ c.go \in BOOLEAN /\ c.go /\ c.panic \in BOOLEAN /\ ~c.panic
       /\ SectionRead(c.x, x, H[k], k)
       /\ \A f \in Fields : f \notin Own(k) => c.x[f] = y[f]
  BY <1>10 DEF SectionDone
<1>17. Len(b) = Len(H[n + 1]) /\ Growing(H, n + 1) /\ H[k + 1] \in Text /\ H[n + 1] \in Text
  <2>1. Len(b) = Len(H[n + 1])
    BY <1>1, <1>2, EncodeIs
  <2>2. Growing(H, n + 1) /\ Growing(H, k + 1)
    BY <1>1, <1>2, <1>3, EncodeGrows
  <2> QED
    BY <2>1, <2>2 DEF Growing
<1>18. k + 1 <= n => c.s < Len(b)
  <2>1. HAVE k + 1 <= n
  <2>2. k + 1 < n + 1
    BY <1>3, <2>1
  <2> QED
    BY <1>3, <1>16, <1>17, <2>2 DEF Growing
<1>19. k + 1 > n => ~(c.s < Len(b))
  <2>1. HAVE k + 1 > n
  <2>2. k + 1 = n + 1
    BY <1>3, <2>1
  <2>3. c.s = Len(b) /\ Len(b) \in Nat
    BY <1>16, <1>17, <2>2, TextIs
  <2> QED
    BY <2>3
<1>20. ASSUME NEW l \in Levels, l # k, NEW f \in Own(l) PROVE c.x[f] = g.x[f]
  <2>1. f \notin Own(k) /\ f # "level" /\ f \in Fields
    BY <1>3, <1>20, OwnApart
  <2> QED
    BY <1>8, <1>16, <2>1
<1>21. ASSUME NEW l \in Levels, l < k + 1 PROVE SectionRead(c.x, x, H[l], l)
  <2>1. CASE l = k
    BY <1>16, <2>1
  <2>2. CASE l # k
    <3>1. l < k
      BY <1>3, <1>21, <2>2 DEF Levels
    <3>2. SectionRead(g.x, x, H[l], l)
      BY <3>1 DEF DecodedTo
    <3> QED
      BY <1>20, <2>2, <3>2, SectionsStay
  <2> QED
    BY <2>1, <2>2
<1>22. ASSUME NEW l \in Levels, l >= k + 1 PROVE SectionEmpty(c.x, l)
  <2>1. l >= k /\ l # k
    BY <1>3, <1>22 DEF Levels
  <2>2. SectionEmpty(g.x, l)
    BY <2>1 DEF DecodedTo
  <2> QED
    BY <1>20, <2>1, <2>2, SectionsStay
<1>23. c.x.level = k
  <2>1. "level" \in Fields
    BY DEF Fields
  <2>2. "level" \notin Own(k)
    <3>1. PICK m \in Levels : m # k
      BY <1>3 DEF Levels
    <3> QED
      BY <1>3, <3>1, OwnApart
  <2> QED
    BY <1>7, <1>16, <2>1, <2>2
<1>24. r.go \in BOOLEAN /\ (k + 1 <= n => r.go) /\ (k + 1 > n => ~r.go)
  BY <1>15, <1>16, <1>18, <1>19, Zenon
<1>25. DecodedTo(r, x, H, k + 1)
  <2>1. \A l \in Levels : l < k + 1 => SectionRead(r.x, x, H[l], l)
    BY <1>13, <1>21
  <2>2. \A l \in Levels : l >= k + 1 => SectionEmpty(r.x, l)
    BY <1>13, <1>22
  <2>3. IsEntry(r.x) /\ r.s = Len(H[k + 1]) /\ r.x.level = (k + 1) - 1
    BY <1>3, <1>13, <1>16, <1>23
  <2>4. r.panic \in BOOLEAN /\ ~r.panic
    BY <1>14, <1>16
  <2> QED
    BY <1>2, <1>24, <2>1, <2>2, <2>3, <2>4, Zenon DEF DecodedTo
<1> QED
  BY <1>11, <1>12, <1>25

(* y is what was sent of x.                                                *)
ReadOf(y, x, H) ==
    /\ y.level = x.level
    /\ \A l \in Levels : IF l <= x.level THEN SectionRead(y, x, H[l], l) ELSE SectionEmpty(y, l)

(* Where the bytes end, Decode stops,                                      *)
LEMMA DecodeStops ==
    ASSUME NEW b, NEW a, a.go \in BOOLEAN, ~a.go, NEW l
    PROVE  DecodeStep(b, a, l) = a
  BY DEF DecodeStep

(* with all sections up to the entry's level read: by induction over the   *)
(* sections.                                                               *)
LEMMA DecodedAll ==
    ASSUME NEW x, Readable(x), NEW H, EncodesThrough(H, x), NEW b, b = Encode(x), NEW y, IsEntry(y)
    PROVE  DecodedTo(DecodeSections(Reset(y), b), x, H, x.level + 1)
<1>1. Typed(x) /\ Indexed(x)
  BY DEF Readable
<1>2. PICK n \in Levels : n = x.level
  BY <1>1, LevelIs
<1>3. n \in 0..10 /\ n + 1 \in 0..11
  BY <1>2 DEF Levels
<1>4. PICK G : DecodesThrough(G, Reset(y), b)
  BY DecodeFold
<1>5. /\ G[0] = Decoding(Reset(y), 2, TRUE, FALSE) /\ G[11] = DecodeSections(Reset(y), b)
      /\ \A k \in 1..11 : G[k] = DecodeStep(b, G[k - 1], k - 1)
  BY <1>4 DEF DecodesThrough
<1> DEFINE to(k) == IF k <= n THEN k ELSE n + 1
           S == {k \in Nat : DecodedTo(G[k], x, H, to(k))}
<1>6. 0 \in S
  <2>1. to(0) = 0
    BY <1>3
  <2>2. DecodedTo(G[0], x, H, 0)
    BY <1>1, <1>5, DecodedFirst
  <2> QED
    BY <2>1, <2>2
<1>7. ASSUME NEW k \in 1..11, k - 1 \in S PROVE k \in S
  <2>1. DecodedTo(G[k - 1], x, H, to(k - 1)) /\ k \in Nat /\ G[k] = DecodeStep(b, G[k - 1], k - 1)
    BY <1>5, <1>7
  <2>2. CASE k - 1 <= n
    <3>1. to(k - 1) = k - 1 /\ to(k) = k /\ k - 1 \in 0..n /\ (k - 1) + 1 = k
      BY <1>3, <2>2
    <3>2. DecodedTo(G[k - 1], x, H, k - 1)
      BY <2>1, <3>1
    <3>3. DecodedTo(DecodeStep(b, G[k - 1], k - 1), x, H, (k - 1) + 1)
      BY <1>2, <3>1, <3>2, DecodedNext
    <3>4. DecodedTo(G[k], x, H, to(k))
      BY <2>1, <3>1, <3>3
    <3> QED
      BY <2>1, <3>4
  <2>3. CASE ~(k - 1 <= n)
    <3>1. to(k - 1) = n + 1 /\ to(k) = n + 1 /\ n + 1 > n
      BY <1>3, <2>3
    <3>2. DecodedTo(G[k - 1], x, H, n + 1)
      BY <2>1, <3>1
    <3>3. G[k - 1].go \in BOOLEAN /\ ~G[k - 1].go
      BY <1>2, <3>1, <3>2 DEF DecodedTo
    <3>4. G[k] = G[k - 1]
      BY <2>1, <3>3, DecodeStops
    <3>5. DecodedTo(G[k], x, H, to(k))
      BY <3>1, <3>2, <3>4
    <3> QED
      BY <2>1, <3>5
  <2> QED
    BY <2>2, <2>3
<1>8. 11 \in S
  <2> HIDE DEF S
  <2>1. \A k \in 0..11 : k \in S
    BY <1>6, <1>7, Decodes!BoundedInduction
  <2> QED
    BY <2>1
<1>9. to(11) = n + 1
  BY <1>3
<1>10. DecodedTo(G[11], x, H, n + 1)
  BY <1>8, <1>9
<1> QED
  BY <1>2, <1>5, <1>10

(* So Decode takes what Encode wrote and reports no error.                 *)
LEMMA DecodeReads ==
    ASSUME NEW x, Readable(x), NEW H, EncodesThrough(H, x), NEW y, IsEntry(y)
    PROVE  LET r == Decode(y, Encode(x)) IN r.err = "nil" /\ ReadOf(r.x, x, H) /\ IsEntry(r.x)
<1>1. Typed(x) /\ Indexed(x)
  BY DEF Readable
<1>2. PICK b : b = Encode(x)
  OBVIOUS
<1>3. PICK n \in Levels : n = x.level
  BY <1>1, LevelIs
<1>4. n \in 3..10 /\ n + 1 > n /\ n + 1 > 0 /\ (n + 1) - 1 = n
  BY <1>1, <1>3, LevelIs DEF Levels
<1>5. b \in Text /\ Len(b) = Len(H[n + 1]) /\ U16At(b, 0) = Len(b) /\ Len(b) \in Nat
  BY <1>1, <1>2, <1>3, EncodeIs, TextIs
<1>6. Len(b) >= 18
  <2>1. x.message \in Text
    BY <1>1 DEF Typed, Scalars
  <2>2. Len(H[4]) = 20 + Len(x.message) /\ Len(x.message) \in Nat
    BY <1>1, <2>1, HeadLength, TextIs
  <2>3. Growing(H, n + 1)
    <3>1. n + 1 \in 0..(n + 1)
      BY <1>4
    <3> QED
      BY <1>1, <1>3, <3>1, EncodeGrows
  <2>4. Len(H[4]) <= Len(H[n + 1])
    <3>1. 4 \in 0..(n + 1)
      BY <1>4
    <3> QED
      BY <2>3, <3>1 DEF Growing, Continues
  <2>5. PICK o \in Nat : o = Len(x.message)
    BY <2>2
  <2>6. 20 + o <= Len(b)
    BY <1>5, <2>2, <2>4, <2>5
  <2> QED
    BY <1>5, <2>6
<1>7. PICK g : g = DecodeSections(Reset(y), b)
  OBVIOUS
<1>8. DecodedTo(g, x, H, n + 1)
  BY <1>2, <1>3, <1>7, DecodedAll
<1>9. g.go \in BOOLEAN /\ ~g.go /\ g.panic \in BOOLEAN /\ ~g.panic /\ g.s = Len(b) /\ IsEntry(g.x)
  BY <1>3, <1>4, <1>5, <1>8 DEF DecodedTo
<1>10. PICK r : r = Decode(y, b)
  OBVIOUS
<1>11. r = [x   |-> IF g.go THEN [g.x EXCEPT !.level = TTLMeta + 1] ELSE g.x,
            err |-> IF g.panic THEN "panic" ELSE IF g.s # Len(b) THEN "ErrCorruptEntry" ELSE "nil"]
  <2>1. ~(Len(b) < 18) /\ ~(U16At(b, 0) # Len(b))
    BY <1>5, <1>6
  <2> QED
    BY <1>7, <1>10, <2>1 DEF Decode
<1>12. r.x = g.x
  BY <1>9, <1>11
<1>13. r.err = "nil"
  BY <1>9, <1>11
<1>14. ReadOf(g.x, x, H)
  <2>1. g.x.level = x.level
    BY <1>3, <1>4, <1>8 DEF DecodedTo
  <2>2. ASSUME NEW l \in Levels
        PROVE  IF l <= x.level THEN SectionRead(g.x, x, H[l], l) ELSE SectionEmpty(g.x, l)
    <3>1. CASE l <= n
      <4>1. l < n + 1
        BY <1>4, <3>1 DEF Levels
      <4> QED
        BY <1>3, <1>8, <3>1, <4>1 DEF DecodedTo
    <3>2. CASE ~(l <= n)
      <4>1. l >= n + 1
        BY <1>4, <3>2 DEF Levels
      <4> QED
        BY <1>3, <1>8, <3>2, <4>1 DEF DecodedTo
    <3> QED
      BY <3>1, <3>2
  <2> QED
    BY <2>1, <2>2 DEF ReadOf
<1> QED
  BY <1>2, <1>9, <1>10, <1>12, <1>13, <1>14

(* Nothing that is written depends on the level but for where it ends.     *)
LEMMA SameSections ==
    ASSUME NEW x, NEW y, \A f \in Fields : f # "level" => y[f] = x[f], NEW b, NEW l
    PROVE  EncodeSection(y, b, l) = EncodeSection(x, b, l)
<1>1. /\ y.bucketId = x.bucketId /\ y.id = x.id /\ y.severity = x.severity /\ y.message = x.message
      /\ y.categoryId = x.categoryId /\ y.ttlEntry = x.ttlEntry /\ y.ttlMeta = x.ttlMeta
  BY DEF Fields
<1>2. /\ y.tags = x.tags /\ y.tagsCount = x.tagsCount /\ y.metrics = x.metrics
      /\ y.metricCount = x.metricCount /\ y.meta = x.meta /\ y.metaCount = x.metaCount
      /\ y.trace = x.trace /\ y.stackTraceCount = x.stackTraceCount
  BY DEF Fields
<1>3. MetricItems(y) = MetricItems(x)
  BY <1>2 DEF MetricItems, MetricBytes, KeyLen
<1>4. MetaItems(y) = MetaItems(x) /\ FrameItems(y) = FrameItems(x)
  BY <1>2 DEF MetaItems, FrameItems
<1>5. TagsOf(y) = TagsOf(x)
  BY <1>2 DEF TagsOf
<1>6. EncodeTags(y, b) = EncodeTags(x, b)
  BY <1>2, <1>5, Zenon DEF EncodeTags, PutTag
<1> QED
  BY <1>1, <1>3, <1>4, <1>6 DEF EncodeSection

(* Encoding an entry up to an earlier level gives the length it had there. *)
LEMMA UpToLevel ==
    ASSUME NEW x, Typed(x), Indexed(x), NEW H, EncodesThrough(H, x), NEW m \in Metric..x.level
    PROVE  Len(Encode([x EXCEPT !.level = m])) = Len(H[m + 1])
<1>1. PICK y : y = [x EXCEPT !.level = m]
  OBVIOUS
<1>2. x = [f \in Fields |-> x[f]] /\ Scalars(x)
  BY DEF Typed
<1>3. y = [f \in Fields |-> y[f]] /\ \A f \in Fields : f # "level" => y[f] = x[f]
  BY <1>1, <1>2
<1>4. y.level = m
  BY <1>1, <1>2 DEF Fields
<1>5. /\ m \in Nat /\ m \in Message..TTLMeta /\ m >= Metric /\ x.level >= Metric /\ x.level \in Nat
      /\ m <= x.level
  <2>1. PICK n \in Levels : n = x.level
    BY LevelIs
  <2> QED
    BY <2>1 DEF Levels, Message, TTLMeta, Metric
<1>6. Typed(y)
  <2>1. Scalars(y)
    BY <1>2, <1>3, <1>4, <1>5 DEF Scalars, Fields
  <2>2. \A f \in ArrayFields : y[f] = x[f]
    BY <1>3 DEF ArrayFields, Fields
  <2> QED
    BY <1>3, <2>1, <2>2, ScalarsTyped
<1>7. Indexed(y)
  <2>1. y.metricCount = x.metricCount
    BY <1>3 DEF Fields
  <2> QED
    BY <1>5, <2>1 DEF Indexed
<1>8. PICK J : EncodesThrough(J, y)
  BY <1>6, EncodeFold
<1>9. /\ J[0] = H[0]
      /\ \A k \in 1..(m + 1) : J[k] = EncodeSection(x, J[k - 1], k - 1)
  BY <1>3, <1>4, <1>8, SameSections DEF EncodesThrough
<1> DEFINE S == {k \in Nat : J[k] = H[k]}
<1>10. 0 \in S
  BY <1>9
<1>11. ASSUME NEW k \in 1..(m + 1), k - 1 \in S PROVE k \in S
  <2>1. k \in 1..(x.level + 1) /\ k \in Nat /\ J[k - 1] = H[k - 1]
    BY <1>5, <1>11
  <2>2. H[k] = EncodeSection(x, H[k - 1], k - 1)
    BY <2>1 DEF EncodesThrough
  <2>3. J[k] = EncodeSection(x, J[k - 1], k - 1)
    BY <1>9
  <2> QED
    BY <2>1, <2>2, <2>3
<1>12. m + 1 \in S
  <2> HIDE DEF S
  <2>1. m + 1 \in Nat
    BY <1>5
  <2>2. \A k \in 0..(m + 1) : k \in S
    BY <1>10, <1>11, <2>1, Encoding!BoundedInduction
  <2> QED
    BY <2>1, <2>2
<1>13. Len(Encode(y)) = Len(J[m + 1])
  BY <1>4, <1>6, <1>7, <1>8, EncodeIs
<1> QED
  BY <1>1, <1>12, <1>13

(* The items in use.                                                       *)
LEMMA SameInUse ==
    ASSUME NEW y, NEW x, NEW array, NEW count, NEW n \in Nat, Same(y, x, array, count, n)
    PROVE  InUse(y[array], y[count]) = InUse(x[array], n)
<1>1. \A i \in 1..n : i - 1 \in 0..(n - 1)
  OBVIOUS
<1> QED
  BY <1>1 DEF Same, InUse

(* Fewer items of an array are the front of more of them.                  *)
LEMMA InUseFront ==
    ASSUME NEW A, NEW n \in Nat, NEW k \in Nat, n <= k
    PROVE  /\ IsPrefix(InUse(A, n), InUse(A, k)) /\ Len(InUse(A, n)) = n /\ Len(InUse(A, k)) = k
           /\ \A i \in 1..k : InUse(A, k)[i] = A[i - 1]
<1>1. PICK T : T = {A[i - 1] : i \in 1..k}
  OBVIOUS
<1>2. PICK s : s = InUse(A, n)
  OBVIOUS
<1>3. PICK t : t = InUse(A, k)
  OBVIOUS
<1>4. s \in Seq(T) /\ Len(s) = n /\ \A i \in 1..n : s[i] = A[i - 1]
  <2>1. s = [i \in 1..n |-> s[i]] /\ \A i \in 1..n : s[i] = A[i - 1]
    BY <1>2 DEF InUse
  <2>2. \A i \in 1..n : i \in 1..k
    OBVIOUS
  <2>3. \A i \in 1..n : s[i] \in T
    BY <1>1, <2>1, <2>2
  <2> QED
    BY <2>1, <2>3, ListOf
<1>5. t \in Seq(T) /\ Len(t) = k /\ \A i \in 1..k : t[i] = A[i - 1]
  <2>1. t = [i \in 1..k |-> t[i]] /\ \A i \in 1..k : t[i] = A[i - 1]
    BY <1>3 DEF InUse
  <2>2. \A i \in 1..k : t[i] \in T
    BY <1>1, <2>1
  <2> QED
    BY <2>1, <2>2, ListOf
<1>6. PICK u : u = SubSeq(s, 1, n)
  OBVIOUS
<1>7. PICK v : v = SubSeq(t, 1, n)
  OBVIOUS
<1>8. u \in Seq(T) /\ Len(u) = n /\ \A i \in 1..n : u[i] = s[i]
  BY <1>4, <1>6
<1>9. v \in Seq(T) /\ Len(v) = n /\ \A i \in 1..n : v[i] = t[i]
  BY <1>5, <1>7
<1>10. u = v
  <2>1. ASSUME NEW i \in 1..n PROVE u[i] = v[i]
    <3>1. i \in 1..k
      OBVIOUS
    <3>2. u[i] = A[i - 1]
      BY <1>4, <1>8
    <3>3. v[i] = A[i - 1]
      BY <1>5, <1>9, <3>1
    <3> QED
      BY <3>2, <3>3
  <2>2. u = [i \in 1..n |-> u[i]] /\ v = [i \in 1..n |-> v[i]]
    BY <1>8, <1>9
  <2> QED
    BY <2>1, <2>2, SameList
<1>11. IsPrefix(s, t)
  BY <1>4, <1>5, <1>6, <1>7, <1>10 DEF IsPrefix
<1> QED
  BY <1>2, <1>3, <1>4, <1>5, <1>11

(* What the sections say about arrays.                                     *)
LEMMA SectionsApply ==
    ASSUME NEW y, NEW x, NEW a
    PROVE  /\ SectionRead(y, x, a, Tags) => Same(y, x, "tags", "tagsCount", x.tagsCount)
           /\ SectionRead(y, x, a, Metric) => Same(y, x, "metrics", "metricCount", x.metricCount)
           /\ SectionRead(y, x, a, Meta) => Same(y, x, "meta", "metaCount", MetaFit(x, a))
           /\ SectionRead(y, x, a, StackTrace) => Same(y, x, "trace", "stackTraceCount", FramesFit(x, a))
           /\ SectionEmpty(y, Tags) => y.tagsCount = 0
           /\ SectionEmpty(y, Metric) => y.metricCount = 0
           /\ SectionEmpty(y, Meta) => y.metaCount = 0
           /\ SectionEmpty(y, StackTrace) => y.stackTraceCount = 0
  BY DEF SectionRead, SectionEmpty

(* An array of which nothing is in use is read as an empty list.           *)
LEMMA NoneInUse ==
    ASSUME NEW A
    PROVE  InUse(A, 0) = <<>> /\ IsPrefix(<<>>, <<>>) /\ Len(<<>>) = 0
<1>1. InUse(A, 0) = <<>>
  BY DEF InUse
<1> QED
  BY <1>1 DEF IsPrefix

(* The levels.                                                             *)
LEMMA LevelsIn == Tags \in Levels /\ Metric \in Levels /\ Meta \in Levels /\ StackTrace \in Levels
                  /\ BucketId \in Levels /\ EntryId \in Levels /\ SeverityOf \in Levels
                  /\ Message \in Levels /\ CategoryId \in Levels
                  /\ TTLEntry \in Levels /\ TTLMeta \in Levels
  BY DEF Levels, BucketId, EntryId, SeverityOf, Message, CategoryId, TTLEntry, TTLMeta,
         Tags, Metric, Meta, StackTrace

(* Metadata is cut only at its end, and only when the slot is full;        *)
LEMMA MetaCut ==
    ASSUME NEW x, Readable(x), NEW H, EncodesThrough(H, x), NEW y, ReadOf(y, x, H)
    PROVE  LET sent == IF x.level >= Meta THEN MetaOf(x) ELSE <<>>
           IN /\ IsPrefix(MetaOf(y), sent)
              /\ Len(MetaOf(y)) < Len(sent) =>
                    Len(Encode([x EXCEPT !.level = Meta])) + Len(MetaBytes(MetaOf(x)[Len(MetaOf(y)) + 1]))
                       > MaxEntrySize
<1>1. Typed(x) /\ Indexed(x)
  BY DEF Readable
<1>2. PICK n \in Levels : n = x.level
  BY <1>1, LevelIs
<1>3. CASE n >= Meta
  <2>1. /\ Meta <= n /\ Meta \in Metric..n /\ 7 \in 0..(n + 1) /\ 8 \in 1..(n + 1) /\ n \in Nat
        /\ Meta + 1 = 8 /\ Meta = 7 /\ 8 - 1 = 7
    BY <1>2, <1>3 DEF Levels, Meta, Metric
  <2>2. PICK a \in Text : a = H[7]
    BY <1>1, <1>2, <2>1, EncodeGrows DEF Growing
  <2>3. PICK items \in Seq(Items) : items = MetaItems(x)
    BY <1>1, MetaItemsAre
  <2>4. PICK k : k = PutItems(a, items).n
    OBVIOUS
  <2>5. PICK c : c = Counted(a, items)
    OBVIOUS
  <2>6. H[8] = c
    <3>1. H[8] = EncodeSection(x, H[7], Meta)
      BY <1>2, <2>1 DEF EncodesThrough
    <3> QED
      BY <2>2, <2>3, <2>5, <3>1, CountedSections
  <2>7. k \in 0..Len(items) /\ (k < Len(items) => Len(c) + items[k + 1].size > MaxEntrySize)
    BY <2>4, <2>5, CountedWrites
  <2>8. Len(items) = x.metaCount /\ x.metaCount \in Nat
    BY <1>1, <2>3, MetaItemsAre DEF Typed, HasMeta, Holds
  <2>9. Same(y, x, "meta", "metaCount", k)
    <3>1. SectionRead(y, x, H[Meta], Meta)
      BY <1>2, <2>1, LevelsIn DEF ReadOf
    <3>2. Same(y, x, "meta", "metaCount", MetaFit(x, a))
      BY <2>1, <2>2, <3>1, SectionsApply
    <3> QED
      BY <2>3, <2>4, <3>2 DEF MetaFit
  <2>10. k \in Nat /\ k <= x.metaCount
    BY <2>7, <2>8
  <2>11. MetaOf(y) = InUse(x.meta, k)
    BY <2>9, <2>10, SameInUse DEF MetaOf
  <2>12. /\ IsPrefix(MetaOf(y), MetaOf(x)) /\ Len(MetaOf(y)) = k /\ Len(MetaOf(x)) = x.metaCount
         /\ \A i \in 1..x.metaCount : MetaOf(x)[i] = x.meta[i - 1]
    <3>1. PICK A : A = x.meta
      OBVIOUS
    <3>2. PICK t \in Nat : t = x.metaCount
      BY <2>8
    <3>3. MetaOf(x) = InUse(A, t) /\ MetaOf(y) = InUse(A, k) /\ k <= t
      BY <2>10, <2>11, <3>1, <3>2 DEF MetaOf
    <3>4. /\ IsPrefix(InUse(A, k), InUse(A, t)) /\ Len(InUse(A, k)) = k /\ Len(InUse(A, t)) = t
          /\ \A i \in 1..t : InUse(A, t)[i] = A[i - 1]
      BY <2>10, <3>3, InUseFront
    <3> QED
      BY <3>1, <3>2, <3>3, <3>4, Zenon
  <2>13. ASSUME k < x.metaCount
         PROVE  Len(Encode([x EXCEPT !.level = Meta])) + Len(MetaBytes(MetaOf(x)[k + 1])) > MaxEntrySize
    <3>1. k + 1 \in 1..x.metaCount
      BY <2>8, <2>10, <2>13
    <3>2. items[k + 1].size = Len(MetaBytes(MetaOf(x)[k + 1]))
      BY <1>1, <2>3, <2>12, <3>1, MetaItemsAre
    <3>3. Len(Encode([x EXCEPT !.level = Meta])) = Len(c)
      BY <1>1, <1>2, <2>1, <2>6, UpToLevel
    <3>4. Len(c) + items[k + 1].size > MaxEntrySize
      BY <2>7, <2>8, <2>13
    <3> QED
      BY <3>2, <3>3, <3>4
  <2> QED
    BY <1>2, <1>3, <2>12, <2>13
<1>4. CASE ~(n >= Meta)
  <2>1. ~(Meta <= n)
    BY <1>2, <1>4 DEF Levels, Meta
  <2>2. SectionEmpty(y, Meta)
    BY <1>2, <2>1, LevelsIn DEF ReadOf
  <2>3. y.metaCount = 0
    BY <2>2, SectionsApply
  <2>4. MetaOf(y) = <<>>
    BY <2>3, NoneInUse DEF MetaOf
  <2>5. IsPrefix(MetaOf(y), <<>>) /\ ~(Len(MetaOf(y)) < Len(<<>>))
    BY <2>4, NoneInUse
  <2> QED
    BY <1>2, <1>4, <2>5
<1> QED
  BY <1>3, <1>4

(* so is the stack trace.                                                  *)
LEMMA FramesCut ==
    ASSUME NEW x, Readable(x), NEW H, EncodesThrough(H, x), NEW y, ReadOf(y, x, H)
    PROVE  LET sent == IF x.level >= StackTrace THEN TraceOf(x) ELSE <<>>
           IN /\ IsPrefix(TraceOf(y), sent)
              /\ Len(TraceOf(y)) < Len(sent) =>
                    Len(Encode([x EXCEPT !.level = StackTrace]))
                       + Len(FrameBytes(TraceOf(x)[Len(TraceOf(y)) + 1])) > MaxEntrySize
<1>1. Typed(x) /\ Indexed(x)
  BY DEF Readable
<1>2. PICK n \in Levels : n = x.level
  BY <1>1, LevelIs
<1>3. CASE n >= StackTrace
  <2>1. /\ StackTrace <= n /\ StackTrace \in Metric..n /\ 8 \in 0..(n + 1) /\ 9 \in 1..(n + 1) /\ n \in Nat
        /\ StackTrace + 1 = 9 /\ StackTrace = 8 /\ 9 - 1 = 8
    BY <1>2, <1>3 DEF Levels, StackTrace, Metric
  <2>2. PICK a \in Text : a = H[8]
    BY <1>1, <1>2, <2>1, EncodeGrows DEF Growing
  <2>3. PICK items \in Seq(Items) : items = FrameItems(x)
    BY <1>1, FrameItemsAre
  <2>4. PICK k : k = PutItems(a, items).n
    OBVIOUS
  <2>5. PICK c : c = Counted(a, items)
    OBVIOUS
  <2>6. H[9] = c
    <3>1. H[9] = EncodeSection(x, H[8], StackTrace)
      BY <1>2, <2>1 DEF EncodesThrough
    <3> QED
      BY <2>2, <2>3, <2>5, <3>1, CountedSections
  <2>7. k \in 0..Len(items) /\ (k < Len(items) => Len(c) + items[k + 1].size > MaxEntrySize)
    BY <2>4, <2>5, CountedWrites
  <2>8. Len(items) = x.stackTraceCount /\ x.stackTraceCount \in Nat
    BY <1>1, <2>3, FrameItemsAre DEF Typed, HasTrace, Holds
  <2>9. Same(y, x, "trace", "stackTraceCount", k)
    <3>1. SectionRead(y, x, H[StackTrace], StackTrace)
      BY <1>2, <2>1, LevelsIn DEF ReadOf
    <3>2. Same(y, x, "trace", "stackTraceCount", FramesFit(x, a))
      BY <2>1, <2>2, <3>1, SectionsApply
    <3> QED
      BY <2>3, <2>4, <3>2 DEF FramesFit
  <2>10. k \in Nat /\ k <= x.stackTraceCount
    BY <2>7, <2>8
  <2>11. TraceOf(y) = InUse(x.trace, k)
    BY <2>9, <2>10, SameInUse DEF TraceOf
  <2>12. /\ IsPrefix(TraceOf(y), TraceOf(x)) /\ Len(TraceOf(y)) = k /\ Len(TraceOf(x)) = x.stackTraceCount
         /\ \A i \in 1..x.stackTraceCount : TraceOf(x)[i] = x.trace[i - 1]
    <3>1. PICK A : A = x.trace
      OBVIOUS
    <3>2. PICK t \in Nat : t = x.stackTraceCount
      BY <2>8
    <3>3. TraceOf(x) = InUse(A, t) /\ TraceOf(y) = InUse(A, k) /\ k <= t
      BY <2>10, <2>11, <3>1, <3>2 DEF TraceOf
    <3>4. /\ IsPrefix(InUse(A, k), InUse(A, t)) /\ Len(InUse(A, k)) = k /\ Len(InUse(A, t)) = t
          /\ \A i \in 1..t : InUse(A, t)[i] = A[i - 1]
      BY <2>10, <3>3, InUseFront
    <3> QED
      BY <3>1, <3>2, <3>3, <3>4, Zenon
  <2>13. ASSUME k < x.stackTraceCount
         PROVE  Len(Encode([x EXCEPT !.level = StackTrace])) + Len(FrameBytes(TraceOf(x)[k + 1]))
                    > MaxEntrySize
    <3>1. k + 1 \in 1..x.stackTraceCount
      BY <2>8, <2>10, <2>13
    <3>2. items[k + 1].size = Len(FrameBytes(TraceOf(x)[k + 1]))
      BY <1>1, <2>3, <2>12, <3>1, FrameItemsAre
    <3>3. Len(Encode([x EXCEPT !.level = StackTrace])) = Len(c)
      BY <1>1, <1>2, <2>1, <2>6, UpToLevel
    <3>4. Len(c) + items[k + 1].size > MaxEntrySize
      BY <2>7, <2>8, <2>13
    <3> QED
      BY <3>2, <3>3, <3>4
  <2> QED
    BY <1>2, <1>3, <2>12, <2>13
<1>4. CASE ~(n >= StackTrace)
  <2>1. ~(StackTrace <= n)
    BY <1>2, <1>4 DEF Levels, StackTrace
  <2>2. SectionEmpty(y, StackTrace)
    BY <1>2, <2>1, LevelsIn DEF ReadOf
  <2>3. y.stackTraceCount = 0
    BY <2>2, SectionsApply
  <2>4. TraceOf(y) = <<>>
    BY <2>3, NoneInUse DEF TraceOf
  <2>5. IsPrefix(TraceOf(y), <<>>) /\ ~(Len(TraceOf(y)) < Len(<<>>))
    BY <2>4, NoneInUse
  <2> QED
    BY <1>2, <1>4, <2>5
<1> QED
  BY <1>3, <1>4

(* What the handler read is what was sent.                                 *)
ReadInv ==
    result # "none" /\ Regular(last) =>
        result = "nil" /\ \E H : EncodesThrough(H, last) /\ ReadOf(d, last, H)

(* All tags are read,                                                      *)
LEMMA TagsAll ==
    ASSUME NEW x, Typed(x), NEW H, NEW y, ReadOf(y, x, H)
    PROVE  TagsOf(y) = IF x.level >= Tags THEN TagsOf(x) ELSE <<>>
<1>1. PICK n \in Levels : n = x.level
  BY LevelIs
<1>2. x.tagsCount \in Nat
  BY LimitsAreNat DEF Typed, HasTags, Holds
<1>3. CASE n >= Tags
  <2>1. Tags <= n
    BY <1>1, <1>3 DEF Levels, Tags
  <2>2. Same(y, x, "tags", "tagsCount", x.tagsCount)
    BY <1>1, <2>1, LevelsIn, SectionsApply DEF ReadOf
  <2>3. TagsOf(y) = TagsOf(x)
    BY <1>2, <2>2, SameInUse DEF TagsOf
  <2> QED
    BY <1>1, <1>3, <2>3
<1>4. CASE ~(n >= Tags)
  <2>1. ~(Tags <= n)
    BY <1>1, <1>4 DEF Levels, Tags
  <2>2. y.tagsCount = 0
    BY <1>1, <2>1, LevelsIn, SectionsApply DEF ReadOf
  <2>3. TagsOf(y) = <<>>
    BY <2>2, NoneInUse DEF TagsOf
  <2> QED
    BY <1>1, <1>4, <2>3
<1> QED
  BY <1>3, <1>4

(* all metrics,                                                            *)
LEMMA MetricsAll ==
    ASSUME NEW x, Typed(x), NEW H, NEW y, ReadOf(y, x, H)
    PROVE  MetricsOf(y) = IF x.level >= Metric THEN MetricsOf(x) ELSE <<>>
<1>1. PICK n \in Levels : n = x.level
  BY LevelIs
<1>2. x.metricCount \in Nat
  BY LimitsAreNat DEF Typed, HasMetrics, Holds
<1>3. CASE n >= Metric
  <2>1. Metric <= n
    BY <1>1, <1>3 DEF Levels, Metric
  <2>2. Same(y, x, "metrics", "metricCount", x.metricCount)
    BY <1>1, <2>1, LevelsIn, SectionsApply DEF ReadOf
  <2>3. MetricsOf(y) = MetricsOf(x)
    BY <1>2, <2>2, SameInUse DEF MetricsOf
  <2> QED
    BY <1>1, <1>3, <2>3
<1>4. CASE ~(n >= Metric)
  <2>1. ~(Metric <= n)
    BY <1>1, <1>4 DEF Levels, Metric
  <2>2. y.metricCount = 0
    BY <1>1, <2>1, LevelsIn, SectionsApply DEF ReadOf
  <2>3. MetricsOf(y) = <<>>
    BY <2>2, NoneInUse DEF MetricsOf
  <2> QED
    BY <1>1, <1>4, <2>3
<1> QED
  BY <1>3, <1>4

(* and the rest, with no TTL where none was sent.                          *)
LEMMA ScalarsRead ==
    ASSUME NEW x, Typed(x), NEW H, NEW y, ReadOf(y, x, H)
    PROVE  /\ \A f \in {"bucketId", "id", "severity", "message"} : y[f] = x[f]
           /\ x.level >= CategoryId => y.categoryId = x.categoryId
           /\ y.ttlEntry = (IF x.level >= TTLEntry THEN x.ttlEntry ELSE 0)
           /\ y.ttlMeta = (IF x.level >= TTLMeta THEN x.ttlMeta ELSE 0)
<1>1. PICK n \in Levels : n = x.level /\ n >= 3
  BY LevelIs
<1>2. \A l \in Levels : IF l <= n THEN SectionRead(y, x, H[l], l) ELSE SectionEmpty(y, l)
  BY <1>1 DEF ReadOf
<1>3. BucketId <= n /\ EntryId <= n /\ SeverityOf <= n /\ Message <= n
  BY <1>1 DEF Levels, BucketId, EntryId, SeverityOf, Message
<1>4. \A l \in Levels : n >= l <=> l <= n
  BY <1>1 DEF Levels
<1>5. y.bucketId = x.bucketId
  BY <1>2, <1>3, LevelsIn DEF SectionRead
<1>6. y.id = x.id
  BY <1>2, <1>3, LevelsIn DEF SectionRead
<1>7. y.severity = x.severity
  BY <1>2, <1>3, LevelsIn DEF SectionRead
<1>8. y.message = x.message
  BY <1>2, <1>3, LevelsIn DEF SectionRead
<1>9. x.level >= CategoryId => y.categoryId = x.categoryId
  BY <1>1, <1>2, <1>4, LevelsIn DEF SectionRead
<1>10. y.ttlEntry = (IF x.level >= TTLEntry THEN x.ttlEntry ELSE 0)
  BY <1>1, <1>2, <1>4, LevelsIn DEF SectionRead, SectionEmpty
<1>11. y.ttlMeta = (IF x.level >= TTLMeta THEN x.ttlMeta ELSE 0)
  BY <1>1, <1>2, <1>4, LevelsIn DEF SectionRead, SectionEmpty
<1> QED
  BY <1>5, <1>6, <1>7, <1>8, <1>9, <1>10, <1>11

(* This is what ReadsBack says.                                            *)
LEMMA ReadInvReadsBack == EntryInv /\ ReadInv => ReadsBack
<1> SUFFICES ASSUME EntryInv, ReadInv, result # "none", Regular(last)
             PROVE  /\ result = "nil" /\ d.level = last.level
                    /\ \A f \in {"bucketId", "id", "severity", "message"} : d[f] = last[f]
                    /\ last.level >= CategoryId => d.categoryId = last.categoryId
                    /\ TagsOf(d) = Sent(Tags, TagsOf(last))
                    /\ MetricsOf(d) = Sent(Metric, MetricsOf(last))
                    /\ CutOnlyWhenFull(MetaOf(d), Meta, MetaOf(last), MetaBytes)
                    /\ CutOnlyWhenFull(TraceOf(d), StackTrace, TraceOf(last), FrameBytes)
                    /\ d.ttlEntry = (IF last.level >= TTLEntry THEN last.ttlEntry ELSE 0)
                    /\ d.ttlMeta = (IF last.level >= TTLMeta THEN last.ttlMeta ELSE 0)
  BY DEF ReadsBack
<1>1. PICK H : EncodesThrough(H, last) /\ ReadOf(d, last, H)
  BY DEF ReadInv
<1>2. Typed(last) /\ Readable(last)
  BY RegularReads DEF EntryInv
<1>3. result = "nil" /\ d.level = last.level
  BY <1>1 DEF ReadInv, ReadOf
<1>4. /\ \A f \in {"bucketId", "id", "severity", "message"} : d[f] = last[f]
      /\ last.level >= CategoryId => d.categoryId = last.categoryId
      /\ d.ttlEntry = (IF last.level >= TTLEntry THEN last.ttlEntry ELSE 0)
      /\ d.ttlMeta = (IF last.level >= TTLMeta THEN last.ttlMeta ELSE 0)
  BY <1>1, <1>2, ScalarsRead
<1>5. TagsOf(d) = Sent(Tags, TagsOf(last)) /\ MetricsOf(d) = Sent(Metric, MetricsOf(last))
  BY <1>1, <1>2, TagsAll, MetricsAll DEF Sent
<1>6. CutOnlyWhenFull(MetaOf(d), Meta, MetaOf(last), MetaBytes)
  BY <1>1, <1>2, MetaCut DEF CutOnlyWhenFull, Sent
<1>7. CutOnlyWhenFull(TraceOf(d), StackTrace, TraceOf(last), FrameBytes)
  BY <1>1, <1>2, FramesCut DEF CutOnlyWhenFull, Sent
<1> QED
  BY <1>3, <1>4, <1>5, <1>6, <1>7

(* An entry that arrives is read.                                          *)
LEMMA ArrivesReads ==
    ASSUME EntryInv, EntryInv', NEW x, Arrives(x)
    PROVE  ReadInv'
<1> SUFFICES ASSUME result' # "none", Regular(last)'
             PROVE  result' = "nil" /\ \E H : EncodesThrough(H, last') /\ ReadOf(d', last', H)
  BY DEF ReadInv
<1>1. last' = x /\ Regular(x)
  BY DEF Arrives
<1>2. Typed(x) /\ Fits(x.message) /\ IsEntry(d)
  BY <1>1 DEF EntryInv
<1>3. Readable(x) /\ ~EncodePanics(x)
  BY <1>1, <1>2, RegularReads DEF Regular
<1>4. PICK H : EncodesThrough(H, x)
  BY <1>2, EncodeFold
<1>5. PICK r : r = Decode(d, Encode(x))
  OBVIOUS
<1>6. d' = r.x /\ result' = r.err
  BY <1>3, <1>5 DEF Arrives
<1>7. r.err = "nil" /\ ReadOf(r.x, x, H)
  BY <1>2, <1>3, <1>4, <1>5, DecodeReads
<1> QED
  BY <1>1, <1>4, <1>6, <1>7

(* Only what arrives changes what was sent and read.                       *)
LEMMA StepsAre ==
    ASSUME [EntryNext]_entryVars
    PROVE  (d' = d /\ last' = last /\ result' = result) \/ \E x : Arrives(x)
<1> DEFINE SentKept == d' = d /\ last' = last /\ result' = result
<1>1. ASSUME NEW x, LoggerSets(x) PROVE SentKept
  BY <1>1 DEF LoggerSets
<1>2. ASSUME NEW x, Changes(x) PROVE SentKept
  BY <1>2 DEF Changes
<1>3. CASE LoggerStep
  BY <1>1, <1>3 DEF LoggerStep, LoggerTag, LoggerMeta, LoggerMetric, LoggerCat, LoggerTTL, LoggerMetaTTL
<1>4. CASE EntryStep
  BY <1>2, <1>4 DEF EntryStep, Assigns, Cat, TTL, MetaTTL, Trace, Tag, PrependTag, AddMeta,
     AddMetric, ManualTrace
<1>5. ASSUME NEW m, NEW ts, Log(6, m, ts) PROVE SentKept
  BY <1>5 DEF Log
<1>6. ASSUME NEW m, NEW ts, SendError(m, ts) PROVE \E x : Arrives(x)
  BY <1>6 DEF SendError
<1>7. CASE Send
  <2>1. Arrives(e')
    BY <1>7 DEF Send
  <2>2. PICK x : x = e'
    OBVIOUS
  <2>3. Arrives(x)
    BY <2>1, <2>2 DEF Arrives
  <2> QED
    BY <2>3
<1>8. CASE Drop
  BY <1>8 DEF Drop
<1>9. CASE UNCHANGED entryVars
  BY <1>9 DEF entryVars
<1> QED
  BY <1>3, <1>4, <1>5, <1>6, <1>7, <1>8, <1>9 DEF EntryNext

(* So every step keeps ReadInv.                                            *)
LEMMA ReadInvNext == EntryInv /\ EntryInv' /\ ReadInv /\ [EntryNext]_entryVars => ReadInv'
<1> SUFFICES ASSUME EntryInv, EntryInv', ReadInv, [EntryNext]_entryVars PROVE ReadInv'
  OBVIOUS
<1>1. ASSUME d' = d, last' = last, result' = result PROVE ReadInv'
  <2>1. SUFFICES ASSUME result' # "none", Regular(last)'
                 PROVE  result' = "nil" /\ \E H : EncodesThrough(H, last') /\ ReadOf(d', last', H)
    BY DEF ReadInv
  <2>2. Regular(last) /\ result # "none"
    BY <1>1, <2>1
  <2> QED
    BY <1>1, <2>2 DEF ReadInv
<1>2. ASSUME NEW x, Arrives(x) PROVE ReadInv'
  BY <1>2, ArrivesReads
<1> QED
  BY <1>1, <1>2, StepsAre

(* What the handler's Entry holds after Decode is exactly what was sent,   *)
(* for every size of the slot, of the arrays and of the strings, every     *)
(* argument of the methods and every sequence of their calls: no section   *)
(* of an earlier entry shows through, and metadata and stack trace lose    *)
(* items only at their end and only when the slot is full.                 *)
THEOREM ReadsBackHolds == EntrySpec => []ReadsBack
<1>1. EntryInit => ReadInv
  BY DEF EntryInit, ReadInv
<1> QED
  BY <1>1, EntryInvHolds, ReadInvNext, ReadInvReadsBack, PTL DEF EntrySpec
============================================================================
