---------------------------- MODULE LoggerProofs ----------------------------
(***************************************************************************)
(* Proofs that recycling loggers and entries is invisible, for any number  *)
(* of users, Pools, loggers and entries, any MaxTagsCount and any          *)
(* categories.                                                             *)
(***************************************************************************)
EXTENDS LoggerProperties, SequenceTheorems, TLAPS

(* What entries hold, and that an entry that is to be sent has a logger.   *)
EntryRecords ==
    [bucketId : Pools \cup {0}, categoryId : Categories \cup {0},
     tags : TagLists, logger : LoggerIds \cup {None}]

EntriesTyped == entries \in [EntryIds -> EntryRecords]

DraftHasLogger == \A u \in Users : draft[u] # None => entries[draft[u]].logger \in LoggerIds

LoggerInv == LoggersTypeOK /\ EntriesTyped /\ DraftHasLogger /\ Exclusive /\ PooledIsClean

----------------------------------------------------------------------------
(* Lists of tags, and what is left of them when they are cut to MaxTags.   *)
LEMMA TagListIsSeq == \A t \in TagLists : t \in Seq(Users) /\ Len(t) \in 0..MaxTags
<1> SUFFICES ASSUME NEW t \in TagLists PROVE t \in Seq(Users) /\ Len(t) \in 0..MaxTags
  OBVIOUS
<1>1. PICK n \in 0..MaxTags : t \in [1..n -> Users]
  BY DEF TagLists
<1> QED
  BY <1>1, LoggersAssumption

(* What is cut from any tags is a list of tags, ...                        *)
LEMMA FrontType == ASSUME NEW s \in Seq(Users) PROVE Front(s) \in TagLists
<1>1. PICK n \in 0..MaxTags : n = IF Len(s) < MaxTags THEN Len(s) ELSE MaxTags
  BY LoggersAssumption, LenProperties
<1>2. n \in 0..Len(s) /\ Len(s) \in Nat
  BY <1>1, LoggersAssumption, LenProperties
<1>3. \A i \in 1..n : s[i] \in Users
  <2> SUFFICES ASSUME NEW i \in 1..n PROVE s[i] \in Users
    OBVIOUS
  <2>1. i \in 1..Len(s)
    BY <1>2
  <2> QED
    BY <2>1, ElementOfSeq
<1>4. SubSeq(s, 1, n) \in [1..n -> Users]
  <2>1. SubSeq(s, 1, n) \in Seq(Users) /\ Len(SubSeq(s, 1, n)) = n
    BY <1>2, <1>3, SubSeqProperties
  <2> QED
    BY <2>1, LenProperties
<1> QED
  BY <1>1, <1>4 DEF Front, TagLists

(* ... a list that is short enough is left as it is, ...                   *)
LEMMA FrontShort == ASSUME NEW t \in TagLists PROVE Front(t) = t
<1>1. t \in Seq(Users) /\ Len(t) \in 0..MaxTags
  BY TagListIsSeq
<1>2. Front(t) = SubSeq(t, 1, Len(t))
  BY <1>1, LoggersAssumption DEF Front
<1> QED
  BY <1>1, <1>2

(* ... and no tags are a list of tags.                                     *)
LEMMA EmptyTags == <<>> \in TagLists
<1>1. <<>> \in [1..0 -> Users] /\ 0 \in 0..MaxTags
  BY LoggersAssumption
<1> QED
  BY <1>1 DEF TagLists

----------------------------------------------------------------------------
(* Who gets a logger gets a clean one that nobody has, that no entry will  *)
(* read and that is in no pool any more.                                   *)
LEMMA GotLogger ==
    ASSUME LoggerInv, NEW u \in Users, NEW l \in LoggerIds, NEW start, GetsLogger(u, l, start)
    PROVE  /\ start = NewLogger
           /\ \A v \in Users : mine[v] # l
           /\ \A v \in Users : draft[v] # None /\ v \notin loose => entries[draft[v]].logger # l
           /\ loggerPool' \in [Pools -> SUBSET LoggerIds]
           /\ \A p \in Pools : loggerPool'[p] \subseteq loggerPool[p] \ {l}
<1> USE DEF LoggerInv
<1>1. BucketOf[u] \in Pools /\ loggerPool \in [Pools -> SUBSET LoggerIds]
  BY DEF Pools, LoggersTypeOK
<1>2. CASE /\ l \in loggerPool[BucketOf[u]]
           /\ start = settings[l]
           /\ loggerPool' = [loggerPool EXCEPT ![BucketOf[u]] = @ \ {l}]
  <2>1. start = NewLogger
    BY <1>1, <1>2 DEF PooledIsClean
  <2>2. \A p \in Pools : loggerPool'[p] \subseteq loggerPool[p] \ {l}
    BY <1>1, <1>2 DEF Exclusive
  <2> QED
    BY <1>1, <1>2, <2>1, <2>2 DEF Exclusive
<1>3. CASE l \in GarbageLoggers /\ start = NewLogger /\ loggerPool' = loggerPool
  <2>1. /\ \A p \in Pools : l \notin loggerPool[p]
        /\ \A v \in Users : mine[v] # l
        /\ \A v \in Users : draft[v] # None => entries[draft[v]].logger # l
    <3>1. l \notin UNION {loggerPool[p] : p \in Pools} /\ l \notin {mine[v] : v \in Users}
          /\ l \notin {entries[e].logger : e \in Drafts}
      BY <1>3 DEF GarbageLoggers
    <3>2. \A v \in Users : draft[v] # None => draft[v] \in Drafts
      BY DEF Drafts
    <3>3. \A v \in Users : draft[v] # None => entries[draft[v]].logger # l
      BY <3>1, <3>2
    <3> QED
      BY <3>1, <3>3
  <2> QED
    BY <1>1, <1>3, <2>1
<1> QED
  BY <1>2, <1>3 DEF GetsLogger

(* The same of entries: what is left in one is its bucket and category.    *)
LEMMA GotEntry ==
    ASSUME LoggerInv, NEW e \in EntryIds, NEW start, GetsEntry(e, start)
    PROVE  /\ start \in EntryRecords /\ start.tags = <<>> /\ start.logger = None
           /\ \A v \in Users : draft[v] # e
           /\ entryPool' \subseteq entryPool \ {e}
<1> USE DEF LoggerInv
<1>1. CASE e \in entryPool /\ start = entries[e] /\ entryPool' = entryPool \ {e}
  <2>1. start \in EntryRecords
    BY <1>1 DEF EntriesTyped
  <2>2. EntryReset(start) = start
    BY <1>1 DEF PooledIsClean
  <2>3. start.tags = <<>> /\ start.logger = None
    BY <2>1, <2>2 DEF EntryReset, EntryRecords
  <2>4. \A v \in Users : draft[v] # e
    <3>1. \A v \in Users : BucketOf[v] \in Pools
      BY DEF Pools
    <3> QED
      BY <1>1, <3>1 DEF Exclusive
  <2> QED
    BY <1>1, <2>1, <2>3, <2>4
<1>2. CASE e \in GarbageEntries /\ start = NewEntry /\ entryPool' = entryPool
  <2>1. start \in EntryRecords /\ start.tags = <<>> /\ start.logger = None
    BY <1>2, EmptyTags DEF NewEntry, EntryRecords
  <2>2. e \notin entryPool /\ e # None /\ \A v \in Users : draft[v] # e
    BY <1>2, LoggersAssumption DEF GarbageEntries, Drafts
  <2> QED
    BY <1>2, <2>1, <2>2
<1> QED
  BY <1>1, <1>2 DEF GetsEntry

----------------------------------------------------------------------------
(* What a logger may hold.                                                 *)
Settings == [tags : TagLists, categoryId : Categories \cup {0}]

(* The invariant holds before the first logger is made.                    *)
LEMMA LoggerInvInit == LoggersInit => LoggerInv
<1> SUFFICES ASSUME LoggersInit PROVE LoggerInv
  OBVIOUS
<1> USE LoggersAssumption, EmptyTags DEF LoggersInit
<1>1. NewLogger \in [tags : TagLists, categoryId : Categories \cup {0}] /\ NewEntry \in EntryRecords
  BY DEF NewLogger, NewEntry, EntryRecords
<1>2. EntriesTyped
  BY <1>1 DEF EntriesTyped
<1>3. LoggersTypeOK
  BY <1>1 DEF LoggersTypeOK, NewEntry
<1>4. DraftHasLogger /\ Exclusive /\ PooledIsClean
  BY DEF DraftHasLogger, Exclusive, PooledIsClean
<1> QED
  BY <1>2, <1>3, <1>4 DEF LoggerInv

(* Logger.Reset leaves nothing of what the logger held.                    *)
LEMMA ResetIsNew == \A s \in Settings : LoggerReset(s) = NewLogger
<1>1. \A s \in Settings : LoggerReset(s) \in [tags : {<<>>}, categoryId : {0}]
  BY DEF LoggerReset, Settings
<1>2. \A r \in [tags : {<<>>}, categoryId : {0}] : r = [tags |-> r.tags, categoryId |-> r.categoryId]
  OBVIOUS
<1>3. \A r \in [tags : {<<>>}, categoryId : {0}] : r = NewLogger
  BY <1>2 DEF NewLogger
<1> QED
  BY <1>1, <1>3

(* Pool.Logger and Logger.Logger: u gets logger l, with settings s.        *)
LEMMA LoggerTaken ==
    ASSUME LoggerInv, NEW u \in Users, NEW l \in LoggerIds, NEW start, GetsLogger(u, l, start),
           NEW s \in Settings, mine[u] = None,
           settings' = [settings EXCEPT ![l] = s], mine' = [mine EXCEPT ![u] = l],
           UNCHANGED <<entries, entryPool, draft, loose>>
    PROVE  LoggerInv'
<1> USE LoggersAssumption DEF LoggerInv
<1>1. /\ \A v \in Users : mine[v] # l
      /\ \A v \in Users : draft[v] # None /\ v \notin loose => entries[draft[v]].logger # l
      /\ loggerPool' \in [Pools -> SUBSET LoggerIds]
      /\ \A p \in Pools : loggerPool'[p] \subseteq loggerPool[p] \ {l}
  BY GotLogger
<1>2. LoggersTypeOK'
  BY <1>1 DEF LoggersTypeOK, Settings
<1>3. EntriesTyped' /\ DraftHasLogger'
  BY DEF EntriesTyped, DraftHasLogger
<1>4. mine'[u] = l /\ \A v \in Users \ {u} : mine'[v] = mine[v]
  BY DEF LoggersTypeOK
<1>5. Exclusive'
  BY <1>1, <1>4 DEF Exclusive, LoggersTypeOK
<1>6. PooledIsClean'
  BY <1>1 DEF PooledIsClean, LoggersTypeOK
<1> QED
  BY <1>2, <1>3, <1>5, <1>6

(* Logger.Tag and Logger.Cat: u changes its own logger.                    *)
LEMMA LoggerChanged ==
    ASSUME LoggerInv, NEW u \in Users, mine[u] # None, NEW s \in Settings,
           settings' = [settings EXCEPT ![mine[u]] = s],
           UNCHANGED <<entries, loggerPool, entryPool, mine, draft, loose>>
    PROVE  LoggerInv'
<1> USE LoggersAssumption DEF LoggerInv
<1>1. mine[u] \in LoggerIds
  BY DEF LoggersTypeOK
<1>2. LoggersTypeOK'
  BY <1>1 DEF LoggersTypeOK, Settings
<1>3. EntriesTyped' /\ DraftHasLogger' /\ Exclusive'
  BY DEF EntriesTyped, DraftHasLogger, Exclusive
<1>4. PooledIsClean'
  <2>1. \A p \in Pools : mine[u] \notin loggerPool[p] /\ loggerPool[p] \subseteq LoggerIds
    BY DEF Exclusive, LoggersTypeOK
  <2> QED
    BY <1>1, <2>1 DEF PooledIsClean, LoggersTypeOK
<1> QED
  BY <1>2, <1>3, <1>4

(* Logger.Drop: a logger goes to the pool clean, and an entry made by it   *)
(* is loose from then on.                                                  *)
LEMMA LoggerDropped ==
    ASSUME LoggerInv, NEW u \in Users, DropsLogger(u)
    PROVE  LoggerInv'
<1> USE LoggersAssumption DEF LoggerInv
<1>1. /\ mine[u] # None
      /\ settings' = [settings EXCEPT ![mine[u]] = LoggerReset(@)]
      /\ loggerPool' = [loggerPool EXCEPT ![BucketOf[u]] = @ \cup {mine[u]}]
      /\ loose' = IF draft[u] # None /\ entries[draft[u]].logger = mine[u] THEN loose \cup {u} ELSE loose
      /\ mine' = [mine EXCEPT ![u] = None]
      /\ UNCHANGED <<entries, entryPool, draft>>
  BY DEF DropsLogger
<1>2. mine[u] \in LoggerIds /\ BucketOf[u] \in Pools
  BY <1>1 DEF LoggersTypeOK, Pools
<1>3. settings[mine[u]] \in Settings /\ settings \in [LoggerIds -> Settings]
  BY <1>2 DEF LoggersTypeOK, Settings
<1>4. LoggerReset(settings[mine[u]]) = NewLogger
  BY <1>3, ResetIsNew
<1>5. NewLogger \in Settings
  BY EmptyTags DEF NewLogger, Settings
<1>6. settings' \in [LoggerIds -> Settings]
  <2>1. settings' = [settings EXCEPT ![mine[u]] = NewLogger]
    BY <1>1, <1>4
  <2> QED
    BY <1>2, <1>3, <1>5, <2>1
<1>7. LoggersTypeOK'
  <2>1. settings' \in [LoggerIds -> [tags : TagLists, categoryId : Categories \cup {0}]]
    BY <1>6 DEF Settings
  <2>2. loggerPool' \in [Pools -> SUBSET LoggerIds] /\ mine' \in [Users -> LoggerIds \cup {None}]
    BY <1>1, <1>2 DEF LoggersTypeOK
  <2>3. loose' \subseteq {v \in Users : draft'[v] # None}
    BY <1>1 DEF LoggersTypeOK
  <2> QED
    BY <1>1, <2>1, <2>2, <2>3 DEF LoggersTypeOK
<1>8. EntriesTyped' /\ DraftHasLogger'
  BY <1>1 DEF EntriesTyped, DraftHasLogger
<1>9. /\ mine'[u] = None /\ \A v \in Users \ {u} : mine'[v] = mine[v]
      /\ loggerPool'[BucketOf[u]] = loggerPool[BucketOf[u]] \cup {mine[u]}
      /\ \A p \in Pools \ {BucketOf[u]} : loggerPool'[p] = loggerPool[p]
      /\ \A p \in Pools : loggerPool'[p] \subseteq LoggerIds
  BY <1>1, <1>2 DEF LoggersTypeOK
<1>10. \A v \in Users : draft[v] # None /\ v \notin loose' => entries[draft[v]].logger # mine[u]
  BY <1>1 DEF Exclusive
<1>11. loose \subseteq loose'
  BY <1>1
<1>12. Exclusive'
  <2>1. \A a \in Users : \A b \in Users \ {a} :
            /\ mine'[a] # None => mine'[a] # mine'[b]
            /\ draft'[a] # None => draft'[a] # draft'[b]
            /\ draft'[a] # None /\ a \notin loose' => entries'[draft'[a]].logger # mine'[b]
    BY <1>1, <1>9, <1>11 DEF Exclusive, DraftHasLogger
  <2>2. \A a \in Users, p \in Pools :
            /\ mine'[a] \notin loggerPool'[p] /\ draft'[a] \notin entryPool'
            /\ draft'[a] # None /\ a \notin loose' => entries'[draft'[a]].logger \notin loggerPool'[p]
    <3> SUFFICES ASSUME NEW a \in Users, NEW p \in Pools
                 PROVE  /\ mine'[a] \notin loggerPool'[p] /\ draft[a] \notin entryPool
                        /\ draft[a] # None /\ a \notin loose' => entries[draft[a]].logger \notin loggerPool'[p]
      BY <1>1
    <3>1. /\ mine[a] \notin loggerPool[p] /\ draft[a] \notin entryPool
          /\ draft[a] # None /\ a \notin loose => entries[draft[a]].logger \notin loggerPool[p]
          /\ a # u => mine[u] # mine[a]
      BY <1>1 DEF Exclusive
    <3>2. loggerPool'[p] \subseteq loggerPool[p] \cup {mine[u]}
      BY <1>9
    <3> QED
      BY <1>9, <1>10, <1>11, <3>1, <3>2
  <2>3. \A p \in Pools : \A q \in Pools \ {p} : loggerPool'[p] \cap loggerPool'[q] = {}
    <3>1. \A p \in Pools : mine[u] \notin loggerPool[p]
      BY DEF Exclusive
    <3>2. \A p \in Pools : \A q \in Pools \ {p} : loggerPool[p] \cap loggerPool[q] = {}
      BY DEF Exclusive
    <3> QED
      BY <1>9, <3>1, <3>2
  <2> QED
    BY <2>1, <2>2, <2>3 DEF Exclusive
<1>13. PooledIsClean'
  <2> SUFFICES ASSUME NEW p \in Pools, NEW l \in loggerPool'[p] PROVE settings'[l] = NewLogger
    BY <1>1 DEF PooledIsClean
  <2>1. CASE l = mine[u]
    BY <1>1, <1>2, <1>3, <1>4, <2>1
  <2>2. CASE l # mine[u]
    <3>1. l \in loggerPool[p] /\ l \in LoggerIds
      BY <1>9, <2>2
    <3> QED
      BY <1>1, <1>3, <2>2, <3>1 DEF PooledIsClean
  <2> QED
    BY <2>1, <2>2
<1> QED
  BY <1>7, <1>8, <1>12, <1>13

(* The user no longer has its logger, which an entry may still refer to.   *)
LEMMA LoggerForgotten ==
    ASSUME LoggerInv, NEW u \in Users, ForgetsLogger(u)
    PROVE  LoggerInv'
<1> USE LoggersAssumption DEF LoggerInv
<1>1. /\ mine' = [mine EXCEPT ![u] = None]
      /\ UNCHANGED <<settings, entries, loggerPool, entryPool, draft, loose>>
  BY DEF ForgetsLogger
<1>2. LoggersTypeOK' /\ EntriesTyped' /\ DraftHasLogger' /\ PooledIsClean'
  BY <1>1 DEF LoggersTypeOK, EntriesTyped, DraftHasLogger, PooledIsClean
<1>3. mine'[u] = None /\ \A v \in Users \ {u} : mine'[v] = mine[v]
  BY <1>1 DEF LoggersTypeOK
<1>4. Exclusive'
  BY <1>1, <1>3 DEF Exclusive, DraftHasLogger, LoggersTypeOK
<1> QED
  BY <1>2, <1>4

(* Logger.log: u's entry is one nobody has, and refers to u's logger.      *)
LEMMA EntryTaken ==
    ASSUME LoggerInv, NEW u \in Users, NEW ts \in {<<>>, <<u>>}, Logs(u, ts)
    PROVE  LoggerInv'
<1> USE LoggersAssumption DEF LoggerInv
<1>1. PICK e \in EntryIds, start \in {NewEntry} \cup {entries[k] : k \in EntryIds} :
          /\ GetsEntry(e, start)
          /\ entries' = [entries EXCEPT ![e] = Filled(start, u, ts)]
          /\ draft' = [draft EXCEPT ![u] = e]
  BY DEF Logs
<1>2. mine[u] # None /\ draft[u] = None /\ UNCHANGED <<settings, loggerPool, mine, loose>>
  BY DEF Logs
<1>3. /\ start \in EntryRecords /\ start.tags = <<>> /\ start.logger = None
      /\ \A v \in Users : draft[v] # e
      /\ entryPool' \subseteq entryPool \ {e}
  BY <1>1, GotEntry
<1>4. mine[u] \in LoggerIds /\ e # None /\ BucketOf[u] \in Pools /\ u \notin loose
  BY <1>2 DEF LoggersTypeOK, Pools
<1>5. Filled(start, u, ts) \in EntryRecords /\ Filled(start, u, ts).logger = mine[u]
  <2>1. Front(start.tags \o ts) \in TagLists
    <3>1. ts \in Seq(Users)
      <4>1. <<>> \in Seq(Users) /\ <<u>> \in Seq(Users)
        OBVIOUS
      <4> QED
        BY <4>1, Zenon
    <3>2. start.tags \o ts \in Seq(Users)
      BY <1>3, <3>1, ConcatEmptySeq
    <3> QED
      BY <3>2, FrontType
  <2>2. settings[mine[u]].categoryId \in Categories \cup {0}
    BY <1>4 DEF LoggersTypeOK
  <2> QED
    BY <1>3, <1>4, <2>1, <2>2 DEF Filled, EntryRecords
<1>6. /\ entries \in [EntryIds -> EntryRecords] /\ entries' \in [EntryIds -> EntryRecords]
      /\ entries'[e].logger = mine[u]
      /\ \A k \in EntryIds \ {e} : entries'[k] = entries[k]
  BY <1>1, <1>5 DEF EntriesTyped
<1>7. /\ draft \in [Users -> EntryIds \cup {None}] /\ draft' \in [Users -> EntryIds \cup {None}]
      /\ draft'[u] = e
      /\ \A v \in Users \ {u} : draft'[v] = draft[v] /\ draft[v] # e
  BY <1>1, <1>3 DEF LoggersTypeOK
<1>8. EntriesTyped'
  BY <1>6 DEF EntriesTyped
<1>9. LoggersTypeOK'
  <2>1. loose' \subseteq {v \in Users : draft'[v] # None} /\ entryPool' \subseteq EntryIds
    BY <1>2, <1>3, <1>4, <1>7 DEF LoggersTypeOK
  <2>2. \A k \in EntryIds : entries'[k].tags \in TagLists /\ entries'[k].logger \in LoggerIds \cup {None}
    BY <1>6 DEF EntryRecords
  <2> QED
    BY <1>2, <1>7, <2>1, <2>2 DEF LoggersTypeOK
<1>10. \A v \in Users \ {u} : draft[v] # None => entries'[draft'[v]] = entries[draft[v]]
  BY <1>6, <1>7
<1>11. DraftHasLogger'
  BY <1>4, <1>6, <1>7, <1>10 DEF DraftHasLogger
<1>12. Exclusive'
  <2>1. \A a \in Users : \A b \in Users \ {a} :
            /\ mine'[a] # None => mine'[a] # mine'[b]
            /\ draft'[a] # None => draft'[a] # draft'[b]
            /\ draft'[a] # None /\ a \notin loose' => entries'[draft'[a]].logger # mine'[b]
    BY <1>2, <1>6, <1>7, <1>10 DEF Exclusive
  <2>2. \A a \in Users, p \in Pools :
            /\ mine'[a] \notin loggerPool'[p] /\ draft'[a] \notin entryPool'
            /\ draft'[a] # None /\ a \notin loose' => entries'[draft'[a]].logger \notin loggerPool'[p]
    BY <1>2, <1>3, <1>6, <1>7, <1>10 DEF Exclusive
  <2> QED
    BY <1>2, <2>1, <2>2 DEF Exclusive
<1>13. PooledIsClean'
  BY <1>2, <1>3, <1>6 DEF PooledIsClean, LoggersTypeOK
<1> QED
  BY <1>8, <1>9, <1>11, <1>12, <1>13

(* Entry.Send: u's entry gets the tags its logger has now.                 *)
LEMMA EntrySent ==
    ASSUME LoggerInv, NEW u \in Users, SendsEntry(u)
    PROVE  LoggerInv'
<1> USE LoggersAssumption DEF LoggerInv
<1> DEFINE e == draft[u]
           t == Front(entries[e].tags \o settings[entries[e].logger].tags)
<1>1. /\ e # None /\ entries' = [entries EXCEPT ![e].tags = t]
      /\ UNCHANGED <<settings, loggerPool, entryPool, mine, draft, loose>>
  BY DEF SendsEntry
<1>2. e \in EntryIds /\ entries \in [EntryIds -> EntryRecords]
  BY <1>1 DEF LoggersTypeOK, EntriesTyped
<1>3. t \in TagLists
  <2>1. entries[e].logger \in LoggerIds /\ entries[e].tags \in TagLists
    BY <1>1, <1>2 DEF DraftHasLogger, EntryRecords
  <2>2. settings[entries[e].logger].tags \in TagLists
    BY <2>1 DEF LoggersTypeOK
  <2>3. entries[e].tags \o settings[entries[e].logger].tags \in Seq(Users)
    BY <2>1, <2>2, TagListIsSeq, ConcatProperties
  <2> QED
    BY <2>3, FrontType
<1> HIDE DEF t
<1>4. /\ entries' \in [EntryIds -> EntryRecords]
      /\ \A k \in EntryIds : entries'[k].logger = entries[k].logger
      /\ \A k \in EntryIds \ {e} : entries'[k] = entries[k]
  BY <1>1, <1>2, <1>3 DEF EntryRecords
<1>5. EntriesTyped'
  BY <1>4 DEF EntriesTyped
<1>6. LoggersTypeOK'
  BY <1>1, <1>4 DEF LoggersTypeOK, EntryRecords
<1>7. \A v \in Users : draft[v] # None => entries'[draft[v]].logger = entries[draft[v]].logger
  BY <1>4 DEF LoggersTypeOK
<1>8. DraftHasLogger' /\ Exclusive'
  BY <1>1, <1>7 DEF DraftHasLogger, Exclusive
<1>9. PooledIsClean'
  <2>1. BucketOf[u] \in Pools
    BY DEF Pools
  <2>2. e \notin entryPool /\ entryPool \subseteq EntryIds
    BY <2>1 DEF Exclusive, LoggersTypeOK
  <2> QED
    BY <1>1, <1>4, <2>2 DEF PooledIsClean
<1> QED
  BY <1>5, <1>6, <1>8, <1>9

(* Entry.Drop, or the user forgets its entry.                              *)
LEMMA EntryDone ==
    ASSUME LoggerInv, NEW u \in Users, DropsEntry(u) \/ ForgetsEntry(u)
    PROVE  LoggerInv'
<1> USE LoggersAssumption DEF LoggerInv
<1> DEFINE e == draft[u]
<1>1. /\ e # None /\ draft' = [draft EXCEPT ![u] = None] /\ loose' = loose \ {u}
      /\ UNCHANGED <<settings, loggerPool, mine>>
  BY DEF DropsEntry, ForgetsEntry
<1>2. e \in EntryIds /\ entries \in [EntryIds -> EntryRecords]
  BY <1>1 DEF LoggersTypeOK, EntriesTyped
<1>3. /\ EntryReset(entries[e]) \in EntryRecords
      /\ EntryReset(EntryReset(entries[e])) = EntryReset(entries[e])
  <2>1. PICK x \in EntryRecords : x = entries[e]
    BY <1>2
  <2>2. EntryReset(x) \in EntryRecords /\ EntryReset(x).tags = <<>> /\ EntryReset(x).logger = None
    BY EmptyTags DEF EntryReset, EntryRecords
  <2>3. \A y \in EntryRecords : y.tags = <<>> /\ y.logger = None => EntryReset(y) = y
    BY DEF EntryReset, EntryRecords
  <2> QED
    BY <2>1, <2>2, <2>3
<1>4. \/ UNCHANGED <<entries, entryPool>>
      \/ /\ entries' = [entries EXCEPT ![e] = EntryReset(@)]
         /\ entryPool' = entryPool \cup {e}
  BY DEF DropsEntry, ForgetsEntry
<1>5. /\ entries' \in [EntryIds -> EntryRecords]
      /\ \A k \in EntryIds \ {e} : entries'[k] = entries[k]
      /\ entryPool' \subseteq entryPool \cup {e}
      /\ e \in entryPool' => e \in entryPool \/ entries'[e] = EntryReset(entries[e])
  BY <1>2, <1>3, <1>4
<1>6. /\ draft'[u] = None
      /\ \A v \in Users \ {u} : draft'[v] = draft[v] /\ draft[v] # e
  BY <1>1 DEF LoggersTypeOK, Exclusive
<1>7. \A v \in Users \ {u} : draft[v] # None => entries'[draft'[v]] = entries[draft[v]]
  BY <1>5, <1>6 DEF LoggersTypeOK
<1>8. EntriesTyped'
  BY <1>5 DEF EntriesTyped
<1>9. LoggersTypeOK'
  <2>1. loose' \subseteq {v \in Users : draft'[v] # None} /\ entryPool' \subseteq EntryIds
        /\ draft' \in [Users -> EntryIds \cup {None}]
    BY <1>1, <1>2, <1>5, <1>6 DEF LoggersTypeOK
  <2>2. \A k \in EntryIds : entries'[k].tags \in TagLists /\ entries'[k].logger \in LoggerIds \cup {None}
    BY <1>5 DEF EntryRecords
  <2> QED
    BY <1>1, <2>1, <2>2 DEF LoggersTypeOK
<1>10. DraftHasLogger'
  BY <1>6, <1>7 DEF DraftHasLogger
<1>11. Exclusive'
  <2>1. \A a \in Users : \A b \in Users \ {a} :
            /\ mine'[a] # None => mine'[a] # mine'[b]
            /\ draft'[a] # None => draft'[a] # draft'[b]
            /\ draft'[a] # None /\ a \notin loose' => entries'[draft'[a]].logger # mine'[b]
    BY <1>1, <1>6, <1>7 DEF Exclusive
  <2>2. \A a \in Users, p \in Pools :
            /\ mine'[a] \notin loggerPool'[p] /\ draft'[a] \notin entryPool'
            /\ draft'[a] # None /\ a \notin loose' => entries'[draft'[a]].logger \notin loggerPool'[p]
    <3>1. entryPool \cup {e} \subseteq EntryIds /\ None \notin EntryIds
      BY <1>2 DEF LoggersTypeOK
    <3> QED
      BY <1>1, <1>5, <1>6, <1>7, <3>1 DEF Exclusive
  <2> QED
    BY <1>1, <2>1, <2>2 DEF Exclusive
<1>12. PooledIsClean'
  <2>1. \A k \in entryPool' : EntryReset(entries'[k]) = entries'[k]
    <3> SUFFICES ASSUME NEW k \in entryPool' PROVE EntryReset(entries'[k]) = entries'[k]
      OBVIOUS
    <3>1. BucketOf[u] \in Pools
      BY DEF Pools
    <3>2. e \notin entryPool /\ entryPool \subseteq EntryIds
      BY <3>1 DEF Exclusive, LoggersTypeOK
    <3>3. CASE k = e
      BY <1>3, <1>5, <3>2, <3>3
    <3>4. CASE k # e
      BY <1>5, <3>2, <3>4 DEF PooledIsClean
    <3> QED
      BY <3>3, <3>4
  <2> QED
    BY <1>1, <2>1 DEF PooledIsClean
<1> QED
  BY <1>8, <1>9, <1>10, <1>11, <1>12

(* A sync.Pool that loses objects, and an entry that goes out without a    *)
(* draft: the pools shrink and nothing else changes.                       *)
LEMMA PoolsShrink ==
    ASSUME LoggerInv, UNCHANGED <<settings, entries, mine, draft, loose>>,
           loggerPool' \in [Pools -> SUBSET LoggerIds],
           \A p \in Pools : loggerPool'[p] \subseteq loggerPool[p],
           entryPool' \subseteq entryPool
    PROVE  LoggerInv'
<1> USE DEF LoggerInv
<1>1. LoggersTypeOK' /\ EntriesTyped' /\ DraftHasLogger'
  BY DEF LoggersTypeOK, EntriesTyped, DraftHasLogger
<1>2. Exclusive'
  BY DEF Exclusive
<1>3. PooledIsClean'
  BY DEF PooledIsClean
<1> QED
  BY <1>1, <1>2, <1>3

(* Every step keeps the invariant.                                         *)
LEMMA LoggerInvStep == LoggerInv /\ [LoggersNext]_loggersVars => LoggerInv'
<1> SUFFICES ASSUME LoggerInv, [LoggersNext]_loggersVars PROVE LoggerInv'
  OBVIOUS
<1>1. /\ settings \in [LoggerIds -> Settings] /\ loggerPool \in [Pools -> SUBSET LoggerIds]
      /\ mine \in [Users -> LoggerIds \cup {None}]
  BY DEF LoggerInv, LoggersTypeOK, Settings
<1>2. NewLogger \in Settings
  BY EmptyTags DEF NewLogger, Settings
<1>3. ASSUME NEW u \in Users, Acquires(u) PROVE LoggerInv'
  <2>1. PICK l \in LoggerIds, start \in {NewLogger} \cup {settings[k] : k \in LoggerIds} :
            /\ GetsLogger(u, l, start)
            /\ settings' = [settings EXCEPT ![l] = start]
            /\ mine' = [mine EXCEPT ![u] = l]
    BY <1>3 DEF Acquires
  <2>2. start \in Settings
    BY <1>1, <1>2
  <2> QED
    BY <1>3, <2>1, <2>2, LoggerTaken DEF Acquires
<1>4. ASSUME NEW u \in Users, NEW v \in Users, Derives(u, v) PROVE LoggerInv'
  <2>1. PICK l \in LoggerIds, start \in {NewLogger} \cup {settings[k] : k \in LoggerIds} :
            /\ GetsLogger(u, l, start)
            /\ settings' = [settings EXCEPT ![l] = Inherits(start, settings[mine[v]])]
            /\ mine' = [mine EXCEPT ![u] = l]
    BY <1>4 DEF Derives
  <2>2. start = NewLogger
    BY <2>1, GotLogger
  <2>3. settings[mine[v]] \in Settings
    BY <1>1, <1>4 DEF Derives
  <2>4. <<>> \o settings[mine[v]].tags = settings[mine[v]].tags
    BY <2>3, TagListIsSeq, ConcatEmptySeq DEF Settings
  <2>5. Inherits(start, settings[mine[v]]) \in Settings
    BY <2>2, <2>3, <2>4 DEF Inherits, NewLogger, Settings
  <2> QED
    BY <1>4, <2>1, <2>5, LoggerTaken DEF Derives
<1>5. ASSUME NEW u \in Users, Tags(u) PROVE LoggerInv'
  <2>1. mine[u] \in LoggerIds /\ settings[mine[u]] \in Settings
    BY <1>1, <1>5 DEF Tags
  <2>2. Front(Append(settings[mine[u]].tags, u)) \in TagLists
    <3>1. settings[mine[u]].tags \in Seq(Users)
      BY <2>1, TagListIsSeq DEF Settings
    <3> QED
      BY <3>1, AppendProperties, FrontType
  <2>3. PICK s \in Settings :
            s = [settings[mine[u]] EXCEPT !.tags = Front(Append(settings[mine[u]].tags, u))]
    BY <2>1, <2>2 DEF Settings
  <2>4. settings' = [settings EXCEPT ![mine[u]] = s]
    BY <1>5, <2>3 DEF Tags
  <2> QED
    BY <1>5, <2>4, LoggerChanged DEF Tags
<1>6. ASSUME NEW u \in Users, NEW c \in Categories, Cat(u, c) PROVE LoggerInv'
  <2>1. mine[u] \in LoggerIds /\ settings[mine[u]] \in Settings
    BY <1>1, <1>6 DEF Cat
  <2>2. PICK s \in Settings : s = [settings[mine[u]] EXCEPT !.categoryId = c]
    BY <2>1 DEF Settings
  <2>3. settings' = [settings EXCEPT ![mine[u]] = s]
    BY <1>6, <2>2 DEF Cat
  <2> QED
    BY <1>6, <2>3, LoggerChanged DEF Cat
<1>7. CASE SendsError
  <2>1. entryPool' \subseteq entryPool
    BY <1>7, GotEntry DEF SendsError
  <2> QED
    BY <1>1, <1>7, <2>1, PoolsShrink DEF SendsError
<1>8. CASE PoolForgets
  BY <1>1, <1>8, PoolsShrink DEF PoolForgets
<1>9. CASE UNCHANGED loggersVars
  BY <1>1, <1>9, PoolsShrink DEF loggersVars
<1> QED
  BY <1>3, <1>4, <1>5, <1>6, <1>7, <1>8, <1>9, LoggerDropped, LoggerForgotten, EntryTaken,
     EntrySent, EntryDone DEF LoggersNext

(* Loggers and entries keep their types: no list of tags grows beyond      *)
(* MaxTagsCount, and Logger.Logger, which appends the parent's tags        *)
(* without a check (logger.go:166), finds none in the logger it gets.      *)
THEOREM LoggersTypeCorrect == LoggersSpec => []LoggersTypeOK
<1>1. LoggerInv => LoggersTypeOK
  BY DEF LoggerInv
<1> QED
  BY <1>1, LoggerInvInit, LoggerInvStep, PTL DEF LoggersSpec

(* No logger and no entry ever has two owners.                             *)
THEOREM ExclusiveHolds == LoggersSpec => []Exclusive
<1>1. LoggerInv => Exclusive
  BY DEF LoggerInv
<1> QED
  BY <1>1, LoggerInvInit, LoggerInvStep, PTL DEF LoggersSpec

(* What waits in a pool tells the next user nothing of the last one.       *)
THEOREM PooledIsCleanHolds == LoggersSpec => []PooledIsClean
<1>1. LoggerInv => PooledIsClean
  BY DEF LoggerInv
<1> QED
  BY <1>1, LoggerInvInit, LoggerInvStep, PTL DEF LoggersSpec

----------------------------------------------------------------------------
(* The refinement.  What users see of their loggers and entries are values *)
(* of the abstract specification, told apart from None.                    *)
LEMMA PrivateTypes ==
    ASSUME LoggerInv, NEW u \in Users
    PROVE  /\ mine[u] # None => mine[u] \in LoggerIds /\ settings[mine[u]] \in Settings
           /\ PrivateLogger(u) = None <=> mine[u] = None
           /\ draft[u] # None => /\ draft[u] \in EntryIds /\ entries[draft[u]] \in EntryRecords
                                 /\ entries[draft[u]].logger \in LoggerIds
                                 /\ settings[entries[draft[u]].logger].tags \in TagLists
           /\ PrivateEntry(u) = None <=> draft[u] = None
           /\ u \in loose => draft[u] # None
<1> USE LoggersAssumption DEF LoggerInv
<1>1. mine[u] # None => mine[u] \in LoggerIds /\ settings[mine[u]] \in Settings
  BY DEF LoggersTypeOK, Settings
<1>2. Settings \subseteq [tags : TagLists, categoryId : Nat]
  <2> SUFFICES ASSUME NEW s \in Settings PROVE s \in [tags : TagLists, categoryId : Nat]
    OBVIOUS
  <2>1. s.tags \in TagLists /\ s.categoryId \in Nat
    <3>1. s.tags \in TagLists /\ s.categoryId \in Categories \cup {0}
      BY DEF Settings
    <3>2. Categories \cup {0} \subseteq Nat
      OBVIOUS
    <3> QED
      BY <3>1, <3>2
  <2>2. s = [tags |-> s.tags, categoryId |-> s.categoryId]
    BY DEF Settings
  <2> QED
    BY <2>1, <2>2
<1>3. PrivateLogger(u) = None <=> mine[u] = None
  BY <1>1, <1>2, NoneAssumption DEF PrivateLogger
<1>4. draft[u] # None => /\ draft[u] \in EntryIds /\ entries[draft[u]] \in EntryRecords
                         /\ entries[draft[u]].logger \in LoggerIds
                         /\ settings[entries[draft[u]].logger].tags \in TagLists
  BY DEF LoggersTypeOK, EntriesTyped, DraftHasLogger
<1>5. draft[u] # None => PrivateEntry(u) # None
  <2> SUFFICES ASSUME draft[u] # None PROVE PrivateEntry(u) # None
    OBVIOUS
  <2>1. Pools \cup {0} \subseteq Nat
    BY DEF Pools
  <2>2. /\ entries[draft[u]].bucketId \in Nat /\ entries[draft[u]].categoryId \in Nat
        /\ entries[draft[u]].tags \in TagLists
    BY <1>4, <2>1 DEF EntryRecords
  <2>3. PrivateEntry(u) \in [bucketId : Nat, categoryId : Nat, tags : TagLists,
                             inherits : TagLists \cup {None}, tied : BOOLEAN]
    BY <1>4, <2>2 DEF PrivateEntry
  <2> QED
    BY <2>3, NoneAssumption
<1>6. PrivateEntry(u) = None <=> draft[u] = None
  BY <1>5 DEF PrivateEntry
<1>7. u \in loose => draft[u] # None
  BY DEF LoggersTypeOK
<1> QED
  BY <1>1, <1>3, <1>4, <1>6, <1>7

(* Who gets a logger sees it come from nowhere, and nobody sees more.      *)
LEMMA TakenIsGet ==
    ASSUME LoggerInv, NEW u \in Users, NEW l \in LoggerIds, NEW start, GetsLogger(u, l, start),
           NEW s \in Settings, mine[u] = None,
           settings' = [settings EXCEPT ![l] = s], mine' = [mine EXCEPT ![u] = l],
           UNCHANGED <<entries, entryPool, draft, loose>>
    PROVE  /\ privateLoggers' = [privateLoggers EXCEPT ![u] = s]
           /\ privateEntries' = privateEntries
<1> USE LoggersAssumption
<1>1. /\ \A v \in Users : mine[v] # l
      /\ \A v \in Users : draft[v] # None /\ v \notin loose => entries[draft[v]].logger # l
  BY GotLogger
<1>2. /\ mine'[u] = l /\ \A v \in Users \ {u} : mine'[v] = mine[v]
      /\ settings'[l] = s /\ \A k \in LoggerIds \ {l} : settings'[k] = settings[k]
  BY DEF LoggerInv, LoggersTypeOK
<1>3. PrivateLogger(u)' = s
  BY <1>2 DEF PrivateLogger
<1>4. \A v \in Users \ {u} : PrivateLogger(v)' = PrivateLogger(v)
  BY <1>1, <1>2, PrivateTypes DEF PrivateLogger
<1>5. ASSUME NEW v \in Users PROVE PrivateEntry(v)' = PrivateEntry(v)
  <2>1. CASE draft[v] = None
    BY <2>1 DEF PrivateEntry
  <2>2. CASE draft[v] # None
    <3>1. v \notin loose => settings'[entries[draft[v]].logger] = settings[entries[draft[v]].logger]
      BY <1>1, <1>2, <2>2, PrivateTypes
    <3>2. v \notin loose => (entries[draft[v]].logger = mine'[v] <=> entries[draft[v]].logger = mine[v])
      BY <1>1, <1>2, <2>2, PrivateTypes
    <3> QED
      BY <2>2, <3>1, <3>2 DEF PrivateEntry
  <2> QED
    BY <2>1, <2>2
<1>6. privateLoggers' = [privateLoggers EXCEPT ![u] = s]
  BY <1>3, <1>4 DEF privateLoggers
<1> QED
  BY <1>5, <1>6 DEF privateEntries

(* Pool.Logger gives the user a logger that looks like a new one,          *)
(* whether it is new or was somebody else's before.                        *)
LEMMA AcquiresRefines ==
    ASSUME LoggerInv, NEW u \in Users, Acquires(u)
    PROVE  Private!Get(u)
<1>1. PICK l \in LoggerIds, start \in {NewLogger} \cup {settings[k] : k \in LoggerIds} :
          /\ GetsLogger(u, l, start)
          /\ settings' = [settings EXCEPT ![l] = start]
          /\ mine' = [mine EXCEPT ![u] = l]
  BY DEF Acquires
<1>2. start = NewLogger
  BY <1>1, GotLogger
<1>3. NewLogger \in Settings
  BY EmptyTags DEF NewLogger, Settings
<1>4. mine[u] = None /\ out' = None /\ UNCHANGED <<entries, entryPool, draft, loose>>
  BY DEF Acquires
<1>5. /\ privateLoggers' = [privateLoggers EXCEPT ![u] = NewLogger]
      /\ privateEntries' = privateEntries
  BY <1>1, <1>2, <1>3, <1>4, TakenIsGet
<1>6. privateLoggers[u] = None
  BY <1>4, PrivateTypes DEF privateLoggers
<1> QED
  BY <1>4, <1>5, <1>6 DEF Private!Get, Private!Default, NewLogger

(* Logger.Logger copies the parent's settings: nothing else is in the new  *)
(* logger's lists.                                                         *)
LEMMA DerivesRefines ==
    ASSUME LoggerInv, NEW u \in Users, NEW v \in Users, Derives(u, v)
    PROVE  Private!Get(u)
<1>1. PICK l \in LoggerIds, start \in {NewLogger} \cup {settings[k] : k \in LoggerIds} :
          /\ GetsLogger(u, l, start)
          /\ settings' = [settings EXCEPT ![l] = Inherits(start, settings[mine[v]])]
          /\ mine' = [mine EXCEPT ![u] = l]
  BY DEF Derives
<1>2. /\ mine[u] = None /\ mine[v] # None /\ out' = None
      /\ UNCHANGED <<entries, entryPool, draft, loose>>
  BY DEF Derives
<1>3. PICK s \in Settings : s = settings[mine[v]]
  BY <1>2, PrivateTypes
<1>4. Inherits(start, s) = s
  <2>1. start = NewLogger
    BY <1>1, GotLogger
  <2>2. <<>> \o s.tags = s.tags
    BY TagListIsSeq, ConcatEmptySeq DEF Settings
  <2>3. s = [tags |-> s.tags, categoryId |-> s.categoryId]
    BY DEF Settings
  <2> QED
    BY <2>1, <2>2, <2>3 DEF Inherits, NewLogger
<1>5. /\ privateLoggers' = [privateLoggers EXCEPT ![u] = s]
      /\ privateEntries' = privateEntries
  BY <1>1, <1>2, <1>3, <1>4, TakenIsGet
<1>6. privateLoggers[u] = None /\ privateLoggers[v] # None /\ privateLoggers[v] = s
  BY <1>2, <1>3, PrivateTypes DEF privateLoggers, PrivateLogger
<1> QED
  BY <1>2, <1>5, <1>6 DEF Private!Get

(* An entry is tied to its user's logger until the user leaves it.         *)
LEMMA TiedMeans ==
    ASSUME LoggerInv, NEW u \in Users
    PROVE  Private!Tied(u) <=>
               draft[u] # None /\ u \notin loose /\ entries[draft[u]].logger = mine[u]
<1>1. privateEntries[u] = PrivateEntry(u)
  BY DEF privateEntries
<1>2. CASE draft[u] = None
  BY <1>1, <1>2 DEF Private!Tied, PrivateEntry
<1>3. CASE draft[u] # None
  <2>1. PrivateEntry(u).tied = (u \notin loose /\ entries[draft[u]].logger = mine[u])
    BY <1>3 DEF PrivateEntry
  <2>2. privateEntries[u] # None
    BY <1>1, <1>3, PrivateTypes
  <2> QED
    BY <1>1, <1>3, <2>1, <2>2, Zenon DEF Private!Tied
<1> QED
  BY <1>2, <1>3

(* What u sees when it changes its logger: only entries tied to it notice. *)
LEMMA ChangedIsSet ==
    ASSUME LoggerInv, NEW u \in Users, mine[u] # None, NEW s \in Settings,
           settings' = [settings EXCEPT ![mine[u]] = s],
           UNCHANGED <<entries, loggerPool, entryPool, mine, draft, loose>>
    PROVE  /\ privateLoggers' = [privateLoggers EXCEPT ![u] = s]
           /\ privateEntries' = IF Private!Tied(u)
                                THEN [privateEntries EXCEPT ![u].inherits = s.tags]
                                ELSE privateEntries
<1> USE LoggersAssumption
<1>1. /\ mine[u] \in LoggerIds /\ settings'[mine[u]] = s
      /\ \A k \in LoggerIds \ {mine[u]} : settings'[k] = settings[k]
  BY PrivateTypes DEF LoggerInv, LoggersTypeOK
<1>2. \A v \in Users \ {u} : mine[v] # mine[u]
  BY DEF LoggerInv, Exclusive
<1>3. privateLoggers' = [privateLoggers EXCEPT ![u] = s]
  <2>1. PrivateLogger(u)' = s
    BY <1>1 DEF PrivateLogger
  <2>2. \A v \in Users \ {u} : PrivateLogger(v)' = PrivateLogger(v)
    BY <1>1, <1>2, PrivateTypes DEF PrivateLogger
  <2> QED
    BY <2>1, <2>2 DEF privateLoggers
<1>4. ASSUME NEW v \in Users, v # u PROVE PrivateEntry(v)' = PrivateEntry(v)
  <2>1. CASE draft[v] = None
    BY <2>1 DEF PrivateEntry
  <2>2. CASE draft[v] # None
    <3>1. v \notin loose => settings'[entries[draft[v]].logger] = settings[entries[draft[v]].logger]
      BY <1>1, <1>4, <2>2, PrivateTypes DEF LoggerInv, Exclusive
    <3> QED
      BY <2>2, <3>1 DEF PrivateEntry
  <2> QED
    BY <2>1, <2>2
<1>5. Private!Tied(u) <=> draft[u] # None /\ u \notin loose /\ entries[draft[u]].logger = mine[u]
  BY TiedMeans
<1>6. CASE Private!Tied(u)
  <2>1. PrivateEntry(u)' = [PrivateEntry(u) EXCEPT !.inherits = s.tags]
    BY <1>1, <1>5, <1>6 DEF PrivateEntry
  <2>2. privateEntries' = [privateEntries EXCEPT ![u].inherits = s.tags]
    BY <1>4, <2>1 DEF privateEntries
  <2> QED
    BY <1>3, <1>6, <2>2
<1>7. CASE ~Private!Tied(u)
  <2>1. PrivateEntry(u)' = PrivateEntry(u)
    <3>1. CASE draft[u] = None \/ u \in loose
      BY <3>1, PrivateTypes DEF PrivateEntry
    <3>2. CASE draft[u] # None /\ u \notin loose /\ entries[draft[u]].logger # mine[u]
      BY <1>1, <3>2, PrivateTypes DEF PrivateEntry
    <3> QED
      BY <1>5, <1>7, <3>1, <3>2
  <2>2. privateEntries' = privateEntries
    BY <1>4, <2>1 DEF privateEntries
  <2> QED
    BY <1>3, <1>7, <2>2
<1> QED
  BY <1>6, <1>7

(* Logger.Tag and Logger.Cat.                                              *)
LEMMA SetsRefine ==
    ASSUME LoggerInv, NEW u \in Users, Tags(u) \/ \E c \in Categories : Cat(u, c)
    PROVE  Private!Set(u)
<1>1. mine[u] # None /\ out' = None
      /\ UNCHANGED <<entries, loggerPool, entryPool, mine, draft, loose>>
  BY DEF Tags, Cat
<1>2. mine[u] \in LoggerIds /\ settings[mine[u]] \in Settings
      /\ settings \in [LoggerIds -> Settings]
  BY <1>1, PrivateTypes DEF LoggerInv, LoggersTypeOK, Settings
<1>3. privateLoggers[u] = settings[mine[u]] /\ privateLoggers[u] # None
      /\ privateLoggers = [v \in Users |-> privateLoggers[v]]
  BY <1>1, PrivateTypes DEF privateLoggers, PrivateLogger
<1>4. CASE Tags(u)
  <2>1. Front(Append(settings[mine[u]].tags, u)) \in TagLists
    <3>1. settings[mine[u]].tags \in Seq(Users)
      BY <1>2, TagListIsSeq DEF Settings
    <3> QED
      BY <3>1, AppendProperties, FrontType
  <2>2. PICK s \in Settings :
            s = [settings[mine[u]] EXCEPT !.tags = Front(Append(settings[mine[u]].tags, u))]
    BY <1>2, <2>1 DEF Settings
  <2>3. settings' = [settings EXCEPT ![mine[u]] = s]
    BY <1>2, <1>4, <2>2 DEF Tags
  <2>4. /\ privateLoggers' = [privateLoggers EXCEPT ![u] = s]
        /\ privateEntries' = IF Private!Tied(u)
                             THEN [privateEntries EXCEPT ![u].inherits = s.tags]
                             ELSE privateEntries
    BY <1>1, <2>3, ChangedIsSet
  <2>5. privateLoggers' = [privateLoggers EXCEPT ![u].tags = Private!Front(Append(@, u))]
    BY <1>3, <2>2, <2>4 DEF Private!Front, Front
  <2>6. privateLoggers'[u] = s
    BY <1>3, <2>4
  <2> QED
    BY <1>1, <1>3, <2>4, <2>5, <2>6 DEF Private!Set
<1>5. ASSUME NEW c \in Categories, Cat(u, c) PROVE Private!Set(u)
  <2>1. PICK s \in Settings : s = [settings[mine[u]] EXCEPT !.categoryId = c]
    BY <1>2 DEF Settings
  <2>2. settings' = [settings EXCEPT ![mine[u]] = s]
    BY <1>2, <1>5, <2>1 DEF Cat
  <2>3. /\ privateLoggers' = [privateLoggers EXCEPT ![u] = s]
        /\ privateEntries' = IF Private!Tied(u)
                             THEN [privateEntries EXCEPT ![u].inherits = s.tags]
                             ELSE privateEntries
    BY <1>1, <2>2, ChangedIsSet
  <2>4. privateLoggers' = [privateLoggers EXCEPT ![u].categoryId = c]
    BY <1>3, <2>1, <2>3
  <2>5. privateLoggers'[u] = s
    BY <1>3, <2>3
  <2> QED
    BY <1>1, <1>3, <2>3, <2>4, <2>5 DEF Private!Set
<1> QED
  BY <1>4, <1>5

(* What u sees when it leaves its logger, and that nobody else notices:    *)
(* the settings of no other logger change.                                 *)
LEMMA LeftIsLeave ==
    ASSUME LoggerInv, NEW u \in Users, mine[u] # None,
           \A k \in LoggerIds \ {mine[u]} : settings'[k] = settings[k],
           mine' = [mine EXCEPT ![u] = None], UNCHANGED <<entries, draft>>,
           loose \subseteq loose', loose' \subseteq loose \cup {u}
    PROVE  /\ privateLoggers' = [privateLoggers EXCEPT ![u] = None]
           /\ \A v \in Users \ {u} : PrivateEntry(v)' = PrivateEntry(v)
<1>1. /\ mine'[u] = None /\ \A v \in Users \ {u} : mine'[v] = mine[v] /\ mine[v] # mine[u]
  BY DEF LoggerInv, LoggersTypeOK, Exclusive
<1>2. PrivateLogger(u)' = None
  BY <1>1 DEF PrivateLogger
<1>3. \A v \in Users \ {u} : PrivateLogger(v)' = PrivateLogger(v)
  BY <1>1, PrivateTypes DEF PrivateLogger
<1>4. ASSUME NEW v \in Users, v # u PROVE PrivateEntry(v)' = PrivateEntry(v)
  <2>1. v \in loose' <=> v \in loose
    BY <1>4
  <2>2. CASE draft[v] = None
    BY <2>2 DEF PrivateEntry
  <2>3. CASE draft[v] # None
    <3>1. v \notin loose => settings'[entries[draft[v]].logger] = settings[entries[draft[v]].logger]
      BY <1>4, <2>3, PrivateTypes DEF LoggerInv, Exclusive
    <3> QED
      BY <1>1, <1>4, <2>1, <2>3, <3>1 DEF PrivateEntry
  <2> QED
    BY <2>2, <2>3
<1> QED
  BY <1>2, <1>3, <1>4 DEF privateLoggers

(* Logger.Drop, after which the tags of its entry are open, and a logger   *)
(* that is just forgotten, whose settings no one changes any more.         *)
LEMMA LeavesRefine ==
    ASSUME LoggerInv, NEW u \in Users, DropsLogger(u) \/ ForgetsLogger(u)
    PROVE  Private!Leave(u)
<1>1. mine[u] # None /\ out' = None /\ mine' = [mine EXCEPT ![u] = None]
      /\ UNCHANGED <<entries, draft>>
  BY DEF DropsLogger, ForgetsLogger
<1>2. /\ mine[u] \in LoggerIds /\ \A k \in LoggerIds \ {mine[u]} : settings'[k] = settings[k]
      /\ loose \subseteq loose' /\ loose' \subseteq loose \cup {u}
  BY <1>1, PrivateTypes DEF DropsLogger, ForgetsLogger, LoggerInv, LoggersTypeOK
<1>3. /\ privateLoggers' = [privateLoggers EXCEPT ![u] = None]
      /\ \A v \in Users \ {u} : PrivateEntry(v)' = PrivateEntry(v)
  BY <1>1, <1>2, LeftIsLeave
<1>4. privateLoggers[u] # None
  BY <1>1, PrivateTypes DEF privateLoggers
<1>5. mine'[u] = None
  BY <1>1 DEF LoggerInv, LoggersTypeOK
<1>6. CASE Private!Tied(u)
  <2>1. draft[u] # None /\ u \notin loose /\ entries[draft[u]].logger = mine[u]
    BY <1>6, TiedMeans
  <2>2. PICK x : x = entries[draft[u]]
    OBVIOUS
  <2>3. privateEntries[u] =
            [bucketId |-> x.bucketId, categoryId |-> x.categoryId, tags |-> x.tags,
             inherits |-> settings[x.logger].tags, tied |-> TRUE]
    BY <2>1, <2>2 DEF privateEntries, PrivateEntry
  <2>4. PICK i \in {privateEntries[u].inherits, None} :
            PrivateEntry(u)' =
                [bucketId |-> x.bucketId, categoryId |-> x.categoryId, tags |-> x.tags,
                 inherits |-> i, tied |-> FALSE]
    <3>1. CASE DropsLogger(u)
      <4>1. u \in loose'
        BY <2>1, <3>1 DEF DropsLogger
      <4> QED
        BY <1>1, <2>1, <2>2, <4>1 DEF PrivateEntry
    <3>2. CASE ForgetsLogger(u)
      <4>1. UNCHANGED <<settings, loose>>
        BY <3>2 DEF ForgetsLogger
      <4>2. mine'[u] # entries'[draft'[u]].logger
        BY <1>1, <1>5, <2>1
      <4>3. PrivateEntry(u)' =
                [bucketId |-> x.bucketId, categoryId |-> x.categoryId, tags |-> x.tags,
                 inherits |-> settings[x.logger].tags, tied |-> FALSE]
        BY <1>1, <2>1, <2>2, <4>1, <4>2 DEF PrivateEntry
      <4>4. privateEntries[u].inherits = settings[x.logger].tags
        BY <2>3
      <4> QED
        BY <4>3, <4>4
    <3> QED
      BY <3>1, <3>2
  <2>5. PrivateEntry(u)' = [privateEntries[u] EXCEPT !.tied = FALSE, !.inherits = i]
    <3>1. PICK y : y = privateEntries[u]
      OBVIOUS
    <3>2. PICK b, c, t, k : b = x.bucketId /\ c = x.categoryId /\ t = x.tags
                            /\ k = settings[x.logger].tags
      OBVIOUS
    <3>3. y = [bucketId |-> b, categoryId |-> c, tags |-> t, inherits |-> k, tied |-> TRUE]
      BY <2>3, <3>1, <3>2, Zenon
    <3> DEFINE Untied == [bucketId : {b}, categoryId : {c}, tags : {t}, inherits : {i}, tied : {FALSE}]
    <3>4. y \in [bucketId : {b}, categoryId : {c}, tags : {t}, inherits : {i, k}, tied : BOOLEAN]
      BY <3>3
    <3>5. [y EXCEPT !.tied = FALSE, !.inherits = i] \in Untied
      BY <3>4
    <3>6. ASSUME NEW z \in Untied
          PROVE  z = [bucketId |-> b, categoryId |-> c, tags |-> t, inherits |-> i, tied |-> FALSE]
      OBVIOUS
    <3>7. [y EXCEPT !.tied = FALSE, !.inherits = i] =
              [bucketId |-> b, categoryId |-> c, tags |-> t, inherits |-> i, tied |-> FALSE]
      BY <3>5, <3>6, Zenon
    <3> QED
      BY <2>4, <3>1, <3>2, <3>7, Zenon
  <2>6. privateEntries' = [privateEntries EXCEPT ![u].tied = FALSE, ![u].inherits = i]
    BY <1>3, <2>5 DEF privateEntries
  <2> QED
    BY <1>1, <1>3, <1>4, <1>6, <2>6 DEF Private!Leave
<1>7. CASE ~Private!Tied(u)
  <2>1. ~(draft[u] # None /\ u \notin loose /\ entries[draft[u]].logger = mine[u])
    BY <1>7, TiedMeans
  <2>2. PrivateEntry(u)' = PrivateEntry(u)
    <3>1. CASE draft[u] = None
      BY <1>1, <3>1 DEF PrivateEntry
    <3>2. CASE draft[u] # None /\ u \in loose
      <4>1. u \in loose'
        BY <1>2, <3>2
      <4> QED
        BY <1>1, <3>2, <4>1 DEF PrivateEntry
    <3>3. CASE draft[u] # None /\ u \notin loose
      <4>1. entries[draft[u]].logger # mine[u] /\ entries[draft[u]].logger \in LoggerIds
        BY <2>1, <3>3, PrivateTypes
      <4>2. settings'[entries[draft[u]].logger] = settings[entries[draft[u]].logger]
        BY <1>2, <4>1
      <4>3. u \notin loose'
        BY <3>3, <4>1 DEF DropsLogger, ForgetsLogger
      <4>4. entries[draft[u]].logger # mine'[u]
        BY <1>5, <4>1, LoggersAssumption
      <4> QED
        BY <1>1, <3>3, <4>1, <4>2, <4>3, <4>4 DEF PrivateEntry
    <3> QED
      BY <3>1, <3>2, <3>3
  <2>3. privateEntries' = privateEntries
    BY <1>3, <2>2 DEF privateEntries
  <2> QED
    BY <1>1, <1>3, <1>4, <1>7, <2>3 DEF Private!Leave
<1> QED
  BY <1>6, <1>7

(* Logger.log: nothing of the entry's last use is left, and it starts with *)
(* the bucket of u's Pool and the category of u's logger.                  *)
LEMMA LogsRefines ==
    ASSUME LoggerInv, NEW u \in Users, NEW ts \in {<<>>, <<u>>}, Logs(u, ts)
    PROVE  \E t \in TagLists : Private!Log(u, t)
<1>1. PICK e \in EntryIds, start \in {NewEntry} \cup {entries[k] : k \in EntryIds} :
          /\ GetsEntry(e, start)
          /\ entries' = [entries EXCEPT ![e] = Filled(start, u, ts)]
          /\ draft' = [draft EXCEPT ![u] = e]
  BY DEF Logs
<1>2. /\ mine[u] # None /\ draft[u] = None /\ out' = None
      /\ UNCHANGED <<settings, loggerPool, mine, loose>>
  BY DEF Logs
<1>3. /\ start \in EntryRecords /\ start.tags = <<>>
      /\ \A v \in Users : draft[v] # e
  BY <1>1, GotEntry
<1>4. PICK t \in TagLists : t = Front(start.tags \o ts)
  <2>1. <<>> \in Seq(Users) /\ <<u>> \in Seq(Users)
    OBVIOUS
  <2>2. ts \in Seq(Users)
    BY <2>1, Zenon
  <2>3. start.tags \o ts \in Seq(Users)
    BY <1>3, <2>1, <2>2, ConcatProperties
  <2> QED
    BY <2>3, FrontType
<1>5. /\ entries'[e].bucketId = BucketOf[u] /\ entries'[e].tags = t /\ entries'[e].logger = mine[u]
      /\ entries'[e].categoryId = settings[mine[u]].categoryId
      /\ \A k \in EntryIds \ {e} : entries'[k] = entries[k]
  <2>1. entries \in [EntryIds -> EntryRecords]
    BY DEF LoggerInv, EntriesTyped
  <2>2. Filled(start, u, ts) =
            [start EXCEPT !.bucketId = BucketOf[u], !.logger = mine[u], !.tags = t,
                          !.categoryId = settings[mine[u]].categoryId]
    BY <1>4 DEF Filled
  <2>3. /\ Filled(start, u, ts).bucketId = BucketOf[u] /\ Filled(start, u, ts).tags = t
        /\ Filled(start, u, ts).logger = mine[u]
        /\ Filled(start, u, ts).categoryId = settings[mine[u]].categoryId
    BY <1>3, <2>2 DEF EntryRecords
  <2> QED
    BY <1>1, <2>1, <2>3
<1>6. draft'[u] = e /\ \A v \in Users \ {u} : draft'[v] = draft[v]
  BY <1>1 DEF LoggerInv, LoggersTypeOK
<1>7. u \notin loose /\ e # None
  BY <1>2, PrivateTypes, LoggersAssumption
<1>8. /\ privateLoggers' = privateLoggers /\ privateLoggers[u] = settings[mine[u]]
      /\ privateLoggers[u] # None /\ privateEntries[u] = None
  BY <1>2, PrivateTypes DEF privateLoggers, privateEntries, PrivateLogger
<1>9. PrivateEntry(u)' =
          [bucketId |-> BucketOf[u], categoryId |-> privateLoggers[u].categoryId, tags |-> t,
           inherits |-> privateLoggers[u].tags, tied |-> TRUE]
  BY <1>2, <1>5, <1>6, <1>7, <1>8 DEF PrivateEntry
<1>10. \A v \in Users \ {u} : PrivateEntry(v)' = PrivateEntry(v)
  BY <1>2, <1>3, <1>5, <1>6, PrivateTypes DEF PrivateEntry
<1>11. privateEntries' = [privateEntries EXCEPT ![u] = PrivateEntry(u)']
  BY <1>10 DEF privateEntries
<1>12. Private!Log(u, t)
  BY <1>2, <1>8, <1>9, <1>11 DEF Private!Log
<1> QED
  BY <1>12

(* Entry.Send gives the client u's entry with the tags u's logger has now, *)
(* or, if u dropped the logger, with those of some logger.                 *)
LEMMA SendsRefines ==
    ASSUME LoggerInv, NEW u \in Users, SendsEntry(u)
    PROVE  Private!Send(u)
<1>1. PICK e \in EntryIds : e = draft[u]
  BY PrivateTypes DEF SendsEntry
<1>2. PICK x \in EntryRecords : x = entries[e]
  BY <1>1, PrivateTypes DEF SendsEntry
<1>3. PICK i \in TagLists : i = settings[x.logger].tags
  BY <1>1, <1>2, PrivateTypes DEF SendsEntry
<1>4. PICK t \in TagLists : t = Front(x.tags \o i)
  <2>1. x.tags \o i \in Seq(Users)
    BY TagListIsSeq, ConcatProperties DEF EntryRecords
  <2> QED
    BY <2>1, FrontType
<1>5. /\ entries' = [entries EXCEPT ![e].tags = t] /\ out' = Given(entries'[e]) /\ e # None
      /\ UNCHANGED <<settings, loggerPool, entryPool, mine, draft, loose>>
  BY <1>1, <1>2, <1>3, <1>4 DEF SendsEntry
<1>6. /\ \A k \in EntryIds \ {e} : entries'[k] = entries[k]
      /\ entries'[e].tags = t /\ entries'[e].bucketId = x.bucketId
      /\ entries'[e].categoryId = x.categoryId /\ entries'[e].logger = x.logger
  BY <1>2, <1>5 DEF LoggerInv, EntriesTyped, EntryRecords
<1>7. \A v \in Users \ {u} : draft[v] # e
  BY <1>1, <1>5 DEF LoggerInv, Exclusive
<1>8. \A v \in Users \ {u} : PrivateEntry(v)' = PrivateEntry(v)
  BY <1>5, <1>6, <1>7, PrivateTypes DEF PrivateEntry
<1>9. privateEntries[u] = PrivateEntry(u) /\ privateEntries[u] # None
  BY <1>1, <1>5, PrivateTypes DEF privateEntries
<1>10. PICK inh : inh = IF u \in loose THEN None ELSE i
  OBVIOUS
<1>11. privateEntries[u] =
           [bucketId |-> x.bucketId, categoryId |-> x.categoryId, tags |-> x.tags,
            inherits |-> inh, tied |-> u \notin loose /\ x.logger = mine[u]]
  BY <1>1, <1>2, <1>3, <1>5, <1>9, <1>10 DEF PrivateEntry
<1>12. PrivateEntry(u)' =
           [bucketId |-> x.bucketId, categoryId |-> x.categoryId, tags |-> t,
            inherits |-> inh, tied |-> u \notin loose /\ x.logger = mine[u]]
  BY <1>1, <1>2, <1>3, <1>5, <1>6, <1>10 DEF PrivateEntry
<1>13. /\ privateEntries[u].tags = x.tags /\ privateEntries[u].bucketId = x.bucketId
       /\ privateEntries[u].categoryId = x.categoryId /\ privateEntries[u].inherits = inh
  BY <1>11
<1>14. PrivateEntry(u)' = [privateEntries[u] EXCEPT !.tags = t]
  BY <1>11, <1>12
<1>15. t = Private!Front(privateEntries[u].tags \o i)
  BY <1>4, <1>13 DEF Front, Private!Front
<1>16. privateEntries' = [privateEntries EXCEPT ![u].tags = Private!Front(@ \o i)]
  BY <1>8, <1>14, <1>15 DEF privateEntries
<1>17. i \in IF privateEntries[u].inherits = None THEN Private!TagLists
             ELSE {privateEntries[u].inherits}
  BY <1>10, <1>13 DEF TagLists, Private!TagLists
<1>18. out' = [bucketId |-> privateEntries[u].bucketId, categoryId |-> privateEntries[u].categoryId,
               tags |-> privateEntries'[u].tags]
  <2>1. privateEntries'[u] = PrivateEntry(u)'
    BY DEF privateEntries
  <2> QED
    BY <1>5, <1>6, <1>12, <1>13, <2>1 DEF Given
<1>19. privateLoggers' = privateLoggers
  BY <1>5 DEF privateLoggers, PrivateLogger
<1> QED
  BY <1>9, <1>16, <1>17, <1>18, <1>19 DEF Private!Send

(* Entry.Drop, or the user forgets its entry.                              *)
LEMMA DoneRefines ==
    ASSUME LoggerInv, NEW u \in Users, DropsEntry(u) \/ ForgetsEntry(u)
    PROVE  Private!Done(u)
<1>1. /\ draft[u] # None /\ draft' = [draft EXCEPT ![u] = None] /\ loose' = loose \ {u}
      /\ out' = None /\ UNCHANGED <<settings, loggerPool, mine>>
  BY DEF DropsEntry, ForgetsEntry
<1>2. /\ draft'[u] = None /\ \A v \in Users \ {u} : draft'[v] = draft[v] /\ draft[v] # draft[u]
  BY <1>1 DEF LoggerInv, LoggersTypeOK, Exclusive
<1>3. \A k \in EntryIds \ {draft[u]} : entries'[k] = entries[k]
  BY DEF DropsEntry, ForgetsEntry, LoggerInv, EntriesTyped
<1>4. PrivateEntry(u)' = None
  BY <1>2 DEF PrivateEntry
<1>5. \A v \in Users \ {u} : PrivateEntry(v)' = PrivateEntry(v)
  BY <1>1, <1>2, <1>3, PrivateTypes DEF PrivateEntry
<1>6. privateEntries' = [privateEntries EXCEPT ![u] = None]
  BY <1>4, <1>5 DEF privateEntries
<1>7. privateEntries[u] # None
  BY <1>1, PrivateTypes DEF privateEntries
<1>8. privateLoggers' = privateLoggers
  BY <1>1 DEF privateLoggers, PrivateLogger
<1> QED
  BY <1>1, <1>6, <1>7, <1>8 DEF Private!Done

(* Pool.Send of an error: no tags of the entry's last use are left.        *)
LEMMA ErrorRefines == ASSUME LoggerInv, SendsError PROVE Private!SendError
<1>1. PICK e \in EntryIds, start \in {NewEntry} \cup {entries[k] : k \in EntryIds} :
          GetsEntry(e, start) /\ out' = Given(start)
  BY DEF SendsError
<1>2. start \in EntryRecords /\ start.tags = <<>>
  BY <1>1, GotEntry
<1>3. /\ start.bucketId \in {BucketOf[u] : u \in Users} \cup {0}
      /\ start.categoryId \in Categories \cup {0}
  BY <1>2 DEF EntryRecords, Pools
<1>4. out' = [bucketId |-> start.bucketId, categoryId |-> start.categoryId, tags |-> <<>>]
  BY <1>1, <1>2 DEF Given
<1>5. UNCHANGED <<privateLoggers, privateEntries>>
  BY DEF SendsError, privateLoggers, privateEntries, PrivateLogger, PrivateEntry
<1> QED
  BY <1>3, <1>4, <1>5 DEF Private!SendError

(* Before the first step nobody has a logger or an entry of his own.       *)
LEMMA PrivateInit == LoggersInit => Private!Init
<1> SUFFICES ASSUME LoggersInit PROVE Private!Init
  OBVIOUS
<1>1. \A u \in Users : PrivateLogger(u) = None /\ PrivateEntry(u) = None
  BY DEF LoggersInit, PrivateLogger, PrivateEntry
<1> QED
  BY <1>1 DEF LoggersInit, Private!Init, privateLoggers, privateEntries

(* Every step of the pools and their users is a step of users with loggers *)
(* and entries of their own.                                               *)
LEMMA PrivateStep == LoggerInv /\ [LoggersNext]_loggersVars => [Private!Next]_(Private!vars)
<1> SUFFICES ASSUME LoggerInv, [LoggersNext]_loggersVars PROVE [Private!Next]_(Private!vars)
  OBVIOUS
<1>1. ASSUME NEW u \in Users,
             Acquires(u) \/ (\E v \in Users : Derives(u, v)) \/ Tags(u)
             \/ (\E c \in Categories : Cat(u, c)) \/ DropsLogger(u) \/ ForgetsLogger(u)
      PROVE  Private!Get(u) \/ Private!Set(u) \/ Private!Leave(u)
  BY <1>1, AcquiresRefines, DerivesRefines, SetsRefine, LeavesRefine
<1>2. ASSUME NEW u \in Users, NEW ts \in {<<>>, <<u>>}, Logs(u, ts)
      PROVE  \E t \in Private!TagLists : Private!Log(u, t)
  BY <1>2, LogsRefines DEF TagLists, Private!TagLists
<1>3. CASE PoolForgets
  BY <1>3 DEF PoolForgets, Private!Taken, Private!Next, privateLoggers, privateEntries,
     PrivateLogger, PrivateEntry
<1>4. CASE UNCHANGED loggersVars
  BY <1>4 DEF loggersVars, Private!vars, privateLoggers, privateEntries,
     PrivateLogger, PrivateEntry
<1> QED
  BY <1>1, <1>2, <1>3, <1>4, SendsRefines, DoneRefines, ErrorRefines
     DEF LoggersNext, Private!Next

(* Recycling shows nowhere: the Pools, the shared EntryPool and entries    *)
(* that read their logger only in Entry.Send implement users with loggers  *)
(* and entries of their own, for any number of users and objects.          *)
THEOREM LoggersRefine == LoggersSpec => ImplementsPrivateLoggers
  BY LoggerInvInit, LoggerInvStep, PrivateInit, PrivateStep, PTL
     DEF LoggersSpec, ImplementsPrivateLoggers, Private!Spec
============================================================================
