------------------------------ MODULE Loggers ------------------------------
(***************************************************************************)
(* Goroutines that get loggers from Pools and entries from the EntryPool   *)
(* these share (PoolOptions.EntryPool), and put them back for others       *)
(* (logger.go, pool.go, entry_pool.go).  Loggers and entries are objects:  *)
(* an entry refers to its logger, whose tags Send reads.  A user uses no   *)
(* object after it dropped it, but it may drop a logger, or forget it,     *)
(* while an entry made by it is still to be sent.                          *)
(*                                                                         *)
(* Metadata and metrics of a logger are treated like its tags, the TTLs    *)
(* like the category, so one of each is enough.                            *)
(***************************************************************************)
EXTENDS Naturals, Sequences, FiniteSets

CONSTANTS Users,      \* goroutines; a user's own tag is its name
          BucketOf,   \* the bucket id of each user's Pool, which names the Pool
          LoggerIds,  \* bound: loggers alive at once
          EntryIds,   \* bound: entries alive at once
          MaxTags,    \* MaxTagsCount
          Categories, \* categories users ask for
          None

ASSUME LoggersAssumption ==
    /\ BucketOf \in [Users -> Nat \ {0}]
    /\ MaxTags \in Nat /\ Categories \subseteq Nat
    /\ None \notin LoggerIds \cup EntryIds

VARIABLES settings,    \* what each logger holds
          entries,     \* what each entry holds
          loggerPool,  \* of each Pool: the loggers put back
          entryPool,   \* the entries put back
          mine,        \* the logger each user has, or None
          draft,       \* the entry each user has, or None
          loose,       \* users that dropped the logger of their draft
          out          \* the entry ProcessEntry is given in this step, or None

loggersVars == <<settings, entries, loggerPool, entryPool, mine, draft, loose, out>>

Pools    == {BucketOf[u] : u \in Users}
TagLists == UNION {[1..n -> Users] : n \in 0..MaxTags}
Front(s) == SubSeq(s, 1, IF Len(s) < MaxTags THEN Len(s) ELSE MaxTags)

(* A logger and an entry as they are allocated.                            *)
NewLogger == [tags |-> <<>>, categoryId |-> 0]
NewEntry  == [bucketId |-> 0, categoryId |-> 0, tags |-> <<>>, logger |-> None]

LoggersInit ==
    /\ settings = [l \in LoggerIds |-> NewLogger]
    /\ entries = [e \in EntryIds |-> NewEntry]
    /\ loggerPool = [p \in Pools |-> {}]
    /\ entryPool = {}
    /\ mine = [u \in Users |-> None]
    /\ draft = [u \in Users |-> None]
    /\ loose = {}
    /\ out = None

LoggersTypeOK ==
    /\ settings \in [LoggerIds -> [tags : TagLists, categoryId : Categories \cup {0}]]
    /\ \A e \in EntryIds : entries[e].tags \in TagLists /\ entries[e].logger \in LoggerIds \cup {None}
    /\ loggerPool \in [Pools -> SUBSET LoggerIds] /\ entryPool \subseteq EntryIds
    /\ mine \in [Users -> LoggerIds \cup {None}] /\ draft \in [Users -> EntryIds \cup {None}]
    /\ loose \subseteq {u \in Users : draft[u] # None}

----------------------------------------------------------------------------
(* Objects nothing refers to are garbage: their memory may be allocated.   *)
Drafts         == {draft[u] : u \in Users} \ {None}
GarbageEntries == EntryIds \ (entryPool \cup Drafts)
GarbageLoggers == LoggerIds \ ((UNION {loggerPool[p] : p \in Pools}) \cup {mine[u] : u \in Users}
                                  \cup {entries[e].logger : e \in Drafts})

(* Pool.Logger: one of the pool as it is, or a new one; sync.Pool may      *)
(* return nothing although it has something.                               *)
FaultyGetsLogger(u, l, start) ==
    \/ l \in loggerPool[BucketOf[u]] /\ start = settings[l] /\ loggerPool' = loggerPool
    \/ l \in GarbageLoggers /\ start = NewLogger /\ loggerPool' = loggerPool

GetsLogger(u, l, start) ==
    \/ /\ l \in loggerPool[BucketOf[u]]
       /\ start = settings[l]
       /\ loggerPool' = [loggerPool EXCEPT ![BucketOf[u]] = @ \ {l}]
    \/ /\ l \in GarbageLoggers
       /\ start = NewLogger
       /\ loggerPool' = loggerPool

(* Pool.Entry, which is EntryPool.Acquire.                                 *)
GetsEntry(e, start) ==
    \/ e \in entryPool /\ start = entries[e] /\ entryPool' = entryPool \ {e}
    \/ e \in GarbageEntries /\ start = NewEntry /\ entryPool' = entryPool

Acquires(u) ==
    /\ mine[u] = None
    /\ \E l \in LoggerIds, start \in {NewLogger} \cup {settings[k] : k \in LoggerIds} :
          /\ GetsLogger(u, l, start)
          /\ settings' = [settings EXCEPT ![l] = start]
          /\ mine' = [mine EXCEPT ![u] = l]
    /\ UNCHANGED <<entries, entryPool, draft, loose>> /\ out' = None

(* Logger.Logger: appends the parent's lists to those of the logger it got.*)
Inherits(start, parent) ==
    [tags |-> start.tags \o parent.tags, categoryId |-> parent.categoryId]

Derives(u, v) ==
    /\ mine[u] = None /\ mine[v] # None /\ BucketOf[u] = BucketOf[v]
    /\ \E l \in LoggerIds, start \in {NewLogger} \cup {settings[k] : k \in LoggerIds} :
          /\ GetsLogger(u, l, start)
          /\ settings' = [settings EXCEPT ![l] = Inherits(start, settings[mine[v]])]
          /\ mine' = [mine EXCEPT ![u] = l]
    /\ UNCHANGED <<entries, entryPool, draft, loose>> /\ out' = None

(* Logger.Tag and Logger.Cat.                                              *)
Tags(u) ==
    /\ mine[u] # None
    /\ settings' = [settings EXCEPT ![mine[u]].tags = Front(Append(@, u))]
    /\ UNCHANGED <<entries, loggerPool, entryPool, mine, draft, loose>> /\ out' = None

Cat(u, c) ==
    /\ mine[u] # None
    /\ settings' = [settings EXCEPT ![mine[u]].categoryId = c]
    /\ UNCHANGED <<entries, loggerPool, entryPool, mine, draft, loose>> /\ out' = None

FaultyLoggerReset(s) == [s EXCEPT !.categoryId = 0]

LoggerReset(s) == [s EXCEPT !.tags = <<>>, !.categoryId = 0]

(* Logger.Drop, which is ReleaseLogger of its Pool.                        *)
DropsLogger(u) ==
    /\ mine[u] # None
    /\ settings' = [settings EXCEPT ![mine[u]] = LoggerReset(@)]
    /\ loggerPool' = [loggerPool EXCEPT ![BucketOf[u]] = @ \cup {mine[u]}]
    /\ loose' = IF draft[u] # None /\ entries[draft[u]].logger = mine[u] THEN loose \cup {u} ELSE loose
    /\ mine' = [mine EXCEPT ![u] = None]
    /\ UNCHANGED <<entries, entryPool, draft>> /\ out' = None

ForgetsLogger(u) ==
    /\ mine[u] # None
    /\ mine' = [mine EXCEPT ![u] = None]
    /\ UNCHANGED <<settings, entries, loggerPool, entryPool, draft, loose>> /\ out' = None

----------------------------------------------------------------------------
FaultyFilled(start, u, ts) ==
    [start EXCEPT !.logger = mine[u], !.tags = Front(@ \o ts),
        !.categoryId = settings[mine[u]].categoryId]

(* Logger.log, with the tags of its caller, which Entry.Tag appends.       *)
Filled(start, u, ts) ==
    [start EXCEPT !.bucketId = BucketOf[u], !.logger = mine[u], !.tags = Front(@ \o ts),
        !.categoryId = settings[mine[u]].categoryId]

Logs(u, ts) ==
    /\ mine[u] # None /\ draft[u] = None
    /\ \E e \in EntryIds, start \in {NewEntry} \cup {entries[k] : k \in EntryIds} :
          /\ GetsEntry(e, start)
          /\ entries' = [entries EXCEPT ![e] = Filled(start, u, ts)]
          /\ draft' = [draft EXCEPT ![u] = e]
    /\ UNCHANGED <<settings, loggerPool, mine, loose>> /\ out' = None

Given(x) == [bucketId |-> x.bucketId, categoryId |-> x.categoryId, tags |-> x.tags]

(* Entry.Send.  Its loggers' tags may be somebody else's by now.           *)
SendsEntry(u) ==
    /\ draft[u] # None
    /\ entries' = [entries EXCEPT ![draft[u]].tags = Front(@ \o settings[entries[draft[u]].logger].tags)]
    /\ out' = Given(entries'[draft[u]])
    /\ UNCHANGED <<settings, loggerPool, entryPool, mine, draft, loose>>

EntryReset(x) == [x EXCEPT !.logger = None, !.tags = <<>>]

(* Entry.Drop, which is ReleaseEntry of its logger's Pool; or the user     *)
(* just forgets the entry it sent.                                         *)
DropsEntry(u) ==
    /\ draft[u] # None
    /\ entries' = [entries EXCEPT ![draft[u]] = EntryReset(@)]
    /\ entryPool' = entryPool \cup {draft[u]}
    /\ draft' = [draft EXCEPT ![u] = None]
    /\ loose' = loose \ {u}
    /\ UNCHANGED <<settings, loggerPool, mine>> /\ out' = None

ForgetsEntry(u) ==
    /\ draft[u] # None
    /\ draft' = [draft EXCEPT ![u] = None]
    /\ loose' = loose \ {u}
    /\ UNCHANGED <<settings, entries, loggerPool, entryPool, mine>> /\ out' = None

(* Pool.Send of an error that is no entry: the entry it acquires keeps the *)
(* bucket of its last use, and is not put back.                            *)
SendsError ==
    /\ \E e \in EntryIds, start \in {NewEntry} \cup {entries[k] : k \in EntryIds} :
          GetsEntry(e, start) /\ out' = Given(start)
    /\ UNCHANGED <<settings, entries, loggerPool, mine, draft, loose>>

(* sync.Pool gives its objects up when it likes.                           *)
PoolForgets ==
    /\ \/ \E p \in Pools : \E l \in loggerPool[p] :
             loggerPool' = [loggerPool EXCEPT ![p] = @ \ {l}] /\ entryPool' = entryPool
       \/ \E e \in entryPool : entryPool' = entryPool \ {e} /\ loggerPool' = loggerPool
    /\ UNCHANGED <<settings, entries, mine, draft, loose>> /\ out' = None

LoggersNext ==
    \/ \E u \in Users :
          \/ Acquires(u) \/ (\E v \in Users : Derives(u, v))
          \/ Tags(u) \/ (\E c \in Categories : Cat(u, c))
          \/ DropsLogger(u) \/ ForgetsLogger(u)
          \/ (\E ts \in {<<>>, <<u>>} : Logs(u, ts))
          \/ SendsEntry(u) \/ DropsEntry(u) \/ ForgetsEntry(u)
    \/ SendsError \/ PoolForgets

LoggersSpec == LoggersInit /\ [][LoggersNext]_loggersVars
============================================================================
