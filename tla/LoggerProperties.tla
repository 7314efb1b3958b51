-------------------------- MODULE LoggerProperties --------------------------
(***************************************************************************)
(* What users of loggers rely on although loggers and entries are recycled.*)
(***************************************************************************)
EXTENDS Loggers

(* No object has two owners: a logger or an entry a user has is nobody     *)
(* else's and in no pool (Pool.Logger, EntryPool.Acquire), a logger is in  *)
(* the pool of one Pool, and a draft whose user did not drop its logger    *)
(* refers to a logger that no other user has and no pool (Logger.Drop).    *)
Exclusive ==
    /\ \A u \in Users : \A v \in Users \ {u} :
          /\ mine[u] # None => mine[u] # mine[v]
          /\ draft[u] # None => draft[u] # draft[v]
          /\ draft[u] # None /\ u \notin loose => entries[draft[u]].logger # mine[v]
    /\ \A u \in Users, p \in Pools :
          /\ mine[u] \notin loggerPool[p] /\ draft[u] \notin entryPool
          /\ draft[u] # None /\ u \notin loose => entries[draft[u]].logger \notin loggerPool[p]
    /\ \A p \in Pools : \A q \in Pools \ {p} : loggerPool[p] \cap loggerPool[q] = {}

(* Whatever went on, a logger or an entry that waits in a pool tells the   *)
(* next user nothing of the last one but the bucket and the category,      *)
(* which Logger.log overwrites (Logger.Reset, Entry.Reset).                *)
PooledIsClean ==
    /\ \A p \in Pools : \A l \in loggerPool[p] : settings[l] = NewLogger
    /\ \A e \in entryPool : EntryReset(entries[e]) = entries[e]

(* What a user sees of its logger and its entry, wherever they are.        *)
PrivateLogger(u) == IF mine[u] = None THEN None ELSE settings[mine[u]]

PrivateEntry(u) ==
    IF draft[u] = None THEN None
    ELSE LET x == entries[draft[u]]
         IN [bucketId |-> x.bucketId, categoryId |-> x.categoryId,
             tags |-> x.tags,
             inherits |-> IF u \in loose THEN None ELSE settings[x.logger].tags,
             tied |-> u \notin loose /\ x.logger = mine[u]]

privateLoggers == [u \in Users |-> PrivateLogger(u)]
privateEntries == [u \in Users |-> PrivateEntry(u)]

(* None is a nil pointer, and differs from what pointers point to.         *)
ASSUME NoneAssumption ==
    /\ None \notin TagLists
    /\ None \notin [tags : TagLists, categoryId : Nat]
    /\ None \notin [bucketId : Nat, categoryId : Nat, tags : TagLists,
                    inherits : TagLists \cup {None}, tied : BOOLEAN]

Private == INSTANCE PrivateLoggers WITH logger <- privateLoggers, entry <- privateEntries

(* Recycling shows nowhere: pools, objects and entries that read their     *)
(* logger only in Entry.Send implement users with loggers and entries of   *)
(* their own, except that Send after Logger.Drop may append other tags.    *)
ImplementsPrivateLoggers == Private!Spec
============================================================================
