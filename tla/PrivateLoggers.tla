--------------------------- MODULE PrivateLoggers ---------------------------
(***************************************************************************)
(* What loggers promise the goroutines that use them, without pools or     *)
(* objects: every user has a logger and an entry of its own, and an entry  *)
(* is sent with the bucket of its user's pool, the category its logger had *)
(* when it was made and the tags that logger has when it is sent           *)
(* (docs/client.md, "Acquiring a logger").  The one exception is an entry  *)
(* whose user dropped the logger first: which tags it gets is open.        *)
(***************************************************************************)
EXTENDS Naturals, Sequences

CONSTANTS Users, BucketOf, MaxTags, Categories, None

VARIABLES logger,  \* a user's settings, or None
          entry,   \* a user's entry, or None
          out      \* what the client is given in this step, or None

vars == <<logger, entry, out>>

TagLists == UNION {[1..n -> Users] : n \in 0..MaxTags}
Default  == [tags |-> <<>>, categoryId |-> 0]
Front(s) == SubSeq(s, 1, IF Len(s) < MaxTags THEN Len(s) ELSE MaxTags)

Init ==
    /\ logger = [u \in Users |-> None]
    /\ entry = [u \in Users |-> None]
    /\ out = None

Tied(u) == entry[u] # None /\ entry[u].tied

(* The user gets a logger: with default settings, or those of a parent.    *)
Get(u) ==
    /\ logger[u] = None
    /\ \/ logger' = [logger EXCEPT ![u] = Default]
       \/ \E v \in Users : logger[v] # None /\ logger' = [logger EXCEPT ![u] = logger[v]]
    /\ entry' = entry /\ out' = None

(* It changes its settings, and with them what its entry will inherit.     *)
Set(u) ==
    /\ logger[u] # None
    /\ \/ logger' = [logger EXCEPT ![u].tags = Front(Append(@, u))]
       \/ \E c \in Categories : logger' = [logger EXCEPT ![u].categoryId = c]
    /\ entry' = IF Tied(u) THEN [entry EXCEPT ![u].inherits = logger'[u].tags] ELSE entry
    /\ out' = None

(* It forgets its logger, which an entry of it still has, or it drops it:  *)
(* what the entry inherits is open from then on.                           *)
Leave(u) ==
    /\ logger[u] # None
    /\ logger' = [logger EXCEPT ![u] = None]
    /\ IF Tied(u)
       THEN \E inherited \in {entry[u].inherits, None} :
               entry' = [entry EXCEPT ![u].tied = FALSE, ![u].inherits = inherited]
       ELSE entry' = entry
    /\ out' = None

Log(u, ts) ==
    /\ logger[u] # None /\ entry[u] = None
    /\ entry' = [entry EXCEPT ![u] =
          [bucketId |-> BucketOf[u], categoryId |-> logger[u].categoryId,
           tags |-> ts, inherits |-> logger[u].tags, tied |-> TRUE]]
    /\ logger' = logger /\ out' = None

Send(u) ==
    /\ entry[u] # None
    /\ \E inherited \in IF entry[u].inherits = None THEN TagLists ELSE {entry[u].inherits} :
          entry' = [entry EXCEPT ![u].tags = Front(@ \o inherited)]
    /\ out' = [bucketId |-> entry[u].bucketId, categoryId |-> entry[u].categoryId, tags |-> entry'[u].tags]
    /\ logger' = logger

(* The user is done with its entry.                                        *)
Done(u) ==
    /\ entry[u] # None
    /\ entry' = [entry EXCEPT ![u] = None]
    /\ logger' = logger /\ out' = None

(* An error that is no entry carries nobody's tags; its bucket is open.    *)
SendError ==
    /\ \E b \in {BucketOf[u] : u \in Users} \cup {0}, c \in Categories \cup {0} :
          out' = [bucketId |-> b, categoryId |-> c, tags |-> <<>>]
    /\ UNCHANGED <<logger, entry>>

(* The client has taken what it was given.                                 *)
Taken == out' = None /\ UNCHANGED <<logger, entry>>

Next ==
    \/ \E u \in Users :
          Get(u) \/ Set(u) \/ Leave(u) \/ (\E ts \in TagLists : Log(u, ts)) \/ Send(u) \/ Done(u)
    \/ SendError \/ Taken

Spec == Init /\ [][Next]_vars
============================================================================
