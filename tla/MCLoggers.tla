----------------------------- MODULE MCLoggers -----------------------------
(* Two users of one Pool and a third of another one, for TLC.              *)
EXTENDS LoggerProperties, TLC

CONSTANTS u1, u2, u3

MCUsers    == {u1, u2, u3}
MCBucketOf == [u \in MCUsers |-> IF u = u3 THEN 2 ELSE 1]
Symmetry   == Permutations(LoggerIds) \cup Permutations(EntryIds) \cup Permutations({u1, u2})

(* What garbage held is seen by nobody.                                    *)
Seen ==
    <<[l \in LoggerIds \ GarbageLoggers |-> settings[l]], [e \in EntryIds \ GarbageEntries |-> entries[e]],
      loggerPool, entryPool, mine, draft, loose, out>>
============================================================================
