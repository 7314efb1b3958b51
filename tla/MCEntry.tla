------------------------------ MODULE MCEntry ------------------------------
(* Strings shorter and longer than the limit, and one long value that      *)
(* fills the rest of a slot.                                               *)
EXTENDS EntryProperties

MCStrings  == {<<>>, <<65, 65>>, <<67, 67, 67, 67>>}
MCValues   == {<<>>, [i \in 1..28 |-> 66]}
MCTagLists == {<<<<65, 65>>>>, <<<<>>, <<67, 67, 67, 67>>, <<65, 65>>>>}
============================================================================
