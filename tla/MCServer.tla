------------------------------ MODULE MCServer ------------------------------
(* Two clients with certificates for different buckets, for TLC.           *)
EXTENDS ServerProperties

MCCertBuckets == [k \in Conns |-> IF k = 1 THEN {7} ELSE {8}]
============================================================================
