-------------------------- MODULE MC_MetadataCache --------------------------
(* A relation, an index that is fetched through the relation and hashes to *)
(* the same bucket, a type in another one, and a CTAS id; the first bucket *)
(* stays empty.                                                            *)
EXTENDS MetadataCache

CONSTANTS rel, index, type, ctas

MC_Bucket == [k \in Key |-> CASE k = ctas -> 0 [] k = type -> 2 [] OTHER -> 1]
MC_Bytes == [k \in Key |-> IF k = rel THEN 20 ELSE 10]
MC_Needs == [k \in Key |-> IF k = index THEN {rel} ELSE {}]
=============================================================================
