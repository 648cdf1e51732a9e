----------------------------- MODULE MCDatalayer -----------------------------
(* Small instances of Datalayer for TLC. *)
EXTENDS Datalayer

CONSTANTS s1, array, group, t1, k1, k2
MCBucket == [k \in Kinds |-> IF k = "parquet" THEN "tables" ELSE "shared"]
=============================================================================
