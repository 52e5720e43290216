--------------------------- MODULE MCRecordStore ---------------------------
(* Instances of RecordStore for TLC. *)
EXTENDS RecordStore

CONSTANTS d1, d2, u1, u2, k1

\* Two uploaded documents; the first may be backfilled once.
OneBackfill == [j \in {u1, u2, k1} |-> IF j = u2 THEN d2 ELSE d1]
=============================================================================
