--------------------------- MODULE MCJobLifecycle ---------------------------
(* Instances of JobLifecycle for TLC. *)
EXTENDS JobLifecycle, TLC

CONSTANTS d1, d2, b1, b2, j1, j2, j3

\* Two documents uploaded in one batch, an extract job each.
OneBatch == [d \in {d1, d2} |-> b1]
TwoJobs == [j \in {j1, j2} |-> IF j = j1 THEN d1 ELSE d2]
TwoUploads == [d \in {d1, d2} |-> IF d = d1 THEN j1 ELSE j2]

\* One document with its extract job and one backfill job.
SingleBatch == [d \in {d1} |-> b1]
ExtractAndBackfill == [j \in {j1, j3} |-> d1]
SingleUpload == [d \in {d1} |-> j1]

SingleJob == [j \in {j1} |-> d1]

WorkerSymmetry == Permutations(Workers)
ClientSymmetry == Permutations(Clients)
WorkerAndClientSymmetry == Permutations(Workers) \cup Permutations(Clients)
=============================================================================
