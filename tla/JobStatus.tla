----------------------------- MODULE JobStatus -----------------------------
(***************************************************************************)
(* What the queue promises about one job: the abstract specification that  *)
(* JobLifecycle implements while requests do not overlap.  A run starts    *)
(* only from the queue and is the only one of its job; only a run puts a   *)
(* table under review; only a review puts it into the live tables, once;   *)
(* nothing is decided by a run except a rejection made while it lasted,    *)
(* which it undoes.                                                        *)
(***************************************************************************)

VARIABLES
    status,   \* of the row; "unused" before it is inserted, "deleted" after
    running,  \* a worker has the job
    landed    \* its table has been committed to the live tables

vars == <<status, running, landed>>

Status == {"pending", "extracting", "awaiting_review", "confirmed",
           "rejected", "failed"}

Init ==
    /\ status = "unused"
    /\ running = FALSE
    /\ landed = FALSE

Insert ==
    /\ status = "unused"
    /\ status' = "pending"
    /\ UNCHANGED <<running, landed>>

Claim ==
    /\ status = "pending"
    /\ ~running
    /\ status' = "extracting"
    /\ running' = TRUE
    /\ UNCHANGED landed

\* A table, a failure, or back to the queue after a rate limit.
FinishRun ==
    /\ running
    /\ status \in {"extracting", "rejected"}
    /\ status' \in {"awaiting_review", "failed", "pending"}
    /\ running' = FALSE
    /\ UNCHANGED landed

\* The worker died, or its job was deleted.
AbandonRun ==
    /\ running
    /\ running' = FALSE
    /\ UNCHANGED <<status, landed>>

Confirm ==
    /\ status = "awaiting_review"
    /\ ~running
    /\ ~landed
    /\ status' = "confirmed"
    /\ landed' = TRUE
    /\ UNCHANGED running

\* A re-extraction of a table under review, or a retry of a failure.
Requeue ==
    /\ status \in {"awaiting_review", "failed"}
    /\ ~running
    /\ ~landed
    /\ status' = "pending"
    /\ UNCHANGED <<running, landed>>

Reject ==
    /\ status \in Status
    /\ status' = "rejected"
    /\ UNCHANGED <<running, landed>>

Delete ==
    /\ status \in Status
    /\ status' = "deleted"
    /\ UNCHANGED <<running, landed>>

Next ==
    \/ Insert
    \/ Claim
    \/ FinishRun
    \/ AbandonRun
    \/ Confirm
    \/ Requeue
    \/ Reject
    \/ Delete

Spec == Init /\ [][Next]_vars
=============================================================================
