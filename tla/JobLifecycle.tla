---------------------------- MODULE JobLifecycle ----------------------------
(***************************************************************************)
(* The extraction queue: the `jobs` table of Postgres, the worker          *)
(* processes that claim and run its rows (app/worker.py and the commits of *)
(* app/pipeline/extract.py), and the HTTP handlers that move a job through *)
(* its statuses (app/routers/jobs.py, batches.py, documents.py and the     *)
(* backfill enqueue of schemas.py).                                        *)
(*                                                                         *)
(* A worker and a handler each hold a SQLAlchemy session: they SELECT a    *)
(* row, compute on that copy, and at commit UPDATE only the columns whose  *)
(* value differs from the copy, WHERE id = ... and nothing else.  Between  *)
(* the SELECT and the commit any other transaction may run (READ           *)
(* COMMITTED, no version column), so the read and the write are two steps. *)
(* `Clients` is the number of requests that can be in flight at once.      *)
(***************************************************************************)
EXTENDS Naturals, FiniteSets

CONSTANTS
    Documents,      \* documents that may be uploaded
    Batches,        \* batches they are uploaded in
    Jobs,           \* job ids, each used at most once (uuid4)
    BatchOf,        \* documents.batch_id, written once by the upload
    DocumentOf,     \* jobs.document_id, written once by the insert
    UploadJob,      \* the extract job POST /documents creates for a document
    Workers,        \* worker processes
    Clients,        \* request slots: how many handlers may overlap
    MAX_RATE_LIMIT_ATTEMPTS,
    MaxReextracts,  \* bound: re-extractions asked of one job
    None            \* SQL NULL

ASSUME ConstantsAssumption ==
    /\ IsFiniteSet(Jobs)
    /\ BatchOf \in [Documents -> Batches]
    /\ DocumentOf \in [Jobs -> Documents]
    /\ UploadJob \in [Documents -> Jobs]
    /\ \A d \in Documents : DocumentOf[UploadJob[d]] = d
    /\ MAX_RATE_LIMIT_ATTEMPTS \in Nat \ {0}
    /\ MaxReextracts \in Nat
    /\ None \notin Workers
    /\ None \notin Jobs

VARIABLES
    documents,  \* rows of `documents`
    batches,    \* rows of `batches`
    jobs,       \* ids of the rows of `jobs`
    job,        \* the columns of each row (BlankRow where there is no row)
    createdAt,  \* jobs.created_at; 0 for an id never used
    live,       \* documents with rows in extracted_records or chunks
    landings,   \* history: how often a job's staged result was committed
    sess,       \* each worker's session
    orphaned,   \* history: jobs whose worker died while running them
    contested,  \* history: jobs two reviewers' decisions held at once
    req         \* each request in flight

vars == <<documents, batches, jobs, job, createdAt, live, landings, sess,
          orphaned, contested, req>>

tables == <<documents, batches, jobs, job, createdAt, live, landings>>

-----------------------------------------------------------------------------
(* Types *)

Status == {"pending", "extracting", "awaiting_review", "confirmed",
           "rejected", "failed"}

TERMINAL_STATUSES == {"awaiting_review", "confirmed", "rejected", "failed"}

\* The `progress` column: the attempt counter, whether retry_not_before still
\* lies in the future, and which step the row shows.
Progress == [attempts : Nat, deferred : BOOLEAN,
             step : {"none", "working", "waiting", "done"}]

\* The `result` column: the extracted table ("flagged" when some score is
\* under the threshold), reextract_feedback, and len(reextract_history).
Result == [table : {"none", "flagged", "clean"}, feedback : BOOLEAN,
           asked : 0..MaxReextracts]

Row == [status : Status, kind : {"extract", "backfill", "reextract"},
        progress : Progress, result : Result, lockedBy : Workers \cup {None}]

NoProgress == [attempts |-> 0, deferred |-> FALSE, step |-> "none"]
NoResult == [table |-> "none", feedback |-> FALSE, asked |-> 0]
BlankRow == [status |-> "pending", kind |-> "extract", progress |-> NoProgress,
             result |-> NoResult, lockedBy |-> None]

\* A worker: idle; holding a claim it has not loaded yet; running the
\* pipeline on `row`; or having rolled back, about to record the failure.
Session == [pc : {"idle", "claimed", "running", "failing", "limited"},
            job : Jobs \cup {None}, row : Row]
IdleSession == [pc |-> "idle", job |-> None, row |-> BlankRow]

\* A request between its SELECT and its commit: the job ids it loaded, the
\* copy it works on (single-job handlers) and the documents it deletes.
Request == [op : {"idle", "patch", "confirm", "reextract", "reject", "retry",
                  "confirm_all", "delete_batch"},
            jobs : SUBSET Jobs, seen : Row, docs : SUBSET Documents]
IdleRequest == [op |-> "idle", jobs |-> {}, seen |-> BlankRow, docs |-> {}]

TypeOK ==
    /\ documents \in SUBSET Documents
    /\ batches \in SUBSET Batches
    /\ jobs \in SUBSET Jobs
    /\ job \in [Jobs -> Row]
    /\ createdAt \in [Jobs -> Nat]
    /\ live \in SUBSET Documents
    /\ landings \in [Jobs -> 0..2]
    /\ sess \in [Workers -> Session]
    /\ \A w \in Workers : sess[w].pc # "idle" => sess[w].job \in Jobs
    /\ orphaned \in SUBSET Jobs
    /\ contested \in SUBSET Jobs
    /\ req \in [Clients -> Request]

-----------------------------------------------------------------------------
(* Sessions and tables *)

\* The UPDATE a flush emits: a column is written iff it differs from the
\* value the session loaded.
Column(current, loaded, new) == IF new = loaded THEN current ELSE new

WriteBack(current, loaded, new) ==
    [status   |-> Column(current.status, loaded.status, new.status),
     kind     |-> Column(current.kind, loaded.kind, new.kind),
     progress |-> Column(current.progress, loaded.progress, new.progress),
     result   |-> Column(current.result, loaded.result, new.result),
     lockedBy |-> Column(current.lockedBy, loaded.lockedBy, new.lockedBy)]

\* The copy a session takes of a row, cut to the columns its code reads or
\* assigns: a column it does not assign is never dirty, whatever the copy says.
Copy(row, columns) ==
    [status   |-> IF "status" \in columns THEN row.status ELSE "pending",
     kind     |-> IF "kind" \in columns THEN row.kind ELSE "extract",
     progress |-> IF "progress" \in columns THEN row.progress ELSE NoProgress,
     result   |-> IF "result" \in columns THEN row.result ELSE NoResult,
     lockedBy |-> IF "lockedBy" \in columns THEN row.lockedBy ELSE None]

JobsOf(d) == {j \in jobs : DocumentOf[j] = d}

\* batch.jobs: only the jobs an upload made carry a batch_id.
JobsOfBatch(b) ==
    {j \in jobs : j = UploadJob[DocumentOf[j]] /\ BatchOf[DocumentOf[j]] = b}

\* transaction-scoped now(): later than every row inserted so far.
Later(t) == \A j \in Jobs : createdAt[j] < t

\* Rows an in-flight request may hold a lock on: SKIP LOCKED passes over them.
MayBeLocked(j) == \E c \in Clients : j \in req[c].jobs

DropJobs(gone) ==
    /\ jobs' = jobs \ gone
    /\ job' = [j \in Jobs |-> IF j \in gone THEN BlankRow ELSE job[j]]

\* Whether an emptied batch goes too was decided by a look before the commit
\* (Library models the look): beside another delete it may stay.
DropDocuments(gone) ==
    /\ documents' = documents \ gone
    /\ live' = live \ gone
    /\ \E emptied \in SUBSET {BatchOf[d] : d \in gone} :
         /\ \A d \in documents \ gone : BatchOf[d] \notin emptied
         /\ batches' = batches \ emptied

Init ==
    /\ documents = {}
    /\ batches = {}
    /\ jobs = {}
    /\ job = [j \in Jobs |-> BlankRow]
    /\ createdAt = [j \in Jobs |-> 0]
    /\ live = {}
    /\ landings = [j \in Jobs |-> 0]
    /\ sess = [w \in Workers |-> IdleSession]
    /\ orphaned = {}
    /\ contested = {}
    /\ req = [c \in Clients |-> IdleRequest]

-----------------------------------------------------------------------------
(* Worker: claim_job, process_job, _handle_rate_limited *)

\* Mutant: the claim statement forgets the status filter on running jobs.
ClaimableWhileRunning(j) ==
    /\ j \in jobs
    /\ job[j].status \in {"pending", "extracting"}
    /\ ~job[j].progress.deferred

Claimable(j) ==
    /\ j \in jobs
    /\ job[j].status = "pending"
    /\ ~job[j].progress.deferred

\* The claim statement, committed at once.
claim_job(w) ==
    /\ sess[w].pc = "idle"
    /\ \E j \in Jobs :
        /\ Claimable(j)
        /\ \A k \in Jobs : (Claimable(k) /\ createdAt[k] < createdAt[j])
                              => MayBeLocked(k)
        /\ job' = [job EXCEPT ![j].status = "extracting", ![j].lockedBy = w]
        /\ sess' = [sess EXCEPT ![w] = [pc |-> "claimed", job |-> j,
                                        row |-> BlankRow]]
    /\ UNCHANGED <<documents, batches, jobs, createdAt, live, landings,
                   orphaned, contested, req>>

\* session.get(Job, job_id): the claimed row may have been deleted already.
LoadJob(w) ==
    /\ sess[w].pc = "claimed"
    /\ LET j == sess[w].job IN
       sess' = [sess EXCEPT ![w] =
                  IF j \in jobs
                  THEN [pc |-> "running", job |-> j,
                        row |-> Copy(job[j], {"status", "kind", "progress",
                                              "result"})]
                  ELSE IdleSession]
    /\ UNCHANGED <<tables, orphaned, contested, req>>

\* Mutants: the feedback is not popped; the history is appended to twice.
ResultKeepingFeedback(row, table) ==
    [table |-> table, feedback |-> row.result.feedback, asked |-> row.result.asked]

ResultCountingTwice(row, table) ==
    [table |-> table, feedback |-> FALSE,
     asked |-> IF row.kind = "reextract" THEN row.result.asked + 1 ELSE 0]

\* What a finished pipeline leaves in `result`: a re-extract merges into the
\* staged payload and clears the feedback, the other two replace it.
PipelineResult(row, table) ==
    [table    |-> table,
     feedback |-> FALSE,
     asked    |-> IF row.kind = "reextract" THEN row.result.asked ELSE 0]

\* The pipeline returned: one commit writes status, result and progress.  A
\* row deleted meanwhile makes the commit a StaleDataError: the run is dropped.
CompleteRun(w) ==
    /\ sess[w].pc = "running"
    /\ LET j   == sess[w].job
           row == sess[w].row
       IN \/ /\ j \in jobs
             /\ \E table \in {"flagged", "clean"} :
                  job' = [job EXCEPT ![j] = WriteBack(job[j], row,
                            [row EXCEPT !.status   = "awaiting_review",
                                        !.result   = PipelineResult(row, table),
                                        !.progress = [attempts |-> 0,
                                                      deferred |-> FALSE,
                                                      step     |-> "done"]])]
          \/ /\ j \notin jobs
             /\ job' = job
    /\ sess' = [sess EXCEPT ![w] = IdleSession]
    /\ UNCHANGED <<documents, batches, jobs, createdAt, live, landings,
                   orphaned, contested, req>>

FailureColumns == [failing |-> {"status"},
                   limited |-> {"status", "progress", "lockedBy"}]

\* The pipeline raised: roll back and load the row afresh.
RollbackRun(w) ==
    /\ sess[w].pc = "running"
    /\ LET j == sess[w].job IN
       \E reason \in {"failing", "limited"} :
         sess' = [sess EXCEPT ![w] =
                    IF j \in jobs
                    THEN [pc |-> reason, job |-> j,
                          row |-> Copy(job[j], FailureColumns[reason])]
                    ELSE IdleSession]
    /\ UNCHANGED <<tables, orphaned, contested, req>>

\* Mutants: `>` for `>=`; the counter lost with the old progress; the status
\* not reset.
RateLimitedOneMore(row) ==
    LET attempts == row.progress.attempts + 1
    IN  IF attempts > MAX_RATE_LIMIT_ATTEMPTS
        THEN [row EXCEPT !.status = "failed", !.progress.attempts = attempts]
        ELSE [row EXCEPT !.status = "pending", !.lockedBy = None,
                         !.progress = [attempts |-> attempts, deferred |-> TRUE,
                                       step |-> "waiting"]]

RateLimitedUncounted(row) ==
    [row EXCEPT !.status = "pending", !.lockedBy = None,
                !.progress = [attempts |-> 0, deferred |-> TRUE,
                              step |-> "waiting"]]

RateLimitedStillExtracting(row) ==
    [row EXCEPT !.lockedBy = None, !.progress.deferred = TRUE]

\* _handle_rate_limited: requeue behind a not-before stamp, or give up.
RateLimited(row) ==
    LET attempts == row.progress.attempts + 1
    IN  IF attempts >= MAX_RATE_LIMIT_ATTEMPTS
        THEN [row EXCEPT !.status = "failed", !.progress.attempts = attempts]
        ELSE [row EXCEPT !.status   = "pending",
                         !.lockedBy = None,
                         !.progress = [attempts |-> attempts,
                                       deferred |-> TRUE,
                                       step     |-> "waiting"]]

\* The commit of the failure.  A row deleted since the reload raises out of
\* process_job and run_forever goes on to the next job.
RecordFailure(w) ==
    /\ sess[w].pc \in {"failing", "limited"}
    /\ LET j   == sess[w].job
           row == sess[w].row
           new == IF sess[w].pc = "limited"
                  THEN RateLimited(row)
                  ELSE [row EXCEPT !.status = "failed"]
       IN job' = IF j \in jobs
                 THEN [job EXCEPT ![j] = WriteBack(job[j], row, new)]
                 ELSE job
    /\ sess' = [sess EXCEPT ![w] = IdleSession]
    /\ UNCHANGED <<documents, batches, jobs, createdAt, live, landings,
                   orphaned, contested, req>>

\* The process is killed (or loses the database for good) holding a job.  The
\* container restarts it; nothing gives the job back.
Crash(w) ==
    /\ sess[w].pc # "idle"
    /\ orphaned' = orphaned \cup {sess[w].job}
    /\ sess' = [sess EXCEPT ![w] = IdleSession]
    /\ UNCHANGED <<tables, contested, req>>

\* retry_not_before passes.
DelayElapses(j) ==
    /\ job[j].progress.deferred
    /\ job' = [job EXCEPT ![j].progress.deferred = FALSE]
    /\ UNCHANGED <<documents, batches, jobs, createdAt, live, landings, sess,
                   orphaned, contested, req>>

-----------------------------------------------------------------------------
(* Handlers that run in one transaction from first statement to commit *)

InsertJobs(new, kind) ==
    /\ \A j \in new : createdAt[j] = 0
    /\ jobs' = jobs \cup new
    /\ job' = [j \in Jobs |-> IF j \in new THEN [BlankRow EXCEPT !.kind = kind]
                                           ELSE job[j]]
    /\ \E t \in 1..(Cardinality(Jobs) + 1) :
         /\ Later(t)
         /\ \A u \in 1..(t - 1) : ~Later(u)
         /\ createdAt' = [j \in Jobs |-> IF j \in new THEN t ELSE createdAt[j]]

\* POST /documents: one batch, and one document and one pending job per file.
upload_documents(b) ==
    /\ b \notin batches
    /\ LET docs == {d \in Documents : BatchOf[d] = b} IN
         /\ docs # {}
         /\ documents' = documents \cup docs
         /\ InsertJobs({UploadJob[d] : d \in docs}, "extract")
    /\ batches' = batches \cup {b}
    /\ UNCHANGED <<live, landings, sess, orphaned, contested, req>>

\* PUT /schemas/{id} with backfill, or POST /schemas/{id}/backfill: one
\* pending backfill job for every document that carries the schema.
enqueue_backfill ==
    \E new \in SUBSET (Jobs \ {UploadJob[d] : d \in Documents}) :
      /\ new # {}
      /\ \A j \in new : DocumentOf[j] \in documents
      /\ \A j, k \in new : DocumentOf[j] = DocumentOf[k] => j = k
      /\ InsertJobs(new, "backfill")
      /\ UNCHANGED <<documents, batches, live, landings, sess, orphaned,
                     contested, req>>

\* DELETE /documents/{id}: everything of one document, by document_id.
delete_document(d) ==
    /\ d \in documents
    /\ DropJobs(JobsOf(d))
    /\ DropDocuments({d})
    /\ UNCHANGED <<createdAt, landings, sess, orphaned, contested, req>>

-----------------------------------------------------------------------------
(* Handlers with a window between their SELECT and their commit *)

HandlerColumns == [patch     |-> {"result"},
                   confirm   |-> {"status", "result"},
                   reextract |-> {"status", "kind", "progress", "result", "lockedBy"},
                   reject    |-> {"status"},
                   retry     |-> {"status", "progress", "lockedBy"}]

\* The handlers by which a reviewer decides what a job does next.
Decisions == {"confirm", "confirm_all", "reextract", "retry"}

\* Request c loads `held` while others are deciding about some of them.
Contest(c, held, op) ==
    contested' = contested \cup
        {j \in held : /\ op \in Decisions
                      /\ \E k \in Clients \ {c} : /\ req[k].op \in Decisions
                                                  /\ j \in req[k].jobs}

Load(c, j, op) ==
    /\ req[c].op = "idle"
    /\ j \in jobs
    /\ req' = [req EXCEPT ![c] = [op |-> op, jobs |-> {j}, docs |-> {},
                                  seen |-> Copy(job[j], HandlerColumns[op])]]
    /\ Contest(c, {j}, op)
    /\ UNCHANGED <<tables, sess, orphaned>>

\* The commit of a single-job handler; StaleDataError if the row is gone.
Commit(c, op, new) ==
    /\ req[c].op = op
    /\ job' = [j \in Jobs |-> IF j \in req[c].jobs \cap jobs
                              THEN WriteBack(job[j], req[c].seen, new)
                              ELSE job[j]]
    /\ req' = [req EXCEPT ![c] = IdleRequest]
    /\ UNCHANGED <<documents, batches, jobs, createdAt, sess, orphaned, contested>>

\* PATCH /jobs/{id}/review: an edited cell loses its score, so a flagged
\* table may come out clean.
LoadPatch(c, j) == job[j].status = "awaiting_review" /\ Load(c, j, "patch")

patch_review(c) ==
    /\ \E table \in {req[c].seen.result.table, "clean"} :
         Commit(c, "patch", [req[c].seen EXCEPT !.result.table = table])
    /\ UNCHANGED <<live, landings>>

\* Mutant: no status guard.
LoadReextractAny(c, j) ==
    job[j].result.asked < MaxReextracts /\ Load(c, j, "reextract")

LoadReextract(c, j) ==
    /\ job[j].status = "awaiting_review"
    /\ job[j].result.asked < MaxReextracts
    /\ Load(c, j, "reextract")

reextract_job(c) ==
    /\ LET seen == req[c].seen IN
       Commit(c, "reextract",
              [seen EXCEPT !.kind = "reextract", !.status = "pending",
                           !.progress = NoProgress, !.lockedBy = None,
                           !.result.feedback = TRUE,
                           !.result.asked = IF @ < MaxReextracts THEN @ + 1 ELSE @])
    /\ UNCHANGED <<live, landings>>

\* POST /jobs/{id}/reject has no status guard.
LoadReject(c, j) == Load(c, j, "reject")

reject_job(c) ==
    /\ Commit(c, "reject", [req[c].seen EXCEPT !.status = "rejected"])
    /\ UNCHANGED <<live, landings>>

\* Mutant: retry accepts a job that still runs.
LoadRetryRunning(c, j) ==
    job[j].status \in {"failed", "extracting"} /\ Load(c, j, "retry")

LoadRetry(c, j) == job[j].status = "failed" /\ Load(c, j, "retry")

retry_job(c) ==
    /\ LET seen == req[c].seen IN
       Commit(c, "retry",
              [seen EXCEPT !.status = "pending", !.lockedBy = None,
                           !.progress.attempts = 0, !.progress.deferred = FALSE])
    /\ UNCHANGED <<live, landings>>

\* What confirm_job adds besides the status.  `stored` are the documents that
\* gain records or chunks: an unnamed ad hoc table and a file without text
\* leave none.
Land(confirmed) ==
    /\ \E stored \in SUBSET {DocumentOf[j] : j \in confirmed} :
         live' = live \cup stored
    /\ landings' = [j \in Jobs |-> IF j \in confirmed /\ landings[j] < 2
                                   THEN landings[j] + 1 ELSE landings[j]]

\* Mutant: no status guard.
LoadConfirmAny(c, j) == Load(c, j, "confirm")

LoadConfirm(c, j) == job[j].status = "awaiting_review" /\ Load(c, j, "confirm")

confirm_job(c) ==
    /\ Commit(c, "confirm", [req[c].seen EXCEPT !.status = "confirmed"])
    /\ Land(req[c].jobs \cap jobs)

\* ConfirmError: rolled back, answered 400.
refuse_confirm(c) ==
    /\ req[c].op = "confirm"
    /\ req' = [req EXCEPT ![c] = IdleRequest]
    /\ UNCHANGED <<tables, sess, orphaned, contested>>

\* POST /batches/{id}/confirm-all-clean: the loop over batch.jobs picks the
\* clean ones; a ConfirmError skips a job.
LoadConfirmAll(c, b) ==
    /\ req[c].op = "idle"
    /\ b \in batches
    /\ \E chosen \in SUBSET {j \in JobsOfBatch(b) :
                               /\ job[j].status = "awaiting_review"
                               /\ job[j].result.table # "flagged"} :
         /\ chosen # {}
         /\ req' = [req EXCEPT ![c] = [op |-> "confirm_all", jobs |-> chosen,
                                       seen |-> BlankRow, docs |-> {}]]
         /\ Contest(c, chosen, "confirm_all")
    /\ UNCHANGED <<tables, sess, orphaned>>

\* One commit for the whole batch: a row gone meanwhile undoes all of it.
confirm_all_clean(c) ==
    /\ req[c].op = "confirm_all"
    /\ IF req[c].jobs \subseteq jobs
       THEN /\ job' = [j \in Jobs |-> IF j \in req[c].jobs
                                      THEN [job[j] EXCEPT !.status = "confirmed"]
                                      ELSE job[j]]
            /\ Land(req[c].jobs)
       ELSE UNCHANGED <<job, live, landings>>
    /\ req' = [req EXCEPT ![c] = IdleRequest]
    /\ UNCHANGED <<documents, batches, jobs, createdAt, sess, orphaned, contested>>

_has_committed_data(d) ==
    \/ \E j \in JobsOf(d) : job[j].status = "confirmed"
    \/ d \in live

\* DELETE /batches/{id}: decide which documents go ...
LoadDeleteBatch(c, b) ==
    /\ req[c].op = "idle"
    /\ b \in batches
    /\ LET doomed == {d \in documents : BatchOf[d] = b /\ ~_has_committed_data(d)} IN
         /\ doomed # {}
         /\ req' = [req EXCEPT ![c] = [op   |-> "delete_batch",
                                       jobs |-> {j \in jobs : DocumentOf[j] \in doomed},
                                       seen |-> BlankRow, docs |-> doomed]]
    /\ UNCHANGED <<tables, sess, orphaned, contested>>

\* Mutant: the delete takes whatever references a doomed document with it.
delete_batch_cascading(c) ==
    /\ req[c].op = "delete_batch"
    /\ DropJobs({j \in jobs : DocumentOf[j] \in req[c].docs})
    /\ DropDocuments(req[c].docs \cap documents)
    /\ req' = [req EXCEPT ![c] = IdleRequest]
    /\ UNCHANGED <<createdAt, landings, sess, orphaned, contested>>

\* ... then delete them, their loaded jobs and an emptied batch.  A record or
\* a chunk that has arrived since, or a job inserted since, still references
\* its document: the foreign key refuses and the whole request rolls back.
delete_batch(c) ==
    /\ req[c].op = "delete_batch"
    /\ LET doomed == req[c].docs \cap documents IN
       IF /\ doomed \cap live = {}
          /\ \A d \in doomed : JobsOf(d) \subseteq req[c].jobs
       THEN /\ DropJobs(req[c].jobs \cap jobs)
            /\ DropDocuments(doomed)
       ELSE UNCHANGED <<jobs, job, documents, live, batches>>
    /\ req' = [req EXCEPT ![c] = IdleRequest]
    /\ UNCHANGED <<createdAt, landings, sess, orphaned, contested>>

-----------------------------------------------------------------------------
(* Specification *)

WorkerStep(w) ==
    claim_job(w) \/ LoadJob(w) \/ CompleteRun(w) \/ RollbackRun(w) \/ RecordFailure(w)

LoadStep(c) ==
    \/ \E j \in Jobs : \/ LoadPatch(c, j)
                       \/ LoadConfirm(c, j)
                       \/ LoadReextract(c, j)
                       \/ LoadReject(c, j)
                       \/ LoadRetry(c, j)
    \/ \E b \in Batches : LoadConfirmAll(c, b) \/ LoadDeleteBatch(c, b)

CommitStep(c) ==
    \/ patch_review(c)
    \/ confirm_job(c)
    \/ refuse_confirm(c)
    \/ reextract_job(c)
    \/ reject_job(c)
    \/ retry_job(c)
    \/ confirm_all_clean(c)
    \/ delete_batch(c)

OneShotStep ==
    \/ \E b \in Batches : upload_documents(b)
    \/ enqueue_backfill
    \/ \E d \in Documents : delete_document(d)

UserStep == OneShotStep \/ \E c \in Clients : LoadStep(c) \/ CommitStep(c)

SystemStep ==
    \/ \E w \in Workers : WorkerStep(w) \/ Crash(w)
    \/ \E j \in Jobs : DelayElapses(j)

Next == SystemStep \/ UserStep

Spec == Init /\ [][Next]_vars

\* A worker process keeps polling, its pipeline returns or raises (every wait
\* in it is bounded), time passes, and a handler that started finishes.
\* Users and crashes owe nothing.
Fairness ==
    /\ \A w \in Workers : WF_vars(WorkerStep(w))
    /\ \A j \in Jobs : WF_vars(DelayElapses(j))
    /\ \A c \in Clients : WF_vars(CommitStep(c))

FairSpec == Spec /\ Fairness

-----------------------------------------------------------------------------
(* Properties *)

Busy(w) == sess[w].pc # "idle"
RunsJob(w, j) == Busy(w) /\ sess[w].job = j

\* No two workers ever run the same job.
ClaimExclusive ==
    \A w1, w2 \in Workers : Busy(w1) /\ RunsJob(w2, sess[w1].job) => w1 = w2

\* An `extracting` job is being run by some worker, unless a worker died
\* holding it: no other path (a requeue, a failure, a dropped run, requests
\* that overlap) strands a job in `extracting`.
ExtractingIsRun ==
    \A j \in jobs : job[j].status = "extracting" =>
        j \in orphaned \/ \E w \in Workers : RunsJob(w, j)

\* A job waiting in the queue still has a rate-limited run to spend: the
\* counter survives the rewrites of `progress` and is reset by a manual retry
\* or a re-extract, so a queued job is never one already given up on.
AttemptsLeft ==
    \A j \in jobs : job[j].status = "pending" =>
        job[j].progress.attempts < MAX_RATE_LIMIT_ATTEMPTS

\* The reviewer's feedback is applied exactly once: no table reaches review or
\* the live tables with the feedback that asked for it still pending, however
\* many failed, requeued or retried runs lie between.
FeedbackAppliedOnce ==
    \A j \in jobs : job[j].status \in {"awaiting_review", "confirmed"} =>
        ~job[j].result.feedback

\* A job's staged payload is committed to the live tables at most once,
\* whatever workers do and however requests overlap, unless two decisions of
\* a reviewer held the job at once: neither a rejection, an edit or a delete
\* under way nor a worker's late commit reopens a job that has landed.
LandsOnce == \A j \in Jobs \ contested : landings[j] <= 1

\* A worker's commit only ever lands on a run in progress (or one rejected
\* meanwhile): it never overwrites a table under review, a confirmed job, or a
\* job queued again.
WorkerOverwrites(w) ==
    LET j == sess[w].job IN
    j \in jobs /\ job[j].status \notin {"extracting", "rejected"}

WorkersWriteOnlyTheirRuns ==
    [][\A w \in Workers : CompleteRun(w) \/ RecordFailure(w)
                             => ~WorkerOverwrites(w)]_vars

\* A job as JobStatus sees it.
StatusOf(j) ==
    IF j \in jobs THEN job[j].status
    ELSE IF createdAt[j] = 0 THEN "unused" ELSE "deleted"

Life(j) == INSTANCE JobStatus WITH
    status  <- StatusOf(j),
    running <- \E w \in Workers : RunsJob(w, j),
    landed  <- landings[j] > 0

\* Every job lives as JobStatus promises: whatever workers and requests do in
\* between, each of its statuses is reached only by a step that may reach it.
LivesAsPromised ==
    /\ \A j \in Jobs : Life(j)!Init
    /\ [][\A j \in Jobs : [Life(j)!Next]_(Life(j)!vars)]_vars

\* Live data goes with its document and no other way: clearing a queue never
\* removes any, whatever confirms commit between the batch delete's read and
\* its commit, and no worker's or request's commit undoes a confirm.
KeepsCommittedData ==
    [][\A d \in live \ live' : delete_document(d)]_vars

\* From some point on users only watch.
UsersAreQuiet == <>[][SystemStep]_vars

\* Once users are quiet every job settles by itself: the rate-limit requeue
\* cannot go round forever and no queued job is passed over forever.  Only a
\* job whose worker died stays where it was.
JobsSettle ==
    UsersAreQuiet =>
        \A j \in Jobs : <>[](j \in jobs => \/ job[j].status \in TERMINAL_STATUSES
                                           \/ j \in orphaned)

\* Whatever users do, a run that has started ends: its job leaves `extracting`
\* or is deleted, unless the worker died.
RunsEnd ==
    \A j \in Jobs : (j \in jobs /\ job[j].status = "extracting")
                      ~> (\/ j \notin jobs \/ j \in orphaned
                          \/ job[j].status # "extracting")
=============================================================================
